----------------------------- MODULE OvnToolCall -----------------------------
(***************************************************************************)
(* What an OVN tool call promises, written from the spec alone (3, 4.1,    *)
(* 4.2, 4.4, 4.5, 5, 7), with none of the stages of the code visible.      *)
(*                                                                         *)
(* A call is three steps.  Call accepts a request: one the validator       *)
(* table rejects is answered InvalidArgument at once and nothing is sent;  *)
(* any other sends the cluster exactly the argv of 4.2 (no retry: one      *)
(* argv per call).  Answer is the cluster's reply, and the outcome is a    *)
(* function of the request and that reply alone (7): Upstream,             *)
(* UpstreamToolError, InvalidArgument for a filter that does not compile, *)
(* or the window of the filtered parse of stdout (4.4).  Return hands the  *)
(* outcome back.  The filter is judged at Answer, after the cluster was    *)
(* contacted: that is what this contract promises; the stronger rule of 7  *)
(* is the separate property BadFilterNeverContactsCluster of OvnServer.   *)
(*                                                                         *)
(* Only the data abstraction of OvnCommands (user strings, argv elements)  *)
(* is used here, none of its operators that translate code.                *)
(***************************************************************************)
EXTENDS OvnCommands, FiniteSets

CONSTANTS
    Request,      \* the tool requests a caller may send
    Response      \* the replies the cluster may give to an exec

VARIABLES
    phase,    \* "idle", "pending" (waiting for the cluster) or "done"
    call,     \* the request of the current call
    sent,     \* the argv sent to the cluster, <<>> if none
    cluster,  \* the cluster's reply
    answer    \* the outcome: error kind and output

avars == <<phase, call, sent, cluster, answer>>

NoResponse == [none |-> TRUE]

NoAnswer == [err |-> "none", output |-> <<>>]

(***************************************************************************)
(* 4.1: the validator table.                                               *)
(***************************************************************************)
SafeBySpec(s) == s # EmptyString /\ s.chars \cap {"amp", "meta"} = {}

ValidBySpec(in) ==
    CASE in.tool = "ovn-show" -> in.database \in {"nbdb", "sbdb"}
      [] in.tool = "ovn-get" ->
            /\ in.database \in {"nbdb", "sbdb"}
            /\ in.table.first = "alpha"
            /\ in.table.chars \subseteq {"alpha", "word"}
            /\ in.columns = EmptyString \/ SafeBySpec(in.columns)
            /\ in.record = EmptyString \/ SafeBySpec(in.record)
      [] in.tool = "ovn-lflow-list" ->
            in.datapath = EmptyString \/ SafeBySpec(in.datapath)
      [] in.tool = "ovn-trace" ->
            /\ SafeBySpec(in.datapath)
            /\ in.microflow # EmptyString /\ "meta" \notin in.microflow.chars

(***************************************************************************)
(* 4.2: the argv of each tool.  verbFlag is defined on the four modes the  *)
(* spec names.                                                             *)
(***************************************************************************)
Optional(present, e) == IF present THEN <<e>> ELSE <<>>

BinaryFor(db) == IF db = "sbdb" THEN Lit("ovn-sbctl") ELSE Lit("ovn-nbctl")

VerbFlag(mode) ==
    CASE mode \in {"detailed", ""} -> Lit("--detailed")
      [] mode = "summary"          -> Lit("--summary")
      [] mode = "minimal"          -> Lit("--minimal")

ArgvBySpec(in) ==
    CASE in.tool = "ovn-show" -> <<BinaryFor(in.database), Lit("show")>>
      [] in.tool = "ovn-get" ->
            <<BinaryFor(in.database)>>
            \o Optional(in.columns # EmptyString,
                        [flag |-> "--columns=", value |-> in.columns])
            \o <<Lit("list"), in.table>>
            \o Optional(in.record # EmptyString, in.record)
      [] in.tool = "ovn-lflow-list" ->
            <<Lit("ovn-sbctl"), Lit("lflow-list")>>
            \o Optional(in.datapath # EmptyString, in.datapath)
      [] in.tool = "ovn-trace" ->
            <<Lit("ovn-trace"), VerbFlag(in.mode), in.datapath, in.microflow>>

(***************************************************************************)
(* 4.4 and 4.5: parse, filter (ovn-get only in list mode), window, join.   *)
(***************************************************************************)
FilterAppliesBySpec(in) ==
    \/ in.tool \in {"ovn-lflow-list", "ovn-trace"}
    \/ in.tool = "ovn-get" /\ in.record = EmptyString

\* Parse: the trimmed, non-empty lines of stdout, in order.
ParsedBySpec(stdout) ==
    LET keep(i) == stdout[i].text # ""
        idx     == {i \in 1..Len(stdout) : keep(i)}
        pos(i)  == Cardinality({j \in idx : j <= i})
    IN  [k \in 1..Cardinality(idx) |->
            stdout[CHOOSE i \in idx : pos(i) = k].text]

\* The expected output of a request whose exec printed stdout, stderr "".
AnswerBySpec(in, stdout) ==
    LET parsed   == ParsedBySpec(stdout)
        filtered == IF FilterAppliesBySpec(in) /\ in.filter \in ValidPatterns
                    THEN SelectSeq(parsed, LAMBDA l : l \in MatchSet[in.filter])
                    ELSE parsed
        window   == IF in.maxLines <= 0 THEN DefaultMaxLines ELSE in.maxLines
        lines    == SubSeq(filtered, 1, IF Len(filtered) < window
                                        THEN Len(filtered) ELSE window)
    IN  IF in.tool = "ovn-lflow-list" THEN lines
        ELSE [i \in 1..(2 * Len(lines) - 1) |->
                 IF i % 2 = 1 THEN lines[(i + 1) \div 2] ELSE NL]

\* 4.3 and 7: the outcome of a call from the cluster's reply.
Outcome(in, r) ==
    CASE r.err            -> [err |-> "exec_failed", output |-> <<>>]
      [] r.stderr # ""    -> [err |-> "tool_error", output |-> <<>>]
      [] FilterAppliesBySpec(in) /\ in.filter \in InvalidPatterns
                          -> [err |-> "bad_filter", output |-> <<>>]
      [] OTHER            -> [err |-> "none", output |-> AnswerBySpec(in, r.stdout)]

(***************************************************************************)
(* The steps of a call.                                                    *)
(***************************************************************************)
Init ==
    /\ phase = "idle"
    /\ call = [tool |-> "none"]
    /\ sent = <<>>
    /\ cluster = NoResponse
    /\ answer = NoAnswer

Call(in) ==
    /\ phase = "idle"
    /\ call' = in
    /\ cluster' = NoResponse
    /\ IF ValidBySpec(in)
       THEN /\ phase' = "pending"
            /\ sent' = ArgvBySpec(in)
            /\ answer' = NoAnswer
       ELSE /\ phase' = "done"
            /\ sent' = <<>>
            /\ answer' = [err |-> "invalid_argument", output |-> <<>>]

Answer(r) ==
    /\ phase = "pending"
    /\ phase' = "done"
    /\ cluster' = r
    /\ answer' = Outcome(call, r)
    /\ UNCHANGED <<call, sent>>

Return ==
    /\ phase = "done"
    /\ phase' = "idle"
    /\ call' = [tool |-> "none"]
    /\ sent' = <<>>
    /\ cluster' = NoResponse
    /\ answer' = NoAnswer

Next ==
    \/ \E in \in Request : Call(in)
    \/ \E r \in Response : Answer(r)
    \/ Return

(***************************************************************************)
(* Spec 4.3 and 5: the cluster client eventually answers an exec (with a   *)
(* reply or an error; its deadline is the host's), and the stages after    *)
(* it run to completion, so a call that has been made is answered.         *)
(***************************************************************************)
Fairness ==
    /\ WF_avars(\E r \in Response : Answer(r))
    /\ WF_avars(Return)

Spec == Init /\ [][Next]_avars /\ Fairness

=============================================================================
