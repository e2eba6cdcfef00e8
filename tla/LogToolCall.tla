----------------------------- MODULE LogToolCall -----------------------------
(***************************************************************************)
(* What a pod-logs call promises, from the spec (4.4, 5, 7, 8.3-8.5) and  *)
(* the tools' descriptions, with no stage of the code visible.             *)
(*                                                                         *)
(* Call accepts a request.  A pattern that does not compile is an         *)
(* InvalidArgument and the log source is not read (7).  A request with no *)
(* pod name may be rejected (the tool descriptions mark name "required"); *)
(* the contract allows it and does not demand it.  Otherwise the source   *)
(* is read once.  Answer is the source's reply: an error is surfaced, and *)
(* lines give the head/tail window of 4.4 over the non-blank lines that   *)
(* match the pattern.  Return hands the outcome back.                      *)
(*                                                                         *)
(* Answers carry the logs as a sequence: whether an empty answer is null  *)
(* or [] is kept by PodLogs (out.logs.isNil) but not stated here.         *)
(***************************************************************************)
EXTENDS LogLines

CONSTANTS
    Request,      \* the pod-logs requests a caller may send
    Response      \* the replies of the log sources (client or omc)

VARIABLES
    phase,    \* "idle", "pending" (reading the log source) or "done"
    call,     \* the request of the current call
    source,   \* the log source's reply
    answer    \* the outcome: error kind and the log lines

avars == <<phase, call, source, answer>>

NoResponse == [none |-> TRUE]

NoAnswer == [err |-> "none", logs |-> <<>>]

(***************************************************************************)
(* 4.4: the windowing table, the blank-line rule and the regex filter.     *)
(***************************************************************************)
MinOf(a, b) == IF a < b THEN a ELSE b

\* The rows of the table as index ranges of L.  The table has rows for
\* counts >= 0 only; a negative count is "set" but, by the contractual
\* saturation of head and tail (n <= 0 returns L), bounds nothing.
Bound(k, n) == IF k < 0 THEN n ELSE k

WindowBySpec(h, L) ==
    LET n  == Len(L)
        hd == Bound(h.head, n)
        tl == Bound(h.tail, n)
    IN
    CASE hd = 0 /\ tl = 0 -> SubSeq(L, 1, MinOf(n, DefaultMaxLines))
      [] hd > 0 /\ tl = 0 -> SubSeq(L, 1, MinOf(n, hd))
      [] hd = 0 /\ tl > 0 -> SubSeq(L, n - MinOf(n, tl) + 1, n)
      [] ~h.applyTailFirst ->
            LET a == MinOf(n, hd) IN SubSeq(L, a - MinOf(a, tl) + 1, a)
      [] h.applyTailFirst ->
            LET s == n - MinOf(n, tl) + 1
            IN  SubSeq(L, s, s + MinOf(n - s + 1, hd) - 1)

\* The fetched lines, blank ones dropped, matching the pattern if any.
SelectedBySpec(in, fetchedLines) ==
    SelectSeq(fetchedLines,
              LAMBDA l : /\ l.text # ""
                         /\ in.pattern = NoPattern \/ l.text \in MatchSet[in.pattern])

\* The lines of a reply: the client's slice, or omc's output split on "\n".
FetchedLines(r) == IF "lines" \in DOMAIN r THEN r.lines.elems ELSE r.output

Outcome(in, r) ==
    IF r.err THEN [err |-> "fetch_failed", logs |-> <<>>]
    ELSE [err |-> "none",
          logs |-> WindowBySpec(in.window, SelectedBySpec(in, FetchedLines(r)))]

(***************************************************************************)
(* The steps of a call.                                                    *)
(***************************************************************************)
Init ==
    /\ phase = "idle"
    /\ call = [tool |-> "none"]
    /\ source = NoResponse
    /\ answer = NoAnswer

Reject(kind) ==
    /\ phase' = "done"
    /\ answer' = [err |-> kind, logs |-> <<>>]

Call(in) ==
    /\ phase = "idle"
    /\ call' = in
    /\ source' = NoResponse
    /\ \/ in.pattern \in InvalidPatterns /\ Reject("bad_pattern")
       \/ in.name = "" /\ Reject("invalid_argument")
       \/ /\ in.pattern \notin InvalidPatterns
          /\ phase' = "pending"
          /\ answer' = NoAnswer

Answer(r) ==
    /\ phase = "pending"
    /\ phase' = "done"
    /\ source' = r
    /\ answer' = Outcome(call, r)
    /\ UNCHANGED call

Return ==
    /\ phase = "done"
    /\ phase' = "idle"
    /\ call' = [tool |-> "none"]
    /\ source' = NoResponse
    /\ answer' = NoAnswer

Next ==
    \/ \E in \in Request : Call(in)
    \/ \E r \in Response : Answer(r)
    \/ Return

\* Spec 5: the log source eventually replies (its deadline is the host's),
\* and the stages after it run to completion.
Fairness ==
    /\ WF_avars(\E r \in Response : Answer(r))
    /\ WF_avars(Return)

Spec == Init /\ [][Next]_avars /\ Fairness

=============================================================================
