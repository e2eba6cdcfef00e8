------------------------------- MODULE PodLogs -------------------------------
(***************************************************************************)
(* The pod-logs tools: GetPodLogs of pkg/kubernetes/mcp/pods.go (logs from *)
(* the cluster client) and GetPodLogs of pkg/must-gather/mcp/pods.go (logs *)
(* printed by omc from a must-gather bundle).                              *)
(*                                                                         *)
(* Both run ExecuteWithMatch around a fetch function: the pattern is       *)
(* compiled, the fetch runs (the one suspension point), its lines are      *)
(* stripped of blank lines and matched, and Apply windows the result.      *)
(* So each handler is a start action and a return action.  Invocations     *)
(* share no state and are served one after another.                        *)
(***************************************************************************)
EXTENDS LogLines

CONSTANTS
    Names,        \* pod names in requests, "" included
    Counts,       \* values of head and tail (Go ints: negatives are accepted)
    ClientLogs,   \* slices the cluster client may return
    OmcOutputs    \* omc outputs, as their "\n"-separated segments

ASSUME "" \in Names /\ 0 \in Counts /\ Counts \subseteq Int
ASSUME \A o \in OmcOutputs : o \in Seq(RawLine) /\ Len(o) >= 1

VARIABLES
    pc,       \* "idle", "fetch" (suspended in the fetch) or "done"
    req,      \* the request being served
    fetched,  \* whether this call has run its fetch function
    resp,     \* what the fetch returned
    out       \* what the handler returned: error kind and logs

vars == <<pc, req, fetched, resp, out>>

HeadTailParams == [head: Counts, tail: Counts, applyTailFirst: BOOLEAN]

\* The fields of GetPodLogsParams the handlers act on; namespace, container,
\* previous, must-gather path and rotated only select what the fetch returns.
GetPodLogsParams ==
    [tool: {"pod-logs"}, name: Names, pattern: Pattern, window: HeadTailParams]

MustGatherGetPodLogsParams ==
    [tool: {"must-gather-pod-logs"}, name: Names, pattern: Pattern,
     window: HeadTailParams]

\* clientSet.GetPodLogs returns lines or an error.
ClientResponse ==
    [err: {TRUE}, lines: {NilSlice}] \cup [err: {FALSE}, lines: ClientLogs]

\* omcClient.GetPodLogs returns its output or an error.
OmcResponse ==
    [err: {TRUE}, output: {<<[text |-> "", padded |-> FALSE]>>}] \cup
    [err: {FALSE}, output: OmcOutputs]

NoResponse == [none |-> TRUE]

NoResult == [err |-> "none", logs |-> NilSlice]

TypeOK ==
    /\ pc \in {"idle", "fetch", "done"}
    /\ pc # "idle" => req \in GetPodLogsParams \cup MustGatherGetPodLogsParams
    /\ fetched \in BOOLEAN
    /\ resp \in ClientResponse \cup OmcResponse \cup {NoResponse}
    /\ out.err \in {"none", "invalid_argument", "bad_pattern", "fetch_failed"}
    /\ out.logs \in [isNil: BOOLEAN, elems: Seq(RawLine)]

Init ==
    /\ pc = "idle"
    /\ req = [tool |-> "none"]
    /\ fetched = FALSE
    /\ resp = NoResponse
    /\ out = NoResult

Accept(in) ==
    /\ pc = "idle"
    /\ req' = in
    /\ resp' = NoResponse

Fail(kind) ==
    /\ pc' = "done"
    /\ fetched' = FALSE
    /\ out' = [err |-> kind, logs |-> NilSlice]

\* ExecuteWithMatch: compile the pattern, then run the fetch function.
ExecuteWithMatch(in) ==
    IF PatternRejected(in.pattern)
    THEN Fail("bad_pattern")
    ELSE /\ pc' = "fetch"
         /\ fetched' = TRUE
         /\ out' = NoResult

GetPodLogs(in) ==
    /\ Accept(in)
    /\ ExecuteWithMatch(in)

\* The must-gather handler first requires a pod name.
MustGatherGetPodLogs(in) ==
    /\ Accept(in)
    /\ IF in.name = "" THEN Fail("invalid_argument") ELSE ExecuteWithMatch(in)

\* The rest of the handler once the fetch has produced its lines.
Finish(in, lines) ==
    [err |-> "none",
     logs |-> Apply(in.window, MatchLines(in.pattern, StripEmptyLines(lines)),
                    DefaultMaxLines)]

GetPodLogsReturnIgnoresError(r) ==
    /\ pc = "fetch" /\ req.tool = "pod-logs"
    /\ pc' = "done"
    /\ resp' = r
    /\ out' = Finish(req, r.lines)
    /\ UNCHANGED <<req, fetched>>

GetPodLogsReturn(r) ==
    /\ pc = "fetch" /\ req.tool = "pod-logs"
    /\ pc' = "done"
    /\ resp' = r
    /\ out' = IF r.err THEN [err |-> "fetch_failed", logs |-> NilSlice]
                       ELSE Finish(req, r.lines)
    /\ UNCHANGED <<req, fetched>>

\* strings.Split(output, "\n") gives a non-nil slice of the segments.
MustGatherGetPodLogsReturn(r) ==
    /\ pc = "fetch" /\ req.tool = "must-gather-pod-logs"
    /\ pc' = "done"
    /\ resp' = r
    /\ out' = IF r.err THEN [err |-> "fetch_failed", logs |-> NilSlice]
                       ELSE Finish(req, Slice(r.output))
    /\ UNCHANGED <<req, fetched>>

Reply ==
    /\ pc = "done"
    /\ pc' = "idle"
    /\ req' = [tool |-> "none"]
    /\ fetched' = FALSE
    /\ resp' = NoResponse
    /\ out' = NoResult

Next ==
    \/ Reply
    \/ \E in \in GetPodLogsParams : GetPodLogs(in)
    \/ \E in \in MustGatherGetPodLogsParams : MustGatherGetPodLogs(in)
    \/ \E r \in ClientResponse : GetPodLogsReturn(r)
    \/ \E r \in OmcResponse : MustGatherGetPodLogsReturn(r)

Spec == Init /\ [][Next]_vars

(***************************************************************************)
(* The fairness the code justifies: the log source eventually replies      *)
(* (the fetch is the one suspension point; its deadline is the host's),    *)
(* and the handler then returns without waiting on anything else.          *)
(***************************************************************************)
FairSpec ==
    /\ Spec
    /\ WF_vars(\E r \in ClientResponse : GetPodLogsReturn(r))
    /\ WF_vars(\E r \in OmcResponse : MustGatherGetPodLogsReturn(r))
    /\ WF_vars(Reply)

(***************************************************************************)
(* The refinement mapping to the contract LogToolCall: a call suspended in *)
(* its fetch function is a pending call, the fetch's return is the         *)
(* source's reply, and the answer is the error kind and the logs' lines.  *)
(***************************************************************************)
LTC == INSTANCE LogToolCall
           WITH Request <- GetPodLogsParams \cup MustGatherGetPodLogsParams,
                Response <- ClientResponse \cup OmcResponse,
                phase <- IF pc = "fetch" THEN "pending" ELSE pc,
                call <- req,
                source <- resp,
                answer <- [err |-> out.err, logs |-> out.logs.elems]

(***************************************************************************)
(* Properties.                                                             *)
(***************************************************************************)

\* Refinement (spec 4.4, 5, 7): under FairSpec every behaviour of the two
\* handlers is one of the contract: a bad pattern is rejected before the
\* source is read, a source error is surfaced, lines give the spec's
\* window of the non-blank matching lines, and every call is answered.
ImplementsLogToolCall == LTC!Spec

\* Log window (spec 4.4 and 8.3-8.5): a successful pod-logs answer is the
\* head/tail window the spec's table gives for the request, taken from the
\* non-blank fetched lines that match the pattern, in their order.
LogsMatchSpec ==
    pc = "done" /\ out.err = "none" =>
        /\ resp # NoResponse /\ ~resp.err
        /\ out.logs.elems = LTC!WindowBySpec(req.window,
                                LTC!SelectedBySpec(req, LTC!FetchedLines(resp)))

\* Pod name required (the pod-logs tool description in
\* pkg/kubernetes/mcp/mcp.go: "name (required)"; spec 3: a pod target's name
\* is non-empty): no log source is read for a request without a name.  The
\* must-gather handler checks it; the live GetPodLogs passes it on.
PodNameRequired ==
    fetched => req.name # ""

=============================================================================
