------------------------------ MODULE OvnServer ------------------------------
(***************************************************************************)
(* The OVN tool handlers of pkg/ovn/mcp/mcp.go (ovn-show, ovn-get,         *)
(* ovn-lflow-list, ovn-trace) and runCommand of commands.go, dispatching   *)
(* through ExecPod of pkg/kubernetes/mcp/pods.go.                          *)
(*                                                                         *)
(* A handler runs without suspending until runCommand calls ExecPod, and   *)
(* again without suspending from the moment ExecPod returns.  So each      *)
(* handler is two actions: the handler action (validate, build the argv,  *)
(* issue the exec, or return a validation error) and ExecReturn (the       *)
(* cluster's answer, the stderr check, parse, filter, window, join).       *)
(* Invocations share no mutable state, so the host's invocations are       *)
(* modelled one after another: a handler starts when the previous call    *)
(* has been answered (Reply).                                              *)
(***************************************************************************)
EXTENDS OvnCommands, FiniteSets

CONSTANTS
    Strings,      \* user strings fed to table/record/columns/datapath/microflow
    Databases,    \* values of the database field, valid or not
    Modes,        \* values of the trace mode field, valid or not
    MaxLines,     \* values of max_lines
    Stdouts,      \* standard outputs the pod's OVN utility may print
    Stderrs,      \* standard errors it may print; "" is none
    Targets       \* pod coordinates (NamespacedNameParams) of requests

ASSUME Strings \subseteq UserString /\ EmptyString \in Strings
ASSUME Stdouts \subseteq Seq(RawLine) /\ "" \in Stderrs
ASSUME Targets \subseteq [namespace: STRING, name: STRING]

VARIABLES
    pc,       \* "idle", "exec" (suspended in ExecPod) or "done"
    req,      \* the tool request being served
    issued,   \* the argvs this call has passed to ExecPod
    resp,     \* what ExecPod returned to this call
    out       \* what the handler returned: error kind and output

vars == <<pc, req, issued, resp, out>>

(***************************************************************************)
(* The request types of pkg/ovn/types/command.go; each embeds the pod     *)
(* coordinate NamespacedNameParams, which runCommand passes to ExecPod.   *)
(***************************************************************************)
ShowParams ==
    [tool: {"ovn-show"}, target: Targets, database: Databases, maxLines: MaxLines]

GetParams ==
    [tool: {"ovn-get"}, target: Targets, database: Databases, table: Strings, record: Strings,
     columns: Strings, filter: Pattern, maxLines: MaxLines]

LogicalFlowListParams ==
    [tool: {"ovn-lflow-list"}, target: Targets, datapath: Strings, filter: Pattern,
     maxLines: MaxLines]

OVNTraceParams ==
    [tool: {"ovn-trace"}, target: Targets, datapath: Strings, microflow: Strings, mode: Modes,
     filter: Pattern, maxLines: MaxLines]

Request == ShowParams \cup GetParams \cup LogicalFlowListParams \cup OVNTraceParams

\* ExecPod's return: a transport error, or stdout and stderr.
ExecResponse ==
    [err: {TRUE}, stdout: {<<>>}, stderr: {""}] \cup
    [err: {FALSE}, stdout: Stdouts, stderr: Stderrs]

NoResponse == [none |-> TRUE]

ErrorKind == {"none", "invalid_argument", "exec_failed", "tool_error", "bad_filter"}

\* isNil: the flows slice of an ovn-lflow-list result is nil (JSON null).
NoResult == [err |-> "none", output |-> <<>>, isNil |-> FALSE]

TypeOK ==
    /\ pc \in {"idle", "exec", "done"}
    /\ pc # "idle" => req \in Request
    /\ issued \subseteq Seq([lit: STRING] \cup UserString
                            \cup [flag: {"--columns="}, value: UserString])
    /\ resp \in ExecResponse \cup {NoResponse}
    /\ out.err \in ErrorKind
    /\ out.output \in Seq(Text \cup {NL})
    /\ out.isNil \in BOOLEAN

Init ==
    /\ pc = "idle"
    /\ req = [tool |-> "none"]
    /\ issued = {}
    /\ resp = NoResponse
    /\ out = NoResult

(***************************************************************************)
(* Common steps of the handlers.                                           *)
(***************************************************************************)
\* A new invocation is served once the previous one has returned.
Accept(in) ==
    /\ pc = "idle"
    /\ req' = in
    /\ resp' = NoResponse

\* runCommand issues ExecPod and the handler suspends.
IssueExec(argv) ==
    /\ pc' = "exec"
    /\ issued' = {argv}
    /\ out' = NoResult

\* A validator returned an error: the handler returns it without exec.
RejectInput ==
    /\ pc' = "done"
    /\ issued' = {}
    /\ out' = [err |-> "invalid_argument", output |-> <<>>, isNil |-> FALSE]

(***************************************************************************)
(* ovn-show                                                                *)
(***************************************************************************)
ShowArgv(in) == <<GetDBCommand(in.database), Lit("show")>>

Show(in) ==
    /\ Accept(in)
    /\ IF ValidateDatabase(in.database)
       THEN IssueExec(ShowArgv(in))
       ELSE RejectInput

(***************************************************************************)
(* ovn-get: database, table and columns are validated first; the record   *)
(* only when one is given, after the argv prefix is built.                 *)
(***************************************************************************)
GetValid(in) ==
    /\ ValidateDatabase(in.database)
    /\ ValidateTableName(in.table)
    /\ ValidateColumnSpec(in.columns)
    /\ in.record # EmptyString => ValidateRecordName(in.record)

GetArgvColumnsAfterList(in) ==
    <<GetDBCommand(in.database), Lit("list")>>
    \o (IF in.columns # EmptyString THEN <<ColumnsFlag(in.columns)>> ELSE <<>>)
    \o <<in.table>>
    \o (IF in.record # EmptyString THEN <<in.record>> ELSE <<>>)

GetArgv(in) ==
    <<GetDBCommand(in.database)>>
    \o (IF in.columns # EmptyString THEN <<ColumnsFlag(in.columns)>> ELSE <<>>)
    \o <<Lit("list"), in.table>>
    \o (IF in.record # EmptyString THEN <<in.record>> ELSE <<>>)

Get(in) ==
    /\ Accept(in)
    /\ IF GetValid(in) THEN IssueExec(GetArgv(in)) ELSE RejectInput

(***************************************************************************)
(* ovn-lflow-list: the datapath is optional and validated only if given.  *)
(***************************************************************************)
ListLogicalFlowsValid(in) ==
    in.datapath # EmptyString => ValidateDatapath(in.datapath)

ListLogicalFlowsArgv(in) ==
    <<Lit("ovn-sbctl"), Lit("lflow-list")>>
    \o (IF in.datapath # EmptyString THEN <<in.datapath>> ELSE <<>>)

ListLogicalFlows(in) ==
    /\ Accept(in)
    /\ IF ListLogicalFlowsValid(in)
       THEN IssueExec(ListLogicalFlowsArgv(in))
       ELSE RejectInput

(***************************************************************************)
(* ovn-trace: the verbosity flag comes from a switch on the mode with no   *)
(* default case.                                                           *)
(***************************************************************************)
TraceValid(in) ==
    ValidateDatapath(in.datapath) /\ ValidateMicroflow(in.microflow)

TraceModeFlag(mode) ==
    CASE mode = "summary"               -> <<Lit("--summary")>>
      [] mode = "minimal"               -> <<Lit("--minimal")>>
      [] mode \in {"detailed", ""}      -> <<Lit("--detailed")>>
      [] OTHER                          -> <<>>

TraceArgv(in) ==
    <<Lit("ovn-trace")>> \o TraceModeFlag(in.mode) \o <<in.datapath, in.microflow>>

Trace(in) ==
    /\ Accept(in)
    /\ IF TraceValid(in) THEN IssueExec(TraceArgv(in)) ELSE RejectInput

(***************************************************************************)
(* ExecPod returns and the handler runs to completion: runCommand turns a  *)
(* transport error or any stderr into an error and otherwise parses        *)
(* stdout; then the handler filters (not ovn-show, and ovn-get only in     *)
(* list mode), limits, and joins (ovn-lflow-list returns the lines).       *)
(***************************************************************************)
RunCommand(r) ==
    IF r.err THEN [ok |-> FALSE, kind |-> "exec_failed"]
    ELSE IF r.stderr # "" THEN [ok |-> FALSE, kind |-> "tool_error"]
    ELSE [ok |-> TRUE, lines |-> ParseOutput(r.stdout)]

FilterApplies(in) ==
    CASE in.tool = "ovn-show" -> FALSE
      [] in.tool = "ovn-get"  -> in.record = EmptyString
      [] OTHER                -> TRUE

ShapeOutput(in, lines) ==
    IF in.tool = "ovn-lflow-list"
    THEN [output |-> lines.elems, isNil |-> lines.isNil]
    ELSE [output |-> JoinLines(lines), isNil |-> FALSE]

HandleOutput(in, r) ==
    LET rc == RunCommand(r)
        f  == IF FilterApplies(in) THEN FilterLines(rc.lines, in.filter)
                                   ELSE [ok |-> TRUE, lines |-> rc.lines]
        shaped == ShapeOutput(in, LimitLines(f.lines, in.maxLines))
    IN  IF ~rc.ok THEN [err |-> rc.kind, output |-> <<>>, isNil |-> FALSE]
        ELSE IF ~f.ok THEN [err |-> "bad_filter", output |-> <<>>, isNil |-> FALSE]
        ELSE [err |-> "none", output |-> shaped.output, isNil |-> shaped.isNil]

ExecReturn(r) ==
    /\ pc = "exec"
    /\ pc' = "done"
    /\ resp' = r
    /\ out' = HandleOutput(req, r)
    /\ UNCHANGED <<req, issued>>

\* The handler's result is delivered to the host; the server is free again.
Reply ==
    /\ pc = "done"
    /\ pc' = "idle"
    /\ req' = [tool |-> "none"]
    /\ issued' = {}
    /\ resp' = NoResponse
    /\ out' = NoResult

Next ==
    \/ Reply
    \/ \E in \in ShowParams : Show(in)
    \/ \E in \in GetParams : Get(in)
    \/ \E in \in LogicalFlowListParams : ListLogicalFlows(in)
    \/ \E in \in OVNTraceParams : Trace(in)
    \/ \E r \in ExecResponse : ExecReturn(r)

Spec == Init /\ [][Next]_vars

(***************************************************************************)
(* The detailed specification with the fairness the code justifies: the   *)
(* cluster client eventually returns from ExecPod (the one suspension      *)
(* point; its deadline is the host's request context), and the handler,    *)
(* which never waits on anything else, then returns its result.            *)
(***************************************************************************)
FairSpec ==
    /\ Spec
    /\ WF_vars(\E r \in ExecResponse : ExecReturn(r))
    /\ WF_vars(Reply)

(***************************************************************************)
(* The refinement mapping to the contract OvnToolCall: a call suspended in *)
(* ExecPod is a pending call, the single argv passed to ExecPod is the     *)
(* argv sent, and ExecPod's return is the cluster's reply.                 *)
(***************************************************************************)
OTC == INSTANCE OvnToolCall
           WITH Request <- Request,
                Response <- ExecResponse,
                phase <- IF pc = "exec" THEN "pending" ELSE pc,
                call <- req,
                sent <- IF issued = {} THEN <<>> ELSE CHOOSE a \in issued : TRUE,
                cluster <- resp,
                answer <- [err |-> out.err, output |-> out.output]

(***************************************************************************)
(* Properties.                                                             *)
(***************************************************************************)

\* Injection safety (spec 3, 4.1): no argv element that a handler passes to
\* ExecPod carries a shell metacharacter, and '&' reaches ExecPod only as
\* the microflow, the last element of an ovn-trace argv; the --columns= token
\* carries neither.
ArgvNoShellMeta ==
    \A argv \in issued : \A i \in 1..Len(argv) :
        LET e == argv[i] IN
        /\ IsUserArg(e) =>
              /\ "meta" \notin e.chars
              /\ "amp" \in e.chars => argv[1] = Lit("ovn-trace") /\ i = Len(argv)
        /\ IsColumnsFlag(e) => e.value.chars \cap {"amp", "meta"} = {}

\* Validation gate (spec 8.7 and 7): a handler contacts the cluster only for
\* a request every designated validator accepts, and it reports an invalid
\* argument only for a request one of them rejects.
ValidationMatchesSpec ==
    /\ pc # "idle" /\ issued # {} => OTC!ValidBySpec(req)
    /\ pc = "done" /\ out.err = "invalid_argument" => ~OTC!ValidBySpec(req)

\* Answer faithfulness (spec 4.3-4.5): a handler answers successfully only
\* when ExecPod returned no error and an empty stderr, and then its output is
\* the parsed, filtered (ovn-get only in list mode) and windowed stdout of
\* that exec, joined with newlines except for ovn-lflow-list.
AnswerMatchesExec ==
    pc = "done" /\ out.err = "none" =>
        /\ resp # NoResponse
        /\ ~resp.err /\ resp.stderr = ""
        /\ out.output = OTC!AnswerBySpec(req, resp.stdout)

\* Refinement (spec 4.1-4.5, 5, 7): every behaviour of the handlers, under
\* the fairness of FairSpec, is a behaviour of the contract: a rejected
\* request sends nothing; an accepted one sends exactly the argv of 4.2
\* once; its outcome is the one 7 and 4.4 give for ExecPod's return; and
\* every call is eventually answered.
ImplementsOvnToolCall == OTC!Spec

\* Flows are a list (spec 3: an empty answer is an empty output/flows,
\* "never a null/absent field"; the comments at parseOutput and
\* filterLines: "Initialize with empty slice to ensure valid JSON"): a
\* successful ovn-lflow-list answer never carries a nil flows slice.
FlowsNeverNull ==
    pc = "done" /\ out.err = "none" => ~out.isNil

(***************************************************************************)
(* What the spec says and the code does not do (violation runs).           *)
(***************************************************************************)

\* Spec 7 (and the ExecuteWithMatch contract of 4.4): a filter regex that
\* does not compile is an InvalidArgument that "does not contact the
\* cluster".  The OVN handlers call runCommand before filterLines compiles
\* the pattern.
BadFilterNeverContactsCluster ==
    pc = "done" /\ out.err = "bad_filter" => issued = {}

\* Spec 4.2 and 9: the ovn-trace argv is ["ovn-trace", verbFlag(mode),
\* datapath, microflow], an unrecognised mode being treated as --detailed.
\* The code's switch on in.Mode has no default case.
TraceArgvHasVerbosityFlag ==
    \A argv \in issued :
        argv[1] = Lit("ovn-trace") =>
            argv[2] \in {Lit("--detailed"), Lit("--summary"), Lit("--minimal")}

\* Spec 4.1: validation rejects any input that, placed unchanged in the
\* argv, would violate the semantics of the OVN utility.  ovn-trace reads
\* its options with a permuting getopt_long, so a datapath or microflow
\* that begins with '-' and that Trace appends after the verbosity flag
\* is parsed as an option, not as the positional it stands for.
\* (ovn-nbctl and ovn-sbctl stop at the command name, so a record after
\* "list T" stays a positional there.)
NoOptionLikeArgument ==
    \A argv \in issued :
        argv[1] = Lit("ovn-trace") =>
            \A i \in 2..Len(argv) : IsUserArg(argv[i]) => argv[i].first # "dash"


\* Spec 3 and 8.7: the namespace and name of a PodTarget are both required
\* and non-empty, and no exec is issued for a request that fails
\* validation.  No OVN handler checks them, and runCommand hands
\* in.NamespacedNameParams to ExecPod as it is.
PodTargetRequiredBeforeExec ==
    pc # "idle" /\ issued # {} => req.target.namespace # "" /\ req.target.name # ""

=============================================================================
