# TLA+ models of the ovn-kubernetes MCP server

This directory holds TLA+ models of the OVN tools and the pod-logs tools
of the server in `src/`, the TLC configurations that check them, and `PROJECT.json`, which
lists each component, run, mutant, source mapping, finding and hazard.

## 1. Inventory

### Components and their state

| Component | Source | State it keeps | Operations |
|---|---|---|---|
| Parameter validators | `pkg/ovn/mcp/commands.go` | none (two compiled regexes) | `validateDatabase`, `validateTableName`, `validateSafeString` (record, datapath, columns), `validateMicroflow` |
| Command builder | `pkg/ovn/mcp/mcp.go` | none | the argv each handler builds, `getDBCommand` |
| Exec dispatcher | `commands.go` `runCommand`, `pkg/kubernetes/mcp/pods.go` `ExecPod` | none; borrows the cluster client | exec in pod, stderr check, parse |
| OVN output pipeline | `commands.go` | none | `parseOutput`, `filterLines`, `limitLines`, `strings.Join` |
| OVN tool handlers | `mcp.go`, `pkg/ovn/types/command.go` | request-scoped only | `Show`, `Get`, `ListLogicalFlows`, `Trace` |
| Log line utilities | `pkg/utils/head_tail.go`, `pattern.go`, `utils.go` | none | `HeadTailParams.Apply`, `head`, `tail`, `ExecuteWithMatch`, `StripEmptyLines`, `GetGitRepositoryRoot` |
| Pod-logs tools | `pkg/kubernetes/mcp/pods.go`, `pkg/must-gather/mcp/pods.go` | none | `GetPodLogs` (live client / omc output) |
| Registration, construction | `pkg/*/mcp/mcp.go` | the client set | `AddTools`, `NewMCPServer` |
| README generator | `hack/gen-readme-tools.go` | README.md on disk | `main` (mode inference, tool reading, tables), `extractTools`, `updateREADME`, `extractDescription`, `stripFormatVerbs`, `firstLine`, `escapeTableCell` |

### How the components interact

A tool call arrives from the MCP runtime at a registered handler. An OVN
handler validates its fields, builds an argv, and calls `runCommand`, which
calls the Kubernetes server's `ExecPod`, which calls the cluster client.
That call is the only point where a handler suspends. When it returns,
`runCommand` fails on a transport error or on any stderr. Otherwise it parses
stdout into trimmed, non-empty lines. The handler then filters the lines
(not `ovn-show`; `ovn-get` only in list mode), windows them with
`limitLines`, and joins them (`ovn-lflow-list` returns the lines unjoined).
The log tools run the same stages through the `utils` helpers:
`ExecuteWithMatch` wraps the fetch, and `HeadTailParams.Apply` windows.
Invocations share no mutable state.

### What is hard

- **Ordering of validation, exec and filter compilation.** Validation must
  happen before exec. The OVN handlers compile the filter after exec, while
  `ExecuteWithMatch` compiles it before the fetch.
- **Injection.** Two denylists differ only in `&`. Table names use an
  allowlist. Nothing stops a datapath or microflow that starts with `-`,
  and ovn-trace parses its argv with a permuting `getopt_long`.
- **Partial failure of exec.** An exec can succeed with stdout and still
  print a stderr.
- **Numeric edges.** `max_lines <= 0` selects the default window. A window
  of at least the line count returns everything. A negative head or tail is
  not rejected.
- **Cancellation and hangs.** These belong to the client and the host
  context. No deadline is set in this repository.

### What makes each component correct

- Validators: each accepts exactly what the spec's table (section 4.1) accepts.
- Builder and dispatcher: no shell metacharacter reaches an argv, and `&`
  reaches it only in the microflow. No exec happens for an invalid request.
  The trace argv has a verbosity flag. No datapath or microflow is parsed as
  an option of ovn-trace.
- Pipeline and handlers: a successful answer is exactly
  window(filter(parse(stdout))) of its own exec. Any transport error or
  stderr is a failure. An invalid filter is rejected without contacting the
  cluster.
- Log utilities and pod-logs tools: `Apply` matches the spec's head/tail
  table, negative counts included. Blank lines are dropped before matching
  and windowing. A pattern that does not compile is rejected before the
  fetch. (The spec's "a list, never null" rule is checked for the OVN
  flows, by `FlowsNeverNull`; a pod-logs answer can be null, see the
  hazards below.)

## 2. Modules

| Module | Models | Notes |
|---|---|---|
| `LineText` | shared line and regex abstraction | `RawLine`, `TrimSpace`, `MatchString`, `Pattern`, Go slices (`Slice`, `NilSlice`); the constants both tool families use. |
| `OvnCommands` | `commands.go` helpers | Pure operators: validators, `getDBCommand`, parse/filter/limit, join. |
| `OvnServer` | `mcp.go` handlers, `runCommand`, `ExecPod` | State machine. It `EXTENDS OvnCommands`. |
| `OvnToolCall` | the contract of an OVN tool call, from the spec | Abstract: `Call`, `Answer`, `Return`; validator table, argv and answer by the spec. |
| `MCOvnServer` | model values and bounds for `OvnServer` | |
| `LogLines` | `pkg/utils`: `StripEmptyLines`, `ExecuteWithMatch`, `head`, `tail`, `Apply` | Pure operators over Go slices. |
| `PodLogs` | both `GetPodLogs` handlers (live client, must-gather `omc`) | State machine. It `EXTENDS LogLines`. |
| `LogToolCall` | the contract of a pod-logs call, from the spec | Abstract: `Call`, `Answer`, `Return`; head/tail table by the spec. |
| `MCPodLogs` | model values and bounds for `PodLogs` | |
| `GitRoot` | `utils.go` `GetGitRepositoryRoot` | State machine: `Getwd`, one `Step` per loop iteration, over a constant directory tree. |
| `MCGitRoot` | a four-directory file system for `GitRoot` | |
| `ToolTable` | `gen-readme-tools.go` `main` up to the generated section, `inferModesFromMain`, `collectPackagesInOrder`, `pkgDisplayName` | State machine: `InferModes`, one `ReadTools` per loop iteration, `WriteTables`. |
| `MCToolTable` | three server packages, the SDK import, setup bodies up to three uses | |
| `FormatVerbs` | `extractDescription`, `stripFormatVerbs`, `firstLine`, `escapeTableCell` | Operators over character classes. `Extract` takes one Description expression to its README cell. |
| `MCFormatVerbs` | descriptions up to five characters | |
| `ReadmeUpdate` | `updateREADME` and the runs of `main` | State machine: `Run`, `RunFails`, and a maintainer's `Edit` between runs. |
| `MCReadmeUpdate` | READMEs built from markers, newlines, whitespace and text | |

### Data abstraction (OvnCommands)

- **User string.** A user string is a record: the set of character classes
  it contains and the class of its first character. The classes are letter,
  digit/underscore, safe punctuation, `-`, `&`, and the metacharacters
  `; | $ \` < > \`. This is all the validators' regexes test. The empty
  string is `EmptyString`.
- **Stdout.** Stdout is the sequence of its `\n`-separated segments. Each
  segment is a line text (a model value) or `""`, plus a flag for
  surrounding whitespace. `TrimSpace` drops the flag, and `ParseOutput`
  drops blank segments.
- **Regex.** A regex is a model value. A valid one matches the lines in
  `MatchSet[p]`. An invalid one fails to compile.
- **Joined output.** `strings.Join(lines, "\n")` is modelled by what it
  produces: the line texts with an `NL` token between each two.
- **Argv.** An argv element is a literal token `[lit |-> ...]`, a user
  string placed verbatim, or the `--columns=` token with its value.

### Data abstraction (LogLines)

- **Go slice.** A `[]string` is a record `[isNil, elems]`. A nil slice
  and an empty one serialise differently (`null` and `[]`), and the helpers
  treat them differently, so the model keeps them apart.
- **Log line.** A log line is a `RawLine`, like a stdout segment. The log
  helpers test `TrimSpace` of a line but keep the line itself untrimmed.

### OvnServer: state and actions

- **Variables.** `pc` (`idle`, `exec` while suspended in ExecPod, `done`),
  `req` (the request), `issued` (the argvs passed to ExecPod by this call),
  `resp` (what ExecPod returned), `out` (error kind, output, and whether
  the output is a nil slice: `flows` of `ovn-lflow-list` is a `[]string`).
- **Targets.** Every request carries a pod target drawn from `Targets`
  (namespace and name). No handler reads it before the exec, and
  `PodTargetRequiredBeforeExec` is checked over targets with an empty
  field. `FlowsNeverNull` checks that a successful `ovn-lflow-list`
  answer is never a nil slice: `parseOutput` starts from `[]string{}`.
- **Handler actions.** `Show`, `Get`, `ListLogicalFlows` and `Trace` each
  take a request from the parameter types. Each validates in the code's
  order, then either issues the exec with the argv the code builds, or
  returns `invalid_argument`.
- **`ExecReturn`.** The cluster's answer is a transport error, or a stdout
  with an empty or non-empty stderr. This action then runs the rest of the
  handler: `runCommand`'s checks, parse, filter (when it applies), limit and
  join. Filter compile errors appear as `bad_filter`.
- **`Reply`.** Hands the result to the host and frees the server.
  Invocations share no state, so serving them one at a time loses no
  behaviour.

### PodLogs: state and actions

- **Variables.** `pc` (`idle`, `fetch` while suspended in the log client,
  `done`), `req`, `fetched` (this call has run its fetch function), `resp`
  (what the client or `omc` returned), `out` (error kind and `logs`).
- **`GetPodLogs`, `MustGatherGetPodLogs`.** The handler up to the fetch.
  The must-gather one first rejects an empty pod name. Both then run the
  first half of `ExecuteWithMatch`: a pattern that does not compile
  returns an error, and otherwise the fetch starts.
- **`GetPodLogsReturn`, `MustGatherGetPodLogsReturn`.** The client answers
  with an error or with a slice: nil, empty, or lines. `omc` answers with
  an error or with output, which `strings.Split` turns into a non-nil slice.
  The action then runs `StripEmptyLines`, the match half of
  `ExecuteWithMatch`, and `Apply` with the default window.
- **`Reply`.** As in `OvnServer`.

### GitRoot: state and actions

- **Constants and fixed state.** `parent` is `filepath.Dir` on a set of
  directories: any tree in which `Root` is its own parent (as
  `filepath.Dir("/")` is `"/"`) and every directory reaches `Root`.
  `hasGit` is the set of directories where `os.Stat(dir/.git)` succeeds.
  Both are chosen in `Init` and never change. Paths are abstracted to the
  directories they name.
- **`Getwd`.** Lines 28-31: the working directory is any directory, or
  `os.Getwd` fails and the function returns its error.
- **`Step`.** One iteration of the loop of lines 33-44, in the code's
  order: `.git` found returns the directory; otherwise `parent = dir`
  returns "not found"; otherwise the loop moves up.

### The README generator: ToolTable, FormatVerbs, ReadmeUpdate

`hack/gen-readme-tools.go` is a build-time script. Its parts run in order:
`main` infers the modes from `main.go`, reads each used package's tools,
prints two tables, and splices them into README.md.

- **`ToolTable`.** `main.go` is abstracted to its imports (alias to
  `[internal, pkg, sub]`) and to each setup body as the sequence of the
  identifiers `X` of the selectors `X.Sel` it contains, in AST order. A
  package name is the sequence of its `-`-separated parts.
  - `pkgDisplayName` title-cases each part. The joined string is kept as
    the sequence of the parts.
  - `ImportAliasToPkg` is the import loop: every import under
    `ovn-kubernetes-mcp/pkg/` maps its alias to the package name.
  - `CollectPackagesInOrder` is a fold with the `seen` test.
  - `ExtractTools` is `extractTools`' match of `mcp.AddTool(_, &T{...})`
    over an `mcp.go` abstracted to its calls. Each call is kept as its
    receiver identifier, its selector, whether its second argument is a
    `&T{...}` literal, and the literal's `Name`.
  - `InferModes` exits when a setup function is missing. `ReadTools` is
    one iteration of either loop: it skips a missing `mcp.go`, skips an
    unparsable one with a warning, and otherwise stores the tools under
    the category.
  - `WriteTables` builds the rows. Only the first row of a package
    carries its label.
- **`FormatVerbs`.** A string is a sequence of character classes: `%`, a
  letter, `.`, a blank other than `\n`, `\n`, and `|`. The `.` and the
  blank stand for the verb regex's flag class `[0-9.*+# \-]`, and for
  the characters `firstLine` tests. The sentinel and `&#124;` are one
  token each.
  - `ReplacePercentPercent` is the leftmost, non-overlapping `ReplaceAll`.
  - `ReplaceVerbs` is the regex's leftmost-match replacement.
  - `StripFormatVerbs` composes the two and restores the sentinel.
  - `ExtractDescription` takes a literal as is, and strips a call whose
    first argument is a literal. Anything else gives `""`.
  - `FirstLine` is `firstLine`, in three steps. `TrimSpace` trims the
    text. `FirstLineOf` takes it up to the first newline and trims that.
    `FirstSentenceOfLine` applies the two regexes.
  - `EscapeTableCell` is `escapeTableCell`.
  - `Extract` reads the expression chosen in `Init` once. It computes the
    description and the cell.
- **`ReadmeUpdate`.** A README is a sequence of tokens: the two markers,
  `\n`, a space or `\r`, and other text.
  - `Index` is `strings.Index`.
  - `Before` keeps a `\n` directly after the start marker.
  - `After` starts at the end marker.
  - `Run(g)` is a `main` that generates section `g`. It writes only when
    both markers are present in order. `RunFails` is a `main` that exits
    before `updateREADME`.
  - `Edit` is a maintainer changing or checking out the README between
    runs.

### Refinement: OvnToolCall and LogToolCall

Each abstract module states what one call promises, written from the spec
alone: `Call` (reject at once, or go pending with what is sent), `Answer`
(the outcome as a function of the request and the reply), `Return`.
`OvnServer` and `PodLogs` each define `FairSpec` and instantiate their
contract with a refinement mapping:

- `OTC == INSTANCE OvnToolCall WITH ...`: `pc = "exec"` is `pending`;
  `sent` is the one argv in `issued`; `cluster` is `resp`; `answer` is
  `out` without its nil flag.
- `LTC == INSTANCE LogToolCall WITH ...`: `pc = "fetch"` is `pending`;
  `source` is `resp`; `answer` is the error kind and the logs' elements.

The runs check `OTC!Spec` and `LTC!Spec` (with the contracts' own
fairness) as PROPERTYs under `FairSpec`. Each refinement property covers
the safety of the whole call, including the argv sent and the answer, and
its liveness: every call is answered.

## 3. Runs

| Run | Checks | Result |
|---|---|---|
| `ovn_server` (`MCOvnServer.cfg`, `FairSpec`) | `TypeOK`, `ArgvNoShellMeta`, `ValidationMatchesSpec`, `AnswerMatchesExec`, `FlowsNeverNull`, `ImplementsOvnToolCall` | pass: 14,050 states, about 23 s |
| `ovn_bad_filter_contacts_cluster` | `BadFilterNeverContactsCluster` | violation: an `ovn-get` in list mode with a bad regex has already exec'd |
| `ovn_trace_mode_without_flag` | `TraceArgvHasVerbosityFlag` | violation: mode `verbose` gives `[ovn-trace, dp, mf]` |
| `ovn_option_injection` | `NoOptionLikeArgument` | violation: datapath `--x` reaches `ovn-trace --detailed --x ...` and is read as an option |
| `pod_logs` (`MCPodLogs.cfg`, `FairSpec`) | `LogsMatchSpec`, `ImplementsLogToolCall` | pass: 2,201 states, about 2 s |
| `ovn_pod_target_required` | `PodTargetRequiredBeforeExec` | violation: a target with empty namespace is exec'd |
| `pod_logs_name_required` | `PodNameRequired` | violation: the live handler fetches the logs of pod `""` |
| `git_root` (`MCGitRoot.cfg`) | `ReturnsNearestGitRoot`, `AlwaysReturns` | pass: 3,052 states, under 1 s |
| `readme_update` (`MCReadmeUpdate.cfg`) | `RerunIsNoOp` | pass: 146 states, under 1 s |
| `readme_start_marker_line` | `StartMarkerKeepsItsLine` | violation: `<S, " ", \n, E>` becomes `<S, T, \n, \n, E>`, the heading on the marker's line |
| `format_verbs` (`MCFormatVerbs.cfg`) | `DescriptionReadsAsRendered`, `CellIsFirstSentence` | pass: 29,412 states, about 2 s |
| `tool_table` (`MCToolTable.cfg`) | `TablesListUsedServers` | pass: 55,208 states, about 3 s |

`ArgvNoShellMeta`, `ValidationMatchesSpec` and `AnswerMatchesExec` compare
the code's operators with reference definitions written from the spec
(`ValidBySpec` and `AnswerBySpec`: a declarative parse, `SelectSeq` filter,
and `SubSeq` window). Every property has a mutant in `PROJECT.json` that
TLC catches:

- `ParseOutput` keeping blank lines breaks `TypeOK`.
- `parseOutput` starting from a nil slice breaks `FlowsNeverNull`.
- `--columns=` placed after `list` breaks `ImplementsOvnToolCall`.
- A fetch error windowed as if it were lines breaks `ImplementsLogToolCall`.
- The root test made before the `.git` test breaks `ReturnsNearestGitRoot`.
- The root test dropped (the loop stays at `/`) breaks `AlwaysReturns`.
- `validateColumnSpec` dropped breaks `ArgvNoShellMeta`.
- The table-name regex dropped breaks `ValidationMatchesSpec`.
- `maxLines < 0` in place of `<= 0` breaks `AnswerMatchesExec`.
- `Apply` ignoring `ApplyTailFirst` breaks `LogsMatchSpec`.
- Compiling the pattern only after the fetch breaks
  `ImplementsLogToolCall` (the contract's call step reads the source).
- `after` starting past the end marker breaks `RerunIsNoOp`.
- Stripping verbs without the `%%` sentinel breaks
  `DescriptionReadsAsRendered`.
- `firstLine` without its first `TrimSpace` breaks `CellIsFirstSentence`.
  A description that starts with a newline gets an empty cell.
- `collectPackagesInOrder` without its `seen` test breaks
  `TablesListUsedServers`.

The generator's properties compare with references written
independently of the code:

- `SprintfShape` is a one-pass scanner of what `fmt.Sprintf` prints, with
  each argument shown as `N`.
- `Summary` is the first sentence of the first line with text, defined
  over index sets.
- `Registered` lists the tools an `mcp.go` registers in the form its
  header names.
- `UsedServers` lists the packages whose `mcp` subpackage a setup
  function uses, sorted by first use.

Two drops are encoded in these references and are not caught:
`Registered` takes the header's form as the definition of a registered
tool, so a call in another form is left out by both sides. `UsedServers`
leaves out an unparsable package, as the code does. Both are listed as
hazards with no property.

`LogsMatchSpec` compares each answer with `WindowBySpec`, the spec's
head/tail table (section 4.4) written as `SubSeq` index ranges. The table
has rows only for counts of at least 0. A negative count is "set", and the
contractual saturation of `head` and `tail` (`n <= 0` returns everything)
makes it bound nothing. The reference encodes this with `Bound`.
`PodLogs` has a `TypeOK` but the run does not check it. The data of the
module is shaped by the Go types, so no plausible slip in the code makes
it false without TLC first failing to evaluate.

### Bounds and why they suffice

- **Line texts.** Three texts `t1..t3`. One valid regex matches `t1` and
  `t3`, and one regex is invalid.
- **Window.** `DefaultMaxLines = 2`, so the default window cuts the 3-line
  outputs. `max_lines` is drawn from `{0, 1, 3}`: the default window, a
  cutting window, and a window above the line count.
- **Stdouts.** Four: empty, a trailing newline, padded lines with a blank
  line, and a whitespace-only line between texts.
- **Stderr.** Either empty or non-empty.
- **User strings.** Six, one per validator outcome: empty, identifier,
  dashed name, option-like `--x`, expression with `&`, metacharacter. Each
  field of every tool takes every one of them.
- **Enum fields.** Databases `nbdb`, `sbdb`, `NBDB`. Trace modes: empty,
  the three valid ones, and `verbose`.

For `PodLogs`:

- **Counts.** Head and tail are drawn from `{-1, 0, 1, 2, 4}`: a negative
  count, unset, two cutting values, and one above every fetch. Together
  with `apply_tail_first` this gives every row of the table and both
  orders.
- **Fetches.** Client slices: nil, empty, a single line, and 3- and 4-line
  slices with padded, blank and whitespace-only lines. `omc` outputs:
  empty, one line with a trailing newline, and three lines.
- **Patterns and names.** The same regexes as above, plus no pattern. The
  pod name is empty or not.

- **Pod targets.** Pass runs use one well-formed target. The violation
  run `ovn_pod_target_required` adds targets with an empty namespace and
  with an empty name.
- **Trace modes.** `ovn_server` leaves out the `verbose` trace mode,
  because the contract it refines defines the verb flag only on the
  modes the spec names. That mode's divergence is the separate run
  `ovn_trace_mode_without_flag`.
- **File system.** `GitRoot` uses four directories, over every tree shape
  (a chain of depth 3 and every fork) and every subset holding `.git`.
  This covers nested repositories, a repository at the root, no
  repository, and a start at the root.
- **README contents.** Markers in order with optional text before, between
  and after, and with or without a newline after the end marker. The
  start-marker line ends in `\n`, or (in the second half of the set) in
  a space or `\r` before it. There are also READMEs missing a marker or
  with the markers swapped. Generated sections are one line, or several
  lines with blank lines and whitespace. The pass run starts from every
  one of them, the start-marker lines ending in a space or `\r` included,
  and `Edit` replaces a README by any other of the set between runs.
- **Descriptions.** Every literal of up to five characters over the six
  classes, and every Sprintf format of that size that is well-formed. This
  covers:
  - `%%` next to a verb (`%%d`, `%%%d`), flags, and adjacent verbs;
  - leading newlines, blank-only lines, and `.` followed by a blank, a
    newline or nothing;
  - `|` before and after the cut.

  Ill-formed formats (a stray `%`) are left out: what `fmt` prints for
  them is not a reading of the format.
- **`main.go`.** Setup bodies of up to three (live) and two (offline)
  selector uses over four aliases, so a package is used twice, in either
  order, or not at all. The ovn `mcp.go` may be unparsable, and the
  must-gather one missing. The kubernetes `mcp.go` also holds calls that
  are not registrations in the header's form:
  - a `fmt.Sprintf` call;
  - a method call `server.AddTool`;
  - an `mcp.AddTool` of a variable;
  - a `Tool` literal without a `Name`. A `main.go` without the setup functions is
  included.

Each validator's accept/reject boundary is exercised on every field. The
parse, filter and window paths each see empty, cut and uncut inputs.

### Fairness

- **Handlers.** A handler suspends only in its call to the cluster (ExecPod,
  the log client or `omc`). That call is bounded by the host's context,
  which the spec (section 5) makes responsible for deadlines. Everything
  after it is straight-line code. `FairSpec` therefore assumes weak
  fairness of the return actions and of `Reply`, and nothing of the
  caller. The refinement properties show that with this assumption every call
  is answered. Without it they fail by stuttering. No property claims that
  the exec itself ends: that rests on client-go and the host, neither in
  this repository.
- **The README generator.** It is a sequential script with no liveness
  property. `MCToolTable.cfg` sets `CHECK_DEADLOCK FALSE` because `main`
  ends. `ReadmeUpdate` can always take another run. `MCFormatVerbs.cfg` also
  sets `CHECK_DEADLOCK FALSE`: one description is read, and nothing
  follows.
- **`GitRoot`.** It runs on one goroutine without blocking, so it assumes
  weak fairness of `Next`. Its run sets `CHECK_DEADLOCK FALSE` because the
  function returns, and a finished call is a final state.

## 4. Findings

See `PROJECT.json` "findings". In short:

- The OVN handlers exec before they compile the filter (spec section 7 says
  an invalid filter never contacts the cluster).
- An unknown trace mode drops the verbosity flag (the spec says to default
  to `--detailed` or reject).
- A datapath or microflow that starts with `-` passes validation, is
  appended to the ovn-trace argv and is parsed by ovn-trace as an option.
  (ovn-nbctl and ovn-sbctl stop reading options at the command name, so a
  record after `list T` stays a positional.)
- No OVN handler checks the pod namespace and name, so an empty target
  reaches ExecPod (spec section 3 says a target is non-empty).
- The live pod-logs handler fetches logs for an empty pod name. Its tool
  description marks name "required", and the must-gather handler rejects
  an empty name.
- `updateREADME` keeps the line end after the start marker only when it is
  a bare `\n`. With a CRLF line end or a trailing space, the heading is
  written onto the marker's line.

Two further behaviours are listed as hazards without a run (see
`PROJECT.json` "hazards"):

- A pod-logs call with no pattern passes a nil slice from the log client
  through unchanged, so the answer is `logs: null`. With a pattern it is
  `[]`. The spec's "never null" rule names only the OVN results.
- `inferModesFromMain` counts any import under `pkg/<name>/` as the server
  `<name>`, not only `pkg/<name>/mcp` as its comment says. A setup
  function that uses only a types package would list that server's tools.
  No `main.go` is in this repository to show it happening.

## 5. Plan

Done:

1. `OvnCommands` and `OvnServer`: the OVN core, the most important
   behaviour.
2. `LogLines`: the `utils` helpers as operators over Go slices.
3. `PodLogs`: both pod-logs handlers, checked against the spec's
   windowing table.

4. `OvnToolCall` and `LogToolCall`: the spec-level contracts, with the
   refinement of `OvnServer` and `PodLogs` and liveness under fairness.
   `GitRoot` was added alongside.

5. `ReadmeUpdate`, `FormatVerbs` and `ToolTable`: the README generator.
   `extractTools`, `firstLine` and `escapeTableCell` were added after
   it, so a description is followed from the AST to its table cell.

Next, in order:

6. **Concurrency and cancellation.** Several in-flight calls over a shared
   cluster whose pods can disappear, plus a context cancel racing the exec
   answer. This checks that each answer comes from its own exec, and that
   cancellation after the exec returns does not change the answer
   (spec section 5).
7. **Filter equivalence.** A run comparing `FilterLines` and the match half
   of `ExecuteWithMatch` on the same lines. The spec calls the two
   indistinguishable, and they differ in nil results and in the order of
   compile and fetch.

## 6. Not modelled

- **Kubeconfig loading and client construction.** These are configuration
  I/O.
- **The resource tools.** Their handlers are not in `src/`.
- **The generator's parsing and text formatting.** `go/parser` itself is
  not modelled: `main.go` is abstracted to imports and selector sequences.
  Also left out is `unquoteString`: a literal is taken by its value. A
  `Name` given by a constant is not enumerated. `extractTools` drops such
  a tool, and every `Name` in this repository is a literal. `findRepoRoot` is the upward walk of
  `GetGitRepositoryRoot` with `go.mod` for `.git`, and `GitRoot` checks
  that walk.
- **`os.Stat` failures other than "not found" in `GetGitRepositoryRoot`.**
  The model's `Stat` is exact. A permission error on an existing `.git`
  would be skipped like an absent one.
- **Error message wording and result echo fields.** The echo fields are
  copies of request fields.
