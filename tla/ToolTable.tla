------------------------------ MODULE ToolTable ------------------------------
(***************************************************************************)
(* main of hack/gen-readme-tools.go up to the generated section:           *)
(* inferModesFromMain reads the packages setupLiveCluster and setupOffline *)
(* use, in order of first use; for each, main reads the tools that         *)
(* pkg/<name>/mcp/mcp.go registers, and writes one table per mode with a   *)
(* row per tool, the category label on the first row of each package.     *)
(*                                                                         *)
(* main.go is abstracted to its imports (an alias for each, as Go requires *)
(* aliases to be distinct) and the two setup bodies as the sequences of    *)
(* the identifiers X of the selectors X.Sel they contain, in AST order.    *)
(* A package name is the sequence of its "-"-separated parts.  An mcp.go   *)
(* is abstracted to the calls f(args) in it, in AST order: the receiver    *)
(* identifier X of a selector f = X.Sel, Sel, whether the second argument  *)
(* is &T{...} ("&lit") or another expression, and the Name field of that  *)
(* literal (a string literal's value, "" when absent, or not a literal).   *)
(***************************************************************************)
EXTENDS Integers, Sequences, SequencesExt

CONSTANTS
    Pkgs,       \* package directory names under pkg/, as part sequences
    Title,      \* the title-cased form of each part
    MainFiles,  \* the cmd/ovnk-mcp-server/main.go contents considered
    McpFiles    \* the pkg/<name>/mcp/mcp.go contents considered, per package

VARIABLES
    pc,            \* "infer", "live", "offline", "table", "done" or "exit"
    mainFile,      \* the main.go being read
    files,         \* pkg/<name>/mcp/mcp.go of each package
    order,         \* liveOrder and offlineOrder
    tools,         \* liveTools and offlineTools: category -> tools
    idx,           \* position in the order being read
    table          \* the generated rows of each mode

vars == <<pc, mainFile, files, order, tools, idx, table>>

Modes == {"live", "offline"}

Missing == [kind |-> "missing"]

Unparsable == [kind |-> "unparsable"]

\* pkgDisplayName: each part title-cased, joined with " ".  The joined
\* string is kept as the sequence of its title-cased parts.
PkgDisplayName(pkg) == [i \in 1..Len(pkg) |-> Title[pkg[i]]]

\* The loop over node.Imports: an import under ovn-kubernetes-mcp/pkg/
\* maps its alias to the package name; others are skipped.
ImportAliasToPkg(imports) ==
    [a \in {b \in DOMAIN imports : imports[b].internal} |-> imports[a].pkg]

\* A mutant: a package appended at every use.
CollectPackagesInOrderNoDedup(body, aliasToPkg) ==
    FoldLeft(LAMBDA o, a : IF a \in DOMAIN aliasToPkg
                           THEN Append(o, aliasToPkg[a]) ELSE o,
             <<>>, body)

\* collectPackagesInOrder: packages in order of first use.
CollectPackagesInOrder(body, aliasToPkg) ==
    FoldLeft(LAMBDA o, a : IF a \in DOMAIN aliasToPkg /\ aliasToPkg[a] \notin ToSet(o)
                           THEN Append(o, aliasToPkg[a]) ELSE o,
             <<>>, body)

\* extractTools: the Name of every call mcp.AddTool(_, &T{...}) whose Name
\* is a non-empty string literal, in AST order.  Go's type checker gives
\* every AddTool call of the SDK its three arguments, so the len(call.Args)
\* < 2 test never rejects one.
ExtractTools(calls) ==
    LET name(c)   == IF c.nameLit THEN c.name ELSE ""
        isTool(c) == c.recv = "mcp" /\ c.sel = "AddTool" /\ c.arg = "&lit"
        found     == SelectSeq(calls, LAMBDA c : isTool(c) /\ name(c) # "")
    IN  [i \in 1..Len(found) |-> found[i].name]

\* The rows main prints for the packages of one mode.
TableRows(pkgOrder, toolsOf) ==
    LET rows(pkg) ==
            LET cat == PkgDisplayName(pkg)
                ts  == IF cat \in DOMAIN toolsOf THEN toolsOf[cat] ELSE <<>>
            IN  [i \in 1..Len(ts) |-> [label |-> IF i > 1 THEN <<>> ELSE cat,
                                       tool  |-> ts[i]]]
    IN  FlattenSeq([j \in 1..Len(pkgOrder) |-> rows(pkgOrder[j])])

Init ==
    /\ pc = "infer"
    /\ mainFile \in MainFiles
    /\ files \in McpFiles
    /\ order = [m \in Modes |-> <<>>]
    /\ tools = [m \in Modes |-> <<>>]
    /\ idx = 1
    /\ table = [m \in Modes |-> <<>>]

\* inferModesFromMain: main.go does not parse or lacks a setup function,
\* and main exits; or both orders are collected.
InferModes ==
    /\ pc = "infer"
    /\ IF ~mainFile.setupFound
       THEN /\ pc' = "exit"
            /\ UNCHANGED order
       ELSE LET m == ImportAliasToPkg(mainFile.imports)
            IN  /\ order' = [md \in Modes |-> CollectPackagesInOrder(mainFile.body[md], m)]
                /\ pc' = "live"
    /\ UNCHANGED <<mainFile, files, tools, idx, table>>

\* One iteration of the loop over liveOrder or offlineOrder: a package
\* with no mcp.go is skipped, one whose mcp.go does not parse is skipped
\* with a warning, any other gets its tools under its category.
ReadTools ==
    /\ pc \in Modes
    /\ IF idx > Len(order[pc])
       THEN /\ pc' = IF pc = "live" THEN "offline" ELSE "table"
            /\ idx' = 1
            /\ UNCHANGED tools
       ELSE LET pkg == order[pc][idx]
                f   == files[pkg]
            IN  /\ tools' = IF f.kind = "ok"
                            THEN [tools EXCEPT ![pc] = @ @@ (PkgDisplayName(pkg) :> ExtractTools(f.calls))]
                            ELSE tools
                /\ idx' = idx + 1
                /\ UNCHANGED pc
    /\ UNCHANGED <<mainFile, files, order, table>>

\* The two tables are printed into the generated section.
WriteTables ==
    /\ pc = "table"
    /\ table' = [m \in Modes |-> TableRows(order[m], tools[m])]
    /\ pc' = "done"
    /\ UNCHANGED <<mainFile, files, order, tools, idx>>

Next == InferModes \/ ReadTools \/ WriteTables

Spec == Init /\ [][Next]_vars

(***************************************************************************)
(* The reference: the mcp packages a setup function uses, in order of      *)
(* their first use, each with the tools its mcp.go registers.             *)
(***************************************************************************)
UsedServers(m) ==
    LET body    == mainFile.body[m]
        imports == mainFile.imports
        uses(p) == { k \in 1..Len(body) :
                       /\ body[k] \in DOMAIN imports
                       /\ imports[body[k]] = [internal |-> TRUE, pkg |-> p, sub |-> "mcp"] }
        used    == { p \in Pkgs : uses(p) # {} /\ files[p].kind = "ok" }
        first(p) == CHOOSE k \in uses(p) : \A j \in uses(p) : k <= j
    IN  SetToSortSeq(used, LAMBDA p, q : first(p) < first(q))

\* The tools an mcp.go registers in the form its header names,
\* mcp.AddTool(server, &mcp.Tool{Name: "...", ...}), in source order.
Registered(calls) ==
    LET regs == {i \in DOMAIN calls :
                    calls[i] \in [recv: {"mcp"}, sel: {"AddTool"}, arg: {"&lit"},
                                  nameLit: {TRUE}, name: STRING \ {""}]}
    IN  [k \in 1..Cardinality(regs) |->
            calls[CHOOSE i \in regs : Cardinality({j \in regs : j < i}) = k - 1].name]

ExpectedRows(m) ==
    LET servers == UsedServers(m)
        regs(p)  == Registered(files[p].calls)
        block(p) == [i \in 1..Len(regs(p)) |->
                        [label |-> IF i = 1 THEN PkgDisplayName(p) ELSE <<>>,
                         tool  |-> regs(p)[i]]]
    IN  FlattenSeq([j \in 1..Len(servers) |-> block(servers[j])])

(***************************************************************************)
(* Properties.                                                             *)
(***************************************************************************)

\* Each mode lists the servers its setup function builds (the header
\* comment: live vs offline mode is inferred from main.go; the comment on
\* the import loop: aliases of .../pkg/<name>/mcp): a finished run lists
\* under each mode exactly the tools of the mcp packages that mode's setup
\* function uses, each tool once, packages in order of first use, the
\* category label on the first row of each.
TablesListUsedServers ==
    pc = "done" => \A m \in Modes : table[m] = ExpectedRows(m)

=============================================================================
