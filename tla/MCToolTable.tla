----------------------------- MODULE MCToolTable -----------------------------
(***************************************************************************)
(* Three server packages (kubernetes, ovn, must-gather) imported under     *)
(* aliases, the SDK's mcp package imported as well, and setup bodies of   *)
(* up to three selector uses each, so that packages are used twice, in     *)
(* either order, in both modes, or not at all.  The ovn mcp.go may fail to *)
(* parse and the must-gather one may be missing.                           *)
(***************************************************************************)
EXTENDS ToolTable

CONSTANTS kubernetesmcp, ovnmcp, mustgathermcp, sdkmcp

K8s == <<"kubernetes">>
Ovn == <<"ovn">>
MustGather == <<"must", "gather">>

MCPkgs == {K8s, Ovn, MustGather}

MCTitle == ("kubernetes" :> "Kubernetes") @@ ("ovn" :> "Ovn")
           @@ ("must" :> "Must") @@ ("gather" :> "Gather")

Server(p) == [internal |-> TRUE, pkg |-> p, sub |-> "mcp"]

\* The imports of a main.go that only uses the server packages.
MCServerImports ==
    (kubernetesmcp :> Server(K8s)) @@ (ovnmcp :> Server(Ovn))
    @@ (mustgathermcp :> Server(MustGather))
    @@ (sdkmcp :> [internal |-> FALSE, pkg |-> <<>>, sub |-> "mcp"])

MainFilesOver(imports) ==
    { [setupFound |-> TRUE, imports |-> imports, body |-> [live |-> l, offline |-> o]] :
        l \in BoundedSeq(DOMAIN imports, 3), o \in BoundedSeq(DOMAIN imports, 2) }
    \cup { [setupFound |-> FALSE, imports |-> imports,
            body |-> [live |-> <<>>, offline |-> <<>>]] }

MCMainFiles == MainFilesOver(MCServerImports)

\* A call mcp.AddTool(server, &mcp.Tool{Name: n, ...}).
AddTool(n) == [recv |-> "mcp", sel |-> "AddTool", arg |-> "&lit", nameLit |-> TRUE, name |-> n]

\* The kubernetes mcp.go also holds a fmt.Sprintf call (a Description), a
\* method call server.AddTool(&T{...}, h), an mcp.AddTool of a tool held in
\* a variable, and a Tool literal with no Name.
K8sCalls ==
    << AddTool("pod-logs"),
       [recv |-> "fmt", sel |-> "Sprintf", arg |-> "other", nameLit |-> FALSE, name |-> ""],
       [recv |-> "server", sel |-> "AddTool", arg |-> "&lit", nameLit |-> TRUE, name |-> "method-tool"],
       [recv |-> "mcp", sel |-> "AddTool", arg |-> "other", nameLit |-> FALSE, name |-> ""],
       [recv |-> "mcp", sel |-> "AddTool", arg |-> "&lit", nameLit |-> FALSE, name |-> ""],
       AddTool("resource-get") >>

MCMcpFiles ==
    { (K8s :> [kind |-> "ok", calls |-> K8sCalls])
      @@ (Ovn :> o) @@ (MustGather :> g) :
        o \in {[kind |-> "ok", calls |-> <<AddTool("ovn-show"), AddTool("ovn-get")>>], Unparsable},
        g \in {[kind |-> "ok", calls |-> <<AddTool("must-gather-pod-logs")>>], Missing} }

=============================================================================
