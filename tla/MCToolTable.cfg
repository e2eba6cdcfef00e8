CONSTANTS
    kubernetesmcp = kubernetesmcp
    ovnmcp = ovnmcp
    mustgathermcp = mustgathermcp
    sdkmcp = sdkmcp
    Pkgs <- MCPkgs
    Title <- MCTitle
    MainFiles <- MCMainFiles
    McpFiles <- MCMcpFiles

SPECIFICATION Spec

\* main returns (or exits) once the section is built.
CHECK_DEADLOCK FALSE

INVARIANT TablesListUsedServers
