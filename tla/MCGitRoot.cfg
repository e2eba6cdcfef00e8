CONSTANTS
    r = r
    a = a
    b = b
    c = c
    NoDir = NoDir
    Dirs <- MCDirs
    Root = r

SPECIFICATION FairSpec

\* GetGitRepositoryRoot returns, so a finished walk is a final state.
CHECK_DEADLOCK FALSE

INVARIANTS
    ReturnsNearestGitRoot

PROPERTIES
    AlwaysReturns
