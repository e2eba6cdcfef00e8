CONSTANTS
    t1 = t1
    t2 = t2
    t3 = t3
    re1 = re1
    reBad = reBad
    Text <- MCText
    ValidPatterns = {re1}
    InvalidPatterns = {reBad}
    MatchSet <- MCMatchSet
    DefaultMaxLines = 2
    Names = {"", "pod"}
    Counts <- MCCounts
    ClientLogs <- MCClientLogs
    OmcOutputs <- MCOmcOutputs

SPECIFICATION Spec

INVARIANT PodNameRequired
