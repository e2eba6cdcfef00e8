CONSTANTS
    t1 = t1
    t2 = t2
    t3 = t3
    re1 = re1
    reBad = reBad
    Text <- MCText
    ValidPatterns = {re1}
    InvalidPatterns = {reBad}
    MatchSet <- MCMatchSet
    DefaultMaxLines = 2
    Strings <- MCStrings
    Databases = {"nbdb", "sbdb", "NBDB"}
    Modes = {"", "detailed", "summary", "minimal", "verbose"}
    MaxLines = {0, 1, 3}
    Stdouts <- MCStdouts
    Stderrs = {"", "warning"}
    Targets <- MCWellFormedTargets

SPECIFICATION Spec

INVARIANT NoOptionLikeArgument
