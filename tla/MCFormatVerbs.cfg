CONSTANTS
    pct = pct
    letter = letter
    dot = dot
    space = space
    nl = nl
    bar = bar
    sentinel = sentinel
    n = n
    esc = esc
    Pct <- pct
    Letter <- letter
    Dot <- dot
    Space <- space
    NL <- nl
    Bar <- bar
    Sentinel <- sentinel
    N <- n
    Esc <- esc
    MaxLen = 5

SPECIFICATION Spec

INVARIANT DescriptionReadsAsRendered
INVARIANT CellIsFirstSentence

\* One description is read; nothing follows.
CHECK_DEADLOCK FALSE
