CONSTANTS
    S = S
    E = E
    Nl = Nl
    Ws = Ws
    T = T
    StartMark <- S
    EndMark <- E
    NL <- Nl
    WS <- Ws
    Txt <- T
    Readmes <- MCReadmes
    Generated <- MCGenerated

SPECIFICATION Spec

INVARIANT StartMarkerKeepsItsLine
