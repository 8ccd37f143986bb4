\* Two connections and one fault, of any kind and at any time.
CONSTANTS
    Conn = {c1, c2}
    Mismatch = {c2}
    ShortName = {c2}
    MaxFaults = 1
    None = None
SPECIFICATION FairSpec
INVARIANTS TypeOK ServerFirst LoopReady
PROPERTIES PeerEnds Reaped
CHECK_DEADLOCK FALSE
