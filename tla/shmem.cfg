SPECIFICATION FairSpec
CONSTANTS
    Writers = {w1, w2}
    Readers = {r1}
    Keys = {k1}
    None = None
    MaxSignals = 2
INVARIANTS TypeOK OneSource NothingLeft
PROPERTY StringArrives
