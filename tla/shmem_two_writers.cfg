SPECIFICATION Spec
CONSTANTS
    Writers = {w1, w2, w3}
    Readers = {}
    Keys = {k1, k2}
    None = None
    MaxSignals = 4
SYMMETRY Symmetry
INVARIANT SingleWriter
