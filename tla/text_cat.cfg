SPECIFICATION Spec
CONSTANTS
    Letters = {x, y}
    X = x
    NL = nl
    Base = 2
    MaxLength = 3
    MaxAppends = 0
INVARIANT PrintsContents
