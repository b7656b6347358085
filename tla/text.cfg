SPECIFICATION Spec
CONSTANTS
    Letters = {x, y}
    X = x
    NL = nl
    Base = 2
    MaxLength = 5
    MaxAppends = 2
INVARIANTS CatPrintsFile NumbersFit GrepPrintsLines
