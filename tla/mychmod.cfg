SPECIFICATION FairSpec
CONSTANTS
    Alphabet = {"u", "g", "a", "r", "x", "+", "-", "=", "7"}
    MaxLen = 4
    Inputs <- MCInputs
    InitFiles <- MCFiles
INVARIANTS TypeOK AcceptsGrammar LastClauseDecides
PROPERTY Termination
