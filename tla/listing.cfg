SPECIFICATION Spec
CONSTANTS
    Names <- MCNames
    Hidden <- MCHidden
    Links <- MCLinks
    BatchSize = 3
    MaxChanges = 3
INVARIANTS TypeOK SteadyListed 
