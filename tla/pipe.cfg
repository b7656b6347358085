SPECIFICATION FairSpec
CONSTANT Capacity = 1
INVARIANTS OnlyKillsBreakThePipe MessagesTrue
PROPERTY Termination
