SPECIFICATION Spec
CONSTANT MaxSignals = 2
INVARIANTS TypeOK OnlyTheLivingChild ChildTold ChildCatchesTerm
