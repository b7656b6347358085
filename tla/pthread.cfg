SPECIFICATION FairSpec
CONSTANTS
    ReaderCount = 3
    Limit = 3
INVARIANTS TypeOK MutualExclusion PrintsCheckedString ReturnsAfterDone
PROPERTIES PrintedInOrder Termination
