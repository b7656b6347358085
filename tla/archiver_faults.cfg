SPECIFICATION Spec
CONSTANTS
    Procs = {"w", "r"}
    Writers = {"w"}
    Archives = {"t"}
    Temp = "temp"
    Inodes = {1, 2, 3, 4}
    NoIno = 0
    Paths <- MCPaths
    Names <- MCNames
    Base <- MCBase
    Modes <- MCModes
    Data <- MCData
    Word = 64
    Buffer = 2
    FileStates <- ChangedStates
    InitDisk <- TroubledDisk
    Commands <- AnyCommands
    UninitOffsets = {0, 63}
    MaxCommands = 3
    MaxCrashes = 1
    MaxEdits = 1
    MaxFails = 1
    Absent = Absent
INVARIANTS TypeOK ArchivesWellFormed CompleteBeforeUnlink
PROPERTY PublishedImmutable
