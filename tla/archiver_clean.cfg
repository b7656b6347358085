SPECIFICATION FairSpec
CONSTANTS
    Procs = {"w", "r"}
    Writers = {"w"}
    Archives = {"t"}
    Temp = "temp"
    Inodes = {1, 2, 3, 4}
    NoIno = 0
    Paths <- MCPaths
    Names <- MCNames
    Base <- MCBase
    Modes <- MCModes
    Data <- MCData
    Word = 64
    Buffer = 2
    FileStates <- NoStates
    InitDisk <- CleanDisk
    Commands <- KeepCommands
    UninitOffsets = {0, 63}
    MaxCommands = 3
    MaxCrashes = 0
    MaxEdits = 0
    MaxFails = 0
    Absent = Absent
INVARIANTS AppendedExact UnpackedPrefix
PROPERTIES StoreSpec Termination
