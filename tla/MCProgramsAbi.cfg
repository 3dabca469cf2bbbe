CONSTANTS
    BPG = 3
    FreeCounts <- MCFreeCounts
    INODES = 4
    FIRST_INO = 3
    PER = 2
    UNITS = 4
    Ext2Names = {"a", "b"}
    SizeOf <- MCSizeOf
    Words = {20}
    Ext2Uses <- MCExt2Uses
    CallTasks = {1, 2}
    EnvKeys = {"k"}
    EnvValues = {"v", "w"}
    FirstSock = 100
    MaxSocks = 1
    FileData <- MCFileData
    PipeCapacity = 3
    IoVecs <- MCIoVecs
    ModuleNames = {"m", "n"}
    Elfs <- MCElfs
    PageBytes = 2
    FrameCount = 11
    StackPage = 9
    StackPages = 1
    MAX_MODULES = 1
    ForeignFrames = {{}, {2, 5}, {0, 3}}
    Ramdisks <- MCRamdisks
    MAX_NEEDED = 1
    ShKeys = {"a", "b"}
    MAX_LINE = 4
    HISTORY_SIZE = 2
    MaxLines = 3
    ShLines <- MCShLines
    Scripts <- MCScripts
    ShDirs = {"/", "/d", "/d/d"}
    MaxFds = 7
    Buses <- MCBuses
    Absent = absent
    MAX_DEVICES = 3
    VQ_SIZE = 2
    IdxMod = 4
    DrvFrames = {"f", "g"}
    MaxFrames = 5
    CapPtrs = {64, 68, 72}
    CapSteps = 3
    MAX_RX_ATTEMPTS = 3
    MAX_RECV_ATTEMPTS = 2
    MAX_RESPONSE = 4
    Chunk = 2
    NcTyped <- MCNcTyped
    Sent <- MCSent
    BLOCK_SIZE = 2
    COPY_BUF_SIZE = 2
    NAME_MAX = 3
    Radix = 2
    FieldWidth = 4
    PackNames <- MCPackNames
    OldFile <- MCOldFile
    PackLists <- MCPackLists
    TokenLists <- MCTokenLists
    MAX_NODES = 3
    MAX_EDGES = 6
    LineLists <- MCLineLists
    TextInputs <- MCTextInputs
    NewLine = 77
    WordBits = 4
SPECIFICATION AbiSpec
INVARIANT ArgumentsArrive
CHECK_DEADLOCK FALSE
