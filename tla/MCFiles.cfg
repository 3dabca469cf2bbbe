SPECIFICATION FilesSpec
CONSTANTS
    MAX_FILES = 4
    MAX_FILE_SIZE = 2
    PidOf <- MCPidOf
    PidSpan = 12
    FdShift = 100
    Uses <- MCUses
    Glued <- MCGlued
    Pids = {1}
    Bytes = {1}
    MaxIo = 1
    MaxContent = 1
INVARIANTS TreeSound DescriptorsFollowTheirFile
PROPERTY RenameCarries
CHECK_DEADLOCK FALSE
