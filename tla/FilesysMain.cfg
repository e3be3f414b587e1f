SPECIFICATION MCSpec
CONSTANTS
    NSectors = 20
    BLOCK_SECTOR_SIZE = 2
    NUM_ENTRIES_IN_INDIRECT = 2
    MAX_FILES_PER_DIR = 4
    FilePaths <- MCFilePaths
    DirPaths <- MCDirPaths
    Sizes = {2, 3}
    Bytes = {1}
    Clients = {}
    MaxCalls = 3
    MaxFds = 2
    MaxBoots = 1
INVARIANTS SectorsDisjoint  HoldersKeep
PROPERTIES StoreSpec
CHECK_DEADLOCK FALSE
