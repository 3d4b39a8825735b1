\* mv --cache against a directory without caches.
CONSTANTS
    a = a
    b = b
    c = c
    x = x
    y = y
    NoData = NoData
    NoInode = NoInode
    Reverted = Reverted
    Name <- MCName
    Dir = {1, 2}
    DirOf <- MCDirOf
    Data = {x, y}
    RowsOf <- MCRowsOf
    Inode = {1, 2, 3, 4, 5, 6, 7, 8}
    Commands <- MCCommandSet
    MaxCommands = 3
    MaxCrashes = 1
SPECIFICATION Spec
PROPERTIES
    CacheOnlyLeavesFiles
CHECK_DEADLOCK FALSE
