SPECIFICATION DiskSpec
CONSTANTS
    FileBlocks = 3
    MaxOperations = 7
INVARIANTS
    CountsWhatIsWritten
