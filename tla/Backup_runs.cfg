\* Two runs of main, everything may fail, another process reads and writes.
SPECIFICATION FairSpec
CONSTANTS
    Tables <- TwoTables
    Versions = {mine, others}
    Mine = mine
    Main = Main
    Other = Other
    OtherWrites = TRUE
    Faults = {"statement", "open", "disk", "read", "network", "crash"}
    MaxRuns = 2
    None = None
INVARIANTS TypeOK RestoresAllOrNothing BackupIsRecent
PROPERTY BackupArrives
