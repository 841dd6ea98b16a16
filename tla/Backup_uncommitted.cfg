\* One run in which nothing fails, while another process reads.
SPECIFICATION Spec
CONSTANTS
    Tables <- TwoTables
    Versions = {mine, others}
    Mine = mine
    Main = Main
    Other = Other
    OtherWrites = FALSE
    Faults = {}
    MaxRuns = 1
    None = None
INVARIANT BackupIsOfDatabase
