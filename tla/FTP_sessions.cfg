\* The sessions of main and of the test suite with every kind of server.
SPECIFICATION FairSpec
CONSTANTS
    Sessions <- MCSessions
    FileSize = 3
    RecvSize = 1
    Buffer = 2
INVARIANTS TypeOK PasvPortIsCurrent InStepUntilTransfer
PROPERTIES SessionEnds FileArrives UploadAsPromised
CHECK_DEADLOCK FALSE
