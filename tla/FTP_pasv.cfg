\* main's session.
SPECIFICATION Spec
CONSTANTS
    Sessions <- MainSession
    FileSize = 3
    RecvSize = 1
    Buffer = 2
INVARIANT PasvResponseHasPort
