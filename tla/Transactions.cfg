\* Connections to one file of two pages.
SPECIFICATION FairSpec
CONSTANTS
    Connections = {c1, c2, c3}
    Pages = {p1, p2}
    Values = {old, new}
    None = None
INVARIANTS TypeOK ReadsAreCommitted
PROPERTIES ChangesAreAtomic EveryCallEnds PublishedOnlyByCommit
