\* Three places for objects, three for connections.
SPECIFICATION Spec
CONSTANTS
    Objects = {o1, o2, o3}
    Handles = {h1, h2, h3}
    Null = Null
    Wild = Wild
INVARIANTS TypeOK OwnConnection HandlesAccounted DiesOnlyByMisuse
SYMMETRY Symmetry
