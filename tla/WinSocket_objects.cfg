\* Three objects, any of whose system calls may fail.
SPECIFICATION Spec
CONSTANTS
    Objects = {control, data, other}
    Handles = {h1, h2, h3}
    Invalid = Invalid
    MaxAddresses = 2
    MaxBuilt = 4
INVARIANTS TypeOK NoStartupLeftBehind NoSocketLeftBehind EachHasItsSocket ListsAccounted
SYMMETRY Symmetry
