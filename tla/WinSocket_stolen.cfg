\* The control connection and a data channel.
SPECIFICATION Spec
CONSTANTS
    Objects = {control, data}
    Handles = {h1, h2}
    Invalid = Invalid
    MaxAddresses = 2
    MaxBuilt = 2
INVARIANT OthersKeepTheirSocket
