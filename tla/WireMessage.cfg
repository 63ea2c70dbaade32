\* Two messages, a cursor and the caller over three blocks
SPECIFICATION Spec
CONSTANTS
    ByteBase = 4
    Hosts <- MCHosts
    Block = {b1, b2, b3}
    NULL = NULL
    Tails = {1, 3}
    MaxText = 7
    MaxDocs = 2
    MaxBatches = 2
SYMMETRY Blocks
INVARIANTS
    OwnedOnce
    MessageWhole
    ObjectsInOrder
