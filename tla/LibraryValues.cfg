SPECIFICATION Spec
CONSTANTS
    ByteBase = 4
    Hosts <- MCHosts
    WordMax = 99
    TCoordinates <- MCTCoordinates
    DoubleMax = 9
    Letters <- MCLetters
    MaxText = 3
    kOIDSize = 2
    MaxNumber = 255
    TrackerSIZE = 4
    Sizes = {8, 100, 600}
    Docs <- MCDocs
    Slots = {1, 2}
    Points <- MCPoints
    MaxGeo = 5
    Names <- MCNames
    MaxSaid = 5
INVARIANTS
    TextLaws
    NumbersPortable
    SizeRemembered
    BoundingBoxes
    GeoDocuments
    StreamLaws
CHECK_DEADLOCK FALSE
