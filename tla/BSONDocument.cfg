SPECIFICATION Spec
CONSTANTS
    ByteBase = 4
    Hosts <- MCHosts
    MilliPerSecond = 4
    NanoPerMilli = 2
    EnumValues <- MCEnum
    Names <- MCNames
    SplValues <- MCSplValues
    Foreign <- MCForeign
    MaxCalls = 4
INVARIANTS
    WireFormat
    ReadBack
    RoundTrip
    Accessors
