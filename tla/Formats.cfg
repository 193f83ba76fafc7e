SPECIFICATION Spec
CONSTANTS
    MaxHeader = 400
    Ullong = 255
    MaxDepth = 6
    MaxPayload = 70000
    MaxPath = 6
    Control <- MCControl
    ByteStrings <- MCByteStrings
    Digests <- MCDigests
    Paths <- MCPaths
    Messages <- MCMessages
    Cuts <- MCCuts
    MaxLine = 200
    MaxName = 50
    MaxPairs = 3
    Threshold = 4
    Piece = 2
INVARIANTS RouteIsBestMatch JsonRoundTrip Base64RoundTrip StaticPathsStayInside DigestsAreStandard ConfigReadsBack QueryIsDecoded RequestsSurviveSplits BodiesAreFramed FramesRoundTrip
CHECK_DEADLOCK FALSE
