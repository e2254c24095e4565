SPECIFICATION Spec
CONSTANTS
    Frames <- MCFrames
    Cap = 5
    Streams <- MCStreams
    Texts <- MCTexts
    Bytes <- MCBytes
    Marker <- MCMarker
    Docs <- MCDocs
    MaxHtml = 4
    MaxHops = 3
    None = None
INVARIANTS
    TypeOK
    RequestIntact
    RelayFaithful
    ServedWhole
    HeadIsExact
PROPERTIES
    RelayLetsGo
CHECK_DEADLOCK FALSE
