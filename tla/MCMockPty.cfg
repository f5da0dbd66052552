CONSTANTS
    MaxOutput = 3
    MaxInput = 1
    ReadSizes = {2}
    StorageSize = 2
    None = None
    Bytes <- MCBytes
    PageSizes <- MCPageSizes
    PixelSizes <- MCPixelSizes

SPECIFICATION Spec
INVARIANTS
    TypeOK
    ReaderSeesStreamInOrder
    CellSizeRoundTrip
PROPERTIES
    ImplementsByteChannel
