CONSTANTS
    FileLen = 200
    FileName = "000005.ldb"
    HandleValues = {0, 150}
    CorruptBytes = {0, 255}
    DamagePositions = {1, 2, 4, 40, 41, 48}
SPECIFICATION Spec
INVARIANTS
    FooterRoundTrip
    NoLeakedBuffer
    CachableOnlyIfOwned
    OnlyVerifiedBlocksReturned
    ReadBlockWithinFile
    StatusCarriesCause
