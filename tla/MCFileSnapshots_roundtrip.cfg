\* The specification's round-trip contract over the same names and keys.
CONSTANTS
    CharSet <- AsciiChars
    CharKeys <- AllKeyBytes
    NameSet <- ShortNames
    NameKeys <- NameKeyBytes
    SnapIni <- AcyclicFiles
    NoId = NoId
    NoReloc = NoReloc
SPECIFICATION Spec
INVARIANT NameRoundTrip
