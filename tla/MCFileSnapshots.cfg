\* Every 7-bit character under every key byte; legal short names under keys
\* that do and do not produce a dot in the suffix; every acyclic
\* Snapshots.ini over two ids (of 16 and 15 characters) whose Parent entries name ids of at most 15 characters, then one lookup over any layers.
CONSTANTS
    CharSet <- AsciiChars
    CharKeys <- AllKeyBytes
    NameSet <- ShortNames
    NameKeys <- NameKeyBytes
    SnapIni <- ShortParentFiles
    NoId = NoId
    NoReloc = NoReloc
SPECIFICATION Spec
INVARIANT TypeOK
INVARIANT CharMatchesReference
INVARIANT NameRoundTripUnlessDotInSuffix
INVARIANT ResolveMatchesLayeredView
INVARIANT ChainMatchesIni
PROPERTY InitTerminates
