\* Every acyclic Snapshots.ini over an id of 16 characters and one of 15: is a parent of 16 characters read whole?
CONSTANTS
    CharSet <- AsciiChars
    CharKeys <- AllKeyBytes
    NameSet <- ShortNames
    NameKeys <- NameKeyBytes
    SnapIni <- AcyclicFiles
    NoId = NoId
    NoReloc = NoReloc
SPECIFICATION Spec
INVARIANT ChainMatchesIni
