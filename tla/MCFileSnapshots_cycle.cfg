\* Every Snapshots.ini over two ids, cycles included: does start-up end?
CONSTANTS
    CharSet <- AsciiChars
    CharKeys <- AllKeyBytes
    NameSet <- ShortNames
    NameKeys <- NameKeyBytes
    SnapIni <- AnyFile
    NoId = NoId
    NoReloc = NoReloc
SPECIFICATION Spec
PROPERTY InitTerminates
