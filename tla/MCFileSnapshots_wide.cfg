\* Characters above 0x7F: does File_Scramble_Char leave them unchanged?
CONSTANTS
    CharSet <- WideChars
    CharKeys <- AllKeyBytes
    NameSet <- ShortNames
    NameKeys <- NameKeyBytes
    SnapIni <- AcyclicFiles
    NoId = NoId
    NoReloc = NoReloc
SPECIFICATION Spec
INVARIANT CharMatchesReference
