\* Two processes, one thread each: does a rewrite drop a deletion already on disk?
CONSTANTS
    Paths <- MCPathsSmall
    NoReloc = NoReloc
    NoThread = NoThread
    Procs <- TwoProcs
    Threads <- TwoProcThreads
    ThreadProc <- TwoProcThreadProc
    MainThread <- TwoProcMain
    MaxOps = 2
SPECIFICATION Spec
PROPERTY DeletionsNeverUndone
