\* Two processes, one thread each: does a process lose a deletion it made?
CONSTANTS
    Paths <- MCPathsSmall
    NoReloc = NoReloc
    NoThread = NoThread
    Procs <- TwoProcs
    Threads <- TwoProcThreads
    ThreadProc <- TwoProcThreadProc
    MainThread <- TwoProcMain
    MaxOps = 2
SPECIFICATION Spec
PROPERTY MarksKeptInMemory
