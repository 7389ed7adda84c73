\* Two processes, the first with two threads: does the unlocked ++ at key_del.c:160 lose a count?
CONSTANTS
    Paths <- MCPathsSmall
    NoReloc = NoReloc
    NoThread = NoThread
    Procs <- TwoProcs
    Threads <- ThreeThreads
    ThreadProc <- ThreeThreadProc
    MainThread <- ThreeThreadMain
    MaxOps = 2
SPECIFICATION Spec
PROPERTY VersionMonotonic
