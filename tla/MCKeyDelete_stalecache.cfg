\* Two processes, one thread each: can a process trust a signature that matches while its tree is stale?
CONSTANTS
    Paths <- MCPathsSmall
    NoReloc = NoReloc
    NoThread = NoThread
    Procs <- TwoProcs
    Threads <- TwoProcThreads
    ThreadProc <- TwoProcThreadProc
    MainThread <- TwoProcMain
    MaxOps = 2
SPECIFICATION Spec
INVARIANT CacheCoherent
