\* One process with two threads over three paths, and two processes with
\* one thread each over two paths; two calls per thread.
CONSTANTS
    NoReloc = NoReloc
    NoThread = NoThread
    MaxOps = 2
SPECIFICATION Spec
INVARIANT PersistedViewMatchesMemory
PROPERTY DeletionsNeverUndone
PROPERTY OpsComplete
PROPERTY RefinesPathOverlay
