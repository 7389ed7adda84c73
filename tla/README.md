# TLA+ models of the Sandboxie virtualisation core

This directory holds TLA+ specifications of the parts of `src/` whose
behaviour is hard to test:

* the cross-process registry delete engine;
* the snapshot chain and its short-name scrambler;
* the policy matcher of the driver;
* the scheduled process kill;
* the service-control emulation of the DLL (hook installation, service
  handles and the service list merge);
* two parts of the SandboxiePlus GUI: the trace view and the query of a
  boxed process's information.

Each module is translated from the code. `PROJECT.json` lists, under `map`,
the source lines each definition stands for. Under `runs` it lists the TLC
runs, and under `mutants` the code mutations each checked property must
catch.

## The system and its parts

| Part | Source | State | Operations | Interacts with |
|---|---|---|---|---|
| Registry delete-v2 engine | `core/dll/key_del.c` | Per process: `Key_PathRoot` (the tree), its critical section, `Key_PathsFileSize/Date`, `Key_PathsVersion` and watcher bit 1. Shared: `RegPaths.dat` and the named mutex `KEY_VCM_MUTEX`. | init, refresh, load, mark deleted (append or rewrite), set relocation, save, lookups | other processes of the box, through the file and the mutex; the tree code of `file_del.c` |
| Path overlay tree | `file_del.c` (not in `src/`) | a tree of path nodes with Deleted and Relocated flags | get flags, mark deleted (with truncation), set relocation, load, save, append | key_del.c and file_snapshots.c |
| Snapshot chain | `core/dll/file_snapshots.c` | the list `File_Snapshot` (id, scramble key, own tree) | init from `Snapshots.ini`, find snapshot path, resolve path flags | the path overlay trees; the scrambler |
| Short-name scrambler | `core/dll/file_snapshots.c` | none (pure) | scramble or unscramble a character and an 8.3 name | snapshot copies of files |
| Policy matcher | `core/drv/process_util.c` | image groups, per-image settings, the per-process path lists (closed, write, read, normal, open) | get a setting by image, match an image group, build path lists, match a path, check a process name against the `$:` entries of an open list | the driver's file, key and IPC hooks; the kernel's process objects (`ZwOpenProcess`, `ProcessImageFileName`) |
| Scheduled kill | `core/drv/process_util.c` | a system thread holding a pid and a delay | terminate, schedule, retry | the process table of the kernel |
| Service control | `core/dll/scm.c` | the `__sys_` pointers of the hooked functions and the hooks installed; the service handles a program holds (heap blocks tagged `tzuk` holding a lower-cased name), its last error; the host and boxed service name lists | install the hooks when sechost.dll and advapi32.dll load, open the manager, open and close a service, is a service boxed, is a process SYSTEM, merge the lists | the loader and `SbieDll_Hook` (not in `src/`); SbieSvc (`Scm_QueryServiceByName`), the box's registry view of the Services key, the `SandboxedServices` value |
| Trace view | `QSbieAPI/SbieTrace.cpp`, `SandMan/Models/ResMonModel.cpp` | the uid counter of `CTraceEntry`; the rows of `CResMonModel`, their cells and the formatted process cell | new entry, sync the model with the log | the trace log and the process list of `CSbieAPI` (not in `src/`); the Qt view |
| Boxed process information | `QSbieAPI/Sandboxie/BoxedProcess.cpp` | parent pid, image path, command line of a `CBoxedProcess` | `InitProcessInfo` | the target process, through OpenProcess and NtQueryInformationProcess |
| Other GUI headers | `SbieUtils.h`, `CompressDialog.h`, `WinAdmin.h` | — | declarations only | — |

### Registry delete-v2 engine: `PathTree`, `PathOverlay`, `KeyDelete`, `MCKeyDeleteBoth`, `MCKeyDelete`

Every sandboxed process keeps its own copy of the registry path tree. The
copies meet only in `RegPaths.dat`.

* **Writers** hold the system-wide mutex across "look at the file, then
  append or rewrite it".
* **Readers** never take the mutex. `Key_RefreshPathTree` tests the
  box-root watcher bit and compares the file's size and date with the
  values cached after the last load or write. It reloads only when they
  differ.

**`PathTree`** abstracts a tree to two things: the set of paths marked
Deleted, and the relocation target recorded at each path. A path is a
sequence of segments, and an ancestor is a prefix. Its operators come from
the specification, because `file_del.c` is not among the sources:

* lookup: `Deleted`, `RelocOf`, `RelocatedPath`, `View`;
* load, save and append;
* mark deleted, with truncation of the branch below.

**`KeyDelete`** models the protocol:

* **State.** The shared variables are `file`, `fileSig` (a write counter;
  0 means there is no file) and `mutex`. Each process has `tree`,
  `pathsFileSig`, `version`, `changeBit` and `ready`. Each thread has a `pc`
  and the locals the code keeps across a lock release.
* **Atomicity.** Each critical section is one step. The named mutex is a
  variable held across steps. The unlocked `Key_PathsVersion++` of
  `Key_LoadPathTree` (line 160) takes two steps: a read and a write.
* **Failures.** A failed `File_OpenDataFile` (append) and a failed
  `File_SavePathTree_internal` (rewrite) are disjuncts of the write steps.
* **Lookups.** A lookup changes state only through its refresh.
* **History.** `unsaved[p]` records that a write of process `p` failed
  since its last successful save. The specification says such failures
  are non-fatal: "the in-memory tree remains authoritative". The action
  property `MarksKeptInMemory` states this for marks: no step removes a
  Deleted mark from a process's tree.

**`PathOverlay`** is the abstract specification: the specification's
PathOverlayTree as each process sees it.

* Each process owns one tree.
* The tree changes only by that process's own `markDeleted` and
  `setRelocation`, each applied whole.
* Files and threads are not visible.

`MCKeyDeleteBoth` instantiates it with `tree <- tree1` as the refinement
mapping and checks `RefinesPathOverlay`, its `Spec`, as a property of the
one-process half. With one process there is no other writer, so every
reload must leave the tree as it is. With two processes, adopting another
process's persisted work is intended, so the refinement does not apply.
`MarksKeptInMemory` is the part of it that still should hold there.

**`MCKeyDeleteBoth`** checks two instances of `KeyDelete` in one run. One
has one process with two threads over three paths. The other has two
processes with one thread each over two paths. Its variable `check` picks
one in the initial state, and the other stays in its initial state.
**`MCKeyDelete`** holds the constants of the runs that find a violation.

### Snapshot chain: `SnapshotChainInit`, `SnapshotResolve`, `SnapshotChain`

**`SnapshotChainInit`** models `File_InitSnapshots`:

* It reads `[Current] Snapshot`.
* It returns at once when that entry is empty.
* Otherwise it follows `[Snapshot_<id>] Parent` in a `for (;;)` until a
  Parent entry is empty. It allocates one list element per id read.
* The ini file is a record: the current id and the parent of each id.
* An id is a record `[name, len]`. The current id is read into
  `FILE_MAX_SNAPSHOT_ID` (17) WCHARs, so it keeps up to 16 characters.
  Each Parent entry is read into 16 WCHARs (line 575), so it keeps 15.
  `ReadEntry` cuts an id to what fits.
* `ChainMatchesIni` says that after start-up the chain is the list of
  Parent entries that the file names, starting at the current id.

**`SnapshotResolve`** models the walks over that chain:

* `File_GetPathFlagsEx` (with its callers `File_ResolveTruePath` and
  `File_IsDeletedEx`) and `File_FindSnapshotPath`.
* Each snapshot has a path tree and a set of paths whose copy exists in its
  directory.
* The walk loop (`WalkSnapshots`, lines 315-380) keeps the code's order:
  1. a relocation found in the newer layer renames the path;
  2. a copy in the snapshot ends the walk (`goto complete`);
  3. otherwise the snapshot's tree is consulted, and a deletion ends the
     walk.
* `File_MakeSnapshotPath` only joins strings. Its result is the pair
  (snapshot, path).

**`SnapshotChain`** composes the two. Start-up runs to its end, then the
first call arrives with any contents of the layers. The walk therefore sees
chains of length 0, 1 or 2 in the order start-up read them. Length 0 is the
box without snapshots.

### Short-name scrambler: `ShortNameScrambler`, `ScrambleChar`, `ScrambleName`

`ShortNameScrambler` translates `File_Scramble_Char`,
`File_ScrambleShortName` and `File_UnScrambleShortName` operator by
operator:

* A WCHAR is 0..65535.
* A key byte is `((char*)&ScramKey)[i]`, a signed char.
* `Key &= 0x7f` is applied to that signed value.

`ScrambleChar` and `ScrambleName` are state machines that scramble an input
and then unscramble it. `RefScrambleChar` is the specification's rotation
over the legal alphabet.

**`MCFileSnapshots`** checks `ScrambleChar`, `ScrambleName` and
`SnapshotChain` in one run: its variable `check` picks, in the initial
state, which of the three a behaviour runs, and the other parts keep fixed
values. Each part is instantiated under its own constants.

### Policy matcher: `ProcessImage`, `ProcessPolicy`, `ProcessPaths`, `ProcessName`

**`ProcessImage`** is a set of operators:

* `Process_MatchImageGroup` and `Process_MatchImage` (mutually recursive,
  nested groups followed while `depth < 6`);
* `Process_MatchImageAndGetValue`, which returns a level: 0 exact, 1
  negated, 2 `*`, 3 no image. With an empty image part it returns the
  caller's level untouched.
* `Process_GetConfEx`, a fold over the values in order;
* `Process_GetConfEx_bool`.

**`ProcessPolicy`** asks for one setting of one image under any group
configuration.

**`ProcessPaths`** builds the five path lists with `Process_GetPaths`:

* `!`-prefixed closed values are handled as in the code.
* `Process_AddPath` gives its uninitialised `Level` any value 0..4, because
  that is undefined behaviour.
* `Process_AddPath_2` removes doubled backslashes.

It then matches a path with `Process_MatchPathEx`: the lists in their
order, `goto finish` without specificity, the network default. It also
models `Process_MatchPath`, which retries each pattern with a trailing
backslash. The pattern matcher (`Pattern_MatchPathListEx`, `pattern.c`) is
not in the sources. It is modelled from the specification: a glob, ranked
by level, then exact over wildcard, then match length, then fewer
wildcards.

**`ProcessName`** models `Process_CheckProcessName`. It tests whether a
`$:name` entry of an open list admits a process id.

* A string is a sequence of characters.
* The image file name that `ZwQueryInformationProcess` reports is an
  input. The constant `Fail` stands for every way `Process_GetProcessName`
  ends without a name: the open fails, a query fails, or `Mem_Alloc`
  returns NULL.
* `ProcessNameOf` is the name extraction: `?` for an empty name, then the
  part after the last backslash, or the whole name when nothing follows
  that backslash.
* The loop is one step per entry. The name is fetched lazily at the first
  `$:` entry. A failed fetch breaks the loop, and so does a match.

**`MCProcessUtil`** checks `ProcessPolicy`, `ProcessPaths`, `ScheduleKill`
and `ProcessName` in one run, in the same way as `MCFileSnapshots`. Its
variable `check` picks one of four parts: a setting lookup, a path
classification, a scheduled kill, or a process-name check.

### Scheduled kill: `ScheduleKill`, `MCScheduleKill`, `MCProcessUtil`

* **Scheduling.** `Process_ScheduleKill` either creates the kill thread or
  fails to. With no delay, it logs the reason (unless the text allocation
  fails or the reason is already -1) and sets the reason to -1.
  `Process_TerminateProcess` first asks the service. When that fails, it
  schedules the kill with no delay.
* **The kill thread.** `KillRetry` is one pass of `Process_ScheduleKillProc`
  from its `retry:` label:
  * it leaves on a full unload or when the pid lookup fails;
  * otherwise, while the delay is positive, it closes the handle, sleeps
    and counts down by 50;
  * otherwise it terminates the process that has the pid now.
* **The environment.** A process exits, and a new process takes a free pid
  (`occupant[p]` is a generation number).

### Service control: `ScmHooks`, `ScmServiceList`, `ScmService`, `MCScm`

**`ScmHooks`** models how the hooks are installed (scm.c:533–775).
* State: the `__sys_` pointers (NULL, the original code of a function at
  sechost or advapi32, or a trampoline), the number of hooks on each code
  site, the allocations of `Scm_Notify_CritSec`, and what each load
  callback returned.
* `Scm_Init` is a fold over its steps in code order: the
  `SBIEDLL_HOOK_SCM_EX` groups, the `RegisterServiceCtrlHandler` block,
  the return before Vista, the critical section, the notify hooks. A
  failed hook returns FALSE at once and leaves the earlier hooks in place.
* `SBIEDLL_HOOK_SCM_EX` hooks only while the pointer is NULL. The
  `RegisterServiceCtrlHandler` block runs while the W pointer is NULL,
  reads all four pointers from the module, and either hooks the x64 helper
  or the four functions in order.
* The actions are the two load callbacks, in either order:
  `SecHost_Init`, and `Scm_Init_AdvApi`, which first runs `Scm_Init` for
  sechost when sechost is mapped (from Windows 7 on).
* Functions are grouped by where the code hooks them (before the block,
  after it, after the Vista test, the event-log and the Windows 8 hooks).
  Exports and forwarders, and the sites where `SbieDll_Hook` fails, are
  the environment.

**`ScmServiceList`** is one step of the `while (1)` of `Scm_GetAllServices`:

1. Find the smallest unmarked name of both lists (`_wcsicmp`, host list
   first, first occurrence kept on ties).
2. Skip it as a duplicate when its first character equals the saved
   `last_ptr0` and the rest compares equal ignoring case.
3. Otherwise append it.
4. Mark it `*` in either case.

The loop ends when no unmarked name is left.

**`ScmService`** models the handle calls. A service name is its identity
(names compare with `_wcsicmp`), its length and whether it has upper-case
letters. The environment is fixed for a behaviour: whether the token is
restricted, the `SandboxedServices` value, the box's Services keys and the
services SbieSvc finds outside.

* `Scm_OpenSCManagerW` returns `HANDLE_SERVICE_MANAGER`, or fails with
  `ACCESS_DENIED` for a restricted token.
* `Scm_OpenServiceWImpl` checks the manager handle and the name, discards
  the key cache, decides with `Scm_IsBoxedService` where to look (the box's
  key through `Scm_OpenKeyForService`, or SbieSvc), and on success
  allocates a block with the lower-cased name and clears the last error.
  On failure it keeps the error the lookup left. `overrun` records a key
  name longer than the buffer it is built in (`keyname[128]`, or the 256
  WCHARs of `Scm_DiscardKeyCache`). `Scm_OpenServiceA` adds a failed
  conversion, which passes a NULL name.
* `Scm_IsBoxedService` reads `Scm_GetBoxedServices`, which returns no
  names when the value is missing, not a `REG_MULTI_SZ`, or longer than
  the 500 data bytes of its 512-byte buffer.
* `Scm_CloseServiceHandle` closes the manager handle, frees a tagged block,
  or fails with `INVALID_HANDLE`.
* `SbieDll_IsBoxedService` and `SbieDll_CheckProcessLocalSystem` are
  queries. The second tests the `NTSTATUS` of `NtOpenProcessToken` as a
  `BOOL`. When the open fails, it reads an uninitialised handle, so its
  answer is any boolean.

**`MCScm`** checks all three in one run. Its variable `check` picks the
merge, the handle calls or the hook installation.

### Trace view: `TraceMonitor`, `MCTraceMonitor`

An entry is its uid. Every value the view shows is a function of the
entry, so a cell is `<<column, uid>>`, or `Null` when it was never filled.

* `NewTraceEntry` is the `CTraceEntry` constructor. It takes
  `uid.fetch_add(1)` and appends the entry to the log.
* `Sync` is `CResMonModel::Sync` with the `CListItemModel::Sync(New, Old)`
  it ends with:
  * The fast path (`Incremental`) applies when the log is at least as long
    as the rows and still holds the last row's uid at that index. It
    visits only the entries past the last row and empties `Old`.
  * Otherwise every entry is visited. Rows whose entry was not seen are
    removed.
  * A visited entry with a row gets its visible cells refreshed and a
    `dataChanged` over the ranges that `ColumnLoop` computes. The column
    loop is translated section by section.
  * An entry without a row gets a new node, appended in log order.
  * When its raw value changed, the process cell is formatted (lines
    96-103). It shows the name of the process that `GetProcessById`
    finds, or "Unknown".
* The trace log of `CSbieAPI` and the view are outside `src/`. They are the
  environment: the log grows, is cleared, or loses its oldest entry, and
  the user shows or hides columns. The API's process list also belongs to
  the environment: `ProcessListed` lets it learn an entry's process.

### Boxed process information: `BoxedProcess`

`CBoxedProcess::InitProcessInfo` is four steps: open, basic information and
image path, command line, close. What the target grants (`full`, `query`,
`none`) decides which calls succeed. `OpenProcess` returns a handle holding
the requested rights, or `NULL`. `CBoxedProcess__GetPebString` is
abstracted to whether it yields the string: it needs `PROCESS_VM_READ`, and
even then it may fail. The `malloc` for the command line (line 182) is not
checked. When it returns NULL, the kernel rejects the NULL buffer, and the
code falls back to the PEB read without touching the buffer. That path is
therefore the same disjunct as a failed second query.

## Runs

| Run | Config | Expect | What it shows |
|---|---|---|---|
| keydel | `MCKeyDeleteBoth.cfg` | pass | In one process of two threads, the append optimisation and the rewrites keep the file equal to memory, and no persisted deletion is lost. The process implements `PathOverlay` (`RefinesPathOverlay`): its tree changes only by its own operations, even after a failed write. With two processes every call returns, and the reload path is taken. |
| keydel_lost_update | `MCKeyDelete_lostupdate.cfg` | violation | A process with a stale tree rewrites the file and erases another process's deletion. |
| keydel_stale_cache | `MCKeyDelete_stalecache.cfg` | violation | The signature read after the start-up load, outside the mutex, lets a process trust a stale tree. |
| keydel_version_race | `MCKeyDelete_version.cfg` | violation | The unlocked `++` (key_del.c:160) of a reload races with a writer thread of the same process and moves `Key_PathsVersion` backwards. |
| file_snapshots | `MCFileSnapshots.cfg` | pass | For all 128 seven-bit characters and 256 key bytes: `File_Scramble_Char` equals the specification's rotation, never produces a reserved character, and unscrambling undoes it. A scrambled short name unscrambles to the original unless a scrambled suffix character became a dot. Start-up ends on every acyclic `Snapshots.ini` whose parent ids fit 15 characters, and builds the chain of Parent entries the file names. Over the chain it built `File_GetPathFlagsEx` answers what the layered view says. |
| process_util | `MCProcessUtil.cfg` | pass | `Process_GetConfEx` returns a value of a most specific matching rule. Group matching follows nesting exactly to the depth bound and ends on cyclic groups. With rule specificity, `Process_MatchPathEx` gives the class of the best-ranked matching pattern, and the earlier list wins ties. Every kill thread ends, a target that stays alive is killed whatever the delay, and the reason is logged at most once. `Process_CheckProcessName` admits a process exactly when its name is known and a `$:` entry names it (case-insensitively) or is `$:*`. It reports the first such entry and looks the name up once. |
| schedule_kill_pidreuse | `MCScheduleKill_pidreuse.cfg` | violation | After the target exits, its reused pid is killed. |
| scm | `MCScm.cfg` | pass | The merged list is the union of both lists in case-insensitive order, and the loop ends. `OpenService` and `CloseServiceHandle` leave a last error exactly when they fail. Every service handle a program holds names, in lower case, a service that exists where the DLL looked. A service a box lists in `SandboxedServices` is looked up in the box (`ListedServicesBoxed`, for boxes of one service). Whichever DLL the loader reports first, every service function ends up hooked once, on sechost's code where sechost has it (`HookedAtImplementation`), and no hook is installed twice or loses its trampoline under the hook failures of `PassFails` (`NoHookLost`). |
| scm_local_system | `MCScm_localsystem.cfg` | violation | `SbieDll_CheckProcessLocalSystem` answers FALSE for a SYSTEM process whose token it can open. |
| scm_key_overrun | `MCScm_overrun.cfg` | violation | `OpenService` with a name of 76 characters writes past `keyname[128]`. |
| trace_view | `MCTraceMonitor.cfg` | pass | After every `Sync` the rows are the log's entries in log order, whatever appends, clears, trims and column changes came before. The `dataChanged` ranges of an existing row cover exactly its changed visible cells. |
| boxed_process_open | `BoxedProcess.cfg` | violation | `InitProcessInfo` never retries with fewer rights, and it returns true for a process it could not open. |

More configurations reproduce disagreements TLC found while the models
were written. Each checks one property, and TLC finds it violated:

| Config | Property | What it shows |
|---|---|---|
| `MCFileSnapshots_wide.cfg` | `CharMatchesReference` | A WCHAR above 0x7F is masked to 7 bits and comes back as a different character (file_snapshots.c:93). |
| `MCFileSnapshots_roundtrip.cfg` | `NameRoundTrip` | A suffix character scrambled into `.` moves the last dot, so unscrambling fails (file_snapshots.c:169). |
| `MCFileSnapshots_cycle.cfg` | `InitTerminates` | Parent entries forming a cycle make `File_InitSnapshots` loop forever (file_snapshots.c:576). |
| `MCProcessUtil_tie.cfg` | `GetConfFirstOnTie` | Of two values with the same level, the later one wins (process_util.c:392). The specification says the first. |
| `MCProcessUtil_nospec.cfg` | `MatchPathExFirstList` | Without specificity, a Normal match is overridden by a later Open match (process_util.c:1056–1058). The specification says the first list decides. |
| `MCProcessUtil_level.cfg` | `PatternLevelsDefined` | A value with an empty image part (`,path`) creates a pattern with the uninitialised `Level` (process_util.c:616, 655). |
| `MCScm_dup.cfg` | `NoDuplicateServices` | Names differing only in the case of their first letter are both listed (scm.c:1239). |
| `MCScm_listed.cfg` | `ListedServicesBoxed` | A box whose `SandboxedServices` value holds more than 500 bytes of names (eight of 75 characters) makes `Scm_GetBoxedServices` return none, so a service created in the box is looked up on the host (scm.c:1126). |
| `MCTraceMonitor_columns.cfg` | `VisibleCellsFilled` | A column shown after rows were synced stays empty for those rows: the fast path of `Sync` visits only new entries (ResMonModel.cpp:22–34). |
| `MCKeyDelete_memory.cfg` | `MarksKeptInMemory` | With two processes, a failed write leaves a mark only in memory. Another process's rewrite then changes the signature, and the next refresh reloads the file, so the mark is lost (key_del.c:131, 262). The specification says the in-memory tree stays authoritative. |
| `MCFileSnapshots_parentid.cfg` | `ChainMatchesIni` | A 16-character parent id is cut to 15 characters: Parent entries are read into 16 WCHARs, the current id into 17 (file_snapshots.c:542, 575). The chain then names a snapshot that does not exist. |
| `MCScm_hookw.cfg` | `NoHookLost` | When `SbieDll_Hook` fails on sechost's `RegisterServiceCtrlHandlerW` after `RegisterServiceCtrlHandlerA` was hooked, the W pointer is NULL again. The next `Scm_Init` re-reads all four pointers and hooks A a second time; A's first trampoline is lost (scm.c:602–609). The code's own comment notes that W is an 11-byte function on x64, which a hook may fail on. |
| `MCTraceMonitor_procname.cfg` | `ProcessColumnNamed` | A row shown before the API listed its process keeps "Unknown". The cell is formatted only when the raw pid changes, and that never happens again (ResMonModel.cpp:96–103). |

Every property of a passing run has a mutant in `PROJECT.json`. The mutant
is a plausible bug in the mapped code, for example:

* a dropped guard;
* a wrap test off by one;
* the walk consulting the tree before the copy;
* the kill thread not counting down.

Under the run's own configuration, TLC finds each mutant violating its
property.

## Bounds, and why they suffice

* **KeyDelete.**
  * Paths: three registry paths, `K`, `K\A` and `K\B`. Two of them are used
    with two processes.
  * Calls: at most two per thread.
  * These bounds cover truncation of a flagged branch, a relocation below a
    deleted key, and a lost update. Each counterexample needs at most two
    calls per thread.
* **Scrambler.**
  * Characters: all 128 seven-bit values. Three wide characters are only
    in the repro `MCFileSnapshots_wide.cfg`.
  * Keys: all 256 key bytes for single characters. For names, six key-byte
    values: they cover 0, the largest byte, a negative char, and bytes
    that move a space, a `C` or a `T` onto the dot.
  * Names: names with and without a dot, with short and full suffixes, and
    of full length 12.
* **Snapshots.**
  * Ids: two, so chains of length 0, 1 and 2 in either order. One id has
    16 characters, the longest that `[Current]` keeps, and the other has 15.
    In the passing run a parent id has at most 15 characters, the longest a
    Parent entry keeps. `MCFileSnapshots_parentid.cfg` drops that limit.
  * Paths: four (`D`, `D\f`, `E`, `E\f`).
  * Trees: five, covering a deletion of a directory or a file, and
    relocations D→E and E→D. Relocations chain across layers and meet
    deletions under the relocated name.
  * `stop` covers every `lastSnapshot`.
* **Policy.**
  * Images: two. Values: three (`y`, `n`, other).
  * Groups: six names. The group configurations include a chain of nesting
    depth 5 and one of depth 6 (either side of the `depth < 6` bound), a
    cycle, and an empty member.
  * Settings: at most two values each.
* **Paths.**
  * Patterns: six, covering an exact path, a trailing backslash, a
    subpath, a `|`-prefixed value, a doubled backslash and a wildcard.
  * Query paths: four.
  * Configurations: one or no value per list, plus one Open list with two
    values (one of them for an image group). That already lets each list
    override each other.
* **Process names.**
  * Reported names: every name of up to three of the characters `a`, `A`
    and backslash. This includes the empty name, names ending in a
    backslash, and names differing only in case.
  * Open lists: up to two entries each.
    * `$:` entries for `a`, `A`, `*`, `*a`, `?` and `a\`.
    * The too-short `$:`.
    * Two entries that are not `$:` rules.
  * The process id is 0 or not, and the lookup may fail.
* **Kill.**
  * Processes: two pids and three process generations.
  * Delays: 0 and 100 ms (two countdown steps).
  * Calls: two kill calls. The reasons include 0, a positive value and -1.
* **Trace view.**
  * Entries: four uids in total. That is enough to clear a log and refill
    it past the number of rows the view had, and to trim it while the view
    is behind.
  * Columns: all five. Columns 1 and 4 can be shown and hidden, so the
    last visible column moves and an inner column drops out. Column 0 is
    always shown, and only columns 1 and 4 ever change visibility, so a
    changed range that starts at a hidden first column, or that a hidden
    column splits, is not reached.
* **Boxed process.** Every grant (`full`, `query`, `none`) and both OS
  generations. The counterexample needs one call.
* **Service list.**
  * Characters: `a`, `A` and `b`.
  * Names: of length 1 or 2.
  * Lists: of up to two names each. This covers duplicates that match in
    case, duplicates that differ in case, and order ties.
* **Service handles.**
  * Services: four identities. One stands for the five built-in names, one
    is listed in `SandboxedServices`, one is named by the `SandboxService`
    setting, and one exists only outside.
  * Names: of 8 and 75 characters, with and without upper case. 75 is the
    longest name whose key name fits `keyname[128]`. The overrun
    configuration adds 76.
  * Environment: a missing, an empty or a one-name `SandboxedServices`;
    box keys present or absent; the outside service present or absent;
    restricted or not.
  * Handles: two at a time, enough to hold two services and hit the
    allocation bound.
* **Service hooks.**
  * Builds: 2600 (no sechost, no notify hooks, advapi32's x64 prologs lead
    to the helper), 7601 (sechost, no Windows 8 hook) and 9200.
  * Exports: both DLLs export the service functions. advapi32 forwards
    `SetServiceStatus` to sechost and keeps its own stub for the others,
    so both ways `GetProcAddress` resolves are present.
  * Hook failures: none, or one at each kind of site where a failure leaves
    a different partial state (`PassFails`). A failure at sechost's
    `RegisterServiceCtrlHandlerW` is the repro configuration.

## Fairness

* **`KeyDelete`.** Each thread has weak fairness on its own steps. These
  are OS threads, and with bounded calls the mutex is eventually free for
  good.
* **`ScheduleKill`.** Each kill thread has weak fairness. It is a system
  thread created by `PsCreateSystemThread`, and the kernel schedules it.
  Process exit, pid reuse and unload have no fairness, because the
  environment need not do anything.
* **`SnapshotChain`.** Start-up and the first call have weak fairness.
  `File_InitSnapshots` is sequential code of the process's first thread.
* **`ScmService`.** No fairness: a program need not call anything.
* **`ScmHooks`.** No fairness and no liveness property: a DLL need not
  load.
* **`ScmServiceList`.** The merge loop has weak fairness. It is sequential
  code of the calling thread.
* **`TraceMonitor`.** `Sync` has weak fairness, because a GUI timer calls it
  periodically. No property of the run needs it.

## Findings

Each finding below has a violation run.

* **Lost update** (`key_del.c:274`, `:362`).
  * Two paths rewrite `RegPaths.dat` from the process's own tree without
    reloading it: the fallback of `Key_MarkDeletedEx_v2`, and every
    `Key_SetRelocation`.
  * A deletion another process persisted since the last load is erased.
* **Stale signature at start-up** (`key_del.c:211`).
  * `Key_InitDelete_v2` reads the signature after the load and outside the
    mutex.
  * A write in between leaves the process trusting a stale tree, so its
    later appends build on that tree.
* **Unlocked version counter** (`key_del.c:160`).
  * `Key_LoadPathTree` increments `Key_PathsVersion` after leaving both the
    critical section and the mutex. The specification says the counter is
    incremented under the tree's lock and only grows.
  * The increment is a read and a write. A writer thread of the same
    process can increment twice in between (lines 135 and 269), and the
    counter goes back.
* **Failed open taken for success** (`BoxedProcess.cpp:160`).
  * `InitProcessInfo` compares the result of `OpenProcess` with
    `INVALID_HANDLE_VALUE`. `OpenProcess` returns `NULL` on failure.
  * The retry with fewer rights ("try with less rights") never runs, and
    the function returns true for a process it could not open. A process
    that grants only `PROCESS_QUERY_INFORMATION` gets no parent pid.
* **Process token test inverted** (`scm.c:1377`).
  * `SbieDll_CheckProcessLocalSystem` tests the `NTSTATUS` of
    `NtOpenProcessToken` as a `BOOL`. `STATUS_SUCCESS` is 0.
  * A token that opens is never inspected, so a SYSTEM process gets FALSE.
    When the open fails, the uninitialised `TokenHandle` is queried and
    closed.
* **Service key name overrun** (`scm.c:1302`, `:1361`).
  * `Scm_OpenKeyForService` builds the 52-character Services path plus the
    caller's service name in `WCHAR keyname[128]` with `wcscpy`/`wcscat`.
  * A name of 76 characters or more, passed to `OpenService`, overruns the
    stack buffer. `Scm_DiscardKeyCache` overruns its 256 WCHARs for names
    over 203 characters.
* **Pid reuse in the scheduled kill** (`process_util.c:1482`).
  * The kill thread keeps only the pid. It looks the pid up again on every
    retry and closes its handle before each sleep.
  * A process that reuses the pid is terminated in place of the target.

## Not modelled

* **`file_del.c`, `pattern.c`, `conf.c` and the CRT.** They are not in the
  sources. Their operators used here are modelled from the specification:
  the path tree, the glob match and specificity, and `_wcsicmp`.
* **String building.** `File_MakeSnapshotPath`, `File_GetName`, drive and
  environment expansion, and reparse-point translation only build strings.
  They are abstracted to their results.
* **`Process_GetPaths2`.** It is compiled only without `USE_MATCH_PATH_EX`.
* **The other helpers of `process_util.c`.** These are
  `Process_IsSameBox`, `Process_IsSbieImage`, `Process_IsInPcaJob`,
  `Process_GetSidStringAndSessionId` and `Process_LogMessage`.
  * Each is one decision, or one query, over kernel objects.
  * Their callers, which would give the decisions a protocol, are not in
    the sources.
  * As operators they would only restate their own conditions.
* **The x64 prolog test on NULL.** `Scm_HookRegisterServiceCtrlHandler`
  compares the code at the W and ExW pointers with `memcmp`. A module that
  does not export them would make it read through NULL. The model lets the
  helper path run only when both are present: whether sechost lacks them
  on some build is not in the sources.
* **The rest of `scm.c`.** Querying, configuring, starting and controlling
  services forwards requests to SbieSvc or the registry. It is I/O, and
  `Scm_QueryServiceByName` is outside the sources.
* **Memory management.** This covers TLS name-buffer lifetimes,
  pool-allocation failures, and the leak of `params` when thread creation
  fails. These hazards are listed in `PROJECT.json` with notes.
* **The rest of the GUI.**
  * The text conversions of `CTraceEntry` (`GetTypeStr`, `GetStautsStr`,
    `ErrorString`, the `SetError` suffix) and `headerData` only format a
    cell.
  * The process list of `CSbieAPI`, which the process column reads, is
    not in the sources. It is the environment of `TraceMonitor`.
  * `SbieTrace.h` and `SbieTrace.cpp` come from different versions of
    `CTraceEntry`. The model follows `SbieTrace.cpp`.
  * `CTraceEntry::Merge` and its counter are compiled only with
    `USE_MERGE_TRACE`, which `SbieTrace.h` leaves undefined.
  * `CBoxedProcess::Terminate`, `SetTerminated` and `IsTerminated` store and
    compare a tick count.
  * `SbieUtils.h`, `CompressDialog.h` and `WinAdmin.h` hold declarations
    only.
