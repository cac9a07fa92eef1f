-------------------------------- MODULE Log --------------------------------
(***************************************************************************)
(* Chronicle/Log.hpp: CoroutineLog and the directories it writes to.  Its  *)
(* coroutines run on a context with one thread; a step is what a coroutine *)
(* does from one await to the next, and only FileWrite has an await that   *)
(* waits.  A file is the sequence of its bytes; a byte is the number of    *)
(* the call that wrote it.  The level filters and the console do not touch *)
(* what is modelled here.                                                  *)
(***************************************************************************)
EXTENDS Integers, Sequences, SequencesExt, FiniteSets

CONSTANTS
    Writers,                    \* the coroutines that call FileWrite
    Roots, Filenames, FirstRoot,
    RecordSizes,                \* how many bytes a call writes
    FileSizes, FirstFileSize,   \* arguments of SetMaxFileSize, the default
    ArchiveCounts,              \* arguments of SetMaxArchiveCount
    MaxSuffix, MaxSecond,       \* bounds: archives of one second, the clock
    MaxCalls,                   \* bound on the calls of FileWrite
    MaxChanges,                \* bound on the processes after the first
    FileFaults,                 \* which file operations may fail
    Overlap,                    \* a file is used again before a call on it has returned
    SameSecond                  \* a file is rolled over twice in a second under a limit

Paths == Roots \X Filenames
NoCall == [at |-> "idle"]

ASSUME LogAssumption ==
    /\ FirstRoot \in Roots /\ FirstFileSize \in Nat /\ FileSizes \subseteq Nat
    /\ RecordSizes \subseteq Nat \ {0} /\ ArchiveCounts \subseteq Nat
    /\ MaxSuffix \in 0..9 /\ {MaxSecond, MaxCalls, MaxChanges} \subseteq Nat
    /\ FileFaults \subseteq {"directory", "open", "size", "rename", "write", "close"}
    /\ Overlap \in BOOLEAN /\ SameSecond \in BOOLEAN

VARIABLES
    RootDirectory, MaxFileSize, MaxArchiveCount,
    FileMap,        \* Contexts by path; node and handle name the map's node and the file object
    disk,           \* the files that are written, by path
    archives,       \* the archives of each path: a set of names and contents
    second,         \* the clock that names archives
    writing,     \* where each coroutine is in FileWrite
    wrote,          \* history: how its last call ended
    calls, changes, undefined

settings == <<RootDirectory, MaxFileSize, MaxArchiveCount>>
logVars == <<settings, FileMap, disk, archives, second, writing, wrote, calls, changes, undefined>>

Nothing == [p \in {} |-> 0]
LogInit ==
    /\ RootDirectory = FirstRoot /\ MaxFileSize = FirstFileSize /\ MaxArchiveCount = 0
    /\ FileMap = Nothing /\ disk = Nothing /\ archives = [p \in Paths |-> {}]
    /\ second = 0
    /\ writing = [c \in Writers |-> NoCall] /\ wrote = [c \in Writers |-> "none"]
    /\ calls = 0 /\ changes = 0 /\ undefined = FALSE

Put(f, x, y) == [z \in DOMAIN f \union {x} |-> IF z = x THEN y ELSE f[z]]
Drop(f, x) == [z \in DOMAIN f \ {x} |-> f[z]]

\* What a caller must not do, unless the instance lets it: touch a file while a
\* call of FileWrite on it has not returned.
Undisturbed(p) == Overlap \/ \A c \in Writers : writing[c] # NoCall => writing[c].path # p

\* A name that a clean-up has freed is given again within the same second, and
\* then the newest archive bears the oldest name.
NamedInOrder(p) ==
    SameSecond \/ MaxArchiveCount = 0 \/ \A a \in archives[p] : a.second # second

Disturb(n) == changes + n <= MaxChanges /\ changes' = changes + n

-----------------------------------------------------------------------------
\* FileWrite up to its await, on w, which is the map, the files and the archives.
World == [map |-> FileMap, disk |-> disk, archives |-> archives, ends |-> "no",
          failures |-> 0]
Ends(w, how) == [w EXCEPT !.ends = how]
Failing(fault, w) == IF fault \in FileFaults THEN {[w EXCEPT !.failures = @ + 1]} ELSE {}
UnknownSize == -1       \* file_size failed: the largest std::size_t
IsOpen(map, p) == p \in DOMAIN map /\ map[p].open

\* stream_file throws from its constructor when it cannot open the file.
Opened(w, p, id) ==
    IF IsOpen(w.map, p) THEN {w}
    ELSE LET text == IF p \in DOMAIN w.disk THEN w.disk[p] ELSE <<>>
             node == IF p \in DOMAIN w.map THEN w.map[p].node ELSE id
             open == [w EXCEPT
                !.disk = Put(@, p, text),
                !.map = Put(@, p, [node |-> node, handle |-> id, open |-> TRUE,
                                   CurrentSize |-> Len(text)])]
         IN  {open} \union Failing("directory", Ends(w, "nothing written"))
             \union Failing("open", Ends(w, "exception"))
             \union Failing("size", [open EXCEPT !.map[p].CurrentSize = UnknownSize])

MustRoll(w, p, n) ==
    n > MaxFileSize \/ w.map[p].CurrentSize = UnknownSize \/ w.map[p].CurrentSize > MaxFileSize - n

\* Names of archives are compared as text: first the second, then the suffix.
Older(a, b) == a.second < b.second \/ (a.second = b.second /\ a.suffix < b.suffix)
\* Mutant: the newest archives go.
CleanupNewest(all) ==
    LET RemoveCount == Cardinality(all) - MaxArchiveCount
    IN  IF MaxArchiveCount = 0 THEN all
        ELSE {a \in all : Cardinality({b \in all : Older(a, b)}) >= RemoveCount}
CleanupOldArchives(all) ==
    LET RemoveCount == Cardinality(all) - MaxArchiveCount
    IN  IF MaxArchiveCount = 0 THEN all
        ELSE {a \in all : Cardinality({b \in all : Older(b, a)}) >= RemoveCount}

Closed(w, p) == [w EXCEPT !.map[p].open = FALSE]
FreeSuffixes(all) == {s \in 0..MaxSuffix : \A a \in all : a.second # second \/ a.suffix # s}

\* The file is closed, renamed, and made anew.
RolledOver(w, p, id) ==
    LET closed == Closed(w, p)
        free == FreeSuffixes(w.archives[p])
        suffix == CHOOSE s \in free : \A t \in free : s <= t
        archived == [closed EXCEPT
            !.archives[p] = CleanupOldArchives(@ \union
                {[second |-> second, suffix |-> suffix, text |-> w.disk[p]]}),
            !.disk = Drop(@, p)]
        renewed == [archived EXCEPT
            !.disk = Put(@, p, <<>>),
            !.map[p] = [node |-> @.node, handle |-> id, open |-> TRUE, CurrentSize |-> 0]]
        notArchived == Ends([closed EXCEPT !.map = Drop(@, p)], "nothing written")
    IN  Failing("close", Ends(closed, "exception"))
        \union IF free = {} THEN {notArchived}
               ELSE Failing("rename", notArchived) \union {renewed}
                    \union Failing("open", Ends(archived, "exception"))

FileWrite(c, name, n) ==
    LET p == <<RootDirectory, name>>
        id == calls + 1
        ready == UNION {IF w.ends = "no" /\ MustRoll(w, p, n) THEN RolledOver(w, p, id) ELSE {w}
                        : w \in Opened(World, p, id)}
    IN  /\ writing[c] = NoCall /\ calls < MaxCalls /\ Undisturbed(p)
        /\ calls' = id
        /\ \E w \in ready :
            /\ w.archives = archives \/ NamedInOrder(p)
            /\ Disturb(w.failures)
            /\ FileMap' = w.map /\ disk' = w.disk /\ archives' = w.archives
            /\ \/ /\ w.ends = "no"
                  /\ writing' = [writing EXCEPT ![c] =
                        [at |-> "writing", path |-> p, record |-> [i \in 1..n |-> id],
                         node |-> w.map[p].node, handle |-> w.map[p].handle, written |-> 0]]
                  /\ UNCHANGED wrote
               \/ /\ w.ends # "no"
                  /\ wrote' = [wrote EXCEPT ![c] = w.ends]
                  /\ UNCHANGED writing
        /\ UNCHANGED <<settings, second, undefined>>

\* async_write ends: all of the record is in the file, or some of it and an
\* error; a closed file object takes nothing.
WriteCompletes(c) ==
    /\ writing[c].at = "writing"
    /\ LET p == writing[c].path
           record == writing[c].record
           usable == IsOpen(FileMap, p) /\ FileMap[p].handle = writing[c].handle
       IN  \E k \in IF ~usable THEN {0}
                    ELSE IF "write" \in FileFaults THEN 0..Len(record) ELSE {Len(record)} :
            /\ Disturb(IF usable /\ k < Len(record) THEN 1 ELSE 0)
            /\ disk' = IF usable THEN [disk EXCEPT ![p] = @ \o SubSeq(record, 1, k)] ELSE disk
            /\ writing' = [writing EXCEPT ![c].at = "resuming", ![c].written = k]
    /\ UNCHANGED <<settings, FileMap, archives, second, wrote, calls, undefined>>

HoldsEntry(c) == writing[c].path \in DOMAIN FileMap /\ FileMap[writing[c].path].node = writing[c].node

Failed(c) == writing[c].written < Len(writing[c].record)
\* Mutant: after an error the context stays in the map.
SettledKept(c) ==
    [FileMap EXCEPT ![writing[c].path].CurrentSize = @ + IF Failed(c) THEN 0 ELSE writing[c].written]
Settled(c) ==
    IF Failed(c) THEN Drop(FileMap, writing[c].path)
    ELSE [FileMap EXCEPT ![writing[c].path].CurrentSize = @ + writing[c].written]

\* FileWrite after its await; with an entry that was erased anything may happen.
FileWriteResumes(c) ==
    /\ writing[c].at = "resuming"
    /\ undefined' = ~HoldsEntry(c)
    /\ FileMap' = IF HoldsEntry(c) THEN Settled(c) ELSE FileMap
    /\ wrote' = [wrote EXCEPT ![c] = IF Failed(c) THEN "nothing written" ELSE "written"]
    /\ writing' = [writing EXCEPT ![c] = NoCall]
    /\ UNCHANGED <<settings, disk, archives, second, calls, changes>>

-----------------------------------------------------------------------------
\* A file object that fails to close throws, and its entry stays in the map.
CloseFile(p) ==
    /\ Undisturbed(p) /\ p \in DOMAIN FileMap
    /\ \/ FileMap' = Drop(FileMap, p) /\ Disturb(0)
       \/ /\ "close" \in FileFaults /\ Disturb(1)
          /\ FileMap' = [FileMap EXCEPT ![p].open = FALSE]
    /\ UNCHANGED <<settings, disk, archives, second, writing, wrote, calls, undefined>>

Shutdown ==
    /\ \A p \in DOMAIN FileMap : Undisturbed(p)
    /\ \/ FileMap' = Nothing /\ Disturb(0)
       \/ /\ "close" \in FileFaults /\ Disturb(1)
          /\ \E p \in DOMAIN FileMap : \E before \in SUBSET (DOMAIN FileMap \ {p}) :
                FileMap' = [q \in DOMAIN FileMap \ before |->
                    IF q = p THEN [FileMap[p] EXCEPT !.open = FALSE] ELSE FileMap[q]]
    /\ UNCHANGED <<settings, disk, archives, second, writing, wrote, calls, undefined>>

Setting ==
    /\ Disturb(1)
    /\ \/ RootDirectory' \in Roots \ {RootDirectory} /\ UNCHANGED <<MaxFileSize, MaxArchiveCount>>
       \/ MaxFileSize' \in FileSizes \ {MaxFileSize} /\ UNCHANGED <<RootDirectory, MaxArchiveCount>>
       \/ MaxArchiveCount' \in ArchiveCounts \ {MaxArchiveCount} /\ UNCHANGED <<RootDirectory, MaxFileSize>>
    /\ UNCHANGED <<FileMap, disk, archives, second, writing, wrote, calls, undefined>>

\* The process ends and a new log is made over the same directories.
Restart ==
    /\ Disturb(1)
    /\ RootDirectory' = FirstRoot /\ MaxFileSize' = FirstFileSize /\ MaxArchiveCount' = 0
    /\ FileMap' = Nothing
    /\ writing' = [c \in Writers |-> NoCall] /\ wrote' = [c \in Writers |-> "none"]
    /\ UNCHANGED <<disk, archives, second, calls, undefined>>

SecondPasses ==
    /\ second < MaxSecond
    /\ second' = second + 1
    /\ UNCHANGED <<settings, FileMap, disk, archives, writing, wrote, calls, changes, undefined>>

LogNext ==
    /\ ~undefined
    /\ \/ \E c \in Writers :
            \/ WriteCompletes(c) \/ FileWriteResumes(c)
            \/ \E name \in Filenames, n \in RecordSizes : FileWrite(c, name, n)
       \/ \E p \in Paths : CloseFile(p)
       \/ Shutdown \/ Setting \/ Restart \/ SecondPasses

LogSpec == LogInit /\ [][LogNext]_logVars

-----------------------------------------------------------------------------
\* Where no call is under way, the size in the map is the size of the file, through
\* rollovers, failures, reopening and restarts, so that the limit is applied to what
\* is really there (Log.hpp:218, 247, 309); a file that is open exists.
Pending(p) == {c \in Writers : writing[c] # NoCall /\ writing[c].path = p}
SizesKnown ==
    \A p \in DOMAIN FileMap : FileMap[p].open =>
        /\ p \in DOMAIN disk
        /\ Pending(p) = {} => FileMap[p].CurrentSize = Len(disk[p])

\* "清理旧归档文件" (Log.hpp:499), clean up old archives: what disappears from a
\* log was written before everything that stays.
Texts(p) ==
    (UNION {ToSet(a.text) : a \in archives[p]}) \union IF p \in DOMAIN disk THEN ToSet(disk[p]) ELSE {}
OldestGoFirst ==
    [][\A p \in Paths : \A gone \in Texts(p) \ Texts(p)', kept \in Texts(p)' : gone < kept]_logVars

\* The i-th oldest archive; the archives in their order, and last the file.
Nth(all, i) == CHOOSE a \in all : Cardinality({b \in all : Older(b, a)}) = i - 1
Volumes(p) ==
    Append([i \in 1..Cardinality(archives[p]) |-> Nth(archives[p], i).text],
           IF p \in DOMAIN disk THEN disk[p] ELSE <<>>)
LogVolumes == [p \in Paths |-> Volumes(p)]
LogCalls ==
    [c \in Writers |->
        IF writing[c] = NoCall THEN [path |-> <<>>, record |-> <<>>, outcome |-> "none"]
        ELSE [path |-> writing[c].path, record |-> writing[c].record,
              outcome |-> IF writing[c].at = "writing" THEN "none"
                          ELSE IF writing[c].written = Len(writing[c].record) THEN "written"
                          ELSE "nothing written"]]
LogPromised ==
    INSTANCE LogPromise WITH
        Callers <- Writers,
        Records <- {[i \in 1..n |-> k] : n \in RecordSizes, k \in 1..MaxCalls},
        Limits <- ArchiveCounts \union {0},
        volumes <- LogVolumes, limit <- MaxArchiveCount, answer <- wrote, writing <- LogCalls

\* A record that is reported as written is in the log, whole, once and in its
\* place, through rollovers, clean-ups, reopening and changes; a clean-up takes
\* the oldest archives and no more than the limit asks for.
LogKept == LogPromised!Spec
=============================================================================
