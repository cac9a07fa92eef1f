----------------------------- MODULE LogProofs -----------------------------
(***************************************************************************)
(* Proofs about Log.tla, for any directories, sizes, limits and faults of  *)
(* files, where no file is used again before a call on it has returned.    *)
(***************************************************************************)
EXTENDS Log, TLAPS, FiniteSetTheorems, FunctionTheorems, SequenceTheorems

Entries  == [node : Nat, handle : Nat, open : BOOLEAN, CurrentSize : Int]
Archives == [second : Nat, suffix : Nat, text : Seq(Nat)]
CallRecords ==
    [at : {"writing", "resuming"}, path : Paths, record : Seq(Nat), node : Nat, handle : Nat,
     written : Nat]
Maps(T) == UNION {[D -> T] : D \in SUBSET Paths}

Types ==
    /\ RootDirectory \in Roots /\ MaxFileSize \in Nat /\ MaxArchiveCount \in ArchiveCounts \cup {0}
    /\ FileMap \in Maps(Entries) /\ disk \in Maps(Seq(Nat)) /\ archives \in [Paths -> SUBSET Archives]
    /\ second \in Nat /\ calls \in Nat
    /\ writing \in [Writers -> {NoCall} \cup CallRecords]
    /\ DOMAIN wrote = Writers

\* Where callers await each call on a file: a call has its file for itself, and the
\* entry that it goes on to use after its await is still there.  The code does not see
\* to either (Log.hpp:304-313).
Alone ==
    \A c, d \in Writers :
        writing[c] # NoCall /\ writing[d] # NoCall /\ writing[c].path = writing[d].path => c = d
EntriesStay == \A c \in Writers : writing[c] # NoCall => HoldsEntry(c)

\* The size in the map lacks what has been written but not been settled.
SizesFollow ==
    \A p \in DOMAIN FileMap : FileMap[p].open =>
        /\ p \in DOMAIN disk
        /\ \A c \in Writers : writing[c].at = "resuming" /\ writing[c].path = p =>
              FileMap[p].CurrentSize + writing[c].written = Len(disk[p])
        /\ (\A c \in Writers : writing[c].at = "resuming" => writing[c].path # p) =>
              FileMap[p].CurrentSize = Len(disk[p])

EntriesInv == Types /\ Alone /\ EntriesStay /\ SizesFollow /\ ~undefined

-----------------------------------------------------------------------------
(* Functions on some of the paths.                                         *)

Same(f, g, p) ==
    \A q : q # p => (q \in DOMAIN f <=> q \in DOMAIN g) /\ (q \in DOMAIN f => f[q] = g[q])

LEMMA MapType ==
  ASSUME NEW T, NEW f
  PROVE  f \in Maps(T) <=> (DOMAIN f \subseteq Paths /\ f \in [DOMAIN f -> T])
<1>1. ASSUME f \in Maps(T) PROVE DOMAIN f \subseteq Paths /\ f \in [DOMAIN f -> T]
  <2>1. PICK D \in SUBSET Paths : f \in [D -> T]
    BY <1>1 DEF Maps
  <2> QED
    BY <2>1
<1>2. ASSUME DOMAIN f \subseteq Paths, f \in [DOMAIN f -> T] PROVE f \in Maps(T)
  BY <1>2 DEF Maps
<1> QED
  BY <1>1, <1>2

LEMMA PutType ==
  ASSUME NEW T, NEW f \in Maps(T), NEW p \in Paths, NEW y \in T
  PROVE  /\ Put(f, p, y) \in Maps(T) /\ p \in DOMAIN Put(f, p, y) /\ Put(f, p, y)[p] = y
         /\ Same(Put(f, p, y), f, p)
BY MapType DEF Put, Same

LEMMA DropType ==
  ASSUME NEW T, NEW f \in Maps(T), NEW p
  PROVE  Drop(f, p) \in Maps(T) /\ p \notin DOMAIN Drop(f, p) /\ Same(Drop(f, p), f, p)
BY MapType DEF Drop, Same

Changed(f, p, y) == [f EXCEPT ![p] = y]
LEMMA ChangeType ==
  ASSUME NEW T, NEW f \in Maps(T), NEW p \in DOMAIN f, NEW y \in T
  PROVE  /\ Changed(f, p, y) \in Maps(T) /\ p \in DOMAIN Changed(f, p, y)
         /\ Changed(f, p, y)[p] = y /\ Same(Changed(f, p, y), f, p)
BY MapType DEF Same, Changed

LEMMA SameTwice ==
  ASSUME NEW f, NEW g, NEW h, NEW p, Same(f, g, p), Same(g, h, p)
  PROVE  Same(f, h, p)
<1> SUFFICES ASSUME NEW q, q # p
             PROVE  (q \in DOMAIN f <=> q \in DOMAIN h) /\ (q \in DOMAIN f => f[q] = h[q])
  BY DEF Same
<1>1. (q \in DOMAIN f <=> q \in DOMAIN g) /\ (q \in DOMAIN g <=> q \in DOMAIN h)
  BY DEF Same
<1>2. ASSUME q \in DOMAIN f PROVE f[q] = g[q] /\ g[q] = h[q]
  BY <1>1, <1>2 DEF Same
<1> QED
  BY <1>1, <1>2

-----------------------------------------------------------------------------
(* What FileWrite makes of the map, the files and the archives.            *)

Text(d, p) == IF p \in DOMAIN d THEN d[p] ELSE <<>>

Ended == {"no", "nothing written", "exception"}
Worlds == [map : Maps(Entries), disk : Maps(Seq(Nat)), archives : [Paths -> SUBSET Archives],
           ends : Ended, failures : Nat]

\* The archives after a rollover of what is in the file.
Suffix(p) == CHOOSE s \in FreeSuffixes(archives[p]) : \A t \in FreeSuffixes(archives[p]) : s <= t
Newest(p) == [second |-> second, suffix |-> Suffix(p), text |-> Text(disk, p)]
Archived(p) == CleanupOldArchives(archives[p] \cup {Newest(p)})

Kept(w, p)   == w.archives = archives /\ Text(w.disk, p) = Text(disk, p)
Rolled(w, p) ==
    /\ FreeSuffixes(archives[p]) # {}
    /\ w.archives = [archives EXCEPT ![p] = Archived(p)] /\ Text(w.disk, p) = <<>>

EntryRight(w, p) ==
    /\ w.ends = "no" => IsOpen(w.map, p)
    /\ IsOpen(w.map, p) => p \in DOMAIN w.disk

Outcome(w, p) ==
    /\ w \in Worlds /\ Same(w.map, FileMap, p) /\ Same(w.disk, disk, p)
    /\ EntryRight(w, p)

IsReady(w, p) ==
    /\ Outcome(w, p) /\ (Kept(w, p) \/ Rolled(w, p))
    /\ IsOpen(w.map, p) => w.map[p].CurrentSize = Len(w.disk[p])

IsOpened(w, p) ==
    /\ Outcome(w, p) /\ Kept(w, p)
    /\ IsOpen(w.map, p) => w.map[p].CurrentSize \in {Len(w.disk[p]), UnknownSize}
    /\ w.ends # "no" => ~IsOpen(w.map, p)

LEMMA WorldType ==
  ASSUME Types
  PROVE  World \in Worlds /\ World.map = FileMap /\ World.disk = disk
         /\ World.archives = archives /\ World.ends = "no" /\ World.failures = 0
BY DEF Types, World, Worlds, Ended

LEMMA FailingWorld ==
  ASSUME NEW fault, NEW w \in Worlds, NEW v \in Failing(fault, w)
  PROVE  /\ v \in Worlds /\ v.map = w.map /\ v.disk = w.disk /\ v.archives = w.archives
         /\ v.ends = w.ends
<1>1. v = [w EXCEPT !.failures = w.failures + 1]
  BY DEF Failing
<1> QED
  BY <1>1 DEF Worlds

LEMMA EndsWorld ==
  ASSUME NEW w \in Worlds, NEW how \in Ended
  PROVE  /\ Ends(w, how) \in Worlds /\ Ends(w, how).map = w.map /\ Ends(w, how).disk = w.disk
         /\ Ends(w, how).archives = w.archives /\ Ends(w, how).ends = how
BY DEF Ends, Worlds

\* A world with another map and other files.
With(w, m, d) == [w EXCEPT !.map = m, !.disk = d]
LEMMA WithType ==
  ASSUME NEW w \in Worlds, NEW m \in Maps(Entries), NEW d \in Maps(Seq(Nat))
  PROVE  /\ With(w, m, d) \in Worlds /\ With(w, m, d).map = m /\ With(w, m, d).disk = d
         /\ With(w, m, d).archives = w.archives /\ With(w, m, d).ends = w.ends
BY DEF With, Worlds

Resized(e, n) == [e EXCEPT !.CurrentSize = n]
LEMMA ResizedType ==
  ASSUME NEW e \in Entries, NEW n \in Int
  PROVE  /\ Resized(e, n) \in Entries /\ Resized(e, n).CurrentSize = n
         /\ Resized(e, n).open = e.open /\ Resized(e, n).node = e.node
BY DEF Resized, Entries

LEMMA TextType == ASSUME NEW d \in Maps(Seq(Nat)), NEW p PROVE Text(d, p) \in Seq(Nat)
BY MapType DEF Text

(* FileWrite finds the file open, opens it, or fails to.                   *)
LEMMA OpenedWorlds ==
  ASSUME Types, SizesFollow, NEW p \in Paths, NEW id \in Nat, NEW w \in Opened(World, p, id),
         \A c \in Writers : writing[c].at = "resuming" => writing[c].path # p
  PROVE  IsOpened(w, p)
<1>1. CASE IsOpen(World.map, p)
  <2>1. w = World
    BY <1>1 DEF Opened
  <2>2. FileMap[p].CurrentSize = Len(disk[p]) /\ p \in DOMAIN disk
    BY <1>1, WorldType DEF SizesFollow, IsOpen
  <2> QED
    BY <1>1, <2>1, <2>2, WorldType DEF IsOpened, Outcome, EntryRight, Kept, Same
<1>2. CASE ~IsOpen(World.map, p)
  <2> DEFINE text == Text(disk, p)
             node == IF p \in DOMAIN FileMap THEN FileMap[p].node ELSE id
             Entry(n) == [node |-> node, handle |-> id, open |-> TRUE, CurrentSize |-> n]
             open == [World EXCEPT !.disk = Put(World.disk, p, text),
                                   !.map = Put(World.map, p, Entry(Len(text)))]
             blind == [open EXCEPT !.map[p].CurrentSize = UnknownSize]
  <2>1. /\ w \in {open} \cup Failing("directory", Ends(World, "nothing written"))
                \cup Failing("open", Ends(World, "exception"))
                \cup Failing("size", blind)
    BY <1>2, WorldType DEF Opened, Text
  <2>2. text \in Seq(Nat)
    BY TextType DEF Types
  <2>3. \A n \in Int : Entry(n) \in Entries
    <3>1. FileMap \in [DOMAIN FileMap -> Entries]
      BY MapType DEF Types
    <3>2. node \in Nat
      BY <3>1 DEF Entries
    <3> HIDE DEF node
    <3> QED
      BY <3>2 DEF Entries
  <2>4. Entry(Len(text)) \in Entries /\ Entry(UnknownSize) \in Entries
    BY <2>2, <2>3 DEF UnknownSize
  <2>5. /\ open \in Worlds /\ open.archives = archives /\ open.ends = "no"
        /\ Same(open.map, FileMap, p) /\ Same(open.disk, disk, p)
        /\ p \in DOMAIN open.map /\ open.map[p] = Entry(Len(text))
        /\ p \in DOMAIN open.disk /\ open.disk[p] = text
    <3> DEFINE map == Put(FileMap, p, Entry(Len(text)))
               files == Put(disk, p, text)
    <3> HIDE DEF text, Entry
    <3>1. open = With(World, map, files)
      BY WorldType DEF With, Worlds
    <3> HIDE DEF open
    <3>2. map \in Maps(Entries) /\ Same(map, FileMap, p) /\ p \in DOMAIN map /\ map[p] = Entry(Len(text))
      BY <2>4, PutType DEF Types
    <3>3. files \in Maps(Seq(Nat)) /\ Same(files, disk, p) /\ p \in DOMAIN files /\ files[p] = text
      BY <2>2, PutType DEF Types
    <3> HIDE DEF map, files
    <3>4. /\ open \in Worlds /\ open.map = map /\ open.disk = files /\ open.archives = archives
          /\ open.ends = "no"
      BY <3>1, <3>2, <3>3, WithType, WorldType
    <3> QED
      BY <3>2, <3>3, <3>4
  <2>6. IsOpened(open, p)
    <3>1. IsOpen(open.map, p) /\ open.map[p].CurrentSize = Len(open.disk[p])
      BY <2>5 DEF IsOpen
    <3>2. Kept(open, p)
      BY <2>5 DEF Kept, Text
    <3> HIDE DEF open
    <3> QED
      BY <2>5, <3>1, <3>2 DEF IsOpened, Outcome, EntryRight
  <2>7. blind \in Worlds /\ IsOpened(blind, p)
    <3> DEFINE entry == Resized(open.map[p], UnknownSize)
               map == Changed(open.map, p, entry)
    <3>1. Entry(Len(text)).open
      OBVIOUS
    <3> HIDE DEF text, Entry, open
    <3>2. entry \in Entries /\ entry.CurrentSize = UnknownSize /\ entry.open
      <4>1. UnknownSize \in Int
        BY DEF UnknownSize
      <4> QED
        BY <2>4, <2>5, <3>1, <4>1, ResizedType
    <3>3. blind = With(open, map, open.disk)
      BY <2>5 DEF With, Worlds, Changed, Resized
    <3> HIDE DEF blind, entry
    <3>4. map \in Maps(Entries) /\ p \in DOMAIN map /\ map[p] = entry /\ Same(map, open.map, p)
      <4>1. open.map \in Maps(Entries)
        BY <2>5 DEF Worlds
      <4> QED
        BY <2>5, <3>2, <4>1, ChangeType
    <3> HIDE DEF map
    <3>5. open.disk \in Maps(Seq(Nat))
      BY <2>5 DEF Worlds
    <3>6. /\ blind \in Worlds /\ blind.archives = archives /\ blind.ends = "no"
          /\ blind.disk = open.disk /\ blind.map = map
      BY <2>5, <3>3, <3>4, <3>5, WithType
    <3>7. Same(blind.map, FileMap, p)
      BY <2>5, <3>4, <3>6, SameTwice
    <3>8. IsOpen(blind.map, p) /\ blind.map[p].CurrentSize = UnknownSize
      BY <3>2, <3>4, <3>6 DEF IsOpen
    <3>9. Kept(blind, p)
      BY <2>5, <3>6 DEF Kept, Text, text
    <3> QED
      BY <2>5, <3>6, <3>7, <3>8, <3>9 DEF IsOpened, Outcome, EntryRight
  <2>8. ASSUME NEW v \in Worlds, IsOpened(v, p), NEW f, w \in Failing(f, v) PROVE IsOpened(w, p)
    BY <2>8, FailingWorld DEF IsOpened, Outcome, EntryRight, Kept
  <2>9. ASSUME NEW how \in Ended, how # "no"
        PROVE  IsOpened(Ends(World, how), p) /\ Ends(World, how) \in Worlds
    <3>1. /\ Ends(World, how) \in Worlds /\ Ends(World, how).map = FileMap
          /\ Ends(World, how).disk = disk /\ Ends(World, how).archives = archives
          /\ Ends(World, how).ends = how
      BY WorldType, EndsWorld
    <3>2. ~IsOpen(FileMap, p)
      BY <1>2, WorldType
    <3> QED
      BY <2>9, <3>1, <3>2 DEF IsOpened, Outcome, EntryRight, Kept, Same
  <2>10. "nothing written" \in Ended /\ "exception" \in Ended
    BY DEF Ended
  <2> HIDE DEF open, blind
  <2> QED
    BY <2>1, <2>6, <2>7, <2>8, <2>9, <2>10
<1> QED
  BY <1>1, <1>2

LEMMA LeastOfFew ==
  ASSUME NEW S \in SUBSET (0..9), S # {}
  PROVE  \E s \in S : \A t \in S : s <= t
<1> SUFFICES ASSUME \A s \in S : \E t \in S : t < s
             PROVE  FALSE
  OBVIOUS
<1>1. S \cap (0..2) = {}
  <2>1. 0 \notin S
    OBVIOUS
  <2>2. 1 \notin S
    BY <2>1
  <2>3. 2 \notin S
    BY <2>1, <2>2
  <2> QED
    BY <2>1, <2>2, <2>3
<1>2. S \cap (0..4) = {}
  <2>1. 3 \notin S
    BY <1>1
  <2>2. 4 \notin S
    BY <1>1, <2>1
  <2> QED
    BY <1>1, <2>1, <2>2
<1>3. S \cap (0..6) = {}
  <2>1. 5 \notin S
    BY <1>2
  <2>2. 6 \notin S
    BY <1>2, <2>1
  <2> QED
    BY <1>2, <2>1, <2>2
<1>4. S \cap (0..8) = {}
  <2>1. 7 \notin S
    BY <1>3
  <2>2. 8 \notin S
    BY <1>3, <2>1
  <2> QED
    BY <1>3, <2>1, <2>2
<1>5. 9 \notin S
  BY <1>4
<1>6. PICK s \in S : TRUE
  OBVIOUS
<1>7. s \in 0..9 /\ s \notin 0..8 /\ s # 9
  BY <1>4, <1>5
<1> QED
  BY <1>7

(* The file is given the first free name.                                  *)
LEMMA FirstFree ==
  ASSUME NEW p \in Paths, FreeSuffixes(archives[p]) # {}
  PROVE  /\ Suffix(p) \in FreeSuffixes(archives[p]) /\ Suffix(p) \in Nat
         /\ \A t \in FreeSuffixes(archives[p]) : Suffix(p) <= t
<1>1. FreeSuffixes(archives[p]) \subseteq 0..9
  BY LogAssumption DEF FreeSuffixes, LogAssumption
<1>2. \E s \in FreeSuffixes(archives[p]) : \A t \in FreeSuffixes(archives[p]) : s <= t
  BY <1>1, LeastOfFew
<1>3. /\ Suffix(p) \in FreeSuffixes(archives[p])
      /\ \A t \in FreeSuffixes(archives[p]) : Suffix(p) <= t
  BY <1>2 DEF Suffix
<1> QED
  BY <1>1, <1>3

LEMMA ArchivedType ==
  ASSUME Types, NEW p \in Paths, FreeSuffixes(archives[p]) # {}
  PROVE  Newest(p) \in Archives /\ Archived(p) \subseteq archives[p] \cup {Newest(p)}
         /\ [archives EXCEPT ![p] = Archived(p)] \in [Paths -> SUBSET Archives]
<1>1. Text(disk, p) \in Seq(Nat)
  BY TextType DEF Types
<1>2. Newest(p) \in Archives
  BY <1>1, FirstFree DEF Types, Newest, Archives
<1>3. Archived(p) \subseteq archives[p] \cup {Newest(p)}
  BY DEF Archived, CleanupOldArchives
<1> QED
  BY <1>2, <1>3 DEF Types

Shut(e) == [e EXCEPT !.open = FALSE]
Renewed(e, id) == [node |-> e.node, handle |-> id, open |-> TRUE, CurrentSize |-> 0]
LEMMA ShutType ==
  ASSUME NEW e \in Entries, NEW id \in Nat
  PROVE  /\ Shut(e) \in Entries /\ ~Shut(e).open /\ Renewed(e, id) \in Entries
         /\ Renewed(e, id).open /\ Renewed(e, id).CurrentSize = 0
<1>1. Shut(e) \in Entries /\ ~Shut(e).open
  BY DEF Shut, Entries
<1>2. Renewed(e, id) \in Entries
  <2>1. e.node \in Nat
    BY DEF Entries
  <2> QED
    BY <2>1 DEF Renewed, Entries
<1>3. Renewed(e, id).open /\ Renewed(e, id).CurrentSize = 0
  BY DEF Renewed, Entries
<1> QED
  BY <1>1, <1>2, <1>3

(* A call that ends here leaves its file closed.                           *)
LEMMA ReadyEnds ==
  ASSUME NEW w \in Worlds, NEW p, Same(w.map, FileMap, p), Same(w.disk, disk, p),
         ~IsOpen(w.map, p), Kept(w, p) \/ Rolled(w, p), NEW how \in Ended, how # "no"
  PROVE  IsReady(Ends(w, how), p) /\ Ends(w, how) \in Worlds
<1>1. /\ Ends(w, how) \in Worlds /\ Ends(w, how).map = w.map /\ Ends(w, how).disk = w.disk
      /\ Ends(w, how).archives = w.archives /\ Ends(w, how).ends = how
  BY EndsWorld
<1> QED
  BY <1>1 DEF IsReady, Outcome, EntryRight, Kept, Rolled

LEMMA ReadyFails ==
  ASSUME NEW v \in Worlds, NEW p, IsReady(v, p), NEW f, NEW w \in Failing(f, v)
  PROVE  IsReady(w, p)
BY FailingWorld DEF IsReady, Outcome, EntryRight, Kept, Rolled

\* A world whose archives are those after the rollover.
WithArchives(w, a) == [w EXCEPT !.archives = a]
LEMMA WithArchivesType ==
  ASSUME NEW w \in Worlds, NEW a \in [Paths -> SUBSET Archives]
  PROVE  /\ WithArchives(w, a) \in Worlds /\ WithArchives(w, a).map = w.map
         /\ WithArchives(w, a).disk = w.disk
         /\ WithArchives(w, a).archives = a /\ WithArchives(w, a).ends = w.ends
BY DEF WithArchives, Worlds

(* The file is rolled over, or the attempt ends the call.                  *)
LEMMA RolledWorlds ==
  ASSUME Types, NEW p \in Paths, NEW id \in Nat, NEW v \in Worlds, IsOpened(v, p), v.ends = "no",
         NEW w \in RolledOver(v, p, id)
  PROVE  IsReady(w, p)
<1> DEFINE free == FreeSuffixes(archives[p])
           closed == [v EXCEPT !.map[p].open = FALSE]
           after == [archives EXCEPT ![p] = Archived(p)]
           archived == [closed EXCEPT
             !.archives[p] = CleanupOldArchives(closed.archives[p] \cup
                 {[second |-> second, suffix |-> Suffix(p), text |-> v.disk[p]]}),
             !.disk = Drop(closed.disk, p)]
           renewed == [archived EXCEPT
             !.disk = Put(archived.disk, p, <<>>),
             !.map[p] = [node |-> archived.map[p].node, handle |-> id, open |-> TRUE,
                         CurrentSize |-> 0]]
           gone == [closed EXCEPT !.map = Drop(closed.map, p)]
<1>1. /\ v.map \in Maps(Entries) /\ v.disk \in Maps(Seq(Nat)) /\ v.archives = archives
      /\ p \in DOMAIN v.map /\ p \in DOMAIN v.disk /\ v.disk[p] = Text(disk, p)
      /\ Same(v.map, FileMap, p) /\ Same(v.disk, disk, p) /\ v.map[p] \in Entries
  <2>1. v.map \in Maps(Entries) /\ v.disk \in Maps(Seq(Nat))
    BY DEF Worlds
  <2>2. p \in DOMAIN v.map /\ p \in DOMAIN v.disk
    BY DEF IsOpened, Outcome, EntryRight, IsOpen
  <2>3. v.map[p] \in Entries
    BY <2>1, <2>2, MapType
  <2> QED
    BY <2>1, <2>2, <2>3 DEF IsOpened, Outcome, Kept, Text
<1>2. w \in Failing("close", Ends(closed, "exception"))
        \cup IF free = {} THEN {Ends(gone, "nothing written")}
             ELSE Failing("rename", Ends(gone, "nothing written")) \cup {renewed}
                  \cup Failing("open", Ends(archived, "exception"))
  BY <1>1 DEF RolledOver, Closed, Suffix
<1>3. /\ closed \in Worlds /\ closed.archives = archives /\ closed.ends = "no"
      /\ closed.disk = v.disk /\ Same(closed.map, FileMap, p)
      /\ p \in DOMAIN closed.map /\ closed.map[p] \in Entries /\ ~IsOpen(closed.map, p)
  <2> DEFINE map == Changed(v.map, p, Shut(v.map[p]))
  <2>1. closed = With(v, map, v.disk)
    BY <1>1 DEF With, Worlds, Changed, Shut
  <2> HIDE DEF closed
  <2>2. Shut(v.map[p]) \in Entries /\ ~Shut(v.map[p]).open
    BY <1>1, ShutType
  <2>3. map \in Maps(Entries) /\ p \in DOMAIN map /\ map[p] = Shut(v.map[p]) /\ Same(map, v.map, p)
    BY <1>1, <2>2, ChangeType
  <2> HIDE DEF map
  <2>4. /\ closed \in Worlds /\ closed.map = map /\ closed.disk = v.disk
        /\ closed.archives = archives /\ closed.ends = "no"
    BY <1>1, <2>1, <2>3, WithType
  <2>5. Same(map, FileMap, p)
    BY <1>1, <2>3, SameTwice
  <2> QED
    BY <2>2, <2>3, <2>4, <2>5 DEF IsOpen
<1>4. Kept(closed, p)
  BY <1>1, <1>3 DEF Kept, Text
<1>5. /\ gone \in Worlds /\ Same(gone.map, FileMap, p) /\ gone.disk = v.disk
      /\ ~IsOpen(gone.map, p) /\ Kept(gone, p)
  <2> DEFINE map == Drop(closed.map, p)
  <2> HIDE DEF closed
  <2>0. closed.map \in Maps(Entries) /\ closed.disk \in Maps(Seq(Nat))
    BY <1>3 DEF Worlds
  <2>1. gone = With(closed, map, closed.disk)
    BY <1>3 DEF With, Worlds
  <2> HIDE DEF gone
  <2>2. map \in Maps(Entries) /\ p \notin DOMAIN map /\ Same(map, closed.map, p)
    BY <2>0, DropType
  <2> HIDE DEF map
  <2>3. gone \in Worlds /\ gone.map = map /\ gone.disk = v.disk /\ gone.archives = archives
    BY <1>3, <2>0, <2>1, <2>2, WithType
  <2>4. Same(map, FileMap, p)
    BY <1>3, <2>2, SameTwice
  <2> QED
    BY <1>1, <2>2, <2>3, <2>4 DEF IsOpen, Kept, Text
<1>6. ASSUME free # {}
      PROVE  /\ archived \in Worlds /\ archived.map = closed.map /\ archived.archives = after
             /\ Same(archived.disk, disk, p) /\ archived.ends = "no" /\ Rolled(archived, p)
  <2> DEFINE files == Drop(closed.disk, p)
  <2>1. [closed.archives EXCEPT ![p] = CleanupOldArchives(closed.archives[p] \cup
                 {[second |-> second, suffix |-> Suffix(p), text |-> v.disk[p]]})] = after
    <3> HIDE DEF closed
    <3> QED
      BY <1>1, <1>3 DEF Archived, Newest
  <2> HIDE DEF closed, after
  <2>2. archived = WithArchives(With(closed, closed.map, files), after)
    BY <1>3, <2>1 DEF With, WithArchives, Worlds
  <2> HIDE DEF archived
  <2>3. closed.map \in Maps(Entries) /\ closed.disk \in Maps(Seq(Nat))
    BY <1>3 DEF Worlds
  <2>4. files \in Maps(Seq(Nat)) /\ p \notin DOMAIN files /\ Same(files, closed.disk, p)
    BY <2>3, DropType
  <2> HIDE DEF files
  <2>5. after \in [Paths -> SUBSET Archives]
    BY <1>6, ArchivedType DEF after
  <2>6. /\ archived \in Worlds /\ archived.map = closed.map /\ archived.archives = after
        /\ archived.disk = files /\ archived.ends = "no"
    BY <1>3, <2>2, <2>3, <2>4, <2>5, WithType, WithArchivesType
  <2>7. Same(files, disk, p)
    BY <1>1, <1>3, <2>4, SameTwice
  <2>8. Rolled(archived, p)
    BY <1>6, <2>4, <2>6 DEF Rolled, Text, after
  <2> QED
    BY <2>6, <2>7, <2>8
<1>7. ASSUME free # {} PROVE IsReady(renewed, p)
  <2> DEFINE map == Changed(archived.map, p, Renewed(archived.map[p], id))
             files == Put(archived.disk, p, <<>>)
  <2> HIDE DEF closed, archived
  <2>1. renewed = With(archived, map, files)
    BY <1>6, <1>7 DEF With, Worlds, Changed, Renewed
  <2> HIDE DEF renewed
  <2>2. archived.map \in Maps(Entries) /\ archived.disk \in Maps(Seq(Nat))
    BY <1>6, <1>7 DEF Worlds
  <2>3. Renewed(archived.map[p], id) \in Entries /\ Renewed(archived.map[p], id).open
        /\ Renewed(archived.map[p], id).CurrentSize = 0
    BY <1>3, <1>6, <1>7, ShutType
  <2>4. /\ map \in Maps(Entries) /\ p \in DOMAIN map /\ map[p] = Renewed(archived.map[p], id)
        /\ Same(map, archived.map, p)
    BY <1>3, <1>6, <1>7, <2>2, <2>3, ChangeType
  <2>5. <<>> \in Seq(Nat) /\ Len(<<>>) = 0
    OBVIOUS
  <2>6. files \in Maps(Seq(Nat)) /\ p \in DOMAIN files /\ files[p] = <<>>
        /\ Same(files, archived.disk, p)
    BY <2>2, <2>5, PutType
  <2> HIDE DEF map, files
  <2>7. /\ renewed \in Worlds /\ renewed.map = map /\ renewed.disk = files
        /\ renewed.archives = after /\ renewed.ends = "no"
    BY <1>6, <1>7, <2>1, <2>4, <2>6, WithType
  <2>8. Same(map, FileMap, p) /\ Same(files, disk, p)
    BY <1>3, <1>6, <1>7, <2>4, <2>6, SameTwice
  <2>9. Rolled(renewed, p)
    BY <1>7, <2>6, <2>7 DEF Rolled, Text
  <2> HIDE DEF after
  <2>10. IsOpen(map, p) /\ map[p].CurrentSize = Len(files[p])
    BY <2>3, <2>4, <2>5, <2>6 DEF IsOpen
  <2> QED
    BY <2>6, <2>7, <2>8, <2>9, <2>10 DEF IsReady, Outcome, EntryRight
<1>8. "nothing written" \in Ended /\ "exception" \in Ended
  BY DEF Ended
<1> HIDE DEF closed, gone, archived, renewed
<1>9. IsReady(Ends(closed, "exception"), p) /\ Ends(closed, "exception") \in Worlds
  BY <1>1, <1>3, <1>4, <1>8, ReadyEnds
<1>10. IsReady(Ends(gone, "nothing written"), p) /\ Ends(gone, "nothing written") \in Worlds
  BY <1>1, <1>5, <1>8, ReadyEnds
<1>11. ASSUME free # {}
       PROVE  IsReady(Ends(archived, "exception"), p) /\ Ends(archived, "exception") \in Worlds
  <2>1. /\ archived \in Worlds /\ Same(archived.map, FileMap, p) /\ Same(archived.disk, disk, p)
        /\ ~IsOpen(archived.map, p) /\ Rolled(archived, p)
    BY <1>3, <1>6, <1>11
  <2> QED
    BY <1>8, <2>1, ReadyEnds
<1> HIDE DEF free
<1> QED
  BY <1>2, <1>7, <1>9, <1>10, <1>11, ReadyFails

\* The call of FileWrite that ends at w: its record is about to be written, or it has failed.
Record(n) == [i \in 1..n |-> calls + 1]
Call(w, p, n) ==
    [at |-> "writing", path |-> p, record |-> Record(n), node |-> w.map[p].node,
     handle |-> w.map[p].handle, written |-> 0]
Undertaken(c, p, n, w) ==
    /\ IsReady(w, p) /\ FileMap' = w.map /\ disk' = w.disk /\ archives' = w.archives
    /\ w.archives = archives \/ NamedInOrder(p)
    /\ calls < MaxCalls /\ calls' = calls + 1
    /\ writing[c] = NoCall /\ \A d \in Writers : writing[d] # NoCall => writing[d].path # p
    /\ \/ w.ends = "no" /\ writing' = [writing EXCEPT ![c] = Call(w, p, n)] /\ wrote' = wrote
       \/ w.ends # "no" /\ wrote' = [wrote EXCEPT ![c] = w.ends] /\ writing' = writing
    /\ settings' = settings /\ second' = second /\ undefined' = undefined

(* FileWrite up to its await, when nobody else uses the file.              *)
LEMMA FileWriteBegins ==
  ASSUME Types, SizesFollow, ~Overlap, NEW c \in Writers, NEW name \in Filenames,
         NEW n \in RecordSizes, FileWrite(c, name, n)
  PROVE  \E p \in Paths, w \in Worlds : Undertaken(c, p, n, w)
<1> DEFINE p == <<RootDirectory, name>>
           id == calls + 1
           ready == UNION {IF w.ends = "no" /\ MustRoll(w, p, n) THEN RolledOver(w, p, id) ELSE {w}
                             : w \in Opened(World, p, id)}
<1>1. p \in Paths /\ id \in Nat
  BY DEF Types, Paths
<1>2. Undisturbed(p)
  BY DEF FileWrite
<1>3. \A d \in Writers : writing[d] # NoCall => writing[d].path # p
  BY <1>2 DEF Undisturbed
<1>4. \A d \in Writers : writing[d].at = "resuming" => writing[d].path # p
  BY <1>3 DEF NoCall
<1>5. PICK w \in ready :
         /\ w.archives = archives \/ NamedInOrder(p)
         /\ FileMap' = w.map /\ disk' = w.disk /\ archives' = w.archives
         /\ \/ /\ w.ends = "no"
               /\ writing' = [writing EXCEPT ![c] =
                     [at |-> "writing", path |-> p, record |-> [i \in 1..n |-> id],
                      node |-> w.map[p].node, handle |-> w.map[p].handle, written |-> 0]]
               /\ UNCHANGED wrote
            \/ /\ w.ends # "no"
               /\ wrote' = [wrote EXCEPT ![c] = w.ends]
               /\ UNCHANGED writing
  BY DEF FileWrite
<1> HIDE DEF p, id
<1>6. PICK v \in Opened(World, p, id) :
         w \in IF v.ends = "no" /\ MustRoll(v, p, n) THEN RolledOver(v, p, id) ELSE {v}
  OBVIOUS
<1>7. IsOpened(v, p) /\ v \in Worlds
  BY <1>1, <1>4, OpenedWorlds DEF IsOpened, Outcome
<1>8. IsReady(w, p)
  <2>1. CASE v.ends = "no" /\ MustRoll(v, p, n)
    BY <1>1, <1>6, <1>7, <2>1, RolledWorlds
  <2>2. CASE v.ends # "no"
    BY <1>6, <1>7, <2>2 DEF IsOpened, IsReady
  <2>3. CASE v.ends = "no" /\ ~MustRoll(v, p, n)
    BY <1>6, <1>7, <2>3 DEF IsOpened, IsReady, MustRoll
  <2> QED
    BY <2>1, <2>2, <2>3
<1>9. w \in Worlds
  BY <1>8 DEF IsReady, Outcome
<1>10. Undertaken(c, p, n, w)
  <2>1. /\ writing[c] = NoCall /\ calls < MaxCalls /\ calls' = calls + 1
        /\ settings' = settings /\ second' = second /\ undefined' = undefined
    BY DEF FileWrite
  <2> QED
    BY <1>3, <1>5, <1>8, <2>1 DEF Undertaken, Call, Record, id
<1> QED
  BY <1>1, <1>9, <1>10

-----------------------------------------------------------------------------
(* Calls under way.                                                        *)

LEMMA Busy ==
  ASSUME Types, NEW c \in Writers
  PROVE  /\ writing[c] = NoCall <=> writing[c].at = "idle"
         /\ writing[c] # NoCall => writing[c] \in CallRecords /\ writing[c].at \in {"writing", "resuming"}
<1>1. writing[c] \in {NoCall} \cup CallRecords
  BY DEF Types
<1> QED
  BY <1>1 DEF NoCall, CallRecords

LEMMA CallType ==
  ASSUME Types, NEW p \in Paths, NEW w \in Worlds, IsReady(w, p), w.ends = "no", NEW n \in RecordSizes
  PROVE  Call(w, p, n) \in CallRecords /\ Call(w, p, n) # NoCall
<1>1. w.map[p] \in Entries
  <2>1. w.map \in Maps(Entries) /\ p \in DOMAIN w.map
    BY DEF IsReady, Outcome, EntryRight, IsOpen, Worlds
  <2> QED
    BY <2>1, MapType
<1>2. Record(n) \in Seq(Nat)
  <2>1. n \in Nat /\ calls + 1 \in Nat
    BY LogAssumption DEF LogAssumption, Types
  <2> QED
    BY <2>1 DEF Record
<1>3. Call(w, p, n) \in CallRecords
  BY <1>1, <1>2 DEF Call, CallRecords, Entries
<1> QED
  BY <1>3 DEF Call, NoCall

-----------------------------------------------------------------------------
(* Each step keeps what is true of the entries.                            *)

LEMMA BeginStep ==
  ASSUME EntriesInv, NEW c \in Writers, NEW p \in Paths, NEW n \in RecordSizes, NEW w \in Worlds,
         Undertaken(c, p, n, w)
  PROVE  EntriesInv'
<1> USE DEF EntriesInv
<1>1. /\ w.map \in Maps(Entries) /\ w.disk \in Maps(Seq(Nat)) /\ w.archives \in [Paths -> SUBSET Archives]
      /\ Same(w.map, FileMap, p) /\ Same(w.disk, disk, p)
      /\ IsOpen(w.map, p) => p \in DOMAIN w.disk /\ w.map[p].CurrentSize = Len(w.disk[p])
      /\ w.ends = "no" => p \in DOMAIN w.map
  BY DEF Undertaken, IsReady, Outcome, EntryRight, Worlds, IsOpen
<1>2. \/ writing' = [writing EXCEPT ![c] = Call(w, p, n)] /\ w.ends = "no"
      \/ writing' = writing
  BY DEF Undertaken
<1>4. w.ends = "no" => Call(w, p, n) \in CallRecords /\ Call(w, p, n) # NoCall
  BY CallType DEF Undertaken
<1>5. /\ Call(w, p, n).at = "writing" /\ Call(w, p, n).path = p
      /\ Call(w, p, n).node = w.map[p].node
  BY DEF Call
<1>6. writing \in [Writers -> {NoCall} \cup CallRecords] /\ writing[c] = NoCall
  BY DEF Types, Undertaken
<1>7. \A d \in Writers : writing[d] # NoCall => writing[d].path # p
  BY DEF Undertaken
<1>8. \A d \in Writers \ {c} : writing'[d] = writing[d]
  BY <1>2, <1>6
<1>9. writing'[c] = NoCall \/ (writing'[c] = Call(w, p, n) /\ w.ends = "no")
  BY <1>2, <1>6
<1>10. Types'
  <2>1. writing' \in [Writers -> {NoCall} \cup CallRecords]
    BY <1>2, <1>4, <1>6
  <2>2. DOMAIN wrote' = Writers
    BY DEF Undertaken, Types
  <2> QED
    BY <1>1, <2>1, <2>2 DEF Types, Undertaken, settings
<1>11. Alone'
  BY <1>5, <1>7, <1>8, <1>9 DEF Alone
<1>12. EntriesStay'
  <2> SUFFICES ASSUME NEW d \in Writers, writing'[d] # NoCall PROVE HoldsEntry(d)'
    BY DEF EntriesStay
  <2>1. CASE d = c
    BY <1>1, <1>5, <1>9, <2>1 DEF HoldsEntry, Undertaken
  <2>2. CASE d # c
    <3>1. writing'[d] = writing[d] /\ HoldsEntry(d) /\ writing[d].path # p
      BY <1>7, <1>8, <2>2 DEF EntriesStay
    <3> QED
      BY <1>1, <3>1 DEF HoldsEntry, Same, Undertaken
  <2> QED
    BY <2>1, <2>2
<1>13. SizesFollow'
  <2> SUFFICES ASSUME NEW q \in DOMAIN FileMap', FileMap'[q].open
               PROVE  /\ q \in DOMAIN disk'
                      /\ \A d \in Writers : writing'[d].at = "resuming" /\ writing'[d].path = q =>
                            FileMap'[q].CurrentSize + writing'[d].written = Len(disk'[q])
                      /\ (\A d \in Writers : writing'[d].at = "resuming" => writing'[d].path # q) =>
                            FileMap'[q].CurrentSize = Len(disk'[q])
    BY DEF SizesFollow
  <2>1. \A d \in Writers : writing'[d].at = "resuming" => d # c /\ writing'[d] = writing[d]
    BY <1>5, <1>8, <1>9 DEF NoCall
  <2>2. CASE q = p
    <3>1. \A d \in Writers : writing'[d].at = "resuming" => writing'[d].path # p
      BY <1>7, <2>1 DEF NoCall
    <3> QED
      BY <1>1, <2>2, <3>1 DEF Undertaken, IsOpen
  <2>3. CASE q # p
    <3>1. /\ q \in DOMAIN FileMap /\ FileMap'[q] = FileMap[q] /\ FileMap[q].open
          /\ q \in DOMAIN disk <=> q \in DOMAIN disk'
          /\ q \in DOMAIN disk => disk'[q] = disk[q]
      BY <1>1, <2>3 DEF Undertaken, Same
    <3>2. /\ q \in DOMAIN disk
          /\ \A d \in Writers : writing[d].at = "resuming" /\ writing[d].path = q =>
                FileMap[q].CurrentSize + writing[d].written = Len(disk[q])
          /\ (\A d \in Writers : writing[d].at = "resuming" => writing[d].path # q) =>
                FileMap[q].CurrentSize = Len(disk[q])
      BY <3>1 DEF SizesFollow
    <3>3. writing[c].at # "resuming"
      BY <1>6 DEF NoCall
    <3> QED
      BY <1>8, <2>1, <3>1, <3>2, <3>3
  <2> QED
    BY <2>2, <2>3
<1> QED
  BY <1>10, <1>11, <1>12, <1>13 DEF Undertaken

\* What the end of async_write makes of a call: k bytes are in the file.
Completed(r, k) == [r EXCEPT !.at = "resuming", !.written = k]
Stored(c, k) ==
    LET p == writing[c].path
        usable == IsOpen(FileMap, p) /\ FileMap[p].handle = writing[c].handle
    IN  /\ k \in 0..Len(writing[c].record) /\ writing[c].at = "writing"
        /\ usable \/ k = 0
        /\ writing' = [writing EXCEPT ![c] = Completed(writing[c], k)]
        /\ disk' = IF usable THEN Changed(disk, p, disk[p] \o SubSeq(writing[c].record, 1, k)) ELSE disk
        /\ UNCHANGED <<settings, FileMap, archives, second, wrote, calls, undefined>>

LEMMA StoreHappens ==
  ASSUME Types, NEW c \in Writers, WriteCompletes(c)
  PROVE  \E k \in Nat : Stored(c, k)
<1>1. writing[c].at = "writing" /\ writing[c] \in CallRecords
  BY Busy DEF WriteCompletes, NoCall
<1>2. Len(writing[c].record) \in Nat
  BY <1>1 DEF CallRecords
<1> DEFINE p == writing[c].path
           record == writing[c].record
           usable == IsOpen(FileMap, p) /\ FileMap[p].handle = writing[c].handle
<1>3. PICK k \in IF ~usable THEN {0}
                ELSE IF "write" \in FileFaults THEN 0..Len(record) ELSE {Len(record)} :
         /\ disk' = IF usable THEN [disk EXCEPT ![p] = @ \o SubSeq(record, 1, k)] ELSE disk
         /\ writing' = [writing EXCEPT ![c].at = "resuming", ![c].written = k]
  BY DEF WriteCompletes
<1>4. k \in 0..Len(record) /\ (usable \/ k = 0) /\ k \in Nat
  BY <1>2, <1>3
<1>5. writing' = [writing EXCEPT ![c] = Completed(writing[c], k)]
  BY <1>1, <1>3 DEF Completed, CallRecords, Types
<1>6. disk' = IF usable THEN Changed(disk, p, disk[p] \o SubSeq(record, 1, k)) ELSE disk
  BY <1>3 DEF Changed
<1>7. Stored(c, k)
  BY <1>1, <1>4, <1>5, <1>6 DEF Stored, WriteCompletes
<1> QED
  BY <1>4, <1>7

(* What a call has written, and where it stands then.                      *)
LEMMA StoredCall ==
  ASSUME Types, NEW c \in Writers, NEW k \in Nat, Stored(c, k)
  PROVE  /\ writing[c] \in CallRecords /\ writing'[c] \in CallRecords /\ writing'[c] # NoCall
         /\ writing'[c].at = "resuming" /\ writing'[c].written = k
         /\ writing'[c].path = writing[c].path /\ writing'[c].node = writing[c].node
         /\ writing'[c].record = writing[c].record
         /\ \A d \in Writers \ {c} : writing'[d] = writing[d]
         /\ SubSeq(writing[c].record, 1, k) \in Seq(Nat) /\ Len(SubSeq(writing[c].record, 1, k)) = k
<1>1. writing[c].at = "writing"
  BY DEF Stored
<1>2. writing[c] \in CallRecords
  BY <1>1, Busy DEF NoCall
<1>3. writing'[c] = Completed(writing[c], k) /\ \A d \in Writers \ {c} : writing'[d] = writing[d]
  BY DEF Stored, Types
<1>4. /\ Completed(writing[c], k) \in CallRecords /\ Completed(writing[c], k).at = "resuming"
      /\ Completed(writing[c], k).written = k
      /\ Completed(writing[c], k).path = writing[c].path
      /\ Completed(writing[c], k).node = writing[c].node
      /\ Completed(writing[c], k).record = writing[c].record
  BY <1>2 DEF Completed, CallRecords
<1>5. writing[c].record \in Seq(Nat) /\ k \in 0..Len(writing[c].record)
  BY <1>2 DEF CallRecords, Stored
<1>6. SubSeq(writing[c].record, 1, k) \in Seq(Nat) /\ Len(SubSeq(writing[c].record, 1, k)) = k
  BY <1>5
<1> QED
  BY <1>2, <1>3, <1>4, <1>6 DEF NoCall

LEMMA StoreStep ==
  ASSUME EntriesInv, NEW c \in Writers, NEW k \in Nat, Stored(c, k)
  PROVE  EntriesInv'
<1> DEFINE p == writing[c].path
           piece == SubSeq(writing[c].record, 1, k)
           usable == IsOpen(FileMap, p) /\ FileMap[p].handle = writing[c].handle
<1> USE DEF EntriesInv
<1>1. /\ writing[c] \in CallRecords /\ writing'[c] \in CallRecords /\ writing'[c] # NoCall
      /\ writing'[c].at = "resuming" /\ writing'[c].written = k
      /\ writing'[c].path = p /\ writing'[c].node = writing[c].node
      /\ \A d \in Writers \ {c} : writing'[d] = writing[d]
      /\ piece \in Seq(Nat) /\ Len(piece) = k /\ writing[c].at = "writing" /\ writing[c] # NoCall
  <2>1. writing[c].at = "writing" /\ writing[c] # NoCall
    BY DEF Stored, NoCall
  <2>2. Types
    OBVIOUS
  <2> QED
    BY <2>1, <2>2, StoredCall
<1>2. p \in Paths
  BY <1>1 DEF CallRecords
<1>3. FileMap' = FileMap /\ undefined' = undefined
  BY DEF Stored
<1>4. disk \in Maps(Seq(Nat)) /\ FileMap \in Maps(Entries)
  BY DEF Types
<1>5. usable => p \in DOMAIN disk /\ disk[p] \in Seq(Nat)
  BY <1>4, MapType DEF SizesFollow, IsOpen
<1>6. /\ disk' \in Maps(Seq(Nat)) /\ Same(disk', disk, p)
      /\ p \in DOMAIN disk => p \in DOMAIN disk' /\ Len(disk'[p]) = Len(disk[p]) + k
  <2>1. CASE usable
    <3> DEFINE text == disk[p] \o piece
    <3>1. text \in Seq(Nat) /\ Len(text) = Len(disk[p]) + k
      <4>1. disk[p] \in Seq(Nat) /\ piece \in Seq(Nat) /\ Len(piece) = k
        BY <1>1, <1>5, <2>1
      <4> HIDE DEF piece, p, usable
      <4> QED
        BY <4>1, ConcatProperties
    <3>2. disk' = Changed(disk, p, text)
      BY <2>1 DEF Stored
    <3> HIDE DEF text, usable, piece, p
    <3>3. /\ Changed(disk, p, text) \in Maps(Seq(Nat)) /\ p \in DOMAIN Changed(disk, p, text)
          /\ Changed(disk, p, text)[p] = text /\ Same(Changed(disk, p, text), disk, p)
      BY <1>4, <1>5, <2>1, <3>1, ChangeType
    <3> QED
      BY <3>1, <3>2, <3>3
  <2>2. CASE ~usable
    <3>1. disk' = disk /\ k = 0
      BY <2>2 DEF Stored
    <3>2. p \in DOMAIN disk => Len(disk[p]) \in Nat
      BY <1>4, MapType
    <3> QED
      BY <1>4, <3>1, <3>2 DEF Same
  <2> QED
    BY <2>1, <2>2
<1>7. Types'
  <2>1. writing' \in [Writers -> {NoCall} \cup CallRecords]
    BY <1>1 DEF Types, Stored
  <2> QED
    BY <1>6, <2>1 DEF Types, Stored, settings
<1>8. \A d \in Writers : writing'[d] # NoCall <=> writing[d] # NoCall
  BY <1>1
<1>9. \A d \in Writers : writing'[d].path = writing[d].path /\ writing'[d].node = writing[d].node
  BY <1>1
<1>10. Alone'
  BY <1>8, <1>9 DEF Alone
<1>11. EntriesStay'
  BY <1>3, <1>8, <1>9 DEF EntriesStay, HoldsEntry
<1>12. SizesFollow'
  <2> SUFFICES ASSUME NEW q \in DOMAIN FileMap, FileMap[q].open
               PROVE  /\ q \in DOMAIN disk'
                      /\ \A d \in Writers : writing'[d].at = "resuming" /\ writing'[d].path = q =>
                            FileMap[q].CurrentSize + writing'[d].written = Len(disk'[q])
                      /\ (\A d \in Writers : writing'[d].at = "resuming" => writing'[d].path # q) =>
                            FileMap[q].CurrentSize = Len(disk'[q])
    BY <1>3 DEF SizesFollow
  <2>1. /\ q \in DOMAIN disk
        /\ \A d \in Writers : writing[d].at = "resuming" /\ writing[d].path = q =>
              FileMap[q].CurrentSize + writing[d].written = Len(disk[q])
        /\ (\A d \in Writers : writing[d].at = "resuming" => writing[d].path # q) =>
              FileMap[q].CurrentSize = Len(disk[q])
    BY DEF SizesFollow
  <2>2. CASE q = p
    <3>1. \A d \in Writers \ {c} : writing[d] # NoCall => writing[d].path # p
      BY <1>1 DEF Alone
    <3>2. \A d \in Writers \ {c} : writing[d].at = "resuming" => writing[d].path # p
      BY <3>1 DEF NoCall
    <3>3. FileMap[p].CurrentSize = Len(disk[p])
      BY <1>1, <2>1, <2>2, <3>2
    <3> QED
      BY <1>1, <1>6, <2>1, <2>2, <3>2, <3>3
  <2>3. CASE q # p
    <3>1. q \in DOMAIN disk' /\ disk'[q] = disk[q]
      BY <1>6, <2>1, <2>3 DEF Same
    <3> QED
      BY <1>1, <2>1, <2>3, <3>1
  <2> QED
    BY <2>2, <2>3
<1> QED
  BY <1>3, <1>7, <1>10, <1>11, <1>12

LEMMA ReturnStep ==
  ASSUME EntriesInv, NEW c \in Writers, FileWriteResumes(c)
  PROVE  EntriesInv'
<1> DEFINE p == writing[c].path
           entry == Resized(FileMap[p], FileMap[p].CurrentSize + writing[c].written)
<1> USE DEF EntriesInv
<1>1. writing[c].at = "resuming" /\ writing[c] # NoCall /\ writing[c] \in CallRecords
  BY Busy DEF FileWriteResumes, NoCall
<1>2. HoldsEntry(c) /\ p \in DOMAIN FileMap /\ p \in Paths
  BY <1>1 DEF EntriesStay, HoldsEntry, CallRecords
<1>3. FileMap \in Maps(Entries) /\ FileMap[p] \in Entries
  BY <1>2, MapType DEF Types
<1>4. /\ entry \in Entries /\ entry.open = FileMap[p].open
      /\ entry.CurrentSize = FileMap[p].CurrentSize + writing[c].written
  <2>1. FileMap[p].CurrentSize + writing[c].written \in Int
    BY <1>1, <1>3 DEF Entries, CallRecords
  <2> QED
    BY <1>3, <2>1, ResizedType
<1>5. FileMap' = IF Failed(c) THEN Drop(FileMap, p) ELSE Changed(FileMap, p, entry)
  BY <1>2 DEF FileWriteResumes, Settled, Changed, Resized
<1> HIDE DEF entry
<1>6. /\ FileMap' \in Maps(Entries) /\ Same(FileMap', FileMap, p)
      /\ p \in DOMAIN FileMap' => FileMap'[p] = entry
  BY <1>2, <1>3, <1>4, <1>5, DropType, ChangeType
<1>7. writing'[c] = NoCall /\ \A d \in Writers \ {c} : writing'[d] = writing[d]
  BY DEF FileWriteResumes, Types
<1>8. \A d \in Writers \ {c} : writing[d] # NoCall => writing[d].path # p
  BY <1>1 DEF Alone
<1>9. disk' = disk /\ ~undefined'
  BY <1>2 DEF FileWriteResumes
<1>10. Types'
  <2>1. writing' \in [Writers -> {NoCall} \cup CallRecords] /\ DOMAIN wrote' = Writers
    BY DEF FileWriteResumes, Types
  <2> QED
    BY <1>6, <2>1 DEF Types, FileWriteResumes, settings
<1>11. Alone'
  BY <1>7 DEF Alone
<1>12. EntriesStay'
  BY <1>6, <1>7, <1>8 DEF EntriesStay, HoldsEntry, Same
<1>13. SizesFollow'
  <2> SUFFICES ASSUME NEW q \in DOMAIN FileMap', FileMap'[q].open
               PROVE  /\ q \in DOMAIN disk
                      /\ \A d \in Writers : writing'[d].at = "resuming" /\ writing'[d].path = q =>
                            FileMap'[q].CurrentSize + writing'[d].written = Len(disk[q])
                      /\ (\A d \in Writers : writing'[d].at = "resuming" => writing'[d].path # q) =>
                            FileMap'[q].CurrentSize = Len(disk[q])
    BY <1>9 DEF SizesFollow
  <2>1. \A d \in Writers : writing'[d].at = "resuming" => d # c /\ writing'[d] = writing[d]
    BY <1>7 DEF NoCall
  <2>2. CASE q = p
    <3>1. FileMap[p].open /\ FileMap'[p].CurrentSize = FileMap[p].CurrentSize + writing[c].written
      BY <1>4, <1>6, <2>2
    <3>2. p \in DOMAIN disk /\ FileMap[p].CurrentSize + writing[c].written = Len(disk[p])
      BY <1>1, <1>2, <3>1 DEF SizesFollow
    <3>3. \A d \in Writers : writing'[d].at = "resuming" => writing'[d].path # p
      BY <1>8, <2>1 DEF NoCall
    <3> QED
      BY <2>2, <3>1, <3>2, <3>3
  <2>3. CASE q # p
    <3>1. q \in DOMAIN FileMap /\ FileMap'[q] = FileMap[q]
      BY <1>6, <2>3 DEF Same
    <3>2. /\ q \in DOMAIN disk
          /\ \A d \in Writers : writing[d].at = "resuming" /\ writing[d].path = q =>
                FileMap[q].CurrentSize + writing[d].written = Len(disk[q])
          /\ (\A d \in Writers : writing[d].at = "resuming" => writing[d].path # q) =>
                FileMap[q].CurrentSize = Len(disk[q])
      BY <3>1 DEF SizesFollow
    <3> QED
      BY <1>7, <2>1, <2>3, <3>1, <3>2
  <2> QED
    BY <2>2, <2>3
<1> QED
  BY <1>9, <1>10, <1>11, <1>12, <1>13

\* Entries are closed or removed, but none that a call holds on to.
Closes ==
    /\ FileMap' \in Maps(Entries)
    /\ \A q \in DOMAIN FileMap' : FileMap'[q].open => q \in DOMAIN FileMap /\ FileMap'[q] = FileMap[q]
    /\ \A d \in Writers : writing[d] # NoCall =>
          writing[d].path \in DOMAIN FileMap' /\ FileMap'[writing[d].path] = FileMap[writing[d].path]
    /\ UNCHANGED <<settings, disk, archives, second, writing, wrote, calls, undefined>>

LEMMA ClosesStep == ASSUME EntriesInv, Closes PROVE EntriesInv'
<1>1. Types'
  BY DEF EntriesInv, Types, Closes, settings
<1>2. Alone'
  BY DEF EntriesInv, Alone, Closes
<1>3. EntriesStay'
  BY DEF EntriesInv, EntriesStay, HoldsEntry, Closes
<1>4. SizesFollow'
  BY DEF EntriesInv, SizesFollow, Closes
<1> QED
  BY <1>1, <1>2, <1>3, <1>4 DEF EntriesInv, Closes

LEMMA CloseFileCloses ==
  ASSUME EntriesInv, ~Overlap, NEW p \in Paths, CloseFile(p)
  PROVE  Closes
<1>1. p \in DOMAIN FileMap /\ FileMap \in Maps(Entries)
  BY DEF CloseFile, EntriesInv, Types
<1>2. FileMap[p] \in Entries
  BY <1>1, MapType
<1>3. FileMap' \in {Drop(FileMap, p), Changed(FileMap, p, Shut(FileMap[p]))}
  BY DEF CloseFile, Changed, Shut
<1>4. /\ FileMap' \in Maps(Entries) /\ Same(FileMap', FileMap, p)
      /\ p \in DOMAIN FileMap' => ~FileMap'[p].open
  <2>1. Shut(FileMap[p]) \in Entries /\ ~Shut(FileMap[p]).open
    <3>1. 0 \in Nat
      OBVIOUS
    <3> QED
      BY <1>2, <3>1, ShutType
  <2>2. CASE FileMap' = Drop(FileMap, p)
    BY <1>1, <2>2, DropType
  <2>3. CASE FileMap' = Changed(FileMap, p, Shut(FileMap[p]))
    BY <1>1, <2>1, <2>3, ChangeType
  <2> QED
    BY <1>3, <2>2, <2>3
<1>5. \A d \in Writers : writing[d] # NoCall => writing[d].path # p /\ writing[d].path \in DOMAIN FileMap
  BY DEF CloseFile, Undisturbed, EntriesInv, EntriesStay, HoldsEntry
<1>6. \A d \in Writers : writing[d] # NoCall =>
         writing[d].path \in DOMAIN FileMap' /\ FileMap'[writing[d].path] = FileMap[writing[d].path]
  BY <1>4, <1>5 DEF Same
<1>7. \A q \in DOMAIN FileMap' : FileMap'[q].open => q \in DOMAIN FileMap /\ FileMap'[q] = FileMap[q]
  BY <1>4 DEF Same
<1> QED
  BY <1>4, <1>6, <1>7 DEF Closes, CloseFile

LEMMA ShutdownCloses ==
  ASSUME EntriesInv, ~Overlap, Shutdown
  PROVE  Closes
<1>1. FileMap \in Maps(Entries)
  BY DEF EntriesInv, Types
<1>2. \A d \in Writers : writing[d] = NoCall
  BY DEF Shutdown, Undisturbed, EntriesInv, EntriesStay, HoldsEntry
<1>3. FileMap' \in Maps(Entries) /\ \A q \in DOMAIN FileMap' :
         FileMap'[q].open => q \in DOMAIN FileMap /\ FileMap'[q] = FileMap[q]
  <2>1. CASE FileMap' = Nothing
    BY <2>1, MapType DEF Nothing
  <2>2. ASSUME NEW p \in DOMAIN FileMap, NEW before \in SUBSET (DOMAIN FileMap \ {p}),
               FileMap' = [q \in DOMAIN FileMap \ before |->
                   IF q = p THEN [FileMap[p] EXCEPT !.open = FALSE] ELSE FileMap[q]]
        PROVE  FileMap' \in Maps(Entries) /\ \A q \in DOMAIN FileMap' :
                   FileMap'[q].open => q \in DOMAIN FileMap /\ FileMap'[q] = FileMap[q]
    <3>1. DOMAIN FileMap \subseteq Paths /\ FileMap \in [DOMAIN FileMap -> Entries]
      BY <1>1, MapType
    <3>2. Shut(FileMap[p]) \in Entries /\ ~Shut(FileMap[p]).open
      <4>1. 0 \in Nat
        OBVIOUS
      <4> QED
        BY <3>1, <4>1, ShutType
    <3>3. FileMap' = [q \in DOMAIN FileMap \ before |->
                        IF q = p THEN Shut(FileMap[p]) ELSE FileMap[q]]
      BY <2>2 DEF Shut
    <3>4. DOMAIN FileMap' \subseteq Paths /\ FileMap' \in [DOMAIN FileMap' -> Entries]
      BY <3>1, <3>2, <3>3
    <3> QED
      BY <3>2, <3>3, <3>4, MapType
  <2> QED
    BY <2>1, <2>2 DEF Shutdown
<1> QED
  BY <1>2, <1>3 DEF Closes, Shutdown

LEMMA InitEntries == LogInit => EntriesInv
<1> SUFFICES ASSUME LogInit PROVE EntriesInv
  OBVIOUS
<1>1. DOMAIN FileMap = {} /\ FileMap \in Maps(Entries) /\ disk \in Maps(Seq(Nat))
  BY MapType DEF LogInit, Nothing
<1>2. writing = [c \in Writers |-> NoCall]
  BY DEF LogInit
<1>3. Types
  BY <1>1, <1>2, LogAssumption DEF LogInit, Types, LogAssumption
<1>4. SizesFollow
  BY <1>1 DEF SizesFollow
<1> QED
  BY <1>2, <1>3, <1>4 DEF LogInit, EntriesInv, Alone, EntriesStay

LEMMA RestartStep == ASSUME EntriesInv, Restart PROVE EntriesInv'
<1>1. DOMAIN FileMap' = {} /\ FileMap' \in Maps(Entries)
  BY MapType DEF Restart, Nothing
<1>2. writing' = [c \in Writers |-> NoCall]
  BY DEF Restart
<1>3. Types'
  BY <1>1, <1>2, LogAssumption DEF EntriesInv, Types, Restart, LogAssumption
<1>4. SizesFollow'
  BY <1>1 DEF SizesFollow
<1> QED
  BY <1>2, <1>3, <1>4 DEF EntriesInv, Restart, Alone, EntriesStay

LEMMA SettingStep ==
  ASSUME EntriesInv, Setting \/ SecondPasses
  PROVE  EntriesInv' /\ UNCHANGED <<FileMap, disk, archives, writing, wrote, calls>>
<1>1. UNCHANGED <<FileMap, disk, archives, writing, wrote, calls, undefined>>
  BY DEF Setting, SecondPasses
<1>2. Types'
  <2>1. RootDirectory' \in Roots /\ MaxFileSize' \in Nat /\ MaxArchiveCount' \in ArchiveCounts \cup {0}
    BY LogAssumption DEF EntriesInv, Types, Setting, SecondPasses, settings, LogAssumption
  <2>2. second' \in Nat
    BY DEF EntriesInv, Types, Setting, SecondPasses
  <2> QED
    BY <1>1, <2>1, <2>2 DEF EntriesInv, Types
<1>3. Alone' /\ EntriesStay' /\ SizesFollow' /\ ~undefined'
  BY <1>1 DEF EntriesInv, Alone, EntriesStay, HoldsEntry, SizesFollow
<1> QED
  BY <1>1, <1>2, <1>3 DEF EntriesInv

LEMMA StepEntries ==
  ASSUME ~Overlap, EntriesInv, [LogNext]_logVars
  PROVE  EntriesInv'
<1>1. ASSUME NEW c \in Writers, WriteCompletes(c) PROVE EntriesInv'
  BY <1>1, StoreHappens, StoreStep DEF EntriesInv
<1>2. ASSUME NEW c \in Writers, FileWriteResumes(c) PROVE EntriesInv'
  BY <1>2, ReturnStep
<1>3. ASSUME NEW c \in Writers, NEW name \in Filenames, NEW n \in RecordSizes, FileWrite(c, name, n)
      PROVE  EntriesInv'
  <2>1. PICK p \in Paths, w \in Worlds : Undertaken(c, p, n, w)
    BY <1>3, FileWriteBegins DEF EntriesInv
  <2> QED
    BY <2>1, BeginStep
<1>4. ASSUME NEW p \in Paths, CloseFile(p) PROVE EntriesInv'
  BY <1>4, CloseFileCloses, ClosesStep
<1>5. CASE Shutdown
  BY <1>5, ShutdownCloses, ClosesStep
<1>6. CASE Setting \/ SecondPasses
  BY <1>6, SettingStep
<1>7. CASE Restart
  BY <1>7, RestartStep
<1>8. CASE UNCHANGED logVars
  BY <1>8 DEF logVars, settings, EntriesInv, Types, Alone, EntriesStay, HoldsEntry, SizesFollow
<1> QED
  BY <1>1, <1>2, <1>3, <1>4, <1>5, <1>6, <1>7, <1>8 DEF LogNext

LEMMA EntriesInvariance == ASSUME ~Overlap PROVE LogSpec => []EntriesInv
<1>1. EntriesInv /\ [LogNext]_logVars => EntriesInv'
  BY StepEntries
<1> QED
  BY <1>1, InitEntries, PTL DEF LogSpec

(* Through rollovers, failures, reopening and restarts, the size that the  *)
(* limit is applied to is that of the file whenever no call is under way.  *)
(* That no file is used again before a call on it has returned is up to    *)
(* the callers: otherwise a call that resumes after a rollover by another  *)
(* one adds its bytes to the size of the new file (Log.hpp:313).           *)
THEOREM SizesExact == ASSUME ~Overlap PROVE LogSpec => []SizesKnown
<1>1. ASSUME EntriesInv PROVE SizesKnown
  <2> SUFFICES ASSUME NEW p \in DOMAIN FileMap, FileMap[p].open
               PROVE  p \in DOMAIN disk /\ (Pending(p) = {} => FileMap[p].CurrentSize = Len(disk[p]))
    BY DEF SizesKnown
  <2>1. Pending(p) = {} => \A c \in Writers : writing[c].at = "resuming" => writing[c].path # p
    BY DEF Pending, NoCall
  <2> QED
    BY <1>1, <2>1 DEF EntriesInv, SizesFollow
<1> QED
  BY <1>1, EntriesInvariance, PTL

-----------------------------------------------------------------------------
(* The archives of a path in the order of their names.                     *)

InOrder(s, all) ==
    /\ s \in Seq(Archives)
    /\ \A i \in 1..Len(s) : s[i] \in all
    /\ \A a \in all : \E i \in 1..Len(s) : s[i] = a
    /\ \A i, j \in 1..Len(s) : i < j => Older(s[i], s[j])

LEMMA OlderIsOrder ==
  ASSUME NEW a \in Archives, NEW b \in Archives, Older(a, b)
  PROVE  ~Older(b, a) /\ a # b
BY DEF Older, Archives

LEMMA OrderOf ==
  ASSUME NEW s, NEW all, InOrder(s, all), NEW i \in 1..Len(s), NEW j \in 1..Len(s)
  PROVE  (Older(s[i], s[j]) <=> i < j) /\ (s[i] = s[j] => i = j)
<1>1. s[i] \in Archives /\ s[j] \in Archives /\ Len(s) \in Nat
  BY ElementOfSeq DEF InOrder
<1>2. i < j => Older(s[i], s[j])
  BY DEF InOrder
<1>3. j < i => Older(s[j], s[i])
  BY DEF InOrder
<1>4. i < j => ~Older(s[j], s[i]) /\ s[i] # s[j]
  BY <1>1, <1>2, OlderIsOrder
<1>5. j < i => ~Older(s[i], s[j]) /\ s[i] # s[j]
  BY <1>1, <1>3, OlderIsOrder
<1>6. ~Older(s[i], s[i])
  BY <1>1, OlderIsOrder
<1> QED
  BY <1>1, <1>2, <1>4, <1>5, <1>6

(* The i-th archive has i - 1 older ones.                                  *)
LEMMA Ranks ==
  ASSUME NEW s, NEW all, InOrder(s, all), NEW i \in 1..(Len(s) + 1), NEW older \in SUBSET all,
         \A j \in 1..Len(s) : s[j] \in older <=> j < i
  PROVE  Cardinality(older) = i - 1
<1> DEFINE F == [j \in 1..(i - 1) |-> s[j]]
<1>0. Len(s) \in Nat
  BY DEF InOrder
<1>1. F \in [1..(i - 1) -> older]
  BY <1>0
<1>2. \A j, k \in 1..(i - 1) : F[j] = F[k] => j = k
  <2> SUFFICES ASSUME NEW j \in 1..(i - 1), NEW k \in 1..(i - 1), F[j] = F[k] PROVE j = k
    OBVIOUS
  <2>1. j \in 1..Len(s) /\ k \in 1..Len(s) /\ s[j] = s[k]
    BY <1>0
  <2> QED
    BY <2>1, OrderOf
<1>3. \A a \in older : \E j \in 1..(i - 1) : F[j] = a
  <2> SUFFICES ASSUME NEW a \in older PROVE \E j \in 1..(i - 1) : F[j] = a
    OBVIOUS
  <2>1. PICK j \in 1..Len(s) : s[j] = a
    BY DEF InOrder
  <2>2. j \in 1..(i - 1)
    BY <1>0, <2>1
  <2> QED
    BY <2>1, <2>2
<1> HIDE DEF F
<1>4. ExistsBijection(1..(i - 1), older)
  <2>1. F \in Bijection(1..(i - 1), older)
    BY <1>1, <1>2, <1>3, Fun_IsBij
  <2> QED
    BY <2>1 DEF ExistsBijection
<1>5. i - 1 \in Nat
  BY <1>0
<1> QED
  BY <1>4, <1>5, FS_CountingElements

LEMMA OrderCounts ==
  ASSUME NEW s, NEW all, InOrder(s, all)
  PROVE  /\ Cardinality(all) = Len(s) /\ Len(s) \in Nat
         /\ \A i \in 1..Len(s) : Cardinality({b \in all : Older(b, s[i])}) = i - 1
<1>0. Len(s) \in Nat
  BY DEF InOrder
<1>1. Cardinality(all) = Len(s)
  <2>1. \A j \in 1..Len(s) : s[j] \in all <=> j < Len(s) + 1
    BY <1>0 DEF InOrder
  <2>2. Len(s) + 1 \in 1..(Len(s) + 1) /\ all \in SUBSET all
    BY <1>0
  <2>3. Cardinality(all) = (Len(s) + 1) - 1
    BY <2>1, <2>2, Ranks
  <2> QED
    BY <1>0, <2>3
<1>2. ASSUME NEW i \in 1..Len(s) PROVE Cardinality({b \in all : Older(b, s[i])}) = i - 1
  <2> DEFINE older == {b \in all : Older(b, s[i])}
  <2>1. \A j \in 1..Len(s) : s[j] \in older <=> j < i
    BY OrderOf DEF InOrder
  <2>2. i \in 1..(Len(s) + 1) /\ older \in SUBSET all
    BY <1>0
  <2> HIDE DEF older
  <2>3. Cardinality(older) = i - 1
    BY <2>1, <2>2, Ranks
  <2> QED
    BY <2>3 DEF older
<1> QED
  BY <1>0, <1>1, <1>2

(* A clean-up leaves the newest ones.                                      *)
Removed(s) == IF MaxArchiveCount = 0 \/ Len(s) <= MaxArchiveCount THEN 0 ELSE Len(s) - MaxArchiveCount
LEMMA CleanupKeepsNewest ==
  ASSUME NEW s, NEW all, InOrder(s, all), MaxArchiveCount \in Nat
  PROVE  /\ Removed(s) \in 0..Len(s) /\ CleanupOldArchives(all) \subseteq all
         /\ \A i \in 1..Len(s) : s[i] \in CleanupOldArchives(all) <=> i > Removed(s)
<1>1. /\ Cardinality(all) = Len(s) /\ Len(s) \in Nat
      /\ \A i \in 1..Len(s) : Cardinality({b \in all : Older(b, s[i])}) = i - 1
  BY OrderCounts
<1>2. \A i \in 1..Len(s) : s[i] \in all
  BY DEF InOrder
<1>3. Removed(s) \in 0..Len(s)
  BY <1>1 DEF Removed
<1>4. CleanupOldArchives(all) \subseteq all
  BY DEF CleanupOldArchives
<1>5. ASSUME NEW i \in 1..Len(s) PROVE s[i] \in CleanupOldArchives(all) <=> i > Removed(s)
  <2>1. CASE MaxArchiveCount = 0
    BY <1>1, <1>2, <2>1 DEF CleanupOldArchives, Removed
  <2>2. CASE MaxArchiveCount # 0
    <3>1. s[i] \in CleanupOldArchives(all)
             <=> Cardinality({b \in all : Older(b, s[i])}) >= Cardinality(all) - MaxArchiveCount
      BY <1>2, <2>2 DEF CleanupOldArchives
    <3>2. s[i] \in CleanupOldArchives(all) <=> i - 1 >= Len(s) - MaxArchiveCount
      BY <1>1, <3>1
    <3> QED
      BY <1>1, <2>2, <3>2 DEF Removed
  <2> QED
    BY <2>1, <2>2
<1> QED
  BY <1>3, <1>4, <1>5

(* What is left is in order, too, and so is a longer list with a newer one. *)
LEMMA OrderAfterCleanup ==
  ASSUME NEW s, NEW all, InOrder(s, all), MaxArchiveCount \in Nat
  PROVE  InOrder(SubSeq(s, Removed(s) + 1, Len(s)), CleanupOldArchives(all))
<1> DEFINE n == Removed(s)
           left == CleanupOldArchives(all)
           rest == SubSeq(s, n + 1, Len(s))
<1>1. /\ n \in 0..Len(s) /\ left \subseteq all /\ Len(s) \in Nat
      /\ \A i \in 1..Len(s) : s[i] \in left <=> i > n
  BY CleanupKeepsNewest, OrderCounts
<1> HIDE DEF n, left
<1>2. \A i \in 1..Len(s) : s[i] \in Archives
  BY ElementOfSeq DEF InOrder
<1>3. /\ rest \in Seq(Archives) /\ Len(rest) = Len(s) - n
      /\ \A i \in 1..(Len(s) - n) : rest[i] = s[n + i]
  <2>1. \A i \in (n + 1)..Len(s) : s[i] \in Archives
    BY <1>1, <1>2
  <2>2. n + 1 \in Int /\ Len(s) \in Int
    BY <1>1
  <2>3. /\ rest \in Seq(Archives)
        /\ Len(rest) = IF n + 1 <= Len(s) THEN Len(s) - (n + 1) + 1 ELSE 0
        /\ \A i \in 1..(Len(s) - (n + 1) + 1) : rest[i] = s[(n + 1) + i - 1]
    BY <2>1, <2>2, SubSeqProperties
  <2> QED
    BY <1>1, <2>3
<1> HIDE DEF rest
<1>4. \A i \in 1..Len(rest) : rest[i] \in left
  BY <1>1, <1>3
<1>5. ASSUME NEW a \in left PROVE \E i \in 1..Len(rest) : rest[i] = a
  <2>1. PICK j \in 1..Len(s) : s[j] = a
    BY <1>1 DEF InOrder
  <2>2. j > n
    BY <1>1, <2>1
  <2>3. j - n \in 1..Len(rest) /\ rest[j - n] = s[j]
    BY <1>1, <1>3, <2>2
  <2> QED
    BY <2>1, <2>3
<1>6. ASSUME NEW i \in 1..Len(rest), NEW j \in 1..Len(rest), i < j PROVE Older(rest[i], rest[j])
  <2>1. n + i \in 1..Len(s) /\ n + j \in 1..Len(s) /\ n + i < n + j
    BY <1>1, <1>3, <1>6
  <2>2. Older(s[n + i], s[n + j])
    BY <2>1 DEF InOrder
  <2> QED
    BY <1>3, <2>2
<1> QED
  BY <1>3, <1>4, <1>5, <1>6 DEF InOrder, rest, left, n

LEMMA OrderWithNewest ==
  ASSUME NEW s, NEW all, InOrder(s, all), NEW a \in Archives, \A b \in all : Older(b, a)
  PROVE  InOrder(Append(s, a), all \cup {a})
<1> DEFINE t == Append(s, a)
<1>1. s \in Seq(Archives) /\ Len(s) \in Nat
  BY DEF InOrder
<1>2. /\ t \in Seq(Archives) /\ Len(t) = Len(s) + 1 /\ t[Len(s) + 1] = a
      /\ \A i \in 1..Len(s) : t[i] = s[i]
  BY <1>1, AppendProperties
<1> HIDE DEF t
<1>3. \A i \in 1..Len(t) : i \in 1..Len(s) \/ i = Len(s) + 1
  BY <1>1, <1>2
<1>4. \A i \in 1..Len(t) : t[i] \in all \cup {a}
  BY <1>2, <1>3 DEF InOrder
<1>5. \A b \in all \cup {a} : \E i \in 1..Len(t) : t[i] = b
  <2>1. ASSUME NEW b \in all PROVE \E i \in 1..Len(t) : t[i] = b
    <3>1. PICK i \in 1..Len(s) : s[i] = b
      BY DEF InOrder
    <3> QED
      BY <1>1, <1>2, <3>1
  <2>2. Len(s) + 1 \in 1..Len(t)
    BY <1>1, <1>2
  <2> QED
    BY <1>2, <2>1, <2>2
<1>6. ASSUME NEW i \in 1..Len(t), NEW j \in 1..Len(t), i < j PROVE Older(t[i], t[j])
  <2>1. i \in 1..Len(s)
    BY <1>1, <1>2, <1>6
  <2>2. CASE j \in 1..Len(s)
    BY <1>2, <1>6, <2>1, <2>2 DEF InOrder
  <2>3. CASE j = Len(s) + 1
    BY <1>2, <2>1, <2>3 DEF InOrder
  <2> QED
    BY <1>3, <2>2, <2>3
<1> QED
  BY <1>2, <1>4, <1>5, <1>6 DEF InOrder, t

-----------------------------------------------------------------------------
(* Text is in the order in which it was written.                           *)

Before(s, t) == \A x \in ToSet(s), y \in ToSet(t) : x < y

\* The archives of a path bear the names that say so, and a name of this second is
\* only given when all before it are.
Named(p) ==
    /\ \E s \in Seq(Archives) : InOrder(s, archives[p])
    /\ \A a \in archives[p] : a.second <= second
    /\ \A a \in archives[p] : a.second = second =>
          \A k \in 0..(a.suffix - 1) : \E b \in archives[p] : b.second = second /\ b.suffix = k
Ordered(p) ==
    /\ \A a, b \in archives[p] : Older(a, b) => Before(a.text, b.text)
    /\ \A a \in archives[p] : Before(a.text, Text(disk, p))
Past(p) == \A x \in Texts(p) : x \in Nat /\ x <= calls

\* What is about to be written is newer than what is there.
WritesNewest ==
    \A c \in Writers, p \in Paths : writing[c].at = "writing" /\ writing[c].path = p =>
        \A y \in ToSet(writing[c].record) : y <= calls /\ \A x \in Texts(p) : x < y

OrderInv == EntriesInv /\ WritesNewest /\ \A p \in Paths : Named(p) /\ Ordered(p) /\ Past(p)

LEMMA NoText == \A x : x \notin ToSet(<<>>)
BY DEF ToSet

LEMMA TextsOf ==
  ASSUME NEW p, NEW x
  PROVE  x \in Texts(p) <=> x \in ToSet(Text(disk, p)) \/ \E a \in archives[p] : x \in ToSet(a.text)
<1>1. CASE p \in DOMAIN disk
  BY <1>1 DEF Texts, Text
<1>2. CASE p \notin DOMAIN disk
  BY <1>2, NoText DEF Texts, Text
<1> QED
  BY <1>1, <1>2

LEMMA TextsOfNext ==
  ASSUME NEW p, NEW x
  PROVE  x \in Texts(p)' <=> x \in ToSet(Text(disk', p)) \/ \E a \in archives'[p] : x \in ToSet(a.text)
<1>1. CASE p \in DOMAIN disk'
  BY <1>1 DEF Texts, Text
<1>2. CASE p \notin DOMAIN disk'
  BY <1>2, NoText DEF Texts, Text
<1> QED
  BY <1>1, <1>2

(* The name of a new archive comes after those of the others.              *)
LEMMA NewestIsNewest ==
  ASSUME Types, NEW p \in Paths, Named(p), FreeSuffixes(archives[p]) # {}
  PROVE  Newest(p) \in Archives /\ Newest(p) \notin archives[p]
         /\ \A a \in archives[p] : Older(a, Newest(p))
<1>1. /\ Suffix(p) \in FreeSuffixes(archives[p]) /\ Suffix(p) \in Nat
  BY FirstFree
<1>2. Newest(p) \in Archives
  BY ArchivedType
<1>3. Newest(p).second = second /\ Newest(p).suffix = Suffix(p)
  BY DEF Newest
<1>4. \A a \in archives[p] : a.second # second \/ a.suffix # Suffix(p)
  BY <1>1 DEF FreeSuffixes
<1>5. ASSUME NEW a \in archives[p] PROVE Older(a, Newest(p))
  <2>1. a \in Archives /\ second \in Nat
    BY DEF Types
  <2>2. a.second \in Nat /\ a.suffix \in Nat /\ a.second <= second
    BY <2>1 DEF Archives, Named
  <2>3. CASE a.second = second
    <3>1. ~(Suffix(p) \in 0..(a.suffix - 1))
      BY <1>4, <2>3 DEF Named
    <3>2. a.suffix < Suffix(p)
      BY <1>1, <1>4, <2>2, <2>3, <3>1
    <3> QED
      BY <1>3, <2>3, <3>2 DEF Older
  <2>4. CASE a.second # second
    BY <1>3, <2>1, <2>2, <2>4 DEF Older
  <2> QED
    BY <2>3, <2>4
<1> QED
  BY <1>2, <1>3, <1>4, <1>5

OldestGo(p) == \A gone \in Texts(p) \ Texts(p)', kept \in Texts(p)' : gone < kept
PathInv(p)  == Named(p) /\ Ordered(p) /\ Past(p)

LEMMA PathKept ==
  ASSUME Types, NEW p \in Paths, PathInv(p), archives'[p] = archives[p], Text(disk', p) = Text(disk, p),
         second' = second \/ second' = second + 1, calls' = calls \/ calls' = calls + 1
  PROVE  PathInv(p)' /\ OldestGo(p) /\ \A x : x \in Texts(p)' <=> x \in Texts(p)
<1>1. \A x : x \in Texts(p)' <=> x \in Texts(p)
  BY TextsOf, TextsOfNext
<1>2. second \in Nat /\ calls \in Nat /\ \A a \in archives[p] : a.second \in Nat
  BY DEF Types, Archives
<1>3. Named(p)'
  <2>1. \E s \in Seq(Archives) : InOrder(s, archives'[p])
    BY DEF PathInv, Named
  <2>2. \A a \in archives'[p] : a.second <= second'
    BY <1>2 DEF PathInv, Named
  <2>3. ASSUME NEW a \in archives'[p], a.second = second'
        PROVE  \A k \in 0..(a.suffix - 1) : \E b \in archives'[p] : b.second = second' /\ b.suffix = k
    <3>1. second' = second
      BY <1>2, <2>3 DEF PathInv, Named
    <3> QED
      BY <2>3, <3>1 DEF PathInv, Named
  <2> QED
    BY <2>1, <2>2, <2>3 DEF Named
<1>4. Ordered(p)'
  BY DEF PathInv, Ordered
<1>5. Past(p)'
  BY <1>1, <1>2 DEF PathInv, Past
<1> QED
  BY <1>1, <1>3, <1>4, <1>5 DEF PathInv, OldestGo

(* A rollover archives the file, and what a clean-up takes away was written *)
(* before all that stays.                                                  *)
LEMMA PathRolled ==
  ASSUME Types, ~SameSecond, NEW p \in Paths, PathInv(p), FreeSuffixes(archives[p]) # {},
         archives'[p] = Archived(p), Text(disk', p) = <<>>,
         archives'[p] = archives[p] \/ NamedInOrder(p), second' = second, calls' = calls + 1
  PROVE  PathInv(p)' /\ OldestGo(p) /\ \A x : x \in Texts(p)' => x \in Texts(p)
<1> DEFINE new == Newest(p)
           all == archives[p] \cup {new}
<1>1. new \in Archives /\ new \notin archives[p] /\ \A a \in archives[p] : Older(a, new)
  BY NewestIsNewest DEF PathInv
<1>2. new.second = second /\ new.suffix = Suffix(p) /\ new.text = Text(disk, p)
  BY DEF Newest
<1>3. PICK s \in Seq(Archives) : InOrder(s, archives[p])
  BY DEF PathInv, Named
<1> DEFINE t == Append(s, new)
<1>4. archives[p] \subseteq Archives /\ MaxArchiveCount \in Nat /\ calls \in Nat
  BY LogAssumption DEF Types, LogAssumption
<1> HIDE DEF new
<1>5. InOrder(t, all)
  BY <1>1, <1>3, OrderWithNewest
<1>6. Len(t) = Len(s) + 1 /\ Len(s) \in Nat /\ t[Len(t)] = new
  BY <1>1, AppendProperties
<1>7. archives'[p] = CleanupOldArchives(all)
  BY DEF Archived, new
<1> HIDE DEF t, all
<1>8. /\ Removed(t) \in 0..Len(t) /\ archives'[p] \subseteq all
      /\ \A i \in 1..Len(t) : t[i] \in archives'[p] <=> i > Removed(t)
  BY <1>4, <1>5, <1>7, CleanupKeepsNewest
<1>9. new \in archives'[p]
  <2>1. Removed(t) < Len(t)
    BY <1>4, <1>6 DEF Removed
  <2> QED
    BY <1>6, <1>8, <2>1
<1>10. ASSUME NEW a \in all, NEW b \in all, Older(a, b) PROVE Before(a.text, b.text)
  <2>1. a \in Archives /\ b \in Archives
    BY <1>1, <1>4 DEF all
  <2>2. a # new
    BY <1>1, <1>10, <2>1, OlderIsOrder DEF all
  <2>3. a \in archives[p]
    BY <2>2 DEF all
  <2>4. CASE b \in archives[p]
    BY <1>10, <2>3, <2>4 DEF PathInv, Ordered
  <2>5. CASE b = new
    BY <1>2, <2>3, <2>5 DEF PathInv, Ordered
  <2> QED
    BY <2>4, <2>5 DEF all
<1>11. \A x : x \in Texts(p)' <=> \E a \in archives'[p] : x \in ToSet(a.text)
  BY NoText, TextsOfNext
<1>12. \A x : x \in Texts(p) <=> \E a \in all : x \in ToSet(a.text)
  BY <1>2, TextsOf DEF all
<1>13. Named(p)'
  <2>1. InOrder(SubSeq(t, Removed(t) + 1, Len(t)), archives'[p])
    BY <1>4, <1>5, <1>7, OrderAfterCleanup
  <2>2. \E u \in Seq(Archives) : InOrder(u, archives'[p])
    BY <2>1 DEF InOrder
  <2>3. \A a \in archives'[p] : a.second <= second
    BY <1>1, <1>2, <1>8 DEF PathInv, Named, all, Archives
  <2>4. ASSUME NEW a \in archives'[p], a.second = second, NEW k \in 0..(a.suffix - 1)
        PROVE  \E b \in archives'[p] : b.second = second /\ b.suffix = k
    <3>1. NamedInOrder(p)
      BY <1>1, <1>9
    <3>2. CASE MaxArchiveCount = 0
      <4>1. archives'[p] = all
        BY <1>7, <3>2 DEF CleanupOldArchives
      <4>2. CASE a \in archives[p]
        BY <2>4, <4>1, <4>2 DEF PathInv, Named, all
      <4>3. CASE a = new
        <5>1. k < Suffix(p) /\ k \in Nat /\ Suffix(p) \in Nat /\ Suffix(p) \in 0..MaxSuffix
          BY <1>1, <1>2, <2>4, <4>3, FirstFree DEF FreeSuffixes
        <5>2. k \in 0..MaxSuffix /\ k \notin FreeSuffixes(archives[p])
          <6>1. \A i \in FreeSuffixes(archives[p]) : Suffix(p) <= i
            BY FirstFree
          <6>2. MaxSuffix \in Nat
            BY LogAssumption DEF LogAssumption
          <6> QED
            BY <5>1, <6>1, <6>2
        <5>3. PICK b \in archives[p] : b.second = second /\ b.suffix = k
          BY <5>2 DEF FreeSuffixes
        <5> QED
          BY <4>1, <5>3 DEF all
      <4> QED
        BY <4>1, <4>2, <4>3 DEF all
    <3>3. CASE MaxArchiveCount # 0
      <4>1. \A b \in archives[p] : b.second # second
        BY <3>1, <3>3 DEF NamedInOrder
      <4>2. a = new
        BY <1>8, <2>4, <4>1 DEF all
      <4>3. 0 \in FreeSuffixes(archives[p])
        BY <4>1, LogAssumption DEF FreeSuffixes, LogAssumption
      <4>4. Suffix(p) = 0
        <5>1. Suffix(p) \in Nat /\ Suffix(p) <= 0
          BY <4>3, FirstFree
        <5> QED
          BY <5>1
      <4> QED
        BY <1>2, <2>4, <4>2, <4>4
    <3> QED
      BY <3>2, <3>3
  <2> QED
    BY <2>2, <2>3, <2>4 DEF Named
<1>14. Ordered(p)'
  <2>1. \A a \in archives'[p] : Before(a.text, Text(disk', p))
    BY NoText DEF Before
  <2>2. \A a, b \in archives'[p] : Older(a, b) => Before(a.text, b.text)
    BY <1>8, <1>10
  <2> QED
    BY <2>1, <2>2 DEF Ordered, Text
<1>15. \A x : x \in Texts(p)' => x \in Texts(p)
  BY <1>8, <1>11, <1>12
<1>16. Past(p)'
  BY <1>4, <1>15 DEF PathInv, Past
<1>17. OldestGo(p)
  <2> SUFFICES ASSUME NEW x, x \in Texts(p), x \notin Texts(p)', NEW y, y \in Texts(p)'
               PROVE  x < y
    BY DEF OldestGo
  <2>1. PICK a \in all : x \in ToSet(a.text)
    BY <1>12
  <2>2. PICK b \in archives'[p] : y \in ToSet(b.text)
    BY <1>11
  <2>3. a \notin archives'[p] /\ b \in all
    BY <1>8, <1>11, <2>1
  <2>4. PICK i \in 1..Len(t), j \in 1..Len(t) : t[i] = a /\ t[j] = b
    BY <1>5, <2>3 DEF InOrder
  <2>5. i < j
    BY <1>6, <1>8, <2>3, <2>4
  <2>6. Older(a, b)
    BY <1>5, <2>4, <2>5 DEF InOrder
  <2> QED
    BY <1>10, <2>1, <2>2, <2>3, <2>6 DEF Before
<1> QED
  BY <1>13, <1>14, <1>15, <1>16, <1>17 DEF PathInv

\* A step that changes nothing that is written, and begins no call.
Leaves ==
    /\ UNCHANGED <<archives, disk, calls>> /\ (second' = second \/ second' = second + 1)
    /\ \A c \in Writers : writing'[c].at = "writing" => writing'[c] = writing[c]

LEMMA LeavesStep ==
  ASSUME OrderInv, Leaves, EntriesInv'
  PROVE  OrderInv' /\ \A p \in Paths : OldestGo(p)
<1>1. ASSUME NEW p \in Paths
      PROVE  PathInv(p)' /\ OldestGo(p) /\ \A x : x \in Texts(p)' <=> x \in Texts(p)
  <2>1. Types /\ PathInv(p)
    BY DEF OrderInv, EntriesInv, PathInv
  <2>2. archives'[p] = archives[p] /\ Text(disk', p) = Text(disk, p)
    BY DEF Leaves
  <2> QED
    BY <2>1, <2>2, PathKept DEF Leaves
<1>2. WritesNewest'
  <2> SUFFICES ASSUME NEW c \in Writers, NEW p \in Paths, writing'[c].at = "writing",
                      writing'[c].path = p, NEW y \in ToSet(writing'[c].record)
               PROVE  y <= calls' /\ \A x \in Texts(p)' : x < y
    BY DEF WritesNewest
  <2>1. writing'[c] = writing[c] /\ calls' = calls
    BY DEF Leaves
  <2>2. y <= calls /\ \A x \in Texts(p) : x < y
    BY <2>1 DEF OrderInv, WritesNewest
  <2> QED
    BY <1>1, <2>1, <2>2
<1> QED
  BY <1>1, <1>2 DEF OrderInv, PathInv

LEMMA NewText ==
  ASSUME NEW n \in Nat, NEW x
  PROVE  x \in ToSet(Record(n)) => x = calls + 1
BY DEF ToSet, Record

LEMMA BeginOrder ==
  ASSUME ~SameSecond, OrderInv, NEW c \in Writers, NEW p \in Paths, NEW n \in RecordSizes,
         NEW w \in Worlds, Undertaken(c, p, n, w)
  PROVE  OrderInv' /\ \A q \in Paths : OldestGo(q)
<1>1. Types /\ EntriesInv' /\ calls \in Nat
  BY BeginStep DEF OrderInv, EntriesInv, Types
<1>2. archives \in [Paths -> SUBSET Archives] /\ second' = second /\ calls' = calls + 1
  BY <1>1 DEF Types, Undertaken
<1>3. /\ disk' = w.disk /\ archives' = w.archives /\ Same(w.disk, disk, p) /\ (Kept(w, p) \/ Rolled(w, p))
      /\ w.archives = archives \/ NamedInOrder(p)
  BY DEF Undertaken, IsReady, Outcome
<1>4. ASSUME NEW q \in Paths
      PROVE  PathInv(q)' /\ OldestGo(q) /\ (\A x : x \in Texts(q)' => x \in Texts(q))
  <2>0. PathInv(q)
    BY DEF OrderInv, PathInv
  <2>1. CASE q # p \/ Kept(w, p)
    <3>1. archives'[q] = archives[q]
      BY <1>2, <1>3, <2>1 DEF Kept, Rolled
    <3>2. Text(disk', q) = Text(disk, q)
      BY <1>3, <2>1 DEF Same, Text, Kept
    <3> QED
      BY <1>1, <1>2, <2>0, <3>1, <3>2, PathKept
  <2>2. CASE q = p /\ Rolled(w, p)
    <3>1. archives'[p] = Archived(p) /\ Text(disk', p) = <<>> /\ FreeSuffixes(archives[p]) # {}
      BY <1>2, <1>3, <2>2 DEF Rolled
    <3>2. archives'[p] = archives[p] \/ NamedInOrder(p)
      BY <1>3
    <3> QED
      BY <1>1, <1>2, <2>0, <2>2, <3>1, <3>2, PathRolled
  <2> QED
    BY <1>3, <2>1, <2>2
<1>5. WritesNewest'
  <2> SUFFICES ASSUME NEW d \in Writers, NEW q \in Paths, writing'[d].at = "writing",
                      writing'[d].path = q, NEW y \in ToSet(writing'[d].record)
               PROVE  y <= calls' /\ \A x \in Texts(q)' : x < y
    BY DEF WritesNewest
  <2>1. CASE writing'[d] = writing[d]
    <3>1. y <= calls /\ \A x \in Texts(q) : x < y
      BY <2>1 DEF OrderInv, WritesNewest
    <3>2. y \in Nat
      <4>1. writing[d] \in CallRecords
        BY <1>1, <2>1, Busy DEF NoCall
      <4> QED
        BY <2>1, <4>1 DEF CallRecords, ToSet
    <3> QED
      BY <1>1, <1>2, <1>4, <3>1, <3>2
  <2>2. CASE writing'[d] # writing[d]
    <3>1. writing'[d] = Call(w, p, n)
      BY <1>1, <2>2 DEF Undertaken, Types
    <3>2. writing'[d].record = Record(n) /\ q = p /\ n \in Nat
      BY <3>1, LogAssumption DEF Call, LogAssumption
    <3>3. y = calls + 1
      BY <3>2, NewText
    <3>4. \A x \in Texts(p)' : x \in Nat /\ x <= calls
      BY <1>4 DEF OrderInv, Past
    <3> QED
      BY <1>1, <1>2, <3>2, <3>3, <3>4
  <2> QED
    BY <2>1, <2>2
<1> QED
  BY <1>1, <1>4, <1>5 DEF OrderInv, PathInv

LEMMA ElementsOf ==
  ASSUME NEW T, NEW s \in Seq(T), NEW x \in ToSet(s)
  PROVE  \E i \in 1..Len(s) : x = s[i]
<1>1. DOMAIN s = 1..Len(s)
  OBVIOUS
<1>2. PICK i \in DOMAIN s : x = s[i]
  BY DEF ToSet
<1> QED
  BY <1>1, <1>2

LEMMA StoreOrder ==
  ASSUME OrderInv, NEW c \in Writers, NEW k \in Nat, Stored(c, k)
  PROVE  OrderInv' /\ \A q \in Paths : OldestGo(q)
<1> DEFINE p == writing[c].path
           piece == SubSeq(writing[c].record, 1, k)
<1>1. Types /\ EntriesInv' /\ calls \in Nat /\ disk \in Maps(Seq(Nat)) /\ SizesFollow /\ Alone
  BY StoreStep DEF OrderInv, EntriesInv, Types
<1>2. /\ writing[c] \in CallRecords /\ writing'[c].at = "resuming"
      /\ \A d \in Writers \ {c} : writing'[d] = writing[d]
      /\ piece \in Seq(Nat) /\ writing[c].at = "writing" /\ writing[c] # NoCall
  <2>1. writing[c].at = "writing" /\ writing[c] # NoCall
    BY DEF Stored, NoCall
  <2> QED
    BY <1>1, <2>1, StoredCall
<1>3. p \in Paths
  BY <1>2 DEF CallRecords
<1>4. archives' = archives /\ second' = second /\ calls' = calls
  BY DEF Stored
<1>5. \A x \in ToSet(piece) : x \in ToSet(writing[c].record) /\ x \in Nat
  <2>1. writing[c].record \in Seq(Nat) /\ k \in 0..Len(writing[c].record)
    BY <1>2 DEF CallRecords, Stored
  <2>2. \A i \in 1..k : writing[c].record[i] \in Nat /\ i \in DOMAIN writing[c].record
    BY <2>1
  <2>3. piece = [i \in 1..k |-> writing[c].record[i]]
    BY <2>1
  <2> QED
    BY <2>2, <2>3 DEF ToSet
<1>6. disk' = disk \/ (p \in DOMAIN disk /\ disk' = Changed(disk, p, disk[p] \o piece))
  BY <1>1 DEF Stored, SizesFollow, IsOpen
<1>7. /\ Same(disk', disk, p)
      /\ \A x \in ToSet(Text(disk, p)) : x \in ToSet(Text(disk', p))
      /\ \A x \in ToSet(Text(disk', p)) : x \in ToSet(Text(disk, p)) \/ x \in ToSet(piece)
  <2>1. CASE disk' = disk
    BY <2>1 DEF Same
  <2>2. CASE p \in DOMAIN disk /\ disk' = Changed(disk, p, disk[p] \o piece)
    <3> DEFINE text == disk[p] \o piece
    <3>1. disk[p] \in Seq(Nat)
      BY <1>1, <2>2, MapType
    <3> HIDE DEF p, piece
    <3>2. /\ text \in Seq(Nat) /\ Len(text) = Len(disk[p]) + Len(piece)
          /\ \A i \in 1..Len(disk[p]) + Len(piece) :
                text[i] = IF i <= Len(disk[p]) THEN disk[p][i] ELSE piece[i - Len(disk[p])]
      BY <1>2, <3>1, ConcatProperties
    <3> HIDE DEF text
    <3>3. Len(disk[p]) \in Nat /\ Len(piece) \in Nat
      BY <1>2, <3>1
    <3>4. \A x \in ToSet(disk[p]) : x \in ToSet(text)
      <4> SUFFICES ASSUME NEW i \in 1..Len(disk[p]) PROVE disk[p][i] \in ToSet(text)
        BY <3>1 DEF ToSet
      <4>1. i \in 1..Len(text) /\ text[i] = disk[p][i]
        BY <3>2, <3>3
      <4> QED
        BY <3>2, <4>1 DEF ToSet
    <3>5. \A x \in ToSet(text) : x \in ToSet(disk[p]) \/ x \in ToSet(piece)
      <4>0. \A x \in ToSet(text) : \E i \in 1..Len(text) : x = text[i]
        BY <3>2, ElementsOf
      <4> SUFFICES ASSUME NEW i \in 1..Len(text)
                   PROVE  text[i] \in ToSet(disk[p]) \/ text[i] \in ToSet(piece)
        BY <4>0
      <4>1. CASE i <= Len(disk[p])
        <5>1. i \in 1..Len(disk[p]) /\ text[i] = disk[p][i]
          BY <3>2, <3>3, <4>1
        <5> QED
          BY <3>1, <5>1 DEF ToSet
      <4>2. CASE ~(i <= Len(disk[p]))
        <5>1. i - Len(disk[p]) \in 1..Len(piece) /\ text[i] = piece[i - Len(disk[p])]
          BY <3>2, <3>3, <4>2
        <5> QED
          BY <1>2, <5>1 DEF ToSet
      <4> QED
        BY <4>1, <4>2
    <3>6. /\ p \in DOMAIN Changed(disk, p, text) /\ Changed(disk, p, text)[p] = text
          /\ Same(Changed(disk, p, text), disk, p)
      BY <1>1, <2>2, <3>2, ChangeType
    <3>7. Text(disk, p) = disk[p] /\ Text(disk', p) = text
      BY <2>2, <3>6 DEF Text, text
    <3>8. Same(disk', disk, p)
      BY <2>2, <3>6 DEF text
    <3> QED
      BY <3>4, <3>5, <3>7, <3>8
  <2> QED
    BY <1>6, <2>1, <2>2
<1>8. \A y \in ToSet(piece) : y <= calls /\ y \in Nat /\ \A x \in Texts(p) : x < y
  BY <1>2, <1>3, <1>5 DEF OrderInv, WritesNewest
<1> HIDE DEF p, piece
<1>9. ASSUME NEW q \in Paths, q = p
      PROVE  /\ \A x : x \in Texts(q) => x \in Texts(q)'
             /\ \A x : x \in Texts(q)' => x \in Texts(q) \/ x \in ToSet(piece)
  <2>1. archives'[q] = archives[q]
    BY <1>4
  <2>2. /\ \A x \in ToSet(Text(disk, q)) : x \in ToSet(Text(disk', q))
        /\ \A x \in ToSet(Text(disk', q)) : x \in ToSet(Text(disk, q)) \/ x \in ToSet(piece)
    BY <1>7, <1>9
  <2>3. \A x : x \in Texts(q)' <=> x \in ToSet(Text(disk', q)) \/ \E a \in archives[q] : x \in ToSet(a.text)
    BY <2>1, TextsOfNext
  <2> QED
    BY <2>2, <2>3, TextsOf
<1>10. ASSUME NEW q \in Paths, q # p
       PROVE  PathInv(q)' /\ OldestGo(q) /\ \A x : x \in Texts(q)' <=> x \in Texts(q)
  <2>1. PathInv(q)
    BY DEF OrderInv, PathInv
  <2>2. archives'[q] = archives[q] /\ Text(disk', q) = Text(disk, q)
    BY <1>4, <1>7, <1>10 DEF Same, Text
  <2> QED
    BY <1>1, <1>4, <2>1, <2>2, PathKept
<1>11. ASSUME NEW q \in Paths, q = p
       PROVE  PathInv(q)' /\ OldestGo(q)
  <2>0. archives'[q] = archives[q] /\ second' = second /\ calls' = calls
    BY <1>4
  <2>1. Named(q) /\ Ordered(q) /\ Past(q)
    BY DEF OrderInv
  <2>2. Named(q)'
    BY <2>0, <2>1 DEF Named
  <2>3. Past(q)'
    BY <1>8, <1>9, <1>11, <2>0, <2>1 DEF Past
  <2>4. Ordered(q)'
    <3>1. ASSUME NEW a \in archives[q], NEW x \in ToSet(a.text), NEW y \in ToSet(Text(disk', q))
          PROVE  x < y
      <4>1. x \in Texts(q)
        BY TextsOf
      <4>2. CASE y \in ToSet(piece)
        BY <1>8, <1>11, <4>1, <4>2
      <4>3. CASE y \in ToSet(Text(disk, q))
        BY <2>1, <4>3 DEF Ordered, Before
      <4> QED
        BY <1>7, <1>11, <4>2, <4>3
    <3>2. \A a \in archives[q] : Before(a.text, Text(disk', q))
      BY <3>1 DEF Before
    <3>3. \A a, b \in archives[q] : Older(a, b) => Before(a.text, b.text)
      BY <2>1 DEF Ordered
    <3>4. (\A a \in archives[q] : Before(a.text, Text(disk, q)))' <=> \A a \in archives'[q] : Before(a.text, Text(disk', q))
      BY DEF Text
    <3> QED
      BY <2>0, <3>2, <3>3, <3>4 DEF Ordered
  <2>5. OldestGo(q)
    BY <1>9, <1>11 DEF OldestGo
  <2> QED
    BY <2>2, <2>3, <2>4, <2>5 DEF PathInv
<1>12. WritesNewest'
  <2> SUFFICES ASSUME NEW d \in Writers, NEW q \in Paths, writing'[d].at = "writing",
                      writing'[d].path = q, NEW y \in ToSet(writing'[d].record)
               PROVE  y <= calls' /\ \A x \in Texts(q)' : x < y
    BY DEF WritesNewest
  <2>1. d # c /\ writing'[d] = writing[d] /\ writing[d] # NoCall
    BY <1>2 DEF NoCall
  <2>2. q # p
    BY <1>1, <1>2, <2>1 DEF Alone, p
  <2>3. y <= calls /\ \A x \in Texts(q) : x < y
    BY <2>1 DEF OrderInv, WritesNewest
  <2> QED
    BY <1>4, <1>10, <2>2, <2>3
<1>13. \A q \in Paths : PathInv(q)' /\ OldestGo(q)
  <2> SUFFICES ASSUME NEW q \in Paths PROVE PathInv(q)' /\ OldestGo(q)
    OBVIOUS
  <2>1. CASE q = p
    BY <1>11, <2>1
  <2>2. CASE q # p
    BY <1>10, <2>2
  <2> QED
    BY <2>1, <2>2
<1> QED
  BY <1>1, <1>12, <1>13 DEF OrderInv, PathInv

LEMMA InitOrder == LogInit => OrderInv
<1> SUFFICES ASSUME LogInit PROVE OrderInv
  OBVIOUS
<1>1. EntriesInv
  BY InitEntries
<1>2. ASSUME NEW p \in Paths PROVE PathInv(p)
  <2>1. archives[p] = {} /\ Text(disk, p) = <<>>
    BY DEF LogInit, Text, Nothing
  <2>2. <<>> \in Seq(Archives) /\ InOrder(<<>>, archives[p])
    BY <2>1 DEF InOrder
  <2>3. \A x : x \notin Texts(p)
    BY <2>1, NoText, TextsOf
  <2> QED
    BY <2>1, <2>2, <2>3 DEF PathInv, Named, Ordered, Past
<1>3. WritesNewest
  BY DEF LogInit, WritesNewest, NoCall
<1> QED
  BY <1>1, <1>2, <1>3 DEF OrderInv, PathInv

LEMMA StepOrder ==
  ASSUME ~Overlap, ~SameSecond, OrderInv, [LogNext]_logVars
  PROVE  OrderInv' /\ \A p \in Paths : OldestGo(p)
<1>1. EntriesInv /\ EntriesInv' /\ Types
  BY StepEntries DEF OrderInv, EntriesInv
<1>2. ASSUME NEW c \in Writers, WriteCompletes(c) PROVE OrderInv' /\ \A p \in Paths : OldestGo(p)
  BY <1>1, <1>2, StoreHappens, StoreOrder
<1>3. ASSUME NEW c \in Writers, NEW name \in Filenames, NEW n \in RecordSizes, FileWrite(c, name, n)
      PROVE  OrderInv' /\ \A p \in Paths : OldestGo(p)
  <2>1. PICK p \in Paths, w \in Worlds : Undertaken(c, p, n, w)
    BY <1>1, <1>3, FileWriteBegins DEF EntriesInv
  <2> QED
    BY <2>1, BeginOrder
<1>4. ASSUME NEW c \in Writers, FileWriteResumes(c) PROVE Leaves
  <2>1. NoCall.at # "writing"
    BY DEF NoCall
  <2>2. \A d \in Writers : writing'[d] = NoCall \/ writing'[d] = writing[d]
    BY <1>1, <1>4 DEF FileWriteResumes, Types
  <2>3. \A d \in Writers : writing'[d].at = "writing" => writing'[d] = writing[d]
    BY <2>1, <2>2
  <2> QED
    BY <1>4, <2>3 DEF Leaves, FileWriteResumes
<1>5. ASSUME NEW p \in Paths, CloseFile(p) PROVE Leaves
  BY <1>5 DEF Leaves, CloseFile
<1>6. Shutdown => Leaves
  BY DEF Leaves, Shutdown
<1>7. Setting => Leaves
  BY DEF Leaves, Setting
<1>8. SecondPasses => Leaves
  BY DEF Leaves, SecondPasses
<1>9. Restart => Leaves
  BY DEF Leaves, Restart, NoCall
<1>10. UNCHANGED logVars => Leaves
  BY DEF Leaves, logVars
<1>11. Leaves => OrderInv' /\ \A p \in Paths : OldestGo(p)
  BY <1>1, LeavesStep
<1> QED
  BY <1>2, <1>3, <1>4, <1>5, <1>6, <1>7, <1>8, <1>9, <1>10, <1>11 DEF LogNext

LEMMA OrderInvariance == ASSUME ~Overlap, ~SameSecond PROVE LogSpec => []OrderInv
<1>1. OrderInv /\ [LogNext]_logVars => OrderInv'
  BY StepOrder
<1> QED
  BY <1>1, InitOrder, PTL DEF LogSpec

(* Where, besides, no file is rolled over twice in a second under a limit, *)
(* a clean-up takes the oldest text: whatever disappears from a log was    *)
(* written before all that stays.                                          *)
THEOREM OldestFirst == ASSUME ~Overlap, ~SameSecond PROVE LogSpec => OldestGoFirst
<1>1. OrderInv /\ [LogNext]_logVars
        => [\A p \in Paths : \A gone \in Texts(p) \ Texts(p)', kept \in Texts(p)' : gone < kept]_logVars
  BY StepOrder DEF OldestGo
<1> QED
  BY <1>1, OrderInvariance, PTL DEF LogSpec, OldestGoFirst

-----------------------------------------------------------------------------
(* The archives and the file as the volumes of LogPromise.                 *)

TextsIn(s) == [i \in 1..Len(s) |-> s[i].text]

LEMMA NthOf ==
  ASSUME NEW s, NEW all, InOrder(s, all), NEW i \in 1..Len(s)
  PROVE  Nth(all, i) = s[i]
<1>1. \A j \in 1..Len(s) : Cardinality({b \in all : Older(b, s[j])}) = j - 1
  BY OrderCounts
<1>2. s[i] \in all /\ Cardinality({b \in all : Older(b, s[i])}) = i - 1
  BY <1>1 DEF InOrder
<1>3. Nth(all, i) \in all /\ Cardinality({b \in all : Older(b, Nth(all, i))}) = i - 1
  BY <1>2 DEF Nth
<1>4. PICK j \in 1..Len(s) : s[j] = Nth(all, i)
  BY <1>3 DEF InOrder
<1>5. j - 1 = i - 1
  BY <1>1, <1>3, <1>4
<1> QED
  BY <1>4, <1>5

LEMMA TextsInType ==
  ASSUME NEW s \in Seq(Archives)
  PROVE  /\ TextsIn(s) \in Seq(Seq(Nat)) /\ Len(TextsIn(s)) = Len(s) /\ Len(s) \in Nat
         /\ \A i \in 1..Len(s) : TextsIn(s)[i] = s[i].text
<1>1. Len(s) \in Nat /\ \A i \in 1..Len(s) : s[i].text \in Seq(Nat)
  <2>1. ASSUME NEW i \in 1..Len(s) PROVE s[i].text \in Seq(Nat)
    <3>1. s[i] \in Archives
      BY ElementOfSeq
    <3> QED
      BY <3>1 DEF Archives
  <2>2. Len(s) \in Nat
    OBVIOUS
  <2> QED
    BY <2>1, <2>2
<1>2. TextsIn(s) \in [1..Len(s) -> Seq(Nat)]
  BY <1>1 DEF TextsIn
<1>3. TextsIn(s) \in Seq(Seq(Nat)) /\ Len(TextsIn(s)) = Len(s)
  BY <1>1, <1>2
<1> QED
  BY <1>1, <1>3 DEF TextsIn

LEMMA VolumesIn ==
  ASSUME NEW s, NEW all, InOrder(s, all)
  PROVE  [i \in 1..Cardinality(all) |-> Nth(all, i).text] = TextsIn(s)
<1>1. Cardinality(all) = Len(s)
  BY OrderCounts
<1>2. \A i \in 1..Len(s) : Nth(all, i) = s[i]
  BY NthOf
<1> QED
  BY <1>1, <1>2 DEF TextsIn

LEMMA VolumesNow ==
  ASSUME NEW p, NEW s, InOrder(s, archives[p])
  PROVE  Volumes(p) = Append(TextsIn(s), Text(disk, p))
BY VolumesIn DEF Volumes, Text

LEMMA VolumesNext ==
  ASSUME NEW p, NEW s, InOrder(s, archives'[p])
  PROVE  Volumes(p)' = Append(TextsIn(s), Text(disk', p))
BY VolumesIn DEF Volumes, Text

(* What Pruned leaves of the volumes is what CleanupOldArchives leaves.    *)
LEMMA PrunedVolumes ==
  ASSUME NEW s \in Seq(Archives), s # <<>>, MaxArchiveCount \in Nat
  PROVE  LogPromised!Pruned(Append(TextsIn(s), <<>>))
           = Append(TextsIn(SubSeq(s, Removed(s) + 1, Len(s))), <<>>)
<1> DEFINE n == Removed(s)
           rest == SubSeq(s, n + 1, Len(s))
           v == Append(TextsIn(s), <<>>)
           u == Append(TextsIn(rest), <<>>)
<1>1. Len(s) \in Nat /\ n \in 0..Len(s)
  BY DEF Removed
<1>2. n = IF MaxArchiveCount = 0 \/ Len(s) <= MaxArchiveCount THEN 0 ELSE Len(s) - MaxArchiveCount
  BY DEF Removed
<1> HIDE DEF n
<1>3. \A i \in 1..Len(s) : s[i] \in Archives
  BY ElementOfSeq
<1>4. /\ rest \in Seq(Archives) /\ Len(rest) = Len(s) - n
      /\ \A i \in 1..(Len(s) - n) : rest[i] = s[n + i]
  <2>1. \A i \in (n + 1)..Len(s) : s[i] \in Archives
    BY <1>1, <1>3
  <2>2. n + 1 \in Int /\ Len(s) \in Int
    BY <1>1
  <2>3. /\ rest \in Seq(Archives)
        /\ Len(rest) = IF n + 1 <= Len(s) THEN Len(s) - (n + 1) + 1 ELSE 0
        /\ \A i \in 1..(Len(s) - (n + 1) + 1) : rest[i] = s[(n + 1) + i - 1]
    BY <2>1, <2>2, SubSeqProperties
  <2> QED
    BY <1>1, <2>3
<1> HIDE DEF rest
<1>5. <<>> \in Seq(Nat)
  OBVIOUS
<1>6. /\ v \in Seq(Seq(Nat)) /\ Len(v) = Len(s) + 1 /\ v[Len(s) + 1] = <<>>
      /\ \A i \in 1..Len(s) : v[i] = s[i].text
  BY <1>5, TextsInType, AppendProperties
<1>7. /\ u \in Seq(Seq(Nat)) /\ Len(u) = Len(s) - n + 1 /\ u[Len(s) - n + 1] = <<>>
      /\ \A i \in 1..(Len(s) - n) : u[i] = s[n + i].text
  BY <1>4, <1>5, TextsInType, AppendProperties
<1> HIDE DEF u, v
<1>8. \A i \in 1..(Len(s) - n + 1) : u[i] = v[n + i]
  <2> SUFFICES ASSUME NEW i \in 1..(Len(s) - n + 1) PROVE u[i] = v[n + i]
    OBVIOUS
  <2>1. CASE i = Len(s) - n + 1
    <3>1. n + i = Len(s) + 1
      BY <1>1, <2>1
    <3> QED
      BY <1>6, <1>7, <2>1, <3>1
  <2>2. CASE i # Len(s) - n + 1
    <3>1. i \in 1..(Len(s) - n) /\ n + i \in 1..Len(s)
      BY <1>1, <2>2
    <3> QED
      BY <1>6, <1>7, <3>1
  <2> QED
    BY <2>1, <2>2
<1>9. LogPromised!Pruned(v) = IF n = 0 THEN v ELSE SubSeq(v, n + 1, Len(v))
  BY <1>1, <1>2, <1>6 DEF LogPromised!Pruned
<1>10. CASE n = 0
  <2>1. Len(u) = Len(v) /\ \A i \in 1..Len(u) : u[i] = v[i]
    BY <1>1, <1>6, <1>7, <1>8, <1>10
  <2>2. u = v
    BY <1>6, <1>7, <2>1, SeqEqual
  <2> QED
    BY <1>9, <1>10, <2>2 DEF u, v, rest, n
<1>11. CASE n # 0
  <2> DEFINE x == SubSeq(v, n + 1, Len(v))
  <2>1. \A i \in (n + 1)..Len(v) : v[i] \in Seq(Nat)
    <3>1. \A i \in (n + 1)..Len(v) : i \in 1..Len(v)
      BY <1>1, <1>6
    <3> QED
      BY <1>6, <3>1, ElementOfSeq
  <2>2. n + 1 \in Int /\ Len(v) \in Int
    BY <1>1, <1>6
  <2>3. /\ x \in Seq(Seq(Nat))
        /\ Len(x) = IF n + 1 <= Len(v) THEN Len(v) - (n + 1) + 1 ELSE 0
        /\ \A i \in 1..(Len(v) - (n + 1) + 1) : x[i] = v[(n + 1) + i - 1]
    BY <2>1, <2>2, SubSeqProperties
  <2> HIDE DEF x
  <2>4. Len(u) = Len(x) /\ \A i \in 1..Len(u) : u[i] = x[i]
    BY <1>1, <1>6, <1>7, <1>8, <2>3
  <2>5. u = x
    BY <1>7, <2>3, <2>4, SeqEqual
  <2> QED
    BY <1>9, <1>11, <2>5 DEF u, v, x, rest, n
<1> QED
  BY <1>10, <1>11

(* What is written goes to the end of the last volume.                     *)
LEMMA LastVolume ==
  ASSUME NEW s \in Seq(Seq(Nat)), NEW a \in Seq(Nat), NEW b \in Seq(Nat)
  PROVE  [Append(s, a) EXCEPT ![Len(Append(s, a))] = @ \o b] = Append(s, a \o b)
<1> DEFINE v == Append(s, a)
           u == Append(s, a \o b)
           x == [v EXCEPT ![Len(v)] = v[Len(v)] \o b]
<1>1. a \o b \in Seq(Nat) /\ Len(s) \in Nat
  OBVIOUS
<1>2. v \in Seq(Seq(Nat)) /\ Len(v) = Len(s) + 1 /\ v[Len(s) + 1] = a /\ \A i \in 1..Len(s) : v[i] = s[i]
  BY AppendProperties
<1>3. u \in Seq(Seq(Nat)) /\ Len(u) = Len(s) + 1 /\ u[Len(s) + 1] = a \o b /\ \A i \in 1..Len(s) : u[i] = s[i]
  BY <1>1, AppendProperties
<1> DEFINE n == Len(s) + 1
<1> HIDE DEF u, v
<1>4. v \in [1..n -> Seq(Nat)] /\ n \in Nat
  BY <1>1, <1>2
<1>5. x \in [1..n -> Seq(Nat)] /\ x[n] = a \o b /\ \A i \in 1..Len(s) : x[i] = s[i]
  BY <1>1, <1>2, <1>4
<1> HIDE DEF x
<1>6. x \in Seq(Seq(Nat)) /\ Len(x) = n
  <2> HIDE DEF n
  <2> QED
    BY <1>4, <1>5
<1>7. \A i \in 1..Len(x) : x[i] = u[i]
  <2>1. \A i \in 1..n : i = n \/ i \in 1..Len(s)
    BY <1>1
  <2> QED
    BY <1>3, <1>5, <1>6, <2>1
<1>8. x = u
  BY <1>3, <1>6, <1>7, SeqEqual
<1> QED
  BY <1>8 DEF x, u, v

LEMMA TextsOfAppend ==
  ASSUME NEW s \in Seq(Archives), NEW a \in Archives
  PROVE  TextsIn(Append(s, a)) = Append(TextsIn(s), a.text)
<1> DEFINE t == Append(s, a)
           u == TextsIn(t)
           v == Append(TextsIn(s), a.text)
<1>1. t \in Seq(Archives) /\ Len(t) = Len(s) + 1 /\ t[Len(s) + 1] = a /\ \A i \in 1..Len(s) : t[i] = s[i]
  BY AppendProperties
<1>2. a.text \in Seq(Nat)
  BY DEF Archives
<1>3. /\ v \in Seq(Seq(Nat)) /\ Len(v) = Len(s) + 1 /\ v[Len(s) + 1] = a.text /\ Len(s) \in Nat
      /\ \A i \in 1..Len(s) : v[i] = s[i].text
  BY <1>2, TextsInType, AppendProperties
<1> HIDE DEF t, v
<1>4. u \in Seq(Seq(Nat)) /\ Len(u) = Len(t) /\ \A i \in 1..Len(t) : u[i] = t[i].text
  BY <1>1, TextsInType
<1> HIDE DEF u
<1>5. \A i \in 1..Len(u) : i = Len(s) + 1 \/ i \in 1..Len(s)
  BY <1>1, <1>3, <1>4
<1>6. \A i \in 1..Len(u) : u[i] = v[i]
  BY <1>1, <1>3, <1>4, <1>5
<1>7. u = v
  BY <1>1, <1>3, <1>4, <1>6, SeqEqual
<1> QED
  BY <1>7 DEF u, v, t

(* The calls of FileWrite as those of LogPromise.                          *)
PromisedCall(r) ==
    IF r = NoCall THEN [path |-> <<>>, record |-> <<>>, outcome |-> "none"]
    ELSE [path |-> r.path, record |-> r.record,
          outcome |-> IF r.at = "writing" THEN "none"
                      ELSE IF r.written = Len(r.record) THEN "written" ELSE "nothing written"]

LEMMA CallsNow ==
  /\ LogCalls = [c \in Writers |-> PromisedCall(writing[c])]
  /\ LogCalls' = [c \in Writers |-> PromisedCall(writing'[c])]
BY DEF LogCalls, PromisedCall

LEMMA CallChanges ==
  ASSUME NEW c \in Writers, \A d \in Writers \ {c} : writing'[d] = writing[d]
  PROVE  LogCalls' = [LogCalls EXCEPT ![c] = PromisedCall(writing'[c])]
BY CallsNow

LEMMA VolumesKept ==
  ASSUME NEW p, archives'[p] = archives[p], Text(disk', p) = Text(disk, p)
  PROVE  Volumes(p)' = Volumes(p)
BY DEF Volumes, Text

LEMMA VolumesChange ==
  ASSUME NEW p \in Paths, NEW v, Volumes(p)' = v, \A q \in Paths : q # p => Volumes(q)' = Volumes(q)
  PROVE  LogVolumes' = [LogVolumes EXCEPT ![p] = v]
BY DEF LogVolumes

(* A call of FileWrite begins one of LogPromise.                           *)
LEMMA BeginKept ==
  ASSUME OrderInv, NEW c \in Writers, NEW p \in Paths, NEW n \in RecordSizes,
         NEW w \in Worlds, Undertaken(c, p, n, w)
  PROVE  /\ LogPromised!Begin(c, p, Record(n))
         /\ Record(n) \in {[i \in 1..m |-> k] : m \in RecordSizes, k \in 1..MaxCalls}
<1>1. Types /\ PathInv(p)
  BY DEF OrderInv, EntriesInv, PathInv
<1>2. MaxArchiveCount \in Nat /\ archives \in [Paths -> SUBSET Archives] /\ calls \in Nat
  BY <1>1, LogAssumption DEF Types, LogAssumption
<1>3. /\ disk' = w.disk /\ archives' = w.archives /\ Same(w.disk, disk, p) /\ (Kept(w, p) \/ Rolled(w, p))
  BY DEF Undertaken, IsReady, Outcome
<1>4. ASSUME NEW q \in Paths, q # p \/ Kept(w, p) PROVE Volumes(q)' = Volumes(q)
  <2>1. archives'[q] = archives[q]
    BY <1>2, <1>3, <1>4 DEF Kept, Rolled
  <2>2. Text(disk', q) = Text(disk, q)
    BY <1>3, <1>4 DEF Same, Text, Kept
  <2> QED
    BY <2>1, <2>2, VolumesKept
<1>5. LogVolumes' \in {LogVolumes, LogPromised!Rolled(p)}
  <2>1. CASE Kept(w, p)
    BY <1>4, <2>1 DEF LogVolumes
  <2>2. CASE Rolled(w, p)
    <3> DEFINE new == Newest(p)
               all == archives[p] \cup {new}
    <3>1. archives'[p] = CleanupOldArchives(all) /\ Text(disk', p) = <<>> /\ FreeSuffixes(archives[p]) # {}
      BY <1>2, <1>3, <2>2 DEF Rolled, Archived
    <3>2. new \in Archives /\ \A a \in archives[p] : Older(a, new)
      BY <1>1, <3>1, NewestIsNewest DEF PathInv
    <3>3. new.text = Text(disk, p)
      BY DEF Newest
    <3>4. PICK s \in Seq(Archives) : InOrder(s, archives[p])
      BY <1>1 DEF PathInv, Named
    <3> DEFINE t == Append(s, new)
               rest == SubSeq(t, Removed(t) + 1, Len(t))
    <3> HIDE DEF new
    <3>5. InOrder(t, all) /\ t \in Seq(Archives) /\ t # <<>>
      BY <3>2, <3>4, OrderWithNewest, AppendProperties
    <3>6. Volumes(p) = TextsIn(t)
      BY <3>2, <3>3, <3>4, VolumesNow, TextsOfAppend
    <3> HIDE DEF t, all
    <3>7. InOrder(rest, archives'[p])
      BY <1>2, <3>1, <3>5, OrderAfterCleanup
    <3>8. Volumes(p)' = Append(TextsIn(rest), <<>>)
      BY <3>1, <3>7, VolumesNext
    <3>9. LogPromised!Pruned(Append(TextsIn(t), <<>>)) = Append(TextsIn(rest), <<>>)
      BY <1>2, <3>5, PrunedVolumes
    <3> HIDE DEF rest
    <3>10. LogVolumes' = [LogVolumes EXCEPT ![p] = Append(TextsIn(rest), <<>>)]
      BY <1>4, <3>8, VolumesChange
    <3>11. LogVolumes[p] = TextsIn(t)
      BY <3>6 DEF LogVolumes
    <3> QED
      BY <3>9, <3>10, <3>11 DEF LogPromised!Rolled
  <2> QED
    BY <1>3, <2>1, <2>2
<1>6. LogCalls[c] = LogPromised!Idle
  BY CallsNow DEF Undertaken, PromisedCall, LogPromised!Idle
<1>7. Record(n) \in {[i \in 1..m |-> k] : m \in RecordSizes, k \in 1..MaxCalls}
  <2>1. calls + 1 \in 1..MaxCalls
    BY <1>2, LogAssumption DEF Undertaken, LogAssumption
  <2> QED
    BY <2>1 DEF Record
<1>8. CASE w.ends = "no"
  <2>1. writing'[c] = Call(w, p, n) /\ \A d \in Writers \ {c} : writing'[d] = writing[d]
    BY <1>1, <1>8 DEF Undertaken, Types
  <2>2. PromisedCall(Call(w, p, n)) = [path |-> p, record |-> Record(n), outcome |-> "none"]
    BY DEF PromisedCall, Call, NoCall
  <2>3. LogCalls' = [LogCalls EXCEPT ![c] = [path |-> p, record |-> Record(n), outcome |-> "none"]]
    BY <2>1, <2>2, CallChanges
  <2>4. wrote' = wrote /\ MaxArchiveCount' = MaxArchiveCount
    BY <1>8 DEF Undertaken, settings
  <2> QED
    BY <1>5, <1>6, <1>7, <2>3, <2>4 DEF LogPromised!Begin
<1>9. CASE w.ends # "no"
  <2>1. w.ends \in {"nothing written", "exception"}
    BY <1>9 DEF Worlds, Ended
  <2>2. wrote' = [wrote EXCEPT ![c] = w.ends] /\ MaxArchiveCount' = MaxArchiveCount /\ writing' = writing
    BY <1>9 DEF Undertaken, settings
  <2>3. LogCalls' = LogCalls
    BY <2>2, CallsNow
  <2>4. \E a \in {"nothing written", "exception"} : wrote' = [wrote EXCEPT ![c] = a]
    BY <2>1, <2>2
  <2>5. LogPromised!Begin(c, p, Record(n))
    BY <1>5, <1>6, <2>2, <2>3, <2>4 DEF LogPromised!Begin
  <2> QED
    BY <1>7, <2>5
<1> QED
  BY <1>8, <1>9

(* The end of async_write stores what LogPromise says.                     *)
LEMMA StoreKept ==
  ASSUME OrderInv, NEW c \in Writers, NEW k \in Nat, Stored(c, k), NEW p, p = writing[c].path
  PROVE  LogPromised!Store(c, k) /\ k \in 0..Len(LogCalls[c].record)
<1> DEFINE piece == SubSeq(writing[c].record, 1, k)
<1>1. Types /\ SizesFollow
  BY DEF OrderInv, EntriesInv
<1>2. /\ writing[c] \in CallRecords /\ writing[c] # NoCall /\ writing[c].at = "writing"
      /\ writing'[c] # NoCall /\ writing'[c].at = "resuming" /\ writing'[c].written = k
      /\ writing'[c].path = p /\ writing'[c].record = writing[c].record
      /\ \A d \in Writers \ {c} : writing'[d] = writing[d]
      /\ piece \in Seq(Nat) /\ k \in 0..Len(writing[c].record)
  <2>1. writing[c].at = "writing" /\ writing[c] # NoCall /\ k \in 0..Len(writing[c].record)
    BY DEF Stored, NoCall
  <2> QED
    BY <1>1, <2>1, StoredCall
<1>3. p \in Paths /\ p # <<>>
  <2>1. p \in Paths
    BY <1>2 DEF CallRecords
  <2>2. PICK root \in Roots, name \in Filenames : p = <<root, name>>
    BY <2>1 DEF Paths
  <2> QED
    BY <2>1, <2>2
<1>4. Text(disk', p) = Text(disk, p) \o piece /\ Same(disk', disk, p)
  <2>1. CASE IsOpen(FileMap, p) /\ FileMap[p].handle = writing[c].handle
    <3>1. p \in DOMAIN disk /\ disk' = Changed(disk, p, disk[p] \o piece)
      BY <1>1, <2>1 DEF Stored, SizesFollow, IsOpen
    <3>2. disk[p] \o piece \in Seq(Nat) /\ disk \in Maps(Seq(Nat))
      BY <1>1, <1>2, <3>1, MapType DEF Types
    <3> DEFINE text == disk[p] \o piece
    <3> HIDE DEF text
    <3>3. /\ p \in DOMAIN Changed(disk, p, text) /\ Changed(disk, p, text)[p] = text
          /\ Same(Changed(disk, p, text), disk, p)
      <4>1. text \in Seq(Nat)
        BY <3>2 DEF text
      <4> QED
        BY <3>1, <3>2, <4>1, ChangeType
    <3>4. disk' = Changed(disk, p, text)
      BY <3>1 DEF text
    <3>5. Text(disk', p) = text /\ Text(disk, p) = disk[p]
      BY <3>1, <3>3, <3>4 DEF Text
    <3> QED
      BY <3>3, <3>4, <3>5 DEF text
  <2>2. CASE ~(IsOpen(FileMap, p) /\ FileMap[p].handle = writing[c].handle)
    <3>1. disk' = disk /\ piece = <<>>
      BY <1>2, <2>2 DEF Stored, CallRecords
    <3>2. Text(disk, p) \in Seq(Nat)
      BY <1>1, TextType DEF Types
    <3>3. Text(disk, p) \o piece = Text(disk, p)
      BY <3>1, <3>2, ConcatEmptySeq
    <3>4. Text(disk', p) = Text(disk, p) /\ Same(disk', disk, p)
      BY <3>1 DEF Same
    <3> QED
      BY <3>3, <3>4
  <2> QED
    BY <2>1, <2>2
<1> HIDE DEF piece
<1>5. archives' = archives /\ wrote' = wrote /\ MaxArchiveCount' = MaxArchiveCount
  BY DEF Stored, settings
<1>6. PICK s \in Seq(Archives) : InOrder(s, archives[p])
  BY <1>3 DEF OrderInv, Named
<1> DEFINE old == Append(TextsIn(s), Text(disk, p))
           new == Append(TextsIn(s), Text(disk, p) \o piece)
<1>7. Volumes(p) = old /\ Volumes(p)' = new
  <2>1. InOrder(s, archives'[p])
    BY <1>5, <1>6
  <2>2. Volumes(p)' = Append(TextsIn(s), Text(disk', p))
    BY <2>1, VolumesNext
  <2> QED
    BY <1>4, <1>6, <2>2, VolumesNow
<1>8. [old EXCEPT ![Len(old)] = @ \o piece] = new
  <2>1. TextsIn(s) \in Seq(Seq(Nat)) /\ Text(disk, p) \in Seq(Nat)
    BY <1>1, <1>6, TextType, TextsInType DEF Types
  <2> QED
    BY <1>2, <2>1, LastVolume
<1> HIDE DEF old, new
<1>9. LogVolumes' = [LogVolumes EXCEPT ![p] = new]
  <2>1. ASSUME NEW q \in Paths, q # p PROVE Volumes(q)' = Volumes(q)
    <3>1. archives'[q] = archives[q] /\ Text(disk', q) = Text(disk, q)
      BY <1>4, <1>5, <2>1 DEF Same, Text
    <3> QED
      BY <3>1, VolumesKept
  <2> QED
    BY <1>3, <1>7, <2>1, VolumesChange
<1>10. LogVolumes[p] = old
  BY <1>3, <1>7 DEF LogVolumes
<1>11. LogVolumes' = [LogVolumes EXCEPT ![p][Len(LogVolumes[p])] = @ \o piece]
  BY <1>8, <1>9, <1>10
<1>12. LogCalls[c] = [path |-> p, record |-> writing[c].record, outcome |-> "none"]
  BY <1>2, CallsNow DEF PromisedCall
<1> DEFINE how == IF k = Len(writing[c].record) THEN "written" ELSE "nothing written"
<1>13. LogCalls' = [LogCalls EXCEPT ![c].outcome = how]
  <2>1. PromisedCall(writing'[c]) = [path |-> p, record |-> writing[c].record, outcome |-> how]
    BY <1>2 DEF PromisedCall
  <2> HIDE DEF how
  <2>2. [LogCalls[c] EXCEPT !.outcome = how] = PromisedCall(writing'[c])
    BY <1>12, <2>1
  <2>3. LogCalls' = [LogCalls EXCEPT ![c] = PromisedCall(writing'[c])]
    BY <1>2, CallChanges
  <2> QED
    BY <2>2, <2>3
<1>14. LogCalls[c] # LogPromised!Idle
  BY <1>3, <1>12 DEF LogPromised!Idle
<1>15. /\ LogCalls[c].path = p /\ LogCalls[c].outcome = "none"
       /\ piece = SubSeq(LogCalls[c].record, 1, k)
       /\ how = IF k = Len(LogCalls[c].record) THEN "written" ELSE "nothing written"
       /\ k \in 0..Len(LogCalls[c].record)
  BY <1>2, <1>12 DEF piece
<1> HIDE DEF how
<1> QED
  BY <1>5, <1>11, <1>13, <1>14, <1>15 DEF LogPromised!Store

\* No call has written more than its record.
Within == \A c \in Writers : writing[c] # NoCall => writing[c].written <= Len(writing[c].record)

LEMMA WithinStep ==
  ASSUME ~Overlap, EntriesInv, Within, [LogNext]_logVars
  PROVE  Within'
<1>1. Types /\ SizesFollow
  BY DEF EntriesInv
<1>2. ASSUME NEW c \in Writers, WriteCompletes(c) PROVE Within'
  <2>1. PICK k \in Nat : Stored(c, k)
    BY <1>1, <1>2, StoreHappens
  <2>2. /\ writing'[c].written = k /\ writing'[c].record = writing[c].record
        /\ \A d \in Writers \ {c} : writing'[d] = writing[d]
    BY <1>1, <2>1, StoredCall
  <2>3. k \in 0..Len(writing[c].record)
    BY <2>1 DEF Stored
  <2> QED
    BY <2>2, <2>3 DEF Within
<1>3. ASSUME NEW c \in Writers, NEW name \in Filenames, NEW n \in RecordSizes, FileWrite(c, name, n)
      PROVE  Within'
  <2>1. PICK p \in Paths, w \in Worlds : Undertaken(c, p, n, w)
    BY <1>1, <1>3, FileWriteBegins
  <2>2. CASE writing' = writing
    BY <2>2 DEF Within
  <2>3. CASE writing' = [writing EXCEPT ![c] = Call(w, p, n)]
    <3>1. writing'[c] = Call(w, p, n) /\ \A d \in Writers \ {c} : writing'[d] = writing[d]
      BY <1>1, <2>3 DEF Types
    <3>2. Call(w, p, n).written = 0 /\ Call(w, p, n).record = Record(n)
      BY DEF Call
    <3>3. Len(Record(n)) = n /\ n >= 0
      BY LogAssumption DEF Record, LogAssumption
    <3> QED
      BY <3>1, <3>2, <3>3 DEF Within
  <2> QED
    BY <2>1, <2>2, <2>3 DEF Undertaken
<1>4. ASSUME NEW c \in Writers, FileWriteResumes(c) PROVE Within'
  <2>1. \A d \in Writers : writing'[d] = NoCall \/ writing'[d] = writing[d]
    BY <1>1, <1>4 DEF FileWriteResumes, Types
  <2> QED
    BY <2>1 DEF Within
<1>5. Restart => Within'
  BY DEF Restart, Within
<1>6. ASSUME NEW p \in Paths, CloseFile(p) PROVE writing' = writing
  BY <1>6 DEF CloseFile
<1>7. Shutdown \/ Setting \/ SecondPasses \/ UNCHANGED logVars => writing' = writing
  BY DEF Shutdown, Setting, SecondPasses, logVars
<1>8. writing' = writing => Within'
  BY DEF Within
<1> QED
  BY <1>2, <1>3, <1>4, <1>5, <1>6, <1>7, <1>8 DEF LogNext

(* A call ends with the outcome of what it has written.                    *)
LEMMA ReturnKept ==
  ASSUME Types, Within, NEW c \in Writers, FileWriteResumes(c)
  PROVE  LogPromised!Return(c)
<1>1. writing[c].at = "resuming" /\ writing[c] # NoCall /\ writing[c] \in CallRecords
  BY Busy DEF FileWriteResumes, NoCall
<1>2. writing[c].written \in Nat /\ Len(writing[c].record) \in Nat
      /\ writing[c].written <= Len(writing[c].record)
  BY <1>1 DEF Within, CallRecords
<1> DEFINE how == IF Failed(c) THEN "nothing written" ELSE "written"
<1>3. how = IF writing[c].written = Len(writing[c].record) THEN "written" ELSE "nothing written"
  <2>1. Failed(c) <=> ~(writing[c].written = Len(writing[c].record))
    BY <1>2 DEF Failed
  <2> QED
    BY <2>1
<1>4. LogCalls[c].outcome = how /\ how # "none"
  BY <1>1, <1>3, CallsNow DEF PromisedCall
<1> HIDE DEF how
<1>5. LogCalls' = [LogCalls EXCEPT ![c] = LogPromised!Idle]
  <2>1. writing'[c] = NoCall /\ \A d \in Writers \ {c} : writing'[d] = writing[d]
    BY DEF FileWriteResumes, Types
  <2>2. PromisedCall(NoCall) = LogPromised!Idle
    BY DEF PromisedCall, LogPromised!Idle
  <2> QED
    BY <2>1, <2>2, CallChanges
<1>6. wrote' = [wrote EXCEPT ![c] = how]
  BY DEF FileWriteResumes, how
<1>7. LogVolumes' = LogVolumes
  BY VolumesKept DEF FileWriteResumes, LogVolumes
<1>8. MaxArchiveCount' = MaxArchiveCount
  BY DEF FileWriteResumes, settings
<1> QED
  BY <1>4, <1>5, <1>6, <1>7, <1>8 DEF LogPromised!Return

LEMMA FilesKept == ASSUME disk' = disk, archives' = archives PROVE LogVolumes' = LogVolumes
BY VolumesKept DEF LogVolumes

KeptInv == OrderInv /\ Within
promised == <<LogVolumes, MaxArchiveCount, LogCalls, wrote>>

LEMMA PromiseStep ==
  ASSUME ~Overlap, KeptInv, [LogNext]_logVars
  PROVE  [LogPromised!Next]_promised
<1>1. OrderInv /\ EntriesInv /\ Types /\ SizesFollow /\ Within
  BY DEF KeptInv, OrderInv, EntriesInv
<1>2. ASSUME NEW c \in Writers, WriteCompletes(c) PROVE LogPromised!Next
  <2>1. PICK k \in Nat : Stored(c, k)
    BY <1>1, <1>2, StoreHappens
  <2>2. LogPromised!Store(c, k) /\ k \in 0..Len(LogCalls[c].record)
    BY <1>1, <2>1, StoreKept
  <2> QED
    BY <2>2 DEF LogPromised!Next
<1>3. ASSUME NEW c \in Writers, NEW name \in Filenames, NEW n \in RecordSizes, FileWrite(c, name, n)
      PROVE  LogPromised!Next
  <2>1. PICK p \in Paths, w \in Worlds : Undertaken(c, p, n, w)
    BY <1>1, <1>3, FileWriteBegins
  <2>2. /\ LogPromised!Begin(c, p, Record(n))
        /\ Record(n) \in {[i \in 1..m |-> k] : m \in RecordSizes, k \in 1..MaxCalls}
    BY <1>1, <2>1, BeginKept
  <2> QED
    BY <2>2 DEF LogPromised!Next
<1>4. ASSUME NEW c \in Writers, FileWriteResumes(c) PROVE LogPromised!Next
  <2>1. LogPromised!Return(c)
    BY <1>1, <1>4, ReturnKept
  <2> QED
    BY <2>1 DEF LogPromised!Next
<1>5. CASE Restart
  <2>1. LogVolumes' = LogVolumes /\ MaxArchiveCount' = 0 /\ wrote' = [c \in Writers |-> "none"]
    BY <1>5, FilesKept DEF Restart
  <2>2. LogCalls' = [c \in Writers |-> LogPromised!Idle]
    BY <1>5, CallsNow DEF Restart, PromisedCall, LogPromised!Idle
  <2>3. LogPromised!Restart
    BY <2>1, <2>2 DEF LogPromised!Restart
  <2> QED
    BY <2>3 DEF LogPromised!Next
<1>6. CASE Setting
  <2>1. LogVolumes' = LogVolumes /\ wrote' = wrote
    BY <1>6, FilesKept DEF Setting
  <2>2. LogCalls' = LogCalls
    BY <1>6, CallsNow DEF Setting
  <2>3. MaxArchiveCount' = MaxArchiveCount \/ MaxArchiveCount' \in ArchiveCounts \cup {0}
    BY <1>6 DEF Setting
  <2> QED
    BY <2>1, <2>2, <2>3 DEF LogPromised!Next, LogPromised!SetLimit, promised
<1>7. ASSUME UNCHANGED <<MaxArchiveCount, disk, archives, writing, wrote>> PROVE UNCHANGED promised
  <2>1. LogVolumes' = LogVolumes /\ LogCalls' = LogCalls
    BY <1>7, FilesKept, CallsNow
  <2> QED
    BY <1>7, <2>1 DEF promised
<1>8. ASSUME NEW p \in Paths, CloseFile(p) PROVE UNCHANGED promised
  BY <1>7, <1>8 DEF CloseFile, settings
<1>9. Shutdown \/ SecondPasses \/ UNCHANGED logVars => UNCHANGED promised
  BY <1>7 DEF Shutdown, SecondPasses, logVars, settings
<1> QED
  BY <1>2, <1>3, <1>4, <1>5, <1>6, <1>8, <1>9 DEF LogNext

LEMMA PromiseInit == LogInit => LogPromised!Init
<1> SUFFICES ASSUME LogInit PROVE LogPromised!Init
  OBVIOUS
<1>1. ASSUME NEW p \in Paths PROVE Volumes(p) = << <<>> >>
  <2>1. archives[p] = {} /\ Text(disk, p) = <<>>
    BY DEF LogInit, Text, Nothing
  <2>2. <<>> \in Seq(Archives) /\ InOrder(<<>>, archives[p])
    BY <2>1 DEF InOrder
  <2>3. Volumes(p) = Append(TextsIn(<<>>), <<>>)
    BY <2>1, <2>2, VolumesNow
  <2>4. TextsIn(<<>>) = <<>>
    BY DEF TextsIn
  <2> DEFINE x == Append(<<>>, <<>>)
             y == << <<>> >>
  <2>5. <<>> \in Seq(Nat) /\ <<>> \in Seq(Seq(Nat)) /\ Len(<<>>) = 0
    OBVIOUS
  <2>6. x \in Seq(Seq(Nat)) /\ Len(x) = 0 + 1 /\ x[0 + 1] = <<>>
    BY <2>5, AppendProperties
  <2>7. y \in Seq(Seq(Nat)) /\ Len(y) = 1 /\ y[1] = <<>>
    BY <2>5
  <2> HIDE DEF x, y
  <2>8. x = y
    <3>1. Len(x) = Len(y) /\ \A i \in 1..Len(x) : x[i] = y[i]
      BY <2>6, <2>7
    <3> QED
      BY <2>6, <2>7, <3>1, SeqEqual
  <2> QED
    BY <2>3, <2>4, <2>8 DEF x, y
<1>2. LogVolumes = [p \in Paths |-> << <<>> >>]
  BY <1>1 DEF LogVolumes
<1>3. LogCalls = [c \in Writers |-> LogPromised!Idle]
  BY CallsNow DEF LogInit, PromisedCall, LogPromised!Idle
<1> QED
  BY <1>2, <1>3 DEF LogInit, LogPromised!Init

(* A record that is reported as written is in the log, whole, once and in  *)
(* its place, through rollovers, clean-ups, reopening, failures and        *)
(* restarts: the log implements LogPromise.                                *)
THEOREM RecordsKept == ASSUME ~Overlap, ~SameSecond PROVE LogSpec => LogKept
<1>1. LogInit => KeptInv
  BY InitOrder DEF KeptInv, LogInit, Within
<1>2. KeptInv /\ [LogNext]_logVars => KeptInv'
  BY StepOrder, WithinStep DEF KeptInv, OrderInv
<1>3. KeptInv /\ [LogNext]_logVars => [LogPromised!Next]_promised
  BY PromiseStep
<1> QED
  BY <1>1, <1>2, <1>3, PromiseInit, PTL DEF LogSpec, LogKept, LogPromised!Spec, promised

=============================================================================
