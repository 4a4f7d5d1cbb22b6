------------------------------ MODULE SfsProofs -----------------------------
(***************************************************************************)
(* Proofs about the simple file system, for any table size, names and      *)
(* contents within WithinLimits, and for a disk that Init formats as well  *)
(* as for a blank one: the disk's invariant, that cache and disk agree,    *)
(* and that the disk implements DurableStore whenever the power fails.     *)
(***************************************************************************)
EXTENDS Sfs, FiniteSetTheorems, WellFoundedInduction, TLAPS

\* Every entry has the sector Format gave it, or, on a blank disk, none has.
Formatted(t) == \A i \in Saved : t[i].sector = FirstData + i
Placed(t) == Formatted(t) \/ \A i \in Saved : t[i].sector = 0

\* What the saved part of a table looks like once Init accepts the disk.
Sane(t) ==
  /\ Placed(t)
  /\ \A i \in Saved : /\ t[i].flags \in {0, 1}
                      /\ t[i].flags = 1 => t[i].name \in Names
  /\ \A i, j \in Saved :
       t[i].flags = 1 /\ t[j].flags = 1 /\ t[i].name = t[j].name => i = j

FileEntry == [name : Names \cup {NoName}, sector : Nat, flags : Nat]

\* No more files are saved than sector 1 has entries for.
WithinLimits == IsFiniteSet(Names) /\ Cardinality(Names) <= Persist

\* How cache, table and the save under way hang together: cache and table
\* differ in the one slot that is being saved, and there the table has
\* nothing or an older version of the same file.
DiskInv ==
  /\ pc \in {"off", "idle", "data", "table"}
  /\ table \in [Saved -> FileEntry] /\ file_table \in [Slot -> FileEntry]
  /\ pc \in {"off", "idle"} => req = None
  /\ Sane(table) \/ (pc = "off" /\ table = GarbageTable)
  /\ pc # "off" => /\ Sane(file_table)
                   /\ \A i \in Slot \ Saved : file_table[i].name = NoName
  /\ pc = "idle" => \A i \in Saved : table[i] = file_table[i]
  /\ pc \in {"data", "table"} =>
       /\ req \in [name : Names, value : Contents, slot : Saved]
       /\ file_table[req.slot].name = req.name /\ file_table[req.slot].flags = 1
       /\ \A i \in Saved \ {req.slot} : table[i] = file_table[i]
       /\ table[req.slot].flags = 1 => table[req.slot].name = req.name
       /\ table[req.slot].sector = file_table[req.slot].sector
  /\ pc = "table" => Sector(file_table[req.slot].sector) = req.value

-----------------------------------------------------------------------------
(* Searching the table.                                                    *)

\* A set of slots that is not empty has a first one.
LEMMA LeastElement ==
  ASSUME NEW T \in SUBSET Nat, T # {}
  PROVE  \E x \in T : \A y \in T : x <= y
<1> DEFINE R == OpToRel(<, Nat)
<1>1. IsWellFoundedOn(R, Nat)
  BY NatLessThanWellFounded
<1>2. \A x, y \in Nat : y < x => <<y, x>> \in R
  BY DEF OpToRel
<1> HIDE DEF R
<1>3. \E x \in T : \A y \in T : ~ (<<y, x>> \in R)
  BY <1>1, WFMin
<1>4. PICK x \in T : \A y \in T : ~ (<<y, x>> \in R)
  BY <1>3
<1>5. ASSUME NEW y \in T PROVE x <= y
  <2>1. ~(y < x)
    BY <1>2, <1>4
  <2> QED BY <2>1
<1> QED BY <1>5

\* The search loops stop at the first slot that fits.
LEMMA FirstOfIsFirst ==
  ASSUME NEW S \in SUBSET Nat, S # {}
  PROVE  FirstOf(S) \in S /\ \A j \in S : FirstOf(S) <= j
  BY LeastElement DEF FirstOf

\* A choice from a set of one.
LEMMA FirstOfOne ==
  ASSUME NEW k \in Nat PROVE FirstOf({k}) = k
<1>1. {k} \in SUBSET Nat /\ {k} # {}
  OBVIOUS
<1> QED BY <1>1, FirstOfIsFirst

\* The saved slots are the first ones, slot 0 among them.
LEMMA SlotFacts ==
  /\ Saved \in SUBSET Slot /\ Slot \in SUBSET Nat /\ 0 \in Saved
  /\ \A i \in Slot, j \in Saved : i <= j => i \in Saved
  BY SfsAssumption DEF Saved, Slot

\* While fewer files are saved than there are saved entries, one of those is
\* free: the names in use would otherwise be more than there are.
LEMMA FreeSavedSlot ==
  ASSUME WithinLimits, NEW t, Sane(t), NEW n \in Names,
         \A i \in Saved : ~(t[i].flags = 1 /\ t[i].name = n)
  PROVE  \E i \in Saved : t[i].flags = 0
<1>1. SUFFICES ASSUME \A i \in Saved : t[i].flags # 0 PROVE FALSE
  OBVIOUS
<1> DEFINE f == [i \in Saved |-> t[i].name]
           Others == Names \ {n}
<1>2. \A i \in Saved : t[i].flags = 1 /\ t[i].name \in Others
  BY <1>1 DEF Sane
<1>3. f \in [Saved -> Others]
  BY <1>2
<1>4. IsFiniteSet(Saved) /\ Cardinality(Saved) = Persist
  <2>1. 0 \in Int /\ Persist - 1 \in Int /\ Persist \in Nat /\ 1 <= Persist
    BY SfsAssumption
  <2> DEFINE last == Persist - 1
  <2>2. ~(0 > last) /\ last - 0 + 1 = Persist /\ last \in Int
    BY <2>1
  <2> HIDE DEF last
  <2>3. /\ IsFiniteSet(0..last)
        /\ Cardinality(0..last) = IF 0 > last THEN 0 ELSE last - 0 + 1
    BY <2>1, <2>2, FS_Interval
  <2> QED BY <2>2, <2>3 DEF Saved, last
<1>5. /\ IsFiniteSet(Others) /\ Cardinality(Others) = Cardinality(Names) - 1
  BY FS_RemoveElement DEF WithinLimits
<1>6. Cardinality(Others) < Cardinality(Saved)
  BY <1>4, <1>5, FS_CardinalityType, SfsAssumption DEF WithinLimits
<1> HIDE DEF f
<1>7. \E i, j \in Saved : i # j /\ f[i] = f[j]
  <2> HIDE DEF Others
  <2> QED BY <1>3, <1>4, <1>5, <1>6, FS_PigeonHole
<1> QED BY <1>2, <1>7 DEF Sane, f

\* In a sane table the file of a name is in one entry at most.
LEMMA HoldingOne ==
  ASSUME NEW t \in [Saved -> FileEntry], Sane(t), NEW i \in Saved,
         t[i].flags = 1
  PROVE  Holding(t, t[i].name) = {i} /\ FirstOf(Holding(t, t[i].name)) = i
<1>1. Holding(t, t[i].name) = {i}
  BY DEF Holding, Sane
<1>2. i \in Nat
  BY SlotFacts
<1> QED BY <1>1, <1>2, FirstOfOne

\* The cache and its saved part hold the same files.
LEMMA CacheHolding ==
  ASSUME NEW t \in [Slot -> FileEntry],
         \A i \in Slot \ Saved : t[i].name = NoName, NEW n \in Names
  PROVE  Holding(t, n) = {i \in Saved : t[i].flags = 1 /\ t[i].name = n}
  BY SlotFacts, SfsAssumption DEF Holding

\* A save uses a saved slot: the file's own, or a free one if the file is new.
LEMMA WriteSlotFacts ==
  ASSUME WithinLimits, DiskInv, pc = "idle", NEW n \in Names
  PROVE  LET slot == FirstOf(WriteSlots(n))
         IN  /\ slot \in Saved
             /\ \/ file_table[slot].flags = 1 /\ file_table[slot].name = n
                \/ /\ file_table[slot].flags = 0
                   /\ \A i \in Saved : ~(/\ file_table[i].flags = 1
                                         /\ file_table[i].name = n)
<1> DEFINE slot == FirstOf(WriteSlots(n))
           H == Holding(file_table, n)
<1>0. /\ file_table \in [Slot -> FileEntry] /\ Sane(file_table)
      /\ \A i \in Slot \ Saved : file_table[i].name = NoName
  BY DEF DiskInv
<1>1. H = {i \in Saved : file_table[i].flags = 1 /\ file_table[i].name = n}
  BY <1>0, CacheHolding
<1>2. CASE H # {}
  <2>1. H \in SUBSET Nat
    BY <1>1, SlotFacts
  <2>2. FirstOf(H) \in H
    BY <1>2, <2>1, FirstOfIsFirst
  <2> QED BY <1>1, <1>2, <2>2 DEF WriteSlots
<1>3. CASE H = {}
  <2>1. \A i \in Saved : ~(file_table[i].flags = 1 /\ file_table[i].name = n)
    BY <1>1, <1>3
  <2>2. PICK k \in Saved : file_table[k].flags = 0
    BY <1>0, <2>1, FreeSavedSlot
  <2>3. FreeSlots \in SUBSET Slot /\ k \in FreeSlots
    BY <2>2, SlotFacts DEF FreeSlots
  <2>4. FreeSlots \in SUBSET Nat /\ FreeSlots # {}
    BY <2>3, SlotFacts
  <2>5. FirstOf(FreeSlots) \in FreeSlots /\ FirstOf(FreeSlots) <= k
    BY <2>3, <2>4, FirstOfIsFirst
  <2>6. slot = FirstOf(FreeSlots)
    BY <1>3 DEF WriteSlots
  <2>7. slot \in Saved
    BY <2>3, <2>5, <2>6, SlotFacts
  <2> QED BY <2>1, <2>5, <2>6, <2>7 DEF FreeSlots
<1> QED BY <1>2, <1>3

-----------------------------------------------------------------------------
(* The disk's invariant.                                                   *)

\* Tables on the disk hold entries.
LEMMA TablesType ==
  /\ GarbageTable \in [Saved -> FileEntry] /\ ZeroTable \in [Saved -> FileEntry]
  /\ \A n \in Names \cup {NoName}, s \in Nat, f \in Nat :
       Entry(n, s, f) \in FileEntry
  BY SfsAssumption DEF GarbageTable, ZeroTable, FileEntry, Entry

\* A disk with random bytes is told from one that Init accepts by its first
\* entry; a blank disk is accepted.
LEMMA GarbageOrSane ==
  /\ IsGarbage(GarbageTable[0])
  /\ \A t : Sane(t) => ~IsGarbage(t[0])
  /\ Sane(ZeroTable)
<1>1. 0 \in Saved
  BY SlotFacts
<1>2. IsGarbage(GarbageTable[0])
  BY <1>1, SfsAssumption DEF IsGarbage, GarbageTable, Entry
<1>3. ASSUME NEW t, Sane(t) PROVE ~IsGarbage(t[0])
  BY <1>1, <1>3, SfsAssumption DEF Sane, Placed, Formatted, IsGarbage
<1>4. Sane(ZeroTable)
  BY DEF Sane, Placed, Formatted, ZeroTable, Entry
<1> QED BY <1>2, <1>3, <1>4

\* Of one entry replaced, as long as the entry keeps its sector.
LEMMA SaneUpdate ==
  ASSUME NEW t \in [Slot -> FileEntry], Sane(t), NEW k \in Saved,
         NEW n \in Names, NEW f \in {0, 1},
         \A i \in Saved \ {k} : ~(t[i].flags = 1 /\ t[i].name = n)
  PROVE  LET u == [t EXCEPT ![k] = Entry(n, t[k].sector, f)]
         IN  u \in [Slot -> FileEntry] /\ Sane(u)
<1> DEFINE e == Entry(n, t[k].sector, f)
           u == [t EXCEPT ![k] = e]
<1>1. k \in Slot /\ Saved \in SUBSET Slot
  BY SlotFacts
<1>2. t[k].sector \in Nat
  BY <1>1 DEF FileEntry
<1>3. e \in FileEntry /\ e.name = n /\ e.flags = f /\ e.sector = t[k].sector
  BY <1>2, TablesType DEF Entry
<1> HIDE DEF e
<1>4. u \in [Slot -> FileEntry] /\ u[k] = e /\ \A i \in Saved \ {k} : u[i] = t[i]
  BY <1>1, <1>3
<1> HIDE DEF u
<1>5. Sane(u)
  <2>1. Placed(u)
    BY <1>3, <1>4 DEF Sane, Placed, Formatted
  <2> QED BY <1>3, <1>4, <2>1 DEF Sane
<1> QED BY <1>4, <1>5 DEF u, e

\* A table that agrees with a sane one is sane.
LEMMA SaneCopy ==
  ASSUME NEW t, Sane(t), NEW u, \A i \in Saved : u[i] = t[i]
  PROVE  Sane(u)
  BY DEF Sane, Placed, Formatted

\* The disk's invariant, over saves, deletes, power cuts and mounts
\* (sfs.cpp:20-130): while a save is under way, cache and sector 1 differ in
\* one entry only.
THEOREM DiskInvHolds ==
  ASSUME WithinLimits PROVE Spec => []DiskInv
<1>1. Init => DiskInv
  <2> SUFFICES ASSUME Init PROVE DiskInv
    OBVIOUS
  <2>2. table \in {ZeroTable, GarbageTable} /\ pc = "off" /\ req = None
    BY DEF Init
  <2>3. file_table \in [Slot -> FileEntry]
    BY TablesType DEF Init
  <2> QED BY <2>2, <2>3, TablesType, GarbageOrSane DEF DiskInv
<1>2. DiskInv /\ [Next]_vars => DiskInv'
  <2> SUFFICES ASSUME DiskInv, [Next]_vars PROVE DiskInv'
    OBVIOUS
  <2>0. /\ table \in [Saved -> FileEntry] /\ file_table \in [Slot -> FileEntry]
        /\ Saved \in SUBSET Slot
    BY SlotFacts DEF DiskInv
  <2>1. CASE Mount
    <3>1. Sane(table) /\ pc = "off" /\ req = None
      BY <2>1, GarbageOrSane DEF DiskInv, Mount
    <3>2. PICK flags \in [Slot \ Saved -> StackFlags],
               secs \in [Slot \ Saved -> StackSectors] :
            file_table' = [i \in Slot |-> IF i \in Saved THEN table[i]
                                          ELSE Entry(NoName, secs[i], flags[i])]
      BY <2>1 DEF Mount
    <3>3. \A i \in Slot \ Saved : /\ Entry(NoName, secs[i], flags[i]) \in FileEntry
                                  /\ Entry(NoName, secs[i], flags[i]).name = NoName
      BY <3>2, TablesType, SfsAssumption DEF Entry
    <3>4. /\ file_table' \in [Slot -> FileEntry]
          /\ \A i \in Saved : file_table'[i] = table[i]
          /\ \A i \in Slot \ Saved : file_table'[i].name = NoName
      BY <2>0, <3>2, <3>3
    <3>5. Sane(file_table')
      BY <3>1, <3>4, SaneCopy
    <3>6. pc' = "idle" /\ table' = table /\ req' = req
      BY <2>1 DEF Mount
    <3> QED BY <2>0, <3>1, <3>4, <3>5, <3>6 DEF DiskInv
  <2>2. CASE MountFormat
    <3>1. \A i \in Slot : /\ FormatEntry(i) \in FileEntry
                          /\ FormatEntry(i).name = NoName
                          /\ FormatEntry(i).flags = 0
                          /\ FormatEntry(i).sector = FirstData + i
      BY TablesType, SlotFacts, SfsAssumption DEF FormatEntry, Entry
    <3>2. /\ file_table' = [i \in Slot |-> FormatEntry(i)]
          /\ table' = [i \in Saved |-> file_table'[i]]
          /\ pc' = "idle" /\ req' = req /\ pc = "off"
      BY <2>2 DEF MountFormat, SavedPart
    <3>3. /\ file_table' \in [Slot -> FileEntry] /\ table' \in [Saved -> FileEntry]
          /\ \A i \in Saved : table'[i] = file_table'[i]
          /\ \A i \in Slot \ Saved : file_table'[i].name = NoName
      BY <2>0, <3>1, <3>2
    <3>4. \A i \in Saved : file_table'[i] = FormatEntry(i)
      BY <2>0, <3>2
    <3>5. Sane(file_table')
      BY <2>0, <3>1, <3>4 DEF Sane, Placed, Formatted
    <3>6. Sane(table')
      BY <3>3, <3>5, SaneCopy
    <3> QED BY <3>2, <3>3, <3>5, <3>6 DEF DiskInv
  <2>3. ASSUME NEW n \in Names, NEW c \in Contents, WriteBegin(n, c)
        PROVE  DiskInv'
    <3> DEFINE k == FirstOf(WriteSlots(n))
    <3>1. /\ pc = "idle" /\ pc' = "data" /\ table' = table
          /\ file_table' = [file_table EXCEPT ![k] =
                              Entry(n, file_table[k].sector, 1)]
          /\ req' = [name |-> n, value |-> c, slot |-> k]
      BY <2>3 DEF WriteBegin
    <3>2. /\ k \in Saved
          /\ \/ file_table[k].flags = 1 /\ file_table[k].name = n
             \/ /\ file_table[k].flags = 0
                /\ \A i \in Saved : ~(/\ file_table[i].flags = 1
                                      /\ file_table[i].name = n)
      BY <3>1, WriteSlotFacts
    <3> HIDE DEF k
    <3>3. /\ Sane(table) /\ Sane(file_table)
          /\ \A i \in Slot \ Saved : file_table[i].name = NoName
          /\ \A i \in Saved : table[i] = file_table[i]
      BY <3>1 DEF DiskInv
    <3>4. \A i \in Saved \ {k} : ~(file_table[i].flags = 1 /\ file_table[i].name = n)
      BY <3>2, <3>3 DEF Sane
    <3>5. file_table' \in [Slot -> FileEntry] /\ Sane(file_table')
      BY <2>0, <3>1, <3>2, <3>3, <3>4, SaneUpdate
    <3>6. /\ file_table'[k].name = n /\ file_table'[k].flags = 1
          /\ \A i \in Slot \ {k} : file_table'[i] = file_table[i]
      BY <2>0, <3>1, <3>2 DEF Entry
    <3>7. req' \in [name : Names, value : Contents, slot : Saved]
          /\ req'.slot = k /\ req'.name = n
      BY <3>1, <3>2
    <3>8. /\ \A i \in Slot \ Saved : file_table'[i].name = NoName
          /\ \A i \in Saved \ {k} : table'[i] = file_table'[i]
          /\ table'[k].sector = file_table'[k].sector
      BY <2>0, <3>1, <3>2, <3>3, <3>6 DEF Entry
    <3>9. table'[k].flags = 1 => table'[k].name = n
      BY <3>1, <3>2, <3>3
    <3> QED BY <2>0, <3>1, <3>3, <3>5, <3>6, <3>7, <3>8, <3>9 DEF DiskInv
  <2>4. CASE WriteData
    <3> DEFINE k == req.slot
               s == file_table[k].sector
    <3>1. /\ pc = "data" /\ pc' = "table" /\ file_table' = file_table /\ req' = req
      BY <2>4 DEF WriteData
    <3>2. /\ k \in Saved /\ s # TableSector
      BY <3>1, SlotFacts, SfsAssumption DEF DiskInv, Sane, Placed, Formatted, TableSector
    <3>3. /\ table' = table
          /\ data' = [q \in DOMAIN data \cup {s} |->
                            IF q = s THEN req.value ELSE data[q]]
      BY <2>4, <3>2 DEF WriteData
    <3>4. s \in DOMAIN data' /\ data'[s] = req.value
      BY <3>3
    <3>5. Sector(file_table[req.slot].sector)' = req.value
      BY <3>1, <3>4 DEF Sector
    <3> QED BY <3>1, <3>3, <3>5 DEF DiskInv
  <2>5. CASE WriteTable
    <3>1. /\ pc = "table" /\ pc' = "idle" /\ req' = None
          /\ file_table' = file_table
          /\ table' = [i \in Saved |-> file_table[i]]
      BY <2>5 DEF WriteTable, SavedPart
    <3>2. /\ Sane(file_table)
          /\ \A i \in Slot \ Saved : file_table[i].name = NoName
      BY <3>1 DEF DiskInv
    <3>3. table' \in [Saved -> FileEntry] /\ \A i \in Saved : table'[i] = file_table[i]
      BY <2>0, <3>1
    <3>4. Sane(table')
      BY <3>2, <3>3, SaneCopy
    <3> QED BY <2>0, <3>1, <3>2, <3>3, <3>4 DEF DiskInv
  <2>6. ASSUME NEW n \in Names, DeleteFile(n) PROVE DiskInv'
    <3> DEFINE k == FirstOf(Holding(file_table, n))
    <3>1. /\ pc = "idle" /\ pc' = "idle" /\ req' = req
          /\ Holding(file_table, n) # {}
          /\ file_table' = [file_table EXCEPT ![k] =
                              Entry(n, file_table[k].sector, 0)]
          /\ table' = [i \in Saved |-> file_table'[i]]
      BY <2>6 DEF DeleteFile, SavedPart
    <3>2. /\ Sane(file_table) /\ req = None
          /\ \A i \in Slot \ Saved : file_table[i].name = NoName
      BY <3>1 DEF DiskInv
    <3>3. Holding(file_table, n)
            = {i \in Saved : file_table[i].flags = 1 /\ file_table[i].name = n}
      BY <2>0, <3>2, CacheHolding
    <3>4. k \in Holding(file_table, n)
      BY <3>1, <3>3, SlotFacts, FirstOfIsFirst
    <3> HIDE DEF k
    <3>5. k \in Saved /\ file_table[k].flags = 1 /\ file_table[k].name = n
      BY <3>3, <3>4
    <3>6. \A i \in Saved \ {k} : ~(file_table[i].flags = 1 /\ file_table[i].name = n)
      BY <3>2, <3>5 DEF Sane
    <3>7. file_table' \in [Slot -> FileEntry] /\ Sane(file_table')
      BY <2>0, <3>1, <3>2, <3>5, <3>6, SaneUpdate
    <3>8. /\ table' \in [Saved -> FileEntry]
          /\ \A i \in Saved : table'[i] = file_table'[i]
          /\ \A i \in Slot \ Saved : file_table'[i].name = NoName
      BY <2>0, <3>1, <3>2, <3>5, <3>7
    <3>9. Sane(table')
      BY <3>7, <3>8, SaneCopy
    <3> QED BY <3>1, <3>2, <3>7, <3>8, <3>9 DEF DiskInv
  <2>7. CASE PowerCut
    <3>1. /\ pc # "off" /\ pc' = "off" /\ req' = None /\ table' = table
          /\ file_table' \in [Slot -> FileEntry]
      BY <2>7, TablesType DEF PowerCut
    <3> QED BY <2>0, <3>1 DEF DiskInv
  <2>8. CASE UNCHANGED vars
    BY <2>8 DEF vars, DiskInv, Sane, Sector
  <2> QED BY <2>1, <2>2, <2>3, <2>4, <2>5, <2>6, <2>7, <2>8 DEF Next
<1> QED BY <1>1, <1>2, PTL DEF Spec

\* Between calls every file the running system shows is the one the next
\* mount will show (sfs.cpp:57-130), on a formatted and on a blank disk.
THEOREM CacheCoherentHolds ==
  ASSUME WithinLimits PROVE Spec => []CacheCoherent
<1>1. DiskInv => CacheCoherent
  <2> SUFFICES ASSUME DiskInv, pc = "idle", NEW n \in Names
               PROVE  Shown(file_table, n) = Shown(table, n)
    BY DEF CacheCoherent
  <2>1. /\ table \in [Saved -> FileEntry] /\ file_table \in [Slot -> FileEntry]
        /\ \A i \in Slot \ Saved : file_table[i].name = NoName
        /\ \A i \in Saved : table[i] = file_table[i]
    BY DEF DiskInv
  <2>2. Holding(file_table, n) = Holding(table, n)
    BY <2>1, CacheHolding DEF Holding
  <2>3. Holding(table, n) \in SUBSET Saved /\ Holding(table, n) \in SUBSET Nat
    BY <2>1, SlotFacts DEF Holding
  <2>4. Holding(table, n) # {} => FirstOf(Holding(table, n)) \in Saved
    BY <2>3, FirstOfIsFirst
  <2> QED BY <2>1, <2>2, <2>4 DEF Shown
<1> QED BY <1>1, DiskInvHolds, PTL

-----------------------------------------------------------------------------
(* The refinement.                                                         *)

Store == [n \in Names |-> IF Holding(table, n) = {} THEN Absent
                          ELSE Kept(Shown(table, n))]

AbsReq == IF req = None THEN None
          ELSE [name |-> req.name, value |-> Kept(req.value)]

\* What stands for any content on a blank disk.
Some == CHOOSE d \in Contents : TRUE

\* Where a sane table of a formatted disk keeps a file.
LEMMA HoldingCases ==
  ASSUME NEW t \in [Saved -> FileEntry], Sane(t), Formatted(t), NEW n \in Names
  PROVE  \/ /\ Holding(t, n) = {}
            /\ \A i \in Saved : ~(t[i].flags = 1 /\ t[i].name = n)
         \/ \E i \in Saved :
              /\ t[i].flags = 1 /\ t[i].name = n /\ t[i].sector = FirstData + i
              /\ Holding(t, n) = {i} /\ FirstOf(Holding(t, n)) = i
<1>1. CASE \E i \in Saved : t[i].flags = 1 /\ t[i].name = n
  <2>1. PICK i \in Saved : t[i].flags = 1 /\ t[i].name = n
    BY <1>1
  <2>2. Holding(t, n) = {i} /\ FirstOf(Holding(t, n)) = i
    BY <2>1, HoldingOne
  <2>3. t[i].sector = FirstData + i
    BY DEF Formatted
  <2> QED BY <2>1, <2>2, <2>3
<1>2. CASE ~ \E i \in Saved : t[i].flags = 1 /\ t[i].name = n
  <2>1. Holding(t, n) = {}
    BY <1>2 DEF Holding
  <2> QED BY <1>2, <2>1
<1> QED BY <1>1, <1>2

\* What a table shows of a file depends on that file's entry only.
LEMMA ShownSame ==
  ASSUME NEW t \in [Saved -> FileEntry], Sane(t), Formatted(t),
         NEW u \in [Saved -> FileEntry], Sane(u), Formatted(u), NEW n \in Names,
         \A i \in Saved : (t[i].flags = 1 /\ t[i].name = n)
                            <=> (u[i].flags = 1 /\ u[i].name = n)
  PROVE  Shown(t, n) = Shown(u, n)
<1>1. \/ Holding(t, n) = {} /\ Holding(u, n) = {}
      \/ \E i \in Saved :
           /\ t[i].sector = FirstData + i /\ u[i].sector = FirstData + i
           /\ Holding(t, n) = {i} /\ Holding(u, n) = {i}
           /\ FirstOf({i}) = i
  <2>1. CASE Holding(t, n) = {}
    <3>1. \A i \in Saved : ~(u[i].flags = 1 /\ u[i].name = n)
      BY <2>1, HoldingCases
    <3>2. Holding(u, n) = {}
      BY <3>1, HoldingCases
    <3> QED BY <2>1, <3>2
  <2>2. ASSUME NEW i \in Saved, t[i].flags = 1, t[i].name = n,
               t[i].sector = FirstData + i,
               Holding(t, n) = {i}, FirstOf(Holding(t, n)) = i
        PROVE  /\ u[i].sector = FirstData + i /\ Holding(u, n) = {i}
               /\ FirstOf({i}) = i
    <3>1. u[i].flags = 1 /\ u[i].name = n
      BY <2>2
    <3>2. Holding(u, n) = {i}
      BY <3>1, HoldingOne
    <3> QED BY <2>2, <3>2 DEF Formatted
  <2> QED BY <2>1, <2>2, HoldingCases
<1> QED BY <1>1 DEF Shown

\* A table without files shows none.
LEMMA ShownAbsent ==
  ASSUME NEW t \in [Saved -> FileEntry], NEW n,
         \A i \in Saved : ~(t[i].flags = 1 /\ t[i].name = n)
  PROVE  Shown(t, n) = Absent
<1>1. Holding(t, n) = {}
  BY DEF Holding
<1> QED BY <1>1 DEF Shown

\* A disk that was never used is the empty store.
LEMMA RefinesInit == Init => DS!Init
<1> SUFFICES ASSUME Init PROVE DS!Init
  OBVIOUS
<1>1. table \in {ZeroTable, GarbageTable} /\ req = None
  BY DEF Init
<1>2. \A n \in Names : Holding(table, n) = {}
  BY <1>1 DEF Holding, GarbageTable, ZeroTable, Entry
<1> QED BY <1>1, <1>2 DEF DS!Init

\* Every step of the disk is a step of the store or leaves it alone.
LEMMA RefinesStep ==
  ASSUME WithinLimits
  PROVE  DiskInv /\ DiskInv' /\ [Next]_vars => [DS!Next]_(DS!vars)
<1> SUFFICES ASSUME DiskInv, DiskInv', [Next]_vars
             PROVE  [DS!Next]_(DS!vars)
  OBVIOUS
<1>0. /\ table \in [Saved -> FileEntry] /\ file_table \in [Slot -> FileEntry]
      /\ table' \in [Saved -> FileEntry] /\ Saved \in SUBSET Slot
  BY SlotFacts DEF DiskInv
<1>1. ASSUME data' = data
      PROVE  \A n \in Names : Shown(table, n)' = Shown(table', n)
  BY <1>1 DEF Shown, Sector
<1>a. /\ DS!vars = <<Store, AbsReq>>
      /\ Blank => /\ Store = [n \in Names |-> IF Holding(table, n) = {} THEN Absent
                                              ELSE Some]
                  /\ AbsReq = IF req = None THEN None
                              ELSE [name |-> req.name, value |-> Some]
      /\ Blank' => /\ Store' = [n \in Names |-> IF Holding(table', n) = {}
                                                THEN Absent ELSE Some]
                   /\ AbsReq' = IF req' = None THEN None
                                ELSE [name |-> req'.name, value |-> Some]
  <2>2. DS!vars = <<Store, AbsReq>>
    BY DEF Store, AbsReq, DS!vars
  <2>3. ASSUME Blank
        PROVE  /\ Store = [n \in Names |-> IF Holding(table, n) = {} THEN Absent
                                           ELSE Some]
               /\ AbsReq = IF req = None THEN None
                           ELSE [name |-> req.name, value |-> Some]
    BY <2>3 DEF Store, AbsReq, Kept, Some
  <2>4. ASSUME Blank'
        PROVE  /\ Store' = [n \in Names |-> IF Holding(table', n) = {}
                                            THEN Absent ELSE Some]
               /\ AbsReq' = IF req' = None THEN None
                            ELSE [name |-> req'.name, value |-> Some]
    BY <2>4 DEF Store, AbsReq, Kept, Some, Holding
  <2> QED BY <2>2, <2>3, <2>4
<1>2. /\ ~Blank => /\ Store = [n \in Names |-> Shown(table, n)]
                   /\ AbsReq = IF req = None THEN None
                               ELSE [name |-> req.name, value |-> req.value]
      /\ ~Blank' => /\ Store' = [n \in Names |-> Shown(table, n)']
                    /\ AbsReq' = IF req' = None THEN None
                                 ELSE [name |-> req'.name, value |-> req'.value]
  BY DEF Store, AbsReq, Kept, Shown
<1>3. ASSUME Store' = Store, AbsReq' = AbsReq PROVE UNCHANGED DS!vars
  BY <1>3 DEF DS!vars, Store, AbsReq
<1>b. ASSUME table' = table, data' = data
      PROVE  Store' = Store /\ (Blank' <=> Blank)
  BY <1>b DEF Store, Kept, Blank, Shown, Sector, Holding
<1>c. Sane(table) /\ ~Blank => Formatted(table)
  BY DEF Sane, Placed, Blank
<1>d. ASSUME \A i \in Saved : table'[i].sector = table[i].sector
      PROVE  (Blank' <=> Blank) /\ (Formatted(table) => Formatted(table'))
  BY <1>d DEF Blank, Formatted
<1>4. \A r \in [name : Names, value : Contents, slot : Saved] :
        /\ r # None /\ [name |-> r.name, value |-> r.value] # None
        /\ r.name \in Names /\ r.value \in Contents /\ r.slot \in Saved
        /\ [name |-> r.name, value |-> r.value] \in [name : Names, value : Contents]
  <2>1. \A r \in [name : Names, value : Contents, slot : Saved] :
          r \in [name : Names, value : Contents, slot : Nat]
    BY SlotFacts
  <2> QED BY <2>1, SfsAssumption
<1>5. CASE Mount
  <2>1. table' = table /\ data' = data /\ req' = req
    BY <1>5 DEF Mount
  <2> QED BY <1>3, <1>b, <2>1 DEF AbsReq, Kept
<1>6. CASE MountFormat
  <2>1. /\ data' = data /\ req' = req /\ pc = "off" /\ IsGarbage(table[0])
        /\ table' = [i \in Saved |-> file_table'[i]]
        /\ file_table' = [i \in Slot |-> FormatEntry(i)]
    BY <1>6 DEF MountFormat, SavedPart
  <2>2. table = GarbageTable
    BY <2>1, GarbageOrSane DEF DiskInv
  <2>3. \A i \in Saved : table[i].flags # 1
    BY <2>2 DEF GarbageTable, Entry
  <2>4. \A i \in Saved : table'[i].flags # 1
    BY <1>0, <2>1 DEF FormatEntry, Entry
  <2>5. \A n \in Names : Holding(table, n) = {} /\ Holding(table', n) = {}
    BY <1>0, <2>3, <2>4 DEF Holding
  <2>6. Store' = Store
    BY <2>5 DEF Store, Holding
  <2>7. req = None
    BY <2>1 DEF DiskInv
  <2> QED BY <1>3, <2>1, <2>6, <2>7 DEF AbsReq
<1>7. ASSUME NEW n \in Names, NEW c \in Contents, WriteBegin(n, c)
      PROVE  DS!Begin
  <2>1. /\ table' = table /\ data' = data /\ pc = "idle" /\ pc' = "data"
        /\ req'.name = n /\ req'.value = c
    BY <1>7 DEF WriteBegin
  <2>2. req = None /\ req' \in [name : Names, value : Contents, slot : Saved]
    BY <2>1 DEF DiskInv
  <2>3. AbsReq = None /\ AbsReq' \in [name : Names, value : Contents]
    <3>1. AbsReq = None
      BY <2>2 DEF AbsReq
    <3>2. Some \in Contents
      BY <1>7 DEF Some
    <3>3. CASE Blank'
      BY <1>4, <1>a, <2>2, <3>1, <3>2, <3>3
    <3>4. CASE ~Blank'
      BY <1>2, <1>4, <2>2, <3>1, <3>4
    <3> QED BY <3>3, <3>4
  <2>4. Store' = Store
    BY <1>b, <2>1
  <2> QED BY <2>3, <2>4 DEF DS!Begin, Store, AbsReq
<1>8. CASE WriteData
  <2> DEFINE k == req.slot
             s == file_table[k].sector
  <2>1. /\ pc = "data" /\ req' = req
        /\ req \in [name : Names, value : Contents, slot : Saved]
        /\ table[k].flags = 1 => table[k].name = req.name
        /\ file_table[k].name = req.name
        /\ \A i \in Saved \ {k} : table[i] = file_table[i]
        /\ Sane(file_table) /\ Sane(table) /\ file_table[k].flags = 1
    BY <1>8 DEF WriteData, DiskInv
  <2>a. /\ k \in Saved /\ s # TableSector
    BY <2>1, SlotFacts, SfsAssumption DEF Sane, Placed, Formatted, TableSector
  <2>3. /\ table' = table
        /\ data' = [q \in DOMAIN data \cup {s} |->
                          IF q = s THEN req.value ELSE data[q]]
    BY <1>8, <2>a DEF WriteData
  <2>b. (Blank' <=> Blank) /\ AbsReq' = AbsReq
    BY <2>1, <2>3 DEF Blank, AbsReq, Kept
  <2>c. CASE Blank
    <3>1. Store' = Store
      BY <1>a, <2>3, <2>b, <2>c
    <3> QED BY <1>3, <2>b, <3>1
  <2> SUFFICES ASSUME ~Blank PROVE [DS!Next]_(DS!vars)
    BY <2>c
  <2>2. /\ k \in Saved /\ s = FirstData + k /\ Formatted(table)
    <3>1. Formatted(table)
      BY <1>c, <2>1
    <3>2. table[k].sector = file_table[k].sector
      BY <1>8 DEF WriteData, DiskInv
    <3> QED BY <2>a, <3>1, <3>2 DEF Formatted
  <2>4. \A q : Sector(q)' = IF q = s THEN req.value ELSE Sector(q)
    BY <2>3 DEF Sector
  <2> HIDE DEF s
  <2>5. \A n \in Names : Shown(table, n)' =
          IF table[k].flags = 1 /\ n = req.name THEN req.value ELSE Shown(table, n)
    <3> SUFFICES ASSUME NEW n \in Names
                 PROVE  Shown(table, n)' =
                          IF table[k].flags = 1 /\ n = req.name THEN req.value
                          ELSE Shown(table, n)
      OBVIOUS
    <3>1. Shown(table, n)' =
            IF Holding(table', n) = {} THEN Absent
            ELSE LET q == table'[FirstOf(Holding(table', n))].sector
                 IN  IF q \in DOMAIN data' THEN data'[q] ELSE Boot
      BY DEF Shown, Sector
    <3>2. CASE Holding(table, n) = {}
      <4>1. \A i \in Saved : ~(table[i].flags = 1 /\ table[i].name = n)
        BY <1>0, <2>1, <2>2, <3>2, HoldingCases
      <4> QED BY <2>1, <2>2, <2>3, <3>1, <3>2, <4>1 DEF Shown
    <3>3. ASSUME NEW i \in Saved, table[i].flags = 1, table[i].name = n,
                 table[i].sector = FirstData + i,
                 Holding(table, n) = {i}, FirstOf(Holding(table, n)) = i
          PROVE  Shown(table, n)' =
                          IF table[k].flags = 1 /\ n = req.name THEN req.value
                          ELSE Shown(table, n)
      <4>1. Shown(table, n)' = Sector(FirstData + i)'
            /\ Shown(table, n) = Sector(FirstData + i)
        <5>1. Sector(FirstData + i)' =
                IF FirstData + i \in DOMAIN data' THEN data'[FirstData + i]
                ELSE Boot
          BY DEF Sector
        <5> QED BY <2>3, <3>1, <3>3, <5>1 DEF Shown
      <4>2. CASE i = k
        BY <2>1, <2>2, <2>4, <3>3, <4>1, <4>2
      <4>3. CASE i # k
        <5>1. ~(table[k].flags = 1 /\ n = req.name)
          BY <2>1, <2>2, <3>3, <4>3 DEF Sane
        <5>2. FirstData + i # s
          BY <2>2, <4>3, SlotFacts, SfsAssumption
        <5> QED BY <2>4, <4>1, <5>1, <5>2
      <4> QED BY <4>2, <4>3
    <3> QED BY <1>0, <2>1, <2>2, <3>2, <3>3, HoldingCases
  <2>6. AbsReq' = AbsReq /\ AbsReq # None
        /\ AbsReq.name = req.name /\ AbsReq.value = req.value
    BY <1>2, <1>4, <2>1, <2>b
  <2>7. CASE table[k].flags = 1
    <3>1. Store' = [Store EXCEPT ![AbsReq.name] = AbsReq.value]
      BY <1>2, <2>5, <2>6, <2>7, <2>b
    <3>2. DS!Commit
      BY <2>6, <3>1 DEF DS!Commit, Store, AbsReq
    <3> QED BY <3>2 DEF DS!Next
  <2>8. CASE table[k].flags # 1
    <3>1. Store' = Store
      BY <1>2, <2>5, <2>8, <2>b
    <3> QED BY <1>3, <2>6, <3>1
  <2> QED BY <2>7, <2>8
<1>9. CASE WriteTable
  <2> DEFINE k == req.slot
  <2>1. /\ pc = "table" /\ data' = data /\ req' = None
        /\ table' = [i \in Saved |-> file_table[i]]
        /\ req \in [name : Names, value : Contents, slot : Saved]
        /\ table[k].flags = 1 => table[k].name = req.name
        /\ file_table[k].name = req.name /\ file_table[k].flags = 1
        /\ \A i \in Saved \ {k} : table[i] = file_table[i]
        /\ Sane(table) /\ Sector(file_table[k].sector) = req.value
        /\ table[k].sector = file_table[k].sector
        /\ pc' = "idle"
    BY <1>9 DEF WriteTable, SavedPart, DiskInv
  <2>2. Sane(table') /\ k \in Saved
    BY <2>1 DEF DiskInv
  <2>3. table'[k].flags = 1 /\ table'[k].name = req.name
        /\ \A i \in Saved \ {k} : table'[i] = table[i]
    BY <1>0, <2>1, <2>2
  <2>4. Shown(table', req.name) = req.value
    <3>1. FirstOf(Holding(table', req.name)) = k /\ Holding(table', req.name) # {}
      <4>1. /\ Holding(table', table'[k].name) = {k}
            /\ FirstOf(Holding(table', table'[k].name)) = k
        BY <1>0, <2>2, <2>3, HoldingOne
      <4> QED BY <2>3, <4>1
    <3>2. table'[k].sector = file_table[k].sector
      BY <1>0, <2>1, <2>2
    <3> QED BY <2>1, <3>1, <3>2 DEF Shown
  <2>a. \A i \in Saved : table'[i].sector = table[i].sector
    BY <1>0, <2>1, <2>2, <2>3
  <2>b. \A n \in Names, i \in Saved : n # req.name =>
          ((table'[i].flags = 1 /\ table'[i].name = n)
             <=> (table[i].flags = 1 /\ table[i].name = n))
    BY <2>1, <2>2, <2>3
  <2>6. /\ AbsReq' = None /\ AbsReq # None /\ req.name \in Names
        /\ AbsReq.name = req.name
        /\ AbsReq.value = IF Blank THEN Some ELSE req.value
    <3>1. AbsReq' = None
      BY <2>1 DEF AbsReq
    <3>2. req # None /\ req.name \in Names
      BY <1>4, <2>1
    <3>3. \A c \in Contents : [name |-> req.name, value |-> c] # None
      BY <3>2, SfsAssumption
    <3>4. req.value \in Contents /\ Some \in Contents
      BY <1>4, <2>1 DEF Some
    <3>5. CASE Blank
      BY <1>a, <3>1, <3>2, <3>3, <3>4, <3>5
    <3>6. CASE ~Blank
      BY <1>2, <3>1, <3>2, <3>3, <3>4, <3>6
    <3> QED BY <3>5, <3>6
  <2>7. Store' = [Store EXCEPT ![AbsReq.name] = AbsReq.value]
    <3>1. CASE ~Blank
      <4>1. Formatted(table) /\ Formatted(table') /\ ~Blank'
        BY <1>c, <1>d, <2>1, <2>a, <3>1
      <4>2. ASSUME NEW n \in Names, n # req.name
            PROVE  Shown(table', n) = Shown(table, n)
        <5>1. \A i \in Saved : (table'[i].flags = 1 /\ table'[i].name = n)
                                 <=> (table[i].flags = 1 /\ table[i].name = n)
          BY <2>b, <4>2
        <5> QED BY <1>0, <2>1, <2>2, <4>1, <5>1, ShownSame
      <4> QED BY <1>1, <1>2, <2>1, <2>4, <2>6, <3>1, <4>1, <4>2
    <3>2. CASE Blank
      <4>1. Blank'
        BY <1>d, <2>a, <3>2
      <4>2. \A n \in Names : n # req.name =>
              (Holding(table', n) = {} <=> Holding(table, n) = {})
        BY <1>0, <2>b DEF Holding
      <4>3. k \in Holding(table', req.name)
        BY <1>0, <2>2, <2>3 DEF Holding
      <4> QED BY <1>a, <2>6, <3>2, <4>1, <4>2, <4>3
    <3> QED BY <3>1, <3>2
  <2>8. DS!Acknowledge
    BY <2>6, <2>7 DEF DS!Acknowledge, Store, AbsReq
  <2> QED BY <2>8 DEF DS!Next
<1>10. ASSUME NEW n \in Names, DeleteFile(n) PROVE DS!Delete
  <2> DEFINE k == FirstOf(Holding(file_table, n))
  <2>1. /\ pc = "idle" /\ pc' = "idle" /\ req' = req /\ data' = data
        /\ Holding(file_table, n) # {}
        /\ file_table' = [file_table EXCEPT ![k] =
                            Entry(n, file_table[k].sector, 0)]
        /\ table' = [i \in Saved |-> file_table'[i]]
    BY <1>10 DEF DeleteFile, SavedPart
  <2>2. /\ Sane(file_table) /\ Sane(table) /\ Sane(table') /\ req = None
        /\ \A i \in Slot \ Saved : file_table[i].name = NoName
        /\ \A i \in Saved : table[i] = file_table[i]
    BY <2>1 DEF DiskInv
  <2>3. Holding(file_table, n)
          = {i \in Saved : file_table[i].flags = 1 /\ file_table[i].name = n}
    BY <1>0, <2>2, CacheHolding
  <2>4. k \in Holding(file_table, n)
    BY <2>1, <2>3, SlotFacts, FirstOfIsFirst
  <2> HIDE DEF k
  <2>5. k \in Saved /\ file_table[k].flags = 1 /\ file_table[k].name = n
    BY <2>3, <2>4
  <2>6. table'[k].flags = 0 /\ \A i \in Saved \ {k} : table'[i] = table[i]
    BY <1>0, <2>1, <2>2, <2>5 DEF Entry
  <2>a. \A i \in Saved : table'[i].sector = table[i].sector
    BY <1>0, <2>1, <2>2, <2>5, <2>6 DEF Entry
  <2>7. Holding(table', n) = {}
    <3>1. \A i \in Saved : ~(table'[i].flags = 1 /\ table'[i].name = n)
      BY <2>2, <2>5, <2>6 DEF Sane
    <3> QED BY <1>0, <3>1 DEF Holding
  <2>8. \A m \in Names, i \in Saved : m # n =>
          ((table'[i].flags = 1 /\ table'[i].name = m)
             <=> (table[i].flags = 1 /\ table[i].name = m))
    BY <2>2, <2>5, <2>6
  <2>9. Store' = [Store EXCEPT ![n] = Absent]
    <3>1. CASE ~Blank
      <4>1. Formatted(table) /\ Formatted(table') /\ ~Blank'
        BY <1>c, <1>d, <2>2, <2>a, <3>1
      <4>2. ASSUME NEW m \in Names, m # n
            PROVE  Shown(table', m) = Shown(table, m)
        <5>1. \A i \in Saved : (table'[i].flags = 1 /\ table'[i].name = m)
                                 <=> (table[i].flags = 1 /\ table[i].name = m)
          BY <2>8, <4>2
        <5> QED BY <1>0, <2>2, <4>1, <5>1, ShownSame
      <4>3. Shown(table', n) = Absent
        BY <2>7 DEF Shown
      <4> QED BY <1>1, <1>2, <2>1, <3>1, <4>1, <4>2, <4>3
    <3>2. CASE Blank
      <4>1. Blank'
        BY <1>d, <2>a, <3>2
      <4>2. \A m \in Names : m # n =>
              (Holding(table', m) = {} <=> Holding(table, m) = {})
        BY <1>0, <2>8 DEF Holding
      <4> QED BY <1>a, <2>7, <3>2, <4>1, <4>2
    <3> QED BY <3>1, <3>2
  <2>10. AbsReq = None /\ AbsReq' = AbsReq
    BY <2>1, <2>2 DEF AbsReq
  <2> QED BY <2>9, <2>10 DEF DS!Delete, Store, AbsReq
<1>11. CASE PowerCut
  <2>1. table' = table /\ data' = data /\ req' = None
    BY <1>11 DEF PowerCut
  <2>2. AbsReq' = None /\ Store' = Store
    BY <1>b, <2>1 DEF AbsReq
  <2>3. DS!PowerCut
    BY <2>2 DEF DS!PowerCut, Store, AbsReq
  <2> QED BY <2>3 DEF DS!Next
<1>12. CASE UNCHANGED vars
  <2>1. table' = table /\ data' = data /\ req' = req
    BY <1>12 DEF vars
  <2> QED BY <1>3, <1>b, <2>1 DEF AbsReq, Kept
<1> QED BY <1>5, <1>6, <1>7, <1>8, <1>9, <1>10, <1>11, <1>12 DEF Next, DS!Next

\* The disk implements a durable store whenever the power fails
\* (sfs.cpp:57-130): a save takes effect at its data write if the file
\* existed and at its table write if it is new.  On a blank disk
\* (sfs.cpp:31) this is said of which files there are, not of what they hold.
THEOREM DurableStoreRefinement ==
  ASSUME WithinLimits PROVE Spec => ImplementsDurableStore
<1>1. Init => DS!Init
  BY RefinesInit
<1>2. DiskInv /\ DiskInv' /\ [Next]_vars => [DS!Next]_(DS!vars)
  BY RefinesStep
<1>3. Spec => []DiskInv
  BY DiskInvHolds
<1> QED BY <1>1, <1>2, <1>3, PTL DEF Spec, ImplementsDurableStore, DS!Spec

=============================================================================
