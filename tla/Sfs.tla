--------------------------------- MODULE Sfs --------------------------------
(***************************************************************************)
(* The simple file system (src/src/core/fs/sfs.cpp): a table of Slots file *)
(* entries cached in memory and saved in sector 1, one data sector per     *)
(* file.  A save is two sector writes, data first, then the table; the     *)
(* power may fail between any two of them.  Only the first Persist entries *)
(* of the table fit in the 512 bytes of sector 1; on a mount the others    *)
(* are copied from beyond the end of the sector buffer, so they hold       *)
(* whatever the stack held.                                                *)
(***************************************************************************)
EXTENDS Integers, FiniteSets

CONSTANTS
  Slots,        \* 16
  Persist,      \* 512 / sizeof(FileEntry) = 11
  Names,        \* file names, at most 31 characters
  NoName,       \* the empty name, or one that is no file's name
  Contents,     \* contents of at most 32 characters
  Boot,         \* what a sector holds before anything is written to it
  FirstData,    \* 10
  MaxSector,    \* 100000
  StackSectors, \* sector numbers the stack may hold
  StackFlags,   \* flag values the stack may hold
  Absent, None

TableSector == 1

ASSUME SfsAssumption ==
  /\ Slots \in Nat /\ Persist \in 1..Slots
  /\ FirstData \in Nat /\ FirstData > TableSector
  /\ MaxSector \in Nat /\ FirstData + Slots <= MaxSector
  /\ StackSectors \subseteq Nat /\ StackFlags \subseteq Nat
  /\ NoName \notin Names /\ Absent \notin Contents /\ None \notin Contents
  /\ None \notin [name : Names, value : Contents]
  /\ None \notin [name : Names, value : Contents, slot : Nat]

Slot == 0..(Slots - 1)
Saved == 0..(Persist - 1)

Entry(n, s, f) == [name |-> n, sector |-> s, flags |-> f]

VARIABLES
  file_table,   \* the cache, while mounted
  table,        \* sector 1: the first Persist entries
  data,         \* the sectors written so far
  pc,           \* "off", "idle", or the next sector write: "data", "table"
  req           \* the write under way: [name, value, slot], or None

vars == <<file_table, table, data, pc, req>>

\* The bytes of an unused disk, such as the one the Makefile builds, and of a
\* random one, as a table.
ZeroTable == [i \in Saved |-> Entry(NoName, 0, 0)]
GarbageTable == [i \in Saved |-> Entry(NoName, MaxSector + 1, 2)]

Init ==
  /\ table \in {ZeroTable, GarbageTable}
  /\ data = [s \in {} |-> Boot]
  /\ file_table = [i \in Slot |-> Entry(NoName, 0, 0)]
  /\ pc = "off"
  /\ req = None

\* The content of a sector.
Sector(s) == IF s \in DOMAIN data THEN data[s] ELSE Boot

\* "Simple Check: is it garbage?", of the first entry only.
IsGarbage(e) == e.flags > 1 \/ e.sector > MaxSector

\* Mutant of FormatEntry: every entry gets the first data sector.
FormatEntryShared(i) == Entry(NoName, FirstData, 0)

\* Format's entry i, with its pre-assigned sector.
FormatEntry(i) == Entry(NoName, FirstData + i, 0)

FirstOf(S) == CHOOSE i \in S : \A j \in S : i <= j

Holding(t, n) == {i \in DOMAIN t : t[i].flags = 1 /\ t[i].name = n}

FreeSlots == {i \in Slot : file_table[i].flags = 0}

\* The part of the cache that Write28(1, file_table) saves.
SavedPart(t) == [i \in Saved |-> t[i]]

\* SimpleFileSystem::Init on a table that looks sane.  The entries that are
\* not in the sector come from the stack; an entry's name there is no file's.
Mount ==
  /\ pc = "off"
  /\ ~IsGarbage(table[0])
  /\ \E flags \in [Slot \ Saved -> StackFlags],
        secs \in [Slot \ Saved -> StackSectors] :
       file_table' = [i \in Slot |-> IF i \in Saved THEN table[i]
                                     ELSE Entry(NoName, secs[i], flags[i])]
  /\ pc' = "idle"
  /\ UNCHANGED <<table, data, req>>

\* SimpleFileSystem::Init on garbage: Format (called from nowhere else), then
\* the table is saved.
MountFormat ==
  /\ pc = "off"
  /\ IsGarbage(table[0])
  /\ file_table' = [i \in Slot |-> FormatEntry(i)]
  /\ table' = SavedPart(file_table')
  /\ pc' = "idle"
  /\ UNCHANGED <<data, req>>

\* The slot WriteFile uses: the file's own, else the first free one.
WriteSlots(n) == IF Holding(file_table, n) # {} THEN Holding(file_table, n)
                 ELSE FreeSlots

\* WriteFile up to its first sector write.
WriteBegin(n, c) ==
  /\ pc = "idle"
  /\ WriteSlots(n) # {}
  /\ LET slot == FirstOf(WriteSlots(n))
     IN  /\ file_table' = [file_table EXCEPT ![slot] =
                             Entry(n, file_table[slot].sector, 1)]
         /\ req' = [name |-> n, value |-> c, slot |-> slot]
  /\ pc' = "data"
  /\ UNCHANGED <<table, data>>

\* Write28(sector, buffer).  A short text in sector 1 reads back as free
\* entries with sector 0.
WriteData ==
  /\ pc = "data"
  /\ LET s == file_table[req.slot].sector
     IN  IF s = TableSector
         THEN table' = ZeroTable /\ UNCHANGED data
         ELSE /\ data' = [q \in DOMAIN data \cup {s} |->
                            IF q = s THEN req.value ELSE data[q]]
              /\ UNCHANGED table
  /\ pc' = "table"
  /\ UNCHANGED <<file_table, req>>

\* Mutant of WriteTable: "Saved." without saving the table.
WriteTableSkipped ==
  /\ pc = "table"
  /\ pc' = "idle"
  /\ req' = None
  /\ UNCHANGED <<table, file_table, data>>

\* Write28(1, file_table), then "Saved.".
WriteTable ==
  /\ pc = "table"
  /\ table' = SavedPart(file_table)
  /\ pc' = "idle"
  /\ req' = None
  /\ UNCHANGED <<file_table, data>>

\* DeleteFile: the first entry of that name, and one sector write.
DeleteFile(n) ==
  /\ pc = "idle"
  /\ Holding(file_table, n) # {}
  /\ LET slot == FirstOf(Holding(file_table, n))
     IN  file_table' = [file_table EXCEPT ![slot] =
                          Entry(n, file_table[slot].sector, 0)]
  /\ table' = SavedPart(file_table')
  /\ UNCHANGED <<data, pc, req>>

\* The power fails: the cache is gone.
PowerCut ==
  /\ pc # "off"
  /\ pc' = "off"
  /\ req' = None
  /\ file_table' = [i \in Slot |-> Entry(NoName, 0, 0)]
  /\ UNCHANGED <<table, data>>

Next ==
  \/ Mount
  \/ MountFormat
  \/ \E n \in Names, c \in Contents : WriteBegin(n, c)
  \/ WriteData
  \/ WriteTable
  \/ \E n \in Names : DeleteFile(n)
  \/ PowerCut

Spec == Init /\ [][Next]_vars

-----------------------------------------------------------------------------
\* What ReadFile would deliver for n from the table t.
Shown(t, n) ==
  IF Holding(t, n) = {} THEN Absent
  ELSE Sector(t[FirstOf(Holding(t, n))].sector)

\* Between calls the cache and the disk tell the same story: a file the
\* running system shows is the file the next mount will show (sfs.cpp:57-130),
\* on a disk that Init formatted and on a blank one.
CacheCoherent ==
  pc = "idle" => \A n \in Names : Shown(file_table, n) = Shown(table, n)

\* Init took a blank disk for a formatted one: no entry has a sector of its
\* own, all files lie in sector 0.
Blank == \A i \in Saved : table[i].sector = 0

\* What a file holds, as far as it has a content of its own.
Kept(c) == IF Blank THEN CHOOSE d \in Contents : TRUE ELSE c

\* The disk implements a durable store, whenever the power fails: a file a
\* save was overwriting shows its old or its new content, never another's
\* (sfs.cpp:43-130).  On a blank disk (sfs.cpp:31) this is said of which files
\* there are and not of their contents, which they share.
DS == INSTANCE DurableStore WITH
  store <- [n \in Names |-> IF Holding(table, n) = {} THEN Absent
                            ELSE Kept(Shown(table, n))],
  req <- IF req = None THEN None
         ELSE [name |-> req.name, value |-> Kept(req.value)]

ImplementsDurableStore == DS!Spec

=============================================================================
