----------------------------- MODULE Ext4Proofs -----------------------------
(***************************************************************************)
(* Proofs about the file layer, for any names, contents, disk and sizes:   *)
(* the list's invariant, and that the commands implement FileStore.        *)
(***************************************************************************)
EXTENDS Ext4, TLAPS

\* No node is a directory: DirExists answers yes before mkdir could add one.
NoDirs(v) == \A i \in DOMAIN v : ~v[i].is_dir

\* The inductive invariant: FilesInv, and that the searches of ReadFile,
\* which passes over directories, and of Rm, which does not, agree.
ListInv == FilesInv /\ NoDirs(vfs)

\* A list as the commands build it.
ListOK(v) == v \in Seq(File) /\ NoDirs(v) /\ Unique(v) /\ OffDisk(v)

-----------------------------------------------------------------------------
(* The operators on lists.                                                 *)

\* In a list without duplicates the search finds the one node there is.
LEMMA FirstIsIt ==
  ASSUME NEW v, ListOK(v), NEW n, NEW k \in DOMAIN v, v[k].name = n
  PROVE  /\ FilesAt(v, n) = {k} /\ NodesAt(v, n) = {k}
         /\ FirstOf({k}) = k
<1>1. k \in Nat /\ \A i \in DOMAIN v : v[i].name = n => i = k
  BY DEF ListOK, Unique
<1>2. FilesAt(v, n) = {k} /\ NodesAt(v, n) = {k}
  BY <1>1 DEF FilesAt, NodesAt, ListOK, NoDirs
<1>3. k <= k
  BY <1>1
<1>4. FirstOf({k}) = k
  BY <1>3 DEF FirstOf
<1> QED BY <1>2, <1>4

\* Without directories both searches agree.
LEMMA FilesAreNodes ==
  ASSUME NEW v, ListOK(v), NEW n PROVE FilesAt(v, n) = NodesAt(v, n)
  BY DEF ListOK, NoDirs, FilesAt, NodesAt

\* A new node in front keeps the list in order if its name is new.
LEMMA PrependOK ==
  ASSUME NEW v, ListOK(v), NEW n \in Names, ~InList(v, n)
  PROVE  LET t == <<NewFile(n, FALSE)>> \o v
         IN  /\ ListOK(t)
             /\ Len(t) = Len(v) + 1
             /\ t[1] = NewFile(n, FALSE)
             /\ \A i \in 2..Len(t) : t[i] = v[i - 1] /\ i - 1 \in DOMAIN v
<1> DEFINE f == NewFile(n, FALSE)
           t == <<f>> \o v
<1>0. v \in Seq(File) /\ f \in File
  BY Ext4Assumption DEF ListOK, NewFile, File
<1>1. f.name = n /\ ~f.is_dir
  BY DEF NewFile
<1> HIDE DEF f
<1>2. /\ t \in Seq(File) /\ Len(t) = Len(v) + 1 /\ t[1] = f
      /\ Len(v) \in Nat /\ DOMAIN t = 1..Len(t) /\ DOMAIN v = 1..Len(v)
      /\ \A i \in 2..Len(t) : t[i] = v[i - 1] /\ i - 1 \in DOMAIN v
  BY <1>0
<1> HIDE DEF t
<1>3. n \notin DiskEntries /\ \A i \in DOMAIN v : v[i].name # n
  BY DEF InList, NodesAt
<1>4. \A i \in DOMAIN t : i = 1 \/ i \in 2..Len(t)
  BY <1>2
<1>5. NoDirs(t)
  BY <1>1, <1>2, <1>4 DEF NoDirs, ListOK
<1>6. OffDisk(t)
  BY <1>1, <1>2, <1>3, <1>4 DEF OffDisk, ListOK
<1>7. Unique(t)
  <2> SUFFICES ASSUME NEW i \in DOMAIN t, NEW j \in DOMAIN t,
                      t[i].name = t[j].name
               PROVE  i = j
    BY DEF Unique
  <2>1. CASE i = 1 /\ j = 1
    BY <2>1
  <2>2. CASE i = 1 /\ j \in 2..Len(t)
    BY <1>1, <1>2, <1>3, <2>2
  <2>3. CASE j = 1 /\ i \in 2..Len(t)
    BY <1>1, <1>2, <1>3, <2>3
  <2>4. CASE i \in 2..Len(t) /\ j \in 2..Len(t)
    <3>1. i - 1 = j - 1
      BY <1>2, <2>4 DEF ListOK, Unique
    <3> QED BY <3>1, <2>4
  <2> QED BY <1>4, <2>1, <2>2, <2>3, <2>4
<1>8. ListOK(t)
  BY <1>2, <1>5, <1>6, <1>7 DEF ListOK
<1> QED BY <1>2, <1>8 DEF t, f

\* Touch keeps the list in order.
LEMMA TouchOK ==
  ASSUME NEW v, ListOK(v), NEW n \in Names
  PROVE  ListOK(TouchVfs(v, n))
  BY PrependOK DEF TouchVfs

\* When WriteFile returns, the name is in the list Touch leaves.
LEMMA WriteTarget ==
  ASSUME NEW v, ListOK(v), NEW n \in Names, WriteReturns(v, n)
  PROVE  LET t == IF FilesAt(v, n) # {} THEN v ELSE TouchVfs(v, n)
         IN  /\ ListOK(t)
             /\ \E k \in DOMAIN t : t[k].name = n
<1>1. CASE FilesAt(v, n) # {}
  BY <1>1 DEF FilesAt
<1>2. CASE FilesAt(v, n) = {}
  <2> DEFINE t == <<NewFile(n, FALSE)>> \o v
  <2>1. ~InList(v, n)
    BY <1>2 DEF WriteReturns
  <2>2. ListOK(t) /\ Len(t) = Len(v) + 1 /\ t[1] = NewFile(n, FALSE)
    BY <2>1, PrependOK
  <2>3. TouchVfs(v, n) = t
    BY <2>1 DEF TouchVfs
  <2> HIDE DEF t
  <2>4. 1 \in DOMAIN t
    <3>1. t \in Seq(File) /\ v \in Seq(File)
      BY <2>2 DEF ListOK
    <3> QED BY <3>1, <2>2
  <2>5. t[1].name = n
    BY <2>2 DEF NewFile
  <2> QED BY <1>2, <2>2, <2>3, <2>4, <2>5
<1> QED BY <1>1, <1>2

\* What WriteFile leaves: one node, of that name, with that content.
LEMMA WriteShape ==
  ASSUME NEW v, ListOK(v), NEW n \in Names, WriteReturns(v, n),
         NEW c \in Contents
  PROVE  LET t == IF FilesAt(v, n) # {} THEN v ELSE TouchVfs(v, n)
             w == WriteVfs(v, n, c)
         IN  /\ ListOK(t)
             /\ ListOK(w)
             /\ DOMAIN w = DOMAIN t
             /\ \A i \in DOMAIN t :
                  /\ w[i].name = t[i].name
                  /\ w[i].content = IF t[i].name = n THEN c ELSE t[i].content
             /\ \E k \in DOMAIN t : t[k].name = n
<1> DEFINE t == IF FilesAt(v, n) # {} THEN v ELSE TouchVfs(v, n)
           w == WriteVfs(v, n, c)
<1>1. ListOK(t) /\ \E k \in DOMAIN t : t[k].name = n
  BY WriteTarget
<1>1a. w = [t EXCEPT ![FirstOf(FilesAt(t, n))] = WithContent(@, c)]
  BY DEF WriteVfs
<1> HIDE DEF t
<1>2. PICK k \in DOMAIN t : t[k].name = n
  BY <1>1
<1>3. FirstOf(FilesAt(t, n)) = k
  BY <1>1, <1>2, FirstIsIt
<1>4. w = [t EXCEPT ![k] = WithContent(t[k], c)]
  BY <1>1a, <1>3
<1> HIDE DEF w
<1>5. t \in Seq(File) /\ DOMAIN t = 1..Len(t) /\ Len(t) \in Nat
  BY <1>1 DEF ListOK
<1> DEFINE g == WithContent(t[k], c)
<1>6. /\ g \in File /\ g.name = n /\ g.content = c
      /\ g.is_dir = t[k].is_dir
  <2>1. t[k] \in File
    BY <1>2, <1>5
  <2>2. t[k].name \in Names /\ t[k].is_dir \in BOOLEAN
    BY <2>1 DEF File
  <2>3. g \in File
    BY <2>2, Zenon DEF File, WithContent
  <2>4. g.name = n /\ g.content = c /\ g.is_dir = t[k].is_dir
    BY <1>2, Zenon DEF WithContent
  <2> QED BY <2>3, <2>4
<1> HIDE DEF g
<1>7. w \in Seq(File) /\ DOMAIN w = DOMAIN t /\ w[k] = g
  BY <1>2, <1>4, <1>5, <1>6 DEF g
<1>8. \A i \in DOMAIN t : i # k => w[i] = t[i]
  BY <1>2, <1>4, <1>5
<1>9. \A i \in DOMAIN t : t[i].name = n => i = k
  BY <1>1, <1>2 DEF ListOK, Unique
<1>10. \A i \in DOMAIN t :
         /\ w[i].name = t[i].name
         /\ w[i].content = IF t[i].name = n THEN c ELSE t[i].content
         /\ w[i].is_dir = t[i].is_dir
  BY <1>2, <1>6, <1>7, <1>8, <1>9
<1>11. ListOK(w)
  BY <1>1, <1>7, <1>10 DEF ListOK, NoDirs, Unique, OffDisk
<1> QED BY <1>1, <1>7, <1>10, <1>11 DEF t, w

\* Rm drops the node of that name and no other.
LEMMA RmShape ==
  ASSUME NEW v, ListOK(v), NEW n
  PROVE  /\ ListOK(RmVfs(v, n))
         /\ \A i \in DOMAIN RmVfs(v, n) :
              /\ RmVfs(v, n)[i].name # n
              /\ \E j \in DOMAIN v : RmVfs(v, n)[i] = v[j]
         /\ \A j \in DOMAIN v :
              v[j].name # n => \E i \in DOMAIN RmVfs(v, n) :
                                 RmVfs(v, n)[i] = v[j]
<1> DEFINE w == RmVfs(v, n)
<1>0. v \in Seq(File) /\ DOMAIN v = 1..Len(v) /\ Len(v) \in Nat
  BY DEF ListOK
<1>1. CASE NodesAt(v, n) = {}
  <2>1. w = v
    BY <1>1 DEF RmVfs
  <2>2. \A i \in DOMAIN v : v[i].name # n
    BY <1>1 DEF NodesAt
  <2> HIDE DEF w
  <2> QED BY <2>1, <2>2 DEF w
<1>2. CASE NodesAt(v, n) # {}
  <2>1. PICK k \in DOMAIN v : v[k].name = n
    BY <1>2 DEF NodesAt
  <2>2. FirstOf(NodesAt(v, n)) = k
    BY <2>1, FirstIsIt
  <2>3. w = Unlink(v, k)
    BY <1>2, <2>2 DEF RmVfs
  <2> HIDE DEF w
  <2>4. k \in 1..Len(v) /\ Len(v) - 1 \in Nat
    BY <1>0, <2>1
  <2>5. /\ DOMAIN w = 1..(Len(v) - 1)
        /\ \A i \in DOMAIN w : w[i] = IF i < k THEN v[i] ELSE v[i + 1]
    BY <2>3 DEF Unlink
  <2>6. \A i \in DOMAIN w : /\ i \in Nat /\ i \in DOMAIN v
                            /\ i + 1 \in DOMAIN v
    BY <1>0, <2>4, <2>5
  <2>7. \A i \in DOMAIN w : w[i] \in File
    BY <1>0, <2>5, <2>6
  <2>8. w \in Seq(File)
    BY <2>3, <2>4, <2>5, <2>7 DEF Unlink
  <2>9. \A i \in DOMAIN v : v[i].name = n => i = k
    BY <2>1 DEF ListOK, Unique
  <2>10. \A i \in DOMAIN w : /\ w[i].name # n
                             /\ \E j \in DOMAIN v : w[i] = v[j]
    <3> TAKE i \in DOMAIN w
    <3>1. CASE i < k
      BY <2>4, <2>5, <2>6, <2>9, <3>1
    <3>2. CASE ~(i < k)
      BY <2>4, <2>5, <2>6, <2>9, <3>2
    <3> QED BY <3>1, <3>2
  <2>11. \A j \in DOMAIN v :
           v[j].name # n => \E i \in DOMAIN w : w[i] = v[j]
    <3> SUFFICES ASSUME NEW j \in DOMAIN v, v[j].name # n
                 PROVE  \E i \in DOMAIN w : w[i] = v[j]
      OBVIOUS
    <3>0. j \in 1..Len(v) /\ j # k
      BY <1>0, <2>1
    <3>1. CASE j < k
      <4>1. j \in DOMAIN w /\ w[j] = v[j]
        BY <2>4, <2>5, <3>0, <3>1
      <4> QED BY <4>1
    <3>2. CASE j > k
      <4>1. j - 1 \in DOMAIN w /\ ~(j - 1 < k) /\ (j - 1) + 1 = j
        BY <2>4, <2>5, <3>0, <3>2
      <4>2. w[j - 1] = v[j]
        BY <2>5, <4>1
      <4> QED BY <4>1, <4>2
    <3> QED BY <2>4, <3>0, <3>1, <3>2
  <2>12. NoDirs(w) /\ OffDisk(w)
    BY <2>10 DEF ListOK, NoDirs, OffDisk
  <2>13. Unique(w)
    <3> SUFFICES ASSUME NEW i \in DOMAIN w, NEW j \in DOMAIN w,
                        w[i].name = w[j].name
                 PROVE  i = j
      BY DEF Unique
    <3> DEFINE p(m) == IF m < k THEN m ELSE m + 1
    <3>1. /\ w[i] = v[p(i)] /\ w[j] = v[p(j)]
          /\ p(i) \in DOMAIN v /\ p(j) \in DOMAIN v
      BY <2>5, <2>6
    <3>2. p(i) = p(j)
      BY <3>1 DEF ListOK, Unique
    <3> QED BY <2>4, <2>6, <3>2
  <2>14. ListOK(w)
    BY <2>8, <2>12, <2>13 DEF ListOK
  <2> QED BY <2>10, <2>11, <2>14 DEF w
<1> QED BY <1>1, <1>2

-----------------------------------------------------------------------------
(* The heap.                                                               *)

\* One more request leaves heap_curr inside the heap, or fails.
LEMMA BumpRange ==
  ASSUME NEW h \in 0..HeapEnd, NEW s \in Nat
  PROVE  Bump(h, s) \in 0..HeapEnd
<1>1. h % 4 \in 0..3 /\ h \in Nat /\ Word \in Nat \ {0}
  BY HeapAssumption, WordAssumption
<1>2. Align4(h) \in Nat
  <2>1. h + (4 - (h % 4)) \in Nat
    BY <1>1
  <2> QED BY <1>1, <2>1 DEF Align4
<1> DEFINE m == (Align4(h) + s) % Word
<1>3. m \in Nat
  BY <1>1, <1>2
<1> HIDE DEF m
<1>4. Bump(h, s) = NULL \/ (Bump(h, s) = m /\ m < HeapEnd)
  BY DEF Bump, KmallocCurr, Fits, m
<1> QED BY <1>3, <1>4, HeapAssumption, WordAssumption DEF NULL

\* So do all the requests of an operation.
LEMMA HeapRange ==
  ASSUME ListInv, NEW v \in Seq(File), NEW h \in 0..HeapEnd,
         NEW n \in Names, NEW c \in Contents
  PROVE  /\ RootHeap(h) \in 0..HeapEnd
         /\ ListHeap(h, v) \in 0..HeapEnd
         /\ ReadHeap(h, v, n) \in 0..HeapEnd
         /\ TouchHeap(h, v, n) \in 0..HeapEnd
         /\ MkDirHeap(h, v, n) \in 0..HeapEnd
         /\ WriteHeap(h, v, n, c) \in 0..HeapEnd
<1>0. block_size \in Nat /\ 2 * block_size \in Nat
  BY Ext4Assumption DEF ListInv, FilesInv, TypeOK
<1>1. \A x, y \in Nat : x * y \in Nat
  OBVIOUS
<1>2. \A g \in 0..HeapEnd : RootHeap(g) \in 0..HeapEnd
  BY <1>0, BumpRange DEF RootHeap
<1>3. \A g \in 0..HeapEnd : ListHeap(g, v) \in 0..HeapEnd
  <2>1. ListCount(v) \in Nat /\ EntrySize \in Nat
    BY Ext4Assumption DEF ListCount
  <2>2. EntrySize * ListCount(v) \in Nat
    BY <1>1, <2>1
  <2> QED BY <1>2, <2>2, BumpRange DEF ListHeap
<1>4. ReadHeap(h, v, n) \in 0..HeapEnd
  <2>1. CASE n \in DiskEntries
    <3>1. n \in DiskNames
      BY <2>1 DEF DiskEntries
    <3>2. DiskBlocks[n] * block_size \in Nat
      BY <1>0, <1>1, <3>1, Ext4Assumption
    <3> QED BY <1>2, <2>1, <3>2, BumpRange DEF ReadHeap
  <2>2. CASE n \notin DiskEntries
    BY <1>2, <2>2 DEF ReadHeap
  <2> QED BY <2>1, <2>2
<1>5. NodeSize \in Nat /\ ContentSize[c] \in Nat
  BY Ext4Assumption
<1>6. TouchHeap(h, v, n) \in 0..HeapEnd
  BY <1>3, <1>5, BumpRange DEF TouchHeap
<1>7. MkDirHeap(h, v, n) \in 0..HeapEnd
  BY <1>5, BumpRange DEF MkDirHeap
<1>8. WriteHeap(h, v, n, c) \in 0..HeapEnd
  BY <1>5, <1>6, BumpRange DEF WriteHeap
<1> QED BY <1>2, <1>3, <1>4, <1>6, <1>7, <1>8

-----------------------------------------------------------------------------
(* The invariant.                                                          *)

\* The invariant says that the list is in order.
LEMMA InvList == ListInv => ListOK(vfs)
  BY DEF ListInv, FilesInv, ListOK, TypeOK, NamesUnique, NoShadow

\* Reading delivers a content.
LEMMA ReadType ==
  ASSUME NEW v, ListOK(v), NEW n \in Names
  PROVE  ReadFile(v, n) \in Contents
<1>1. CASE FilesAt(v, n) # {}
  <2>1. PICK k \in DOMAIN v : v[k].name = n
    BY <1>1 DEF FilesAt
  <2>2. ReadFile(v, n) = v[k].content
    BY <1>1, <2>1, FirstIsIt DEF ReadFile
  <2>3. v[k] \in File
    BY <2>1 DEF ListOK
  <2> QED BY <2>2, <2>3 DEF File
<1>2. CASE FilesAt(v, n) = {}
  BY <1>2, Ext4Assumption DEF ReadFile, DiskEntries
<1> QED BY <1>1, <1>2

\* A command that ends, or runs out of memory, keeps the invariant.
LEMMA FinishInv ==
  ASSUME ListInv, NEW h \in 0..HeapEnd, NEW v, ListOK(v), NEW o,
         Finish(h, v, o), block_size' = block_size,
         editing' \in Names \cup {NoFile}, draft' \in Contents
  PROVE  ListInv'
<1>1. DiskEntries' = DiskEntries
  BY DEF DiskEntries
<1>2. ListOK(vfs)
  BY InvList
<1>3. CASE h # NULL
  <2>1. heap_curr' = h /\ vfs' = v /\ status' = status
    BY <1>3 DEF Finish
  <2>2. TypeOK'
    BY <2>1 DEF ListInv, FilesInv, TypeOK, ListOK
  <2> QED BY <1>1, <2>1, <2>2
          DEF ListInv, FilesInv, ListOK, NoDirs, Unique, OffDisk, NamesUnique, NoShadow
<1>4. CASE h = NULL
  <2>1. heap_curr' = heap_curr /\ vfs' = vfs /\ status' = "oom"
    BY <1>4 DEF Finish
  <2>2. TypeOK'
    BY <2>1 DEF ListInv, FilesInv, TypeOK
  <2> QED BY <1>1, <2>1, <2>2
          DEF ListInv, FilesInv, NoDirs, Unique, OffDisk, NamesUnique, NoShadow
<1> QED BY <1>3, <1>4

\* So does one that writes a file, whether or not WriteFile returns.
LEMMA WriteInv ==
  ASSUME ListInv, NEW h \in 0..HeapEnd, NEW n \in Names, NEW c \in Contents,
         NEW v, WriteReturns(vfs, n) => ListOK(v), NEW o,
         Write(h, n, c, v, o), block_size' = block_size,
         editing' \in Names \cup {NoFile}, draft' \in Contents
  PROVE  ListInv'
<1>1. CASE WriteReturns(vfs, n)
  <2>1. WriteHeap(h, vfs, n, c) \in 0..HeapEnd
    BY HeapRange DEF ListInv, FilesInv, TypeOK
  <2>2. Finish(WriteHeap(h, vfs, n, c), v, o)
    BY <1>1 DEF Write
  <2> QED BY <1>1, <2>1, <2>2, FinishInv
<1>2. CASE ~WriteReturns(vfs, n)
  <2>1. heap_curr' = heap_curr /\ vfs' = vfs /\ status' = "hung"
    BY <1>2 DEF Write, Hang
  <2>2. DiskEntries' = DiskEntries
    BY DEF DiskEntries
  <2>3. TypeOK'
    BY <2>1 DEF ListInv, FilesInv, TypeOK
  <2> QED BY <2>1, <2>2, <2>3
          DEF ListInv, FilesInv, NoDirs, Unique, OffDisk, NamesUnique, NoShadow
<1> QED BY <1>1, <1>2

\* Ext4::Init leaves an empty list.
LEMMA FilesInit == Init => ListInv
<1> SUFFICES ASSUME Init PROVE ListInv
  OBVIOUS
<1>1. heap_curr \in 0..HeapEnd
  <2>1. HeapStart \in 0..HeapEnd /\ HeapStart % 4 = 0 /\ HeapStart \in Nat
    BY HeapAssumption, WordAssumption
  <2>2. Align4(HeapStart) = HeapStart
    BY <2>1 DEF Align4
  <2>3. ASSUME block_size \in Nat
        PROVE  KmallocCurr(HeapStart, block_size) \in 0..HeapEnd
    <3> DEFINE m == (HeapStart + block_size) % Word
    <3>1. m \in Nat
      BY <2>1, <2>3, HeapAssumption, WordAssumption
    <3> HIDE DEF m
    <3>2. \/ KmallocCurr(HeapStart, block_size) = HeapStart
          \/ KmallocCurr(HeapStart, block_size) = m /\ m < HeapEnd
      BY <2>2 DEF KmallocCurr, Fits, m
    <3> QED BY <2>1, <3>1, <3>2, HeapAssumption, WordAssumption
  <2> QED BY <2>1, <2>3, Ext4Assumption DEF Init
<1>2. TypeOK
  BY <1>1, Ext4Assumption DEF Init, TypeOK
<1>3. DOMAIN vfs = {}
  BY DEF Init
<1> QED BY <1>2, <1>3
        DEF ListInv, FilesInv, NoDirs, NamesUnique, Unique, NoShadow, OffDisk

\* Every command and every editor key keeps the invariant.
LEMMA FilesStep == ListInv /\ [Next]_vars => ListInv'
<1> SUFFICES ASSUME ListInv, [Next]_vars PROVE ListInv'
  OBVIOUS
<1>a. ListOK(vfs) /\ vfs \in Seq(File)
  BY InvList DEF ListOK
<1>b. /\ heap_curr \in 0..HeapEnd
      /\ editing \in Names \cup {NoFile} /\ draft \in Contents
  BY DEF ListInv, FilesInv, TypeOK
<1>c. /\ LineHeap \in 0..HeapEnd
      /\ \A g \in 0..HeapEnd : /\ Bump(g, CpBuf) \in 0..HeapEnd
                               /\ Bump(g, EditBuf) \in 0..HeapEnd
  BY <1>b, BumpRange, Ext4Assumption DEF LineHeap
<1>d. ASSUME NEW n \in Names, NEW c \in Contents, WriteReturns(vfs, n)
      PROVE  ListOK(WriteVfs(vfs, n, c))
  BY <1>a, <1>d, WriteShape
<1>e. \A n \in Names : ReadFile(vfs, n) \in Contents
  BY <1>a, ReadType
<1>f. \A n \in Names : CopyHeap(n) \in 0..HeapEnd
  BY <1>a, <1>b, <1>c, HeapRange DEF CopyHeap
<1>1. CASE CmdLs
  <2>2. RootHeap(LineHeap) \in 0..HeapEnd
    <3>1. block_size \in Nat /\ 2 * block_size \in Nat
      BY Ext4Assumption DEF ListInv, FilesInv, TypeOK
    <3> QED BY <1>c, <3>1, BumpRange DEF RootHeap
  <2> QED BY <1>1, <1>a, <1>b, <2>2, FinishInv DEF CmdLs, Shell
<1>2. CASE Tab
  <2>1. ListHeap(heap_curr, vfs) \in 0..HeapEnd
    <3>1. block_size \in Nat /\ 2 * block_size \in Nat
      BY Ext4Assumption DEF ListInv, FilesInv, TypeOK
    <3>2. \A g \in 0..HeapEnd : RootHeap(g) \in 0..HeapEnd
      BY <3>1, BumpRange DEF RootHeap
    <3>3. ListCount(vfs) \in Nat /\ EntrySize \in Nat
      BY <1>a, Ext4Assumption DEF ListCount
    <3>4. \A x, y \in Nat : x * y \in Nat
      OBVIOUS
    <3>5. EntrySize * ListCount(vfs) \in Nat
      BY <3>3, <3>4
    <3> QED BY <1>b, <3>2, <3>5, BumpRange DEF ListHeap
  <2> QED BY <1>2, <1>a, <1>b, <2>1, FinishInv DEF Tab, Shell
<1>3. ASSUME NEW n \in Names, CmdCat(n) PROVE ListInv'
  <2>1. ReadHeap(LineHeap, vfs, n) \in 0..HeapEnd
    BY <1>a, <1>b, <1>c, HeapRange
  <2> QED BY <1>3, <1>a, <1>b, <2>1, FinishInv DEF CmdCat, Shell
<1>4. ASSUME NEW n \in Names, CmdMkdir(n) PROVE ListInv'
  <2>1. MkDirHeap(LineHeap, vfs, n) \in 0..HeapEnd
    BY <1>a, <1>b, <1>c, HeapRange
  <2>2. ListOK(MkDirVfs(vfs, n))
    BY <1>a DEF MkDirVfs, DirExists
  <2> QED BY <1>4, <1>b, <2>1, <2>2, FinishInv DEF CmdMkdir, Shell
<1>5. ASSUME NEW n \in Names, CmdRm(n) PROVE ListInv'
  <2>1. ListOK(RmVfs(vfs, n))
    BY <1>a, RmShape
  <2> QED BY <1>5, <1>b, <1>c, <2>1, FinishInv DEF CmdRm, Shell
<1>6. ASSUME NEW n \in Names, CmdTouch(n) PROVE ListInv'
  <2>1. TouchHeap(LineHeap, vfs, n) \in 0..HeapEnd
    BY <1>a, <1>b, <1>c, HeapRange
  <2>2. ListOK(TouchVfs(vfs, n))
    BY <1>a, TouchOK
  <2> QED BY <1>6, <1>b, <2>1, <2>2, FinishInv DEF CmdTouch, Shell
<1>7. ASSUME NEW n \in Names, CmdEdit(n) PROVE ListInv'
  <2> DEFINE h == ReadHeap(Bump(LineHeap, EditBuf), vfs, n)
  <2>1. h \in 0..HeapEnd
    BY <1>a, <1>b, <1>c, HeapRange
  <2>2. /\ Finish(h, vfs, Op("open", n, n, ReadFile(vfs, n)))
        /\ editing' \in Names \cup {NoFile}
        /\ draft' \in Contents
        /\ block_size' = block_size
    BY <1>7, <1>b, <1>e DEF CmdEdit
  <2> HIDE DEF h
  <2> QED BY <1>a, <2>1, <2>2, FinishInv
<1>8. ASSUME NEW s \in Names, NEW d \in Names, CmdCp(s, d) PROVE ListInv'
  <2>1. WriteReturns(vfs, d) => ListOK(WriteVfs(vfs, d, ReadFile(vfs, s)))
    BY <1>d, <1>e
  <2> QED BY <1>8, <1>b, <1>e, <1>f, <2>1, WriteInv DEF CmdCp, Shell
<1>9. ASSUME NEW s \in Names, NEW d \in Names, CmdMv(s, d) PROVE ListInv'
  <2>1. WriteReturns(vfs, d) =>
          ListOK(RmVfs(WriteVfs(vfs, d, ReadFile(vfs, s)), s))
    BY <1>d, <1>e, RmShape
  <2> QED BY <1>9, <1>b, <1>e, <1>f, <2>1, WriteInv DEF CmdMv, Shell
<1>10. ASSUME NEW c \in Contents, EditType(c) PROVE ListInv'
  <2>1. TypeOK' /\ vfs' = vfs /\ DiskEntries' = DiskEntries
    BY <1>10 DEF EditType, ListInv, FilesInv, TypeOK, DiskEntries
  <2> QED BY <2>1
          DEF ListInv, FilesInv, NoDirs, Unique, OffDisk, NamesUnique, NoShadow
<1>11. CASE EditSave
  <2>1. editing \in Names
    BY <1>11, <1>b DEF EditSave
  <2>2. WriteReturns(vfs, editing) => ListOK(WriteVfs(vfs, editing, draft))
    BY <1>b, <1>d, <2>1
  <2> QED BY <1>11, <1>b, <2>1, <2>2, WriteInv DEF EditSave
<1>12. CASE EditQuit
  <2>1. TypeOK' /\ vfs' = vfs /\ DiskEntries' = DiskEntries
    BY <1>12, Ext4Assumption DEF EditQuit, ListInv, FilesInv, TypeOK, DiskEntries
  <2> QED BY <2>1
          DEF ListInv, FilesInv, NoDirs, Unique, OffDisk, NamesUnique, NoShadow
<1>13. CASE UNCHANGED vars
  <2>1. TypeOK' /\ vfs' = vfs /\ DiskEntries' = DiskEntries
    BY <1>13 DEF vars, ListInv, FilesInv, TypeOK, DiskEntries
  <2> QED BY <2>1
          DEF ListInv, FilesInv, NoDirs, Unique, OffDisk, NamesUnique, NoShadow
<1> QED BY <1>1, <1>2, <1>3, <1>4, <1>5, <1>6, <1>7, <1>8, <1>9, <1>10,
           <1>11, <1>12, <1>13 DEF Next

\* The inductive invariant holds in every reachable state.
LEMMA ListInvariant == Spec => []ListInv
  BY FilesInit, FilesStep, PTL DEF Spec

\* No two virtual files ever have the same name, and none hides a file of the
\* disk (ext4.cpp:219-257).
THEOREM FilesInvariant == Spec => []FilesInv
<1>1. ListInv => FilesInv
  BY DEF ListInv
<1> QED BY <1>1, ListInvariant, PTL

-----------------------------------------------------------------------------
(* The refinement.                                                         *)

\* What a list in order shows for a name.
LEMMA ViewOf ==
  ASSUME NEW v, ListOK(v), NEW n \in Names
  PROVE  /\ \A k \in DOMAIN v : v[k].name = n => View(v)[n] = v[k].content
         /\ (\A k \in DOMAIN v : v[k].name # n) =>
              View(v)[n] = IF n \in DiskEntries THEN DiskContent[n]
                           ELSE Absent
         /\ ReadFile(v, n) = IF View(v)[n] = Absent THEN Empty ELSE View(v)[n]
<1>1. ASSUME NEW k \in DOMAIN v, v[k].name = n
      PROVE  ReadFile(v, n) = v[k].content /\ View(v)[n] = v[k].content
  <2>1. FilesAt(v, n) = {k} /\ FirstOf(FilesAt(v, n)) = k
    BY <1>1, FirstIsIt
  <2>2. ReadFile(v, n) = v[k].content
    BY <2>1 DEF ReadFile
  <2> QED BY <2>1, <2>2 DEF View
<1>2. ASSUME \A k \in DOMAIN v : v[k].name # n
      PROVE  /\ View(v)[n] = IF n \in DiskEntries THEN DiskContent[n]
                             ELSE Absent
             /\ ReadFile(v, n) = IF n \in DiskEntries THEN DiskContent[n]
                                 ELSE Empty
  <2>1. FilesAt(v, n) = {}
    BY <1>2 DEF FilesAt
  <2> QED BY <2>1 DEF View, ReadFile
<1>3. \A k \in DOMAIN v : v[k].content \in Contents
  <2>1. \A k \in DOMAIN v : v[k] \in File
    BY DEF ListOK
  <2> QED BY <2>1 DEF File
<1>4. n \in DiskEntries => DiskContent[n] \in Contents
  BY Ext4Assumption DEF DiskEntries
<1>5. Absent \notin Contents
  BY Ext4Assumption DEF Absent
<1>6. CASE \E k \in DOMAIN v : v[k].name = n
  BY <1>1, <1>3, <1>5, <1>6
<1>7. CASE \A k \in DOMAIN v : v[k].name # n
  BY <1>2, <1>4, <1>5, <1>7
<1> QED BY <1>1, <1>2, <1>6, <1>7

\* Two lists that show the same for every name but n.
LEMMA ViewExcept ==
  ASSUME NEW v, NEW w, NEW n \in Names, NEW c,
         View(w)[n] = c,
         \A m \in Names : m # n => View(w)[m] = View(v)[m]
  PROVE  View(w) = [View(v) EXCEPT ![n] = c]
<1>1. View(w) = [m \in Names |-> View(w)[m]]
  BY DEF View
<1>2. DOMAIN View(v) = Names /\ DOMAIN View(w) = Names
  BY DEF View
<1> HIDE DEF View
<1> QED BY <1>1, <1>2

\* WriteFile changes what its own name shows.
LEMMA ViewWrite ==
  ASSUME NEW v, ListOK(v), NEW n \in Names, WriteReturns(v, n),
         NEW c \in Contents
  PROVE  View(WriteVfs(v, n, c)) = [View(v) EXCEPT ![n] = c]
<1> DEFINE t == IF FilesAt(v, n) # {} THEN v ELSE TouchVfs(v, n)
           w == WriteVfs(v, n, c)
<1>1. /\ ListOK(t) /\ ListOK(w) /\ DOMAIN w = DOMAIN t
      /\ \A i \in DOMAIN t :
           /\ w[i].name = t[i].name
           /\ w[i].content = IF t[i].name = n THEN c ELSE t[i].content
      /\ \E k \in DOMAIN t : t[k].name = n
  BY WriteShape
<1>2. \A m \in Names : m # n => View(t)[m] = View(v)[m]
  <2>1. CASE FilesAt(v, n) # {}
    BY <2>1
  <2>2. CASE FilesAt(v, n) = {}
    <3> SUFFICES ASSUME NEW m \in Names, m # n
                 PROVE  View(t)[m] = View(v)[m]
      OBVIOUS
    <3> DEFINE u == <<NewFile(n, FALSE)>> \o v
    <3>1. ~InList(v, n)
      BY <2>2 DEF WriteReturns
    <3>2. t = u
      BY <2>2, <3>1 DEF TouchVfs
    <3>3. /\ ListOK(u) /\ Len(u) = Len(v) + 1 /\ u[1] = NewFile(n, FALSE)
          /\ \A i \in 2..Len(u) : u[i] = v[i - 1] /\ i - 1 \in DOMAIN v
      BY <3>1, PrependOK
    <3> HIDE DEF u, t, w
    <3>4. u[1].name # m
      BY <3>3 DEF NewFile
    <3>5. /\ DOMAIN v = 1..Len(v) /\ Len(v) \in Nat
          /\ DOMAIN u = 1..Len(u)
      BY <3>3 DEF ListOK
    <3>6. CASE \E k \in DOMAIN v : v[k].name = m
      <4>1. PICK k \in DOMAIN v : v[k].name = m
        BY <3>6
      <4>2. k + 1 \in 2..Len(u) /\ (k + 1) - 1 = k
        BY <3>3, <3>5
      <4>3. u[k + 1] = v[k] /\ k + 1 \in DOMAIN u
        BY <3>3, <3>5, <4>2
      <4>4. View(u)[m] = u[k + 1].content
        BY <3>3, <4>1, <4>3, ViewOf
      <4>5. View(v)[m] = v[k].content
        BY <4>1, ViewOf
      <4> QED BY <3>2, <4>3, <4>4, <4>5
    <3>7. CASE \A k \in DOMAIN v : v[k].name # m
      <4>1. \A i \in DOMAIN u : u[i].name # m
        <5> TAKE i \in DOMAIN u
        <5>1. i = 1 \/ i \in 2..Len(u)
          BY <3>3, <3>5
        <5> QED BY <3>3, <3>4, <3>7, <5>1
      <4> QED BY <3>2, <3>3, <3>7, <4>1, ViewOf
    <3> QED BY <3>6, <3>7
  <2> QED BY <2>1, <2>2
<1> HIDE DEF t, w
<1>3. View(w)[n] = c
  BY <1>1, ViewOf
<1>4. ASSUME NEW m \in Names, m # n PROVE View(w)[m] = View(t)[m]
  <2>1. CASE \E k \in DOMAIN t : t[k].name = m
    <3>1. PICK k \in DOMAIN t : t[k].name = m
      BY <2>1
    <3>2. w[k].name = m /\ w[k].content = t[k].content /\ k \in DOMAIN w
      BY <1>1, <1>4, <3>1
    <3> QED BY <1>1, <3>1, <3>2, ViewOf
  <2>2. CASE \A k \in DOMAIN t : t[k].name # m
    <3>1. \A k \in DOMAIN w : w[k].name # m
      BY <1>1, <2>2
    <3> QED BY <1>1, <2>2, <3>1, ViewOf
  <2> QED BY <2>1, <2>2
<1>5. View(w) = [View(v) EXCEPT ![n] = c]
  BY <1>2, <1>3, <1>4, ViewExcept
<1> QED BY <1>5 DEF w

\* Touch makes its own name show the empty content if it showed nothing.
LEMMA ViewTouch ==
  ASSUME NEW v, ListOK(v), NEW n \in Names
  PROVE  View(TouchVfs(v, n)) = [View(v) EXCEPT ![n] = ReadFile(v, n)]
<1>1. CASE InList(v, n)
  <2>1. TouchVfs(v, n) = v
    BY <1>1 DEF TouchVfs
  <2>2. FilesAt(v, n) # {} \/ n \in DiskEntries
    BY <1>1, FilesAreNodes DEF InList
  <2>3. View(v)[n] = ReadFile(v, n)
    BY <2>2 DEF View
  <2> QED BY <2>1, <2>3, ViewExcept
<1>2. CASE ~InList(v, n)
  <2> DEFINE u == <<NewFile(n, FALSE)>> \o v
  <2>0. TouchVfs(v, n) = u
    BY <1>2 DEF TouchVfs
  <2>1. /\ ListOK(u) /\ Len(u) = Len(v) + 1 /\ u[1] = NewFile(n, FALSE)
        /\ u[1].name = n /\ u[1].content = Empty
        /\ \A i \in 2..Len(u) : u[i] = v[i - 1] /\ i - 1 \in DOMAIN v
    BY <1>2, PrependOK DEF NewFile
  <2> HIDE DEF u
  <2>2. /\ DOMAIN v = 1..Len(v) /\ Len(v) \in Nat
        /\ DOMAIN u = 1..Len(u)
    BY <2>1 DEF ListOK
  <2>3. ReadFile(v, n) = Empty
    BY <1>2, FilesAreNodes DEF InList, ReadFile
  <2>4. View(u)[n] = Empty
    <3>1. 1 \in DOMAIN u
      BY <2>1, <2>2
    <3> QED BY <2>1, <3>1, ViewOf
  <2>5. ASSUME NEW m \in Names, m # n PROVE View(u)[m] = View(v)[m]
    <3>1. CASE \E k \in DOMAIN v : v[k].name = m
      <4>1. PICK k \in DOMAIN v : v[k].name = m
        BY <3>1
      <4>2. k + 1 \in 2..Len(u) /\ (k + 1) - 1 = k
        BY <2>1, <2>2
      <4>3. u[k + 1] = v[k] /\ k + 1 \in DOMAIN u
        BY <2>1, <2>2, <4>2
      <4>4. View(u)[m] = u[k + 1].content
        BY <2>1, <4>1, <4>3, ViewOf
      <4>5. View(v)[m] = v[k].content
        BY <4>1, ViewOf
      <4> QED BY <4>3, <4>4, <4>5
    <3>2. CASE \A k \in DOMAIN v : v[k].name # m
      <4>1. \A i \in DOMAIN u : u[i].name # m
        <5> TAKE i \in DOMAIN u
        <5>1. i = 1 \/ i \in 2..Len(u)
          BY <2>1, <2>2
        <5> QED BY <2>1, <2>5, <3>2, <5>1
      <4> QED BY <2>1, <3>2, <4>1, ViewOf
    <3> QED BY <3>1, <3>2
  <2> QED BY <2>0, <2>3, <2>4, <2>5, ViewExcept
<1> QED BY <1>1, <1>2

\* Rm makes its own name show nothing, unless the disk has it.
LEMMA ViewRm ==
  ASSUME NEW v, ListOK(v), NEW n \in Names
  PROVE  View(RmVfs(v, n)) = IF n \in DiskEntries THEN View(v)
                             ELSE [View(v) EXCEPT ![n] = Absent]
<1> DEFINE w == RmVfs(v, n)
<1>1. CASE n \in DiskEntries
  <2>1. NodesAt(v, n) = {}
    BY <1>1 DEF ListOK, OffDisk, NodesAt
  <2> QED BY <1>1, <2>1 DEF RmVfs
<1>2. CASE n \notin DiskEntries
  <2>1. /\ ListOK(w)
        /\ \A i \in DOMAIN w : /\ w[i].name # n
                               /\ \E j \in DOMAIN v : w[i] = v[j]
        /\ \A j \in DOMAIN v : v[j].name # n =>
                                 \E i \in DOMAIN w : w[i] = v[j]
    BY RmShape
  <2> HIDE DEF w
  <2>2. View(w)[n] = Absent
    BY <1>2, <2>1, ViewOf
  <2>3. ASSUME NEW m \in Names, m # n PROVE View(w)[m] = View(v)[m]
    <3>1. CASE \E k \in DOMAIN v : v[k].name = m
      <4>1. PICK k \in DOMAIN v : v[k].name = m
        BY <3>1
      <4>2. PICK i \in DOMAIN w : w[i] = v[k]
        BY <2>1, <2>3, <4>1
      <4> QED BY <2>1, <4>1, <4>2, ViewOf
    <3>2. CASE \A k \in DOMAIN v : v[k].name # m
      <4>1. \A i \in DOMAIN w : w[i].name # m
        BY <2>1, <3>2
      <4> QED BY <2>1, <3>2, <4>1, ViewOf
    <3> QED BY <3>1, <3>2
  <2>4. View(w) = [View(v) EXCEPT ![n] = Absent]
    BY <2>2, <2>3, ViewExcept
  <2> QED BY <1>2, <2>4 DEF w
<1> QED BY <1>1, <1>2

\* The disk part of the view does not change while the system runs.
LEMMA ViewPrime ==
  ASSUME block_size' = block_size
  PROVE  View(vfs)' = View(vfs') /\ DiskEntries' = DiskEntries
<1>1. DiskEntries' = DiskEntries
  BY DEF DiskEntries
<1> QED BY <1>1 DEF View, ReadFile, FilesAt

\* A command that ends does its abstract counterpart, or fails.
LEMMA FinishRefines ==
  ASSUME NEW h, NEW v, NEW o, NEW sto, Finish(h, v, o), status = "run",
         block_size' = block_size, View(v) = sto
  PROVE  FS!Does(o, sto) \/ FS!Fail
<1>0. View(vfs)' = View(vfs') /\ DiskEntries' = DiskEntries
  BY ViewPrime
<1>1. CASE h # NULL
  <2>1. vfs' = v /\ op' = o /\ status' = status
    BY <1>1 DEF Finish
  <2> QED BY <1>0, <2>1 DEF FS!Does
<1>2. CASE h = NULL
  <2>1. vfs' = vfs /\ op' = op /\ status' = "oom"
    BY <1>2 DEF Finish
  <2> QED BY <1>0, <2>1 DEF FS!Fail
<1> QED BY <1>1, <1>2

\* The same for a command that writes a file: a name on the disk hangs it.
LEMMA WriteRefines ==
  ASSUME NEW h, NEW n, NEW c, NEW v, NEW o, NEW sto, Write(h, n, c, v, o),
         status = "run", block_size' = block_size, ListOK(vfs),
         WriteReturns(vfs, n) => View(v) = sto
  PROVE  (n \notin DiskEntries /\ FS!Does(o, sto)) \/ FS!Fail
<1>0. View(vfs)' = View(vfs') /\ DiskEntries' = DiskEntries
  BY ViewPrime
<1>1. CASE WriteReturns(vfs, n)
  <2>1. n \notin DiskEntries
    BY <1>1 DEF WriteReturns, InList, FilesAt, ListOK, OffDisk
  <2>2. Finish(WriteHeap(h, vfs, n, c), v, o)
    BY <1>1 DEF Write
  <2> QED BY <1>1, <2>1, <2>2, FinishRefines
<1>2. CASE ~WriteReturns(vfs, n)
  <2>1. vfs' = vfs /\ op' = op /\ status' = "hung"
    BY <1>2 DEF Write, Hang
  <2> QED BY <1>0, <2>1 DEF FS!Fail
<1> QED BY <1>1, <1>2

\* Booting the file layer is booting the store.
LEMMA RefinesInit == Init => FS!Init
<1> SUFFICES ASSUME Init PROVE FS!Init
  OBVIOUS
<1>1. DiskEntries \subseteq Names
  BY Ext4Assumption DEF DiskEntries
<1>2. \A n \in Names : FilesAt(vfs, n) = {}
  BY DEF Init, FilesAt
<1>3. View(vfs) = [n \in Names |-> IF n \in DiskEntries THEN DiskContent[n]
                                   ELSE Absent]
  BY <1>2 DEF View, ReadFile
<1>4. \A n \in DiskEntries : DiskContent[n] \in Contents
  BY Ext4Assumption DEF DiskEntries
<1>5. Absent \notin Contents
  BY Ext4Assumption DEF Absent
<1>6. /\ View(vfs) \in [Names -> Contents \cup {Absent}]
      /\ \A n \in Names : View(vfs)[n] = Absent <=> n \notin DiskEntries
  BY <1>3, <1>4, <1>5
<1>7. status = "run" /\ op = FS!Op("boot", Empty, Empty, Empty)
  BY DEF Init, Op, FS!Op
<1> QED BY <1>1, <1>6, <1>7 DEF FS!Init

\* Every step of the file layer is a step of the store or leaves it alone.
LEMMA RefinesStep == ListInv /\ [Next]_vars => [FS!Next]_(FS!vars)
<1> SUFFICES ASSUME ListInv, [Next]_vars PROVE [FS!Next]_(FS!vars)
  OBVIOUS
<1>a. ListOK(vfs)
  BY InvList
<1>b. \A n \in Names : ReadFile(vfs, n) = FS!Value(n)
  BY <1>a, ViewOf DEF FS!Value
<1>c. \A q, m, n, o : Op(q, m, n, o) = FS!Op(q, m, n, o)
  BY DEF Op, FS!Op
<1>d. \A n \in Names : ReadFile(vfs, n) \in Contents
  BY <1>a, ReadType
<1>e. ASSUME vfs' = vfs, block_size' = block_size, op' = op,
             status' = status
      PROVE  UNCHANGED FS!vars
  BY <1>e, ViewPrime DEF FS!vars
<1>f. ASSUME NEW h, Finish(h, vfs, op), status = "run",
             block_size' = block_size
      PROVE  [FS!Next]_(FS!vars)
  <2>1. CASE h # NULL
    BY <1>e, <1>f, <2>1 DEF Finish
  <2>2. CASE h = NULL
    <3>1. FS!Fail
      BY <1>f, <2>2, ViewPrime DEF Finish, FS!Fail
    <3> QED BY <3>1 DEF FS!Next
  <2> QED BY <2>1, <2>2
<1>1. CASE CmdLs
  BY <1>1, <1>f DEF CmdLs, Shell, AtShell
<1>2. CASE Tab
  BY <1>2, <1>f DEF Tab, Shell, AtShell
<1>3. ASSUME NEW n \in Names, CmdCat(n) PROVE FS!Next
  <2>1. \/ FS!Does(Op("cat", n, n, ReadFile(vfs, n)), View(vfs))
        \/ FS!Fail
    BY <1>3, FinishRefines DEF CmdCat, Shell, AtShell
  <2>2. FS!Cat(n) \/ FS!Fail
    BY <1>b, <1>c, <2>1 DEF FS!Cat
  <2> QED BY <2>2 DEF FS!Next
<1>4. ASSUME NEW n \in Names, CmdMkdir(n) PROVE FS!Next
  <2>0. MkDirVfs(vfs, n) = vfs
    BY DEF MkDirVfs, DirExists
  <2>1. FS!Does(Op("mkdir", n, n, Empty), View(vfs)) \/ FS!Fail
    BY <1>4, <2>0, FinishRefines DEF CmdMkdir, Shell, AtShell
  <2>2. FS!MkDir(n) \/ FS!Fail
    BY <1>c, <2>1 DEF FS!MkDir
  <2> QED BY <2>2 DEF FS!Next
<1>5. ASSUME NEW n \in Names, CmdRm(n) PROVE FS!Next
  <2> DEFINE sto == IF n \in DiskEntries THEN View(vfs)
                    ELSE [View(vfs) EXCEPT ![n] = Absent]
  <2>0. View(RmVfs(vfs, n)) = sto
    BY <1>a, ViewRm
  <2>1. FS!Does(Op("rm", n, n, Empty), sto) \/ FS!Fail
    BY <1>5, <2>0, FinishRefines DEF CmdRm, Shell, AtShell
  <2>2. FS!Rm(n) \/ FS!Fail
    BY <1>c, <2>1 DEF FS!Rm
  <2> QED BY <2>2 DEF FS!Next
<1>6. ASSUME NEW n \in Names, CmdTouch(n) PROVE FS!Next
  <2> DEFINE sto == [View(vfs) EXCEPT ![n] = ReadFile(vfs, n)]
  <2>0. View(TouchVfs(vfs, n)) = sto
    BY <1>a, ViewTouch
  <2>1. FS!Does(Op("touch", n, n, Empty), sto) \/ FS!Fail
    BY <1>6, <2>0, FinishRefines DEF CmdTouch, Shell, AtShell
  <2>2. FS!Touch(n) \/ FS!Fail
    BY <1>b, <1>c, <2>1 DEF FS!Touch
  <2> QED BY <2>2 DEF FS!Next
<1>7. ASSUME NEW n \in Names, CmdEdit(n) PROVE FS!Next
  <2>1. \/ FS!Does(Op("open", n, n, ReadFile(vfs, n)), View(vfs))
        \/ FS!Fail
    BY <1>7, FinishRefines DEF CmdEdit, AtShell
  <2>2. FS!Open(n) \/ FS!Fail
    BY <1>b, <1>c, <2>1 DEF FS!Open
  <2> QED BY <2>2 DEF FS!Next
<1>8. ASSUME NEW s \in Names, NEW d \in Names, CmdCp(s, d) PROVE FS!Next
  <2> DEFINE c == ReadFile(vfs, s)
             sto == [View(vfs) EXCEPT ![d] = c]
  <2>0. WriteReturns(vfs, d) => View(WriteVfs(vfs, d, c)) = sto
    BY <1>a, <1>d, ViewWrite
  <2>1. \/ d \notin DiskEntries /\ FS!Does(Op("cp", s, d, Empty), sto)
        \/ FS!Fail
    BY <1>8, <1>a, <2>0, WriteRefines DEF CmdCp, Shell, AtShell
  <2>2. FS!Cp(s, d) \/ FS!Fail
    BY <1>b, <1>c, <2>1 DEF FS!Cp
  <2> QED BY <2>2 DEF FS!Next
<1>9. ASSUME NEW s \in Names, NEW d \in Names, CmdMv(s, d) PROVE FS!Next
  <2> DEFINE c == ReadFile(vfs, s)
             copied == [View(vfs) EXCEPT ![d] = c]
             sto == IF s \in DiskEntries THEN copied
                    ELSE [copied EXCEPT ![s] = Absent]
             w == WriteVfs(vfs, d, c)
  <2>0. WriteReturns(vfs, d) => View(RmVfs(w, s)) = sto
    <3>1. ASSUME WriteReturns(vfs, d) PROVE ListOK(w) /\ View(w) = copied
      BY <1>a, <1>d, <3>1, ViewWrite, WriteShape
    <3> HIDE DEF w, copied
    <3> QED BY <3>1, ViewRm
  <2>1. \/ d \notin DiskEntries /\ FS!Does(Op("mv", s, d, Empty), sto)
        \/ FS!Fail
    BY <1>9, <1>a, <2>0, WriteRefines DEF CmdMv, Shell, AtShell
  <2>2. FS!Mv(s, d) \/ FS!Fail
    BY <1>b, <1>c, <2>1 DEF FS!Mv
  <2> QED BY <2>2 DEF FS!Next
<1>10. ASSUME NEW c \in Contents, EditType(c) PROVE UNCHANGED FS!vars
  BY <1>10, <1>e DEF EditType
<1>11. CASE EditSave
  <2> DEFINE sto == [View(vfs) EXCEPT ![editing] = draft]
  <2>a. editing \in Names /\ draft \in Contents
    BY <1>11 DEF EditSave, ListInv, FilesInv, TypeOK
  <2>0. WriteReturns(vfs, editing) =>
          View(WriteVfs(vfs, editing, draft)) = sto
    BY <1>a, <2>a, ViewWrite
  <2>1. \/ /\ editing \notin DiskEntries
           /\ FS!Does(Op("save", editing, editing, draft), sto)
        \/ FS!Fail
    BY <1>11, <1>a, <2>0, WriteRefines DEF EditSave
  <2>2. FS!Save(editing, draft) \/ FS!Fail
    BY <1>c, <2>1 DEF FS!Save
  <2> QED BY <2>a, <2>2 DEF FS!Next
<1>12. CASE EditQuit
  BY <1>12, <1>e DEF EditQuit
<1>13. CASE UNCHANGED vars
  BY <1>13, <1>e DEF vars
<1> QED BY <1>1, <1>2, <1>3, <1>4, <1>5, <1>6, <1>7, <1>8, <1>9, <1>10,
           <1>11, <1>12, <1>13 DEF Next

\* The list of virtual files over the disk implements the file store.
THEOREM Refinement == Spec => ImplementsFileStore
<1>1. Init => FS!Init
  BY RefinesInit
<1>2. ListInv /\ [Next]_vars => [FS!Next]_(FS!vars)
  BY RefinesStep
<1> QED BY <1>1, <1>2, ListInvariant, PTL
        DEF Spec, ImplementsFileStore, FS!Spec

=============================================================================
