------------------------------- MODULE UserHeap -----------------------------
(***************************************************************************)
(* The memory of the user program: malloc and free of                      *)
(* src/programs/main.cpp over system call 45 (sbrk) of                     *)
(* src/src/core/interrupts.cpp.  Blocks form a list, newest first, and are *)
(* reused first-fit without being split.  Sizes and addresses are          *)
(* uint32_t: sums are taken modulo Word.                                   *)
(***************************************************************************)
EXTENDS MachineWord, Sequences

CONSTANTS
  UserStart,   \* 0x800000, user_heap_end at boot
  UserLimit,   \* 128MB
  Header,      \* sizeof(BlockHeader) = 12
  UserSizes        \* request sizes

ASSUME UserHeapAssumption ==
  /\ UserStart \in Nat \ {0} /\ UserLimit \in Nat /\ UserStart < UserLimit
  /\ UserLimit < Word
  /\ Header \in Nat \ {0}
  /\ UserSizes \subseteq Nat /\ \A s \in UserSizes : s < Word

\* No request is so large that the break wraps around.
NoWrap == \A s \in UserSizes : UserLimit + Header + s < Word

VARIABLES
  user_heap_end,   \* the break
  heap_list        \* heap_head's list: [addr (of the header), size, is_free]

user_vars == <<user_heap_end, heap_list>>

UserInit ==
  /\ user_heap_end = UserStart
  /\ heap_list = <<>>

\* Mutant of Sbrk: returns the new break.
SbrkNew(incr) ==
  LET new == (user_heap_end + incr) % Word
  IN  IF new >= UserLimit THEN 0 ELSE new

\* System call 45: the old break, or 0 when the new one is out of bounds.
Sbrk(incr) ==
  LET new == (user_heap_end + incr) % Word
  IN  IF new >= UserLimit THEN 0 ELSE user_heap_end

\* Mutant of SbrkEnd: a refused request is not rolled back.
SbrkEndKept(incr) == (user_heap_end + incr) % Word

\* user_heap_end after system call 45, rolled back if out of bounds.
SbrkEnd(incr) ==
  LET new == (user_heap_end + incr) % Word
  IN  IF new >= UserLimit THEN user_heap_end ELSE new

\* Blocks malloc's search stops at.
Usable(size) ==
  {k \in DOMAIN heap_list : heap_list[k].is_free /\ heap_list[k].size >= size}

SetFree(b, f) == [addr |-> b.addr, size |-> b.size, is_free |-> f]

\* malloc that finds a free block: the first of the list.
MallocReuse(size) ==
  /\ \E k \in Usable(size) :
       /\ \A j \in Usable(size) : k <= j
       /\ heap_list' = [heap_list EXCEPT ![k] = SetFree(@, FALSE)]
  /\ UNCHANGED user_heap_end

\* Mutant of MallocGrow: new_block->next is not set.
MallocGrowUnlinked(size) ==
  /\ Usable(size) = {}
  /\ LET total == (Header + size) % Word
         new == [addr |-> Sbrk(total), size |-> size, is_free |-> FALSE]
     IN  /\ user_heap_end' = SbrkEnd(total)
         /\ heap_list' = IF new.addr = 0 THEN heap_list ELSE <<new>>

\* malloc that asks the kernel, and returns 0 if the kernel refuses.
MallocGrow(size) ==
  /\ Usable(size) = {}
  /\ LET total == (Header + size) % Word
         new == [addr |-> Sbrk(total), size |-> size, is_free |-> FALSE]
     IN  /\ user_heap_end' = SbrkEnd(total)
         /\ heap_list' = IF new.addr = 0 THEN heap_list ELSE <<new>> \o heap_list

\* free of a block the program holds.
Free(k) ==
  /\ ~heap_list[k].is_free
  /\ heap_list' = [heap_list EXCEPT ![k] = SetFree(@, TRUE)]
  /\ UNCHANGED user_heap_end

UserNext ==
  \/ \E s \in UserSizes : MallocReuse(s) \/ MallocGrow(s)
  \/ \E k \in DOMAIN heap_list : Free(k)

UserSpec == UserInit /\ [][UserNext]_user_vars

-----------------------------------------------------------------------------
UserBlock == [addr : Nat, size : UserSizes, is_free : BOOLEAN]

UserTypeOK ==
  /\ user_heap_end \in Nat
  /\ heap_list \in Seq(UserBlock)

\* The first byte after a block.
EndOf(b) == b.addr + Header + b.size

\* No two blocks overlap, header included: a program that stays inside the
\* block malloc gave it never damages another block or the list itself.
BlocksApart ==
  \A i, j \in DOMAIN heap_list :
    i < j => EndOf(heap_list[j]) <= heap_list[i].addr

\* Inductive: every block lies between the heap's start and the break.
UserHeapInv ==
  /\ UserTypeOK
  /\ UserStart <= user_heap_end /\ user_heap_end < UserLimit
  /\ \A i \in DOMAIN heap_list : /\ UserStart <= heap_list[i].addr
                                 /\ EndOf(heap_list[i]) <= user_heap_end
  /\ BlocksApart

\* The program's list and the kernel's break tell the same story: the blocks
\* follow each other from the heap's start to the break without a gap, also
\* after requests that sbrk refused (main.cpp:24-52, interrupts.cpp:168-179).
NothingLost ==
  /\ heap_list = <<>> => user_heap_end = UserStart
  /\ \A i \in DOMAIN heap_list :
       /\ EndOf(heap_list[i]) = IF i = 1 THEN user_heap_end
                                ELSE heap_list[i - 1].addr
       /\ i = Len(heap_list) => heap_list[i].addr = UserStart

\* A block never moves, changes its size or leaves the list: the pointers a
\* program holds stay good for as long as it holds them.
BlocksStay ==
  [][\A i \in DOMAIN heap_list :
       \E j \in DOMAIN heap_list' :
         /\ heap_list'[j].addr = heap_list[i].addr
         /\ heap_list'[j].size = heap_list[i].size]_user_vars

=============================================================================
