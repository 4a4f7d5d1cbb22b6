------------------------------- MODULE KHeap --------------------------------
(***************************************************************************)
(* The kernel heap as a component: kmalloc and kfree as the rest of the    *)
(* kernel calls them.  "blocks" records every block handed out and not     *)
(* passed to kfree since; the memory of a freed block is never reused,     *)
(* because kfree ignores its argument.                                     *)
(***************************************************************************)
EXTENDS KHeapOps, FiniteSets

CONSTANTS
  Sizes,       \* the request sizes callers use
  MaxBlocks    \* bound on the number of live blocks

\* No request makes heap_curr + size wrap.  The sizes in the code are object
\* and buffer sizes below 2MB, and Ext4's block_size, a power of two that is
\* at most 2^31 (or 0): HeapEnd + 3 + 2^31 is below 2^32.
ASSUME SizesAssumption ==
  /\ Sizes \subseteq Nat
  /\ \A s \in Sizes : HeapEnd + 3 + s < Word

VARIABLES
  heap_curr,   \* next free address
  blocks       \* live blocks: records [addr, size]

vars == <<heap_curr, blocks>>

Block == [addr : Nat, size : Sizes]

\* kheap_init
Init ==
  /\ heap_curr = HeapStart
  /\ blocks = {}

\* kmalloc(size): finds room, or returns 0 and leaves only the alignment.
DoKmalloc(size) ==
  /\ Cardinality(blocks) < MaxBlocks
  /\ heap_curr' = KmallocCurr(heap_curr, size)
  /\ blocks' = IF Kmalloc(heap_curr, size) # NULL
               THEN blocks \cup {[addr |-> Kmalloc(heap_curr, size),
                                  size |-> size]}
               ELSE blocks

\* Mutant of DoKfree: "free" rewinds the bump pointer to the freed block.
DoKfreeRewinds(b) ==
  /\ blocks' = blocks \ {b}
  /\ heap_curr' = b.addr

\* kfree(ptr): (void)ptr.
DoKfree(b) ==
  /\ blocks' = blocks \ {b}
  /\ UNCHANGED heap_curr

Next ==
  \/ \E s \in Sizes : DoKmalloc(s)
  \/ \E b \in blocks : DoKfree(b)

Spec == Init /\ [][Next]_vars

-----------------------------------------------------------------------------
\* Type invariant.
TypeOK ==
  /\ heap_curr \in Nat
  /\ blocks \subseteq Block

\* Two live blocks share no byte: kmalloc's callers never write into each
\* other's memory, whatever mix of sizes, failed requests and kfree calls
\* came before (kheap.cpp:14-23).
BlocksDisjoint ==
  \A b, c \in blocks :
    b # c => \/ b.addr + b.size <= c.addr
             \/ c.addr + c.size <= b.addr

\* Every live block is 4-byte aligned and lies inside the heap, also after
\* requests that failed at the end of the heap (kheap.cpp:16-18).
BlocksInHeap ==
  \A b \in blocks :
    /\ b.addr % 4 = 0
    /\ HeapStart <= b.addr
    /\ b.addr + b.size < HeapEnd

\* The inductive invariant: no live block reaches past heap_curr, and
\* heap_curr stays between the two ends of the heap.
HeapInv ==
  /\ TypeOK
  /\ HeapStart <= heap_curr /\ heap_curr <= HeapEnd
  /\ \A b \in blocks : b.addr + b.size <= heap_curr
  /\ BlocksInHeap
  /\ BlocksDisjoint

\* Exhaustion is final: once a request of some size would fail, no sequence
\* of kfree calls lets it succeed again (kfree, kheap.cpp:25-29).
ExhaustionIsFinal ==
  [][\A s \in Sizes : ~Fits(heap_curr, s) => ~Fits(heap_curr', s)]_vars

=============================================================================
