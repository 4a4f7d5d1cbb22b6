------------------------------ MODULE KHeapOps ------------------------------
(***************************************************************************)
(* The arithmetic of the kernel heap (src/src/core/mm/kheap.cpp): a bump   *)
(* allocator over [HeapStart, HeapEnd).  heap_curr is a uint32_t, so every *)
(* sum is taken modulo Word (2^32 in the build).  kmalloc first rounds     *)
(* heap_curr up to a multiple of 4 and keeps the rounded value even when   *)
(* the request then fails; kfree does nothing.                             *)
(***************************************************************************)
EXTENDS MachineWord

CONSTANTS
  HeapStart,   \* kheap_init's start (0x00A00000)
  HeapEnd      \* heap_end = start + size

\* A null pointer.  The heap never starts at address 0, so 0 is no block.
NULL == 0

\* HeapEnd is 4-byte aligned like HeapStart (kernel.cpp:50 gives 10MB and
\* 20MB), and lies well below 2^32.
ASSUME HeapAssumption ==
  /\ HeapStart \in Nat \ {0}
  /\ HeapEnd \in Nat
  /\ HeapStart < HeapEnd
  /\ HeapEnd < Word
  /\ HeapStart % 4 = 0
  /\ HeapEnd % 4 = 0

\* Mutant of Align4: rounds down instead of up.
Align4Down(h) == h - (h % 4)

\* if (heap_curr % 4 != 0) heap_curr += 4 - heap_curr % 4
Align4(h) == IF h % 4 # 0 THEN (h + (4 - (h % 4))) % Word ELSE h

\* ! (heap_curr + size >= heap_end), tested after the alignment.
Fits(h, size) == (Align4(h) + size) % Word < HeapEnd

\* The value kmalloc returns.
Kmalloc(h, size) == IF Fits(h, size) THEN Align4(h) ELSE NULL

\* heap_curr after kmalloc(size), successful or not.
KmallocCurr(h, size) ==
  IF Fits(h, size) THEN (Align4(h) + size) % Word ELSE Align4(h)

\* heap_curr after one more request of a sequence of them, where NULL stands
\* for "some request of the sequence has already failed".
Bump(h, size) ==
  IF h # NULL /\ Fits(h, size) THEN KmallocCurr(h, size) ELSE NULL

=============================================================================
