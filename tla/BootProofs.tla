----------------------------- MODULE BootProofs -----------------------------
(***************************************************************************)
(* Proofs about memory, for every word size, page size, heap and           *)
(* framebuffer: the kernel heap and the program's heap by themselves, then *)
(* the machine that boots and runs them.                                   *)
(***************************************************************************)
EXTENDS Boot, TLAPS

-----------------------------------------------------------------------------
(* The kernel heap.                                                        *)

\* Rounding up moves an address by at most 3 bytes, to a multiple of 4, and
\* never past the (aligned) end of the heap.
LEMMA AlignFacts ==
  ASSUME NEW h \in Nat, h <= HeapEnd
  PROVE  /\ Align4(h) \in Nat
         /\ h <= Align4(h)
         /\ Align4(h) <= HeapEnd
         /\ Align4(h) % 4 = 0
<1>1. /\ h % 4 \in 0..3
      /\ h % 4 # 0 => h + (4 - (h % 4)) <= HeapEnd
      /\ (h + (4 - (h % 4))) % 4 = 0
  BY HeapAssumption, WordAssumption
<1>2. CASE h % 4 # 0
  <2>1. (h + (4 - (h % 4))) % Word = h + (4 - (h % 4))
    BY <1>1, <1>2, HeapAssumption, WordAssumption
  <2> QED BY <1>1, <1>2, <2>1 DEF Align4
<1>3. CASE h % 4 = 0
  BY <1>3 DEF Align4
<1> QED BY <1>2, <1>3

\* A request from Sizes never wraps, so "fits" means fits.
LEMMA FitsFacts ==
  ASSUME NEW h \in Nat, h <= HeapEnd, NEW s \in Sizes
  PROVE  /\ (Align4(h) + s) % Word = Align4(h) + s
         /\ Fits(h, s) <=> Align4(h) + s < HeapEnd
<1>1. /\ s \in Nat
      /\ Align4(h) + s < Word
      /\ Align4(h) \in Nat
  BY AlignFacts, SizesAssumption, HeapAssumption, WordAssumption
<1>2. (Align4(h) + s) % Word = Align4(h) + s
  BY <1>1, HeapAssumption, WordAssumption
<1> QED BY <1>2 DEF Fits

\* Initially the heap is empty and heap_curr is at its start.
LEMMA HeapInit == Init => HeapInv
  BY HeapAssumption, WordAssumption
  DEF Init, HeapInv, TypeOK, BlocksInHeap, BlocksDisjoint

\* Every kmalloc and kfree preserves the inductive invariant.
LEMMA HeapStep == HeapInv /\ [Next]_vars => HeapInv'
<1> SUFFICES ASSUME HeapInv, [Next]_vars PROVE HeapInv'
  OBVIOUS
<1> DEFINE h == heap_curr
<1>0. h \in Nat /\ HeapStart <= h /\ h <= HeapEnd
  BY DEF HeapInv, TypeOK
<1>1. ASSUME NEW s \in Sizes, DoKmalloc(s) PROVE HeapInv'
  <2>0. s \in Nat
    BY SizesAssumption
  <2>1. /\ Align4(h) \in Nat /\ h <= Align4(h)
        /\ Align4(h) <= HeapEnd /\ Align4(h) % 4 = 0
    BY <1>0, AlignFacts
  <2>2. CASE Fits(h, s)
    <3> DEFINE b == [addr |-> Align4(h), size |-> s]
    <3>1. Align4(h) + s < HeapEnd
      BY <1>0, <2>2, FitsFacts
    <3>2. heap_curr' = Align4(h) + s
      BY <1>0, <1>1, <2>2, FitsFacts DEF DoKmalloc, KmallocCurr
    <3>3. Kmalloc(h, s) = Align4(h) /\ Align4(h) # NULL
      BY <1>0, <2>1, <2>2, HeapAssumption, WordAssumption DEF Kmalloc, NULL
    <3>4. blocks' = blocks \cup {b}
      BY <1>1, <3>3 DEF DoKmalloc
    <3>5. b \in Block /\ b.addr = Align4(h) /\ b.size = s
      BY <2>1 DEF Block
    <3>6. \A c \in blocks : /\ c.addr \in Nat /\ c.size \in Nat
                            /\ c.addr + c.size <= h
      BY SizesAssumption DEF HeapInv, TypeOK, Block
    <3> HIDE DEF b
    <3>7. TypeOK'
      BY <2>0, <2>1, <3>2, <3>4, <3>5 DEF HeapInv, TypeOK
    <3>8. BlocksInHeap'
      <4>1. HeapStart <= Align4(h)
        BY <1>0, <2>1, HeapAssumption, WordAssumption
      <4> QED BY <2>1, <3>1, <3>4, <3>5, <4>1 DEF HeapInv, BlocksInHeap
    <3>9. BlocksDisjoint'
      <4> SUFFICES ASSUME NEW c \in blocks', NEW d \in blocks', c # d
                   PROVE  \/ c.addr + c.size <= d.addr
                          \/ d.addr + d.size <= c.addr
        BY DEF BlocksDisjoint
      <4>1. CASE c \in blocks /\ d \in blocks
        BY <4>1 DEF HeapInv, BlocksDisjoint
      <4>2. CASE c = b /\ d \in blocks
        BY <1>0, <2>1, <3>5, <3>6, <4>2
      <4>3. CASE c \in blocks /\ d = b
        BY <1>0, <2>1, <3>5, <3>6, <4>3
      <4> QED BY <3>4, <4>1, <4>2, <4>3
    <3>10. \A c \in blocks' : c.addr + c.size <= heap_curr'
      BY <1>0, <2>0, <2>1, <3>2, <3>4, <3>5, <3>6
    <3>11. HeapStart <= heap_curr' /\ heap_curr' <= HeapEnd
      BY <1>0, <2>0, <2>1, <3>1, <3>2, HeapAssumption, WordAssumption
    <3> QED BY <3>7, <3>8, <3>9, <3>10, <3>11 DEF HeapInv
  <2>3. CASE ~Fits(h, s)
    <3>1. heap_curr' = Align4(h) /\ blocks' = blocks
      BY <1>1, <2>3 DEF DoKmalloc, KmallocCurr, Kmalloc, NULL
    <3>2. \A c \in blocks : /\ c.addr \in Nat /\ c.size \in Nat
                            /\ c.addr + c.size <= h
      BY SizesAssumption DEF HeapInv, TypeOK, Block
    <3> QED
      BY <1>0, <2>1, <3>1, <3>2, HeapAssumption, WordAssumption
      DEF HeapInv, TypeOK, BlocksInHeap, BlocksDisjoint
  <2> QED BY <2>2, <2>3
<1>2. ASSUME NEW b \in blocks, DoKfree(b) PROVE HeapInv'
  BY <1>2 DEF DoKfree, HeapInv, TypeOK, BlocksInHeap, BlocksDisjoint
<1>3. CASE UNCHANGED vars
  BY <1>3 DEF vars, HeapInv, TypeOK, BlocksInHeap, BlocksDisjoint
<1> QED BY <1>1, <1>2, <1>3 DEF Next

\* The inductive invariant holds in every reachable state of the heap.
THEOREM HeapInvariant == Spec => []HeapInv
  BY HeapInit, HeapStep, PTL DEF Spec

\* A size that does not fit never fits again.
THEOREM HeapExhaustion == Spec => ExhaustionIsFinal
<1> DEFINE A == \A s \in Sizes : ~Fits(heap_curr, s) => ~Fits(heap_curr', s)
<1>1. HeapInv /\ HeapInv' /\ [Next]_vars => [A]_vars
  <2> SUFFICES ASSUME HeapInv, HeapInv', Next, NEW s \in Sizes,
                      ~Fits(heap_curr, s)
               PROVE  ~Fits(heap_curr', s)
    OBVIOUS
  <2>0. /\ heap_curr \in Nat /\ heap_curr <= HeapEnd
        /\ heap_curr' \in Nat /\ heap_curr' <= HeapEnd
        /\ s \in Nat
    BY SizesAssumption DEF HeapInv, TypeOK
  <2>1. heap_curr' = heap_curr \/ Align4(heap_curr) <= heap_curr'
    <3>1. ASSUME NEW t \in Sizes, DoKmalloc(t)
          PROVE  Align4(heap_curr) <= heap_curr'
      BY <2>0, <3>1, AlignFacts, FitsFacts, SizesAssumption
      DEF DoKmalloc, KmallocCurr
    <3>2. ASSUME NEW b \in blocks, DoKfree(b)
          PROVE  heap_curr' = heap_curr
      BY <3>2 DEF DoKfree
    <3> QED BY <3>1, <3>2 DEF Next
  <2>2. /\ Align4(heap_curr) \in Nat /\ Align4(heap_curr') \in Nat
        /\ heap_curr' <= Align4(heap_curr')
    BY <2>0, AlignFacts
  <2>3. Fits(heap_curr, s) <=> Align4(heap_curr) + s < HeapEnd
    BY <2>0, FitsFacts
  <2>4. Fits(heap_curr', s) <=> Align4(heap_curr') + s < HeapEnd
    BY <2>0, FitsFacts
  <2> QED BY <2>0, <2>1, <2>2, <2>3, <2>4, HeapAssumption, WordAssumption
<1> QED BY <1>1, HeapInvariant, PTL DEF Spec, ExhaustionIsFinal

-----------------------------------------------------------------------------
(* The program's heap.                                                     *)

\* The kernel's answer when nothing wraps.
LEMMA SbrkFacts ==
  ASSUME NoWrap, UserHeapInv, NEW s \in UserSizes
  PROVE  LET total == (Header + s) % Word IN
         \/ Sbrk(total) = 0 /\ SbrkEnd(total) = user_heap_end
         \/ /\ Sbrk(total) = user_heap_end
            /\ SbrkEnd(total) = user_heap_end + Header + s
            /\ SbrkEnd(total) < UserLimit
<1>1. /\ s \in Nat /\ user_heap_end \in Nat /\ Header \in Nat
      /\ Word \in Nat /\ UserLimit \in Nat /\ user_heap_end < UserLimit
      /\ UserLimit + Header + s < Word
  BY UserHeapAssumption, WordAssumption DEF NoWrap, UserHeapInv, UserTypeOK
<1>2. (Header + s) % Word = Header + s
  BY <1>1
<1>3. (user_heap_end + (Header + s)) % Word = user_heap_end + (Header + s)
  BY <1>1
<1> QED BY <1>1, <1>2, <1>3 DEF Sbrk, SbrkEnd

\* The empty list of a freshly booted program satisfies the invariant.
LEMMA UserHeapInit == UserInit => UserHeapInv
  BY UserHeapAssumption, WordAssumption DEF UserInit, UserHeapInv, UserTypeOK, BlocksApart

\* Changing is_free touches no address and no size.
LEMMA FlagOnly ==
  ASSUME UserHeapInv, NEW k \in DOMAIN heap_list, NEW f \in BOOLEAN,
         heap_list' = [heap_list EXCEPT ![k] = SetFree(@, f)],
         UNCHANGED user_heap_end
  PROVE  UserHeapInv'
<1>0. heap_list \in Seq(UserBlock) /\ DOMAIN heap_list = 1..Len(heap_list)
  BY DEF UserHeapInv, UserTypeOK
<1> DEFINE b == SetFree(heap_list[k], f)
<1>1. heap_list[k] \in UserBlock
  BY <1>0
<1>2. /\ heap_list[k].addr \in Nat /\ heap_list[k].size \in UserSizes
  BY <1>1 DEF UserBlock
<1>3. b \in UserBlock
  BY <1>2, Zenon DEF UserBlock, SetFree
<1>4. b.addr = heap_list[k].addr /\ b.size = heap_list[k].size
  BY DEF SetFree
<1> HIDE DEF b
<1>5. heap_list' \in Seq(UserBlock) /\ DOMAIN heap_list' = DOMAIN heap_list
  BY <1>0, <1>3 DEF b
<1>6. \A i \in DOMAIN heap_list : heap_list'[i] = IF i = k THEN b ELSE heap_list[i]
  BY <1>0 DEF b
<1>7. \A i \in DOMAIN heap_list : /\ heap_list'[i].addr = heap_list[i].addr
                                  /\ heap_list'[i].size = heap_list[i].size
  BY <1>4, <1>6
<1> QED BY <1>5, <1>7 DEF UserHeapInv, UserTypeOK, BlocksApart, EndOf

\* Reuse, growth, refusal and free preserve the invariant.
LEMMA UserHeapStep ==
  ASSUME NoWrap PROVE UserHeapInv /\ [UserNext]_user_vars => UserHeapInv'
<1> SUFFICES ASSUME UserHeapInv, [UserNext]_user_vars PROVE UserHeapInv'
  OBVIOUS
<1>0. heap_list \in Seq(UserBlock) /\ DOMAIN heap_list = 1..Len(heap_list)
  BY DEF UserHeapInv, UserTypeOK
<1>1. ASSUME NEW s \in UserSizes, MallocReuse(s) PROVE UserHeapInv'
  <2>1. PICK k \in Usable(s) :
          heap_list' = [heap_list EXCEPT ![k] = SetFree(@, FALSE)]
    BY <1>1 DEF MallocReuse
  <2>2. k \in DOMAIN heap_list
    BY DEF Usable
  <2> QED BY <1>1, <2>1, <2>2, FlagOnly DEF MallocReuse
<1>2. ASSUME NEW s \in UserSizes, MallocGrow(s) PROVE UserHeapInv'
  <2> DEFINE total == (Header + s) % Word
             new == [addr |-> Sbrk(total), size |-> s, is_free |-> FALSE]
  <2>0. /\ user_heap_end \in Nat /\ Header \in Nat /\ s \in Nat
        /\ UserStart \in Nat \ {0} /\ UserStart <= user_heap_end
    BY UserHeapAssumption, WordAssumption DEF UserHeapInv, UserTypeOK
  <2>1. /\ user_heap_end' = SbrkEnd(total)
        /\ heap_list' = IF new.addr = 0 THEN heap_list ELSE <<new>> \o heap_list
        /\ new.addr = Sbrk(total) /\ new.size = s
    BY <1>2 DEF MallocGrow
  <2>2. CASE Sbrk(total) = 0 /\ SbrkEnd(total) = user_heap_end
    <3>1. heap_list' = heap_list /\ user_heap_end' = user_heap_end
      BY <2>1, <2>2
    <3> QED BY <3>1 DEF UserHeapInv, UserTypeOK, BlocksApart
  <2>3. CASE /\ Sbrk(total) = user_heap_end
             /\ SbrkEnd(total) = user_heap_end + Header + s
             /\ SbrkEnd(total) < UserLimit
    <3>1. new \in UserBlock /\ new.addr = user_heap_end /\ new.addr # 0
      BY <2>0, <2>3 DEF UserBlock
    <3> HIDE DEF new
    <3> DEFINE t == <<new>> \o heap_list
    <3>2. /\ t \in Seq(UserBlock) /\ DOMAIN t = 1..(Len(heap_list) + 1)
          /\ Len(heap_list) \in Nat /\ t[1] = new
          /\ \A i \in 2..(Len(heap_list) + 1) : /\ t[i] = heap_list[i - 1]
                                                /\ i - 1 \in DOMAIN heap_list
      BY <1>0, <3>1
    <3>3. heap_list' = t
      BY <2>1, <3>1
    <3> HIDE DEF t
    <3>4. \A i \in DOMAIN t : i = 1 \/ i \in 2..(Len(heap_list) + 1)
      BY <3>2
    <3>5. \A i \in DOMAIN heap_list : /\ UserStart <= heap_list[i].addr
                                      /\ EndOf(heap_list[i]) <= user_heap_end
                                      /\ EndOf(heap_list[i]) \in Nat
      <4>0. \A i \in DOMAIN heap_list : heap_list[i] \in UserBlock
        BY <1>0
      <4>1. \A i \in DOMAIN heap_list : /\ heap_list[i].addr \in Nat
                                        /\ heap_list[i].size \in Nat
        BY <4>0, UserHeapAssumption, WordAssumption DEF UserBlock
      <4> QED BY <2>0, <4>1 DEF UserHeapInv, EndOf
    <3>6. EndOf(new) = user_heap_end'
      BY <2>0, <2>1, <2>3, <3>1 DEF EndOf
    <3>7. BlocksApart'
      <4> SUFFICES ASSUME NEW i \in DOMAIN t, NEW j \in DOMAIN t, i < j
                   PROVE  EndOf(t[j]) <= t[i].addr
        BY <3>3 DEF BlocksApart, EndOf
      <4>1. j \in 2..(Len(heap_list) + 1)
        BY <3>2, <3>4
      <4>2. CASE i = 1
        BY <3>1, <3>2, <3>5, <4>1, <4>2
      <4>3. CASE i \in 2..(Len(heap_list) + 1)
        <5>1. i - 1 < j - 1
          BY <4>1, <4>3
        <5> QED BY <3>2, <4>1, <4>3, <5>1 DEF UserHeapInv, BlocksApart
      <4> QED BY <3>4, <4>2, <4>3
    <3>8. \A i \in DOMAIN t : /\ UserStart <= t[i].addr
                              /\ EndOf(t[i]) <= user_heap_end'
      <4> TAKE i \in DOMAIN t
      <4>1. user_heap_end <= user_heap_end' /\ user_heap_end' \in Nat
        BY <2>0, <2>1, <2>3
      <4>2. CASE i = 1
        BY <2>0, <3>1, <3>2, <3>6, <4>1, <4>2
      <4>3. CASE i \in 2..(Len(heap_list) + 1)
        BY <2>0, <3>2, <3>5, <4>1, <4>3
      <4> QED BY <3>4, <4>2, <4>3
    <3>9. UserStart <= user_heap_end' /\ user_heap_end' < UserLimit
      BY <2>0, <2>1, <2>3
    <3>10. UserTypeOK'
      <4>1. user_heap_end' \in Nat
        BY <2>0, <2>1, <2>3
      <4>2. heap_list' \in Seq(UserBlock)
        BY <3>2, <3>3
      <4> QED BY <4>1, <4>2 DEF UserTypeOK
    <3> QED BY <3>3, <3>7, <3>8, <3>9, <3>10 DEF UserHeapInv, EndOf
  <2> QED BY <2>2, <2>3, SbrkFacts
<1>3. ASSUME NEW k \in DOMAIN heap_list, Free(k) PROVE UserHeapInv'
  BY <1>3, FlagOnly DEF Free
<1>4. CASE UNCHANGED user_vars
  BY <1>4 DEF user_vars, UserHeapInv, UserTypeOK, BlocksApart
<1> QED BY <1>1, <1>2, <1>3, <1>4 DEF UserNext

\* The inductive invariant holds in every reachable state.
THEOREM UserHeapInvariant == ASSUME NoWrap PROVE UserSpec => []UserHeapInv
  BY UserHeapInit, UserHeapStep, PTL DEF UserSpec

\* One more block in front, or none, leaves no gap.
LEMMA NothingLostStep ==
  ASSUME NoWrap
  PROVE  UserHeapInv /\ NothingLost /\ [UserNext]_user_vars => NothingLost'
<1> SUFFICES ASSUME UserHeapInv, NothingLost, [UserNext]_user_vars
             PROVE  NothingLost'
  OBVIOUS
<1>0. heap_list \in Seq(UserBlock) /\ DOMAIN heap_list = 1..Len(heap_list)
  BY DEF UserHeapInv, UserTypeOK
<1>1. ASSUME NEW k \in DOMAIN heap_list, NEW f,
             heap_list' = [heap_list EXCEPT ![k] = SetFree(@, f)],
             UNCHANGED user_heap_end
      PROVE  NothingLost'
  <2>1. DOMAIN heap_list' = DOMAIN heap_list /\ Len(heap_list') = Len(heap_list)
        /\ heap_list' # <<>>
    BY <1>0, <1>1
  <2>2. \A i \in DOMAIN heap_list : /\ heap_list'[i].addr = heap_list[i].addr
                                    /\ heap_list'[i].size = heap_list[i].size
    BY <1>0, <1>1 DEF SetFree
  <2>3. \A i \in DOMAIN heap_list : i # 1 => i - 1 \in DOMAIN heap_list
    BY <1>0
  <2> QED BY <1>1, <2>1, <2>2, <2>3 DEF NothingLost, EndOf
<1>2. ASSUME NEW s \in UserSizes, MallocReuse(s) PROVE NothingLost'
  <2>1. PICK k \in Usable(s) :
          heap_list' = [heap_list EXCEPT ![k] = SetFree(@, FALSE)]
    BY <1>2 DEF MallocReuse
  <2>2. k \in DOMAIN heap_list
    BY DEF Usable
  <2> QED BY <1>1, <1>2, <2>1, <2>2 DEF MallocReuse
<1>3. ASSUME NEW s \in UserSizes, MallocGrow(s) PROVE NothingLost'
  <2> DEFINE total == (Header + s) % Word
             new == [addr |-> Sbrk(total), size |-> s, is_free |-> FALSE]
  <2>0. /\ user_heap_end \in Nat /\ Header \in Nat /\ s \in Nat
        /\ UserStart \in Nat \ {0} /\ UserStart <= user_heap_end
    BY UserHeapAssumption, WordAssumption DEF UserHeapInv, UserTypeOK
  <2>1. /\ user_heap_end' = SbrkEnd(total)
        /\ heap_list' = IF new.addr = 0 THEN heap_list ELSE <<new>> \o heap_list
        /\ new.addr = Sbrk(total) /\ new.size = s
    BY <1>3 DEF MallocGrow
  <2>2. CASE Sbrk(total) = 0 /\ SbrkEnd(total) = user_heap_end
    <3>1. heap_list' = heap_list /\ user_heap_end' = user_heap_end
      BY <2>1, <2>2
    <3> QED BY <3>1 DEF NothingLost, EndOf
  <2>3. CASE /\ Sbrk(total) = user_heap_end
             /\ SbrkEnd(total) = user_heap_end + Header + s
             /\ SbrkEnd(total) < UserLimit
    <3>1. new \in UserBlock /\ new.addr = user_heap_end /\ new.addr # 0
      BY <2>0, <2>3 DEF UserBlock
    <3>2. EndOf(new) = user_heap_end'
      BY <2>0, <2>1, <2>3, <3>1 DEF EndOf
    <3> HIDE DEF new
    <3> DEFINE t == <<new>> \o heap_list
    <3>3. /\ t \in Seq(UserBlock) /\ DOMAIN t = 1..Len(t) /\ t # <<>>
          /\ Len(heap_list) \in Nat /\ Len(t) = Len(heap_list) + 1 /\ t[1] = new
          /\ \A i \in 2..Len(t) : /\ t[i] = heap_list[i - 1]
                                   /\ i - 1 \in DOMAIN heap_list
      BY <1>0, <3>1
    <3>4. heap_list' = t
      BY <2>1, <3>1
    <3> HIDE DEF t
    <3>5. ASSUME NEW i \in DOMAIN t
          PROVE  /\ EndOf(t[i]) = IF i = 1 THEN user_heap_end' ELSE t[i - 1].addr
                 /\ i = Len(t) => t[i].addr = UserStart
      <4>1. CASE i = 1
        <5>1. Len(t) = 1 => heap_list = <<>>
          BY <1>0, <3>3
        <5> QED BY <3>1, <3>2, <3>3, <4>1, <5>1 DEF NothingLost
      <4>2. CASE i # 1
        <5>1. i \in 2..Len(t) /\ t[i] = heap_list[i - 1] /\ i - 1 \in DOMAIN heap_list
          BY <3>3, <4>2
        <5>2. i = Len(t) => i - 1 = Len(heap_list)
          BY <3>3
        <5>3. CASE i = 2
          BY <3>1, <3>3, <5>1, <5>2, <5>3 DEF NothingLost
        <5>4. CASE i # 2
          <6>1. i - 1 \in 2..Len(t) /\ i - 1 # 1 /\ t[i - 1] = heap_list[(i - 1) - 1]
            BY <3>3, <5>1, <5>4
          <6> QED BY <4>2, <5>1, <5>2, <6>1 DEF NothingLost
        <5> QED BY <5>3, <5>4
      <4> QED BY <4>1, <4>2
    <3> QED BY <3>3, <3>4, <3>5 DEF NothingLost, EndOf
  <2> QED BY <2>2, <2>3, SbrkFacts
<1>4. ASSUME NEW k \in DOMAIN heap_list, Free(k) PROVE NothingLost'
  BY <1>1, <1>4 DEF Free
<1>5. CASE UNCHANGED user_vars
  BY <1>5 DEF user_vars, NothingLost, EndOf
<1> QED BY <1>2, <1>3, <1>4, <1>5 DEF UserNext

\* The blocks of the list fill the heap up to the break (main.cpp:24-52,
\* interrupts.cpp:168-179): no refused request and no reuse leaves a gap.
THEOREM UserNothingLost == ASSUME NoWrap PROVE UserSpec => []NothingLost
<1>1. UserInit => NothingLost
  BY DEF UserInit, NothingLost
<1>2. UserHeapInv /\ NothingLost /\ [UserNext]_user_vars => NothingLost'
  BY NothingLostStep
<1>3. UserSpec => []UserHeapInv
  BY UserHeapInvariant
<1> QED BY <1>1, <1>2, <1>3, PTL DEF UserSpec

\* Blocks keep their place and size for ever.
THEOREM UserBlocksStay == ASSUME NoWrap PROVE UserSpec => BlocksStay
<1> DEFINE A == \A i \in DOMAIN heap_list :
                  \E j \in DOMAIN heap_list' :
                    /\ heap_list'[j].addr = heap_list[i].addr
                    /\ heap_list'[j].size = heap_list[i].size
<1>1. UserHeapInv /\ [UserNext]_user_vars => [A]_user_vars
  <2> SUFFICES ASSUME UserHeapInv, UserNext PROVE A
    OBVIOUS
  <2>0. heap_list \in Seq(UserBlock) /\ DOMAIN heap_list = 1..Len(heap_list)
    BY DEF UserHeapInv, UserTypeOK
  <2>1. ASSUME NEW k \in DOMAIN heap_list, NEW f \in BOOLEAN,
               heap_list' = [heap_list EXCEPT ![k] = SetFree(@, f)]
        PROVE  A
    <3>1. DOMAIN heap_list' = DOMAIN heap_list
      BY <2>0, <2>1
    <3>2. \A i \in DOMAIN heap_list :
            heap_list'[i] = IF i = k THEN SetFree(heap_list[k], f) ELSE heap_list[i]
      BY <2>0, <2>1
    <3>3. /\ SetFree(heap_list[k], f).addr = heap_list[k].addr
          /\ SetFree(heap_list[k], f).size = heap_list[k].size
      BY DEF SetFree
    <3> QED BY <3>1, <3>2, <3>3
  <2>2. ASSUME NEW s \in UserSizes, MallocReuse(s) PROVE A
    BY <2>1, <2>2 DEF MallocReuse, Usable
  <2>3. ASSUME NEW s \in UserSizes, MallocGrow(s) PROVE A
    <3> DEFINE total == (Header + s) % Word
               new == [addr |-> Sbrk(total), size |-> s, is_free |-> FALSE]
    <3>1. heap_list' = heap_list \/ heap_list' = <<new>> \o heap_list
      BY <2>3 DEF MallocGrow
    <3>2. CASE heap_list' = heap_list
      BY <3>2
    <3>3. CASE heap_list' = <<new>> \o heap_list
      <4> SUFFICES ASSUME NEW i \in DOMAIN heap_list
                   PROVE  \E j \in DOMAIN heap_list' : heap_list'[j] = heap_list[i]
        OBVIOUS
      <4>0. <<new>> \in Seq({new}) /\ Len(<<new>>) = 1
        OBVIOUS
      <4> HIDE DEF new
      <4>1. i + 1 \in DOMAIN heap_list' /\ heap_list'[i + 1] = heap_list[i]
        BY <2>0, <3>3
      <4> QED BY <4>1
    <3> QED BY <3>1, <3>2, <3>3
  <2>4. ASSUME NEW k \in DOMAIN heap_list, Free(k) PROVE A
    BY <2>1, <2>4 DEF Free
  <2> QED BY <2>2, <2>3, <2>4 DEF UserNext
<1> QED BY <1>1, UserHeapInvariant, PTL DEF UserSpec, BlocksStay

-----------------------------------------------------------------------------
(* The booted machine runs the two allocators as they are above.           *)

\* Every step of the machine is a call of the kernel heap, or leaves it alone.
LEMMA KernelHeapStep == [MemoryNext]_all_vars => [Next]_vars
<1> SUFFICES ASSUME [MemoryNext]_all_vars PROVE [Next]_vars
  OBVIOUS
<1>0. Page \in Sizes /\ 2 * Page \in Sizes
  BY BootAssumption
<1>1. CASE InitGdt
  BY <1>1 DEF InitGdt, kernel_vars, vars
<1>2. CASE InitDirectory
  BY <1>0, <1>2 DEF InitDirectory, Next
<1>3. CASE InitTable
  BY <1>0, <1>3 DEF InitTable, Next
<1>4. CASE MapFramebuffer
  <2>1. DoKmalloc(Page) \/ UNCHANGED kernel_vars
    BY <1>4 DEF MapFramebuffer, MapMemory
  <2> QED BY <1>0, <2>1 DEF Next, kernel_vars, vars
<1>5. CASE BootDone
  BY <1>5 DEF BootDone, kernel_vars, vars
<1>6. CASE KernelStep
  BY <1>6 DEF KernelStep, Next
<1>7. CASE UserStep
  BY <1>7 DEF UserStep, kernel_vars, vars
<1>8. CASE UNCHANGED all_vars
  BY <1>8 DEF all_vars, kernel_vars, vars
<1> QED BY <1>1, <1>2, <1>3, <1>4, <1>5, <1>6, <1>7, <1>8 DEF MemoryNext

\* Every step of the machine is a call of the program's heap, or leaves it
\* alone.
LEMMA UserHeapAlone == [MemoryNext]_all_vars => [UserNext]_user_vars
<1> SUFFICES ASSUME [MemoryNext]_all_vars PROVE [UserNext]_user_vars
  OBVIOUS
<1>1. CASE InitGdt
  BY <1>1 DEF InitGdt
<1>2. CASE InitDirectory
  BY <1>2 DEF InitDirectory
<1>3. CASE InitTable
  BY <1>3 DEF InitTable
<1>4. CASE MapFramebuffer
  BY <1>4 DEF MapFramebuffer
<1>5. CASE BootDone
  BY <1>5 DEF BootDone
<1>6. CASE KernelStep
  BY <1>6 DEF KernelStep
<1>7. CASE UserStep
  BY <1>7 DEF UserStep
<1>8. CASE UNCHANGED all_vars
  BY <1>8 DEF all_vars
<1> QED BY <1>1, <1>2, <1>3, <1>4, <1>5, <1>6, <1>7, <1>8 DEF MemoryNext

\* The boot and the running kernel use the kernel heap as KHeap has it
\* (kernel.cpp:50, paging.cpp:16, 40, 57).
THEOREM BootRunsKernelHeap == MemorySpec => Spec
<1>1. MemoryInit => Init
  BY DEF MemoryInit
<1> QED BY <1>1, KernelHeapStep, PTL DEF MemorySpec, Spec

\* The program's allocator is UserHeap's, whatever the kernel does meanwhile.
THEOREM BootRunsUserHeap == MemorySpec => UserSpec
<1>1. MemoryInit => UserInit
  BY DEF MemoryInit
<1> QED BY <1>1, UserHeapAlone, PTL DEF MemorySpec, UserSpec

\* On the booted machine the kernel heap's invariant holds, page tables
\* included: blocks are inside the heap and never overlap.
THEOREM MachineHeapInvariant == MemorySpec => []HeapInv
  BY BootRunsKernelHeap, HeapInvariant, PTL

\* On the booted machine an exhausted kernel heap never recovers.
THEOREM MachineExhaustion == MemorySpec => ExhaustionIsFinal
  BY BootRunsKernelHeap, HeapExhaustion, PTL

\* On the booted machine the program's blocks fill its heap up to the break,
\* whatever the kernel does meanwhile.
THEOREM MachineNothingLost == ASSUME NoWrap PROVE MemorySpec => []NothingLost
<1>1. UserSpec => []NothingLost
  BY UserNothingLost
<1> QED BY <1>1, BootRunsUserHeap, PTL

\* On the booted machine a program's block never moves.
THEOREM MachineBlocksStay == ASSUME NoWrap PROVE MemorySpec => BlocksStay
<1>1. UserSpec => BlocksStay
  BY UserBlocksStay
<1> QED BY <1>1, BootRunsUserHeap, PTL

-----------------------------------------------------------------------------
(* Descriptors.                                                            *)

\* A number is its bytes.
LEMMA ByteFacts ==
  ASSUME NEW x \in Nat
  PROVE  /\ x = (x \div 256) * 256 + (x % 256)
         /\ x \div 256 = (x \div 65536) * 256 + ((x \div 256) % 256)
         /\ x \div 65536 = (x \div 16777216) * 256 + ((x \div 65536) % 256)
         /\ x \div 256 \in Nat /\ x \div 65536 \in Nat /\ x \div 16777216 \in Nat
         /\ x % 256 \in Nat /\ (x \div 256) % 256 \in Nat
         /\ (x \div 65536) % 256 \in Nat
  BY SMT

\* The packing loses nothing of the base, and less than a page of the limit,
\* for any 32-bit base and limit.
LEMMA DescriptorDecodes ==
  ASSUME NEW base, Is32(base), NEW limit, Is32(limit), NEW type
  PROVE  LET d == SegmentDescriptor(base, limit, type)
         IN  /\ Base(d) = base
             /\ Limit(d) \in (limit - 4096)..limit
<1> USE DEF Is32
<1> DEFINE d == SegmentDescriptor(base, limit, type)
           l == IF limit <= 65536 THEN limit ELSE PagesOf(limit)
           f == IF limit <= 65536 THEN 64 ELSE 192
<1>1. /\ d[0] = l % 256 /\ d[1] = (l \div 256) % 256
      /\ d[2] = base % 256 /\ d[3] = (base \div 256) % 256
      /\ d[4] = (base \div 65536) % 256
      /\ d[6] = f + ((l \div 65536) % 16)
      /\ d[7] = (base \div 16777216) % 256
  BY SMT DEF SegmentDescriptor
<1> HIDE DEF d
<1>2. Base(d) = base
  <2>1. (base \div 16777216) % 256 = base \div 16777216
    BY SMT
  <2> QED BY SMT, <1>1, <2>1, ByteFacts DEF Base
<1>3. l \in Nat /\ l < 1048576
  <2>1. CASE limit <= 65536
    BY SMT, <2>1
  <2>2. CASE ~(limit <= 65536)
    BY SMT, <2>2 DEF PagesOf
  <2> QED BY SMT, <2>1, <2>2
<1>4. limit <= 65536 => l = limit
  BY SMT
<1>5. ~(limit <= 65536) => (l * 4096) + 4095 \in (limit - 4096)..limit
  BY SMT DEF PagesOf
<1>6. f \in {64, 192} /\ (f = 192 <=> ~(limit <= 65536))
  BY SMT
<1> HIDE DEF l, f
<1>7. (l \div 65536) % 16 = l \div 65536 /\ l \div 65536 \in 0..15
  BY SMT, <1>3
<1>8. d[6] % 16 = l \div 65536 /\ Flags(d[6]) = f
  BY SMT, <1>1, <1>6, <1>7 DEF Flags
<1>9. ((d[6] % 16) * 256 + d[1]) * 256 + d[0] = l
  <2>1. l = (l \div 256) * 256 + (l % 256)
        /\ l \div 256 = (l \div 65536) * 256 + ((l \div 256) % 256)
    BY SMT, <1>3, ByteFacts
  <2>2. d[0] = l % 256 /\ d[1] = (l \div 256) % 256
    BY SMT, <1>1
  <2> QED BY SMT, <1>8, <2>1, <2>2
<1>10. Limit(d) = IF f = 192 THEN (l * 4096) + 4095 ELSE l
  BY SMT, <1>8, <1>9 DEF Limit
<1>11. Limit(d) \in (limit - 4096)..limit
  BY SMT, <1>4, <1>5, <1>6, <1>10
<1> QED BY SMT, <1>2, <1>11 DEF d

\* The segments reach the processor as they were asked for (gdt.cpp:3-108).
THEOREM SegmentsDecodeHolds == MemorySpec => []SegmentsDecode
<1>1. MemoryInit => SegmentsDecode
  BY DEF MemoryInit, SegmentsDecode
<1>2. SegmentsDecode /\ [MemoryNext]_all_vars => SegmentsDecode'
  <2> SUFFICES ASSUME SegmentsDecode, [MemoryNext]_all_vars PROVE SegmentsDecode'
    OBVIOUS
  <2>1. CASE InitGdt
    <3>1. PICK tss \in TssBases :
            gdt' = [k \in 1..6 |-> LET d == Descriptors(tss)[k]
                                   IN  SegmentDescriptor(d.base, d.limit, d.type)]
      BY <2>1 DEF InitGdt
    <3>2. ASSUME NEW k \in 1..6
          PROVE  /\ Base(gdt'[k]) = Descriptors(tss)[k].base
                 /\ Limit(gdt'[k]) \in (Descriptors(tss)[k].limit - 4096)
                                         ..Descriptors(tss)[k].limit
      <4> DEFINE d == Descriptors(tss)[k]
      <4>1. d.base \in {0, tss} /\ d.limit \in {0, 104, 64 * 1024 * 1024}
        BY SMT DEF Descriptors
      <4> HIDE DEF d
      <4>2. Is32(d.base)
        BY SMT, <4>1, BootAssumption DEF Is32
      <4>3. Is32(d.limit)
        BY SMT, <4>1 DEF Is32
      <4>4. gdt'[k] = SegmentDescriptor(d.base, d.limit, d.type)
        BY SMT, <3>1 DEF d
      <4> QED BY SMT, <4>2, <4>3, <4>4, DescriptorDecodes DEF d
    <3>3. DOMAIN gdt' = 1..6
      BY SMT, <3>1
    <3> QED BY SMT, <3>2, <3>3 DEF SegmentsDecode
  <2>2. CASE ~InitGdt
    <3>1. gdt' = gdt
      BY <2>2 DEF MemoryNext, InitDirectory, InitTable, MapFramebuffer, BootDone,
         KernelStep, UserStep, all_vars, boot_vars
    <3> QED BY SMT, <3>1 DEF SegmentsDecode
  <2> QED BY <2>1, <2>2
<1> QED BY <1>1, <1>2, PTL DEF MemorySpec

-----------------------------------------------------------------------------
(* Division.                                                               *)

\* Products grow with a factor.
LEMMA MulMono ==
  ASSUME NEW m \in Nat, NEW x \in Int, NEW y \in Int, x <= y
  PROVE  m * x <= m * y
  BY SMT

\* Quotient and remainder.
LEMMA DivMod ==
  ASSUME NEW a \in Nat, NEW m \in Nat \ {0}
  PROVE  /\ a = m * (a \div m) + (a % m) /\ a \div m \in Nat
         /\ a % m \in Nat /\ a % m < m
  BY SMT

\* They are unique.
LEMMA DivUnique ==
  ASSUME NEW m \in Nat \ {0}, NEW q \in Nat, NEW r \in Nat, r < m
  PROVE  (m * q + r) \div m = q /\ (m * q + r) % m = r
<1> DEFINE a == m * q + r
           d == a \div m
           s == a % m
<1>1. a \in Nat
  BY SMT
<1>2. a = m * d + s /\ d \in Nat /\ s \in Nat /\ s < m
  BY <1>1, DivMod
<1>3. a = m * q + r
  OBVIOUS
<1> HIDE DEF a, d, s
<1>4. ~(d < q)
  <2> SUFFICES ASSUME d + 1 <= q PROVE FALSE
    BY <1>2
  <2>1. m * (d + 1) <= m * q
    BY <1>2, MulMono
  <2>2. m * (d + 1) = m * d + m
    BY <1>2, SMT
  <2> QED BY <1>2, <1>3, <2>1, <2>2, SMT
<1>5. ~(q < d)
  <2> SUFFICES ASSUME q + 1 <= d PROVE FALSE
    BY <1>2
  <2>1. m * (q + 1) <= m * d
    BY <1>2, MulMono
  <2>2. m * (q + 1) = m * q + m
    BY <1>2, SMT
  <2> QED BY <1>2, <1>3, <2>1, <2>2, SMT
<1>6. d = q
  BY <1>2, <1>4, <1>5
<1>7. s = r
  BY <1>2, <1>3, <1>6, SMT
<1> QED BY <1>6, <1>7 DEF d, s, a

\* Multiples.
LEMMA DivExact ==
  ASSUME NEW a \in Nat, NEW m \in Nat \ {0}, a % m = 0
  PROVE  a \div m \in Nat /\ a = m * (a \div m)
<1> DEFINE d == a \div m
           r == a % m
<1>1. a = m * d + r /\ d \in Nat /\ r = 0
  BY DivMod
<1>2. m * d \in Nat
  BY <1>1, SMT
<1> HIDE DEF d, r
<1>3. a = m * d /\ d \in Nat
  BY <1>1, <1>2
<1> QED BY <1>3 DEF d

\* A multiple leaves no remainder.
LEMMA MulExact ==
  ASSUME NEW m \in Nat \ {0}, NEW q \in Nat
  PROVE  (m * q) \div m = q /\ (m * q) % m = 0
<1>1. m * q \in Nat /\ m * q = m * q + 0
  BY SMT
<1>2. (m * q + 0) \div m = q /\ (m * q + 0) % m = 0
  BY DivUnique
<1> QED BY <1>1, <1>2

-----------------------------------------------------------------------------
(* Page tables.                                                            *)

Index == 0..(Entries - 1)

\* The page that entry j of table i is for, and back.
PageAt(i, j) == i * Span + j * Page
Dir(p) == p \div Span
Idx(p) == (p \div Page) % Entries

\* The addresses of the entries of a table at t.
Slots(t) == {t + 4 * j : j \in Index}

\* Memory m holds a directory at pd whose tables, one page each and no two the
\* same, map the pages of map to themselves and nothing else.
Translates(m, pd, map) ==
  /\ \A x \in DOMAIN m : x \in Nat /\ x % 4 = 0
  /\ \A i \in Index : pd + 4 * i \in DOMAIN m
  /\ \A i \in Index :
       m[pd + 4 * i].present =>
         LET t == m[pd + 4 * i].base
         IN  /\ t \in Nat /\ t % Page = 0 /\ t # pd
             /\ \A j \in Index :
                  /\ t + 4 * j \in DOMAIN m
                  /\ PageAt(i, j) \in map => m[t + 4 * j] = Entry(PageAt(i, j))
                  /\ PageAt(i, j) \notin map => m[t + 4 * j] = Absent
  /\ \A i, k \in Index :
       i # k /\ m[pd + 4 * i].present /\ m[pd + 4 * k].present
         => m[pd + 4 * i].base # m[pd + 4 * k].base
  /\ \A i, j \in Index : PageAt(i, j) \in map => m[pd + 4 * i].present

\* w is m with entry e written at a, and with table e written at t.
PutEntry(w, m, a, e) ==
  /\ DOMAIN w = DOMAIN m \cup {a}
  /\ w[a] = e
  /\ \A x \in DOMAIN m : x # a => w[x] = m[x]

PutTable(w, m, t, e) ==
  /\ DOMAIN w = DOMAIN m \cup Slots(t)
  /\ \A j \in Index : w[t + 4 * j] = e[j]
  /\ \A x \in DOMAIN m : x \notin Slots(t) => w[x] = m[x]

\* Table e maps the pages of map among those of entry i.
TableFor(e, i, map) ==
  /\ DOMAIN e = Index
  /\ \A j \in Index : /\ PageAt(i, j) \in map => e[j] = Entry(PageAt(i, j))
                      /\ PageAt(i, j) \notin map => e[j] = Absent

\* The two sets differ in pages of entry i only.
AgreeOff(i, map, map2) ==
  \A k, j \in Index : k # i => (PageAt(k, j) \in map2 <=> PageAt(k, j) \in map)

\* t is a page that holds neither the directory nor a table.
Unused(m, pd, t) ==
  /\ t \in Nat /\ t % Page = 0 /\ t # pd
  /\ \A k \in Index : m[pd + 4 * k].present => m[pd + 4 * k].base # t

\* w has the directory of m, but with the table at t for entry i.
NewTable(w, m, pd, i, t) ==
  /\ w[pd + 4 * i].present /\ w[pd + 4 * i].base = t
  /\ \A k \in Index : k # i => w[pd + 4 * k] = m[pd + 4 * k]

\* Entry i of the directory is the table at t.
Points(m, pd, i, t) == m[pd + 4 * i].present /\ m[pd + 4 * i].base = t

Plus(map, p) == map \cup {p}

\* w has the directory of m.
SameTables(w, m, pd) == \A k \in Index : w[pd + 4 * k] = m[pd + 4 * k]

\* The pages the boot has mapped so far.
Mapped ==
  {p \in Pages : IF pc = "table" THEN p < n * Span
                 ELSE p < Tables * Span \/ (fb.addr <= p /\ p < fb.addr + n)}

\* b is a block whose last page is t.
Owns(b, t) == b.addr <= t /\ b.addr + b.size = t + Page

Owned(t) == \E b \in blocks : Owns(b, t)

\* Bytes of heap that the tables of the framebuffer mapped so far have taken
\* at most.
FbTables == IF n = 0 THEN 0 ELSE Dir((fb.addr + n) - Page) - Dir(fb.addr) + 1

TablesEnd == HeapStart + 2 * Page * (Tables + 1)

Booting ==
  /\ heap_curr % Page = 0
  /\ pc = "table" => /\ n < Tables
                     /\ heap_curr = HeapStart + 2 * Page * (n + 1)
  /\ pc = "framebuffer" => heap_curr <= TablesEnd + Page * FbTables

\* The inductive invariant of the boot.
BootInv ==
  /\ pc \in {"gdt", "directory", "table", "framebuffer", "run"}
  /\ n \in Nat
  /\ fb \in [addr : FbAddrs, size : FbSizes]
  /\ pc \in {"gdt", "directory"} =>
       /\ page_directory = 0 /\ DOMAIN mem = {} /\ n = 0 /\ heap_curr = HeapStart
  /\ pc \in {"table", "framebuffer", "run"} =>
       /\ page_directory \in Nat \ {0} /\ page_directory % Page = 0
       /\ Translates(mem, page_directory, Mapped)
       /\ Owned(page_directory)
       /\ \A i \in Index : mem[page_directory + 4 * i].present
                             => Owned(mem[page_directory + 4 * i].base)
  /\ pc \in {"table", "framebuffer"} => Booting
  /\ pc \in {"framebuffer", "run"} => n % Page = 0 /\ n < fb.size + Page
  /\ pc = "run" => fb.size <= n

-----------------------------------------------------------------------------
(* Addresses of pages and tables.                                          *)

\* The sizes of a page, a table and an address space.
LEMMA PageFacts ==
  /\ Page \in Nat \ {0} /\ Entries \in Nat \ {0} /\ Span \in Nat \ {0}
  /\ Page = 4 * Entries /\ Span = Entries * Page /\ Word = Entries * Span
  /\ Tables \in Nat /\ 1 <= Tables /\ Tables <= Entries
<1>1. Page \in Nat \ {0} /\ Page = 4 * Entries /\ Entries \in Nat \ {0}
  BY BootAssumption, SMT DEF Entries
<1>2. Entries * Page \in Nat \ {0}
  BY <1>1, SMT
<1> QED BY <1>1, <1>2, BootAssumption DEF Span

\* An entry is for a page, whose parts are the indices of the entry.
LEMMA PageSplit ==
  ASSUME NEW i \in Nat, NEW j \in Index
  PROVE  /\ PageAt(i, j) \in Nat
         /\ PageAt(i, j) % Page = 0
         /\ Dir(PageAt(i, j)) = i
         /\ Idx(PageAt(i, j)) = j
<1>0. j \in Nat /\ j <= Entries - 1
  BY PageFacts DEF Index
<1>1. j * Page \in Nat /\ j * Page < Span
  <2>1. Page * j <= Page * (Entries - 1)
    BY <1>0, PageFacts, MulMono
  <2>2. Page * (Entries - 1) = Span - Page
    BY PageFacts, SMT
  <2> QED BY <1>0, <2>1, <2>2, PageFacts
<1>2. PageAt(i, j) = Span * i + j * Page /\ PageAt(i, j) \in Nat
  BY <1>1, PageFacts DEF PageAt
<1>3. Dir(PageAt(i, j)) = i
  BY <1>1, <1>2, PageFacts, DivUnique DEF Dir
<1>4. PageAt(i, j) = Page * (Entries * i + j) /\ Entries * i + j \in Nat
  <2>1. Span * i = Page * (Entries * i)
    BY PageFacts, SMT
  <2>2. Page * (Entries * i + j) = Page * (Entries * i) + Page * j
    BY <1>0, PageFacts, SMT
  <2> QED BY <1>0, <1>2, <2>1, <2>2, PageFacts
<1>5. PageAt(i, j) \div Page = Entries * i + j /\ PageAt(i, j) % Page = 0
  <2> DEFINE q == Entries * i + j
  <2>1. q \in Nat /\ PageAt(i, j) = Page * q
    BY <1>4
  <2> HIDE DEF q
  <2>2. PageAt(i, j) \div Page = q /\ PageAt(i, j) % Page = 0
    BY <2>1, PageFacts, MulExact
  <2> QED BY <2>2 DEF q
<1>6. (Entries * i + j) % Entries = j
  BY <1>0, PageFacts, DivUnique
<1> QED BY <1>2, <1>3, <1>5, <1>6 DEF Idx

\* Every page has an entry.
LEMMA PageJoin ==
  ASSUME NEW p \in Nat, p % Page = 0, p < Word
  PROVE  /\ Dir(p) \in Index /\ Idx(p) \in Index
         /\ p = PageAt(Dir(p), Idx(p))
<1> DEFINE q == p \div Page
           a == q \div Entries
           b == q % Entries
<1>1. q \in Nat /\ p = Page * q
  BY DivExact, PageFacts
<1>2. a \in Nat /\ b \in Nat /\ b < Entries /\ q = Entries * a + b
  BY <1>1, DivMod, PageFacts
<1>3. b \in Index
  BY <1>2, PageFacts DEF Index
<1>4. p = PageAt(a, b)
  <2> HIDE DEF q, a, b
  <2>1. Page * (Entries * a + b) = Page * (Entries * a) + Page * b
    BY <1>2, PageFacts, SMT
  <2>2. Page * (Entries * a) = a * Span
    BY <1>2, PageFacts, SMT
  <2> QED BY <1>1, <1>2, <2>1, <2>2, PageFacts DEF PageAt
<1>5. Dir(p) = a /\ Idx(p) = b
  BY <1>2, <1>3, <1>4, PageSplit
<1>6. a < Entries
  <2> SUFFICES ASSUME Entries <= a PROVE FALSE
    BY <1>2, PageFacts
  <2>1. Span * Entries <= Span * a
    BY <1>2, PageFacts, MulMono
  <2>2. p = a * Span + b * Page /\ b * Page \in Nat
    BY <1>2, <1>4, PageFacts DEF PageAt
  <2> HIDE DEF a, b
  <2> QED BY <1>2, <2>1, <2>2, PageFacts
<1> QED BY <1>2, <1>3, <1>4, <1>5, <1>6, PageFacts DEF Index

\* The pages of the first k tables are those below k * Span.
LEMMA PageBelow ==
  ASSUME NEW i \in Nat, NEW j \in Index, NEW k \in Nat
  PROVE  PageAt(i, j) < k * Span <=> i < k
<1>0. j \in Nat /\ j <= Entries - 1
  BY PageFacts DEF Index
<1>1. j * Page \in Nat /\ j * Page < Span
  <2>1. Page * j <= Page * (Entries - 1)
    BY <1>0, PageFacts, MulMono
  <2>2. Page * (Entries - 1) = Span - Page
    BY PageFacts, SMT
  <2> QED BY <1>0, <2>1, <2>2, PageFacts
<1>2. ASSUME i < k PROVE PageAt(i, j) < k * Span
  <2>1. Span * (i + 1) <= Span * k
    BY <1>2, PageFacts, MulMono
  <2>2. Span * (i + 1) = i * Span + Span
    BY PageFacts, SMT
  <2> QED BY <1>1, <2>1, <2>2, PageFacts DEF PageAt
<1>3. ASSUME k <= i PROVE k * Span <= PageAt(i, j)
  <2>1. Span * k <= Span * i
    BY <1>3, PageFacts, MulMono
  <2> QED BY <1>1, <2>1, PageFacts DEF PageAt
<1>4. PageAt(i, j) \in Nat /\ k * Span \in Nat
  BY PageSplit, PageFacts
<1> QED BY <1>2, <1>3, <1>4

\* Pages are the multiples of Page.
LEMMA PagesFacts ==
  ASSUME NEW p
  PROVE  p \in Pages <=> p \in Nat /\ p % Page = 0 /\ p < Word
<1>1. Word \div Page = Entries * Entries /\ Entries * Entries \in Nat
      /\ Word = Page * (Entries * Entries)
  <2>1. Word = Page * (Entries * Entries)
    BY PageFacts, SMT
  <2>2. Entries * Entries \in Nat
    BY PageFacts, SMT
  <2> QED BY <2>1, <2>2, PageFacts, MulExact
<1> DEFINE N == Entries * Entries
<1>2. N \in Nat /\ Word = Page * N /\ Pages = {q * Page : q \in 0..(N - 1)}
  BY <1>1 DEF Pages
<1> HIDE DEF N
<1>3. ASSUME p \in Pages PROVE p \in Nat /\ p % Page = 0 /\ p < Word
  <2>1. PICK q \in 0..(N - 1) : p = q * Page
    BY <1>2, <1>3
  <2>2. q \in Nat /\ p = Page * q /\ q + 1 <= N
    BY <1>2, <2>1, PageFacts
  <2>3. p % Page = 0
    BY <2>2, PageFacts, MulExact
  <2>4. Page * (q + 1) <= Page * N
    BY <1>2, <2>2, PageFacts, MulMono
  <2>5. Page * (q + 1) = Page * q + Page
    BY <2>2, PageFacts, SMT
  <2> QED BY <1>2, <2>2, <2>3, <2>4, <2>5, PageFacts
<1>4. ASSUME p \in Nat, p % Page = 0, p < Word PROVE p \in Pages
  <2> DEFINE q == p \div Page
  <2>1. q \in Nat /\ p = Page * q
    BY <1>4, DivExact, PageFacts
  <2> HIDE DEF q
  <2>2. q < N
    <3> SUFFICES ASSUME N <= q PROVE FALSE
      BY <1>2, <2>1
    <3>1. Page * N <= Page * q
      BY <1>2, <2>1, PageFacts, MulMono
    <3> QED BY <1>2, <1>4, <2>1, <3>1, PageFacts
  <2> QED BY <1>2, <2>1, <2>2, PageFacts
<1> QED BY <1>3, <1>4

\* Two different pages share no byte.
LEMMA PagesApart ==
  ASSUME NEW t \in Nat, NEW u \in Nat, t % Page = 0, u % Page = 0, t < u
  PROVE  t + Page <= u
<1> DEFINE a == t \div Page
           b == u \div Page
<1>1. a \in Nat /\ b \in Nat /\ t = Page * a /\ u = Page * b
  BY DivExact, PageFacts
<1> HIDE DEF a, b
<1>2. ~(b <= a)
  <2> SUFFICES ASSUME b <= a PROVE FALSE
    OBVIOUS
  <2>1. Page * b <= Page * a
    BY <1>1, PageFacts, MulMono
  <2> QED BY <1>1, <2>1, PageFacts
<1>3. Page * (a + 1) <= Page * b
  BY <1>1, <1>2, PageFacts, MulMono
<1>4. Page * (a + 1) = Page * a + Page
  BY <1>1, PageFacts, SMT
<1> QED BY <1>1, <1>3, <1>4, PageFacts

\* The page after a page, and the alignment of one.
LEMMA PageNext ==
  ASSUME NEW t \in Nat, t % Page = 0
  PROVE  /\ (t + Page) % Page = 0
         /\ t % 4 = 0
         /\ PageOf(t) = t /\ PageOf(t + Page) = t + Page
<1> DEFINE a == t \div Page
<1>1. a \in Nat /\ t = Page * a
  BY DivExact, PageFacts
<1> HIDE DEF a
<1>2. t + Page = Page * (a + 1)
  <2>1. Page * (a + 1) = Page * a + Page
    BY <1>1, PageFacts, SMT
  <2> QED BY <1>1, <2>1, PageFacts
<1>3. (t + Page) % Page = 0
  BY <1>1, <1>2, PageFacts, MulExact
<1>4. t % 4 = 0
  <2>1. t = 4 * (Entries * a) /\ Entries * a \in Nat
    BY <1>1, PageFacts, SMT
  <2> QED BY <2>1, MulExact
<1> QED BY <1>3, <1>4, PageFacts DEF PageOf

-----------------------------------------------------------------------------
(* Writes to page structures.                                              *)

\* What the processor reads in an entry.
LEMMA EntryFacts ==
  /\ ~Absent.present
  /\ \A a : Entry(a).present /\ Entry(a).base = PageOf(a)
  BY Zenon DEF Absent, Entry

\* Writing one entry.
LEMMA OverAt ==
  ASSUME NEW m, NEW a, NEW e
  PROVE  PutEntry(Over(At(a, e), m), m, a, e)
  BY DEF PutEntry, Over, At

\* Writing a table.
LEMMA OverFill ==
  ASSUME NEW m, NEW t \in Nat, NEW e, DOMAIN e = Index
  PROVE  PutTable(Over(Fill(t, e), m), m, t, e)
<1> DEFINE f == Fill(t, e)
<1>1. Index \subseteq Nat
  BY PageFacts DEF Index
<1>2. f = [a \in Slots(t) |-> e[(a - t) \div 4]]
  BY DEF Fill, Slots
<1> HIDE DEF f
<1>3. DOMAIN f = Slots(t) /\ \A x \in Slots(t) : f[x] = e[(x - t) \div 4]
  BY <1>2, Zenon
<1>4. ASSUME NEW j \in Index PROVE t + 4 * j \in Slots(t) /\ f[t + 4 * j] = e[j]
  <2>1. t + 4 * j \in Slots(t)
    BY DEF Slots
  <2>2. f[t + 4 * j] = e[((t + 4 * j) - t) \div 4]
    BY <1>3, <2>1, Zenon
  <2>3. ((t + 4 * j) - t) \div 4 = j
    BY <1>1, SMT
  <2> QED BY <2>1, <2>2, <2>3
<1>5. /\ DOMAIN Over(f, m) = DOMAIN f \cup DOMAIN m
      /\ \A x \in DOMAIN f : Over(f, m)[x] = f[x]
      /\ \A x \in DOMAIN m : x \notin DOMAIN f => Over(f, m)[x] = m[x]
  BY DEF Over
<1>6. DOMAIN Over(f, m) = DOMAIN m \cup Slots(t)
  BY <1>3, <1>5
<1>7. ASSUME NEW j \in Index PROVE Over(f, m)[t + 4 * j] = e[j]
  BY <1>3, <1>4, <1>5, Zenon
<1>8. \A x \in DOMAIN m : x \notin Slots(t) => Over(f, m)[x] = m[x]
  BY <1>3, <1>5
<1> QED BY <1>6, <1>7, <1>8 DEF f, PutTable

\* An entry is inside its table.
LEMMA SlotFacts ==
  ASSUME NEW i \in Index
  PROVE  i \in Nat /\ 4 * i \in Nat /\ 4 * i < Page
  BY PageFacts DEF Index

\* Entries of different tables are at different addresses.
LEMMA SlotsApart ==
  ASSUME NEW t \in Nat, NEW u \in Nat, t % Page = 0, u % Page = 0, t # u,
         NEW i \in Index, NEW j \in Index
  PROVE  t + 4 * i # u + 4 * j
<1>1. CASE t < u
  BY <1>1, PagesApart, SlotFacts, PageFacts
<1>2. CASE u < t
  BY <1>2, PagesApart, SlotFacts, PageFacts
<1> QED BY <1>1, <1>2

\* A directory whose entries are all absent.
LEMMA NewDirectory ==
  ASSUME NEW m, DOMAIN m = {}, NEW pd \in Nat, pd % Page = 0,
         NEW w, w = Over(Fill(pd, Vacant), m)
  PROVE  /\ Translates(w, pd, {})
         /\ \A i \in Index : ~w[pd + 4 * i].present
<1>1. DOMAIN Vacant = Index /\ \A i \in Index : Vacant[i] = Absent
  BY DEF Vacant, Index
<1>2. /\ DOMAIN w = Slots(pd)
      /\ \A j \in Index : w[pd + 4 * j] = Absent
  <2>1. PutTable(w, m, pd, Vacant)
    BY <1>1, OverFill, Zenon
  <2> QED BY <1>1, <2>1 DEF PutTable
<1>3. \A i \in Index : ~w[pd + 4 * i].present
  BY <1>2, EntryFacts
<1>4. \A x \in DOMAIN w : x \in Nat /\ x % 4 = 0
  <2> SUFFICES ASSUME NEW j \in Index PROVE pd + 4 * j \in Nat /\ (pd + 4 * j) % 4 = 0
    BY <1>2 DEF Slots
  <2> QED BY SlotFacts, PageNext, SMT
<1>5. \A i \in Index : pd + 4 * i \in DOMAIN w
  BY <1>2 DEF Slots
<1> QED BY <1>3, <1>4, <1>5 DEF Translates

\* A new table for entry i, whatever was there before.
LEMMA AddTable ==
  ASSUME NEW m, NEW pd \in Nat, pd % Page = 0, NEW map, NEW map2,
         Translates(m, pd, map),
         NEW i \in Index, NEW t, Unused(m, pd, t),
         NEW e, TableFor(e, i, map2), AgreeOff(i, map, map2),
         NEW w, w = Over(At(pd + 4 * i, Entry(t)), Over(Fill(t, e), m))
  PROVE  Translates(w, pd, map2) /\ NewTable(w, m, pd, i, t)
<1> USE DEF Unused, TableFor, AgreeOff
<1> DEFINE f == Over(Fill(t, e), m)
<1>1. PutTable(f, m, t, e)
  <2>1. t \in Nat /\ DOMAIN e = Index
    OBVIOUS
  <2> QED BY <2>1, OverFill, Zenon
<1>2. PutEntry(w, f, pd + 4 * i, Entry(t))
  BY OverAt, Zenon
<1> USE DEF PutTable, PutEntry
<1> HIDE DEF f
<1>3. w[pd + 4 * i].present /\ w[pd + 4 * i].base = t
  BY <1>2, EntryFacts, PageNext
<1>4. ASSUME NEW k \in Index, k # i PROVE w[pd + 4 * k] = m[pd + 4 * k]
  <2>1. pd + 4 * k \in DOMAIN m
    BY DEF Translates
  <2>2. pd + 4 * k \notin Slots(t)
    BY SlotsApart DEF Slots
  <2>3. pd + 4 * k # pd + 4 * i
    BY <1>4, SlotFacts
  <2> QED BY <1>1, <1>2, <2>1, <2>2, <2>3
<1>5. ASSUME NEW j \in Index PROVE t + 4 * j \in DOMAIN w /\ w[t + 4 * j] = e[j]
  <2>1. t + 4 * j # pd + 4 * i
    BY SlotsApart
  <2>2. t + 4 * j \in DOMAIN f
    BY <1>1 DEF Slots
  <2> QED BY <1>1, <1>2, <2>1, <2>2
<1>6. ASSUME NEW k \in Index, k # i, m[pd + 4 * k].present, NEW j \in Index
      PROVE  LET u == m[pd + 4 * k].base
             IN  u + 4 * j \in DOMAIN w /\ w[u + 4 * j] = m[u + 4 * j]
  <2> DEFINE u == m[pd + 4 * k].base
  <2>1. u \in Nat /\ u % Page = 0 /\ u # pd /\ u + 4 * j \in DOMAIN m /\ u # t
    BY <1>6 DEF Translates
  <2> HIDE DEF u
  <2>2. u + 4 * j # pd + 4 * i
    BY <2>1, SlotsApart
  <2>3. u + 4 * j \notin Slots(t)
    BY <2>1, SlotsApart DEF Slots
  <2>4. u + 4 * j \in DOMAIN f /\ f[u + 4 * j] = m[u + 4 * j]
    BY <1>1, <2>1, <2>3
  <2>5. u + 4 * j \in DOMAIN w /\ w[u + 4 * j] = m[u + 4 * j]
    BY <1>2, <2>2, <2>4
  <2> QED BY <2>5 DEF u
<1>7. \A x \in DOMAIN w : x \in Nat /\ x % 4 = 0
  <2>1. \A x \in DOMAIN m : x \in Nat /\ x % 4 = 0
    BY DEF Translates
  <2>2. \A j \in Index : t + 4 * j \in Nat /\ (t + 4 * j) % 4 = 0
    BY SlotFacts, PageNext, SMT
  <2>3. pd + 4 * i \in Nat /\ (pd + 4 * i) % 4 = 0
    BY SlotFacts, PageNext, SMT
  <2> QED BY <1>1, <1>2, <2>1, <2>2, <2>3 DEF Slots
<1>8. \A k \in Index : pd + 4 * k \in DOMAIN w
  BY <1>1, <1>2 DEF Translates
<1>9. ASSUME NEW k \in Index, w[pd + 4 * k].present
      PROVE  LET u == w[pd + 4 * k].base
             IN  /\ u \in Nat /\ u % Page = 0 /\ u # pd
                 /\ \A j \in Index :
                      /\ u + 4 * j \in DOMAIN w
                      /\ PageAt(k, j) \in map2 => w[u + 4 * j] = Entry(PageAt(k, j))
                      /\ PageAt(k, j) \notin map2 => w[u + 4 * j] = Absent
  <2>1. CASE k = i
    BY <1>3, <1>5, <2>1
  <2>2. CASE k # i
    <3> DEFINE u == m[pd + 4 * k].base
    <3>1. w[pd + 4 * k] = m[pd + 4 * k] /\ m[pd + 4 * k].present
      BY <1>4, <1>9, <2>2
    <3>2. /\ u \in Nat /\ u % Page = 0 /\ u # pd
          /\ \A j \in Index :
                /\ PageAt(k, j) \in map => m[u + 4 * j] = Entry(PageAt(k, j))
                /\ PageAt(k, j) \notin map => m[u + 4 * j] = Absent
      BY <3>1 DEF Translates
    <3>3. \A j \in Index : u + 4 * j \in DOMAIN w /\ w[u + 4 * j] = m[u + 4 * j]
      BY <1>6, <2>2, <3>1
    <3>4. w[pd + 4 * k].base = u
      BY <3>1
    <3> HIDE DEF u
    <3> QED BY <2>2, <3>2, <3>3, <3>4
  <2> QED BY <2>1, <2>2
<1>10. ASSUME NEW k \in Index, NEW l \in Index, k # l,
              w[pd + 4 * k].present, w[pd + 4 * l].present
       PROVE  w[pd + 4 * k].base # w[pd + 4 * l].base
  <2>1. CASE k = i
    BY <1>3, <1>4, <1>10, <2>1
  <2>2. CASE l = i
    BY <1>3, <1>4, <1>10, <2>2
  <2>3. CASE k # i /\ l # i
    BY <1>4, <1>10, <2>3 DEF Translates
  <2> QED BY <2>1, <2>2, <2>3
<1>11. \A k \in Index, j \in Index : PageAt(k, j) \in map2 => w[pd + 4 * k].present
  <2> SUFFICES ASSUME NEW k \in Index, NEW j \in Index, PageAt(k, j) \in map2
               PROVE  w[pd + 4 * k].present
    OBVIOUS
  <2>1. CASE k = i
    BY <1>3, <2>1
  <2>2. CASE k # i
    BY <1>4, <2>2 DEF Translates
  <2> QED BY <2>1, <2>2
<1>12. Translates(w, pd, map2)
  BY <1>7, <1>8, <1>9, <1>10, <1>11 DEF Translates
<1> QED BY <1>3, <1>4, <1>12 DEF NewTable

\* Another page in a table that is there.
LEMMA AddPage ==
  ASSUME NEW m, NEW pd \in Nat, pd % Page = 0, NEW map, Translates(m, pd, map),
         NEW i \in Index, NEW j \in Index, NEW t, Points(m, pd, i, t),
         NEW w, w = Over(At(t + 4 * j, Entry(PageAt(i, j))), m)
  PROVE  Translates(w, pd, Plus(map, PageAt(i, j))) /\ SameTables(w, m, pd)
<1> DEFINE map2 == Plus(map, PageAt(i, j))
<1>1. PutEntry(w, m, t + 4 * j, Entry(PageAt(i, j)))
  BY OverAt, Zenon
<1>2. t \in Nat /\ t % Page = 0 /\ t # pd /\ t + 4 * j \in DOMAIN m
  BY DEF Translates, Points
<1>3. m[pd + 4 * i].present /\ m[pd + 4 * i].base = t
  BY DEF Points
<1>4. DOMAIN w = DOMAIN m
  BY <1>1, <1>2 DEF PutEntry
<1>5. ASSUME NEW k \in Index PROVE w[pd + 4 * k] = m[pd + 4 * k]
  <2>1. pd + 4 * k \in DOMAIN m
    BY DEF Translates
  <2>2. pd + 4 * k # t + 4 * j
    BY <1>2, SlotsApart
  <2> QED BY <1>1, <2>1, <2>2 DEF PutEntry
<1>6. ASSUME NEW k \in Index, NEW l \in Index
      PROVE  PageAt(k, l) \in map2 <=> PageAt(k, l) \in map \/ (k = i /\ l = j)
  <2>1. k \in Nat /\ i \in Nat
    BY SlotFacts
  <2>2. PageAt(k, l) = PageAt(i, j) => k = i /\ l = j
    BY <2>1, PageSplit
  <2> QED BY <2>2 DEF Plus
<1> HIDE DEF map2
<1>7. ASSUME NEW k \in Index, w[pd + 4 * k].present
      PROVE  LET u == w[pd + 4 * k].base
             IN  /\ u \in Nat /\ u % Page = 0 /\ u # pd
                 /\ \A l \in Index :
                      /\ u + 4 * l \in DOMAIN w
                      /\ PageAt(k, l) \in map2 => w[u + 4 * l] = Entry(PageAt(k, l))
                      /\ PageAt(k, l) \notin map2 => w[u + 4 * l] = Absent
  <2> DEFINE u == m[pd + 4 * k].base
  <2>1. w[pd + 4 * k].base = u /\ m[pd + 4 * k].present
    BY <1>5, <1>7
  <2>2. /\ u \in Nat /\ u % Page = 0 /\ u # pd
        /\ \A l \in Index :
             /\ u + 4 * l \in DOMAIN m
             /\ PageAt(k, l) \in map => m[u + 4 * l] = Entry(PageAt(k, l))
             /\ PageAt(k, l) \notin map => m[u + 4 * l] = Absent
    BY <2>1 DEF Translates
  <2>3. k # i => u # t
    BY <1>3, <2>1 DEF Translates
  <2>4. k = i => u = t
    BY <1>3
  <2> HIDE DEF u
  <2>5. ASSUME NEW l \in Index
        PROVE  /\ u + 4 * l \in DOMAIN w
               /\ PageAt(k, l) \in map2 => w[u + 4 * l] = Entry(PageAt(k, l))
               /\ PageAt(k, l) \notin map2 => w[u + 4 * l] = Absent
    <3>1. CASE k = i /\ l = j
      BY <1>1, <1>4, <1>6, <2>2, <2>4, <3>1 DEF PutEntry
    <3>2. CASE ~(k = i /\ l = j)
      <4>1. u + 4 * l # t + 4 * j
        <5>1. CASE k = i
          BY <1>2, <2>4, <3>2, <5>1, SlotFacts
        <5>2. CASE k # i
          BY <1>2, <2>2, <2>3, <5>2, SlotsApart
        <5> QED BY <5>1, <5>2
      <4>2. w[u + 4 * l] = m[u + 4 * l]
        BY <1>1, <2>2, <4>1 DEF PutEntry
      <4> QED BY <1>4, <1>6, <2>2, <3>2, <4>2
    <3> QED BY <3>1, <3>2
  <2> QED BY <2>1, <2>2, <2>5
<1>8. Translates(w, pd, map2)
  <2>1. /\ \A x \in DOMAIN w : x \in Nat /\ x % 4 = 0
        /\ \A k \in Index : pd + 4 * k \in DOMAIN w
    BY <1>4 DEF Translates
  <2>2. \A k, l \in Index :
          k # l /\ w[pd + 4 * k].present /\ w[pd + 4 * l].present
            => w[pd + 4 * k].base # w[pd + 4 * l].base
    BY <1>5 DEF Translates
  <2>3. \A k, l \in Index : PageAt(k, l) \in map2 => w[pd + 4 * k].present
    BY <1>3, <1>5, <1>6 DEF Translates
  <2> QED BY <1>7, <2>1, <2>2, <2>3 DEF Translates
<1> QED BY <1>5, <1>8 DEF SameTables, map2

\* What the page walk finds.
LEMMA WalkOf ==
  ASSUME NEW m, NEW map, Translates(m, page_directory, map), NEW p \in Pages
  PROVE  Walk(m, p) = IF p \in map THEN p ELSE Fault
<1> DEFINE i == Dir(p)
           j == Idx(p)
           de == m[page_directory + 4 * i]
           pe == m[de.base + 4 * j]
<1>1. p \in Nat /\ p % Page = 0 /\ p < Word
  BY PagesFacts
<1>2. i \in Index /\ j \in Index /\ p = PageAt(i, j)
  BY <1>1, PageJoin
<1>3. Walk(m, p) = IF de.present /\ pe.present THEN pe.base ELSE Fault
  BY DEF Walk, Dir, Idx
<1>4. PageOf(p) = p
  BY <1>1, PageNext
<1> HIDE DEF i, j
<1>5. de.present => /\ p \in map => pe = Entry(p)
                    /\ p \notin map => pe = Absent
  BY <1>2 DEF Translates
<1>6. p \in map => de.present
  BY <1>2 DEF Translates
<1> HIDE DEF de, pe
<1> QED BY <1>3, <1>4, <1>5, <1>6, EntryFacts

-----------------------------------------------------------------------------
(* The boot, step by step.                                                 *)

\* Monotonicity of the directory index.
LEMMA DivMono ==
  ASSUME NEW m \in Nat \ {0}, NEW x \in Nat, NEW y \in Nat, x <= y
  PROVE  x \div m <= y \div m
<1> DEFINE a == x \div m
           r == x % m
           b == y \div m
           s == y % m
<1>1. /\ x = m * a + r /\ a \in Nat /\ r \in Nat /\ r < m
      /\ y = m * b + s /\ b \in Nat /\ s \in Nat /\ s < m
  BY DivMod
<1> HIDE DEF a, r, b, s
<1>2. ~(b + 1 <= a)
  <2> SUFFICES ASSUME b + 1 <= a PROVE FALSE
    OBVIOUS
  <2>1. m * (b + 1) <= m * a
    BY <1>1, MulMono
  <2>2. m * (b + 1) = m * b + m
    BY <1>1, SMT
  <2>3. m * a \in Nat /\ m * b \in Nat
    BY <1>1, SMT
  <2> QED BY <1>1, <2>1, <2>2, <2>3
<1>3. a <= b
  BY <1>1, <1>2
<1> QED BY <1>3 DEF a, b

\* A range of s bytes meets at most s \div m + 2 blocks of m bytes.
LEMMA DivSum ==
  ASSUME NEW m \in Nat \ {0}, NEW a \in Nat, NEW s \in Nat, NEW v \in Nat, v < a + s
  PROVE  v \div m <= (a \div m) + (s \div m) + 1
<1> DEFINE qa == a \div m
           ra == a % m
           qs == s \div m
           rs == s % m
           qv == v \div m
           rv == v % m
<1>1. /\ a = m * qa + ra /\ qa \in Nat /\ ra \in Nat /\ ra < m
      /\ s = m * qs + rs /\ qs \in Nat /\ rs \in Nat /\ rs < m
      /\ v = m * qv + rv /\ qv \in Nat /\ rv \in Nat /\ rv < m
  BY DivMod
<1> HIDE DEF qa, ra, qs, rs, qv, rv
<1>2. ~(qa + qs + 2 <= qv)
  <2> SUFFICES ASSUME qa + qs + 2 <= qv PROVE FALSE
    OBVIOUS
  <2>1. m * (qa + qs + 2) <= m * qv
    BY <1>1, MulMono
  <2>2. m * (qa + qs + 2) = m * qa + m * qs + m + m
    BY <1>1, SMT
  <2>3. m * qa \in Nat /\ m * qs \in Nat /\ m * qv \in Nat
    BY <1>1, SMT
  <2> QED BY <1>1, <2>1, <2>2, <2>3
<1>3. qv <= qa + qs + 1
  BY <1>1, <1>2
<1> QED BY <1>3 DEF qa, qs, qv

\* Sums and differences of pages.
LEMMA PageSum ==
  ASSUME NEW t \in Nat, NEW u \in Nat, t % Page = 0, u % Page = 0
  PROVE  /\ (t + u) % Page = 0
         /\ u <= t => (t - u) % Page = 0
<1> DEFINE a == t \div Page
           b == u \div Page
<1>1. a \in Nat /\ b \in Nat /\ t = Page * a /\ u = Page * b
  BY DivExact, PageFacts
<1> HIDE DEF a, b
<1>2. Page * (a + b) = t + u
  BY <1>1, PageFacts, SMT
<1>3. (t + u) % Page = 0
  <2> DEFINE c == a + b
  <2>1. c \in Nat /\ t + u = Page * c
    BY <1>1, <1>2
  <2> HIDE DEF c
  <2>2. (Page * c) % Page = 0
    BY <2>1, PageFacts, MulExact
  <2> QED BY <2>1, <2>2
<1>4. ASSUME u <= t PROVE (t - u) % Page = 0
  <2>1. b <= a
    <3> SUFFICES ASSUME a + 1 <= b PROVE FALSE
      BY <1>1
    <3>1. Page * (a + 1) <= Page * b
      BY <1>1, PageFacts, MulMono
    <3>2. Page * (a + 1) = Page * a + Page
      BY <1>1, PageFacts, SMT
    <3> QED BY <1>1, <1>4, <3>1, <3>2, PageFacts
  <2>2. Page * (a - b) = t - u
    BY <1>1, PageFacts, SMT
  <2>3. a - b \in Nat
    BY <1>1, <2>1
  <2> QED BY <1>1, <2>2, <2>3, PageFacts, MulExact
<1> QED BY <1>3, <1>4

\* Entries are for pages.
LEMMA PageAtIn ==
  ASSUME NEW i \in Index, NEW j \in Index
  PROVE  PageAt(i, j) \in Pages
<1>1. i \in Nat /\ i < Entries
  BY PageFacts DEF Index
<1>2. PageAt(i, j) < Word
  BY <1>1, PageBelow, PageFacts
<1> QED BY <1>1, <1>2, PageSplit, PagesFacts

\* The blocks that boot asks for are where it expects them.
LEMMA BootAlloc ==
  ASSUME HeapInv, heap_curr % Page = 0, NEW s \in {Page, 2 * Page},
         heap_curr + s < HeapEnd
  PROVE  /\ Kmalloc(heap_curr, s) = heap_curr
         /\ (heap_curr + s) % Page = 0
         /\ AlignedTable(heap_curr) = heap_curr + Page
         /\ DoKmalloc(s) =>
              /\ heap_curr' = heap_curr + s
              /\ blocks' = blocks \cup {[addr |-> heap_curr, size |-> s]}
<1>1. heap_curr \in Nat /\ heap_curr <= HeapEnd /\ heap_curr > 0
  BY HeapAssumption DEF HeapInv, TypeOK
<1>2. heap_curr % 4 = 0 /\ PageOf(heap_curr + Page) = heap_curr + Page
  BY <1>1, PageNext
<1>3. Align4(heap_curr) = heap_curr
  BY <1>2 DEF Align4
<1>4. s \in Sizes
  BY BootAssumption
<1>5. (heap_curr + s) % Word = heap_curr + s /\ Fits(heap_curr, s)
  BY <1>1, <1>3, <1>4, FitsFacts
<1>6. Kmalloc(heap_curr, s) = heap_curr /\ heap_curr # NULL
  BY <1>1, <1>3, <1>5 DEF Kmalloc, NULL
<1>7. (heap_curr + s) % Page = 0
  <2>1. (heap_curr + Page) % Page = 0 /\ heap_curr + Page \in Nat
    BY <1>1, PageNext, PageFacts
  <2>2. ((heap_curr + Page) + Page) % Page = 0
    BY <2>1, PageNext
  <2>3. CASE s = Page
    BY <2>1, <2>3
  <2>4. CASE s = 2 * Page
    <3>1. (heap_curr + Page) + Page = heap_curr + s
      BY <1>1, <2>4, PageFacts
    <3> QED BY <2>2, <3>1
  <2> QED BY <2>3, <2>4
<1>8. DoKmalloc(s) => /\ heap_curr' = heap_curr + s
                      /\ blocks' = blocks \cup {[addr |-> heap_curr, size |-> s]}
  BY <1>3, <1>5, <1>6 DEF DoKmalloc, KmallocCurr
<1> QED BY <1>2, <1>6, <1>7, <1>8 DEF AlignedTable

\* A table's block ends below heap_curr.
LEMMA OwnedBelow ==
  ASSUME HeapInv, NEW t \in Nat, Owned(t)
  PROVE  t + Page <= heap_curr
<1>1. PICK b \in blocks : Owns(b, t)
  BY DEF Owned
<1> QED BY <1>1 DEF Owns, HeapInv

\* A new block keeps the owners, and its last page is owned.
LEMMA OwnedKept ==
  ASSUME blocks \subseteq blocks', NEW t, Owned(t)
  PROVE  \E b \in blocks' : Owns(b, t)
  BY DEF Owned

\* The heap holds all tables.
LEMMA BootRoom ==
  ASSUME fb \in [addr : FbAddrs, size : FbSizes]
  PROVE  /\ fb.addr \in Nat /\ fb.size \in Nat
         /\ fb.addr % Page = 0 /\ fb.addr + fb.size <= Word
         /\ fb.size \div Span \in Nat
         /\ TablesEnd \in Nat
         /\ TablesEnd + Page * ((fb.size \div Span) + 2) < HeapEnd
         /\ TablesEnd < HeapEnd
<1>1. /\ fb.addr \in Nat /\ fb.size \in Nat
      /\ fb.addr % Page = 0 /\ fb.addr + fb.size <= Word
      /\ TablesEnd + Page * ((fb.size \div Span) + 2) < HeapEnd
  BY BootAssumption DEF TablesEnd
<1>2. fb.size \div Span \in Nat
  BY <1>1, PageFacts, DivMod
<1>3. TablesEnd \in Nat
  <2>1. Page * (Tables + 1) \in Nat
    BY PageFacts, SMT
  <2>2. 2 * Page * (Tables + 1) = 2 * (Page * (Tables + 1))
    BY PageFacts, SMT
  <2> QED BY <2>1, <2>2, HeapAssumption DEF TablesEnd
<1>4. Page * ((fb.size \div Span) + 2) \in Nat
  <2> DEFINE k == (fb.size \div Span) + 2
  <2>1. k \in Nat
    BY <1>2
  <2> HIDE DEF k
  <2>2. Page * k \in Nat
    BY <2>1, PageFacts, SMT
  <2> QED BY <2>2 DEF k
<1> QED BY <1>1, <1>2, <1>3, <1>4, HeapAssumption

\* PageTableManager::Init makes the directory.
LEMMA DirectoryStep ==
  ASSUME BootInv, HeapInv, InitDirectory
  PROVE  BootInv'
<1>1. /\ pc = "directory" /\ pc' = "table" /\ DoKmalloc(2 * Page)
      /\ n' = n /\ fb' = fb /\ n = 0 /\ DOMAIN mem = {} /\ heap_curr = HeapStart
      /\ fb \in [addr : FbAddrs, size : FbSizes]
  BY DEF InitDirectory, BootInv
<1>2. heap_curr \in Nat \ {0} /\ heap_curr % Page = 0
  BY <1>1, HeapAssumption, BootAssumption
<1>3. TablesEnd = (HeapStart + 2 * Page) + 2 * (Page * Tables) /\ Page * Tables \in Nat
  BY PageFacts, HeapAssumption, SMT DEF TablesEnd
<1>4. heap_curr + 2 * Page < HeapEnd
  <2> DEFINE x == Page * Tables
  <2>1. TablesEnd < HeapEnd /\ TablesEnd = (HeapStart + 2 * Page) + 2 * x /\ x \in Nat
    BY <1>1, <1>3, BootRoom
  <2> HIDE DEF x
  <2> QED BY <1>1, <2>1, PageFacts, HeapAssumption
<1> DEFINE pd == heap_curr + Page
<1>5. /\ Kmalloc(heap_curr, 2 * Page) = heap_curr
      /\ (heap_curr + 2 * Page) % Page = 0
      /\ AlignedTable(heap_curr) = pd
      /\ heap_curr' = heap_curr + 2 * Page
      /\ blocks' = blocks \cup {[addr |-> heap_curr, size |-> 2 * Page]}
  BY <1>1, <1>2, <1>4, BootAlloc
<1>6. page_directory' = pd /\ mem' = Over(Fill(pd, Vacant), mem)
  BY <1>5 DEF InitDirectory
<1>7. pd \in Nat \ {0} /\ pd % Page = 0
  BY <1>2, PageNext, PageFacts
<1>8. [addr |-> heap_curr, size |-> 2 * Page] \in blocks'
      /\ Owns([addr |-> heap_curr, size |-> 2 * Page], pd)
  BY <1>2, <1>5, PageFacts DEF Owns
<1> HIDE DEF pd
<1>9. Translates(mem', pd, {}) /\ \A i \in Index : ~mem'[pd + 4 * i].present
  BY <1>1, <1>6, <1>7, NewDirectory
<1>10. Mapped' = {}
  <2>1. \A p \in Pages : ~(p < 0 * Span)
    BY PagesFacts, PageFacts
  <2> QED BY <1>1, <2>1 DEF Mapped
<1>11. Booting'
  <2>1. heap_curr' = HeapStart + 2 * Page * (n' + 1)
    BY <1>1, <1>5, PageFacts, SMT
  <2> QED BY <1>1, <1>5, <2>1, PageFacts DEF Booting
<1>12. Owned(page_directory)'
  BY <1>6, <1>8 DEF Owned
<1>13. Translates(mem', page_directory', Mapped')
  BY <1>6, <1>9, <1>10
<1> QED BY <1>1, <1>6, <1>7, <1>9, <1>11, <1>12, <1>13 DEF BootInv

\* PageTableManager::Init fills table n.
LEMMA TableStep ==
  ASSUME BootInv, HeapInv, InitTable
  PROVE  BootInv'
<1> DEFINE pd == page_directory
           pt == heap_curr + Page
           b == [addr |-> heap_curr, size |-> 2 * Page]
<1>1. /\ pc = "table" /\ DoKmalloc(2 * Page)
      /\ pc' = IF n + 1 = Tables THEN "framebuffer" ELSE "table"
      /\ n' = IF n + 1 = Tables THEN 0 ELSE n + 1
      /\ page_directory' = pd /\ fb' = fb
      /\ fb \in [addr : FbAddrs, size : FbSizes] /\ n \in Nat
  BY DEF InitTable, BootInv
<1>2. /\ pd \in Nat \ {0} /\ pd % Page = 0 /\ Translates(mem, pd, Mapped) /\ Owned(pd)
      /\ \A i \in Index : mem[pd + 4 * i].present => Owned(mem[pd + 4 * i].base)
      /\ heap_curr % Page = 0 /\ n < Tables
      /\ heap_curr = HeapStart + 2 * Page * (n + 1)
  BY <1>1 DEF BootInv, Booting
<1>3. heap_curr \in Nat
  BY DEF HeapInv, TypeOK
<1>4. heap_curr + 2 * Page = HeapStart + 2 * Page * ((n + 1) + 1)
  BY <1>1, <1>2, PageFacts, HeapAssumption, SMT
<1>5. heap_curr + 2 * Page < HeapEnd
  <2>1. (2 * Page) * ((n + 1) + 1) <= (2 * Page) * (Tables + 1)
    BY <1>1, <1>2, PageFacts, MulMono
  <2> DEFINE x == (2 * Page) * ((n + 1) + 1)
             y == (2 * Page) * (Tables + 1)
  <2>0. x \in Nat /\ y \in Nat /\ heap_curr + 2 * Page = HeapStart + x
        /\ TablesEnd = HeapStart + y /\ x <= y
    BY <1>1, <1>4, <2>1, PageFacts DEF TablesEnd
  <2> HIDE DEF x, y
  <2>2. heap_curr + 2 * Page <= TablesEnd
    BY <2>0, HeapAssumption
  <2> QED BY <1>1, <1>3, <2>2, BootRoom, PageFacts, HeapAssumption
<1>6. /\ Kmalloc(heap_curr, 2 * Page) = heap_curr
      /\ (heap_curr + 2 * Page) % Page = 0
      /\ AlignedTable(heap_curr) = pt
      /\ heap_curr' = heap_curr + 2 * Page
      /\ blocks' = blocks \cup {b}
  BY <1>1, <1>2, <1>5, BootAlloc
<1>7. mem' = Over(At(pd + 4 * n, Entry(pt)), Over(Fill(pt, Identity(n)), mem))
  BY <1>6 DEF InitTable
<1>8. pt \in Nat /\ pt % Page = 0
  <2>1. heap_curr % Page = 0
    BY <1>2
  <2>2. (heap_curr + Page) % Page = 0
    BY <1>3, <2>1, PageNext
  <2> QED BY <1>3, <2>2, PageFacts
<1>9. b \in blocks' /\ Owns(b, pt)
  BY <1>3, <1>6, PageFacts DEF Owns
<1>10. Unused(mem, pd, pt)
  <2>1. pt # pd
    BY <1>2, <1>3, OwnedBelow, PageFacts
  <2>2. ASSUME NEW k \in Index, mem[pd + 4 * k].present
        PROVE  mem[pd + 4 * k].base # pt
    <3> DEFINE t == mem[pd + 4 * k].base
    <3>1. t \in Nat /\ Owned(t)
      BY <1>2, <2>2 DEF Translates
    <3> HIDE DEF t
    <3>2. t # pt
      BY <1>3, <3>1, OwnedBelow, PageFacts
    <3> QED BY <3>2 DEF t
  <2> QED BY <1>8, <2>1, <2>2 DEF Unused
<1>12. n \in Index
  BY <1>1, <1>2, PageFacts DEF Index
<1>13. \A k \in Index, j \in Index :
         /\ PageAt(k, j) \in Mapped <=> k < n
         /\ PageAt(k, j) \in Mapped' <=> k < n + 1
  <2> SUFFICES ASSUME NEW k \in Index, NEW j \in Index
               PROVE  /\ PageAt(k, j) \in Mapped <=> k < n
                      /\ PageAt(k, j) \in Mapped' <=> k < n + 1
    OBVIOUS
  <2>1. /\ PageAt(k, j) \in Pages /\ PageAt(k, j) \in Nat
        /\ PageAt(k, j) < n * Span <=> k < n
        /\ PageAt(k, j) < (n + 1) * Span <=> k < n + 1
    BY <1>1, PageAtIn, PageBelow, PageSplit, SlotFacts
  <2>2. fb.addr \in Nat /\ fb.size \in Nat
    BY <1>1, BootRoom
  <2>3. PageAt(k, j) \in Mapped <=> k < n
    BY <1>1, <2>1 DEF Mapped
  <2>4. PageAt(k, j) \in Mapped' <=> k < n + 1
    <3>1. CASE n + 1 = Tables
      <4>1. pc' = "framebuffer" /\ n' = 0
        BY <1>1, <3>1
      <4>2. ~(fb.addr <= PageAt(k, j) /\ PageAt(k, j) < fb.addr + 0)
        BY <2>1, <2>2
      <4>3. PageAt(k, j) \in Mapped' <=> PageAt(k, j) < Tables * Span
        BY <1>1, <2>1, <4>1, <4>2 DEF Mapped
      <4> QED BY <2>1, <3>1, <4>3
    <3>2. CASE n + 1 # Tables
      BY <1>1, <2>1, <3>2 DEF Mapped
    <3> QED BY <3>1, <3>2
  <2> QED BY <2>3, <2>4
<1> HIDE DEF pd, pt, b
<1>14. TableFor(Identity(n), n, Mapped')
  <2>1. DOMAIN Identity(n) = Index
        /\ \A j \in Index : Identity(n)[j] = Entry(PageAt(n, j))
    BY DEF Identity, Index, PageAt
  <2>2. \A j \in Index : PageAt(n, j) \in Mapped'
    BY <1>1, <1>12, <1>13
  <2> QED BY <2>1, <2>2 DEF TableFor
<1>15. AgreeOff(n, Mapped, Mapped')
  <2>1. \A k \in Index : k \in Nat
    BY SlotFacts
  <2> QED BY <1>1, <1>12, <1>13, <2>1 DEF AgreeOff
<1>16. Translates(mem', pd, Mapped') /\ NewTable(mem', mem, pd, n, pt)
  <2> DEFINE map == Mapped
             map2 == Mapped'
  <2>1. pd \in Nat /\ pd % Page = 0 /\ Translates(mem, pd, map)
    BY <1>2
  <2>2. TableFor(Identity(n), n, map2) /\ AgreeOff(n, map, map2)
    BY <1>14, <1>15
  <2> HIDE DEF map, map2
  <2>3. Translates(mem', pd, map2) /\ NewTable(mem', mem, pd, n, pt)
    BY <1>7, <1>10, <1>12, <2>1, <2>2, AddTable, Zenon
  <2> QED BY <2>3 DEF map2
<1>17. blocks \subseteq blocks'
  BY <1>6
<1>18. \A i \in Index : mem'[pd + 4 * i].present
                          => \E c \in blocks' : Owns(c, mem'[pd + 4 * i].base)
  <2> SUFFICES ASSUME NEW i \in Index, mem'[pd + 4 * i].present
               PROVE  \E c \in blocks' : Owns(c, mem'[pd + 4 * i].base)
    OBVIOUS
  <2>1. CASE i = n
    BY <1>9, <1>16, <2>1 DEF NewTable
  <2>2. CASE i # n
    BY <1>2, <1>16, <1>17, <2>2, OwnedKept DEF NewTable
  <2> QED BY <2>1, <2>2
<1>19. \E c \in blocks' : Owns(c, pd)
  BY <1>2, <1>17, OwnedKept
<1>20. Booting' /\ n' \in Nat
  <2>1. CASE n + 1 = Tables
    <3>1. pc' = "framebuffer" /\ n' = 0 /\ FbTables' = 0
      BY <1>1, <2>1 DEF FbTables
    <3>2. heap_curr' = TablesEnd /\ TablesEnd \in Nat
      BY <1>1, <1>4, <1>6, <2>1, BootRoom DEF TablesEnd
    <3>3. heap_curr' <= TablesEnd + Page * 0
      BY <3>2, PageFacts
    <3> QED BY <1>6, <3>1, <3>3 DEF Booting, TablesEnd
  <2>2. CASE n + 1 # Tables
    <3>1. pc' = "table" /\ n' = n + 1 /\ n + 1 < Tables
      BY <1>1, <1>2, <2>2, PageFacts
    <3> QED BY <1>1, <1>4, <1>6, <3>1 DEF Booting
  <2> QED BY <2>1, <2>2
<1>21. pc' \in {"table", "framebuffer"} /\ (pc' = "framebuffer" => n' = 0)
  BY <1>1
<1>22. 0 % Page = 0 /\ 0 < fb.size + Page
  BY <1>1, PageFacts, BootRoom
<1>23. Owned(page_directory)' /\ page_directory' = pd
  BY <1>1, <1>19 DEF Owned, pd
<1>24. (\A i \in Index : mem[page_directory + 4 * i].present
                           => Owned(mem[page_directory + 4 * i].base))'
  BY <1>18, <1>23 DEF Owned
<1>25. Translates(mem, page_directory, Mapped)'
  BY <1>16, <1>23
<1>26. page_directory' \in Nat \ {0} /\ page_directory' % Page = 0
  BY <1>2, <1>23
<1> QED BY <1>1, <1>20, <1>21, <1>22, <1>23, <1>24, <1>25, <1>26 DEF BootInv

\* MapMemory, as kernel_main calls it: one page more is mapped, in a table
\* that is there or in a new one.
LEMMA MapStep ==
  ASSUME BootInv, HeapInv, MapFramebuffer
  PROVE  /\ Translates(mem', page_directory, Mapped \cup {fb.addr + n})
         /\ Mapped' = Mapped \cup {fb.addr + n}
         /\ BootInv'
<1> DEFINE pd == page_directory
           v == fb.addr + n
           i == Dir(v)
           j == Idx(v)
<1>1. /\ pc = "framebuffer" /\ pc' = pc /\ n < fb.size /\ n' = n + Page
      /\ page_directory' = pd /\ fb' = fb
      /\ fb \in [addr : FbAddrs, size : FbSizes] /\ n \in Nat
      /\ pd \in Nat \ {0} /\ pd % Page = 0 /\ Translates(mem, pd, Mapped) /\ Owned(pd)
      /\ \A k \in Index : mem[pd + 4 * k].present => Owned(mem[pd + 4 * k].base)
      /\ n % Page = 0
  BY DEF MapFramebuffer, BootInv
<1>2. heap_curr % Page = 0 /\ heap_curr <= TablesEnd + Page * FbTables
  BY <1>1 DEF BootInv, Booting
<1>3. heap_curr \in Nat
  BY DEF HeapInv, TypeOK
<1>4. /\ fb.addr \in Nat /\ fb.size \in Nat
      /\ fb.addr % Page = 0 /\ fb.addr + fb.size <= Word
      /\ fb.size \div Span \in Nat /\ TablesEnd \in Nat
      /\ TablesEnd + Page * ((fb.size \div Span) + 2) < HeapEnd
  BY <1>1, BootRoom
<1>5. v \in Nat /\ v % Page = 0 /\ v < Word
  <2>1. (fb.addr + n) % Page = 0
    BY <1>1, <1>4, PageSum
  <2> QED BY <1>1, <1>4, <2>1, WordAssumption
<1>6. i \in Index /\ j \in Index /\ v = PageAt(i, j) /\ v \in Pages
  BY <1>5, PageJoin, PagesFacts
<1>7. Mapped' = Mapped \cup {v}
  <2>1. ASSUME NEW p \in Pages
        PROVE  (fb.addr <= p /\ p < fb.addr + (n + Page))
               <=> (fb.addr <= p /\ p < fb.addr + n) \/ p = v
    <3>1. p \in Nat /\ p % Page = 0
      BY PagesFacts
    <3>2. v < p => v + Page <= p
      BY <1>5, <3>1, PagesApart
    <3> QED BY <1>1, <1>4, <3>1, <3>2, PageFacts
  <2>2. Mapped = {p \in Pages : p < Tables * Span \/ (fb.addr <= p /\ p < fb.addr + n)}
    BY <1>1 DEF Mapped
  <2>3. Mapped' = {p \in Pages : p < Tables * Span
                                 \/ (fb.addr <= p /\ p < fb.addr + (n + Page))}
    BY <1>1 DEF Mapped
  <2> QED BY <1>6, <2>1, <2>2, <2>3
<1>8. FbTables' = (i - Dir(fb.addr)) + 1
  <2>1. n' # 0 /\ (fb.addr + n') - Page = v
    BY <1>1, <1>4, PageFacts
  <2> QED BY <1>1, <2>1 DEF FbTables
<1>9. FbTables \in Nat /\ FbTables' \in Nat /\ FbTables' <= (fb.size \div Span) + 2
      /\ FbTables + (IF HasTable(v) THEN 0 ELSE 1) <= FbTables'
  <2>1. Dir(fb.addr) \in Nat /\ i \in Nat
    BY <1>4, <1>5, PageFacts, DivMod DEF Dir
  <2>2. Dir(fb.addr) <= i
    BY <1>1, <1>4, <1>5, PageFacts, DivMono DEF Dir
  <2>3. i <= Dir(fb.addr) + (fb.size \div Span) + 1
    <3>1. v \in Nat /\ v < fb.addr + fb.size
      BY <1>1, <1>4
    <3> HIDE DEF v
    <3>2. v \div Span <= (fb.addr \div Span) + (fb.size \div Span) + 1
      BY <1>4, <3>1, PageFacts, DivSum
    <3> QED BY <3>2 DEF Dir
  <2>4. FbTables' \in Nat /\ FbTables' <= (fb.size \div Span) + 2
    BY <1>4, <1>8, <2>1, <2>2, <2>3
  <2>5. CASE n = 0
    BY <1>8, <2>1, <2>2, <2>4, <2>5 DEF FbTables
  <2>6. CASE n # 0
    <3> DEFINE u == v - Page
               k == Dir(u)
    <3>1. Page <= n
      <4>1. 0 % Page = 0
        BY PageFacts
      <4> QED BY <1>1, <2>6, <4>1, PagesApart, PageFacts
    <3>2. u \in Nat /\ u % Page = 0 /\ u < Word /\ fb.addr <= u /\ u < v
      <4>1. u \in Nat /\ u < Word /\ fb.addr <= u /\ u < v /\ Page <= v
        BY <1>1, <1>4, <1>5, <3>1, PageFacts, WordAssumption
      <4>2. Page % Page = 0
        BY PageFacts, PageNext
      <4> QED BY <1>5, <4>1, <4>2, PageSum, PageFacts
    <3>3. u \in Mapped
      BY <1>1, <3>2, PagesFacts DEF Mapped
    <3>4. FbTables = (k - Dir(fb.addr)) + 1
      BY <2>6 DEF FbTables
    <3>5. k \in Index /\ u = PageAt(k, Idx(u)) /\ Idx(u) \in Index
      BY <3>2, PageJoin
    <3>6. mem[pd + 4 * k].present
      <4> HIDE DEF u, k
      <4> QED BY <1>1, <3>3, <3>5 DEF Translates
    <3>7. k \in Nat /\ Dir(fb.addr) <= k /\ k <= i
      <4>1. k \in Nat
        BY <3>5, SlotFacts
      <4> HIDE DEF u, v
      <4>2. fb.addr \div Span <= u \div Span
        BY <1>4, <3>2, PageFacts, DivMono
      <4>3. u <= v
        BY <1>5, <3>2
      <4>4. u \div Span <= v \div Span
        BY <1>5, <3>2, <4>3, PageFacts, DivMono
      <4> QED BY <4>1, <4>2, <4>4 DEF Dir
    <3>8. ~HasTable(v) => k # i
      BY <3>6 DEF HasTable, Dir
    <3> HIDE DEF i, k
    <3> QED BY <1>8, <2>1, <2>4, <3>4, <3>7, <3>8
  <2> QED BY <2>5, <2>6
<1>10. ~HasTable(v) =>
         /\ heap_curr + Page < HeapEnd
         /\ heap_curr + Page <= TablesEnd + Page * FbTables'
  <2> DEFINE x == FbTables
             y == FbTables'
             z == (fb.size \div Span) + 2
  <2>1. /\ x \in Nat /\ y \in Nat /\ z \in Nat /\ (~HasTable(v) => x + 1 <= y) /\ y <= z
        /\ heap_curr <= TablesEnd + Page * x /\ TablesEnd + Page * z < HeapEnd
    BY <1>2, <1>4, <1>9
  <2> HIDE DEF x, y, z
  <2>2. Page * y <= Page * z /\ (~HasTable(v) => Page * (x + 1) <= Page * y)
    BY <2>1, PageFacts, MulMono
  <2>3. Page * (x + 1) = Page * x + Page
    BY <2>1, PageFacts, SMT
  <2>4. Page * x \in Nat /\ Page * y \in Nat /\ Page * z \in Nat
    BY <2>1, PageFacts, SMT
  <2>5. ~HasTable(v) => heap_curr + Page < HeapEnd /\ heap_curr + Page <= TablesEnd + Page * y
    BY <1>3, <1>4, <2>1, <2>2, <2>3, <2>4, PageFacts, HeapAssumption
  <2> QED BY <2>5 DEF y
<1>11. /\ Translates(mem', pd, Mapped \cup {v})
       /\ blocks \subseteq blocks'
       /\ heap_curr' % Page = 0 /\ heap_curr' <= TablesEnd + Page * FbTables'
       /\ \A k \in Index : mem'[pd + 4 * k].present
                             => \E b \in blocks' : Owns(b, mem'[pd + 4 * k].base)
  <2> DEFINE slot == pd + 4 * i
             map == Mapped
  <2>0. Translates(mem, pd, map)
    BY <1>1
  <2> HIDE DEF map
  <2>1. CASE HasTable(v)
    <3>1. /\ mem' = Over(At(mem[slot].base + 4 * j, Entry(v)), mem)
          /\ heap_curr' = heap_curr /\ blocks' = blocks
      BY <2>1 DEF MapFramebuffer, MapMemory, Dir, Idx, kernel_vars
    <3>2. mem[slot].present
      BY <2>1 DEF HasTable, Dir
    <3> HIDE DEF pd, v, i, j
    <3>3. /\ Translates(mem', pd, map \cup {v})
          /\ \A k \in Index : mem'[pd + 4 * k] = mem[pd + 4 * k]
      <4> DEFINE t == mem[slot].base
      <4>1. /\ Points(mem, pd, i, t)
            /\ mem' = Over(At(t + 4 * j, Entry(PageAt(i, j))), mem)
        BY <1>6, <3>1, <3>2 DEF Points
      <4>2. pd \in Nat /\ pd % Page = 0 /\ i \in Index /\ j \in Index
        BY <1>1, <1>6
      <4> HIDE DEF t
      <4>3. Translates(mem', pd, Plus(map, PageAt(i, j))) /\ SameTables(mem', mem, pd)
        BY <2>0, <4>1, <4>2, AddPage, SMT
      <4> QED BY <1>6, <4>3 DEF SameTables, Plus
    <3>4. heap_curr <= TablesEnd + Page * FbTables'
      <4> DEFINE x == FbTables
                 y == FbTables'
      <4>1. x \in Nat /\ y \in Nat /\ x <= y /\ heap_curr <= TablesEnd + Page * x
        BY <1>2, <1>9, <2>1
      <4> HIDE DEF x, y
      <4>2. Page * x <= Page * y
        BY <4>1, PageFacts, MulMono
      <4>3. Page * x \in Nat /\ Page * y \in Nat
        BY <4>1, PageFacts, SMT
      <4>4. heap_curr <= TablesEnd + Page * y
        BY <1>3, <1>4, <4>1, <4>2, <4>3
      <4> QED BY <4>4 DEF y
    <3>5. \A k \in Index : mem'[pd + 4 * k].present
                             => \E b \in blocks' : Owns(b, mem'[pd + 4 * k].base)
      BY <1>1, <3>1, <3>3 DEF Owned
    <3>6. heap_curr' % Page = 0 /\ heap_curr' <= TablesEnd + Page * FbTables'
      BY <1>2, <3>1, <3>4
    <3> QED BY <3>1, <3>3, <3>5, <3>6 DEF map
  <2>2. CASE ~HasTable(v)
    <3> DEFINE h == heap_curr
               b == [addr |-> h, size |-> Page]
               with == Over(At(slot, Entry(h)), Over(Fill(h, Vacant), mem))
    <3>1. heap_curr % Page = 0 /\ heap_curr + Page < HeapEnd
      BY <1>2, <1>10, <2>2
    <3>2. /\ Kmalloc(heap_curr, Page) = h /\ (heap_curr + Page) % Page = 0
          /\ DoKmalloc(Page) => heap_curr' = heap_curr + Page /\ blocks' = blocks \cup {b}
      BY <3>1, BootAlloc
    <3>3. DoKmalloc(Page) /\ mem' = Over(At(with[slot].base + 4 * j, Entry(v)), with)
      BY <2>2, <3>2 DEF MapFramebuffer, MapMemory, Dir, Idx
    <3>4. ~mem[slot].present
      BY <2>2 DEF HasTable, Dir
    <3> HIDE DEF pd, v, i, j
    <3>5. Unused(mem, pd, h)
      <4>1. h # pd
        BY <1>1, <1>3, OwnedBelow, PageFacts
      <4>2. ASSUME NEW k \in Index, mem[pd + 4 * k].present
            PROVE  mem[pd + 4 * k].base # h
        <5> DEFINE t == mem[pd + 4 * k].base
        <5>1. t \in Nat /\ Owned(t)
          BY <1>1, <4>2 DEF Translates
        <5> HIDE DEF t
        <5>2. t # h
          BY <1>3, <5>1, OwnedBelow, PageFacts
        <5> QED BY <5>2 DEF t
      <4> QED BY <1>3, <3>1, <4>1, <4>2 DEF Unused
    <3>6. TableFor(Vacant, i, map)
      <4>1. DOMAIN Vacant = Index /\ \A l \in Index : Vacant[l] = Absent
        BY DEF Vacant, Index
      <4>2. \A l \in Index : PageAt(i, l) \notin map
        BY <1>6, <2>0, <3>4 DEF Translates
      <4> QED BY <4>1, <4>2 DEF TableFor
    <3>7. AgreeOff(i, map, map)
      BY DEF AgreeOff
    <3>8. with = Over(At(pd + 4 * i, Entry(h)), Over(Fill(h, Vacant), mem))
          /\ mem' = Over(At(with[pd + 4 * i].base + 4 * j, Entry(PageAt(i, j))), with)
      BY <1>6, <3>3
    <3> HIDE DEF with, slot, h, b
    <3>9. Translates(with, pd, map) /\ NewTable(with, mem, pd, i, h)
      BY <1>1, <1>6, <2>0, <3>5, <3>6, <3>7, <3>8, AddTable, Zenon
    <3>10. with[pd + 4 * i].present /\ with[pd + 4 * i].base = h
      BY <3>9 DEF NewTable
    <3>11. Translates(mem', pd, map \cup {v}) /\ SameTables(mem', with, pd)
      <4>1. /\ pd \in Nat /\ pd % Page = 0 /\ i \in Index /\ j \in Index
            /\ Points(with, pd, i, h)
            /\ mem' = Over(At(h + 4 * j, Entry(PageAt(i, j))), with)
        BY <1>1, <1>6, <3>8, <3>10 DEF Points
      <4>2. Translates(mem', pd, Plus(map, PageAt(i, j))) /\ SameTables(mem', with, pd)
        BY <3>9, <4>1, AddPage, SMT
      <4> QED BY <1>6, <4>2 DEF Plus
    <3>12. heap_curr' = heap_curr + Page /\ blocks' = blocks \cup {b}
      BY <3>2, <3>3
    <3>13. b \in blocks' /\ Owns(b, h)
      BY <1>3, <3>12, PageFacts DEF Owns, b, h
    <3>14. ASSUME NEW k \in Index, mem'[pd + 4 * k].present
           PROVE  \E c \in blocks' : Owns(c, mem'[pd + 4 * k].base)
      <4>1. CASE k = i
        BY <3>10, <3>11, <3>13, <4>1 DEF SameTables
      <4>2. CASE k # i
        <5>1. mem'[pd + 4 * k] = mem[pd + 4 * k]
          BY <3>9, <3>11, <4>2 DEF NewTable, SameTables
        <5> QED BY <1>1, <3>12, <3>14, <5>1 DEF Owned
      <4> QED BY <4>1, <4>2
    <3>15. heap_curr' % Page = 0 /\ heap_curr' <= TablesEnd + Page * FbTables'
      BY <1>10, <2>2, <3>2, <3>12
    <3>16. Translates(mem', pd, Mapped \cup {v})
      BY <3>11 DEF map
    <3> QED BY <3>12, <3>14, <3>15, <3>16
  <2> QED BY <2>1, <2>2
<1>12. Translates(mem, page_directory, Mapped)'
  BY <1>1, <1>7, <1>11
<1>13. Owned(page_directory)'
  BY <1>1, <1>11 DEF Owned
<1>14. (\A k \in Index : mem[page_directory + 4 * k].present
                           => Owned(mem[page_directory + 4 * k].base))'
  BY <1>1, <1>11 DEF Owned
<1>15. n' \in Nat /\ n' % Page = 0 /\ n' < fb.size + Page
  <2>1. (n + Page) % Page = 0
    BY <1>1, PageNext
  <2> QED BY <1>1, <1>4, <2>1, PageFacts
<1>16. Booting'
  BY <1>1, <1>11 DEF Booting, TablesEnd
<1>17. page_directory' \in Nat \ {0} /\ page_directory' % Page = 0
  BY <1>1
<1>18. BootInv'
  BY <1>1, <1>12, <1>13, <1>14, <1>15, <1>16, <1>17 DEF BootInv
<1> QED BY <1>7, <1>11, <1>18

\* Every step of the machine preserves the invariant of the boot.
LEMMA BootStep == BootInv /\ HeapInv /\ [MemoryNext]_all_vars => BootInv'
<1> SUFFICES ASSUME BootInv, HeapInv, [MemoryNext]_all_vars PROVE BootInv'
  OBVIOUS
<1>1. CASE InitGdt
  <2>1. /\ pc' = "directory" /\ pc = "gdt" /\ n' = n /\ fb' = fb /\ mem' = mem
        /\ page_directory' = page_directory /\ heap_curr' = heap_curr
    BY <1>1 DEF InitGdt, kernel_vars
  <2> QED BY <2>1 DEF BootInv
<1>2. CASE InitDirectory
  BY <1>2, DirectoryStep
<1>3. CASE InitTable
  BY <1>3, TableStep
<1>4. CASE MapFramebuffer
  BY <1>4, MapStep
<1>5. CASE BootDone
  <2>1. /\ pc' = "run" /\ pc = "framebuffer" /\ n' = n /\ fb' = fb /\ mem' = mem
        /\ page_directory' = page_directory /\ blocks' = blocks /\ fb.size <= n
        /\ n \in Nat /\ fb \in [addr : FbAddrs, size : FbSizes]
    BY <1>5, BootRoom DEF BootDone, kernel_vars, BootInv
  <2>2. Mapped' = Mapped
    BY <2>1 DEF Mapped
  <2> QED BY <2>1, <2>2 DEF BootInv, Owned
<1>6. ASSUME UNCHANGED boot_vars, pc = "run",
             \A c \in blocks : c \in blocks' \/ c \notin TableBlocks
      PROVE  BootInv'
  <2>1. /\ pc' = pc /\ n' = n /\ fb' = fb /\ mem' = mem
        /\ page_directory' = page_directory
    BY <1>6 DEF boot_vars
  <2>2. Mapped' = Mapped
    BY <2>1 DEF Mapped
  <2>3. /\ page_directory \in Nat \ {0} /\ Translates(mem, page_directory, Mapped)
        /\ Owned(page_directory)
        /\ \A i \in Index : mem[page_directory + 4 * i].present
                              => Owned(mem[page_directory + 4 * i].base)
    BY <1>6 DEF BootInv
  <2>4. ASSUME NEW t \in TableAddrs, Owned(t), t \in Nat PROVE Owned(t)'
    <3>1. PICK b \in blocks : Owns(b, t)
      BY <2>4 DEF Owned
    <3>2. b.addr \in Nat /\ b.size \in Nat
      BY SizesAssumption DEF HeapInv, TypeOK, Block
    <3>3. b \in TableBlocks
      BY <2>4, <3>1, <3>2, PageFacts DEF TableBlocks, Owns
    <3> QED BY <1>6, <3>1, <3>3 DEF Owned
  <2>5. Owned(page_directory)'
    <3>1. page_directory \in TableAddrs
      BY DEF TableAddrs
    <3>2. Owned(page_directory) /\ page_directory \in Nat
      BY <2>3
    <3> QED BY <2>1, <2>4, <3>1, <3>2 DEF Owned
  <2>6. ASSUME NEW i \in Index, mem[page_directory + 4 * i].present
        PROVE  Owned(mem[page_directory + 4 * i].base)'
    <3> DEFINE x == page_directory + 4 * i
    <3>1. x \in DOMAIN mem /\ x - page_directory \in 0..(Page - 1)
      BY <2>3, SlotFacts, PageFacts DEF Translates
    <3>2. mem[x].base \in TableAddrs
      BY <2>6, <3>1 DEF TableAddrs
    <3>3. mem[x].base \in Nat /\ Owned(mem[x].base)
      BY <2>3, <2>6 DEF Translates
    <3> QED BY <2>1, <2>4, <3>2, <3>3 DEF Owned
  <2> QED BY <1>6, <2>1, <2>2, <2>5, <2>6 DEF BootInv
<1>7. CASE KernelStep
  <2>1. UNCHANGED boot_vars /\ pc = "run"
    BY <1>7 DEF KernelStep
  <2>2. \A c \in blocks : c \in blocks' \/ c \notin TableBlocks
    BY <1>7 DEF KernelStep, DoKmalloc, DoKfree
  <2> QED BY <1>6, <2>1, <2>2
<1>8. CASE UserStep
  <2>1. UNCHANGED boot_vars /\ pc = "run" /\ blocks' = blocks
    BY <1>8 DEF UserStep, kernel_vars
  <2> QED BY <1>6, <2>1
<1>9. CASE UNCHANGED all_vars
  <2>1. /\ pc' = pc /\ n' = n /\ fb' = fb /\ mem' = mem
        /\ page_directory' = page_directory /\ heap_curr' = heap_curr /\ blocks' = blocks
    BY <1>9 DEF all_vars, boot_vars, kernel_vars
  <2>2. Mapped' = Mapped /\ FbTables' = FbTables
    BY <2>1 DEF Mapped, FbTables
  <2> QED BY <2>1, <2>2 DEF BootInv, Owned, Booting, TablesEnd
<1> QED BY <1>1, <1>2, <1>3, <1>4, <1>5, <1>7, <1>8, <1>9 DEF MemoryNext

\* The invariant of the boot holds.
THEOREM BootInvHolds == MemorySpec => []BootInv
<1>1. MemoryInit => BootInv
  BY DEF MemoryInit, Init, BootInv
<1>2. MemorySpec => []HeapInv
  BY BootRunsKernelHeap, HeapInvariant, PTL
<1> QED BY <1>1, <1>2, BootStep, PTL DEF MemorySpec

\* Page structures never overlap each other nor another block, and are mapped
\* to where they are.
THEOREM TablesApartHolds == MemorySpec => []TablesApart
<1>1. BootInv /\ HeapInv => TablesApart
  <2> SUFFICES ASSUME BootInv, HeapInv, page_directory # 0
               PROVE  TablesApart
    BY DEF TablesApart
  <2> DEFINE pd == page_directory
  <2>1. /\ pc \in {"table", "framebuffer", "run"}
        /\ pd \in Nat /\ pd % Page = 0 /\ Translates(mem, pd, Mapped) /\ Owned(pd)
        /\ \A i \in Index : mem[pd + 4 * i].present => Owned(mem[pd + 4 * i].base)
    BY DEF BootInv
  <2>2. ASSUME NEW t \in TableAddrs
        PROVE  t \in Nat /\ t % Page = 0 /\ Owned(t)
    <3>1. CASE t = pd
      BY <2>1, <3>1
    <3>2. CASE t # pd
      <4>1. PICK x \in DOMAIN mem : /\ x - pd \in 0..(Page - 1) /\ mem[x].present
                                    /\ t = mem[x].base
        BY <3>2 DEF TableAddrs
      <4> DEFINE i == (x - pd) \div 4
      <4>2. x \in Nat /\ x % 4 = 0 /\ pd % 4 = 0
        BY <2>1, PageNext DEF Translates
      <4>3. i \in Index /\ x = pd + 4 * i
        BY <2>1, <4>1, <4>2, PageFacts, SMT DEF Index
      <4> HIDE DEF i
      <4> QED BY <2>1, <4>1, <4>3 DEF Translates
    <3> QED BY <3>1, <3>2
  <2>3. ASSUME NEW t \in TableAddrs
        PROVE  \E b \in blocks :
                 /\ t % Page = 0
                 /\ b.addr <= t /\ t + Page <= b.addr + b.size
                 /\ \A u \in TableAddrs \ {t} : u + Page <= b.addr \/ b.addr + b.size <= u
    <3>1. PICK b \in blocks : Owns(b, t)
      BY <2>2 DEF Owned
    <3>2. \A c \in blocks : c.addr \in Nat /\ c.size \in Nat
      BY SizesAssumption DEF HeapInv, TypeOK, Block
    <3>3. ASSUME NEW u \in TableAddrs \ {t}
          PROVE  u + Page <= b.addr \/ b.addr + b.size <= u
      <4>1. PICK c \in blocks : Owns(c, u)
        BY <2>2 DEF Owned
      <4>2. u \in Nat /\ t \in Nat /\ b.addr \in Nat /\ b.size \in Nat
            /\ c.addr \in Nat /\ c.size \in Nat
        BY <2>2, <3>2
      <4>3. b # c
        BY <3>1, <4>1, <4>2, PageFacts DEF Owns
      <4>4. b.addr + b.size <= c.addr \/ c.addr + c.size <= b.addr
        BY <4>3 DEF HeapInv, BlocksDisjoint
      <4> QED BY <3>1, <4>1, <4>2, <4>4, PageFacts DEF Owns
    <3>4. t + Page <= b.addr + b.size
      BY <2>2, <3>1, <3>2, PageFacts DEF Owns
    <3> QED BY <2>2, <3>1, <3>3, <3>4 DEF Owns
  <2>4. ASSUME pc \in {"framebuffer", "run"}, NEW t \in TableAddrs
        PROVE  Walk(mem, t) = t
    <3>1. t \in Nat /\ t % Page = 0 /\ t + Page <= heap_curr
      BY <2>2, OwnedBelow
    <3>2. t < HeapEnd
      BY <3>1, PageFacts, HeapAssumption DEF HeapInv, TypeOK
    <3>3. Tables * Span \in Nat
      BY PageFacts, SMT
    <3>4. t < Tables * Span /\ t < Word
      BY <3>1, <3>2, <3>3, BootAssumption, HeapAssumption, WordAssumption
    <3>5. t \in Pages
      BY <3>1, <3>4, PagesFacts
    <3>6. t \in Mapped
      BY <2>4, <3>4, <3>5 DEF Mapped
    <3> QED BY <2>1, <3>5, <3>6, WalkOf
  <2> QED BY <2>3, <2>4 DEF TablesApart
<1>2. MemorySpec => []HeapInv
  BY BootRunsKernelHeap, HeapInvariant, PTL
<1> QED BY <1>1, <1>2, BootInvHolds, PTL

\* Once the kernel runs, exactly the first Tables * Span bytes and the
\* framebuffer are mapped, each to itself.
THEOREM IdentityMappedHolds == MemorySpec => []IdentityMapped
<1>1. BootInv => IdentityMapped
  <2> SUFFICES ASSUME BootInv, pc = "run", NEW p \in Pages
               PROVE  Walk(mem, p) =
                        IF p < Tables * Span \/ (fb.addr <= p /\ p < fb.addr + fb.size)
                        THEN p ELSE Fault
    BY DEF IdentityMapped
  <2>1. /\ Translates(mem, page_directory, Mapped)
        /\ fb \in [addr : FbAddrs, size : FbSizes]
        /\ n \in Nat /\ n % Page = 0 /\ n < fb.size + Page /\ fb.size <= n
    BY DEF BootInv
  <2>2. Walk(mem, p) = IF p \in Mapped THEN p ELSE Fault
    BY <2>1, WalkOf
  <2>3. p \in Nat /\ p % Page = 0
    BY PagesFacts
  <2>4. fb.addr \in Nat /\ fb.size \in Nat /\ fb.addr % Page = 0
    BY <2>1, BootRoom
  <2>5. p < fb.addr + n => p + Page <= fb.addr + n
    <3>1. (fb.addr + n) % Page = 0 /\ fb.addr + n \in Nat
      BY <2>1, <2>4, PageSum
    <3> QED BY <2>3, <3>1, PagesApart
  <2>6. p < fb.addr + n <=> p < fb.addr + fb.size
    BY <2>1, <2>3, <2>4, <2>5, PageFacts
  <2>7. p \in Mapped <=> p < Tables * Span \/ (fb.addr <= p /\ p < fb.addr + fb.size)
    BY <2>6 DEF Mapped
  <2> QED BY <2>2, <2>7
<1> QED BY <1>1, BootInvHolds, PTL

\* A call of MapMemory changes the translation of one page only.
THEOREM MapsOnePageHolds == MemorySpec => MapsOnePage
<1> DEFINE A == pc = "framebuffer" =>
                  \A p \in Pages : p # PageOf(fb.addr + n) => Walk(mem', p) = Walk(mem, p)
<1>1. BootInv /\ HeapInv /\ [MemoryNext]_all_vars => [A]_all_vars
  <2> SUFFICES ASSUME BootInv, HeapInv, MemoryNext, pc = "framebuffer",
                      NEW p \in Pages, p # PageOf(fb.addr + n)
               PROVE  Walk(mem', p) = Walk(mem, p)
    OBVIOUS
  <2>1. CASE MapFramebuffer
    <3>1. /\ Translates(mem, page_directory, Mapped)
          /\ Translates(mem', page_directory, Mapped \cup {fb.addr + n})
      BY <2>1, MapStep DEF BootInv
    <3>2. fb.addr \in Nat /\ fb.addr % Page = 0 /\ n \in Nat /\ n % Page = 0
      BY BootRoom DEF BootInv
    <3>3. PageOf(fb.addr + n) = fb.addr + n
      <4>1. (fb.addr + n) % Page = 0 /\ fb.addr + n \in Nat
        BY <3>2, PageSum
      <4> QED BY <4>1, PageNext
    <3> DEFINE map == Mapped
               map2 == Mapped \cup {fb.addr + n}
    <3>4. p \in map <=> p \in map2
      BY <3>3
    <3> HIDE DEF map, map2
    <3>5. Walk(mem, p) = IF p \in map THEN p ELSE Fault
      BY <3>1, WalkOf DEF map
    <3>6. Walk(mem', p) = IF p \in map2 THEN p ELSE Fault
      BY <3>1, WalkOf DEF map2
    <3> QED BY <3>4, <3>5, <3>6
  <2>2. CASE ~MapFramebuffer
    <3>1. mem' = mem
      BY <2>2 DEF MemoryNext, InitGdt, InitDirectory, InitTable, BootDone,
         KernelStep, UserStep
    <3> QED BY <3>1
  <2> QED BY <2>1, <2>2
<1>2. MemorySpec => []HeapInv
  BY BootRunsKernelHeap, HeapInvariant, PTL
<1> QED BY <1>1, <1>2, BootInvHolds, PTL DEF MapsOnePage, MemorySpec

=============================================================================
