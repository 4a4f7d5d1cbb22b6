--------------------------- MODULE TerminalProofs ---------------------------
(***************************************************************************)
(* Proofs about the terminal window and the editor it runs, for every size *)
(* of window, line, history and buffer and every alphabet.                 *)
(*                                                                         *)
(* The window's loops are recursive functions.  Their properties are shown *)
(* by induction in a form the provers can use: the set of the numbers that *)
(* have a property is Nat, because a non-empty set of exceptions would     *)
(* have a least element.                                                   *)
(***************************************************************************)
EXTENDS Terminal, SequenceTheorems, WellFoundedInduction, TLAPS

-----------------------------------------------------------------------------
(* The editor.                                                             *)

\* No file is open at boot.
LEMMA EditorStarts == EditorInit => EditorInv
  BY DEF EditorInit, EditorInv, Opened

\* Every key preserves the terminated text.
LEMMA EditorStep == EditorInv /\ [EditorNext]_editor_vars => EditorInv'
<1> SUFFICES ASSUME EditorInv, [EditorNext]_editor_vars PROVE EditorInv'
  OBVIOUS
<1> USE EditorAssumption DEF Index, EditorInv, Opened
<1>1. ASSUME NEW t \in Texts, Start(t) PROVE EditorInv'
  <2>1. t \in Seq(Chars) /\ Len(t) \in Nat /\ Len(t) < BufSize
    OBVIOUS
  <2>2. \A i \in Index : i < Len(t) => t[i + 1] \in Chars
    BY <2>1
  <2> QED BY <1>1, <2>1, <2>2 DEF Start
<1>2. CASE Quit
  BY <1>2 DEF Quit
<1>3. CASE Back
  BY <1>3 DEF Back
<1>4. CASE Forward
  BY <1>4 DEF Forward
<1>5. CASE Backspace
  BY <1>5 DEF Backspace, Removed
<1>6. ASSUME NEW c \in Chars, Type(c) PROVE EditorInv'
  BY <1>6 DEF Type, Inserted
<1>7. CASE UNCHANGED editor_vars
  BY <1>7 DEF editor_vars
<1> QED BY <1>1, <1>2, <1>3, <1>4, <1>5, <1>6, <1>7 DEF EditorNext

\* The editor's buffer is always a zero-terminated text with the cursor in it.
THEOREM EditorInvariant == EditorSpec => []EditorInv
  BY EditorStarts, EditorStep, PTL DEF EditorSpec

-----------------------------------------------------------------------------
(* The refinement.  B and A are the abstract before and after.             *)

B == IF Opened THEN [k \in 1..cursor_idx |-> content[k - 1]] ELSE <<>>

A == IF Opened THEN [k \in 1..(content_size - cursor_idx) |->
                       content[cursor_idx + k - 1]]
     ELSE <<>>

\* What the two halves are while a file is open.
HalvesOK ==
  /\ B \in Seq(Chars) /\ Len(B) = cursor_idx
  /\ A \in Seq(Chars) /\ Len(A) = content_size - cursor_idx
  /\ \A k \in 1..cursor_idx : B[k] = content[k - 1]
  /\ \A k \in 1..(content_size - cursor_idx) :
       A[k] = content[cursor_idx + k - 1]
  /\ cursor_idx \in Nat /\ content_size \in Nat /\ cursor_idx <= content_size

\* The halves are the two parts of the array.
LEMMA Halves == EditorInv /\ Opened => HalvesOK
<1> SUFFICES ASSUME EditorInv, Opened PROVE HalvesOK
  OBVIOUS
<1>1. /\ content_size \in Nat /\ cursor_idx \in Nat
      /\ cursor_idx <= content_size /\ content_size < BufSize
      /\ BufSize \in Nat
  BY EditorAssumption DEF EditorInv
<1>2. \A i \in 0..(content_size - 1) : content[i] \in Chars
  BY <1>1 DEF EditorInv, Index
<1>3. /\ B = [k \in 1..cursor_idx |-> content[k - 1]]
      /\ A = [k \in 1..(content_size - cursor_idx) |->
                content[cursor_idx + k - 1]]
  BY DEF A, B
<1>4. \A k \in 1..cursor_idx : content[k - 1] \in Chars
  BY <1>1, <1>2
<1>5. \A k \in 1..(content_size - cursor_idx) :
        content[cursor_idx + k - 1] \in Chars
  BY <1>1, <1>2
<1> QED BY <1>1, <1>3, <1>4, <1>5 DEF HalvesOK

\* Sequences with the same elements are the same.
LEMMA SameSeq ==
  ASSUME NEW s \in Seq(Chars), NEW t \in Seq(Chars), Len(s) = Len(t),
         \A k \in 1..Len(s) : s[k] = t[k]
  PROVE  s = t
  OBVIOUS

\* Every key maps to a step of the split text, or to none.
LEMMA EditorSimulates ==
  ASSUME EditorInv, EditorInv', [EditorNext]_editor_vars
  PROVE  [Abstract!Next]_(Abstract!vars)
<1>0. (EditorInv /\ Opened => HalvesOK)'
  BY Halves, PTL
<1>1. ASSUME NEW t \in Texts, Start(t) PROVE Abstract!Open
  <2>1. ~Opened /\ cursor_idx' = 0
    BY <1>1 DEF Start, Opened
  <2>2. Opened'
    <3>1. t \in Seq(Chars) /\ Len(t) < BufSize
      BY EditorAssumption
    <3>2. content' \in [0..(BufSize - 1) -> Chars \cup {NUL}]
      BY <1>1, <3>1 DEF Start, Index
    <3> QED BY <3>2, EditorAssumption DEF Opened
  <2>3. HalvesOK'
    BY <1>0, <2>2
  <2>4. B' = <<>> /\ A' \in Seq(Chars)
    BY <2>1, <2>3 DEF HalvesOK
  <2> QED BY <2>1, <2>2, <2>4 DEF Abstract!Open, A, B
<1>2. CASE Quit
  <2>1. Opened /\ ~Opened'
    BY <1>2 DEF Quit, Opened
  <2>2. B' = <<>> /\ A' = <<>>
    BY <2>1 DEF A, B
  <2>3. Abstract!Close
    BY <2>1, <2>2 DEF Abstract!Close, A, B
  <2> QED BY <2>3 DEF Abstract!Next
<1>3. CASE Back
  <2>1. Opened /\ Opened' /\ UNCHANGED <<content, content_size>>
        /\ cursor_idx > 0 /\ cursor_idx' = cursor_idx - 1
    BY <1>3 DEF Back, Opened
  <2>2. HalvesOK /\ HalvesOK'
    BY <1>0, <2>1, Halves
  <2>3. B # <<>>
    BY <2>1, <2>2 DEF HalvesOK
  <2>4. B' = SubSeq(B, 1, Len(B) - 1)
    <3> DEFINE s == SubSeq(B, 1, Len(B) - 1)
    <3>1. /\ s \in Seq(Chars) /\ Len(s) = cursor_idx - 1
          /\ \A k \in 1..(cursor_idx - 1) : s[k] = B[k]
      BY <2>1, <2>2 DEF HalvesOK
    <3>2. B' \in Seq(Chars) /\ Len(B') = cursor_idx - 1
      BY <2>1, <2>2 DEF HalvesOK
    <3>3. ASSUME NEW k \in 1..(cursor_idx - 1) PROVE B'[k] = s[k]
      <4>1. B'[k] = content[k - 1]
        BY <2>1, <2>2 DEF HalvesOK
      <4>2. B[k] = content[k - 1]
        BY <2>1, <2>2 DEF HalvesOK
      <4> QED BY <3>1, <4>1, <4>2
    <3> HIDE DEF s
    <3>4. B' = s
      BY <3>1, <3>2, <3>3, SameSeq
    <3> QED BY <3>4 DEF s
  <2>5. A' = <<B[Len(B)]>> \o A
    <3> DEFINE s == <<B[Len(B)]>> \o A
               n == content_size - cursor_idx
    <3>1. /\ B[Len(B)] \in Chars /\ B[Len(B)] = content[cursor_idx - 1]
          /\ n \in Nat
      BY <2>1, <2>2 DEF HalvesOK
    <3>2. A \in Seq(Chars) /\ Len(A) = n
      BY <2>2 DEF HalvesOK
    <3>3. /\ s \in Seq(Chars) /\ Len(s) = n + 1 /\ s[1] = B[Len(B)]
          /\ \A k \in 1..n : s[k + 1] = A[k]
      BY <3>1, <3>2, SMTT(30)
    <3>4. A' \in Seq(Chars) /\ Len(A') = n + 1
      BY <2>1, <2>2 DEF HalvesOK
    <3>5. A'[1] = content[cursor_idx - 1]
      BY <2>1, <2>2, <3>1 DEF HalvesOK
    <3>6. ASSUME NEW k \in 1..n PROVE A'[k + 1] = A[k]
      <4>1. A[k] = content[cursor_idx + k - 1]
        BY <2>2 DEF HalvesOK
      <4>2. A'[k + 1] = content'[cursor_idx' + (k + 1) - 1]
        BY <2>1, <2>2, <3>1 DEF HalvesOK
      <4>3. cursor_idx' + (k + 1) - 1 = cursor_idx + k - 1
        BY <2>1, <2>2 DEF HalvesOK
      <4> QED BY <2>1, <4>1, <4>2, <4>3
    <3> HIDE DEF s, n
    <3>7. ASSUME NEW k \in 1..(n + 1) PROVE A'[k] = s[k]
      <4>1. CASE k = 1
        BY <3>1, <3>3, <3>5, <4>1
      <4>2. CASE k # 1
        <5>1. k - 1 \in 1..n /\ k = (k - 1) + 1
          BY <3>1, <4>2
        <5> QED BY <3>3, <3>6, <5>1
      <4> QED BY <4>1, <4>2
    <3>8. A' = s
      BY <3>3, <3>4, <3>7, SameSeq
    <3> QED BY <3>8 DEF s
  <2>6. Abstract!Left
    BY <2>1, <2>3, <2>4, <2>5 DEF Abstract!Left, A, B
  <2> QED BY <2>6 DEF Abstract!Next
<1>4. CASE Forward
  <2>1. Opened /\ Opened' /\ UNCHANGED <<content, content_size>>
        /\ cursor_idx < content_size /\ cursor_idx' = cursor_idx + 1
    BY <1>4 DEF Forward, Opened
  <2>2. HalvesOK /\ HalvesOK'
    BY <1>0, <2>1, Halves
  <2>3. A # <<>>
    BY <2>1, <2>2 DEF HalvesOK
  <2>4. B' = Append(B, A[1])
    <3> DEFINE s == Append(B, A[1])
    <3>1. A[1] = content[cursor_idx] /\ A[1] \in Chars
      BY <2>1, <2>2 DEF HalvesOK
    <3>2. /\ s \in Seq(Chars) /\ Len(s) = cursor_idx + 1
          /\ \A k \in 1..cursor_idx : s[k] = B[k]
          /\ s[cursor_idx + 1] = A[1]
      BY <2>2, <3>1 DEF HalvesOK
    <3>3. /\ B' \in Seq(Chars) /\ Len(B') = cursor_idx + 1
          /\ \A k \in 1..(cursor_idx + 1) : B'[k] = content[k - 1]
      BY <2>1, <2>2 DEF HalvesOK
    <3> HIDE DEF s
    <3>4. ASSUME NEW k \in 1..(cursor_idx + 1) PROVE B'[k] = s[k]
      <4>1. CASE k = cursor_idx + 1
        <5>1. B'[k] = content[cursor_idx]
          BY <2>2, <3>3, <4>1 DEF HalvesOK
        <5> QED BY <3>1, <3>2, <4>1, <5>1
      <4>2. CASE k # cursor_idx + 1
        <5>1. k \in 1..cursor_idx
          BY <2>2, <4>2 DEF HalvesOK
        <5>2. B[k] = content[k - 1]
          BY <2>2, <5>1 DEF HalvesOK
        <5> QED BY <3>2, <3>3, <5>1, <5>2
      <4> QED BY <4>1, <4>2
    <3>5. B' = s
      BY <3>2, <3>3, <3>4, SameSeq
    <3> QED BY <3>5 DEF s
  <2>5. A' = Tail(A)
    <3> DEFINE s == Tail(A)
               n == content_size - cursor_idx
    <3>1. /\ s \in Seq(Chars) /\ Len(s) = n - 1
          /\ \A k \in 1..(n - 1) : s[k] = A[k + 1]
      BY <2>1, <2>2, <2>3 DEF HalvesOK
    <3>2. /\ A' \in Seq(Chars) /\ Len(A') = n - 1
          /\ \A k \in 1..(n - 1) : A'[k] = A[k + 1]
      BY <2>1, <2>2 DEF HalvesOK
    <3> HIDE DEF s
    <3>3. A' = s
      BY <3>1, <3>2, SameSeq
    <3> QED BY <3>3 DEF s
  <2>6. Abstract!Right
    BY <2>1, <2>3, <2>4, <2>5 DEF Abstract!Right, A, B
  <2> QED BY <2>6 DEF Abstract!Next
<1>5. CASE Backspace
  <2>1. /\ Opened /\ cursor_idx > 0
        /\ content' = Removed
        /\ content_size' = content_size - 1 /\ cursor_idx' = cursor_idx - 1
    BY <1>5 DEF Backspace
  <2>2. Opened'
    <3>1. content' \in [0..(BufSize - 1) -> Chars \cup {NUL}]
      BY <2>1, EditorAssumption DEF Removed, EditorInv, Index
    <3> QED BY <3>1, EditorAssumption DEF Opened
  <2>3. HalvesOK /\ HalvesOK'
    BY <1>0, <2>1, <2>2, Halves
  <2>4. \A i \in 0..(content_size - 2) :
          content'[i] = IF i < cursor_idx - 1 THEN content[i]
                        ELSE content[i + 1]
    BY <2>1, <2>3, EditorAssumption DEF Removed, EditorInv, Index, HalvesOK
  <2>5. B # <<>>
    BY <2>1, <2>3 DEF HalvesOK
  <2>6. B' = SubSeq(B, 1, Len(B) - 1)
    <3> DEFINE s == SubSeq(B, 1, Len(B) - 1)
    <3>1. /\ s \in Seq(Chars) /\ Len(s) = cursor_idx - 1
          /\ \A k \in 1..(cursor_idx - 1) : s[k] = B[k]
      BY <2>1, <2>3 DEF HalvesOK
    <3>2. B' \in Seq(Chars) /\ Len(B') = cursor_idx - 1
      BY <2>1, <2>3 DEF HalvesOK
    <3>3. ASSUME NEW k \in 1..(cursor_idx - 1) PROVE B'[k] = s[k]
      <4>1. B'[k] = content'[k - 1]
        BY <2>1, <2>3 DEF HalvesOK
      <4>2. B[k] = content[k - 1]
        BY <2>1, <2>3 DEF HalvesOK
      <4>3. k - 1 \in 0..(content_size - 2) /\ k - 1 < cursor_idx - 1
        BY <2>1, <2>3 DEF HalvesOK
      <4> QED BY <2>4, <3>1, <4>1, <4>2, <4>3
    <3> HIDE DEF s
    <3>4. B' = s
      BY <3>1, <3>2, <3>3, SameSeq
    <3> QED BY <3>4 DEF s
  <2>7. A' = A
    <3>1. /\ A \in Seq(Chars) /\ A' \in Seq(Chars) /\ Len(A') = Len(A)
          /\ Len(A) = content_size - cursor_idx
      BY <2>1, <2>3 DEF HalvesOK
    <3>2. \A k \in 1..Len(A) : A'[k] = content'[cursor_idx + k - 2]
      BY <2>1, <2>3, <3>1 DEF HalvesOK
    <3>3. \A k \in 1..Len(A) : content'[cursor_idx + k - 2] =
                               content[cursor_idx + k - 1]
      BY <2>1, <2>3, <2>4, <3>1 DEF HalvesOK
    <3>4. \A k \in 1..Len(A) : A'[k] = A[k]
      BY <2>3, <3>1, <3>2, <3>3 DEF HalvesOK
    <3> QED BY <3>1, <3>4, SameSeq
  <2>8. Abstract!Delete
    BY <2>1, <2>2, <2>5, <2>6, <2>7 DEF Abstract!Delete, A, B
  <2> QED BY <2>8 DEF Abstract!Next
<1>6. ASSUME NEW c \in Chars, Type(c) PROVE Abstract!Insert
  <2>1. /\ Opened /\ content_size < BufSize - 1
        /\ content' = Inserted(c)
        /\ content_size' = content_size + 1 /\ cursor_idx' = cursor_idx + 1
    BY <1>6 DEF Type
  <2>2. Opened'
    <3>1. content' \in [0..(BufSize - 1) -> Chars \cup {NUL}]
      BY <2>1, EditorAssumption DEF Inserted, EditorInv, Index
    <3> QED BY <3>1, EditorAssumption DEF Opened
  <2>3. HalvesOK /\ HalvesOK'
    BY <1>0, <2>1, <2>2, Halves
  <2>4. \A i \in 0..content_size :
          content'[i] = IF i < cursor_idx THEN content[i]
                        ELSE IF i = cursor_idx THEN c ELSE content[i - 1]
    BY <2>1, <2>3, EditorAssumption DEF Inserted, EditorInv, Index, HalvesOK
  <2>5. Len(B) + Len(A) < BufSize - 1
    BY <2>1, <2>3, EditorAssumption DEF HalvesOK
  <2>6. B' = Append(B, c)
    <3> DEFINE s == Append(B, c)
    <3>1. /\ s \in Seq(Chars) /\ Len(s) = cursor_idx + 1
          /\ \A k \in 1..cursor_idx : s[k] = B[k]
          /\ s[cursor_idx + 1] = c
      BY <2>1, <2>3 DEF HalvesOK
    <3>2. /\ B' \in Seq(Chars) /\ Len(B') = cursor_idx + 1
          /\ \A k \in 1..(cursor_idx + 1) : B'[k] = content'[k - 1]
      BY <2>1, <2>3, <2>4 DEF HalvesOK
    <3> HIDE DEF s
    <3>3. ASSUME NEW k \in 1..(cursor_idx + 1) PROVE B'[k] = s[k]
      <4>1. k - 1 \in 0..content_size
        BY <2>3 DEF HalvesOK
      <4>2. CASE k = cursor_idx + 1
        <5>0. k - 1 = cursor_idx /\ ~(k - 1 < cursor_idx)
          BY <2>3, <4>2 DEF HalvesOK
        <5>1. content'[k - 1] = c
          BY <2>4, <4>1, <5>0
        <5> QED BY <3>1, <3>2, <4>2, <5>1
      <4>3. CASE k # cursor_idx + 1
        <5>0. cursor_idx \in Nat
          BY <2>3 DEF HalvesOK
        <5>1. k \in 1..cursor_idx /\ k - 1 < cursor_idx
          BY <4>3, <5>0
        <5>2. B[k] = content[k - 1]
          BY <2>3, <5>1 DEF HalvesOK
        <5>3. content'[k - 1] = content[k - 1]
          BY <2>4, <4>1, <5>1
        <5> QED BY <3>1, <3>2, <5>1, <5>2, <5>3
      <4> QED BY <4>2, <4>3
    <3>4. B' = s
      BY <3>1, <3>2, <3>3, SameSeq
    <3> QED BY <3>4 DEF s
  <2>7. A' = A
    <3>1. /\ A \in Seq(Chars) /\ A' \in Seq(Chars) /\ Len(A') = Len(A)
          /\ Len(A) = content_size - cursor_idx
      BY <2>1, <2>3 DEF HalvesOK
    <3>2. \A k \in 1..Len(A) : A'[k] = content'[cursor_idx + k]
      BY <2>1, <2>3, <3>1 DEF HalvesOK
    <3>3. ASSUME NEW k \in 1..Len(A)
          PROVE  content'[cursor_idx + k] = content[cursor_idx + k - 1]
      <4>1. /\ cursor_idx + k \in 0..content_size
            /\ ~(cursor_idx + k < cursor_idx) /\ cursor_idx + k # cursor_idx
        BY <2>3, <3>1 DEF HalvesOK
      <4>2. content'[cursor_idx + k] = content[(cursor_idx + k) - 1]
        BY <2>4, <4>1
      <4>3. (cursor_idx + k) - 1 = cursor_idx + k - 1
        BY <2>3, <3>1 DEF HalvesOK
      <4> QED BY <4>2, <4>3
    <3>4. \A k \in 1..Len(A) : A'[k] = A[k]
      BY <2>3, <3>1, <3>2, <3>3 DEF HalvesOK
    <3> QED BY <3>1, <3>4, SameSeq
  <2> QED BY <2>1, <2>2, <2>5, <2>6, <2>7 DEF Abstract!Insert, A, B
<1>7. CASE UNCHANGED editor_vars
  BY <1>7 DEF editor_vars, Abstract!vars, Opened
<1> QED BY <1>1, <1>2, <1>3, <1>4, <1>5, <1>6, <1>7 DEF EditorNext, Abstract!Next

\* The array and its shifting loops implement the split text.
THEOREM EditorRefinement == EditorSpec => ImplementsTextEdit
<1>1. EditorInit => Abstract!Init
  BY DEF EditorInit, Abstract!Init, Opened
<1>2. EditorInv /\ EditorInv' /\ [EditorNext]_editor_vars
        => [Abstract!Next]_(Abstract!vars)
  BY EditorSimulates
<1> QED BY <1>1, <1>2, EditorInvariant, PTL
        DEF EditorSpec, ImplementsTextEdit, Abstract!Spec

-----------------------------------------------------------------------------
(* The editor inside the window is the editor.                             *)

\* A key of the window is a key of the editor, or leaves the editor alone.
LEMMA WindowStep == [Next]_vars => [EditorNext]_editor_vars
<1> SUFFICES ASSUME [Next]_vars PROVE [EditorNext]_editor_vars
  OBVIOUS
<1>1. CASE ShellKey /\ UNCHANGED editor_vars
  BY <1>1
<1>2. ASSUME NEW t \in Texts, EnterEdit(t) PROVE EditorNext
  BY <1>2 DEF EnterEdit, EditorNext
<1>3. CASE EditorKey
  BY <1>3 DEF EditorKey, Redraw, EditorNext
<1>4. CASE EditorQuit
  BY <1>4 DEF EditorQuit, EditorNext
<1>5. CASE UNCHANGED vars
  BY <1>5 DEF vars
<1> QED BY <1>1, <1>2, <1>3, <1>4, <1>5 DEF Next

\* The window runs the editor as its own specification has it
\* (TerminalWindow.cpp:141, shell.cpp:424).
THEOREM WindowRunsEditor == Spec => EditorSpec
<1>1. Init => EditorInit
  BY DEF Init
<1> QED BY <1>1, WindowStep, PTL DEF Spec, EditorSpec

\* Whatever is typed in the window, the editor's buffer is a terminated text.
THEOREM WindowEditorInvariant == Spec => []EditorInv
  BY WindowRunsEditor, EditorInvariant, PTL

\* Whatever is typed in the window, the edited file is a text split at the
\* cursor.
THEOREM WindowTextEdit == Spec => ImplementsTextEdit
  BY WindowRunsEditor, EditorRefinement, PTL

-----------------------------------------------------------------------------
(* Induction over the loops of the window, and what they compute.          *)

\* A non-empty set of naturals has a least element.
LEMMA LeastElement ==
  ASSUME NEW T \in SUBSET Nat, T # {}
  PROVE  \E x \in T : \A y \in T : x <= y
<1> DEFINE R == OpToRel(<, Nat)
<1>1. IsWellFoundedOn(R, Nat)
  BY NatLessThanWellFounded
<1>2. \A x, y \in Nat : y < x => <<y, x>> \in R
  BY DEF OpToRel
<1> HIDE DEF R
<1>3. PICK x \in T : \A y \in T : ~(<<y, x>> \in R)
  BY <1>1, WFMin
<1>4. ASSUME NEW y \in T PROVE x <= y
  <2>1. ~(y < x)
    BY <1>2, <1>3
  <2> QED BY <2>1
<1> QED BY <1>4

\* Induction, for a property given as the set of its numbers.
LEMMA SetInduction ==
  ASSUME NEW S, 0 \in S, \A k \in Nat : k \in S => k + 1 \in S
  PROVE  \A k \in Nat : k \in S
<1> DEFINE T == {k \in Nat : k \notin S}
<1> SUFFICES ASSUME T # {} PROVE FALSE
  OBVIOUS
<1>1. T \in SUBSET Nat
  OBVIOUS
<1>2. PICK x \in T : \A y \in T : x <= y
  <2> HIDE DEF T
  <2> QED BY <1>1, LeastElement
<1>3. x \in Nat /\ x # 0
  OBVIOUS
<1>4. x - 1 \in Nat /\ x - 1 \notin T
  BY <1>2, <1>3
<1>5. (x - 1) + 1 \in S
  BY <1>4
<1> QED BY <1>3, <1>5

\* A bounded set of naturals has a greatest element.
LEMMA GreatestElement ==
  ASSUME NEW n \in Nat, NEW T \in SUBSET (0..n), T # {}
  PROVE  \E x \in T : \A y \in T : y <= x
<1> DEFINE U == {n - k : k \in T}
<1>1. U \in SUBSET Nat /\ U # {}
  <2>1. \A k \in T : n - k \in Nat
    OBVIOUS
  <2>2. PICK k \in T : TRUE
    OBVIOUS
  <2>3. n - k \in U
    OBVIOUS
  <2> QED BY <2>1, <2>3
<1>2. PICK u \in U : \A v \in U : u <= v
  <2> HIDE DEF U
  <2> QED BY <1>1, LeastElement
<1>3. PICK x \in T : u = n - x
  OBVIOUS
<1>4. ASSUME NEW y \in T PROVE y <= x
  <2>1. n - y \in U
    OBVIOUS
  <2>2. u <= n - y
    BY <1>2, <2>1
  <2> QED BY <1>3, <2>2
<1> QED BY <1>4

\* Print is PutChar for one character after the other.
PrintLoop(s, str, g) ==
  /\ g[0] = s /\ g[Len(str)] = PrintStr(s, str)
  /\ \A k \in 1..Len(str) : g[k] = PutChar(g[k - 1], str[k])

\* The loop of PrintStr exists as a function.
LEMMA PrintRec ==
  ASSUME NEW s, NEW str, Len(str) \in Nat
  PROVE  \E g : PrintLoop(s, str, g)
<1> DEFINE Def(g, n) ==
             [k \in 0..n |-> IF k = 0 THEN s ELSE PutChar(g[k - 1], str[k])]
           S == {n \in Nat : \E g : g = Def(g, n)}
           f == CHOOSE g : g = Def(g, Len(str))
<1>1. 0 \in S
  <2>1. [k \in 0..0 |-> s] = Def([k \in 0..0 |-> s], 0)
    OBVIOUS
  <2> QED BY <2>1
<1>2. ASSUME NEW n \in Nat, n \in S PROVE n + 1 \in S
  <2>1. PICK g : g = Def(g, n)
    BY <1>2
  <2> DEFINE h == [k \in 0..(n + 1) |-> IF k <= n THEN g[k]
                                        ELSE PutChar(g[n], str[n + 1])]
  <2>2. ASSUME NEW k \in 0..(n + 1)
        PROVE  h[k] = IF k = 0 THEN s ELSE PutChar(h[k - 1], str[k])
    <3>1. CASE k <= n
      <4>1. h[k] = g[k] /\ (k # 0 => h[k - 1] = g[k - 1])
        BY <3>1
      <4>2. g[k] = IF k = 0 THEN s ELSE PutChar(g[k - 1], str[k])
        BY <2>1, <3>1
      <4> HIDE DEF h
      <4> QED BY <4>1, <4>2
    <3>2. CASE k = n + 1
      <4>1. h[k] = PutChar(g[n], str[n + 1]) /\ h[k - 1] = g[n]
        BY <3>2
      <4> HIDE DEF h
      <4> QED BY <3>2, <4>1
    <3> QED BY <3>1, <3>2
  <2>3. h = Def(h, n + 1)
    BY <2>2
  <2> HIDE DEF h
  <2>4. \E x : x = Def(x, n + 1)
    BY <2>3, Zenon
  <2> HIDE DEF Def
  <2> QED BY <2>4
<1>3. Len(str) \in S
  <2> HIDE DEF S
  <2> QED BY <1>1, <1>2, SetInduction
<1>4. f = Def(f, Len(str))
  BY <1>3
<1>5. f[Len(str)] = PrintStr(s, str)
  BY DEF PrintStr
<1> HIDE DEF f
<1>6. /\ f[0] = s
      /\ \A k \in 1..Len(str) : f[k] = PutChar(f[k - 1], str[k])
  BY <1>4
<1> QED BY <1>5, <1>6 DEF PrintLoop

\* So is typing a text.
TypeLoop(t, str, g) ==
  /\ g[0] = t /\ g[Len(str)] = TypeAll(t, str)
  /\ \A k \in 1..Len(str) : g[k] = Typed(g[k - 1], str[k])

\* The loop of TypeAll exists as a function.
LEMMA TypeRec ==
  ASSUME NEW t, NEW str, Len(str) \in Nat
  PROVE  \E g : TypeLoop(t, str, g)
<1> DEFINE Def(g, n) ==
             [k \in 0..n |-> IF k = 0 THEN t ELSE Typed(g[k - 1], str[k])]
           S == {n \in Nat : \E g : g = Def(g, n)}
           f == CHOOSE g : g = Def(g, Len(str))
<1>1. 0 \in S
  <2>1. [k \in 0..0 |-> t] = Def([k \in 0..0 |-> t], 0)
    OBVIOUS
  <2> QED BY <2>1
<1>2. ASSUME NEW n \in Nat, n \in S PROVE n + 1 \in S
  <2>1. PICK g : g = Def(g, n)
    BY <1>2
  <2> DEFINE h == [k \in 0..(n + 1) |-> IF k <= n THEN g[k]
                                        ELSE Typed(g[n], str[n + 1])]
  <2>2. ASSUME NEW k \in 0..(n + 1)
        PROVE  h[k] = IF k = 0 THEN t ELSE Typed(h[k - 1], str[k])
    <3>1. CASE k <= n
      <4>1. h[k] = g[k] /\ (k # 0 => h[k - 1] = g[k - 1])
        BY <3>1
      <4>2. g[k] = IF k = 0 THEN t ELSE Typed(g[k - 1], str[k])
        BY <2>1, <3>1
      <4> HIDE DEF h
      <4> QED BY <4>1, <4>2
    <3>2. CASE k = n + 1
      <4>1. h[k] = Typed(g[n], str[n + 1]) /\ h[k - 1] = g[n]
        BY <3>2
      <4> HIDE DEF h
      <4> QED BY <3>2, <4>1
    <3> QED BY <3>1, <3>2
  <2>3. h = Def(h, n + 1)
    BY <2>2
  <2> HIDE DEF h
  <2>4. \E x : x = Def(x, n + 1)
    BY <2>3, Zenon
  <2> HIDE DEF Def
  <2> QED BY <2>4
<1>3. Len(str) \in S
  <2> HIDE DEF S
  <2> QED BY <1>1, <1>2, SetInduction
<1>4. f = Def(f, Len(str))
  BY <1>3
<1>5. f[Len(str)] = TypeAll(t, str)
  BY DEF TypeAll
<1> HIDE DEF f
<1>6. /\ f[0] = t
      /\ \A k \in 1..Len(str) : f[k] = Typed(f[k - 1], str[k])
  BY <1>4
<1> QED BY <1>5, <1>6 DEF TypeLoop

\* Erasing is backspace after backspace.
EraseLoop(t, m, g) ==
  /\ g[0] = t /\ g[m] = Erase(t, m)
  /\ \A k \in 1..m : g[k] = Backspaced(g[k - 1])

\* The loop of Erase exists as a function.
LEMMA EraseRec ==
  ASSUME NEW t, NEW m \in Nat
  PROVE  \E g : EraseLoop(t, m, g)
<1> DEFINE Def(g, n) == [k \in 0..n |-> IF k = 0 THEN t ELSE Backspaced(g[k - 1])]
           S == {n \in Nat : \E g : g = Def(g, n)}
           f == CHOOSE g : g = Def(g, m)
<1>1. 0 \in S
  <2>1. [k \in 0..0 |-> t] = Def([k \in 0..0 |-> t], 0)
    OBVIOUS
  <2> QED BY <2>1
<1>2. ASSUME NEW n \in Nat, n \in S PROVE n + 1 \in S
  <2>1. PICK g : g = Def(g, n)
    BY <1>2
  <2> DEFINE h == [k \in 0..(n + 1) |-> IF k <= n THEN g[k]
                                        ELSE Backspaced(g[n])]
  <2>2. ASSUME NEW k \in 0..(n + 1)
        PROVE  h[k] = IF k = 0 THEN t ELSE Backspaced(h[k - 1])
    <3>1. CASE k <= n
      <4>1. h[k] = g[k] /\ (k # 0 => h[k - 1] = g[k - 1])
        BY <3>1
      <4>2. g[k] = IF k = 0 THEN t ELSE Backspaced(g[k - 1])
        BY <2>1, <3>1
      <4> HIDE DEF h
      <4> QED BY <4>1, <4>2
    <3>2. CASE k = n + 1
      <4>1. h[k] = Backspaced(g[n]) /\ h[k - 1] = g[n]
        BY <3>2
      <4> HIDE DEF h
      <4> QED BY <3>2, <4>1
    <3> QED BY <3>1, <3>2
  <2>3. h = Def(h, n + 1)
    BY <2>2
  <2> HIDE DEF h
  <2>4. \E x : x = Def(x, n + 1)
    BY <2>3, Zenon
  <2> HIDE DEF Def
  <2> QED BY <2>4
<1>3. m \in S
  <2> HIDE DEF S
  <2> QED BY <1>1, <1>2, SetInduction
<1>4. f = Def(f, m)
  BY <1>3
<1>5. f[m] = Erase(t, m)
  BY DEF Erase
<1> HIDE DEF f
<1>6. /\ f[0] = t
      /\ \A k \in 1..m : f[k] = Backspaced(f[k - 1])
  BY <1>4
<1> QED BY <1>5, <1>6 DEF EraseLoop

\* Render's loop, index after index.
DrawLoop(text, size, cur, g) ==
  /\ g[0] = Draw0 /\ g[size] = DrawText(text, size, cur)
  /\ \A k \in 1..size : g[k] = DrawStep(g[k - 1], text, k - 1, cur)

\* The loop of DrawText exists as a function.
LEMMA DrawRec ==
  ASSUME NEW text, NEW size \in Nat, NEW cur
  PROVE  \E g : DrawLoop(text, size, cur, g)
<1> DEFINE Def(g, n) ==
             [k \in 0..n |-> IF k = 0 THEN Draw0
                             ELSE DrawStep(g[k - 1], text, k - 1, cur)]
           S == {n \in Nat : \E g : g = Def(g, n)}
           f == CHOOSE g : g = Def(g, size)
<1>1. 0 \in S
  <2>1. [k \in 0..0 |-> Draw0] = Def([k \in 0..0 |-> Draw0], 0)
    OBVIOUS
  <2> QED BY <2>1
<1>2. ASSUME NEW n \in Nat, n \in S PROVE n + 1 \in S
  <2>1. PICK g : g = Def(g, n)
    BY <1>2
  <2> DEFINE h == [k \in 0..(n + 1) |-> IF k <= n THEN g[k]
                                        ELSE DrawStep(g[n], text, (n + 1) - 1, cur)]
  <2>2. ASSUME NEW k \in 0..(n + 1)
        PROVE  h[k] = IF k = 0 THEN Draw0 ELSE DrawStep(h[k - 1], text, k - 1, cur)
    <3>1. CASE k <= n
      <4>1. h[k] = g[k] /\ (k # 0 => h[k - 1] = g[k - 1])
        BY <3>1
      <4>2. g[k] = IF k = 0 THEN Draw0 ELSE DrawStep(g[k - 1], text, k - 1, cur)
        BY <2>1, <3>1
      <4> HIDE DEF h
      <4> QED BY <4>1, <4>2
    <3>2. CASE k = n + 1
      <4>1. h[k] = DrawStep(g[n], text, (n + 1) - 1, cur) /\ h[k - 1] = g[n]
        BY <3>2
      <4> HIDE DEF h
      <4> QED BY <3>2, <4>1
    <3> QED BY <3>1, <3>2
  <2>3. h = Def(h, n + 1)
    BY <2>2
  <2> HIDE DEF h
  <2>4. \E x : x = Def(x, n + 1)
    BY <2>3, Zenon
  <2> HIDE DEF Def
  <2> QED BY <2>4
<1>3. size \in S
  <2> HIDE DEF S
  <2> QED BY <1>1, <1>2, SetInduction
<1>4. f = Def(f, size)
  BY <1>3
<1>5. f[size] = DrawText(text, size, cur)
  BY DEF DrawText
<1> HIDE DEF f
<1>6. /\ f[0] = Draw0
      /\ \A k \in 1..size : f[k] = DrawStep(f[k - 1], text, k - 1, cur)
  BY <1>4
<1> QED BY <1>5, <1>6 DEF DrawLoop

-----------------------------------------------------------------------------
(* The line.                                                               *)

\* The characters of the names TAB may complete to, and all a line may hold.
NameChars ==
  UNION {{str[k] : k \in 1..Len(str)} :
           str \in FileNames \cup {Commands[i] : i \in DOMAIN Commands}}

Letter == Keys \cup NameChars

Input == [0..(InputSize - 1) -> Letter \cup {NUL}]

\* An array holds n characters.
Holds(a, n) == \A i \in 0..(InputSize - 1) : a[i] = NUL <=> i >= n

LineOK(l) ==
  /\ l = Line(l.input, l.input_len, l.input_cursor)
  /\ l.input \in Input
  /\ l.input_len \in 0..InputMax
  /\ l.input_cursor = l.input_len
  /\ Holds(l.input, l.input_len)

Word(str) == Len(str) \in Nat /\ \A k \in 1..Len(str) : str[k] \in Letter

\* The sizes of the arrays.
LEMMA Sizes ==
  /\ InputMax \in Nat /\ InputMax > 0 /\ InputSize \in Nat /\ InputMax < InputSize
  /\ PrefixCap \in Nat /\ PrefixCap > 0 /\ MaxHist \in Nat /\ MaxHist > 0
  /\ TERM_W \in Nat /\ TERM_W > 0 /\ TERM_H \in Nat /\ TERM_H >= 2
<1>1. {InputMax, PrefixCap, MaxHist} \subseteq Nat \ {0}
  BY TerminalAssumption
<1>2. InputSize \in Nat /\ InputMax < InputSize
  BY TerminalAssumption
<1> QED BY <1>1, <1>2, EditorAssumption

\* No character of a line is the terminator.
LEMMA LetterNotNul == NUL \notin Letter
<1> SUFFICES ASSUME NUL \in Letter PROVE FALSE
  OBVIOUS
<1>1. NUL \notin Keys
  BY TerminalAssumption
<1>2. PICK str \in FileNames \cup {Commands[i] : i \in DOMAIN Commands} :
        NUL \in {str[k] : k \in 1..Len(str)}
  BY <1>1 DEF Letter, NameChars
<1>3. IsString(str)
  BY <1>2, TerminalAssumption DEF Plain
<1> QED BY <1>2, <1>3 DEF IsString

\* Completions are words.
LEMMA NameIsWord ==
  ASSUME NEW str \in FileNames \cup {Commands[i] : i \in DOMAIN Commands}
  PROVE  Word(str)
<1>1. IsString(str)
  BY TerminalAssumption DEF Plain
<1>2. ASSUME NEW k \in 1..Len(str) PROVE str[k] \in NameChars
  BY DEF NameChars
<1> QED BY <1>1, <1>2 DEF Word, IsString, Letter

\* The line at boot and after ENTER.
LEMMA EmptyOK == LineOK(EmptyLine) /\ EmptyLine.input_len = 0
<1>1. /\ EmptyLine.input = [i \in 0..(InputSize - 1) |-> NUL]
      /\ EmptyLine.input_len = 0 /\ EmptyLine.input_cursor = 0
  BY DEF EmptyLine, Line
<1>2. EmptyLine.input \in Input /\ Holds(EmptyLine.input, 0)
  BY <1>1, Sizes DEF Input, Holds
<1>3. EmptyLine = Line(EmptyLine.input, EmptyLine.input_len, EmptyLine.input_cursor)
  BY DEF EmptyLine, Line
<1>4. 0 \in 0..InputMax
  BY Sizes
<1> QED BY <1>1, <1>2, <1>3, <1>4 DEF LineOK

\* What a key that types c makes of the line.
TypedLine(l, c, u) ==
  /\ LineOK(u)
  /\ u.input_len = IF l.input_len < InputMax THEN l.input_len + 1 ELSE l.input_len
  /\ \A i \in 0..(l.input_len - 1) : u.input[i] = l.input[i]
  /\ l.input_len < InputMax => u.input[l.input_len] = c

\* A typed character is appended, unless the line is full.
LEMMA TypeCharOK ==
  ASSUME NEW l, LineOK(l), NEW c \in Letter
  PROVE  TypedLine(l, c, TypeChar(l, c))
<1> DEFINE n == l.input_len
<1>0. n \in 0..InputMax /\ InputSize \in Nat /\ InputMax \in Nat /\ InputMax < InputSize
  BY Sizes DEF LineOK
<1>1. CASE n >= InputMax
  <2>1. TypeChar(l, c) = l
    BY <1>1 DEF TypeChar
  <2> QED BY <1>0, <1>1, <2>1 DEF TypedLine
<1>2. CASE n < InputMax
  <2> DEFINE a == [l.input EXCEPT ![n] = c]
  <2>1. TypeChar(l, c) = Line(a, n + 1, n + 1)
    BY <1>0, <1>2 DEF TypeChar, LineOK
  <2>2. n \in 0..(InputSize - 1) /\ c # NUL
    BY <1>0, <1>2, LetterNotNul
  <2>3. l.input \in [0..(InputSize - 1) -> Letter \cup {NUL}] /\ Holds(l.input, n)
    BY DEF LineOK, Input
  <2>4. a \in Input
    BY <2>2, <2>3 DEF Input
  <2>5. \A i \in 0..(InputSize - 1) : a[i] = IF i = n THEN c ELSE l.input[i]
    BY <2>2, <2>3
  <2> HIDE DEF a, n
  <2>6. Holds(a, n + 1)
    BY <1>0, <2>2, <2>3, <2>5 DEF Holds
  <2>7. /\ TypeChar(l, c).input = a /\ TypeChar(l, c).input_len = n + 1
        /\ TypeChar(l, c).input_cursor = n + 1
    BY <2>1 DEF Line
  <2>8. n + 1 \in 0..InputMax
    BY <1>0, <1>2
  <2>9. LineOK(TypeChar(l, c))
    BY <2>1, <2>4, <2>6, <2>7, <2>8 DEF LineOK
  <2>10. \A i \in 0..(n - 1) : a[i] = l.input[i]
    BY <1>0, <2>5
  <2> QED BY <1>0, <1>2, <2>2, <2>5, <2>7, <2>9, <2>10 DEF TypedLine, n
<1> QED BY <1>0, <1>1, <1>2

\* What a backspace makes of a line with text.
DroppedLine(l, u) ==
  /\ LineOK(u)
  /\ u.input_len = l.input_len - 1
  /\ \A i \in 0..(l.input_len - 2) : u.input[i] = l.input[i]

\* A backspace takes the last character away.
LEMMA DropCharOK ==
  ASSUME NEW l, LineOK(l), l.input_len > 0
  PROVE  DroppedLine(l, DropChar(l))
<1> DEFINE n == l.input_len
           a == DropChar(l).input
<1>0. /\ n \in 1..InputMax /\ InputSize \in Nat /\ InputMax \in Nat
      /\ InputMax < InputSize /\ l.input_cursor = n
  BY Sizes DEF LineOK
<1>1. l.input \in [0..(InputSize - 1) -> Letter \cup {NUL}] /\ Holds(l.input, n)
  BY DEF LineOK, Input
<1>2. a = [i \in 0..(InputSize - 1) |-> IF i = n - 1 THEN NUL ELSE l.input[i]]
  <2>1. \A i \in 0..(InputSize - 1) : i \notin (n - 1)..(n - 2)
    BY <1>0
  <2>2. a = [i \in DOMAIN l.input |->
               IF i = n - 1 THEN NUL
               ELSE IF i \in (n - 1)..(n - 2) THEN l.input[i + 1] ELSE l.input[i]]
    BY <1>0 DEF DropChar, Line
  <2>3. DOMAIN l.input = 0..(InputSize - 1)
    BY <1>1
  <2> HIDE DEF a, n
  <2> QED BY <2>1, <2>2, <2>3
<1>3. /\ DropChar(l).input_len = n - 1
      /\ DropChar(l).input_cursor = n - 1
      /\ DropChar(l) = Line(DropChar(l).input, DropChar(l).input_len,
                            DropChar(l).input_cursor)
  BY <1>0 DEF DropChar, Line
<1> HIDE DEF a, n
<1>4. a \in Input
  BY <1>1, <1>2 DEF Input
<1>5. Holds(a, n - 1)
  BY <1>0, <1>1, <1>2 DEF Holds
<1>6. n - 1 \in 0..InputMax
  BY <1>0
<1>7. LineOK(DropChar(l))
  BY <1>3, <1>4, <1>5, <1>6 DEF LineOK, a
<1>8. \A i \in 0..(n - 2) : a[i] = l.input[i]
  BY <1>0, <1>2
<1> QED BY <1>3, <1>7, <1>8 DEF DroppedLine, a, n

\* What typing the first k characters of str makes of the line.
AddedLine(l, str, k, u) ==
  /\ LineOK(u)
  /\ u.input_len = IF l.input_len + k <= InputMax THEN l.input_len + k ELSE InputMax
  /\ \A i \in 0..(l.input_len - 1) : u.input[i] = l.input[i]
  /\ \A j \in 1..k : l.input_len + j <= InputMax =>
                       u.input[(l.input_len + j) - 1] = str[j]

\* One more character.
LEMMA AddedNext ==
  ASSUME NEW l, LineOK(l), NEW str, NEW k \in Nat, NEW u, AddedLine(l, str, k, u),
         NEW v, TypedLine(u, str[k + 1], v)
  PROVE  AddedLine(l, str, k + 1, v)
<1> DEFINE n == l.input_len
           m == u.input_len
           p == v.input_len
<1>1. n \in Nat /\ m \in Nat /\ InputMax \in Nat /\ n <= InputMax /\ m <= InputMax
  BY Sizes DEF AddedLine, LineOK
<1>2. m = IF n + k <= InputMax THEN n + k ELSE InputMax
  BY DEF AddedLine
<1>3. p = IF m < InputMax THEN m + 1 ELSE m
  BY DEF TypedLine
<1>4. p = IF n + (k + 1) <= InputMax THEN n + (k + 1) ELSE InputMax
  <2> HIDE DEF n, m, p
  <2> QED BY <1>1, <1>2, <1>3
<1>5. \A i \in 0..(m - 1) : v.input[i] = u.input[i]
  BY DEF TypedLine
<1>6. m < InputMax => v.input[m] = str[k + 1]
  BY DEF TypedLine
<1>7. /\ \A i \in 0..(n - 1) : u.input[i] = l.input[i]
      /\ \A j \in 1..k : n + j <= InputMax => u.input[(n + j) - 1] = str[j]
  BY DEF AddedLine
<1>8. LineOK(v)
  BY DEF TypedLine
<1>9. /\ \A i \in 0..(n - 1) : v.input[i] = l.input[i]
      /\ \A j \in 1..(k + 1) : n + j <= InputMax => v.input[(n + j) - 1] = str[j]
  <2> HIDE DEF n, m, p
  <2>1. ASSUME NEW i \in 0..(n - 1) PROVE v.input[i] = l.input[i]
    <3>1. i \in 0..(m - 1)
      BY <1>1, <1>2
    <3> QED BY <1>5, <1>7, <3>1
  <2>2. ASSUME NEW j \in 1..(k + 1), n + j <= InputMax
        PROVE  v.input[(n + j) - 1] = str[j]
    <3>1. CASE j = k + 1
      <4>1. m = (n + j) - 1 /\ m < InputMax
        BY <1>1, <1>2, <2>2, <3>1
      <4> QED BY <1>6, <3>1, <4>1
    <3>2. CASE j \in 1..k
      <4>1. (n + j) - 1 \in 0..(m - 1)
        BY <1>1, <1>2, <2>2, <3>2
      <4> QED BY <1>5, <1>7, <2>2, <3>2, <4>1
    <3> QED BY <3>1, <3>2
  <2> QED BY <2>1, <2>2
<1> QED BY <1>4, <1>8, <1>9 DEF AddedLine

\* The line of the pair follows the key.
LEMMA TypedPair ==
  ASSUME NEW t, NEW c
  PROVE  Typed(t, c).line = TypeChar(t.line, c)
<1>1. CASE t.line.input_len >= InputMax
  BY <1>1 DEF Typed, TypeChar
<1>2. CASE ~(t.line.input_len >= InputMax)
  <2>1. Typed(t, c) = Both(TypeChar(t.line, c), PutChar(t.screen, c))
    BY <1>2 DEF Typed
  <2> QED BY <2>1 DEF Both
<1> QED BY <1>1, <1>2

\* Typing a word, as recall and completion do.
LEMMA TypeAllOK ==
  ASSUME NEW t, LineOK(t.line), NEW str, Word(str)
  PROVE  AddedLine(t.line, str, Len(str), TypeAll(t, str).line)
<1>0. Len(str) \in Nat
  BY DEF Word
<1>g. PICK g : TypeLoop(t, str, g)
  BY <1>0, TypeRec
<1>1. /\ g[0] = t /\ g[Len(str)] = TypeAll(t, str)
      /\ \A k \in 1..Len(str) : g[k] = Typed(g[k - 1], str[k])
  BY <1>g DEF TypeLoop
<1> DEFINE S == {k \in Nat : k <= Len(str) => AddedLine(t.line, str, k, g[k].line)}
<1>2. 0 \in S
  <2>1. t.line.input_len \in 0..InputMax
    BY DEF LineOK
  <2>2. AddedLine(t.line, str, 0, t.line)
    BY <2>1, Sizes DEF AddedLine
  <2> QED BY <1>1, <2>2
<1>3. ASSUME NEW k \in Nat, k \in S PROVE k + 1 \in S
  <2> SUFFICES ASSUME k + 1 <= Len(str)
               PROVE  AddedLine(t.line, str, k + 1, g[k + 1].line)
    OBVIOUS
  <2>1. AddedLine(t.line, str, k, g[k].line)
    BY <1>0, <1>3
  <2>2. g[k + 1] = Typed(g[k], str[k + 1])
    <3>1. k + 1 \in 1..Len(str) /\ (k + 1) - 1 = k
      BY <1>0
    <3> QED BY <1>1, <3>1
  <2>3. LineOK(g[k].line)
    BY <2>1 DEF AddedLine
  <2>4. str[k + 1] \in Letter
    BY <1>0 DEF Word
  <2>5. TypedLine(g[k].line, str[k + 1], g[k + 1].line)
    BY <2>2, <2>3, <2>4, TypeCharOK, TypedPair
  <2> QED BY <2>1, <2>5, AddedNext, Zenon
<1>4. Len(str) \in S
  <2> HIDE DEF S
  <2> QED BY <1>0, <1>2, <1>3, SetInduction
<1> QED BY <1>0, <1>1, <1>4

\* What m backspaces make of the line.
ErasedLine(l, m, u) ==
  /\ LineOK(u)
  /\ u.input_len = l.input_len - m
  /\ \A i \in 0..((l.input_len - m) - 1) : u.input[i] = l.input[i]

\* Nested backspaces take the last m characters away.
LEMMA EraseOK ==
  ASSUME NEW t, LineOK(t.line), NEW m \in 0..t.line.input_len
  PROVE  ErasedLine(t.line, m, Erase(t, m).line)
<1> DEFINE n == t.line.input_len
<1>0. n \in Nat /\ m \in Nat /\ m <= n
  BY Sizes DEF LineOK
<1>g. PICK g : EraseLoop(t, m, g)
  BY <1>0, EraseRec
<1>1. /\ g[0] = t /\ g[m] = Erase(t, m)
      /\ \A k \in 1..m : g[k] = Backspaced(g[k - 1])
  BY <1>g DEF EraseLoop
<1> DEFINE S == {k \in Nat : k <= m => ErasedLine(t.line, k, g[k].line)}
<1>2. 0 \in S
  <2>1. ErasedLine(t.line, 0, t.line)
    BY <1>0 DEF ErasedLine
  <2> QED BY <1>1, <2>1
<1>3. ASSUME NEW k \in Nat, k \in S PROVE k + 1 \in S
  <2> SUFFICES ASSUME k + 1 <= m
               PROVE  ErasedLine(t.line, k + 1, g[k + 1].line)
    OBVIOUS
  <2>1. ErasedLine(t.line, k, g[k].line)
    BY <1>0, <1>3
  <2>2. g[k + 1] = Backspaced(g[k])
    <3>1. k + 1 \in 1..m /\ (k + 1) - 1 = k
      BY <1>0
    <3> QED BY <1>1, <3>1
  <2> DEFINE u == g[k].line
             v == g[k + 1].line
  <2>3. LineOK(u) /\ u.input_len = n - k
    BY <2>1 DEF ErasedLine
  <2>4. u.input_len > 0 /\ u.input_cursor > 0
    <3>1. n - k > 0
      BY <1>0
    <3> QED BY <2>3, <3>1 DEF LineOK
  <2>5. v = DropChar(u)
    <3>1. Backspaced(g[k]) = Both(DropChar(g[k].line), RubOut(g[k].screen))
      BY <2>4 DEF Backspaced
    <3> QED BY <2>2, <3>1 DEF Both
  <2>6. DroppedLine(u, v)
    BY <2>3, <2>4, <2>5, DropCharOK
  <2> HIDE DEF u, v
  <2>7. \A i \in 0..((n - k) - 1) : u.input[i] = t.line.input[i]
    BY <2>1 DEF ErasedLine, u
  <2>8. LineOK(v) /\ v.input_len = (n - k) - 1
    BY <2>3, <2>6 DEF DroppedLine
  <2>9. \A i \in 0..((n - k) - 2) : v.input[i] = u.input[i]
    BY <2>3, <2>6 DEF DroppedLine
  <2> HIDE DEF n
  <2>10. v.input_len = n - (k + 1)
    BY <1>0, <2>8
  <2>11. ASSUME NEW i \in 0..((n - (k + 1)) - 1) PROVE v.input[i] = t.line.input[i]
    <3>1. i \in 0..((n - k) - 2) /\ i \in 0..((n - k) - 1)
      BY <1>0
    <3> QED BY <2>7, <2>9, <3>1
  <2> QED BY <2>8, <2>10, <2>11 DEF ErasedLine, n, v
<1>4. m \in S
  <2> HIDE DEF S
  <2> QED BY <1>0, <1>2, <1>3, SetInduction
<1> QED BY <1>0, <1>1, <1>4

\* Erasing the line leaves none of it.
LEMMA EraseLineOK ==
  ASSUME NEW t, LineOK(t.line)
  PROVE  LineOK(EraseLine(t).line) /\ EraseLine(t).line.input_len = 0
<1>1. t.line.input_len \in Nat
  BY Sizes DEF LineOK
<1>2. ErasedLine(t.line, t.line.input_len, EraseLine(t).line)
  BY <1>1, EraseOK DEF EraseLine
<1> QED BY <1>1, <1>2 DEF ErasedLine

\* The string in an array that holds n characters.
LEMMA TextOf ==
  ASSUME NEW a \in Input, NEW n \in 0..InputMax, Holds(a, n)
  PROVE  Text(a) = [k \in 1..n |-> a[k - 1]]
<1> DEFINE P(m) == m \in DOMAIN a /\ a[m] = NUL /\ \A j \in 0..(m - 1) : a[j] # NUL
<1>1. /\ DOMAIN a = 0..(InputSize - 1) /\ n \in 0..(InputSize - 1)
      /\ n \in Nat /\ InputSize \in Nat
  BY Sizes DEF Input
<1>2. P(n)
  <2>1. \A j \in 0..(n - 1) : j \in 0..(InputSize - 1) /\ ~(j >= n)
    BY <1>1
  <2>2. \A j \in 0..(n - 1) : a[j] # NUL
    BY <2>1 DEF Holds
  <2>3. a[n] = NUL
    BY <1>1 DEF Holds
  <2> QED BY <1>1, <2>2, <2>3
<1>3. ASSUME NEW m, P(m) PROVE m = n
  <2>1. m \in 0..(InputSize - 1) /\ m >= n
    BY <1>1, <1>3 DEF Holds
  <2>2. ~(n \in 0..(m - 1))
    BY <1>1, <1>2, <1>3
  <2> QED BY <1>1, <2>1, <2>2
<1>4. (CHOOSE m \in DOMAIN a : a[m] = NUL /\ \A j \in 0..(m - 1) : a[j] # NUL) = n
  <2>1. \E m \in DOMAIN a : a[m] = NUL /\ \A j \in 0..(m - 1) : a[j] # NUL
    BY <1>2
  <2> QED BY <1>3, <2>1
<1> QED BY <1>4 DEF Text

\* A name that TAB puts in place of prefix p.
LEMMA SuggestionIsWord ==
  ASSUME NEW p, NEW sug \in Suggestions(p)
  PROVE  Word(sug) /\ IsPrefix(p, sug)
<1> DEFINE cmds == {k \in DOMAIN Commands : IsPrefix(p, Commands[k])}
           first == CHOOSE k \in cmds : \A j \in cmds : k <= j
<1>1. CASE cmds # {}
  <2>1. cmds \in SUBSET Nat
    BY TerminalAssumption
  <2>2. \E k \in cmds : \A j \in cmds : k <= j
    <3> HIDE DEF cmds
    <3> QED BY <1>1, <2>1, LeastElement
  <2>3. first \in cmds
    <3> HIDE DEF cmds
    <3> QED BY <2>2
  <2>4. sug = Commands[first]
    BY <1>1 DEF Suggestions
  <2> HIDE DEF first
  <2> QED BY <2>3, <2>4, NameIsWord
<1>2. CASE cmds = {}
  <2>1. sug \in FileNames /\ IsPrefix(p, sug)
    BY <1>2 DEF Suggestions
  <2> QED BY <2>1, NameIsWord
<1> QED BY <1>1, <1>2

\* What TAB looks up is the end of the line, or the beginning of the word
\* there if it is long.
PrefixOK ==
  /\ Len(Prefix) \in 0..line.input_len
  /\ Len(LastWord) <= PrefixCap =>
       \A k \in 1..Len(Prefix) :
         Prefix[k] = line.input[((line.input_len - Len(Prefix)) + k) - 1]

\* TAB never erases more than the line holds.
LEMMA PrefixIsEnd ==
  ASSUME LineOK(line)
  PROVE  PrefixOK
<1> DEFINE n == line.input_len
           txt == SubSeq(Text(line.input), 1, n)
           spaces == {k \in DOMAIN txt : txt[k] = " "}
           start == CHOOSE k \in spaces \cup {0} : \A j \in spaces : j <= k
           cut == IF Len(LastWord) < PrefixCap THEN Len(LastWord) ELSE PrefixCap
<1>0. /\ n \in Nat /\ n <= InputMax /\ n <= InputSize - 1
      /\ InputMax \in Nat /\ InputSize \in Nat /\ PrefixCap \in Nat
  BY Sizes DEF LineOK
<1>1. Text(line.input) = [k \in 1..n |-> line.input[k - 1]]
  BY TextOf DEF LineOK
<1>2. line.input \in Input
  BY DEF LineOK
<1> HIDE DEF n
<1>3. Text(line.input) \in Seq(Letter \cup {NUL}) /\ Len(Text(line.input)) = n
  <2>1. \A k \in 1..n : line.input[k - 1] \in Letter \cup {NUL}
    BY <1>0, <1>2 DEF Input
  <2> QED BY <1>0, <1>1, <2>1
<1>4. txt = Text(line.input)
  BY <1>0, <1>3
<1>5. /\ txt \in Seq(Letter \cup {NUL}) /\ Len(txt) = n
      /\ \A k \in 1..n : txt[k] = line.input[k - 1]
  <2>1. \A k \in 1..n : Text(line.input)[k] = line.input[k - 1]
    BY <1>1
  <2> HIDE DEF txt
  <2> QED BY <1>3, <1>4, <2>1
<1> HIDE DEF txt
<1>6. start \in 0..n
  <2> DEFINE T == spaces \cup {0}
  <2>0. DOMAIN txt = 1..n
    BY <1>5
  <2>1. T \in SUBSET (0..n) /\ T # {}
    <3>1. \A k \in spaces : k \in 0..n
      <4>1. \A k \in spaces : k \in DOMAIN txt
        BY Zenon
      <4> HIDE DEF spaces
      <4> QED BY <1>0, <2>0, <4>1
    <3>2. 0 \in 0..n
      BY <1>0
    <3> HIDE DEF spaces
    <3> QED BY <3>1, <3>2
  <2>2. \E x \in T : \A y \in T : y <= x
    <3> HIDE DEF T
    <3> QED BY <1>0, <2>1, GreatestElement
  <2>3. \E x \in T : \A y \in spaces : y <= x
    BY <2>2
  <2>4. start \in T
    <3> HIDE DEF spaces
    <3> QED BY <2>3
  <2> QED BY <2>1, <2>4
<1>7. LastWord = SubSeq(txt, start + 1, Len(txt))
  BY DEF LastWord, txt, n
<1> HIDE DEF start
<1>8. /\ LastWord \in Seq(Letter \cup {NUL}) /\ Len(LastWord) = n - start
      /\ \A k \in 1..(n - start) : LastWord[k] = txt[start + k]
  <2>1. LastWord = SubSeq(txt, start + 1, n)
    BY <1>5, <1>7
  <2>2. start + 1 \in 1..(Len(txt) + 1) /\ n \in (start + 1) - 1..Len(txt)
    BY <1>0, <1>5, <1>6
  <2>3. n - start \in Nat
    BY <1>0, <1>6
  <2> QED BY <1>0, <1>5, <1>6, <2>1, <2>2, <2>3, SubSeqProperties
<1> HIDE DEF LastWord
<1>9. cut \in 0..(n - start)
  BY <1>0, <1>6, <1>8
<1>10. Prefix = SubSeq(LastWord, 1, cut)
  BY DEF Prefix
<1> HIDE DEF cut
<1>11. /\ Len(Prefix) = cut
       /\ \A k \in 1..cut : Prefix[k] = LastWord[k]
  <2>1. 1 \in 1..(Len(LastWord) + 1) /\ cut \in 1 - 1..Len(LastWord)
    BY <1>0, <1>6, <1>8, <1>9
  <2> QED BY <1>6, <1>8, <1>9, <1>10, <2>1, SubSeqProperties
<1>12. ASSUME Len(LastWord) <= PrefixCap, NEW k \in 1..cut
       PROVE  Prefix[k] = line.input[((n - cut) + k) - 1]
  <2>1. cut = n - start
    BY <1>0, <1>6, <1>8, <1>12 DEF cut
  <2>2. Prefix[k] = txt[start + k]
    BY <1>8, <1>11, <2>1
  <2>3. start + k \in 1..n /\ ((n - cut) + k) - 1 = (start + k) - 1
    BY <1>0, <1>6, <2>1
  <2> QED BY <1>5, <2>2, <2>3
<1>13. cut \in 0..n
  BY <1>0, <1>6, <1>9
<1> QED BY <1>11, <1>12, <1>13 DEF PrefixOK, n

\* The rows of the history: strings of at least one character.
HistRow == {a \in Input : \E n \in 1..InputMax : Holds(a, n)}

\* A history row is a word that fits the line.
LEMMA RowIsWord ==
  ASSUME NEW a \in HistRow
  PROVE  /\ Word(Text(a)) /\ Len(Text(a)) \in 1..InputMax
         /\ Text(a) = [k \in 1..Len(Text(a)) |-> a[k - 1]]
<1>1. PICK n \in 1..InputMax : Holds(a, n)
  BY DEF HistRow
<1>2. /\ a \in Input /\ n \in 0..InputMax /\ n \in Nat
      /\ InputMax < InputSize /\ InputSize \in Nat /\ InputMax \in Nat
  BY Sizes DEF HistRow
<1>3. Text(a) = [k \in 1..n |-> a[k - 1]]
  BY <1>1, <1>2, TextOf
<1>4. ASSUME NEW k \in 1..n PROVE a[k - 1] \in Letter
  <2>1. k - 1 \in 0..(InputSize - 1) /\ ~(k - 1 >= n)
    BY <1>2
  <2> QED BY <1>1, <1>2, <2>1 DEF Holds, Input
<1>5. Len(Text(a)) = n
  BY <1>2, <1>3, <1>4
<1> QED BY <1>1, <1>2, <1>3, <1>4, <1>5 DEF Word

\* Recall: the old line erased, an entry typed.
LEMMA Retyped ==
  ASSUME NEW t, LineOK(t.line), NEW a \in HistRow
  PROVE  LET u == TypeAll(EraseLine(t), Text(a)).line
         IN  LineOK(u) /\ Text(u.input) = Text(a)
<1> DEFINE str == Text(a)
           e == EraseLine(t)
           u == TypeAll(e, str).line
<1>1. Word(str) /\ Len(str) \in 1..InputMax /\ str = [k \in 1..Len(str) |-> a[k - 1]]
  BY RowIsWord
<1>2. LineOK(e.line) /\ e.line.input_len = 0
  BY EraseLineOK
<1> HIDE DEF str, e
<1>3. AddedLine(e.line, str, Len(str), u)
  BY <1>1, <1>2, TypeAllOK
<1> HIDE DEF u
<1>4. LineOK(u) /\ u.input_len = Len(str)
  BY <1>1, <1>2, <1>3, Sizes DEF AddedLine
<1>5. \A j \in 1..Len(str) : u.input[j - 1] = str[j]
  BY <1>1, <1>2, <1>3, Sizes DEF AddedLine
<1>6. Text(u.input) = [k \in 1..Len(str) |-> u.input[k - 1]]
  BY <1>4, TextOf DEF LineOK
<1>7. \A k \in 1..Len(str) : u.input[k - 1] = a[k - 1]
  BY <1>1, <1>5
<1> QED BY <1>1, <1>4, <1>6, <1>7 DEF u, str, e

-----------------------------------------------------------------------------
(* The window's lines.                                                     *)

HistoryOK ==
  /\ history \in Seq(HistRow)
  /\ Len(history) <= MaxHist
  /\ history_idx \in 0..Len(history)

ModeOK ==
  /\ mode = (IF Opened THEN "EDITOR" ELSE "SHELL")
  /\ Opened => line = EmptyLine

\* The inductive invariant of line, history and mode.
LinesOK == LineOK(line) /\ HistoryOK /\ ModeOK

\* What Prompt leaves as the line.
LEMMA PromptedLine ==
  ASSUME NEW s
  PROVE  Prompted(s).line = EmptyLine /\ Prompted(s).screen = PrintStr(s, PromptText)
  BY DEF Prompted, Both

\* The constructor leaves an empty line, no history and the shell.
LEMMA LinesStart == Init => LinesOK
<1> SUFFICES ASSUME Init PROVE LinesOK
  OBVIOUS
<1>1. line = EmptyLine
  BY PromptedLine DEF Init
<1>2. LineOK(line)
  BY <1>1, EmptyOK
<1>3. HistoryOK
  BY Sizes DEF Init, HistoryOK
<1>4. ModeOK
  BY DEF Init, EditorInit, ModeOK, Opened
<1> QED BY <1>2, <1>3, <1>4 DEF LinesOK

\* What ENTER leaves in the history.
LEMMA Remembers ==
  ASSUME LinesOK, Enter
  PROVE  /\ HistoryOK' /\ history' # <<>>
         /\ history'[Len(history')] = line.input
         /\ history_idx' = Len(history')
<1>1. /\ history \in Seq(HistRow) /\ Len(history) <= MaxHist
      /\ Len(history) \in Nat /\ MaxHist \in Nat /\ MaxHist > 0
  BY Sizes DEF LinesOK, HistoryOK
<1>2. line.input \in HistRow
  <2>1. line.input \in Input /\ Holds(line.input, line.input_len)
        /\ line.input_len \in 1..InputMax
    BY Sizes DEF LinesOK, LineOK, Enter
  <2> QED BY <2>1 DEF HistRow
<1>3. history' = Remember(history, line.input) /\ history_idx' = Len(history')
  BY DEF Enter
<1>4. CASE Len(history) < MaxHist
  <2>1. history' = Append(history, line.input)
    BY <1>3, <1>4 DEF Remember
  <2>2. /\ history' \in Seq(HistRow) /\ Len(history') = Len(history) + 1
        /\ history'[Len(history) + 1] = line.input
    BY <1>1, <1>2, <2>1
  <2> QED BY <1>1, <1>3, <1>4, <2>2 DEF HistoryOK
<1>5. CASE ~(Len(history) < MaxHist)
  <2>1. history' = Append(Tail(history), line.input)
    BY <1>3, <1>5 DEF Remember
  <2>2. Tail(history) \in Seq(HistRow) /\ Len(Tail(history)) = Len(history) - 1
    BY <1>1, <1>5
  <2>3. /\ history' \in Seq(HistRow) /\ Len(history') = Len(history)
        /\ history'[Len(history)] = line.input
    BY <1>1, <1>2, <2>1, <2>2
  <2> QED BY <1>1, <1>3, <1>5, <2>3 DEF HistoryOK
<1> QED BY <1>4, <1>5

\* What UP and DOWN leave as the line.
LEMMA Recalls ==
  ASSUME LinesOK, KeyUp \/ KeyDown
  PROVE  /\ LineOK(line)' /\ HistoryOK'
         /\ Text(line'.input) = IF history_idx' < Len(history)
                                THEN Text(history[history_idx' + 1])
                                ELSE <<>>
<1>1. LineOK(Now.line)
  BY DEF LinesOK, Now, Both
<1>2. /\ history \in Seq(HistRow) /\ Len(history) \in Nat
      /\ history_idx \in 0..Len(history) /\ history' = history
  BY DEF LinesOK, HistoryOK, KeyUp, KeyDown
<1>3. history_idx' \in 0..Len(history)
  BY <1>2 DEF KeyUp, KeyDown
<1>4. HistoryOK'
  BY <1>2, <1>3 DEF LinesOK, HistoryOK
<1> DEFINE a == history[history_idx' + 1]
           u == TypeAll(EraseLine(Now), Text(a)).line
<1>5. ASSUME history_idx' < Len(history) PROVE LineOK(u) /\ Text(u.input) = Text(a)
  <2>1. a \in HistRow
    BY <1>2, <1>3, <1>5
  <2> HIDE DEF a
  <2> QED BY <1>1, <2>1, Retyped
<1>6. CASE KeyUp
  <2>1. history_idx' < Len(history)
    BY <1>2, <1>6 DEF KeyUp
  <2>2. line' = u
    BY <1>6 DEF KeyUp, Becomes
  <2> HIDE DEF u
  <2> QED BY <1>4, <1>5, <2>1, <2>2
<1>7. CASE KeyDown
  <2>1. CASE history_idx' < Len(history)
    <3>1. line' = u
      BY <1>7, <2>1 DEF KeyDown, Becomes
    <3> HIDE DEF u
    <3> QED BY <1>4, <1>5, <2>1, <3>1
  <2>2. CASE ~(history_idx' < Len(history))
    <3>1. line' = EraseLine(Now).line
      BY <1>7, <2>2 DEF KeyDown, Becomes
    <3>2. LineOK(line') /\ line'.input_len = 0
      BY <1>1, <3>1, EraseLineOK
    <3>3. Text(line'.input) = [k \in 1..0 |-> line'.input[k - 1]]
      BY <3>2, TextOf, Sizes DEF LineOK
    <3>4. Text(line'.input) = <<>>
      BY <3>3
    <3> QED BY <1>4, <2>2, <3>2, <3>4
  <2> QED BY <2>1, <2>2
<1> QED BY <1>6, <1>7

\* What TAB leaves as the line.
LEMMA Completes ==
  ASSUME LinesOK, KeyTab
  PROVE  /\ LineOK(line')
         /\ Len(LastWord) <= PrefixCap =>
              IsPrefix(Text(line.input), Text(line'.input))
<1>1. PICK sug \in Suggestions(Prefix) :
        line' = TypeAll(Erase(Now, Len(Prefix)), sug).line
  BY DEF KeyTab, Becomes
<1>2. Word(sug) /\ IsPrefix(Prefix, sug)
  BY SuggestionIsWord
<1>3. LineOK(line) /\ Now.line = line /\ PrefixOK
  BY PrefixIsEnd DEF LinesOK, Now, Both
<1> DEFINE n == line.input_len
           p == Len(Prefix)
           e == Erase(Now, p).line
           m == Len(sug)
<1>4. p \in 0..n /\ n \in 0..InputMax /\ m \in Nat /\ InputMax \in Nat
      /\ InputSize \in Nat /\ InputMax < InputSize
  BY <1>2, <1>3, Sizes DEF PrefixOK, LineOK, Word
<1>5. ErasedLine(line, p, e)
  BY <1>3, <1>4, EraseOK
<1>6. LineOK(e) /\ e.input_len = n - p
      /\ \A i \in 0..((n - p) - 1) : e.input[i] = line.input[i]
  BY <1>5 DEF ErasedLine
<1>7. AddedLine(e, sug, m, line')
  BY <1>1, <1>2, <1>6, TypeAllOK
<1>8. LineOK(line')
  BY <1>7 DEF AddedLine
<1> HIDE DEF p, e, m, n
<1>9. ASSUME Len(LastWord) <= PrefixCap
      PROVE  IsPrefix(Text(line.input), Text(line'.input))
  <2> DEFINE q == line'.input_len
  <2>1. p <= m /\ \A k \in 1..p : Prefix[k] = sug[k]
    <3>1. Len(Prefix) <= Len(sug)
          /\ SubSeq(Prefix, 1, Len(Prefix)) = SubSeq(sug, 1, Len(Prefix))
      BY <1>2 DEF IsPrefix
    <3>2. ASSUME NEW k \in 1..p PROVE Prefix[k] = sug[k]
      <4>1. p \in Nat
        BY <1>4
      <4>2. SubSeq(Prefix, 1, p)[k] = Prefix[(1 + k) - 1]
        BY <4>1
      <4>3. SubSeq(sug, 1, p)[k] = sug[(1 + k) - 1]
        BY <4>1
      <4>4. (1 + k) - 1 = k
        BY <4>1
      <4> QED BY <3>1, <4>2, <4>3, <4>4 DEF p
    <3> QED BY <3>1, <3>2 DEF p, m
  <2>2. \A k \in 1..p : Prefix[k] = line.input[((n - p) + k) - 1]
    BY <1>3, <1>9 DEF PrefixOK, p, n
  <2>3. q = IF (n - p) + m <= InputMax THEN (n - p) + m ELSE InputMax
    BY <1>6, <1>7 DEF AddedLine
  <2>4. \A i \in 0..((n - p) - 1) : line'.input[i] = e.input[i]
    BY <1>6, <1>7 DEF AddedLine
  <2>5. \A j \in 1..m : (n - p) + j <= InputMax =>
                          line'.input[((n - p) + j) - 1] = sug[j]
    BY <1>6, <1>7 DEF AddedLine
  <2> HIDE DEF q
  <2>6. n <= q /\ q \in Nat /\ n \in Nat
    BY <1>4, <2>1, <2>3
  <2>7. ASSUME NEW i \in 0..(n - 1) PROVE line'.input[i] = line.input[i]
    <3>1. CASE i \in 0..((n - p) - 1)
      BY <1>6, <2>4, <3>1
    <3>2. CASE i >= n - p
      <4> DEFINE j == (i - (n - p)) + 1
      <4>1. j \in 1..p /\ ((n - p) + j) - 1 = i /\ (n - p) + j <= InputMax /\ j \in 1..m
        BY <1>4, <2>1, <2>6, <3>2
      <4> HIDE DEF j
      <4>2. line'.input[i] = sug[j]
        BY <2>5, <4>1
      <4>3. line.input[i] = Prefix[j]
        BY <2>2, <4>1
      <4> QED BY <2>1, <4>1, <4>2, <4>3
    <3> QED BY <1>4, <2>6, <3>1, <3>2
  <2>8. Text(line.input) = [k \in 1..n |-> line.input[k - 1]]
    BY <1>3, TextOf DEF LineOK, n
  <2>9. Text(line'.input) = [k \in 1..q |-> line'.input[k - 1]]
    BY <1>8, TextOf DEF LineOK, q
  <2>10. Len(Text(line.input)) = n /\ Len(Text(line'.input)) = q
    BY <2>6, <2>8, <2>9
  <2>11. SubSeq(Text(line.input), 1, n) = SubSeq(Text(line'.input), 1, n)
    <3>1. ASSUME NEW k \in 1..n
          PROVE  Text(line.input)[k] = Text(line'.input)[k]
      <4>1. k - 1 \in 0..(n - 1) /\ k \in 1..q
        BY <2>6
      <4> QED BY <2>7, <2>8, <2>9, <4>1
    <3>2. \A k \in 1..n : (1 + k) - 1 = k
      BY <2>6
    <3> QED BY <2>6, <3>1, <3>2
  <2> QED BY <2>6, <2>10, <2>11 DEF IsPrefix
<1> QED BY <1>8, <1>9

\* Keys of the shell leave a good line, and the history good.
LEMMA LinesStep == LinesOK /\ EditorInv /\ [Next]_vars => LinesOK'
<1> SUFFICES ASSUME LinesOK, EditorInv, [Next]_vars PROVE LinesOK'
  OBVIOUS
<1>0. /\ LineOK(line) /\ HistoryOK /\ ModeOK /\ Now.line = line
      /\ LineOK(EmptyLine)
  BY EmptyOK DEF LinesOK, Now, Both
<1>1. ASSUME ShellKey, UNCHANGED editor_vars PROVE LinesOK'
  <2>0. mode = "SHELL" /\ ~Opened
    BY <1>0, <1>1 DEF ShellKey, KeyChar, KeyBackspace, KeyTab, KeyUp, KeyDown,
       EnterEmpty, EnterPrint, EnterClear, Enter, InShell, ModeOK
  <2>1. mode' = mode
    BY <1>1 DEF ShellKey, KeyChar, KeyBackspace, KeyTab, KeyUp, KeyDown,
       EnterEmpty, EnterPrint, EnterClear
  <2>2. ModeOK'
    BY <1>1, <2>0, <2>1 DEF ModeOK, Opened, editor_vars
  <2>3. HistoryOK' /\ LineOK(line')
    <3>1. ASSUME NEW c \in Keys, KeyChar(c) PROVE HistoryOK' /\ LineOK(line')
      <4>1. line' = TypeChar(line, c)
        BY <1>0, <3>1, TypedPair DEF KeyChar, Becomes
      <4>2. TypedLine(line, c, line')
        BY <1>0, <4>1, TypeCharOK DEF Letter
      <4> QED BY <1>0, <3>1, <4>2 DEF KeyChar, TypedLine, HistoryOK
    <3>2. CASE KeyBackspace
      <4>1. LineOK(line')
        <5>1. CASE line.input_cursor > 0
          <6>1. Backspaced(Now) = Both(DropChar(line), RubOut(Now.screen))
            BY <1>0, <5>1 DEF Backspaced
          <6>2. line' = DropChar(line)
            BY <3>2, <6>1 DEF KeyBackspace, Becomes, Both
          <6>3. line.input_len > 0
            BY <1>0, <5>1 DEF LineOK
          <6> QED BY <1>0, <6>2, <6>3, DropCharOK DEF DroppedLine
        <5>2. CASE ~(line.input_cursor > 0)
          <6>1. Backspaced(Now) = Now
            BY <1>0, <5>2 DEF Backspaced
          <6> QED BY <1>0, <3>2, <6>1 DEF KeyBackspace, Becomes
        <5> QED BY <5>1, <5>2
      <4> QED BY <1>0, <3>2, <4>1 DEF KeyBackspace, HistoryOK
    <3>3. CASE KeyTab
      BY <1>0, <3>3, Completes DEF KeyTab, HistoryOK
    <3>4. CASE KeyUp \/ KeyDown
      BY <3>4, Recalls
    <3>5. CASE EnterEmpty
      <4>1. line' = EmptyLine
        BY <3>5, PromptedLine DEF EnterEmpty, Becomes
      <4> QED BY <1>0, <3>5, <4>1 DEF EnterEmpty, HistoryOK
    <3>6. ASSUME NEW out \in Outputs, EnterPrint(out)
          PROVE  HistoryOK' /\ LineOK(line')
      <4>1. line' = EmptyLine
        BY <3>6, PromptedLine DEF EnterPrint, Becomes
      <4> QED BY <1>0, <3>6, <4>1, Remembers DEF EnterPrint
    <3>7. CASE EnterClear
      <4>1. line' = EmptyLine
        BY <3>7, PromptedLine DEF EnterClear, Becomes
      <4> QED BY <1>0, <3>7, <4>1, Remembers DEF EnterClear
    <3> QED BY <1>1, <3>1, <3>2, <3>3, <3>4, <3>5, <3>6, <3>7 DEF ShellKey
  <2> QED BY <2>2, <2>3 DEF LinesOK
<1>2. ASSUME NEW t \in Texts, EnterEdit(t) PROVE LinesOK'
  <2>1. line' = EmptyLine
    BY <1>2, PromptedLine DEF EnterEdit, Becomes
  <2>2. HistoryOK'
    BY <1>2, Remembers DEF EnterEdit
  <2>3. content' # NoBuffer
    <3>1. content' \in [0..(BufSize - 1) -> Chars \cup {NUL}]
      <4>1. t \in Seq(Chars) /\ Len(t) \in Nat
        BY EditorAssumption
      <4>2. \A i \in Index : i < Len(t) => t[i + 1] \in Chars
        BY <4>1, EditorAssumption DEF Index
      <4> QED BY <1>2, <4>1, <4>2 DEF EnterEdit, Start, Index
    <3> QED BY <3>1, EditorAssumption
  <2>4. ModeOK'
    BY <1>2, <2>1, <2>3 DEF EnterEdit, ModeOK, Opened
  <2> QED BY <1>0, <2>1, <2>2, <2>4 DEF LinesOK
<1>3. CASE EditorKey
  <2>1. Opened
    BY <1>0, <1>3 DEF EditorKey, ModeOK
  <2>2. content' \in [0..(BufSize - 1) -> Chars \cup {NUL}]
    <3>1. /\ content \in [Index -> Chars \cup {NUL}] /\ BufSize \in Nat
          /\ content_size \in 0..(BufSize - 1) /\ cursor_idx \in 0..content_size
      BY <2>1, EditorAssumption DEF EditorInv
    <3>2. CASE UNCHANGED content
      BY <3>1, <3>2 DEF Index
    <3>3. CASE Backspace
      BY <3>1, <3>3 DEF Backspace, Removed, Index
    <3>4. ASSUME NEW c \in Chars, Type(c)
          PROVE  content' \in [0..(BufSize - 1) -> Chars \cup {NUL}]
      BY <3>1, <3>4 DEF Type, Inserted, Index
    <3> QED BY <1>3, <3>2, <3>3, <3>4 DEF EditorKey, Back, Forward, Redraw,
            editor_vars
  <2>3. content' # NoBuffer
    BY <2>2, EditorAssumption
  <2>4. mode' = mode /\ line' = line /\ UNCHANGED <<history, history_idx>>
    BY <1>3 DEF EditorKey
  <2> QED BY <1>0, <2>1, <2>3, <2>4 DEF LinesOK, HistoryOK, ModeOK, Opened
<1>4. CASE EditorQuit
  <2>1. line' = EmptyLine /\ content' = NoBuffer
    BY <1>4, PromptedLine DEF EditorQuit, Becomes, Quit
  <2> QED BY <1>0, <1>4, <2>1 DEF EditorQuit, LinesOK, HistoryOK, ModeOK, Opened
<1>5. CASE UNCHANGED vars
  BY <1>0, <1>5 DEF vars, editor_vars, LinesOK, HistoryOK, ModeOK, Opened
<1> QED BY <1>1, <1>2, <1>3, <1>4, <1>5 DEF Next

\* The line after a prompt is the empty string.
LEMMA EmptyText == Text(EmptyLine.input) = <<>>
<1>1. Text(EmptyLine.input) = [k \in 1..0 |-> EmptyLine.input[k - 1]]
  BY EmptyOK, TextOf, Sizes DEF LineOK
<1> QED BY <1>1

\* Line, history and mode, in every run of the window.
THEOREM LinesHold == Spec => [](LinesOK /\ EditorInv)
<1>1. EditorInv /\ [Next]_vars => EditorInv'
  BY EditorStep, WindowStep
<1>2. Init => EditorInv
  BY EditorStarts DEF Init
<1> QED BY <1>1, <1>2, LinesStart, LinesStep, PTL DEF Spec

\* The line is a terminated string with the cursor at its end, whatever keys
\* come (TerminalWindow.cpp:120-260).
THEOREM LineInvHolds == Spec => []LineInv
<1>1. LinesOK => LineInv
  BY DEF LinesOK, LineOK, LineInv, Input, Holds
<1> QED BY <1>1, LinesHold, PTL

\* UP and DOWN show the entry selected, all of it and nothing else.
THEOREM RecallFaithfulHolds == Spec => RecallFaithful
<1> DEFINE R == history_idx' # history_idx /\ history' = history =>
                  Text(line'.input) = IF history_idx' < Len(history)
                                      THEN Text(history[history_idx' + 1])
                                      ELSE <<>>
<1>1. LinesOK /\ EditorInv /\ [Next]_vars => [R]_vars
  <2> SUFFICES ASSUME LinesOK, Next, history_idx' # history_idx, history' = history
               PROVE  R
    OBVIOUS
  <2>1. CASE KeyUp \/ KeyDown
    BY <2>1, Recalls
  <2>2. CASE \/ \E out \in Outputs : EnterPrint(out)
             \/ EnterClear
             \/ \E t \in Texts : EnterEdit(t)
    <3>1. Enter /\ line' = EmptyLine
      BY <2>2, PromptedLine DEF EnterPrint, EnterClear, EnterEdit, Becomes
    <3>2. Text(line'.input) = <<>>
      BY <3>1, EmptyText
    <3>3. ~(history_idx' < Len(history))
      BY <3>1, Remembers DEF LinesOK, HistoryOK
    <3> QED BY <3>2, <3>3
  <2> QED BY <2>1, <2>2 DEF Next, ShellKey, KeyChar, KeyBackspace, KeyTab, EnterEmpty,
            EditorKey, EditorQuit
<1> QED BY <1>1, LinesHold, PTL DEF Spec, RecallFaithful

\* UP after a command brings that command back, also when the history is full.
THEOREM NewestIsLastHolds == Spec => NewestIsLast
<1> DEFINE R == history' # history \/ (mode = "SHELL" /\ mode' = "EDITOR") =>
                  /\ history'[Len(history')] = line.input
                  /\ history_idx' = Len(history')
<1>1. LinesOK /\ EditorInv /\ [Next]_vars => [R]_vars
  <2> SUFFICES ASSUME LinesOK, Next,
                      history' # history \/ (mode = "SHELL" /\ mode' = "EDITOR")
               PROVE  /\ history'[Len(history')] = line.input
                      /\ history_idx' = Len(history')
    OBVIOUS
  <2>1. Enter
    BY DEF Next, ShellKey, KeyChar, KeyBackspace, KeyTab, KeyUp, KeyDown, EnterEmpty,
       EnterPrint, EnterClear, EnterEdit, EditorKey, EditorQuit
  <2> QED BY <2>1, Remembers
<1> QED BY <1>1, LinesHold, PTL DEF Spec, NewestIsLast

\* Completion adds to a line whose last word fits the prefix buffer.
THEOREM CompletionExtendsHolds == Spec => CompletionExtends
<1> DEFINE R == KeyTab /\ Len(LastWord) <= PrefixCap =>
                  IsPrefix(Text(line.input), Text(line'.input))
<1>1. LinesOK /\ EditorInv /\ [Next]_vars => [R]_vars
  <2>1. LinesOK => R
    BY Completes
  <2> QED BY <2>1
<1> QED BY <1>1, LinesHold, PTL DEF Spec, CompletionExtends

-----------------------------------------------------------------------------
(* The screen.                                                             *)

Grid(b) == DOMAIN b = Row /\ \A r \in Row : DOMAIN b[r] = Col

ScreenOK(s) ==
  /\ Grid(s.buffer)
  /\ s.cursor_row \in Row
  /\ s.cursor_col \in 0..TERM_W
  /\ s.ansi_state \in 0..2

\* Nothing is shown at or behind the cursor.
ClearAhead(s) ==
  /\ \A c \in Col : c >= s.cursor_col => s.buffer[s.cursor_row][c] = NUL
  /\ \A r \in Row : r > s.cursor_row => \A c \in Col : s.buffer[r][c] = NUL

\* The row of the cursor ends in the last of n characters of w.
Ends(s, n, w) ==
  \A j \in 1..s.cursor_col :
    j <= n => s.buffer[s.cursor_row][s.cursor_col - j] = w[(n + 1) - j]

\* The fields of a screen.
LEMMA FieldsOf ==
  ASSUME NEW b, NEW r, NEW c, NEW a
  PROVE  /\ Screen(b, r, c, a).buffer = b /\ Screen(b, r, c, a).cursor_row = r
         /\ Screen(b, r, c, a).cursor_col = c /\ Screen(b, r, c, a).ansi_state = a
  BY DEF Screen

\* A cleared screen.
LEMMA ClearedOK == ScreenOK(Cleared) /\ ClearAhead(Cleared) /\ Cleared.ansi_state = 0
<1>1. /\ Cleared.buffer = [r \in Row |-> Blank] /\ Cleared.cursor_row = 0
      /\ Cleared.cursor_col = 0 /\ Cleared.ansi_state = 0
  BY DEF Cleared, Screen
<1>2. Grid(Cleared.buffer) /\ \A r \in Row : \A c \in Col : Cleared.buffer[r][c] = NUL
  BY <1>1 DEF Grid, Blank
<1>3. 0 \in Row /\ 0 \in 0..TERM_W
  BY Sizes DEF Row
<1> QED BY <1>1, <1>2, <1>3 DEF ScreenOK, ClearAhead

\* A new line is a row of the window, and empty if it was.
LEMMA NewLineOK ==
  ASSUME NEW s, ScreenOK(s)
  PROVE  /\ ScreenOK(NewLine(s)) /\ NewLine(s).cursor_col = 0
         /\ NewLine(s).ansi_state = s.ansi_state
         /\ ClearAhead(s) => ClearAhead(NewLine(s))
<1> DEFINE r == s.cursor_row
           b == s.buffer
           u == NewLine(s)
<1>0. /\ r \in Row /\ Grid(b) /\ s.ansi_state \in 0..2
      /\ TERM_H \in Nat /\ TERM_W \in Nat /\ TERM_W > 0
  BY Sizes DEF ScreenOK
<1>1. CASE r + 1 >= TERM_H
  <2>1. u = Screen(ScrollUp(b), r, 0, s.ansi_state)
    BY <1>1 DEF NewLine
  <2>2. u.buffer = ScrollUp(b) /\ u.cursor_row = r /\ u.cursor_col = 0
        /\ u.ansi_state = s.ansi_state
    BY <2>1, FieldsOf
  <2>3. \A q \in Row : ScrollUp(b)[q] = IF q + 1 \in Row THEN b[q + 1] ELSE Blank
    BY DEF ScrollUp
  <2>4. DOMAIN Blank = Col /\ \A c \in Col : Blank[c] = NUL
    BY DEF Blank
  <2>5. Grid(ScrollUp(b))
    <3>1. DOMAIN ScrollUp(b) = Row
      BY DEF ScrollUp
    <3> QED BY <1>0, <2>3, <2>4, <3>1 DEF Grid
  <2> HIDE DEF u, r, b
  <2>6. ScreenOK(u)
    BY <1>0, <2>2, <2>5 DEF ScreenOK
  <2>7. r + 1 \notin Row /\ \A q \in Row : ~(q > r)
    BY <1>0, <1>1 DEF Row
  <2>8. ClearAhead(u)
    BY <1>0, <2>2, <2>3, <2>4, <2>7 DEF ClearAhead
  <2> QED BY <2>2, <2>6, <2>8 DEF u
<1>2. CASE ~(r + 1 >= TERM_H)
  <2>1. u = Screen(b, r + 1, 0, s.ansi_state)
    BY <1>2 DEF NewLine
  <2>2. u.buffer = b /\ u.cursor_row = r + 1 /\ u.cursor_col = 0
        /\ u.ansi_state = s.ansi_state
    BY <2>1, FieldsOf
  <2>3. r + 1 \in Row
    BY <1>0, <1>2 DEF Row
  <2>4. ScreenOK(u)
    BY <1>0, <2>2, <2>3 DEF ScreenOK
  <2>5. ClearAhead(s) => ClearAhead(u)
    <3> SUFFICES ASSUME ClearAhead(s) PROVE ClearAhead(u)
      OBVIOUS
    <3>1. \A q \in Row : q > r => \A c \in Col : b[q][c] = NUL
      BY DEF ClearAhead
    <3> HIDE DEF u, r, b
    <3>2. r + 1 > r /\ \A q \in Row : q > r + 1 => q > r
      BY <1>0 DEF Row
    <3> QED BY <2>2, <2>3, <3>1, <3>2 DEF ClearAhead
  <2> QED BY <2>2, <2>4, <2>5
<1> QED BY <1>1, <1>2

\* A cell is written at the cursor.
Write(t, c) ==
  Screen([t.buffer EXCEPT ![t.cursor_row][t.cursor_col] = c],
         t.cursor_row, t.cursor_col + 1, t.ansi_state)

\* c follows what the row of the cursor shows.
Follows(t, c, u) ==
  /\ u.cursor_col = t.cursor_col + 1
  /\ u.buffer[u.cursor_row][t.cursor_col] = c
  /\ \A i \in Col : i < t.cursor_col =>
       u.buffer[u.cursor_row][i] = t.buffer[t.cursor_row][i]

\* Writing a cell of the row keeps the screen.
LEMMA CellOK ==
  ASSUME NEW t, ScreenOK(t), t.cursor_col < TERM_W, NEW c
  PROVE  /\ ScreenOK(Write(t, c)) /\ Write(t, c).ansi_state = t.ansi_state
         /\ ClearAhead(t) => ClearAhead(Write(t, c))
         /\ Follows(t, c, Write(t, c))
<1> DEFINE r == t.cursor_row
           k == t.cursor_col
           b == t.buffer
           d == [b EXCEPT ![r][k] = c]
           u == Screen(d, r, k + 1, t.ansi_state)
<1>0. /\ r \in Row /\ k \in 0..TERM_W /\ k < TERM_W /\ Grid(b)
      /\ TERM_H \in Nat /\ TERM_W \in Nat /\ TERM_W > 0 /\ t.ansi_state \in 0..2
  BY Sizes DEF ScreenOK
<1>1. u.buffer = d /\ u.cursor_row = r /\ u.cursor_col = k + 1
      /\ u.ansi_state = t.ansi_state
  BY FieldsOf
<1>2. k \in Col
  BY <1>0 DEF Col
<1>3. \A q \in Row : d[q] = IF q = r THEN [b[r] EXCEPT ![k] = c] ELSE b[q]
  BY <1>0 DEF Grid
<1>4. DOMAIN d = Row
  BY <1>0 DEF Grid
<1>5. \A i \in Col : [b[r] EXCEPT ![k] = c][i] = IF i = k THEN c ELSE b[r][i]
  BY <1>0, <1>2 DEF Grid
<1>6. DOMAIN [b[r] EXCEPT ![k] = c] = Col
  BY <1>0 DEF Grid
<1>7. Grid(d)
  BY <1>0, <1>3, <1>4, <1>6 DEF Grid
<1> HIDE DEF r, k, b, d, u
<1>8. ScreenOK(u)
  <2>1. k + 1 \in 0..TERM_W
    BY <1>0
  <2> QED BY <1>0, <1>1, <1>7, <2>1 DEF ScreenOK
<1>9. \A i \in Col : d[r][i] = IF i = k THEN c ELSE b[r][i]
  BY <1>0, <1>3, <1>5
<1>10. ASSUME ClearAhead(t) PROVE ClearAhead(u)
  <2>1. \A i \in Col : i >= k => b[r][i] = NUL
    BY <1>10 DEF ClearAhead, b, r, k
  <2>2. \A q \in Row : q > r => \A i \in Col : b[q][i] = NUL
    BY <1>10 DEF ClearAhead, b, r
  <2>3. ASSUME NEW i \in Col, i >= k + 1 PROVE d[r][i] = NUL
    <3>1. i # k /\ i >= k
      BY <1>0, <2>3 DEF Col
    <3> QED BY <1>9, <2>1, <3>1
  <2>4. ASSUME NEW q \in Row, q > r, NEW i \in Col PROVE d[q][i] = NUL
    <3>1. q # r
      BY <1>0, <2>4 DEF Row
    <3> QED BY <1>3, <2>2, <2>4, <3>1
  <2> QED BY <1>1, <2>3, <2>4 DEF ClearAhead
<1>11. \A i \in Col : i < k => d[r][i] = b[r][i]
  BY <1>0, <1>9 DEF Col
<1>12. u = Write(t, c)
  BY DEF u, d, b, r, k, Write
<1>13. Follows(t, c, u)
  BY <1>1, <1>2, <1>9, <1>11 DEF Follows, b, r, k
<1> QED BY <1>1, <1>8, <1>10, <1>12, <1>13

\* Past the parser.
LEMMA PutOK ==
  ASSUME NEW s, ScreenOK(s), NEW c
  PROVE  /\ ScreenOK(Put(s, c)) /\ Put(s, c).ansi_state = s.ansi_state
         /\ ClearAhead(s) => ClearAhead(Put(s, c))
         /\ c # "\n" => \E t : /\ t.cursor_col = 0 \/ t = s
                              /\ Follows(t, c, Put(s, c))
<1>1. CASE c = "\n"
  <2>1. Put(s, c) = NewLine(s)
    BY <1>1 DEF Put
  <2> QED BY <1>1, <2>1, NewLineOK
<1>2. CASE c # "\n"
  <2> DEFINE t == IF s.cursor_col >= TERM_W THEN NewLine(s) ELSE s
  <2>1. Put(s, c) = Write(t, c)
    BY <1>2 DEF Put, Write
  <2>2. /\ ScreenOK(t) /\ t.cursor_col < TERM_W /\ t.ansi_state = s.ansi_state
        /\ ClearAhead(s) => ClearAhead(t)
        /\ t.cursor_col = 0 \/ t = s
    <3>1. CASE s.cursor_col >= TERM_W
      <4>1. t = NewLine(s)
        BY <3>1
      <4> HIDE DEF t
      <4> QED BY <4>1, NewLineOK, Sizes
    <3>2. CASE ~(s.cursor_col >= TERM_W)
      <4>1. t = s
        BY <3>2
      <4> HIDE DEF t
      <4> QED BY <3>2, <4>1, Sizes DEF ScreenOK
    <3> QED BY <3>1, <3>2
  <2> HIDE DEF t
  <2>3. /\ ScreenOK(Write(t, c)) /\ Write(t, c).ansi_state = t.ansi_state
        /\ ClearAhead(t) => ClearAhead(Write(t, c))
        /\ Follows(t, c, Write(t, c))
    BY <2>2, CellOK
  <2> QED BY <2>1, <2>2, <2>3
<1> QED BY <1>1, <1>2

\* PutChar keeps the screen; a character that is shown leaves the parser at
\* rest and follows what is there.
LEMMA PutCharOK ==
  ASSUME NEW s, ScreenOK(s), NEW c
  PROVE  /\ ScreenOK(PutChar(s, c))
         /\ ClearAhead(s) => ClearAhead(PutChar(s, c))
<1> DEFINE t == Screen(s.buffer, s.cursor_row, s.cursor_col, AnsiNext(s.ansi_state, c))
<1>1. /\ t.buffer = s.buffer /\ t.cursor_row = s.cursor_row
      /\ t.cursor_col = s.cursor_col /\ t.ansi_state = AnsiNext(s.ansi_state, c)
  BY FieldsOf
<1>2. PutChar(s, c) = IF Swallowed(s.ansi_state, c) THEN t ELSE Put(t, c)
  BY DEF PutChar
<1>3. AnsiNext(s.ansi_state, c) \in 0..2
  BY DEF AnsiNext
<1> HIDE DEF t
<1>4. ScreenOK(t) /\ (ClearAhead(s) => ClearAhead(t))
  BY <1>1, <1>3 DEF ScreenOK, ClearAhead
<1> QED BY <1>2, <1>4, PutOK

\* What is put on the screen follows what is shown there.
LEMMA PutShown ==
  ASSUME NEW s, ScreenOK(s), NEW c, c # "\n", ~Swallowed(s.ansi_state, c)
  PROVE  /\ PutChar(s, c).ansi_state = 0
         /\ \A n \in Nat : \A w, v :
              /\ Ends(s, n, w)
              /\ \A j \in 1..n : v[j] = w[j]
              /\ v[n + 1] = c
              => Ends(PutChar(s, c), n + 1, v)
<1> DEFINE t == Screen(s.buffer, s.cursor_row, s.cursor_col, 0)
           u == PutChar(s, c)
<1>1. /\ t.buffer = s.buffer /\ t.cursor_row = s.cursor_row
      /\ t.cursor_col = s.cursor_col /\ t.ansi_state = 0
  BY FieldsOf
<1>2. u = Put(t, c)
  BY DEF PutChar, AnsiNext
<1> HIDE DEF t, u
<1>3. ScreenOK(t)
  BY <1>1 DEF ScreenOK
<1>4. ScreenOK(u) /\ u.ansi_state = 0
  BY <1>1, <1>2, <1>3, PutOK
<1>5. PICK x : (x.cursor_col = 0 \/ x = t) /\ Follows(x, c, u)
  BY <1>2, <1>3, PutOK
<1>6. ASSUME NEW n \in Nat, NEW w, NEW v, Ends(s, n, w),
             \A j \in 1..n : v[j] = w[j], v[n + 1] = c
      PROVE  Ends(u, n + 1, v)
  <2> SUFFICES ASSUME NEW j \in 1..u.cursor_col, j <= n + 1
               PROVE  u.buffer[u.cursor_row][u.cursor_col - j] = v[((n + 1) + 1) - j]
    BY DEF Ends
  <2>1. /\ u.cursor_col = x.cursor_col + 1 /\ x.cursor_col \in 0..TERM_W
        /\ u.cursor_col \in 0..TERM_W /\ TERM_W \in Nat
    BY <1>3, <1>4, <1>5, Sizes DEF Follows, ScreenOK
  <2>2. CASE j = 1
    <3>1. u.cursor_col - j = x.cursor_col /\ ((n + 1) + 1) - j = n + 1
      BY <2>1, <2>2
    <3> QED BY <1>5, <1>6, <3>1 DEF Follows
  <2>3. CASE j # 1
    <3>1. j - 1 \in 1..x.cursor_col /\ j - 1 <= n /\ j - 1 \in 1..n
      BY <2>1, <2>3
    <3>2. x = t
      BY <1>5, <3>1
    <3>3. s.buffer[s.cursor_row][s.cursor_col - (j - 1)] = w[(n + 1) - (j - 1)]
      BY <1>1, <1>6, <3>1, <3>2 DEF Ends
    <3>4. /\ u.cursor_col - j = s.cursor_col - (j - 1)
          /\ u.cursor_col - j \in Col /\ u.cursor_col - j < x.cursor_col
      BY <1>1, <2>1, <2>3, <3>1, <3>2 DEF Col
    <3>5. u.buffer[u.cursor_row][u.cursor_col - j] = s.buffer[s.cursor_row][u.cursor_col - j]
      BY <1>1, <1>5, <3>2, <3>4 DEF Follows
    <3>6. ((n + 1) + 1) - j = (n + 1) - (j - 1) /\ (n + 1) - (j - 1) \in 1..n
      BY <2>1, <3>1
    <3> QED BY <1>6, <3>3, <3>4, <3>5, <3>6
  <2> QED BY <2>2, <2>3
<1> QED BY <1>4, <1>6 DEF u

\* Whatever is printed, the screen is one.
LEMMA PrintOK ==
  ASSUME NEW s, ScreenOK(s), NEW str, IsString(str)
  PROVE  /\ ScreenOK(PrintStr(s, str))
         /\ ClearAhead(s) => ClearAhead(PrintStr(s, str))
<1>0. Len(str) \in Nat
  BY DEF IsString
<1>g. PICK g : PrintLoop(s, str, g)
  BY <1>0, PrintRec
<1>1. /\ g[0] = s /\ g[Len(str)] = PrintStr(s, str)
      /\ \A k \in 1..Len(str) : g[k] = PutChar(g[k - 1], str[k])
  BY <1>g DEF PrintLoop
<1> DEFINE P(x) == ScreenOK(x) /\ (ClearAhead(s) => ClearAhead(x))
           S == {k \in Nat : k <= Len(str) => P(g[k])}
<1>2. 0 \in S
  BY <1>1
<1>3. ASSUME NEW k \in Nat, k \in S PROVE k + 1 \in S
  <2> SUFFICES ASSUME k + 1 <= Len(str) PROVE P(g[k + 1])
    OBVIOUS
  <2>1. P(g[k])
    BY <1>0, <1>3
  <2>2. g[k + 1] = PutChar(g[k], str[k + 1])
    <3>1. k + 1 \in 1..Len(str) /\ (k + 1) - 1 = k
      BY <1>0
    <3> QED BY <1>1, <3>1
  <2> QED BY <2>1, <2>2, PutCharOK
<1>4. Len(str) \in S
  <2> HIDE DEF S
  <2> QED BY <1>0, <1>2, <1>3, SetInduction
<1> QED BY <1>0, <1>1, <1>4

\* At rest the parser takes nothing but ESC.
LEMMA AtRest ==
  ASSUME NEW c, c # ESC
  PROVE  ~Swallowed(0, c)
<1>1. 0 # 1 /\ 0 # 2
  OBVIOUS
<1> QED BY <1>1, Zenon DEF Swallowed

\* The prompt puts the parser at rest and is shown, as far as it is on the
\* row of the cursor.
LEMMA PromptOK ==
  ASSUME NEW s, ScreenOK(s)
  PROVE  LET u == PrintStr(s, PromptText)
         IN  /\ ScreenOK(u) /\ u.ansi_state = 0
             /\ ClearAhead(s) => ClearAhead(u)
             /\ Ends(u, Len(PromptText), PromptText)
<1> DEFINE L == Len(PromptText)
<1>0. L \in Nat /\ L > 0 /\ IsString(PromptText)
  <2>1. Plain(PromptText) /\ L > 0
    BY TerminalAssumption, Zenon
  <2> QED BY <2>1 DEF Plain, IsString
<1>a. \A k \in 1..L : PromptText[k] # ESC /\ PromptText[k] # "\n"
  <2>1. Plain(PromptText)
    BY TerminalAssumption, Zenon
  <2> QED BY <2>1 DEF Plain
<1>b. \A st : ~Swallowed(st, PromptText[1])
  <2>1. PromptText[1] # ESC
    BY <1>0, <1>a
  <2>2. PromptText[1] \notin Digits \cup {"[", "m", ";"}
    BY TerminalAssumption, Zenon
  <2> QED BY <2>1, <2>2, Zenon DEF Swallowed
<1>g. PICK g : PrintLoop(s, PromptText, g)
  BY <1>0, PrintRec
<1>1. /\ g[0] = s /\ g[L] = PrintStr(s, PromptText)
      /\ \A k \in 1..L : g[k] = PutChar(g[k - 1], PromptText[k])
  BY <1>g DEF PrintLoop
<1> DEFINE P(k) == /\ ScreenOK(g[k]) /\ (k > 0 => g[k].ansi_state = 0)
                   /\ Ends(g[k], k, PromptText)
           S == {k \in Nat : k <= L => P(k)}
<1>2. 0 \in S
  <2>1. Ends(s, 0, PromptText)
    BY Sizes DEF Ends, ScreenOK
  <2> QED BY <1>1, <2>1
<1>3. ASSUME NEW k \in Nat, k \in S PROVE k + 1 \in S
  <2> SUFFICES ASSUME k + 1 <= L PROVE P(k + 1)
    OBVIOUS
  <2>1. P(k)
    BY <1>0, <1>3
  <2>2. k + 1 \in 1..L /\ (k + 1) - 1 = k
    BY <1>0
  <2>3. g[k + 1] = PutChar(g[k], PromptText[k + 1])
    BY <1>1, <2>2
  <2> DEFINE c == PromptText[k + 1]
  <2>4. c # ESC /\ c # "\n"
    BY <1>a, <2>2
  <2>5. ~Swallowed(g[k].ansi_state, c)
    <3>1. CASE k > 0
      <4>1. g[k].ansi_state = 0
        BY <2>1, <3>1
      <4> HIDE DEF c
      <4> QED BY <2>4, <4>1, AtRest
    <3>2. CASE k = 0
      <4>1. c = PromptText[1]
        BY <3>2
      <4> QED BY <1>b, <4>1
    <3> QED BY <3>1, <3>2
  <2>6. ScreenOK(g[k + 1])
    BY <2>1, <2>3, PutCharOK
  <2>7. g[k + 1].ansi_state = 0 /\ Ends(g[k + 1], k + 1, PromptText)
    BY <2>1, <2>3, <2>4, <2>5, PutShown
  <2> QED BY <2>6, <2>7
<1>4. L \in S
  <2> HIDE DEF S
  <2> QED BY <1>0, <1>2, <1>3, SetInduction
<1>5. P(L)
  BY <1>0, <1>4
<1>6. ClearAhead(s) => ClearAhead(PrintStr(s, PromptText))
  BY <1>0, PrintOK
<1> QED BY <1>0, <1>1, <1>5, <1>6

\* A backspace on the screen.
LEMMA RubOutOK ==
  ASSUME NEW s, ScreenOK(s)
  PROVE  /\ ScreenOK(RubOut(s)) /\ RubOut(s).ansi_state = s.ansi_state
         /\ ClearAhead(s) => ClearAhead(RubOut(s))
         /\ \A n \in Nat : \A w, v :
              Ends(s, n + 1, w) /\ (\A j \in 1..n : v[j] = w[j])
                => Ends(RubOut(s), n, v)
<1>1. CASE s.cursor_col = 0
  <2>1. RubOut(s) = s
    BY <1>1 DEF RubOut
  <2>2. \A n, v : Ends(s, n, v)
    BY <1>1 DEF Ends
  <2> QED BY <2>1, <2>2
<1>2. CASE s.cursor_col # 0
  <2> DEFINE r == s.cursor_row
             k == s.cursor_col - 1
             b == s.buffer
             d == [b EXCEPT ![r][k] = NUL]
             u == RubOut(s)
  <2>0. /\ r \in Row /\ Grid(b) /\ s.ansi_state \in 0..2 /\ TERM_W \in Nat
        /\ s.cursor_col \in 1..TERM_W
    BY <1>2, Sizes DEF ScreenOK
  <2>1. u = Screen(d, r, k, s.ansi_state)
    BY <1>2 DEF RubOut
  <2>2. u.buffer = d /\ u.cursor_row = r /\ u.cursor_col = k
        /\ u.ansi_state = s.ansi_state
    BY <2>1, FieldsOf
  <2>3. k \in Col /\ k \in 0..TERM_W
    BY <2>0 DEF Col
  <2>4. \A q \in Row : d[q] = IF q = r THEN [b[r] EXCEPT ![k] = NUL] ELSE b[q]
    BY <2>0 DEF Grid
  <2>5. DOMAIN d = Row
    BY <2>0 DEF Grid
  <2>6. \A i \in Col : [b[r] EXCEPT ![k] = NUL][i] = IF i = k THEN NUL ELSE b[r][i]
    BY <2>0, <2>3 DEF Grid
  <2>7. DOMAIN [b[r] EXCEPT ![k] = NUL] = Col
    BY <2>0 DEF Grid
  <2>8. Grid(d)
    BY <2>0, <2>4, <2>5, <2>7 DEF Grid
  <2>9. \A i \in Col : d[r][i] = IF i = k THEN NUL ELSE b[r][i]
    BY <2>0, <2>4, <2>6
  <2>10. ScreenOK(u)
    <3> HIDE DEF u, d, b, k, r
    <3> QED BY <2>0, <2>2, <2>3, <2>8 DEF ScreenOK
  <2>11. ASSUME ClearAhead(s) PROVE ClearAhead(u)
    <3>1. \A i \in Col : i >= s.cursor_col => b[r][i] = NUL
      BY <2>11 DEF ClearAhead
    <3>2. \A q \in Row : q > r => \A i \in Col : b[q][i] = NUL
      BY <2>11 DEF ClearAhead
    <3>3. ASSUME NEW i \in Col, i >= k PROVE d[r][i] = NUL
      <4>1. i = k \/ (i # k /\ i >= s.cursor_col)
        BY <2>0, <3>3 DEF Col
      <4> HIDE DEF d, b, k, r
      <4> QED BY <2>9, <3>1, <4>1
    <3>4. ASSUME NEW q \in Row, q > r, NEW i \in Col PROVE d[q][i] = NUL
      <4>1. q # r
        BY <2>0, <3>4 DEF Row
      <4> HIDE DEF d, b, k, r
      <4> QED BY <2>4, <3>2, <3>4, <4>1
    <3> HIDE DEF u, d, b, k, r
    <3> QED BY <2>2, <3>3, <3>4 DEF ClearAhead
  <2>12. ASSUME NEW n \in Nat, NEW w, NEW v, Ends(s, n + 1, w),
                \A j \in 1..n : v[j] = w[j]
         PROVE  Ends(u, n, v)
    <3> SUFFICES ASSUME NEW j \in 1..k, j <= n
                 PROVE  d[r][k - j] = v[(n + 1) - j]
      <4> HIDE DEF d, k, r, u
      <4> QED BY <2>2 DEF Ends
    <3>1. j + 1 \in 1..s.cursor_col /\ j + 1 <= n + 1
      BY <2>0
    <3>2. b[r][s.cursor_col - (j + 1)] = w[((n + 1) + 1) - (j + 1)]
      BY <2>12, <3>1 DEF Ends
    <3>3. /\ s.cursor_col - (j + 1) = k - j /\ ((n + 1) + 1) - (j + 1) = (n + 1) - j
          /\ (n + 1) - j \in 1..n /\ k - j \in Col /\ k - j # k
      BY <2>0, <2>3 DEF Col
    <3> HIDE DEF d, b, k, r, u
    <3> QED BY <2>9, <2>12, <3>2, <3>3
  <2> HIDE DEF u
  <2>13. u.ansi_state = s.ansi_state
    BY <2>2
  <2> QED BY <2>10, <2>11, <2>12, <2>13 DEF u
<1> QED BY <1>1, <1>2

-----------------------------------------------------------------------------
(* Line and screen together.                                               *)

\* File names hold no control characters.  Names made by a command come from
\* a typed line (shell.cpp:412, 424); names on a disk made elsewhere might.
PlainNames == \A str \in FileNames : Plain(str)

\* Then no character of a line is taken by the escape parser.
LEMMA PlainLetter ==
  ASSUME PlainNames, NEW c \in Letter
  PROVE  c # ESC /\ c # "\n"
<1>1. CASE c \in Keys
  <2>1. Keys \cap {NUL, ESC, "\n"} = {}
    BY TerminalAssumption, Zenon
  <2> QED BY <1>1, <2>1
<1>2. CASE c \in NameChars
  <2>1. PICK str \in FileNames \cup {Commands[i] : i \in DOMAIN Commands} :
          c \in {str[k] : k \in 1..Len(str)}
    BY <1>2 DEF NameChars
  <2>2. Plain(str)
    BY <2>1, TerminalAssumption DEF PlainNames
  <2>3. PICK k \in 1..Len(str) : c = str[k]
    BY <2>1
  <2> QED BY <2>2, <2>3 DEF Plain
<1> QED BY <1>1, <1>2 DEF Letter

PromptLen == Len(PromptText)

\* The prompt and the line.
Shows(l) ==
  [j \in 1..(PromptLen + l.input_len) |->
     IF j <= PromptLen THEN PromptText[j] ELSE l.input[(j - PromptLen) - 1]]

Showing(l, s) == Ends(s, PromptLen + l.input_len, Shows(l))

ScreenGood(t) ==
  /\ ScreenOK(t.screen) /\ ClearAhead(t.screen) /\ t.screen.ansi_state = 0
  /\ Showing(t.line, t.screen)

Good(t) == LineOK(t.line) /\ ScreenGood(t)

\* There is a prompt.
LEMMA PromptLenOK == PromptLen \in Nat /\ PromptLen > 0
<1>1. Plain(PromptText) /\ Len(PromptText) > 0
  BY TerminalAssumption, Zenon
<1> QED BY <1>1 DEF Plain, IsString, PromptLen

\* A longer line shows what a shorter one shows.
LEMMA ShowsMore ==
  ASSUME NEW l, NEW u, l.input_len \in Nat, u.input_len = l.input_len + 1,
         \A i \in 0..(l.input_len - 1) : u.input[i] = l.input[i]
  PROVE  /\ \A j \in 1..(PromptLen + l.input_len) : Shows(u)[j] = Shows(l)[j]
         /\ Shows(u)[(PromptLen + l.input_len) + 1] = u.input[l.input_len]
<1> DEFINE n == l.input_len
           L == PromptLen
<1>0. L \in Nat
  BY PromptLenOK
<1>1. \A j \in 1..(L + n) :
        Shows(l)[j] = IF j <= L THEN PromptText[j] ELSE l.input[(j - L) - 1]
  BY DEF Shows
<1>2. \A j \in 1..(L + (n + 1)) :
        Shows(u)[j] = IF j <= L THEN PromptText[j] ELSE u.input[(j - L) - 1]
  BY DEF Shows
<1> HIDE DEF n, L
<1>3. ASSUME NEW j \in 1..(L + n) PROVE Shows(u)[j] = Shows(l)[j]
  <2>1. j \in 1..(L + (n + 1))
    BY <1>0 DEF n
  <2>2. ~(j <= L) => (j - L) - 1 \in 0..(n - 1)
    BY <1>0 DEF n
  <2> QED BY <1>1, <1>2, <2>1, <2>2 DEF n
<1>4. /\ (L + n) + 1 \in 1..(L + (n + 1)) /\ ~((L + n) + 1 <= L)
      /\ (((L + n) + 1) - L) - 1 = n
  BY <1>0 DEF n
<1> QED BY <1>2, <1>3, <1>4 DEF n, L

\* A key that types a character.
LEMMA TypedGood ==
  ASSUME PlainNames, NEW t, Good(t), NEW c \in Letter
  PROVE  Good(Typed(t, c))
<1> DEFINE l == t.line
           s == t.screen
           u == TypeChar(l, c)
           v == PutChar(s, c)
<1>0. LineOK(l) /\ ScreenOK(s) /\ ClearAhead(s) /\ s.ansi_state = 0 /\ Showing(l, s)
  BY DEF Good, ScreenGood
<1>1. CASE l.input_len >= InputMax
  <2>1. Typed(t, c) = t
    BY <1>1 DEF Typed
  <2> QED BY <2>1
<1>2. CASE ~(l.input_len >= InputMax)
  <2>1. Typed(t, c) = Both(u, v)
    BY <1>2 DEF Typed
  <2>2. TypedLine(l, c, u)
    BY <1>0, TypeCharOK
  <2>3. Typed(t, c).line = u /\ Typed(t, c).screen = v
    BY <2>1 DEF Both
  <2>4. c # ESC /\ c # "\n"
    BY PlainLetter
  <2>5. ~Swallowed(s.ansi_state, c)
    BY <1>0, <2>4, AtRest
  <2>6. ScreenOK(v) /\ ClearAhead(v)
    BY <1>0, PutCharOK
  <2>7. v.ansi_state = 0 /\
        \A n \in Nat : \A w, x : Ends(s, n, w) /\ (\A j \in 1..n : x[j] = w[j])
                                   /\ x[n + 1] = c => Ends(v, n + 1, x)
    BY <1>0, <2>4, <2>5, PutShown
  <2> HIDE DEF l, s, u, v
  <2> DEFINE n == l.input_len
  <2>8. /\ LineOK(u) /\ n \in Nat /\ u.input_len = n + 1 /\ u.input[n] = c
        /\ \A i \in 0..(n - 1) : u.input[i] = l.input[i]
    BY <1>0, <1>2, <2>2, Sizes DEF TypedLine, LineOK
  <2>9. /\ \A j \in 1..(PromptLen + n) : Shows(u)[j] = Shows(l)[j]
        /\ Shows(u)[(PromptLen + n) + 1] = c
    BY <2>8, ShowsMore
  <2>10. PromptLen + n \in Nat /\ (PromptLen + n) + 1 = PromptLen + (n + 1)
    BY <2>8, PromptLenOK
  <2>11. Ends(s, PromptLen + n, Shows(l))
    BY <1>0 DEF Showing
  <2>12. Ends(v, PromptLen + (n + 1), Shows(u))
    BY <2>7, <2>9, <2>10, <2>11
  <2>13. Showing(u, v)
    BY <2>8, <2>12 DEF Showing
  <2> QED BY <2>3, <2>6, <2>7, <2>8, <2>13 DEF Good, ScreenGood
<1> QED BY <1>1, <1>2

\* Backspace.
LEMMA BackspacedGood ==
  ASSUME NEW t, Good(t)
  PROVE  Good(Backspaced(t))
<1> DEFINE l == t.line
           s == t.screen
           u == DropChar(l)
           v == RubOut(s)
<1>0. LineOK(l) /\ ScreenOK(s) /\ ClearAhead(s) /\ s.ansi_state = 0 /\ Showing(l, s)
  BY DEF Good, ScreenGood
<1>1. CASE ~(l.input_cursor > 0)
  <2>1. Backspaced(t) = t
    BY <1>1 DEF Backspaced
  <2> QED BY <2>1
<1>2. CASE l.input_cursor > 0
  <2>1. Backspaced(t) = Both(u, v)
    BY <1>2 DEF Backspaced
  <2>2. Backspaced(t).line = u /\ Backspaced(t).screen = v
    BY <2>1 DEF Both
  <2>3. l.input_len > 0
    BY <1>0, <1>2 DEF LineOK
  <2>4. DroppedLine(l, u)
    BY <1>0, <2>3, DropCharOK
  <2>5. /\ ScreenOK(v) /\ ClearAhead(v) /\ v.ansi_state = 0
        /\ \A n \in Nat : \A w, x : Ends(s, n + 1, w) /\ (\A j \in 1..n : x[j] = w[j])
                                      => Ends(v, n, x)
    BY <1>0, RubOutOK
  <2> HIDE DEF l, s, u, v
  <2> DEFINE n == u.input_len
  <2>6. /\ LineOK(u) /\ n \in Nat /\ l.input_len = n + 1
        /\ \A i \in 0..(n - 1) : l.input[i] = u.input[i]
    <3>1. LineOK(u) /\ n = l.input_len - 1 /\ l.input_len \in Nat
      BY <1>0, <2>4, Sizes DEF DroppedLine, LineOK
    <3>2. \A i \in 0..(l.input_len - 2) : u.input[i] = l.input[i]
      BY <2>4 DEF DroppedLine
    <3>3. n \in Nat /\ l.input_len = n + 1 /\ l.input_len - 2 = n - 1
      BY <2>3, <3>1
    <3> QED BY <3>1, <3>2, <3>3
  <2>7. \A j \in 1..(PromptLen + n) : Shows(l)[j] = Shows(u)[j]
    BY <2>6, ShowsMore
  <2>8. PromptLen + n \in Nat /\ (PromptLen + n) + 1 = PromptLen + (n + 1)
    BY <2>6, PromptLenOK
  <2>9. Ends(s, (PromptLen + n) + 1, Shows(l))
    BY <1>0, <2>6, <2>8 DEF Showing
  <2>10. Ends(v, PromptLen + n, Shows(u))
    BY <2>5, <2>7, <2>8, <2>9
  <2>11. Showing(u, v)
    BY <2>10 DEF Showing
  <2> QED BY <2>2, <2>5, <2>6, <2>11 DEF Good, ScreenGood
<1> QED BY <1>1, <1>2

\* Typing a word and erasing.
LEMMA TypeAllGood ==
  ASSUME PlainNames, NEW t, Good(t), NEW str, Word(str)
  PROVE  Good(TypeAll(t, str))
<1>0. Len(str) \in Nat
  BY DEF Word
<1>g. PICK g : TypeLoop(t, str, g)
  BY <1>0, TypeRec
<1>1. /\ g[0] = t /\ g[Len(str)] = TypeAll(t, str)
      /\ \A k \in 1..Len(str) : g[k] = Typed(g[k - 1], str[k])
  BY <1>g DEF TypeLoop
<1> DEFINE S == {k \in Nat : k <= Len(str) => Good(g[k])}
<1>2. 0 \in S
  BY <1>1
<1>3. ASSUME NEW k \in Nat, k \in S PROVE k + 1 \in S
  <2> SUFFICES ASSUME k + 1 <= Len(str) PROVE Good(g[k + 1])
    OBVIOUS
  <2>1. Good(g[k])
    BY <1>0, <1>3
  <2>2. k + 1 \in 1..Len(str) /\ (k + 1) - 1 = k
    BY <1>0
  <2>3. g[k + 1] = Typed(g[k], str[k + 1])
    BY <1>1, <2>2
  <2>4. str[k + 1] \in Letter
    BY <2>2 DEF Word
  <2> QED BY <2>1, <2>3, <2>4, TypedGood
<1>4. Len(str) \in S
  <2> HIDE DEF S
  <2> QED BY <1>0, <1>2, <1>3, SetInduction
<1> QED BY <1>0, <1>1, <1>4

\* Backspaces keep line and screen together.
LEMMA EraseGood ==
  ASSUME NEW t, Good(t), NEW m \in Nat
  PROVE  Good(Erase(t, m))
<1>g. PICK g : EraseLoop(t, m, g)
  BY EraseRec
<1>1. /\ g[0] = t /\ g[m] = Erase(t, m)
      /\ \A k \in 1..m : g[k] = Backspaced(g[k - 1])
  BY <1>g DEF EraseLoop
<1> DEFINE S == {k \in Nat : k <= m => Good(g[k])}
<1>2. 0 \in S
  BY <1>1
<1>3. ASSUME NEW k \in Nat, k \in S PROVE k + 1 \in S
  <2> SUFFICES ASSUME k + 1 <= m PROVE Good(g[k + 1])
    OBVIOUS
  <2>1. Good(g[k])
    BY <1>3
  <2>2. k + 1 \in 1..m /\ (k + 1) - 1 = k
    OBVIOUS
  <2>3. g[k + 1] = Backspaced(g[k])
    BY <1>1, <2>2
  <2> QED BY <2>1, <2>3, BackspacedGood
<1>4. m \in S
  <2> HIDE DEF S
  <2> QED BY <1>2, <1>3, SetInduction
<1> QED BY <1>1, <1>4

\* A prompt on a screen with nothing behind the cursor.
LEMMA PromptedGood ==
  ASSUME NEW s, ScreenOK(s), ClearAhead(s)
  PROVE  Good(Prompted(s))
<1> DEFINE u == PrintStr(s, PromptText)
<1>1. Prompted(s).line = EmptyLine /\ Prompted(s).screen = u
  BY PromptedLine
<1>2. ScreenOK(u) /\ u.ansi_state = 0 /\ ClearAhead(u)
      /\ Ends(u, PromptLen, PromptText)
  BY PromptOK DEF PromptLen
<1> HIDE DEF u
<1>3. LineOK(EmptyLine) /\ EmptyLine.input_len = 0
  BY EmptyOK
<1>4. PromptLen \in Nat /\ PromptLen + 0 = PromptLen
  BY PromptLenOK
<1>5. \A j \in 1..PromptLen : Shows(EmptyLine)[j] = PromptText[j]
  BY <1>3, <1>4 DEF Shows
<1>6. Ends(u, PromptLen, Shows(EmptyLine))
  <2> SUFFICES ASSUME NEW j \in 1..u.cursor_col, j <= PromptLen
               PROVE  u.buffer[u.cursor_row][u.cursor_col - j]
                        = Shows(EmptyLine)[(PromptLen + 1) - j]
    BY DEF Ends
  <2>1. u.cursor_col \in Nat
    BY <1>2, Sizes DEF ScreenOK
  <2>2. (PromptLen + 1) - j \in 1..PromptLen
    BY <1>4, <2>1
  <2> QED BY <1>2, <1>5, <2>2 DEF Ends
<1>7. Showing(EmptyLine, u)
  BY <1>3, <1>4, <1>6 DEF Showing
<1> QED BY <1>1, <1>2, <1>3, <1>7 DEF Good, ScreenGood

-----------------------------------------------------------------------------
(* Render.                                                                 *)

\* The loop never leaves the window.
CellsOK(cells) ==
  \A p \in cells : p[1] \in 0..(TERM_H - 1) /\ p[2] \in 0..(TERM_W - 1)

DrawOK(r) ==
  /\ r = Drawing(r.row, r.col, r.cx, r.cy, r.cells)
  /\ r.row \in 0..(TERM_H - 1) /\ r.col \in 0..TERM_W
  /\ r.cy \in 0..(TERM_H - 1) /\ r.cx \in 0..TERM_W
  /\ CellsOK(r.cells)

\* The fields of a drawing.
LEMMA DrawingFields ==
  ASSUME NEW a, NEW b, NEW c, NEW d, NEW e
  PROVE  LET r == Drawing(a, b, c, d, e)
         IN  /\ r.row = a /\ r.col = b /\ r.cx = c /\ r.cy = d /\ r.cells = e
             /\ r = Drawing(r.row, r.col, r.cx, r.cy, r.cells)
  BY DEF Drawing

\* A drawing of fields within the window.
LEMMA DrawingOK ==
  ASSUME NEW a \in 0..(TERM_H - 1), NEW b \in 0..TERM_W, NEW c \in 0..TERM_W,
         NEW d \in 0..(TERM_H - 1), NEW e, CellsOK(e)
  PROVE  DrawOK(Drawing(a, b, c, d, e))
  BY DrawingFields DEF DrawOK

\* A character placed above the status line is in the window.
LEMMA PlaceOK ==
  ASSUME NEW r, DrawOK(r), ~Stopped(r), NEW c
  PROVE  DrawOK(Place(r, c))
<1>0. /\ r.row \in 0..(TERM_H - 1) /\ r.col \in 0..TERM_W
      /\ r.cy \in 0..(TERM_H - 1) /\ r.cx \in 0..TERM_W
      /\ CellsOK(r.cells) /\ TERM_H \in Nat /\ TERM_W \in Nat /\ TERM_W > 0
  BY Sizes DEF DrawOK
<1>1. r.row + 1 \in 0..(TERM_H - 1) /\ 0 \in 0..TERM_W /\ 1 \in 0..TERM_W
      /\ 0 \in 0..(TERM_W - 1)
  BY <1>0 DEF Stopped
<1>2. CASE c = "\n"
  <2>1. Place(r, c) = Drawing(r.row + 1, 0, r.cx, r.cy, r.cells)
    BY <1>2 DEF Place
  <2> QED BY <1>0, <1>1, <2>1, DrawingOK
<1>3. CASE c # "\n" /\ r.col < TERM_W
  <2> DEFINE e == r.cells \cup {<<r.row, r.col, c>>}
  <2>1. Place(r, c) = Drawing(r.row, r.col + 1, r.cx, r.cy, e)
    BY <1>3 DEF Place
  <2>2. r.col \in 0..(TERM_W - 1) /\ r.col + 1 \in 0..TERM_W
    BY <1>0, <1>3
  <2>3. CellsOK(e)
    BY <1>0, <2>2 DEF CellsOK
  <2> HIDE DEF e
  <2> QED BY <1>0, <2>1, <2>2, <2>3, DrawingOK
<1>4. CASE c # "\n" /\ ~(r.col < TERM_W)
  <2> DEFINE e == r.cells \cup {<<r.row + 1, 0, c>>}
  <2>1. Place(r, c) = Drawing(r.row + 1, 1, r.cx, r.cy, e)
    BY <1>4 DEF Place
  <2>2. CellsOK(e)
    BY <1>0, <1>1 DEF CellsOK
  <2> HIDE DEF e
  <2> QED BY <1>0, <1>1, <2>1, <2>2, DrawingOK
<1> QED BY <1>2, <1>3, <1>4

\* So is the cursor.
LEMMA CursorHereOK ==
  ASSUME NEW r, DrawOK(r)
  PROVE  DrawOK(CursorHere(r)) /\ CursorHere(r).row = r.row /\ CursorHere(r).col = r.col
         /\ CursorHere(r).cx = r.col /\ CursorHere(r).cy = r.row
<1>1. /\ r.row \in 0..(TERM_H - 1) /\ r.col \in 0..TERM_W
      /\ CellsOK(r.cells)
  BY DEF DrawOK
<1>2. CursorHere(r) = Drawing(r.row, r.col, r.col, r.row, r.cells)
  BY DEF CursorHere
<1>3. DrawOK(CursorHere(r))
  BY <1>1, <1>2, DrawingOK
<1>4. /\ CursorHere(r).row = r.row /\ CursorHere(r).col = r.col
      /\ CursorHere(r).cx = r.col /\ CursorHere(r).cy = r.row
  BY <1>2, DrawingFields
<1> QED BY <1>3, <1>4

\* The loop body stays in the window.
LEMMA DrawStepOK ==
  ASSUME NEW r, DrawOK(r), NEW text, NEW i, NEW cur
  PROVE  DrawOK(DrawStep(r, text, i, cur))
<1> DEFINE q == IF i = cur THEN CursorHere(r) ELSE r
<1>1. CASE Stopped(r)
  BY <1>1 DEF DrawStep
<1>2. CASE ~Stopped(r)
  <2>1. DrawStep(r, text, i, cur) = Place(q, text[i])
    BY <1>2 DEF DrawStep
  <2>2. DrawOK(q) /\ q.row = r.row
    BY CursorHereOK
  <2> HIDE DEF q
  <2>3. ~Stopped(q)
    BY <1>2, <2>2 DEF Stopped
  <2> QED BY <2>1, <2>2, <2>3, PlaceOK
<1> QED BY <1>1, <1>2

\* All along the loop.
LEMMA LoopOK ==
  ASSUME NEW text, NEW size \in Nat, NEW cur, NEW g, DrawLoop(text, size, cur, g)
  PROVE  \A k \in 0..size : DrawOK(g[k])
<1> DEFINE S == {k \in Nat : k <= size => DrawOK(g[k])}
<1>1. 0 \in S
  <2>1. DrawOK(Draw0)
    <3>1. 0 \in 0..(TERM_H - 1) /\ 0 \in 0..TERM_W
      BY Sizes
    <3>2. CellsOK({})
      BY DEF CellsOK
    <3> QED BY <3>1, <3>2, DrawingOK DEF Draw0
  <2> QED BY <2>1 DEF DrawLoop
<1>2. ASSUME NEW k \in Nat, k \in S PROVE k + 1 \in S
  <2> SUFFICES ASSUME k + 1 <= size PROVE DrawOK(g[k + 1])
    OBVIOUS
  <2>1. DrawOK(g[k])
    BY <1>2
  <2>2. k + 1 \in 1..size /\ (k + 1) - 1 = k
    OBVIOUS
  <2>3. g[k + 1] = DrawStep(g[k], text, k, cur)
    BY <2>2 DEF DrawLoop
  <2> QED BY <2>1, <2>3, DrawStepOK
<1>3. \A k \in Nat : k \in S
  <2> HIDE DEF S
  <2> QED BY <1>1, <1>2, SetInduction
<1> QED BY <1>3

\* And so does all that Render draws.
LEMMA RenderOK ==
  ASSUME NEW text, NEW size \in Nat, NEW cur
  PROVE  DrawOK(Render(text, size, cur))
<1>1. PICK g : DrawLoop(text, size, cur, g)
  BY DrawRec
<1>2. DrawOK(DrawText(text, size, cur))
  BY <1>1, LoopOK DEF DrawLoop
<1> QED BY <1>2, CursorHereOK DEF Render

\* Render writes into the window only.
THEOREM RenderInBoundsHolds == Spec => []RenderInBounds
<1>1. EditorInv => RenderInBounds
  <2> SUFFICES ASSUME EditorInv, Opened PROVE RenderInBounds
    BY DEF RenderInBounds
  <2>1. content_size \in Nat
    BY EditorAssumption DEF EditorInv
  <2>2. DrawOK(Render(content, content_size, cursor_idx))
    BY <2>1, RenderOK
  <2> QED BY <2>2 DEF DrawOK, CellsOK, RenderInBounds
<1> QED BY <1>1, WindowEditorInvariant, PTL

\* What Render leaves is a screen with its cursor in it.
LEMMA RenderedOK ==
  ASSUME NEW text, NEW size \in Nat, NEW cur
  PROVE  ScreenOK(Rendered(text, size, cur)) /\ Rendered(text, size, cur).ansi_state = 0
<1> DEFINE d == Render(text, size, cur)
           u == Rendered(text, size, cur)
           At(r, c) == {p \in d.cells : p[1] = r /\ p[2] = c}
           Cell(r, c) == IF r = TERM_H - 1 /\ c < Len(StatusText)
                         THEN StatusText[c + 1]
                         ELSE IF At(r, c) = {} THEN NUL
                              ELSE (CHOOSE p \in At(r, c) : TRUE)[3]
           b == [r \in Row |-> [c \in Col |-> Cell(r, c)]]
<1>1. u = Screen(b, d.cy, d.cx, 0)
  BY DEF Rendered
<1>2. Grid(b)
  <2> HIDE DEF Cell
  <2> QED BY DEF Grid
<1>3. d.cy \in Row /\ d.cx \in 0..TERM_W
  BY RenderOK DEF DrawOK, Row
<1> HIDE DEF b, d, u
<1>4. u.buffer = b /\ u.cursor_row = d.cy /\ u.cursor_col = d.cx /\ u.ansi_state = 0
  BY <1>1, FieldsOf
<1>5. ScreenOK(u)
  BY <1>2, <1>3, <1>4 DEF ScreenOK
<1> QED BY <1>4, <1>5 DEF u

-----------------------------------------------------------------------------
(* The window.                                                             *)

\* The inductive invariant of the screen.
WindowOK ==
  /\ ScreenOK(screen) /\ screen.ansi_state = 0
  /\ InShell => Good(Now)

\* Both parts of a pair become the window's.
LEMMA BecomesGood ==
  ASSUME NEW t, Good(t), Becomes(t)
  PROVE  WindowOK'
<1>1. line' = t.line /\ screen' = t.screen
  BY DEF Becomes
<1>2. /\ LineOK(line') /\ ScreenOK(screen') /\ ClearAhead(screen')
      /\ screen'.ansi_state = 0 /\ Showing(line', screen')
  BY <1>1 DEF Good, ScreenGood
<1>3. Now'.line = line' /\ Now'.screen = screen'
  BY DEF Now, Both
<1>4. Good(Now')
  BY <1>2, <1>3 DEF Good, ScreenGood
<1> QED BY <1>2, <1>4 DEF WindowOK

\* The constructor leaves the banner and a prompt.
LEMMA WindowStart == Init => WindowOK
<1> SUFFICES ASSUME Init PROVE WindowOK
  OBVIOUS
<1> DEFINE s == PrintStr(Cleared, Banner)
           t == Prompted(s)
<1>1. IsString(Banner)
  <2>1. \A str \in FileNames \cup Outputs \cup {Banner} : IsString(str)
    BY TerminalAssumption, Zenon
  <2> QED BY <2>1
<1>2. ScreenOK(s) /\ ClearAhead(s)
  BY <1>1, ClearedOK, PrintOK
<1>3. line = t.line /\ screen = t.screen
  BY DEF Init
<1> HIDE DEF s
<1>4. Good(t)
  BY <1>2, PromptedGood
<1> HIDE DEF t
<1>5. Now.line = t.line /\ Now.screen = t.screen
  BY <1>3 DEF Now, Both
<1>6. Good(Now)
  BY <1>4, <1>5 DEF Good, ScreenGood
<1> QED BY <1>3, <1>4, <1>6 DEF WindowOK, Good, ScreenGood

\* Every key keeps line and screen together.
LEMMA ScreenStep ==
  ASSUME PlainNames, LinesOK, WindowOK, LinesOK', EditorInv', [Next]_vars
  PROVE  WindowOK'
<1>0. ScreenOK(screen) /\ screen.ansi_state = 0
  BY DEF WindowOK
<1>1. ASSUME ShellKey PROVE WindowOK'
  <2>1. InShell
    BY <1>1 DEF ShellKey, KeyChar, KeyBackspace, KeyTab, KeyUp, KeyDown,
       EnterEmpty, EnterPrint, EnterClear, Enter
  <2>2. Good(Now) /\ ClearAhead(screen)
    BY <2>1 DEF WindowOK, Good, ScreenGood, Now, Both
  <2>3. LineOK(Now.line) /\ Now.line = line
    BY DEF LinesOK, Now, Both
  <2>4. Good(EraseLine(Now))
    <3>1. Now.line.input_len \in Nat
      BY <2>3, Sizes DEF LineOK
    <3> QED BY <2>2, <3>1, EraseGood DEF EraseLine
  <2>5. ASSUME NEW a \in HistRow PROVE Good(TypeAll(EraseLine(Now), Text(a)))
    BY <2>4, RowIsWord, TypeAllGood
  <2>6. ScreenOK(PutChar(screen, "\n")) /\ ClearAhead(PutChar(screen, "\n"))
    BY <1>0, <2>2, PutCharOK
  <2>7. history \in Seq(HistRow) /\ Len(history) \in Nat /\ history_idx \in 0..Len(history)
    BY DEF LinesOK, HistoryOK
  <2>8. ASSUME NEW c \in Keys, KeyChar(c) PROVE WindowOK'
    <3>1. Good(Typed(Now, c))
      BY <2>2, TypedGood DEF Letter
    <3> QED BY <2>8, <3>1, BecomesGood DEF KeyChar
  <2>9. CASE KeyBackspace
    BY <2>2, <2>9, BackspacedGood, BecomesGood DEF KeyBackspace
  <2>10. CASE KeyTab
    <3>1. PICK sug \in Suggestions(Prefix) :
            Becomes(TypeAll(Erase(Now, Len(Prefix)), sug))
      BY <2>10 DEF KeyTab
    <3>2. Len(Prefix) \in Nat
      BY <2>3, PrefixIsEnd, Sizes DEF PrefixOK, LineOK
    <3>3. Good(Erase(Now, Len(Prefix)))
      BY <2>2, <3>2, EraseGood
    <3>4. Good(TypeAll(Erase(Now, Len(Prefix)), sug))
      BY <3>3, SuggestionIsWord, TypeAllGood
    <3> QED BY <3>1, <3>4, BecomesGood
  <2>11. CASE KeyUp
    <3>1. history_idx' + 1 \in 1..Len(history)
      BY <2>7, <2>11 DEF KeyUp
    <3>2. history[history_idx' + 1] \in HistRow
      BY <2>7, <3>1
    <3>3. Becomes(TypeAll(EraseLine(Now), Text(history[history_idx' + 1])))
      BY <2>11 DEF KeyUp
    <3> QED BY <2>5, <3>2, <3>3, BecomesGood
  <2>12. CASE KeyDown
    <3>1. CASE history_idx' < Len(history)
      <4>1. history_idx' + 1 \in 1..Len(history)
        BY <2>7, <2>12, <3>1 DEF KeyDown
      <4>2. history[history_idx' + 1] \in HistRow
        BY <2>7, <4>1
      <4>3. Becomes(TypeAll(EraseLine(Now), Text(history[history_idx' + 1])))
        BY <2>12, <3>1 DEF KeyDown
      <4> QED BY <2>5, <4>2, <4>3, BecomesGood
    <3>2. CASE ~(history_idx' < Len(history))
      <4>1. Becomes(EraseLine(Now))
        BY <2>12, <3>2 DEF KeyDown
      <4> QED BY <2>4, <4>1, BecomesGood
    <3> QED BY <3>1, <3>2
  <2>13. CASE EnterEmpty
    BY <2>6, <2>13, PromptedGood, BecomesGood DEF EnterEmpty
  <2>14. ASSUME NEW out \in Outputs, EnterPrint(out) PROVE WindowOK'
    <3>1. IsString(out)
      <4>1. \A str \in FileNames \cup Outputs \cup {Banner} : IsString(str)
        BY TerminalAssumption, Zenon
      <4> QED BY <4>1
    <3> DEFINE u == PrintStr(PutChar(screen, "\n"), out)
    <3>2. ScreenOK(u) /\ ClearAhead(u)
      BY <2>6, <3>1, PrintOK
    <3>3. Becomes(Prompted(u))
      BY <2>14 DEF EnterPrint
    <3> HIDE DEF u
    <3> QED BY <3>2, <3>3, PromptedGood, BecomesGood
  <2>15. CASE EnterClear
    BY <2>15, ClearedOK, PromptedGood, BecomesGood DEF EnterClear
  <2> QED BY <1>1, <2>8, <2>9, <2>10, <2>11, <2>12, <2>13, <2>14, <2>15 DEF ShellKey
<1>2. ASSUME mode' = "EDITOR" PROVE content_size' \in Nat /\ ~InShell'
  BY <1>2, EditorAssumption DEF LinesOK, ModeOK, EditorInv, InShell
<1>3. ASSUME NEW t \in Texts, EnterEdit(t) PROVE WindowOK'
  <2> DEFINE s == Rendered(content', content_size', cursor_idx')
  <2>1. content_size' \in Nat /\ ~InShell'
    BY <1>2, <1>3 DEF EnterEdit
  <2>2. ScreenOK(s)
    BY <2>1, RenderedOK
  <2>3. screen' = PrintStr(s, PromptText)
    BY <1>3, PromptedLine DEF EnterEdit, Becomes
  <2> HIDE DEF s
  <2>4. ScreenOK(screen') /\ screen'.ansi_state = 0
    BY <2>2, <2>3, PromptOK
  <2> QED BY <2>1, <2>4 DEF WindowOK
<1>4. CASE EditorKey
  <2> DEFINE s == Rendered(content', content_size', cursor_idx')
  <2>1. content_size' \in Nat /\ ~InShell'
    BY <1>2, <1>4 DEF EditorKey
  <2>2. ScreenOK(s) /\ s.ansi_state = 0
    BY <2>1, RenderedOK
  <2>3. screen' = s
    BY <1>4 DEF EditorKey
  <2> HIDE DEF s
  <2> QED BY <2>1, <2>2, <2>3 DEF WindowOK
<1>5. CASE EditorQuit
  BY <1>5, ClearedOK, PromptedGood, BecomesGood DEF EditorQuit
<1>6. CASE UNCHANGED vars
  BY <1>6 DEF vars, WindowOK, InShell, Now
<1> QED BY <1>1, <1>3, <1>4, <1>5, <1>6 DEF Next

\* The screen, in every run of the window on files with plain names.
THEOREM WindowHolds ==
  ASSUME PlainNames
  PROVE  Spec => []WindowOK
<1>1. LinesOK /\ (LinesOK /\ EditorInv)' /\ WindowOK /\ [Next]_vars => WindowOK'
  BY ScreenStep
<1> QED BY <1>1, WindowStart, LinesHold, PTL DEF Spec

\* History, screen and mode stay within their arrays and agree.
THEOREM WindowInvHolds ==
  ASSUME PlainNames
  PROVE  Spec => []WindowInv
<1>1. LinesOK /\ WindowOK => WindowInv
  <2> SUFFICES ASSUME LinesOK, WindowOK PROVE WindowInv
    OBVIOUS
  <2>1. HistoryInv
    <3>1. history \in Seq(HistRow) /\ Len(history) <= MaxHist
          /\ history_idx \in 0..Len(history)
      BY DEF LinesOK, HistoryOK
    <3>2. ASSUME NEW k \in DOMAIN history PROVE Text(history[k]) # <<>>
      <4>1. history[k] \in HistRow
        BY <3>1
      <4>2. Len(Text(history[k])) > 0
        BY <4>1, RowIsWord, Sizes
      <4> QED BY <4>2
    <3> QED BY <3>1, <3>2 DEF HistoryInv
  <2>2. ScreenInv
    BY DEF WindowOK, ScreenOK, ScreenInv
  <2> QED BY <2>1, <2>2 DEF WindowInv, LinesOK, ModeOK
<1> QED BY <1>1, WindowHolds, LinesHold, PTL

\* The row with the cursor shows the end of the line and nothing behind it.
THEOREM EchoIsTailHolds ==
  ASSUME PlainNames
  PROVE  Spec => []EchoIsTail
<1>1. LinesOK /\ WindowOK => EchoIsTail
  <2> SUFFICES ASSUME LinesOK, WindowOK, InShell PROVE EchoIsTail
    BY DEF EchoIsTail
  <2> DEFINE row == screen.buffer[screen.cursor_row]
             col == screen.cursor_col
             n == line.input_len
             N == PromptLen + n
             txt == SubSeq(Text(line.input), 1, n)
  <2>1. ScreenOK(screen) /\ ClearAhead(screen) /\ Showing(line, screen)
    BY DEF WindowOK, Good, ScreenGood, Now, Both
  <2>2. n \in Nat /\ PromptLen \in Nat /\ n <= InputMax /\ InputMax < InputSize
        /\ InputSize \in Nat /\ InputMax \in Nat
    BY PromptLenOK, Sizes DEF LinesOK, LineOK
  <2>3. Text(line.input) = [k \in 1..n |-> line.input[k - 1]]
    BY TextOf DEF LinesOK, LineOK
  <2>4. txt \in Seq(Letter \cup {NUL}) /\ Len(txt) = n
        /\ \A k \in 1..n : txt[k] = line.input[k - 1]
    <3>1. line.input \in Input
      BY DEF LinesOK, LineOK
    <3> HIDE DEF n
    <3>2. \A k \in 1..n : line.input[k - 1] \in Letter \cup {NUL}
      BY <2>2, <3>1 DEF Input
    <3>3. Text(line.input) \in Seq(Letter \cup {NUL}) /\ Len(Text(line.input)) = n
      BY <2>2, <2>3, <3>2
    <3>4. txt = Text(line.input)
      BY <2>2, <3>3
    <3>5. \A k \in 1..n : Text(line.input)[k] = line.input[k - 1]
      BY <2>3
    <3> HIDE DEF txt
    <3> QED BY <3>3, <3>4, <3>5
  <2>5. Shown = PromptText \o txt
    BY DEF Shown
  <2> HIDE DEF txt
  <2>6. Len(Shown) = N /\ \A j \in 1..N : Shown[j] = Shows(line)[j]
    <3>1. PromptText \in Seq(STRING) /\ Len(PromptText) = PromptLen
      BY TerminalAssumption, Zenon DEF PromptLen
    <3>2. Len(Shown) = PromptLen + n
      <4> DEFINE Mixed == STRING \cup (Letter \cup {NUL})
      <4>1. PromptText \in Seq(Mixed) /\ txt \in Seq(Mixed)
        BY <2>4, <3>1
      <4> HIDE DEF Mixed
      <4>2. Len(PromptText \o txt) = Len(PromptText) + Len(txt)
        BY <4>1, ConcatProperties
      <4> QED BY <2>4, <2>5, <3>1, <4>2
    <3>3. \A j \in 1..N :
            Shown[j] = IF j <= PromptLen THEN PromptText[j] ELSE txt[j - PromptLen]
      BY <2>2, <2>4, <2>5, <3>1
    <3>4. \A j \in 1..N : Shows(line)[j] =
            IF j <= PromptLen THEN PromptText[j] ELSE line.input[(j - PromptLen) - 1]
      BY DEF Shows
    <3> HIDE DEF n
    <3>5. \A j \in 1..N : ~(j <= PromptLen) => j - PromptLen \in 1..n
      BY <2>2
    <3> HIDE DEF N
    <3>6. \A j \in 1..N : Shown[j] = Shows(line)[j]
      BY <2>4, <3>3, <3>4, <3>5
    <3> QED BY <3>2, <3>6 DEF N
  <2>7. ASSUME NEW k \in 1..col, k <= Len(Shown)
        PROVE  row[col - k] = Shown[(Len(Shown) + 1) - k]
    <3>1. N \in Nat /\ col \in Nat
      BY <2>1, <2>2, Sizes DEF ScreenOK
    <3>2. row[col - k] = Shows(line)[(N + 1) - k]
      BY <2>1, <2>6, <2>7 DEF Showing, Ends
    <3> HIDE DEF N
    <3>3. (N + 1) - k \in 1..N
      BY <2>6, <2>7, <3>1
    <3> QED BY <2>6, <3>2, <3>3
  <2>8. \A c \in Col : c >= col => row[c] = NUL
    BY <2>1 DEF ClearAhead
  <2> QED BY <2>7, <2>8 DEF EchoIsTail
<1> QED BY <1>1, WindowHolds, LinesHold, PTL

-----------------------------------------------------------------------------
(* Where the editor's cursor is drawn.                                     *)

SamePlace(r, q) == r.row = q.row /\ r.col = q.col

\* In reading order.
Before(r, q) == r.row < q.row \/ (r.row = q.row /\ r.col < q.col)

\* Place moves on by the character alone, and leaves the cursor.
LEMMA PlaceMoves ==
  ASSUME NEW r, DrawOK(r), NEW c
  PROVE  /\ Before(r, Place(r, c))
         /\ Place(r, c).cx = r.cx /\ Place(r, c).cy = r.cy
         /\ \A q : SamePlace(r, q) => SamePlace(Place(r, c), Place(q, c))
<1>0. r.row \in Nat /\ r.col \in 0..TERM_W /\ TERM_W \in Nat
  BY Sizes DEF DrawOK
<1>1. \A q : Place(q, c).cx = q.cx /\ Place(q, c).cy = q.cy
  BY DrawingFields DEF Place
<1>2. ASSUME NEW q, SamePlace(r, q) PROVE SamePlace(Place(r, c), Place(q, c))
  BY <1>2, DrawingFields DEF Place, SamePlace
<1>3. Before(r, Place(r, c))
  <2>1. CASE c = "\n"
    BY <1>0, <2>1, DrawingFields DEF Place, Before
  <2>2. CASE c # "\n" /\ r.col < TERM_W
    BY <1>0, <2>2, DrawingFields DEF Place, Before
  <2>3. CASE c # "\n" /\ ~(r.col < TERM_W)
    BY <1>0, <2>3, DrawingFields DEF Place, Before
  <2> QED BY <2>1, <2>2, <2>3
<1> QED BY <1>1, <1>2, <1>3

\* One step of the loop.
LEMMA DrawStepMoves ==
  ASSUME NEW r, DrawOK(r), NEW text, NEW i, NEW cur, ~Stopped(r)
  PROVE  LET u == DrawStep(r, text, i, cur)
         IN  /\ Before(r, u)
             /\ u.cx = (IF i = cur THEN r.col ELSE r.cx)
             /\ u.cy = (IF i = cur THEN r.row ELSE r.cy)
<1> DEFINE q == IF i = cur THEN CursorHere(r) ELSE r
<1>1. DrawStep(r, text, i, cur) = Place(q, text[i])
  BY DEF DrawStep
<1>2. /\ DrawOK(q) /\ q.row = r.row /\ q.col = r.col
      /\ q.cx = (IF i = cur THEN r.col ELSE r.cx)
      /\ q.cy = (IF i = cur THEN r.row ELSE r.cy)
  BY CursorHereOK
<1> HIDE DEF q
<1>3. Before(q, Place(q, text[i])) /\ Place(q, text[i]).cx = q.cx
      /\ Place(q, text[i]).cy = q.cy
  BY <1>2, PlaceMoves
<1> QED BY <1>1, <1>2, <1>3 DEF Before

\* The place does not depend on where the cursor is.
LEMMA DrawStepSame ==
  ASSUME NEW r, DrawOK(r), NEW q, DrawOK(q), SamePlace(r, q),
         NEW text, NEW i, NEW a, NEW b
  PROVE  SamePlace(DrawStep(r, text, i, a), DrawStep(q, text, i, b))
<1> DEFINE x == IF i = a THEN CursorHere(r) ELSE r
           y == IF i = b THEN CursorHere(q) ELSE q
<1>1. DrawOK(x) /\ SamePlace(x, r)
  BY CursorHereOK DEF SamePlace
<1>2. DrawOK(y) /\ SamePlace(y, q)
  BY CursorHereOK DEF SamePlace
<1>3. DrawStep(r, text, i, a) = IF Stopped(r) THEN r ELSE Place(x, text[i])
  BY DEF DrawStep
<1>4. DrawStep(q, text, i, b) = IF Stopped(q) THEN q ELSE Place(y, text[i])
  BY DEF DrawStep
<1> HIDE DEF x, y
<1>5. Stopped(r) <=> Stopped(q)
  BY DEF Stopped, SamePlace
<1>6. SamePlace(x, y)
  BY <1>1, <1>2 DEF SamePlace
<1>7. SamePlace(Place(x, text[i]), Place(y, text[i]))
  BY <1>1, <1>6, PlaceMoves
<1> QED BY <1>3, <1>4, <1>5, <1>7

\* All along the loop, the place does not depend on the cursor.
LEMMA LoopSame ==
  ASSUME NEW text, NEW size \in Nat, NEW a, NEW b, NEW g, NEW h,
         DrawLoop(text, size, a, g), DrawLoop(text, size, b, h)
  PROVE  \A k \in 0..size : SamePlace(g[k], h[k])
<1> DEFINE S == {k \in Nat : k <= size => SamePlace(g[k], h[k])}
<1>0. \A k \in 0..size : DrawOK(g[k]) /\ DrawOK(h[k])
  BY LoopOK
<1>1. 0 \in S
  BY DEF DrawLoop, SamePlace
<1>2. ASSUME NEW k \in Nat, k \in S PROVE k + 1 \in S
  <2> SUFFICES ASSUME k + 1 <= size PROVE SamePlace(g[k + 1], h[k + 1])
    OBVIOUS
  <2>1. SamePlace(g[k], h[k])
    BY <1>2
  <2>2. k + 1 \in 1..size /\ (k + 1) - 1 = k /\ k \in 0..size
    OBVIOUS
  <2>3. g[k + 1] = DrawStep(g[k], text, k, a) /\ h[k + 1] = DrawStep(h[k], text, k, b)
    BY <2>2 DEF DrawLoop
  <2> QED BY <1>0, <2>1, <2>2, <2>3, DrawStepSame
<1>3. \A k \in Nat : k \in S
  <2> HIDE DEF S
  <2> QED BY <1>1, <1>2, SetInduction
<1> QED BY <1>3

\* As long as the loop has not stopped it moves on.
LEMMA LoopMoves ==
  ASSUME NEW text, NEW size \in Nat, NEW cur, NEW g, DrawLoop(text, size, cur, g)
  PROVE  \A k \in 0..size : ~Stopped(g[k]) =>
           \A i \in 0..(k - 1) : Before(g[i], g[k]) /\ ~Stopped(g[i])
<1> DEFINE P(k) == ~Stopped(g[k]) =>
                     \A i \in 0..(k - 1) : Before(g[i], g[k]) /\ ~Stopped(g[i])
           S == {k \in Nat : k <= size => P(k)}
<1>0. \A k \in 0..size : DrawOK(g[k])
  BY LoopOK
<1>1. 0 \in S
  OBVIOUS
<1>2. ASSUME NEW k \in Nat, k \in S PROVE k + 1 \in S
  <2> SUFFICES ASSUME k + 1 <= size, ~Stopped(g[k + 1]), NEW i \in 0..((k + 1) - 1)
               PROVE  Before(g[i], g[k + 1]) /\ ~Stopped(g[i])
    OBVIOUS
  <2>1. P(k)
    BY <1>2
  <2>2. k + 1 \in 1..size /\ (k + 1) - 1 = k /\ k \in 0..size
    OBVIOUS
  <2>3. g[k + 1] = DrawStep(g[k], text, k, cur)
    BY <2>2 DEF DrawLoop
  <2>4. ~Stopped(g[k])
    BY <2>3 DEF DrawStep
  <2>5. Before(g[k], g[k + 1])
    BY <1>0, <2>2, <2>3, <2>4, DrawStepMoves
  <2>6. CASE i = k
    BY <2>4, <2>5, <2>6
  <2>7. CASE i \in 0..(k - 1)
    <3>1. Before(g[i], g[k]) /\ ~Stopped(g[i])
      BY <2>1, <2>4, <2>7
    <3>2. DrawOK(g[i]) /\ DrawOK(g[k]) /\ DrawOK(g[k + 1])
      BY <1>0, <2>2, <2>7
    <3>3. /\ g[i].row \in Nat /\ g[k].row \in Nat /\ g[k + 1].row \in Nat
          /\ g[i].col \in Nat /\ g[k].col \in Nat /\ g[k + 1].col \in Nat
      BY <3>2, Sizes DEF DrawOK
    <3> QED BY <2>5, <3>1, <3>3 DEF Before
  <2> QED BY <2>2, <2>6, <2>7
<1>3. \A k \in Nat : k \in S
  <2> HIDE DEF S
  <2> QED BY <1>1, <1>2, SetInduction
<1> QED BY <1>3

\* The cursor is drawn where the loop is when it gets to it.
LEMMA RenderPlace ==
  ASSUME NEW text, NEW size \in Nat, NEW i \in 0..size, NEW g,
         DrawLoop(text, size, i, g), ~Stopped(g[size])
  PROVE  Render(text, size, i).cy = g[i].row /\ Render(text, size, i).cx = g[i].col
<1>0. \A k \in 0..size : DrawOK(g[k])
  BY LoopOK
<1>a. \A k \in 0..size : ~Stopped(g[k])
  <2>1. \A k \in 0..(size - 1) : ~Stopped(g[k])
    BY LoopMoves
  <2> QED BY <2>1
<1>1. CASE i = size
  <2>1. Render(text, size, i) = CursorHere(g[size])
    BY <1>1 DEF Render, DrawLoop
  <2> QED BY <1>0, <1>1, <2>1, CursorHereOK
<1>2. CASE i # size
  <2> DEFINE S == {k \in Nat : i + 1 <= k /\ k <= size =>
                                 g[k].cy = g[i].row /\ g[k].cx = g[i].col}
  <2>1. 0 \in S
    OBVIOUS
  <2>2. ASSUME NEW k \in Nat, k \in S PROVE k + 1 \in S
    <3> SUFFICES ASSUME i + 1 <= k + 1, k + 1 <= size
                 PROVE  g[k + 1].cy = g[i].row /\ g[k + 1].cx = g[i].col
      OBVIOUS
    <3>1. k + 1 \in 1..size /\ (k + 1) - 1 = k /\ k \in 0..size
      OBVIOUS
    <3>2. g[k + 1] = DrawStep(g[k], text, k, i)
      BY <3>1 DEF DrawLoop
    <3>3. /\ g[k + 1].cx = (IF k = i THEN g[k].col ELSE g[k].cx)
          /\ g[k + 1].cy = (IF k = i THEN g[k].row ELSE g[k].cy)
      BY <1>0, <1>a, <3>1, <3>2, DrawStepMoves
    <3>4. k # i => g[k].cy = g[i].row /\ g[k].cx = g[i].col
      BY <2>2
    <3> QED BY <3>3, <3>4
  <2>3. \A k \in Nat : k \in S
    <3> HIDE DEF S
    <3> QED BY <2>1, <2>2, SetInduction
  <2>4. g[size].cy = g[i].row /\ g[size].cx = g[i].col
    BY <1>2, <2>3
  <2>5. Render(text, size, i) = g[size]
    BY <1>2 DEF Render, DrawLoop
  <2> QED BY <2>4, <2>5
<1> QED BY <1>1, <1>2

\* Two positions of a text that fits are drawn apart.
LEMMA DrawnApart ==
  ASSUME NEW text, NEW size \in Nat, NEW i \in 0..size, NEW j \in 0..size, i < j,
         NEW c \in 0..size, ~Stopped(Render(text, size, c))
  PROVE  ~(/\ Render(text, size, i).cy = Render(text, size, j).cy
           /\ Render(text, size, i).cx = Render(text, size, j).cx)
<1>1. PICK g : DrawLoop(text, size, i, g)
  BY DrawRec
<1>2. PICK h : DrawLoop(text, size, j, h)
  BY DrawRec
<1>3. PICK f : DrawLoop(text, size, c, f)
  BY DrawRec
<1>4. ~Stopped(f[size])
  <2>1. DrawOK(f[size])
    BY <1>3, LoopOK
  <2>2. Render(text, size, c).row = f[size].row
    BY <1>3, <2>1, CursorHereOK DEF Render, DrawLoop
  <2> QED BY <2>2 DEF Stopped
<1>5. SamePlace(g[size], f[size]) /\ SamePlace(h[size], f[size])
  BY <1>1, <1>2, <1>3, LoopSame
<1>6. ~Stopped(g[size]) /\ ~Stopped(h[size])
  BY <1>4, <1>5 DEF Stopped, SamePlace
<1>7. Render(text, size, i).cy = g[i].row /\ Render(text, size, i).cx = g[i].col
  BY <1>1, <1>6, RenderPlace
<1>8. Render(text, size, j).cy = h[j].row /\ Render(text, size, j).cx = h[j].col
  BY <1>2, <1>6, RenderPlace
<1>9. SamePlace(g[i], h[i])
  BY <1>1, <1>2, LoopSame
<1>10. ~Stopped(h[j])
  <2>1. j # size => j \in 0..(size - 1)
    OBVIOUS
  <2> QED BY <1>2, <1>6, <2>1, LoopMoves
<1>11. Before(h[i], h[j])
  BY <1>2, <1>10, LoopMoves
<1>12. DrawOK(h[i]) /\ DrawOK(h[j])
  BY <1>2, LoopOK
<1>13. h[i].row \in Nat /\ h[j].row \in Nat /\ h[i].col \in Nat /\ h[j].col \in Nat
  BY <1>12, Sizes DEF DrawOK
<1> QED BY <1>7, <1>8, <1>9, <1>11, <1>13 DEF SamePlace, Before

\* While the text fits above the status line, the cursor tells the position.
THEOREM CursorTellsPositionHolds == Spec => []CursorTellsPosition
<1>1. EditorInv => CursorTellsPosition
  <2> DEFINE draw == [i \in 0..content_size |-> Render(content, content_size, i)]
  <2> SUFFICES ASSUME EditorInv, Opened, ~Stopped(draw[cursor_idx])
               PROVE  \A i, j \in 0..content_size :
                        i # j => <<draw[i].cy, draw[i].cx>> # <<draw[j].cy, draw[j].cx>>
    BY DEF CursorTellsPosition
  <2>1. content_size \in Nat /\ cursor_idx \in 0..content_size
    BY EditorAssumption DEF EditorInv
  <2>2. \A i \in 0..content_size : draw[i] = Render(content, content_size, i)
    OBVIOUS
  <2> HIDE DEF draw
  <2>3. ~Stopped(Render(content, content_size, cursor_idx))
    BY <2>1, <2>2
  <2>4. ASSUME NEW i \in 0..content_size, NEW j \in 0..content_size, i < j
        PROVE  ~(draw[i].cy = draw[j].cy /\ draw[i].cx = draw[j].cx)
    BY <2>1, <2>2, <2>3, <2>4, DrawnApart
  <2>5. ASSUME NEW i \in 0..content_size, NEW j \in 0..content_size, i # j
        PROVE  ~(draw[i].cy = draw[j].cy /\ draw[i].cx = draw[j].cx)
    <3>1. i < j \/ j < i
      BY <2>1, <2>5
    <3> QED BY <2>4, <3>1
  <2> QED BY <2>5
<1> QED BY <1>1, WindowEditorInvariant, PTL

=============================================================================
