------------------------------- MODULE Paths -------------------------------
(***************************************************************************)
(* Paths as sequences of symbols, shared by the shell and its promise.     *)
(***************************************************************************)
EXTENDS Integers, FiniteSets, SequencesExt

\* The names in a path: its longest parts without a slash.
Components(p) ==
  LET Begins == {i \in DOMAIN p : p[i] # "/" /\ (i = 1 \/ p[i - 1] = "/")}
      End(i) == CHOOSE j \in i..Len(p) :
                  /\ j = Len(p) \/ p[j + 1] = "/"
                  /\ \A k \in i..j : p[k] # "/"
      order == SetToSortSeq(Begins, <)
  IN  [n \in DOMAIN order |-> SubSeq(p, order[n], End(order[n]))]

\* The first n symbols of s, or all of them.
Cut(s, n) == SubSeq(s, 1, IF Len(s) < n THEN Len(s) ELSE n)

=============================================================================
