------------------------------ MODULE TextEdit ------------------------------
(***************************************************************************)
(* What an editor promises: a text split at the cursor.  Keys change the   *)
(* text only next to the cursor, and moving the cursor changes no text.    *)
(***************************************************************************)
EXTENDS Integers, Sequences

CONSTANTS Chars, Limit

VARIABLES
  open,     \* a file is being edited
  before,   \* the text before the cursor
  after     \* the text from the cursor on

vars == <<open, before, after>>

Init == open = FALSE /\ before = <<>> /\ after = <<>>

\* Opening a file puts the cursor in front of its text.
Open ==
  /\ ~open
  /\ open' = TRUE
  /\ before' = <<>>
  /\ after' \in Seq(Chars)

Insert ==
  /\ open
  /\ Len(before) + Len(after) < Limit
  /\ \E c \in Chars : before' = Append(before, c)
  /\ UNCHANGED <<open, after>>

Delete ==
  /\ open
  /\ before # <<>>
  /\ before' = SubSeq(before, 1, Len(before) - 1)
  /\ UNCHANGED <<open, after>>

Left ==
  /\ open
  /\ before # <<>>
  /\ before' = SubSeq(before, 1, Len(before) - 1)
  /\ after' = <<before[Len(before)]>> \o after
  /\ UNCHANGED open

Right ==
  /\ open
  /\ after # <<>>
  /\ before' = Append(before, after[1])
  /\ after' = Tail(after)
  /\ UNCHANGED open

Close ==
  /\ open
  /\ open' = FALSE
  /\ before' = <<>>
  /\ after' = <<>>

Next == Open \/ Insert \/ Delete \/ Left \/ Right \/ Close

Spec == Init /\ [][Next]_vars

=============================================================================
