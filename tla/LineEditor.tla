------------------------------- MODULE LineEditor ------------------------------
(***************************************************************************)
(* What the shell's line editor promises: a text with a cursor in it.      *)
(* Characters go in at the cursor and out before it, the cursor stays      *)
(* inside the text, and Enter hands over the text as it stands and starts  *)
(* an empty one.  Module Shell, with its buffer, implements it.            *)
(***************************************************************************)
EXTENDS Integers, Sequences, SequencesExt

CONSTANTS
  Char,    (* characters a line is made of *)
  Room     (* characters a line can hold   *)

VARIABLES
  text,     \* the line
  cursor,   \* characters before the cursor
  submitted \* the line the last step has handed over, if it has

vars == <<text, cursor, submitted>>

Init ==
  /\ text = << >> /\ cursor = 0
  /\ submitted = << >>

Insert(c) ==
  /\ Len(text) < Room
  /\ text' = InsertAt(text, cursor + 1, c)
  /\ cursor' = cursor + 1
  /\ submitted' = << >>

Delete ==
  /\ cursor > 0
  /\ text' = RemoveAt(text, cursor)
  /\ cursor' = cursor - 1
  /\ submitted' = << >>

Left ==
  /\ cursor > 0
  /\ cursor' = cursor - 1
  /\ submitted' = << >>
  /\ UNCHANGED text

Right ==
  /\ cursor < Len(text)
  /\ cursor' = cursor + 1
  /\ submitted' = << >>
  /\ UNCHANGED text

Enter ==
  /\ text' = << >> /\ cursor' = 0
  /\ submitted' = text

Next ==
  \/ \E c \in Char : Insert(c)
  \/ Delete \/ Left \/ Right \/ Enter

Spec == Init /\ [][Next]_vars

================================================================================
