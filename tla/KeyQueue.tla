-------------------------------- MODULE KeyQueue -------------------------------
(***************************************************************************)
(* What the keyboard buffer of keyboard.c promises: the characters the     *)
(* interrupt handler pushes reach the shell in order and once, and one is  *)
(* refused only when the buffer is full, or while a clear is under way.    *)
(* Module KeyRing, with its indices and its races, implements it.          *)
(***************************************************************************)
EXTENDS Integers, Sequences

CONSTANTS
  Char,     (* characters                    *)
  Capacity  (* characters the queue can hold *)

VARIABLES
  queue,    \* the characters waiting, oldest first
  clearing, \* a clear has begun and not ended
  answer,   \* what the last pop gave, << >> for nothing
  refused   \* turns over with every push that is refused

vars == <<queue, clearing, answer, refused>>

Init ==
  /\ queue = << >>
  /\ clearing = FALSE
  /\ answer = << >>
  /\ refused = FALSE

Push(ch) ==
  /\ Len(queue) < Capacity
  /\ queue' = Append(queue, ch)
  /\ UNCHANGED <<clearing, answer, refused>>

Refuse ==
  /\ Len(queue) = Capacity \/ clearing
  /\ refused' = ~refused
  /\ UNCHANGED <<queue, clearing, answer>>

Pop ==
  /\ ~clearing
  /\ queue # << >>
  /\ answer' = <<Head(queue)>>
  /\ queue' = Tail(queue)
  /\ UNCHANGED <<clearing, refused>>

PopNothing ==
  /\ ~clearing
  /\ queue = << >>
  /\ answer' = << >>
  /\ UNCHANGED <<queue, clearing, refused>>

BeginClear ==
  /\ queue' = << >>
  /\ clearing' = TRUE
  /\ UNCHANGED <<answer, refused>>

EndClear ==
  /\ clearing' = FALSE
  /\ UNCHANGED <<queue, answer, refused>>

Next ==
  \/ \E ch \in Char : Push(ch)
  \/ Refuse
  \/ Pop \/ PopNothing
  \/ BeginClear \/ EndClear

Spec == Init /\ [][Next]_vars

================================================================================
