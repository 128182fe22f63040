--------------------------------- MODULE KeyRing -------------------------------
(***************************************************************************)
(* The circular keyboard buffer of keyboard.c, filled by the handler of    *)
(* IRQ 1 and emptied by the shell loop, with no lock between them.         *)
(*                                                                         *)
(* The handler runs behind an interrupt gate, so a push is one step; it    *)
(* may come between any two memory accesses of keyboard_buffer_pop and     *)
(* keyboard_clear_buffer, which are therefore cut there.  The kernel is    *)
(* built without optimisation: the accesses happen in program order.       *)
(***************************************************************************)
EXTENDS Integers, Sequences

CONSTANTS
  Size, (* KEYBOARD_BUFFER_SIZE                *)
  Char, (* the characters keys produce         *)
  NUL   (* the zero the static array starts as *)

ASSUME RingAssumption ==
  /\ Size \in Nat /\ Size > 1
  /\ NUL \notin Char

VARIABLES
  key_buffer, \* index -> character
  kb_head,    \* where the next push goes
  kb_tail,    \* where the next pop looks
  pc,         \* of the shell: "idle", or inside pop or clear
  c,          \* the character pop has loaded
  answer,     \* what the last pop returned, << >> for false
  refused     \* history: turns over with every push that returns false

vars == <<key_buffer, kb_head, kb_tail, pc, c, answer, refused>>

Index == 0 .. Size - 1

Init ==
  /\ key_buffer = [i \in Index |-> NUL]
  /\ kb_head = 0
  /\ kb_tail = 0
  /\ pc = "idle"
  /\ c = NUL
  /\ answer = << >>
  /\ refused = FALSE

Advance(i) == (i + 1) % Size

(* Mutants: a push overruns a full buffer, or takes a buffer with one free *)
(* slot more for full.                                                     *)
FullNever == FALSE
FullEarly == Advance(Advance(kb_head)) = kb_tail

Full  == Advance(kb_head) = kb_tail
Empty == kb_head = kb_tail

(* keyboard_buffer_push, in the interrupt handler. *)
Push(ch) ==
  IF Full
  THEN /\ refused' = ~refused
       /\ UNCHANGED <<key_buffer, kb_head, kb_tail, pc, c, answer>>
  ELSE /\ key_buffer' = [key_buffer EXCEPT ![kb_head] = ch]
       /\ kb_head' = Advance(kb_head)
       /\ UNCHANGED <<kb_tail, pc, c, answer, refused>>

(* keyboard_buffer_pop: the test for an empty buffer, *)
PopTest ==
  /\ pc = "idle"
  /\ IF Empty THEN answer' = << >> /\ UNCHANGED pc
              ELSE pc' = "load" /\ UNCHANGED answer
  /\ UNCHANGED <<key_buffer, kb_head, kb_tail, c, refused>>

(* *c = key_buffer[kb_tail], *)
PopLoad ==
  /\ pc = "load"
  /\ c' = key_buffer[kb_tail]
  /\ pc' = "store"
  /\ UNCHANGED <<key_buffer, kb_head, kb_tail, answer, refused>>

(* and the store to kb_tail, which gives the slot back. *)
PopStore ==
  /\ pc = "store"
  /\ kb_tail' = Advance(kb_tail)
  /\ answer' = <<c>>
  /\ pc' = "idle"
  /\ UNCHANGED <<key_buffer, kb_head, c, refused>>

(* keyboard_clear_buffer: kb_head = 0, then kb_tail = 0. *)
ClearHead ==
  /\ pc = "idle"
  /\ kb_head' = 0
  /\ pc' = "clear"
  /\ UNCHANGED <<key_buffer, kb_tail, c, answer, refused>>

ClearTail ==
  /\ pc = "clear"
  /\ kb_tail' = 0
  /\ pc' = "idle"
  /\ UNCHANGED <<key_buffer, kb_head, c, answer, refused>>

Next ==
  \/ \E ch \in Char : Push(ch)
  \/ PopTest \/ PopLoad \/ PopStore
  \/ ClearHead \/ ClearTail

Spec == Init /\ [][Next]_vars

--------------------------------------------------------------------------------
TypeOK ==
  /\ key_buffer \in [Index -> Char \cup {NUL}]
  /\ kb_head \in Index /\ kb_tail \in Index
  /\ pc \in {"idle", "load", "store", "clear"}
  /\ c \in Char \cup {NUL}
  /\ answer \in {<< >>} \cup {<<ch>> : ch \in Char}
  /\ refused \in BOOLEAN

(* The queue the indices stand for.  Between the two stores of a clear the *)
(* old kb_tail stands for nothing: the queue is what was pushed since.     *)
First   == IF pc = "clear" THEN 0 ELSE kb_tail
Count   == IF kb_head >= First THEN kb_head - First ELSE kb_head - First + Size
Place(k) == IF First + k - 1 < Size THEN First + k - 1 ELSE First + k - 1 - Size
Queue   == [k \in 1 .. Count |-> key_buffer[Place(k)]]

(* Between its test and its store, pop holds the oldest character: the     *)
(* buffer stays non-empty, and no push overwrites the slot being read      *)
(* (keyboard_buffer_push keeps one slot free of it).                       *)
SlotStable ==
  /\ pc \in {"load", "store"} => ~Empty
  /\ pc = "store" => c = key_buffer[kb_tail]

(* Every slot between the indices holds a character a key produced: the    *)
(* zero of the static array is never handed out.                           *)
QueueOfKeys == \A k \in 1 .. Count : Queue[k] \in Char

(* The buffer is a first-in first-out queue of Size - 1 characters that    *)
(* loses none but when it is full or being cleared, however pushes fall    *)
(* between the steps of pop and clear.                                     *)
Fifo == INSTANCE KeyQueue WITH
  Capacity <- Size - 1,
  queue    <- Queue,
  clearing <- pc = "clear"

FifoSpec == Fifo!Spec

================================================================================
