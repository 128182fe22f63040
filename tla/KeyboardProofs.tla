----------------------------- MODULE KeyboardProofs ----------------------------
(***************************************************************************)
(* Proofs about the keyboard: about its ring buffer, for every size and    *)
(* every set of characters, and about its interrupt, for any set of bytes  *)
(* and any number of them waiting.                                         *)
(***************************************************************************)
EXTENDS KeyRing, KeyboardIrq, SequenceTheorems, TLAPS

(***************************************************************************)
(* The buffer of keyboard.c: the slot a pop is reading is never            *)
(* overwritten, and the ring implements a first-in first-out queue.        *)
(***************************************************************************)

(* Between the stores of a clear, pushes stop short of the old kb_tail, so *)
(* kb_head does not come round to the zero kb_tail is about to become.     *)
Cleared == pc = "clear" => kb_tail = 0 \/ kb_head < kb_tail

(* The inductive invariant.  A character loaded by pop is one a key        *)
(* produced only because the slots between the indices hold nothing else,  *)
(* so the type of `answer` needs the other parts.                          *)
IInv == TypeOK /\ SlotStable /\ QueueOfKeys /\ Cleared

--------------------------------------------------------------------------------
(* The remainder of a number below the modulus is itself, and of the       *)
(* modulus zero: all the arithmetic the ring needs.                        *)
LEMMA ModSmall ==
  ASSUME NEW n \in Nat \ {0}
  PROVE  /\ \A i \in 0 .. n - 1 : i % n = i
         /\ n % n = 0
  BY Z3

(* Advance stays in the ring and turns over at its end. *)
LEMMA AdvanceIs ==
  ASSUME NEW i \in Index
  PROVE  /\ Advance(i) = IF i = Size - 1 THEN 0 ELSE i + 1
         /\ Advance(i) \in Index
<1>1. /\ \A k \in 0 .. Size - 1 : k % Size = k
      /\ Size % Size = 0
  BY RingAssumption, ModSmall
<1>2. CASE i = Size - 1
  BY <1>1, <1>2, RingAssumption DEF Advance, Index
<1>3. CASE i # Size - 1
  <2>1. i + 1 \in 0 .. Size - 1
    BY <1>3, RingAssumption DEF Index
  <2> QED
    BY <1>1, <1>3, <2>1 DEF Advance, Index
<1> QED
  BY <1>2, <1>3

(* The queue has fewer characters than the ring has slots, each in a slot  *)
(* of the ring that no push can be given.                                  *)
LEMMA QueuePlaces ==
  ASSUME TypeOK
  PROVE  /\ Count \in 0 .. Size - 1
         /\ \A k \in 1 .. Count : Place(k) \in Index /\ Place(k) # kb_head
  BY RingAssumption DEF TypeOK, Count, First, Place, Index

(* A push that finds room makes the queue longer by the character pushed.  *)
LEMMA PushAppends ==
  ASSUME IInv, NEW ch \in Char, ~Full, Push(ch)
  PROVE  /\ Count < Size - 1
         /\ Count' = Count + 1
         /\ Queue' = Append(Queue, ch)
<1>T. /\ kb_head \in Index /\ kb_tail \in Index
      /\ key_buffer \in [Index -> Char \cup {NUL}]
  BY DEF IInv, TypeOK
<1>S. /\ key_buffer' = [key_buffer EXCEPT ![kb_head] = ch]
      /\ kb_head' = Advance(kb_head) /\ kb_tail' = kb_tail /\ pc' = pc
  BY DEF Push
<1>F. First \in Index /\ First' = First
  BY <1>T, <1>S, RingAssumption DEF First, Index
<1>1. Advance(kb_head) # First
  <2>1. CASE pc # "clear"
    BY <2>1 DEF First, Full
  <2>2. CASE pc = "clear"
    <3>1. First = 0 /\ (kb_tail = 0 \/ kb_head < kb_tail) /\ Advance(kb_head) # kb_tail
      BY <2>2 DEF First, Full, IInv, Cleared
    <3> QED
      BY <3>1, <1>T, AdvanceIs, RingAssumption DEF Index
  <2> QED
    BY <2>1, <2>2
<1>2. Count < Size - 1 /\ Count' = Count + 1
  <2>1. Count' = IF Advance(kb_head) >= First THEN Advance(kb_head) - First
                                              ELSE Advance(kb_head) - First + Size
    BY <1>S, <1>F DEF Count
  <2>2. Advance(kb_head) = IF kb_head = Size - 1 THEN 0 ELSE kb_head + 1
    BY <1>T, AdvanceIs
  <2> QED
    BY <1>1, <1>T, <1>F, <2>1, <2>2, RingAssumption DEF Count, Index
<1>3. Count \in 0 .. Size - 1 /\ \A k \in 1 .. Count : Place(k) \in Index /\ Place(k) # kb_head
  BY QueuePlaces DEF IInv
<1>4. \A k \in 1 .. Count : Place(k)' = Place(k)
  BY <1>F DEF Place
<1>5. ASSUME NEW k \in Nat, k = Count + 1
      PROVE  Place(k)' = kb_head
  <2>1. Place(k)' = IF First + k - 1 < Size THEN First + k - 1 ELSE First + k - 1 - Size
    BY <1>F DEF Place
  <2> QED
    BY <1>2, <1>3, <1>5, <1>F, <1>T, <2>1, RingAssumption DEF Count, Index
<1>6. \A k \in 1 .. Count : key_buffer'[Place(k)'] = key_buffer[Place(k)]
  BY <1>3, <1>4, <1>S, <1>T
<1>7. \A k \in Nat : k = Count + 1 => key_buffer'[Place(k)'] = ch
  BY <1>5, <1>S, <1>T
<1>8. Queue' = [k \in 1 .. Count + 1 |-> key_buffer'[Place(k)']]
  BY <1>2 DEF Queue
<1>9. Queue' = [k \in 1 .. Count + 1 |-> IF k = Count + 1 THEN ch ELSE key_buffer[Place(k)]]
  BY <1>3, <1>6, <1>7, <1>8
<1>10. Append(Queue, ch) = [k \in 1 .. Count + 1 |-> IF k = Count + 1 THEN ch ELSE key_buffer[Place(k)]]
  BY <1>3 DEF Queue
<1> QED
  BY <1>2, <1>9, <1>10

(* The store to kb_tail takes the oldest character off the queue, and it   *)
(* is the one pop has loaded.                                              *)
LEMMA PopTakes ==
  ASSUME IInv, PopStore
  PROVE  /\ Queue # << >>
         /\ c = Head(Queue)
         /\ c \in Char
         /\ Count' = Count - 1
         /\ Queue' = Tail(Queue)
<1>T. /\ kb_head \in Index /\ kb_tail \in Index
      /\ key_buffer \in [Index -> Char \cup {NUL}]
  BY DEF IInv, TypeOK
<1>S. /\ pc = "store" /\ pc' = "idle"
      /\ key_buffer' = key_buffer /\ kb_head' = kb_head
      /\ kb_tail' = Advance(kb_tail)
  BY DEF PopStore
<1>F. First = kb_tail /\ First' = Advance(kb_tail)
  BY <1>S DEF First
<1>N. /\ Advance(kb_tail) = IF kb_tail = Size - 1 THEN 0 ELSE kb_tail + 1
      /\ Advance(kb_tail) \in Index
  BY <1>T, AdvanceIs
<1>1. kb_head # kb_tail /\ c = key_buffer[kb_tail]
  BY <1>S DEF IInv, SlotStable, Empty
<1>2. /\ Count \in 0 .. Size - 1
      /\ \A k \in 1 .. Count : Place(k) \in Index
  BY QueuePlaces DEF IInv
<1>3. Count \in 1 .. Size - 1 /\ Count' = Count - 1
  <2>1. Count' = IF kb_head >= Advance(kb_tail) THEN kb_head - Advance(kb_tail)
                                              ELSE kb_head - Advance(kb_tail) + Size
    BY <1>S, <1>F DEF Count
  <2> QED
    BY <1>1, <1>T, <1>F, <1>N, <2>1, RingAssumption DEF Count, Index
<1>4. Place(1) = kb_tail
  BY <1>F, <1>T, RingAssumption DEF Place, Index
<1>5. \A k \in 1 .. Count - 1 : Place(k)' = Place(k + 1)
  BY <1>F, <1>N, <1>T, <1>3, RingAssumption DEF Place, Index
<1>6. Queue \in Seq(Char) /\ Len(Queue) = Count
  <2>1. Queue \in [1 .. Count -> Char]
    BY DEF IInv, QueueOfKeys, Queue
  <2> QED
    BY <2>1, <1>3
<1>7. Queue[1] = c
  BY <1>1, <1>3, <1>4 DEF Queue
<1>8. Queue' = [k \in 1 .. Count - 1 |-> key_buffer[Place(k + 1)]]
  BY <1>3, <1>5, <1>S DEF Queue
<1>9. Tail(Queue) = [k \in 1 .. Count - 1 |-> key_buffer[Place(k + 1)]]
  <2>1. /\ Tail(Queue) \in [1 .. Count - 1 -> Char]
        /\ \A k \in 1 .. Count - 1 : Tail(Queue)[k] = Queue[k + 1]
    <3>1. Queue # << >>
      BY <1>3, <1>6
    <3>2. Tail(Queue) \in Seq(Char) /\ Len(Tail(Queue)) = Count - 1
      BY <1>3, <1>6, <3>1, HeadTailProperties
    <3> QED
      BY <1>3, <1>6, <3>1, <3>2, HeadTailProperties, LenProperties
  <2>2. \A k \in 1 .. Count - 1 : Queue[k + 1] = key_buffer[Place(k + 1)]
    BY <1>3 DEF Queue
  <2> QED
    BY <2>1, <2>2
<1> QED
  BY <1>3, <1>6, <1>7, <1>8, <1>9

(* A clear makes the queue empty at its first store, and its second store  *)
(* leaves the queue of what was pushed since.                              *)
LEMMA ClearEmpties ==
  ASSUME IInv
  PROVE  /\ ClearHead => Count' = 0 /\ Queue' = << >>
         /\ ClearTail => Count' = Count /\ Queue' = Queue
<1>1. ASSUME ClearHead
      PROVE  Count' = 0 /\ Queue' = << >>
  <2>1. Count' = 0
    BY <1>1 DEF ClearHead, Count, First
  <2> QED
    BY <2>1 DEF Queue
<1>2. ASSUME ClearTail
      PROVE  Count' = Count /\ Queue' = Queue
  <2>1. First = 0 /\ First' = 0 /\ key_buffer' = key_buffer /\ kb_head' = kb_head
    BY <1>2 DEF ClearTail, First
  <2>2. Count' = Count
    BY <2>1 DEF Count
  <2>3. \A k : Place(k)' = Place(k)
    BY <2>1 DEF Place
  <2> QED
    BY <2>1, <2>2, <2>3 DEF Queue
<1> QED
  BY <1>1, <1>2

(* Nothing else touches the queue. *)
LEMMA QueueStays ==
  ASSUME UNCHANGED <<key_buffer, kb_head, kb_tail>>, pc # "clear", pc' # "clear"
  PROVE  Count' = Count /\ Queue' = Queue /\ First' = First
<1>1. First' = First
  BY DEF First
<1>2. Count' = Count
  BY <1>1 DEF Count
<1>3. \A k : Place(k)' = Place(k)
  BY <1>1 DEF Place
<1> QED
  BY <1>1, <1>2, <1>3 DEF Queue

--------------------------------------------------------------------------------
(* The empty ring satisfies the invariant. *)
LEMMA InitIInv == Init => IInv
<1> SUFFICES ASSUME Init
             PROVE  IInv
  OBVIOUS
<1>0. 0 \in Index
  BY RingAssumption DEF Index
<1>1. TypeOK
  BY <1>0 DEF Init, TypeOK
<1>2. Count = 0
  BY DEF Init, Count, First
<1> QED
  BY <1>1, <1>2 DEF Init, IInv, SlotStable, QueueOfKeys, Cleared

(* A push lands in the slot no pop is reading. *)
LEMMA PushKeeps ==
  ASSUME IInv, NEW ch \in Char, Push(ch)
  PROVE  IInv'
<1>T. TypeOK /\ SlotStable /\ QueueOfKeys /\ Cleared
  BY DEF IInv
<1>1. CASE Full
  <2>1. UNCHANGED <<key_buffer, kb_head, kb_tail, pc, c, answer>> /\ refused' = ~refused
    BY <1>1 DEF Push
  <2> QED
    BY <1>T, <2>1 DEF IInv, TypeOK, SlotStable, QueueOfKeys, Cleared, Empty, Queue, Count,
                      Place, First
<1>2. CASE ~Full
  <2>S. /\ key_buffer' = [key_buffer EXCEPT ![kb_head] = ch]
        /\ kb_head' = Advance(kb_head)
        /\ UNCHANGED <<kb_tail, pc, c, answer, refused>>
    BY <1>2 DEF Push
  <2>N. /\ Advance(kb_head) = IF kb_head = Size - 1 THEN 0 ELSE kb_head + 1
        /\ Advance(kb_head) \in Index
    BY <1>T, AdvanceIs DEF TypeOK
  <2>1. TypeOK'
    BY <1>T, <2>S, <2>N DEF TypeOK
  <2>2. SlotStable'
    BY <1>T, <1>2, <2>S, <2>N DEF TypeOK, SlotStable, Empty, Full
  <2>3. QueueOfKeys'
    <3>1. /\ Count' = Count + 1 /\ Queue' = Append(Queue, ch)
          /\ Count \in 0 .. Size - 1
      BY <1>2, PushAppends, QueuePlaces, <1>T DEF IInv
    <3>2. Queue \in Seq(Char) /\ Len(Queue) = Count
      BY <1>T, <3>1 DEF QueueOfKeys, Queue
    <3>3. Append(Queue, ch) \in Seq(Char) /\ Len(Append(Queue, ch)) = Count + 1
      BY <3>1, <3>2
    <3>4. \A k \in 1 .. Count + 1 : Append(Queue, ch)[k] \in Char
      BY <3>1, <3>3, ElementOfSeq
    <3> QED
      BY <3>1, <3>4 DEF QueueOfKeys
  <2>4. Cleared'
    BY <1>T, <1>2, <2>S, <2>N, RingAssumption DEF TypeOK, Cleared, Full, Index
  <2> QED
    BY <2>1, <2>2, <2>3, <2>4 DEF IInv
<1> QED
  BY <1>1, <1>2

(* The steps of the shell. *)
LEMMA ShellKeeps ==
  ASSUME IInv, PopTest \/ PopLoad \/ PopStore \/ ClearHead \/ ClearTail
  PROVE  IInv'
<1>T. TypeOK /\ SlotStable /\ QueueOfKeys /\ Cleared
  BY DEF IInv
<1>0. 0 \in Index
  BY RingAssumption DEF Index
<1>1. CASE PopTest
  <2>1. UNCHANGED <<key_buffer, kb_head, kb_tail>> /\ pc # "clear" /\ pc' # "clear"
    BY <1>1 DEF PopTest
  <2>2. QueueOfKeys'
    BY <1>T, <2>1, QueueStays DEF QueueOfKeys
  <2> QED
    BY <1>1, <1>T, <2>1, <2>2 DEF PopTest, IInv, TypeOK, SlotStable, Empty, Cleared
<1>2. CASE PopLoad
  <2>1. UNCHANGED <<key_buffer, kb_head, kb_tail>> /\ pc # "clear" /\ pc' # "clear"
    BY <1>2 DEF PopLoad
  <2>2. QueueOfKeys'
    BY <1>T, <2>1, QueueStays DEF QueueOfKeys
  <2> QED
    BY <1>2, <1>T, <2>1, <2>2 DEF PopLoad, IInv, TypeOK, SlotStable, Empty, Cleared
<1>3. CASE PopStore
  <2>1. c \in Char /\ Count' = Count - 1 /\ Queue' = Tail(Queue) /\ Queue # << >>
    BY <1>3, PopTakes
  <2>2. Advance(kb_tail) \in Index
    BY <1>T, AdvanceIs DEF TypeOK
  <2>3. TypeOK'
    BY <1>3, <1>T, <2>1, <2>2 DEF PopStore, TypeOK
  <2>4. QueueOfKeys'
    <3>1. Count \in 0 .. Size - 1
      BY <1>T, QueuePlaces
    <3>2. Queue \in Seq(Char) /\ Len(Queue) = Count
      BY <1>T, <3>1 DEF QueueOfKeys, Queue
    <3>3. Tail(Queue) \in Seq(Char) /\ Len(Tail(Queue)) = Count - 1
      BY <2>1, <3>1, <3>2, HeadTailProperties
    <3>4. \A k \in 1 .. Count - 1 : Tail(Queue)[k] \in Char
      BY <3>3, ElementOfSeq
    <3> QED
      BY <2>1, <3>4 DEF QueueOfKeys
  <2> QED
    BY <1>3, <2>3, <2>4 DEF PopStore, IInv, SlotStable, Cleared
<1>4. CASE ClearHead
  <2>1. Count' = 0
    BY <1>4, ClearEmpties
  <2> QED
    BY <1>0, <1>4, <1>T, <2>1
       DEF ClearHead, IInv, TypeOK, SlotStable, QueueOfKeys, Cleared, Index
<1>5. CASE ClearTail
  <2>1. Count' = Count /\ Queue' = Queue
    BY <1>5, ClearEmpties
  <2> QED
    BY <1>0, <1>5, <1>T, <2>1 DEF ClearTail, IInv, TypeOK, SlotStable, QueueOfKeys, Cleared
<1> QED
  BY <1>1, <1>2, <1>3, <1>4, <1>5

(* Every step of handler and shell keeps the invariant. *)
LEMMA NextIInv == IInv /\ [Next]_vars => IInv'
<1> SUFFICES ASSUME IInv, [Next]_vars
             PROVE  IInv'
  OBVIOUS
<1>1. CASE \E ch \in Char : Push(ch)
  BY <1>1, PushKeeps
<1>2. CASE PopTest \/ PopLoad \/ PopStore \/ ClearHead \/ ClearTail
  BY <1>2, ShellKeeps
<1>3. CASE UNCHANGED vars
  BY <1>3 DEF vars, IInv, TypeOK, SlotStable, QueueOfKeys, Cleared, Empty, Queue, Count,
              Place, First
<1> QED
  BY <1>1, <1>2, <1>3 DEF Next

(* So every reachable state satisfies it. *)
LEMMA Inductive == Spec => []IInv
  BY InitIInv, NextIInv, PTL DEF Spec

--------------------------------------------------------------------------------
(* The indices stay in the ring and pop returns characters of keys. *)
THEOREM TypeCorrect == Spec => []TypeOK
  BY Inductive, PTL DEF IInv

(* No push of the interrupt handler overwrites the slot keyboard_buffer_pop *)
(* is reading, and the buffer does not run empty under it.                  *)
THEOREM SlotNeverOverwritten == Spec => []SlotStable
  BY Inductive, PTL DEF IInv

(* The initial zeroes of key_buffer are never part of the queue. *)
THEOREM OnlyKeysQueued == Spec => []QueueOfKeys
  BY Inductive, PTL DEF IInv

(* What the refinement's initial state and steps come down to. *)
LEMMA FifoInit == Init => Fifo!Init
<1> SUFFICES ASSUME Init
             PROVE  Fifo!Init
  OBVIOUS
<1>1. Count = 0
  BY DEF Init, Count, First
<1> QED
  BY <1>1 DEF Init, Fifo!Init, Queue

(* A push is a push of the queue, or a refusal it allows. *)
LEMMA PushSimulates ==
  ASSUME IInv, NEW ch \in Char, Push(ch)
  PROVE  Fifo!Push(ch) \/ Fifo!Refuse
<1>Q. Queue \in Seq(Char) /\ Len(Queue) = Count
  BY QueuePlaces DEF IInv, QueueOfKeys, Queue
<1>1. CASE Full
  <2>1. UNCHANGED <<key_buffer, kb_head, kb_tail, pc, c, answer>> /\ refused' = ~refused
    BY <1>1 DEF Push
  <2>2. Queue' = Queue
    BY <2>1 DEF Queue, Count, Place, First
  <2>3. pc = "clear" \/ Count = Size - 1
    <3>1. CASE pc # "clear"
      <4>1. First = kb_tail /\ kb_head \in Index /\ kb_tail \in Index
        BY <3>1 DEF First, IInv, TypeOK
      <4>2. Advance(kb_head) = IF kb_head = Size - 1 THEN 0 ELSE kb_head + 1
        BY <4>1, AdvanceIs
      <4> QED
        BY <1>1, <4>1, <4>2, RingAssumption DEF Full, Count, Index
    <3> QED
      BY <3>1
  <2> QED
    BY <1>Q, <2>1, <2>2, <2>3 DEF Fifo!Refuse
<1>2. CASE ~Full
  <2>1. Count < Size - 1 /\ Queue' = Append(Queue, ch)
    BY <1>2, PushAppends
  <2>2. UNCHANGED <<pc, answer, refused>>
    BY <1>2 DEF Push
  <2> QED
    BY <1>Q, <2>1, <2>2 DEF Fifo!Push
<1> QED
  BY <1>1, <1>2

(* The steps of the shell are steps of the queue, or leave it alone. *)
LEMMA ShellSimulates ==
  ASSUME IInv, PopTest \/ PopLoad \/ PopStore \/ ClearHead \/ ClearTail
  PROVE  Fifo!Next \/ UNCHANGED Fifo!vars
<1>Q. Queue \in Seq(Char) /\ Len(Queue) = Count
  BY QueuePlaces DEF IInv, QueueOfKeys, Queue
<1>1. CASE PopTest
  <2>1. /\ UNCHANGED <<key_buffer, kb_head, kb_tail, refused>>
        /\ pc # "clear" /\ pc' # "clear"
    BY <1>1 DEF PopTest
  <2>2. Queue' = Queue
    BY <2>1, QueueStays
  <2>3. CASE Empty
    <3>1. Queue = << >>
      BY <1>Q, <2>1, <2>3 DEF Empty, Count, First, IInv, TypeOK, Index
    <3> QED
      BY <1>1, <2>1, <2>2, <2>3, <3>1 DEF PopTest, Fifo!Next, Fifo!PopNothing
  <2>4. CASE ~Empty
    BY <1>1, <2>1, <2>2, <2>4 DEF PopTest, Fifo!vars
  <2> QED
    BY <2>3, <2>4
<1>2. CASE PopLoad
  <2>1. /\ UNCHANGED <<key_buffer, kb_head, kb_tail, answer, refused>>
        /\ pc # "clear" /\ pc' # "clear"
    BY <1>2 DEF PopLoad
  <2> QED
    BY <2>1, QueueStays DEF Fifo!vars
<1>3. CASE PopStore
  <2>1. Queue # << >> /\ c = Head(Queue) /\ Queue' = Tail(Queue)
    BY <1>3, PopTakes
  <2> QED
    BY <1>3, <2>1 DEF PopStore, Fifo!Next, Fifo!Pop
<1>4. CASE ClearHead
  BY <1>4, ClearEmpties DEF ClearHead, Fifo!Next, Fifo!BeginClear
<1>5. CASE ClearTail
  BY <1>5, ClearEmpties DEF ClearTail, Fifo!Next, Fifo!EndClear
<1> QED
  BY <1>1, <1>2, <1>3, <1>4, <1>5

(* The ring is a first-in first-out queue of Size - 1 characters: every    *)
(* step of the handler and of the shell is a step of the queue, or none.   *)
THEOREM Refinement == Spec => FifoSpec
<1>1. IInv /\ [Next]_vars => [Fifo!Next]_(Fifo!vars)
  <2> SUFFICES ASSUME IInv, [Next]_vars
               PROVE  [Fifo!Next]_(Fifo!vars)
    OBVIOUS
  <2>1. CASE \E ch \in Char : Push(ch)
    BY <2>1, PushSimulates DEF Fifo!Next
  <2>2. CASE PopTest \/ PopLoad \/ PopStore \/ ClearHead \/ ClearTail
    BY <2>2, ShellSimulates
  <2>3. CASE UNCHANGED vars
    BY <2>3 DEF vars, Fifo!vars, Queue, Count, Place, First
  <2> QED
    BY <2>1, <2>2, <2>3 DEF Next
<1> QED
  BY <1>1, FifoInit, Inductive, PTL DEF Spec, FifoSpec, Fifo!Spec

--------------------------------------------------------------------------------
(***************************************************************************)
(* The keyboard's interrupt: nobody reads the port in vain, and the        *)
(* bring-up of main.c loses a request only in the window that `orphan`     *)
(* records.                                                                *)
(***************************************************************************)

(* start() has left keyboard_init's loop, and where it has registered the  *)
(* handler and unmasked the line for good.                                 *)
Drained    == {"register", "unmask0", "unmask1", "shell", "keytest", "keytest_read"}
Registered == Drained \ {"register"}
InShell    == {"shell", "keytest", "keytest_read"}

(* Line 1 is in service exactly while its handler's frame exists. *)
InService == isr <=> irq # "none"

(* The line is open in keyboard_init's loop, and for good in the shell. *)
LineOpen == main \in {"drain", "drain_read"} \cup InShell => ~imr

(* The handler is in the table once Register has run, and the dispatcher   *)
(* finds it only from then on, none only before.                           *)
HandlerKnown ==
  /\ handler <=> main \in Registered
  /\ irq = "handler" => main \in Registered
  /\ irq = "unhandled" => main \notin Registered

(* Only keytest takes a byte from under its request. *)
RequestHasByte ==
  ~polled => /\ irr => obf # NoByte
             /\ irq = "handler" => obf # NoByte /\ ~irr

(* Between the loop's test and its read the byte stays; a request for it   *)
(* that is still pending leaves no room for another instruction.           *)
DrainKeepsByte ==
  main = "drain_read" => obf # NoByte /\ (irr => late)

(* Past the loop a byte in the controller has its request, or an interrupt *)
(* under way, or came in the window.                                       *)
NoneForgotten ==
  main \in Drained /\ obf # NoByte /\ ~orphan
    => irr \/ irq \in {"unhandled", "handler"}

KInv ==
  /\ IrqTypeOK
  /\ InService
  /\ LineOpen
  /\ HandlerKnown
  /\ RequestHasByte
  /\ DrainKeepsByte
  /\ NoneForgotten

--------------------------------------------------------------------------------
(* Step by step. *)

(* The steps are those named in IrqNext, and stuttering. *)
LEMMA StepCases ==
  ASSUME [IrqNext]_irqVars
  PROVE  \/ \E k \in Byte : Press(k)
         \/ Deliver \/ Interrupt \/ Unhandled \/ HandlerReads \/ Eoi
         \/ UnmaskLine \/ DrainTest \/ DrainRead \/ Register \/ Unmask0 \/ Unmask1
         \/ Keytest \/ KeytestPoll \/ KeytestRead
         \/ UNCHANGED irqVars
BY DEF IrqNext, Irq, Boot, Polling

(* Every step keeps the types, and the keyboard's own queue within Wire. *)
LEMMA TypeStep ==
  ASSUME IrqTypeOK, [IrqNext]_irqVars
  PROVE  IrqTypeOK'
<1> USE IrqAssumption DEF IrqTypeOK
<1>1. CASE \E k \in Byte : Press(k)
  BY <1>1 DEF Press
<1>2. CASE Deliver
  BY <1>2 DEF Deliver
<1>3. CASE Interrupt
  BY <1>3 DEF Interrupt, Deliverable
<1>4. CASE Unhandled
  BY <1>4 DEF Unhandled, device
<1>5. CASE HandlerReads
  BY <1>5 DEF HandlerReads, ReadPort
<1>6. CASE Eoi
  BY <1>6 DEF Eoi, device
<1>7. CASE UnmaskLine
  BY <1>7 DEF UnmaskLine, Runs, Deliverable, device
<1>8. CASE DrainTest
  BY <1>8 DEF DrainTest, Runs, Deliverable, device
<1>9. CASE DrainRead
  BY <1>9 DEF DrainRead, Runs, Deliverable, ReadPort
<1>10. CASE Register
  BY <1>10 DEF Register, Runs, Deliverable, device
<1>11. CASE Unmask0
  BY <1>11 DEF Unmask0, Runs, Deliverable, device, SetMask
<1>12. CASE Unmask1
  BY <1>12 DEF Unmask1, Runs, Deliverable, device, SetMask
<1>13. CASE Keytest
  BY <1>13 DEF Keytest, Runs, Deliverable, device
<1>14. CASE KeytestPoll
  BY <1>14 DEF KeytestPoll, Runs, Deliverable, device
<1>15. CASE KeytestRead
  BY <1>15 DEF KeytestRead, Runs, Deliverable, device, ReadPort
<1>16. CASE UNCHANGED irqVars
  BY <1>16 DEF irqVars
<1>17. QED
  BY ONLY StepCases, [IrqNext]_irqVars, <1>1, <1>2, <1>3, <1>4, <1>5, <1>6, <1>7, <1>8, <1>9, <1>10, <1>11, <1>12, <1>13, <1>14, <1>15, <1>16

(* Every step keeps what the handler's frame says of the 8259. *)
LEMMA LineStep ==
  ASSUME IrqTypeOK, InService, LineOpen, HandlerKnown, [IrqNext]_irqVars
  PROVE  (InService /\ LineOpen /\ HandlerKnown)'
<1> USE IrqAssumption DEF IrqTypeOK, InService, LineOpen, HandlerKnown, Drained, Registered, InShell
<1>1. CASE \E k \in Byte : Press(k)
  BY <1>1 DEF Press
<1>2. CASE Deliver
  BY <1>2 DEF Deliver
<1>3. CASE Interrupt
  BY <1>3 DEF Interrupt, Deliverable
<1>4. CASE Unhandled
  BY <1>4 DEF Unhandled, device
<1>5. CASE HandlerReads
  BY <1>5 DEF HandlerReads, ReadPort
<1>6. CASE Eoi
  BY <1>6 DEF Eoi, device
<1>7. CASE UnmaskLine
  BY <1>7 DEF UnmaskLine, Runs, Deliverable, device
<1>8. CASE DrainTest
  BY <1>8 DEF DrainTest, Runs, Deliverable, device
<1>9. CASE DrainRead
  BY <1>9 DEF DrainRead, Runs, Deliverable, ReadPort
<1>10. CASE Register
  BY <1>10 DEF Register, Runs, Deliverable, device
<1>11. CASE Unmask0
  BY <1>11 DEF Unmask0, Runs, Deliverable, device, SetMask
<1>12. CASE Unmask1
  BY <1>12 DEF Unmask1, Runs, Deliverable, device, SetMask
<1>13. CASE Keytest
  BY <1>13 DEF Keytest, Runs, Deliverable, device
<1>14. CASE KeytestPoll
  BY <1>14 DEF KeytestPoll, Runs, Deliverable, device
<1>15. CASE KeytestRead
  BY <1>15 DEF KeytestRead, Runs, Deliverable, device, ReadPort
<1>16. CASE UNCHANGED irqVars
  BY <1>16 DEF irqVars
<1>17. QED
  BY ONLY StepCases, [IrqNext]_irqVars, <1>1, <1>2, <1>3, <1>4, <1>5, <1>6, <1>7, <1>8, <1>9, <1>10, <1>11, <1>12, <1>13, <1>14, <1>15, <1>16

(* Every step keeps a byte with its request, and in the drain loop. *)
LEMMA ByteStep ==
  ASSUME KInv, [IrqNext]_irqVars
  PROVE  (RequestHasByte /\ DrainKeepsByte)'
<1> USE IrqAssumption DEF KInv, IrqTypeOK, InService, LineOpen, HandlerKnown, RequestHasByte, DrainKeepsByte, Drained, Registered, InShell
<1>1. CASE \E k \in Byte : Press(k)
  BY <1>1 DEF Press
<1>2. CASE Deliver
  BY <1>2 DEF Deliver
<1>3. CASE Interrupt
  BY <1>3 DEF Interrupt, Deliverable
<1>4. CASE Unhandled
  BY <1>4 DEF Unhandled, device
<1>5. CASE HandlerReads
  <2>1. irr' => irr
    BY <1>5 DEF HandlerReads, ReadPort
  <2>2. main' # "drain_read" /\ irq' = "eoi" /\ polled' = polled
    BY <1>5 DEF HandlerReads
  <2>3. ~polled => ~irr
    BY <1>5 DEF HandlerReads
  <2> QED
    BY ONLY <2>1, <2>2, <2>3 DEF RequestHasByte, DrainKeepsByte
<1>6. CASE Eoi
  BY <1>6 DEF Eoi, device
<1>7. CASE UnmaskLine
  BY <1>7 DEF UnmaskLine, Runs, Deliverable, device
<1>8. CASE DrainTest
  BY <1>8 DEF DrainTest, Runs, Deliverable, device
<1>9. CASE DrainRead
  <2>1. irr => Deliverable
    BY <1>9 DEF DrainRead, Runs, Deliverable
  <2>2. (irr => late) /\ (Deliverable => ~late)
    BY <1>9 DEF DrainRead, Runs
  <2>3. irr' => irr
    BY <1>9 DEF DrainRead, ReadPort
  <2>4. main' = "drain" /\ irq' = "none"
    BY <1>9 DEF DrainRead, Runs
  <2> QED
    BY ONLY <2>1, <2>2, <2>3, <2>4 DEF RequestHasByte, DrainKeepsByte
<1>10. CASE Register
  BY <1>10 DEF Register, Runs, Deliverable, device
<1>11. CASE Unmask0
  BY <1>11 DEF Unmask0, Runs, Deliverable, device, SetMask
<1>12. CASE Unmask1
  BY <1>12 DEF Unmask1, Runs, Deliverable, device, SetMask
<1>13. CASE Keytest
  BY <1>13 DEF Keytest, Runs, Deliverable, device
<1>14. CASE KeytestPoll
  BY <1>14 DEF KeytestPoll, Runs, Deliverable, device
<1>15. CASE KeytestRead
  BY <1>15 DEF KeytestRead, Runs, Deliverable, device, ReadPort
<1>16. CASE UNCHANGED irqVars
  BY <1>16 DEF irqVars
<1>17. QED
  BY ONLY StepCases, [IrqNext]_irqVars, <1>1, <1>2, <1>3, <1>4, <1>5, <1>6, <1>7, <1>8, <1>9, <1>10, <1>11, <1>12, <1>13, <1>14, <1>15, <1>16

(* Every step keeps a request for each byte that is not in the window. *)
LEMMA ForgottenStep ==
  ASSUME KInv, [IrqNext]_irqVars
  PROVE  NoneForgotten'
<1> USE IrqAssumption DEF KInv, IrqTypeOK, InService, HandlerKnown, NoneForgotten, Drained, Registered
<1>1. CASE \E k \in Byte : Press(k)
  BY <1>1 DEF Press
<1>2. CASE Deliver
  BY <1>2 DEF Deliver
<1>3. CASE Interrupt
  BY <1>3 DEF Interrupt, Deliverable
<1>4. CASE Unhandled
  BY <1>4 DEF Unhandled, device
<1>5. CASE HandlerReads
  BY <1>5 DEF HandlerReads, ReadPort
<1>6. CASE Eoi
  BY <1>6 DEF Eoi, device
<1>7. CASE UnmaskLine
  BY <1>7 DEF UnmaskLine, Runs, Deliverable, device
<1>8. CASE DrainTest
  BY <1>8 DEF DrainTest, Runs, Deliverable, device
<1>9. CASE DrainRead
  BY <1>9 DEF DrainRead, Runs, Deliverable, ReadPort
<1>10. CASE Register
  BY <1>10 DEF Register, Runs, Deliverable, device
<1>11. CASE Unmask0
  BY <1>11 DEF Unmask0, Runs, Deliverable, device, SetMask
<1>12. CASE Unmask1
  BY <1>12 DEF Unmask1, Runs, Deliverable, device, SetMask
<1>13. CASE Keytest
  BY <1>13 DEF Keytest, Runs, Deliverable, device
<1>14. CASE KeytestPoll
  BY <1>14 DEF KeytestPoll, Runs, Deliverable, device
<1>15. CASE KeytestRead
  BY <1>15 DEF KeytestRead, Runs, Deliverable, device, ReadPort
<1>16. CASE UNCHANGED irqVars
  BY <1>16 DEF irqVars
<1>17. QED
  BY ONLY StepCases, [IrqNext]_irqVars, <1>1, <1>2, <1>3, <1>4, <1>5, <1>6, <1>7, <1>8, <1>9, <1>10, <1>11, <1>12, <1>13, <1>14, <1>15, <1>16

--------------------------------------------------------------------------------
(* The inductive invariant, and what it gives. *)

(* What start() finds when it gets to keyboard_init satisfies the          *)
(* invariant, a byte of the boot loader's time in the controller or not.   *)
LEMMA KInvInit == IrqInit => KInv
<1> SUFFICES ASSUME IrqInit PROVE KInv
  OBVIOUS
<1> USE IrqAssumption DEF IrqInit
<1>1. IrqTypeOK
  <2>1. wire \in Seq(Byte) /\ Len(wire) <= Wire
    OBVIOUS
  <2>2. {irr, isr, imr, late, masked, handler, orphan, polled} \subseteq BOOLEAN
    OBVIOUS
  <2> QED
    BY <2>1, <2>2 DEF IrqTypeOK
<1>2. InService /\ LineOpen /\ HandlerKnown
  <2>1. InService
    BY DEF InService
  <2>2. LineOpen
    BY DEF LineOpen, InShell
  <2>3. HandlerKnown
    <3>1. main \notin Registered
      BY DEF Registered, Drained
    <3>2. handler = FALSE /\ irq # "handler"
      OBVIOUS
    <3> QED
      BY <3>1, <3>2 DEF HandlerKnown
  <2> QED
    BY <2>1, <2>2, <2>3
<1>3. RequestHasByte /\ DrainKeepsByte /\ NoneForgotten
  BY DEF RequestHasByte, DrainKeepsByte, NoneForgotten, Drained
<1> QED
  BY <1>1, <1>2, <1>3 DEF KInv

(* The invariant of the keyboard's interrupt: in every state, whatever the *)
(* order in which keys, requests and the instructions of start(), of the   *)
(* shell and of the handler come.                                          *)
THEOREM KeyboardInvariant == IrqSpec => []KInv
<1>1. KInv /\ [IrqNext]_irqVars => KInv'
  <2> SUFFICES ASSUME KInv, [IrqNext]_irqVars PROVE KInv'
    OBVIOUS
  <2>1. IrqTypeOK' /\ (InService /\ LineOpen /\ HandlerKnown)'
    BY TypeStep, LineStep DEF KInv
  <2>2. (RequestHasByte /\ DrainKeepsByte)' /\ NoneForgotten'
    BY ByteStep, ForgottenStep
  <2> QED
    BY <2>1, <2>2 DEF KInv
<1> QED
  BY KInvInit, <1>1, PTL DEF IrqSpec

(* keyboard_init's loop and keyboard_get_scancode never read a port with   *)
(* no byte in it, and the handler never waits for one with interrupts off, *)
(* unless keytest has read behind its back (keyboard.c, i8042).            *)
THEOREM ReadsAreFresh == IrqSpec => []ReadsFresh
<1>1. KInv => ReadsFresh
  BY DEF KInv, ReadsFresh, RequestHasByte, DrainKeepsByte
<1> QED
  BY KeyboardInvariant, <1>1, PTL

(* From the shell on, a byte that waits in the controller has a request    *)
(* the 8259 can deliver, unless one came between keyboard_init's loop and  *)
(* i686_IRQ_RegisterHandler: the mask i8259_Unmask(0) writes back from its *)
(* stale copy costs nothing.                                               *)
THEOREM KeyboardStaysAlive == IrqSpec => []KeyboardAlive
<1>1. KInv => KeyboardAlive
  <2> SUFFICES ASSUME KInv,
                      main \in InShell, irq = "none", obf # NoByte, ~orphan
               PROVE  irr /\ ~imr /\ ~isr
    BY DEF KeyboardAlive, InShell
  <2>1. irr
    BY DEF KInv, NoneForgotten, Drained, InShell
  <2>2. ~imr /\ ~isr
    BY DEF KInv, LineOpen, InService
  <2> QED
    BY <2>1, <2>2
<1> QED
  BY KeyboardInvariant, <1>1, PTL

================================================================================
