----------------------------- MODULE InterruptsProofs ---------------------------
(***************************************************************************)
(* Proofs about the interrupt path: for any lines, calls and delays, and   *)
(* any point of the boot, an interrupt finds its gate and its handler, an  *)
(* EOI retires the line it is for, handlers run whole, a sleep does not    *)
(* end early, and the whole path is the timer that module Sleep assumes.   *)
(***************************************************************************)
EXTENDS Interrupts, SequenceTheorems, TLAPS

Frame == [vector : Vectors, phase : {"entered", "eoi", "iret", "sleep"},
          spurious : BOOLEAN, saved : BOOLEAN]

KernelVectors == {32 + l : l \in Lines}

(* What start() has done by the time it is at each step. *)
Stages    == {"gates", "probe", "configure", "register", "enable", "time", "syscall",
              "keyboard", "irq1", "unmask0", "unmask1", "run", "halted"}
Unmapped  == {"gates", "probe", "configure"}
Quiet     == Unmapped \cup {"register", "enable"}
GateOpen  == {"keyboard", "irq1", "unmask0", "unmask1", "run", "halted"}

Typed ==
  /\ s_ticks \in Nat /\ low \in Nat /\ target_ticks \in Nat /\ iteration \in Nat
  /\ irq0 \in BOOLEAN /\ interrupts \in BOOLEAN /\ saved \in BOOLEAN
  /\ torn \in BOOLEAN /\ remapped \in BOOLEAN
  /\ pc \in {"idle", "low", "high", "wait"}
  /\ irr \subseteq Lines \ {0} /\ isr \subseteq Lines
  /\ boot \in Stages
  /\ g_ISRHandlers \in [Vectors -> {"NULL", "i686_IRQ_Handler", "syscall_handler"}]
  /\ frames \in Seq(Frame)

(* The order of the boot: nothing is interrupted before the gates, the     *)
(* 8259's vectors and the lines' handlers are in place.                    *)
BootOrder ==
  /\ boot \in Quiet => ~interrupts /\ frames = << >>
  /\ boot # "gates" => Vectors \ {SYSCALL} \subseteq present
  /\ remapped <=> boot \notin Unmapped
  /\ boot \notin Quiet \/ boot = "enable" =>
       \A v \in KernelVectors : g_ISRHandlers[v] = "i686_IRQ_Handler"
  /\ boot \in GateOpen => SYSCALL \in present /\ g_ISRHandlers[SYSCALL] # "NULL"

(* A frame is that of an interrupt by a kernel vector, or of a system call *)
(* of the shell, which alone sleeps and never sends an EOI.                *)
FrameKinds ==
  \A i \in DOMAIN frames :
    IF IrqFrame(frames[i])
    THEN frames[i].vector \in KernelVectors /\ frames[i].phase # "sleep"
    ELSE boot = "run" /\ frames[i].phase # "eoi"

(* Frames nest once at most: an interrupt over a sleep. *)
Nesting ==
  /\ Len(frames) <= 2
  /\ Len(frames) = 2 => frames[1].phase = "sleep" /\ IrqFrame(frames[2])
  /\ pc = "idle" <=> frames = << >> \/ frames[1].phase # "sleep"

(* Only a sleep has the flag set over a frame, and from its second reading *)
(* of the clock on; an interrupt came while the flag was set.              *)
Flag ==
  frames # << >> =>
    /\ Top.phase # "sleep" => ~interrupts
    /\ IrqFrame(Top) => Top.saved
    /\ pc # "idle" /\ iteration > 0 => interrupts \/ IrqFrame(Top)

(* Pulses stop in time for the clock to stay within the model's bound. *)
TicksLeft ==
  /\ s_ticks + (IF Uncounted THEN 1 ELSE 0) <= LastTick
  /\ irq0 => s_ticks + (IF Uncounted THEN 1 ELSE 0) < LastTick

(* A reading of the clock that no carry has torn is not ahead of it. *)
Reading == pc = "high" /\ ~torn => low <= s_ticks % Half

IInv ==
  /\ Typed
  /\ BootOrder
  /\ FrameKinds
  /\ Nesting
  /\ Flag
  /\ InServiceIsHandled
  /\ TicksLeft
  /\ Reading

--------------------------------------------------------------------------------
(* Vectors, lines and frames. *)

(* The kernel's vectors are vectors, none of them is that of the system    *)
(* calls, and each stands for its line.                                    *)
LEMMA VectorFacts ==
  /\ Lines \subseteq 0 .. 7
  /\ KernelVectors \subseteq Vectors \ {SYSCALL} /\ SYSCALL \in Vectors
  /\ \A l \in Lines : 32 + l \in KernelVectors /\ LineOf(32 + l) = l
  /\ \A v \in KernelVectors : v \in Int /\ LineOf(v) \in Lines /\ v = 32 + LineOf(v)
<1>1. Lines \subseteq 0 .. 7
  BY InterruptsAssumption
<1>2. KernelVectors \subseteq Vectors \ {SYSCALL} /\ SYSCALL \in Vectors
  <2>1. ASSUME NEW v \in KernelVectors PROVE v \in Vectors /\ v # 128
    <3>1. PICK l \in Lines : v = 32 + l
      BY DEF KernelVectors
    <3>2. v \in {8 + l, 32 + l} /\ {8 + l, 32 + l} \in {{8 + m, 32 + m} : m \in Lines}
      BY <3>1
    <3>3. v \in UNION {{8 + m, 32 + m} : m \in Lines}
      BY <3>2
    <3>4. v # 128
      BY <1>1, <3>1
    <3> QED
      BY <3>3, <3>4 DEF Vectors
  <2>2. SYSCALL \in Vectors
    BY DEF Vectors
  <2> QED
    BY <2>1, <2>2 DEF SYSCALL
<1>3. \A l \in Lines : 32 + l \in KernelVectors /\ LineOf(32 + l) = l
  BY <1>1 DEF KernelVectors, LineOf
<1>4. ASSUME NEW v \in KernelVectors
      PROVE  v \in Int /\ LineOf(v) \in Lines /\ v = 32 + LineOf(v)
  <2>1. PICK l \in Lines : v = 32 + l
    BY DEF KernelVectors
  <2>2. l \in Int
    BY <1>1
  <2> QED
    BY <2>1, <2>2, <1>3
<1> QED
  BY <1>1, <1>2, <1>3, <1>4

(* The 8259 finds the first of some lines. *)
LEMMA MinIs ==
  ASSUME NEW S, S \subseteq Lines, S # {}
  PROVE  Min(S) \in S /\ \A y \in S : Min(S) <= y
<1>1. S \subseteq 0 .. 7
  BY VectorFacts
<1>2. \E x \in S : \A y \in S : x =< y
  <2>1. CASE 0 \in S BY <1>1, <2>1
  <2>2. CASE 0 \notin S /\ 1 \in S BY <1>1, <2>2
  <2>3. CASE {0, 1} \cap S = {} /\ 2 \in S BY <1>1, <2>3
  <2>4. CASE {0, 1, 2} \cap S = {} /\ 3 \in S BY <1>1, <2>4
  <2>5. CASE {0, 1, 2, 3} \cap S = {} /\ 4 \in S BY <1>1, <2>5
  <2>6. CASE {0, 1, 2, 3, 4} \cap S = {} /\ 5 \in S BY <1>1, <2>6
  <2>7. CASE {0, 1, 2, 3, 4, 5} \cap S = {} /\ 6 \in S BY <1>1, <2>7
  <2>8. CASE {0, 1, 2, 3, 4, 5, 6} \cap S = {}
    <3>1. \A y \in S : y = 7 BY <1>1, <2>8
    <3> QED BY <3>1
  <2> QED BY <2>1, <2>2, <2>3, <2>4, <2>5, <2>6, <2>7, <2>8
<1> QED
  BY <1>2 DEF Min

(* With one line in service, that is the one an EOI retires. *)
LEMMA MinOne == ASSUME NEW l \in Lines PROVE Min({l}) = l
BY MinIs

(* A push adds the innermost frame. *)
LEMMA PushFrame ==
  ASSUME NEW s \in Seq(Frame), NEW f \in Frame, NEW t, t = Append(s, f)
  PROVE  /\ t \in Seq(Frame) /\ t # << >>
         /\ Len(t) = Len(s) + 1 /\ DOMAIN t = 1 .. Len(s) + 1
         /\ t[Len(s) + 1] = f
         /\ \A i \in 1 .. Len(s) : t[i] = s[i]
OBVIOUS

(* A handler moves on within its frame. *)
LEMMA MoveFrame ==
  ASSUME NEW s \in Seq(Frame), s # << >>, NEW p \in {"entered", "eoi", "iret", "sleep"},
         NEW t, t = [s EXCEPT ![Len(s)].phase = p]
  PROVE  /\ t \in Seq(Frame) /\ t # << >>
         /\ Len(t) = Len(s) /\ DOMAIN t = DOMAIN s
         /\ t[Len(s)].phase = p /\ t[Len(s)].vector = s[Len(s)].vector
         /\ t[Len(s)].spurious = s[Len(s)].spurious /\ t[Len(s)].saved = s[Len(s)].saved
         /\ \A i \in 1 .. Len(s) - 1 : t[i] = s[i]
<1>1. Len(s) \in DOMAIN s /\ s[Len(s)] \in Frame
  OBVIOUS
<1>2. [s[Len(s)] EXCEPT !.phase = p] \in Frame
  BY <1>1 DEF Frame
<1>3. t \in Seq(Frame) /\ Len(t) = Len(s)
  BY <1>1, <1>2
<1>4. t[Len(s)] = [s[Len(s)] EXCEPT !.phase = p]
  BY <1>1
<1>5. \A i \in 1 .. Len(s) - 1 : t[i] = s[i]
  BY <1>1
<1> QED
  BY <1>1, <1>3, <1>4, <1>5 DEF Frame

(* A return drops the innermost frame. *)
LEMMA PopFrame ==
  ASSUME NEW s \in Seq(Frame), s # << >>, NEW t, t = Front(s)
  PROVE  /\ t \in Seq(Frame) /\ Len(t) = Len(s) - 1 /\ DOMAIN t = 1 .. Len(s) - 1
         /\ \A i \in 1 .. Len(s) - 1 : t[i] = s[i]
<1>1. Len(s) \in Nat /\ Len(s) >= 1
  OBVIOUS
<1>2. t = SubSeq(s, 1, Len(s) - 1)
  BY DEF Front
<1>3. \A i \in 1 .. Len(s) - 1 : s[i] \in Frame
  OBVIOUS
<1>4. /\ t \in Seq(Frame)
      /\ Len(t) = IF 1 <= Len(s) - 1 THEN Len(s) - 1 - 1 + 1 ELSE 0
      /\ \A i \in 1 .. Len(s) - 1 - 1 + 1 : t[i] = s[1 + i - 1]
  BY <1>1, <1>2, <1>3, SubSeqProperties
<1>5. Len(t) = Len(s) - 1
  <2> DEFINE n == Len(s)
  <2>1. n \in Nat /\ n >= 1 /\ Len(t) = IF 1 <= n - 1 THEN n - 1 - 1 + 1 ELSE 0
    BY <1>1, <1>4
  <2> HIDE DEF n
  <2>2. Len(t) = n - 1
    BY ONLY <2>1
  <2> QED
    BY <2>2 DEF n
<1>6. \A i \in 1 .. Len(s) - 1 : t[i] = s[i]
  <2> SUFFICES ASSUME NEW i \in 1 .. Len(s) - 1 PROVE t[i] = s[i]
    OBVIOUS
  <2>1. i \in 1 .. Len(s) - 1 - 1 + 1 /\ 1 + i - 1 = i
    BY <1>1
  <2> QED
    BY <2>1, <1>4
<1> QED
  BY <1>4, <1>5, <1>6

(* The lines in service by a stack's frames, and whether one of them is a  *)
(* tick not yet counted: InServiceIsHandled and Uncounted of any stack.    *)
Served(s) ==
  {LineOf(s[i].vector) : i \in
     {j \in DOMAIN s : IrqFrame(s[j]) /\ ~s[j].spurious /\ s[j].phase \in {"entered", "eoi"}}}
Ticking(s) == \E i \in DOMAIN s : s[i].vector = 32 /\ s[i].phase = "entered"

(* Both only depend on the innermost frame, as no interrupt lies under it. *)
LEMMA Innermost ==
  ASSUME NEW s \in Seq(Frame), s # << >>,
         Len(s) = 1 \/ (Len(s) = 2 /\ ~IrqFrame(s[1])),
         NEW f, f = s[Len(s)]
  PROVE  /\ Served(s) = IF IrqFrame(f) /\ ~f.spurious /\ f.phase \in {"entered", "eoi"}
                         THEN {LineOf(f.vector)} ELSE {}
         /\ Ticking(s) <=> f.vector = 32 /\ f.phase = "entered"
<1>1. Len(s) \in Nat /\ DOMAIN s = 1 .. Len(s)
  OBVIOUS
<1> DEFINE Serves(j) == IrqFrame(s[j]) /\ ~s[j].spurious /\ s[j].phase \in {"entered", "eoi"}
<1>2. \A j \in DOMAIN s : Serves(j) => j = Len(s)
  BY <1>1
<1>3. \A j \in DOMAIN s : s[j].vector = 32 => j = Len(s)
  BY <1>1 DEF IrqFrame, SYSCALL
<1>4. Len(s) \in DOMAIN s
  BY <1>1
<1>5. Served(s) = IF Serves(Len(s)) THEN {LineOf(f.vector)} ELSE {}
  BY <1>2, <1>4 DEF Served
<1> QED
  BY <1>3, <1>4, <1>5 DEF Ticking

(* No frames, no service. *)
LEMMA NoFrames == Served(<< >>) = {} /\ ~Ticking(<< >>)
BY DEF Served, Ticking

(* The clock's low half grows by one, unless it carries. *)
LEMMA NextLow ==
  ASSUME NEW n \in Nat, (n + 1) % Half # 0
  PROVE  n % Half <= (n + 1) % Half
<1> DEFINE q == n \div Half
           r == n % Half
           t == (n + 1) \div Half
           u == (n + 1) % Half
<1>1. Half \in Nat /\ Half > 0
  BY InterruptsAssumption
<1>2. /\ q \in Int /\ t \in Int /\ r \in Nat /\ u \in Nat /\ r < Half /\ u < Half
      /\ n = Half * q + r /\ n + 1 = Half * t + u
  BY <1>1
<1>3. r < Half - 1 \/ r = Half - 1
  BY <1>1, <1>2
<1> HIDE DEF q, r, t, u
<1>4. t >= q
  <2> SUFFICES ASSUME t <= q - 1 PROVE FALSE
    BY <1>2
  <2>1. Half * t <= Half * (q - 1)
    BY <1>1, <1>2
  <2>2. Half * (q - 1) = Half * q - Half
    BY <1>1, <1>2
  <2> QED
    BY <1>1, <1>2, <2>1, <2>2
<1>5. t = q \/ t >= q + 1
  BY <1>2, <1>4
<1>6. CASE t = q
  BY <1>1, <1>2, <1>6 DEF r, u
<1>7. CASE t >= q + 1
  <2>1. Half * t >= Half * (q + 1) /\ Half * (q + 1) = Half * q + Half
    BY <1>1, <1>2, <1>7
  <2>2. u = 0
    BY <1>1, <1>2, <2>1
  <2> QED
    BY <2>2 DEF u
<1> QED
  BY <1>5, <1>6, <1>7

--------------------------------------------------------------------------------
(* Frames come, move on and go. *)

(* An innermost frame is a frame; a lone one lies over start() or the      *)
(* shell, the upper one of two is an interrupt's over a sleep.             *)
LEMMA Stack ==
  ASSUME Typed, FrameKinds, Nesting, frames # << >>
  PROVE  /\ Len(frames) \in {1, 2} /\ DOMAIN frames = 1 .. Len(frames)
         /\ Top \in Frame /\ frames[1] \in Frame
         /\ Len(frames) = 2 => ~IrqFrame(frames[1]) /\ frames[1].phase = "sleep" /\ IrqFrame(Top)
         /\ Served(frames) = IF IrqFrame(Top) /\ ~Top.spurious /\ Top.phase \in {"entered", "eoi"}
                             THEN {LineOf(Top.vector)} ELSE {}
         /\ Uncounted <=> Top.vector = 32 /\ Top.phase = "entered"
         /\ IrqFrame(Top) => Top.vector \in KernelVectors /\ Top.phase # "sleep"
         /\ ~IrqFrame(Top) => boot = "run" /\ Top.phase # "eoi"
<1>1. Len(frames) \in {1, 2} /\ DOMAIN frames = 1 .. Len(frames)
  <2>1. Len(frames) \in Nat /\ Len(frames) > 0 /\ DOMAIN frames = 1 .. Len(frames)
    BY DEF Typed
  <2> QED
    BY <2>1 DEF Nesting
<1>2. 1 \in DOMAIN frames /\ Len(frames) \in DOMAIN frames
  BY <1>1
<1>3. Top \in Frame /\ frames[1] \in Frame
  BY <1>2 DEF Typed, Top
<1>4. Len(frames) = 2 => ~IrqFrame(frames[1]) /\ frames[1].phase = "sleep" /\ IrqFrame(Top)
  BY <1>2 DEF Nesting, FrameKinds, Top
<1>5. /\ Served(frames) = IF IrqFrame(Top) /\ ~Top.spurious /\ Top.phase \in {"entered", "eoi"}
                          THEN {LineOf(Top.vector)} ELSE {}
      /\ Ticking(frames) <=> Top.vector = 32 /\ Top.phase = "entered"
  BY <1>1, <1>4, Innermost DEF Typed, Top
<1>6. Uncounted <=> Ticking(frames)
  BY DEF Uncounted, Ticking
<1>7. /\ IrqFrame(Top) => Top.vector \in KernelVectors /\ Top.phase # "sleep"
      /\ ~IrqFrame(Top) => boot = "run" /\ Top.phase # "eoi"
  BY <1>2 DEF FrameKinds, Top
<1> QED
  BY <1>1, <1>3, <1>4, <1>5, <1>6, <1>7

(* With the flag set the code that runs is start()'s, the shell's or a     *)
(* sleep's: no line is in service, and the tables are filled.              *)
LEMMA Interruptible ==
  ASSUME IInv, interrupts
  PROVE  /\ boot \notin Quiet /\ remapped
         /\ frames = << >> \/ (Len(frames) = 1 /\ ~IrqFrame(frames[1]) /\ frames[1].phase = "sleep")
         /\ isr = {} /\ ~Uncounted
<1>1. boot \notin Quiet /\ remapped
  BY DEF IInv, BootOrder, Quiet
<1>2. CASE frames = << >>
  BY <1>1, <1>2, NoFrames DEF IInv, InServiceIsHandled, Served, Uncounted, Ticking
<1>3. CASE frames # << >>
  <2>1. Top.phase = "sleep"
    BY <1>3 DEF IInv, Flag
  <2>2. ~IrqFrame(Top) /\ Len(frames) = 1 /\ Top = frames[1]
    BY <1>3, <2>1, Stack DEF IInv, Top
  <2>3. Served(frames) = {} /\ ~Uncounted
    BY <1>3, <2>1, <2>2, Stack DEF IInv
  <2> QED
    BY <1>1, <2>1, <2>2, <2>3 DEF IInv, InServiceIsHandled, Served
<1> QED
  BY <1>2, <1>3

(* An interrupt's frame on top of the code it may interrupt. *)
LEMMA PushIrq ==
  ASSUME IInv, interrupts, NEW v \in KernelVectors, NEW sp \in BOOLEAN,
         Push(v, "entered", sp), ~interrupts',
         UNCHANGED <<boot, pc, iteration>>
  PROVE  /\ frames' \in Seq(Frame) /\ frames' # << >>
         /\ (FrameKinds /\ Nesting /\ Flag)'
         /\ Top'.vector = v /\ Top'.saved /\ IrqFrame(Top')
         /\ Served(frames') = IF sp THEN {} ELSE {LineOf(v)}
         /\ Uncounted' <=> v = 32
<1> DEFINE f == [vector |-> v, phase |-> "entered", spurious |-> sp, saved |-> interrupts]
<1>1. f \in Frame /\ IrqFrame(f) /\ v \in Vectors
  BY VectorFacts DEF Frame, IrqFrame, IInv, Typed
<1>2. f.vector = v /\ f.phase = "entered" /\ f.spurious = sp /\ f.saved
  OBVIOUS
<1>3. frames' = Append(frames, f) /\ frames \in Seq(Frame)
  BY DEF Push, IInv, Typed
<1> HIDE DEF f
<1>4. /\ frames' \in Seq(Frame) /\ frames' # << >>
      /\ Len(frames') = Len(frames) + 1 /\ DOMAIN frames' = 1 .. Len(frames) + 1
      /\ frames'[Len(frames) + 1] = f
      /\ \A i \in 1 .. Len(frames) : frames'[i] = frames[i]
  BY <1>1, <1>3, PushFrame
<1>5. Top' = f
  BY <1>4 DEF Top
<1>6. frames = << >> \/ (Len(frames) = 1 /\ ~IrqFrame(frames[1]) /\ frames[1].phase = "sleep")
  BY Interruptible
<1>7. Len(frames) = 0 \/ Len(frames) = 1
  BY <1>6
<1>8. FrameKinds'
  <2> SUFFICES ASSUME NEW i \in DOMAIN frames'
               PROVE  IF IrqFrame(frames'[i])
                      THEN frames'[i].vector \in KernelVectors /\ frames'[i].phase # "sleep"
                      ELSE boot' = "run" /\ frames'[i].phase # "eoi"
    BY DEF FrameKinds, IrqFrame
  <2>1. CASE i = Len(frames) + 1
    BY <1>1, <1>2, <1>4, <2>1
  <2>2. CASE i \in 1 .. Len(frames)
    BY <1>3, <1>4, <2>2 DEF IInv, FrameKinds
  <2> QED
    BY <1>4, <1>7, <2>1, <2>2
<1>9. Nesting'
  <2>1. CASE frames = << >>
    <3>1. Len(frames') = 1 /\ frames'[1] = f
      BY <1>4, <2>1
    <3> QED
      BY <1>2, <1>4, <2>1, <3>1 DEF IInv, Nesting
  <2>2. CASE Len(frames) = 1
    <3>1. Len(frames') = 2 /\ frames'[1] = frames[1] /\ frames'[2] = f
      BY <1>4, <2>2
    <3> QED
      BY <1>1, <1>4, <1>6, <2>2, <3>1 DEF IInv, Nesting, IrqFrame
  <2> QED
    BY <1>6, <2>1, <2>2
<1>10. Flag'
  BY <1>1, <1>2, <1>5 DEF Flag, IrqFrame
<1>11. /\ Served(frames') = IF sp THEN {} ELSE {LineOf(v)}
       /\ Ticking(frames') <=> v = 32
  <2>1. Len(frames') = 1 \/ (Len(frames') = 2 /\ ~IrqFrame(frames'[1]))
    BY <1>4, <1>6, <1>7
  <2>2. f = frames'[Len(frames')]
    BY <1>4
  <2> QED
    BY <1>1, <1>2, <1>4, <2>1, <2>2, Innermost
<1> QED
  BY <1>1, <1>2, <1>4, <1>5, <1>8, <1>9, <1>10, <1>11 DEF Uncounted, Ticking

(* A call's frame on top of the shell; one that sleeps leaves "idle". *)
LEMMA PushCall ==
  ASSUME IInv, frames = << >>, boot = "run", NEW p \in {"entered", "iret", "sleep"},
         Push(SYSCALL, p, FALSE), ~interrupts',
         UNCHANGED boot, pc' = "idle" <=> p # "sleep", iteration' = 0 \/ pc' = "idle"
  PROVE  /\ frames' \in Seq(Frame) /\ frames' # << >>
         /\ (FrameKinds /\ Nesting /\ Flag)'
         /\ Top' = frames'[1] /\ ~IrqFrame(Top') /\ frames'[1].saved = interrupts
         /\ Served(frames') = {} /\ ~Uncounted'
<1> DEFINE f == [vector |-> SYSCALL, phase |-> p, spurious |-> FALSE, saved |-> interrupts]
<1>1. f \in Frame /\ ~IrqFrame(f)
  BY VectorFacts DEF Frame, IrqFrame, IInv, Typed
<1>2. f.vector = SYSCALL /\ f.phase = p /\ f.saved = interrupts
  OBVIOUS
<1>3. frames' = Append(frames, f) /\ frames \in Seq(Frame) /\ Len(frames) = 0
  BY DEF Push, IInv, Typed
<1> HIDE DEF f
<1>4. /\ frames' \in Seq(Frame) /\ frames' # << >>
      /\ Len(frames') = 1 /\ DOMAIN frames' = {1} /\ frames'[1] = f
  BY <1>1, <1>3, PushFrame
<1>5. Top' = f
  BY <1>4 DEF Top
<1>6. FrameKinds'
  <2>1. \A i \in DOMAIN frames' : frames'[i] = f
    BY <1>4
  <2> QED
    BY <1>1, <1>2, <2>1 DEF FrameKinds, IrqFrame
<1>7. Nesting'
  BY <1>2, <1>4 DEF Nesting
<1>8. Flag'
  <2>1. Top'.phase # "sleep" => ~interrupts'
    OBVIOUS
  <2>2. ~IrqFrame(Top)'
    BY <1>1, <1>5 DEF IrqFrame
  <2>3. ~(pc' # "idle" /\ iteration' > 0)
    OBVIOUS
  <2> QED
    BY <2>1, <2>2, <2>3 DEF Flag
<1>9. Served(frames') = {} /\ ~Ticking(frames')
  BY <1>1, <1>2, <1>4, Innermost DEF IrqFrame, SYSCALL
<1> QED
  BY <1>1, <1>2, <1>4, <1>5, <1>6, <1>7, <1>8, <1>9 DEF Uncounted, Ticking

(* A handler other than the sleep moves on: an interrupt's to its EOI or   *)
(* to its return, a call's to its return.                                  *)
LEMMA MoveOn ==
  ASSUME IInv, frames # << >>, Top.phase # "sleep", NEW p \in {"eoi", "iret"},
         p = "eoi" => IrqFrame(Top), Goto(p),
         UNCHANGED <<boot, pc, iteration, interrupts>>
  PROVE  /\ frames' \in Seq(Frame) /\ frames' # << >>
         /\ (FrameKinds /\ Nesting /\ Flag)'
         /\ Top'.vector = Top.vector /\ Top'.saved = Top.saved
         /\ frames'[1].saved = frames[1].saved
         /\ Served(frames') = IF p = "eoi" /\ ~Top.spurious THEN {LineOf(Top.vector)} ELSE {}
         /\ ~Uncounted'
<1>1. /\ frames \in Seq(Frame) /\ frames' = [frames EXCEPT ![Len(frames)].phase = p]
      /\ p \in {"entered", "eoi", "iret", "sleep"}
  BY DEF Goto, IInv, Typed
<1>2. /\ frames' \in Seq(Frame) /\ frames' # << >>
      /\ Len(frames') = Len(frames) /\ DOMAIN frames' = DOMAIN frames
      /\ frames'[Len(frames)].phase = p
      /\ frames'[Len(frames)].vector = frames[Len(frames)].vector
      /\ frames'[Len(frames)].spurious = frames[Len(frames)].spurious
      /\ frames'[Len(frames)].saved = frames[Len(frames)].saved
      /\ \A i \in 1 .. Len(frames) - 1 : frames'[i] = frames[i]
  BY <1>1, MoveFrame
<1>3. /\ Len(frames) \in {1, 2} /\ DOMAIN frames = 1 .. Len(frames)
      /\ Len(frames) = 2 => ~IrqFrame(frames[1]) /\ frames[1].phase = "sleep" /\ IrqFrame(Top)
  BY Stack DEF IInv
<1>4. /\ Top'.phase = p /\ Top'.vector = Top.vector /\ Top'.saved = Top.saved
      /\ Top'.spurious = Top.spurious /\ Top' = frames'[Len(frames')]
  BY <1>2 DEF Top
<1>5. IrqFrame(Top') <=> IrqFrame(Top)
  BY <1>4 DEF IrqFrame
<1>6. FrameKinds'
  <2> SUFFICES ASSUME NEW i \in DOMAIN frames'
               PROVE  IF IrqFrame(frames'[i])
                      THEN frames'[i].vector \in KernelVectors /\ frames'[i].phase # "sleep"
                      ELSE boot' = "run" /\ frames'[i].phase # "eoi"
    BY DEF FrameKinds, IrqFrame
  <2>1. i \in DOMAIN frames
    BY <1>2
  <2>2. CASE i = Len(frames)
    BY <1>2, <1>4, <1>5, <2>1, <2>2 DEF IInv, FrameKinds, IrqFrame, Top
  <2>3. CASE i \in 1 .. Len(frames) - 1
    BY <1>2, <2>1, <2>3 DEF IInv, FrameKinds
  <2> QED
    BY <1>3, <2>1, <2>2, <2>3
<1>7. Nesting' /\ frames'[1].saved = frames[1].saved
  <2>1. CASE Len(frames) = 1
    <3>1. Top = frames[1] /\ Top' = frames'[1]
      BY <1>2, <1>4, <2>1 DEF Top
    <3>2. pc = "idle"
      BY <3>1 DEF IInv, Nesting
    <3> QED
      BY <1>2, <1>4, <2>1, <3>1, <3>2 DEF Nesting
  <2>2. CASE Len(frames) = 2
    <3>1. frames'[1] = frames[1] /\ frames'[2] = Top' /\ IrqFrame(frames[2])
      BY <1>2, <1>3, <1>4, <2>2 DEF Top
    <3>2. IrqFrame(frames'[2])
      BY <1>5, <3>1, <1>3, <2>2
    <3> QED
      BY <1>2, <1>3, <2>2, <3>1, <3>2 DEF IInv, Nesting, IrqFrame
  <2> QED
    BY <1>3, <2>1, <2>2
<1>8. Flag'
  BY <1>2, <1>4, <1>5 DEF IInv, Flag, IrqFrame
<1>9. /\ Served(frames') = IF p = "eoi" /\ ~Top.spurious THEN {LineOf(Top.vector)} ELSE {}
      /\ ~Ticking(frames')
  <2>1. Len(frames') = 1 \/ (Len(frames') = 2 /\ ~IrqFrame(frames'[1]))
    BY <1>2, <1>3
  <2>2. /\ Served(frames') = IF IrqFrame(Top') /\ ~Top'.spurious /\ Top'.phase \in {"entered", "eoi"}
                             THEN {LineOf(Top'.vector)} ELSE {}
        /\ Ticking(frames') <=> Top'.vector = 32 /\ Top'.phase = "entered"
    BY <1>2, <1>4, <2>1, Innermost
  <2> QED
    BY <1>4, <1>5, <2>2
<1> QED
  BY <1>2, <1>4, <1>6, <1>7, <1>8, <1>9 DEF Uncounted, Ticking

(* An iret: back to start() or the shell, or to a sleep. *)
LEMMA PopKeeps ==
  ASSUME IInv, frames # << >>, Top.phase = "iret",
         interrupts' = Top.saved, frames' = Front(frames),
         UNCHANGED <<boot, pc, iteration>>
  PROVE  /\ frames' \in Seq(Frame)
         /\ (FrameKinds /\ Nesting /\ Flag)'
         /\ \/ frames' = << >> /\ Len(frames) = 1 /\ pc = "idle"
            \/ /\ frames' # << >> /\ Len(frames) = 2 /\ pc # "idle"
               /\ IrqFrame(Top) /\ ~IrqFrame(Top')
         /\ Served(frames) = {} /\ ~Uncounted
         /\ Served(frames') = {} /\ ~Uncounted'
<1>1. /\ frames' \in Seq(Frame) /\ Len(frames') = Len(frames) - 1
      /\ DOMAIN frames' = 1 .. Len(frames) - 1
      /\ \A i \in 1 .. Len(frames) - 1 : frames'[i] = frames[i]
  BY PopFrame DEF IInv, Typed
<1>2. /\ Len(frames) \in {1, 2}
      /\ Len(frames) = 2 => ~IrqFrame(frames[1]) /\ frames[1].phase = "sleep" /\ IrqFrame(Top)
      /\ Served(frames) = {} /\ ~Uncounted
  BY Stack DEF IInv
<1>3. CASE Len(frames) = 1
  <2>1. frames' = << >>
    BY <1>1, <1>3
  <2>2. Top = frames[1] /\ pc = "idle"
    BY <1>3 DEF Top, IInv, Nesting
  <2>3. Served(frames') = {} /\ ~Ticking(frames')
    BY <2>1, NoFrames
  <2> QED
    BY <1>1, <1>2, <1>3, <2>1, <2>2, <2>3 DEF FrameKinds, Nesting, Flag, Uncounted, Ticking
<1>4. CASE Len(frames) = 2
  <2>1. Len(frames') = 1 /\ frames' # << >> /\ frames'[1] = frames[1] /\ DOMAIN frames' = {1}
    <3>1. Len(frames) - 1 = 1 /\ 1 .. 1 = {1}
      BY <1>4
    <3>2. Len(frames') = 1 /\ DOMAIN frames' = {1} /\ frames'[1] = frames[1]
      BY <1>1, <3>1
    <3>3. frames' # << >>
      BY ONLY <3>2
    <3> QED
      BY <3>2, <3>3
  <2>2. Top' = frames'[1] /\ ~IrqFrame(Top') /\ Top'.phase = "sleep" /\ pc # "idle"
    BY <1>2, <1>4, <2>1 DEF Top, IInv, Nesting
  <2>3. FrameKinds'
    BY <1>2, <1>4, <2>1 DEF IInv, FrameKinds, IrqFrame
  <2>4. Nesting'
    BY <2>1, <2>2 DEF Nesting
  <2>5. Flag'
    <3>1. interrupts'
      BY <1>2, <1>4 DEF IInv, Flag
    <3> QED
      BY <2>2, <3>1 DEF Flag, IrqFrame
  <2>6. Served(frames') = {} /\ ~Ticking(frames')
    <3>1. Len(frames') = 1 /\ Top' = frames'[Len(frames')] /\ Top'.phase # "entered"
      BY <2>1, <2>2
    <3> QED
      BY <1>1, <2>1, <2>2, <3>1, Innermost
  <2> QED
    BY <1>1, <1>2, <1>4, <2>1, <2>2, <2>3, <2>4, <2>5, <2>6 DEF Uncounted, Ticking
<1> QED
  BY <1>2, <1>3, <1>4

--------------------------------------------------------------------------------
(* Action by action. *)

(* InServiceIsHandled compares the 8259 with what the frames serve. *)
LEMMA ServedIs == (InServiceIsHandled <=> isr = Served(frames))
BY DEF InServiceIsHandled, Served

(* A step that leaves the frames alone leaves the innermost one alone. *)
LEMMA FramesStay ==
  ASSUME frames' = frames
  PROVE  Top' = Top /\ (Uncounted' <=> Uncounted)
BY DEF Top, Uncounted

(* Devices only make requests. *)
LEMMA DeviceStep ==
  ASSUME IInv, Pulse \/ \E l \in Lines \ {0} : Raise(l)
  PROVE  IInv'
<1>1. /\ UNCHANGED <<s_ticks, interrupts, saved, pc, low, target_ticks, iteration, given_up, torn>>
      /\ UNCHANGED <<isr, imr, remapped, boot, tables, frames>>
      /\ irq0' \in BOOLEAN /\ irr' \subseteq Lines \ {0}
      /\ irq0' => irq0 \/ s_ticks + (IF Uncounted THEN 1 ELSE 0) < LastTick
  <2>1. CASE Pulse
    BY <2>1 DEF Pulse, Clock!Pulse, IInv, Typed, pic
  <2>2. CASE \E l \in Lines \ {0} : Raise(l)
    BY <2>2 DEF Raise, IInv, Typed, clock
  <2> QED
    BY <2>1, <2>2
<1>2. Typed'
  BY <1>1 DEF IInv, Typed, tables
<1>3. BootOrder' /\ Reading'
  BY <1>1 DEF IInv, BootOrder, Reading, tables
<1>4. (FrameKinds /\ Nesting)'
  BY <1>1 DEF IInv, FrameKinds, Nesting, IrqFrame
<1>5. Flag'
  BY <1>1, FramesStay DEF IInv, Flag, IrqFrame
<1>6. InServiceIsHandled'
  BY <1>1 DEF IInv, InServiceIsHandled, IrqFrame
<1>7. TicksLeft'
  BY <1>1, FramesStay DEF IInv, TicksLeft
<1> QED
  BY <1>2, <1>3, <1>4, <1>5, <1>6, <1>7 DEF IInv

(* What a delivery finds: a line the 8259 may offer, by a kernel vector. *)
LEMMA Offered ==
  ASSUME IInv, Deliverable
  PROVE  /\ interrupts /\ Min(Pending) \in Requested /\ Min(Pending) \in Lines
         /\ VectorOf(Min(Pending)) = 32 + Min(Pending) /\ VectorOf(7) = 39
         /\ VectorOf(Min(Pending)) \in KernelVectors /\ VectorOf(7) \in KernelVectors
<1>1. interrupts /\ Pending # {}
  BY DEF Deliverable
<1>2. Requested \subseteq Lines /\ Pending \subseteq Requested
  BY InterruptsAssumption DEF IInv, Typed, Requested, Pending
<1>3. Min(Pending) \in Pending
  BY <1>1, <1>2, MinIs
<1>4. remapped
  BY <1>1, Interruptible
<1>5. 7 \in Lines /\ Min(Pending) \in Lines /\ Min(Pending) \in Requested
  BY <1>2, <1>3, InterruptsAssumption
<1>6. VectorOf(Min(Pending)) = 32 + Min(Pending) /\ VectorOf(7) = 32 + 7
  BY <1>4 DEF VectorOf
<1>7. 32 + Min(Pending) \in KernelVectors /\ 32 + 7 \in KernelVectors /\ 32 + 7 = 39
  <2>1. PICK l \in Lines : l = 7
    BY <1>5
  <2>2. 32 + l \in KernelVectors /\ 32 + l = 39
    BY <2>1, VectorFacts
  <2>3. 32 + Min(Pending) \in KernelVectors
    BY <1>5, VectorFacts
  <2> QED
    BY ONLY <2>1, <2>2, <2>3
<1> QED
  BY ONLY <1>1, <1>5, <1>6, <1>7

(* A line's interrupt. *)
LEMMA DeliverStep ==
  ASSUME IInv, Deliver
  PROVE  IInv'
<1> DEFINE l == Min(Pending)
           v == VectorOf(l)
<1>1. /\ interrupts /\ l \in Lines /\ v \in KernelVectors /\ v = 32 + l
      /\ irq0' = (irq0 /\ l # 0) /\ irr' = irr \ {l} /\ isr' = isr \cup {l}
      /\ Push(v, "entered", FALSE) /\ interrupts' = FALSE
      /\ UNCHANGED <<s_ticks, saved, pc, low, target_ticks, iteration, given_up, torn>>
      /\ UNCHANGED <<imr, remapped, raised, boot, tables>>
      /\ l = 0 => irq0
  <2>1. Deliverable
    BY DEF Deliver
  <2>2. l = 0 => irq0
    BY <2>1, Offered DEF Requested, IInv, Typed
  <2> QED
    BY <2>1, <2>2, Offered DEF Deliver, FlagInHandler
<1> HIDE DEF l, v
<1>2. /\ frames' \in Seq(Frame) /\ frames' # << >> /\ (FrameKinds /\ Nesting /\ Flag)'
      /\ Served(frames') = {LineOf(v)} /\ (Uncounted' <=> v = 32)
  BY <1>1, PushIrq
<1>3. boot \notin Quiet /\ isr = {} /\ ~Uncounted
  BY <1>1, Interruptible
<1>4. Typed'
  <2>1. irq0' \in BOOLEAN /\ irr' \subseteq Lines \ {0} /\ isr' \subseteq Lines
    BY <1>1 DEF IInv, Typed
  <2> QED
    BY <1>1, <1>2, <2>1 DEF IInv, Typed, tables
<1>5. BootOrder' /\ Reading'
  BY <1>1, <1>3 DEF IInv, BootOrder, Reading, tables
<1>6. InServiceIsHandled'
  <2>1. isr' = Served(frames')
    BY <1>1, <1>2, <1>3, VectorFacts
  <2> QED
    BY <2>1 DEF InServiceIsHandled, Served, IrqFrame, LineOf
<1>7. TicksLeft'
  <2>1. CASE l = 0
    <3>1. s_ticks \in Nat /\ LastTick \in Nat /\ s_ticks < LastTick
      BY <1>1, <1>3, <2>1, InterruptsAssumption DEF IInv, Typed, TicksLeft
    <3>2. ~irq0' /\ Uncounted' /\ s_ticks' = s_ticks
      <4>1. irq0' => irq0 /\ l # 0
        BY <1>1
      <4>2. v = 32
        BY <1>1, <2>1
      <4> QED
        BY <1>1, <1>2, <2>1, <4>1, <4>2
    <3> QED
      BY <3>1, <3>2 DEF TicksLeft
  <2>2. CASE l # 0
    <3>1. ~Uncounted' /\ irq0' = irq0 /\ s_ticks' = s_ticks
      BY <1>1, <1>2, <2>2, VectorFacts DEF IInv, Typed
    <3> QED
      BY <1>3, <3>1 DEF IInv, TicksLeft
  <2> QED
    BY <2>1, <2>2
<1> QED
  BY <1>2, <1>4, <1>5, <1>6, <1>7 DEF IInv

(* A request withdrawn: line 7's vector, and nothing in service. *)
LEMMA SpuriousStep ==
  ASSUME IInv, NEW l \in Lines \ {0}, DeliverSpurious(l)
  PROVE  IInv'
<1> DEFINE v == VectorOf(7)
<1>1. /\ interrupts /\ v \in KernelVectors /\ v = 39
      /\ irr' = irr \ {l} /\ Push(v, "entered", TRUE) /\ interrupts' = FALSE
      /\ UNCHANGED <<s_ticks, irq0, saved, pc, low, target_ticks, iteration, given_up, torn>>
      /\ UNCHANGED <<isr, imr, remapped, raised, boot, tables>>
  BY Offered DEF DeliverSpurious, FlagInHandler
<1> HIDE DEF v
<1>2. /\ frames' \in Seq(Frame) /\ frames' # << >> /\ (FrameKinds /\ Nesting /\ Flag)'
      /\ Served(frames') = {} /\ ~Uncounted'
  <2>1. v # 32 /\ TRUE \in BOOLEAN
    BY <1>1
  <2> QED
    BY <1>1, <2>1, PushIrq, ZenonT(30)
<1>3. boot \notin Quiet /\ isr = {} /\ ~Uncounted
  BY <1>1, Interruptible
<1>4. Typed'
  <2>1. irr' \subseteq Lines \ {0}
    BY <1>1 DEF IInv, Typed
  <2> QED
    BY <1>1, <1>2, <2>1 DEF IInv, Typed, tables
<1>5. BootOrder' /\ Reading'
  BY <1>1, <1>3 DEF IInv, BootOrder, Reading, tables
<1>6. InServiceIsHandled'
  <2>1. isr' = Served(frames')
    BY <1>1, <1>2, <1>3
  <2> QED
    BY <2>1 DEF InServiceIsHandled, Served, IrqFrame, LineOf
<1>7. TicksLeft'
  BY <1>1, <1>2, <1>3 DEF IInv, TicksLeft
<1> QED
  BY <1>2, <1>4, <1>5, <1>6, <1>7 DEF IInv

(* Handlers run to their EOI, or to their return. *)
LEMMA HandlerStep ==
  ASSUME IInv, TickHandler \/ LineHandler \/ SysHandler
  PROVE  IInv'
<1>1. CASE TickHandler
  <2>1. /\ frames # << >> /\ Top.phase = "entered" /\ Top.vector = 32 /\ IrqFrame(Top)
        /\ Goto("eoi") /\ s_ticks' = s_ticks + 1
        /\ torn' = (torn \/ (pc = "high" /\ s_ticks' % Half = 0))
        /\ UNCHANGED <<irq0, interrupts, saved, pc, low, target_ticks, iteration>>
        /\ UNCHANGED <<irr, isr, remapped, boot, present, g_ISRHandlers>>
    BY <1>1 DEF TickHandler, In, IrqFrame, SYSCALL, pic, tables
  <2>2. /\ frames' \in Seq(Frame) /\ frames' # << >> /\ (FrameKinds /\ Nesting /\ Flag)'
        /\ Served(frames') = IF ~Top.spurious THEN {LineOf(Top.vector)} ELSE {}
        /\ ~Uncounted'
    BY <2>1, MoveOn
  <2>3. /\ Served(frames) = IF ~Top.spurious THEN {LineOf(Top.vector)} ELSE {}
        /\ Uncounted
    BY <2>1, Stack DEF IInv
  <2>4. Typed'
    BY <2>1, <2>2 DEF IInv, Typed
  <2>5. BootOrder'
    BY <2>1, <2>2 DEF IInv, BootOrder
  <2>6. InServiceIsHandled'
    <3>1. isr' = Served(frames')
      BY <2>1, <2>2, <2>3, ServedIs DEF IInv
    <3> QED
      BY <3>1 DEF InServiceIsHandled, Served, IrqFrame, LineOf
  <2>7. TicksLeft'
    BY <2>1, <2>2, <2>3 DEF IInv, TicksLeft
  <2>8. Reading'
    <3> SUFFICES ASSUME pc' = "high", ~torn' PROVE low' <= s_ticks' % Half
      BY DEF Reading
    <3>1. pc = "high" /\ ~torn /\ (s_ticks + 1) % Half # 0
      BY <2>1
    <3>2. low <= s_ticks % Half /\ s_ticks % Half <= (s_ticks + 1) % Half
      BY <3>1, NextLow DEF IInv, Typed, Reading
    <3>3. low \in Nat /\ s_ticks % Half \in Nat /\ (s_ticks + 1) % Half \in Nat
      BY InterruptsAssumption DEF IInv, Typed
    <3> QED
      BY <2>1, <3>2, <3>3
  <2> QED
    BY <2>2, <2>4, <2>5, <2>6, <2>7, <2>8 DEF IInv
<1>2. CASE LineHandler
  <2>1. /\ frames # << >> /\ Top.phase = "entered" /\ Top.vector # 32 /\ IrqFrame(Top)
        /\ Goto("eoi") /\ UNCHANGED <<clock, pic, boot, tables>>
    BY <1>2 DEF LineHandler, In, IrqFrame
  <2>2. /\ frames' \in Seq(Frame) /\ frames' # << >> /\ (FrameKinds /\ Nesting /\ Flag)'
        /\ Served(frames') = IF ~Top.spurious THEN {LineOf(Top.vector)} ELSE {}
        /\ ~Uncounted'
    BY <2>1, MoveOn DEF clock
  <2>3. /\ Served(frames) = IF ~Top.spurious THEN {LineOf(Top.vector)} ELSE {}
        /\ ~Uncounted
    BY <2>1, Stack DEF IInv
  <2>4. Typed'
    BY <2>1, <2>2 DEF IInv, Typed, clock, pic, tables
  <2>5. BootOrder' /\ Reading'
    BY <2>1, <2>2 DEF IInv, BootOrder, Reading, clock, pic, tables
  <2>6. InServiceIsHandled'
    <3>1. isr' = Served(frames')
      BY <2>1, <2>2, <2>3, ServedIs DEF IInv, pic
    <3> QED
      BY <3>1 DEF InServiceIsHandled, Served, IrqFrame, LineOf
  <2>7. TicksLeft'
    BY <2>1, <2>2, <2>3 DEF IInv, TicksLeft, clock
  <2> QED
    BY <2>2, <2>4, <2>5, <2>6, <2>7 DEF IInv
<1>3. CASE SysHandler
  <2>1. /\ frames # << >> /\ Top.phase = "entered" /\ ~IrqFrame(Top) /\ Top.vector # 32
        /\ Goto("iret") /\ UNCHANGED <<clock, pic, boot, tables>>
    BY <1>3 DEF SysHandler, In, IrqFrame, SYSCALL
  <2>2. /\ frames' \in Seq(Frame) /\ frames' # << >> /\ (FrameKinds /\ Nesting /\ Flag)'
        /\ Served(frames') = {} /\ ~Uncounted'
    BY <2>1, MoveOn DEF clock
  <2>3. Served(frames) = {} /\ ~Uncounted
    BY <2>1, Stack DEF IInv
  <2>4. Typed'
    BY <2>1, <2>2 DEF IInv, Typed, clock, pic, tables
  <2>5. BootOrder' /\ Reading'
    BY <2>1, <2>2 DEF IInv, BootOrder, Reading, clock, pic, tables
  <2>6. InServiceIsHandled'
    <3>1. isr' = Served(frames')
      BY <2>1, <2>2, <2>3, ServedIs DEF IInv, pic
    <3> QED
      BY <3>1 DEF InServiceIsHandled, Served, IrqFrame, LineOf
  <2>7. TicksLeft'
    BY <2>1, <2>2, <2>3 DEF IInv, TicksLeft, clock
  <2> QED
    BY <2>2, <2>4, <2>5, <2>6, <2>7 DEF IInv
<1> QED
  BY <1>1, <1>2, <1>3

(* An EOI retires the line of the interrupt it is for, if that is one. *)
LEMMA EoiStep ==
  ASSUME IInv, Eoi
  PROVE  IInv'
<1>1. /\ frames # << >> /\ Top.phase = "eoi" /\ Goto("iret")
      /\ isr' = IF isr = {} THEN isr ELSE isr \ {Min(isr)}
      /\ UNCHANGED <<clock, irr, imr, remapped, raised, boot, tables>>
  BY DEF Eoi, In
<1>2. /\ frames' \in Seq(Frame) /\ frames' # << >> /\ (FrameKinds /\ Nesting /\ Flag)'
      /\ Served(frames') = {} /\ ~Uncounted'
  BY <1>1, MoveOn DEF clock
<1>3. /\ IrqFrame(Top) /\ Top.vector \in KernelVectors
      /\ Served(frames) = IF ~Top.spurious THEN {LineOf(Top.vector)} ELSE {}
      /\ ~Uncounted
  BY <1>1, Stack DEF IInv
<1>4. isr' = {}
  <2>1. isr = Served(frames)
    BY ServedIs DEF IInv
  <2>2. LineOf(Top.vector) \in Lines
    BY <1>3, VectorFacts
  <2>3. Min({LineOf(Top.vector)}) = LineOf(Top.vector)
    BY <2>2, MinOne
  <2> QED
    BY <1>1, <1>3, <2>1, <2>3
<1>5. Typed'
  BY <1>1, <1>2, <1>4 DEF IInv, Typed, clock, tables
<1>6. BootOrder' /\ Reading'
  BY <1>1, <1>2 DEF IInv, BootOrder, Reading, clock, tables
<1>7. InServiceIsHandled'
  <2>1. isr' = Served(frames')
    BY <1>2, <1>4
  <2> QED
    BY <2>1 DEF InServiceIsHandled, Served, IrqFrame, LineOf
<1>8. TicksLeft'
  BY <1>1, <1>2, <1>3 DEF IInv, TicksLeft, clock
<1> QED
  BY <1>2, <1>5, <1>6, <1>7, <1>8 DEF IInv

(* The return gives the flag back as it was. *)
LEMMA IretStep ==
  ASSUME IInv, Iret
  PROVE  IInv'
<1>1. /\ frames # << >> /\ Top.phase = "iret" /\ interrupts' = Top.saved
      /\ frames' = Front(frames)
      /\ UNCHANGED <<s_ticks, irq0, saved, pc, low, target_ticks, iteration, given_up, torn>>
      /\ UNCHANGED <<pic, boot, tables>>
  BY DEF Iret, In
<1>2. /\ frames' \in Seq(Frame) /\ (FrameKinds /\ Nesting /\ Flag)'
      /\ Served(frames) = {} /\ ~Uncounted
      /\ Served(frames') = {} /\ ~Uncounted'
  BY <1>1, PopKeeps
<1>3. boot \notin Quiet /\ Top.saved \in BOOLEAN
  BY <1>1, Stack DEF IInv, BootOrder, Frame
<1>4. Typed'
  BY <1>1, <1>2, <1>3 DEF IInv, Typed, pic, tables
<1>5. BootOrder' /\ Reading'
  BY <1>1, <1>3 DEF IInv, BootOrder, Reading, pic, tables
<1>6. InServiceIsHandled'
  <2>1. isr' = Served(frames')
    BY <1>1, <1>2, ServedIs DEF IInv, pic
  <2> QED
    BY <2>1 DEF InServiceIsHandled, Served, IrqFrame, LineOf
<1>7. TicksLeft'
  BY <1>1, <1>2 DEF IInv, TicksLeft
<1> QED
  BY <1>2, <1>4, <1>5, <1>6, <1>7 DEF IInv

(* The shell, or start(), alone on the CPU. *)
LEMMA Alone ==
  ASSUME IInv, Main
  PROVE  frames = << >> /\ pc = "idle" /\ isr = {} /\ ~Uncounted /\ Served(frames) = {}
BY NoFrames, ServedIs DEF IInv, Main, Nesting, Uncounted

(* int 0x80: a call that is answered at once, one with a handler, or a     *)
(* sleep.                                                                  *)
LEMMA CallStep ==
  ASSUME IInv,
         \/ \E n \in Numbers : Int80(n)
         \/ \E ms \in Delays : Int80Sleep(ms)
  PROVE  IInv'
<1>1. CASE \E n \in Numbers : Int80(n)
  <2>1. PICK p \in {"entered", "iret"} :
          /\ Main /\ boot = "run" /\ Push(SYSCALL, p, FALSE) /\ interrupts' = FALSE
          /\ UNCHANGED <<s_ticks, irq0, saved, pc, low, target_ticks, iteration, given_up, torn>>
          /\ UNCHANGED <<pic, boot, tables>>
    BY <1>1 DEF Int80, FlagInHandler
  <2>2. frames = << >> /\ pc = "idle" /\ isr = {} /\ ~Uncounted
    BY <2>1, Alone
  <2>3. /\ frames' \in Seq(Frame) /\ frames' # << >> /\ (FrameKinds /\ Nesting /\ Flag)'
        /\ Served(frames') = {} /\ ~Uncounted'
    BY <2>1, <2>2, PushCall
  <2>4. Typed'
    BY <2>1, <2>3 DEF IInv, Typed, pic, tables
  <2>5. BootOrder' /\ Reading'
    BY <2>1, <2>2 DEF IInv, BootOrder, Reading, pic, tables, Quiet, Unmapped
  <2>6. InServiceIsHandled'
    <3>1. isr' = Served(frames')
      BY <2>1, <2>2, <2>3 DEF pic
    <3> QED
      BY <3>1 DEF InServiceIsHandled, Served, IrqFrame, LineOf
  <2>7. TicksLeft'
    BY <2>1, <2>2, <2>3 DEF IInv, TicksLeft
  <2> QED
    BY <2>3, <2>4, <2>5, <2>6, <2>7 DEF IInv
<1>2. ASSUME NEW ms \in Delays, Int80Sleep(ms), ms # 0
      PROVE  IInv'
  <2>1. /\ Main /\ boot = "run" /\ Push(SYSCALL, "sleep", FALSE)
        /\ interrupts' = FALSE /\ torn' = FALSE /\ target_ticks' = s_ticks + ms
        /\ iteration' = 0 /\ pc' = "low" /\ saved' = interrupts
        /\ UNCHANGED <<s_ticks, irq0, low, pic, boot, tables>>
    BY <1>2 DEF Int80Sleep, Clock!Sleep
  <2>2. frames = << >> /\ isr = {} /\ ~Uncounted /\ ms \in Nat
    BY <2>1, Alone, InterruptsAssumption
  <2>3. /\ frames' \in Seq(Frame) /\ frames' # << >> /\ (FrameKinds /\ Nesting /\ Flag)'
        /\ Served(frames') = {} /\ ~Uncounted'
    BY <2>1, <2>2, PushCall
  <2>4. Typed'
    <3>1. target_ticks' \in Nat
      BY <2>1, <2>2 DEF IInv, Typed
    <3> QED
      BY <2>1, <2>3, <3>1 DEF IInv, Typed, pic, tables
  <2>5. BootOrder' /\ Reading'
    BY <2>1, <2>2 DEF IInv, BootOrder, Reading, pic, tables, Quiet, Unmapped
  <2>6. InServiceIsHandled'
    <3>1. isr' = Served(frames')
      BY <2>1, <2>2, <2>3 DEF pic
    <3> QED
      BY <3>1 DEF InServiceIsHandled, Served, IrqFrame, LineOf
  <2>7. TicksLeft'
    BY <2>1, <2>2, <2>3 DEF IInv, TicksLeft
  <2> QED
    BY <2>3, <2>4, <2>5, <2>6, <2>7 DEF IInv
<1>3. ASSUME Int80Sleep(0)
      PROVE  IInv'
  <2>1. /\ torn' = FALSE
        /\ UNCHANGED <<interrupts, saved, pc, target_ticks, iteration, s_ticks, irq0, low>>
        /\ UNCHANGED <<pic, boot, tables, frames>>
    BY <1>3 DEF Int80Sleep, Clock!Sleep
  <2>2. frames = << >> /\ pc = "idle" /\ isr = {}
    BY <1>3, Alone DEF Int80Sleep
  <2>3. Typed'
    BY <2>1 DEF IInv, Typed, pic, tables
  <2>4. BootOrder' /\ Reading'
    BY <2>1, <2>2 DEF IInv, BootOrder, Reading, pic, tables
  <2>5. (FrameKinds /\ Nesting /\ Flag)'
    BY <2>1, <2>2 DEF IInv, FrameKinds, Nesting, Flag
  <2>6. InServiceIsHandled' /\ TicksLeft'
    BY <2>1, <2>2, FramesStay DEF IInv, InServiceIsHandled, TicksLeft, pic, IrqFrame
  <2> QED
    BY <2>3, <2>4, <2>5, <2>6 DEF IInv
<1> QED
  BY <1>1, <1>2, <1>3

(* A step of sys_handler_sleep: it alone runs with the flag set, and its   *)
(* return leaves no frame behind.                                          *)
LEMMA SleepingStep ==
  ASSUME IInv, SleepStep
  PROVE  IInv'
<1>1. /\ frames # << >> /\ Top.phase = "sleep" /\ Clock!Handler
      /\ frames' = IF pc' = "idle" THEN Front(frames) ELSE frames
      /\ UNCHANGED <<pic, boot, tables>>
  BY DEF SleepStep, In
<1>2. /\ Len(frames) = 1 /\ ~IrqFrame(Top) /\ boot = "run"
      /\ Served(frames) = {} /\ ~Uncounted
  BY <1>1, Stack DEF IInv
<1>3. /\ pc # "idle" /\ isr = {} /\ frames[1] = Top
      /\ iteration > 0 => interrupts
  <2>1. frames[1] = Top
    BY <1>2 DEF Top
  <2>2. pc # "idle" /\ isr = {}
    BY <1>1, <1>2, <2>1, ServedIs DEF IInv, Nesting
  <2>3. iteration > 0 => interrupts
    BY <1>1, <1>2, <2>2 DEF IInv, Flag
  <2> QED
    BY <2>1, <2>2, <2>3
<1>4. CASE pc' = "idle"
  <2>1. frames' = << >>
    BY <1>1, <1>2, <1>4, PopFrame DEF IInv, Typed
  <2>2. /\ interrupts' = saved /\ saved' = FALSE /\ low' = 0 /\ target_ticks' = 0 /\ iteration' = 0
        /\ UNCHANGED <<s_ticks, irq0, torn>>
    BY <1>1, <1>3, <1>4 DEF Clock!Handler, Clock!LoadLow, Clock!LoadHigh, Clock!Wait, Clock!Return
  <2>3. FrameKinds' /\ Nesting' /\ Flag' /\ Reading'
    BY <1>4, <2>1 DEF FrameKinds, Nesting, Flag, Reading
  <2>4. BootOrder'
    BY <1>1, <1>2 DEF IInv, BootOrder, pic, tables, Quiet, Unmapped
  <2>5. InServiceIsHandled' /\ ~Uncounted'
    <3>1. isr' = Served(frames') /\ ~Ticking(frames')
      BY <1>1, <1>3, <2>1, NoFrames DEF pic
    <3> QED
      BY <3>1 DEF InServiceIsHandled, Served, IrqFrame, LineOf, Uncounted, Ticking
  <2>6. TicksLeft'
    BY <1>2, <2>2, <2>5 DEF IInv, TicksLeft
  <2>7. Typed'
    <3>1. frames' \in Seq(Frame)
      BY <2>1
    <3> QED
      BY <1>1, <1>4, <2>2, <3>1 DEF IInv, Typed, pic, tables
  <2> QED
    BY <2>3, <2>4, <2>5, <2>6, <2>7 DEF IInv
<1>5. CASE pc' # "idle"
  <2>1. /\ frames' = frames /\ Top' = Top /\ ~Uncounted'
    BY <1>1, <1>2, <1>5, FramesStay
  <2>2. UNCHANGED <<s_ticks, irq0, target_ticks>> /\ pc' \in {"low", "high", "wait"}
    BY <1>1, <1>5 DEF Clock!Handler, Clock!LoadLow, Clock!LoadHigh, Clock!Wait, Clock!Return
  <2>3. FrameKinds' /\ Nesting'
    BY <1>1, <1>2, <1>3, <1>5, <2>1 DEF IInv, FrameKinds, Nesting, IrqFrame
  <2>4. /\ low' \in Nat /\ iteration' \in Nat /\ interrupts' \in BOOLEAN
        /\ saved' \in BOOLEAN /\ torn' \in BOOLEAN
        /\ iteration' > 0 => interrupts'
        /\ pc' = "high" => low' = s_ticks % Half
    <3>1. CASE Clock!LoadLow
      <4>1. s_ticks % Half \in Nat
        BY InterruptsAssumption DEF IInv, Typed
      <4> QED
        BY <1>3, <3>1, <4>1 DEF IInv, Typed, Clock!LoadLow
    <3>2. CASE Clock!LoadHigh
      <4>1. pc' = "wait" /\ UNCHANGED <<interrupts, saved, low, iteration, torn>>
        BY <1>5, <3>2 DEF Clock!LoadHigh, Clock!Return
      <4> QED
        BY <1>3, <4>1 DEF IInv, Typed
    <3>3. CASE Clock!Wait
      <4>1. /\ pc' = "low" /\ interrupts' = TRUE /\ iteration' = iteration + 1
            /\ UNCHANGED <<saved, low, torn>>
        BY <1>5, <3>3 DEF Clock!Wait, Clock!Return
      <4> QED
        BY <4>1 DEF IInv, Typed
    <3> QED
      BY <1>1, <3>1, <3>2, <3>3 DEF Clock!Handler
  <2>5. Flag'
    <3>1. Top'.phase = "sleep" /\ ~IrqFrame(Top')
      BY <1>1, <1>2, <2>1 DEF IrqFrame
    <3> QED
      BY <2>4, <3>1 DEF Flag, IrqFrame
  <2>6. Reading'
    BY <2>2, <2>4, InterruptsAssumption DEF IInv, Typed, Reading
  <2>7. BootOrder' /\ TicksLeft'
    BY <1>1, <1>2, <2>1, <2>2 DEF IInv, BootOrder, TicksLeft, pic, tables, Quiet, Unmapped
  <2>8. InServiceIsHandled'
    BY <1>1, <2>1 DEF IInv, InServiceIsHandled, pic, IrqFrame
  <2>9. Typed'
    BY <1>1, <2>1, <2>2, <2>4 DEF IInv, Typed, pic, tables
  <2> QED
    BY <2>3, <2>5, <2>6, <2>7, <2>8, <2>9 DEF IInv
<1> QED
  BY <1>4, <1>5

(* `interrupt` and `panic` set the flag, of the shell and for good.        *)
LEMMA CommandStep ==
  ASSUME IInv, Panic \/ \E on \in BOOLEAN : cmd_interrupt(on)
  PROVE  IInv'
<1>1. /\ Main /\ boot = "run" /\ boot' \in {"run", "halted"} /\ interrupts' \in BOOLEAN
      /\ UNCHANGED <<s_ticks, irq0, saved, pc, low, target_ticks, iteration, given_up, torn>>
      /\ UNCHANGED <<pic, tables, frames>>
  BY DEF Panic, cmd_interrupt, Clock!SetInterrupts
<1>2. frames = << >> /\ pc = "idle" /\ isr = {}
  BY <1>1, Alone
<1>3. Typed'
  BY <1>1 DEF IInv, Typed, pic, tables, Stages
<1>4. BootOrder' /\ Reading'
  BY <1>1, <1>2 DEF IInv, BootOrder, Reading, pic, tables, Quiet, Unmapped, GateOpen
<1>5. (FrameKinds /\ Nesting /\ Flag)'
  BY <1>1, <1>2 DEF FrameKinds, Nesting, Flag
<1>6. InServiceIsHandled' /\ TicksLeft'
  BY <1>1, <1>2, FramesStay DEF IInv, InServiceIsHandled, TicksLeft, pic, IrqFrame
<1> QED
  BY <1>3, <1>4, <1>5, <1>6 DEF IInv

(* No step of start() has a frame over it: what its steps do to the        *)
(* tables, the masks and the flag is all there is to show.                 *)
LEMMA BootKeeps ==
  ASSUME IInv, Main, boot \notin {"run", "halted"}, boot' \in Stages,
         UNCHANGED <<s_ticks, saved, pc, low, target_ticks, iteration, given_up, torn, frames>>,
         irq0' = irq0 \/ irq0' = FALSE, interrupts' \in BOOLEAN,
         irr' = irr \/ irr' = {}, isr' = isr \/ isr' = {}, remapped' \in BOOLEAN,
         g_ISRHandlers' \in [Vectors -> {"NULL", "i686_IRQ_Handler", "syscall_handler"}],
         BootOrder'
  PROVE  IInv'
<1>1. frames = << >> /\ frames' = << >> /\ pc = "idle" /\ isr = {} /\ ~Uncounted /\ ~Uncounted'
  BY Alone, FramesStay
<1>2. Typed'
  BY DEF IInv, Typed
<1>3. (FrameKinds /\ Nesting /\ Flag)'
  BY <1>1 DEF FrameKinds, Nesting, Flag
<1>4. InServiceIsHandled'
  <2>1. isr' = {} /\ Served(frames') = {}
    BY <1>1, NoFrames
  <2> QED
    BY <2>1 DEF InServiceIsHandled, Served, IrqFrame, LineOf
<1>5. TicksLeft' /\ Reading'
  BY <1>1 DEF IInv, TicksLeft, Reading
<1> QED
  BY <1>2, <1>3, <1>4, <1>5 DEF IInv

(* The steps of start(): the order in which they fill the tables is kept.  *)
LEMMA BootStep ==
  ASSUME IInv, Boot
  PROVE  IInv'
<1> USE DEF Step
<1>0. Typed /\ BootOrder /\ frames \in Seq(Frame)
  BY DEF IInv, Typed
<1> USE DEF BootOrder, Stages, Quiet, Unmapped, GateOpen
<1>1. CASE Gates
  <2>1. BootOrder'
    BY <1>0, <1>1 DEF Gates, clock, pic
  <2> QED
    BY <1>1, <2>1, BootKeeps DEF Gates, clock, pic, IInv, Typed
<1>2. CASE Probe
  <2>1. BootOrder'
    BY <1>0, <1>2 DEF Probe, clock
  <2> QED
    BY <1>2, <2>1, BootKeeps DEF Probe, clock, IInv, Typed
<1>3. CASE Configure
  <2>1. BootOrder'
    BY <1>0, <1>3 DEF Configure
  <2> QED
    BY <1>3, <2>1, BootKeeps DEF Configure, IInv, Typed
<1>4. CASE RegisterLines
  <2>1. BootOrder'
    BY <1>0, <1>4, VectorFacts DEF RegisterLines, clock, pic, KernelVectors
  <2>2. g_ISRHandlers' \in [Vectors -> {"NULL", "i686_IRQ_Handler", "syscall_handler"}]
    BY <1>0, <1>4 DEF RegisterLines, Typed
  <2> QED
    BY <1>4, <2>1, <2>2, BootKeeps DEF RegisterLines, clock, pic, IInv, Typed
<1>5. CASE Enable
  <2>1. BootOrder'
    BY <1>0, <1>5 DEF Enable, Clock!SetInterrupts, pic, tables
  <2> QED
    BY <1>5, <2>1, BootKeeps DEF Enable, Clock!SetInterrupts, pic, tables, IInv, Typed
<1>6. CASE RegisterTimer
  <2>1. BootOrder'
    BY <1>0, <1>6 DEF RegisterTimer, clock, pic
  <2> QED
    BY <1>6, <2>1, BootKeeps DEF RegisterTimer, clock, pic, IInv, Typed
<1>7. CASE RegisterSyscall
  <2>1. /\ g_ISRHandlers' \in [Vectors -> {"NULL", "i686_IRQ_Handler", "syscall_handler"}]
        /\ g_ISRHandlers'[SYSCALL] = "syscall_handler"
        /\ \A v \in KernelVectors : g_ISRHandlers'[v] = g_ISRHandlers[v]
    BY <1>0, <1>7, VectorFacts DEF RegisterSyscall, Typed
  <2>2. BootOrder'
    BY <1>0, <1>7, <2>1 DEF RegisterSyscall, clock, pic
  <2> QED
    BY <1>7, <2>1, <2>2, BootKeeps DEF RegisterSyscall, clock, pic, IInv, Typed
<1>8. CASE UnmaskKeyboard
  <2>1. BootOrder'
    BY <1>0, <1>8 DEF UnmaskKeyboard, clock, tables
  <2> QED
    BY <1>8, <2>1, BootKeeps DEF UnmaskKeyboard, clock, tables, IInv, Typed
<1>9. CASE RegisterKeyboard
  <2>1. BootOrder'
    BY <1>0, <1>9 DEF RegisterKeyboard, clock, pic
  <2> QED
    BY <1>9, <2>1, BootKeeps DEF RegisterKeyboard, clock, pic, IInv, Typed
<1>10. CASE Unmask(0, "unmask0", "unmask1")
  <2>1. BootOrder'
    BY <1>0, <1>10 DEF Unmask, clock
  <2> QED
    BY <1>10, <2>1, BootKeeps DEF Unmask, clock, IInv, Typed
<1>11. CASE Unmask(1, "unmask1", "run")
  <2>1. BootOrder'
    BY <1>0, <1>11 DEF Unmask, clock
  <2> QED
    BY <1>11, <2>1, BootKeeps DEF Unmask, clock, IInv, Typed
<1> QED
  BY <1>1, <1>2, <1>3, <1>4, <1>5, <1>6, <1>7, <1>8, <1>9, <1>10, <1>11 DEF Boot

--------------------------------------------------------------------------------
(* The inductive invariant, and what it gives. *)

(* The machine as the boot loader hands it over. *)
LEMMA IInvInit == Init => IInv
<1> SUFFICES ASSUME Init PROVE IInv
  OBVIOUS
<1>1. /\ s_ticks = 0 /\ irq0 = FALSE /\ interrupts = FALSE /\ saved = FALSE /\ torn = FALSE
      /\ pc = "idle" /\ low = 0 /\ target_ticks = 0 /\ iteration = 0
      /\ irr = {} /\ isr = {} /\ remapped = FALSE /\ boot = "gates" /\ frames = << >>
      /\ g_ISRHandlers = [v \in Vectors |-> "NULL"]
  BY DEF Init, Clock!Init
<1>2. Typed
  <2>1. frames \in Seq(Frame)
    BY <1>1
  <2> QED
    BY <1>1, <2>1 DEF Typed, Stages
<1>3. BootOrder
  BY <1>1 DEF BootOrder, Quiet, Unmapped, GateOpen
<1>4. FrameKinds /\ Nesting /\ Flag /\ Reading
  BY <1>1 DEF FrameKinds, Nesting, Flag, Reading
<1>5. InServiceIsHandled /\ ~Uncounted
  BY <1>1, NoFrames, ServedIs DEF Uncounted
<1>6. TicksLeft
  BY <1>1, <1>5, InterruptsAssumption DEF TicksLeft
<1> QED
  BY <1>2, <1>3, <1>4, <1>5, <1>6 DEF IInv

(* Every step keeps the invariant. *)
LEMMA IInvStep == IInv /\ [Next]_vars => IInv'
<1> SUFFICES ASSUME IInv, [Next]_vars PROVE IInv'
  OBVIOUS
<1>1. CASE UNCHANGED vars
  <2>1. Top' = Top /\ (Uncounted' <=> Uncounted)
    BY <1>1, FramesStay DEF vars
  <2>2. Typed' /\ BootOrder' /\ Reading'
    BY <1>1 DEF vars, clock, pic, tables, IInv, Typed, BootOrder, Reading
  <2>3. (FrameKinds /\ Nesting /\ Flag /\ InServiceIsHandled /\ TicksLeft)'
    BY <1>1, <2>1 DEF vars, clock, pic, tables, IInv, FrameKinds, Nesting, Flag,
                      InServiceIsHandled, TicksLeft, IrqFrame
  <2> QED
    BY <2>2, <2>3 DEF IInv
<1>2. CASE Next
  <2>1. CASE Pulse \/ \E l \in Lines \ {0} : Raise(l)
    BY <2>1, DeviceStep
  <2>2. CASE Deliver \/ \E l \in Lines \ {0} : DeliverSpurious(l)
    BY <2>2, DeliverStep, SpuriousStep
  <2>3. CASE TickHandler \/ LineHandler \/ SysHandler \/ Eoi \/ Iret
    BY <2>3, HandlerStep, EoiStep, IretStep
  <2>4. CASE SleepStep \/ Boot
    BY <2>4, SleepingStep, BootStep
  <2>5. CASE (\E n \in Numbers : Int80(n)) \/ (\E ms \in Delays : Int80Sleep(ms))
    BY <2>5, CallStep
  <2>6. CASE Panic \/ \E on \in BOOLEAN : cmd_interrupt(on)
    BY <2>6, CommandStep
  <2>7. CASE Halted
    BY <1>1, <2>7 DEF Halted
  <2> QED
    BY <1>2, <2>1, <2>2, <2>3, <2>4, <2>5, <2>6, <2>7 DEF Next, Cpu
<1> QED
  BY <1>1, <1>2

(* The invariant of the interrupt path, in every state of the boot and of  *)
(* the shell.                                                              *)
THEOREM InterruptsInvariant == Spec => []IInv
BY IInvInit, IInvStep, PTL DEF Spec

(* Every interrupt that isr_asm.asm pushes a frame for found a present     *)
(* gate, and i686_ISR_Handler finds a handler for its vector.              *)
THEOREM AlwaysDelivered == Spec => []DeliveredToHandler
<1>1. IInv => DeliveredToHandler
  <2> SUFFICES ASSUME IInv, NEW i \in DOMAIN frames
               PROVE  frames[i].vector \in present /\ g_ISRHandlers[frames[i].vector] # "NULL"
    BY DEF DeliveredToHandler
  <2>1. boot \notin Quiet /\ boot # "gates" /\ frames # << >>
    BY DEF IInv, BootOrder, Typed, Quiet, Unmapped
  <2>2. CASE IrqFrame(frames[i])
    BY <2>1, <2>2, VectorFacts DEF IInv, FrameKinds, BootOrder
  <2>3. CASE ~IrqFrame(frames[i])
    BY <2>3 DEF IInv, FrameKinds, BootOrder, GateOpen, IrqFrame
  <2> QED
    BY <2>2, <2>3
<1> QED
  BY InterruptsInvariant, <1>1, PTL

(* i8259_SendEndOfInterrupt, which names no line, retires the one whose    *)
(* handler has run, and none after a spurious interrupt: a line is in      *)
(* service exactly while its handler or its EOI is to come.                *)
THEOREM ServiceIsHandled == Spec => []InServiceIsHandled
BY InterruptsInvariant, PTL DEF IInv

(* Only a sleep is ever interrupted, and from its second iteration on it   *)
(* always is open to the clock it waits for.                               *)
THEOREM HandlersAreWhole == Spec => []HandlersRunWhole
<1>1. IInv => HandlersRunWhole
  <2> SUFFICES ASSUME IInv PROVE HandlersRunWhole
    OBVIOUS
  <2>1. ASSUME NEW i \in DOMAIN frames, i < Len(frames)
        PROVE  frames[i].phase = "sleep"
    <3>1. frames # << >> /\ DOMAIN frames = 1 .. Len(frames) /\ Len(frames) \in {1, 2}
      BY <2>1, Stack DEF IInv, Typed
    <3>2. i = 1 /\ Len(frames) = 2
      BY <2>1, <3>1
    <3> QED
      BY <3>2 DEF IInv, Nesting
  <2>2. pc # "idle" /\ iteration > 0 => interrupts \/ IrqFrame(Top)
    BY DEF IInv, Nesting, Flag
  <2> QED
    BY <2>1, <2>2 DEF HandlersRunWhole
<1> QED
  BY InterruptsInvariant, <1>1, PTL

--------------------------------------------------------------------------------
(* What the sleep promises. *)

(* Only the second load of sys_handler_sleep's reading ends a sleep that   *)
(* has not been given up.                                                  *)
LEMMA WhoReturns ==
  ASSUME IInv, [Next]_vars, pc = "high", pc' = "idle"
  PROVE  Clock!LoadHigh
<1>1. frames # << >>
  BY DEF IInv, Nesting
<1>2. CASE SleepStep
  BY <1>2 DEF SleepStep, Clock!Handler, Clock!LoadLow, Clock!Wait
<1>3. ~Main /\ pc # pc'
  BY <1>1 DEF Main
<1>4. CASE \E ms \in Delays : Int80Sleep(ms)
  BY <1>3, <1>4 DEF Int80Sleep
<1>5. CASE Boot
  BY <1>3, <1>5 DEF Boot, Step, Gates, Probe, Configure, RegisterLines, Enable, RegisterTimer,
                    RegisterSyscall, UnmaskKeyboard, RegisterKeyboard, Unmask
<1>6. CASE \/ Pulse \/ \E l \in Lines \ {0} : Raise(l) \/ DeliverSpurious(l)
           \/ Deliver \/ TickHandler \/ LineHandler \/ Eoi \/ Iret \/ SysHandler
  BY <1>3, <1>6 DEF Pulse, Clock!Pulse, Raise, DeliverSpurious, Deliver, TickHandler, LineHandler,
                    Eoi, Iret, SysHandler, clock
<1>7. CASE \/ \E n \in Numbers : Int80(n)
           \/ \E on \in BOOLEAN : cmd_interrupt(on)
           \/ Panic
  BY <1>3, <1>7 DEF Int80, cmd_interrupt, Panic
<1>8. CASE Halted \/ UNCHANGED vars
  BY <1>3, <1>8 DEF Halted, vars, clock
<1> QED
  BY <1>2, <1>4, <1>5, <1>6, <1>7, <1>8 DEF Next, Cpu

(* sys_handler_sleep returns no earlier than it was asked to, unless the   *)
(* carry from one half of s_ticks to the other fell between its two loads. *)
THEOREM NeverEarly == Spec => NotEarly
<1>1. IInv /\ [Next]_vars
        => [pc = "high" /\ pc' = "idle" /\ ~torn => s_ticks >= target_ticks]_(Clock!vars)
  <2> SUFFICES ASSUME IInv, [Next]_vars, pc = "high", pc' = "idle", ~torn
               PROVE  s_ticks >= target_ticks
    OBVIOUS
  <2>1. Clock!current_ticks >= target_ticks
    BY WhoReturns DEF Clock!LoadHigh
  <2>2. low <= s_ticks % Half
    BY DEF IInv, Reading
  <2>3. /\ s_ticks \in Nat /\ low \in Nat /\ target_ticks \in Nat /\ Half \in Nat /\ Half > 0
    BY InterruptsAssumption DEF IInv, Typed
  <2> DEFINE q == s_ticks \div Half
             r == s_ticks % Half
  <2>4. s_ticks = q * Half + r /\ q \in Int /\ r \in Int /\ q * Half \in Int
    BY <2>3
  <2>5. Clock!current_ticks = q * Half + low
    BY DEF Clock!current_ticks
  <2> HIDE DEF q
  <2>6. low <= r
    BY <2>2
  <2> HIDE DEF r
  <2> QED
    BY <2>1, <2>3, <2>4, <2>5, <2>6
<1> QED
  BY InterruptsInvariant, <1>1, PTL DEF Spec, NotEarly, Clock!NotEarly

--------------------------------------------------------------------------------
(* The path implements the timer. *)

(* The clock, its request, the torn reading and the flag, as module Sleep  *)
(* sees them: the terms that Timer puts in their place.                    *)
Ticks   == s_ticks + (IF Uncounted THEN 1 ELSE 0)
Request == irq0 /\ remapped
Carried == torn \/ (Uncounted /\ pc = "high" /\ (s_ticks + 1) % Half = 0)
Open    == IF frames = << >> THEN interrupts
           ELSE IF pc = "idle" THEN frames[1].saved
           ELSE IF IrqFrame(Top) THEN Top.saved ELSE interrupts

(* A step that changes none of these is no step of the timer.              *)
LEMMA TimerStutter ==
  ASSUME UNCHANGED <<Ticks, Request, Open, Carried>>,
         UNCHANGED <<saved, pc, low, target_ticks, iteration, given_up>>
  PROVE  UNCHANGED Timer!vars
BY DEF Timer!vars, Ticks, Request, Open, Carried

(* With no tick on its way the two clocks agree. *)
LEMMA SameClock ==
  ASSUME IInv, ~Uncounted
  PROVE  Ticks = s_ticks /\ (Carried <=> torn)
BY DEF Ticks, Carried, IInv, Typed

(* At the start nothing is on its way. *)
LEMMA TimerInit == Init => Timer!Init
<1> SUFFICES ASSUME Init PROVE Timer!Init
  OBVIOUS
<1>1. IInv /\ ~Uncounted /\ frames = << >> /\ remapped = FALSE
  BY IInvInit, NoFrames DEF Init, Uncounted
<1>2. s_ticks + (IF Uncounted THEN 1 ELSE 0) \in 0 .. LastTick
  BY <1>1, InterruptsAssumption DEF Init
<1>3. (irq0 /\ remapped) = FALSE
  BY <1>1
<1>4. (torn \/ (Uncounted /\ pc = "high" /\ (s_ticks + 1) % Half = 0)) = FALSE
  BY <1>1 DEF Init, Clock!Init
<1> QED
  BY <1>1, <1>2, <1>3, <1>4 DEF Init, Clock!Init, Timer!Init

(* Devices: the timer's pulse is one, once the 8259 is initialised. *)
LEMMA DeviceImplements ==
  ASSUME IInv, Pulse \/ \E l \in Lines \ {0} : Raise(l)
  PROVE  [Timer!Next]_(Timer!vars)
<1>1. /\ UNCHANGED <<s_ticks, interrupts, saved, pc, low, target_ticks, iteration, given_up, torn>>
      /\ UNCHANGED <<remapped, frames>>
  BY DEF Pulse, Raise, Clock!Pulse, pic, clock
<1>2. UNCHANGED <<Ticks, Open, Carried>>
  BY <1>1, FramesStay DEF Ticks, Open, Carried
<1>3. CASE Pulse /\ remapped
  <2>1. Request' = TRUE
    BY <1>1, <1>3 DEF Pulse, Clock!Pulse, Request
  <2> QED
    BY <1>1, <1>2, <2>1 DEF Timer!Next, Timer!Pulse, Ticks, Request, Open, Carried
<1>4. CASE Pulse /\ ~remapped
  <2>1. Request' = Request
    BY <1>1, <1>4 DEF Request
  <2> QED
    BY <1>1, <1>2, <2>1, TimerStutter
<1>5. CASE \E l \in Lines \ {0} : Raise(l)
  <2>1. Request' = Request
    BY <1>1, <1>5 DEF Raise, clock, Request
  <2> QED
    BY <1>1, <1>2, <2>1, TimerStutter
<1> QED
  BY <1>3, <1>4, <1>5

(* What the flag means over an interrupted piece of code: with an          *)
(* interrupt's frame on top, the one its iret gives back.                  *)
LEMMA OpenOver ==
  ASSUME IInv, interrupts, NEW v \in KernelVectors, NEW sp \in BOOLEAN,
         Push(v, "entered", sp), ~interrupts', UNCHANGED <<boot, pc, iteration>>
  PROVE  Open = TRUE /\ Open' = TRUE
<1>1. /\ frames' \in Seq(Frame) /\ frames' # << >> /\ Top'.saved /\ IrqFrame(Top')
      /\ (FrameKinds /\ Nesting /\ Flag)'
  BY PushIrq
<1>2. frames = << >> \/ (Len(frames) = 1 /\ ~IrqFrame(frames[1]) /\ frames[1].phase = "sleep")
  BY Interruptible
<1>3. interrupts = TRUE /\ frames \in Seq(Frame)
  BY DEF IInv, Typed
<1>4. Open = TRUE
  <2>1. CASE frames = << >>
    BY <1>3, <2>1 DEF Open
  <2>2. CASE Len(frames) = 1 /\ ~IrqFrame(frames[1]) /\ frames[1].phase = "sleep"
    <3>1. Top = frames[1] /\ frames # << >> /\ pc # "idle"
      BY <1>3, <2>2 DEF IInv, Nesting, Top
    <3> QED
      BY <1>3, <2>2, <3>1 DEF Open
  <2> QED
    BY <1>2, <2>1, <2>2
<1>5. frames'[1].saved \in BOOLEAN /\ Top'.saved \in BOOLEAN
  <2>1. Len(frames') \in Nat /\ Len(frames') > 0
    BY <1>1
  <2>2. frames'[1] \in Frame /\ Top' \in Frame
    BY <1>1, <2>1 DEF Top
  <2> QED
    BY <2>2 DEF Frame
<1>6. Open' = TRUE
  <2>1. CASE pc = "idle"
    <3>1. frames = << >>
      BY <1>2, <2>1 DEF IInv, Nesting
    <3>2. Len(frames') = 1
      BY <3>1 DEF Push
    <3>3. Top' = frames'[1]
      BY <3>2 DEF Top
    <3> QED
      BY <1>1, <1>5, <2>1, <3>3 DEF Open
  <2>2. CASE pc # "idle"
    BY <1>1, <1>5, <2>2 DEF Open, IrqFrame
  <2> QED
    BY <2>1, <2>2
<1> QED
  BY <1>4, <1>6

(* The delivery of line 0 is the timer's tick; the others it cannot see.   *)
LEMMA DeliverImplements ==
  ASSUME IInv, Deliver
  PROVE  [Timer!Next]_(Timer!vars)
<1> DEFINE l == Min(Pending)
           v == VectorOf(l)
<1>1. /\ interrupts /\ l \in Lines /\ v \in KernelVectors /\ v = 32 + l
      /\ irq0' = (irq0 /\ l # 0)
      /\ Push(v, "entered", FALSE) /\ ~interrupts'
      /\ UNCHANGED <<s_ticks, saved, pc, low, target_ticks, iteration, given_up, torn>>
      /\ UNCHANGED <<remapped, boot>>
      /\ l = 0 => irq0
  <2>1. Deliverable
    BY DEF Deliver
  <2>2. l = 0 => irq0
    BY <2>1, Offered DEF Requested, IInv, Typed
  <2> QED
    BY <2>1, <2>2, Offered DEF Deliver, FlagInHandler
<1> HIDE DEF l, v
<1>2. l \in Int
  <2>1. l \in 0 .. 7
    BY <1>1, VectorFacts
  <2> QED
    BY <2>1
<1>3. Uncounted' <=> v = 32
  BY <1>1, PushIrq
<1>4. remapped /\ ~Uncounted
  BY <1>1, Interruptible
<1>5. Open = TRUE /\ Open' = TRUE
  BY <1>1, OpenOver
<1>6. CASE l = 0
  <2>1. irq0 /\ irq0' = FALSE /\ Uncounted'
    <3>1. irq0 /\ irq0' = FALSE
      BY <1>1, <1>6
    <3>2. v = 32
      BY <1>1, <1>6
    <3> QED
      BY <1>3, <3>1, <3>2
  <2>2. Ticks = s_ticks /\ Ticks' = s_ticks + 1 /\ s_ticks < LastTick
    BY <1>1, <1>4, <2>1 DEF Ticks, IInv, TicksLeft, Typed
  <2>3. Request = TRUE /\ Request' = FALSE
    BY <1>1, <1>4, <2>1 DEF Request
  <2>4. Carried' = (Carried \/ (pc = "high" /\ Ticks' % Half = 0))
    <3>1. Carried <=> torn
      BY <1>4, SameClock
    <3>2. Carried' <=> torn \/ (pc = "high" /\ (s_ticks + 1) % Half = 0)
      BY <1>1, <2>1 DEF Carried
    <3> QED
      BY <2>2, <3>1, <3>2 DEF Carried
  <2>5. /\ Request /\ Open /\ Ticks < LastTick /\ Request' = FALSE /\ Ticks' = Ticks + 1
        /\ Open' = Open
    BY <1>5, <2>2, <2>3
  <2>6. Timer!Tick
    BY <1>1, <2>4, <2>5 DEF Timer!Tick, Ticks, Request, Open, Carried
  <2> QED
    BY <2>6 DEF Timer!Next
<1>7. CASE l # 0
  <2>1. ~Uncounted' /\ irq0' = irq0
    BY <1>1, <1>2, <1>3, <1>7 DEF IInv, Typed
  <2>2. UNCHANGED <<Ticks, Request, Carried>>
    BY <1>1, <1>4, <2>1 DEF Ticks, Request, Carried
  <2> QED
    BY <1>1, <1>5, <2>2, TimerStutter
<1> QED
  BY <1>6, <1>7

(* A spurious interrupt is none the timer sees.                            *)
LEMMA SpuriousImplements ==
  ASSUME IInv, NEW l \in Lines \ {0}, DeliverSpurious(l)
  PROVE  [Timer!Next]_(Timer!vars)
<1> DEFINE v == VectorOf(7)
<1>1. /\ interrupts /\ v \in KernelVectors /\ v # 32
      /\ Push(v, "entered", TRUE) /\ ~interrupts'
      /\ UNCHANGED <<s_ticks, irq0, saved, pc, low, target_ticks, iteration, given_up, torn>>
      /\ UNCHANGED <<remapped, boot>>
  <2>1. Deliverable
    BY DEF DeliverSpurious
  <2>2. interrupts /\ v \in KernelVectors /\ v = 39
    BY <2>1, Offered
  <2> HIDE DEF v
  <2>3. v # 32
    BY <2>2
  <2> QED
    BY <2>2, <2>3 DEF DeliverSpurious, FlagInHandler, v
<1> HIDE DEF v
<1>2. ~Uncounted'
  <2>1. TRUE \in BOOLEAN
    OBVIOUS
  <2> QED
    BY <1>1, <2>1, PushIrq
<1>3. ~Uncounted
  BY <1>1, Interruptible
<1>4. Open = TRUE /\ Open' = TRUE
  <2>1. TRUE \in BOOLEAN
    OBVIOUS
  <2> QED
    BY <1>1, <2>1, OpenOver
<1>5. UNCHANGED <<Ticks, Request, Carried>>
  BY <1>1, <1>2, <1>3 DEF Ticks, Request, Carried
<1> QED
  BY <1>1, <1>4, <1>5, TimerStutter

(* Handlers and EOIs are beneath the timer: the tick was counted when it   *)
(* was delivered.                                                          *)
LEMMA MovesImplement ==
  ASSUME IInv, TickHandler \/ LineHandler \/ SysHandler \/ Eoi
  PROVE  [Timer!Next]_(Timer!vars)
<1>1. PICK p \in {"eoi", "iret"} :
        /\ frames # << >> /\ Top.phase # "sleep" /\ Goto(p)
        /\ p = "eoi" => IrqFrame(Top)
        /\ UNCHANGED <<boot, pc, iteration, interrupts>>
        /\ UNCHANGED <<irq0, saved, low, target_ticks, given_up, remapped>>
  BY DEF TickHandler, LineHandler, SysHandler, Eoi, In, IrqFrame, clock, pic, SYSCALL
<1>2. /\ frames' # << >> /\ ~Uncounted'
      /\ Top'.vector = Top.vector /\ Top'.saved = Top.saved /\ frames'[1].saved = frames[1].saved
  BY <1>1, MoveOn
<1>3. Open' = Open /\ Request' = Request
  BY <1>1, <1>2 DEF Open, Request, IrqFrame
<1>4. CASE TickHandler
  <2>1. Uncounted
    BY <1>1, <1>4, Stack DEF IInv, TickHandler, In
  <2>2. s_ticks' = s_ticks + 1 /\ torn' = (torn \/ (pc = "high" /\ s_ticks' % Half = 0))
    BY <1>4 DEF TickHandler
  <2>3. Ticks' = Ticks
    BY <1>2, <2>1, <2>2 DEF Ticks, IInv, Typed
  <2>4. Carried' = Carried
    BY <1>1, <1>2, <2>1, <2>2 DEF Carried
  <2> QED
    BY <1>1, <1>3, <2>3, <2>4, TimerStutter
<1>5. CASE LineHandler \/ SysHandler \/ Eoi
  <2>1. ~Uncounted
    <3>1. Top.phase = "eoi" \/ Top.vector # 32
      BY <1>5 DEF LineHandler, SysHandler, Eoi, In, SYSCALL
    <3> QED
      BY <1>1, <3>1, Stack DEF IInv
  <2>2. UNCHANGED <<s_ticks, torn>>
    BY <1>5 DEF LineHandler, SysHandler, Eoi, clock
  <2>3. Ticks' = Ticks /\ Carried' = Carried
    BY <1>1, <1>2, <2>1, <2>2 DEF Ticks, Carried
  <2> QED
    BY <1>1, <1>3, <2>3, TimerStutter
<1> QED
  BY <1>4, <1>5

(* A return gives back the flag that the timer has seen all along.         *)
LEMMA IretImplements ==
  ASSUME IInv, Iret
  PROVE  [Timer!Next]_(Timer!vars)
<1>1. /\ frames # << >> /\ Top.phase = "iret" /\ interrupts' = Top.saved
      /\ frames' = Front(frames)
      /\ UNCHANGED <<s_ticks, irq0, saved, pc, low, target_ticks, iteration, given_up, torn>>
      /\ UNCHANGED <<boot, remapped>>
  BY DEF Iret, In, pic
<1>2. /\ ~Uncounted /\ ~Uncounted'
      /\ \/ frames' = << >> /\ Len(frames) = 1 /\ pc = "idle"
         \/ /\ frames' # << >> /\ Len(frames) = 2 /\ pc # "idle"
            /\ IrqFrame(Top) /\ ~IrqFrame(Top')
  BY <1>1, PopKeeps
<1>3. Open' = Open
  <2>1. CASE frames' = << >> /\ Len(frames) = 1 /\ pc = "idle"
    <3>1. Top = frames[1]
      BY <2>1 DEF Top
    <3> QED
      BY <1>1, <2>1, <3>1 DEF Open
  <2>2. CASE frames' # << >> /\ pc # "idle" /\ IrqFrame(Top) /\ ~IrqFrame(Top')
    BY <1>1, <2>2 DEF Open, IrqFrame
  <2> QED
    BY <1>2, <2>1, <2>2
<1>4. UNCHANGED <<Ticks, Request, Carried>>
  BY <1>1, <1>2 DEF Ticks, Request, Carried
<1> QED
  BY <1>1, <1>3, <1>4, TimerStutter

(* A call is over in no time for the timer, unless it sleeps. *)
LEMMA CallsImplement ==
  ASSUME IInv,
         \/ \E n \in Numbers : Int80(n)
         \/ \E ms \in Delays : Int80Sleep(ms)
  PROVE  [Timer!Next]_(Timer!vars)
<1>0. frames = << >> /\ pc = "idle" /\ ~Uncounted
  BY Alone DEF Int80, Int80Sleep
<1>1. CASE \E n \in Numbers : Int80(n)
  <2>1. PICK p \in {"entered", "iret"} :
          /\ boot = "run" /\ Push(SYSCALL, p, FALSE) /\ interrupts' = FALSE
          /\ UNCHANGED <<s_ticks, irq0, saved, pc, low, target_ticks, iteration, given_up, torn>>
          /\ UNCHANGED <<remapped, boot>>
    BY <1>1 DEF Int80, FlagInHandler, pic
  <2>2. frames' # << >> /\ frames'[1].saved = interrupts /\ ~Uncounted'
    BY <1>0, <2>1, PushCall
  <2>3. UNCHANGED <<Ticks, Request, Carried, Open>>
    BY <1>0, <2>1, <2>2 DEF Ticks, Request, Carried, Open
  <2> QED
    BY <2>1, <2>3, TimerStutter
<1>2. ASSUME NEW ms \in Delays, Int80Sleep(ms)
      PROVE  Timer!Sleep(ms)
  <2>1. Clock!Sleep(ms) /\ boot = "run" /\ UNCHANGED <<remapped, boot>>
    BY <1>2 DEF Int80Sleep, pic
  <2>2. ~Uncounted' /\ Open = interrupts /\ Open' = interrupts'
    <3>1. CASE ms = 0
      BY <1>0, <1>2, <3>1, FramesStay DEF Int80Sleep, Clock!Sleep, Open
    <3>2. CASE ms # 0
      <4>1. /\ Push(SYSCALL, "sleep", FALSE) /\ interrupts' = FALSE
            /\ iteration' = 0 /\ pc' = "low"
        BY <1>2, <3>2 DEF Int80Sleep, Clock!Sleep
      <4>2. frames' # << >> /\ ~IrqFrame(Top') /\ ~Uncounted'
        BY <1>0, <2>1, <4>1, PushCall
      <4> QED
        BY <1>0, <4>1, <4>2 DEF Open, IrqFrame
    <3> QED
      BY <3>1, <3>2
  <2>3. Ticks = s_ticks /\ Ticks' = s_ticks' /\ Request' = Request
    BY <1>0, <2>1, <2>2 DEF Ticks, Request, Clock!Sleep, IInv, Typed
  <2>4. Carried' = FALSE
    BY <2>1, <2>2 DEF Carried, Clock!Sleep
  <2> QED
    BY <2>1, <2>2, <2>3, <2>4 DEF Clock!Sleep, Timer!Sleep, Ticks, Request, Open, Carried
<1> QED
  BY <1>1, <1>2 DEF Timer!Next

(* A step of the sleep is one of the timer's. *)
LEMMA SleepImplements ==
  ASSUME IInv, IInv', SleepStep
  PROVE  [Timer!Next]_(Timer!vars)
<1>1. /\ frames # << >> /\ Top.phase = "sleep" /\ Clock!Handler
      /\ frames' = IF pc' = "idle" THEN Front(frames) ELSE frames
      /\ remapped' = remapped
  BY DEF SleepStep, In, pic
<1>2. /\ Len(frames) = 1 /\ ~IrqFrame(Top) /\ ~Uncounted /\ frames[1] = Top
  BY <1>1, Stack DEF IInv, Top
<1>3. pc # "idle"
  BY <1>1, <1>2 DEF IInv, Nesting
<1>4. Open = interrupts
  BY <1>1, <1>2, <1>3 DEF Open
<1>5. Open' = interrupts' /\ ~Uncounted'
  <2>1. CASE pc' = "idle"
    <3>1. frames' = << >>
      BY <1>1, <1>2, <2>1, PopFrame DEF IInv, Typed
    <3> QED
      BY <3>1, NoFrames DEF Open, Uncounted
  <2>2. CASE pc' # "idle"
    BY <1>1, <1>2, <2>2, FramesStay DEF Open, IrqFrame
  <2> QED
    BY <2>1, <2>2
<1>6. UNCHANGED <<s_ticks, irq0>>
  BY <1>1 DEF Clock!Handler, Clock!LoadLow, Clock!LoadHigh, Clock!Wait
<1>7. /\ Ticks = s_ticks /\ Ticks' = s_ticks /\ Request' = Request
      /\ Carried = torn /\ Carried' = torn'
  <2>1. torn \in BOOLEAN /\ torn' \in BOOLEAN /\ s_ticks \in Nat
    BY DEF IInv, Typed
  <2> QED
    BY <1>1, <1>2, <1>5, <1>6, <2>1 DEF Ticks, Request, Carried
<1>8. Clock!current_ticks = Timer!current_ticks
  BY <1>7 DEF Clock!current_ticks, Timer!current_ticks, Ticks
<1>9. CASE Clock!LoadLow
  <2>1. Timer!LoadLow
    BY <1>4, <1>5, <1>7, <1>9 DEF Clock!LoadLow, Timer!LoadLow, Ticks, Request, Open, Carried
  <2> QED
    BY <2>1 DEF Timer!Next, Timer!Handler
<1>10. CASE Clock!LoadHigh
  <2>1. Timer!LoadHigh
    BY <1>4, <1>5, <1>7, <1>8, <1>10
       DEF Clock!LoadHigh, Timer!LoadHigh, Clock!Return, Timer!Return, Ticks, Request, Open, Carried
  <2> QED
    BY <2>1 DEF Timer!Next, Timer!Handler
<1>11. CASE Clock!Wait
  <2>1. Timer!Wait
    BY <1>4, <1>5, <1>7, <1>11
       DEF Clock!Wait, Timer!Wait, Clock!Return, Timer!Return, Ticks, Request, Open, Carried
  <2> QED
    BY <2>1 DEF Timer!Next, Timer!Handler
<1> QED
  BY <1>1, <1>9, <1>10, <1>11 DEF Clock!Handler

(* Where start() and the shell set the flag, so does the timer; the other  *)
(* steps of the boot, i8259_Configure's reset of the requests included,    *)
(* are nothing to it.                                                      *)
LEMMA MainImplements ==
  ASSUME IInv, Boot \/ Panic \/ \E on \in BOOLEAN : cmd_interrupt(on)
  PROVE  [Timer!Next]_(Timer!vars)
<1>1. /\ Main /\ frames' = frames
      /\ UNCHANGED <<s_ticks, saved, pc, low, target_ticks, iteration, given_up, torn>>
  BY DEF Boot, Step, Gates, Probe, Configure, RegisterLines, Enable, RegisterTimer, RegisterSyscall,
         UnmaskKeyboard, RegisterKeyboard, Unmask, Panic, cmd_interrupt, Clock!SetInterrupts, clock
<1>2. frames = << >> /\ pc = "idle" /\ ~Uncounted /\ ~Uncounted'
  BY <1>1, Alone, FramesStay
<1>3. Open = interrupts /\ Open' = interrupts' /\ Ticks' = Ticks /\ Carried' = Carried
  BY <1>1, <1>2 DEF Open, Ticks, Carried
<1>4. CASE Configure
  <2>1. ~remapped /\ irq0' = FALSE /\ interrupts' = interrupts
    BY <1>4 DEF Configure, Step, IInv, BootOrder, Unmapped
  <2>2. Request' = Request
    BY <2>1 DEF Request
  <2> QED
    BY <1>1, <1>3, <2>1, <2>2, TimerStutter
<1>5. CASE Enable \/ Panic \/ \E on \in BOOLEAN : cmd_interrupt(on)
  <2>1. PICK on \in BOOLEAN : Clock!SetInterrupts(on)
    BY <1>5 DEF Enable, Panic, cmd_interrupt
  <2>2. Request' = Request /\ Open' = on
    BY <1>3, <1>5, <2>1 DEF Enable, Panic, cmd_interrupt, Clock!SetInterrupts, Request, pic
  <2>3. Timer!SetInterrupts(on)
    BY <1>1, <1>2, <1>3, <2>2 DEF Timer!SetInterrupts, Ticks, Request, Open, Carried
  <2> QED
    BY <2>3 DEF Timer!Next
<1>6. CASE \/ Gates \/ Probe \/ RegisterLines \/ RegisterTimer \/ RegisterSyscall
           \/ UnmaskKeyboard \/ RegisterKeyboard
           \/ Unmask(0, "unmask0", "unmask1") \/ Unmask(1, "unmask1", "run")
  <2>1. UNCHANGED <<irq0, interrupts, remapped>>
    BY <1>6 DEF Gates, Probe, RegisterLines, RegisterTimer, RegisterSyscall, UnmaskKeyboard,
                RegisterKeyboard, Unmask, clock, pic
  <2>2. Request' = Request
    BY <2>1 DEF Request
  <2> QED
    BY <1>1, <1>3, <2>1, <2>2, TimerStutter
<1> QED
  BY <1>4, <1>5, <1>6 DEF Boot

(* The whole interrupt path, from the gates of the IDT to iret, is to      *)
(* sys_handler_sleep the timer that module Sleep assumes.                  *)
THEOREM PathIsTimer == Spec => SleepSpec
<1>1. IInv /\ IInv' /\ [Next]_vars => [Timer!Next]_(Timer!vars)
  <2> SUFFICES ASSUME IInv, IInv', [Next]_vars PROVE [Timer!Next]_(Timer!vars)
    OBVIOUS
  <2>1. CASE Halted \/ UNCHANGED vars
    <3>1. UNCHANGED vars
      BY <2>1 DEF Halted
    <3>2. Top' = Top /\ (Uncounted' <=> Uncounted)
      BY <3>1, FramesStay DEF vars
    <3>3. UNCHANGED <<Ticks, Request, Open, Carried>>
      BY <3>1, <3>2 DEF vars, clock, pic, Ticks, Request, Open, Carried
    <3> QED
      BY <3>1, <3>3, TimerStutter DEF vars, clock
  <2>2. CASE Pulse \/ \E l \in Lines \ {0} : Raise(l)
    BY <2>2, DeviceImplements
  <2>3. CASE Deliver \/ \E l \in Lines \ {0} : DeliverSpurious(l)
    BY <2>3, DeliverImplements, SpuriousImplements
  <2>4. CASE TickHandler \/ LineHandler \/ SysHandler \/ Eoi \/ Iret
    BY <2>4, MovesImplement, IretImplements
  <2>5. CASE (\E n \in Numbers : Int80(n)) \/ (\E ms \in Delays : Int80Sleep(ms))
    BY <2>5, CallsImplement
  <2>6. CASE SleepStep
    BY <2>6, SleepImplements
  <2>7. CASE Boot \/ Panic \/ \E on \in BOOLEAN : cmd_interrupt(on)
    BY <2>7, MainImplements
  <2> QED
    BY <2>1, <2>2, <2>3, <2>4, <2>5, <2>6, <2>7 DEF Next, Cpu
<1> QED
  BY TimerInit, InterruptsInvariant, <1>1, PTL DEF Spec, SleepSpec, Timer!Spec

================================================================================
