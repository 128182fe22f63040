------------------------------- MODULE Interrupts ------------------------------
(***************************************************************************)
(* How an interrupt gets to its handler and back: the boot order that      *)
(* fills the IDT, g_ISRHandlers, g_IRQHandlers and the 8259, the path      *)
(* through isr.c and irq.c, and the gate of the system calls, on whose     *)
(* stack frame `sleep` alone turns interrupts on again.                    *)
(*                                                                         *)
(* The sleep itself is module Sleep, whose actions are used as they are;   *)
(* its tick, one step there, is a delivery, a handler, an EOI and an iret  *)
(* here, and the composition implements it.  The CPU takes an interrupt    *)
(* it can take before the next step of code.  Devices and the 8259's       *)
(* latches are modelled from how the kernel drives them.                   *)
(***************************************************************************)
EXTENDS Integers, Sequences, SequencesExt

CONSTANTS
  Half, Delays, Limit, LastTick, (* of module Sleep                           *)
  Lines,      (* lines of the 8259: the timer's 0, the keyboard's 1, others   *)
  Numbers,    (* numbers of system calls other than sleep's                   *)
  Registered, (* those syscall_initialize gives a handler                     *)
  Raises      (* bound of the model: requests of lines other than the timer's *)

ASSUME InterruptsAssumption ==
  /\ Half \in Nat \ {0} /\ Limit \in Nat \ {0} /\ LastTick \in Nat
  /\ Delays \subseteq Nat
  /\ {0, 1, 7} \subseteq Lines /\ Lines \subseteq 0 .. 7
  /\ Registered \subseteq Numbers
  /\ Raises \in Nat

(* The vectors interrupts can come by: the BIOS's, which are those of      *)
(* exceptions, the kernel's, and that of the system calls.                 *)
SYSCALL == 128
Vectors == (UNION {{8 + l, 32 + l} : l \in Lines}) \cup {SYSCALL}

(* The bits of 0x1337 that i8259_Probe leaves in the mask. *)
ProbeMask == Lines \cap {0, 1, 2, 4, 5}

VARIABLES
  \* of module Sleep; irq0 is line 0's request
  s_ticks, irq0, interrupts, saved, pc, low, target_ticks, iteration, given_up, torn,
  \* the 8259
  irr,       \* requests of the other lines
  isr,       \* lines in service
  imr,       \* lines masked
  remapped,  \* its vectors are the kernel's, not the BIOS's
  raised,    \* requests so far
  \* the kernel
  boot,      \* the next step of start(); "run" in the shell, "halted" at the end
  g_PicMask,
  present,       \* gates of the IDT that are present
  g_ISRHandlers, \* by vector
  g_IRQHandlers, \* lines that have a handler
  frames         \* interrupted code, the innermost last

Clock == INSTANCE Sleep

clock == <<s_ticks, irq0, interrupts, saved, pc, low, target_ticks, iteration, given_up, torn>>
pic   == <<irr, isr, imr, remapped, raised>>
tables == <<g_PicMask, present, g_ISRHandlers, g_IRQHandlers>>
vars  == <<clock, pic, boot, tables, frames>>

Init ==
  /\ Clock!Init /\ s_ticks = 0 /\ ~interrupts
  /\ irr = {} /\ isr = {} /\ imr \in {{}, Lines} /\ remapped = FALSE /\ raised = 0
  /\ boot = "gates"
  /\ g_PicMask = Lines
  /\ present = {} /\ g_ISRHandlers = [v \in Vectors |-> "NULL"] /\ g_IRQHandlers = {}
  /\ frames = << >>

--------------------------------------------------------------------------------
(* Devices. *)

IrqFrame(f) == f.vector # SYSCALL

(* A tick has been delivered and not been counted. *)
Uncounted == \E i \in DOMAIN frames : frames[i].vector = 32 /\ frames[i].phase = "entered"

Pulse ==
  /\ s_ticks + (IF Uncounted THEN 1 ELSE 0) < LastTick
  /\ Clock!Pulse
  /\ UNCHANGED <<pic, boot, tables, frames>>

Raise(l) ==
  /\ raised < Raises
  /\ raised' = raised + 1
  /\ irr' = irr \cup {l}
  /\ UNCHANGED <<clock, isr, imr, remapped, boot, tables, frames>>

--------------------------------------------------------------------------------
(* The CPU and the 8259: the lowest line comes first, and waits for those  *)
(* in service before it.                                                   *)

Requested   == irr \cup (IF irq0 THEN {0} ELSE {})
Pending     == {l \in Requested \ imr : \A s \in isr : l < s}
Deliverable == interrupts /\ Pending # {}

(* A step of code that no interrupt interrupts. *)
Code == ~Deliverable /\ boot # "halted"
Main == Code /\ frames = << >>

(* Mutant: trap gates, which leave the flag alone. *)
FlagInHandlerTrap == interrupts

(* Every gate is an interrupt gate. *)
FlagInHandler == FALSE

Push(vector, phase, spurious) ==
  frames' = Append(frames, [vector |-> vector, phase |-> phase,
                            spurious |-> spurious, saved |-> interrupts])

VectorOf(l) == (IF remapped THEN 32 ELSE 8) + l

Deliver ==
  LET l == Min(Pending)
  IN  /\ Deliverable
      /\ irq0' = (irq0 /\ l # 0) /\ irr' = irr \ {l}
      /\ isr' = isr \cup {l}
      /\ Push(VectorOf(l), "entered", FALSE)
      /\ interrupts' = FlagInHandler
      /\ UNCHANGED <<s_ticks, saved, pc, low, target_ticks, iteration, given_up, torn,
                     imr, remapped, raised, boot, tables>>

(* The request is withdrawn as the CPU answers it: the 8259 gives the      *)
(* vector of line 7 and puts nothing into service.                         *)
DeliverSpurious(l) ==
  /\ Deliverable /\ l = Min(Pending) /\ l # 0
  /\ irr' = irr \ {l}
  /\ Push(VectorOf(7), "entered", TRUE)
  /\ interrupts' = FlagInHandler
  /\ UNCHANGED <<s_ticks, irq0, saved, pc, low, target_ticks, iteration, given_up, torn,
                 isr, imr, remapped, raised, boot, tables>>

--------------------------------------------------------------------------------
(* isr_asm.asm, i686_ISR_Handler and i686_IRQ_Handler. *)

Top == frames[Len(frames)]
In(phase) == Code /\ frames # << >> /\ Top.phase = phase
Goto(phase) == frames' = [frames EXCEPT ![Len(frames)].phase = phase]

LineOf(vector) == vector - 32

Handled == g_ISRHandlers[Top.vector] = "i686_IRQ_Handler" /\ LineOf(Top.vector) \in g_IRQHandlers

(* Mutant: a tick is acknowledged and not counted. *)
TickHandlerUncounted ==
  /\ In("entered") /\ Top.vector = 32 /\ Handled
  /\ Goto("eoi")
  /\ UNCHANGED <<clock, pic, boot, tables>>

(* pit_tick_handler. *)
TickHandler ==
  /\ In("entered") /\ Top.vector = 32 /\ Handled
  /\ s_ticks' = s_ticks + 1
  /\ torn' = (torn \/ (pc = "high" /\ s_ticks' % Half = 0))
  /\ Goto("eoi")
  /\ UNCHANGED <<irq0, interrupts, saved, pc, low, target_ticks, iteration, given_up,
                 pic, boot, tables>>

(* keyboard_handler, which KeyboardIrq models; or "Unhandled IRQ". *)
LineHandler ==
  /\ In("entered") /\ Top.vector \notin {32, SYSCALL}
  /\ g_ISRHandlers[Top.vector] = "i686_IRQ_Handler"
  /\ Goto("eoi")
  /\ UNCHANGED <<clock, pic, boot, tables>>

(* Mutant: only lines with a handler are acknowledged. *)
EoiHandled ==
  /\ In("eoi")
  /\ isr' = IF isr = {} \/ ~Handled THEN isr ELSE isr \ {Min(isr)}
  /\ Goto("iret")
  /\ UNCHANGED <<clock, irr, imr, remapped, raised, boot, tables>>

(* Mutant: no end of interrupt. *)
EoiForgotten ==
  /\ In("eoi")
  /\ Goto("iret")
  /\ UNCHANGED <<clock, pic, boot, tables>>

(* i8259_SendEndOfInterrupt retires the line that is first in service. *)
Eoi ==
  /\ In("eoi")
  /\ isr' = IF isr = {} THEN isr ELSE isr \ {Min(isr)}
  /\ Goto("iret")
  /\ UNCHANGED <<clock, irr, imr, remapped, raised, boot, tables>>

Iret ==
  /\ In("iret")
  /\ interrupts' = Top.saved
  /\ frames' = Front(frames)
  /\ UNCHANGED <<s_ticks, irq0, saved, pc, low, target_ticks, iteration, given_up, torn,
                 pic, boot, tables>>

--------------------------------------------------------------------------------
(* System calls, from the shell's commands. *)

(* syscall_dispatch: a number without handler is answered at once. *)
Int80(n) ==
  /\ Main /\ boot = "run"
  /\ Push(SYSCALL, IF n \in Registered THEN "entered" ELSE "iret", FALSE)
  /\ interrupts' = FlagInHandler
  /\ UNCHANGED <<s_ticks, irq0, saved, pc, low, target_ticks, iteration, given_up, torn,
                 pic, boot, tables>>

(* The handlers of malloc, free, open, close, read, write and the like. *)
SysHandler ==
  /\ In("entered") /\ Top.vector = SYSCALL
  /\ Goto("iret")
  /\ UNCHANGED <<clock, pic, boot, tables>>

Int80Sleep(ms) ==
  /\ Main /\ boot = "run"
  /\ Clock!Sleep(ms)
  /\ IF ms = 0 THEN UNCHANGED frames ELSE Push(SYSCALL, "sleep", FALSE)
  /\ UNCHANGED <<pic, boot, tables>>

(* A step of sys_handler_sleep, its iret included. *)
SleepStep ==
  /\ In("sleep")
  /\ Clock!Handler
  /\ frames' = IF pc' = "idle" THEN Front(frames) ELSE frames
  /\ UNCHANGED <<pic, boot, tables>>

(* The command `interrupt`. *)
cmd_interrupt(on) ==
  /\ Main /\ boot = "run"
  /\ Clock!SetInterrupts(on)
  /\ UNCHANGED <<pic, boot, tables, frames>>

(* i686_Panic, from an exception, none of which has a handler, or from the *)
(* command `panic`.                                                        *)
Panic ==
  /\ Main /\ boot = "run"
  /\ boot' = "halted"
  /\ Clock!SetInterrupts(FALSE)
  /\ UNCHANGED <<pic, tables, frames>>

(* It halts with interrupts off, for good. *)
Halted == boot = "halted" /\ UNCHANGED vars

--------------------------------------------------------------------------------
(* start(), as far as it prepares interrupts. *)

Step(from, to) == boot = from /\ Main /\ boot' = to

(* i8259_SetMask: the copy and the chip. *)
SetMask(mask) == g_PicMask' = mask /\ imr' = mask

(* i686_ISR_Initialize. *)
Gates ==
  /\ Step("gates", "probe")
  /\ present' = Vectors \ {SYSCALL}
  /\ UNCHANGED <<clock, pic, g_PicMask, g_ISRHandlers, g_IRQHandlers, frames>>

(* i8259_Probe: it leaves lines unmasked, with the BIOS's vectors. *)
Probe ==
  /\ Step("probe", "configure")
  /\ SetMask(ProbeMask)
  /\ UNCHANGED <<clock, irr, isr, remapped, raised, present, g_ISRHandlers, g_IRQHandlers, frames>>

(* Mutant: the vectors stay those of the BIOS. *)
ConfigureUnmapped ==
  /\ Step("configure", "register")
  /\ SetMask(Lines)
  /\ irr' = {} /\ isr' = {} /\ irq0' = FALSE
  /\ UNCHANGED <<s_ticks, interrupts, saved, pc, low, target_ticks, iteration, given_up, torn,
                 raised, remapped, present, g_ISRHandlers, g_IRQHandlers, frames>>

(* i8259_Configure: ICW1 forgets requests and services. *)
Configure ==
  /\ Step("configure", "register")
  /\ SetMask(Lines)
  /\ remapped' = TRUE
  /\ irr' = {} /\ isr' = {} /\ irq0' = FALSE
  /\ UNCHANGED <<s_ticks, interrupts, saved, pc, low, target_ticks, iteration, given_up, torn,
                 raised, present, g_ISRHandlers, g_IRQHandlers, frames>>

(* i686_IRQ_Initialize registers the sixteen lines, *)
RegisterLines ==
  /\ Step("register", "enable")
  /\ g_ISRHandlers' = [v \in Vectors |-> IF v \in {32 + l : l \in Lines} THEN "i686_IRQ_Handler"
                                         ELSE g_ISRHandlers[v]]
  /\ UNCHANGED <<clock, pic, g_PicMask, present, g_IRQHandlers, frames>>

(* and turns interrupts on. *)
Enable ==
  /\ Step("enable", "time")
  /\ Clock!SetInterrupts(TRUE)
  /\ UNCHANGED <<pic, tables, frames>>

(* time_init. *)
RegisterTimer ==
  /\ Step("time", "syscall")
  /\ g_IRQHandlers' = g_IRQHandlers \cup {0}
  /\ UNCHANGED <<clock, pic, g_PicMask, present, g_ISRHandlers, frames>>

(* syscall_initialize opens the gate. *)
RegisterSyscall ==
  /\ Step("syscall", "keyboard")
  /\ g_ISRHandlers' = [g_ISRHandlers EXCEPT ![SYSCALL] = "syscall_handler"]
  /\ present' = present \cup {SYSCALL}
  /\ UNCHANGED <<clock, pic, g_PicMask, g_IRQHandlers, frames>>

(* keyboard_init clears its bit in the chip, not in the copy. *)
UnmaskKeyboard ==
  /\ Step("keyboard", "irq1")
  /\ imr' = imr \ {1}
  /\ UNCHANGED <<clock, irr, isr, remapped, raised, tables, frames>>

RegisterKeyboard ==
  /\ Step("irq1", "unmask0")
  /\ g_IRQHandlers' = g_IRQHandlers \cup {1}
  /\ UNCHANGED <<clock, pic, g_PicMask, present, g_ISRHandlers, frames>>

Unmask(l, from, to) ==
  /\ Step(from, to)
  /\ SetMask(g_PicMask \ {l})
  /\ UNCHANGED <<clock, irr, isr, remapped, raised, present, g_ISRHandlers, g_IRQHandlers, frames>>

Boot ==
  \/ Gates \/ Probe \/ Configure \/ RegisterLines \/ Enable \/ RegisterTimer
  \/ RegisterSyscall \/ UnmaskKeyboard \/ RegisterKeyboard
  \/ Unmask(0, "unmask0", "unmask1") \/ Unmask(1, "unmask1", "run")

Cpu ==
  \/ Deliver \/ TickHandler \/ LineHandler \/ Eoi \/ Iret
  \/ SysHandler \/ SleepStep \/ Boot

Next ==
  \/ Pulse
  \/ \E l \in Lines \ {0} : Raise(l) \/ DeliverSpurious(l)
  \/ Cpu
  \/ \E n \in Numbers : Int80(n)
  \/ \E ms \in Delays : Int80Sleep(ms)
  \/ \E on \in BOOLEAN : cmd_interrupt(on)
  \/ Panic \/ Halted

(* The CPU runs; nobody has to type a command, and no device has to speak. *)
Spec == Init /\ [][Next]_vars /\ WF_vars(Cpu)

--------------------------------------------------------------------------------
(* No interrupt finds a gate closed, a vector of the BIOS or a handler     *)
(* missing, at any moment of the boot: the masks, the flag and the tables  *)
(* change in an order that never lets one through.                         *)
DeliveredToHandler ==
  \A i \in DOMAIN frames :
    frames[i].vector \in present /\ g_ISRHandlers[frames[i].vector] # "NULL"

(* An EOI names no line: it must retire the one whose handler ran, and     *)
(* none after a spurious interrupt.                                        *)
InServiceIsHandled ==
  isr = {LineOf(frames[i].vector) : i \in
           {j \in DOMAIN frames : IrqFrame(frames[j]) /\ ~frames[j].spurious
                                  /\ frames[j].phase \in {"entered", "eoi"}}}

(* Interrupts are taken over the boot, the shell or a sleep: the handlers  *)
(* of the other calls, and those of interrupts, run whole.  A sleep past   *)
(* its first iteration is always open to them, so the clock it waits for   *)
(* does run.                                                               *)
HandlersRunWhole ==
  /\ \A i \in DOMAIN frames : i < Len(frames) => frames[i].phase = "sleep"
  /\ pc # "idle" /\ iteration > 0 => interrupts \/ IrqFrame(Top)

(* In the shell a request of the timer or the keyboard is served, whatever *)
(* calls are made and however long they sleep, unless the user turns       *)
(* interrupts off or the kernel panics.                                    *)
Deaf == boot = "halted" \/ (frames = << >> /\ ~interrupts)
RequestsServed ==
  \A l \in {0, 1} : (boot = "run" /\ l \in Requested) ~> (l \notin Requested \/ Deaf)

(* What Sleep promises, with its tick taken apart. *)
NotEarly     == Clock!NotEarly
SleepReturns == Clock!SleepReturns

(* In the eyes of the sleep a tick happens when it is delivered, the flag  *)
(* is what the innermost handler will give back, and there are no requests *)
(* before the 8259 is initialised, which forgets them.                     *)
Timer == INSTANCE Sleep WITH
  s_ticks <- s_ticks + (IF Uncounted THEN 1 ELSE 0),
  irq0 <- irq0 /\ remapped,
  torn <- torn \/ (Uncounted /\ pc = "high" /\ (s_ticks + 1) % Half = 0),
  interrupts <- IF frames = << >> THEN interrupts
                ELSE IF pc = "idle" THEN frames[1].saved
                ELSE IF IrqFrame(Top) THEN Top.saved ELSE interrupts

(* The interrupt path is the timer that Sleep assumes. *)
SleepSpec == Timer!Spec

================================================================================
