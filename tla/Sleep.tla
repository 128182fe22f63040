---------------------------------- MODULE Sleep --------------------------------
(***************************************************************************)
(* sys_handler_sleep of syscall.c against the tick handler of time.c: a    *)
(* busy wait that reads the 64-bit s_ticks while IRQ 0 advances it.        *)
(*                                                                         *)
(* On i686 a 64-bit load is two loads, low half first; once the loop has   *)
(* executed sti, a tick may fall between them.                             *)
(***************************************************************************)
EXTENDS Integers

CONSTANTS
  Half,      (* 2^32: s_ticks is a pair of halves                     *)
  Delays,    (* the milliseconds callers ask for, 0 included          *)
  Limit,     (* iterations of the loop before it gives up (100000000) *)
  LastTick   (* bound of the model: ticks counted                     *)

VARIABLES
  s_ticks,    \* ticks counted since boot
  irq0,       \* a tick is waiting in the 8259
  interrupts, \* the CPU's interrupt flag
  saved,      \* the flag as the caller had it, on the stack of int 0x80
  pc,         \* "idle", "low" and "high" (the two loads), "wait"
  low,        \* the half already loaded
  target_ticks, iteration,
  given_up,   \* history: the last call ended by its safety check
  torn        \* history: a carry fell between the loads of the last reading

vars == <<s_ticks, irq0, interrupts, saved, pc, low, target_ticks, iteration, given_up, torn>>

Init ==
  /\ s_ticks \in 0 .. LastTick
  /\ irq0 = FALSE
  /\ interrupts \in BOOLEAN /\ saved = FALSE
  /\ pc = "idle"
  /\ low = 0 /\ target_ticks = 0 /\ iteration = 0
  /\ given_up = FALSE /\ torn = FALSE

(* The timer raises its line; a tick that finds one waiting is lost. *)
Pulse ==
  /\ irq0' = TRUE
  /\ UNCHANGED <<s_ticks, interrupts, saved, pc, low, target_ticks, iteration, given_up, torn>>

(* pit_tick_handler. *)
Tick ==
  /\ irq0 /\ interrupts
  /\ s_ticks < LastTick
  /\ irq0' = FALSE
  /\ s_ticks' = s_ticks + 1
  /\ torn' = (torn \/ (pc = "high" /\ s_ticks' % Half = 0))
  /\ UNCHANGED <<interrupts, saved, pc, low, target_ticks, iteration, given_up>>

(* int 0x80 turns interrupts off; the first reading of the clock is whole. *)
Sleep(ms) ==
  /\ pc = "idle"
  /\ given_up' = FALSE /\ torn' = FALSE
  /\ IF ms = 0
     THEN UNCHANGED <<interrupts, saved, pc, target_ticks, iteration>>
     ELSE /\ interrupts' = FALSE /\ saved' = interrupts
          /\ target_ticks' = s_ticks + ms
          /\ iteration' = 0
          /\ pc' = "low"
  /\ UNCHANGED <<s_ticks, irq0, low>>

LoadLow ==
  /\ pc = "low"
  /\ low' = s_ticks % Half
  /\ torn' = FALSE
  /\ pc' = "high"
  /\ UNCHANGED <<s_ticks, irq0, interrupts, saved, target_ticks, iteration, given_up>>

(* What the two loads make of the clock. *)
current_ticks == (s_ticks \div Half) * Half + low

(* iret takes the flags from the stack. *)
Return ==
  /\ interrupts' = saved /\ saved' = FALSE
  /\ pc' = "idle"
  /\ low' = 0 /\ target_ticks' = 0 /\ iteration' = 0

(* Mutant: waits for one tick less. *)
LoadHighEarly ==
  /\ pc = "high"
  /\ IF current_ticks + 1 >= target_ticks
     THEN Return
     ELSE pc' = "wait" /\ UNCHANGED <<interrupts, saved, low, target_ticks, iteration>>
  /\ UNCHANGED <<s_ticks, irq0, given_up, torn>>

LoadHigh ==
  /\ pc = "high"
  /\ IF current_ticks >= target_ticks
     THEN Return
     ELSE pc' = "wait" /\ UNCHANGED <<interrupts, saved, low, target_ticks, iteration>>
  /\ UNCHANGED <<s_ticks, irq0, given_up, torn>>

(* Mutant: no safety check. *)
WaitForever ==
  /\ pc = "wait"
  /\ interrupts' = TRUE
  /\ iteration' = IF iteration < Limit THEN iteration + 1 ELSE iteration
  /\ pc' = "low"
  /\ UNCHANGED <<s_ticks, irq0, saved, low, target_ticks, given_up, torn>>

(* sti, the pause, and the count of iterations. *)
Wait ==
  /\ pc = "wait"
  /\ IF iteration < Limit
     THEN /\ interrupts' = TRUE
          /\ iteration' = iteration + 1
          /\ pc' = "low"
          /\ UNCHANGED <<saved, low, target_ticks, given_up>>
     ELSE Return /\ given_up' = TRUE
  /\ UNCHANGED <<s_ticks, irq0, torn>>

(* The boot, and the command `interrupt`, set the flag between calls. *)
SetInterrupts(on) ==
  /\ pc = "idle"
  /\ interrupts' = on
  /\ UNCHANGED <<s_ticks, irq0, saved, pc, low, target_ticks, iteration, given_up, torn>>

Handler == LoadLow \/ LoadHigh \/ Wait

Next ==
  \/ Pulse \/ Tick
  \/ \E ms \in Delays : Sleep(ms)
  \/ \E on \in BOOLEAN : SetInterrupts(on)
  \/ Handler

Spec == Init /\ [][Next]_vars

(* The CPU runs the handler; nothing is assumed of the timer. *)
FairSpec == Spec /\ WF_vars(Handler)

--------------------------------------------------------------------------------
TypeOK ==
  /\ s_ticks \in 0 .. LastTick
  /\ {irq0, interrupts, saved, given_up, torn} \subseteq BOOLEAN
  /\ pc \in {"idle", "low", "high", "wait"}
  /\ low \in 0 .. Half - 1
  /\ iteration \in 0 .. Limit

(* A sleep that returns has lasted as many ticks as it was asked for,      *)
(* unless the safety check ended it or a carry fell between the two loads  *)
(* of its last reading.                                                    *)
NotEarly ==
  [][pc = "high" /\ pc' = "idle" /\ ~torn => s_ticks >= target_ticks]_vars

(* A sleep ends even if the timer is dead. *)
SleepReturns == (pc # "idle") ~> (pc = "idle")

================================================================================
