------------------------------- MODULE KeyboardIrq -----------------------------
(***************************************************************************)
(* How a byte of the keyboard reaches keyboard_handler: the boot sequence  *)
(* of main.c that brings IRQ 1 up while interrupts are already enabled,    *)
(* the dispatch of irq.c, the cached mask of i8259.c, and the `keytest`    *)
(* command, which reads the controller's ports behind the handler's back.  *)
(*                                                                         *)
(* The keyboard, its controller (i8042), the interrupt controller (8259)   *)
(* and the CPU are modelled from how the kernel drives them.  A step of    *)
(* the kernel is one access to a port or to shared memory.  The CPU takes  *)
(* a pending interrupt at the next instruction boundary: at most the       *)
(* instruction that was under way when it came completes first.            *)
(***************************************************************************)
EXTENDS Integers, Sequences

CONSTANTS
  Byte,   (* bytes the keyboard sends                                    *)
  Esc,    (* the one that means ESC                                      *)
  NoByte, (* stands for an empty output buffer                           *)
  Wire    (* bytes the keyboard holds back while the output buffer is full *)

ASSUME IrqAssumption ==
  /\ Esc \in Byte /\ NoByte \notin Byte
  /\ Wire \in Nat \ {0}

VARIABLES
  \* the hardware
  wire,    \* bytes waiting in the keyboard
  obf,     \* output buffer of the i8042: a byte nobody has read, or NoByte
  port,    \* what port 0x60 shows: the last byte that was in obf
  irr,     \* the 8259 has a request of line 1 latched
  isr,     \* line 1 is in service: no EOI yet
  imr,     \* line 1 is masked in the 8259
  late,    \* an instruction has completed since the request became deliverable
  \* the kernel
  masked,  \* bit 1 of g_PicMask, the copy i8259.c keeps of the mask
  handler, \* g_IRQHandlers[1] # NULL
  main,    \* where start(), later the shell, is
  irq,     \* where i686_IRQ_Handler is; "none" outside it
  \* history
  orphan,  \* a byte came after keyboard_init's loop and before the handler
  polled   \* keytest has read port 0x60

irqVars == <<wire, obf, port, irr, isr, imr, late, masked, handler, main, irq, orphan, polled>>

device == <<wire, obf, port, irr>>

IrqInit ==
  /\ wire = << >>
  /\ obf \in Byte \cup {NoByte} /\ port \in Byte
  /\ obf # NoByte => port = obf
  /\ irr \in BOOLEAN /\ (irr => obf # NoByte)
  /\ isr = FALSE /\ imr = TRUE /\ late = FALSE
  /\ masked = TRUE
  /\ handler = FALSE
  /\ main = "keyboard_init"
  /\ irq = "none"
  /\ orphan = FALSE /\ polled = FALSE

--------------------------------------------------------------------------------
(* The hardware. *)

(* A key is pressed or released; the keyboard drops what it cannot hold. *)
Press(k) ==
  /\ wire' = IF Len(wire) < Wire THEN Append(wire, k) ELSE wire
  /\ UNCHANGED <<obf, port, irr, isr, imr, late, masked, handler, main, irq, orphan, polled>>

(* The controller takes the next byte only once the last one has been      *)
(* read; the request line rises, and the 8259 latches the edge.            *)
Deliver ==
  /\ obf = NoByte /\ wire # << >>
  /\ wire' = Tail(wire)
  /\ obf' = Head(wire) /\ port' = Head(wire)
  /\ irr' = TRUE
  /\ UNCHANGED <<isr, imr, late, masked, handler, main, irq, orphan, polled>>

(* The effect of reading port 0x60.  The line falls; a request latched and *)
(* not yet acknowledged is kept by some 8259s and withdrawn by others.     *)
ReadPort ==
  /\ obf' = NoByte
  /\ irr' \in {irr, FALSE}
  /\ UNCHANGED <<wire, port>>

Deliverable == irr /\ ~imr /\ ~isr /\ irq = "none"

(* A step of start() or of the shell. *)
Runs ==
  /\ irq = "none"
  /\ Deliverable => ~late
  /\ late' = Deliverable

--------------------------------------------------------------------------------
(* i686_IRQ_Handler, entered with interrupts off. *)

Interrupt ==
  /\ Deliverable
  /\ irr' = FALSE /\ isr' = TRUE /\ late' = FALSE
  /\ irq' = IF handler THEN "handler" ELSE "unhandled"
  /\ UNCHANGED <<wire, obf, port, imr, masked, handler, main, orphan, polled>>

(* Nobody has registered for IRQ 1 yet: the byte stays where it is. *)
Unhandled ==
  /\ irq = "unhandled"
  /\ irq' = "eoi"
  /\ orphan' = (orphan \/ main \in {"register", "unmask0", "unmask1"})
  /\ UNCHANGED <<device, isr, imr, late, masked, handler, main, polled>>

(* keyboard_handler: keyboard_get_scancode waits for a byte, however long  *)
(* that takes, and reads it.                                               *)
HandlerReads ==
  /\ irq = "handler"
  /\ obf # NoByte
  /\ ReadPort
  /\ irq' = "eoi"
  /\ UNCHANGED <<isr, imr, late, masked, handler, main, orphan, polled>>

(* Mutant: the interrupt is not acknowledged. *)
EoiForgotten ==
  /\ irq = "eoi"
  /\ irq' = "none"
  /\ UNCHANGED <<device, isr, imr, late, masked, handler, main, orphan, polled>>

(* i8259_SendEndOfInterrupt, and the return. *)
Eoi ==
  /\ irq = "eoi"
  /\ isr' = FALSE
  /\ irq' = "none"
  /\ UNCHANGED <<device, imr, late, masked, handler, main, orphan, polled>>

--------------------------------------------------------------------------------
(* start(), from keyboard_init on. *)

(* Mutant: the handler is registered before the drain. *)
UnmaskLineRegistered ==
  /\ main = "keyboard_init" /\ Runs
  /\ imr' = FALSE
  /\ handler' = TRUE
  /\ main' = "drain"
  /\ UNCHANGED <<device, isr, masked, irq, orphan, polled>>

(* keyboard_init clears the bit in the 8259, not in g_PicMask, *)
UnmaskLine ==
  /\ main = "keyboard_init" /\ Runs
  /\ imr' = FALSE
  /\ main' = "drain"
  /\ UNCHANGED <<device, isr, masked, handler, irq, orphan, polled>>

(* Mutant: one test, no loop. *)
DrainTestOnce ==
  /\ main = "drain" /\ Runs
  /\ main' = "register"
  /\ UNCHANGED <<device, isr, imr, masked, handler, irq, orphan, polled>>

(* and reads until the output buffer is empty. *)
DrainTest ==
  /\ main = "drain" /\ Runs
  /\ main' = IF obf # NoByte THEN "drain_read" ELSE "register"
  /\ UNCHANGED <<device, isr, imr, masked, handler, irq, orphan, polled>>

DrainRead ==
  /\ main = "drain_read" /\ Runs
  /\ ReadPort
  /\ main' = "drain"
  /\ UNCHANGED <<isr, imr, masked, handler, irq, orphan, polled>>

(* "Keyboard driver ready", then i686_IRQ_RegisterHandler. *)
Register ==
  /\ main = "register" /\ Runs
  /\ handler' = TRUE
  /\ main' = "unmask0"
  /\ UNCHANGED <<device, isr, imr, masked, irq, orphan, polled>>

(* i8259_SetMask: the copy, and the whole copy to the 8259. *)
SetMask(bit1) ==
  /\ masked' = bit1
  /\ imr' = bit1

(* i8259_Unmask(0) writes bit 1 back as the copy has it: set. *)
Unmask0 ==
  /\ main = "unmask0" /\ Runs
  /\ SetMask(masked)
  /\ main' = "unmask1"
  /\ UNCHANGED <<device, isr, handler, irq, orphan, polled>>

(* i8259_Unmask(1), i686_EnableInterrupts, and on to the shell. *)
Unmask1 ==
  /\ main = "unmask1" /\ Runs
  /\ SetMask(FALSE)
  /\ main' = "shell"
  /\ UNCHANGED <<device, isr, handler, irq, orphan, polled>>

(* The command is typed, so the keyboard works. *)
Keytest ==
  /\ main = "shell" /\ Runs
  /\ ~orphan
  /\ main' = "keytest"
  /\ UNCHANGED <<device, isr, imr, masked, handler, irq, orphan, polled>>

(* cmd_keytest: poll the status port, *)
KeytestPoll ==
  /\ main = "keytest" /\ Runs
  /\ main' = IF obf # NoByte THEN "keytest_read" ELSE "keytest"
  /\ UNCHANGED <<device, isr, imr, masked, handler, irq, orphan, polled>>

(* and read the data port, which repeats its last byte if the handler has  *)
(* been faster; ESC ends the command.                                      *)
KeytestRead ==
  /\ main = "keytest_read" /\ Runs
  /\ IF obf # NoByte THEN ReadPort ELSE UNCHANGED device
  /\ polled' = TRUE
  /\ main' = IF port = Esc THEN "shell" ELSE "keytest"
  /\ UNCHANGED <<isr, imr, masked, handler, irq, orphan>>

--------------------------------------------------------------------------------
Boot    == UnmaskLine \/ DrainTest \/ DrainRead \/ Register \/ Unmask0 \/ Unmask1
Polling == KeytestPoll \/ KeytestRead
Irq     == Interrupt \/ Unhandled \/ HandlerReads \/ Eoi

IrqNext ==
  \/ \E k \in Byte : Press(k)
  \/ Deliver
  \/ Irq
  \/ Boot \/ Keytest \/ Polling

IrqSpec == IrqInit /\ [][IrqNext]_irqVars

(* The controller hands on what it has, the CPU takes interrupts and runs  *)
(* the code it is in; keys come slowly enough for the polling loop to run  *)
(* between them.  Nobody has to press a key, or type `keytest`.            *)
FairSpec ==
  /\ IrqSpec
  /\ WF_irqVars(Deliver)
  /\ WF_irqVars(Irq)
  /\ WF_irqVars(Boot)
  /\ SF_irqVars(Polling)

--------------------------------------------------------------------------------
IrqTypeOK ==
  /\ wire \in Seq(Byte) /\ Len(wire) <= Wire
  /\ obf \in Byte \cup {NoByte} /\ port \in Byte
  /\ {irr, isr, imr, late, masked, handler, orphan, polled} \subseteq BOOLEAN
  /\ main \in {"keyboard_init", "drain", "drain_read", "register", "unmask0", "unmask1",
             "shell", "keytest", "keytest_read"}
  /\ irq \in {"none", "unhandled", "handler", "eoi"}

(* Whoever reads the port finds a byte there.  The drain loop reads none   *)
(* twice: what its test has seen is still in the controller when it reads, *)
(* although interrupts are on.  And keyboard_get_scancode, which waits     *)
(* with interrupts off, never has to: a request is only ever taken with    *)
(* its byte still there, unless keytest takes that from under the request. *)
ReadsFresh ==
  /\ IrqTypeOK
  /\ main = "drain_read" => obf # NoByte
  /\ irq = "handler" /\ ~polled => obf # NoByte

(* A byte left in the controller with no request pending blocks every      *)
(* later one.  From the shell on that only happens if a byte came between  *)
(* the drain loop of keyboard_init and the registration of the handler:    *)
(* the stale mask that i8259_Unmask(0) writes back loses no request.       *)
KeyboardAlive ==
  main \in {"shell", "keytest", "keytest_read"} /\ irq = "none" /\ obf # NoByte /\ ~orphan
    => irr /\ ~imr /\ ~isr

(* Unless a byte came in that window, each byte the controller holds is    *)
(* taken from it, during boot, in the shell and in keytest.                *)
BytesTaken == [](orphan = FALSE) => (obf # NoByte ~> obf = NoByte)

--------------------------------------------------------------------------------
(* What main.c:259 reports at this point of the boot: the driver is ready, *)
(* so bytes the controller gets from then on are read.                     *)
ReadyReads ==
  main = "register" /\ obf # NoByte ~> obf = NoByte

================================================================================
