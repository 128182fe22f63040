------------------------------ MODULE MCInterrupts -----------------------------
(* Three lines, two numbers of calls and a clock of two-bit halves, for TLC. *)
EXTENDS Interrupts

================================================================================
