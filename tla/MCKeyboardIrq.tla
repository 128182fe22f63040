----------------------------- MODULE MCKeyboardIrq -----------------------------
(* Two byte values, ESC and another, for TLC. *)
EXTENDS KeyboardIrq

================================================================================
