--------------------------------- MODULE System --------------------------------
(***************************************************************************)
(* The machine from power on: it boots (module Boot), its kernel runs the  *)
(* shell (module Shell), and `reboot` boots it again, on the memory that   *)
(* the session before has left behind.                                     *)
(***************************************************************************)
EXTENDS Boot, Shell

SystemInit == BootInit /\ Init

Booting == BootStep /\ submitted' = << >>
           /\ UNCHANGED <<command_buffer, command_pos, cursor_position, screen, messages,
                          logged, plain, far>>

Retrying == KeyPressed /\ UNCHANGED vars

Running == stage = "kernel" /\ Next /\ UNCHANGED bootVars

(* The keyboard controller resets the processor, *)
Reboot ==
  /\ stage = "kernel" /\ Leave(reboot) /\ stage' = "off"
  /\ UNCHANGED <<drive, image, stage1, at2000, offset, regions, elf, mem>>

(* or it is stopped for good. *)
Exit ==
  /\ stage = "kernel" /\ Leave(exit) /\ stage' = "halted"
  /\ UNCHANGED <<drive, image, stage1, at2000, offset, regions, elf, mem>>

SystemNext == Booting \/ Retrying \/ Running \/ Reboot \/ Exit

systemVars == <<bootVars, vars>>

(* The processor runs a boot that has begun; nobody has to press a key. *)
SystemSpec == SystemInit /\ [][SystemNext]_systemVars /\ WF_systemVars(Booting)

================================================================================
