-------------------------------- MODULE MCSystem -------------------------------
(* A boot of kernel files of up to ten bytes, read by fours, and a shell   *)
(* of four characters a line on a screen of six by two, for TLC.           *)
EXTENDS System

MCExtents == <<[lba |-> 20, count |-> 2], [lba |-> 30, count |-> 1]>>

Ph(load, offset_, vaddr, filesz, memsz) ==
  [load |-> load, offset |-> offset_, vaddr |-> vaddr, filesz |-> filesz, memsz |-> memsz]

(* Small segments; one behind the first that is as large as the load       *)
(* buffer; and one of that size with the entry.                            *)
MCImages ==
  { [size |-> 10, entry |-> 0, phoff |-> 2,
     phs |-> <<Ph(FALSE, 0, 0, 1, 1), Ph(TRUE, 5, 0, 2, 3), Ph(TRUE, 7, 3, 3, 4)>>],
    [size |-> 10, entry |-> 1, phoff |-> 3,
     phs |-> <<Ph(TRUE, 5, 4, 5, 6), Ph(TRUE, 5, 0, 3, 3)>>],
    [size |-> 8, entry |-> 0, phoff |-> 2, phs |-> <<Ph(TRUE, 4, 0, 4, 5)>>] }

MCAddresses == 0 .. 9

MCPrompt  == <<">">>
MCBootLog == <<"kernel", "hal", "timer">>

MCdmesg  == <<"d">>
MCclear  == <<"c">>
MCreboot == <<"d", "d">>
MCexit   == <<"c", "c">>

================================================================================
