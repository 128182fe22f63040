------------------------------- MODULE MCFatErrors -----------------------------
(***************************************************************************)
(* The volumes of MCFat on a disk whose reads may fail, with what callers  *)
(* of FAT_Read can see: a count less than they asked for, after which they *)
(* give up the handle as ELF_Read does (elf.c:68).                         *)
(***************************************************************************)
EXTENDS MCFat

VARIABLES
  due,      \* history: the count the read under way should return
  short     \* history: handles a read of which has returned less

Starts  == pc # "read" /\ pc' = "read"
Returns == pc = "read" /\ pc' = "idle" /\ reply'.op = "read"

ErrorsInit == Init /\ due = 0 /\ short = {}

ErrorsNext ==
  /\ Next
  /\ due' = IF Starts THEN left' ELSE due
  /\ short' = {h \in Handles : /\ file'[h].open
                               /\ h \in short \/ (Returns /\ h = cur /\ Len(out) < due)}

ErrorsSpec == ErrorsInit /\ [][ErrorsNext]_<<vars, due, short>>

(* A read delivers the file's data at its position, as long as each read   *)
(* of the handle has returned the full count: ELF_Read tells an error by   *)
(* the count alone (elf.c:68).                                             *)
DataRight ==
  reply.op = "read" /\ reply.h \notin short =>
    \E n \in DOMAIN vol.entry :
      LET text == Text(vol.entry[n])
      IN  /\ reply.at + Len(reply.cells) <= Len(text)
          /\ reply.cells = SubSeq(text, reply.at + 1, reply.at + Len(reply.cells))

================================================================================
