------------------------------- MODULE FileStream ------------------------------
(***************************************************************************)
(* What fat.c promises its callers: files that are read from front to      *)
(* back.  Module Fat, with its handles, sector buffers and cached part of  *)
(* the FAT, implements it.                                                 *)
(***************************************************************************)
EXTENDS Integers, Sequences

CONSTANTS
  Paths,    (* paths callers open                   *)
  Counts,   (* how much callers read at a time      *)
  Handles,  (* what an opened file is known by      *)
  NULL      (* the handle of an open that failed    *)

VARIABLES
  texts,    \* path of a file -> its contents
  streams,  \* handle -> [text, pos], or Unopened
  reply     \* of the last call: [op, path, h, at, cells]

vars == <<texts, streams, reply>>

Unopened == [text |-> << >>, pos |-> -1]

IsOpen(h) == streams[h] # Unopened

Reply(op, p, h, at, cells) ==
  reply' = [op |-> op, path |-> p, h |-> h, at |-> at, cells |-> cells]

Init ==
  /\ streams = [h \in Handles |-> Unopened]
  /\ reply = [op |-> "init", path |-> << >>, h |-> NULL, at |-> 0, cells |-> << >>]

(* A path is opened if there is such a file and a handle for it, *)
Open(p) ==
  /\ \/ /\ p \in DOMAIN texts
        /\ \E h \in Handles :
             /\ ~IsOpen(h)
             /\ streams' = [streams EXCEPT ![h] = [text |-> texts[p], pos |-> 0]]
             /\ Reply("open", p, h, 0, << >>)
     \/ /\ p \notin DOMAIN texts \/ \A h \in Handles : IsOpen(h)
        /\ Reply("open", p, NULL, 0, << >>)
        /\ UNCHANGED streams
  /\ UNCHANGED texts

(* read on from where the last read ended, *)
Read(h, n) ==
  LET at   == streams[h].pos
      text == streams[h].text
      end  == IF at + n < Len(text) THEN at + n ELSE Len(text)
  IN  /\ IsOpen(h)
      /\ streams' = [streams EXCEPT ![h].pos = end]
      /\ Reply("read", << >>, h, at, SubSeq(text, at + 1, end))
      /\ UNCHANGED texts

(* and closed. *)
Close(h) ==
  /\ IsOpen(h)
  /\ streams' = [streams EXCEPT ![h] = Unopened]
  /\ Reply("close", << >>, h, 0, << >>)
  /\ UNCHANGED texts

Next ==
  \/ \E p \in Paths : Open(p)
  \/ \E h \in Handles : Close(h) \/ \E n \in Counts : Read(h, n)

Spec == Init /\ [][Next]_vars

================================================================================
