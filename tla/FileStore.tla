------------------------------- MODULE FileStore -------------------------------
(***************************************************************************)
(* What the file system calls of syscall.c promise: named byte sequences,  *)
(* and descriptors that read and write them at a position of their own.    *)
(* Module Vfs, with its slots, buffers and capacities, implements it.      *)
(***************************************************************************)
EXTENDS Integers, Sequences, SequencesExt

CONSTANTS
  Names,   (* file names                        *)
  Fds,     (* descriptors                       *)
  Byte,    (* byte values, uninitialised ones included *)
  Initial  (* the files that exist at boot: a function from names to contents *)

VARIABLES
  content,  \* name -> sequence of bytes, for the files that exist
  desc,     \* open descriptor -> [name, pos]
  got,      \* the bytes the last call delivered
  wild      \* whether the store has ended in a caller's memory

vars == <<content, desc, got, wild>>

Init ==
  /\ content = Initial
  /\ desc = << >>
  /\ got = << >>
  /\ wild = FALSE

Existing == DOMAIN content
Opened   == DOMAIN desc

Size(fd) == Len(content[desc[fd].name])

(* The descriptors after the file of fd is left at position p of it. *)
At(fd, p) == [desc EXCEPT ![fd].pos = p]

(* A file comes into existence, empty. *)
Create(n) ==
  /\ n \notin Existing
  /\ content' = [m \in Existing \cup {n} |-> IF m = n THEN << >> ELSE content[m]]
  /\ got' = << >>
  /\ UNCHANGED desc

(* A closed descriptor is opened on a file, new, emptied or as it is, at   *)
(* its start or at its end.                                                *)
Open(fd, n) ==
  /\ fd \notin Opened
  /\ \E fresh \in BOOLEAN, append \in BOOLEAN :
       /\ n \notin Existing => fresh
       /\ content' = [m \in Existing \cup {n} |->
                        IF m = n /\ fresh THEN << >> ELSE content[m]]
       /\ desc' = [f \in Opened \cup {fd} |->
                     IF f # fd THEN desc[f]
                     ELSE [name |-> n,
                           pos |-> IF append /\ ~fresh THEN Len(content[n]) ELSE 0]]
  /\ got' = << >>

Close(fd) ==
  /\ desc' = [f \in Opened \ {fd} |-> desc[f]]
  /\ got' = << >>
  /\ UNCHANGED content

(* The next bytes of the file, at most as many as asked and as there are.  *)
Read(fd) ==
  LET p == desc[fd].pos
      c == content[desc[fd].name]
  IN  /\ p <= Size(fd)
      /\ \E k \in 0 .. (Size(fd) - p) :
           /\ got' = SubSeq(c, p + 1, p + k)
           /\ desc' = At(fd, p + k)
      /\ UNCHANGED content

(* Another descriptor has emptied the file since: nothing is promised of   *)
(* the bytes, and the descriptor is at the end of the file afterwards.     *)
ReadBeyond(fd) ==
  /\ desc[fd].pos > Size(fd)
  /\ desc' = At(fd, Size(fd))
  /\ UNCHANGED content

(* Or the bytes do not fit where the caller wants them: what lies behind   *)
(* is overwritten, and the store promises nothing from there on.           *)
Overrun(fd) ==
  /\ desc[fd].pos > Size(fd)
  /\ wild' = TRUE
  /\ got' = << >>
  /\ UNCHANGED <<content, desc>>

(* Bytes replace those at the position and extend the file.  Below the     *)
(* position, the file keeps what it had; if it ended before the position,  *)
(* nothing is promised of the bytes between.                               *)
Write(fd) ==
  LET p == desc[fd].pos
      n == desc[fd].name
      c == content[n]
      e == Len(content'[n])
  IN  /\ DOMAIN content' = Existing
      /\ \A m \in Existing \ {n} : content'[m] = content[m]
      /\ desc' = At(fd, desc'[fd].pos)
      /\ desc'[fd].pos > p
      /\ e = IF desc'[fd].pos > Len(c) THEN desc'[fd].pos ELSE Len(c)
      /\ \E b \in Byte : \A i \in (p + 1) .. desc'[fd].pos : content'[n][i] = b
      /\ \A i \in 1 .. Len(c) :
           i \notin (p + 1) .. desc'[fd].pos => content'[n][i] = c[i]
      /\ got' = << >>

(* A call that is refused, or finds no memory, slot or descriptor. *)
Refuse ==
  /\ got' = << >>
  /\ UNCHANGED <<content, desc>>

Call ==
  \/ Refuse
  \/ \E n \in Names : Create(n)
  \/ \E fd \in Fds, n \in Names : Open(fd, n)
  \/ \E fd \in Opened : Close(fd) \/ Read(fd) \/ ReadBeyond(fd) \/ Write(fd)

Next ==
  /\ ~wild
  /\ \/ Call /\ UNCHANGED wild
     \/ \E fd \in Opened : Overrun(fd)

Spec == Init /\ [][Next]_vars

================================================================================
