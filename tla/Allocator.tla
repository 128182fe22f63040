------------------------------- MODULE Allocator -------------------------------
(***************************************************************************)
(* What the kernel heap promises to the code that calls sys_malloc and     *)
(* sys_free (syscall.c): a successful malloc hands out a region of the     *)
(* arena that no other holder has, free gives one such region back, and a  *)
(* call may also change nothing (malloc of 0 bytes, out of memory, free of *)
(* a null pointer).  Module Heap is shown to implement this specification, *)
(* and module Vfs is built on it.                                          *)
(***************************************************************************)
EXTENDS Integers

CONSTANTS
  Arena,     (* the byte addresses the heap manages                     *)
  Requests   (* the sizes callers ask for                               *)

VARIABLE live  \* the regions handed out: a set of records [ptr, len]

(* The bytes of a region. *)
Bytes(r) == r.ptr .. (r.ptr + r.len - 1)

Overlaps(r, s) == \E b \in Bytes(r) : b \in Bytes(s)

Init == live = {}

Malloc(r) ==
  /\ r.len > 0
  /\ Bytes(r) \subseteq Arena
  /\ \A s \in live : ~Overlaps(r, s)
  /\ live' = live \cup {r}

Free(r) == live' = live \ {r}

Next ==
  \/ \E p \in Arena, n \in Requests : Malloc([ptr |-> p, len |-> n])
  \/ \E r \in live : Free(r)

Spec == Init /\ [][Next]_live

(* Two holders never share a byte: what phases 2 and 4 of               *)
(* syscall_test_heap_integrity (syscall_test.c:277, :307) look for.      *)
Disjoint == \A r, s \in live : r # s => ~Overlaps(r, s)

================================================================================
