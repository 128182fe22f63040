-------------------------------- MODULE HeapTexts ------------------------------
(***************************************************************************)
(* The kernel heap with the two stores its users make outside what they    *)
(* hold.  ramfs_write_file ends a text with a zero byte, which lies behind *)
(* its buffer when the text fills it; sys_handler_write frees the buffer   *)
(* of a growing file, which for a default file is a string literal that    *)
(* the heap never handed out.                                              *)
(***************************************************************************)
EXTENDS Heap, FiniteSets

CONSTANT Byte (* 2^8; capacities of files are multiples of it *)

ASSUME HeapTextsAssumption == Byte \in Nat \ {0}

(* Mutant: the store is as wide as the size it hits. *)
ZeroWordAt(p) == IF p \in Headers THEN [blk EXCEPT ![p].size = 0] ELSE blk

(* The list after a zero byte is stored at p.  If the block before p has   *)
(* no slack, p is the low byte of the next header's size.                  *)
ZeroAt(p) ==
  IF p \in Headers THEN [blk EXCEPT ![p].size = @ - (@ % Byte)] ELSE blk

(* The end of ramfs_write_file, for a text as long as the file's buffer. *)
EndText(r) ==
  /\ pc = "idle"
  /\ r.len % Byte = 0
  /\ blk' = ZeroAt(r.ptr + r.len)
  /\ UNCHANGED <<pc, cur, want, ret, live>>

(* sys_handler_free of a literal: the is_free word it stores is outside    *)
(* the arena, and the merging pass follows.                                *)
FreeLiteral ==
  /\ pc = "idle"
  /\ pc' = "merge" /\ cur' = HeapStart
  /\ UNCHANGED <<blk, want, ret, live>>

TextsNext == Next \/ FreeLiteral \/ \E r \in live : EndText(r)

TextsSpec == Init /\ [][TextsNext]_vars

FairTextsSpec == TextsSpec /\ WF_vars(Loop)

--------------------------------------------------------------------------------
(* The bytes of the arena that belong to no block any more. *)
Stray == {p \in Addr : \A a \in Headers : p \notin a .. End(a) - 1}
Lost  == Cardinality(Stray)

(* The damage of such a text is bounded and for good: it costs less than   *)
(* 256 bytes of the block behind the buffer, used or free, and no later    *)
(* split, merge or free loses more of them or finds them again.  That the  *)
(* regions handed out stay disjoint all the same is AllocatorSpec, and     *)
(* that malloc and free still come to an end is CallReturns.               *)
LostForGood ==
  [][/\ Lost' - Lost \in 0 .. Byte - 1
     /\ Lost' # Lost => \E r \in live : r.ptr + r.len \in Headers]_vars

(* The lost bytes are all there is to it: as long as none is, the blocks   *)
(* tile the arena, and each used one has a holder whose bytes it has.      *)
WholeUnlessLost == Lost = 0 => Tiling /\ Ownership

================================================================================
