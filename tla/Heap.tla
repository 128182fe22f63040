--------------------------------- MODULE Heap ----------------------------------
(***************************************************************************)
(* The kernel heap of syscall.c: one list of blocks laid over the arena    *)
(* [HEAP_START, HEAP_START + HEAP_SIZE), a first-fit sys_handler_malloc    *)
(* that splits, and a sys_handler_free that marks the block and then walks *)
(* the whole list merging free neighbours.                                 *)
(*                                                                         *)
(* Both handlers are loops over `current`; one step of this specification  *)
(* is one iteration.  The handlers run inside the int 0x80 gate with       *)
(* interrupts off on one CPU, so no other call starts before the running   *)
(* one returns: the calls are guarded by pc = "idle".                      *)
(***************************************************************************)
EXTENDS Integers

CONSTANTS
  HeapStart,  (* HEAP_START, the address of the first header            *)
  HeapSize,   (* HEAP_SIZE, the bytes of the arena                      *)
  HdrSize,    (* sizeof(heap_block_t)                                   *)
  BlockSize,  (* BLOCK_SIZE, the rounding of requests                   *)
  Word,       (* 2^32, the modulus of uint32_t                          *)
  Requests    (* the sizes callers ask for, 0 included                  *)

(* Requests stay below the last block of the word, where the rounding of   *)
(* sys_handler_malloc would wrap to 0: every call in the kernel asks for a *)
(* constant, for a file's capacity, or for a positive int (malloc_test).   *)
ASSUME HeapAssumption ==
  /\ HeapStart \in Nat \ {0}
  /\ HeapSize \in Nat
  /\ HdrSize \in Nat \ {0}
  /\ BlockSize \in Nat \ {0}
  /\ Word \in Nat
  /\ HdrSize + BlockSize <= HeapSize
  /\ Requests \subseteq Nat
  /\ \A n \in Requests : n + BlockSize <= Word

HeapEnd == HeapStart + HeapSize
Addr    == HeapStart .. (HeapEnd - 1)

NULL           == 0
OK             == 0
INVALID_PARAMS == -3

VARIABLES
  blk,   \* the headers in the list: address -> [size, is_free, next]
  pc,    \* "idle", "search" (the loop of malloc) or "merge" (that of free)
  cur,   \* current
  want,  \* the bytes the running malloc was asked for
  ret,   \* what the last call returned
  live   \* history: the regions callers hold, records [ptr, len]

vars == <<blk, pc, cur, want, ret, live>>

--------------------------------------------------------------------------------
Headers == DOMAIN blk

(* (uint8_t* )a + sizeof(heap_block_t): the pointer callers get. *)
Data(a) == a + HdrSize

(* The first byte after the block of header a. *)
End(a) == Data(a) + blk[a].size

(* size = (size + BLOCK_SIZE - 1) & ~(BLOCK_SIZE - 1), in uint32_t. *)
RoundUp(n) ==
  LET m == (n + BlockSize - 1) % Word
  IN  m - (m % BlockSize)

(* Mutant: the is_free test is dropped. *)
FitsUsed(a) == blk[a].size >= RoundUp(want)

Fits(a) == blk[a].is_free /\ blk[a].size >= RoundUp(want)

(* Mutant: splits whatever is left over, with no room for the header. *)
SplitTight(a, n) == blk[a].size > n

(* A block is split only when what is left holds a header and more than    *)
(* BLOCK_SIZE bytes.                                                       *)
MustSplit(a, n) == blk[a].size > n + HdrSize + BlockSize

(* The list with the is_free word of a set to f. *)
Marked(a, f) ==
  [blk EXCEPT ![a] = [size |-> @.size, is_free |-> f, next |-> @.next]]

(* Mutant: the tail's header is placed n bytes after the header of a. *)
TakenShort(a, n) ==
  LET rest == a + n
  IN  IF MustSplit(a, n)
      THEN [b \in Headers \cup {rest} |->
              IF b = a THEN [size |-> n, is_free |-> FALSE, next |-> rest]
              ELSE IF b = rest
              THEN [size |-> blk[a].size - n - HdrSize, is_free |-> TRUE, next |-> blk[a].next]
              ELSE blk[b]]
      ELSE Marked(a, FALSE)

(* Give a to the caller, cutting off the tail that n bytes leave over. *)
Taken(a, n) ==
  LET rest == Data(a) + n
      tail == [size    |-> blk[a].size - n - HdrSize,
               is_free |-> TRUE,
               next    |-> blk[a].next]
      head == [size |-> n, is_free |-> FALSE, next |-> rest]
  IN  IF MustSplit(a, n)
      THEN [b \in Headers \cup {rest} |->
              IF b = a THEN head ELSE IF b = rest THEN tail ELSE blk[b]]
      ELSE Marked(a, FALSE)

(* Header a swallows its successor, whose header leaves the list. *)
Merged(a) ==
  LET n == blk[a].next
  IN  [b \in Headers \ {n} |->
         IF b = a
         THEN [size    |-> blk[a].size + blk[n].size + HdrSize,
               is_free |-> TRUE,
               next    |-> blk[n].next]
         ELSE blk[b]]

--------------------------------------------------------------------------------
(* heap_init, called by syscall_initialize: one free block. *)
Init ==
  /\ blk = [a \in {HeapStart} |->
              [size |-> HeapSize - HdrSize, is_free |-> TRUE, next |-> NULL]]
  /\ pc = "idle"
  /\ cur = NULL
  /\ want = 0
  /\ ret = OK
  /\ live = {}

(* sys_handler_malloc up to its loop. *)
Malloc(n) ==
  /\ pc = "idle"
  /\ IF n = 0
     THEN ret' = NULL /\ UNCHANGED <<pc, cur, want>>
     ELSE pc' = "search" /\ cur' = HeapStart /\ want' = n /\ UNCHANGED ret
  /\ UNCHANGED <<blk, live>>

Return(r) ==
  /\ pc' = "idle"
  /\ cur' = NULL
  /\ want' = 0
  /\ ret' = r

(* One iteration of malloc's loop: take the block, look at the next one,   *)
(* or run off the list.                                                    *)
Take ==
  /\ pc = "search"
  /\ cur # NULL
  /\ Fits(cur)
  /\ blk' = Taken(cur, RoundUp(want))
  /\ live' = live \cup {[ptr |-> Data(cur), len |-> want]}
  /\ Return(Data(cur))

(* Mutant: stays at a free block that is too small. *)
SkipStuck ==
  /\ pc = "search"
  /\ cur # NULL
  /\ ~Fits(cur)
  /\ cur' = IF blk[cur].is_free THEN cur ELSE blk[cur].next
  /\ UNCHANGED <<blk, pc, want, ret, live>>

Skip ==
  /\ pc = "search"
  /\ cur # NULL
  /\ ~Fits(cur)
  /\ cur' = blk[cur].next
  /\ UNCHANGED <<blk, pc, want, ret, live>>

(* Mutant: gives up at the last block instead of after it. *)
OutOfMemoryEarly ==
  /\ pc = "search"
  /\ cur = NULL \/ blk[cur].next = NULL
  /\ Return(NULL)
  /\ UNCHANGED <<blk, live>>

OutOfMemory ==
  /\ pc = "search"
  /\ cur = NULL
  /\ Return(NULL)
  /\ UNCHANGED <<blk, live>>

(* Mutant: the merging pass starts at the freed block. *)
FreeForward(r) ==
  /\ pc = "idle"
  /\ blk' = Marked(r.ptr - HdrSize, TRUE)
  /\ live' = live \ {r}
  /\ pc' = "merge"
  /\ cur' = r.ptr - HdrSize
  /\ UNCHANGED <<want, ret>>

(* sys_handler_free up to its loop, for a pointer the caller holds; the    *)
(* handler marks the header it finds HdrSize below the pointer.            *)
Free(r) ==
  /\ pc = "idle"
  /\ blk' = Marked(r.ptr - HdrSize, TRUE)
  /\ live' = live \ {r}
  /\ pc' = "merge"
  /\ cur' = HeapStart
  /\ UNCHANGED <<want, ret>>

FreeNull ==
  /\ pc = "idle"
  /\ ret' = INVALID_PARAMS
  /\ UNCHANGED <<blk, pc, cur, want, live>>

(* One iteration of free's loop.  After a merge the same block is looked   *)
(* at again, for it may swallow its new successor too.                     *)
BothFree(a) ==
  /\ blk[a].next # NULL
  /\ blk[a].is_free
  /\ blk[blk[a].next].is_free

MergeNext ==
  /\ pc = "merge"
  /\ BothFree(cur)
  /\ blk' = Merged(cur)
  /\ UNCHANGED <<pc, cur, want, ret, live>>

MoveOn ==
  /\ pc = "merge"
  /\ blk[cur].next # NULL
  /\ ~BothFree(cur)
  /\ cur' = blk[cur].next
  /\ UNCHANGED <<blk, pc, want, ret, live>>

MergeDone ==
  /\ pc = "merge"
  /\ blk[cur].next = NULL
  /\ Return(OK)
  /\ UNCHANGED <<blk, live>>

--------------------------------------------------------------------------------
Next ==
  \/ \E n \in Requests : Malloc(n)
  \/ Take \/ Skip \/ OutOfMemory
  \/ \E r \in live : Free(r)
  \/ FreeNull
  \/ MergeNext \/ MoveOn \/ MergeDone

(* The loops of the handlers, which the CPU runs to their end. *)
Loop == Take \/ Skip \/ OutOfMemory \/ MergeNext \/ MoveOn \/ MergeDone

Spec == Init /\ [][Next]_vars

--------------------------------------------------------------------------------
TypeOK ==
  /\ HeapStart \in Headers
  /\ Headers \subseteq Addr
  /\ blk \in [Headers -> [size : Nat, is_free : BOOLEAN, next : Headers \cup {NULL}]]
  /\ pc \in {"idle", "search", "merge"}
  /\ cur \in Headers \cup {NULL}
  /\ pc = "merge" => cur # NULL
  /\ want \in Requests \cup {0}
  /\ pc = "search" => want # 0
  /\ ret \in Addr \cup {NULL, OK, INVALID_PARAMS}
  /\ live \in SUBSET [ptr : Addr, len : Requests \ {0}]

(* The blocks tile the arena in list order: each ends where its successor  *)
(* begins, the last ends with the arena, and no header lies inside         *)
(* another block.  A split or a merge that is off by a header breaks it.   *)
Tiling ==
  /\ \A a \in Headers :
       /\ End(a) <= HeapEnd
       /\ blk[a].next = IF End(a) = HeapEnd THEN NULL ELSE End(a)
  /\ \A a, b \in Headers : a < b => End(a) <= b

(* Used blocks and holders correspond one to one: no block is lost (in use *)
(* with nobody to free it) and no holder's block is free or too small.     *)
Ownership ==
  /\ \A r \in live :
       /\ r.ptr - HdrSize \in Headers
       /\ ~blk[r.ptr - HdrSize].is_free
       /\ r.len <= blk[r.ptr - HdrSize].size
  /\ \A a \in Headers : ~blk[a].is_free => \E r \in live : r.ptr = Data(a)
  /\ \A r, s \in live : r.ptr = s.ptr => r = s

(* Between calls no two neighbours are both free: the merging pass of free *)
(* finds every pair, and malloc makes none.  While the pass runs, the      *)
(* pairs left are at current or after it.                                  *)
Coalesced ==
  \A a \in Headers :
    BothFree(a) => pc = "merge" /\ cur <= a

(* The header words the allocator writes are outside every region a caller *)
(* holds, so malloc and free of one holder never change another's data     *)
(* (syscall_test.c:277-297 and :307-330 verify the patterns).              *)
HeadersOutsideData ==
  \A a \in Headers, r \in live :
    \/ Data(a) <= r.ptr
    \/ r.ptr + r.len <= a

(* Once every holder has freed its region the heap is one block again:     *)
(* nothing leaks and nothing stays fragmented.                             *)
EmptyHeapIsWhole ==
  live = {} /\ pc = "idle" => Headers = {HeapStart}

(* malloc is first fit, and it answers "no memory" only when no free block *)
(* of the list would do.                                                   *)
FirstFit ==
  [][pc = "search" /\ pc' = "idle" =>
       \A a \in Headers : Fits(a) => ret' # NULL /\ ret' <= Data(a)]_vars

(* The blocks the search has passed do not fit. *)
Passed ==
  pc = "search" => \A a \in Headers : (cur = NULL \/ a < cur) => ~Fits(a)

(* Every call returns: the list is finite and the merging pass, which does *)
(* not always advance, shortens it when it does not.                       *)
CallReturns == (pc # "idle") ~> (pc = "idle")

(* The heap implements the abstract allocator. *)
Abstract == INSTANCE Allocator WITH Arena <- Addr
AllocatorSpec == Abstract!Spec
AbstractDisjoint == Abstract!Disjoint

================================================================================
