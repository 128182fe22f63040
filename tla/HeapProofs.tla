------------------------------ MODULE HeapProofs -------------------------------
(***************************************************************************)
(* Proofs about the heap of syscall.c, for every arena, header size,       *)
(* rounding, set of requests and width of a byte HeapAssumption allows.    *)
(*                                                                         *)
(* First, of module Heap alone: one inductive invariant carries            *)
(* everything: the blocks tile the arena, used blocks and holders match,   *)
(* and the two loops leave no pair of free neighbours and no fitting block *)
(* behind `current`.  Each action has a lemma saying that it keeps the     *)
(* invariant.                                                              *)
(*                                                                         *)
(* Then, of module HeapTexts: the heap keeps its promise to the holders of *)
(* regions although its users end texts behind their buffers and free      *)
(* literals.  The sizes in the list are no longer exact, so the tiling and *)
(* ownership of the first part do not hold.  What is left of them is       *)
(* enough: a size is never too large, and the list still has every header  *)
(* in order.  Bytes that no block has any more are counted: each step      *)
(* either leaves the blocks their bytes, moves those between two blocks    *)
(* behind both, or takes some from one block.                              *)
(***************************************************************************)
EXTENDS HeapTexts, FiniteSetTheorems, TLAPS

(* The inductive invariant.  Coalesced needs Tiling (the successor of a    *)
(* block is the next header up), Ownership needs Tiling (a split leaves    *)
(* the other blocks alone), and FirstFit needs Passed.                     *)
IInv ==
  /\ TypeOK
  /\ Tiling
  /\ Ownership
  /\ Coalesced
  /\ Passed

(* A number below the modulus is its own remainder. *)
LEMMA ModSmall == ASSUME NEW a \in Nat, NEW b \in Nat, a < b PROVE a % b = a
  BY Z3

(* The rounding of sys_handler_malloc gives at least what was asked for,   *)
(* and not zero.                                                           *)
LEMMA RoundUpBounds ==
  ASSUME NEW n \in Requests, n # 0
  PROVE  RoundUp(n) \in Nat /\ RoundUp(n) >= n
<1> DEFINE m == n + BlockSize - 1
<1>1. m \in Nat /\ m < Word /\ Word \in Nat /\ BlockSize \in Nat \ {0} /\ n \in Nat
  BY HeapAssumption
<1>2. m % Word = m
  BY <1>1, ModSmall
<1>3. m % BlockSize \in 0 .. BlockSize - 1
  BY <1>1
<1> QED
  BY <1>1, <1>2, <1>3 DEF RoundUp

(* heap_init leaves one free block, which satisfies the invariant. *)
LEMMA InitIInv == Init => IInv
<1> SUFFICES ASSUME Init PROVE IInv
  OBVIOUS
<1> USE HeapAssumption DEF Init, Headers, Data, End, NULL, OK
<1>1. TypeOK
  BY DEF TypeOK, Addr, HeapEnd
<1>2. Tiling
  BY DEF Tiling, HeapEnd
<1>3. Ownership
  BY DEF Ownership
<1>4. Coalesced
  BY DEF Coalesced, BothFree
<1>5. Passed
  BY DEF Passed
<1> QED
  BY <1>1, <1>2, <1>3, <1>4, <1>5 DEF IInv

(* The types of the parts of the state, one by one, for later citation. *)
LEMMA Typing ==
  ASSUME TypeOK
  PROVE  /\ HeapStart \in Nat /\ HeapEnd \in Nat /\ HdrSize \in Nat \ {0} /\ BlockSize \in Nat \ {0}
         /\ NULL < HeapStart
         /\ Addr = HeapStart .. (HeapEnd - 1)
         /\ \A a \in Headers : /\ a \in Nat /\ HeapStart <= a /\ a < HeapEnd
                               /\ blk[a].size \in Nat /\ blk[a].is_free \in BOOLEAN
                               /\ blk[a].next \in Headers \cup {NULL}
                               /\ End(a) = a + HdrSize + blk[a].size
                               /\ End(a) \in Nat /\ Data(a) = a + HdrSize
                               /\ Data(a) \in Nat
         /\ \A r \in live : /\ r.ptr \in Nat /\ r.len \in Nat \ {0}
<1>1. /\ HeapStart \in Nat /\ HeapEnd \in Nat /\ HdrSize \in Nat \ {0} /\ BlockSize \in Nat \ {0}
      /\ NULL < HeapStart
      /\ Addr = HeapStart .. (HeapEnd - 1)
  BY HeapAssumption DEF Addr, HeapEnd, NULL
<1>2. ASSUME NEW a \in Headers
      PROVE  /\ a \in Nat /\ HeapStart <= a /\ a < HeapEnd
             /\ blk[a].size \in Nat /\ blk[a].is_free \in BOOLEAN
             /\ blk[a].next \in Headers \cup {NULL}
  <2>1. a \in Addr
    BY <1>2 DEF TypeOK
  <2>2. blk[a] \in [size : Nat, is_free : BOOLEAN, next : Headers \cup {NULL}]
    BY <1>2 DEF TypeOK
  <2> QED BY <1>1, <2>1, <2>2
<1>3. \A a \in Headers : /\ End(a) = a + HdrSize + blk[a].size /\ Data(a) = a + HdrSize
                         /\ End(a) \in Nat /\ Data(a) \in Nat
  BY <1>1, <1>2, SMTT(20) DEF End, Data
<1>4. ASSUME NEW r \in live
      PROVE  /\ r.ptr \in Nat /\ r.len \in Nat \ {0}
  <2>1. r \in [ptr : Addr, len : Requests \ {0}]
    BY <1>4 DEF TypeOK
  <2>2. r.ptr \in Addr /\ r.len \in Requests \ {0}
    BY <2>1
  <2>3. r.ptr \in Nat
    BY <2>2, <1>1
  <2>4. r.len \in Nat \ {0}
    BY <2>2, HeapAssumption
  <2> QED BY <2>3, <2>4
<1> QED BY <1>1, <1>2, <1>3, <1>4

(* When a free block becomes used and its data region gets a holder, used  *)
(* blocks and holders still match.                                         *)
LEMMA GrantOwnership ==
  ASSUME TypeOK, Ownership, NEW c \in Headers, blk[c].is_free, want \in Nat,
         live' = live \cup {[ptr |-> Data(c), len |-> want]},
         Headers \subseteq Headers',
         \A b \in Headers \ {c} : blk'[b] = blk[b],
         \A b \in Headers' \ Headers : blk'[b].is_free,
         ~blk'[c].is_free, want <= blk'[c].size
  PROVE  Ownership'
<1> DEFINE new == [ptr |-> Data(c), len |-> want]
<1>1. Data(c) - HdrSize = c /\ Data(c) = c + HdrSize
  BY Typing DEF Data
<1>2. new \in live' /\ new.ptr = Data(c) /\ new.len = want
  OBVIOUS
<1>3. ASSUME NEW r \in live
      PROVE  r.ptr # Data(c) /\ r.ptr - HdrSize \in Headers
             /\ ~blk'[r.ptr - HdrSize].is_free /\ r.len <= blk'[r.ptr - HdrSize].size
  <2> DEFINE h == r.ptr - HdrSize
  <2>1. h \in Headers /\ ~blk[h].is_free /\ r.len <= blk[h].size /\ r.ptr \in Nat
    BY Typing DEF Ownership
  <2>2. h # c
    BY <2>1
  <2> QED BY <2>1, <2>2, <1>1
<1>4. \A r \in live' : /\ r.ptr - HdrSize \in Headers'
                       /\ ~blk'[r.ptr - HdrSize].is_free
                       /\ r.len <= blk'[r.ptr - HdrSize].size
  BY <1>1, <1>3
<1>5. ASSUME NEW a \in Headers', ~blk'[a].is_free
      PROVE  \E r \in live' : r.ptr = Data(a)
  <2> HIDE DEF new
  <2>1. CASE a = c
    BY <2>1, <1>2
  <2>2. CASE a \in Headers \ {c}
    BY <2>2, <1>5 DEF Ownership
  <2> QED BY <2>1, <2>2, <1>5
<1>6. \A r, s \in live' : r.ptr = s.ptr => r = s
  BY <1>3 DEF Ownership
<1> QED BY <1>4, <1>5, <1>6 DEF Ownership, Data

(* malloc takes the head of a block and leaves its tail free. *)
LEMMA SplitKeeps ==
  ASSUME IInv, Take, NEW c, c = cur, NEW n, n = RoundUp(want), NEW rest, rest = Data(c) + n,
         MustSplit(c, n)
  PROVE  IInv'
<1>0. TypeOK /\ Tiling /\ Ownership /\ Coalesced /\ Passed
  BY DEF IInv
<1>1. /\ c \in Headers
      /\ want \in Requests \ {0}
      /\ n \in Nat /\ n >= want
      /\ blk[c].is_free
      /\ blk[c].size \in Nat
      /\ blk[c].size > n + HdrSize + BlockSize
      /\ live' = live \cup {[ptr |-> Data(c), len |-> want]}
      /\ pc = "search" /\ pc' = "idle" /\ cur' = NULL /\ want' = 0 /\ ret' = Data(c)
  BY RoundUpBounds, Zenon DEF IInv, TypeOK, Take, Return, Fits, MustSplit, Headers
<1>2. blk' = [b \in Headers \cup {rest} |->
              IF b = c THEN [size |-> n, is_free |-> FALSE, next |-> rest]
              ELSE IF b = rest
                   THEN [size |-> blk[c].size - n - HdrSize, is_free |-> TRUE, next |-> blk[c].next]
                   ELSE blk[b]]
  BY DEF Take, Taken
<1>3. c < rest /\ rest < End(c) /\ rest \in Addr /\ rest \in Nat
  BY <1>1, HeapAssumption DEF IInv, TypeOK, Tiling, Addr, HeapEnd, Data, End
<1>4. rest \notin Headers
  BY <1>1, <1>3, HeapAssumption DEF IInv, TypeOK, Tiling, Addr, HeapEnd, Data, End
<1>5. Headers' = Headers \cup {rest}
  BY <1>2 DEF Headers
<1>6. /\ blk'[c] = [size |-> n, is_free |-> FALSE, next |-> rest]
      /\ blk'[rest] = [size |-> blk[c].size - n - HdrSize, is_free |-> TRUE, next |-> blk[c].next]
      /\ \A b \in Headers \ {c} : blk'[b] = blk[b]
  BY <1>1, <1>2, <1>4
<1>7. blk[c].size - n - HdrSize \in Nat
  BY <1>1, HeapAssumption
<1>8. blk' \in [Headers' -> [size : Nat, is_free : BOOLEAN, next : Headers' \cup {NULL}]]
  BY <1>1, <1>2, <1>4, <1>5, <1>7 DEF IInv, TypeOK
<1>9. want \in Nat /\ want >= 1
  BY <1>1, HeapAssumption
<1>10. TypeOK'
  <2>1. Data(c) \in Addr
    BY <1>1, <1>3, <1>9, HeapAssumption DEF IInv, TypeOK, Addr, HeapEnd, Data
  <2>2. [ptr |-> Data(c), len |-> want] \in [ptr : Addr, len : Requests \ {0}]
    BY <2>1, <1>1
  <2> QED
    BY <1>1, <1>3, <1>5, <1>8, <2>1, <2>2 DEF IInv, TypeOK, NULL
<1>T. /\ HeapStart \in Nat /\ HeapEnd \in Nat /\ HdrSize \in Nat
      /\ \A b \in Headers : /\ b \in Nat /\ blk[b].size \in Nat /\ End(b) \in Nat
                            /\ End(b) = b + HdrSize + blk[b].size
  BY <1>0, Typing
<1>11. End(c)' = rest /\ End(rest)' = End(c) /\ \A b \in Headers \ {c} : End(b)' = End(b)
  <2>1. End(c)' = rest
    BY <1>6 DEF End, Data
  <2>2. End(rest)' = End(c)
    <3>1. blk'[rest].size = blk[c].size - n - HdrSize
      BY <1>6
    <3>2. Data(c) = c + HdrSize /\ rest = c + HdrSize + n
      BY DEF Data
    <3>3. End(rest)' = rest + HdrSize + blk'[rest].size
      BY DEF End, Data
    <3> QED BY <3>1, <3>2, <3>3, <1>1, <1>T
  <2>3. \A b \in Headers \ {c} : End(b)' = End(b)
    BY <1>6 DEF End, Data
  <2> QED BY <2>1, <2>2, <2>3
<1>12. Tiling'
  <2>1. ASSUME NEW a \in Headers'
        PROVE  /\ End(a)' <= HeapEnd
               /\ blk'[a].next = IF End(a)' = HeapEnd THEN NULL ELSE End(a)'
    BY <2>1, <1>1, <1>3, <1>4, <1>5, <1>6, <1>0, <1>11, <1>T DEF Tiling
  <2>2. ASSUME NEW a \in Headers', NEW b \in Headers', a < b
        PROVE  End(a)' <= b
    BY <2>2, <1>1, <1>3, <1>4, <1>5, <1>0, <1>11, <1>T DEF Tiling
  <2> QED BY <2>1, <2>2 DEF Tiling
<1>13. Ownership'
  BY <1>0, <1>1, <1>5, <1>6, <1>9, GrantOwnership
<1>14. Coalesced'
  BY <1>1, <1>3, <1>4, <1>5, <1>6, HeapAssumption DEF IInv, Coalesced, Tiling, TypeOK, BothFree, NULL, Addr, End, Data
<1>15. Passed'
  BY <1>1 DEF Passed
<1> QED
  BY <1>10, <1>12, <1>13, <1>14, <1>15 DEF IInv


(* malloc takes a block whole. *)
LEMMA TakeWholeKeeps ==
  ASSUME IInv, Take, NEW c, c = cur, ~MustSplit(c, RoundUp(want))
  PROVE  IInv'
<1>0. TypeOK /\ Tiling /\ Ownership /\ Coalesced /\ Passed
  BY DEF IInv
<1>1. /\ c \in Headers
      /\ want \in Requests \ {0}
      /\ RoundUp(want) >= want
      /\ blk[c].is_free
      /\ blk[c].size >= RoundUp(want)
      /\ live' = live \cup {[ptr |-> Data(c), len |-> want]}
      /\ pc = "search" /\ pc' = "idle" /\ cur' = NULL /\ want' = 0 /\ ret' = Data(c)
  BY RoundUpBounds, Zenon DEF IInv, TypeOK, Take, Return, Fits, Headers
<1>2. blk' = Marked(c, FALSE)
  BY DEF Take, Taken
<1>3. /\ Headers' = Headers
      /\ \A b \in Headers : blk'[b].size = blk[b].size /\ blk'[b].next = blk[b].next
      /\ ~blk'[c].is_free
      /\ \A b \in Headers \ {c} : blk'[b] = blk[b]
      /\ blk' \in [Headers -> [size : Nat, is_free : BOOLEAN, next : Headers \cup {NULL}]]
  BY <1>0, <1>1, <1>2 DEF Headers, TypeOK, Marked
<1>T. /\ HeapStart \in Nat /\ HeapEnd \in Nat /\ HdrSize \in Nat
      /\ \A b \in Headers : /\ b \in Nat /\ blk[b].size \in Nat /\ End(b) \in Nat
                            /\ End(b) = b + HdrSize + blk[b].size
  BY <1>0, Typing
<1>4. \A b \in Headers : End(b)' = End(b)
  BY <1>3 DEF End, Data
<1>5. want \in Nat /\ want >= 1 /\ want <= blk[c].size
  <2>1. want \in Nat /\ want >= 1
    BY <1>1, HeapAssumption
  <2> QED
    BY <2>1, <1>1, <1>T, RoundUpBounds
<1>6. Data(c) \in Addr
  BY <1>0, <1>1, <1>5, <1>T, HeapAssumption DEF TypeOK, Tiling, Addr, HeapEnd, Data, End
<1>7. TypeOK'
  <2>1. [ptr |-> Data(c), len |-> want] \in [ptr : Addr, len : Requests \ {0}]
    BY <1>1, <1>6
  <2> QED
    BY <1>0, <1>1, <1>3, <1>6, <2>1 DEF TypeOK, NULL
<1>8. Tiling'
  BY <1>0, <1>3, <1>4 DEF Tiling
<1>9. Ownership'
  BY <1>0, <1>1, <1>3, <1>5, GrantOwnership
<1>10. Coalesced'
  BY <1>0, <1>1, <1>3 DEF Coalesced, BothFree, TypeOK
<1>11. Passed'
  BY <1>1 DEF Passed
<1> QED
  BY <1>7, <1>8, <1>9, <1>10, <1>11 DEF IInv


(* free marks the block of a holder and starts the merging pass. *)
LEMMA FreeKeeps ==
  ASSUME IInv, NEW r \in live, Free(r)
  PROVE  IInv'
<1> DEFINE h == r.ptr - HdrSize
<1>0. TypeOK /\ Tiling /\ Ownership /\ Coalesced /\ Passed
  BY DEF IInv
<1>T. /\ HeapStart \in Nat /\ HeapEnd \in Nat /\ HdrSize \in Nat
      /\ \A b \in Headers : /\ b \in Nat /\ HeapStart <= b /\ blk[b].size \in Nat
                            /\ Data(b) = b + HdrSize
      /\ \A s \in live : s.ptr \in Nat
  BY <1>0, Typing
<1>1. h \in Headers
  BY <1>0 DEF Ownership
<1>2. /\ blk' = Marked(h, TRUE)
      /\ live' = live \ {r}
      /\ pc' = "merge" /\ cur' = HeapStart /\ want' = want /\ ret' = ret
  BY DEF Free
<1> HIDE DEF h
<1>3. /\ Headers' = Headers
      /\ \A b \in Headers : blk'[b].size = blk[b].size /\ blk'[b].next = blk[b].next
      /\ blk'[h].is_free
      /\ \A b \in Headers \ {h} : blk'[b] = blk[b]
      /\ blk' \in [Headers -> [size : Nat, is_free : BOOLEAN, next : Headers \cup {NULL}]]
  BY <1>0, <1>1, <1>2 DEF Headers, TypeOK, Marked
<1>4. \A b \in Headers : End(b)' = End(b)
  BY <1>3 DEF End, Data
<1>5. TypeOK'
  BY <1>0, <1>2, <1>3, HeapAssumption DEF TypeOK, NULL
<1>6. Tiling'
  BY <1>0, <1>3, <1>4 DEF Tiling
<1>7. Ownership'
  <2>1. ASSUME NEW s \in live'
        PROVE  /\ s.ptr - HdrSize \in Headers'
               /\ ~blk'[s.ptr - HdrSize].is_free
               /\ s.len <= blk'[s.ptr - HdrSize].size
    <3>1. s \in live /\ s # r
      BY <1>2
    <3>2. s.ptr # r.ptr
      BY <3>1, <1>0 DEF Ownership
    <3>3. s.ptr - HdrSize # h
      BY <3>1, <3>2, <1>T DEF h
    <3> QED BY <3>1, <3>3, <1>0, <1>3 DEF Ownership
  <2>2. ASSUME NEW a \in Headers', ~blk'[a].is_free
        PROVE  \E s \in live' : s.ptr = Data(a)
    <3>1. a \in Headers /\ a # h /\ ~blk[a].is_free
      BY <2>2, <1>3
    <3>2. PICK s \in live : s.ptr = Data(a)
      BY <3>1, <1>0 DEF Ownership
    <3>3. s # r
      BY <3>1, <3>2, <1>T DEF h
    <3> QED BY <3>2, <3>3, <1>2
  <2>3. \A s, t \in live' : s.ptr = t.ptr => s = t
    BY <1>0, <1>2 DEF Ownership
  <2> QED BY <2>1, <2>2, <2>3 DEF Ownership, Data
<1>8. Coalesced'
  BY <1>2, <1>3, <1>T DEF Coalesced
<1>9. Passed'
  BY <1>2 DEF Passed
<1> QED
  BY <1>5, <1>6, <1>7, <1>8, <1>9 DEF IInv

(* A block swallows its free successor. *)
LEMMA MergeKeeps ==
  ASSUME IInv, MergeNext, NEW c, c = cur, NEW n, n = blk[c].next
  PROVE  IInv'
<1>0. TypeOK /\ Tiling /\ Ownership /\ Coalesced /\ Passed
  BY DEF IInv
<1>T. /\ HeapStart \in Nat /\ HeapEnd \in Nat /\ HdrSize \in Nat \ {0} /\ NULL < HeapStart
      /\ \A b \in Headers : /\ b \in Nat /\ HeapStart <= b /\ blk[b].size \in Nat
                            /\ blk[b].next \in Headers \cup {NULL}
                            /\ Data(b) = b + HdrSize
                            /\ End(b) = b + HdrSize + blk[b].size
  BY <1>0, Typing
<1>1. /\ pc = "merge" /\ pc' = "merge" /\ cur' = c /\ want' = want /\ ret' = ret /\ live' = live
      /\ c \in Headers /\ n \in Headers /\ blk[c].is_free /\ blk[n].is_free
  BY <1>0, <1>T DEF MergeNext, BothFree, TypeOK
<1>2. n = End(c) /\ n > c
  BY <1>0, <1>1, <1>T DEF Tiling
<1>3. blk' = [b \in Headers \ {n} |->
               IF b = c THEN [size |-> blk[c].size + blk[n].size + HdrSize,
                              is_free |-> TRUE, next |-> blk[n].next]
               ELSE blk[b]]
  BY DEF MergeNext, Merged
<1>4. /\ Headers' = Headers \ {n}
      /\ blk'[c] = [size |-> blk[c].size + blk[n].size + HdrSize,
                    is_free |-> TRUE, next |-> blk[n].next]
      /\ \A b \in Headers' \ {c} : blk'[b] = blk[b]
  BY <1>1, <1>2, <1>3, <1>T DEF Headers
<1>5. End(c)' = End(n) /\ \A b \in Headers' \ {c} : End(b)' = End(b)
  <2>1. End(c)' = c + HdrSize + (blk[c].size + blk[n].size + HdrSize)
    BY <1>4 DEF End, Data
  <2>2. End(c)' = End(n)
    BY <2>1, <1>1, <1>2, <1>T
  <2> QED BY <2>2, <1>4 DEF End, Data
<1>6. HeapStart # n
  BY <1>1, <1>2, <1>T
<1>7. \A b \in Headers \ {c} : blk[b].next # n
  <2> SUFFICES ASSUME NEW b \in Headers \ {c}, blk[b].next = n PROVE FALSE
    OBVIOUS
  <2>1. End(b) = n
    BY <1>0, <1>1, <1>T DEF Tiling
  <2>2. CASE b < c
    BY <2>1, <2>2, <1>0, <1>1, <1>2, <1>T DEF Tiling
  <2>3. CASE c < b
    BY <2>1, <2>3, <1>0, <1>1, <1>2, <1>T DEF Tiling
  <2> QED BY <2>2, <2>3, <1>1, <1>T
<1>8. blk[n].next # n
  BY <1>0, <1>1, <1>2, <1>T DEF Tiling
<1>9. TypeOK'
  <2>1. ASSUME NEW b \in Headers'
        PROVE  blk'[b] \in [size : Nat, is_free : BOOLEAN, next : Headers' \cup {NULL}]
    <3>1. CASE b = c
      BY <3>1, <1>1, <1>4, <1>8, <1>T
    <3>2. CASE b # c
      BY <3>2, <2>1, <1>0, <1>4, <1>7, <1>T DEF TypeOK
    <3> QED BY <3>1, <3>2
  <2>2. blk' \in [Headers' -> [size : Nat, is_free : BOOLEAN, next : Headers' \cup {NULL}]]
    BY <2>1, <1>3, <1>4
  <2>3. c \in Headers' /\ HeapStart \in Headers' /\ Headers' \subseteq Addr
    <3>1. HeapStart \in Headers /\ Headers \subseteq Addr
      BY <1>0 DEF TypeOK
    <3>2. c # n
      BY <1>1, <1>2, <1>T
    <3> QED BY <3>1, <3>2, <1>1, <1>4, <1>6
  <2>4. c # NULL
    BY <1>1, <1>T
  <2> QED
    BY <1>0, <1>1, <2>2, <2>3, <2>4 DEF TypeOK
<1>10. Tiling'
  <2>1. ASSUME NEW a \in Headers'
        PROVE  /\ End(a)' <= HeapEnd
               /\ blk'[a].next = IF End(a)' = HeapEnd THEN NULL ELSE End(a)'
    BY <2>1, <1>0, <1>1, <1>4, <1>5 DEF Tiling
  <2>2. ASSUME NEW a \in Headers', NEW b \in Headers', a < b
        PROVE  End(a)' <= b
    <3>1. CASE a = c
      BY <3>1, <2>2, <1>0, <1>1, <1>2, <1>4, <1>5, <1>T DEF Tiling
    <3>2. CASE a # c
      BY <3>2, <2>2, <1>0, <1>4, <1>5 DEF Tiling
    <3> QED BY <3>1, <3>2
  <2> QED BY <2>1, <2>2 DEF Tiling
<1>11. Ownership'
  BY <1>0, <1>1, <1>4 DEF Ownership, Data
<1>12. Coalesced'
  BY <1>0, <1>1, <1>2, <1>4, <1>7, <1>T DEF Coalesced, BothFree
<1>13. Passed'
  BY <1>1 DEF Passed
<1> QED
  BY <1>9, <1>10, <1>11, <1>12, <1>13 DEF IInv


(* Every step keeps the invariant. *)
LEMMA NextIInv == IInv /\ [Next]_vars => IInv'
<1> SUFFICES ASSUME IInv, [Next]_vars PROVE IInv'
  OBVIOUS
<1>0. TypeOK /\ Tiling /\ Ownership /\ Coalesced /\ Passed
  BY DEF IInv
<1>T. /\ HeapStart \in Nat /\ NULL < HeapStart
      /\ \A b \in Headers : /\ b \in Nat /\ HeapStart <= b
                            /\ blk[b].next \in Headers \cup {NULL}
                            /\ End(b) = b + HdrSize + blk[b].size
  BY <1>0, Typing
(* The steps that leave the list and the holders alone. *)
<1>1. ASSUME UNCHANGED <<blk, live>>
      PROVE  Tiling' /\ Ownership'
  BY <1>0, <1>1 DEF Tiling, Ownership, Headers, End, Data
<1>2. ASSUME NEW n \in Requests, Malloc(n)
      PROVE  IInv'
  <2>1. TypeOK'
    BY <1>2, <1>0, <1>T DEF Malloc, TypeOK, Headers, NULL
  <2>2. Coalesced'
    BY <1>2, <1>0 DEF Malloc, Coalesced, BothFree, Headers
  <2>3. Passed'
    BY <1>2, <1>0, <1>T DEF Malloc, Passed, Headers, NULL
  <2> QED BY <1>1, <1>2, <2>1, <2>2, <2>3 DEF IInv, Malloc
<1>3. CASE Take
  BY <1>3, SplitKeeps, TakeWholeKeeps
<1>4. CASE Skip
  <2>1. TypeOK'
    BY <1>4, <1>0, <1>T DEF Skip, TypeOK, Headers
  <2>2. Coalesced'
    BY <1>4, <1>0 DEF Skip, Coalesced, BothFree, Headers
  <2>3. Passed'
    <3> SUFFICES ASSUME NEW a \in Headers, cur' = NULL \/ a < cur'
                 PROVE  ~Fits(a)
      BY <1>4 DEF Passed, Skip, Headers, Fits
    <3>1. cur \in Headers /\ cur' = blk[cur].next
      BY <1>4, <1>0 DEF Skip, TypeOK
    <3>2. CASE a <= cur
      BY <3>1, <3>2, <1>4, <1>0, <1>T DEF Skip, Passed
    <3>3. CASE cur < a
      <4>1. End(cur) <= a /\ a < HeapEnd
        BY <3>1, <3>3, <1>0, Typing DEF Tiling
      <4>2. cur' = End(cur)
        BY <4>1, <3>1, <1>0, Typing DEF Tiling
      <4>3. cur' \in Nat /\ cur' <= a
        BY <4>1, <4>2, <3>1, <1>0, Typing
      <4>4. End(cur) # NULL
        BY <3>1, <1>0, <1>T, Typing DEF NULL
      <4> QED BY <4>2, <4>3, <4>4, <1>T
    <3> QED BY <3>1, <3>2, <3>3, <1>T
  <2> QED BY <1>1, <1>4, <2>1, <2>2, <2>3 DEF IInv, Skip
<1>5. CASE OutOfMemory
  <2>1. TypeOK'
    BY <1>5, <1>0 DEF OutOfMemory, Return, TypeOK, Headers
  <2>2. Coalesced' /\ Passed'
    BY <1>5, <1>0 DEF OutOfMemory, Return, Coalesced, Passed, BothFree, Headers
  <2> QED BY <1>1, <1>5, <2>1, <2>2 DEF IInv, OutOfMemory
<1>6. ASSUME NEW r \in live, Free(r)
      PROVE  IInv'
  BY <1>6, FreeKeeps
<1>7. CASE FreeNull
  <2>1. TypeOK'
    BY <1>7, <1>0 DEF FreeNull, TypeOK, Headers
  <2>2. Coalesced' /\ Passed'
    BY <1>7, <1>0 DEF FreeNull, Coalesced, Passed, BothFree, Headers
  <2> QED BY <1>1, <1>7, <2>1, <2>2 DEF IInv, FreeNull
<1>8. CASE MergeNext
  BY <1>8, MergeKeeps
<1>9. CASE MoveOn
  <2>0. cur \in Headers /\ cur' = blk[cur].next /\ cur' \in Headers
    BY <1>9, <1>0, <1>T DEF MoveOn, TypeOK
  <2>1. TypeOK'
    BY <1>9, <1>0, <1>T, <2>0 DEF MoveOn, TypeOK, Headers
  <2>2. Coalesced'
    <3> SUFFICES ASSUME NEW a \in Headers, BothFree(a)
                 PROVE  cur' <= a
      BY <1>9 DEF MoveOn, Coalesced, BothFree, Headers
    <3>1. cur <= a /\ a # cur
      BY <1>9, <1>0 DEF MoveOn, Coalesced
    <3>2. End(cur) <= a
      BY <3>1, <2>0, <1>0, <1>T DEF Tiling
    <3>3. cur' = End(cur)
      BY <2>0, <1>0, <1>T DEF Tiling
    <3> QED BY <3>2, <3>3
  <2>3. Passed'
    BY <1>9 DEF MoveOn, Passed
  <2> QED BY <1>1, <1>9, <2>1, <2>2, <2>3 DEF IInv, MoveOn
<1>10. CASE MergeDone
  <2>1. TypeOK'
    BY <1>10, <1>0 DEF MergeDone, Return, TypeOK, Headers
  <2>2. Coalesced'
    <3> SUFFICES ASSUME NEW a \in Headers, BothFree(a)
                 PROVE  FALSE
      BY <1>10 DEF MergeDone, Return, Coalesced, BothFree, Headers
    <3>1. cur \in Headers /\ blk[cur].next = NULL
      BY <1>10, <1>0 DEF MergeDone, TypeOK
    <3>2. cur <= a /\ a # cur
      BY <3>1, <1>0 DEF Coalesced, BothFree
    <3>3. End(cur) <= a /\ a < HeapEnd
      BY <3>1, <3>2, <1>0, Typing DEF Tiling
    <3>4. End(cur) # NULL
      BY <3>1, <1>0, <1>T, Typing DEF NULL
    <3>5. End(cur) = HeapEnd
      BY <3>1, <3>4, <1>0 DEF Tiling
    <3> QED BY <3>3, <3>5, <1>0, Typing
  <2>3. Passed'
    BY <1>10 DEF MergeDone, Return, Passed
  <2> QED BY <1>1, <1>10, <2>1, <2>2, <2>3 DEF IInv, MergeDone
<1>11. CASE UNCHANGED vars
  <2>1. TypeOK' /\ Coalesced' /\ Passed'
    BY <1>11, <1>0 DEF vars, TypeOK, Coalesced, Passed, BothFree, Fits, Headers
  <2> QED BY <1>1, <1>11, <2>1 DEF IInv, vars
<1> QED
  BY <1>2, <1>3, <1>4, <1>5, <1>6, <1>7, <1>8, <1>9, <1>10, <1>11 DEF Next

(* So every reachable state satisfies it. *)
LEMMA Inductive == Spec => []IInv
<1>1. Init => IInv
  BY InitIInv
<1>2. IInv /\ [Next]_vars => IInv'
  BY NextIInv
<1> QED BY <1>1, <1>2, PTL DEF Spec


--------------------------------------------------------------------------------
(* Type correctness of the block list and of the handlers' cursors, in     *)
(* every reachable state of sys_handler_malloc and sys_handler_free.       *)
THEOREM TypeCorrect == Spec => []TypeOK
  BY Inductive, PTL DEF IInv

(* The blocks always tile the arena: no split and no merge of syscall.c    *)
(* loses, invents or overlaps a byte.                                      *)
THEOREM HeapTiled == Spec => []Tiling
  BY Inductive, PTL DEF IInv

(* Between calls there are never two free neighbours: one merging pass of  *)
(* sys_handler_free is enough, whatever the history of calls.              *)
THEOREM HeapCoalesced == Spec => []Coalesced
  BY Inductive, PTL DEF IInv

(* Every used block has exactly one holder and is large enough for it.     *)
THEOREM BlocksOwned == Spec => []Ownership
  BY Inductive, PTL DEF IInv

(* Headers never lie in a region a caller holds.                           *)
THEOREM MetadataSafe == Spec => []HeadersOutsideData
<1>1. IInv => HeadersOutsideData
  <2> SUFFICES ASSUME IInv, NEW a \in Headers, NEW r \in live
               PROVE  Data(a) <= r.ptr \/ r.ptr + r.len <= a
    BY DEF HeadersOutsideData
  <2>0. TypeOK /\ Tiling /\ Ownership
    BY DEF IInv
  <2>T. /\ HdrSize \in Nat \ {0}
        /\ \A b \in Headers : /\ b \in Nat /\ Data(b) = b + HdrSize /\ blk[b].size \in Nat
                              /\ End(b) = b + HdrSize + blk[b].size
        /\ r.ptr \in Nat /\ r.len \in Nat
    BY <2>0, Typing
  <2> DEFINE h == r.ptr - HdrSize
  <2>1. h \in Headers /\ r.len <= blk[h].size
    BY <2>0 DEF Ownership
  <2>2. r.ptr = h + HdrSize
    BY <2>T
  <2> HIDE DEF h
  <2>3. CASE a <= h
    BY <2>1, <2>2, <2>3, <2>T
  <2>4. CASE h < a
    <3>1. End(h) <= a
      BY <2>0, <2>1, <2>4 DEF Tiling
    <3> QED BY <3>1, <2>1, <2>2, <2>T
  <2> QED BY <2>1, <2>3, <2>4, <2>T
<1> QED BY <1>1, Inductive, PTL

(* When every region has been freed the heap is one block again.           *)
THEOREM NothingLeaks == Spec => []EmptyHeapIsWhole
<1>1. IInv => EmptyHeapIsWhole
  <2> SUFFICES ASSUME IInv, live = {}, pc = "idle"
               PROVE  Headers = {HeapStart}
    BY DEF EmptyHeapIsWhole
  <2>0. TypeOK /\ Tiling /\ Ownership /\ Coalesced
    BY DEF IInv
  <2>T. /\ HeapEnd \in Nat /\ HeapStart \in Headers
        /\ \A b \in Headers : /\ b \in Nat /\ HeapStart <= b /\ b < HeapEnd
                              /\ blk[b].next \in Headers \cup {NULL}
    BY <2>0, Typing DEF TypeOK
  <2>1. \A b \in Headers : blk[b].is_free
    BY <2>0 DEF Ownership
  <2>2. blk[HeapStart].next = NULL
    BY <2>0, <2>1, <2>T DEF Coalesced, BothFree
  <2>3. End(HeapStart) = HeapEnd
    <3>1. End(HeapStart) # NULL
      BY <2>0, <2>T, Typing DEF NULL
    <3> QED BY <3>1, <2>0, <2>2, <2>T DEF Tiling
  <2>4. \A b \in Headers : b = HeapStart
    BY <2>0, <2>3, <2>T DEF Tiling
  <2> QED BY <2>4, <2>T
<1> QED BY <1>1, Inductive, PTL

(* malloc is first fit and refuses only when no free block is big enough.  *)
THEOREM MallocFirstFit == Spec => FirstFit
<1> DEFINE Fit == pc = "search" /\ pc' = "idle" =>
                    \A a \in Headers : Fits(a) => ret' # NULL /\ ret' <= Data(a)
<1>1. IInv /\ [Next]_vars => [Fit]_vars
  <2> SUFFICES ASSUME IInv, Next, pc = "search", pc' = "idle", NEW a \in Headers, Fits(a)
               PROVE  ret' # NULL /\ ret' <= Data(a)
    OBVIOUS
  <2>0. TypeOK /\ Passed
    BY DEF IInv
  <2>T. NULL < HeapStart /\ HeapStart \in Nat /\ HdrSize \in Nat
        /\ \A b \in Headers : b \in Nat /\ HeapStart <= b /\ Data(b) = b + HdrSize
    BY <2>0, Typing
  <2>1. Take \/ OutOfMemory
    BY DEF Next, Malloc, Skip, Free, FreeNull, MergeNext, MoveOn, MergeDone, Return
  <2>2. CASE Take
    <3>1. cur \in Headers /\ ret' = Data(cur)
      BY <2>2, <2>0 DEF Take, Return, TypeOK
    <3>2. cur <= a
      BY <3>1, <2>0, <2>T DEF Passed
    <3> QED BY <3>1, <3>2, <2>T DEF NULL
  <2>3. CASE OutOfMemory
    BY <2>3, <2>0 DEF OutOfMemory, Passed
  <2> QED BY <2>1, <2>2, <2>3
<1> QED BY <1>1, Inductive, PTL DEF Spec, FirstFit

--------------------------------------------------------------------------------
(* Regions of different holders share no byte. *)
LEMMA RegionsDisjoint == IInv => AbstractDisjoint
<1> SUFFICES ASSUME IInv, NEW r \in live, NEW s \in live, r # s
             PROVE  ~Abstract!Overlaps(r, s)
  BY DEF AbstractDisjoint, Abstract!Disjoint
<1>0. TypeOK /\ Tiling /\ Ownership
  BY DEF IInv
<1>T. /\ HdrSize \in Nat \ {0}
      /\ \A b \in Headers : b \in Nat /\ blk[b].size \in Nat /\ End(b) = b + HdrSize + blk[b].size
      /\ r.ptr \in Nat /\ r.len \in Nat /\ s.ptr \in Nat /\ s.len \in Nat
  BY <1>0, Typing
<1>1. r.ptr # s.ptr
  BY <1>0 DEF Ownership
<1> DEFINE h == r.ptr - HdrSize
           k == s.ptr - HdrSize
<1>2. h \in Headers /\ k \in Headers /\ r.len <= blk[h].size /\ s.len <= blk[k].size
  BY <1>0 DEF Ownership
<1>3. r.ptr = h + HdrSize /\ s.ptr = k + HdrSize /\ h # k
  BY <1>1, <1>T
<1> HIDE DEF h, k
<1>4. CASE h < k
  <2>1. r.ptr + r.len <= s.ptr
    BY <1>0, <1>2, <1>3, <1>4, <1>T DEF Tiling
  <2> QED BY <2>1, <1>T DEF Abstract!Overlaps, Abstract!Bytes
<1>5. CASE k < h
  <2>1. s.ptr + s.len <= r.ptr
    BY <1>0, <1>2, <1>3, <1>5, <1>T DEF Tiling
  <2> QED BY <2>1, <1>T DEF Abstract!Overlaps, Abstract!Bytes
<1> QED BY <1>2, <1>3, <1>4, <1>5, <1>T

(* The regions malloc hands out never overlap. *)
THEOREM HoldersDisjoint == Spec => []AbstractDisjoint
  BY RegionsDisjoint, Inductive, PTL

(* The heap implements the abstract allocator: each step of its loops is a *)
(* malloc, a free or a stutter of Allocator.                               *)
THEOREM Refinement == Spec => AllocatorSpec
<1>1. Init => Abstract!Init
  BY DEF Init, Abstract!Init
<1>2. IInv' => AbstractDisjoint'
  BY RegionsDisjoint, PTL
<1>3. IInv /\ IInv' /\ [Next]_vars => [Abstract!Next]_live
  <2> SUFFICES ASSUME IInv, IInv', Next, live' # live
               PROVE  Abstract!Next
    BY DEF vars
  <2>1. CASE \E r \in live : Free(r)
    BY <2>1 DEF Free, Abstract!Next, Abstract!Free
  <2>2. CASE Take
    <3> DEFINE r == [ptr |-> Data(cur), len |-> want]
    <3>1. TypeOK /\ TypeOK' /\ live' = live \cup {r} /\ r \in live'
      BY <2>2 DEF IInv, Take
    <3>2. r.ptr \in Addr /\ r.len \in Requests /\ r.len > 0
      <4>1. r \in [ptr : Addr, len : Requests \ {0}]
        BY <3>1 DEF TypeOK
      <4>2. r.ptr \in Addr /\ r.len \in Requests \ {0}
        BY <4>1
      <4> HIDE DEF r
      <4>3. r.len \in Nat \ {0}
        BY <4>2, HeapAssumption
      <4> QED BY <4>2, <4>3
    <3>3. r \notin live
      BY <3>1
    <3>4. \A s \in live : ~Abstract!Overlaps(r, s)
      BY <3>1, <3>3, <1>2 DEF AbstractDisjoint, Abstract!Disjoint
    <3>5. Abstract!Bytes(r) \subseteq Addr
      <4>1. cur \in Headers /\ want \in Requests \ {0} /\ blk[cur].size >= RoundUp(want)
        BY <2>2, <3>1 DEF Take, TypeOK, Fits
      <4>2. want \in Nat /\ want <= blk[cur].size
        BY <4>1, <3>1, RoundUpBounds, Typing, HeapAssumption
      <4>3. r.ptr >= HeapStart /\ r.ptr + r.len <= HeapEnd
        BY <4>1, <4>2, <3>1, Typing, SMTT(20) DEF IInv, Tiling, Data
      <4> HIDE DEF r
      <4>4. HeapStart \in Nat /\ HeapEnd \in Nat /\ Addr = HeapStart .. (HeapEnd - 1)
        BY <3>1, Typing
      <4>5. r.ptr \in Nat /\ r.len \in Nat
        <5>1. r.ptr \in Nat
          BY <3>2, <4>4
        <5>2. r.len \in Nat
          BY <3>2, HeapAssumption
        <5> QED BY <5>1, <5>2
      <4>6. \A b \in r.ptr .. (r.ptr + r.len - 1) : b \in Addr
        BY <4>3, <4>4, <4>5
      <4> QED BY <4>6 DEF Abstract!Bytes
    <3> QED
      BY <3>1, <3>2, <3>4, <3>5 DEF Abstract!Next, Abstract!Malloc
  <2> QED
    BY <2>1, <2>2 DEF Next, Malloc, Skip, OutOfMemory, FreeNull, MergeNext, MoveOn, MergeDone
<1> QED
  BY <1>1, <1>3, Inductive, PTL DEF Spec, AllocatorSpec, Abstract!Spec

--------------------------------------------------------------------------------
(* From here on, module HeapTexts: stores that users make outside of their *)
(* regions included.                                                       *)

(* Blocks end before the next header, which is the successor in the list. *)
Apart ==
  /\ \A a \in Headers : /\ End(a) <= HeapEnd
                        /\ blk[a].next # NULL => a < blk[a].next
  /\ \A a, b \in Headers : a < b => /\ End(a) <= b
                                    /\ blk[a].next # NULL /\ blk[a].next <= b

(* A region has a block of its own, in use, and ends before the next one,  *)
(* whatever the size of the block says.                                    *)
Held ==
  /\ \A r \in live : /\ r.ptr - HdrSize \in Headers /\ ~blk[r.ptr - HdrSize].is_free
                     /\ r.ptr + r.len <= HeapEnd
  /\ \A r \in live, b \in Headers : r.ptr <= b => r.ptr + r.len <= b
  /\ \A r, s \in live : r.ptr = s.ptr => r = s

TInv == TypeOK /\ Apart /\ Held

(* heap_init's single block. *)
LEMMA InitTInv == Init => TInv
<1> SUFFICES ASSUME Init PROVE TInv
  OBVIOUS
<1>1. TypeOK
  BY InitIInv DEF IInv
<1>2. Apart /\ Held
  BY HeapAssumption DEF Init, Apart, Held, Headers, End, Data, HeapEnd, NULL
<1> QED BY <1>1, <1>2 DEF TInv

(* What the invariant says of the numbers in the state. *)
LEMMA Numbers ==
  ASSUME TInv
  PROVE  /\ HeapStart \in Nat /\ HeapEnd \in Nat /\ HdrSize \in Nat \ {0} /\ BlockSize \in Nat \ {0}
         /\ NULL < HeapStart
         /\ \A a \in Headers : /\ a \in Nat /\ HeapStart <= a /\ a < HeapEnd
                               /\ blk[a].size \in Nat /\ blk[a].is_free \in BOOLEAN
                               /\ blk[a].next \in Headers \cup {NULL}
                               /\ End(a) = a + HdrSize + blk[a].size
                               /\ Data(a) = a + HdrSize
         /\ \A r \in live : r.ptr \in Nat /\ r.len \in Nat \ {0}
  BY Typing DEF TInv

(* A block whose successor, size and header others rely on stays in place: *)
(* sizes may only shrink, and only a block nobody holds may become free.   *)
LEMMA ShrunkKeeps ==
  ASSUME TInv, live' \subseteq live, Headers' = Headers,
         \A a \in Headers : /\ blk'[a].size \in Nat /\ blk'[a].size <= blk[a].size
                            /\ blk'[a].next = blk[a].next,
         \A r \in live' : ~blk'[r.ptr - HdrSize].is_free
  PROVE  Apart' /\ Held'
<1>T. /\ HeapEnd \in Nat /\ HdrSize \in Nat
      /\ \A a \in Headers : /\ a \in Nat /\ blk[a].size \in Nat
                            /\ End(a) = a + HdrSize + blk[a].size
  BY Numbers
<1>1. \A a \in Headers : End(a)' = a + HdrSize + blk'[a].size
  BY DEF End, Data
<1>2. \A a \in Headers : End(a)' \in Nat /\ End(a)' <= End(a)
  BY <1>1, <1>T
<1>3. ASSUME NEW a \in Headers
      PROVE  End(a)' <= HeapEnd /\ \A b \in Headers : a < b => End(a)' <= b
  <2>1. End(a) <= HeapEnd /\ \A b \in Headers : a < b => End(a) <= b
    BY DEF TInv, Apart
  <2> QED BY <2>1, <1>2, <1>T
<1>4. Apart'
  BY <1>3 DEF TInv, Apart
<1>5. Held'
  BY DEF TInv, Held
<1> QED BY <1>4, <1>5

(* malloc gives a free block to a caller.  Headers it adds lie in that     *)
(* block, behind the bytes that were asked for.                            *)
LEMMA GrantKeeps ==
  ASSUME TInv, NEW c \in Headers, blk[c].is_free, want \in Nat, want <= blk[c].size,
         live' = live \cup {[ptr |-> Data(c), len |-> want]},
         Headers \subseteq Headers',
         \A b \in Headers' \ Headers : b \in Nat /\ Data(c) + want <= b /\ b < End(c),
         \A b \in Headers \ {c} : blk'[b] = blk[b],
         ~blk'[c].is_free
  PROVE  Held'
<1> DEFINE new == [ptr |-> Data(c), len |-> want]
<1>T. /\ HeapEnd \in Nat /\ HdrSize \in Nat
      /\ \A a \in Headers : /\ a \in Nat /\ blk[a].size \in Nat /\ Data(a) = a + HdrSize
                            /\ End(a) = a + HdrSize + blk[a].size
      /\ \A r \in live : r.ptr \in Nat /\ r.len \in Nat
  BY Numbers
<1>1. /\ new.ptr = Data(c) /\ new.len = want /\ new.ptr - HdrSize = c
      /\ \A r \in live' : r \in live \/ r = new
  BY <1>T
<1>2. \A b \in Headers : c < b => End(c) <= b
  BY DEF TInv, Apart
<1>3. ASSUME NEW r \in live
      PROVE  /\ r.ptr - HdrSize \in Headers /\ ~blk'[r.ptr - HdrSize].is_free
             /\ r.ptr # Data(c)
             /\ \A b \in Headers' : r.ptr <= b => r.ptr + r.len <= b
  <2> DEFINE h == r.ptr - HdrSize
  <2>1. h \in Headers /\ ~blk[h].is_free /\ r.ptr = h + HdrSize
    BY <1>T DEF TInv, Held
  <2>2. h # c
    BY <2>1
  <2> HIDE DEF h
  <2>3. ASSUME NEW b \in Headers', r.ptr <= b
        PROVE  r.ptr + r.len <= b
    <3>1. CASE b \in Headers
      BY <3>1, <2>3 DEF TInv, Held
    <3>2. CASE b \notin Headers
      <4>1. b \in Nat /\ c < b /\ b < End(c)
        BY <3>2, <1>T
      <4>2. h < c
        BY <4>1, <2>1, <2>2, <2>3, <1>2, <1>T
      <4>3. End(h) <= c
        BY <4>2, <2>1 DEF TInv, Apart
      <4>4. r.ptr <= c
        BY <4>3, <2>1, <1>T
      <4>5. r.ptr + r.len <= c
        BY <4>4 DEF TInv, Held
      <4> QED BY <4>1, <4>5, <1>T
    <3> QED BY <3>1, <3>2
  <2> QED BY <2>1, <2>2, <2>3, <1>T DEF h
<1> HIDE DEF new
<1>4. /\ new.ptr + new.len <= HeapEnd
      /\ \A b \in Headers' : new.ptr <= b => new.ptr + new.len <= b
  <2>1. Data(c) + want <= End(c) /\ End(c) <= HeapEnd /\ End(c) \in Nat /\ Data(c) \in Nat
    BY <1>T DEF TInv, Apart
  <2>2. ASSUME NEW b \in Headers', Data(c) <= b
        PROVE  Data(c) + want <= b
    <3>1. CASE b \in Headers
      <4>1. b \in Nat /\ c <= b
        BY <3>1, <2>2, <1>T
      <4>2. CASE c < b
        BY <4>1, <4>2, <3>1, <2>1, <1>2, <1>T
      <4>3. CASE c = b
        <5>1. HdrSize # 0
          BY HeapAssumption
        <5> QED BY <5>1, <4>3, <2>2, <1>T
      <4> QED BY <4>1, <4>2, <4>3, <1>T
    <3> QED BY <3>1
  <2> QED BY <2>1, <2>2, <1>1, <1>T
<1>5. \A r \in live' : /\ r.ptr - HdrSize \in Headers' /\ ~blk'[r.ptr - HdrSize].is_free
                       /\ r.ptr + r.len <= HeapEnd
  BY <1>1, <1>3, <1>4 DEF TInv, Held
<1>6. \A r \in live', b \in Headers' : r.ptr <= b => r.ptr + r.len <= b
  BY <1>1, <1>3, <1>4
<1>7. \A r, s \in live' : r.ptr = s.ptr => r = s
  BY <1>1, <1>3 DEF TInv, Held
<1> QED BY <1>5, <1>6, <1>7 DEF Held, HeapEnd

(* malloc takes the head of a block and leaves its tail free. *)
LEMMA SplitKeepsTInv ==
  ASSUME TInv, Take, NEW c, c = cur, NEW n, n = RoundUp(want), NEW rest, rest = Data(c) + n,
         MustSplit(c, n)
  PROVE  TInv'
<1>0. TypeOK /\ Apart /\ Held
  BY DEF TInv
<1>T. /\ HeapStart \in Nat /\ HeapEnd \in Nat /\ HdrSize \in Nat \ {0} /\ BlockSize \in Nat
      /\ NULL < HeapStart /\ Addr = HeapStart .. (HeapEnd - 1)
      /\ \A b \in Headers : /\ b \in Nat /\ HeapStart <= b /\ blk[b].size \in Nat
                            /\ blk[b].next \in Headers \cup {NULL}
                            /\ Data(b) = b + HdrSize
                            /\ End(b) = b + HdrSize + blk[b].size /\ End(b) \in Nat
  BY <1>0, Typing
<1>1. /\ c \in Headers
      /\ want \in Requests \ {0}
      /\ blk[c].is_free
      /\ live' = live \cup {[ptr |-> Data(c), len |-> want]}
      /\ pc = "search" /\ pc' = "idle" /\ cur' = NULL /\ want' = 0 /\ ret' = Data(c)
  BY <1>0, Zenon DEF TypeOK, Take, Return, Fits, Headers
<1>2. /\ want \in Nat \ {0} /\ n \in Nat /\ want <= n
      /\ blk[c].size > n + HdrSize + BlockSize
  BY <1>1, RoundUpBounds, HeapAssumption DEF MustSplit
<1>C. /\ c \in Nat /\ HeapStart <= c /\ Data(c) = c + HdrSize
      /\ blk[c].size \in Nat /\ End(c) = c + HdrSize + blk[c].size
      /\ blk[c].next \in Headers \cup {NULL}
      /\ End(c) <= HeapEnd
  BY <1>0, <1>1, <1>T DEF Apart
<1>3. /\ rest = c + HdrSize + n /\ rest \in Nat /\ c < rest
      /\ rest + HdrSize < End(c) /\ End(c) \in Nat
      /\ blk[c].size - n - HdrSize \in Nat
      /\ rest + HdrSize + (blk[c].size - n - HdrSize) = End(c)
  BY <1>2, <1>C, HeapAssumption
<1>4. \A b \in Headers : c < b => End(c) <= b
  BY <1>0, <1>1 DEF Apart
<1>5. rest \notin Headers
  BY <1>3, <1>4, <1>T, <1>1
<1> DEFINE head == [size |-> n, is_free |-> FALSE, next |-> rest]
           tail == [size |-> blk[c].size - n - HdrSize, is_free |-> TRUE, next |-> blk[c].next]
<1>6. blk' = [b \in Headers \cup {rest} |-> IF b = c THEN head ELSE IF b = rest THEN tail ELSE blk[b]]
  BY DEF Take, Taken
<1>7. /\ Headers' = Headers \cup {rest}
      /\ blk'[c] = head /\ blk'[rest] = tail
      /\ \A b \in Headers \ {c} : blk'[b] = blk[b]
  BY <1>1, <1>5, <1>6 DEF Headers
<1>8. TypeOK'
  <2>1. head \in [size : Nat, is_free : BOOLEAN, next : Headers' \cup {NULL}]
    BY <1>2, <1>7
  <2>2. tail \in [size : Nat, is_free : BOOLEAN, next : Headers' \cup {NULL}]
    BY <1>3, <1>7, <1>C
  <2> HIDE DEF head, tail
  <2>3. blk' \in [Headers' -> [size : Nat, is_free : BOOLEAN, next : Headers' \cup {NULL}]]
    BY <2>1, <2>2, <1>0, <1>6, <1>7 DEF TypeOK
  <2>4. rest \in Addr /\ Data(c) \in Addr
    BY <1>2, <1>3, <1>C, HeapAssumption DEF Addr, HeapEnd
  <2>5. [ptr |-> Data(c), len |-> want] \in [ptr : Addr, len : Requests \ {0}]
    BY <2>4, <1>1
  <2> QED
    BY <1>0, <1>1, <1>7, <2>3, <2>4, <2>5 DEF TypeOK
<1>9. End(c)' = rest /\ End(rest)' = End(c) /\ \A b \in Headers \ {c} : End(b)' = End(b)
  <2>1. End(c)' = c + HdrSize + n /\ End(rest)' = rest + HdrSize + (blk[c].size - n - HdrSize)
    BY <1>7 DEF End, Data
  <2>2. \A b \in Headers \ {c} : End(b)' = End(b)
    BY <1>7 DEF End, Data
  <2> HIDE DEF head, tail
  <2> QED BY <2>1, <2>2, <1>3
<1>10. Apart'
  <2>1. /\ blk'[c].next = rest /\ blk'[rest].next = blk[c].next
        /\ \A b \in Headers \ {c} : blk'[b].next = blk[b].next
    BY <1>7
  <2> HIDE DEF head, tail
  <2>2. ASSUME NEW a \in Headers'
        PROVE  End(a)' <= HeapEnd /\ (blk'[a].next # NULL => a < blk'[a].next)
    <3>1. CASE a = c
      BY <3>1, <2>1, <1>3, <1>9, <1>C, <1>T
    <3>2. CASE a = rest
      <4>1. blk[c].next # NULL => c < blk[c].next /\ blk[c].next \in Headers
        BY <1>0, <1>1, <1>T DEF Apart
      <4>2. blk[c].next # NULL => rest < blk[c].next
        <5> SUFFICES ASSUME blk[c].next # NULL PROVE rest < blk[c].next
          OBVIOUS
        <5>1. End(c) <= blk[c].next /\ blk[c].next \in Nat
          BY <4>1, <1>4, <1>T
        <5> QED BY <5>1, <1>3, <1>T
      <4> QED BY <4>2, <3>2, <2>1, <1>9, <1>C
    <3>3. CASE a \in Headers \ {c}
      BY <3>3, <2>1, <1>0, <1>9 DEF Apart
    <3> QED BY <3>1, <3>2, <3>3, <1>7
  <2>3. ASSUME NEW a \in Headers', NEW b \in Headers', a < b
        PROVE  End(a)' <= b /\ blk'[a].next # NULL /\ blk'[a].next <= b
    <3>1. CASE a = c
      BY <3>1, <2>1, <2>3, <1>1, <1>3, <1>4, <1>7, <1>9, <1>T, SMTT(20)
    <3>2. CASE a = rest
      <4>1. b \in Headers /\ c < b
        BY <3>2, <2>3, <1>1, <1>3, <1>7, <1>T
      <4> QED BY <4>1, <3>2, <2>1, <1>0, <1>1, <1>9 DEF Apart
    <3>3. CASE a \in Headers \ {c} /\ b \in Headers
      BY <3>3, <2>1, <2>3, <1>0, <1>9 DEF Apart
    <3>4. CASE a \in Headers \ {c} /\ b = rest
      <4>1. a < c
        BY <3>4, <2>3, <1>3, <1>4, <1>C, <1>T
      <4>2. End(a) <= c /\ blk[a].next # NULL /\ blk[a].next <= c
        BY <4>1, <3>4, <1>0, <1>1 DEF Apart
      <4>3. End(a) \in Nat /\ blk[a].next \in Nat
        BY <4>2, <3>4, <1>T
      <4>4. End(a) <= rest /\ blk[a].next <= rest
        BY <4>2, <4>3, <1>3, <1>C
      <4> QED BY <4>2, <4>4, <3>4, <2>1, <1>9
    <3> QED BY <3>1, <3>2, <3>3, <3>4, <1>7
  <2> QED BY <2>2, <2>3 DEF Apart, HeapEnd
<1>11. Held'
  <2>1. ~blk'[c].is_free
    BY <1>7
  <2>2. rest \in Nat /\ Data(c) + want <= rest /\ rest < End(c) /\ want <= blk[c].size
    BY <1>2, <1>3, <1>C, HeapAssumption
  <2> QED BY <2>1, <2>2, <1>1, <1>2, <1>7, GrantKeeps
<1> QED BY <1>8, <1>10, <1>11 DEF TInv

(* malloc takes a block whole. *)
LEMMA WholeKeepsTInv ==
  ASSUME TInv, Take, NEW c, c = cur, ~MustSplit(c, RoundUp(want))
  PROVE  TInv'
<1>0. TypeOK /\ Apart /\ Held
  BY DEF TInv
<1>T. /\ HeapStart \in Nat /\ HeapEnd \in Nat /\ HdrSize \in Nat \ {0}
      /\ Addr = HeapStart .. (HeapEnd - 1)
      /\ \A b \in Headers : /\ b \in Nat /\ HeapStart <= b /\ blk[b].size \in Nat
                            /\ Data(b) = b + HdrSize
                            /\ End(b) = b + HdrSize + blk[b].size
  BY <1>0, Typing
<1>1. /\ c \in Headers
      /\ want \in Requests \ {0}
      /\ blk[c].is_free /\ blk[c].size >= RoundUp(want)
      /\ live' = live \cup {[ptr |-> Data(c), len |-> want]}
      /\ pc = "search" /\ pc' = "idle" /\ cur' = NULL /\ want' = 0 /\ ret' = Data(c)
  BY <1>0, Zenon DEF TypeOK, Take, Return, Fits, Headers
<1>2. want \in Nat \ {0} /\ want <= blk[c].size
  BY <1>1, <1>T, RoundUpBounds, HeapAssumption
<1>3. /\ Headers' = Headers
      /\ \A b \in Headers : blk'[b].size = blk[b].size /\ blk'[b].next = blk[b].next
      /\ ~blk'[c].is_free
      /\ \A b \in Headers \ {c} : blk'[b] = blk[b]
      /\ blk' \in [Headers -> [size : Nat, is_free : BOOLEAN, next : Headers \cup {NULL}]]
  BY <1>0, <1>1 DEF Headers, TypeOK, Marked, Take, Taken
<1>4. TypeOK'
  <2>1. End(c) <= HeapEnd
    BY <1>0, <1>1 DEF Apart
  <2>2. Data(c) \in Addr
    BY <2>1, <1>1, <1>2, <1>T
  <2>3. [ptr |-> Data(c), len |-> want] \in [ptr : Addr, len : Requests \ {0}]
    BY <2>2, <1>1
  <2> QED BY <1>0, <1>1, <1>3, <2>2, <2>3 DEF TypeOK
<1>5. Apart'
  <2>1. \A b \in Headers : End(b)' = End(b)
    BY <1>3 DEF End, Data
  <2> QED BY <2>1, <1>0, <1>3 DEF Apart
<1>6. Held'
  BY <1>1, <1>2, <1>3, GrantKeeps
<1> QED BY <1>4, <1>5, <1>6 DEF TInv

(* free marks the block of a holder. *)
LEMMA FreeKeepsTInv ==
  ASSUME TInv, NEW r \in live, Free(r)
  PROVE  TInv'
<1> DEFINE h == r.ptr - HdrSize
<1>0. TypeOK /\ Apart /\ Held
  BY DEF TInv
<1>T. /\ HdrSize \in Nat /\ HeapStart \in Nat /\ NULL < HeapStart
      /\ \A b \in Headers : blk[b].size \in Nat
      /\ \A s \in live : s.ptr \in Nat
  BY Numbers
<1>1. h \in Headers /\ blk' = Marked(h, TRUE) /\ live' = live \ {r}
      /\ pc' = "merge" /\ cur' = HeapStart /\ want' = want /\ ret' = ret
  BY <1>0 DEF Free, Held
<1> HIDE DEF h
<1>2. /\ Headers' = Headers
      /\ \A b \in Headers : blk'[b].size = blk[b].size /\ blk'[b].next = blk[b].next
      /\ \A b \in Headers \ {h} : blk'[b] = blk[b]
      /\ blk' \in [Headers -> [size : Nat, is_free : BOOLEAN, next : Headers \cup {NULL}]]
  BY <1>0, <1>1 DEF Headers, TypeOK, Marked
<1>3. TypeOK'
  BY <1>0, <1>1, <1>2, HeapAssumption DEF TypeOK, NULL
<1>4. ASSUME NEW s \in live'
      PROVE  ~blk'[s.ptr - HdrSize].is_free
  <2>1. s \in live /\ s.ptr # r.ptr
    BY <1>0, <1>1 DEF Held
  <2>2. s.ptr - HdrSize # h
    BY <2>1, <1>T DEF h
  <2> QED BY <2>1, <2>2, <1>0, <1>2 DEF Held
<1>5. Apart' /\ Held'
  <2>1. \A b \in Headers : blk'[b].size \in Nat /\ blk'[b].size <= blk[b].size
    BY <1>2, <1>T
  <2> QED BY <2>1, <1>1, <1>2, <1>4, ShrunkKeeps
<1> QED BY <1>3, <1>5 DEF TInv

(* A block swallows its free successor, which nobody holds. *)
LEMMA MergeKeepsTInv ==
  ASSUME TInv, MergeNext, NEW c, c = cur, NEW n, n = blk[c].next
  PROVE  TInv'
<1>0. TypeOK /\ Apart /\ Held
  BY DEF TInv
<1>T. /\ HeapStart \in Nat /\ HeapEnd \in Nat /\ HdrSize \in Nat \ {0} /\ NULL < HeapStart
      /\ \A b \in Headers : /\ b \in Nat /\ HeapStart <= b /\ blk[b].size \in Nat
                            /\ blk[b].next \in Headers \cup {NULL}
                            /\ End(b) = b + HdrSize + blk[b].size /\ End(b) \in Nat
  BY <1>0, Typing
<1>1. /\ pc = "merge" /\ pc' = "merge" /\ cur' = c /\ want' = want /\ ret' = ret /\ live' = live
      /\ c \in Headers /\ n \in Headers /\ blk[c].is_free /\ blk[n].is_free /\ n # NULL
  BY <1>0, <1>T DEF MergeNext, BothFree, TypeOK
<1>2. c < n /\ End(c) <= n
  BY <1>0, <1>1 DEF Apart
<1>3. blk' = [b \in Headers \ {n} |->
               IF b = c THEN [size |-> blk[c].size + blk[n].size + HdrSize,
                              is_free |-> TRUE, next |-> blk[n].next]
               ELSE blk[b]]
  BY DEF MergeNext, Merged
<1>4. /\ Headers' = Headers \ {n} /\ c \in Headers'
      /\ blk'[c] = [size |-> blk[c].size + blk[n].size + HdrSize,
                    is_free |-> TRUE, next |-> blk[n].next]
      /\ \A b \in Headers' \ {c} : blk'[b] = blk[b]
  BY <1>1, <1>2, <1>3, <1>T DEF Headers
<1>5. End(c)' <= End(n) /\ \A b \in Headers' \ {c} : End(b)' = End(b)
  <2>1. End(c)' = c + HdrSize + (blk[c].size + blk[n].size + HdrSize)
    BY <1>4 DEF End, Data
  <2>2. End(c)' <= End(n)
    BY <2>1, <1>1, <1>2, <1>T
  <2> QED BY <2>2, <1>4 DEF End, Data
<1>6. \A b \in Headers : b < n /\ b # c => b < c
  BY <1>0, <1>1, <1>T DEF Apart
<1>7. \A b \in Headers \ {c} : blk[b].next # n
  <2> SUFFICES ASSUME NEW b \in Headers \ {c}, blk[b].next = n PROVE FALSE
    OBVIOUS
  <2>1. b < n
    BY <1>0, <1>1 DEF Apart
  <2>2. b < c
    BY <2>1, <1>6
  <2>3. n <= c
    BY <2>2, <1>0, <1>1 DEF Apart
  <2> QED BY <2>3, <1>1, <1>2, <1>T
<1>8. blk[n].next # n /\ HeapStart # n
  BY <1>0, <1>1, <1>2, <1>T DEF Apart
<1>9. TypeOK'
  <2>1. ASSUME NEW b \in Headers'
        PROVE  blk'[b] \in [size : Nat, is_free : BOOLEAN, next : Headers' \cup {NULL}]
    <3>1. CASE b = c
      BY <3>1, <1>1, <1>4, <1>8, <1>T
    <3>2. CASE b # c
      BY <3>2, <2>1, <1>0, <1>4, <1>7, <1>T DEF TypeOK
    <3> QED BY <3>1, <3>2
  <2>2. blk' \in [Headers' -> [size : Nat, is_free : BOOLEAN, next : Headers' \cup {NULL}]]
    BY <2>1, <1>3, <1>4
  <2>3. HeapStart \in Headers' /\ Headers' \subseteq Addr
    BY <1>0, <1>4, <1>8 DEF TypeOK
  <2>4. c # NULL
    BY <1>1, <1>T
  <2> QED
    BY <1>0, <1>1, <1>4, <2>2, <2>3, <2>4 DEF TypeOK
<1>10. Apart'
  <2>1. ASSUME NEW a \in Headers'
        PROVE  End(a)' <= HeapEnd /\ (blk'[a].next # NULL => a < blk'[a].next)
    <3>1. CASE a = c
      <4>1. End(n) <= HeapEnd /\ (blk[n].next # NULL => n < blk[n].next)
        BY <1>0, <1>1 DEF Apart
      <4>2. End(c)' \in Nat
        BY <1>1, <1>4, <1>T DEF End, Data
      <4>3. End(c)' <= HeapEnd
        BY <4>1, <4>2, <1>1, <1>5, <1>T
      <4>4. ASSUME blk[n].next # NULL
            PROVE  c < blk[n].next
        <5>1. n < blk[n].next /\ blk[n].next \in Nat
          BY <4>1, <4>4, <1>1, <1>T
        <5>2. c \in Nat /\ n \in Nat
          BY <1>1, <1>T
        <5> QED BY <5>1, <5>2, <1>2
      <4> QED BY <4>3, <4>4, <3>1, <1>4
    <3>2. CASE a # c
      BY <3>2, <2>1, <1>0, <1>4, <1>5 DEF Apart
    <3> QED BY <3>1, <3>2
  <2>2. ASSUME NEW a \in Headers', NEW b \in Headers', a < b
        PROVE  End(a)' <= b /\ blk'[a].next # NULL /\ blk'[a].next <= b
    <3>1. CASE a = c
      <4>1. b \in Headers /\ n < b
        BY <3>1, <2>2, <1>1, <1>4, <1>6, <1>T
      <4>2. End(n) <= b /\ blk[n].next # NULL /\ blk[n].next <= b
        BY <4>1, <1>0, <1>1 DEF Apart
      <4>3. End(c)' \in Nat
        BY <1>1, <1>4, <1>T DEF End, Data
      <4>4. End(c)' <= b
        BY <4>1, <4>2, <4>3, <1>1, <1>5, <1>T
      <4> QED BY <4>2, <4>4, <3>1, <1>4
    <3>2. CASE a # c
      BY <3>2, <2>2, <1>0, <1>4, <1>5 DEF Apart
    <3> QED BY <3>1, <3>2
  <2> QED BY <2>1, <2>2 DEF Apart, HeapEnd
<1>11. Held'
  <2>1. ASSUME NEW r \in live
        PROVE  r.ptr - HdrSize \in Headers' /\ ~blk'[r.ptr - HdrSize].is_free
    <3>1. r.ptr - HdrSize \in Headers /\ ~blk[r.ptr - HdrSize].is_free
      BY <1>0 DEF Held
    <3> QED BY <3>1, <1>1, <1>4
  <2> QED BY <2>1, <1>0, <1>1, <1>4 DEF Held, HeapEnd
<1> QED BY <1>9, <1>10, <1>11 DEF TInv

(* The zero behind a text makes the size it hits smaller, if it hits one. *)
LEMMA EndTextKeepsTInv ==
  ASSUME TInv, NEW r \in live, EndText(r)
  PROVE  TInv'
<1> DEFINE p == r.ptr + r.len
<1>0. TypeOK /\ Apart /\ Held
  BY DEF TInv
<1>T. \A b \in Headers : blk[b].size \in Nat
  BY Numbers
<1>1. /\ blk' = ZeroAt(p)
      /\ pc' = pc /\ cur' = cur /\ want' = want /\ ret' = ret /\ live' = live
  BY DEF EndText
<1> HIDE DEF p
<1>2. ASSUME p \in Headers
      PROVE  blk[p].size - (blk[p].size % Byte) \in 0 .. blk[p].size
  <2>1. blk[p].size % Byte \in 0 .. blk[p].size
    <3>1. blk[p].size \in Nat /\ Byte \in Nat \ {0}
      BY <1>2, <1>T, HeapTextsAssumption
    <3> QED BY <3>1, Z3
  <2> QED BY <2>1, <1>2, <1>T
<1>3. /\ Headers' = Headers
      /\ \A b \in Headers : /\ blk'[b].size \in Nat /\ blk'[b].size <= blk[b].size
                            /\ blk'[b].next = blk[b].next /\ blk'[b].is_free = blk[b].is_free
      /\ blk' \in [Headers -> [size : Nat, is_free : BOOLEAN, next : Headers \cup {NULL}]]
  <2>1. CASE p \notin Headers
    BY <2>1, <1>0, <1>1, <1>T DEF ZeroAt, Headers, TypeOK
  <2>2. CASE p \in Headers
    <3> DEFINE z == blk[p].size - (blk[p].size % Byte)
    <3>1. z \in Nat /\ z <= blk[p].size
      BY <2>2, <1>2, <1>T
    <3>2. blk' = [blk EXCEPT ![p].size = z]
      BY <2>2, <1>1 DEF ZeroAt
    <3> HIDE DEF z
    <3> QED BY <3>1, <3>2, <2>2, <1>0, <1>T DEF Headers, TypeOK
  <2> QED BY <2>1, <2>2
<1>4. TypeOK'
  BY <1>0, <1>1, <1>3 DEF TypeOK
<1>5. Apart' /\ Held'
  <2>1. \A s \in live' : ~blk'[s.ptr - HdrSize].is_free
    BY <1>0, <1>1, <1>3 DEF Held
  <2> QED BY <2>1, <1>1, <1>3, ShrunkKeeps
<1> QED BY <1>4, <1>5 DEF TInv

(* Every step keeps the invariant. *)
LEMMA NextTInv == TInv /\ [TextsNext]_vars => TInv'
<1> SUFFICES ASSUME TInv, [TextsNext]_vars PROVE TInv'
  OBVIOUS
<1>0. TypeOK /\ Apart /\ Held
  BY DEF TInv
<1>T. /\ HeapStart \in Nat /\ NULL < HeapStart
      /\ \A b \in Headers : b \in Nat /\ blk[b].next \in Headers \cup {NULL}
  BY Numbers
(* The steps that leave the list and the holders alone. *)
<1>1. ASSUME UNCHANGED <<blk, live>>, TypeOK'
      PROVE  TInv'
  BY <1>0, <1>1 DEF TInv, Apart, Held, Headers, End, Data
<1>2. ASSUME NEW n \in Requests, Malloc(n)
      PROVE  TInv'
  <2>1. TypeOK'
    BY <1>2, <1>0, HeapAssumption DEF Malloc, TypeOK, Headers, NULL
  <2> QED BY <2>1, <1>1, <1>2 DEF Malloc
<1>3. CASE Take
  BY <1>3, SplitKeepsTInv, WholeKeepsTInv
<1>4. CASE Skip
  <2>1. TypeOK'
    BY <1>4, <1>0, <1>T DEF Skip, TypeOK, Headers
  <2> QED BY <2>1, <1>1, <1>4 DEF Skip
<1>5. CASE OutOfMemory
  <2>1. TypeOK'
    BY <1>5, <1>0 DEF OutOfMemory, Return, TypeOK, Headers
  <2> QED BY <2>1, <1>1, <1>5 DEF OutOfMemory
<1>6. ASSUME NEW r \in live, Free(r)
      PROVE  TInv'
  BY <1>6, FreeKeepsTInv
<1>7. CASE FreeNull
  <2>1. TypeOK'
    BY <1>7, <1>0 DEF FreeNull, TypeOK, Headers
  <2> QED BY <2>1, <1>1, <1>7 DEF FreeNull
<1>8. CASE MergeNext
  BY <1>8, MergeKeepsTInv
<1>9. CASE MoveOn
  <2>1. cur \in Headers /\ cur' = blk[cur].next /\ cur' \in Headers /\ cur' # NULL
    BY <1>9, <1>0, <1>T DEF MoveOn, TypeOK
  <2>2. TypeOK'
    BY <2>1, <1>9, <1>0 DEF MoveOn, TypeOK, Headers
  <2> QED BY <2>2, <1>1, <1>9 DEF MoveOn
<1>10. CASE MergeDone
  <2>1. TypeOK'
    BY <1>10, <1>0 DEF MergeDone, Return, TypeOK, Headers
  <2> QED BY <2>1, <1>1, <1>10 DEF MergeDone
<1>11. CASE FreeLiteral
  <2>1. TypeOK'
    BY <1>11, <1>0, HeapAssumption DEF FreeLiteral, TypeOK, Headers, NULL
  <2> QED BY <2>1, <1>1, <1>11 DEF FreeLiteral
<1>12. ASSUME NEW r \in live, EndText(r)
       PROVE  TInv'
  BY <1>12, EndTextKeepsTInv
<1>13. CASE UNCHANGED vars
  <2>1. TypeOK'
    BY <1>13, <1>0 DEF vars, TypeOK, Headers
  <2> QED BY <2>1, <1>1, <1>13 DEF vars
<1> QED
  BY <1>2, <1>3, <1>4, <1>5, <1>6, <1>7, <1>8, <1>9, <1>10, <1>11, <1>12, <1>13
     DEF TextsNext, Next

(* So every reachable state satisfies it. *)
LEMMA TextsInductive == TextsSpec => []TInv
<1>1. Init => TInv
  BY InitTInv
<1>2. TInv /\ [TextsNext]_vars => TInv'
  BY NextTInv
<1> QED BY <1>1, <1>2, PTL DEF TextsSpec

--------------------------------------------------------------------------------
(* The walks along the list keep their promises too, for they need its     *)
(* order, not its sizes: the merging pass leaves no pair of free           *)
(* neighbours, and the search has passed no block that fits.               *)
Walks == Coalesced /\ Passed

(* The merging pass and the search, by one block. *)
LEMMA StepWalks ==
  ASSUME TInv, Walks
  PROVE  Skip \/ MoveOn \/ MergeDone => Walks'
<1>T. /\ HeapStart \in Nat /\ NULL < HeapStart
      /\ \A b \in Headers : b \in Nat /\ HeapStart <= b /\ blk[b].next \in Headers \cup {NULL}
  BY Numbers
<1>0. /\ cur \in Headers \cup {NULL}
      /\ \A a \in Headers : cur \in Headers /\ cur < a => blk[cur].next # NULL /\ blk[cur].next <= a
  BY DEF TInv, TypeOK, Apart
<1>1. ASSUME Skip
      PROVE  Walks'
  <2>1. Coalesced'
    BY <1>1 DEF Walks, Skip, Coalesced, BothFree, Headers
  <2>2. Passed'
    <3> SUFFICES ASSUME NEW a \in Headers, cur' = NULL \/ a < cur'
                 PROVE  ~Fits(a)
      BY <1>1 DEF Passed, Skip, Headers, Fits
    <3>1. cur \in Headers /\ cur' = blk[cur].next
      BY <1>0, <1>1 DEF Skip
    <3>2. ~(cur < a)
      BY <3>1, <1>0, <1>T
    <3>3. CASE a = cur
      BY <3>3, <1>1 DEF Skip
    <3>4. CASE a < cur
      BY <3>4, <1>1 DEF Walks, Passed, Skip
    <3> QED BY <3>1, <3>2, <3>3, <3>4, <1>T
  <2> QED BY <2>1, <2>2 DEF Walks
<1>2. ASSUME MoveOn
      PROVE  Walks'
  <2>1. ASSUME NEW a \in Headers, BothFree(a)
        PROVE  cur' <= a
    <3>1. cur \in Headers /\ cur' = blk[cur].next
      BY <1>2 DEF MoveOn, TInv, TypeOK
    <3>2. cur <= a /\ a # cur
      BY <2>1, <1>2 DEF MoveOn, Walks, Coalesced
    <3> QED BY <3>1, <3>2, <1>0, <1>T
  <2>2. Coalesced'
    BY <2>1, <1>2 DEF MoveOn, Coalesced, BothFree, Headers
  <2>3. Passed'
    BY <1>2 DEF MoveOn, Passed
  <2> QED BY <2>2, <2>3 DEF Walks
<1>3. ASSUME MergeDone
      PROVE  Walks'
  <2>1. ASSUME NEW a \in Headers, BothFree(a)
        PROVE  FALSE
    <3>1. cur \in Headers /\ blk[cur].next = NULL
      BY <1>3 DEF MergeDone, TInv, TypeOK
    <3>2. cur <= a /\ a # cur
      BY <3>1, <2>1 DEF Walks, Coalesced, BothFree
    <3> QED BY <3>1, <3>2, <1>0, <1>T
  <2>2. Coalesced'
    BY <2>1, <1>3 DEF MergeDone, Return, Coalesced, BothFree, Headers
  <2>3. Passed'
    BY <1>3 DEF MergeDone, Return, Passed
  <2> QED BY <2>2, <2>3 DEF Walks
<1> QED BY <1>1, <1>2, <1>3

(* The steps that change the list. *)
LEMMA ListWalks ==
  ASSUME TInv, Walks
  PROVE  \/ Take
         \/ MergeNext
         \/ \E r \in live : Free(r) \/ EndText(r)
         => Walks'
<1>T. /\ HeapStart \in Nat /\ NULL < HeapStart /\ HdrSize \in Nat \ {0}
      /\ \A b \in Headers : /\ b \in Nat /\ HeapStart <= b /\ blk[b].size \in Nat
                            /\ blk[b].next \in Headers \cup {NULL} /\ Data(b) = b + HdrSize
  BY Numbers
<1>1. ASSUME Take
      PROVE  Walks'
  <2> DEFINE c == cur
             rest == Data(c) + RoundUp(want)
  <2>1. /\ c \in Headers /\ pc = "search" /\ pc' = "idle" /\ blk[c].is_free
        /\ blk' = Taken(c, RoundUp(want))
    BY <1>1, Zenon DEF TInv, TypeOK, Take, Return, Fits, Headers
  <2> HIDE DEF c
  <2>2. \A a \in Headers : ~BothFree(a)
    BY <2>1 DEF Walks, Coalesced
  <2>3. CASE ~MustSplit(c, RoundUp(want))
    <3>1. /\ Headers' = Headers /\ ~blk'[c].is_free
          /\ \A b \in Headers : /\ blk'[b].next = blk[b].next
                                /\ b # c => blk'[b].is_free = blk[b].is_free
      BY <2>1, <2>3 DEF Taken, Marked, Headers
    <3>2. \A a \in Headers' : ~BothFree(a)'
      BY <3>1, <2>2, <1>T DEF BothFree
    <3> QED BY <3>2, <2>1 DEF Walks, Coalesced, Passed
  <2>4. CASE MustSplit(c, RoundUp(want))
    <3>1. rest \notin Headers
      <4>1. RoundUp(want) \in Nat /\ BlockSize \in Nat /\ HdrSize \in Nat \ {0}
        BY <1>1, RoundUpBounds, HeapAssumption DEF Take, TInv, TypeOK
      <4>2. End(c) = c + HdrSize + blk[c].size /\ \A b \in Headers : c < b => End(c) <= b
        BY <2>1, Numbers DEF TInv, Apart
      <4>3. c < rest /\ rest < End(c)
        BY <4>1, <4>2, <2>1, <2>4, <1>T DEF MustSplit
      <4> QED BY <4>2, <4>3, <2>1, <1>T
    <3> HIDE DEF rest
    <3>2. /\ Headers' = Headers \cup {rest} /\ ~blk'[c].is_free
          /\ blk'[rest].next = blk[c].next
          /\ \A b \in Headers \ {c} : blk'[b] = blk[b]
      BY <2>1, <2>4, <3>1 DEF Taken, Headers, rest
    <3>3. ASSUME NEW a \in Headers'
          PROVE  ~BothFree(a)'
      <4>1. CASE a = rest
        <5>1. blk[c].next # NULL => blk[c].next \in Headers /\ ~blk[blk[c].next].is_free
          BY <2>1, <2>2, <1>T DEF BothFree
        <5> QED BY <5>1, <4>1, <3>2 DEF BothFree
      <4>2. CASE a = c
        BY <4>2, <3>2 DEF BothFree
      <4>3. CASE a \in Headers \ {c}
        BY <4>3, <3>2, <2>2, <1>T DEF BothFree
      <4> QED BY <4>1, <4>2, <4>3, <3>2
    <3> QED BY <3>3, <2>1 DEF Walks, Coalesced, Passed
  <2> QED BY <2>3, <2>4
<1>2. ASSUME MergeNext
      PROVE  Walks'
  <2> DEFINE c == cur
             n == blk[c].next
  <2>1. /\ c \in Headers /\ n \in Headers /\ blk[c].is_free /\ n # NULL
        /\ pc = "merge" /\ pc' = "merge" /\ cur' = c /\ blk' = Merged(c)
    BY <1>2, <1>T DEF MergeNext, BothFree, TInv, TypeOK
  <2>2. c < n /\ \A b \in Headers \ {c} : blk[b].next # n
    <3>1. c < n
      BY <2>1 DEF TInv, Apart
    <3>2. ASSUME NEW b \in Headers \ {c}, blk[b].next = n
          PROVE  FALSE
      <4>1. b < n
        BY <3>2, <2>1 DEF TInv, Apart
      <4>2. CASE c < b
        <5>1. n <= b
          BY <4>2, <2>1 DEF TInv, Apart
        <5> QED BY <5>1, <4>1, <2>1, <1>T
      <4>3. CASE b < c
        <5>1. n <= c
          BY <4>3, <3>2, <2>1 DEF TInv, Apart
        <5>2. c \in Nat /\ n \in Nat
          BY <2>1, <1>T
        <5> HIDE DEF c, n
        <5> QED BY <5>1, <5>2, <3>1
      <4> QED BY <4>2, <4>3, <2>1, <1>T
    <3> QED BY <3>1, <3>2
  <2>3. /\ Headers' = Headers \ {n} /\ c # n
        /\ blk'[c].is_free
        /\ \A b \in Headers' \ {c} : blk'[b] = blk[b]
    BY <2>1, <2>2, <1>T DEF Merged, Headers
  <2> HIDE DEF c, n
  <2>4. ASSUME NEW a \in Headers', BothFree(a)'
        PROVE  c <= a
    <3>1. CASE a = c
      BY <3>1, <2>1, <1>T
    <3>2. CASE a # c
      <4>1. /\ blk'[a] = blk[a] /\ blk[a].next # NULL /\ blk[a].next \in Headers'
            /\ blk[a].is_free /\ blk'[blk[a].next].is_free
        BY <3>2, <2>2, <2>3, <2>4, <1>T DEF BothFree
      <4>2. blk[blk[a].next].is_free
        BY <4>1, <2>1, <2>3
      <4> QED BY <4>1, <4>2, <2>3 DEF BothFree, Walks, Coalesced, c
    <3> QED BY <3>1, <3>2
  <2>5. Coalesced'
    BY <2>1, <2>4 DEF Coalesced
  <2> QED BY <2>1, <2>5 DEF Walks, Passed
<1>3. ASSUME NEW r \in live, Free(r)
      PROVE  Walks'
  <2>1. pc' = "merge" /\ cur' = HeapStart /\ Headers' = Headers
    BY <1>3 DEF Free, Marked, Headers
  <2> QED BY <2>1, <1>T DEF Walks, Coalesced, Passed
<1>4. ASSUME NEW r \in live, EndText(r)
      PROVE  Walks'
  <2>1. /\ pc = "idle" /\ pc' = "idle" /\ Headers' = Headers
        /\ \A b \in Headers : blk'[b].next = blk[b].next /\ blk'[b].is_free = blk[b].is_free
    BY <1>4 DEF EndText, ZeroAt, Headers, TInv, TypeOK
  <2>2. \A a \in Headers : BothFree(a)' => BothFree(a)
    BY <2>1, <1>T DEF BothFree
  <2> QED BY <2>1, <2>2 DEF Walks, Coalesced, Passed
<1> QED BY <1>1, <1>2, <1>3, <1>4

(* Every step keeps both. *)
LEMMA NextWalks == TInv /\ Walks /\ [TextsNext]_vars => Walks'
<1> SUFFICES ASSUME TInv, Walks, [TextsNext]_vars PROVE Walks'
  OBVIOUS
<1>T. /\ HeapStart \in Nat /\ \A b \in Headers : b \in Nat /\ HeapStart <= b
  BY Numbers
<1>1. ASSUME NEW n \in Requests, Malloc(n)
      PROVE  Walks'
  BY <1>1, <1>T, HeapAssumption DEF Walks, Malloc, Coalesced, Passed, BothFree, Headers, NULL
<1>2. CASE OutOfMemory \/ FreeNull
  BY <1>2 DEF Walks, OutOfMemory, FreeNull, Return, Coalesced, Passed, BothFree, Headers
<1>3. CASE FreeLiteral
  BY <1>3 DEF Walks, FreeLiteral, Coalesced, Passed, BothFree, Headers
<1>4. CASE UNCHANGED vars
  BY <1>4 DEF Walks, vars, Coalesced, Passed, BothFree, Fits, Headers
<1> QED
  BY <1>1, <1>2, <1>3, <1>4, StepWalks, ListWalks DEF TextsNext, Next

(* Both hold in every state. *)
LEMMA WalksInductive == TextsSpec => []Walks
<1>1. Init => Walks
  BY InitIInv DEF IInv, Walks
<1>2. TInv /\ Walks /\ [TextsNext]_vars => Walks'
  BY NextWalks
<1> QED BY <1>1, <1>2, TextsInductive, PTL DEF TextsSpec

(* The list keeps its type, though sizes in it are overwritten. *)
THEOREM TextsTypeCorrect == TextsSpec => []TypeOK
<1>1. TInv => TypeOK
  BY DEF TInv
<1> QED BY <1>1, TextsInductive, PTL

(* Between calls no two neighbours are free. *)
THEOREM TextsCoalesced == TextsSpec => []Coalesced
<1>1. Walks => Coalesced
  BY DEF Walks
<1> QED BY <1>1, WalksInductive, PTL

(* malloc is first fit and gives up only when no block fits. *)
THEOREM TextsFirstFit == TextsSpec => FirstFit
<1>1. TInv /\ Walks /\ [TextsNext]_vars =>
        [pc = "search" /\ pc' = "idle" =>
           \A a \in Headers : Fits(a) => ret' # NULL /\ ret' <= Data(a)]_vars
  <2> SUFFICES ASSUME TInv, Walks, TextsNext, pc = "search", pc' = "idle",
                      NEW a \in Headers, Fits(a)
               PROVE  ret' # NULL /\ ret' <= Data(a)
    BY DEF vars
  <2>T. /\ HdrSize \in Nat \ {0} /\ HeapStart \in Nat /\ NULL < HeapStart
        /\ \A b \in Headers : b \in Nat /\ HeapStart <= b /\ Data(b) = b + HdrSize
    BY Numbers
  <2>1. Take \/ OutOfMemory
    BY DEF TextsNext, Next, Malloc, Skip, Free, FreeNull, MergeNext, MoveOn, MergeDone,
           FreeLiteral, EndText
  <2>2. CASE Take
    <3>1. cur \in Headers /\ ret' = Data(cur)
      BY <2>2 DEF Take, Return, TInv, TypeOK
    <3>2. cur <= a
      BY <3>1, <2>T DEF Walks, Passed
    <3> QED BY <3>1, <3>2, <2>T DEF NULL
  <2>3. CASE OutOfMemory
    BY <2>3 DEF OutOfMemory, Walks, Passed
  <2> QED BY <2>1, <2>2, <2>3
<1> QED BY <1>1, TextsInductive, WalksInductive, PTL DEF TextsSpec, FirstFit

--------------------------------------------------------------------------------
(* Regions of different holders share no byte. *)
LEMMA TextsDisjoint == TInv => AbstractDisjoint
<1> SUFFICES ASSUME TInv, NEW r \in live, NEW s \in live, r # s
             PROVE  ~Abstract!Overlaps(r, s)
  BY DEF AbstractDisjoint, Abstract!Disjoint
<1> DEFINE h == r.ptr - HdrSize
           k == s.ptr - HdrSize
<1>1. /\ r.ptr # s.ptr /\ h \in Headers /\ k \in Headers
      /\ \A b \in Headers : /\ r.ptr <= b => r.ptr + r.len <= b
                            /\ s.ptr <= b => s.ptr + s.len <= b
                            /\ h < b => End(h) <= b
                            /\ k < b => End(k) <= b
  BY DEF TInv, Apart, Held
<1>T. /\ HdrSize \in Nat /\ r.ptr \in Nat /\ r.len \in Nat /\ s.ptr \in Nat /\ s.len \in Nat
      /\ r.ptr = h + HdrSize /\ s.ptr = k + HdrSize
      /\ h \in Nat /\ k \in Nat
      /\ End(h) = h + HdrSize + blk[h].size /\ blk[h].size \in Nat
      /\ End(k) = k + HdrSize + blk[k].size /\ blk[k].size \in Nat
  BY <1>1, Numbers
<1> HIDE DEF h, k
<1>2. CASE h < k
  <2>1. r.ptr <= k
    BY <1>1, <1>2, <1>T
  <2>2. r.ptr + r.len <= s.ptr
    BY <2>1, <1>1, <1>T
  <2> QED BY <2>2, <1>T DEF Abstract!Overlaps, Abstract!Bytes
<1>3. CASE k < h
  <2>1. s.ptr <= h
    BY <1>1, <1>3, <1>T
  <2>2. s.ptr + s.len <= r.ptr
    BY <2>1, <1>1, <1>T
  <2> QED BY <2>2, <1>T DEF Abstract!Overlaps, Abstract!Bytes
<1> QED BY <1>1, <1>2, <1>3, <1>T

(* The heap still implements the abstract allocator: a text that fills its *)
(* buffer (shell_commands.c:352) and the free of a default file's literal  *)
(* (syscall.c:284) may cost the heap bytes, but they never let malloc hand *)
(* out a byte twice.                                                       *)
THEOREM TextsRefinement == TextsSpec => AllocatorSpec
<1>1. Init => Abstract!Init
  BY DEF Init, Abstract!Init
<1>2. TInv' => AbstractDisjoint'
  BY TextsDisjoint, PTL
<1>3. TInv /\ TInv' /\ [TextsNext]_vars => [Abstract!Next]_live
  <2> SUFFICES ASSUME TInv, TInv', TextsNext, live' # live
               PROVE  Abstract!Next
    BY DEF vars
  <2>1. CASE \E r \in live : Free(r)
    BY <2>1 DEF Free, Abstract!Next, Abstract!Free
  <2>2. CASE Take
    <3> DEFINE r == [ptr |-> Data(cur), len |-> want]
    <3>1. live' = live \cup {r} /\ r \in live' /\ r \notin live
      BY <2>2 DEF Take
    <3>2. r \in [ptr : Addr, len : Requests \ {0}]
      BY <3>1 DEF TInv, TypeOK
    <3> HIDE DEF r
    <3>3. r.ptr \in Addr /\ r.len \in Requests /\ r.len \in Nat \ {0}
      BY <3>2, HeapAssumption
    <3>4. \A s \in live : ~Abstract!Overlaps(r, s)
      BY <3>1, <1>2 DEF AbstractDisjoint, Abstract!Disjoint
    <3>5. Abstract!Bytes(r) \subseteq Addr
      <4>1. r.ptr + r.len <= HeapEnd
        BY <3>1 DEF TInv, Held, HeapEnd
      <4>2. \A b \in r.ptr .. (r.ptr + r.len - 1) : b \in Addr
        BY <4>1, <3>3, HeapAssumption DEF Addr, HeapEnd
      <4> QED BY <4>2 DEF Abstract!Bytes
    <3> QED
      BY <3>1, <3>2, <3>3, <3>4, <3>5 DEF Abstract!Next, Abstract!Malloc
  <2> QED
    BY <2>1, <2>2 DEF TextsNext, Next, Malloc, Skip, OutOfMemory, FreeNull, MergeNext, MoveOn,
                      MergeDone, FreeLiteral, EndText
<1> QED
  BY <1>1, <1>3, TextsInductive, PTL DEF TextsSpec, AllocatorSpec, Abstract!Spec

--------------------------------------------------------------------------------
(* The bytes that no block has any more: how many, and for how long. *)
LEMMA StrayFinite ==
  /\ IsFiniteSet(Stray) /\ Cardinality(Stray) \in Nat
  /\ IsFiniteSet(Stray') /\ Cardinality(Stray)' \in Nat
<1>1. IsFiniteSet(Addr) /\ Stray \subseteq Addr /\ Stray' \subseteq Addr
  BY FS_Interval, HeapAssumption DEF Addr, HeapEnd, Stray
<1>2. IsFiniteSet(Stray) /\ IsFiniteSet(Stray')
  BY <1>1, FS_Subset
<1> QED BY <1>2, FS_CardinalityType


(* Steps that leave each block its bytes make none stray, and find none. *)
LEMMA BlocksKept ==
  ASSUME Headers' = Headers, \A a \in Headers : blk'[a].size = blk[a].size
  PROVE  Stray' = Stray
<1>1. \A a \in Headers : End(a)' = End(a)
  BY DEF End, Data
<1> QED BY <1>1 DEF Stray

(* What a byte's place says of it. *)
LEMMA StrayAt ==
  TInv => \A p : p \in Stray <=> p \in Addr /\ \A a \in Headers : p < a \/ End(a) <= p
<1> SUFFICES ASSUME TInv
             PROVE  \A p : p \in Stray <=> p \in Addr /\ \A a \in Headers : p < a \/ End(a) <= p
  OBVIOUS
<1>1. \A a \in Headers : a \in Int /\ End(a) \in Int
  BY Numbers
<1>2. \A p \in Addr : p \in Int
  BY HeapAssumption DEF Addr, HeapEnd
<1>3. \A p \in Addr, a \in Headers : p \notin a .. End(a) - 1 <=> p < a \/ End(a) <= p
  BY <1>1, <1>2
<1> QED BY <1>3 DEF Stray

(* Both parts of a block that malloc splits are blocks. *)
LEMMA SplitStray ==
  ASSUME TInv, TInv', Take, NEW c, c = cur, NEW n, n = RoundUp(want), MustSplit(c, n)
  PROVE  Stray' = Stray
<1> DEFINE rest == Data(c) + n
           head == [size |-> n, is_free |-> FALSE, next |-> rest]
           tail == [size |-> blk[c].size - n - HdrSize, is_free |-> TRUE, next |-> blk[c].next]
<1>1. /\ c \in Headers /\ want \in Requests \ {0}
      /\ blk' = [b \in Headers \cup {rest} |-> IF b = c THEN head ELSE IF b = rest THEN tail ELSE blk[b]]
  BY DEF TInv, TypeOK, Take, Taken
<1>2. n \in Nat /\ blk[c].size > n + HdrSize + BlockSize
  BY <1>1, RoundUpBounds, HeapAssumption DEF MustSplit
<1>3. /\ rest = c + HdrSize + n /\ End(c) = c + HdrSize + blk[c].size
      /\ c \in Int /\ HdrSize \in Nat \ {0} /\ BlockSize \in Nat /\ blk[c].size \in Int
  BY <1>1, Numbers
<1>4. c < rest /\ rest < End(c) /\ rest \in Int /\ End(c) \in Int
  BY <1>2, <1>3
<1>5. rest \notin Headers
  BY <1>1, <1>4, Numbers DEF TInv, Apart
<1>6. /\ Headers' = Headers \cup {rest} /\ blk'[c] = head /\ blk'[rest] = tail
      /\ \A b \in Headers \ {c} : blk'[b] = blk[b]
  BY <1>1, <1>5 DEF Headers
<1>7. /\ End(c)' = c + HdrSize + n /\ End(rest)' = rest + HdrSize + (blk[c].size - n - HdrSize)
      /\ \A b \in Headers \ {c} : End(b)' = End(b)
  BY <1>6 DEF End, Data
<1> HIDE DEF head, tail, rest
<1>8. End(c)' = rest /\ End(rest)' = End(c)
  BY <1>2, <1>3, <1>7
<1>9. ASSUME NEW p \in Addr
      PROVE  (\A a \in Headers' : p < a \/ End(a)' <= p) <=> (\A a \in Headers : p < a \/ End(a) <= p)
  <2>1. p \in Int
    BY HeapAssumption DEF Addr, HeapEnd
  <2>2. (p < c \/ rest <= p) /\ (p < rest \/ End(c) <= p) <=> p < c \/ End(c) <= p
    BY ONLY <2>1, <1>3, <1>4
  <2> QED BY <1>1, <1>6, <1>7, <1>8, <2>2
<1>10. \A p : p \in Stray' <=> p \in Addr /\ \A a \in Headers' : p < a \/ End(a)' <= p
  <2>1. TInv' => (\A p : p \in Stray <=> p \in Addr /\ \A a \in Headers : p < a \/ End(a) <= p)'
    BY StrayAt, PTL
  <2> QED BY <2>1 DEF Addr, HeapEnd
<1> QED BY <1>9, <1>10, StrayAt

(* The number of elements, as far as two disjoint parts go. *)
LEMMA PartsCount ==
  ASSUME NEW X, NEW a \in Int, NEW b \in Int, a <= b, IsFiniteSet(X), X \cap (a .. b - 1) = {}
  PROVE  Cardinality(X \cup (a .. b - 1)) = Cardinality(X) + (b - a)
<1>1. PICK c \in Int : c = b - 1
  OBVIOUS
<1>2. IsFiniteSet(a .. c) /\ Cardinality(a .. c) = IF a > c THEN 0 ELSE c - a + 1
  BY FS_Interval
<1>3. Cardinality(a .. c) = b - a
  BY <1>1, <1>2
<1>4. PICK Y : Y = a .. c
  OBVIOUS
<1>5. Cardinality(X \cup Y) = Cardinality(X) + Cardinality(Y) - Cardinality(X \cap Y)
  BY <1>2, <1>4, FS_Union
<1>6. Cardinality(X \cap Y) = 0 /\ Cardinality(X) \in Nat
  BY <1>1, <1>4, FS_EmptySet, FS_CardinalityType
<1> QED BY <1>1, <1>3, <1>4, <1>5, <1>6

(* The bytes between two blocks are behind them when they are one. *)
LEMMA MergeStray ==
  ASSUME TInv, TInv', MergeNext
  PROVE  Lost' = Lost
<1>1. PICK c \in Headers, n \in Headers : c = cur /\ n = blk[c].next
  BY Numbers DEF TInv, TypeOK, MergeNext, BothFree
<1>2. blk' = [b \in Headers \ {n} |->
               IF b = c THEN [size |-> blk[c].size + blk[n].size + HdrSize,
                              is_free |-> TRUE, next |-> blk[n].next]
               ELSE blk[b]]
  BY <1>1 DEF MergeNext, Merged
<1>3. c < n /\ End(c) <= n
  BY <1>1 DEF TInv, Apart, MergeNext, BothFree
<1>4. /\ c \in Int /\ n \in Int /\ HdrSize \in Nat /\ blk[c].size \in Nat /\ blk[n].size \in Nat
      /\ End(c) = c + HdrSize + blk[c].size /\ End(n) = n + HdrSize + blk[n].size
  BY <1>1, Numbers
<1>5. /\ Headers' = Headers \ {n} /\ c \in Headers'
      /\ End(c)' = c + HdrSize + (blk[c].size + blk[n].size + HdrSize)
      /\ \A b \in Headers' \ {c} : End(b)' = End(b)
  BY <1>1, <1>2, <1>3, <1>4 DEF Headers, End, Data
<1>6. PICK e \in Int, f \in Int, g \in Int : e = End(c) /\ f = End(n) /\ g = End(c)'
  BY <1>4, <1>5
<1>7. c <= e /\ e <= n /\ n <= f /\ e <= g /\ g = f - (n - e) /\ g <= f
  BY <1>3, <1>4, <1>5, <1>6
<1>8. \A b \in Headers : b \in Int /\ End(b) \in Int /\ (b # c /\ b # n => End(b) <= c \/ f <= b)
  <2>1. ASSUME NEW b \in Headers, b # c, b # n, ~(End(b) <= c) PROVE f <= b
    <3>1. b \in Int /\ ~(b < c)
      BY <1>1, <2>1, Numbers DEF TInv, Apart
    <3>2. n <= b
      BY <1>1, <1>3, <1>4, <2>1, <3>1 DEF TInv, Apart
    <3>3. n < b
      BY ONLY <1>4, <2>1, <3>1, <3>2
    <3> QED BY <1>1, <1>6, <3>3 DEF TInv, Apart
  <2> QED BY <2>1, Numbers
<1> DEFINE X == {p \in Stray : p < c \/ f <= p}
<1>9. e .. n - 1 \subseteq Addr /\ g .. f - 1 \subseteq Addr
  <2>1. HeapStart \in Nat /\ HeapEnd \in Nat /\ HeapStart <= c /\ f <= HeapEnd
    BY <1>1, <1>6, Numbers DEF TInv, Apart
  <2> QED BY <1>4, <1>7, <2>1 DEF Addr
<1>10. \A p : p \in Stray <=> p \in Addr /\ \A a \in Headers : p < a \/ End(a) <= p
  BY StrayAt
<1>11. \A p : p \in Stray' <=> p \in Addr /\ \A a \in Headers' : p < a \/ End(a)' <= p
  <2>1. TInv' => (\A p : p \in Stray <=> p \in Addr /\ \A a \in Headers : p < a \/ End(a) <= p)'
    BY StrayAt, PTL
  <2> QED BY <2>1 DEF Addr, HeapEnd
<1>12. \A p \in Addr : p \in Int
  BY HeapAssumption DEF Addr, HeapEnd
<1>13. Stray = X \cup (e .. n - 1)
  <2>1. ASSUME NEW p \in Stray, ~(p < c), ~(f <= p) PROVE p \in e .. n - 1
    <3>1. p \in Int /\ (p < c \/ e <= p) /\ (p < n \/ f <= p)
      <4>1. p \in Addr /\ \A a \in Headers : p < a \/ End(a) <= p
        BY <1>10, <2>1
      <4> QED BY <1>1, <1>6, <1>12, <4>1
    <3> QED BY <1>4, <2>1, <3>1
  <2>2. ASSUME NEW p \in e .. n - 1 PROVE p \in Stray
    <3>1. p \in Int /\ e <= p /\ p < n
      BY ONLY <1>4, <1>6, <2>2
    <3>2. ASSUME NEW b \in Headers PROVE p < b \/ End(b) <= p
      BY <1>4, <1>6, <1>7, <1>8, <3>1, <3>2
    <3> QED BY <1>9, <1>10, <2>2, <3>2
  <2> QED BY <2>1, <2>2
<1>14. Stray' = X \cup (g .. f - 1)
  <2>1. ASSUME NEW p \in Stray', ~(p < c), ~(f <= p) PROVE p \in g .. f - 1
    <3>1. p \in Int /\ (p < c \/ g <= p)
      BY <1>5, <1>6, <1>11, <1>12, <2>1
    <3> QED BY <2>1, <3>1
  <2>2. ASSUME NEW p \in Addr, p < c \/ f <= p
        PROVE  p \in Stray <=> p \in Stray'
    <3>1. p \in Int /\ (p < c \/ e <= p) /\ (p < n \/ f <= p) /\ (p < c \/ g <= p)
      BY <1>4, <1>7, <1>12, <2>2
    <3> QED BY <1>1, <1>5, <1>6, <1>10, <1>11, <3>1
  <2>3. ASSUME NEW p \in g .. f - 1 PROVE p \in Stray'
    <3>1. p \in Int /\ g <= p /\ p < f
      BY <2>3
    <3>2. ASSUME NEW b \in Headers' PROVE p < b \/ End(b)' <= p
      <4>1. CASE b = c
        BY <1>6, <3>1, <4>1
      <4>2. CASE b # c
        <5>1. b \in Headers /\ b # n /\ End(b)' = End(b) /\ c <= p
          BY <1>4, <1>5, <1>7, <3>1, <3>2, <4>2
        <5>2. b \in Int /\ End(b) \in Int /\ (End(b) <= c \/ f <= b)
          BY <1>8, <4>2, <5>1
        <5> QED BY ONLY <1>4, <1>6, <3>1, <5>1, <5>2
      <4> QED BY <4>1, <4>2
    <3> QED BY <1>9, <1>11, <2>3, <3>2
  <2>4. Stray' \subseteq Addr /\ Stray \subseteq Addr
    BY <1>10, <1>11
  <2> QED BY <2>1, <2>2, <2>3, <2>4
<1>15. IsFiniteSet(X)
  <2>1. X \subseteq Stray
    OBVIOUS
  <2> HIDE DEF X
  <2> QED BY <2>1, StrayFinite, FS_Subset
<1>16. X \cap (e .. n - 1) = {} /\ X \cap (g .. f - 1) = {}
  <2>1. \A p \in X : p \in Int /\ (p < c \/ f <= p)
    BY <1>10, <1>12
  <2> HIDE DEF X
  <2> QED BY <1>4, <1>7, <2>1
<1>17. n - e = f - g
  BY <1>4, <1>7
<1> HIDE DEF X
<1>18. Cardinality(Stray) = Cardinality(X) + (n - e)
  BY ONLY <1>4, <1>7, <1>13, <1>15, <1>16, PartsCount
<1>19. Cardinality(Stray') = Cardinality(X) + (f - g)
  BY ONLY <1>4, <1>7, <1>14, <1>15, <1>16, PartsCount
<1> QED BY <1>17, <1>18, <1>19 DEF Lost

(* The zero behind a text takes less than 256 bytes from one block. *)
LEMMA EndTextStray ==
  ASSUME TInv, TInv', NEW r \in live, EndText(r)
  PROVE  Lost' - Lost \in 0 .. Byte - 1 /\ (Lost' # Lost => r.ptr + r.len \in Headers)
<1>1. PICK h : h = r.ptr + r.len
  OBVIOUS
<1>2. blk' = ZeroAt(h)
  BY <1>1 DEF EndText
<1>3. Byte \in Nat \ {0} /\ Cardinality(Stray) \in Nat /\ IsFiniteSet(Stray)
  BY HeapTextsAssumption, StrayFinite
<1>4. CASE h \notin Headers
  <2>1. blk' = blk
    BY <1>2, <1>4 DEF ZeroAt
  <2>2. Stray' = Stray
    BY <2>1, BlocksKept DEF Headers
  <2> QED BY <1>3, <2>2 DEF Lost
<1>5. CASE h \in Headers
  <2>1. PICK size \in Nat, k \in Nat : size = blk[h].size /\ k = size % Byte /\ k <= size /\ k <= Byte - 1
    <3>1. PICK size \in Nat, m \in Nat \ {0} : size = blk[h].size /\ m = Byte
      BY <1>3, <1>5, Numbers
    <3>2. size % m \in 0 .. m - 1 /\ size % m <= size
      BY ONLY size \in Nat, m \in Nat \ {0}, Z3
    <3> QED BY <3>1, <3>2
  <2>2. blk' = [blk EXCEPT ![h].size = size - k]
    BY <1>2, <1>5, <2>1 DEF ZeroAt
  <2>3. /\ Headers' = Headers /\ blk'[h].size = size - k
        /\ \A b \in Headers \ {h} : blk'[b].size = blk[b].size
    BY <1>5, <2>2 DEF Headers, TInv, TypeOK
  <2>4. /\ h \in Int /\ HdrSize \in Nat /\ End(h) = h + HdrSize + size /\ End(h)' = h + HdrSize + (size - k)
        /\ \A b \in Headers \ {h} : End(b)' = End(b)
    BY <1>5, <2>1, <2>3, Numbers DEF End, Data
  <2>5. PICK e \in Int, g \in Int : e = End(h) /\ g = End(h)' /\ h <= g /\ g <= e /\ e - g = k
    BY <2>1, <2>4
  <2>6. g .. e - 1 \subseteq Addr
    <3>1. HeapStart \in Nat /\ HeapEnd \in Nat /\ HeapStart <= h /\ e <= HeapEnd
      BY <1>5, <2>5, Numbers DEF TInv, Apart
    <3> QED BY <2>4, <2>5, <3>1 DEF Addr
  <2>7. \A b \in Headers \ {h} : b \in Int /\ End(b) \in Int /\ (End(b) <= h \/ e <= b)
    BY <1>5, <2>5, Numbers DEF TInv, Apart
  <2>8. \A p : p \in Stray <=> p \in Addr /\ \A a \in Headers : p < a \/ End(a) <= p
    BY StrayAt
  <2>9. \A p : p \in Stray' <=> p \in Addr /\ \A a \in Headers : p < a \/ End(a)' <= p
    <3>1. TInv' => (\A p : p \in Stray <=> p \in Addr /\ \A a \in Headers : p < a \/ End(a) <= p)'
      BY StrayAt, PTL
    <3> QED BY <2>3, <3>1 DEF Addr, HeapEnd
  <2>10. \A p \in Addr : p \in Int
    BY HeapAssumption DEF Addr, HeapEnd
  <2>11. Stray' = Stray \cup (g .. e - 1)
    <3>1. ASSUME NEW p \in Stray PROVE p \in Stray'
      <4>1. p \in Addr /\ p \in Int /\ \A a \in Headers : p < a \/ End(a) <= p
        BY <2>8, <2>10, <3>1
      <4>2. p < h \/ g <= p
        BY <1>5, <2>4, <2>5, <4>1
      <4> QED BY <2>4, <2>5, <2>9, <4>1, <4>2
    <3>2. ASSUME NEW p \in g .. e - 1 PROVE p \in Stray'
      <4>1. p \in Int /\ g <= p /\ p < e /\ p \in Addr
        BY <2>6, <3>2
      <4>2. ASSUME NEW a \in Headers PROVE p < a \/ End(a)' <= p
        <5>1. CASE a = h
          BY <2>5, <4>1, <5>1
        <5>2. CASE a # h
          <6>1. End(a)' = End(a) /\ a \in Int /\ End(a) \in Int /\ (End(a) <= h \/ e <= a)
            BY <2>4, <2>7, <5>2
          <6> QED BY ONLY <2>4, <2>5, <4>1, <6>1
        <5> QED BY <5>1, <5>2
      <4> QED BY <2>9, <4>1, <4>2
    <3>3. ASSUME NEW p \in Stray', p \notin g .. e - 1 PROVE p \in Stray
      <4>1. p \in Addr /\ p \in Int /\ \A a \in Headers : p < a \/ End(a)' <= p
        BY <2>9, <2>10, <3>3
      <4>2. p < h \/ e <= p
        BY <1>5, <2>4, <2>5, <3>3, <4>1
      <4> QED BY <2>4, <2>5, <2>8, <4>1, <4>2
    <3> QED BY <3>1, <3>2, <3>3
  <2>12. Stray \cap (g .. e - 1) = {}
    <3> SUFFICES ASSUME NEW p \in Stray, p \in g .. e - 1 PROVE FALSE
      OBVIOUS
    <3>1. p \in Int /\ (p < h \/ e <= p)
      BY <1>5, <2>5, <2>8, <2>10
    <3> QED BY <2>4, <2>5, <3>1
  <2>13. Cardinality(Stray') = Cardinality(Stray) + (e - g)
    BY ONLY <1>3, <2>5, <2>11, <2>12, PartsCount
  <2>14. Lost' = Lost + k /\ Lost \in Nat
    BY <1>3, <2>5, <2>13 DEF Lost
  <2> QED BY <1>1, <1>3, <1>5, <2>1, <2>14
<1> QED BY <1>1, <1>4, <1>5

(* The damage of a text that fills its buffer is bounded and for good: it  *)
(* costs less than 256 bytes of the block behind it, and no malloc or free *)
(* loses more of them or finds them again.                                 *)
THEOREM BytesAreLostForGood == TextsSpec => LostForGood
<1>1. TInv /\ TInv' /\ [TextsNext]_vars =>
        [/\ Lost' - Lost \in 0 .. Byte - 1
         /\ Lost' # Lost => \E r \in live : r.ptr + r.len \in Headers]_vars
  <2> SUFFICES ASSUME TInv, TInv', TextsNext
               PROVE  /\ Lost' - Lost \in 0 .. Byte - 1
                      /\ Lost' # Lost => \E r \in live : r.ptr + r.len \in Headers
    BY DEF vars
  <2>0. Byte \in Nat \ {0} /\ Lost \in Nat
    BY HeapTextsAssumption, StrayFinite DEF Lost
  <2>1. CASE Lost' = Lost
    BY <2>0, <2>1
  <2>2. ASSUME Headers' = Headers, \A a \in Headers : blk'[a].size = blk[a].size PROVE Lost' = Lost
    BY <2>2, BlocksKept DEF Lost
  <2>3. CASE Take
    <3>1. CASE MustSplit(cur, RoundUp(want))
      BY <2>1, <2>3, <3>1, SplitStray DEF Lost
    <3>2. CASE ~MustSplit(cur, RoundUp(want))
      <4>1. blk' = Marked(cur, FALSE)
        BY <2>3, <3>2 DEF Take, Taken
      <4> QED BY <2>1, <2>2, <4>1 DEF Marked, Headers
    <3> QED BY <3>1, <3>2
  <2>4. CASE MergeNext
    BY <2>1, <2>4, MergeStray
  <2>5. ASSUME NEW r \in live, Free(r) PROVE Lost' = Lost
    <3>1. blk' = Marked(r.ptr - HdrSize, TRUE)
      BY <2>5 DEF Free
    <3> QED BY <2>2, <3>1 DEF Marked, Headers
  <2>6. ASSUME NEW r \in live, EndText(r)
        PROVE  Lost' - Lost \in 0 .. Byte - 1 /\ (Lost' # Lost => r.ptr + r.len \in Headers)
    BY <2>6, EndTextStray
  <2>7. CASE UNCHANGED blk
    BY <2>1, <2>2, <2>7 DEF Headers
  <2> QED
    BY <2>1, <2>3, <2>4, <2>5, <2>6, <2>7
       DEF TextsNext, Next, Malloc, Skip, OutOfMemory, FreeNull, MoveOn, MergeDone, FreeLiteral
<1> QED BY <1>1, TextsInductive, PTL DEF TextsSpec, LostForGood

(* Each used block has a holder, whatever its size says. *)
HasHolder == \A a \in Headers : ~blk[a].is_free => \E r \in live : r.ptr = Data(a)

(* So it is, in every reachable state. *)
LEMMA HolderInductive == TextsSpec => []HasHolder
<1>1. Init => HasHolder
  BY DEF Init, HasHolder, Headers
<1>2. TInv /\ HasHolder /\ [TextsNext]_vars => HasHolder'
  <2> SUFFICES ASSUME TInv, HasHolder, [TextsNext]_vars PROVE HasHolder'
    OBVIOUS
  <2>1. ASSUME live' = live, Headers' \subseteq Headers,
               \A a \in Headers' : ~blk'[a].is_free => ~blk[a].is_free
        PROVE  HasHolder'
    BY <2>1 DEF HasHolder, Data
  <2>2. CASE Take
    <3> DEFINE s == [ptr |-> Data(cur), len |-> want]
    <3>1. cur \in Headers /\ live' = live \cup {s} /\ blk' = Taken(cur, RoundUp(want))
      BY <2>2 DEF Take, TInv, TypeOK
    <3>2. \A a \in Headers' : a # cur /\ ~blk'[a].is_free => a \in Headers /\ ~blk[a].is_free
      BY <3>1 DEF Taken, Marked, Headers
    <3>3. s.ptr = Data(cur) /\ s \in live'
      BY <3>1
    <3> QED BY <3>1, <3>2, <3>3 DEF HasHolder, Data
  <2>3. ASSUME NEW r \in live, Free(r) PROVE HasHolder'
    <3>1. /\ blk' = Marked(r.ptr - HdrSize, TRUE) /\ live' = live \ {r} /\ r.ptr - HdrSize \in Headers
          /\ r.ptr \in Int /\ HdrSize \in Int
      BY <2>3, Numbers DEF Free, TInv, Held
    <3>2. /\ Headers' = Headers /\ blk'[r.ptr - HdrSize].is_free = TRUE
          /\ \A a \in Headers : a # r.ptr - HdrSize => blk'[a] = blk[a]
      BY <3>1 DEF Marked, Headers
    <3>3. \A a \in Headers : a # r.ptr - HdrSize => Data(a) # r.ptr
      BY <3>1, Numbers
    <3> QED BY <3>1, <3>2, <3>3 DEF HasHolder, Data
  <2>4. CASE MergeNext
    <3>1. blk' = Merged(cur) /\ live' = live
      BY <2>4 DEF MergeNext
    <3>2. Headers' \subseteq Headers /\ \A a \in Headers' : ~blk'[a].is_free => ~blk[a].is_free
      BY <3>1 DEF Merged, Headers
    <3> QED BY <2>1, <3>1, <3>2
  <2>5. ASSUME NEW r \in live, EndText(r) PROVE HasHolder'
    <3>1. blk' = ZeroAt(r.ptr + r.len) /\ live' = live
      BY <2>5 DEF EndText
    <3>2. Headers' = Headers /\ \A a \in Headers' : blk'[a].is_free = blk[a].is_free
      BY <3>1 DEF ZeroAt, Headers
    <3> QED BY <2>1, <3>1, <3>2
  <2>6. CASE UNCHANGED <<blk, live>>
    BY <2>1, <2>6 DEF Headers
  <2> QED
    BY <2>2, <2>3, <2>4, <2>5, <2>6
       DEF TextsNext, Next, Malloc, Skip, OutOfMemory, FreeNull, MoveOn, MergeDone, FreeLiteral, vars
<1> QED BY <1>1, <1>2, TextsInductive, PTL DEF TextsSpec

(* The lost bytes are all there is to it: while none is, the blocks tile   *)
(* the arena and each used one is the holder's whose bytes it has.         *)
THEOREM HeapWholeUnlessLost == TextsSpec => []WholeUnlessLost
<1>1. TInv /\ HasHolder => WholeUnlessLost
  <2> SUFFICES ASSUME TInv, HasHolder, Lost = 0 PROVE Tiling /\ Ownership
    BY DEF WholeUnlessLost
  <2>1. \A p \in Addr : \E a \in Headers : ~(p < a) /\ ~(End(a) <= p)
    BY StrayFinite, FS_EmptySet, StrayAt DEF Lost
  <2>2. /\ HeapStart \in Nat /\ HeapEnd \in Nat /\ HdrSize \in Nat \ {0} /\ NULL < HeapStart
        /\ \A a \in Headers : /\ a \in Nat /\ HeapStart <= a /\ a < HeapEnd /\ blk[a].size \in Nat
                              /\ blk[a].next \in Headers \cup {NULL}
                              /\ End(a) = a + HdrSize + blk[a].size /\ Data(a) = a + HdrSize
                              /\ End(a) \in Nat
    BY Numbers
  <2>3. ASSUME NEW a \in Headers
        PROVE  End(a) <= HeapEnd /\ blk[a].next = IF End(a) = HeapEnd THEN NULL ELSE End(a)
    <3>1. End(a) <= HeapEnd /\ End(a) \in Nat /\ HeapStart <= End(a) /\ a < End(a)
      BY <2>2 DEF TInv, Apart
    <3>2. CASE End(a) = HeapEnd
      <4>1. blk[a].next \notin Headers
        <5> SUFFICES ASSUME blk[a].next \in Headers PROVE FALSE
          OBVIOUS
        <5>1. PICK b \in Headers : b = blk[a].next
          OBVIOUS
        <5>2. b # NULL /\ b \in Nat /\ b < HeapEnd
          BY <2>2, <5>1 DEF NULL
        <5>3. a < b
          BY <5>1, <5>2 DEF TInv, Apart
        <5>4. End(a) <= b
          BY <5>3 DEF TInv, Apart
        <5> QED BY <2>2, <3>2, <5>2, <5>4
      <4> QED BY <2>2, <3>2, <4>1
    <3>3. CASE End(a) # HeapEnd
      <4>1. End(a) \in Addr
        BY <2>2, <3>1, <3>3 DEF Addr
      <4>2. PICK b \in Headers : ~(End(a) < b) /\ ~(End(b) <= End(a))
        BY <2>1, <4>1
      <4>3. b \in Nat /\ End(b) \in Nat /\ b # a
        BY <2>2, <4>2
      <4>4. a < b
        BY <2>2, <3>1, <4>2, <4>3 DEF TInv, Apart
      <4>5. End(a) = b /\ blk[a].next # NULL /\ blk[a].next <= b
        BY <3>1, <4>2, <4>3, <4>4 DEF TInv, Apart
      <4>6. PICK n \in Headers : n = blk[a].next
        BY <2>2, <4>5
      <4>7. End(a) <= n /\ n \in Nat
        BY <2>2, <4>5, <4>6 DEF TInv, Apart
      <4> QED BY <3>1, <3>3, <4>3, <4>5, <4>6, <4>7
    <3> QED BY <3>1, <3>2, <3>3
  <2>4. \A a, b \in Headers : a < b => End(a) <= b
    BY DEF TInv, Apart
  <2>5. ASSUME NEW r \in live
        PROVE  /\ r.ptr - HdrSize \in Headers /\ ~blk[r.ptr - HdrSize].is_free
               /\ r.len <= blk[r.ptr - HdrSize].size
    <3>1. PICK h \in Headers : h = r.ptr - HdrSize
      BY DEF TInv, Held
    <3>2. r.ptr \in Nat /\ r.len \in Nat /\ End(h) = r.ptr + blk[h].size /\ blk[h].size \in Nat
      BY <2>2, <3>1, Numbers
    <3>3. r.ptr + r.len <= End(h)
      <4>1. CASE blk[h].next = NULL
        BY <2>2, <2>3, <4>1 DEF TInv, Held
      <4>2. CASE blk[h].next # NULL
        <5>1. PICK n \in Headers : n = blk[h].next
          BY <2>2, <4>2
        <5>2. n = End(h) /\ r.ptr <= n
          BY <2>2, <2>3, <3>2, <4>2, <5>1
        <5> QED BY <5>2 DEF TInv, Held
      <4> QED BY <4>1, <4>2
    <3> QED BY <3>1, <3>2, <3>3 DEF TInv, Held
  <2>6. \A r, s \in live : r.ptr = s.ptr => r = s
    BY DEF TInv, Held
  <2> QED BY <2>3, <2>4, <2>5, <2>6 DEF Tiling, Ownership, HasHolder
<1> QED BY <1>1, TextsInductive, HolderInductive, PTL

================================================================================
