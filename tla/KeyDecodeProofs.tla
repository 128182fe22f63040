---------------------------- MODULE KeyDecodeProofs ----------------------------
(***************************************************************************)
(* Proofs about keyboard_handler, for every keyboard, keymap and number of *)
(* bytes on the way that DecodeAssumption allows.                          *)
(*                                                                         *)
(* The flags lag behind the keys by the bytes that are still to be read.   *)
(* The inductive invariant therefore speaks of the value a flag will have  *)
(* when a byte is read (FlagAt): at a byte of a key that types it agrees   *)
(* with the modifiers that were down when the byte was sent, and behind    *)
(* the last byte it agrees with the keys that are down now.                *)
(* Sending bytes moves the end, reading one moves the start, and the value *)
(* at a byte in between does not change.  Caps lock is turned by single    *)
(* bytes: each carries the value it will leave (Locks).                    *)
(***************************************************************************)
EXTENDS KeyDecode, SequenceTheorems, TLAPS

(* What the keyboard stands at, and a byte on the wire. *)
At == [with : SUBSET Keys, mixed : BOOLEAN, caps : BOOLEAN]
ByteType == [code : {k.code : k \in Keys} \cup {Prefix}, up : BOOLEAN, at : At]

(* The handler will read byte i with extended_key set. *)
Ext(i) == IF i = 1 THEN extended_key ELSE wire[i - 1].code = Prefix

(* The bytes that will set and clear shift_pressed, and altgr_pressed.  An *)
(* Alt that is released clears it as AltGr does.                           *)
ShiftOns  == {i \in DOMAIN wire : wire[i].code \in {Shift, RShift} /\ ~Ext(i) /\ ~wire[i].up}
ShiftOffs == {i \in DOMAIN wire : wire[i].code \in {Shift, RShift} /\ ~Ext(i) /\ wire[i].up}
AltGrOns  == {i \in DOMAIN wire : wire[i].code = Alt /\ Ext(i) /\ ~wire[i].up}
AltGrOffs == {i \in DOMAIN wire : wire[i].code = Alt /\ wire[i].up}

(* The value of a flag, f now, when byte i is read. *)
FlagAt(f, ons, offs, i) ==
  \/ f /\ \A k \in offs : i <= k
  \/ \E j \in ons : j < i /\ \A k \in offs : j < k => i <= k

(* S of bytes 1 to n becomes T when bytes up to m are sent: at most the    *)
(* last of them joins.                                                     *)
Grows(S, T, n, m) == S \subseteq 1 .. n /\ (T = S \/ T = S \cup {m})

(* The first byte of S is read, and T is what is left of S. *)
Moves(S, T) ==
  /\ S \subseteq Nat \ {0} /\ T \subseteq Nat \ {0}
  /\ \A j \in Nat \ {0} : j \in T <=> j + 1 \in S

ShiftAt(i) == FlagAt(shift_pressed, ShiftOns, ShiftOffs, i)
AltGrAt(i) == FlagAt(altgr_pressed, AltGrOns, AltGrOffs, i)

Typed ==
  /\ held \subseteq Keys
  /\ wire \in Seq(ByteType) /\ Len(wire) <= Wire
  /\ shift_pressed \in BOOLEAN /\ altgr_pressed \in BOOLEAN /\ caps_lock \in BOOLEAN
  /\ extended_key \in BOOLEAN /\ mixed \in BOOLEAN /\ caps \in BOOLEAN
  /\ dead_key_state \in DOMAIN Keymap \cup {NUL}
  /\ typed.char = NUL \/ typed.code \in DOMAIN Keymap \cup DOMAIN Special

(* A prefix and the byte that belongs to it are together on the wire, or   *)
(* the prefix is the last byte that has been read.                         *)
Paired ==
  /\ extended_key => wire # << >> /\ wire[1].code # Prefix
  /\ \A i \in DOMAIN wire : wire[i].code = Prefix =>
       i + 1 \in DOMAIN wire /\ wire[i + 1].code # Prefix

(* A key that types is read under the modifiers that were down when it was *)
(* struck, or under fewer of them after a mix.                             *)
Struck ==
  \A i \in DOMAIN wire : ~wire[i].up /\ wire[i].code \in DOMAIN Keymap =>
    /\ Agrees(ShiftAt(i), ShiftKeys \cap wire[i].at.with # {}, wire[i].at.mixed)
    /\ Agrees(AltGrAt(i), AltGr \in wire[i].at.with, wire[i].at.mixed)

(* When the wire will have been read, the flags agree with the keys. *)
Settles ==
  LET end == Len(wire) + 1
  IN  /\ Agrees(ShiftAt(end), ShiftKeys \cap held # {}, mixed)
      /\ Agrees(AltGrAt(end), AltGr \in held, mixed)

(* Byte i will turn caps lock, which is CapsAt(i) when it is read. *)
Turns(i)  == wire[i].code = Caps /\ ~Ext(i) /\ ~wire[i].up
CapsAt(i) == IF i = 1 THEN caps_lock ELSE wire[i - 1].at.caps

(* Each byte carries the value of caps lock it leaves, the last of them    *)
(* the value the keyboard stands at.                                       *)
Locks ==
  /\ \A i \in DOMAIN wire : wire[i].at.caps <=> ~(CapsAt(i) <=> Turns(i))
  /\ caps <=> CapsAt(Len(wire) + 1)

DInv ==
  /\ Typed
  /\ Paired
  /\ Struck
  /\ Settles
  /\ Locks
  /\ ShiftKeys \subseteq held => mixed
  /\ TypedAsHeld

--------------------------------------------------------------------------------
(* A flag now is its value at the first byte. *)
LEMMA FlagNow ==
  ASSUME NEW f \in BOOLEAN, NEW ons, NEW offs, \A j \in ons \cup offs : j \in Nat \ {0}
  PROVE  FlagAt(f, ons, offs, 1) <=> f
<1>1. \A j \in ons : ~(j < 1)
  OBVIOUS
<1>2. \A j \in offs : 1 <= j
  OBVIOUS
<1> QED BY <1>1, <1>2 DEF FlagAt

(* Bytes sent behind byte n do not change the value at earlier ones; the   *)
(* last of them decides the value behind it.                               *)
LEMMA FlagSent ==
  ASSUME NEW f, NEW n \in Nat, NEW m \in Nat, n < m,
         NEW ons, NEW ons2, Grows(ons, ons2, n, m),
         NEW offs, NEW offs2, Grows(offs, offs2, n, m), ~(m \in ons2 /\ m \in offs2)
  PROVE  /\ \A i \in 1 .. n : FlagAt(f, ons2, offs2, i) <=> FlagAt(f, ons, offs, i)
         /\ FlagAt(f, ons2, offs2, m) <=> FlagAt(f, ons, offs, n + 1)
         /\ FlagAt(f, ons2, offs2, m + 1)
               <=> m \notin offs2 /\ (m \in ons2 \/ FlagAt(f, ons, offs, n + 1))
<1>1. /\ \A j \in ons2 : j \in ons \/ j = m
      /\ \A j \in offs2 : j \in offs \/ j = m
  BY DEF Grows
<1>2. /\ \A j \in ons : j \in ons2 /\ j \in Nat /\ j <= n
      /\ \A j \in offs : j \in offs2 /\ j \in Nat /\ j <= n
  BY DEF Grows
<1>4. ASSUME NEW i \in 1 .. m
      PROVE  FlagAt(f, ons2, offs2, i) <=> FlagAt(f, ons, offs, i)
  <2>1. i \in Nat /\ i <= m
    OBVIOUS
  <2>2. ASSUME \A k \in offs : i <= k PROVE \A k \in offs2 : i <= k
    BY <1>1, <2>1, <2>2
  <2>3. ASSUME NEW j \in Nat, \A k \in offs : j < k => i <= k
        PROVE  \A k \in offs2 : j < k => i <= k
    BY <1>1, <2>1, <2>3
  <2>4. \A j \in ons2 : j < i => j \in ons
    BY <1>1, <1>2, <2>1
  <2> QED BY <1>2, <2>2, <2>3, <2>4 DEF FlagAt
<1>5. ASSUME NEW i \in n + 1 .. m
      PROVE  FlagAt(f, ons, offs, i) <=> FlagAt(f, ons, offs, n + 1)
  <2>1. i \in Nat /\ n < i
    OBVIOUS
  <2>2. /\ \A k \in offs : ~(i <= k) /\ ~(n + 1 <= k)
        /\ \A j \in ons : j < i /\ j < n + 1
    BY <1>2, <2>1
  <2> QED BY <2>2 DEF FlagAt
<1>6. FlagAt(f, ons2, offs2, m + 1)
        <=> m \notin offs2 /\ (m \in ons2 \/ FlagAt(f, ons, offs, n + 1))
  <2>1. CASE m \in offs2
    <3>1. ~(m + 1 <= m)
      OBVIOUS
    <3>2. ASSUME NEW j \in ons2 PROVE j < m
      BY <1>1, <1>2, <2>1
    <3>3. \A j \in ons2 : ~(\A k \in offs2 : j < k => m + 1 <= k)
      BY <2>1, <3>1, <3>2
    <3> QED BY <2>1, <3>1, <3>3 DEF FlagAt
  <2>2. CASE m \notin offs2 /\ m \in ons2
    <3>1. \A k \in offs2 : ~(m < k)
      BY <1>1, <1>2, <2>2
    <3>2. m < m + 1
      OBVIOUS
    <3> QED BY <2>2, <3>1, <3>2 DEF FlagAt
  <2>3. CASE m \notin offs2 /\ m \notin ons2
    <3>1. ons2 = ons /\ offs2 = offs
      BY <2>3 DEF Grows
    <3>2. /\ \A k \in offs : ~(m + 1 <= k) /\ ~(n + 1 <= k)
          /\ \A j \in ons : j < m + 1 /\ j < n + 1
      BY <1>2
    <3> QED BY <2>3, <3>1, <3>2 DEF FlagAt
  <2> QED BY <2>1, <2>2, <2>3
<1>7. FlagAt(f, ons2, offs2, m) <=> FlagAt(f, ons, offs, n + 1)
  <2>1. m \in 1 .. m /\ m \in n + 1 .. m
    OBVIOUS
  <2> QED BY <1>4, <1>5, <2>1
<1>8. \A i \in 1 .. n : FlagAt(f, ons2, offs2, i) <=> FlagAt(f, ons, offs, i)
  <2>1. \A i \in 1 .. n : i \in 1 .. m
    OBVIOUS
  <2> QED BY <1>4, <2>1
<1> QED BY <1>6, <1>7, <1>8

(* When the first byte has been read, the others have moved up. *)
LEMMA FlagRead ==
  ASSUME NEW f \in BOOLEAN, NEW f2 \in BOOLEAN,
         NEW ons, NEW ons2, Moves(ons, ons2), NEW offs, NEW offs2, Moves(offs, offs2),
         ~(1 \in ons /\ 1 \in offs),
         f2 <=> ((f /\ 1 \notin offs) \/ 1 \in ons),
         NEW i \in Nat \ {0}
  PROVE  FlagAt(f2, ons2, offs2, i) <=> FlagAt(f, ons, offs, i + 1)
<1>0. /\ \A k \in offs : k # 1 => k - 1 \in offs2 /\ k \in Nat
      /\ \A k \in ons : k # 1 => k - 1 \in ons2 /\ k \in Nat
      /\ \A k \in offs : k \in Nat /\ 1 <= k
      /\ \A k \in ons : k \in Nat /\ 1 <= k
      /\ \A k \in offs2 : k + 1 \in offs /\ k \in Nat
      /\ \A k \in ons2 : k + 1 \in ons /\ k \in Nat
  BY DEF Moves
<1>1. ASSUME FlagAt(f2, ons2, offs2, i) PROVE FlagAt(f, ons, offs, i + 1)
  <2>1. CASE f2 /\ \A k \in offs2 : i <= k
    <3>1. \A k \in offs : k # 1 => i + 1 <= k
      BY <1>0, <2>1
    <3>2. CASE f /\ 1 \notin offs
      BY <3>1, <3>2 DEF FlagAt
    <3>3. CASE 1 \in ons
      BY <3>1, <3>3 DEF FlagAt
    <3> QED BY <2>1, <3>2, <3>3
  <2>2. ASSUME NEW j \in ons2, j < i, \A k \in offs2 : j < k => i <= k
        PROVE  FlagAt(f, ons, offs, i + 1)
    <3>1. j + 1 \in ons /\ j + 1 < i + 1 /\ j \in Nat
      BY <1>0, <2>2
    <3>2. \A k \in offs : j + 1 < k => i + 1 <= k
      BY <1>0, <2>2, <3>1
    <3> QED BY <3>1, <3>2 DEF FlagAt
  <2> QED BY <1>1, <2>1, <2>2 DEF FlagAt
<1>2. ASSUME FlagAt(f, ons, offs, i + 1) PROVE FlagAt(f2, ons2, offs2, i)
  <2>1. CASE f /\ \A k \in offs : i + 1 <= k
    <3>1. 1 \notin offs
      BY <2>1
    <3>2. \A k \in offs2 : i <= k
      BY <1>0, <2>1
    <3> QED BY <2>1, <3>1, <3>2 DEF FlagAt
  <2>2. ASSUME NEW j \in ons, j < i + 1, \A k \in offs : j < k => i + 1 <= k
        PROVE  FlagAt(f2, ons2, offs2, i)
    <3>1. CASE j = 1
      <4>1. \A k \in offs2 : i <= k
        BY <1>0, <2>2, <3>1
      <4> QED BY <3>1, <4>1 DEF FlagAt
    <3>2. CASE j # 1
      <4>1. j - 1 \in ons2 /\ j - 1 < i /\ j \in Nat
        BY <1>0, <2>2, <3>2
      <4>2. \A k \in offs2 : j - 1 < k => i <= k
        BY <1>0, <2>2, <4>1
      <4> QED BY <4>1, <4>2 DEF FlagAt
    <3> QED BY <3>1, <3>2
  <2> QED BY <1>2, <2>1, <2>2 DEF FlagAt
<1> QED BY <1>1, <1>2

--------------------------------------------------------------------------------
(* The wire by its places. *)
LEMMA WireIs ==
  ASSUME Typed
  PROVE  /\ Len(wire) \in Nat /\ DOMAIN wire = 1 .. Len(wire)
         /\ \A i \in 1 .. Len(wire) : wire[i] \in ByteType
         /\ wire = << >> <=> Len(wire) = 0
<1>1. wire \in Seq(ByteType)
  BY DEF Typed
<1>2. Len(wire) \in Nat /\ DOMAIN wire = 1 .. Len(wire) /\ wire \in [1 .. Len(wire) -> ByteType]
  BY <1>1, LenProperties
<1>3. wire = << >> <=> Len(wire) = 0
  BY <1>1, EmptySeq
<1> QED BY <1>2, <1>3

(* The codes that name keys differ from the prefix and from each other. *)
LEMMA CodesDiffer ==
  /\ Shift # RShift /\ Shift # Alt /\ Shift # Caps /\ Shift # Prefix
  /\ RShift # Alt /\ RShift # Caps /\ RShift # Prefix
  /\ Alt # Caps /\ Alt # Prefix /\ Caps # Prefix
BY DEF Shift, RShift, Alt, Caps, Prefix

(* A key is its code and whether it is of the extended set. *)
LEMMA KeyIs ==
  ASSUME NEW k \in Keys
  PROVE  /\ k.ext \in BOOLEAN /\ k.code # Prefix
         /\ k \in ShiftKeys <=> ~k.ext /\ k.code \in {Shift, RShift}
         /\ k = AltGr <=> k.ext /\ k.code = Alt
         /\ k = Key(FALSE, Alt) <=> ~k.ext /\ k.code = Alt
         /\ k = Key(FALSE, Caps) <=> ~k.ext /\ k.code = Caps
<1>1. k \in [ext : BOOLEAN, code : STRING \ {Prefix}]
  BY DecodeAssumption
<1>2. k = [ext |-> k.ext, code |-> k.code]
  BY <1>1
<1>3. /\ \A c : k = [ext |-> FALSE, code |-> c] <=> ~k.ext /\ k.code = c
      /\ \A c : k = [ext |-> TRUE, code |-> c] <=> k.ext /\ k.code = c
  <2> DEFINE e == k.ext
             d == k.code
  <2>1. k = [ext |-> e, code |-> d] /\ e \in BOOLEAN
    BY <1>1, <1>2
  <2> HIDE DEF e, d
  <2>2. /\ \A c : k = [ext |-> FALSE, code |-> c] <=> e = FALSE /\ d = c
        /\ \A c : k = [ext |-> TRUE, code |-> c] <=> e = TRUE /\ d = c
    BY <2>1
  <2> QED BY <2>1, <2>2 DEF e, d
<1> QED BY <1>1, <1>3 DEF ShiftKeys, AltGr, Key

(* The bytes of key k are sent: by Press, or by Release. *)
Sends(k, up, at) ==
  /\ k \in Keys /\ up \in BOOLEAN /\ at \in At
  /\ wire' = wire \o Bytes(k, up, at)
  /\ extended_key' = extended_key

(* The place of the last of them. *)
LastPlace(k) == IF k.ext THEN Len(wire) + 2 ELSE Len(wire) + 1

(* What the wire looks like when the bytes of a key have been sent: the    *)
(* last place is the key's, after a prefix if it has one.                  *)
LEMMA Sent ==
  ASSUME Typed, Paired, NEW k, NEW up, NEW at, Sends(k, up, at),
         NEW n, n = Len(wire), NEW m, m = LastPlace(k)
  PROVE  /\ wire' \in Seq(ByteType) /\ Len(wire') = m /\ DOMAIN wire' = 1 .. m
         /\ \A i \in 1 .. n : wire'[i] = wire[i] /\ (Ext(i)' <=> Ext(i))
         /\ wire'[m] = [code |-> k.code, up |-> up, at |-> at] /\ (Ext(m)' <=> k.ext)
         /\ k.ext => /\ wire'[n + 1] = [code |-> Prefix, up |-> FALSE, at |-> at]
                     /\ ~Ext(n + 1)'
<1> DEFINE p == [code |-> Prefix, up |-> FALSE, at |-> at]
           b == [code |-> k.code, up |-> up, at |-> at]
<1>0. /\ k \in Keys /\ up \in BOOLEAN /\ at \in At
      /\ wire' = wire \o Bytes(k, up, at) /\ (extended_key' = extended_key)
      /\ m = IF k.ext THEN n + 2 ELSE n + 1
  BY DEF Sends, LastPlace
<1>1. n \in Nat /\ DOMAIN wire = 1 .. n /\ wire \in Seq(ByteType)
  BY WireIs DEF Typed
<1>2. p \in ByteType /\ b \in ByteType /\ p.code = Prefix
  BY <1>0 DEF ByteType
<1>3. Bytes(k, up, at) = IF k.ext THEN <<p, b>> ELSE <<b>>
  BY DEF Bytes
<1>4. k.ext \in BOOLEAN
  BY <1>0, KeyIs
<1> HIDE DEF p, b
<1>5. Bytes(k, up, at) \in Seq(ByteType) /\ Len(Bytes(k, up, at)) = m - n
  BY <1>0, <1>1, <1>2, <1>3, <1>4
<1>6. wire' \in Seq(ByteType) /\ Len(wire') = m /\ m \in Nat /\ n < m
  BY <1>0, <1>1, <1>4, <1>5, ConcatProperties
<1>7. \A i \in 1 .. n : wire'[i] = wire[i]
  BY <1>0, <1>1, <1>5, ConcatProperties
<1>8. wire'[m] = b /\ (k.ext => wire'[n + 1] = p)
  BY <1>0, <1>1, <1>3, <1>4, <1>5, ConcatProperties
<1>9. DOMAIN wire' = 1 .. m
  BY <1>6, LenProperties
<1>10. ~Ext(n + 1)'
  <2>1. CASE n = 0
    <3>1. ~extended_key
      BY <2>1, WireIs DEF Paired
    <3> QED BY <1>0, <2>1, <3>1 DEF Ext
  <2>2. CASE n # 0
    <3>1. n \in 1 .. n /\ n + 1 \notin 1 .. n /\ n + 1 # 1 /\ (n + 1) - 1 = n
      BY <1>1, <2>2
    <3>2. wire[n].code # Prefix
      BY <1>1, <3>1 DEF Paired
    <3>3. wire'[n].code # Prefix
      BY <1>7, <3>1, <3>2
    <3> QED BY <3>1, <3>3 DEF Ext
  <2> QED BY <2>1, <2>2
<1>11. Ext(m)' <=> k.ext
  <2>1. CASE k.ext
    <3>1. m # 1 /\ m - 1 = n + 1
      BY <1>0, <1>1, <2>1
    <3>2. wire'[m - 1].code = Prefix
      BY <1>2, <1>8, <2>1, <3>1
    <3> QED BY <2>1, <3>1, <3>2 DEF Ext
  <2>2. CASE ~k.ext
    BY <1>0, <1>10, <2>2
  <2> QED BY <2>1, <2>2
<1>12. \A i \in 1 .. n : Ext(i)' <=> Ext(i)
  <2>1. ASSUME NEW i \in 1 .. n PROVE Ext(i)' <=> Ext(i)
    <3>1. i # 1 => i - 1 \in 1 .. n
      BY <1>1
    <3> QED BY <1>0, <1>7, <3>1 DEF Ext
  <2> QED BY <2>1
<1> QED BY <1>6, <1>7, <1>8, <1>9, <1>10, <1>11, <1>12 DEF p, b

(* The last of the bytes sent may set or clear a flag; a prefix never does. *)
LEMMA SentFlags ==
  ASSUME Typed, Paired, NEW k, NEW up, NEW at, Sends(k, up, at),
         NEW n, n = Len(wire), NEW m, m = LastPlace(k)
  PROVE  /\ ShiftOns'  = ShiftOns \cup {j \in {m} : k \in ShiftKeys /\ ~up}
         /\ ShiftOffs' = ShiftOffs \cup {j \in {m} : k \in ShiftKeys /\ up}
         /\ AltGrOns'  = AltGrOns \cup {j \in {m} : k = AltGr /\ ~up}
         /\ AltGrOffs' = AltGrOffs \cup {j \in {m} : k.code = Alt /\ up}
<1>0. /\ k \in Keys /\ up \in BOOLEAN
      /\ m = IF k.ext THEN n + 2 ELSE n + 1
  BY DEF Sends, LastPlace
<1>1. /\ DOMAIN wire' = 1 .. m
      /\ \A i \in 1 .. n : wire'[i] = wire[i] /\ (Ext(i)' <=> Ext(i))
      /\ wire'[m] = [code |-> k.code, up |-> up, at |-> at] /\ (Ext(m)' <=> k.ext)
      /\ k.ext => wire'[n + 1] = [code |-> Prefix, up |-> FALSE, at |-> at]
  BY Sent
<1>2. n \in Nat /\ DOMAIN wire = 1 .. n /\ k.ext \in BOOLEAN
  BY <1>0, WireIs, KeyIs
<1>3. \A i \in 1 .. m : i \in 1 .. n \/ i = m \/ (k.ext /\ i = n + 1)
  BY <1>0, <1>2
<1>4. 1 .. n \subseteq 1 .. m /\ m \in 1 .. m /\ m \notin 1 .. n
  BY <1>0, <1>2
<1>5. k.ext => wire'[n + 1].code = Prefix
  BY <1>1
<1>6. wire'[m].code = k.code /\ wire'[m].up = up
  BY <1>1
<1> DEFINE S(i) == wire[i].code \in {Shift, RShift} /\ ~Ext(i)
           A(i) == wire[i].code = Alt
<1>7. S(m)' <=> k \in ShiftKeys
  BY <1>0, <1>1, <1>6, KeyIs
<1>8. (A(m)' /\ Ext(m)') <=> (k = AltGr)
  <2>1. k = AltGr <=> k.ext /\ k.code = Alt
    BY <1>0, KeyIs
  <2> QED BY <1>1, <1>6, <2>1
<1>9. A(m)' <=> k.code = Alt
  BY <1>6
<1>10. k.ext => ~S(n + 1)' /\ ~A(n + 1)'
  BY <1>5, CodesDiffer
<1>11. \A i \in 1 .. n : (S(i)' <=> S(i)) /\ (A(i)' <=> A(i)) /\ wire'[i].up = wire[i].up
                         /\ (Ext(i)' <=> Ext(i))
  BY <1>1
<1>12. /\ ShiftOns  = {i \in 1 .. n : S(i) /\ ~wire[i].up}
       /\ ShiftOffs = {i \in 1 .. n : S(i) /\ wire[i].up}
       /\ AltGrOns  = {i \in 1 .. n : A(i) /\ Ext(i) /\ ~wire[i].up}
       /\ AltGrOffs = {i \in 1 .. n : A(i) /\ wire[i].up}
  BY <1>2 DEF ShiftOns, ShiftOffs, AltGrOns, AltGrOffs
<1>13. /\ ShiftOns'  = {i \in 1 .. m : S(i)' /\ ~wire'[i].up}
       /\ ShiftOffs' = {i \in 1 .. m : S(i)' /\ wire'[i].up}
       /\ AltGrOns'  = {i \in 1 .. m : A(i)' /\ Ext(i)' /\ ~wire'[i].up}
       /\ AltGrOffs' = {i \in 1 .. m : A(i)' /\ wire'[i].up}
  BY <1>1 DEF ShiftOns, ShiftOffs, AltGrOns, AltGrOffs
<1> HIDE DEF S, A
<1>14. ShiftOns' = ShiftOns \cup {j \in {m} : k \in ShiftKeys /\ ~up}
  BY <1>0, <1>3, <1>4, <1>6, <1>7, <1>10, <1>11, <1>12, <1>13
<1>15. ShiftOffs' = ShiftOffs \cup {j \in {m} : k \in ShiftKeys /\ up}
  BY <1>0, <1>3, <1>4, <1>6, <1>7, <1>10, <1>11, <1>12, <1>13
<1>16. AltGrOns' = AltGrOns \cup {j \in {m} : k = AltGr /\ ~up}
  BY <1>0, <1>3, <1>4, <1>6, <1>8, <1>10, <1>11, <1>12, <1>13
<1>17. AltGrOffs' = AltGrOffs \cup {j \in {m} : k.code = Alt /\ up}
  BY <1>0, <1>3, <1>4, <1>6, <1>9, <1>10, <1>11, <1>12, <1>13
<1> QED BY <1>14, <1>15, <1>16, <1>17

(* What becomes of the flags' values at the bytes, and behind them. *)
LEMMA SentValues ==
  ASSUME Typed, Paired, NEW k, NEW up, NEW at, Sends(k, up, at),
         shift_pressed' = shift_pressed, altgr_pressed' = altgr_pressed,
         NEW n, n = Len(wire), NEW m, m = LastPlace(k)
  PROVE  /\ \A i \in 1 .. n : (ShiftAt(i)' <=> ShiftAt(i)) /\ (AltGrAt(i)' <=> AltGrAt(i))
         /\ (ShiftAt(m)' <=> ShiftAt(n + 1)) /\ (AltGrAt(m)' <=> AltGrAt(n + 1))
         /\ ShiftAt(m + 1)' <=>
              ~(k \in ShiftKeys /\ up) /\ ((k \in ShiftKeys /\ ~up) \/ ShiftAt(n + 1))
         /\ AltGrAt(m + 1)' <=>
              ~(k.code = Alt /\ up) /\ ((k = AltGr /\ ~up) \/ AltGrAt(n + 1))
<1>1. k \in Keys /\ up \in BOOLEAN /\ k.ext \in BOOLEAN /\ m = IF k.ext THEN n + 2 ELSE n + 1
  BY KeyIs DEF Sends, LastPlace
<1>2. n \in Nat /\ DOMAIN wire = 1 .. n
  BY WireIs
<1>3. m \in Nat /\ n < m /\ m \notin 1 .. n
  BY <1>1, <1>2
<1>4. /\ shift_pressed \in BOOLEAN /\ altgr_pressed \in BOOLEAN
      /\ ShiftOns \subseteq 1 .. n /\ ShiftOffs \subseteq 1 .. n
      /\ AltGrOns \subseteq 1 .. n /\ AltGrOffs \subseteq 1 .. n
  BY <1>2 DEF Typed, ShiftOns, ShiftOffs, AltGrOns, AltGrOffs
<1>5. /\ ShiftOns'  = ShiftOns \cup {j \in {m} : k \in ShiftKeys /\ ~up}
      /\ ShiftOffs' = ShiftOffs \cup {j \in {m} : k \in ShiftKeys /\ up}
      /\ AltGrOns'  = AltGrOns \cup {j \in {m} : k = AltGr /\ ~up}
      /\ AltGrOffs' = AltGrOffs \cup {j \in {m} : k.code = Alt /\ up}
  BY SentFlags
<1>6. /\ \A i \in 1 .. n : ShiftAt(i)' <=> ShiftAt(i)
      /\ ShiftAt(m)' <=> ShiftAt(n + 1)
      /\ ShiftAt(m + 1)' <=>
           ~(k \in ShiftKeys /\ up) /\ ((k \in ShiftKeys /\ ~up) \/ ShiftAt(n + 1))
  <2> DEFINE ons2  == ShiftOns'
             offs2 == ShiftOffs'
  <2>1. Grows(ShiftOns, ons2, n, m) /\ Grows(ShiftOffs, offs2, n, m)
    BY <1>4, <1>5 DEF Grows
  <2>2. /\ m \in ons2 <=> (k \in ShiftKeys /\ ~up)
        /\ m \in offs2 <=> (k \in ShiftKeys /\ up)
    BY <1>3, <1>4, <1>5
  <2>3. ~(m \in ons2 /\ m \in offs2)
    BY <2>2
  <2>4. ASSUME NEW i
        PROVE  /\ ShiftAt(i)' <=> FlagAt(shift_pressed, ons2, offs2, i)
               /\ ShiftAt(i) <=> FlagAt(shift_pressed, ShiftOns, ShiftOffs, i)
    BY DEF ShiftAt
  <2> HIDE DEF ons2, offs2
  <2>5. /\ \A i \in 1 .. n : FlagAt(shift_pressed, ons2, offs2, i)
                              <=> FlagAt(shift_pressed, ShiftOns, ShiftOffs, i)
        /\ FlagAt(shift_pressed, ons2, offs2, m)
              <=> FlagAt(shift_pressed, ShiftOns, ShiftOffs, n + 1)
        /\ FlagAt(shift_pressed, ons2, offs2, m + 1)
              <=> m \notin offs2 /\ (m \in ons2 \/ FlagAt(shift_pressed, ShiftOns, ShiftOffs, n + 1))
    BY ONLY <1>2, <1>3, <2>1, <2>3, FlagSent, ZenonT(30)
  <2> QED BY <2>2, <2>4, <2>5
<1>7. /\ \A i \in 1 .. n : AltGrAt(i)' <=> AltGrAt(i)
      /\ AltGrAt(m)' <=> AltGrAt(n + 1)
      /\ AltGrAt(m + 1)' <=>
           ~(k.code = Alt /\ up) /\ ((k = AltGr /\ ~up) \/ AltGrAt(n + 1))
  <2> DEFINE ons2  == AltGrOns'
             offs2 == AltGrOffs'
  <2>1. Grows(AltGrOns, ons2, n, m) /\ Grows(AltGrOffs, offs2, n, m)
    BY <1>4, <1>5 DEF Grows
  <2>2. /\ m \in ons2 <=> (k = AltGr /\ ~up)
        /\ m \in offs2 <=> (k.code = Alt /\ up)
    BY <1>3, <1>4, <1>5
  <2>3. ~(m \in ons2 /\ m \in offs2)
    BY <2>2
  <2>4. ASSUME NEW i
        PROVE  /\ AltGrAt(i)' <=> FlagAt(altgr_pressed, ons2, offs2, i)
               /\ AltGrAt(i) <=> FlagAt(altgr_pressed, AltGrOns, AltGrOffs, i)
    BY DEF AltGrAt
  <2> HIDE DEF ons2, offs2
  <2>5. /\ \A i \in 1 .. n : FlagAt(altgr_pressed, ons2, offs2, i)
                              <=> FlagAt(altgr_pressed, AltGrOns, AltGrOffs, i)
        /\ FlagAt(altgr_pressed, ons2, offs2, m)
              <=> FlagAt(altgr_pressed, AltGrOns, AltGrOffs, n + 1)
        /\ FlagAt(altgr_pressed, ons2, offs2, m + 1)
              <=> m \notin offs2 /\ (m \in ons2 \/ FlagAt(altgr_pressed, AltGrOns, AltGrOffs, n + 1))
    BY ONLY <1>2, <1>3, <2>1, <2>3, FlagSent, ZenonT(30)
  <2> QED BY <2>2, <2>4, <2>5
<1> QED BY <1>6, <1>7

(* What the bytes of key k carry: the keys down, a mix, and caps lock. *)
Carries(k, up, at) ==
  /\ ~up => at.with = held \cup {k} /\ (mixed => at.mixed)
  /\ at.caps <=> caps'
  /\ caps' <=> ~(caps <=> (k = Key(FALSE, Caps) /\ ~up))

(* Each byte sent carries the value of caps lock it leaves. *)
LEMMA SentLocks ==
  ASSUME Typed, Paired, Locks, NEW k, NEW up, NEW at, Sends(k, up, at),
         Carries(k, up, at), caps_lock' = caps_lock,
         NEW n, n = Len(wire), NEW m, m = LastPlace(k)
  PROVE  Locks'
<1>1. /\ k \in Keys /\ up \in BOOLEAN /\ k.ext \in BOOLEAN /\ k.code # Prefix
      /\ m = IF k.ext THEN n + 2 ELSE n + 1
      /\ n \in Nat /\ DOMAIN wire = 1 .. n
      /\ k = Key(FALSE, Caps) <=> ~k.ext /\ k.code = Caps
  BY KeyIs, WireIs DEF Sends, LastPlace
<1>2. /\ Len(wire') = m /\ DOMAIN wire' = 1 .. m
      /\ \A i \in 1 .. n : wire'[i] = wire[i] /\ (Ext(i)' <=> Ext(i))
      /\ wire'[m] = [code |-> k.code, up |-> up, at |-> at] /\ (Ext(m)' <=> k.ext)
      /\ k.ext => wire'[n + 1] = [code |-> Prefix, up |-> FALSE, at |-> at]
  BY Sent
<1>3. /\ caps <=> CapsAt(n + 1)
      /\ \A i \in 1 .. n : wire[i].at.caps <=> ~(CapsAt(i) <=> Turns(i))
  BY <1>1 DEF Locks
<1>4. \A i \in 1 .. n + 1 : CapsAt(i)' = CapsAt(i)
  <2>1. ASSUME NEW i \in 1 .. n + 1 PROVE CapsAt(i)' = CapsAt(i)
    <3>1. i # 1 => i - 1 \in 1 .. n
      BY <1>1
    <3> QED BY <1>2, <3>1 DEF CapsAt
  <2> QED BY <2>1
<1>5. \A i \in 1 .. n : Turns(i)' <=> Turns(i)
  BY <1>2 DEF Turns
<1>6. /\ Turns(m)' <=> k = Key(FALSE, Caps) /\ ~up
      /\ k.ext => ~Turns(n + 1)'
  <2>1. Prefix # Caps
    BY DEF Prefix, Caps
  <2>2. wire'[m].code = k.code /\ (wire'[m].up <=> up)
    BY <1>2
  <2>3. Turns(m)' <=> k.code = Caps /\ ~k.ext /\ ~up
    BY <1>2, <2>2 DEF Turns
  <2>4. k.ext => ~Turns(n + 1)'
    BY <1>2, <2>1 DEF Turns
  <2> QED BY <1>1, <2>3, <2>4
<1>7. at.caps <=> ~(caps <=> Turns(m)')
  BY <1>6 DEF Carries
<1>8. /\ n + 1 \in 1 .. n + 1 /\ 1 .. n \subseteq 1 .. n + 1
      /\ k.ext => m # 1 /\ m - 1 = n + 1
      /\ m + 1 # 1 /\ (m + 1) - 1 = m
      /\ \A i \in 1 .. m : i \in 1 .. n \/ i = m \/ (k.ext /\ i = n + 1)
  BY <1>1
<1>9. CapsAt(m)' <=> caps
  <2>1. CASE k.ext
    <3>1. CapsAt(m)' <=> at.caps
      BY <1>2, <1>8, <2>1 DEF CapsAt
    <3>2. at.caps <=> caps
      BY <1>1, <2>1 DEF Carries
    <3> QED BY <3>1, <3>2
  <2>2. CASE ~k.ext
    BY <1>1, <1>3, <1>4, <1>8, <2>2
  <2> QED BY <1>1, <2>1, <2>2
<1>10. ASSUME NEW i \in 1 .. m PROVE wire'[i].at.caps <=> ~(CapsAt(i)' <=> Turns(i)')
  <2>1. CASE i \in 1 .. n
    BY <1>2, <1>3, <1>4, <1>5, <1>8, <2>1
  <2>2. CASE i = m
    BY <1>2, <1>7, <1>9, <2>2
  <2>3. CASE k.ext /\ i = n + 1
    <3>1. wire'[i].at.caps <=> at.caps
      BY <1>2, <2>3
    <3>2. at.caps <=> caps
      BY <1>1, <2>3 DEF Carries
    <3> QED BY <1>3, <1>4, <1>6, <1>8, <2>3, <3>1, <3>2
  <2> QED BY <1>8, <2>1, <2>2, <2>3
<1>11. caps' <=> CapsAt(m + 1)'
  <2>1. CapsAt(m + 1)' <=> at.caps
    BY <1>2, <1>8 DEF CapsAt
  <2> QED BY <2>1 DEF Carries
<1> QED BY <1>2, <1>10, <1>11 DEF Locks

(* Sending a key keeps the types, the pairing and what is known of the     *)
(* bytes before it.                                                        *)
LEMMA SentKeeps ==
  ASSUME DInv, NEW k, NEW up, NEW at, Sends(k, up, at),
         Len(wire) + 2 <= Wire, held' \subseteq Keys, mixed' \in BOOLEAN, caps' \in BOOLEAN,
         UNCHANGED <<flags, typed>>,
         Carries(k, up, at),
         NEW n, n = Len(wire), NEW m, m = LastPlace(k)
  PROVE  Typed' /\ Paired' /\ Struck' /\ Locks' /\ TypedAsHeld'
<1>1. /\ k \in Keys /\ up \in BOOLEAN /\ k.ext \in BOOLEAN /\ k.code # Prefix
      /\ m = IF k.ext THEN n + 2 ELSE n + 1
      /\ Typed /\ Paired /\ Struck /\ Settles /\ Locks
  BY KeyIs DEF Sends, LastPlace, DInv
<1>2. n \in Nat /\ DOMAIN wire = 1 .. n /\ (wire = << >> <=> n = 0)
  BY <1>1, WireIs
<1>3. /\ wire' \in Seq(ByteType) /\ Len(wire') = m /\ DOMAIN wire' = 1 .. m
      /\ \A i \in 1 .. n : wire'[i] = wire[i]
      /\ wire'[m] = [code |-> k.code, up |-> up, at |-> at]
      /\ k.ext => wire'[n + 1] = [code |-> Prefix, up |-> FALSE, at |-> at]
  <2>1. n = Len(wire) /\ m = LastPlace(k) /\ Sends(k, up, at) /\ Typed /\ Paired
    BY <1>1
  <2> QED BY ONLY <2>1, Sent
<1>4. /\ \A i \in 1 .. n : (ShiftAt(i)' <=> ShiftAt(i)) /\ (AltGrAt(i)' <=> AltGrAt(i))
      /\ (ShiftAt(m)' <=> ShiftAt(n + 1)) /\ (AltGrAt(m)' <=> AltGrAt(n + 1))
  <2>1. n = Len(wire) /\ m = LastPlace(k) /\ Sends(k, up, at) /\ Typed /\ Paired
        /\ (shift_pressed' = shift_pressed) /\ (altgr_pressed' = altgr_pressed)
    BY <1>1 DEF flags
  <2> QED BY ONLY <2>1, SentValues
<1>5. Agrees(ShiftAt(n + 1), ShiftKeys \cap held # {}, mixed)
  BY <1>1 DEF Settles
<1>6. Agrees(AltGrAt(n + 1), AltGr \in held, mixed)
  BY <1>1 DEF Settles
<1>7. /\ \A i \in 1 .. m : i \in 1 .. n \/ i = m \/ (k.ext /\ i = n + 1 /\ i + 1 = m)
      /\ 1 .. n \subseteq 1 .. m /\ m \in 1 .. m
      /\ n # 0 => 1 \in 1 .. n
  BY <1>1, <1>2
<1>8. Typed'
  <2>1. m <= Wire
    BY <1>1, <1>2, DecodeAssumption
  <2> QED BY <1>1, <1>3, <2>1 DEF Typed, flags
<1>9. Paired'
  <2>1. ASSUME extended_key' PROVE wire' # << >> /\ wire'[1].code # Prefix
    <3>1. extended_key
      BY <2>1 DEF flags
    <3>2. n # 0 /\ wire[1].code # Prefix
      BY <1>1, <1>2, <3>1 DEF Paired
    <3>3. 1 \in DOMAIN wire'
      BY <1>3, <1>7, <3>2
    <3> QED BY <1>3, <1>7, <3>2, <3>3
  <2>2. ASSUME NEW i \in 1 .. m, wire'[i].code = Prefix
        PROVE  i + 1 \in 1 .. m /\ wire'[i + 1].code # Prefix
    <3>1. CASE i \in 1 .. n
      <4>1. i + 1 \in 1 .. n /\ wire[i + 1].code # Prefix
        BY <1>1, <1>2, <1>3, <2>2, <3>1 DEF Paired
      <4> QED BY <1>3, <1>7, <4>1
    <3>2. CASE i = m
      BY <1>1, <1>3, <2>2, <3>2
    <3>3. CASE i + 1 = m
      BY <1>1, <1>3, <1>7, <3>3
    <3> QED BY <1>7, <3>1, <3>2, <3>3
  <2> QED BY <1>3, <2>1, <2>2 DEF Paired
<1>10. Struck'
  <2>1. ASSUME NEW i \in 1 .. m, ~wire'[i].up, wire'[i].code \in DOMAIN Keymap
        PROVE  /\ Agrees(ShiftAt(i)', ShiftKeys \cap wire'[i].at.with # {}, wire'[i].at.mixed)
               /\ Agrees(AltGrAt(i)', AltGr \in wire'[i].at.with, wire'[i].at.mixed)
    <3>1. CASE i \in 1 .. n
      <4>1. wire'[i] = wire[i]
        BY <1>3, <3>1
      <4>2. /\ Agrees(ShiftAt(i), ShiftKeys \cap wire[i].at.with # {}, wire[i].at.mixed)
            /\ Agrees(AltGrAt(i), AltGr \in wire[i].at.with, wire[i].at.mixed)
        BY <1>1, <1>2, <2>1, <3>1, <4>1 DEF Struck
      <4> QED BY <1>4, <3>1, <4>1, <4>2 DEF Agrees
    <3>2. CASE i = m
      <4>1. ~up /\ wire'[i].at = at /\ k.code \in DOMAIN Keymap
        BY <1>3, <2>1, <3>2
      <4>2. at.with = held \cup {k} /\ (mixed => at.mixed)
        BY <4>1 DEF Carries
      <4>3. k \notin ShiftKeys /\ k # AltGr
        BY <1>1, <4>1, KeyIs, DecodeAssumption
      <4>4. /\ ShiftKeys \cap at.with = ShiftKeys \cap held
            /\ AltGr \in at.with <=> AltGr \in held
        BY <4>2, <4>3
      <4>5. Agrees(ShiftAt(m)', ShiftKeys \cap at.with # {}, at.mixed)
        BY <1>4, <1>5, <4>2, <4>4 DEF Agrees
      <4>6. Agrees(AltGrAt(m)', AltGr \in at.with, at.mixed)
        BY <1>4, <1>6, <4>2, <4>4 DEF Agrees
      <4> QED BY <3>2, <4>1, <4>5, <4>6
    <3>3. CASE k.ext /\ i = n + 1
      BY <1>3, <2>1, <3>3, DecodeAssumption
    <3> QED BY <1>7, <3>1, <3>2, <3>3
  <2> QED BY <1>3, <2>1 DEF Struck
<1>11. TypedAsHeld'
  BY DEF DInv, TypedAsHeld
<1>12. Locks'
  <2>1. n = Len(wire) /\ m = LastPlace(k) /\ Sends(k, up, at) /\ Typed /\ Paired /\ Locks
        /\ Carries(k, up, at) /\ (caps_lock' = caps_lock)
    BY <1>1 DEF flags
  <2> QED BY ONLY <2>1, SentLocks
<1> QED BY <1>8, <1>9, <1>10, <1>11, <1>12

(* A key goes down. *)
LEMMA PressStep ==
  ASSUME DInv, NEW k \in Keys, Press(k)
  PROVE  DInv'
<1> DEFINE with == held'
           at == Now'
<1>1. /\ with = held \cup {k} /\ with \subseteq Keys /\ k.ext \in BOOLEAN
      /\ Sends(k, FALSE, at) /\ Len(wire) + 2 <= Wire /\ UNCHANGED <<flags, typed>>
      /\ caps' \in BOOLEAN
      /\ caps' <=> ~(caps <=> (k = Key(FALSE, Caps) /\ ~FALSE))
  <2>1. held' = held \cup {k} /\ held' \subseteq Keys /\ held \subseteq Keys
    BY DEF Press, DInv, Typed
  <2>2. caps \in BOOLEAN /\ mixed \in BOOLEAN
    BY DEF DInv, Typed
  <2>3. caps' \in BOOLEAN /\ mixed' \in BOOLEAN
    BY <2>2 DEF Press
  <2>4. Now' \in At
    BY <2>1, <2>3 DEF Now, At
  <2>5. caps' <=> ~(caps <=> (k = Key(FALSE, Caps) /\ ~FALSE))
    BY <2>2 DEF Press
  <2> QED BY <2>1, <2>3, <2>4, <2>5, KeyIs DEF Press, Sends, flags
<1>2. mixed' = (mixed \/ ShiftKeys \subseteq with) /\ mixed' \in BOOLEAN
  BY DEF Press, DInv, Typed
<1>3. PICK n, m : n = Len(wire) /\ m = LastPlace(k)
  OBVIOUS
<1>4. Typed /\ Paired /\ Settles
  BY DEF DInv
<1>5. Carries(k, FALSE, at)
  <2>1. at.with = with /\ at.mixed = mixed' /\ at.caps = caps'
    BY DEF Now
  <2>2. mixed => mixed'
    BY <1>2
  <2> QED BY <1>1, <2>1, <2>2 DEF Carries
<1> HIDE DEF with, at
<1>6. Typed' /\ Paired' /\ Struck' /\ Locks' /\ TypedAsHeld'
  <2>1. held' \subseteq Keys /\ mixed' \in BOOLEAN
    BY <1>1, <1>2 DEF with
  <2> QED BY ONLY DInv, <1>1, <1>3, <1>5, <2>1, SentKeeps
<1>7. /\ ShiftAt(m + 1)' <=> k \in ShiftKeys \/ ShiftAt(n + 1)
      /\ AltGrAt(m + 1)' <=> k = AltGr \/ AltGrAt(n + 1)
  <2>1. (shift_pressed' = shift_pressed) /\ (altgr_pressed' = altgr_pressed)
    BY <1>1 DEF flags
  <2>2. /\ ShiftAt(m + 1)' <=>
              ~(k \in ShiftKeys /\ FALSE) /\ ((k \in ShiftKeys /\ ~FALSE) \/ ShiftAt(n + 1))
        /\ AltGrAt(m + 1)' <=>
              ~(k.code = Alt /\ FALSE) /\ ((k = AltGr /\ ~FALSE) \/ AltGrAt(n + 1))
    BY ONLY <1>1, <1>3, <1>4, <2>1, SentValues
  <2> QED BY <2>2
<1>8. Len(wire') = m
  BY ONLY <1>1, <1>3, <1>4, Sent
<1>9. /\ Agrees(ShiftAt(n + 1), ShiftKeys \cap held # {}, mixed)
      /\ Agrees(AltGrAt(n + 1), AltGr \in held, mixed)
  BY <1>3, <1>4 DEF Settles
<1>10. /\ Agrees(ShiftAt(m + 1)', ShiftKeys \cap held' # {}, mixed')
       /\ Agrees(AltGrAt(m + 1)', AltGr \in held', mixed')
  BY <1>1, <1>2, <1>7, <1>9 DEF with, Agrees
<1>11. Settles'
  BY <1>8, <1>10 DEF Settles
<1>12. (ShiftKeys \subseteq held => mixed)'
  BY <1>1, <1>2 DEF with
<1> QED BY <1>6, <1>11, <1>12 DEF DInv

(* A key is released. *)
LEMMA ReleaseStep ==
  ASSUME DInv, NEW k \in Keys, Release(k)
  PROVE  DInv'
<1> DEFINE with == held'
           at == Now'
<1>1. /\ with = held \ {k} /\ with \subseteq Keys /\ k.ext \in BOOLEAN /\ k \in held
      /\ Sends(k, TRUE, at) /\ Len(wire) + 2 <= Wire /\ UNCHANGED <<flags, typed>>
      /\ caps' \in BOOLEAN
      /\ caps' <=> ~(caps <=> (k = Key(FALSE, Caps) /\ ~TRUE))
  <2>1. held' = held \ {k} /\ held' \subseteq Keys
    BY DEF Release, DInv, Typed
  <2>2. (caps' = caps) /\ caps \in BOOLEAN /\ mixed \in BOOLEAN
    BY DEF Release, DInv, Typed
  <2>3. mixed' \in BOOLEAN
    BY <2>2 DEF Release
  <2>4. Now' \in At
    BY <2>1, <2>2, <2>3 DEF Now, At
  <2>5. caps' <=> ~(caps <=> (k = Key(FALSE, Caps) /\ ~TRUE))
    BY <2>2
  <2> QED BY <2>1, <2>2, <2>4, <2>5, KeyIs DEF Release, Sends, flags
<1>2. /\ mixed' = (with # {} /\ (mixed \/ (k = Key(FALSE, Alt) /\ AltGr \in held)))
      /\ mixed' \in BOOLEAN
      /\ ShiftKeys \subseteq held => mixed
  BY DEF Release, DInv, Typed
<1>3. PICK n, m : n = Len(wire) /\ m = LastPlace(k)
  OBVIOUS
<1>4. Typed /\ Paired /\ Settles
  BY DEF DInv
<1>5. Carries(k, TRUE, at)
  BY <1>1 DEF Carries, Now
<1> HIDE DEF with, at
<1>6. Typed' /\ Paired' /\ Struck' /\ Locks' /\ TypedAsHeld'
  <2>1. held' \subseteq Keys /\ mixed' \in BOOLEAN
    BY <1>1, <1>2 DEF with
  <2> QED BY ONLY DInv, <1>1, <1>3, <1>5, <2>1, SentKeeps
<1>7. /\ ShiftAt(m + 1)' <=> k \notin ShiftKeys /\ ShiftAt(n + 1)
      /\ AltGrAt(m + 1)' <=> k.code # Alt /\ AltGrAt(n + 1)
  <2>1. (shift_pressed' = shift_pressed) /\ (altgr_pressed' = altgr_pressed)
    BY <1>1 DEF flags
  <2>2. /\ ShiftAt(m + 1)' <=>
              ~(k \in ShiftKeys /\ TRUE) /\ ((k \in ShiftKeys /\ ~TRUE) \/ ShiftAt(n + 1))
        /\ AltGrAt(m + 1)' <=>
              ~(k.code = Alt /\ TRUE) /\ ((k = AltGr /\ ~TRUE) \/ AltGrAt(n + 1))
    BY ONLY <1>1, <1>3, <1>4, <2>1, SentValues
  <2> QED BY <2>2
<1>8. Len(wire') = m
  BY ONLY <1>1, <1>3, <1>4, Sent
<1>9. /\ ShiftAt(n + 1) => ShiftKeys \cap held # {}
      /\ AltGrAt(n + 1) => AltGr \in held
      /\ ~mixed => /\ ShiftKeys \cap held # {} => ShiftAt(n + 1)
                   /\ AltGr \in held => AltGrAt(n + 1)
  BY <1>3, <1>4 DEF Settles, Agrees
<1>10. k = AltGr => k.code = Alt
  BY KeyIs
<1>11. k.code = Alt => k = AltGr \/ k = Key(FALSE, Alt)
  BY <1>1, KeyIs
<1>12. ASSUME ~mixed', ShiftKeys \cap with # {} PROVE ~mixed /\ k \notin ShiftKeys
  <2>1. ~mixed
    BY <1>2, <1>12
  <2>2. ASSUME k \in ShiftKeys PROVE FALSE
    <3>1. PICK o \in ShiftKeys : o \in held /\ o # k
      BY <1>1, <1>12
    <3>2. \A s \in ShiftKeys : s = k \/ s = o
      BY <2>2, <3>1 DEF ShiftKeys
    <3> QED BY <1>1, <1>2, <2>1, <3>1, <3>2
  <2> QED BY <2>1, <2>2
<1>13. /\ ShiftAt(m + 1)' => ShiftKeys \cap with # {}
       /\ AltGrAt(m + 1)' => AltGr \in with
       /\ ~mixed' => /\ ShiftKeys \cap with # {} => ShiftAt(m + 1)'
                     /\ AltGr \in with => AltGrAt(m + 1)'
  <2>1. ShiftAt(m + 1)' => ShiftKeys \cap with # {}
    BY <1>1, <1>7, <1>9
  <2>2. AltGrAt(m + 1)' => AltGr \in with
    BY <1>1, <1>7, <1>9, <1>10
  <2>3. ~mixed' => (ShiftKeys \cap with # {} => ShiftAt(m + 1)')
    BY <1>1, <1>7, <1>9, <1>12
  <2>4. ~mixed' => (AltGr \in with => AltGrAt(m + 1)')
    BY <1>1, <1>2, <1>7, <1>9, <1>11
  <2> QED BY <2>1, <2>2, <2>3, <2>4
<1>14. Settles'
  BY <1>8, <1>13 DEF Settles, Agrees, with
<1>15. (ShiftKeys \subseteq held => mixed)'
  <2>1. ASSUME ShiftKeys \subseteq with PROVE mixed'
    <3>1. ShiftKeys # {}
      BY DEF ShiftKeys
    <3> QED BY <1>1, <1>2, <2>1, <3>1
  <2> QED BY <2>1 DEF with
<1> QED BY <1>6, <1>14, <1>15 DEF DInv

(* What a run of the handler does to the flags, by the byte it reads. *)
LEMMA ReadFlags ==
  ASSUME DInv, keyboard_handler
  PROVE  /\ Reads /\ 1 \in DOMAIN wire /\ byte = wire[1]
         /\ extended_key' = (wire[1].code = Prefix)
         /\ shift_pressed' \in BOOLEAN /\ altgr_pressed' \in BOOLEAN
         /\ caps_lock' \in BOOLEAN /\ dead_key_state' \in DOMAIN Keymap \cup {NUL}
         /\ shift_pressed' <=> ((shift_pressed /\ 1 \notin ShiftOffs) \/ 1 \in ShiftOns)
         /\ altgr_pressed' <=> ((altgr_pressed /\ 1 \notin AltGrOffs) \/ 1 \in AltGrOns)
         /\ caps_lock' <=> ~(caps_lock <=> Turns(1))
<1>1. /\ wire # << >> /\ Reads
  BY DEF keyboard_handler, HandlePrefix, HandleExtended, HandleRelease, HandleModifier,
         HandleKey, HandleUnknown, Plain, Reads
<1>2. 1 \in DOMAIN wire /\ byte = wire[1] /\ wire[1].up \in BOOLEAN
  <2>1. Typed /\ wire \in Seq(ByteType)
    BY DEF DInv, Typed
  <2>2. 1 \in DOMAIN wire
    BY <1>1, <2>1, WireIs
  <2>3. wire[1] \in ByteType
    BY <2>1, <2>2, WireIs
  <2> QED BY <1>1, <2>1, <2>2, <2>3 DEF byte, ByteType
<1> DEFINE c == wire[1].code
           u == wire[1].up
<1>3. /\ 1 \in ShiftOns <=> c \in {Shift, RShift} /\ ~extended_key /\ ~u
      /\ 1 \in ShiftOffs <=> c \in {Shift, RShift} /\ ~extended_key /\ u
      /\ 1 \in AltGrOns <=> c = Alt /\ extended_key /\ ~u
      /\ 1 \in AltGrOffs <=> c = Alt /\ u
      /\ Turns(1) <=> c = Caps /\ ~extended_key /\ ~u
  BY <1>2 DEF ShiftOns, ShiftOffs, AltGrOns, AltGrOffs, Ext, Turns
<1>4. /\ shift_pressed \in BOOLEAN /\ altgr_pressed \in BOOLEAN /\ caps_lock \in BOOLEAN
      /\ extended_key \in BOOLEAN /\ dead_key_state \in DOMAIN Keymap \cup {NUL}
  BY DEF DInv, Typed
<1>5. byte.code = c /\ byte.up = u /\ u \in BOOLEAN
  BY <1>2
<1>6. DOMAIN Keymap \cap {Shift, RShift, Alt, Caps} = {}
  BY DecodeAssumption
<1> HIDE DEF c, u
<1> DEFINE Goal == /\ extended_key' = (c = Prefix)
                   /\ shift_pressed' \in BOOLEAN /\ altgr_pressed' \in BOOLEAN
                   /\ caps_lock' \in BOOLEAN /\ dead_key_state' \in DOMAIN Keymap \cup {NUL}
                   /\ shift_pressed' <=> ((shift_pressed /\ 1 \notin ShiftOffs) \/ 1 \in ShiftOns)
                   /\ altgr_pressed' <=> ((altgr_pressed /\ 1 \notin AltGrOffs) \/ 1 \in AltGrOns)
                   /\ caps_lock' <=> ~(caps_lock <=> Turns(1))
<1>7. ASSUME HandlePrefix PROVE Goal
  BY <1>3, <1>4, <1>5, <1>7, CodesDiffer DEF HandlePrefix
<1>8. ASSUME HandleExtended PROVE Goal
  BY <1>3, <1>4, <1>5, <1>8, CodesDiffer DEF HandleExtended
<1>9. ASSUME HandleRelease PROVE Goal
  BY <1>3, <1>4, <1>5, <1>9, CodesDiffer DEF HandleRelease, Plain
<1>10. ASSUME HandleModifier PROVE Goal
  BY <1>3, <1>4, <1>5, <1>10, CodesDiffer DEF HandleModifier, Plain
<1>11. ASSUME HandleKey PROVE Goal
  BY <1>3, <1>4, <1>5, <1>6, <1>11, CodesDiffer DEF HandleKey, Plain
<1>12. ASSUME HandleUnknown PROVE Goal
  BY <1>3, <1>4, <1>5, <1>12, CodesDiffer DEF HandleUnknown, Plain, flags
<1>13. Goal
  BY <1>7, <1>8, <1>9, <1>10, <1>11, <1>12 DEF keyboard_handler
<1> QED BY <1>1, <1>2, <1>13 DEF c

(* What a run of the handler types: nothing, the code of an arrow, or a    *)
(* character of the row of a key that has one.                             *)
LEMMA ReadTypes ==
  ASSUME DInv, keyboard_handler
  PROVE  \/ typed' = typed
         \/ typed'.code \in DOMAIN Special /\ typed'.code \notin DOMAIN Keymap
         \/ /\ byte.code \in DOMAIN Keymap /\ ~byte.up /\ byte.code # Prefix
            /\ Pushes(Column(Keymap[byte.code]))
<1>1. DOMAIN Keymap \cap DOMAIN Special = {}
  BY DecodeAssumption
<1>2. CASE HandleExtended
  BY <1>1, <1>2 DEF HandleExtended, Pushes
<1>3. CASE HandleKey
  BY <1>3 DEF HandleKey, Plain
<1>4. CASE HandlePrefix \/ HandleRelease \/ HandleModifier \/ HandleUnknown
  BY <1>4 DEF HandlePrefix, HandleRelease, HandleModifier, HandleUnknown
<1> QED BY <1>2, <1>3, <1>4 DEF keyboard_handler

(* Reading a byte moves the others, and the values of the flags with them. *)
LEMMA ReadMoves ==
  ASSUME DInv, keyboard_handler, NEW n, n + 1 = Len(wire), n \in Nat
  PROVE  /\ wire' \in Seq(ByteType) /\ Len(wire') = n /\ DOMAIN wire' = 1 .. n
         /\ \A i \in 1 .. n : wire'[i] = wire[i + 1]
         /\ \A i \in 1 .. n + 1 : (ShiftAt(i)' <=> ShiftAt(i + 1)) /\ (AltGrAt(i)' <=> AltGrAt(i + 1))
<1>1. /\ Typed /\ wire \in Seq(ByteType) /\ wire # << >> /\ wire' = Tail(wire)
      /\ DOMAIN wire = 1 .. n + 1
  BY ReadFlags, WireIs DEF DInv, Typed, Reads
<1>2. /\ wire' \in Seq(ByteType) /\ Len(wire') = n
      /\ \A i \in 1 .. n : wire'[i] = wire[i + 1]
  BY <1>1, HeadTailProperties
<1>3. DOMAIN wire' = 1 .. n
  BY <1>2, LenProperties
<1>4. /\ extended_key' = (wire[1].code = Prefix)
      /\ shift_pressed' \in BOOLEAN /\ altgr_pressed' \in BOOLEAN
      /\ shift_pressed \in BOOLEAN /\ altgr_pressed \in BOOLEAN
      /\ shift_pressed' <=> ((shift_pressed /\ 1 \notin ShiftOffs) \/ 1 \in ShiftOns)
      /\ altgr_pressed' <=> ((altgr_pressed /\ 1 \notin AltGrOffs) \/ 1 \in AltGrOns)
  BY <1>1, ReadFlags DEF Typed
<1>5. ASSUME NEW i \in 1 .. n PROVE Ext(i)' <=> Ext(i + 1)
  <2>1. i + 1 # 1 /\ (i + 1) - 1 = i /\ (i # 1 => i - 1 \in 1 .. n /\ (i - 1) + 1 = i)
    OBVIOUS
  <2> QED BY <1>2, <1>4, <2>1 DEF Ext
<1> DEFINE S(i) == wire[i].code \in {Shift, RShift} /\ ~Ext(i)
           A(i) == wire[i].code = Alt
<1>6. ASSUME NEW i \in 1 .. n
      PROVE  /\ (S(i)' <=> S(i + 1)) /\ (A(i)' <=> A(i + 1)) /\ (Ext(i)' <=> Ext(i + 1))
             /\ wire'[i].up = wire[i + 1].up
  BY <1>2, <1>5
<1>7. /\ ShiftOns  = {i \in 1 .. n + 1 : S(i) /\ ~wire[i].up}
      /\ ShiftOffs = {i \in 1 .. n + 1 : S(i) /\ wire[i].up}
      /\ AltGrOns  = {i \in 1 .. n + 1 : A(i) /\ Ext(i) /\ ~wire[i].up}
      /\ AltGrOffs = {i \in 1 .. n + 1 : A(i) /\ wire[i].up}
  BY <1>1 DEF ShiftOns, ShiftOffs, AltGrOns, AltGrOffs
<1>8. /\ ShiftOns'  = {i \in 1 .. n : S(i)' /\ ~wire'[i].up}
      /\ ShiftOffs' = {i \in 1 .. n : S(i)' /\ wire'[i].up}
      /\ AltGrOns'  = {i \in 1 .. n : A(i)' /\ Ext(i)' /\ ~wire'[i].up}
      /\ AltGrOffs' = {i \in 1 .. n : A(i)' /\ wire'[i].up}
  BY <1>3 DEF ShiftOns, ShiftOffs, AltGrOns, AltGrOffs
<1>9. \A j \in Nat \ {0} : j \in 1 .. n <=> j + 1 \in 1 .. n + 1
  OBVIOUS
<1> HIDE DEF S, A
<1>10. Moves(ShiftOns, ShiftOns') /\ Moves(ShiftOffs, ShiftOffs')
  BY <1>6, <1>7, <1>8, <1>9 DEF Moves
<1>11. Moves(AltGrOns, AltGrOns') /\ Moves(AltGrOffs, AltGrOffs')
  BY <1>6, <1>7, <1>8, <1>9 DEF Moves
<1>12. ~(1 \in ShiftOns /\ 1 \in ShiftOffs) /\ ~(1 \in AltGrOns /\ 1 \in AltGrOffs)
  BY <1>7
<1>13. ASSUME NEW i \in Nat \ {0} PROVE ShiftAt(i)' <=> ShiftAt(i + 1)
  <2> DEFINE f2 == shift_pressed'
             ons2 == ShiftOns'
             offs2 == ShiftOffs'
  <2>1. /\ f2 \in BOOLEAN /\ Moves(ShiftOns, ons2) /\ Moves(ShiftOffs, offs2)
        /\ f2 <=> ((shift_pressed /\ 1 \notin ShiftOffs) \/ 1 \in ShiftOns)
    BY <1>4, <1>10
  <2> HIDE DEF f2, ons2, offs2
  <2>2. shift_pressed \in BOOLEAN /\ i \in Nat \ {0} /\ ~(1 \in ShiftOns /\ 1 \in ShiftOffs)
    BY <1>4, <1>12
  <2>3. FlagAt(f2, ons2, offs2, i) <=> FlagAt(shift_pressed, ShiftOns, ShiftOffs, i + 1)
    BY ONLY <2>1, <2>2, FlagRead
  <2> QED BY <2>3 DEF ShiftAt, f2, ons2, offs2
<1>14. ASSUME NEW i \in Nat \ {0} PROVE AltGrAt(i)' <=> AltGrAt(i + 1)
  <2> DEFINE f2 == altgr_pressed'
             ons2 == AltGrOns'
             offs2 == AltGrOffs'
  <2>1. /\ f2 \in BOOLEAN /\ Moves(AltGrOns, ons2) /\ Moves(AltGrOffs, offs2)
        /\ f2 <=> ((altgr_pressed /\ 1 \notin AltGrOffs) \/ 1 \in AltGrOns)
    BY <1>4, <1>11
  <2> HIDE DEF f2, ons2, offs2
  <2>2. altgr_pressed \in BOOLEAN /\ i \in Nat \ {0} /\ ~(1 \in AltGrOns /\ 1 \in AltGrOffs)
    BY <1>4, <1>12
  <2>3. FlagAt(f2, ons2, offs2, i) <=> FlagAt(altgr_pressed, AltGrOns, AltGrOffs, i + 1)
    BY ONLY <2>1, <2>2, FlagRead
  <2> QED BY <2>3 DEF AltGrAt, f2, ons2, offs2
<1>15. ASSUME NEW i \in 1 .. n + 1
       PROVE  (ShiftAt(i)' <=> ShiftAt(i + 1)) /\ (AltGrAt(i)' <=> AltGrAt(i + 1))
  <2>1. i \in Nat \ {0}
    OBVIOUS
  <2> QED BY ONLY <1>13, <1>14, <2>1
<1> QED BY ONLY <1>2, <1>3, <1>15

(* The handler reads a byte. *)
LEMMA ReadStep ==
  ASSUME DInv, keyboard_handler
  PROVE  DInv'
<1>1. /\ Typed /\ Paired /\ Struck /\ Settles /\ Locks
      /\ Reads /\ 1 \in DOMAIN wire /\ byte = wire[1]
      /\ extended_key' = (wire[1].code = Prefix)
      /\ shift_pressed' \in BOOLEAN /\ altgr_pressed' \in BOOLEAN
      /\ caps_lock' \in BOOLEAN /\ dead_key_state' \in DOMAIN Keymap \cup {NUL}
      /\ caps_lock' <=> ~(caps_lock <=> Turns(1))
  BY ReadFlags DEF DInv
<1>2. PICK n \in Nat : n + 1 = Len(wire) /\ DOMAIN wire = 1 .. n + 1
  <2>1. Len(wire) \in Nat /\ DOMAIN wire = 1 .. Len(wire)
    BY <1>1, WireIs
  <2>2. Len(wire) - 1 \in Nat /\ (Len(wire) - 1) + 1 = Len(wire)
    BY <1>1, <2>1
  <2> QED BY <2>1, <2>2
<1>3. /\ wire' \in Seq(ByteType) /\ Len(wire') = n /\ DOMAIN wire' = 1 .. n
      /\ \A i \in 1 .. n : wire'[i] = wire[i + 1]
      /\ \A i \in 1 .. n + 1 : (ShiftAt(i)' <=> ShiftAt(i + 1)) /\ (AltGrAt(i)' <=> AltGrAt(i + 1))
  BY <1>2, ReadMoves
<1>4. (held' = held) /\ (mixed' = mixed) /\ (caps' = caps)
  BY <1>1 DEF Reads
<1>5. Typed'
  <2>1. typed'.char = NUL \/ typed'.code \in DOMAIN Keymap \cup DOMAIN Special
    BY <1>1, ReadTypes DEF Typed, Pushes
  <2>2. Len(wire') <= Wire
    BY <1>1, <1>2, <1>3, DecodeAssumption DEF Typed
  <2>3. extended_key' \in BOOLEAN
    BY <1>1
  <2> QED BY <1>1, <1>3, <1>4, <2>1, <2>2, <2>3 DEF Typed
<1>6. Paired'
  <2>1. ASSUME extended_key' PROVE wire' # << >> /\ wire'[1].code # Prefix
    <3>1. 1 + 1 \in 1 .. n + 1 /\ wire[1 + 1].code # Prefix
      BY <1>1, <1>2, <2>1 DEF Paired
    <3>2. 1 \in 1 .. n
      BY <3>1
    <3> QED BY <1>3, <3>1, <3>2
  <2>2. ASSUME NEW i \in 1 .. n, wire'[i].code = Prefix
        PROVE  i + 1 \in 1 .. n /\ wire'[i + 1].code # Prefix
    <3>1. i + 1 \in 1 .. n + 1 /\ wire[i + 1].code = Prefix
      BY <1>3, <2>2
    <3>2. (i + 1) + 1 \in 1 .. n + 1 /\ wire[(i + 1) + 1].code # Prefix
      BY <1>1, <1>2, <3>1 DEF Paired
    <3>3. i + 1 \in 1 .. n
      BY <3>2
    <3> QED BY <1>3, <3>2, <3>3
  <2> QED BY <1>3, <2>1, <2>2 DEF Paired
<1>7. Struck'
  <2>1. ASSUME NEW i \in 1 .. n, ~wire'[i].up, wire'[i].code \in DOMAIN Keymap
        PROVE  /\ Agrees(ShiftAt(i)', ShiftKeys \cap wire'[i].at.with # {}, wire'[i].at.mixed)
               /\ Agrees(AltGrAt(i)', AltGr \in wire'[i].at.with, wire'[i].at.mixed)
    <3>1. i + 1 \in 1 .. n + 1 /\ i \in 1 .. n + 1 /\ wire'[i] = wire[i + 1]
      BY <1>3
    <3>2. /\ Agrees(ShiftAt(i + 1), ShiftKeys \cap wire[i + 1].at.with # {}, wire[i + 1].at.mixed)
          /\ Agrees(AltGrAt(i + 1), AltGr \in wire[i + 1].at.with, wire[i + 1].at.mixed)
      BY <1>1, <1>2, <2>1, <3>1 DEF Struck
    <3>3. (ShiftAt(i)' <=> ShiftAt(i + 1)) /\ (AltGrAt(i)' <=> AltGrAt(i + 1))
      BY <1>3, <3>1
    <3> QED BY <3>1, <3>2, <3>3 DEF Agrees
  <2> QED BY <1>3, <2>1 DEF Struck
<1>8. Settles'
  <2>1. (ShiftAt(n + 1)' <=> ShiftAt((n + 1) + 1)) /\ (AltGrAt(n + 1)' <=> AltGrAt((n + 1) + 1))
    BY <1>3
  <2>2. Len(wire') + 1 = n + 1 /\ Len(wire) + 1 = (n + 1) + 1
    BY <1>2, <1>3
  <2> QED BY <1>1, <1>4, <2>1, <2>2 DEF Settles, Agrees
<1>9. TypedAsHeld'
  <2>1. CASE typed' = typed
    BY <2>1 DEF DInv, TypedAsHeld
  <2>2. CASE typed'.code \notin DOMAIN Keymap
    BY <2>2 DEF TypedAsHeld
  <2>3. CASE /\ byte.code \in DOMAIN Keymap /\ ~byte.up /\ byte.code # Prefix
             /\ Pushes(Column(Keymap[byte.code]))
    <3>1. /\ Agrees(ShiftAt(1), ShiftKeys \cap byte.at.with # {}, byte.at.mixed)
          /\ Agrees(AltGrAt(1), AltGr \in byte.at.with, byte.at.mixed)
      BY <1>1, <2>3 DEF Struck
    <3>2. (ShiftAt(1) <=> shift_pressed) /\ (AltGrAt(1) <=> altgr_pressed)
      <4>1. shift_pressed \in BOOLEAN /\ altgr_pressed \in BOOLEAN
        BY <1>1 DEF Typed
      <4>2. /\ \A j \in ShiftOns \cup ShiftOffs : j \in Nat \ {0}
            /\ \A j \in AltGrOns \cup AltGrOffs : j \in Nat \ {0}
        BY <1>2 DEF ShiftOns, ShiftOffs, AltGrOns, AltGrOffs
      <4> QED BY <4>1, <4>2, FlagNow DEF ShiftAt, AltGrAt
    <3>3. /\ typed'.char = Column(Keymap[byte.code])
          /\ typed'.code = byte.code /\ typed'.at = byte.at
      BY <2>3 DEF Pushes
    <3>4. byte.at.caps <=> caps_lock
      <4>1. byte.code # Caps
        BY <2>3, DecodeAssumption
      <4>2. ~Turns(1)
        BY <1>1, <4>1 DEF Turns
      <4> QED BY <1>1, <4>2 DEF Locks, CapsAt
    <3>5. /\ shift_pressed \in BOOLEAN /\ altgr_pressed \in BOOLEAN
          /\ caps_lock \in BOOLEAN /\ byte.at.caps \in BOOLEAN
      <4>1. wire[1] \in ByteType
        BY <1>1, WireIs
      <4> QED BY <1>1, <4>1 DEF Typed, ByteType, At
    <3>6. byte.at.caps = caps_lock
      BY <3>4, <3>5
    <3>7. /\ Agrees(shift_pressed, ShiftKeys \cap typed'.at.with # {}, typed'.at.mixed)
          /\ Agrees(altgr_pressed, AltGr \in typed'.at.with, typed'.at.mixed)
      BY <3>1, <3>2, <3>3 DEF Agrees
    <3>8. typed'.char = ColumnOf(Keymap[typed'.code], shift_pressed, altgr_pressed, typed'.at.caps)
      BY <3>3, <3>6 DEF Column
    <3> QED BY <3>5, <3>7, <3>8 DEF TypedAsHeld
  <2> QED BY <2>1, <2>2, <2>3, ReadTypes
<1>10. (ShiftKeys \subseteq held => mixed)'
  BY <1>4 DEF DInv
<1>11. Locks'
  <2>1. \A i \in 1 .. n + 1 : CapsAt(i)' <=> CapsAt(i + 1)
    <3>1. ASSUME NEW i \in 1 .. n + 1 PROVE CapsAt(i)' <=> CapsAt(i + 1)
      <4>1. i + 1 # 1 /\ (i + 1) - 1 = i
        OBVIOUS
      <4>2. CASE i = 1
        <5>1. CapsAt(i)' <=> caps_lock'
          BY <4>2 DEF CapsAt
        <5>2. CapsAt(i + 1) <=> wire[1].at.caps
          BY <4>1, <4>2 DEF CapsAt
        <5>3. wire[1].at.caps <=> ~(caps_lock <=> Turns(1))
          BY <1>1 DEF Locks, CapsAt
        <5> QED BY <1>1, <5>1, <5>2, <5>3
      <4>3. CASE i # 1
        <5>1. i - 1 \in 1 .. n /\ (i - 1) + 1 = i
          BY <4>3
        <5>2. wire'[i - 1] = wire[i]
          BY <1>3, <5>1
        <5> QED BY <4>1, <4>3, <5>2 DEF CapsAt
      <4> QED BY <4>2, <4>3
    <3> QED BY <3>1
  <2>2. ASSUME NEW i \in 1 .. n PROVE Turns(i)' <=> Turns(i + 1)
    <3>1. wire'[i] = wire[i + 1]
      BY <1>3
    <3>2. Ext(i)' <=> Ext(i + 1)
      <4>1. i + 1 # 1 /\ (i + 1) - 1 = i /\ (i # 1 => i - 1 \in 1 .. n /\ (i - 1) + 1 = i)
        OBVIOUS
      <4> QED BY <1>1, <1>3, <4>1 DEF Ext
    <3> QED BY <3>1, <3>2 DEF Turns
  <2>3. ASSUME NEW i \in 1 .. n PROVE wire'[i].at.caps <=> ~(CapsAt(i)' <=> Turns(i)')
    <3>1. i + 1 \in 1 .. n + 1 /\ i \in 1 .. n + 1 /\ wire'[i] = wire[i + 1]
      BY <1>3
    <3>2. wire[i + 1].at.caps <=> ~(CapsAt(i + 1) <=> Turns(i + 1))
      BY <1>1, <1>2, <3>1 DEF Locks
    <3> QED BY <2>1, <2>2, <3>1, <3>2
  <2>4. caps' <=> CapsAt(n + 1)'
    <3>1. n + 1 \in 1 .. n + 1
      OBVIOUS
    <3>2. caps <=> CapsAt((n + 1) + 1)
      BY <1>1, <1>2 DEF Locks
    <3> QED BY <1>4, <2>1, <3>1, <3>2
  <2> QED BY <1>3, <2>3, <2>4 DEF Locks
<1> QED BY <1>5, <1>6, <1>7, <1>8, <1>9, <1>10, <1>11 DEF DInv

--------------------------------------------------------------------------------
(* At the start no key is down and no byte on its way. *)
LEMMA InitInv == Init => DInv
<1> SUFFICES ASSUME Init PROVE DInv
  OBVIOUS
<1>1. /\ held = {} /\ wire = << >> /\ ~shift_pressed /\ ~altgr_pressed /\ ~extended_key
      /\ shift_pressed \in BOOLEAN /\ altgr_pressed \in BOOLEAN /\ caps_lock \in BOOLEAN
      /\ extended_key \in BOOLEAN /\ mixed \in BOOLEAN /\ dead_key_state = NUL
      /\ ~caps /\ caps \in BOOLEAN /\ ~caps_lock
      /\ typed.char = NUL /\ typed.code = NUL
  BY DEF Init, Nothing
<1>2. wire \in Seq(ByteType) /\ Len(wire) = 0 /\ DOMAIN wire = {}
  BY <1>1
<1>3. Typed
  BY <1>1, <1>2, DecodeAssumption DEF Typed
<1>4. Paired /\ Struck
  BY <1>1, <1>2 DEF Paired, Struck
<1>5. ~ShiftAt(1) /\ ~AltGrAt(1)
  BY <1>1, <1>2 DEF ShiftAt, AltGrAt, FlagAt, ShiftOns, AltGrOns
<1>6. Settles
  BY <1>1, <1>2, <1>5 DEF Settles, Agrees
<1>7. TypedAsHeld
  BY <1>1, DecodeAssumption DEF TypedAsHeld
<1>8. ~(ShiftKeys \subseteq held)
  BY <1>1 DEF ShiftKeys
<1>9. Locks
  BY <1>1, <1>2 DEF Locks, CapsAt
<1> QED BY <1>3, <1>4, <1>6, <1>7, <1>8, <1>9 DEF DInv

(* Every step of the keys and of the handler keeps the invariant. *)
LEMMA NextInv == DInv /\ [Next]_vars => DInv'
<1> SUFFICES ASSUME DInv, [Next]_vars PROVE DInv'
  OBVIOUS
<1>1. CASE \E k \in Keys : Press(k) \/ Release(k)
  BY <1>1, PressStep, ReleaseStep
<1>2. CASE keyboard_handler
  BY <1>2, ReadStep
<1>3. CASE UNCHANGED vars
  <2>1. /\ (held' = held) /\ (wire' = wire) /\ (mixed' = mixed) /\ (typed' = typed)
        /\ (shift_pressed' = shift_pressed) /\ (altgr_pressed' = altgr_pressed)
        /\ (caps_lock' = caps_lock) /\ (extended_key' = extended_key)
        /\ (dead_key_state' = dead_key_state) /\ (caps' = caps)
    BY <1>3 DEF vars, flags
  <2>2. /\ (ShiftOns' = ShiftOns) /\ (ShiftOffs' = ShiftOffs)
        /\ (AltGrOns' = AltGrOns) /\ (AltGrOffs' = AltGrOffs)
    BY <2>1 DEF ShiftOns, ShiftOffs, AltGrOns, AltGrOffs, Ext
  <2>3. ASSUME NEW i PROVE (ShiftAt(i)' <=> ShiftAt(i)) /\ (AltGrAt(i)' <=> AltGrAt(i))
    BY <2>1, <2>2 DEF ShiftAt, AltGrAt
  <2>4. Typed' /\ Paired' /\ TypedAsHeld' /\ (ShiftKeys \subseteq held => mixed)'
    BY <2>1 DEF DInv, Typed, Paired, TypedAsHeld
  <2>5. Struck'
    BY <2>1, <2>3 DEF DInv, Struck, Agrees
  <2>6. Settles'
    BY <2>1, <2>3 DEF DInv, Settles, Agrees
  <2>7. Locks'
    BY <2>1 DEF DInv, Locks, CapsAt, Turns, Ext
  <2> QED BY <2>4, <2>5, <2>6, <2>7 DEF DInv
<1> QED BY <1>1, <1>2, <1>3 DEF Next

(* What the runs check follows from the invariant. *)
LEMMA InvShows == DInv => PrefixPaired /\ ModifiersAgree /\ TypedAsHeld
<1> SUFFICES ASSUME DInv PROVE PrefixPaired /\ ModifiersAgree /\ TypedAsHeld
  OBVIOUS
<1>1. /\ Typed /\ Paired /\ Settles /\ wire \in Seq(ByteType)
      /\ shift_pressed \in BOOLEAN /\ altgr_pressed \in BOOLEAN
  BY DEF DInv, Typed
<1>2. PrefixPaired
  <2>1. wire # << >> => Head(wire) = wire[1]
    BY <1>1
  <2> QED BY <1>1, <2>1 DEF PrefixPaired, Paired
<1>3. TypeOK
  <2>1. \A i \in DOMAIN wire : wire[i] \in ByteType
    BY <1>1, WireIs
  <2>2. \A i \in DOMAIN wire : wire[i].up \in BOOLEAN /\ wire[i].at.with \subseteq Keys
    BY <2>1 DEF ByteType, At
  <2> QED BY <1>1, <2>2 DEF TypeOK, Typed
<1>4. ASSUME wire = << >>
      PROVE  (ShiftAt(1) <=> shift_pressed) /\ (AltGrAt(1) <=> altgr_pressed) /\ Len(wire) + 1 = 1
  <2>1. DOMAIN wire = {} /\ Len(wire) = 0
    BY <1>4
  <2>2. /\ \A j \in ShiftOns \cup ShiftOffs : j \in Nat \ {0}
        /\ \A j \in AltGrOns \cup AltGrOffs : j \in Nat \ {0}
    BY <2>1 DEF ShiftOns, ShiftOffs, AltGrOns, AltGrOffs
  <2> QED BY <1>1, <2>1, <2>2, FlagNow DEF ShiftAt, AltGrAt
<1>5. ModifiersAgree
  BY <1>1, <1>3, <1>4 DEF ModifiersAgree, Settles, Agrees
<1> QED BY <1>2, <1>5 DEF DInv

(* The invariant of the decoder holds however keys and handler interleave. *)
THEOREM DecoderInvariant == Spec => []DInv
<1> QED BY InitInv, NextInv, PTL DEF Spec

(* No byte keyboard_handler does not know parts a prefix from the byte it  *)
(* belongs to: extended_key is always for the next byte.                   *)
THEOREM PrefixesStayPaired == Spec => []PrefixPaired
<1> QED BY DecoderInvariant, InvShows, PTL

(* Behind the last byte the modifier flags of keyboard_handler agree with  *)
(* the keys that are down.                                                 *)
THEOREM ModifiersCatchUp == Spec => []ModifiersAgree
<1> QED BY DecoderInvariant, InvShows, PTL

(* keyboard_handler types the character of the column, and in the case,    *)
(* that the keys and caps lock stood for when the key was struck, however  *)
(* late it reads the byte; only after a mix of keys of one flag may a      *)
(* modifier that is down not count.                                        *)
THEOREM TypesWhatWasStruck == Spec => []TypedAsHeld
<1> QED BY DecoderInvariant, InvShows, PTL

================================================================================
