------------------------------- MODULE VfsProofs -------------------------------
(***************************************************************************)
(* Proofs about the file system calls of syscall.c, for every number of    *)
(* slots, descriptors and buffers, every size and every count that         *)
(* VfsAssumption and LiteralAssumption allow.                              *)
(*                                                                         *)
(* One inductive invariant in two parts: every file in use has a buffer of *)
(* its own, of its capacity and never an empty one, and no two files have  *)
(* one name; every open descriptor is on a file in use.  A step that       *)
(* replaces one slot keeps the first part (SlotStep), and each call is     *)
(* such a step or leaves the slots alone.  With the invariant a name finds *)
(* its one slot, so the contents the abstract store sees can be followed   *)
(* from buffer to buffer.                                                  *)
(***************************************************************************)
EXTENDS Vfs, SequenceTheorems, WellFoundedInduction, TLAPS

(* The bytes a buffer can hold, and the records of the two tables. *)
Bytes == Byte \cup {Text, Junk}

FileType ==
  [name : Names \cup {NULL}, data : Buffers \cup Literals \cup {NULL},
   size : 0 .. MaxSize, capacity : 0 .. MaxSize + Chunk, in_use : BOOLEAN]

DescType ==
  [file : Slots \cup {NULL}, position : 0 .. MaxSize, write : BOOLEAN, in_use : BOOLEAN]

Contained == mem \in [Buffers \cup Literals -> Seq(Bytes)]

(* A file in use has a buffer that is not empty, so that a free buffer is  *)
(* nobody's.                                                               *)
Backed ==
  \A i \in FilesInUse : /\ virtual_files[i].data \in Buffers \cup Literals
                        /\ virtual_files[i].capacity > 0

(* No two files have the same name: a name finds one slot. *)
OneName ==
  \A i, j \in FilesInUse : virtual_files[i].name = virtual_files[j].name => i = j

(* The inductive invariant, in a part on files and one on descriptors. *)
FilesInv ==
  /\ virtual_files \in [Slots -> FileType]
  /\ Contained
  /\ Backed
  /\ OneName
  /\ BuffersOwned

DescsInv ==
  /\ file_descriptors \in [Fds -> DescType]
  /\ overtaken \subseteq Fds
  /\ \A fd \in Fds : Open(fd) =>
       /\ file_descriptors[fd].file \in FilesInUse
       /\ fd \notin overtaken => file_descriptors[fd].position <= FileOf(fd).size

VInv == FilesInv /\ DescsInv

--------------------------------------------------------------------------------
(* The scans over slots and descriptors end at the lowest match. *)
LEMMA Lowest ==
  ASSUME NEW S, S \subseteq Nat, S # {}
  PROVE  LowestOf(S) \in S /\ \A y \in S : LowestOf(S) <= y
<1> DEFINE R == {ss \in Nat \X Nat : ss[1] < ss[2]}
<1>1. IsWellFoundedOn(R, Nat)
  BY NatLessThanWellFounded DEF OpToRel
<1> HIDE DEF R
<1>2. \E x \in S : \A y \in S : <<y, x>> \notin R
  BY <1>1, WFMin
<1>3. \A x, y \in Nat : y < x => <<y, x>> \in R
  BY DEF R
<1>4. PICK x \in S : \A y \in S : <<y, x>> \notin R
  BY <1>2
<1>5. ASSUME NEW y \in S PROVE x <= y
  <2>1. x \in Nat /\ y \in Nat
    BY <1>5
  <2>2. ~(y < x)
    BY <2>1, <1>3, <1>4, <1>5
  <2> QED BY <2>1, <2>2
<1> QED
  BY <1>5 DEF LowestOf

(* A remainder is below its modulus and not above its number. *)
LEMMA ModAtMost ==
  ASSUME NEW a \in Nat, NEW b \in Nat \ {0}
  PROVE  a % b \in Nat /\ a % b <= a /\ a % b < b
  OBVIOUS

(* A number below the modulus is its own remainder. *)
LEMMA ModSmall == ASSUME NEW a \in Nat, NEW b \in Nat, a < b PROVE a % b = a
  BY Z3

(* A new capacity holds what is needed, and is less than a chunk above.    *)
LEMMA Rounding ==
  ASSUME NEW n \in Nat
  PROVE  RoundToChunk(n) \in n .. n + Chunk - 1
<1>1. Chunk \in Nat \ {0} /\ (n + Chunk - 1) \in Nat
  BY VfsAssumption
<1>2. (n + Chunk - 1) % Chunk \in 0 .. Chunk - 1
  BY <1>1
<1> QED
  BY <1>1, <1>2 DEF RoundToChunk

(* The wrapping subtraction of sys_handler_read, added back, gives the     *)
(* size.                                                                   *)
LEMMA Wrap ==
  ASSUME NEW p \in Nat, NEW s \in Nat, NEW w \in Nat, p < w, s < w
  PROVE  (p + ((s - p) % w)) % w = s
<1>1. CASE p <= s
  <2>1. (s - p) % w = s - p
   BY <1>1, ModSmall
  <2> QED BY <2>1, ModSmall, p + (s - p) = s
<1>2. CASE s < p
  <2>1. (s - p) % w = s - p + w
   BY <1>2, Z3
  <2>2. (s + w) % w = s 
   BY Z3
  <2> QED BY <2>1, <2>2, p + (s - p + w) = s + w
<1> QED BY <1>1, <1>2

(* A copy changes bytes, not the length. *)
LEMMA CopyKeeps ==
  ASSUME NEW dst \in Seq(Bytes), NEW at \in Nat, NEW n \in Nat, NEW src,
         \A k \in 1 .. n : src[k] \in Bytes
  PROVE  /\ Copied(dst, at, src, n) \in Seq(Bytes)
         /\ Len(Copied(dst, at, src, n)) = Len(dst)
         /\ \A k \in 1 .. Len(dst) :
              Copied(dst, at, src, n)[k] =
                IF k > at /\ k <= at + (n % CopyWord) THEN src[k - at] ELSE dst[k]
<1> DEFINE m == n % CopyWord
           c == Copied(dst, at, src, n)
<1>1. m \in Nat /\ m <= n
  BY ModAtMost, VfsAssumption
<1>2. Len(dst) \in Nat /\ DOMAIN dst = 1 .. Len(dst) /\ dst \in [1 .. Len(dst) -> Bytes]
  BY LenProperties
<1>3. ASSUME NEW i \in 1 .. Len(dst), i > at, i <= at + m PROVE src[i - at] \in Bytes
  <2>1. i - at \in 1 .. n
    BY <1>1, <1>2, <1>3
  <2> QED BY <2>1
<1>4. c \in [1 .. Len(dst) -> Bytes]
  BY <1>2, <1>3 DEF Copied
<1>5. c \in Seq(Bytes)
  BY <1>2, <1>4, SeqDef
<1>6. \A k \in 1 .. Len(dst) : c[k] = IF k > at /\ k <= at + m THEN src[k - at] ELSE dst[k]
  BY <1>2 DEF Copied
<1>7. Len(c) = Len(dst)
  BY <1>2, <1>4, <1>5, LenProperties
<1> QED
  BY <1>5, <1>6, <1>7

(* A new buffer. *)
LEMMA FreshIs ==
  ASSUME NEW n \in Nat
  PROVE  /\ Fresh(n) \in Seq(Bytes)
         /\ Len(Fresh(n)) = n
<1>1. Fresh(n) \in [1 .. n -> Bytes]
  BY DEF Fresh, Bytes
<1>2. Fresh(n) \in Seq(Bytes)
  BY <1>1, SeqDef
<1> QED
  BY <1>1, <1>2, LenProperties

(* A step that replaces the record of one slot keeps the part of the       *)
(* invariant on files if it gives the slot a buffer nobody else has.       *)
LEMMA SlotStep ==
  ASSUME FilesInv, NEW i \in Slots, NEW f \in FileType,
         virtual_files' = [virtual_files EXCEPT ![i] = f],
         Contained',
         f.in_use => /\ f.data \in Buffers \cup Literals /\ f.capacity > 0
                     /\ f.size <= f.capacity /\ Len(mem'[f.data]) = f.capacity,
         \A j \in FilesInUse \ {i} :
           /\ mem'[virtual_files[j].data] = mem[virtual_files[j].data]
           /\ f.in_use => f.name # virtual_files[j].name /\ f.data # virtual_files[j].data,
         \A b \in Buffers : mem'[b] # << >> =>
           \/ f.in_use /\ f.data = b
           \/ mem[b] # << >> /\ (InUse(i) => virtual_files[i].data # b)
  PROVE  /\ FilesInv'
         /\ FilesInUse \ {i} \subseteq FilesInUse'
         /\ f.in_use => i \in FilesInUse'
<1>1. virtual_files' \in [Slots -> FileType] /\ virtual_files'[i] = f
  BY DEF FilesInv
<1>2. \A j \in Slots \ {i} : virtual_files'[j] = virtual_files[j]
  BY DEF FilesInv
<1>3. FilesInUse' \ {i} = FilesInUse \ {i} /\ (i \in FilesInUse' <=> f.in_use)
  BY <1>1, <1>2 DEF FilesInUse, InUse
<1>a. FilesInUse \subseteq Slots /\ FilesInUse' \subseteq Slots
  BY DEF FilesInUse
<1>4. Backed'
  BY <1>1, <1>2, <1>3, <1>a DEF Backed, FilesInv
<1>5. OneName'
  BY <1>1, <1>2, <1>3, <1>a DEF OneName, FilesInv
<1>6. BuffersOwned'
  <2>1. \A j \in FilesInUse' :
          /\ virtual_files'[j].size <= virtual_files'[j].capacity
          /\ Len(mem'[virtual_files'[j].data]) = virtual_files'[j].capacity
    BY <1>1, <1>2, <1>3, <1>a DEF FilesInv, BuffersOwned
  <2>2. \A j, k \in FilesInUse' : virtual_files'[j].data = virtual_files'[k].data => j = k
    BY <1>1, <1>2, <1>3, <1>a DEF FilesInv, BuffersOwned
  <2>3. ASSUME NEW b \in Buffers, mem'[b] # << >>
        PROVE  \E j \in FilesInUse' : virtual_files'[j].data = b
    <3>1. CASE f.in_use /\ f.data = b
      BY <3>1, <1>1, <1>3
    <3>2. CASE mem[b] # << >> /\ (InUse(i) => virtual_files[i].data # b)
      <4>1. PICK j \in FilesInUse : virtual_files[j].data = b
        BY <3>2 DEF FilesInv, BuffersOwned
      <4>2. j # i
        BY <4>1, <3>2 DEF FilesInUse
      <4> QED BY <4>1, <4>2, <1>2, <1>3, <1>a
    <3> QED BY <3>1, <3>2, <2>3
  <2> QED BY <2>1, <2>2, <2>3 DEF BuffersOwned
<1> QED
  BY <1>1, <1>3, <1>4, <1>5, <1>6 DEF FilesInv

(* The tail of open keeps the part on descriptors: the new one is at the   *)
(* start or the end of a file in use, and those a truncation leaves behind *)
(* the end of their file are noted in overtaken.                           *)
LEMMA TakeStep ==
  ASSUME DescsInv, NEW table \in [Slots -> FileType], NEW i \in Slots, NEW flags,
         TakeDescriptor(i, table, flags),
         FilesInUse \subseteq FilesInUse', i \in FilesInUse',
         \A j \in FilesInUse : table[j].size = virtual_files[j].size
  PROVE  DescsInv'
<1>1. CASE FreeFds = {}
  <2>1. UNCHANGED <<file_descriptors, overtaken>> /\ virtual_files' = table
    BY <1>1 DEF TakeDescriptor
  <2>2. ASSUME NEW fd \in Fds, Open(fd)'
        PROVE  /\ file_descriptors'[fd].file \in FilesInUse'
               /\ fd \notin overtaken' => file_descriptors'[fd].position <= FileOf(fd)'.size
    BY <2>1, <2>2 DEF DescsInv, Open, FileOf
  <2> QED BY <2>1, <2>2 DEF DescsInv
<1>2. CASE FreeFds # {}
  <2> DEFINE new   == LowestOf(FreeFds)
             trunc == "truncate" \in flags
             start == IF "append" \in flags /\ ~trunc THEN table[i].size ELSE 0
             d     == [file |-> i, position |-> start,
                       write |-> "write" \in flags, in_use |-> TRUE]
  <2>1. new \in Fds /\ ~Open(new)
    BY <1>2, Lowest, VfsAssumption DEF FreeFds
  <2>2. /\ file_descriptors' = [file_descriptors EXCEPT ![new] = d]
        /\ virtual_files' = IF trunc THEN [table EXCEPT ![i].size = 0] ELSE table
        /\ overtaken' = IF trunc
                        THEN overtaken \cup {f \in Fds : /\ Open(f)
                                                         /\ file_descriptors[f].file = i
                                                         /\ file_descriptors[f].position > 0}
                        ELSE overtaken
    BY <1>2 DEF TakeDescriptor
  <2>3. table[i].size \in 0 .. MaxSize /\ MaxSize \in Nat
    BY VfsAssumption DEF FileType
  <2>4. start \in 0 .. MaxSize
    BY <2>3
  <2>5. d \in DescType
    BY <2>4 DEF DescType
  <2>6. start <= virtual_files'[i].size
    <3>1. CASE trunc BY <3>1, <2>2 DEF FileType
    <3>2. CASE ~trunc BY <3>2, <2>2, <2>3
    <3> QED BY <3>1, <3>2
  <2> HIDE DEF new, start
  <2>7. file_descriptors' \in [Fds -> DescType] /\ overtaken' \subseteq Fds
    BY <2>1, <2>2, <2>5 DEF DescsInv
  <2>8. ASSUME NEW fd \in Fds, Open(fd)'
        PROVE  /\ file_descriptors'[fd].file \in FilesInUse'
               /\ fd \notin overtaken' => file_descriptors'[fd].position <= FileOf(fd)'.size
    <3>1. CASE fd = new
      <4>1. file_descriptors'[fd] = d
        BY <3>1, <2>1, <2>2 DEF DescsInv
      <4> QED BY <4>1, <2>6 DEF FileOf
    <3>2. CASE fd # new
      <4> DEFINE g == file_descriptors[fd].file
      <4>1. file_descriptors'[fd] = file_descriptors[fd]
        BY <3>2, <2>1, <2>2 DEF DescsInv
      <4>2. Open(fd)
        BY <4>1, <2>8 DEF Open
      <4>3. g \in FilesInUse /\ g \in Slots
        BY <4>2 DEF DescsInv, FilesInUse
      <4>4. file_descriptors[fd].position \in 0 .. MaxSize
        BY DEF DescsInv, DescType
      <4>5. ASSUME fd \notin overtaken'
            PROVE  file_descriptors[fd].position <= virtual_files'[g].size
        <5>1. fd \notin overtaken
          BY <4>5, <2>2
        <5>2. file_descriptors[fd].position <= table[g].size
          BY <5>1, <4>2, <4>3 DEF DescsInv, FileOf
        <5>3. CASE trunc /\ g = i
          <6>1. file_descriptors[fd].position = 0
            BY <5>3, <4>2, <4>4, <4>5, <2>2
          <6>2. virtual_files'[g].size = 0
            BY <5>3, <2>2 DEF FileType
          <6> QED BY <6>1, <6>2
        <5>4. CASE ~(trunc /\ g = i)
          <6>1. virtual_files'[g] = table[g]
            BY <5>4, <2>2, <4>3
          <6> QED BY <6>1, <5>2
        <5> QED BY <5>3, <5>4
      <4> QED BY <4>1, <4>3, <4>5 DEF FileOf
    <3> QED BY <3>1, <3>2
  <2> QED BY <2>7, <2>8 DEF DescsInv
<1> QED BY <1>1, <1>2

(* open of a file that exists. *)
LEMMA OpenExistingStep ==
  ASSUME VInv, NEW path \in Names, NEW flags \in Flags, OpenExisting(path, flags)
  PROVE  VInv'
<1> DEFINE i == LowestOf(Found(path))
           f == IF virtual_files' = virtual_files THEN virtual_files[i]
                ELSE [virtual_files[i] EXCEPT !.size = 0]
<1>1. i \in FilesInUse /\ i \in Slots
  <2>1. Found(path) \subseteq Nat /\ Found(path) # {}
    BY DEF OpenExisting, Found, Slots
  <2>2. i \in Found(path)
    BY <2>1, Lowest
  <2> QED BY <2>2 DEF Found, FilesInUse
<1>2. TakeDescriptor(i, virtual_files, flags) /\ mem' = mem
  BY DEF OpenExisting
<1> HIDE DEF i
<1>3. virtual_files \in [Slots -> FileType] /\ MaxSize \in Nat
  BY VfsAssumption DEF VInv, FilesInv
<1>4. virtual_files' = [virtual_files EXCEPT ![i] = f]
  <2>1. virtual_files' = virtual_files \/ virtual_files' = [virtual_files EXCEPT ![i].size = 0]
    BY <1>2 DEF TakeDescriptor
  <2>2. virtual_files = [virtual_files EXCEPT ![i] = virtual_files[i]]
    BY <1>1, <1>3
  <2> QED BY <2>1, <2>2
<1>5. /\ f \in FileType /\ f.in_use /\ f.data = virtual_files[i].data
      /\ f.capacity = virtual_files[i].capacity /\ f.name = virtual_files[i].name
      /\ f.size <= f.capacity /\ f.capacity > 0
  <2>1. /\ virtual_files[i] \in FileType /\ virtual_files[i].in_use
        /\ virtual_files[i].size <= virtual_files[i].capacity /\ virtual_files[i].capacity > 0
    BY <1>1, <1>3 DEF VInv, FilesInv, Backed, BuffersOwned, FilesInUse, InUse
  <2>2. virtual_files[i].capacity \in Nat
    BY <2>1, <1>3, VfsAssumption DEF FileType
  <2> QED BY <2>1, <2>2, <1>3 DEF FileType
<1>6. f.data \in Buffers \cup Literals /\ Len(mem[f.data]) = f.capacity
  BY <1>1, <1>5 DEF VInv, FilesInv, Backed, BuffersOwned
<1>7. \A j \in FilesInUse \ {i} : f.name # virtual_files[j].name /\ f.data # virtual_files[j].data
  BY <1>1, <1>5 DEF VInv, FilesInv, OneName, BuffersOwned
<1>8. \A b \in Buffers : mem[b] # << >> =>
           \/ f.in_use /\ f.data = b
           \/ mem[b] # << >> /\ (InUse(i) => virtual_files[i].data # b)
  BY <1>5
<1> HIDE DEF f
<1>9. FilesInv' /\ FilesInUse \ {i} \subseteq FilesInUse' /\ i \in FilesInUse'
  BY <1>1, <1>2, <1>4, <1>5, <1>6, <1>7, <1>8, SlotStep DEF VInv, FilesInv, Contained
<1>10. DescsInv'
  BY <1>1, <1>2, <1>3, <1>9, TakeStep DEF VInv
<1> QED BY <1>9, <1>10 DEF VInv

(* A free buffer belongs to no file. *)
LEMMA FreeIsNobodys ==
  ASSUME FilesInv, NEW b \in FreeBuffers
  PROVE  \A j \in FilesInUse : virtual_files[j].data # b
BY DEF FilesInv, Backed, BuffersOwned, FreeBuffers

(* open that creates a file, or fails for want of memory. *)
LEMMA OpenNewStep ==
  ASSUME VInv, NEW path \in Names, NEW flags \in Flags, OpenNew(path, flags)
  PROVE  VInv'
<1> DEFINE i == LowestOf(FreeSlots)
<1>1. i \in Slots /\ ~InUse(i) /\ i \notin FilesInUse
  <2>1. FreeSlots \subseteq Nat /\ FreeSlots # {}
    BY DEF OpenNew, FreeSlots, Slots
  <2>2. i \in FreeSlots
    BY <2>1, Lowest
  <2> QED BY <2>2 DEF FreeSlots, FilesInUse
<1>2. /\ virtual_files \in [Slots -> FileType] /\ mem \in [Buffers \cup Literals -> Seq(Bytes)]
      /\ MaxSize \in Nat /\ Chunk \in Nat \ {0}
  BY VfsAssumption DEF VInv, FilesInv, Contained
<1>3. \A j \in FilesInUse : virtual_files[j].name # path
  BY DEF OpenNew, Found, FilesInUse
<1>4. CASE \E b \in FreeBuffers :
             /\ mem' = [mem EXCEPT ![b] = Fresh(Chunk)]
             /\ TakeDescriptor(i, [virtual_files EXCEPT ![i] =
                  [name |-> path, data |-> b, size |-> 0, capacity |-> Chunk, in_use |-> TRUE]],
                  flags)
  <2> HIDE DEF i
  <2>1. PICK b \in FreeBuffers :
             /\ mem' = [mem EXCEPT ![b] = Fresh(Chunk)]
             /\ TakeDescriptor(i, [virtual_files EXCEPT ![i] =
                  [name |-> path, data |-> b, size |-> 0, capacity |-> Chunk, in_use |-> TRUE]],
                  flags)
    BY <1>4
  <2> DEFINE f     == [name |-> path, data |-> b, size |-> 0, capacity |-> Chunk, in_use |-> TRUE]
             table == [virtual_files EXCEPT ![i] = f]
  <2>2. b \in Buffers /\ b \in Buffers \cup Literals
    BY DEF FreeBuffers
  <2>3. f \in FileType
    BY <1>2, <2>2 DEF FileType
  <2>4. table \in [Slots -> FileType] /\ table[i] = f /\ \A j \in Slots \ {i} : table[j] = virtual_files[j]
    BY <1>1, <1>2, <2>3
  <2>5. virtual_files' = table
    <3>1. virtual_files' = table \/ virtual_files' = [table EXCEPT ![i].size = 0]
      BY <2>1 DEF TakeDescriptor
    <3>2. [table EXCEPT ![i].size = 0] = table
      <4>1. [f EXCEPT !.size = 0] = f
        <5>1. f.size = 0
          OBVIOUS
        <5> HIDE DEF f
        <5> QED BY <2>3, <5>1 DEF FileType
      <4>2. [table EXCEPT ![i].size = 0] = [table EXCEPT ![i] = f]
        BY <4>1, <2>4
      <4> QED BY <4>2, <2>4
    <3> QED BY <3>1, <3>2
  <2>6. Contained' /\ Len(mem'[b]) = Chunk /\ \A x \in (Buffers \cup Literals) \ {b} : mem'[x] = mem[x]
    BY <1>2, <2>1, <2>2, FreshIs DEF Contained
  <2>7. \A j \in FilesInUse : virtual_files[j].data \in (Buffers \cup Literals) \ {b}
    BY FreeIsNobodys DEF VInv, FilesInv, Backed
  <2>8. FilesInv' /\ FilesInUse \ {i} \subseteq FilesInUse' /\ i \in FilesInUse'
    <3>1. /\ virtual_files' = [virtual_files EXCEPT ![i] = f]
          /\ f.in_use /\ f.data = b /\ f.size = 0 /\ f.capacity = Chunk /\ f.name = path
      BY <2>5
    <3>2. \A j \in FilesInUse \ {i} :
            /\ mem'[virtual_files[j].data] = mem[virtual_files[j].data]
            /\ f.name # virtual_files[j].name /\ f.data # virtual_files[j].data
      BY <1>3, <2>6, <2>7
    <3>3. \A x \in Buffers : mem'[x] # << >> =>
             \/ f.in_use /\ f.data = x
             \/ mem[x] # << >> /\ (InUse(i) => virtual_files[i].data # x)
      BY <1>1, <2>6
    <3>4. /\ f.data \in Buffers \cup Literals /\ f.capacity > 0
          /\ f.size <= f.capacity /\ Len(mem'[f.data]) = f.capacity
      BY <1>2, <2>2, <2>6, <3>1
    <3> HIDE DEF f, table
    <3> QED BY <1>1, <2>3, <2>6, <3>1, <3>2, <3>3, <3>4, SlotStep DEF VInv
  <2>9. \A j \in FilesInUse : table[j].size = virtual_files[j].size
    BY <1>1, <2>4 DEF FilesInUse
  <2>10. TakeDescriptor(i, table, flags)
    BY <2>1
  <2> HIDE DEF table
  <2>11. DescsInv'
    BY <1>1, <2>4, <2>8, <2>9, <2>10, TakeStep DEF VInv
  <2> QED BY <2>8, <2>11 DEF VInv
<1>5. CASE /\ virtual_files' = [virtual_files EXCEPT ![i].name = path, ![i].data = NULL]
           /\ UNCHANGED <<file_descriptors, mem, overtaken>>
  <2> HIDE DEF i
  <2> DEFINE f == [virtual_files[i] EXCEPT !.name = path, !.data = NULL]
  <2>1. virtual_files' = [virtual_files EXCEPT ![i] = f]
    BY <1>1, <1>2, <1>5
  <2>2. f \in FileType /\ ~f.in_use
    BY <1>1, <1>2 DEF FileType, InUse
  <2>3. mem' = mem
    BY <1>5
  <2> HIDE DEF f
  <2>4. FilesInv' /\ FilesInUse \ {i} \subseteq FilesInUse'
    BY <1>1, <2>1, <2>2, <2>3, SlotStep DEF VInv, FilesInv, Contained
  <2>5. \A j \in FilesInUse : virtual_files'[j] = virtual_files[j]
    BY <1>1, <1>2, <2>1 DEF FilesInUse
  <2>6. ASSUME NEW fd \in Fds, Open(fd)'
        PROVE  /\ file_descriptors'[fd].file \in FilesInUse'
               /\ fd \notin overtaken' => file_descriptors'[fd].position <= FileOf(fd)'.size
    BY <1>1, <1>5, <2>4, <2>5, <2>6 DEF VInv, DescsInv, Open, FileOf
  <2>7. DescsInv'
    BY <1>5, <2>6 DEF VInv, DescsInv
  <2> QED BY <2>4, <2>7 DEF VInv
<1> QED BY <1>4, <1>5 DEF OpenNew

(* A step that leaves files and buffers alone keeps what is said of them. *)
LEMMA FilesStay ==
  ASSUME FilesInv, UNCHANGED <<virtual_files, mem>>
  PROVE  FilesInv' /\ FilesInUse' = FilesInUse
BY DEF FilesInv, Contained, Backed, OneName, BuffersOwned, FilesInUse, InUse

(* close. *)
LEMMA CloseStep == ASSUME VInv, NEW fd \in Fds, Close(fd) PROVE VInv'
<1>1. FilesInv' /\ FilesInUse' = FilesInUse
  BY FilesStay DEF VInv, Close
<1>2. file_descriptors' = [file_descriptors EXCEPT ![fd] = Closed]
      /\ overtaken' = overtaken \ {fd} /\ virtual_files' = virtual_files
  BY DEF Close
<1>3. Closed \in DescType
  <2>1. 0 \in 0 .. MaxSize
    BY VfsAssumption
  <2> QED BY <2>1 DEF Closed, DescType
<1>4. ASSUME NEW g \in Fds, Open(g)'
      PROVE  /\ file_descriptors'[g].file \in FilesInUse'
             /\ g \notin overtaken' => file_descriptors'[g].position <= FileOf(g)'.size
  <2>1. g # fd
    BY <1>2, <1>4 DEF Open, Closed, VInv, DescsInv
  <2>2. file_descriptors'[g] = file_descriptors[g]
    BY <1>2, <2>1 DEF VInv, DescsInv
  <2> QED BY <1>1, <1>2, <1>4, <2>1, <2>2 DEF VInv, DescsInv, Open, FileOf
<1>5. DescsInv'
  BY <1>2, <1>3, <1>4 DEF VInv, DescsInv
<1> QED BY <1>1, <1>5 DEF VInv

(* The facts about an open descriptor and its file that read and write     *)
(* start from.                                                             *)
LEMMA OpenFacts ==
  ASSUME VInv, NEW fd \in Fds, Open(fd)
  PROVE  /\ file_descriptors[fd].file \in FilesInUse
         /\ file_descriptors[fd].file \in Slots
         /\ file_descriptors[fd] \in DescType
         /\ file_descriptors[fd].position \in 0 .. MaxSize
         /\ FileOf(fd) \in FileType /\ FileOf(fd).in_use
         /\ FileOf(fd).size \in 0 .. MaxSize
         /\ FileOf(fd).data \in Buffers \cup Literals
         /\ FileOf(fd).capacity \in 1 .. MaxSize + Chunk
         /\ FileOf(fd).size <= FileOf(fd).capacity
         /\ mem[FileOf(fd).data] \in Seq(Bytes)
         /\ Len(mem[FileOf(fd).data]) = FileOf(fd).capacity
<1> DEFINE i == file_descriptors[fd].file
<1>1. i \in FilesInUse /\ i \in Slots /\ file_descriptors[fd] \in DescType
  BY DEF VInv, DescsInv, FilesInUse
<1>2. file_descriptors[fd].position \in 0 .. MaxSize
  BY <1>1 DEF DescType
<1>3. virtual_files[i] \in FileType /\ virtual_files[i].in_use
  BY <1>1 DEF VInv, FilesInv, FilesInUse, InUse
<1>4. /\ virtual_files[i].size \in 0 .. MaxSize
      /\ virtual_files[i].capacity \in 0 .. MaxSize + Chunk
  BY <1>3 DEF FileType
<1>5. /\ virtual_files[i].data \in Buffers \cup Literals
      /\ virtual_files[i].capacity > 0
      /\ virtual_files[i].size <= virtual_files[i].capacity
      /\ Len(mem[virtual_files[i].data]) = virtual_files[i].capacity
  BY <1>1 DEF VInv, FilesInv, Backed, BuffersOwned
<1>6. mem[virtual_files[i].data] \in Seq(Bytes)
  BY <1>5 DEF VInv, FilesInv, Contained
<1>7. virtual_files[i].capacity \in 1 .. MaxSize + Chunk
  BY <1>4, <1>5, VfsAssumption
<1> QED BY <1>1, <1>2, <1>3, <1>4, <1>5, <1>6, <1>7 DEF FileOf

(* read leaves the descriptor inside its file: where the bytes delivered   *)
(* end, or at the size if the position was above it.                       *)
LEMMA ReadPosition ==
  ASSUME NEW pos \in 0 .. MaxSize, NEW size \in 0 .. MaxSize, NEW count \in Counts,
         NEW to_read, to_read = IF pos + count > size THEN (size - pos) % Word ELSE count
  PROVE  /\ (pos + to_read) % Word \in 0 .. size
         /\ pos > size => (pos + to_read) % Word = size
         /\ pos <= size => /\ to_read \in 0 .. (size - pos)
                           /\ (pos + to_read) % Word = pos + to_read
<1>1. /\ Word \in Nat /\ MaxSize \in Nat /\ MaxSize < Word /\ count \in Nat
      /\ pos \in Nat /\ size \in Nat /\ pos < Word /\ size < Word
  BY VfsAssumption
<1>2. CASE pos + count > size
  <2>1. (pos + to_read) % Word = size
    BY <1>1, <1>2, Wrap
  <2>2. pos <= size => to_read = size - pos
    BY <1>1, <1>2, ModSmall
  <2> QED BY <1>1, <2>1, <2>2
<1>3. CASE ~(pos + count > size)
  <2>1. to_read = count /\ pos + count \in Nat /\ pos + count <= size /\ pos + count < Word
    BY <1>1, <1>3
  <2>2. (pos + to_read) % Word = pos + to_read
    BY <1>1, <2>1, ModSmall
  <2> QED BY <1>1, <2>1, <2>2
<1> QED BY <1>2, <1>3

(* read. *)
LEMMA ReadStep ==
  ASSUME VInv, NEW fd \in Fds, NEW count \in Counts, Read(fd, count)
  PROVE  VInv'
<1> DEFINE pos     == file_descriptors[fd].position
           size    == FileOf(fd).size
           to_read == ToRead(fd, count)
           p       == (pos + to_read) % Word
<1>1. FilesInv' /\ FilesInUse' = FilesInUse
  BY FilesStay DEF VInv, Read
<1>2. /\ Open(fd) /\ file_descriptors' = [file_descriptors EXCEPT ![fd].position = p]
      /\ overtaken' = overtaken \ {fd} /\ virtual_files' = virtual_files
  BY DEF Read
<1>3. p \in 0 .. size /\ size \in 0 .. MaxSize
  BY <1>2, OpenFacts, ReadPosition DEF ToRead
<1> HIDE DEF p
<1>4. p \in 0 .. MaxSize
  BY <1>3, VfsAssumption
<1>5. /\ file_descriptors' \in [Fds -> DescType]
      /\ file_descriptors'[fd].file = file_descriptors[fd].file
      /\ file_descriptors'[fd].position = p
      /\ \A g \in Fds \ {fd} : file_descriptors'[g] = file_descriptors[g]
  BY <1>2, <1>4 DEF VInv, DescsInv, DescType
<1>6. ASSUME NEW g \in Fds, Open(g)'
      PROVE  /\ file_descriptors'[g].file \in FilesInUse'
             /\ g \notin overtaken' => file_descriptors'[g].position <= FileOf(g)'.size
  <2>1. CASE g = fd
    BY <2>1, <1>1, <1>2, <1>3, <1>5, OpenFacts DEF FileOf
  <2>2. CASE g # fd
    BY <2>2, <1>1, <1>2, <1>5, <1>6 DEF VInv, DescsInv, Open, FileOf
  <2> QED BY <2>1, <2>2
<1>7. DescsInv'
  BY <1>2, <1>5, <1>6 DEF VInv, DescsInv
<1> QED BY <1>1, <1>7 DEF VInv

(* A copy that does not fit the caller's buffer comes from a descriptor    *)
(* that is past the end of its file.                                       *)
LEMMA OverrunIsBeyond ==
  ASSUME VInv, NEW fd \in Fds, NEW count \in Counts, ReadOverrun(fd, count)
  PROVE  fd \in overtaken /\ file_descriptors[fd].position > FileOf(fd).size
<1> DEFINE pos     == file_descriptors[fd].position
           size    == FileOf(fd).size
           to_read == ToRead(fd, count)
<1>1. Open(fd) /\ to_read % CopyWord > count
  BY DEF ReadOverrun
<1>2. /\ pos \in 0 .. MaxSize /\ size \in 0 .. MaxSize
      /\ MaxSize \in Nat /\ CopyWord \in Nat \ {0} /\ count \in Nat
  BY <1>1, OpenFacts, VfsAssumption
<1>3. to_read = IF pos + count > size THEN (size - pos) % Word ELSE count
  BY DEF ToRead
<1> HIDE DEF to_read, pos, size
<1>4. ASSUME pos <= size PROVE FALSE
  <2>1. to_read \in 0 .. (size - pos)
    BY <1>2, <1>3, <1>4, ReadPosition
  <2>2. to_read \in Nat /\ to_read <= count
    BY ONLY <1>2, <1>3, <2>1
  <2>3. to_read % CopyWord <= to_read
    BY <1>2, <2>2, ModAtMost
  <2>4. to_read % CopyWord \in Nat
    BY <1>2, <2>2, ModAtMost
  <2> QED BY <1>1, <1>2, <2>2, <2>3, <2>4
<1>5. pos > size
  BY <1>2, <1>4
<1>6. fd \in overtaken
  BY <1>1, <1>2, <1>5 DEF VInv, DescsInv, pos, size
<1> QED BY <1>5, <1>6 DEF pos, size

(* The bytes of write go into a buffer that has room for them and belongs  *)
(* to no other file.                                                       *)
LEMMA PutStep ==
  ASSUME VInv, NEW fd \in Fds, NEW count \in Counts \ {0}, NEW v \in Byte,
         NEW b \in Buffers \cup Literals, NEW capacity \in 0 .. MaxSize + Chunk,
         NEW buffers \in [Buffers \cup Literals -> Seq(Bytes)],
         Open(fd), PutBytes(fd, count, v, b, buffers, capacity),
         file_descriptors[fd].position + count <= MaxSize,
         file_descriptors[fd].position + count <= capacity,
         FileOf(fd).size <= capacity, Len(buffers[b]) = capacity,
         \A j \in FilesInUse \ {file_descriptors[fd].file} :
           virtual_files[j].data # b /\ buffers[virtual_files[j].data] = mem[virtual_files[j].data],
         \A x \in Buffers \ {b} :
           buffers[x] # << >> => mem[x] # << >> /\ x # FileOf(fd).data
  PROVE  VInv'
<1> DEFINE pos == file_descriptors[fd].position
           i   == file_descriptors[fd].file
           end == pos + count
           new == Copied(buffers[b], pos, [k \in 1 .. count |-> v], count)
           f   == [virtual_files[i] EXCEPT !.data = b, !.capacity = capacity,
                     !.size = IF end > virtual_files[i].size THEN end ELSE virtual_files[i].size]
<1>1. /\ i \in FilesInUse /\ i \in Slots /\ pos \in Nat /\ count \in Nat \ {0} /\ MaxSize \in Nat
      /\ virtual_files[i].size \in 0 .. MaxSize /\ virtual_files[i] \in FileType
      /\ virtual_files[i].in_use /\ FileOf(fd) = virtual_files[i] /\ end \in 0 .. MaxSize
      /\ virtual_files \in [Slots -> FileType] /\ Chunk \in Nat
  BY OpenFacts, VfsAssumption, SMTT(20) DEF FileOf, VInv, FilesInv
<1>2. /\ mem' = [buffers EXCEPT ![b] = new]
      /\ virtual_files' = [virtual_files EXCEPT ![i] = f]
      /\ file_descriptors' = [file_descriptors EXCEPT ![fd].position = end]
      /\ overtaken' = overtaken \ {fd}
  BY <1>1 DEF PutBytes
<1>3. new \in Seq(Bytes) /\ Len(new) = capacity
  <2> DEFINE src == [k \in 1 .. count |-> v]
             dst == buffers[b]
  <2>1. \A k \in 1 .. count : src[k] \in Bytes
    BY DEF Bytes
  <2>2. dst \in Seq(Bytes) /\ Len(dst) = capacity
    OBVIOUS
  <2>3. pos \in Nat /\ count \in Nat
    BY <1>1
  <2> HIDE DEF src, dst, pos
  <2>4. /\ Copied(dst, pos, src, count) \in Seq(Bytes)
        /\ Len(Copied(dst, pos, src, count)) = capacity
    BY <2>1, <2>2, <2>3, CopyKeeps
  <2> QED BY <2>4 DEF src, dst, pos
<1>4. /\ f \in FileType /\ f.in_use /\ f.data = b /\ f.capacity = capacity
      /\ f.name = virtual_files[i].name
      /\ f.size = IF end > virtual_files[i].size THEN end ELSE virtual_files[i].size
  BY <1>1 DEF FileType
<1>5. capacity \in Nat /\ f.capacity > 0 /\ f.size <= f.capacity /\ end <= f.size
  <2>1. capacity \in Nat
    BY <1>1
  <2> QED BY <1>1, <1>4, <2>1, SMTT(20)
<1> HIDE DEF new, f
<1>6. /\ Contained' /\ Len(mem'[b]) = capacity
      /\ \A x \in (Buffers \cup Literals) \ {b} : mem'[x] = buffers[x]
  BY <1>2, <1>3 DEF Contained
<1>7. \A j \in FilesInUse \ {i} :
        /\ mem'[virtual_files[j].data] = mem[virtual_files[j].data]
        /\ f.name # virtual_files[j].name /\ f.data # virtual_files[j].data
  <2> TAKE j \in FilesInUse \ {i}
  <2>1. virtual_files[j].data \in (Buffers \cup Literals) \ {b}
    BY DEF VInv, FilesInv, Backed
  <2>2. virtual_files[j].name # virtual_files[i].name
    BY <1>1 DEF VInv, FilesInv, OneName
  <2> QED BY <1>4, <1>6, <2>1, <2>2
<1>8. \A x \in Buffers : mem'[x] # << >> =>
        \/ f.in_use /\ f.data = x
        \/ mem[x] # << >> /\ (InUse(i) => virtual_files[i].data # x)
  BY <1>1, <1>4, <1>6
<1>9. FilesInv' /\ FilesInUse \subseteq FilesInUse'
  <2>1. /\ f.data \in Buffers \cup Literals /\ f.capacity > 0
        /\ f.size <= f.capacity /\ Len(mem'[f.data]) = f.capacity
    BY <1>4, <1>5, <1>6
  <2>2. FilesInv /\ i \in Slots /\ f \in FileType /\ f.in_use
        /\ virtual_files' = [virtual_files EXCEPT ![i] = f] /\ Contained'
    BY <1>1, <1>2, <1>4, <1>6 DEF VInv
  <2> HIDE DEF i
  <2>3. FilesInv' /\ FilesInUse \ {i} \subseteq FilesInUse' /\ i \in FilesInUse'
    BY ONLY <2>1, <2>2, <1>7, <1>8, SlotStep
  <2> QED BY <2>3
<1>10. \A j \in FilesInUse : virtual_files'[j].size >= virtual_files[j].size
  <2> TAKE j \in FilesInUse
  <2>1. j \in Slots /\ virtual_files[j].size \in 0 .. MaxSize
    BY <1>1 DEF FilesInUse, FileType
  <2>2. CASE j = i
    BY <2>2, <1>1, <1>2, <1>4
  <2>3. CASE j # i
    BY <2>1, <2>3, <1>1, <1>2
  <2> QED BY <2>2, <2>3
<1>11. /\ file_descriptors' \in [Fds -> DescType]
       /\ file_descriptors'[fd].file = i
       /\ file_descriptors'[fd].position = end
       /\ \A g \in Fds \ {fd} : file_descriptors'[g] = file_descriptors[g]
  <2>1. file_descriptors \in [Fds -> DescType] /\ file_descriptors[fd].file = i
    BY DEF VInv, DescsInv
  <2>2. PICK d : d = [file_descriptors[fd] EXCEPT !.position = end]
    OBVIOUS
  <2>3. file_descriptors' = [file_descriptors EXCEPT ![fd] = d]
    BY <1>2, <2>2
  <2>4. end \in 0 .. MaxSize
    BY <1>1
  <2> HIDE DEF i, end
  <2>5. d \in DescType /\ d.file = i /\ d.position = end
    BY <2>1, <2>2, <2>4 DEF DescType
  <2> QED BY ONLY <2>1, <2>3, <2>5
<1>12. ASSUME NEW g \in Fds, Open(g)'
       PROVE  /\ file_descriptors'[g].file \in FilesInUse'
              /\ g \notin overtaken' => file_descriptors'[g].position <= FileOf(g)'.size
  <2>1. CASE g = fd
    <3>1. virtual_files'[i] = f
      BY <1>1, <1>2
    <3> QED BY <2>1, <3>1, <1>1, <1>5, <1>9, <1>11 DEF FileOf
  <2>2. CASE g # fd
    <3> DEFINE h == file_descriptors[g].file
    <3>1. file_descriptors'[g] = file_descriptors[g] /\ Open(g)
      BY <2>2, <1>11, <1>12 DEF Open
    <3>2. /\ h \in FilesInUse /\ file_descriptors[g].position \in 0 .. MaxSize
          /\ g \notin overtaken => file_descriptors[g].position <= virtual_files[h].size
      BY <3>1 DEF VInv, DescsInv, FileOf, DescType
    <3>3. virtual_files[h].size \in Nat /\ virtual_files'[h].size >= virtual_files[h].size
          /\ virtual_files'[h].size \in Nat
      <4>1. h \in Slots /\ virtual_files'[h] \in FileType /\ virtual_files[h] \in FileType
        BY <3>2, <1>9 DEF FilesInUse, VInv, FilesInv
      <4> QED BY <4>1, <3>2, <1>10 DEF FileType
    <3>4. g \notin overtaken' => g \notin overtaken
      BY <2>2, <1>2
    <3> QED BY <3>1, <3>2, <3>3, <3>4, <1>9 DEF FileOf
  <2> QED BY <2>1, <2>2
<1>13. DescsInv'
  BY <1>2, <1>11, <1>12 DEF VInv, DescsInv
<1> QED BY <1>9, <1>13 DEF VInv

(* The larger buffer write moves a file to: it starts with the file's      *)
(* bytes as far as memcpy takes its count, the old buffer is free again,   *)
(* the others stay.                                                        *)
LEMMA GrownIs ==
  ASSUME VInv, NEW fd \in Fds, Open(fd), NEW b \in FreeBuffers, NEW needed \in 0 .. MaxSize,
         needed > FileOf(fd).capacity
  PROVE  /\ Grown(FileOf(fd), b, needed) \in [Buffers \cup Literals -> Seq(Bytes)]
         /\ RoundToChunk(needed) \in needed .. MaxSize + Chunk
         /\ Len(Grown(FileOf(fd), b, needed)[b]) = RoundToChunk(needed)
         /\ \A k \in 1 .. FileOf(fd).size % CopyWord :
              Grown(FileOf(fd), b, needed)[b][k] = mem[FileOf(fd).data][k]
         /\ \A x \in (Buffers \cup Literals) \ {b, FileOf(fd).data} :
              Grown(FileOf(fd), b, needed)[x] = mem[x]
         /\ FileOf(fd).data \in Buffers => Grown(FileOf(fd), b, needed)[FileOf(fd).data] = << >>
<1> DEFINE file == FileOf(fd)
           r    == RoundToChunk(needed)
           old  == mem[file.data]
           new  == Copied(Fresh(r), 0, old, file.size)
           g    == Grown(file, b, needed)
<1>1. /\ file.size \in Nat /\ file.data \in Buffers \cup Literals
      /\ file.size < needed /\ old \in Seq(Bytes) /\ file.size <= Len(old)
      /\ needed \in Nat /\ Chunk \in Nat \ {0} /\ MaxSize \in Nat
  BY OpenFacts, VfsAssumption, SMTT(20)
<1>2. r \in needed .. MaxSize + Chunk /\ r \in Nat
  <2>1. r \in needed .. needed + Chunk - 1
    BY <1>1, Rounding
  <2>2. needed <= MaxSize
    OBVIOUS
  <2>3. needed \in Nat /\ Chunk \in Nat /\ MaxSize \in Nat
    BY <1>1
  <2> HIDE DEF r
  <2> QED BY ONLY <2>1, <2>2, <2>3
<1>3. \A k \in 1 .. file.size : old[k] \in Bytes
  BY <1>1, LenProperties
<1> HIDE DEF r
<1>4. Fresh(r) \in Seq(Bytes) /\ Len(Fresh(r)) = r
  BY <1>2, FreshIs
<1>5. /\ new \in Seq(Bytes) /\ Len(new) = r
      /\ \A k \in 1 .. r : new[k] = IF k > 0 /\ k <= 0 + (file.size % CopyWord)
                                    THEN old[k - 0] ELSE Fresh(r)[k]
  <2>1. 0 \in Nat
    OBVIOUS
  <2> HIDE DEF old, file
  <2> QED BY <1>1, <1>3, <1>4, <2>1, CopyKeeps
<1>6. \A k \in 1 .. file.size % CopyWord : new[k] = old[k]
  <2>1. file.size % CopyWord \in Nat /\ file.size % CopyWord <= file.size
    BY <1>1, ModAtMost, VfsAssumption
  <2> TAKE k \in 1 .. file.size % CopyWord
  <2>2. k \in 1 .. r /\ k > 0 /\ k <= 0 + (file.size % CopyWord) /\ k - 0 = k
    BY <1>1, <1>2, <2>1
  <2> HIDE DEF new, old, file
  <2> QED BY <1>5, <2>2
<1>7. b \in Buffers /\ b # file.data
  BY OpenFacts, FreeIsNobodys DEF VInv, FreeBuffers, FileOf
<1>8. mem \in [Buffers \cup Literals -> Seq(Bytes)] /\ << >> \in Seq(Bytes)
  BY DEF VInv, FilesInv, Contained
<1>9. g = IF file.data \in Buffers
          THEN [[mem EXCEPT ![b] = new] EXCEPT ![file.data] = << >>]
          ELSE [mem EXCEPT ![b] = new]
  BY DEF Grown, r
<1> HIDE DEF new, g
<1>10. /\ g \in [Buffers \cup Literals -> Seq(Bytes)] /\ g[b] = new
       /\ \A x \in (Buffers \cup Literals) \ {b, file.data} : g[x] = mem[x]
       /\ file.data \in Buffers => g[file.data] = << >>
  BY <1>5, <1>7, <1>8, <1>9
<1>11. Len(g[b]) = r /\ \A k \in 1 .. file.size % CopyWord : g[b][k] = old[k]
  BY <1>5, <1>6, <1>10
<1> QED BY <1>2, <1>10, <1>11 DEF g, r

(* write. *)
LEMMA WriteStep ==
  ASSUME VInv, NEW fd \in Fds, NEW count \in Counts, NEW v \in Byte, Write(fd, count, v)
  PROVE  VInv'
<1> DEFINE file   == FileOf(fd)
           needed == file_descriptors[fd].position + count
<1>1. Open(fd) /\ count \in Counts \ {0} /\ needed \in 0 .. MaxSize
  <2>1. Open(fd) /\ count > 0 /\ needed <= MaxSize /\ count \in Nat
    BY VfsAssumption DEF Write
  <2> QED BY <2>1, OpenFacts
<1>2. /\ file_descriptors[fd].file \in FilesInUse
      /\ file.size <= file.capacity /\ file.capacity \in 1 .. MaxSize + Chunk
      /\ file.size \in Nat /\ file.data \in Buffers \cup Literals
      /\ Len(mem[file.data]) = file.capacity
      /\ MaxSize \in Nat /\ Chunk \in Nat
  BY <1>1, OpenFacts, VfsAssumption
<1>3. CASE needed > file.capacity
  <2>1. PICK b \in FreeBuffers :
          PutBytes(fd, count, v, b, Grown(file, b, needed), RoundToChunk(needed))
    BY <1>3 DEF Write
  <2> DEFINE g == Grown(file, b, needed)
             r == RoundToChunk(needed)
  <2>2. /\ g \in [Buffers \cup Literals -> Seq(Bytes)]
        /\ r \in needed .. MaxSize + Chunk
        /\ Len(g[b]) = r
        /\ \A x \in (Buffers \cup Literals) \ {b, file.data} : g[x] = mem[x]
        /\ file.data \in Buffers => g[file.data] = << >>
    BY <1>1, <1>3, GrownIs, ZenonT(30)
  <2>3. r \in 0 .. MaxSize + Chunk /\ needed <= r /\ file.size <= r
    BY <1>1, <1>2, <1>3, <2>2
  <2>4. b \in Buffers /\ b \in Buffers \cup Literals /\ \A j \in FilesInUse : virtual_files[j].data # b
    BY FreeIsNobodys DEF VInv, FreeBuffers
  <2> HIDE DEF g, r
  <2>5. ASSUME NEW j \in FilesInUse \ {file_descriptors[fd].file}
        PROVE  virtual_files[j].data # b /\ g[virtual_files[j].data] = mem[virtual_files[j].data]
    <3>1. virtual_files[j].data \in Buffers \cup Literals /\ virtual_files[j].data # b
      BY <2>4 DEF VInv, FilesInv, Backed
    <3>2. virtual_files[j].data # file.data
      BY <1>2 DEF VInv, FilesInv, BuffersOwned, FileOf
    <3> QED BY <2>2, <3>1, <3>2
  <2>6. \A x \in Buffers \ {b} : g[x] # << >> => mem[x] # << >> /\ x # file.data
    BY <2>2
  <2>7. PutBytes(fd, count, v, b, g, r)
    BY <2>1 DEF g, r
  <2>8. count \in Counts \ {0} /\ Open(fd) /\ needed <= MaxSize /\ needed <= r
    BY <1>1, <1>2, <2>3
  <2>9. \A j \in FilesInUse \ {file_descriptors[fd].file} :
          virtual_files[j].data # b /\ g[virtual_files[j].data] = mem[virtual_files[j].data]
    BY <2>5
  <2> QED
    BY ONLY VInv, fd \in Fds, v \in Byte, <2>2, <2>3, <2>4, <2>6, <2>7, <2>8, <2>9, PutStep
<1>4. CASE ~(needed > file.capacity)
  <2>1. PutBytes(fd, count, v, file.data, mem, file.capacity)
    BY <1>4 DEF Write
  <2>2. mem \in [Buffers \cup Literals -> Seq(Bytes)] /\ needed <= file.capacity
        /\ file.capacity \in 0 .. MaxSize + Chunk
    BY <1>1, <1>2, <1>4 DEF VInv, FilesInv, Contained
  <2>3. ASSUME NEW j \in FilesInUse \ {file_descriptors[fd].file}
        PROVE  virtual_files[j].data # file.data
    BY <1>2 DEF VInv, FilesInv, BuffersOwned, FileOf
  <2>4. \A j \in FilesInUse \ {file_descriptors[fd].file} :
          virtual_files[j].data # file.data /\ mem[virtual_files[j].data] = mem[virtual_files[j].data]
    BY <2>3
  <2>5. count \in Counts \ {0} /\ Open(fd) /\ needed <= MaxSize
    BY <1>1, <1>2
  <2>6. \A x \in Buffers \ {file.data} : mem[x] # << >> => mem[x] # << >> /\ x # file.data
    OBVIOUS
  <2> QED
    BY ONLY VInv, fd \in Fds, v \in Byte, <1>2, <2>1, <2>2, <2>4, <2>5, <2>6, PutStep
<1> QED BY <1>3, <1>4

(* vfs_init. *)
LEMMA VInvInit == Init => VInv
<1> SUFFICES ASSUME Init PROVE VInv
  OBVIOUS
<1>1. /\ Defaults \in Seq(Names) /\ DOMAIN Defaults = 1 .. Len(Defaults) /\ Len(Defaults) \in Nat
      /\ FileSlots \in Nat /\ Len(Defaults) <= FileSlots
      /\ MaxSize \in Nat \ {0} /\ Chunk \in Nat \ {0}
      /\ 0 \in 0 .. MaxSize /\ 1 \in 0 .. MaxSize /\ 0 \in 0 .. MaxSize + Chunk
      /\ 1 \in 0 .. MaxSize + Chunk
  BY VfsAssumption, LenProperties
<1>2. \A i \in DOMAIN Defaults : Defaults[i] \in Names /\ i \in Slots /\ <<"literal", i>> \in Literals
  BY <1>1 DEF Slots, Literals
<1>3. /\ \A i \in DOMAIN Defaults :
           virtual_files[i] = [name |-> Defaults[i], data |-> <<"literal", i>>,
                               size |-> 1, capacity |-> 1, in_use |-> TRUE]
      /\ \A i \in Slots \ DOMAIN Defaults : virtual_files[i] = NoFile
  BY <1>2 DEF Init
<1>4. FilesInUse = DOMAIN Defaults
  <2>1. ASSUME NEW i \in DOMAIN Defaults PROVE InUse(i)
    <3>1. virtual_files[i] = [name |-> Defaults[i], data |-> <<"literal", i>>,
                              size |-> 1, capacity |-> 1, in_use |-> TRUE]
      BY <1>3
    <3> QED BY <3>1 DEF InUse
  <2>2. \A i \in Slots \ DOMAIN Defaults : ~InUse(i)
    BY <1>3 DEF InUse, NoFile
  <2>3. DOMAIN Defaults \subseteq Slots
    BY <1>2
  <2> QED BY <2>1, <2>2, <2>3 DEF FilesInUse
<1>5. virtual_files \in [Slots -> FileType]
  <2>1. NoFile \in FileType
    BY <1>1 DEF NoFile, FileType
  <2>2. \A i \in DOMAIN Defaults :
          [name |-> Defaults[i], data |-> <<"literal", i>>,
           size |-> 1, capacity |-> 1, in_use |-> TRUE] \in FileType
    BY <1>1, <1>2 DEF FileType
  <2> QED BY <2>1, <2>2 DEF Init, NoFile
<1>6. /\ mem \in [Buffers \cup Literals -> Seq(Bytes)]
      /\ \A l \in Literals : mem[l] = <<Text>>
      /\ \A b \in Buffers : mem[b] = << >>
  <2>1. << >> \in Seq(Bytes) /\ <<Text>> \in Seq(Bytes)
    BY DEF Bytes
  <2> QED BY <2>1, LiteralAssumption DEF Init
<1>a. \A i \in FilesInUse :
        /\ virtual_files[i].data = <<"literal", i>> /\ <<"literal", i>> \in Literals
        /\ virtual_files[i].name = Defaults[i]
        /\ virtual_files[i].size = 1 /\ virtual_files[i].capacity = 1
        /\ virtual_files[i].size <= virtual_files[i].capacity
        /\ virtual_files[i].capacity > 0
  <2> TAKE i \in FilesInUse
  <2>1. i \in DOMAIN Defaults
    BY <1>4
  <2>2. virtual_files[i] = [name |-> Defaults[i], data |-> <<"literal", i>>,
                            size |-> 1, capacity |-> 1, in_use |-> TRUE]
    BY <1>3, <2>1
  <2> QED BY <1>2, <2>1, <2>2
<1>7. Backed /\ OneName
  <2>1. Backed
    BY <1>a DEF Backed
  <2>2. ASSUME NEW i \in FilesInUse, NEW j \in FilesInUse,
               virtual_files[i].name = virtual_files[j].name
        PROVE  i = j
    <3>1. Defaults[i] = Defaults[j] /\ i \in DOMAIN Defaults /\ j \in DOMAIN Defaults
      BY <1>a, <1>4, <2>2
    <3> QED BY <3>1, VfsAssumption
  <2> QED BY <2>1, <2>2 DEF OneName
<1>8. BuffersOwned
  <2>1. Len(<<Text>>) = 1
    OBVIOUS
  <2>2. ASSUME NEW i \in FilesInUse, NEW j \in FilesInUse,
               virtual_files[i].data = virtual_files[j].data
        PROVE  i = j
    <3>1. <<"literal", i>> = <<"literal", j>>
      BY <1>a, <2>2
    <3> QED BY <3>1
  <2>3. ASSUME NEW i \in FilesInUse
        PROVE  /\ virtual_files[i].size <= virtual_files[i].capacity
               /\ Len(mem[virtual_files[i].data]) = virtual_files[i].capacity
    <3>1. mem[virtual_files[i].data] = <<Text>> /\ virtual_files[i].capacity = 1
      BY <1>a, <1>6
    <3>2. Len(mem[virtual_files[i].data]) = virtual_files[i].capacity
      BY <2>1, <3>1
    <3> QED BY <1>a, <3>2
  <2> QED BY <1>6, <2>2, <2>3 DEF BuffersOwned
<1>9. DescsInv
  <2>1. Closed \in DescType
    BY <1>1 DEF Closed, DescType
  <2> QED BY <2>1 DEF Init, DescsInv, Open, Closed
<1> QED BY <1>5, <1>6, <1>7, <1>8, <1>9 DEF VInv, FilesInv, Contained

(* Every call, and every call refused, keeps the invariant. *)
LEMMA VInvStep == VInv /\ [Next]_vars => VInv'
<1> SUFFICES ASSUME VInv, [Next]_vars PROVE VInv'
  OBVIOUS
<1>1. ASSUME UNCHANGED <<virtual_files, file_descriptors, mem, overtaken>> PROVE VInv'
  <2>1. FilesInv' /\ FilesInUse' = FilesInUse
    BY <1>1, FilesStay DEF VInv
  <2> QED BY <1>1, <2>1 DEF VInv, DescsInv, Open, FileOf
<1>2. CASE Refused
  BY <1>1, <1>2 DEF Refused
<1>3. ASSUME NEW path \in Names, NEW flags \in Flags,
             OpenExisting(path, flags) \/ OpenNew(path, flags)
      PROVE  VInv'
  BY <1>3, OpenExistingStep, OpenNewStep
<1>4. ASSUME NEW fd \in Fds, Close(fd) PROVE VInv'
  BY <1>4, CloseStep
<1>5. ASSUME NEW fd \in Fds, NEW count \in Counts, Read(fd, count) PROVE VInv'
  BY <1>5, ReadStep
<1>6. ASSUME NEW fd \in Fds, NEW count \in Counts, NEW v \in Byte, Write(fd, count, v)
      PROVE  VInv'
  BY <1>6, WriteStep
<1>7. ASSUME NEW fd \in Fds, NEW count \in Counts, ReadOverrun(fd, count) PROVE VInv'
  BY <1>1, <1>7 DEF ReadOverrun
<1>8. CASE UNCHANGED vars
  BY <1>1, <1>8 DEF vars
<1> QED BY <1>2, <1>3, <1>4, <1>5, <1>6, <1>7, <1>8 DEF Next, Call

(* The file system calls keep their tables and buffers in order. *)
THEOREM VfsInvariant == Spec => []VInv
BY VInvInit, VInvStep, PTL DEF Spec

(* The model has ended only where a descriptor that another open has       *)
(* overtaken is past the end of its file.                                  *)
EndsBeyond ==
  /\ wild \in BOOLEAN
  /\ wild => \E fd \in overtaken :
               Open(fd) /\ file_descriptors[fd].position > FileOf(fd).size

LEMMA EndsBeyondStep == VInv /\ EndsBeyond /\ [Next]_vars => EndsBeyond'
<1> SUFFICES ASSUME VInv, EndsBeyond, [Next]_vars PROVE EndsBeyond'
  OBVIOUS
<1>1. ASSUME NEW fd \in Fds, NEW count \in Counts, ReadOverrun(fd, count) PROVE EndsBeyond'
  <2>1. /\ fd \in overtaken /\ Open(fd)
        /\ file_descriptors[fd].position > FileOf(fd).size
    BY <1>1, OverrunIsBeyond DEF ReadOverrun
  <2>2. wild' = TRUE /\ UNCHANGED <<virtual_files, file_descriptors, overtaken>>
    BY <1>1 DEF ReadOverrun
  <2> QED BY <2>1, <2>2 DEF EndsBeyond, Open, FileOf
<1>2. ASSUME ~wild, UNCHANGED wild PROVE EndsBeyond'
  BY <1>2 DEF EndsBeyond
<1>3. CASE UNCHANGED vars
  BY <1>3 DEF vars, EndsBeyond, Open, FileOf
<1> QED BY <1>1, <1>2, <1>3 DEF Next

(* An open descriptor is always on a file that exists, and past that       *)
(* file's end only if another open has emptied the file; a read copies     *)
(* more than its caller has room for only through such a descriptor.       *)
THEOREM DescriptorsAreValid == Spec => []DescriptorsValid
<1>1. VInv /\ EndsBeyond => DescriptorsValid
  <2> SUFFICES ASSUME VInv, EndsBeyond PROVE DescriptorsValid
    OBVIOUS
  <2>1. TypeOK
    BY DEF VInv, FilesInv, DescsInv, Contained, FileType, DescType, EndsBeyond, TypeOK
  <2> QED BY <2>1 DEF VInv, DescsInv, EndsBeyond, DescriptorsValid
<1>2. Init => EndsBeyond
  BY DEF Init, EndsBeyond
<1>3. Spec => []EndsBeyond
  BY <1>2, EndsBeyondStep, VfsInvariant, PTL DEF Spec
<1> QED BY <1>1, <1>3, VfsInvariant, PTL

(* Each heap buffer belongs to exactly one file, which knows its length:   *)
(* none is lost, shared or used after it was freed.                        *)
THEOREM BuffersAreOwned == Spec => []BuffersOwned
<1>1. VInv => BuffersOwned
  BY DEF VInv, FilesInv
<1> QED BY <1>1, VfsInvariant, PTL

--------------------------------------------------------------------------------
(* What the abstract store sees of files in use and of open descriptors.   *)
StoreFacts ==
  /\ StoreContent = [n \in DOMAIN StoreContent |-> StoreContent[n]]
  /\ \A n \in DOMAIN StoreContent : \E i \in FilesInUse : virtual_files[i].name = n
  /\ \A i \in FilesInUse :
       /\ virtual_files[i].name \in DOMAIN StoreContent
       /\ StoreContent[virtual_files[i].name] = Contents(i)
       /\ Contents(i) \in Seq(Bytes)
       /\ Len(Contents(i)) = virtual_files[i].size
       /\ \A k \in 1 .. virtual_files[i].size :
            Contents(i)[k] = mem[virtual_files[i].data][k]
  /\ DOMAIN StoreDesc = {fd \in Fds : Open(fd)}
  /\ StoreDesc = [fd \in DOMAIN StoreDesc |-> StoreDesc[fd]]
  /\ \A fd \in Fds : Open(fd) =>
       StoreDesc[fd] = [name |-> FileOf(fd).name, pos |-> file_descriptors[fd].position]

(* A file's contents are the first bytes of its buffer. *)
LEMMA Beginning ==
  ASSUME NEW s \in Seq(Bytes), NEW n \in 0 .. Len(s)
  PROVE  /\ SubSeq(s, 1, n) \in Seq(Bytes)
         /\ Len(SubSeq(s, 1, n)) = n
         /\ \A k \in 1 .. n : SubSeq(s, 1, n)[k] = s[k]
<1>1. Len(s) \in Nat /\ \A k \in 1 .. Len(s) : s[k] \in Bytes
  BY LenProperties
<1>2. n \in Int /\ 1 \in Int /\ n \in Nat /\ \A k \in 1 .. n : s[k] \in Bytes
  BY <1>1
<1>3. /\ SubSeq(s, 1, n) \in Seq(Bytes)
      /\ Len(SubSeq(s, 1, n)) = IF 1 <= n THEN n - 1 + 1 ELSE 0
      /\ \A k \in 1 .. n - 1 + 1 : SubSeq(s, 1, n)[k] = s[1 + k - 1]
  BY <1>2, SubSeqProperties
<1> QED
  BY <1>2, <1>3

(* Names find their slots, since no two files have the same. *)
LEMMA VInvStoreFacts == VInv => StoreFacts
<1> SUFFICES ASSUME VInv PROVE StoreFacts
  OBVIOUS
<1>1. \A i \in FilesInUse : SlotOf(virtual_files[i].name) = i
  BY DEF SlotOf, VInv, FilesInv, OneName
<1>2. DOMAIN StoreContent = {virtual_files[i].name : i \in FilesInUse}
  BY DEF StoreContent
<1>3. \A n \in DOMAIN StoreContent : StoreContent[n] = Contents(SlotOf(n))
  BY DEF StoreContent
<1>4. StoreContent = [n \in DOMAIN StoreContent |-> StoreContent[n]]
  BY DEF StoreContent
<1>5. ASSUME NEW i \in FilesInUse
      PROVE  /\ virtual_files[i].name \in DOMAIN StoreContent
             /\ StoreContent[virtual_files[i].name] = Contents(i)
             /\ Contents(i) \in Seq(Bytes)
             /\ Len(Contents(i)) = virtual_files[i].size
             /\ \A k \in 1 .. virtual_files[i].size :
                  Contents(i)[k] = mem[virtual_files[i].data][k]
  <2>1. /\ mem[virtual_files[i].data] \in Seq(Bytes)
        /\ virtual_files[i].size \in 0 .. Len(mem[virtual_files[i].data])
    <3>1. i \in Slots /\ virtual_files[i] \in FileType
      BY DEF FilesInUse, VInv, FilesInv
    <3>2. virtual_files[i].size \in 0 .. MaxSize /\ virtual_files[i].capacity \in 0 .. MaxSize + Chunk
      BY <3>1 DEF FileType
    <3>3. /\ virtual_files[i].size <= virtual_files[i].capacity
          /\ Len(mem[virtual_files[i].data]) = virtual_files[i].capacity
          /\ virtual_files[i].data \in Buffers \cup Literals
      BY DEF VInv, FilesInv, BuffersOwned, Backed
    <3>4. mem[virtual_files[i].data] \in Seq(Bytes)
      BY <3>3 DEF VInv, FilesInv, Contained
    <3> QED BY <3>2, <3>3, <3>4, VfsAssumption
  <2> QED BY <1>1, <1>2, <1>3, <2>1, Beginning DEF Contents
<1>6. /\ DOMAIN StoreDesc = {fd \in Fds : Open(fd)}
      /\ StoreDesc = [fd \in DOMAIN StoreDesc |-> StoreDesc[fd]]
      /\ \A fd \in Fds : Open(fd) =>
           StoreDesc[fd] = [name |-> FileOf(fd).name, pos |-> file_descriptors[fd].position]
  BY DEF StoreDesc
<1> QED BY <1>2, <1>4, <1>5, <1>6 DEF StoreFacts

(* The same in the next state. *)
LEMMA NextStoreFacts == VInv' => StoreFacts'
BY VInvStoreFacts, PTL

(* A step that gives one file new contents, or creates one, changes the    *)
(* abstract contents at its name.                                          *)
LEMMA ContentChange ==
  ASSUME StoreFacts, StoreFacts', NEW i \in FilesInUse', FilesInUse' = FilesInUse \cup {i},
         \A j \in FilesInUse : virtual_files'[j].name = virtual_files[j].name,
         \A j \in FilesInUse \ {i} : Contents(j)' = Contents(j),
         NEW n, n = virtual_files'[i].name
  PROVE  StoreContent' = [m \in DOMAIN StoreContent \cup {n} |->
                            IF m = n THEN Contents(i)' ELSE StoreContent[m]]
<1>1. DOMAIN StoreContent' = DOMAIN StoreContent \cup {n}
  <2>1. ASSUME NEW m \in DOMAIN StoreContent' PROVE m \in DOMAIN StoreContent \cup {n}
    <3>1. PICK j \in FilesInUse' : virtual_files'[j].name = m
      BY DEF StoreFacts
    <3> QED BY <3>1 DEF StoreFacts
  <2>2. ASSUME NEW m \in DOMAIN StoreContent PROVE m \in DOMAIN StoreContent'
    <3>1. PICK j \in FilesInUse : virtual_files[j].name = m
      BY DEF StoreFacts
    <3>2. j \in FilesInUse' /\ virtual_files'[j].name = m
      BY <3>1
    <3> QED BY <3>2 DEF StoreFacts
  <2>3. n \in DOMAIN StoreContent'
    BY DEF StoreFacts
  <2> QED BY <2>1, <2>2, <2>3
<1>2. ASSUME NEW m \in DOMAIN StoreContent'
      PROVE  StoreContent'[m] = IF m = n THEN Contents(i)' ELSE StoreContent[m]
  <2>1. CASE m = n
    BY <2>1 DEF StoreFacts
  <2>2. CASE m # n
    <3>1. PICK j \in FilesInUse' : virtual_files'[j].name = m
      BY DEF StoreFacts
    <3>2. j \in FilesInUse \ {i}
      BY <2>2, <3>1
    <3>3. StoreContent'[m] = Contents(j)' /\ StoreContent[m] = Contents(j)
      BY <3>1, <3>2 DEF StoreFacts
    <3> QED BY <2>2, <3>2, <3>3
  <2> QED BY <2>1, <2>2
<1>3. StoreContent' = [m \in DOMAIN StoreContent' |-> StoreContent'[m]]
  BY DEF StoreFacts
<1> QED BY <1>1, <1>2, <1>3

(* A step that changes no name and no contents. *)
LEMMA ContentStays ==
  ASSUME StoreFacts, StoreFacts', FilesInUse' = FilesInUse,
         \A j \in FilesInUse : /\ virtual_files'[j].name = virtual_files[j].name
                               /\ Contents(j)' = Contents(j)
  PROVE  StoreContent' = StoreContent
<1>1. DOMAIN StoreContent' = DOMAIN StoreContent
  <2>1. ASSUME NEW m \in DOMAIN StoreContent' PROVE m \in DOMAIN StoreContent
    <3>1. PICK j \in FilesInUse' : virtual_files'[j].name = m
      BY DEF StoreFacts
    <3> QED BY <3>1 DEF StoreFacts
  <2>2. ASSUME NEW m \in DOMAIN StoreContent PROVE m \in DOMAIN StoreContent'
    <3>1. PICK j \in FilesInUse : virtual_files[j].name = m
      BY DEF StoreFacts
    <3> QED BY <3>1 DEF StoreFacts
  <2> QED BY <2>1, <2>2
<1>2. ASSUME NEW m \in DOMAIN StoreContent' PROVE StoreContent'[m] = StoreContent[m]
  <2>1. PICK j \in FilesInUse' : virtual_files'[j].name = m
    BY DEF StoreFacts
  <2>2. StoreContent'[m] = Contents(j)' /\ StoreContent[m] = Contents(j)
    BY <2>1 DEF StoreFacts
  <2> QED BY <2>1, <2>2
<1>3. /\ StoreContent' = [m \in DOMAIN StoreContent' |-> StoreContent'[m]]
      /\ StoreContent = [m \in DOMAIN StoreContent |-> StoreContent[m]]
  BY DEF StoreFacts
<1> QED BY <1>1, <1>2, <1>3

(* A step that gives one descriptor a new record. *)
LEMMA DescChange ==
  ASSUME VInv, StoreFacts, StoreFacts', NEW fd \in Fds, NEW d \in DescType, d.in_use,
         file_descriptors' = [file_descriptors EXCEPT ![fd] = d],
         \A j \in FilesInUse : virtual_files'[j].name = virtual_files[j].name
  PROVE  StoreDesc' = [f \in DOMAIN StoreDesc \cup {fd} |->
                         IF f # fd THEN StoreDesc[f]
                         ELSE [name |-> virtual_files'[d.file].name, pos |-> d.position]]
<1>1. /\ file_descriptors'[fd] = d
      /\ \A f \in Fds \ {fd} : file_descriptors'[f] = file_descriptors[f]
  BY DEF VInv, DescsInv
<1>2. DOMAIN StoreDesc' = DOMAIN StoreDesc \cup {fd}
  BY <1>1 DEF StoreFacts, Open
<1>3. ASSUME NEW f \in DOMAIN StoreDesc'
      PROVE  StoreDesc'[f] = IF f # fd THEN StoreDesc[f]
                             ELSE [name |-> virtual_files'[d.file].name, pos |-> d.position]
  <2>1. f \in Fds /\ Open(f)'
    BY DEF StoreFacts
  <2>2. StoreDesc'[f] = [name |-> FileOf(f)'.name, pos |-> file_descriptors'[f].position]
    BY <2>1 DEF StoreFacts
  <2>3. CASE f = fd
    BY <2>2, <2>3, <1>1 DEF FileOf
  <2>4. CASE f # fd
    <3>1. Open(f) /\ file_descriptors'[f] = file_descriptors[f]
      BY <2>1, <2>4, <1>1 DEF Open
    <3>2. FileOf(f)'.name = FileOf(f).name
      BY <2>1, <3>1 DEF VInv, DescsInv, FileOf
    <3>3. StoreDesc[f] = [name |-> FileOf(f).name, pos |-> file_descriptors[f].position]
      BY <2>1, <3>1 DEF StoreFacts
    <3> QED BY <2>2, <2>4, <3>1, <3>2, <3>3
  <2> QED BY <2>3, <2>4
<1>4. StoreDesc' = [f \in DOMAIN StoreDesc' |-> StoreDesc'[f]]
  BY DEF StoreFacts
<1> QED BY <1>2, <1>3, <1>4

(* A step that changes no descriptor. *)
LEMMA DescStays ==
  ASSUME VInv, StoreFacts, StoreFacts', file_descriptors' = file_descriptors,
         \A j \in FilesInUse : virtual_files'[j].name = virtual_files[j].name
  PROVE  StoreDesc' = StoreDesc
<1>1. DOMAIN StoreDesc' = DOMAIN StoreDesc
  BY DEF StoreFacts, Open
<1>2. ASSUME NEW f \in DOMAIN StoreDesc PROVE StoreDesc'[f] = StoreDesc[f]
  <2>1. f \in Fds /\ Open(f) /\ Open(f)'
    BY DEF StoreFacts, Open
  <2>2. /\ StoreDesc'[f] = [name |-> FileOf(f)'.name, pos |-> file_descriptors'[f].position]
        /\ StoreDesc[f] = [name |-> FileOf(f).name, pos |-> file_descriptors[f].position]
    BY <2>1 DEF StoreFacts
  <2>3. FileOf(f)'.name = FileOf(f).name
    BY <2>1 DEF VInv, DescsInv, FileOf
  <2> QED BY <2>2, <2>3
<1>3. /\ StoreDesc' = [f \in DOMAIN StoreDesc' |-> StoreDesc'[f]]
      /\ StoreDesc = [f \in DOMAIN StoreDesc |-> StoreDesc[f]]
  BY DEF StoreFacts
<1> QED BY <1>1, <1>2, <1>3

(* The same descriptor at another position of its file. *)
LEMMA DescMoves ==
  ASSUME VInv, StoreFacts, StoreFacts', NEW fd \in Fds, Open(fd), NEW p \in 0 .. MaxSize,
         file_descriptors' = [file_descriptors EXCEPT ![fd].position = p],
         \A j \in FilesInUse : virtual_files'[j].name = virtual_files[j].name
  PROVE  StoreDesc' = Store!At(fd, p)
<1> DEFINE d == [file_descriptors[fd] EXCEPT !.position = p]
<1>1. /\ d \in DescType /\ d.in_use /\ d.file = file_descriptors[fd].file /\ d.position = p
      /\ file_descriptors' = [file_descriptors EXCEPT ![fd] = d]
  BY DEF VInv, DescsInv, DescType, Open
<1> HIDE DEF d
<1>2. StoreDesc' = [f \in DOMAIN StoreDesc \cup {fd} |->
                      IF f # fd THEN StoreDesc[f]
                      ELSE [name |-> virtual_files'[d.file].name, pos |-> d.position]]
  BY <1>1, DescChange
<1>3. fd \in DOMAIN StoreDesc
      /\ StoreDesc[fd] = [name |-> FileOf(fd).name, pos |-> file_descriptors[fd].position]
  BY DEF StoreFacts
<1>4. virtual_files'[d.file].name = FileOf(fd).name
  BY <1>1, OpenFacts DEF FileOf
<1>5. [StoreDesc[fd] EXCEPT !.pos = p] = [name |-> FileOf(fd).name, pos |-> p]
  BY <1>3
<1>6. StoreDesc = [f \in DOMAIN StoreDesc |-> StoreDesc[f]]
  BY DEF StoreFacts
<1>7. [StoreDesc EXCEPT ![fd].pos = p]
        = [f \in DOMAIN StoreDesc |-> IF f # fd THEN StoreDesc[f]
                                      ELSE [StoreDesc[fd] EXCEPT !.pos = p]]
  BY <1>3, <1>6
<1>8. StoreDesc' = [f \in DOMAIN StoreDesc |-> IF f # fd THEN StoreDesc[f]
                                               ELSE [name |-> FileOf(fd).name, pos |-> p]]
  BY <1>1, <1>2, <1>3, <1>4
<1> QED BY <1>5, <1>7, <1>8 DEF Store!At

(* Each call is a step of the abstract store.  A call that leaves files    *)
(* and descriptors alone is one it refuses.                                *)
LEMMA StayIsRefuse ==
  ASSUME VInv, VInv', got' = << >>, file_descriptors' = file_descriptors,
         FilesInUse' = FilesInUse,
         \A j \in FilesInUse : /\ virtual_files'[j].name = virtual_files[j].name
                               /\ Contents(j)' = Contents(j)
  PROVE  Store!Call
<1>1. StoreFacts /\ StoreFacts'
  BY VInvStoreFacts, NextStoreFacts
<1>2. StoreContent' = StoreContent
  BY <1>1, ContentStays
<1>3. StoreDesc' = StoreDesc
  BY <1>1, DescStays
<1> QED BY <1>2, <1>3 DEF Store!Call, Store!Refuse

(* A call that finds a descriptor opens the abstract file, fresh if the    *)
(* call has created or truncated it.                                       *)
LEMMA TakeIsOpen ==
  ASSUME VInv, VInv', NEW table \in [Slots -> FileType], NEW i \in Slots, NEW flags,
         FreeFds # {}, TakeDescriptor(i, table, flags), got' = << >>,
         FilesInUse' = FilesInUse \cup {i}, NEW n \in Names, virtual_files'[i].name = n,
         \A j \in FilesInUse : virtual_files'[j].name = virtual_files[j].name,
         \A j \in FilesInUse \ {i} : Contents(j)' = Contents(j),
         NEW fresh \in BOOLEAN, "truncate" \in flags => fresh,
         i \notin FilesInUse => fresh,
         fresh => virtual_files'[i].size = 0,
         fresh /\ "truncate" \notin flags => table[i].size = 0,
         ~fresh => Contents(i)' = Contents(i) /\ table[i].size = virtual_files[i].size
  PROVE  Store!Call
<1> DEFINE new   == LowestOf(FreeFds)
           start == IF "append" \in flags /\ "truncate" \notin flags THEN table[i].size ELSE 0
           d     == [file |-> i, position |-> start,
                     write |-> "write" \in flags, in_use |-> TRUE]
           append == "append" \in flags
<1>1. StoreFacts /\ StoreFacts' /\ i \in FilesInUse'
  BY VInvStoreFacts, NextStoreFacts
<1>2. new \in Fds /\ ~Open(new)
  BY Lowest, VfsAssumption DEF FreeFds
<1>3. file_descriptors' = [file_descriptors EXCEPT ![new] = d]
  BY DEF TakeDescriptor
<1> HIDE DEF new
<1>4. d \in DescType
  <2>1. file_descriptors'[new] \in DescType /\ file_descriptors'[new] = d
    BY <1>2, <1>3 DEF VInv, DescsInv
  <2> QED BY <2>1
<1>5. StoreContent' = [m \in DOMAIN StoreContent \cup {n} |->
                         IF m = n THEN Contents(i)' ELSE StoreContent[m]]
  <2>1. i \in FilesInUse' /\ n = virtual_files'[i].name
    BY <1>1
  <2> QED
    BY ONLY <1>1, <2>1, FilesInUse' = FilesInUse \cup {i},
            \A j \in FilesInUse : virtual_files'[j].name = virtual_files[j].name,
            \A j \in FilesInUse \ {i} : Contents(j)' = Contents(j), ContentChange
<1>6. StoreDesc' = [f \in DOMAIN StoreDesc \cup {new} |->
                      IF f # new THEN StoreDesc[f] ELSE [name |-> n, pos |-> start]]
  <2> DEFINE dd == d
  <2>1. /\ dd \in DescType /\ dd.in_use /\ dd.file = i /\ dd.position = start
        /\ file_descriptors' = [file_descriptors EXCEPT ![new] = dd]
    BY <1>3, <1>4
  <2> HIDE DEF dd
  <2>2. StoreDesc' = [f \in DOMAIN StoreDesc \cup {new} |->
                        IF f # new THEN StoreDesc[f]
                        ELSE [name |-> virtual_files'[dd.file].name, pos |-> dd.position]]
    BY <1>1, <1>2, <2>1, DescChange
  <2> QED BY <2>1, <2>2
<1>7. fresh => Contents(i)' = << >>
  BY SubSeqEmpty DEF Contents
<1>8. ~fresh => /\ n \in DOMAIN StoreContent /\ Contents(i)' = StoreContent[n]
                /\ table[i].size = Len(StoreContent[n])
  <2>1. CASE i \in FilesInUse
    <3>1. /\ n = virtual_files[i].name /\ n \in DOMAIN StoreContent
          /\ StoreContent[n] = Contents(i) /\ Len(Contents(i)) = virtual_files[i].size
      BY <1>1, <2>1 DEF StoreFacts
    <3> QED BY <3>1
  <2>2. CASE i \notin FilesInUse
    BY <2>2
  <2> QED BY <2>1, <2>2
<1>9. start = IF append /\ ~fresh THEN Len(StoreContent[n]) ELSE 0
  BY <1>8
<1>10. StoreContent' = [m \in DOMAIN StoreContent \cup {n} |->
                          IF m = n /\ fresh THEN << >> ELSE StoreContent[m]]
  BY <1>5, <1>7, <1>8
<1>11. new \notin DOMAIN StoreDesc /\ append \in BOOLEAN
  BY <1>1, <1>2 DEF StoreFacts
<1> HIDE DEF start, append
<1>12. StoreDesc' = [f \in DOMAIN StoreDesc \cup {new} |->
                       IF f # new THEN StoreDesc[f]
                       ELSE [name |-> n, pos |-> IF append /\ ~fresh
                                                 THEN Len(StoreContent[n]) ELSE 0]]
  BY <1>6, <1>9
<1>13. Store!Open(new, n)
  <2>1. n \notin DOMAIN StoreContent => fresh
    BY <1>8
  <2> QED
    BY <1>10, <1>11, <1>12, <2>1 DEF Store!Open, Store!Opened, Store!Existing
<1> QED BY <1>2, <1>13 DEF Store!Call

(* open of a file that exists. *)
LEMMA OpenExistingImplements ==
  ASSUME VInv, VInv', NEW path \in Names, NEW flags \in Flags, OpenExisting(path, flags)
  PROVE  Store!Call
<1>1. PICK i \in FilesInUse :
        i = LowestOf(Found(path)) /\ i \in Slots /\ virtual_files[i].name = path
  <2>1. Found(path) \subseteq Nat /\ Found(path) # {}
    BY DEF OpenExisting, Found, Slots
  <2>2. LowestOf(Found(path)) \in Found(path)
    BY <2>1, Lowest
  <2> QED BY <2>2 DEF Found, FilesInUse
<1>2. TakeDescriptor(i, virtual_files, flags) /\ mem' = mem /\ got' = << >>
  BY <1>1 DEF OpenExisting
<1>3. virtual_files \in [Slots -> FileType]
  BY DEF VInv, FilesInv
<1>4. \/ virtual_files' = virtual_files
      \/ /\ "truncate" \in flags
         /\ virtual_files' = [virtual_files EXCEPT ![i].size = 0]
  <2>1. CASE FreeFds = {}
    BY <1>2, <2>1 DEF TakeDescriptor
  <2>2. CASE FreeFds # {}
    BY <1>2, <2>2 DEF TakeDescriptor
  <2> QED BY <2>1, <2>2
<1>5. /\ FilesInUse' = FilesInUse
      /\ \A j \in FilesInUse : virtual_files'[j].name = virtual_files[j].name
      /\ \A j \in FilesInUse \ {i} : Contents(j)' = Contents(j)
      /\ virtual_files' = virtual_files => \A j \in FilesInUse : Contents(j)' = Contents(j)
  <2>1. CASE virtual_files' = virtual_files
    BY <2>1, <1>2 DEF FilesInUse, InUse, Contents
  <2>2. CASE virtual_files' = [virtual_files EXCEPT ![i].size = 0]
    <3>1. /\ \A j \in Slots \ {i} : virtual_files'[j] = virtual_files[j]
          /\ virtual_files'[i].in_use = virtual_files[i].in_use
          /\ virtual_files'[i].name = virtual_files[i].name
          /\ virtual_files'[i].size = 0
      BY <2>2, <1>1, <1>3 DEF FileType
    <3>2. FilesInUse' = FilesInUse
      BY <3>1 DEF FilesInUse, InUse
    <3>3. \A j \in FilesInUse \ {i} : Contents(j)' = Contents(j)
      BY <3>1, <1>2 DEF FilesInUse, Contents
    <3>4. \A j \in FilesInUse : virtual_files'[j].name = virtual_files[j].name
      BY <3>1 DEF FilesInUse
    <3>5. virtual_files' = virtual_files => \A j \in FilesInUse : Contents(j)' = Contents(j)
      BY <1>2 DEF Contents
    <3> QED BY <3>2, <3>3, <3>4, <3>5
  <2> QED BY <2>1, <2>2, <1>4
<1>6. CASE FreeFds = {}
  <2>1. UNCHANGED file_descriptors /\ virtual_files' = virtual_files
    BY <1>2, <1>6 DEF TakeDescriptor
  <2> QED BY <1>2, <1>5, <2>1, StayIsRefuse
<1>7. CASE FreeFds # {}
  <2> DEFINE fresh == "truncate" \in flags
  <2>1. ~fresh => virtual_files' = virtual_files
    BY <1>4
  <2>2. fresh => virtual_files'[i].size = 0
    <3>1. fresh => virtual_files' = [virtual_files EXCEPT ![i].size = 0]
      BY <1>2, <1>7 DEF TakeDescriptor
    <3> QED BY <3>1, <1>1, <1>3 DEF FileType
  <2>3. fresh \in BOOLEAN /\ FilesInUse' = FilesInUse \cup {i} /\ virtual_files'[i].name = path
    BY <1>1, <1>5
  <2>4. ~fresh => Contents(i)' = Contents(i)
    BY <1>1, <1>5, <2>1
  <2>5. /\ "truncate" \in flags => fresh
        /\ i \notin FilesInUse => fresh
        /\ fresh /\ "truncate" \notin flags => virtual_files[i].size = 0
    BY <1>1
  <2> HIDE DEF fresh
  <2> QED
    BY <1>1, <1>2, <1>3, <1>5, <1>7, <2>2, <2>3, <2>4, <2>5, TakeIsOpen
<1> QED BY <1>6, <1>7

(* open that creates a file. *)
LEMMA OpenNewImplements ==
  ASSUME VInv, VInv', NEW path \in Names, NEW flags \in Flags, OpenNew(path, flags)
  PROVE  Store!Call
<1>1. PICK i \in Slots : i = LowestOf(FreeSlots) /\ i \notin FilesInUse
  <2>1. FreeSlots \subseteq Nat /\ FreeSlots # {}
    BY DEF OpenNew, FreeSlots, Slots
  <2>2. LowestOf(FreeSlots) \in FreeSlots
    BY <2>1, Lowest
  <2> QED BY <2>2 DEF FreeSlots, FilesInUse
<1>2. got' = << >> /\ virtual_files \in [Slots -> FileType]
      /\ mem \in [Buffers \cup Literals -> Seq(Bytes)]
  BY DEF OpenNew, VInv, FilesInv, Contained
<1>3. CASE \E b \in FreeBuffers :
             /\ mem' = [mem EXCEPT ![b] = Fresh(Chunk)]
             /\ TakeDescriptor(i, [virtual_files EXCEPT ![i] =
                  [name |-> path, data |-> b, size |-> 0, capacity |-> Chunk, in_use |-> TRUE]],
                  flags)
  <2>1. PICK b \in FreeBuffers :
             /\ mem' = [mem EXCEPT ![b] = Fresh(Chunk)]
             /\ TakeDescriptor(i, [virtual_files EXCEPT ![i] =
                  [name |-> path, data |-> b, size |-> 0, capacity |-> Chunk, in_use |-> TRUE]],
                  flags)
    BY <1>3
  <2> DEFINE f     == [name |-> path, data |-> b, size |-> 0, capacity |-> Chunk, in_use |-> TRUE]
             table == [virtual_files EXCEPT ![i] = f]
  <2>2. b \in Buffers
    BY DEF FreeBuffers
  <2>3. f \in FileType /\ f.size = 0 /\ f.name = path /\ f.in_use
    BY <2>2, VfsAssumption DEF FileType
  <2>4. TakeDescriptor(i, table, flags)
    BY <2>1
  <2> HIDE DEF f
  <2>5. /\ table \in [Slots -> FileType] /\ table[i] = f
        /\ \A j \in Slots \ {i} : table[j] = virtual_files[j]
    BY <1>2, <2>3
  <2> HIDE DEF table
  <2>6. /\ \A j \in Slots \ {i} : virtual_files'[j] = virtual_files[j]
        /\ virtual_files'[i].size = 0 /\ virtual_files'[i].name = path /\ virtual_files'[i].in_use
    <3>1. virtual_files' = table \/ virtual_files' = [table EXCEPT ![i].size = 0]
      BY <2>4 DEF TakeDescriptor
    <3>2. CASE virtual_files' = table
      BY <3>2, <2>3, <2>5
    <3>3. CASE virtual_files' = [table EXCEPT ![i].size = 0]
      BY <3>3, <2>3, <2>5 DEF FileType
    <3> QED BY <3>1, <3>2, <3>3
  <2>7. FilesInUse' = FilesInUse \cup {i}
        /\ \A j \in FilesInUse : virtual_files'[j] = virtual_files[j]
    BY <2>6, <1>1 DEF FilesInUse, InUse
  <2>8. ASSUME NEW j \in FilesInUse PROVE Contents(j)' = Contents(j)
    <3>1. virtual_files[j].data # b /\ virtual_files[j].data \in Buffers \cup Literals
      BY FreeIsNobodys DEF VInv, FilesInv, Backed
    <3>2. mem'[virtual_files[j].data] = mem[virtual_files[j].data]
      BY <1>2, <2>1, <3>1
    <3> QED BY <2>7, <3>2 DEF Contents
  <2>9. CASE FreeFds # {}
    <3> DEFINE fresh == TRUE
    <3>1. /\ fresh \in BOOLEAN /\ ("truncate" \in flags => fresh) /\ (i \notin FilesInUse => fresh)
          /\ (fresh => virtual_files'[i].size = 0)
          /\ (fresh /\ "truncate" \notin flags => table[i].size = 0)
          /\ (~fresh => Contents(i)' = Contents(i) /\ table[i].size = virtual_files[i].size)
      BY <2>3, <2>5, <2>6
    <3>2. /\ \A j \in FilesInUse \ {i} : Contents(j)' = Contents(j)
          /\ \A j \in FilesInUse : virtual_files'[j].name = virtual_files[j].name
      BY <2>7, <2>8
    <3> HIDE DEF fresh
    <3> QED BY <1>2, <2>4, <2>5, <2>6, <2>7, <2>9, <3>1, <3>2, TakeIsOpen
  <2>10. CASE FreeFds = {}
    <3>1. file_descriptors' = file_descriptors
      BY <2>4, <2>10 DEF TakeDescriptor
    <3>2. StoreFacts /\ StoreFacts'
      BY VInvStoreFacts, NextStoreFacts
    <3>3. StoreDesc' = StoreDesc
      BY <2>7, <3>1, <3>2, DescStays
    <3>4. Contents(i)' = << >>
      BY <2>6, SubSeqEmpty DEF Contents
    <3>5. StoreContent' = [m \in DOMAIN StoreContent \cup {path} |->
                             IF m = path THEN Contents(i)' ELSE StoreContent[m]]
      <4>1. i \in FilesInUse' /\ path = virtual_files'[i].name
        BY <2>6, <2>7
      <4>2. /\ \A j \in FilesInUse : virtual_files'[j].name = virtual_files[j].name
            /\ \A j \in FilesInUse \ {i} : Contents(j)' = Contents(j)
        BY <2>7, <2>8
      <4> QED BY ONLY <2>7, <3>2, <4>1, <4>2, ContentChange
    <3>6. path \notin DOMAIN StoreContent
      <4>1. \A j \in FilesInUse : virtual_files[j].name # path
        BY DEF OpenNew, Found, FilesInUse
      <4> QED BY <4>1, <3>2 DEF StoreFacts
    <3>7. Store!Create(path)
      BY <1>2, <3>3, <3>4, <3>5, <3>6 DEF Store!Create, Store!Existing
    <3> QED BY <3>7 DEF Store!Call
  <2> QED BY <2>9, <2>10
<1>4. CASE /\ virtual_files' = [virtual_files EXCEPT ![i].name = path, ![i].data = NULL]
           /\ UNCHANGED <<file_descriptors, mem, overtaken>>
  <2>1. \A j \in Slots \ {i} : virtual_files'[j] = virtual_files[j]
    BY <1>2, <1>4
  <2>2. virtual_files'[i].in_use = virtual_files[i].in_use
    BY <1>2, <1>4 DEF FileType
  <2>3. FilesInUse' = FilesInUse
    BY <2>1, <2>2 DEF FilesInUse, InUse
  <2>4. \A j \in FilesInUse : /\ virtual_files'[j].name = virtual_files[j].name
                              /\ Contents(j)' = Contents(j)
    BY <1>1, <1>4, <2>1 DEF FilesInUse, Contents
  <2> QED BY <1>2, <1>4, <2>3, <2>4, StayIsRefuse
<1> QED BY <1>1, <1>3, <1>4 DEF OpenNew

(* A call that leaves the files alone. *)
LEMMA FilesAlone ==
  ASSUME UNCHANGED <<virtual_files, mem>>
  PROVE  /\ FilesInUse' = FilesInUse
         /\ \A j \in FilesInUse : /\ virtual_files'[j].name = virtual_files[j].name
                                  /\ Contents(j)' = Contents(j)
BY DEF FilesInUse, InUse, Contents

(* close. *)
LEMMA CloseImplements ==
  ASSUME VInv, VInv', NEW fd \in Fds, Close(fd)
  PROVE  Store!Call
<1>1. StoreFacts /\ StoreFacts'
  BY VInvStoreFacts, NextStoreFacts
<1>2. /\ Open(fd) /\ file_descriptors' = [file_descriptors EXCEPT ![fd] = Closed]
      /\ got' = << >> /\ UNCHANGED <<virtual_files, mem>>
  BY DEF Close
<1>3. StoreContent' = StoreContent
  BY <1>1, <1>2, FilesAlone, ContentStays
<1>4. /\ ~Open(fd)'
      /\ \A f \in Fds \ {fd} : file_descriptors'[f] = file_descriptors[f]
  BY <1>2 DEF Closed, Open, VInv, DescsInv
<1>5. DOMAIN StoreDesc' = DOMAIN StoreDesc \ {fd}
  BY <1>1, <1>4 DEF StoreFacts, Open
<1>6. ASSUME NEW f \in DOMAIN StoreDesc \ {fd} PROVE StoreDesc'[f] = StoreDesc[f]
  <2>1. f \in Fds /\ Open(f) /\ Open(f)' /\ file_descriptors'[f] = file_descriptors[f]
    BY <1>1, <1>4 DEF StoreFacts, Open
  <2>2. /\ StoreDesc'[f] = [name |-> FileOf(f)'.name, pos |-> file_descriptors'[f].position]
        /\ StoreDesc[f] = [name |-> FileOf(f).name, pos |-> file_descriptors[f].position]
    BY <1>1, <2>1 DEF StoreFacts
  <2>3. FileOf(f)'.name = FileOf(f).name
    BY <1>2, <2>1 DEF FileOf
  <2> QED BY <2>1, <2>2, <2>3
<1>7. StoreDesc' = [f \in DOMAIN StoreDesc' |-> StoreDesc'[f]]
  BY <1>1 DEF StoreFacts
<1>8. StoreDesc' = [f \in DOMAIN StoreDesc \ {fd} |-> StoreDesc[f]]
  BY <1>5, <1>6, <1>7
<1>9. fd \in DOMAIN StoreDesc
  BY <1>1, <1>2 DEF StoreFacts
<1>10. Store!Close(fd)
  BY <1>2, <1>3, <1>8 DEF Store!Close, Store!Opened
<1> QED BY <1>9, <1>10 DEF Store!Call, Store!Opened

(* A piece of a file's contents is the same piece of its buffer. *)
LEMMA Piece ==
  ASSUME NEW s \in Seq(Bytes), NEW n \in 0 .. Len(s), NEW p \in Nat, NEW k \in Nat, p + k <= n
  PROVE  SubSeq(SubSeq(s, 1, n), p + 1, p + k) = SubSeq(s, p + 1, p + k)
<1> DEFINE t == SubSeq(s, 1, n)
<1>1. Len(s) \in Nat /\ n \in Nat /\ \A j \in 1 .. Len(s) : s[j] \in Bytes
  BY LenProperties
<1>2. t \in Seq(Bytes) /\ Len(t) = n /\ \A j \in 1 .. n : t[j] = s[j]
  BY Beginning
<1> HIDE DEF t
<1>3. /\ p + 1 \in Int /\ p + k \in Int
      /\ \A j \in p + 1 .. p + k : j \in 1 .. n /\ s[j] \in Bytes /\ t[j] \in Bytes
  BY <1>1, <1>2
<1>4. /\ SubSeq(s, p + 1, p + k) \in Seq(Bytes)
      /\ Len(SubSeq(s, p + 1, p + k)) = IF p + 1 <= p + k THEN (p + k) - (p + 1) + 1 ELSE 0
      /\ \A j \in 1 .. (p + k) - (p + 1) + 1 : SubSeq(s, p + 1, p + k)[j] = s[(p + 1) + j - 1]
  BY <1>3, SubSeqProperties, SMTT(20)
<1>5. /\ SubSeq(t, p + 1, p + k) \in Seq(Bytes)
      /\ Len(SubSeq(t, p + 1, p + k)) = IF p + 1 <= p + k THEN (p + k) - (p + 1) + 1 ELSE 0
      /\ \A j \in 1 .. (p + k) - (p + 1) + 1 : SubSeq(t, p + 1, p + k)[j] = t[(p + 1) + j - 1]
  BY <1>3, SubSeqProperties
<1>6. Len(SubSeq(s, p + 1, p + k)) = k /\ Len(SubSeq(t, p + 1, p + k)) = k
  BY <1>4, <1>5
<1>7. \A j \in 1 .. k : SubSeq(s, p + 1, p + k)[j] = SubSeq(t, p + 1, p + k)[j]
  <2> TAKE j \in 1 .. k
  <2>1. j \in 1 .. (p + k) - (p + 1) + 1 /\ (p + 1) + j - 1 \in 1 .. n
    BY <1>1
  <2> QED BY <1>2, <1>4, <1>5, <2>1
<1>8. SubSeq(t, p + 1, p + k) = SubSeq(s, p + 1, p + k)
  BY <1>4, <1>5, <1>6, <1>7, SeqEqual
<1> QED BY <1>8 DEF t

(* read: the next bytes of the file, or, for a descriptor another open has *)
(* overtaken, bytes nothing is promised of.                                *)
LEMMA ReadImplements ==
  ASSUME MaxSize < CopyWord, VInv, VInv', NEW fd \in Fds, NEW count \in Counts, Read(fd, count)
  PROVE  Store!Call
<1> DEFINE pos     == file_descriptors[fd].position
           file    == FileOf(fd)
           i       == file_descriptors[fd].file
           to_read == ToRead(fd, count)
           p       == (pos + to_read) % Word
           content == Contents(i)
<1>1. StoreFacts /\ StoreFacts'
  BY VInvStoreFacts, NextStoreFacts
<1>2. /\ Open(fd) /\ UNCHANGED <<virtual_files, mem>>
      /\ got' = IF pos <= file.size
                THEN SubSeq(mem[file.data], pos + 1, pos + (to_read % CopyWord)) ELSE Beyond
      /\ file_descriptors' = [file_descriptors EXCEPT ![fd].position = p]
  BY DEF Read
<1>3. /\ pos \in 0 .. MaxSize /\ file.size \in 0 .. MaxSize /\ i \in FilesInUse
      /\ mem[file.data] \in Seq(Bytes) /\ file.size <= Len(mem[file.data])
      /\ MaxSize \in Nat /\ CopyWord \in Nat
  BY <1>2, OpenFacts, VfsAssumption
<1>4. /\ p \in 0 .. file.size
      /\ pos > file.size => p = file.size
      /\ pos <= file.size => to_read \in 0 .. (file.size - pos) /\ p = pos + to_read
  <2> DEFINE size == file.size
  <2>1. pos \in 0 .. MaxSize /\ size \in 0 .. MaxSize
    BY <1>3
  <2>2. to_read = IF pos + count > size THEN (size - pos) % Word ELSE count
    BY DEF ToRead
  <2> HIDE DEF to_read, pos, size
  <2>3. /\ (pos + to_read) % Word \in 0 .. size
        /\ pos > size => (pos + to_read) % Word = size
        /\ pos <= size => /\ to_read \in 0 .. (size - pos)
                          /\ (pos + to_read) % Word = pos + to_read
    BY <2>1, <2>2, ReadPosition
  <2> QED BY <2>3 DEF size
<1>5. fd \in DOMAIN StoreDesc
      /\ StoreDesc[fd].name = file.name /\ StoreDesc[fd].pos = pos
  BY <1>1, <1>2 DEF StoreFacts
<1>6. StoreContent[StoreDesc[fd].name] = content /\ Len(content) = file.size
      /\ content = SubSeq(mem[file.data], 1, file.size)
  BY <1>1, <1>3, <1>5 DEF StoreFacts, FileOf, Contents
<1>7. StoreContent' = StoreContent
  BY <1>1, <1>2, FilesAlone, ContentStays
<1>8. StoreDesc' = Store!At(fd, p)
  <2>1. p \in 0 .. MaxSize
    BY <1>3, <1>4
  <2> HIDE DEF p
  <2>2. \A j \in FilesInUse : virtual_files'[j].name = virtual_files[j].name
    BY <1>2
  <2> QED BY <1>1, <1>2, <2>1, <2>2, DescMoves
<1>9. Store!Size(fd) = file.size
  BY <1>6 DEF Store!Size
<1>10. CASE pos <= file.size
  <2> DEFINE k == to_read
  <2>1. k \in 0 .. (file.size - pos) /\ p = pos + k /\ k < CopyWord /\ k \in Nat
    BY <1>3, <1>4, <1>10
  <2>2. got' = SubSeq(mem[file.data], pos + 1, pos + k)
    <3>1. k % CopyWord = k
      BY <1>3, <2>1, ModSmall
    <3> QED BY <1>2, <1>10, <3>1
  <2>3. got' = SubSeq(content, pos + 1, pos + k)
    <3> DEFINE s == mem[file.data]
               n == file.size
    <3>1. /\ s \in Seq(Bytes) /\ n \in 0 .. Len(s) /\ pos \in Nat /\ k \in Nat /\ pos + k <= n
      <4>1. Len(s) \in Nat
        BY <1>3, LenProperties
      <4> QED BY <1>3, <2>1, <4>1
    <3>2. content = SubSeq(s, 1, n) /\ got' = SubSeq(s, pos + 1, pos + k)
      BY <1>6, <2>2
    <3> HIDE DEF s, n, k, pos, content
    <3> QED BY <3>1, <3>2, Piece
  <2> HIDE DEF k
  <2>4. Store!Read(fd)
    BY <1>5, <1>6, <1>7, <1>8, <1>9, <1>10, <2>1, <2>3 DEF Store!Read
  <2> QED BY <1>5, <2>4 DEF Store!Call, Store!Opened
<1>11. CASE pos > file.size
  <2>1. Store!ReadBeyond(fd)
    BY <1>4, <1>5, <1>7, <1>8, <1>9, <1>11 DEF Store!ReadBeyond
  <2> QED BY <1>5, <2>1 DEF Store!Call, Store!Opened
<1> QED BY <1>3, <1>10, <1>11

(* The bytes of write appear in the file, which keeps the others: those    *)
(* below its size have been moved to the buffer it uses now.               *)
LEMMA PutImplements ==
  ASSUME MaxSize < CopyWord, VInv, VInv',
         NEW fd \in Fds, NEW count \in Counts \ {0}, NEW v \in Byte,
         NEW b \in Buffers \cup Literals, NEW capacity \in 0 .. MaxSize + Chunk,
         NEW buffers \in [Buffers \cup Literals -> Seq(Bytes)],
         Open(fd), PutBytes(fd, count, v, b, buffers, capacity),
         file_descriptors[fd].position + count <= MaxSize,
         file_descriptors[fd].position + count <= capacity,
         FileOf(fd).size <= capacity, Len(buffers[b]) = capacity,
         \A j \in FilesInUse \ {file_descriptors[fd].file} :
           virtual_files[j].data # b /\ buffers[virtual_files[j].data] = mem[virtual_files[j].data],
         \A k \in 1 .. FileOf(fd).size : buffers[b][k] = mem[FileOf(fd).data][k]
  PROVE  Store!Call
<1> DEFINE pos == file_descriptors[fd].position
           end == pos + count
<1>1. PICK i \in FilesInUse : i = file_descriptors[fd].file
  BY OpenFacts
<1>2. /\ i \in Slots /\ pos \in Nat /\ count \in Nat \ {0} /\ MaxSize \in Nat
      /\ virtual_files[i].size \in 0 .. MaxSize /\ FileOf(fd) = virtual_files[i]
      /\ end \in 0 .. MaxSize /\ CopyWord \in Nat \ {0} /\ capacity \in Nat
      /\ virtual_files \in [Slots -> FileType]
  <2>1. /\ i \in Slots /\ pos \in 0 .. MaxSize /\ FileOf(fd).size \in 0 .. MaxSize
    BY <1>1, OpenFacts
  <2>2. FileOf(fd) = virtual_files[i]
    BY <1>1 DEF FileOf
  <2>3. /\ MaxSize \in Nat /\ Chunk \in Nat /\ CopyWord \in Nat \ {0} /\ count \in Nat \ {0}
    BY VfsAssumption
  <2>4. virtual_files \in [Slots -> FileType]
    BY DEF VInv, FilesInv
  <2>5. end \in 0 .. MaxSize /\ pos \in Nat /\ capacity \in Nat
    <3>1. pos + count <= MaxSize
      OBVIOUS
    <3> HIDE DEF pos
    <3> QED BY <2>1, <2>3, <3>1
  <2> HIDE DEF pos, end
  <2> QED BY ONLY <2>1, <2>2, <2>3, <2>4, <2>5
<1> DEFINE size == virtual_files[i].size
           name == virtual_files[i].name
           new  == Copied(buffers[b], pos, [k \in 1 .. count |-> v], count)
           f    == [virtual_files[i] EXCEPT !.data = b, !.capacity = capacity,
                      !.size = IF end > size THEN end ELSE size]
<1>3. /\ mem' = [buffers EXCEPT ![b] = new]
      /\ virtual_files' = [virtual_files EXCEPT ![i] = f]
      /\ file_descriptors' = [file_descriptors EXCEPT ![fd].position = end]
      /\ got' = << >>
  BY <1>1, <1>2 DEF PutBytes
<1>4. \A k \in 1 .. capacity :
        new[k] = IF k > pos /\ k <= end THEN v ELSE buffers[b][k]
  <2> DEFINE src == [k \in 1 .. count |-> v]
             dst == buffers[b]
  <2>1. \A k \in 1 .. count : src[k] = v /\ src[k] \in Bytes
    BY DEF Bytes
  <2>2. dst \in Seq(Bytes) /\ Len(dst) = capacity /\ pos \in Nat /\ count \in Nat
    BY <1>2
  <2>3. count % CopyWord = count
    <3>1. count \in Nat /\ CopyWord \in Nat /\ count < CopyWord
      BY <1>2
    <3> QED BY <3>1, ModSmall
  <2> HIDE DEF src, dst, pos
  <2>4. \A k \in 1 .. Len(dst) :
          Copied(dst, pos, src, count)[k] =
            IF k > pos /\ k <= pos + (count % CopyWord) THEN src[k - pos] ELSE dst[k]
    BY <2>1, <2>2, CopyKeeps, SMTT(20)
  <2> SUFFICES ASSUME NEW k \in 1 .. capacity
               PROVE  Copied(dst, pos, src, count)[k] = IF k > pos /\ k <= end THEN v ELSE dst[k]
    BY DEF src, dst, pos
  <2>5. k > pos /\ k <= end => k - pos \in 1 .. count
    BY <1>2, <2>2
  <2> QED BY <2>1, <2>2, <2>3, <2>4, <2>5
<1> HIDE DEF new
<1>5. /\ virtual_files'[i] = f /\ f.data = b /\ f.in_use = virtual_files[i].in_use
      /\ f.size = IF end > size THEN end ELSE size
      /\ f.name = name
      /\ \A j \in Slots \ {i} : virtual_files'[j] = virtual_files[j]
  BY <1>2, <1>3 DEF FileType
<1> HIDE DEF f
<1>6. /\ mem'[b] = new
      /\ \A x \in (Buffers \cup Literals) \ {b} : mem'[x] = buffers[x]
  BY <1>3
<1>7. FilesInUse' = FilesInUse
      /\ \A j \in FilesInUse : virtual_files'[j].name = virtual_files[j].name
  BY <1>5 DEF FilesInUse, InUse
<1>8. ASSUME NEW j \in FilesInUse \ {i} PROVE Contents(j)' = Contents(j)
  <2>1. virtual_files[j].data \in (Buffers \cup Literals) \ {b}
    BY <1>1 DEF VInv, FilesInv, Backed
  <2>2. mem'[virtual_files[j].data] = mem[virtual_files[j].data]
    BY <1>1, <1>6, <2>1
  <2> QED BY <1>5, <2>2 DEF Contents, FilesInUse
<1>9. StoreFacts /\ StoreFacts'
  BY VInvStoreFacts, NextStoreFacts
<1>10. StoreContent' = [m \in DOMAIN StoreContent \cup {name} |->
                          IF m = name THEN Contents(i)' ELSE StoreContent[m]]
  <2>1. i \in FilesInUse' /\ FilesInUse' = FilesInUse \cup {i} /\ name = virtual_files'[i].name
    BY <1>5, <1>7
  <2>2. \A j \in FilesInUse \ {i} : Contents(j)' = Contents(j)
    BY <1>8
  <2> QED BY ONLY <1>7, <1>9, <2>1, <2>2, ContentChange
<1>11. StoreDesc' = Store!At(fd, end)
  BY <1>2, <1>3, <1>7, <1>9, DescMoves
<1>12. fd \in DOMAIN StoreDesc /\ StoreDesc[fd].name = name /\ StoreDesc[fd].pos = pos
  BY <1>2, <1>9 DEF StoreFacts
<1>13. StoreDesc'[fd].pos = end
  <2>1. StoreDesc'[fd] = [name |-> FileOf(fd)'.name, pos |-> file_descriptors'[fd].position]
    <3>1. Open(fd)'
      BY <1>3 DEF Open, VInv, DescsInv, DescType
    <3> QED BY <3>1, <1>9 DEF StoreFacts
  <2>2. file_descriptors'[fd].position = end
    BY <1>3 DEF VInv, DescsInv, DescType
  <2> QED BY <2>1, <2>2
<1>14. /\ name \in DOMAIN StoreContent /\ StoreContent[name] = Contents(i)
       /\ Len(Contents(i)) = size
       /\ \A k \in 1 .. size : Contents(i)[k] = mem[virtual_files[i].data][k]
  BY <1>9 DEF StoreFacts
<1>15. /\ Len(Contents(i)') = f.size
       /\ \A k \in 1 .. f.size : Contents(i)'[k] = new[k]
  <2>1. i \in FilesInUse' /\ virtual_files'[i].size = f.size
        /\ mem'[virtual_files'[i].data] = new
    BY <1>5, <1>6, <1>7
  <2>2. /\ Len(Contents(i)') = virtual_files'[i].size
        /\ \A k \in 1 .. virtual_files'[i].size :
             Contents(i)'[k] = mem'[virtual_files'[i].data][k]
    BY <1>9, <2>1 DEF StoreFacts
  <2> QED BY <2>1, <2>2
<1>16. /\ DOMAIN StoreContent' = DOMAIN StoreContent
       /\ StoreContent'[name] = Contents(i)'
       /\ \A m \in DOMAIN StoreContent \ {name} : StoreContent'[m] = StoreContent[m]
  BY <1>10, <1>14
<1>17. \A k \in pos + 1 .. end : StoreContent'[name][k] = v
  <2> TAKE k \in pos + 1 .. end
  <2>1. k \in 1 .. f.size /\ k \in 1 .. capacity /\ k > pos /\ k <= end
    BY <1>2, <1>5, SMTT(20)
  <2> QED BY <1>4, <1>15, <1>16, <2>1
<1>18. \A k \in 1 .. size : k \notin pos + 1 .. end =>
         StoreContent'[name][k] = StoreContent[name][k]
  <2> TAKE k \in 1 .. size
  <2> HAVE k \notin pos + 1 .. end
  <2>1. k \in 1 .. f.size /\ k \in 1 .. capacity /\ ~(k > pos /\ k <= end)
    BY <1>2, <1>5
  <2>2. new[k] = buffers[b][k] /\ buffers[b][k] = mem[virtual_files[i].data][k]
    BY <1>2, <1>4, <2>1
  <2> QED BY <1>14, <1>15, <1>16, <2>1, <2>2
<1> HIDE DEF pos, name, size
<1>19. end > pos
  BY <1>2
<1>20. Len(StoreContent'[name]) = IF end > size THEN end ELSE size
  BY <1>5, <1>15, <1>16
<1> HIDE DEF end
<1>21. Store!Write(fd)
  BY <1>3, <1>11, <1>12, <1>13, <1>14, <1>16, <1>17, <1>18, <1>19, <1>20
     DEF Store!Write, Store!Existing
<1> QED BY <1>12, <1>21 DEF Store!Call, Store!Opened

(* write. *)
LEMMA WriteImplements ==
  ASSUME MaxSize < CopyWord, VInv, VInv',
         NEW fd \in Fds, NEW count \in Counts, NEW v \in Byte, Write(fd, count, v)
  PROVE  Store!Call
<1> DEFINE file   == FileOf(fd)
           needed == file_descriptors[fd].position + count
<1>1. Open(fd) /\ count \in Counts \ {0} /\ needed \in 0 .. MaxSize
  <2>1. Open(fd) /\ count > 0 /\ needed <= MaxSize /\ count \in Nat
    BY VfsAssumption DEF Write
  <2> QED BY <2>1, OpenFacts
<1>2. /\ file_descriptors[fd].file \in FilesInUse
      /\ file.size <= file.capacity /\ file.capacity \in 1 .. MaxSize + Chunk
      /\ file.size \in 0 .. MaxSize /\ file.data \in Buffers \cup Literals
      /\ Len(mem[file.data]) = file.capacity
      /\ MaxSize \in Nat /\ Chunk \in Nat /\ CopyWord \in Nat
  BY <1>1, OpenFacts, VfsAssumption
<1>3. \A j \in FilesInUse \ {file_descriptors[fd].file} :
        virtual_files[j].data # file.data /\ virtual_files[j].data \in Buffers \cup Literals
  BY <1>2 DEF VInv, FilesInv, BuffersOwned, Backed, FileOf
<1>4. count \in Counts \ {0} /\ Open(fd) /\ needed <= MaxSize
  BY <1>1, <1>2
<1>5. CASE needed > file.capacity
  <2>1. PICK b \in FreeBuffers :
          PutBytes(fd, count, v, b, Grown(file, b, needed), RoundToChunk(needed))
    BY <1>5 DEF Write
  <2> DEFINE g == Grown(file, b, needed)
             r == RoundToChunk(needed)
  <2>2. /\ g \in [Buffers \cup Literals -> Seq(Bytes)]
        /\ r \in needed .. MaxSize + Chunk
        /\ Len(g[b]) = r
        /\ \A k \in 1 .. file.size % CopyWord : g[b][k] = mem[file.data][k]
        /\ \A x \in (Buffers \cup Literals) \ {b, file.data} : g[x] = mem[x]
    BY <1>1, <1>5, GrownIs, ZenonT(30)
  <2>3. r \in 0 .. MaxSize + Chunk /\ needed <= r /\ file.size <= r
    BY <1>1, <1>2, <1>5, <2>2
  <2>4. b \in Buffers \cup Literals /\ \A j \in FilesInUse : virtual_files[j].data # b
    BY FreeIsNobodys DEF VInv, FreeBuffers
  <2>5. \A k \in 1 .. file.size : g[b][k] = mem[file.data][k]
    <3>1. file.size \in Nat /\ file.size < CopyWord
      BY <1>2
    <3>2. file.size % CopyWord = file.size
      BY <1>2, <3>1, ModSmall
    <3> QED BY <2>2, <3>2
  <2>6. PutBytes(fd, count, v, b, g, r)
    BY <2>1
  <2> HIDE DEF g, r
  <2>7. \A j \in FilesInUse \ {file_descriptors[fd].file} :
          virtual_files[j].data # b /\ g[virtual_files[j].data] = mem[virtual_files[j].data]
    BY <1>3, <2>2, <2>4
  <2> QED
    BY ONLY MaxSize < CopyWord, VInv, VInv', fd \in Fds, v \in Byte,
            <1>4, <2>2, <2>3, <2>4, <2>5, <2>6, <2>7, PutImplements
<1>6. CASE ~(needed > file.capacity)
  <2>1. PutBytes(fd, count, v, file.data, mem, file.capacity)
    BY <1>6 DEF Write
  <2>2. mem \in [Buffers \cup Literals -> Seq(Bytes)] /\ needed <= file.capacity
        /\ file.capacity \in 0 .. MaxSize + Chunk
    BY <1>1, <1>2, <1>6 DEF VInv, FilesInv, Contained
  <2>3. \A j \in FilesInUse \ {file_descriptors[fd].file} :
          virtual_files[j].data # file.data /\ mem[virtual_files[j].data] = mem[virtual_files[j].data]
    BY <1>3
  <2>4. \A k \in 1 .. file.size : mem[file.data][k] = mem[file.data][k]
    OBVIOUS
  <2> QED
    BY ONLY MaxSize < CopyWord, VInv, VInv', fd \in Fds, v \in Byte,
            <1>2, <1>4, <2>1, <2>2, <2>3, <2>4, PutImplements
<1> QED BY <1>5, <1>6

(* vfs_init gives the abstract store its default files. *)
LEMMA StoreInit == Init => Store!Init
<1> SUFFICES ASSUME Init PROVE Store!Init
  OBVIOUS
<1>1. VInv /\ StoreFacts
  BY VInvInit, VInvStoreFacts
<1>2. /\ \A i \in DOMAIN Defaults :
           /\ i \in Slots /\ <<"literal", i>> \in Literals
           /\ virtual_files[i] = [name |-> Defaults[i], data |-> <<"literal", i>>,
                                  size |-> 1, capacity |-> 1, in_use |-> TRUE]
      /\ \A i \in Slots \ DOMAIN Defaults : virtual_files[i] = NoFile
  <2>1. DOMAIN Defaults \subseteq Slots
    BY VfsAssumption, LenProperties DEF Slots
  <2> QED BY <2>1 DEF Init, Literals
<1>3. FilesInUse = DOMAIN Defaults
  <2>1. ASSUME NEW i \in DOMAIN Defaults PROVE i \in Slots /\ InUse(i)
    <3>1. virtual_files[i] = [name |-> Defaults[i], data |-> <<"literal", i>>,
                              size |-> 1, capacity |-> 1, in_use |-> TRUE]
      BY <1>2
    <3> QED BY <1>2, <3>1 DEF InUse
  <2>2. \A i \in Slots \ DOMAIN Defaults : ~InUse(i)
    BY <1>2 DEF InUse, NoFile
  <2> QED BY <2>1, <2>2 DEF FilesInUse
<1>4. ASSUME NEW i \in FilesInUse
      PROVE  virtual_files[i].name = Defaults[i] /\ Contents(i) = <<Text>>
  <2>1. virtual_files[i] = [name |-> Defaults[i], data |-> <<"literal", i>>,
                            size |-> 1, capacity |-> 1, in_use |-> TRUE]
        /\ <<"literal", i>> \in Literals
    BY <1>2, <1>3
  <2>2. mem[<<"literal", i>>] = <<Text>>
    BY <2>1 DEF Init
  <2>3. Contents(i) = SubSeq(<<Text>>, 1, 1)
    BY <2>1, <2>2 DEF Contents
  <2>4. SubSeq(<<Text>>, 1, 1) = <<Text>>
    <3>1. <<Text>> \in Seq(Bytes) /\ Len(<<Text>>) = 1
      BY DEF Bytes
    <3> QED BY <3>1, SubSeqFull
  <2> QED BY <2>1, <2>3, <2>4
<1>5. DOMAIN StoreContent = {Defaults[i] : i \in DOMAIN Defaults}
  BY <1>3, <1>4 DEF StoreContent
<1>6. \A n \in DOMAIN StoreContent : StoreContent[n] = <<Text>>
  BY <1>1, <1>4 DEF StoreFacts
<1>7. StoreContent = [n \in {Defaults[i] : i \in DOMAIN Defaults} |-> <<Text>>]
  BY <1>1, <1>5, <1>6 DEF StoreFacts
<1>8. StoreDesc = << >>
  <2>1. {f \in Fds : Open(f)} = {}
    BY DEF Init, Open, Closed
  <2> QED BY <2>1 DEF StoreDesc
<1> QED BY <1>7, <1>8 DEF Init, Store!Init

(* Every call that ends within its caller's buffer is one of the store. *)
LEMMA CallImplements ==
  ASSUME MaxSize < CopyWord, VInv, VInv', Call
  PROVE  Store!Call
<1>1. ASSUME got' = << >>, UNCHANGED <<virtual_files, file_descriptors, mem>> PROVE Store!Call
  BY <1>1, FilesAlone, StayIsRefuse
<1>2. CASE Refused
  BY <1>1, <1>2 DEF Refused
<1>3. ASSUME NEW path \in Names, NEW flags \in Flags,
             OpenExisting(path, flags) \/ OpenNew(path, flags)
      PROVE  Store!Call
  BY <1>3, OpenExistingImplements, OpenNewImplements
<1>4. ASSUME NEW fd \in Fds, Close(fd) PROVE Store!Call
  BY <1>4, CloseImplements
<1>5. ASSUME NEW fd \in Fds, NEW count \in Counts, Read(fd, count) PROVE Store!Call
  BY <1>5, ReadImplements
<1>6. ASSUME NEW fd \in Fds, NEW count \in Counts, NEW v \in Byte, Write(fd, count, v)
      PROVE  Store!Call
  BY <1>6, WriteImplements
<1> QED BY <1>2, <1>3, <1>4, <1>5, <1>6 DEF Call

(* The read that does not is where the store ends. *)
LEMMA OverrunImplements ==
  ASSUME VInv, NEW fd \in Fds, NEW count \in Counts, ReadOverrun(fd, count)
  PROVE  \E g \in Store!Opened : Store!Overrun(g)
<1>1. StoreFacts
  BY VInvStoreFacts
<1>2. /\ Open(fd) /\ wild' = TRUE /\ got' = << >>
      /\ UNCHANGED <<virtual_files, file_descriptors, mem>>
  BY DEF ReadOverrun
<1>3. UNCHANGED <<StoreContent, StoreDesc>>
  BY <1>2 DEF StoreContent, StoreDesc, FilesInUse, InUse, Contents, SlotOf, Open, FileOf
<1>4. file_descriptors[fd].file \in FilesInUse
  BY <1>2, OpenFacts
<1>5. fd \in DOMAIN StoreDesc /\ StoreDesc[fd].name = FileOf(fd).name
      /\ StoreDesc[fd].pos = file_descriptors[fd].position
  BY <1>1, <1>2 DEF StoreFacts
<1>6. Len(StoreContent[StoreDesc[fd].name]) = FileOf(fd).size
  BY <1>1, <1>4, <1>5 DEF StoreFacts, FileOf, Contents
<1>7. StoreDesc[fd].pos > Store!Size(fd)
  BY <1>5, <1>6, OverrunIsBeyond DEF Store!Size
<1>8. Store!Overrun(fd)
  BY <1>2, <1>3, <1>7 DEF Store!Overrun
<1> QED BY <1>5, <1>8 DEF Store!Opened

(* Every step of the calls is a step of the abstract store. *)
LEMMA StoreStep ==
  ASSUME MaxSize < CopyWord, VInv, VInv', [Next]_vars
  PROVE  [Store!Next]_(Store!vars)
<1>1. CASE ~wild /\ Call /\ UNCHANGED wild
  BY <1>1, CallImplements DEF Store!Next
<1>2. ASSUME ~wild, NEW fd \in Fds, NEW count \in Counts, ReadOverrun(fd, count)
      PROVE  Store!Next
  BY <1>2, OverrunImplements DEF Store!Next
<1>3. CASE UNCHANGED vars
  <2>1. UNCHANGED <<StoreContent, StoreDesc, got, wild>>
    BY <1>3 DEF vars, StoreContent, StoreDesc, FilesInUse, InUse, Contents, SlotOf, Open, FileOf
  <2> QED BY <2>1 DEF Store!vars
<1> QED BY <1>1, <1>2, <1>3 DEF Next

(* The calls implement the abstract file store, for files that memcpy's    *)
(* sixteen-bit count can move: whatever buffers the data moved through, a  *)
(* read delivers what the writes before it have put there, and a call that *)
(* fails leaves every file as it was.                                      *)
THEOREM FilesAreStore == ASSUME MaxSize < CopyWord PROVE Spec => StoreSpec
<1>1. VInv /\ VInv' /\ [Next]_vars => [Store!Next]_(Store!vars)
  BY StoreStep
<1> QED BY <1>1, StoreInit, VfsInvariant, PTL DEF Spec, StoreSpec, Store!Spec

================================================================================
