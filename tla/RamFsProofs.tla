------------------------------ MODULE RamFsProofs ------------------------------
(***************************************************************************)
(* Proofs about the RAM file system of shell_commands.c, for every number  *)
(* of slots and buffers, every size, and all names and lines that          *)
(* RamFsAssumption allows.                                                 *)
(*                                                                         *)
(* The inductive invariant is stated of any table, memory and count, as    *)
(* the functions ramfs_* take and return them: the directories form a tree *)
(* (Hangs), each file has a buffer of its own and nothing else has one     *)
(* (Owned), and file_count counts the slots in use.  Each of the functions *)
(* is shown to keep it, and then each command.  What the commands add is   *)
(* that the shell stands in a directory and that the editor's text is      *)
(* shorter than the buffers it is read into.                               *)
(*                                                                         *)
(* The second part shows that the commands do to a tree what DirTree says. *)
(* Up the parents from any slot in use the root is at most MaxFiles steps  *)
(* away, so PathIn is the names on that way; where no directory has two    *)
(* entries of one name, no two slots have one path, and the table is a     *)
(* tree with a node for each.  Each of the functions ramfs_* is then a     *)
(* change of that tree at one path, and each command a step of DirTree.    *)
(*                                                                         *)
(* The last part is about what pwd, ls, find, grep, wc and hexdump show.   *)
(* Each is a loop, and its recursive function a run of steps from a first  *)
(* value; an invariant of the steps says what it has shown so far, and at  *)
(* the end of the loop that is the whole.                                  *)
(***************************************************************************)
EXTENDS RamViews, FiniteSetTheorems, SequenceTheorems, WellFoundedInduction, TLAPS

(* One slot of the table. *)
EntryType ==
  [name : {Stored[n] : n \in Names} \cup {NULL}, data : Buffers \cup {NULL},
   size : 0 .. MaxSize, capacity : Nat,
   is_directory : BOOLEAN, parent_index : Slots, in_use : BOOLEAN]

UsedIn(fl) == {i \in Slots : fl[i].in_use}

(* A slot with a buffer. *)
IsFile(entry) == entry.in_use /\ ~entry.is_directory

Hangs(fl) ==
  /\ 0 \in UsedIn(fl) /\ fl[0].is_directory /\ fl[0].parent_index = 0
  /\ \A i \in UsedIn(fl) : /\ fl[i].parent_index \in UsedIn(fl)
                           /\ fl[fl[i].parent_index].is_directory
  /\ \A S \in SUBSET (UsedIn(fl) \ {0}) : S # {} => \E i \in S : fl[i].parent_index \notin S

(* The buffer of a file; one never empty, so that a free buffer is         *)
(* nobody's.                                                               *)
HasBuffer(entry, mm) ==
  /\ entry.data \in Buffers
  /\ Len(mm[entry.data]) = entry.capacity /\ entry.capacity > 0
  /\ entry.size <= entry.capacity /\ entry.size <= MaxSize - 1

Owned(fl, mm) ==
  /\ mm \in [Buffers -> Seq(Bytes)]
  /\ \A i \in Slots : IF IsFile(fl[i]) THEN HasBuffer(fl[i], mm) ELSE fl[i].data = NULL
  /\ \A i, j \in Slots : fl[i].data = fl[j].data /\ fl[i].data # NULL => i = j
  /\ \A b \in Buffers : mm[b] # << >> => \E i \in Slots : fl[i].data = b

Sound(s) ==
  /\ s.files \in [Slots -> EntryType]
  /\ Hangs(s.files)
  /\ Owned(s.files, s.mem)
  /\ s.count = Cardinality(UsedIn(s.files))

(* The inductive invariant. *)
RInv ==
  /\ Sound(fs)
  /\ current_dir \in UsedIn(files) /\ files[current_dir].is_directory
  /\ edit \in [on : BOOLEAN, name : Names, text : Seq(Bytes)]
  /\ Len(edit.text) <= MaxSize - 1

(* What is in use stays so, file or directory, and where it was.  *)
Keeps(fl, fl2) ==
  \A j \in UsedIn(fl) : /\ j \in UsedIn(fl2)
                        /\ fl2[j].is_directory = fl[j].is_directory
                        /\ fl2[j].parent_index = fl[j].parent_index
                        /\ fl2[j].name = fl[j].name

(* And at most one entry is new: in directory dir, under a name that was   *)
(* not found there.                                                        *)
Gains(fl, fl2, name, dir) ==
  /\ Keeps(fl, fl2)
  /\ \/ UsedIn(fl2) = UsedIn(fl)
     \/ \E i \in Slots :
          /\ UsedIn(fl2) = UsedIn(fl) \cup {i}
          /\ fl2[i].name = Stored[name] /\ fl2[i].parent_index = dir
          /\ \A j \in UsedIn(fl) : ~(fl[j].parent_index = dir /\ fl[j].name = name)

--------------------------------------------------------------------------------
(* The scans over the table end at the lowest match. *)
LEMMA Lowest ==
  ASSUME NEW S, S \subseteq Nat, S # {}
  PROVE  LowestOf(S) \in S /\ \A y \in S : LowestOf(S) <= y
<1> DEFINE R == {ss \in Nat \X Nat : ss[1] < ss[2]}
<1>1. IsWellFoundedOn(R, Nat)
  BY NatLessThanWellFounded DEF OpToRel
<1> HIDE DEF R
<1>2. \E x \in S : \A y \in S : <<y, x>> \notin R
  BY <1>1, WFMin
<1>3. \A x, y \in Nat : y < x => <<y, x>> \in R
  BY DEF R
<1>4. PICK x \in S : \A y \in S : <<y, x>> \notin R
  BY <1>2
<1>5. ASSUME NEW y \in S PROVE x <= y
  <2>1. x \in Nat /\ y \in Nat
    BY <1>5
  <2>2. ~(y < x)
    BY <2>1, <1>3, <1>4, <1>5
  <2> QED BY <2>1, <2>2
<1> QED
  BY <1>5 DEF LowestOf

(* ramfs_find_file returns a slot in use of that name in the current       *)
(* directory, or -1 if there is none.                                      *)
LEMMA FindIs ==
  ASSUME NEW name
  PROVE  \/ /\ Find(name) \in Used
            /\ files[Find(name)].parent_index = current_dir
            /\ files[Find(name)].name = name
         \/ /\ Find(name) = -1
            /\ \A i \in Used : ~(files[i].parent_index = current_dir /\ files[i].name = name)
<1> DEFINE found == {i \in Used : files[i].parent_index = current_dir /\ files[i].name = name}
<1>1. CASE found = {}
  BY <1>1 DEF Find
<1>2. CASE found # {}
  <2>1. found \subseteq Nat
    BY RamFsAssumption DEF Used, Slots
  <2>2. LowestOf(found) \in found
    BY <1>2, <2>1, Lowest
  <2>3. Find(name) = LowestOf(found)
    BY <1>2 DEF Find
  <2> QED BY <2>2, <2>3
<1> QED BY <1>1, <1>2

(* The slots are finitely many, and so are those in use. *)
LEMMA SlotsFinite ==
  ASSUME NEW S, S \subseteq Slots
  PROVE  IsFiniteSet(S) /\ Cardinality(S) \in Nat /\ Cardinality(S) <= MaxFiles
<1>1. IsFiniteSet(Slots) /\ Cardinality(Slots) = MaxFiles
  <2>1. MaxFiles \in Nat \ {0}
    BY RamFsAssumption
  <2>2. IsFiniteSet(0 .. (MaxFiles - 1)) /\ Cardinality(0 .. (MaxFiles - 1)) =
          IF 0 > MaxFiles - 1 THEN 0 ELSE (MaxFiles - 1) - 0 + 1
    BY <2>1, FS_Interval
  <2> QED BY <2>1, <2>2 DEF Slots
<1>2. IsFiniteSet(S) /\ Cardinality(S) <= Cardinality(Slots)
  BY <1>1, FS_Subset
<1> QED BY <1>1, <1>2, FS_CardinalityType

(* Dividing rounds down by less than the divisor. *)
LEMMA Quotient ==
  ASSUME NEW a \in Nat, NEW c \in Nat, c > 0
  PROVE  (a \div c) * c \in Nat /\ (a \div c) * c + c > a
<1>1. (a \div c) \in Nat
  BY Z3
<1>2. (a \div c) * c \in Nat
  BY <1>1, Z3
<1>3. (a \div c) * c + c > a
  BY Z3
<1> QED BY <1>2, <1>3

(* A new capacity holds what is needed. *)
LEMMA Rounding ==
  ASSUME NEW n \in Nat
  PROVE  RoundToChunk(n) \in Nat /\ n <= RoundToChunk(n)
<1> DEFINE a == n + Chunk - 1
<1>1. Chunk \in Nat /\ Chunk > 0 /\ a \in Nat
  BY RamFsAssumption
<1>2. (a \div Chunk) * Chunk \in Nat /\ (a \div Chunk) * Chunk + Chunk > a
  BY <1>1, Quotient
<1>3. RoundToChunk(n) = (a \div Chunk) * Chunk
  BY DEF RoundToChunk
<1> DEFINE r == (a \div Chunk) * Chunk
<1>4. r \in Nat /\ r + Chunk > n + Chunk - 1
  BY <1>2
<1> HIDE DEF r
<1> QED
  BY <1>1, <1>3, <1>4 DEF r

(* A buffer nobody has written to. *)
LEMMA FreshIs ==
  ASSUME NEW n \in Nat
  PROVE  Fresh(n) \in Seq(Bytes) /\ Len(Fresh(n)) = n
<1>1. Fresh(n) \in [1 .. n -> Bytes]
  BY DEF Fresh, Bytes
<1>2. Fresh(n) \in Seq(Bytes)
  BY <1>1, SeqDef
<1> QED
  BY <1>1, <1>2, LenProperties

(* Copying a text over a buffer keeps the buffer's length. *)
LEMMA OverKeeps ==
  ASSUME NEW text \in Seq(Bytes), NEW buf \in Seq(Bytes)
  PROVE  Over(text, buf) \in Seq(Bytes) /\ Len(Over(text, buf)) = Len(buf)
<1>1. /\ DOMAIN text = 1 .. Len(text) /\ Len(text) \in Nat /\ text \in [1 .. Len(text) -> Bytes]
      /\ DOMAIN buf = 1 .. Len(buf) /\ Len(buf) \in Nat /\ buf \in [1 .. Len(buf) -> Bytes]
  BY LenProperties
<1>2. Over(text, buf) \in [1 .. Len(buf) -> Bytes]
  BY <1>1 DEF Over
<1>3. Over(text, buf) \in Seq(Bytes)
  BY <1>1, <1>2, SeqDef
<1> QED
  BY <1>1, <1>2, <1>3, LenProperties

--------------------------------------------------------------------------------
(* A table with the same slots in use, of the same kind and at the same    *)
(* place, hangs together as before.                                        *)
LEMMA HangsKept ==
  ASSUME NEW fl, NEW fl2, Hangs(fl), UsedIn(fl2) = UsedIn(fl), Keeps(fl, fl2)
  PROVE  Hangs(fl2)
BY DEF Hangs, Keeps

(* A new entry in the current directory hangs in the tree: nothing could   *)
(* hang in its slot before.                                                *)
LEMMA HangsNew ==
  ASSUME NEW fl \in [Slots -> EntryType], Hangs(fl),
         NEW i \in Slots, i \notin UsedIn(fl), NEW e \in EntryType, e.in_use,
         NEW fl2, fl2 = [fl EXCEPT ![i] = e],
         e.parent_index \in UsedIn(fl), fl[e.parent_index].is_directory
  PROVE  /\ UsedIn(fl2) = UsedIn(fl) \cup {i}
         /\ Keeps(fl, fl2)
         /\ Hangs(fl2)
<1>1. fl2[i] = e /\ \A j \in Slots \ {i} : fl2[j] = fl[j]
  OBVIOUS
<1>2. UsedIn(fl2) = UsedIn(fl) \cup {i} /\ UsedIn(fl) \subseteq Slots
  BY <1>1 DEF UsedIn
<1>3. \A j \in UsedIn(fl) : fl2[j] = fl[j]
  BY <1>1, <1>2
<1>4. Keeps(fl, fl2)
  BY <1>2, <1>3 DEF Keeps
<1>5. ASSUME NEW S \in SUBSET (UsedIn(fl2) \ {0}), S # {}
      PROVE  \E j \in S : fl2[j].parent_index \notin S
  <2>1. CASE S \ {i} = {}
    BY <2>1, <1>1, <1>5
  <2>2. CASE S \ {i} # {}
    <3>1. S \ {i} \in SUBSET (UsedIn(fl) \ {0})
      BY <1>2
    <3>2. PICK j \in S \ {i} : fl[j].parent_index \notin S \ {i}
      BY <2>2, <3>1 DEF Hangs
    <3>3. fl[j].parent_index \in UsedIn(fl)
      BY <3>1, <3>2 DEF Hangs
    <3> QED BY <3>1, <3>2, <3>3, <1>3
  <2> QED BY <2>1, <2>2
<1>6. \A j \in UsedIn(fl2) : /\ fl2[j].parent_index \in UsedIn(fl2)
                             /\ fl2[fl2[j].parent_index].is_directory
  BY <1>1, <1>2, <1>3, ZenonT(30) DEF Hangs
<1>7. 0 \in UsedIn(fl2) /\ fl2[0].is_directory /\ fl2[0].parent_index = 0
  BY <1>2, <1>3 DEF Hangs
<1>8. Hangs(fl2)
  BY <1>5, <1>6, <1>7 DEF Hangs
<1> QED BY <1>2, <1>4, <1>8

(* Without an entry nothing hangs in, the rest of the tree hangs together. *)
LEMMA HangsLess ==
  ASSUME NEW fl \in [Slots -> EntryType], Hangs(fl), NEW i \in UsedIn(fl),
         \A j \in UsedIn(fl) : fl[j].parent_index # i,
         NEW e \in EntryType, ~e.in_use,
         NEW fl2, fl2 = [fl EXCEPT ![i] = e]
  PROVE  /\ UsedIn(fl2) = UsedIn(fl) \ {i}
         /\ Hangs(fl2)
<1>1. i \in Slots /\ fl2[i] = e /\ \A j \in Slots \ {i} : fl2[j] = fl[j]
  BY DEF UsedIn
<1>2. UsedIn(fl2) = UsedIn(fl) \ {i} /\ UsedIn(fl) \subseteq Slots
  BY <1>1 DEF UsedIn
<1>3. \A j \in UsedIn(fl) \ {i} : fl2[j] = fl[j]
  BY <1>1, <1>2
<1>4. Hangs(fl2)
  BY <1>2, <1>3 DEF Hangs
<1> QED BY <1>2, <1>4

(* A change of memory from mm to mm2 that goes with entry e in slot i      *)
(* touches no other slot's buffer and leaves none behind.                  *)
Apart(fl, mm, i, e, mm2) ==
  /\ \A j \in Slots \ {i} : fl[j].data # NULL =>
       mm2[fl[j].data] = mm[fl[j].data] /\ fl[j].data # e.data
  /\ \A b \in Buffers : mm2[b] # << >> => e.data = b \/ (mm[b] # << >> /\ fl[i].data # b)

(* Replacing the entry of one slot keeps the buffers owned, if the entry   *)
(* has a buffer nobody else has, and none is left without an owner.        *)
LEMMA OwnedStep ==
  ASSUME NEW fl \in [Slots -> EntryType], NEW mm, Owned(fl, mm),
         NEW i \in Slots, NEW e \in EntryType,
         NEW fl2, fl2 = [fl EXCEPT ![i] = e],
         NEW mm2 \in [Buffers -> Seq(Bytes)],
         IsFile(e) => HasBuffer(e, mm2), ~IsFile(e) => e.data = NULL,
         Apart(fl, mm, i, e, mm2)
  PROVE  Owned(fl2, mm2)
<1>1. fl2[i] = e /\ \A j \in Slots \ {i} : fl2[j] = fl[j]
  OBVIOUS
<1>2. NULL \notin Buffers
  BY RamFsAssumption
<1>3. \A j \in Slots : IF IsFile(fl2[j]) THEN HasBuffer(fl2[j], mm2) ELSE fl2[j].data = NULL
  <2>1. ASSUME NEW j \in Slots \ {i}, IsFile(fl[j]) PROVE HasBuffer(fl[j], mm2)
    <3>1. HasBuffer(fl[j], mm) /\ fl[j].data # NULL
      BY <2>1, <1>2 DEF Owned, HasBuffer
    <3>2. mm2[fl[j].data] = mm[fl[j].data]
      BY <3>1 DEF Apart
    <3> QED BY <3>1, <3>2 DEF HasBuffer
  <2> QED BY <1>1, <2>1 DEF Owned
<1>4. \A j, k \in Slots : fl2[j].data = fl2[k].data /\ fl2[j].data # NULL => j = k
  BY <1>1 DEF Owned, Apart
<1>5. ASSUME NEW b \in Buffers, mm2[b] # << >> PROVE \E j \in Slots : fl2[j].data = b
  BY <1>1, <1>5, SMTT(20) DEF Owned, Apart
<1>6. Owned(fl2, mm2)
  BY <1>3, <1>4, <1>5 DEF Owned
<1> QED BY <1>6

(* ramfs_create keeps the invariant: with its entry made, for want of      *)
(* memory, and when it refuses.  A file it returns is in use.              *)
LEMMA CreateSound ==
  ASSUME RInv, NEW name \in Names, NEW dir \in BOOLEAN, NEW s \in Create(name, dir)
  PROVE  /\ Sound(s) /\ Gains(files, s.files, name, current_dir)
         /\ s.result \in Int
         /\ s.result >= 0 => s.result \in UsedIn(s.files)
<1> DEFINE slots == Slots \ Used
           i     == LowestOf(slots)
<1>1. /\ files \in [Slots -> EntryType] /\ Hangs(files) /\ Owned(files, mem)
      /\ file_count = Cardinality(Used) /\ Used = UsedIn(files)
      /\ current_dir \in UsedIn(files) /\ files[current_dir].is_directory
      /\ current_dir \in Slots
  BY DEF RInv, Sound, fs, Used, UsedIn
<1>2. Stored[name] \in {Stored[n] : n \in Names} /\ Chunk \in Nat /\ Chunk > 0 /\ MaxSize \in Nat \ {0}
      /\ NULL \notin Buffers /\ 0 \in 0 .. MaxSize
  BY RamFsAssumption
<1>3. CASE s = Failed(fs, -1) \/ s = Failed(fs, -2)
  <2>1. s.files = files /\ s.mem = mem /\ s.count = file_count /\ s.result \in {-1, -2}
    BY <1>3 DEF Failed, fs
  <2> QED BY <2>1, <1>1 DEF Keeps, Gains, Sound
<1>4. ASSUME slots # {}
      PROVE  /\ i \in Slots /\ i \notin UsedIn(files) /\ i \in Int /\ i >= 0
             /\ files[i].data = NULL /\ ~IsFile(files[i])
             /\ Cardinality(UsedIn(files) \cup {i}) = file_count + 1
  <2>1. slots \subseteq Nat /\ slots \subseteq Slots
    BY RamFsAssumption DEF Slots
  <2>2. i \in slots
    BY <1>4, <2>1, Lowest
  <2>3. i \in Slots /\ i \notin UsedIn(files) /\ i \in Nat
    BY <2>1, <2>2, <1>1
  <2> HIDE DEF i
  <2>4. IsFiniteSet(UsedIn(files))
    BY SlotsFinite DEF UsedIn
  <2>5. Cardinality(UsedIn(files) \cup {i}) = Cardinality(UsedIn(files)) + 1
    BY <2>3, <2>4, FS_AddElement
  <2>6. ~files[i].in_use
    BY <2>3 DEF UsedIn
  <2>7. files[i].data = NULL /\ ~IsFile(files[i])
    BY <2>3, <2>6, <1>1 DEF Owned, IsFile
  <2> QED BY <2>3, <2>5, <2>7, <1>1
<1> DEFINE unknown == ~(Find(name) >= 0)
<1>9. ASSUME unknown
      PROVE  \A j \in UsedIn(files) : ~(files[j].parent_index = current_dir /\ files[j].name = name)
  <2>1. Find(name) \notin Used
    BY <1>9, RamFsAssumption DEF Used, Slots
  <2> QED BY <2>1, <1>1, FindIs
<1>5. CASE unknown /\ slots # {} /\ dir /\ s = With(fs, i, Entry(name, TRUE, NULL, 0), mem, file_count + 1)
  <2> DEFINE e == Entry(name, TRUE, NULL, 0)
  <2>0. /\ i \in Slots /\ i \notin UsedIn(files) /\ i \in Int /\ i >= 0
        /\ files[i].data = NULL /\ ~IsFile(files[i])
        /\ Cardinality(UsedIn(files) \cup {i}) = file_count + 1
    BY <1>4, <1>5
  <2> HIDE DEF i
  <2>1. e \in EntryType /\ e.in_use /\ e.is_directory /\ e.data = NULL /\ e.parent_index = current_dir
    BY <1>1, <1>2 DEF Entry, EntryType
  <2>2. s.files = [files EXCEPT ![i] = e] /\ s.mem = mem /\ s.count = file_count + 1 /\ s.result = i
    BY <1>5 DEF With, fs
  <2> HIDE DEF e
  <2>3. UsedIn(s.files) = UsedIn(files) \cup {i} /\ Keeps(files, s.files) /\ Hangs(s.files)
    <3>1. e.parent_index \in UsedIn(files) /\ files[e.parent_index].is_directory
      BY <1>1, <2>1
    <3>2. files \in [Slots -> EntryType] /\ Hangs(files) /\ i \in Slots /\ i \notin UsedIn(files)
      BY <1>1, <2>0
    <3>3. e \in EntryType /\ e.in_use /\ s.files = [files EXCEPT ![i] = e]
      BY <2>1, <2>2
    <3> QED BY ONLY <3>1, <3>2, <3>3, HangsNew
  <2>4. Owned(s.files, s.mem)
    BY <1>1, <2>0, <2>1, <2>2, OwnedStep DEF Owned, IsFile, Apart
  <2>5. s.files \in [Slots -> EntryType]
    BY <1>1, <2>1, <2>2
  <2>11. Gains(files, s.files, name, current_dir)
    <3>1. s.files[i] = e
      BY <1>1, <2>0, <2>1, <2>2
    <3>2. e.name = Stored[name]
      BY DEF e, Entry
    <3>3. s.files[i].name = Stored[name] /\ s.files[i].parent_index = current_dir
      BY <2>1, <2>2, <3>1, <3>2
    <3>4. \A j \in UsedIn(files) : ~(files[j].parent_index = current_dir /\ files[j].name = name)
      BY <1>5, <1>9
    <3> QED BY <2>0, <2>2, <2>3, <3>3, <3>4 DEF Gains
  <2> QED BY <2>0, <2>2, <2>3, <2>4, <2>5, <2>11 DEF Sound
<1>6. CASE /\ unknown /\ slots # {}
           /\ \E b \in Free(fs) : s = With(fs, i, Entry(name, FALSE, b, Chunk),
                                            [mem EXCEPT ![b] = Fresh(Chunk)], file_count + 1)
  <2>0. /\ i \in Slots /\ i \notin UsedIn(files) /\ i \in Int /\ i >= 0
        /\ files[i].data = NULL /\ ~IsFile(files[i])
        /\ Cardinality(UsedIn(files) \cup {i}) = file_count + 1
    BY <1>4, <1>6
  <2> HIDE DEF i
  <2>1. PICK b \in Free(fs) : s = With(fs, i, Entry(name, FALSE, b, Chunk),
                                       [mem EXCEPT ![b] = Fresh(Chunk)], file_count + 1)
    BY <1>6
  <2> DEFINE e  == Entry(name, FALSE, b, Chunk)
             mm == [mem EXCEPT ![b] = Fresh(Chunk)]
  <2>2. b \in Buffers /\ mem[b] = << >>
    BY DEF Free, fs
  <2>3. /\ e \in EntryType /\ e.in_use /\ ~e.is_directory /\ e.data = b
        /\ e.parent_index = current_dir /\ e.capacity = Chunk /\ e.size = 0
    BY <1>1, <1>2, <2>2 DEF Entry, EntryType
  <2>4. s.files = [files EXCEPT ![i] = e] /\ s.mem = mm /\ s.count = file_count + 1 /\ s.result = i
    BY <2>1 DEF With, fs
  <2>5. mm \in [Buffers -> Seq(Bytes)] /\ Len(mm[b]) = Chunk /\ \A x \in Buffers \ {b} : mm[x] = mem[x]
    BY <1>1, <1>2, <2>2, FreshIs DEF Owned
  <2> HIDE DEF e, mm
  <2>6. UsedIn(s.files) = UsedIn(files) \cup {i} /\ Keeps(files, s.files) /\ Hangs(s.files)
    <3>1. e.parent_index \in UsedIn(files) /\ files[e.parent_index].is_directory
      BY <1>1, <2>3
    <3>2. files \in [Slots -> EntryType] /\ Hangs(files) /\ i \in Slots /\ i \notin UsedIn(files)
      BY <1>1, <2>0
    <3>3. e \in EntryType /\ e.in_use /\ s.files = [files EXCEPT ![i] = e]
      BY <2>3, <2>4
    <3> QED BY ONLY <3>1, <3>2, <3>3, HangsNew
  <2>7. \A j \in Slots : files[j].data # NULL => files[j].data \in Buffers \ {b}
    <3>1. ASSUME NEW j \in Slots, files[j].data # NULL PROVE files[j].data \in Buffers \ {b}
      <4>1. HasBuffer(files[j], mem)
        BY <1>1, <3>1 DEF Owned
      <4>2. files[j].data # b
        BY <4>1, <2>2, EmptySeq DEF HasBuffer
      <4> QED BY <4>1, <4>2 DEF HasBuffer
    <3> QED BY <3>1
  <2>8. HasBuffer(e, mm)
    BY <1>2, <2>2, <2>3, <2>5 DEF HasBuffer
  <2>9. Owned(s.files, s.mem)
    <3>1. \A j \in Slots \ {i} : files[j].data # NULL =>
            mm[files[j].data] = mem[files[j].data] /\ files[j].data # e.data
      BY <2>3, <2>5, <2>7
    <3>2. \A x \in Buffers : mm[x] # << >> => e.data = x \/ (mem[x] # << >> /\ files[i].data # x)
      BY <1>2, <2>0, <2>3, <2>5
    <3>a. Apart(files, mem, i, e, mm)
      BY <3>1, <3>2 DEF Apart
    <3>3. (IsFile(e) => HasBuffer(e, mm)) /\ (~IsFile(e) => e.data = NULL)
      BY <2>3, <2>8 DEF IsFile
    <3>4. files \in [Slots -> EntryType] /\ Owned(files, mem) /\ i \in Slots
      BY <1>1, <2>0
    <3>5. /\ e \in EntryType /\ s.files = [files EXCEPT ![i] = e]
          /\ mm \in [Buffers -> Seq(Bytes)] /\ s.mem = mm
      BY <2>3, <2>4, <2>5
    <3>6. Owned(s.files, mm)
      BY ONLY <3>a, <3>3, <3>4, <3>5, OwnedStep
    <3> QED BY <3>5, <3>6
  <2>10. s.files \in [Slots -> EntryType]
    BY <1>1, <2>3, <2>4
  <2>11. Gains(files, s.files, name, current_dir)
    <3>1. s.files[i] = e
      BY <1>1, <2>0, <2>3, <2>4
    <3>2. e.name = Stored[name]
      BY DEF e, Entry
    <3>3. s.files[i].name = Stored[name] /\ s.files[i].parent_index = current_dir
      BY <2>3, <2>4, <3>1, <3>2
    <3>4. \A j \in UsedIn(files) : ~(files[j].parent_index = current_dir /\ files[j].name = name)
      BY <1>6, <1>9
    <3> QED BY <2>0, <2>4, <2>6, <3>3, <3>4 DEF Gains
  <2> QED BY <2>0, <2>4, <2>6, <2>9, <2>10, <2>11 DEF Sound
<1>7. CASE /\ slots # {}
           /\ s = [With(fs, i, [files[i] EXCEPT !.name = Stored[name], !.data = NULL], mem, file_count)
                     EXCEPT !.result = -3]
  <2> DEFINE e == [files[i] EXCEPT !.name = Stored[name], !.data = NULL]
  <2>0. /\ i \in Slots /\ i \notin UsedIn(files) /\ i \in Int /\ i >= 0
        /\ files[i].data = NULL /\ ~IsFile(files[i])
        /\ Cardinality(UsedIn(files) \cup {i}) = file_count + 1
    BY <1>4, <1>7
  <2> HIDE DEF i
  <2>1. files[i] \in EntryType /\ ~files[i].in_use
    BY <1>1, <1>4, <1>7 DEF UsedIn
  <2>2. e \in EntryType /\ ~e.in_use /\ e.data = NULL
    BY <1>2, <2>1 DEF EntryType
  <2>3. s.files = [files EXCEPT ![i] = e] /\ s.mem = mem /\ s.count = file_count /\ s.result = -3
    BY <1>7 DEF With, fs
  <2> HIDE DEF e
  <2>4. UsedIn(s.files) = UsedIn(files) /\ Keeps(files, s.files)
    BY <1>1, <2>0, <2>1, <2>2, <2>3 DEF UsedIn, Keeps
  <2>5. Hangs(s.files)
    BY <1>1, <2>4, HangsKept
  <2>6. Owned(s.files, s.mem)
    BY <1>1, <2>0, <2>2, <2>3, OwnedStep DEF Owned, IsFile, Apart
  <2>7. s.files \in [Slots -> EntryType]
    BY <1>1, <2>2, <2>3
  <2> QED BY <1>1, <2>3, <2>4, <2>5, <2>6, <2>7 DEF Sound, Gains
<1>8. \/ s = Failed(fs, -1) \/ s = Failed(fs, -2)
      \/ unknown /\ slots # {} /\ dir /\ s = With(fs, i, Entry(name, TRUE, NULL, 0), mem, file_count + 1)
      \/ /\ unknown /\ slots # {}
         /\ \E b \in Free(fs) : s = With(fs, i, Entry(name, FALSE, b, Chunk),
                                            [mem EXCEPT ![b] = Fresh(Chunk)], file_count + 1)
      \/ /\ slots # {}
         /\ s = [With(fs, i, [files[i] EXCEPT !.name = Stored[name], !.data = NULL], mem, file_count)
                     EXCEPT !.result = -3]
  BY DEF Create
<1> QED BY <1>3, <1>5, <1>6, <1>7, <1>8

(* A file has a buffer, and every other buffer of the table is another.    *)
LEMMA BufferOf ==
  ASSUME NEW fl, NEW mm, Owned(fl, mm), NEW i \in Slots, fl[i].data # NULL
  PROVE  /\ IsFile(fl[i]) /\ HasBuffer(fl[i], mm)
         /\ fl[i].data \in Buffers
         /\ mm[fl[i].data] # << >>
         /\ \A j \in Slots \ {i} : fl[j].data # fl[i].data
<1>1. IsFile(fl[i]) /\ HasBuffer(fl[i], mm)
  BY DEF Owned
<1>2. mm[fl[i].data] # << >>
  BY <1>1, EmptySeq DEF HasBuffer
<1>3. \A j \in Slots \ {i} : fl[j].data # fl[i].data
  BY DEF Owned
<1> QED BY <1>1, <1>2, <1>3 DEF HasBuffer

(* A file in use gets another size, and perhaps another buffer: it stays   *)
(* what and where it was.                                                  *)
LEMMA ResizeSound ==
  ASSUME NEW s, Sound(s), NEW i \in UsedIn(s.files), NEW e \in EntryType,
         e.in_use, e.is_directory = s.files[i].is_directory,
         e.parent_index = s.files[i].parent_index, e.name = s.files[i].name,
         NEW mm2 \in [Buffers -> Seq(Bytes)],
         IsFile(e) => HasBuffer(e, mm2), ~IsFile(e) => e.data = NULL,
         Apart(s.files, s.mem, i, e, mm2)
  PROVE  /\ Sound(With(s, i, e, mm2, s.count))
         /\ Keeps(s.files, With(s, i, e, mm2, s.count).files)
         /\ UsedIn(With(s, i, e, mm2, s.count).files) = UsedIn(s.files)
<1> DEFINE fl  == s.files
           fl2 == [fl EXCEPT ![i] = e]
           t   == With(s, i, e, mm2, s.count)
<1>1. t.files = fl2 /\ t.mem = mm2 /\ t.count = s.count
  BY DEF With
<1>2. fl \in [Slots -> EntryType] /\ Hangs(fl) /\ Owned(fl, s.mem) /\ i \in Slots
  BY DEF Sound, UsedIn
<1>3. fl2 \in [Slots -> EntryType] /\ fl2[i] = e /\ \A j \in Slots \ {i} : fl2[j] = fl[j]
  BY <1>2
<1> HIDE DEF fl2
<1>4. UsedIn(fl2) = UsedIn(fl)
  BY <1>2, <1>3 DEF UsedIn
<1>5. Keeps(fl, fl2)
  BY <1>2, <1>3, <1>4 DEF UsedIn, Keeps
<1>6. Hangs(fl2)
  BY ONLY <1>2, <1>4, <1>5, HangsKept
<1>7. Owned(fl2, mm2)
  BY <1>2, OwnedStep DEF fl2
<1>8. Cardinality(UsedIn(fl2)) = s.count
  BY <1>4 DEF Sound
<1> HIDE DEF t, fl
<1>9. t.files \in [Slots -> EntryType] /\ Hangs(t.files) /\ Owned(t.files, t.mem)
      /\ t.count = Cardinality(UsedIn(t.files)) /\ Keeps(fl, t.files)
      /\ UsedIn(t.files) = UsedIn(fl)
  BY <1>1, <1>3, <1>4, <1>5, <1>6, <1>7, <1>8
<1> QED BY <1>9 DEF Sound, t, fl

(* ramfs_write_file keeps the invariant from the file it has found or      *)
(* created on: in place, with a larger buffer, and without memory for one. *)
LEMMA PutSound ==
  ASSUME NEW s, Sound(s), NEW i \in UsedIn(s.files),
         NEW text \in Seq(Bytes), Len(text) <= MaxSize - 1,
         NEW t \in Put(s, i, text)
  PROVE  Sound(t) /\ Keeps(s.files, t.files) /\ UsedIn(t.files) = UsedIn(s.files)
<1> DEFINE file == s.files[i]
           n    == Len(text)
<1>1. /\ s.files \in [Slots -> EntryType] /\ Owned(s.files, s.mem) /\ i \in Slots
      /\ file \in EntryType /\ file.in_use
      /\ s.mem \in [Buffers -> Seq(Bytes)] /\ NULL \notin Buffers
  BY RamFsAssumption DEF Sound, UsedIn, Owned
<1>2. n \in Nat /\ n \in 0 .. MaxSize /\ MaxSize \in Nat \ {0}
  BY RamFsAssumption, LenProperties
<1> HIDE DEF n
<1>3. ASSUME NEW code, t = Failed(s, code)
      PROVE  Sound(t) /\ Keeps(s.files, t.files) /\ UsedIn(t.files) = UsedIn(s.files)
  <2>1. t.files = s.files /\ t.mem = s.mem /\ t.count = s.count
    BY <1>3 DEF Failed
  <2> QED BY <2>1 DEF Keeps, Sound
<1>4. ASSUME ~file.is_directory
      PROVE  /\ file.data \in Buffers /\ file.data # NULL /\ IsFile(file)
             /\ HasBuffer(file, s.mem) /\ s.mem[file.data] # << >>
             /\ \A j \in Slots \ {i} : s.files[j].data # file.data
  <2>1. IsFile(file) /\ HasBuffer(file, s.mem)
    BY <1>1, <1>4 DEF Owned, IsFile
  <2>2. file.data \in Buffers /\ file.data # NULL
    BY <2>1, <1>1 DEF HasBuffer
  <2> QED BY <1>1, <2>1, <2>2, BufferOf
<1>5. CASE /\ ~file.is_directory /\ n <= file.capacity
           /\ t = With(s, i, [file EXCEPT !.size = n],
                        [s.mem EXCEPT ![file.data] = Over(text, @)], s.count)
  <2> DEFINE e  == [file EXCEPT !.size = n]
             mm == [s.mem EXCEPT ![file.data] = Over(text, @)]
  <2>1. /\ e \in EntryType /\ e.in_use /\ e.is_directory = file.is_directory
        /\ e.parent_index = file.parent_index /\ e.name = file.name
        /\ e.data = file.data /\ e.capacity = file.capacity /\ e.size = n
    BY <1>1, <1>2 DEF EntryType
  <2>2. /\ mm \in [Buffers -> Seq(Bytes)]
        /\ Len(mm[file.data]) = Len(s.mem[file.data])
        /\ \A b \in Buffers \ {file.data} : mm[b] = s.mem[b]
    BY <1>1, <1>4, <1>5, OverKeeps
  <2>3. t = With(s, i, e, mm, s.count)
    BY <1>5
  <2> HIDE DEF e, mm
  <2>4. HasBuffer(e, mm)
    BY <1>2, <1>4, <1>5, <2>1, <2>2 DEF HasBuffer, n
  <2>5. IsFile(e)
    BY <1>5, <2>1 DEF IsFile
  <2>6. Apart(s.files, s.mem, i, e, mm)
    <3>1. ASSUME NEW j \in Slots \ {i}, s.files[j].data # NULL
          PROVE  mm[s.files[j].data] = s.mem[s.files[j].data] /\ s.files[j].data # e.data
      <4>1. s.files[j].data \in Buffers /\ s.files[j].data # file.data
        BY <1>1, <1>4, <1>5, <3>1, BufferOf
      <4> QED BY <4>1, <2>1, <2>2
    <3>2. \A b \in Buffers : mm[b] # << >> => e.data = b \/ (s.mem[b] # << >> /\ file.data # b)
      BY <2>1, <2>2
    <3> QED BY <3>1, <3>2 DEF Apart
  <2> QED BY <2>1, <2>2, <2>3, <2>4, <2>5, <2>6, ResizeSound
<1>6. ASSUME ~file.is_directory, ~(n <= file.capacity), NEW b \in Free(s),
             t = With(s, i, [file EXCEPT !.size = n, !.data = b, !.capacity = RoundToChunk(n)],
                      [s.mem EXCEPT ![b] = Over(text, Fresh(RoundToChunk(n))), ![file.data] = << >>],
                      s.count)
      PROVE  Sound(t) /\ Keeps(s.files, t.files) /\ UsedIn(t.files) = UsedIn(s.files)
  <2> DEFINE new == Over(text, Fresh(RoundToChunk(n)))
             e   == [file EXCEPT !.size = n, !.data = b, !.capacity = RoundToChunk(n)]
             mm  == [s.mem EXCEPT ![b] = new, ![file.data] = << >>]
  <2>1. RoundToChunk(n) \in Nat /\ n <= RoundToChunk(n)
    BY <1>2, Rounding
  <2>2. b \in Buffers /\ s.mem[b] = << >> /\ b # file.data
    BY <1>4, <1>6 DEF Free
  <2>3. /\ e \in EntryType /\ e.in_use /\ e.is_directory = file.is_directory
        /\ e.parent_index = file.parent_index /\ e.name = file.name
        /\ e.data = b /\ e.capacity = RoundToChunk(n) /\ e.size = n
    BY <1>1, <1>2, <2>1, <2>2 DEF EntryType
  <2>4. new \in Seq(Bytes) /\ Len(new) = RoundToChunk(n)
    BY <2>1, FreshIs, OverKeeps
  <2>5. t = With(s, i, e, mm, s.count)
    BY <1>6
  <2> HIDE DEF new, e
  <2>6. << >> \in Seq(Bytes)
    BY EmptySeq
  <2>7. /\ mm \in [Buffers -> Seq(Bytes)] /\ mm[b] = new /\ mm[file.data] = << >>
        /\ \A x \in Buffers \ {b, file.data} : mm[x] = s.mem[x]
    BY <1>1, <1>4, <1>6, <2>2, <2>4, <2>6
  <2> HIDE DEF mm
  <2>8. file.capacity \in Nat
    BY <1>1 DEF EntryType
  <2>9. HasBuffer(e, mm)
    BY <1>2, <1>6, <2>1, <2>2, <2>3, <2>4, <2>7, <2>8 DEF HasBuffer, n
  <2>10. IsFile(e)
    BY <1>6, <2>3 DEF IsFile
  <2>11. Apart(s.files, s.mem, i, e, mm)
    <3>1. ASSUME NEW j \in Slots \ {i}, s.files[j].data # NULL
          PROVE  mm[s.files[j].data] = s.mem[s.files[j].data] /\ s.files[j].data # e.data
      <4>1. s.files[j].data \in Buffers /\ s.files[j].data # file.data /\ s.mem[s.files[j].data] # << >>
        BY <1>1, <1>4, <1>6, <3>1, BufferOf
      <4> QED BY <4>1, <2>2, <2>3, <2>7
    <3>2. \A x \in Buffers : mm[x] # << >> => e.data = x \/ (s.mem[x] # << >> /\ file.data # x)
      BY <2>3, <2>7
    <3> QED BY <3>1, <3>2 DEF Apart
  <2> QED BY <2>3, <2>5, <2>7, <2>9, <2>10, <2>11, ResizeSound
<1>7. \/ t = Failed(s, -1) \/ t = Failed(s, -3)
      \/ /\ ~file.is_directory /\ n <= file.capacity
         /\ t = With(s, i, [file EXCEPT !.size = n],
                     [s.mem EXCEPT ![file.data] = Over(text, @)], s.count)
      \/ /\ ~file.is_directory /\ ~(n <= file.capacity)
         /\ \E b \in Free(s) :
              t = With(s, i, [file EXCEPT !.size = n, !.data = b, !.capacity = RoundToChunk(n)],
                      [s.mem EXCEPT ![b] = Over(text, Fresh(RoundToChunk(n))), ![file.data] = << >>],
                      s.count)
  BY DEF Put, n
<1> QED BY <1>3, <1>5, <1>6, <1>7

(* A text put into a file adds no entry to what was there. *)
LEMMA GainsBoth ==
  ASSUME NEW fl, NEW fl2, NEW fl3, NEW name, NEW dir,
         Gains(fl, fl2, name, dir), Keeps(fl2, fl3), UsedIn(fl3) = UsedIn(fl2)
  PROVE  Gains(fl, fl3, name, dir)
<1>1. Keeps(fl, fl3)
  BY DEF Keeps, Gains
<1>2. CASE UsedIn(fl2) = UsedIn(fl)
  BY <1>1, <1>2 DEF Gains
<1>3. ASSUME NEW i \in Slots, UsedIn(fl2) = UsedIn(fl) \cup {i},
             fl2[i].name = Stored[name], fl2[i].parent_index = dir,
             \A j \in UsedIn(fl) : ~(fl[j].parent_index = dir /\ fl[j].name = name)
      PROVE  Gains(fl, fl3, name, dir)
  <2>1. fl3[i].name = Stored[name] /\ fl3[i].parent_index = dir
    BY <1>3 DEF Keeps
  <2> QED BY <1>1, <1>3, <2>1 DEF Gains
<1> QED BY <1>2, <1>3 DEF Gains

(* ramfs_write_file keeps the invariant, whether it finds the file,        *)
(* creates it, or can do neither.                                          *)
LEMMA WriteFileSound ==
  ASSUME RInv, NEW name \in Names, NEW text \in Seq(Bytes), Len(text) <= MaxSize - 1,
         NEW t \in WriteFile(name, text)
  PROVE  Sound(t) /\ Gains(files, t.files, name, current_dir)
<1>1. CASE Find(name) >= 0 /\ t \in Put(fs, Find(name), text)
  <2>1. Find(name) \in UsedIn(fs.files) /\ fs.files = files
    BY <1>1, FindIs DEF Used, UsedIn, fs
  <2>2. Sound(fs)
    BY DEF RInv
  <2>3. Sound(t) /\ Keeps(fs.files, t.files) /\ UsedIn(t.files) = UsedIn(fs.files)
    BY <1>1, <2>1, <2>2, PutSound
  <2> QED BY <2>1, <2>3 DEF Gains
<1>2. ASSUME NEW s \in Create(name, FALSE), t \in (IF s.result < 0 THEN {s} ELSE Put(s, s.result, text))
      PROVE  Sound(t) /\ Gains(files, t.files, name, current_dir)
  <2>1. /\ Sound(s) /\ Gains(files, s.files, name, current_dir) /\ s.result \in Int
        /\ s.result >= 0 => s.result \in UsedIn(s.files)
    BY CreateSound
  <2>2. CASE s.result < 0
    BY <1>2, <2>1, <2>2
  <2>3. CASE ~(s.result < 0)
    <3>1. s.result \in UsedIn(s.files) /\ t \in Put(s, s.result, text)
      BY <1>2, <2>1, <2>3
    <3>2. Sound(t) /\ Keeps(s.files, t.files) /\ UsedIn(t.files) = UsedIn(s.files)
      BY <2>1, <3>1, PutSound
    <3> QED BY <2>1, <3>2, GainsBoth
  <2> QED BY <2>2, <2>3
<1>3. \/ Find(name) >= 0 /\ t \in Put(fs, Find(name), text)
      \/ \E s \in Create(name, FALSE) : t \in (IF s.result < 0 THEN {s} ELSE Put(s, s.result, text))
  BY DEF WriteFile
<1> QED BY <1>1, <1>2, <1>3

--------------------------------------------------------------------------------
(* What ramfs_read_file reads is the whole of a file, and fits the         *)
(* editor's buffer.                                                        *)
LEMMA ReadFileIs ==
  ASSUME RInv, NEW name \in Names, ReadFile(name) # NULL
  PROVE  ReadFile(name) \in Seq(Bytes) /\ Len(ReadFile(name)) <= MaxSize - 1
<1> DEFINE i == Find(name)
           file == files[i]
<1>1. MaxSize \in Nat \ {0} /\ NULL \notin Buffers
  BY RamFsAssumption
<1>2. i >= 0 /\ ~file.is_directory
  <2>1. ~(i < 0 \/ file.is_directory)
    BY DEF ReadFile
  <2>2. i \in Int
    BY FindIs, RamFsAssumption DEF Used, Slots
  <2> HIDE DEF i
  <2> QED BY <2>1, <2>2
<1>3. i \in Used /\ i \in Slots
  BY <1>2, FindIs DEF Used
<1> HIDE DEF i
<1>4. /\ files \in [Slots -> EntryType] /\ Owned(files, mem) /\ file \in EntryType
      /\ mem \in [Buffers -> Seq(Bytes)]
  BY <1>3 DEF RInv, Sound, fs, Owned
<1>5. HasBuffer(file, mem)
  BY <1>2, <1>3, <1>4 DEF Owned, IsFile, Used
<1>6. mem[file.data] \in Seq(Bytes) /\ file.size \in Nat /\ file.size <= Len(mem[file.data])
  BY <1>1, <1>4, <1>5 DEF HasBuffer, EntryType
<1>7. Contents(i) \in Seq(Bytes) /\ Len(Contents(i)) = file.size
  <2>1. SubSeq(mem[file.data], 1, file.size) \in Seq(Bytes)
    BY <1>6, SubSeqProperties
  <2>2. Len(SubSeq(mem[file.data], 1, file.size)) = file.size
    BY <1>6, SubSeqProperties
  <2> QED BY <2>1, <2>2 DEF Contents
<1>8. file.size <= MaxSize - 1
  BY <1>5 DEF HasBuffer
<1>9. CASE file.size < MaxSize - 1
  <2>1. ReadFile(name) = Contents(i)
    BY <1>2, <1>9 DEF ReadFile, i
  <2> QED BY <2>1, <1>7, <1>8
<1>10. CASE ~(file.size < MaxSize - 1)
  <2>1. ReadFile(name) = SubSeq(Contents(i), 1, MaxSize - 1)
    BY <1>2, <1>10 DEF ReadFile, i
  <2>2. Len(Contents(i)) = MaxSize - 1 /\ MaxSize - 1 \in Nat
    BY <1>1, <1>6, <1>7, <1>8, <1>10
  <2>3. SubSeq(Contents(i), 1, MaxSize - 1) \in Seq(Bytes)
    BY <1>7, <2>2, SubSeqProperties
  <2>4. Len(SubSeq(Contents(i), 1, MaxSize - 1)) = MaxSize - 1
    BY <1>7, <2>2, SubSeqProperties
  <2> QED BY <2>1, <2>2, <2>3, <2>4
<1> QED BY <1>9, <1>10

(* A sound file system in place of the old one that keeps the entries      *)
(* keeps the invariant, when the shell stays where it is and the editor is *)
(* as before or closed.                                                    *)
LEMMA BecomesSound ==
  ASSUME RInv, NEW s, Sound(s), Keeps(files, s.files), Becomes(s),
         current_dir' = current_dir, edit' = edit \/ edit' = Closed
  PROVE  RInv'
<1>1. files' = s.files /\ mem' = s.mem /\ file_count' = s.count
  BY DEF Becomes
<1>2. fs' = [files |-> s.files, count |-> s.count, mem |-> s.mem]
  BY <1>1 DEF fs
<1>3. Sound(fs')
  BY <1>2 DEF Sound
<1>4. current_dir' \in UsedIn(files') /\ files'[current_dir'].is_directory
  BY <1>1 DEF RInv, Keeps
<1>5. edit' \in [on : BOOLEAN, name : Names, text : Seq(Bytes)] /\ Len(edit'.text) <= MaxSize - 1
  <2>1. CASE edit' = edit BY <2>1 DEF RInv
  <2>2. CASE edit' = Closed
    <3>1. "/" \in Names /\ MaxSize \in Nat \ {0} /\ << >> \in Seq(Bytes) /\ Len(<< >>) = 0
      BY RamFsAssumption, EmptySeq
    <3> QED BY <2>2, <3>1 DEF Closed
  <2> QED BY <2>1, <2>2
<1> QED BY <1>3, <1>4, <1>5 DEF RInv, UsedIn, fs

(* mkdir *)
LEMMA MkdirStep == ASSUME RInv, NEW n \in Names, cmd_mkdir(n) PROVE RInv'
<1>1. PICK s \in Create(n, TRUE) : Becomes(s)
  BY DEF cmd_mkdir
<1>2. Sound(s) /\ Keeps(files, s.files)
  BY CreateSound DEF Gains
<1> QED BY <1>1, <1>2, BecomesSound DEF cmd_mkdir

(* touch *)
LEMMA TouchStep == ASSUME RInv, NEW n \in Names, cmd_touch(n) PROVE RInv'
<1>1. CASE Find(n) >= 0
  <2>1. UNCHANGED <<files, file_count, mem, current_dir, edit>>
    BY <1>1 DEF cmd_touch
  <2> QED BY <2>1 DEF RInv, fs
<1>2. CASE ~(Find(n) >= 0)
  <2>1. PICK s \in WriteFile(n, << >>) : Becomes(s)
    BY <1>2 DEF cmd_touch
  <2>2. << >> \in Seq(Bytes) /\ Len(<< >>) <= MaxSize - 1
    BY RamFsAssumption, EmptySeq
  <2>3. Sound(s) /\ Keeps(files, s.files)
    BY <2>2, WriteFileSound DEF Gains
  <2> QED BY <2>1, <2>3, BecomesSound DEF cmd_touch
<1> QED BY <1>1, <1>2

(* rm: the entry it finds is in the current directory, so an entry nothing *)
(* hangs in is neither the root nor the current directory.                 *)
LEMMA RmStep == ASSUME RInv, NEW n \in Names, cmd_rm(n) PROVE RInv'
<1> DEFINE i == Find(n)
<1>1. CASE i < 0 \/ HasEntry(i)
  <2>1. UNCHANGED <<files, file_count, mem, current_dir, edit>>
    BY <1>1 DEF cmd_rm
  <2> QED BY <2>1 DEF RInv, fs
<1>2. CASE ~(i < 0 \/ HasEntry(i))
  <2>1. /\ mem' = IF files[i].data # NULL THEN [mem EXCEPT ![files[i].data] = << >>] ELSE mem
        /\ files' = [files EXCEPT ![i] = Unused]
        /\ file_count' = file_count - 1
        /\ UNCHANGED <<current_dir, edit>>
    BY <1>2 DEF cmd_rm
  <2>2. i \in Used /\ files[i].parent_index = current_dir
    BY <1>2, FindIs
  <2>3. ~HasEntry(i)
    BY <1>2
  <2> HIDE DEF i
  <2>4. /\ files \in [Slots -> EntryType] /\ Hangs(files) /\ Owned(files, mem)
        /\ file_count = Cardinality(UsedIn(files)) /\ mem \in [Buffers -> Seq(Bytes)]
        /\ current_dir \in UsedIn(files) /\ files[current_dir].is_directory
        /\ Used = UsedIn(files) /\ i \in Slots
    BY <2>2 DEF RInv, Sound, fs, Owned, Used, UsedIn
  <2>5. \A j \in UsedIn(files) : files[j].parent_index # i
    BY <2>3, <2>4 DEF HasEntry, Hangs
  <2>6. current_dir # i
    BY <2>2, <2>4, <2>5
  <2>7. Unused \in EntryType /\ ~Unused.in_use /\ Unused.data = NULL
    BY RamFsAssumption DEF Unused, EntryType, Slots
  <2>8. UsedIn(files') = UsedIn(files) \ {i} /\ Hangs(files')
    <3>1. i \in UsedIn(files)
      BY <2>2, <2>4
    <3> QED BY <2>1, <2>4, <2>5, <2>7, <3>1, HangsLess
  <2>9. file_count' = Cardinality(UsedIn(files'))
    <3>1. IsFiniteSet(UsedIn(files)) /\ Cardinality(UsedIn(files)) \in Nat
      BY SlotsFinite DEF UsedIn
    <3>2. Cardinality(UsedIn(files) \ {i}) = Cardinality(UsedIn(files)) - 1
      BY <2>2, <2>4, <3>1, FS_RemoveElement
    <3> QED BY <2>1, <2>4, <2>8, <3>2
  <2>10. mem' \in [Buffers -> Seq(Bytes)]
    <3>1. << >> \in Seq(Bytes)
      BY EmptySeq
    <3> QED BY <2>1, <2>4, <3>1
  <2>11. Apart(files, mem, i, Unused, mem')
    <3>1. CASE files[i].data = NULL
      <4>1. \A b \in Buffers : files[i].data # b
        BY <3>1, RamFsAssumption
      <4> QED BY <2>1, <2>7, <3>1, <4>1 DEF Apart
    <3>2. CASE files[i].data # NULL
      <4> DEFINE d == files[i].data
      <4>1. d \in Buffers /\ \A j \in Slots \ {i} : files[j].data # d
        BY <2>4, <3>2, BufferOf
      <4>2. mem'[d] = << >> /\ \A b \in Buffers \ {d} : mem'[b] = mem[b]
        BY <2>1, <2>4, <3>2, <4>1
      <4>3. \A j \in Slots : files[j].data # NULL => files[j].data \in Buffers
        BY <2>4, BufferOf
      <4> QED BY <2>7, <4>1, <4>2, <4>3 DEF Apart
    <3> QED BY <3>1, <3>2
  <2>12. Owned(files', mem')
    <3>1. ~IsFile(Unused)
      BY <2>7 DEF IsFile
    <3> QED BY <2>1, <2>4, <2>7, <2>10, <2>11, <3>1, OwnedStep
  <2>13. files' \in [Slots -> EntryType]
    BY <2>1, <2>4, <2>7
  <2>14. current_dir' \in UsedIn(files') /\ files'[current_dir'].is_directory
    <3>1. current_dir \in Slots
      BY <2>4 DEF UsedIn
    <3>2. files'[current_dir] = files[current_dir]
      BY <2>1, <2>4, <2>6, <3>1
    <3> QED BY <2>1, <2>4, <2>6, <2>8, <3>2
  <2>15. Sound(fs')
    BY <2>8, <2>9, <2>12, <2>13 DEF Sound, fs
  <2>16. edit' \in [on : BOOLEAN, name : Names, text : Seq(Bytes)] /\ Len(edit'.text) <= MaxSize - 1
    BY <2>1 DEF RInv
  <2> QED BY <2>14, <2>15, <2>16 DEF RInv, UsedIn, fs
<1> QED BY <1>1, <1>2

(* cd: up, to the root, or into a directory it finds. *)
LEMMA CdStep == ASSUME RInv, NEW n \in Names, cmd_cd(n) PROVE RInv'
<1>1. /\ Hangs(files) /\ current_dir \in UsedIn(files) /\ files[current_dir].is_directory
      /\ Used = UsedIn(files)
  BY DEF RInv, Sound, fs, Used, UsedIn
<1>2. UNCHANGED <<files, file_count, mem, edit>>
  BY DEF cmd_cd
<1>3. \/ current_dir' = files[current_dir].parent_index
      \/ current_dir' = 0
      \/ current_dir' = current_dir
      \/ Find(n) \in Used /\ files[Find(n)].is_directory /\ current_dir' = Find(n)
  <2> DEFINE i == Find(n)
  <2>1. i \in Used \/ i = -1
    BY FindIs
  <2>2. i \in Int /\ (i = -1 => i < 0)
    BY <2>1, RamFsAssumption DEF Used, Slots
  <2>3. CASE n = ".."
    BY <2>3 DEF cmd_cd
  <2>4. CASE n = "/"
    BY <2>4 DEF cmd_cd
  <2>5. CASE n # ".." /\ n # "/"
    <3>1. IF i < 0 \/ ~files[i].is_directory THEN current_dir' = current_dir ELSE current_dir' = i
      BY <2>5 DEF cmd_cd
    <3> HIDE DEF i
    <3>2. CASE i < 0 \/ ~files[i].is_directory
      BY <3>1, <3>2
    <3>3. CASE ~(i < 0 \/ ~files[i].is_directory)
      BY <2>1, <2>2, <3>1, <3>3 DEF i
    <3> QED BY <3>2, <3>3
  <2> QED BY <2>3, <2>4, <2>5
<1>4. current_dir' \in UsedIn(files) /\ files[current_dir'].is_directory
  BY <1>1, <1>3 DEF Hangs
<1> QED BY <1>2, <1>4 DEF RInv, fs

(* edit, up to its loop. *)
LEMMA EditStep == ASSUME RInv, NEW n \in Names, cmd_edit(n) PROVE RInv'
<1> DEFINE text == IF ReadFile(n) = NULL THEN << >> ELSE ReadFile(n)
<1>1. UNCHANGED <<files, file_count, current_dir, mem>> /\ edit' = [on |-> TRUE, name |-> n, text |-> text]
  BY DEF cmd_edit
<1>2. text \in Seq(Bytes) /\ Len(text) <= MaxSize - 1
  <2>1. CASE ReadFile(n) = NULL
    <3>1. << >> \in Seq(Bytes) /\ Len(<< >>) <= MaxSize - 1
      BY RamFsAssumption, EmptySeq
    <3> QED BY <2>1, <3>1
  <2>2. CASE ReadFile(n) # NULL BY <2>2, ReadFileIs
  <2> QED BY <2>1, <2>2
<1> HIDE DEF text
<1>3. edit' \in [on : BOOLEAN, name : Names, text : Seq(Bytes)] /\ Len(edit'.text) <= MaxSize - 1
  BY <1>1, <1>2
<1> QED BY <1>1, <1>3 DEF RInv, fs

(* One line of the editor. *)
LEMMA EditLineStep == ASSUME RInv, NEW l \in Lines, EditLine(l) PROVE RInv'
<1>1. UNCHANGED <<files, file_count, current_dir, mem>>
  BY DEF EditLine
<1>2. CASE Room(l)
  <2>1. edit' = [edit EXCEPT !.text = edit.text \o l]
    BY <1>2 DEF EditLine
  <2>2. l \in Seq(Bytes)
    <3>1. l \in Seq({l[k] : k \in DOMAIN l})
      BY RamFsAssumption
    <3>2. {l[k] : k \in DOMAIN l} \subseteq Bytes
      BY DEF Bytes
    <3> HIDE DEF Bytes
    <3>3. l \in [1 .. Len(l) -> {l[k] : k \in DOMAIN l}] /\ Len(l) \in Nat
      BY <3>1, LenProperties
    <3>4. l \in [1 .. Len(l) -> Bytes]
      BY <3>2, <3>3
    <3> QED BY <3>3, <3>4, SeqDef
  <2>3. edit.text \in Seq(Bytes) /\ edit \in [on : BOOLEAN, name : Names, text : Seq(Bytes)]
    BY DEF RInv
  <2>4. edit.text \o l \in Seq(Bytes) /\ Len(edit.text \o l) = Len(edit.text) + Len(l)
    BY <2>2, <2>3, ConcatProperties
  <2>5. Len(edit.text) \in Nat /\ Len(l) \in Nat /\ MaxSize \in Nat
    BY <2>2, <2>3, LenProperties, RamFsAssumption
  <2>6. Len(edit.text \o l) <= MaxSize - 1
    BY <1>2, <2>4, <2>5 DEF Room
  <2>7. edit' \in [on : BOOLEAN, name : Names, text : Seq(Bytes)] /\ Len(edit'.text) <= MaxSize - 1
    BY <2>1, <2>3, <2>4, <2>6
  <2> QED BY <1>1, <2>7 DEF RInv, fs
<1>3. CASE ~Room(l)
  <2>1. edit' = Closed
    BY <1>3 DEF EditLine
  <2>2. Sound(fs) /\ Keeps(files, fs.files) /\ Becomes(fs)
    BY <1>1 DEF RInv, Keeps, Becomes, fs, UsedIn
  <2> QED BY <1>1, <2>1, <2>2, BecomesSound
<1> QED BY <1>2, <1>3

(* Saving, and leaving the editor. *)
LEMMA EditEndStep == ASSUME RInv, EditSave \/ EditQuit PROVE RInv'
<1>1. CASE EditSave
  <2>1. PICK s \in WriteFile(edit.name, edit.text) : Becomes(s)
    BY <1>1 DEF EditSave
  <2>2. edit.name \in Names /\ edit.text \in Seq(Bytes) /\ Len(edit.text) <= MaxSize - 1
    BY DEF RInv
  <2>3. Sound(s) /\ Keeps(files, s.files)
    BY <2>2, WriteFileSound DEF Gains
  <2> QED BY <1>1, <2>1, <2>3, BecomesSound DEF EditSave
<1>2. CASE EditQuit
  <2>1. edit' = Closed /\ UNCHANGED <<files, file_count, current_dir, mem>>
    BY <1>2 DEF EditQuit
  <2>2. Sound(fs) /\ Keeps(files, fs.files) /\ Becomes(fs)
    BY <2>1 DEF RInv, Keeps, Becomes, fs, UsedIn
  <2> QED BY <2>1, <2>2, BecomesSound
<1> QED BY <1>1, <1>2

--------------------------------------------------------------------------------
(* The empty root directory satisfies the invariant, and every command and *)
(* every line of the editor keeps it.                                      *)
LEMMA Inductive ==
  /\ Init => RInv
  /\ RInv /\ [Next]_vars => RInv'
<1>1. ASSUME Init PROVE RInv
  <2> DEFINE root == [Unused EXCEPT !.name = "/", !.is_directory = TRUE, !.in_use = TRUE]
  <2>1. /\ MaxFiles \in Nat \ {0} /\ MaxSize \in Nat \ {0} /\ 0 \in Slots
        /\ "/" \in Names /\ "/" \in {Stored[n] : n \in Names}
    BY RamFsAssumption DEF Slots
  <2>2. Unused \in EntryType /\ ~Unused.in_use /\ Unused.data = NULL
    BY <2>1 DEF Unused, EntryType
  <2>3. /\ root \in EntryType /\ root.in_use /\ root.is_directory /\ root.parent_index = 0
        /\ root.data = NULL
    <3>1. Unused.parent_index = 0
      BY DEF Unused
    <3> DEFINE stored == {Stored[n] : n \in Names} \cup {NULL}
    <3>2. "/" \in stored
      BY <2>1
    <3>3. EntryType = [name : stored, data : Buffers \cup {NULL}, size : 0 .. MaxSize, capacity : Nat,
                       is_directory : BOOLEAN, parent_index : Slots, in_use : BOOLEAN]
      BY DEF EntryType
    <3> HIDE DEF stored
    <3> QED BY <2>2, <3>1, <3>2, <3>3
  <2> HIDE DEF root
  <2>4. files[0] = root /\ \A i \in Slots \ {0} : files[i] = Unused
    BY <1>1, <2>1 DEF Init, root
  <2>5. files \in [Slots -> EntryType]
    BY <1>1, <2>1, <2>2, <2>3 DEF Init, root
  <2>6. UsedIn(files) = {0}
    BY <2>1, <2>2, <2>3, <2>4 DEF UsedIn
  <2>7. Hangs(files)
    BY <2>3, <2>4, <2>6 DEF Hangs
  <2>8. Owned(files, mem)
    <3>1. << >> \in Seq(Bytes)
      BY EmptySeq
    <3>2. mem \in [Buffers -> Seq(Bytes)] /\ \A b \in Buffers : mem[b] = << >>
      BY <1>1, <3>1 DEF Init
    <3>3. \A i \in Slots : files[i].data = NULL /\ ~IsFile(files[i])
      BY <2>1, <2>2, <2>3, <2>4 DEF IsFile
    <3> QED BY <3>2, <3>3 DEF Owned
  <2>9. file_count = Cardinality(UsedIn(files))
    BY <1>1, <2>6, FS_Singleton DEF Init
  <2>10. edit \in [on : BOOLEAN, name : Names, text : Seq(Bytes)] /\ Len(edit.text) <= MaxSize - 1
    <3>1. << >> \in Seq(Bytes) /\ Len(<< >>) = 0
      BY EmptySeq
    <3> QED BY <1>1, <2>1, <3>1 DEF Init, Closed
  <2>11. current_dir = 0
    BY <1>1 DEF Init
  <2> QED BY <2>3, <2>4, <2>5, <2>6, <2>7, <2>8, <2>9, <2>10, <2>11 DEF RInv, Sound, fs
<1>2. ASSUME RInv, [Next]_vars PROVE RInv'
  <2>1. ASSUME NEW n \in Names,
               \/ cmd_mkdir(n) \/ cmd_touch(n) \/ cmd_rm(n)
               \/ cmd_cd(n) \/ cmd_cat(n) \/ cmd_edit(n)
        PROVE  RInv'
    <3>1. CASE cmd_mkdir(n) BY <1>2, <3>1, MkdirStep
    <3>2. CASE cmd_touch(n) BY <1>2, <3>2, TouchStep
    <3>3. CASE cmd_rm(n) BY <1>2, <3>3, RmStep
    <3>4. CASE cmd_cd(n) BY <1>2, <3>4, CdStep
    <3>5. CASE cmd_cat(n) BY <1>2, <3>5 DEF cmd_cat, RInv, fs
    <3>6. CASE cmd_edit(n) BY <1>2, <3>6, EditStep
    <3> QED BY <2>1, <3>1, <3>2, <3>3, <3>4, <3>5, <3>6
  <2>2. ASSUME NEW l \in Lines, EditLine(l) PROVE RInv'
    BY <1>2, <2>2, EditLineStep
  <2>3. CASE EditSave \/ EditQuit
    BY <1>2, <2>3, EditEndStep
  <2>4. CASE UNCHANGED vars
    BY <1>2, <2>4 DEF vars, RInv, fs
  <2> QED BY <1>2, <2>1, <2>2, <2>3, <2>4 DEF Next
<1> QED BY <1>1, <1>2

(* What the inductive invariant says of the reachable states: the tree     *)
(* hangs together, every file has its buffer, the count is right, the      *)
(* shell stands in a directory and the editor's text fits.                 *)
THEOREM RamFsInvariant == Spec => []RInv
<1>1. Init => RInv
  BY Inductive
<1>2. RInv /\ [Next]_vars => RInv'
  BY Inductive
<1> QED BY <1>1, <1>2, PTL DEF Spec

(* Every entry hangs in the tree, whatever is made and removed: rm, which  *)
(* looks at the entries of its argument only, never cuts off another       *)
(* entry, the current directory or the root.                               *)
THEOREM TreeStaysRooted == Spec => []TreeRooted
<1>1. RInv => TreeRooted
  <2> SUFFICES ASSUME RInv PROVE TreeRooted
    OBVIOUS
  <2>1. /\ files \in [Slots -> EntryType] /\ Hangs(files) /\ Used = UsedIn(files)
        /\ file_count = Cardinality(UsedIn(files))
    BY DEF RInv, Sound, fs, Used, UsedIn
  <2>2. file_count \in 0 .. MaxFiles
    <3>1. Cardinality(UsedIn(files)) \in Nat /\ Cardinality(UsedIn(files)) <= MaxFiles
      BY SlotsFinite DEF UsedIn
    <3> QED BY <2>1, <3>1, RamFsAssumption
  <2>3. edit.on \in BOOLEAN /\ edit.name \in Names /\ Len(edit.text) <= MaxSize
    <3>1. Len(edit.text) \in Nat /\ MaxSize \in Nat
      BY LenProperties, RamFsAssumption DEF RInv
    <3> QED BY <3>1 DEF RInv
  <2>4. TypeOK
    BY <2>1, <2>2, <2>3 DEF TypeOK, EntryType, RInv, UsedIn
  <2> QED BY <2>1, <2>4 DEF TreeRooted, Hangs, RInv
<1> QED BY <1>1, RamFsInvariant, PTL

(* No buffer is lost, shared, freed twice or outgrown: not when            *)
(* ramfs_write_file replaces it, not when it fails half way, and not by    *)
(* the longest text the editor takes.                                      *)
THEOREM FilesOwnBuffers == Spec => []BuffersOwned
<1>1. RInv => BuffersOwned
  <2> SUFFICES ASSUME RInv PROVE BuffersOwned
    OBVIOUS
  <2>1. files \in [Slots -> EntryType] /\ Owned(files, mem) /\ Used \subseteq Slots
    BY DEF RInv, Sound, fs, Used
  <2>2. \A i \in Used : ~files[i].is_directory => HasBuffer(files[i], mem)
    BY <2>1 DEF Owned, Used, IsFile
  <2>3. ASSUME NEW b \in Buffers, mem[b] # << >> PROVE \E i \in Used : files[i].data = b
    <3>1. PICK i \in Slots : files[i].data = b
      BY <2>1, <2>3 DEF Owned
    <3>2. IsFile(files[i])
      BY <2>1, <3>1, RamFsAssumption DEF Owned
    <3> QED BY <3>1, <3>2 DEF IsFile, Used
  <2>4. \A i, j \in Slots : files[i].data = files[j].data /\ files[i].data # NULL => i = j
    BY <2>1 DEF Owned
  <2> QED BY <2>2, <2>3, <2>4 DEF BuffersOwned, HasBuffer
<1> QED BY <1>1, RamFsInvariant, PTL

(* What a command does to the table, as far as names go: nothing, or an    *)
(* entry under a name it has looked up, or an entry less.                  *)
LEMMA NamesStep ==
  ASSUME RInv, [Next]_vars
  PROVE  \/ files' = files
         \/ \E n \in Names : (edit.on => n = edit.name) /\ Gains(files, files', n, current_dir)
         \/ \E i : files' = [files EXCEPT ![i] = Unused]
<1>1. ASSUME NEW n \in Names, cmd_mkdir(n) PROVE ~edit.on /\ Gains(files, files', n, current_dir)
  BY <1>1, CreateSound DEF cmd_mkdir, Becomes, Idle
<1>2. ASSUME NEW n \in Names, cmd_touch(n)
      PROVE  ~edit.on /\ (files' = files \/ Gains(files, files', n, current_dir))
  <2>1. << >> \in Seq(Bytes) /\ Len(<< >>) <= MaxSize - 1
    BY RamFsAssumption, EmptySeq
  <2>2. files' = files \/ \E s \in WriteFile(n, << >>) : files' = s.files
    BY <1>2 DEF cmd_touch, Becomes
  <2>3. ~edit.on
    BY <1>2 DEF cmd_touch, Idle
  <2> QED BY <2>1, <2>2, <2>3, WriteFileSound
<1>3. ASSUME NEW n \in Names, cmd_rm(n)
      PROVE  files' = files \/ \E i : files' = [files EXCEPT ![i] = Unused]
  <2>1. files' = files \/ files' = [files EXCEPT ![Find(n)] = Unused]
    BY <1>3 DEF cmd_rm
  <2> QED BY <2>1
<1>4. ASSUME NEW n \in Names, cmd_cd(n) \/ cmd_cat(n) \/ cmd_edit(n) PROVE files' = files
  BY <1>4 DEF cmd_cd, cmd_cat, cmd_edit
<1>5. ASSUME NEW l \in Lines, EditLine(l) PROVE files' = files
  BY <1>5 DEF EditLine
<1>6. ASSUME EditSave PROVE Gains(files, files', edit.name, current_dir) /\ edit.name \in Names
  <2>1. edit.name \in Names /\ edit.text \in Seq(Bytes) /\ Len(edit.text) <= MaxSize - 1
    BY DEF RInv
  <2>2. \E s \in WriteFile(edit.name, edit.text) : files' = s.files
    BY <1>6 DEF EditSave, Becomes
  <2> QED BY <2>1, <2>2, WriteFileSound
<1>7. ASSUME EditQuit \/ UNCHANGED vars PROVE files' = files
  BY <1>7 DEF EditQuit, vars
<1> QED BY <1>1, <1>2, <1>3, <1>4, <1>5, <1>6, <1>7 DEF Next

(* Names are found whole and stored as far as they fit, so that no step    *)
(* makes a second entry of a name that was stored whole.                   *)
LEMMA NamesInductive ==
  /\ Init => UniqueNames
  /\ RInv /\ UniqueNames /\ [Next]_vars => UniqueNames'
<1>1. ASSUME Init PROVE UniqueNames
  <2>1. RInv
    BY <1>1, Inductive
  <2>2. \A i \in Used : i = 0
    BY <1>1 DEF Init, Used, Unused
  <2> QED BY <2>2 DEF UniqueNames
<1>2. ASSUME RInv, UniqueNames, [Next]_vars PROVE UniqueNames'
  <2>1. Used = UsedIn(files) /\ Used' = UsedIn(files') /\ files \in [Slots -> EntryType]
    BY <1>2 DEF Used, UsedIn, RInv, Sound, fs
  <2>2. CASE files' = files
    BY <1>2, <2>2 DEF UniqueNames, Used
  <2>3. ASSUME NEW n \in Names, Gains(files, files', n, current_dir)
        PROVE  UniqueNames'
    <3>1. \A j \in Used : files'[j].name = files[j].name /\ files'[j].parent_index = files[j].parent_index
      BY <2>1, <2>3 DEF Gains, Keeps
    <3>2. CASE Used' = Used
      BY <1>2, <3>1, <3>2 DEF UniqueNames
    <3>3. CASE Used' # Used
      <4>1. PICK i \in Slots :
              /\ Used' = Used \cup {i}
              /\ files'[i].name = Stored[n] /\ files'[i].parent_index = current_dir
              /\ \A j \in Used : ~(files[j].parent_index = current_dir /\ files[j].name = n)
        BY <2>1, <2>3, <3>3 DEF Gains
      <4>2. CASE Stored[n] = n
        BY <1>2, <3>1, <4>1, <4>2 DEF UniqueNames
      <4>3. CASE Stored[n] # n
        BY <1>2, <3>1, <4>1, <4>3 DEF UniqueNames
      <4> QED BY <4>2, <4>3
    <3> QED BY <3>2, <3>3
  <2>4. ASSUME NEW i, files' = [files EXCEPT ![i] = Unused] PROVE UniqueNames'
    <3>1. \A j \in Used' : j \in Used /\ files'[j] = files[j]
      BY <2>1, <2>4 DEF UsedIn, Unused
    <3> QED BY <1>2, <3>1 DEF UniqueNames
  <2> QED BY <1>2, <2>2, <2>3, <2>4, NamesStep
<1> QED BY <1>1, <1>2

(* No directory ever has two entries of one name, whatever order of        *)
(* commands made and removed them, but for a name that is what its field   *)
(* has left of a longer one: ramfs_create looks for the name as it was     *)
(* typed, and stores it cut.                                               *)
THEOREM NamesStayUnique == Spec => []UniqueNames
<1>1. Init => UniqueNames
  BY NamesInductive
<1>2. RInv /\ UniqueNames /\ [Next]_vars => UniqueNames'
  BY NamesInductive
<1> QED BY <1>1, <1>2, RamFsInvariant, PTL DEF Spec

--------------------------------------------------------------------------------
(* Induction, for sets of numbers. *)
LEMMA Upwards ==
  ASSUME NEW S, 0 \in S, \A n \in Nat : n \in S => n + 1 \in S
  PROVE  \A n \in Nat : n \in S
<1> SUFFICES ASSUME NEW n \in Nat, n \notin S PROVE FALSE
  OBVIOUS
<1> DEFINE T == {k \in Nat : k \notin S}
           R == {ss \in Nat \X Nat : ss[1] < ss[2]}
<1>1. IsWellFoundedOn(R, Nat)
  BY NatLessThanWellFounded DEF OpToRel
<1> HIDE DEF R
<1>2. PICK x \in T : \A y \in T : <<y, x>> \notin R
  BY <1>1, WFMin
<1>3. x # 0 /\ x - 1 \in Nat /\ x \in Nat
  OBVIOUS
<1>4. <<x - 1, x>> \in R
  BY <1>3 DEF R
<1>5. x - 1 \in S
  BY <1>2, <1>3, <1>4
<1>6. (x - 1) + 1 = x
  BY <1>3
<1> QED BY <1>3, <1>5, <1>6

(* The names of all slots, d steps up, from those d - 1 steps up. *)
Named(fl, f, d) ==
  [j \in Slots |-> IF d = 0 \/ j = 0 THEN << >>
                   ELSE Append(f[d - 1][fl[j].parent_index], fl[j].name)]

(* The recursion of the paths defines a function. *)
LEMMA PathFunction ==
  ASSUME NEW fl
  PROVE  \E f : f = [d \in 0 .. MaxFiles |-> Named(fl, f, d)]
<1> DEFINE D == 0 .. MaxFiles
           Upto(f, n) == \A d \in D : d <= n => f[d] = Named(fl, f, d)
           S == {n \in Nat : \E f : Upto(f, n)}
<1>0. MaxFiles \in Nat
  BY RamFsAssumption
<1>1. 0 \in S
  <2> DEFINE f == [d \in D |-> [j \in Slots |-> << >>]]
  <2>1. f[0] = Named(fl, f, 0)
    BY <1>0 DEF Named
  <2> HIDE DEF f
  <2>2. \A d \in D : d <= 0 => d = 0
    BY <1>0
  <2> QED BY <2>1, <2>2
<1>2. ASSUME NEW n \in Nat, n \in S PROVE n + 1 \in S
  <2>1. PICK f : Upto(f, n)
    BY <1>2
  <2> DEFINE g == [d \in D |-> IF d = n + 1 THEN Named(fl, f, d) ELSE f[d]]
  <2>2. \A d \in D : g[d] = IF d = n + 1 THEN Named(fl, f, d) ELSE f[d]
    OBVIOUS
  <2> HIDE DEF g
  <2>3. ASSUME NEW d \in D, d <= n + 1 PROVE g[d] = Named(fl, g, d)
    <3>1. g[d] = Named(fl, f, d)
      BY <2>1, <2>2, <2>3
    <3>2. d # 0 => d - 1 \in D /\ g[d - 1] = f[d - 1]
      BY <1>0, <2>2, <2>3
    <3>3. Named(fl, f, d) = Named(fl, g, d)
      BY <3>2 DEF Named
    <3> QED BY <3>1, <3>3
  <2> QED BY <2>3
<1> HIDE DEF S
<1>3. MaxFiles \in S
  BY <1>0, <1>1, <1>2, Upwards
<1>4. PICK f : Upto(f, MaxFiles)
  BY <1>3 DEF S
<1> DEFINE g == [d \in D |-> Named(fl, f, d)]
<1>5. \A d \in D : g[d] = f[d]
  BY <1>0, <1>4
<1>6. \A d \in D : Named(fl, g, d) = Named(fl, f, d)
  <2> SUFFICES ASSUME NEW d \in D PROVE Named(fl, g, d) = Named(fl, f, d)
    OBVIOUS
  <2>1. d # 0 => d - 1 \in D
    BY <1>0
  <2> HIDE DEF g
  <2> QED BY <1>5, <2>1 DEF Named
<1>7. g = [d \in D |-> Named(fl, g, d)]
  BY <1>6
<1> QED BY <1>7

(* Path(d): the names d steps up from each slot. *)
LEMMA PathInIs ==
  ASSUME NEW fl
  PROVE  \E f : /\ \A i : PathIn(fl, i) = f[MaxFiles][i]
                /\ \A d \in 0 .. MaxFiles : f[d] = Named(fl, f, d)
<1> DEFINE f == CHOOSE f : f = [d \in 0 .. MaxFiles |-> Named(fl, f, d)]
<1>1. f = [d \in 0 .. MaxFiles |-> Named(fl, f, d)]
  BY PathFunction
<1>2. ASSUME NEW i PROVE PathIn(fl, i) = f[MaxFiles][i]
  BY DEF PathIn, Named
<1> HIDE DEF f
<1>3. \A d \in 0 .. MaxFiles : f[d] = Named(fl, f, d)
  BY <1>1
<1> QED BY <1>2, <1>3

(* Induction over the tree, from the root down. *)
LEMMA Downwards ==
  ASSUME NEW fl, Hangs(fl), NEW S, 0 \in S,
         \A i \in UsedIn(fl) \ {0} : fl[i].parent_index \in S => i \in S
  PROVE  \A i \in UsedIn(fl) : i \in S
<1> DEFINE V == {i \in UsedIn(fl) : i \notin S}
<1> SUFFICES ASSUME V # {} PROVE FALSE
  OBVIOUS
<1>1. V \in SUBSET (UsedIn(fl) \ {0})
  OBVIOUS
<1>2. PICK i \in V : fl[i].parent_index \notin V
  BY <1>1 DEF Hangs
<1>3. fl[i].parent_index \in S
  BY <1>2 DEF Hangs
<1> QED BY <1>1, <1>2, <1>3

(* The recursion is deep enough: a path is its parent's and one name. *)
LEMMA PathStep ==
  ASSUME NEW fl \in [Slots -> EntryType], Hangs(fl)
  PROVE  /\ PathIn(fl, 0) = << >>
         /\ \A i \in UsedIn(fl) \ {0} :
              PathIn(fl, i) = Append(PathIn(fl, fl[i].parent_index), fl[i].name)
<1> DEFINE D == 0 .. MaxFiles
           U == UsedIn(fl)
<1>0. MaxFiles \in Nat \ {0} /\ U \subseteq Slots /\ 0 \in U
  BY RamFsAssumption DEF UsedIn, Hangs
<1>1. PICK f : /\ \A i : PathIn(fl, i) = f[MaxFiles][i]
               /\ \A d \in D : f[d] = Named(fl, f, d)
  BY PathInIs
<1>2. \A d \in D : f[d][0] = << >>
  BY <1>0, <1>1 DEF Named
<1>3. ASSUME NEW d \in D, NEW i \in U \ {0}, d # 0
      PROVE  f[d][i] = Append(f[d - 1][fl[i].parent_index], fl[i].name)
  <2>1. f[d] = Named(fl, f, d) /\ i \in Slots /\ i # 0
    BY <1>0, <1>1
  <2>2. Named(fl, f, d)[i] = Append(f[d - 1][fl[i].parent_index], fl[i].name)
    BY <1>3, <2>1 DEF Named
  <2> QED BY <2>1, <2>2
<1> HIDE DEF D
<1> DEFINE Settled(n) == {i \in U : \A d \in D : n <= d => f[d][i] = f[n][i]}
           S == {n \in Nat : n < MaxFiles => Settled(n) = U \/ Cardinality(Settled(n)) > n}
<1>4. \A n : Settled(n) \subseteq Slots /\ IsFiniteSet(Settled(n)) /\ Cardinality(Settled(n)) \in Nat
  <2> TAKE n
  <2>1. Settled(n) \subseteq Slots
    BY <1>0
  <2> HIDE DEF Settled
  <2> QED BY <2>1, SlotsFinite
<1>5. 0 \in S
  <2>1. 0 \in Settled(0)
    BY <1>0, <1>2 DEF D
  <2> HIDE DEF Settled
  <2>2. Cardinality(Settled(0)) # 0
    BY <1>4, <2>1, FS_EmptySet
  <2> QED BY <1>4, <2>2
<1>6. ASSUME NEW n \in Nat, n \in S PROVE n + 1 \in S
  <2> SUFFICES ASSUME n + 1 < MaxFiles, Settled(n + 1) # U
               PROVE  Cardinality(Settled(n + 1)) > n + 1
    OBVIOUS
  <2>1. n \in D /\ n + 1 \in D /\ n < MaxFiles
    BY <1>0 DEF D
  <2>2. Settled(n) \subseteq Settled(n + 1)
    BY <1>0, <2>1 DEF D
  <2>3. Settled(n) # U /\ Cardinality(Settled(n)) > n
    BY <1>6, <2>1, <2>2
  <2> DEFINE V == U \ Settled(n)
  <2>4. 0 \in Settled(n)
    BY <1>0, <1>2, <2>1
  <2>5. V \in SUBSET (U \ {0}) /\ V # {}
    BY <2>3, <2>4
  <2>6. PICK i \in V : fl[i].parent_index \notin V
    BY <2>5 DEF Hangs
  <2>7. i \in U \ {0} /\ fl[i].parent_index \in Settled(n)
    BY <2>5, <2>6 DEF Hangs
  <2>8. ASSUME NEW d \in D, n + 1 <= d PROVE f[d][i] = f[n + 1][i]
    <3>1. d \in Nat /\ d # 0 /\ n <= d - 1 /\ d - 1 \in D /\ (n + 1) - 1 = n /\ n + 1 # 0
      BY <1>0, <2>8 DEF D
    <3>2. f[d - 1][fl[i].parent_index] = f[n][fl[i].parent_index]
      BY <2>7, <3>1
    <3>3. f[d][i] = Append(f[d - 1][fl[i].parent_index], fl[i].name)
      BY <1>3, <2>7, <3>1
    <3>4. f[n + 1][i] = Append(f[(n + 1) - 1][fl[i].parent_index], fl[i].name)
      BY <1>3, <2>1, <2>7, <3>1
    <3> QED BY <3>1, <3>2, <3>3, <3>4
  <2>9. i \in Settled(n + 1) /\ i \notin Settled(n)
    BY <2>6, <2>7, <2>8
  <2> HIDE DEF Settled
  <2>10. Cardinality(Settled(n) \cup {i}) = Cardinality(Settled(n)) + 1
    BY <1>4, <2>9, FS_AddElement
  <2>11. Cardinality(Settled(n) \cup {i}) <= Cardinality(Settled(n + 1))
    BY <1>4, <2>2, <2>9, FS_Subset
  <2> QED BY <1>4, <2>3, <2>10, <2>11
<1> DEFINE m == MaxFiles - 1
<1>7. Settled(m) = U
  <2>1. m \in Nat /\ m < MaxFiles
    BY <1>0
  <2> HIDE DEF S, m
  <2>2. m \in S
    BY <1>5, <1>6, <2>1, Upwards
  <2> HIDE DEF Settled
  <2>3. Settled(m) = U \/ Cardinality(Settled(m)) > m
    BY <2>1, <2>2 DEF S
  <2>4. CASE Settled(m) # U
    <3>1. PICK i \in U : i \notin Settled(m)
      BY <2>4 DEF Settled
    <3>2. Cardinality(Settled(m) \cup {i}) = Cardinality(Settled(m)) + 1
      BY <1>4, <3>1, FS_AddElement
    <3>3. Settled(m) \cup {i} \subseteq Slots
      BY <1>0, <1>4
    <3>4. Cardinality(Settled(m) \cup {i}) <= MaxFiles
      BY <3>3, SlotsFinite
    <3>5. m + 1 = MaxFiles
      BY <1>0 DEF m
    <3> QED BY <1>0, <1>4, <2>1, <2>3, <2>4, <3>2, <3>4, <3>5
  <2> QED BY <2>4
<1>8. ASSUME NEW i \in U \ {0}
      PROVE  PathIn(fl, i) = Append(PathIn(fl, fl[i].parent_index), fl[i].name)
  <2>1. fl[i].parent_index \in U
    BY <1>8 DEF Hangs
  <2>2. MaxFiles \in D /\ MaxFiles # 0 /\ m <= MaxFiles /\ m = MaxFiles - 1
    BY <1>0 DEF D
  <2> HIDE DEF m
  <2>3. f[MaxFiles][fl[i].parent_index] = f[m][fl[i].parent_index]
    <3>1. PICK j \in U : j = fl[i].parent_index
      BY <2>1
    <3>2. j \in Settled(m)
      BY <1>7
    <3>3. \A d \in D : m <= d => f[d][j] = f[m][j]
      BY <3>2
    <3> HIDE DEF Settled
    <3> QED BY <2>2, <3>1, <3>3
  <2>4. f[MaxFiles][i] = Append(f[m][fl[i].parent_index], fl[i].name)
    BY <1>3, <1>8, <2>2
  <2> QED BY <1>1, <2>3, <2>4
<1>9. PathIn(fl, 0) = << >>
  BY <1>0, <1>1, <1>2 DEF D
<1> QED BY <1>8, <1>9

(* Names as typed and as stored. *)
AllNames == Names \cup {Stored[n] : n \in Names} \cup {NULL}

(* No directory has two entries of one name. *)
Distinct(fl) ==
  \A i, j \in UsedIn(fl) :
    fl[i].parent_index = fl[j].parent_index /\ fl[i].name = fl[j].name => i = j

(* Paths are sequences of names; only the root's is empty. *)
LEMMA PathIs ==
  ASSUME NEW fl \in [Slots -> EntryType], Hangs(fl)
  PROVE  \A i \in UsedIn(fl) : PathIn(fl, i) \in Seq(AllNames) /\ (i # 0 => PathIn(fl, i) # << >>)
<1> DEFINE S == {i \in UsedIn(fl) : PathIn(fl, i) \in Seq(AllNames)}
<1>1. /\ PathIn(fl, 0) = << >> /\ 0 \in UsedIn(fl) /\ << >> \in Seq(AllNames)
      /\ \A i \in UsedIn(fl) \ {0} :
              PathIn(fl, i) = Append(PathIn(fl, fl[i].parent_index), fl[i].name)
  BY PathStep, EmptySeq DEF Hangs
<1>2. \A i \in UsedIn(fl) : fl[i].name \in AllNames
  BY DEF EntryType, AllNames, UsedIn
<1>3. ASSUME NEW i \in UsedIn(fl) \ {0}, fl[i].parent_index \in S PROVE i \in S /\ PathIn(fl, i) # << >>
  <2>1. PICK q \in Seq(AllNames), n \in AllNames : q = PathIn(fl, fl[i].parent_index) /\ n = fl[i].name
    BY <1>2, <1>3
  <2>2. Append(q, n) \in Seq(AllNames) /\ Append(q, n) # << >>
    BY AppendProperties
  <2> QED BY <1>1, <2>1, <2>2
<1>4. \A i \in UsedIn(fl) : i \in S
  <2>1. 0 \in S
    BY <1>1
  <2> HIDE DEF S
  <2> QED BY <1>3, <2>1, Downwards
<1>5. ASSUME NEW i \in UsedIn(fl) PROVE PathIn(fl, i) \in Seq(AllNames) /\ (i # 0 => PathIn(fl, i) # << >>)
  BY <1>3, <1>4 DEF Hangs
<1> QED BY <1>5

(* Where no directory has two entries of one name, no two entries have one *)
(* path.                                                                   *)
LEMMA PathsDiffer ==
  ASSUME NEW fl \in [Slots -> EntryType], Hangs(fl), Distinct(fl),
         NEW i \in UsedIn(fl), NEW j \in UsedIn(fl), PathIn(fl, i) = PathIn(fl, j)
  PROVE  i = j
<1> DEFINE S == {x \in UsedIn(fl) : \A y \in UsedIn(fl) : PathIn(fl, x) = PathIn(fl, y) => x = y}
<1>1. /\ PathIn(fl, 0) = << >> /\ 0 \in UsedIn(fl)
      /\ \A x \in UsedIn(fl) \ {0} :
              PathIn(fl, x) = Append(PathIn(fl, fl[x].parent_index), fl[x].name)
      /\ \A x \in UsedIn(fl) : PathIn(fl, x) \in Seq(AllNames) /\ (x # 0 => PathIn(fl, x) # << >>)
      /\ \A x \in UsedIn(fl) : fl[x].parent_index \in UsedIn(fl)
  BY PathStep, PathIs DEF Hangs
<1>2. \A x \in UsedIn(fl) : fl[x].name \in AllNames
  BY DEF EntryType, AllNames, UsedIn
<1>3. ASSUME NEW x \in UsedIn(fl) \ {0}, fl[x].parent_index \in S PROVE x \in S
  <2> SUFFICES ASSUME NEW y \in UsedIn(fl), PathIn(fl, x) = PathIn(fl, y) PROVE x = y
    OBVIOUS
  <2>1. y # 0
    BY <1>1
  <2>2. PICK p \in Seq(AllNames), q \in Seq(AllNames), m \in AllNames, n \in AllNames :
          /\ p = PathIn(fl, fl[x].parent_index) /\ q = PathIn(fl, fl[y].parent_index)
          /\ m = fl[x].name /\ n = fl[y].name
    BY <1>1, <1>2
  <2>3. Append(p, m) = Append(q, n)
    BY <1>1, <2>1, <2>2
  <2>4. p = q /\ m = n
    BY <2>3, AppendInjective
  <2>5. fl[x].parent_index = fl[y].parent_index
    BY <1>1, <1>3, <2>2, <2>4
  <2> QED BY <2>2, <2>4, <2>5 DEF Distinct
<1>4. 0 \in S
  BY <1>1
<1> HIDE DEF S
<1>5. i \in S
  BY <1>3, <1>4, Downwards
<1> QED BY <1>5 DEF S

(* Entries that stay where they are keep their paths. *)
LEMMA PathsKept ==
  ASSUME NEW fl \in [Slots -> EntryType], Hangs(fl),
         NEW fl2 \in [Slots -> EntryType], Hangs(fl2), Keeps(fl, fl2)
  PROVE  \A i \in UsedIn(fl) : PathIn(fl2, i) = PathIn(fl, i)
<1> DEFINE S == {i \in UsedIn(fl) : PathIn(fl2, i) = PathIn(fl, i)}
<1>1. /\ PathIn(fl, 0) = << >> /\ 0 \in UsedIn(fl)
      /\ \A i \in UsedIn(fl) \ {0} :
              PathIn(fl, i) = Append(PathIn(fl, fl[i].parent_index), fl[i].name)
  BY PathStep DEF Hangs
<1>2. /\ PathIn(fl2, 0) = << >>
      /\ \A i \in UsedIn(fl2) \ {0} :
              PathIn(fl2, i) = Append(PathIn(fl2, fl2[i].parent_index), fl2[i].name)
  BY PathStep
<1>3. ASSUME NEW i \in UsedIn(fl) \ {0}, fl[i].parent_index \in S PROVE i \in S
  <2>1. i \in UsedIn(fl2) /\ fl2[i].parent_index = fl[i].parent_index /\ fl2[i].name = fl[i].name
    BY DEF Keeps
  <2> QED BY <1>1, <1>2, <1>3, <2>1
<1>4. 0 \in S
  BY <1>1, <1>2
<1> HIDE DEF S
<1>5. \A i \in UsedIn(fl) : i \in S
  BY <1>3, <1>4, Downwards
<1> QED BY <1>5 DEF S

(* What the tree has under the path of a slot. *)
Node(fl, mm, i) ==
  [dir  |-> fl[i].is_directory,
   text |-> IF fl[i].is_directory THEN << >> ELSE SubSeq(mm[fl[i].data], 1, fl[i].size)]

(* A table as a tree: a node under every path. *)
TreeIsOf(T, fl, mm) ==
  /\ T = [p \in {PathIn(fl, i) : i \in UsedIn(fl)} |-> T[p]]
  /\ DOMAIN T = {PathIn(fl, i) : i \in UsedIn(fl)}
  /\ \A i \in UsedIn(fl) : T[PathIn(fl, i)] = Node(fl, mm, i)

(* The tree of a table is its tree, if the slots stand under paths of their own. *)
LEMMA TreeIs ==
  ASSUME NEW fl \in [Slots -> EntryType], NEW mm, Hangs(fl), Distinct(fl)
  PROVE  TreeIsOf(TreeOf(fl, mm), fl, mm)
<1> DEFINE U  == UsedIn(fl)
           at == [i \in U |-> PathIn(fl, i)]
           P  == {at[i] : i \in U}
           sl(p) == CHOOSE i \in U : at[i] = p
           T  == [p \in P |-> Node(fl, mm, sl(p))]
<1>1. TreeOf(fl, mm) = T
  BY DEF TreeOf, Node, UsedIn
<1>2. P = {PathIn(fl, i) : i \in U} /\ \A i \in U : at[i] = PathIn(fl, i)
  OBVIOUS
<1> HIDE DEF at
<1>3. ASSUME NEW i \in U PROVE T[PathIn(fl, i)] = Node(fl, mm, i)
  <2>1. sl(PathIn(fl, i)) \in U /\ at[sl(PathIn(fl, i))] = PathIn(fl, i)
    BY <1>2
  <2> HIDE DEF sl
  <2>2. sl(PathIn(fl, i)) = i
    BY <1>2, <2>1, PathsDiffer
  <2> QED BY <1>2, <2>2
<1>4. DOMAIN T = P /\ T = [p \in P |-> T[p]]
  OBVIOUS
<1> HIDE DEF T
<1> QED BY <1>1, <1>2, <1>3, <1>4 DEF TreeIsOf

(* A table that hangs together and has every name of a directory once. *)
GoodTable(fl) == fl \in [Slots -> EntryType] /\ Hangs(fl) /\ Distinct(fl)

(* The same entries with the same nodes are the same tree. *)
LEMMA TreeSame ==
  ASSUME NEW fl, GoodTable(fl), NEW fl2, GoodTable(fl2), NEW mm, NEW mm2,
         UsedIn(fl2) = UsedIn(fl), Keeps(fl, fl2),
         \A j \in UsedIn(fl) : Node(fl2, mm2, j) = Node(fl, mm, j)
  PROVE  TreeOf(fl2, mm2) = TreeOf(fl, mm)
<1>1. PICK T, T2 : /\ T = TreeOf(fl, mm) /\ TreeIsOf(T, fl, mm)
                   /\ T2 = TreeOf(fl2, mm2) /\ TreeIsOf(T2, fl2, mm2)
  BY TreeIs DEF GoodTable
<1>2. \A i \in UsedIn(fl) : PathIn(fl2, i) = PathIn(fl, i)
  BY PathsKept DEF GoodTable
<1> DEFINE D == {PathIn(fl, i) : i \in UsedIn(fl)}
<1>3. {PathIn(fl2, i) : i \in UsedIn(fl2)} = D
  BY <1>2
<1>4. ASSUME NEW p \in D PROVE T[p] = T2[p]
  <2>1. PICK i \in UsedIn(fl) : p = PathIn(fl, i)
    OBVIOUS
  <2>2. T[p] = Node(fl, mm, i) /\ T2[p] = Node(fl2, mm2, i)
    BY <1>1, <1>2, <2>1 DEF TreeIsOf
  <2> QED BY <2>2
<1>5. T = [p \in D |-> T[p]] /\ T2 = [p \in D |-> T2[p]]
  BY <1>1, <1>3 DEF TreeIsOf
<1> HIDE DEF D
<1>6. T = T2
  BY <1>4, <1>5
<1> QED BY <1>1, <1>6

(* Tree T with node e under path q, as With of module DirTree. *)
PutAt(T, q, e) == [p \in DOMAIN T \cup {q} |-> IF p = q THEN e ELSE T[p]]

(* The nodes of all slots of a table but i are those of another table. *)
NodesBut(i, fl, mm, fl2, mm2) == \A j \in UsedIn(fl) \ {i} : Node(fl2, mm2, j) = Node(fl, mm, j)

(* A new or changed entry is a new or changed node under its path. *)
LEMMA TreePut ==
  ASSUME NEW fl, GoodTable(fl), NEW fl2, GoodTable(fl2), NEW mm, NEW mm2,
         NEW i \in Slots, UsedIn(fl2) = UsedIn(fl) \cup {i}, Keeps(fl, fl2),
         NodesBut(i, fl, mm, fl2, mm2), NEW q, q = PathIn(fl2, i)
  PROVE  TreeOf(fl2, mm2) = PutAt(TreeOf(fl, mm), q, Node(fl2, mm2, i))
<1>1. PICK T, T2 : /\ T = TreeOf(fl, mm) /\ TreeIsOf(T, fl, mm)
                   /\ T2 = TreeOf(fl2, mm2) /\ TreeIsOf(T2, fl2, mm2)
  BY TreeIs DEF GoodTable
<1>2. \A j \in UsedIn(fl) : PathIn(fl2, j) = PathIn(fl, j)
  BY PathsKept DEF GoodTable
<1>3. \A j \in UsedIn(fl2) : PathIn(fl2, j) = q => j = i
  BY PathsDiffer DEF GoodTable
<1> DEFINE D == {PathIn(fl2, j) : j \in UsedIn(fl2)}
           F == [p \in DOMAIN T \cup {q} |-> IF p = q THEN Node(fl2, mm2, i) ELSE T[p]]
<1>4. DOMAIN T \cup {q} = D
  <2>1. DOMAIN T = {PathIn(fl, j) : j \in UsedIn(fl)}
    BY <1>1 DEF TreeIsOf
  <2> QED BY <2>1, <1>2
<1>5. ASSUME NEW p \in D PROVE T2[p] = F[p]
  <2>1. PICK j \in UsedIn(fl2) : p = PathIn(fl2, j)
    OBVIOUS
  <2>2. T2[p] = Node(fl2, mm2, j)
    BY <1>1, <2>1 DEF TreeIsOf
  <2>3. F[p] = IF p = q THEN Node(fl2, mm2, i) ELSE T[p]
    BY <1>4
  <2>4. CASE p = q
    BY <1>3, <2>1, <2>2, <2>3, <2>4
  <2>5. CASE p # q
    <3>1. j \in UsedIn(fl) /\ j # i
      BY <2>1, <2>5
    <3>2. T[p] = Node(fl, mm, j)
      BY <1>1, <1>2, <2>1, <3>1 DEF TreeIsOf
    <3> QED BY <2>2, <2>3, <2>5, <3>1, <3>2 DEF NodesBut
  <2> QED BY <2>4, <2>5
<1>6. T2 = [p \in D |-> T2[p]]
  BY <1>1 DEF TreeIsOf
<1>7. F = [p \in D |-> F[p]]
  BY <1>4
<1> HIDE DEF F, D
<1>8. T2 = F
  BY <1>5, <1>6, <1>7
<1> QED BY <1>1, <1>8 DEF F, PutAt

(* Tree T without the node under path q. *)
TakenOff(T, q) == [p \in DOMAIN T \ {q} |-> T[p]]

(* An entry less is a node less. *)
LEMMA TreeLess ==
  ASSUME NEW fl, GoodTable(fl), NEW fl2, GoodTable(fl2), NEW mm, NEW mm2,
         NEW i \in UsedIn(fl), UsedIn(fl2) = UsedIn(fl) \ {i}, Keeps(fl2, fl),
         NodesBut(i, fl, mm, fl2, mm2), NEW q, q = PathIn(fl, i)
  PROVE  TreeOf(fl2, mm2) = TakenOff(TreeOf(fl, mm), q)
<1>1. PICK T, T2 : /\ T = TreeOf(fl, mm) /\ TreeIsOf(T, fl, mm)
                   /\ T2 = TreeOf(fl2, mm2) /\ TreeIsOf(T2, fl2, mm2)
  BY TreeIs DEF GoodTable
<1>2. \A j \in UsedIn(fl2) : PathIn(fl2, j) = PathIn(fl, j)
  BY PathsKept DEF GoodTable
<1>3. \A j \in UsedIn(fl) : PathIn(fl, j) = q => j = i
  BY PathsDiffer DEF GoodTable
<1> DEFINE D == {PathIn(fl2, j) : j \in UsedIn(fl2)}
           F == [p \in DOMAIN T \ {q} |-> T[p]]
<1>4. DOMAIN T \ {q} = D
  <2>1. DOMAIN T = {PathIn(fl, j) : j \in UsedIn(fl)}
    BY <1>1 DEF TreeIsOf
  <2> QED BY <2>1, <1>2, <1>3
<1>5. ASSUME NEW p \in D PROVE T2[p] = F[p]
  <2>1. PICK j \in UsedIn(fl2) : p = PathIn(fl2, j)
    OBVIOUS
  <2>2. T2[p] = Node(fl2, mm2, j)
    BY <1>1, <2>1 DEF TreeIsOf
  <2>3. T[p] = Node(fl, mm, j)
    BY <1>1, <1>2, <2>1 DEF TreeIsOf
  <2>4. Node(fl2, mm2, j) = Node(fl, mm, j)
    BY <2>1 DEF NodesBut
  <2> QED BY <1>4, <2>1, <2>2, <2>3, <2>4
<1>6. T2 = [p \in D |-> T2[p]]
  BY <1>1 DEF TreeIsOf
<1>7. F = [p \in D |-> F[p]]
  BY <1>4
<1> HIDE DEF F, D
<1>8. T2 = F
  BY <1>5, <1>6, <1>7
<1> QED BY <1>1, <1>8 DEF F, TakenOff

(* In a good table, ramfs_find_file looks up a path. *)
Looked(cd, n) == IF cd = << >> /\ n = "/" THEN << >> ELSE Append(cd, n)

(* An entry of a name in a directory is what stands under its path. *)
LEMMA LookupIs ==
  ASSUME NEW fl, GoodTable(fl), fl[0].name = "/", NEW c \in UsedIn(fl), NEW n \in AllNames
  PROVE  /\ \A i \in UsedIn(fl) : fl[i].parent_index = c /\ fl[i].name = n
                                  <=> PathIn(fl, i) = Looked(PathIn(fl, c), n)
         /\ PathIn(fl, c) = << >> <=> c = 0
<1>1. /\ PathIn(fl, 0) = << >> /\ 0 \in UsedIn(fl) /\ fl[0].parent_index = 0
      /\ \A x \in UsedIn(fl) \ {0} :
              PathIn(fl, x) = Append(PathIn(fl, fl[x].parent_index), fl[x].name)
      /\ \A x \in UsedIn(fl) : PathIn(fl, x) \in Seq(AllNames) /\ (x # 0 => PathIn(fl, x) # << >>)
      /\ \A x \in UsedIn(fl) : fl[x].parent_index \in UsedIn(fl)
  BY PathStep, PathIs DEF Hangs, GoodTable
<1>2. \A x \in UsedIn(fl) : fl[x].name \in AllNames
  BY DEF EntryType, AllNames, UsedIn, GoodTable
<1>3. PathIn(fl, c) = << >> <=> c = 0
  BY <1>1
<1>4. ASSUME NEW i \in UsedIn(fl)
      PROVE  fl[i].parent_index = c /\ fl[i].name = n <=> PathIn(fl, i) = Looked(PathIn(fl, c), n)
  <2>1. PICK p \in Seq(AllNames), q \in Seq(AllNames), m \in AllNames :
          p = PathIn(fl, c) /\ q = PathIn(fl, fl[i].parent_index) /\ m = fl[i].name
    BY <1>1, <1>2
  <2>2. CASE i = 0
    <3>1. Append(p, n) # << >>
      BY AppendProperties
    <3>2. Looked(p, n) = << >> <=> (p = << >> /\ n = "/")
      BY <3>1 DEF Looked
    <3> QED BY <1>1, <1>3, <2>1, <2>2, <3>2
  <2>3. CASE i # 0
    <3>1. PathIn(fl, i) = Append(q, m) /\ PathIn(fl, i) # << >>
      BY <1>1, <2>1, <2>3
    <3>2. Append(q, m) = Append(p, n) <=> q = p /\ m = n
      BY AppendInjective
    <3>3. q = p <=> fl[i].parent_index = c
      BY <1>1, <2>1, PathsDiffer DEF GoodTable
    <3>4. CASE p = << >> /\ n = "/"
      <4>1. c = 0
        BY <1>3, <2>1, <3>4
      <4>2. ~(fl[i].parent_index = c /\ fl[i].name = n)
        BY <1>1, <2>3, <3>4, <4>1 DEF GoodTable, Distinct
      <4>3. Looked(PathIn(fl, c), n) = << >>
        BY <2>1, <3>4 DEF Looked
      <4> QED BY <3>1, <4>2, <4>3
    <3>5. CASE ~(p = << >> /\ n = "/")
      <4>1. Looked(PathIn(fl, c), n) = Append(p, n)
        BY <2>1, <3>5 DEF Looked
      <4> QED BY <2>1, <3>1, <3>2, <3>3, <4>1
    <3> QED BY <3>4, <3>5
  <2> QED BY <2>2, <2>3
<1> QED BY <1>3, <1>4

(* The buffers in use but b are left alone. *)
MemKept(mm, mm2, b) == \A x \in Buffers \ {b} : mm[x] # << >> => mm2[x] = mm[x]

(* A file whose entry and buffer are left alone has the same node. *)
LEMMA NodeKept ==
  ASSUME NEW fl, NEW mm, Owned(fl, mm), NEW fl2, NEW mm2, NEW b, MemKept(mm, mm2, b),
         NEW j \in UsedIn(fl), fl2[j] = fl[j], fl[j].data # b \/ fl[j].is_directory
  PROVE  Node(fl2, mm2, j) = Node(fl, mm, j)
<1>1. j \in Slots /\ fl[j].in_use
  BY DEF UsedIn
<1>2. CASE fl[j].is_directory
  BY <1>2 DEF Node
<1>3. CASE ~fl[j].is_directory
  <2>1. IsFile(fl[j]) /\ HasBuffer(fl[j], mm)
    BY <1>1, <1>3 DEF IsFile, Owned
  <2>2. fl[j].data \in Buffers /\ fl[j].data # NULL
    BY <2>1, RamFsAssumption DEF HasBuffer
  <2>3. mm[fl[j].data] # << >>
    BY <1>1, <2>2, BufferOf
  <2>4. mm2[fl[j].data] = mm[fl[j].data]
    BY <1>3, <2>2, <2>3 DEF MemKept
  <2> QED BY <2>4 DEF Node
<1> QED BY <1>2, <1>3

(* What a failed ramfs_create leaves, *)
NothingMade(s) ==
  /\ s.result < 0 /\ s.mem = mem
  /\ UsedIn(s.files) = UsedIn(files) /\ \A j \in UsedIn(files) : s.files[j] = files[j]

(* and what another one makes. *)
EntryMade(s, name, dir) ==
  /\ s.result \in Slots \ UsedIn(files) /\ s.result >= 0 /\ ~(Find(name) >= 0)
  /\ s.files \in [Slots -> EntryType]
  /\ UsedIn(s.files) = UsedIn(files) \cup {s.result}
  /\ \A j \in UsedIn(files) : s.files[j] = files[j]
  /\ s.files[s.result].is_directory = dir /\ s.files[s.result].size = 0
  /\ s.files[s.result].name = Stored[name] /\ s.files[s.result].parent_index = current_dir
  /\ MemKept(mem, s.mem, s.files[s.result].data)

(* ramfs_create makes nothing, or the entry it is asked for. *)
LEMMA CreateMakes ==
  ASSUME RInv, NEW name \in Names, NEW dir \in BOOLEAN, NEW s \in Create(name, dir)
  PROVE  NothingMade(s) \/ EntryMade(s, name, dir)
<1> DEFINE slots == Slots \ Used
           i     == LowestOf(slots)
           unknown == ~(Find(name) >= 0)
<1>1. files \in [Slots -> EntryType] /\ Used = UsedIn(files) /\ mem \in [Buffers -> Seq(Bytes)]
  BY DEF RInv, Sound, Owned, fs, Used, UsedIn
<1>2. Sound(s) /\ s.files \in [Slots -> EntryType]
  BY CreateSound DEF Sound
<1>3. CASE s = Failed(fs, -1) \/ s = Failed(fs, -2)
  <2>1. s.files = files /\ s.mem = mem /\ s.result \in {-1, -2}
    BY <1>3 DEF Failed, fs
  <2> QED BY <2>1 DEF NothingMade
<1>4. ASSUME slots # {}
      PROVE  i \in Slots /\ i \notin UsedIn(files) /\ i \in Int /\ i >= 0
  <2>1. slots \subseteq Nat /\ slots \subseteq Slots
    BY RamFsAssumption DEF Slots
  <2>2. i \in slots
    BY <1>4, <2>1, Lowest
  <2> HIDE DEF i
  <2> QED BY <2>1, <2>2, <1>1
<1>5. ASSUME NEW e, NEW mm, NEW count, unknown, slots # {}, s = With(fs, i, e, mm, count),
             e.in_use, e.is_directory = dir, e.size = 0,
             e.name = Stored[name], e.parent_index = current_dir, MemKept(mem, mm, e.data)
      PROVE  EntryMade(s, name, dir)
  <2>1. s.files = [files EXCEPT ![i] = e] /\ s.mem = mm /\ s.result = i
    BY <1>5 DEF With, fs
  <2>2. i \in Slots /\ i \notin UsedIn(files) /\ i \in Int /\ i >= 0
    BY <1>4, <1>5
  <2> HIDE DEF i
  <2>3. s.files[i] = e /\ \A j \in Slots \ {i} : s.files[j] = files[j]
    BY <1>1, <2>1, <2>2
  <2>4. UsedIn(s.files) = UsedIn(files) \cup {i} /\ \A j \in UsedIn(files) : s.files[j] = files[j]
    BY <1>5, <2>2, <2>3 DEF UsedIn
  <2>5. MemKept(mem, s.mem, s.files[s.result].data)
    BY <1>5, <2>1, <2>3
  <2> QED BY <1>2, <1>5, <2>1, <2>2, <2>3, <2>4, <2>5 DEF EntryMade
<1>6. CASE unknown /\ slots # {} /\ dir /\ s = With(fs, i, Entry(name, TRUE, NULL, 0), mem, file_count + 1)
  <2> DEFINE e == Entry(name, TRUE, NULL, 0)
  <2>1. /\ e.in_use /\ e.is_directory = dir /\ e.size = 0
        /\ e.name = Stored[name] /\ e.parent_index = current_dir
    BY <1>6 DEF Entry
  <2>2. MemKept(mem, mem, e.data)
    BY DEF MemKept
  <2>3. s = With(fs, i, e, mem, file_count + 1)
    BY <1>6
  <2> HIDE DEF e
  <2> QED BY <1>5, <1>6, <2>1, <2>2, <2>3
<1>7. ASSUME unknown, slots # {}, ~dir,
             NEW b \in Free(fs), s = With(fs, i, Entry(name, FALSE, b, Chunk),
                                          [mem EXCEPT ![b] = Fresh(Chunk)], file_count + 1)
      PROVE  EntryMade(s, name, dir)
  <2> DEFINE e  == Entry(name, FALSE, b, Chunk)
             mm == [mem EXCEPT ![b] = Fresh(Chunk)]
  <2>1. /\ e.in_use /\ e.is_directory = dir /\ e.size = 0 /\ e.data = b
        /\ e.name = Stored[name] /\ e.parent_index = current_dir
    BY <1>7 DEF Entry
  <2>2. MemKept(mem, mm, e.data)
    BY <1>1, <2>1 DEF MemKept
  <2>3. s = With(fs, i, e, mm, file_count + 1)
    BY <1>7
  <2> HIDE DEF e, mm
  <2> QED BY <1>5, <1>7, <2>1, <2>2, <2>3
<1>8. CASE /\ slots # {}
           /\ s = [With(fs, i, [files[i] EXCEPT !.name = Stored[name], !.data = NULL], mem, file_count)
                     EXCEPT !.result = -3]
  <2> DEFINE e == [files[i] EXCEPT !.name = Stored[name], !.data = NULL]
  <2>0. i \in Slots /\ i \notin UsedIn(files)
    BY <1>4, <1>8
  <2> HIDE DEF i
  <2>1. files[i] \in EntryType /\ ~files[i].in_use
    BY <1>1, <2>0 DEF UsedIn
  <2>2. ~e.in_use
    BY <2>1 DEF EntryType
  <2>3. s.files = [files EXCEPT ![i] = e] /\ s.mem = mem /\ s.result = -3
    BY <1>8 DEF With, fs
  <2> HIDE DEF e
  <2>4. s.files[i] = e /\ \A j \in Slots \ {i} : s.files[j] = files[j]
    BY <1>1, <2>0, <2>3
  <2>5. UsedIn(s.files) = UsedIn(files) /\ \A j \in UsedIn(files) : s.files[j] = files[j]
    BY <2>0, <2>2, <2>4 DEF UsedIn
  <2> QED BY <2>3, <2>5 DEF NothingMade
<1>9. \/ s = Failed(fs, -1) \/ s = Failed(fs, -2)
      \/ unknown /\ slots # {} /\ dir /\ s = With(fs, i, Entry(name, TRUE, NULL, 0), mem, file_count + 1)
      \/ /\ unknown /\ slots # {} /\ ~dir
         /\ \E b \in Free(fs) : s = With(fs, i, Entry(name, FALSE, b, Chunk),
                                            [mem EXCEPT ![b] = Fresh(Chunk)], file_count + 1)
      \/ /\ slots # {}
         /\ s = [With(fs, i, [files[i] EXCEPT !.name = Stored[name], !.data = NULL], mem, file_count)
                     EXCEPT !.result = -3]
  BY DEF Create
<1> QED BY <1>3, <1>6, <1>7, <1>8, <1>9

(* The text at the start of a buffer it was copied over. *)
LEMMA OverStarts ==
  ASSUME NEW text \in Seq(Bytes), NEW buf \in Seq(Bytes), Len(text) <= Len(buf)
  PROVE  SubSeq(Over(text, buf), 1, Len(text)) = text
<1>1. /\ DOMAIN text = 1 .. Len(text) /\ Len(text) \in Nat /\ text \in [1 .. Len(text) -> Bytes]
      /\ DOMAIN buf = 1 .. Len(buf) /\ Len(buf) \in Nat
  BY LenProperties
<1>2. PICK o \in Seq(Bytes) : o = Over(text, buf) /\ Len(o) = Len(buf)
  BY OverKeeps
<1>3. \A k \in 1 .. Len(text) : o[k] = text[k]
  BY <1>1, <1>2 DEF Over
<1>4. PICK t \in Seq(Bytes) : t = SubSeq(o, 1, Len(text))
  <2>1. PICK n \in Nat : n = Len(text) /\ n <= Len(o)
    BY <1>1, <1>2
  <2>2. SubSeq(o, 1, n) \in Seq(Bytes)
    BY <2>1, SubSeqProperties
  <2> QED BY <2>1, <2>2
<1>5. Len(t) = Len(text) /\ \A k \in 1 .. Len(text) : t[k] = text[k]
  BY <1>1, <1>2, <1>3, <1>4
<1>6. t = text
  BY <1>5, SeqEqual
<1> QED BY <1>2, <1>4, <1>6

(* What ramfs_write_file leaves of slot i when it fails, *)
NothingPut(s, i, text, t) ==
  /\ t.result < 0 /\ t.files = s.files /\ t.mem = s.mem
  /\ text = << >> => s.files[i].is_directory

(* and when it does not. *)
TextPut(s, i, text, t) ==
  /\ t.result = i /\ ~s.files[i].is_directory
  /\ \A j \in Slots \ {i} : t.files[j] = s.files[j]
  /\ ~t.files[i].is_directory
  /\ MemKept(s.mem, t.mem, s.files[i].data)
  /\ SubSeq(t.mem[t.files[i].data], 1, t.files[i].size) = text

(* And the second half of ramfs_write_file puts all of the text, or nothing. *)
LEMMA PutMakes ==
  ASSUME NEW s, Sound(s), NEW i \in UsedIn(s.files),
         NEW text \in Seq(Bytes), Len(text) <= MaxSize - 1,
         NEW t \in Put(s, i, text)
  PROVE  NothingPut(s, i, text, t) \/ TextPut(s, i, text, t)
<1> DEFINE file == s.files[i]
           n    == Len(text)
<1>1. /\ s.files \in [Slots -> EntryType] /\ Owned(s.files, s.mem) /\ i \in Slots
      /\ file \in EntryType /\ file.in_use
      /\ s.mem \in [Buffers -> Seq(Bytes)] /\ NULL \notin Buffers
  BY RamFsAssumption DEF Sound, UsedIn, Owned
<1>2. n \in Nat /\ (text = << >> => n = 0)
  BY LenProperties, EmptySeq
<1> HIDE DEF n
<1>3. ASSUME ~file.is_directory
      PROVE  /\ file.data \in Buffers /\ file.data # NULL
             /\ Len(s.mem[file.data]) = file.capacity /\ file.capacity \in Nat
  <2>1. IsFile(file) /\ HasBuffer(file, s.mem)
    BY <1>1, <1>3 DEF Owned, IsFile
  <2> QED BY <2>1, <1>1 DEF HasBuffer, EntryType
<1>4. ASSUME NEW code, code < 0, t = Failed(s, code), file.is_directory \/ ~(n <= file.capacity)
      PROVE  NothingPut(s, i, text, t)
  <2>1. t.files = s.files /\ t.mem = s.mem /\ t.result = code
    BY <1>4 DEF Failed
  <2>2. text = << >> => file.is_directory
    BY <1>2, <1>3, <1>4
  <2> QED BY <2>1, <2>2, <1>4 DEF NothingPut
<1>5. CASE /\ ~file.is_directory /\ n <= file.capacity
           /\ t = With(s, i, [file EXCEPT !.size = n],
                        [s.mem EXCEPT ![file.data] = Over(text, @)], s.count)
  <2> DEFINE e  == [file EXCEPT !.size = n]
             mm == [s.mem EXCEPT ![file.data] = Over(text, @)]
  <2>1. t.files = [s.files EXCEPT ![i] = e] /\ t.mem = mm /\ t.result = i
    BY <1>5 DEF With
  <2>2. ~e.is_directory /\ e.data = file.data /\ e.size = n
    BY <1>1, <1>5 DEF EntryType
  <2>3. mm[file.data] = Over(text, s.mem[file.data]) /\ \A x \in Buffers \ {file.data} : mm[x] = s.mem[x]
    BY <1>1, <1>3, <1>5
  <2> HIDE DEF e, mm
  <2>4. t.files[i] = e /\ \A j \in Slots \ {i} : t.files[j] = s.files[j]
    BY <1>1, <2>1
  <2>5. SubSeq(mm[file.data], 1, n) = text
    <3>1. PICK buf \in Seq(Bytes) : buf = s.mem[file.data]
      BY <1>1, <1>3, <1>5
    <3>2. Len(text) <= Len(buf)
      BY <1>3, <1>5, <3>1 DEF n
    <3>3. SubSeq(Over(text, buf), 1, Len(text)) = text
      BY <3>2, OverStarts
    <3> QED BY <2>3, <3>1, <3>3 DEF n
  <2>6. MemKept(s.mem, t.mem, file.data)
    BY <2>1, <2>3 DEF MemKept
  <2> QED BY <1>5, <2>1, <2>2, <2>4, <2>5, <2>6 DEF TextPut
<1>6. ASSUME ~file.is_directory, ~(n <= file.capacity), NEW b \in Free(s),
             t = With(s, i, [file EXCEPT !.size = n, !.data = b, !.capacity = RoundToChunk(n)],
                      [s.mem EXCEPT ![b] = Over(text, Fresh(RoundToChunk(n))), ![file.data] = << >>],
                      s.count)
      PROVE  TextPut(s, i, text, t)
  <2> DEFINE new == Over(text, Fresh(RoundToChunk(n)))
             e   == [file EXCEPT !.size = n, !.data = b, !.capacity = RoundToChunk(n)]
             mm  == [s.mem EXCEPT ![b] = new, ![file.data] = << >>]
  <2>1. t.files = [s.files EXCEPT ![i] = e] /\ t.mem = mm /\ t.result = i
    BY <1>6 DEF With
  <2>2. ~e.is_directory /\ e.data = b /\ e.size = n
    BY <1>1, <1>6 DEF EntryType
  <2>3. SubSeq(new, 1, n) = text
    <3>1. RoundToChunk(n) \in Nat /\ n <= RoundToChunk(n)
      BY <1>2, Rounding
    <3>2. PICK buf \in Seq(Bytes) : buf = Fresh(RoundToChunk(n)) /\ Len(buf) = RoundToChunk(n)
      BY <3>1, FreshIs
    <3>3. Len(text) <= Len(buf)
      BY <3>1, <3>2 DEF n
    <3>4. SubSeq(Over(text, buf), 1, Len(text)) = text
      BY <3>3, OverStarts
    <3> QED BY <3>2, <3>4 DEF n
  <2>4. b \in Buffers /\ s.mem[b] = << >>
    BY <1>6 DEF Free
  <2>5. b # file.data
    <3>1. file.data # NULL
      BY <1>3, <1>6
    <3>2. s.mem[file.data] # << >>
      BY <1>1, <3>1, BufferOf
    <3> QED BY <2>4, <3>2
  <2> HIDE DEF new, e
  <2>6. mm[b] = new /\ \A x \in Buffers \ {b, file.data} : mm[x] = s.mem[x]
    BY <1>1, <2>4, <2>5
  <2> HIDE DEF mm
  <2>7. t.files[i] = e /\ \A j \in Slots \ {i} : t.files[j] = s.files[j]
    BY <1>1, <2>1
  <2>8. MemKept(s.mem, t.mem, file.data)
    BY <2>1, <2>4, <2>6 DEF MemKept
  <2>9. SubSeq(t.mem[t.files[i].data], 1, t.files[i].size) = text
    BY <2>1, <2>2, <2>3, <2>6, <2>7
  <2> QED BY <1>6, <2>1, <2>2, <2>7, <2>8, <2>9 DEF TextPut
<1>7. \/ t = Failed(s, -1) /\ file.is_directory
      \/ t = Failed(s, -3) /\ ~(n <= file.capacity)
      \/ /\ ~file.is_directory /\ n <= file.capacity
         /\ t = With(s, i, [file EXCEPT !.size = n],
                     [s.mem EXCEPT ![file.data] = Over(text, @)], s.count)
      \/ /\ ~file.is_directory /\ ~(n <= file.capacity)
         /\ \E b \in Free(s) :
              t = With(s, i, [file EXCEPT !.size = n, !.data = b, !.capacity = RoundToChunk(n)],
                      [s.mem EXCEPT ![b] = Over(text, Fresh(RoundToChunk(n))), ![file.data] = << >>],
                      s.count)
  BY DEF Put, n
<1>8. -1 < 0 /\ -3 < 0
  OBVIOUS
<1> QED BY <1>4, <1>5, <1>6, <1>7, <1>8

(* A node put where there was one. *)
LEMMA PutTwice ==
  ASSUME NEW T, NEW q, NEW e, NEW e2
  PROVE  PutAt(PutAt(T, q, e), q, e2) = PutAt(T, q, e2)
<1>1. DOMAIN PutAt(T, q, e) \cup {q} = DOMAIN T \cup {q}
  BY DEF PutAt
<1>2. \A p \in DOMAIN T \cup {q} : p # q => PutAt(T, q, e)[p] = T[p]
  BY DEF PutAt
<1>3. PICK U : U = PutAt(T, q, e)
  OBVIOUS
<1>4. PutAt(U, q, e2) = [p \in DOMAIN T \cup {q} |-> IF p = q THEN e2 ELSE U[p]]
  BY <1>1, <1>3 DEF PutAt
<1>5. [p \in DOMAIN T \cup {q} |-> IF p = q THEN e2 ELSE U[p]] =
      [p \in DOMAIN T \cup {q} |-> IF p = q THEN e2 ELSE T[p]]
  BY <1>2, <1>3
<1> QED BY <1>3, <1>4, <1>5 DEF PutAt

(* ramfs_write_file as a change of the tree. *)
LEMMA PutTree ==
  ASSUME NEW s, Sound(s), GoodTable(s.files), NEW i \in UsedIn(s.files),
         NEW text \in Seq(Bytes), Len(text) <= MaxSize - 1,
         NEW t \in Put(s, i, text)
  PROVE  \/ /\ t.result < 0 /\ (text = << >> => s.files[i].is_directory)
            /\ TreeOf(t.files, t.mem) = TreeOf(s.files, s.mem)
         \/ /\ t.result = i /\ ~s.files[i].is_directory
            /\ TreeOf(t.files, t.mem) =
                 PutAt(TreeOf(s.files, s.mem), PathIn(s.files, i), [dir |-> FALSE, text |-> text])
<1>1. Sound(t) /\ Keeps(s.files, t.files) /\ UsedIn(t.files) = UsedIn(s.files)
  BY PutSound
<1>2. CASE NothingPut(s, i, text, t)
  BY <1>2 DEF NothingPut
<1>3. CASE TextPut(s, i, text, t)
  <2>1. PICK fl, mm, fl2, mm2 : fl = s.files /\ mm = s.mem /\ fl2 = t.files /\ mm2 = t.mem
    OBVIOUS
  <2>2. /\ GoodTable(fl) /\ Owned(fl, mm) /\ fl2 \in [Slots -> EntryType] /\ Hangs(fl2)
        /\ Keeps(fl, fl2) /\ UsedIn(fl2) = UsedIn(fl) /\ i \in UsedIn(fl) /\ i \in Slots
    BY <1>1, <2>1 DEF Sound, UsedIn
  <2>3. Distinct(fl2)
    BY <2>2 DEF GoodTable, Distinct, Keeps
  <2>4. GoodTable(fl2)
    BY <2>2, <2>3 DEF GoodTable
  <2>5. /\ t.result = i /\ ~fl[i].is_directory /\ ~fl2[i].is_directory
        /\ \A j \in Slots \ {i} : fl2[j] = fl[j]
        /\ MemKept(mm, mm2, fl[i].data)
        /\ SubSeq(mm2[fl2[i].data], 1, fl2[i].size) = text
    BY <1>3, <2>1 DEF TextPut
  <2>6. ASSUME NEW j \in UsedIn(fl) \ {i} PROVE Node(fl2, mm2, j) = Node(fl, mm, j)
    <3>1. j \in Slots /\ fl2[j] = fl[j]
      BY <2>5 DEF UsedIn
    <3>2. fl[i].data # NULL
      <4>1. IsFile(fl[i])
        BY <2>2, <2>5 DEF IsFile, UsedIn
      <4> QED BY <2>2, <4>1, RamFsAssumption DEF Owned, HasBuffer
    <3>3. fl[j].data # fl[i].data
      BY <2>2, <3>1, <3>2 DEF Owned
    <3> QED BY <2>2, <2>5, <3>1, <3>3, NodeKept
  <2>7. PICK q : q = PathIn(fl2, i) /\ q = PathIn(fl, i)
    BY <2>2, <2>4, PathsKept DEF GoodTable
  <2>8. UsedIn(fl2) = UsedIn(fl) \cup {i}
    BY <2>2
  <2>9. NodesBut(i, fl, mm, fl2, mm2)
    BY <2>6 DEF NodesBut
  <2>10. TreeOf(fl2, mm2) = PutAt(TreeOf(fl, mm), q, Node(fl2, mm2, i))
    <3>1. /\ GoodTable(fl) /\ GoodTable(fl2) /\ i \in Slots /\ Keeps(fl, fl2)
          /\ UsedIn(fl2) = UsedIn(fl) \cup {i} /\ NodesBut(i, fl, mm, fl2, mm2) /\ q = PathIn(fl2, i)
      BY <2>2, <2>4, <2>7, <2>8, <2>9
    <3> QED BY ONLY <3>1, TreePut
  <2>11. Node(fl2, mm2, i) = [dir |-> FALSE, text |-> text]
    <3>1. fl2[i].is_directory = FALSE
      BY <1>1, <2>1, <2>2, <2>5 DEF GoodTable, EntryType
    <3> QED BY <2>5, <3>1 DEF Node
  <2> QED BY <2>1, <2>5, <2>7, <2>10, <2>11
<1> QED BY <1>2, <1>3, PutMakes

(* The inductive invariant, where no directory has two entries of one      *)
(* name.                                                                   *)
TInv == RInv /\ GoodTable(files) /\ files[0].name = "/"

(* The path a name stands for, that of an entry made under it, and that of *)
(* the one ramfs_write_file writes.                                        *)
Here(n)  == Looked(PathOf(current_dir), n)
There(n) == Here(Stored[n])
Spot(n)  == IF Here(n) \in DOMAIN AsTree THEN Here(n) ELSE There(n)

(* There is no entry at the first two. *)
Unmade(n) == Here(n) \notin DOMAIN AsTree /\ There(n) \notin DOMAIN AsTree

(* The file system as the functions take and return it, as a tree. *)
AsTreeOf(s) == TreeOf(s.files, s.mem)

(* ramfs_find_file finds what the tree has under the path. *)
FoundAt(n) ==
  IF Find(n) >= 0
  THEN /\ Find(n) \in UsedIn(files) /\ PathIn(files, Find(n)) = Here(n)
       /\ Here(n) \in DOMAIN AsTree /\ AsTree[Here(n)] = Node(files, mem, Find(n))
  ELSE Find(n) = -1 /\ Here(n) \notin DOMAIN AsTree

(* Which it does, for every name and directory. *)
LEMMA FindLooks ==
  ASSUME TInv, NEW n \in Names
  PROVE  FoundAt(n)
<1>1. PICK fl, c, q, T : fl = files /\ c = current_dir /\ q = Here(n) /\ T = TreeOf(fl, mem)
  OBVIOUS
<1>2. /\ GoodTable(fl) /\ fl[0].name = "/" /\ c \in UsedIn(fl) /\ n \in AllNames
      /\ Used = UsedIn(fl) /\ UsedIn(fl) \subseteq Slots /\ T = AsTree
  BY <1>1 DEF TInv, RInv, AllNames, Used, UsedIn, AsTree
<1>3. TreeIsOf(T, fl, mem)
  BY <1>1, <1>2, TreeIs DEF GoodTable
<1>4. q = Looked(PathIn(fl, c), n)
  BY <1>1 DEF Here, PathOf
<1>5. \A i \in UsedIn(fl) : fl[i].parent_index = c /\ fl[i].name = n <=> PathIn(fl, i) = q
  BY <1>2, <1>4, LookupIs
<1>6. \/ /\ Find(n) \in UsedIn(fl) /\ fl[Find(n)].parent_index = c /\ fl[Find(n)].name = n
      \/ /\ Find(n) = -1
         /\ \A i \in UsedIn(fl) : ~(fl[i].parent_index = c /\ fl[i].name = n)
  BY <1>1, <1>2, FindIs
<1>7. CASE Find(n) \in UsedIn(fl) /\ fl[Find(n)].parent_index = c /\ fl[Find(n)].name = n
  <2>1. PICK i \in UsedIn(fl) : i = Find(n) /\ PathIn(fl, i) = q
    BY <1>5, <1>7
  <2>2. q \in DOMAIN T /\ T[q] = Node(fl, mem, i)
    BY <1>3, <2>1 DEF TreeIsOf
  <2>3. i >= 0
    BY <1>2, RamFsAssumption DEF Slots
  <2> QED BY <1>1, <1>2, <2>1, <2>2, <2>3 DEF FoundAt
<1>8. CASE /\ Find(n) = -1
           /\ \A i \in UsedIn(fl) : ~(fl[i].parent_index = c /\ fl[i].name = n)
  <2>1. q \notin DOMAIN T
    BY <1>3, <1>5, <1>8 DEF TreeIsOf
  <2> QED BY <1>1, <1>2, <1>8, <2>1 DEF FoundAt
<1> QED BY <1>6, <1>7, <1>8

(* ramfs_create as a change of the tree. *)
TreeGrown(s, n, e) ==
  /\ ~(Find(n) >= 0)
  /\ s.result \in UsedIn(s.files) /\ s.result >= 0
  /\ PathIn(s.files, s.result) = There(n) /\ There(n) \notin DOMAIN AsTree
  /\ AsTreeOf(s) = PutAt(AsTree, There(n), e)

(* ramfs_create adds a node to the tree, or fails and leaves it alone,     *)
(* where it makes no second entry of one name.                             *)
LEMMA CreateTree ==
  ASSUME TInv, NEW n \in Names, NEW dir \in BOOLEAN, NEW s \in Create(n, dir), Distinct(s.files)
  PROVE  /\ Sound(s) /\ GoodTable(s.files)
         /\ \/ s.result < 0 /\ AsTreeOf(s) = AsTree
            \/ /\ TreeGrown(s, n, [dir |-> dir, text |-> << >>])
               /\ s.files[s.result].is_directory = dir
<1>1. /\ Sound(s) /\ Keeps(files, s.files)
      /\ NothingMade(s) \/ EntryMade(s, n, dir)
  BY CreateSound, CreateMakes DEF TInv, Gains
<1>2. PICK fl, mm, fl2, mm2, c : fl = files /\ mm = mem /\ fl2 = s.files /\ mm2 = s.mem /\ c = current_dir
  OBVIOUS
<1>3. /\ GoodTable(fl) /\ Owned(fl, mm) /\ GoodTable(fl2) /\ Keeps(fl, fl2)
      /\ c \in UsedIn(fl) /\ UsedIn(fl) \subseteq Slots
      /\ AsTree = TreeOf(fl, mm) /\ AsTreeOf(s) = TreeOf(fl2, mm2) /\ Used = UsedIn(fl)
  BY <1>1, <1>2 DEF TInv, RInv, Sound, fs, UsedIn, Used, AsTree, AsTreeOf, GoodTable
<1>4. CASE NothingMade(s)
  <2>1. s.result < 0 /\ mm2 = mm /\ UsedIn(fl2) = UsedIn(fl) /\ \A j \in UsedIn(fl) : fl2[j] = fl[j]
    BY <1>2, <1>4 DEF NothingMade
  <2>2. \A j \in UsedIn(fl) : Node(fl2, mm2, j) = Node(fl, mm, j)
    BY <2>1 DEF Node
  <2>3. TreeOf(fl2, mm2) = TreeOf(fl, mm)
    BY <1>3, <2>1, <2>2, TreeSame
  <2> QED BY <1>1, <1>2, <1>3, <2>1, <2>3
<1>5. CASE EntryMade(s, n, dir)
  <2>1. PICK i \in Slots : i = s.result
    BY <1>5 DEF EntryMade
  <2>2. /\ i \notin UsedIn(fl) /\ i >= 0 /\ ~(Find(n) >= 0)
        /\ UsedIn(fl2) = UsedIn(fl) \cup {i}
        /\ \A j \in UsedIn(fl) : fl2[j] = fl[j]
        /\ fl2[i].is_directory = dir /\ fl2[i].size = 0
        /\ fl2[i].name = Stored[n] /\ fl2[i].parent_index = c
        /\ MemKept(mm, mm2, fl2[i].data)
    BY <1>2, <1>3, <1>5, <2>1 DEF EntryMade
  <2>3. Owned(fl2, mm2)
    BY <1>1, <1>2 DEF Sound
  <2>4. ASSUME NEW j \in UsedIn(fl) \ {i} PROVE Node(fl2, mm2, j) = Node(fl, mm, j)
    <3>1. fl2[j] = fl[j] /\ j \in Slots /\ j # i
      BY <1>3, <2>2
    <3>2. fl[j].data # fl2[i].data \/ fl[j].is_directory
      <4>1. CASE ~fl[j].is_directory
        <5>1. IsFile(fl[j])
          BY <4>1 DEF IsFile, UsedIn
        <5>2. fl[j].data # NULL
          BY <1>3, <3>1, <5>1, RamFsAssumption DEF Owned, HasBuffer
        <5> QED BY <2>3, <3>1, <5>2 DEF Owned
      <4> QED BY <4>1
    <3> QED BY <1>3, <2>2, <3>1, <3>2, NodeKept
  <2>5. NodesBut(i, fl, mm, fl2, mm2)
    BY <2>4 DEF NodesBut
  <2>6. PICK q : q = There(n) /\ q = PathIn(fl2, i)
    <3>1. PICK m \in AllNames : m = Stored[n]
      BY DEF AllNames
    <3>2. c \in UsedIn(fl2) /\ fl2[0].name = "/"
      BY <1>2, <1>3, <2>2 DEF TInv, GoodTable, Hangs
    <3>3. PathIn(fl2, c) = PathIn(fl, c)
      BY <1>3, PathsKept DEF GoodTable
    <3>4. PathIn(fl2, i) = Looked(PathIn(fl2, c), m)
      BY <1>3, <2>2, <3>1, <3>2, LookupIs
    <3> QED BY <1>2, <3>1, <3>3, <3>4 DEF There, Here, PathOf
  <2>7. TreeOf(fl2, mm2) = PutAt(TreeOf(fl, mm), q, Node(fl2, mm2, i))
    <3>1. /\ GoodTable(fl) /\ GoodTable(fl2) /\ i \in Slots /\ Keeps(fl, fl2)
          /\ UsedIn(fl2) = UsedIn(fl) \cup {i} /\ NodesBut(i, fl, mm, fl2, mm2) /\ q = PathIn(fl2, i)
      BY <1>3, <2>2, <2>5, <2>6
    <3> QED BY ONLY <3>1, TreePut
  <2>8. Node(fl2, mm2, i) = [dir |-> dir, text |-> << >>]
    <3>1. SubSeq(mm2[fl2[i].data], 1, 0) = << >>
      BY SubSeqEmpty
    <3> QED BY <2>2, <3>1 DEF Node
  <2>9. q \notin DOMAIN AsTree
    <3>1. DOMAIN AsTree = {PathIn(fl, j) : j \in UsedIn(fl)}
      BY <1>3, TreeIs DEF GoodTable, TreeIsOf
    <3> SUFFICES ASSUME NEW j \in UsedIn(fl), PathIn(fl, j) = q PROVE FALSE
      BY <3>1
    <3>2. PathIn(fl2, j) = q /\ j \in UsedIn(fl2) /\ i \in UsedIn(fl2)
      BY <1>3, <2>2, PathsKept DEF GoodTable
    <3>3. i = j
      BY <1>3, <2>6, <3>2, PathsDiffer DEF GoodTable
    <3> QED BY <2>2, <3>3
  <2>10. TreeGrown(s, n, [dir |-> dir, text |-> << >>])
    BY <1>2, <1>3, <2>1, <2>2, <2>6, <2>7, <2>8, <2>9 DEF TreeGrown
  <2> QED BY <1>1, <1>2, <1>3, <2>1, <2>2, <2>10
<1> QED BY <1>1, <1>4, <1>5

(* ramfs_write_file, which may create the file, as a change of the tree.   *)
Written(s, n, text) ==
  \/ /\ s.result >= 0 /\ (Unmade(n) \/ (Here(n) \in DOMAIN AsTree /\ ~AsTree[Here(n)].dir))
     /\ AsTreeOf(s) = PutAt(AsTree, Spot(n), [dir |-> FALSE, text |-> text])
  \/ s.result < 0 /\ AsTreeOf(s) = AsTree
  \/ /\ s.result < 0 /\ Unmade(n) /\ text # << >>
     /\ AsTreeOf(s) = PutAt(AsTree, Spot(n), [dir |-> FALSE, text |-> << >>])

(* ramfs_write_file does so, whichever way its allocations go, where it    *)
(* makes no second entry of one name.                                      *)
LEMMA WriteTree ==
  ASSUME TInv, NEW n \in Names, NEW text \in Seq(Bytes), Len(text) <= MaxSize - 1,
         NEW t \in WriteFile(n, text), Distinct(t.files)
  PROVE  Written(t, n, text)
<1>1. FoundAt(n)
  BY FindLooks
<1>2. CASE Find(n) >= 0 /\ t \in Put(fs, Find(n), text)
  <2>1. PICK i \in UsedIn(files) : /\ i = Find(n) /\ PathIn(files, i) = Here(n) /\ i >= 0
                                   /\ Here(n) \in DOMAIN AsTree /\ AsTree[Here(n)] = Node(files, mem, i)
    BY <1>1, <1>2 DEF FoundAt
  <2>2. PICK s : s = fs
    OBVIOUS
  <2>3. /\ Sound(s) /\ s.files = files /\ s.mem = mem /\ GoodTable(s.files)
        /\ i \in UsedIn(s.files) /\ t \in Put(s, i, text)
    BY <1>2, <2>1, <2>2 DEF TInv, RInv, fs
  <2>4. \/ t.result < 0 /\ TreeOf(t.files, t.mem) = TreeOf(s.files, s.mem)
        \/ /\ t.result = i /\ ~s.files[i].is_directory
           /\ TreeOf(t.files, t.mem) =
                PutAt(TreeOf(s.files, s.mem), PathIn(s.files, i), [dir |-> FALSE, text |-> text])
    <3>1. /\ Sound(s) /\ GoodTable(s.files) /\ i \in UsedIn(s.files) /\ t \in Put(s, i, text)
          /\ text \in Seq(Bytes) /\ Len(text) <= MaxSize - 1
      BY <2>3
    <3> QED BY ONLY <3>1, PutTree
  <2>5. AsTree[Here(n)].dir = files[i].is_directory
    BY <2>1 DEF Node
  <2>6. Spot(n) = Here(n)
    BY <2>1 DEF Spot
  <2> QED BY <2>1, <2>3, <2>4, <2>5, <2>6 DEF Written, AsTreeOf, AsTree
<1>3. ASSUME ~(Find(n) >= 0), NEW s \in Create(n, FALSE), t \in (IF s.result < 0 THEN {s} ELSE Put(s, s.result, text))
      PROVE  Written(t, n, text)
  <2>1. Here(n) \notin DOMAIN AsTree /\ Spot(n) = There(n)
    BY <1>1, <1>3 DEF FoundAt, Spot
  <2>2. /\ Sound(s) /\ GoodTable(s.files)
        /\ \/ s.result < 0 /\ AsTreeOf(s) = AsTree
           \/ /\ TreeGrown(s, n, [dir |-> FALSE, text |-> << >>])
              /\ s.files[s.result].is_directory = FALSE
    <3>1. Distinct(s.files)
      <4>1. CASE s.result < 0
        BY <1>3, <4>1
      <4>2. CASE ~(s.result < 0)
        <5>1. Sound(s) /\ s.result \in Int /\ (s.result >= 0 => s.result \in UsedIn(s.files))
          BY CreateSound DEF TInv
        <5>2. s.result >= 0
          BY <4>2, <5>1
        <5>3. t \in Put(s, s.result, text)
          BY <1>3, <4>2
        <5>4. Keeps(s.files, t.files)
          BY <5>1, <5>2, <5>3, PutSound
        <5> QED BY <5>4 DEF Keeps, Distinct
      <4> QED BY <4>1, <4>2
    <3> QED BY <3>1, CreateTree
  <2>3. CASE s.result < 0 /\ AsTreeOf(s) = AsTree
    BY <1>3, <2>3 DEF Written
  <2>4. CASE /\ TreeGrown(s, n, [dir |-> FALSE, text |-> << >>])
             /\ s.files[s.result].is_directory = FALSE
    <3>1. PICK i \in UsedIn(s.files) : /\ i = s.result /\ i >= 0 /\ ~(i < 0) /\ PathIn(s.files, i) = Spot(n)
                                       /\ AsTreeOf(s) = PutAt(AsTree, Spot(n), [dir |-> FALSE, text |-> << >>])
                                       /\ ~s.files[i].is_directory /\ Unmade(n)
      <4>1. s.result \in Int
        BY <2>4, RamFsAssumption DEF TreeGrown, UsedIn, Slots
      <4> QED BY <4>1, <2>1, <2>4 DEF TreeGrown, Unmade
    <3>2. t \in Put(s, i, text)
      BY <1>3, <3>1
    <3>3. \/ /\ t.result < 0 /\ (text = << >> => s.files[i].is_directory)
             /\ TreeOf(t.files, t.mem) = TreeOf(s.files, s.mem)
          \/ /\ t.result = i
             /\ TreeOf(t.files, t.mem) =
                  PutAt(TreeOf(s.files, s.mem), PathIn(s.files, i), [dir |-> FALSE, text |-> text])
      BY <2>2, <3>2, PutTree
    <3>4. CASE /\ t.result < 0 /\ (text = << >> => s.files[i].is_directory)
               /\ TreeOf(t.files, t.mem) = TreeOf(s.files, s.mem)
      BY <2>1, <3>1, <3>4 DEF Written, AsTreeOf
    <3>5. CASE /\ t.result = i
               /\ TreeOf(t.files, t.mem) =
                    PutAt(TreeOf(s.files, s.mem), PathIn(s.files, i), [dir |-> FALSE, text |-> text])
      <4>1. AsTreeOf(t) = PutAt(AsTree, Spot(n), [dir |-> FALSE, text |-> text])
        BY <3>1, <3>5, PutTwice DEF AsTreeOf
      <4> QED BY <2>1, <3>1, <3>5, <4>1 DEF Written
    <3> QED BY <3>3, <3>4, <3>5
  <2> QED BY <2>2, <2>3, <2>4
<1>4. \/ Find(n) >= 0 /\ t \in Put(fs, Find(n), text)
      \/ /\ ~(Find(n) >= 0)
         /\ \E s \in Create(n, FALSE) : t \in (IF s.result < 0 THEN {s} ELSE Put(s, s.result, text))
  BY DEF WriteFile
<1> QED BY <1>2, <1>3, <1>4

(* The current directory keeps its path when nothing or something else     *)
(* comes or goes.                                                          *)
LEMMA CwdKept ==
  ASSUME TInv, TInv', current_dir' = current_dir, Keeps(files, files') \/ Keeps(files', files)
  PROVE  PathOf(current_dir)' = PathOf(current_dir)
<1>1. PICK fl, fl2, c : fl = files /\ fl2 = files' /\ c = current_dir
  OBVIOUS
<1>2. GoodTable(fl) /\ GoodTable(fl2) /\ c \in UsedIn(fl) /\ c \in UsedIn(fl2)
  BY <1>1 DEF TInv, RInv
<1>3. PathIn(fl2, c) = PathIn(fl, c)
  BY <1>1, <1>2, PathsKept DEF GoodTable
<1> QED BY <1>1, <1>3 DEF PathOf

(* What DirTree says of names, of this tree. *)
LEMMA TreeNames ==
  ASSUME NEW n, NEW e
  PROVE  /\ Tree!Lookup(n) = Here(n)
         /\ Tree!Exists(n) <=> Here(n) \in DOMAIN AsTree
         /\ Tree!IsDir(n) <=> Here(n) \in DOMAIN AsTree /\ AsTree[Here(n)].dir
         /\ Tree!IsFile(n) <=> Here(n) \in DOMAIN AsTree /\ ~AsTree[Here(n)].dir
         /\ Tree!New(n) <=> Unmade(n)
         /\ Tree!With(n, e) = PutAt(AsTree, Spot(n), e)
BY DEF Tree!Lookup, Tree!Exists, Tree!IsDir, Tree!IsFile, Tree!New, Tree!Place, Tree!With,
       Here, There, Spot, Unmade, Looked, PutAt

(* The state takes the tree a function returns. *)
LEMMA TreeBecomes ==
  ASSUME NEW s, Becomes(s)
  PROVE  AsTree' = AsTreeOf(s)
BY DEF Becomes, AsTree, AsTreeOf

(* mkdir makes a directory of the tree, or fails; *)
LEMMA MkdirTree ==
  ASSUME TInv, TInv', NEW n \in Names, cmd_mkdir(n)
  PROVE  Tree!Make("mkdir", n, Tree!Dir)
<1>1. PICK s \in Create(n, TRUE) : Becomes(s) /\ Answer("mkdir", n, s.result >= 0, << >>)
  BY DEF cmd_mkdir
<1>2. /\ \/ s.result < 0 /\ AsTreeOf(s) = AsTree
         \/ TreeGrown(s, n, [dir |-> TRUE, text |-> << >>])
      /\ s.result \in Int /\ Keeps(files, files')
  <2>1. Distinct(s.files)
    BY <1>1 DEF TInv, GoodTable, Becomes
  <2> QED BY <1>1, <2>1, CreateTree, CreateSound DEF TInv, Gains, Becomes
<1>3. ~edit.on /\ UNCHANGED <<PathOf(current_dir), edit>>
  BY <1>2, CwdKept DEF cmd_mkdir, Idle
<1>4. CASE s.result < 0 /\ AsTreeOf(s) = AsTree
  <2>1. AsTree' = AsTree
    BY <1>1, <1>4, TreeBecomes
  <2>2. (s.result >= 0) = FALSE
    BY <1>2, <1>4
  <2>3. Tree!Answer("mkdir", n, FALSE, << >>)
    BY <1>1, <2>2 DEF Answer, Tree!Answer
  <2> QED BY <1>3, <2>1, <2>3 DEF Tree!Make, Tree!Idle
<1>5. CASE TreeGrown(s, n, [dir |-> TRUE, text |-> << >>])
  <2>1. Unmade(n) /\ Spot(n) = There(n)
    BY <1>5, FindLooks DEF TreeGrown, FoundAt, Unmade, Spot
  <2>2. Tree!Answer("mkdir", n, TRUE, << >>)
    BY <1>1, <1>5 DEF Answer, Tree!Answer, TreeGrown
  <2>3. AsTree' = Tree!With(n, Tree!Dir) /\ Tree!New(n)
    BY <1>1, <1>5, <2>1, TreeBecomes, TreeNames DEF TreeGrown, Tree!Dir
  <2> QED BY <1>3, <2>2, <2>3 DEF Tree!Make, Tree!Idle
<1> QED BY <1>2, <1>4, <1>5

(* ramfs_read_file reads the text of the tree, the whole of it. *)
LEMMA ReadLooks ==
  ASSUME TInv, NEW n \in Names
  PROVE  IF Here(n) \in DOMAIN AsTree /\ ~AsTree[Here(n)].dir
         THEN ReadFile(n) = AsTree[Here(n)].text /\ ReadFile(n) # NULL
         ELSE ReadFile(n) = NULL
<1>1. FoundAt(n)
  BY FindLooks
<1>2. CASE ~(Find(n) >= 0)
  <2>1. Find(n) < 0 /\ Here(n) \notin DOMAIN AsTree
    BY <1>1, <1>2 DEF FoundAt
  <2> QED BY <2>1 DEF ReadFile
<1>3. CASE Find(n) >= 0
  <2>1. PICK i \in UsedIn(files) : /\ i = Find(n) /\ i >= 0 /\ ~(i < 0)
                                   /\ Here(n) \in DOMAIN AsTree /\ AsTree[Here(n)] = Node(files, mem, i)
    <3>1. Find(n) \in Int
      BY <1>1, <1>3, RamFsAssumption DEF FoundAt, UsedIn, Slots
    <3> QED BY <1>1, <1>3, <3>1 DEF FoundAt
  <2>2. files \in [Slots -> EntryType] /\ Owned(files, mem) /\ mem \in [Buffers -> Seq(Bytes)] /\ i \in Slots
    BY <2>1 DEF TInv, RInv, Sound, Owned, fs, UsedIn
  <2>3. AsTree[Here(n)].dir = files[i].is_directory
    BY <2>1 DEF Node
  <2>4. CASE files[i].is_directory
    <3>1. ReadFile(n) = NULL
      BY <2>1, <2>4 DEF ReadFile
    <3> QED BY <2>3, <2>4, <3>1
  <2>5. CASE ~files[i].is_directory
    <3>1. AsTree[Here(n)].text = Contents(i)
      <4>1. Node(files, mem, i).text = Contents(i)
        BY <2>5 DEF Node, Contents
      <4> QED BY <2>1, <4>1
    <3>2. HasBuffer(files[i], mem) /\ files[i] \in EntryType
      BY <2>1, <2>2, <2>5 DEF Owned, IsFile, UsedIn
    <3>3. PICK buf \in Seq(Bytes), size \in Nat :
            buf = mem[files[i].data] /\ size = files[i].size /\ size <= Len(buf) /\ size <= MaxSize - 1
      BY <2>2, <3>2, RamFsAssumption DEF HasBuffer, EntryType
    <3>4. PICK c \in Seq(Bytes) : c = SubSeq(buf, 1, size) /\ Len(c) = size
      <4>1. \A k \in 1 .. size : buf[k] \in Bytes
        BY <3>3
      <4>2. /\ SubSeq(buf, 1, size) \in Seq(Bytes)
            /\ Len(SubSeq(buf, 1, size)) = IF 1 <= size THEN size - 1 + 1 ELSE 0
        BY <4>1, SubSeqProperties
      <4>3. (IF 1 <= size THEN size - 1 + 1 ELSE 0) = size
        OBVIOUS
      <4> QED BY <4>2, <4>3
    <3>5. c = Contents(i)
      BY <3>3, <3>4 DEF Contents
    <3>6. SubSeq(c, 1, Len(c)) = c
      BY SubSeqFull
    <3>7. size < MaxSize - 1 \/ size = MaxSize - 1
      BY <3>3, RamFsAssumption
    <3>8. ReadFile(n) = c
      BY <2>1, <2>5, <3>3, <3>4, <3>5, <3>6, <3>7 DEF ReadFile
    <3>9. c # NULL
      BY RamFsAssumption
    <3> QED BY <2>1, <2>3, <2>5, <3>1, <3>5, <3>8, <3>9
  <2> QED BY <2>4, <2>5
<1> QED BY <1>2, <1>3

(* The test of ramfs_delete, in the tree. *)
LEMMA EntryLooks ==
  ASSUME TInv, NEW n \in Names, NEW i \in UsedIn(files), PathIn(files, i) = Here(n)
  PROVE  HasEntry(i) <=> Tree!HasEntry(n)
<1>1. PICK fl, c, T, q : /\ fl = files /\ c = current_dir /\ T = AsTree /\ q = Here(n)
  OBVIOUS
<1>2. /\ GoodTable(fl) /\ Used = UsedIn(fl) /\ c \in UsedIn(fl) /\ T = TreeOf(fl, mem) /\ q = PathIn(fl, i)
      /\ q = Looked(PathIn(fl, c), n) /\ Hangs(fl) /\ n \in AllNames
  BY <1>1 DEF TInv, RInv, GoodTable, Used, UsedIn, AsTree, Here, PathOf, AllNames
<1>3. TreeIsOf(T, fl, mem)
  BY <1>2, TreeIs DEF GoodTable
<1>4. /\ PathIn(fl, 0) = << >> /\ 0 \in UsedIn(fl)
      /\ \A x \in UsedIn(fl) \ {0} :
              PathIn(fl, x) = Append(PathIn(fl, fl[x].parent_index), fl[x].name)
      /\ \A x \in UsedIn(fl) : PathIn(fl, x) \in Seq(AllNames) /\ (x # 0 => PathIn(fl, x) # << >>)
      /\ \A x \in UsedIn(fl) : fl[x].parent_index \in UsedIn(fl) /\ fl[fl[x].parent_index].is_directory
      /\ fl[0].parent_index = 0 /\ fl[0].is_directory
      /\ \A x \in UsedIn(fl) : fl[x].name \in AllNames
  BY <1>2, PathStep, PathIs DEF Hangs, GoodTable, EntryType, AllNames, UsedIn
<1>5. PICK p \in Seq(AllNames) : p = PathIn(fl, c) /\ p = PathOf(current_dir)
  BY <1>1, <1>2, <1>4 DEF PathOf
<1>6. CASE q = << >>
  <2>1. i = 0
    BY <1>1, <1>2, <1>4, <1>6
  <2>2. HasEntry(i)
    BY <1>1, <1>2, <1>4, <2>1 DEF HasEntry
  <2>3. Tree!HasEntry(n)
    BY <1>1, <1>6, TreeNames DEF Tree!HasEntry
  <2> QED BY <2>2, <2>3
<1>7. CASE q # << >>
  <2>1. q = Append(p, n) /\ i # 0
    BY <1>2, <1>4, <1>5, <1>7 DEF Looked
  <2>2. q \in Seq(AllNames) /\ Len(q) = Len(p) + 1 /\ Len(p) \in Nat /\ Len(q) \in Nat
    BY <1>2, <2>1, AppendProperties
  <2>3. Tree!HasEntry(n) <=> \E r \in DOMAIN T : Len(r) = Len(p) + 2 /\ SubSeq(r, 1, Len(p) + 1) = q
    BY <1>1, <1>5, <1>7, TreeNames DEF Tree!HasEntry
  <2>4. HasEntry(i) <=> files[i].is_directory /\ \E j \in UsedIn(fl) : fl[j].parent_index = i
    BY <1>1, <1>2 DEF HasEntry
  <2>5. ASSUME NEW j \in UsedIn(fl), fl[j].parent_index = i
        PROVE  \E r \in DOMAIN T : Len(r) = Len(p) + 2 /\ SubSeq(r, 1, Len(p) + 1) = q
    <3>1. PICK m \in AllNames : m = fl[j].name
      BY <1>4
    <3>2. PICK r \in Seq(AllNames) : r = PathIn(fl, j) /\ r = Append(q, m)
      BY <1>2, <1>4, <2>1, <2>5, <3>1
    <3>3. r \in DOMAIN T
      BY <1>3, <3>2 DEF TreeIsOf
    <3>4. Len(r) = Len(q) + 1
      BY <2>2, <3>2, AppendProperties
    <3>5. SubSeq(r, 1, Len(q)) = q
      BY <2>2, <3>2
    <3> QED BY <2>2, <3>3, <3>4, <3>5
  <2>6. ASSUME NEW r \in DOMAIN T, Len(r) = Len(p) + 2, SubSeq(r, 1, Len(p) + 1) = q
        PROVE  files[i].is_directory /\ \E j \in UsedIn(fl) : fl[j].parent_index = i
    <3>1. PICK j \in UsedIn(fl) : r = PathIn(fl, j)
      BY <1>3 DEF TreeIsOf
    <3>2. j # 0
      <4>1. Len(r) # 0 /\ Len(PathIn(fl, 0)) = 0
        BY <1>4, <2>2, <2>6, EmptySeq
      <4> QED BY <3>1, <4>1
    <3>3. PICK u \in Seq(AllNames), m \in AllNames :
            u = PathIn(fl, fl[j].parent_index) /\ m = fl[j].name /\ r = Append(u, m)
      BY <1>4, <3>1, <3>2
    <3>4. Len(r) = Len(u) + 1 /\ Len(u) \in Nat
      BY <3>3, AppendProperties
    <3>5. SubSeq(r, 1, Len(u)) = u /\ Len(u) = Len(p) + 1
      BY <2>2, <2>6, <3>3, <3>4
    <3>6. u = q
      BY <2>6, <3>5
    <3>7. fl[j].parent_index = i
      <4>1. fl[j].parent_index \in UsedIn(fl) /\ i \in UsedIn(fl)
        BY <1>1, <1>4
      <4>2. PathIn(fl, fl[j].parent_index) = PathIn(fl, i)
        BY <1>2, <3>3, <3>6
      <4> QED BY <1>2, <4>1, <4>2, PathsDiffer DEF GoodTable
    <3> QED BY <1>1, <1>4, <3>7
  <2> QED BY <2>3, <2>4, <2>5, <2>6
<1> QED BY <1>6, <1>7

(* The result of ramfs_write_file is a number. *)
LEMMA WriteResult ==
  ASSUME RInv, NEW n \in Names, NEW text \in Seq(Bytes), Len(text) <= MaxSize - 1,
         NEW t \in WriteFile(n, text)
  PROVE  t.result \in Int
<1>0. Slots \subseteq Int
  BY RamFsAssumption DEF Slots
<1>1. ASSUME NEW s, Sound(s), NEW i \in UsedIn(s.files), t \in Put(s, i, text) PROVE t.result \in Int
  <2>1. i \in Int
    BY <1>0 DEF UsedIn
  <2>2. \/ t = Failed(s, -1) \/ t = Failed(s, -3)
        \/ \E e, mm, count : t = With(s, i, e, mm, count)
    BY <1>1 DEF Put
  <2>3. t.result = -1 \/ t.result = -3 \/ t.result = i
    BY <2>2 DEF Failed, With
  <2> QED BY <2>1, <2>3
<1>2. CASE Find(n) >= 0 /\ t \in Put(fs, Find(n), text)
  <2>1. Find(n) \in UsedIn(fs.files) /\ Sound(fs)
    BY <1>2, FindIs DEF Used, UsedIn, fs, RInv
  <2> QED BY <1>1, <1>2, <2>1
<1>3. ASSUME NEW s \in Create(n, FALSE), t \in (IF s.result < 0 THEN {s} ELSE Put(s, s.result, text))
      PROVE  t.result \in Int
  <2>1. Sound(s) /\ s.result \in Int /\ (s.result >= 0 => s.result \in UsedIn(s.files))
    BY CreateSound
  <2> QED BY <1>1, <1>3, <2>1
<1> QED BY <1>2, <1>3 DEF WriteFile

(* touch makes an empty file where there is nothing. *)
LEMMA TouchTree ==
  ASSUME TInv, TInv', NEW n \in Names, cmd_touch(n)
  PROVE  Tree!Make("touch", n, Tree!File(<< >>))
<1>1. CASE Find(n) >= 0
  <2>1. /\ ~edit.on /\ UNCHANGED <<files, mem, current_dir, edit>> /\ Answer("touch", n, FALSE, << >>)
    BY <1>1 DEF cmd_touch, Idle
  <2>2. AsTree' = AsTree /\ PathOf(current_dir)' = PathOf(current_dir)
    BY <2>1 DEF AsTree, PathOf
  <2> QED BY <2>1, <2>2 DEF Tree!Make, Tree!Idle, Tree!Answer, Answer
<1>2. CASE ~(Find(n) >= 0)
  <2>1. PICK s \in WriteFile(n, << >>) : Becomes(s) /\ Answer("touch", n, s.result >= 0, << >>)
    BY <1>2 DEF cmd_touch
  <2>2. << >> \in Seq(Bytes) /\ Len(<< >>) <= MaxSize - 1
    BY RamFsAssumption, EmptySeq
  <2>3. Written(s, n, << >>) /\ Gains(files, s.files, n, current_dir)
    <3>1. Distinct(s.files)
      BY <2>1 DEF TInv, GoodTable, Becomes
    <3> QED BY <2>2, <3>1, WriteTree, WriteFileSound DEF TInv
  <2>4. ~edit.on /\ UNCHANGED <<PathOf(current_dir), edit>>
    BY <2>1, <2>3, CwdKept DEF cmd_touch, Idle, Becomes, Gains
  <2>5. Here(n) \notin DOMAIN AsTree
    BY <1>2, FindLooks DEF FoundAt
  <2>6. CASE s.result < 0 /\ AsTreeOf(s) = AsTree
    <3>1. AsTree' = AsTree
      BY <2>1, <2>6, TreeBecomes
    <3>2. (s.result >= 0) = FALSE
      <4>1. PICK text \in Seq(Bytes) : text = << >> /\ Len(text) <= MaxSize - 1
        BY <2>2
      <4>2. RInv /\ s \in WriteFile(n, text)
        BY <2>1, <4>1 DEF TInv
      <4>3. s.result \in Int
        BY <4>1, <4>2, WriteResult
      <4> QED BY <2>6, <4>3
    <3>3. Tree!Answer("touch", n, FALSE, << >>)
      BY <2>1, <3>2 DEF Answer, Tree!Answer
    <3> QED BY <2>4, <3>1, <3>3 DEF Tree!Make, Tree!Idle
  <2>7. CASE s.result >= 0 /\ Unmade(n) /\ AsTreeOf(s) = PutAt(AsTree, Spot(n), [dir |-> FALSE, text |-> << >>])
    <3>1. Tree!Answer("touch", n, TRUE, << >>)
      BY <2>1, <2>7 DEF Answer, Tree!Answer
    <3>2. AsTree' = Tree!With(n, Tree!File(<< >>)) /\ Tree!New(n)
      BY <2>1, <2>7, TreeBecomes, TreeNames DEF Tree!File
    <3> QED BY <2>4, <3>1, <3>2 DEF Tree!Make, Tree!Idle
  <2> QED BY <2>3, <2>5, <2>6, <2>7 DEF Written
<1> QED BY <1>1, <1>2

(* rm takes a node without entries away, and refuses the others. *)
LEMMA RmTree ==
  ASSUME TInv, TInv', NEW n \in Names, cmd_rm(n)
  PROVE  Tree!Rm(n)
<1> DEFINE i == Find(n)
<1>1. ~edit.on /\ UNCHANGED <<current_dir, edit>>
  BY DEF cmd_rm, Idle
<1>2. FoundAt(n)
  BY FindLooks
<1>3. CASE i < 0 \/ HasEntry(i)
  <2>1. UNCHANGED <<files, mem>> /\ Answer("rm", n, FALSE, << >>)
    BY <1>3 DEF cmd_rm
  <2>2. AsTree' = AsTree /\ PathOf(current_dir)' = PathOf(current_dir)
    BY <1>1, <2>1 DEF AsTree, PathOf
  <2>3. ~Tree!Exists(n) \/ Tree!HasEntry(n)
    <3>1. CASE ~(i >= 0)
      BY <1>2, <3>1, TreeNames DEF FoundAt
    <3>2. CASE i >= 0
      <4>1. PICK k \in UsedIn(files) : k = i /\ PathIn(files, k) = Here(n)
        BY <1>2, <3>2 DEF FoundAt
      <4>2. ~(i < 0)
        BY <3>2, <4>1, RamFsAssumption DEF UsedIn, Slots
      <4> QED BY <1>3, <4>1, <4>2, EntryLooks
    <3> QED BY <3>1, <3>2
  <2> QED BY <1>1, <2>1, <2>2, <2>3 DEF Tree!Rm, Tree!Idle, Tree!Answer, Answer
<1>4. CASE ~(i < 0 \/ HasEntry(i))
  <2>1. PICK k \in UsedIn(files) : /\ k = i /\ PathIn(files, k) = Here(n) /\ ~HasEntry(k)
                                   /\ Here(n) \in DOMAIN AsTree
    <3>1. i >= 0
      BY <1>2, <1>4 DEF FoundAt
    <3> QED BY <1>2, <1>4, <3>1 DEF FoundAt
  <2>2. /\ mem' = IF files[k].data # NULL THEN [mem EXCEPT ![files[k].data] = << >>] ELSE mem
        /\ files' = [files EXCEPT ![k] = Unused]
        /\ Answer("rm", n, TRUE, << >>)
    BY <1>4, <2>1 DEF cmd_rm
  <2>3. PICK fl, mm, fl2, mm2 : fl = files /\ mm = mem /\ fl2 = files' /\ mm2 = mem'
    OBVIOUS
  <2>4. /\ GoodTable(fl) /\ GoodTable(fl2) /\ Owned(fl, mm) /\ fl \in [Slots -> EntryType]
        /\ k \in UsedIn(fl) /\ k \in Slots /\ mm \in [Buffers -> Seq(Bytes)]
        /\ AsTree = TreeOf(fl, mm) /\ AsTree' = TreeOf(fl2, mm2)
    BY <2>3 DEF TInv, RInv, Sound, fs, GoodTable, UsedIn, AsTree, Owned
  <2>5. fl2[k] = Unused /\ ~fl2[k].in_use /\ \A j \in Slots \ {k} : fl2[j] = fl[j]
    BY <2>2, <2>3, <2>4 DEF Unused
  <2>6. UsedIn(fl2) = UsedIn(fl) \ {k} /\ \A j \in UsedIn(fl2) : j \in Slots /\ j # k /\ fl2[j] = fl[j]
    BY <2>5 DEF UsedIn
  <2>7. Keeps(fl2, fl)
    BY <2>6 DEF Keeps
  <2>8. MemKept(mm, mm2, fl[k].data)
    BY <2>2, <2>3, <2>4 DEF MemKept
  <2>9. ASSUME NEW j \in UsedIn(fl) \ {k} PROVE Node(fl2, mm2, j) = Node(fl, mm, j)
    <3>1. j \in UsedIn(fl) /\ j \in Slots /\ j # k /\ fl2[j] = fl[j]
      BY <2>5 DEF UsedIn
    <3>2. fl[j].data # fl[k].data \/ fl[j].is_directory
      <4>1. CASE ~fl[j].is_directory
        <5>1. IsFile(fl[j])
          BY <3>1, <4>1 DEF IsFile, UsedIn
        <5>2. fl[j].data # NULL
          BY <2>4, <3>1, <5>1, RamFsAssumption DEF Owned, HasBuffer
        <5> QED BY <2>4, <3>1, <5>2 DEF Owned
      <4> QED BY <4>1
    <3> QED BY <2>4, <2>8, <3>1, <3>2, NodeKept
  <2>10. PICK q : q = Here(n) /\ q = PathIn(fl, k)
    BY <2>1, <2>3
  <2>11. TreeOf(fl2, mm2) = TakenOff(TreeOf(fl, mm), q)
    <3>1. NodesBut(k, fl, mm, fl2, mm2)
      BY <2>9 DEF NodesBut
    <3>2. /\ GoodTable(fl) /\ GoodTable(fl2) /\ k \in UsedIn(fl) /\ UsedIn(fl2) = UsedIn(fl) \ {k}
          /\ Keeps(fl2, fl) /\ NodesBut(k, fl, mm, fl2, mm2) /\ q = PathIn(fl, k)
      BY <2>4, <2>6, <2>7, <2>10, <3>1
    <3> QED BY ONLY <3>2, TreeLess
  <2>12. AsTree' = [p \in DOMAIN AsTree \ {Tree!Lookup(n)} |-> AsTree[p]]
    BY <2>4, <2>10, <2>11, TreeNames DEF TakenOff
  <2>13. Tree!Exists(n) /\ ~Tree!HasEntry(n)
    BY <2>1, EntryLooks, TreeNames
  <2>14. PathOf(current_dir)' = PathOf(current_dir)
    BY <1>1, <2>3, <2>7, CwdKept
  <2> QED BY <1>1, <2>2, <2>12, <2>13, <2>14 DEF Tree!Rm, Tree!Idle, Tree!Answer, Answer
<1> QED BY <1>3, <1>4

(* cd goes to the directory of that path, up, or to the root. *)
LEMMA CdTree ==
  ASSUME TInv, TInv', NEW n \in Names, cmd_cd(n)
  PROVE  Tree!Cd(n) \/ Tree!CdUp \/ Tree!CdRoot
<1>1. ~edit.on /\ UNCHANGED <<files, file_count, mem, edit>> /\ UNCHANGED AsTree
  BY DEF cmd_cd, Idle, AsTree
<1>2. PICK fl, c, c2 : fl = files /\ c = current_dir /\ c2 = current_dir'
  OBVIOUS
<1>3. GoodTable(fl) /\ Hangs(fl) /\ c \in UsedIn(fl)
  BY <1>2 DEF TInv, RInv, GoodTable
<1>4. PathOf(current_dir) = PathIn(fl, c) /\ PathOf(current_dir)' = PathIn(fl, c2)
  BY <1>1, <1>2 DEF PathOf
<1>5. CASE n = ".."
  <2>1. current_dir' = files[current_dir].parent_index /\ Answer("cd", n, TRUE, << >>)
    BY <1>5 DEF cmd_cd
  <2>2. CASE c = 0
    <3>1. c2 = c /\ PathIn(fl, c) = << >>
      BY <1>2, <1>3, <2>1, <2>2, PathStep DEF Hangs, GoodTable
    <3> QED BY <1>1, <1>4, <1>5, <2>1, <3>1 DEF Tree!CdUp, Tree!Idle, Tree!Answer, Answer
  <2>3. CASE c # 0
    <3>1. c2 \in UsedIn(fl) /\ c2 = fl[c].parent_index
      BY <1>2, <1>3, <2>1 DEF Hangs
    <3>2. PathIn(fl, c) = Append(PathIn(fl, c2), fl[c].name)
      BY <1>3, <2>3, <3>1, PathStep DEF GoodTable
    <3>3. PICK p \in Seq(AllNames), m \in AllNames : p = PathIn(fl, c2) /\ m = fl[c].name
      BY <1>3, <3>1, PathIs DEF GoodTable, EntryType, AllNames, UsedIn
    <3>4. Append(p, m) # << >> /\ Len(Append(p, m)) = Len(p) + 1 /\ Len(p) \in Nat
      BY AppendProperties
    <3>5. SubSeq(Append(p, m), 1, Len(p)) = p
      OBVIOUS
    <3>6. p = SubSeq(PathIn(fl, c), 1, Len(PathIn(fl, c)) - 1) /\ PathIn(fl, c) # << >>
      BY <3>2, <3>3, <3>4, <3>5
    <3> QED BY <1>1, <1>4, <1>5, <2>1, <3>3, <3>6 DEF Tree!CdUp, Tree!Idle, Tree!Answer, Answer
  <2> QED BY <2>2, <2>3
<1>6. CASE n = "/"
  <2>1. current_dir' = 0 /\ Answer("cd", n, TRUE, << >>)
    BY <1>6 DEF cmd_cd
  <2>2. PathIn(fl, c2) = << >>
    BY <1>2, <1>3, <2>1, PathStep DEF GoodTable
  <2> QED BY <1>1, <1>4, <1>6, <2>1, <2>2 DEF Tree!CdRoot, Tree!Idle, Tree!Answer, Answer
<1>7. CASE n # ".." /\ n # "/"
  <2>1. IF Find(n) < 0 \/ ~files[Find(n)].is_directory
        THEN current_dir' = current_dir /\ Answer("cd", n, FALSE, << >>)
        ELSE current_dir' = Find(n) /\ Answer("cd", n, TRUE, << >>)
    BY <1>7 DEF cmd_cd
  <2>2. FoundAt(n)
    BY FindLooks
  <2>3. CASE Find(n) < 0 \/ ~files[Find(n)].is_directory
    <3>1. Tree!IsDir(n) = FALSE
      <4>1. CASE Find(n) >= 0
        <5>1. PICK k \in UsedIn(files) : k = Find(n) /\ AsTree[Here(n)] = Node(files, mem, k)
          BY <2>2, <4>1 DEF FoundAt
        <5>2. ~(k < 0)
          BY <4>1, <5>1, RamFsAssumption DEF UsedIn, Slots
        <5>3. ~Node(files, mem, k).dir
          BY <2>3, <5>1, <5>2 DEF Node
        <5> QED BY <5>1, <5>3, TreeNames
      <4>2. CASE ~(Find(n) >= 0)
        BY <2>2, <4>2, TreeNames DEF FoundAt
      <4> QED BY <4>1, <4>2
    <3>2. c2 = c /\ Answer("cd", n, FALSE, << >>)
      BY <1>2, <2>1, <2>3
    <3> QED BY <1>1, <1>4, <1>7, <3>1, <3>2 DEF Tree!Cd, Tree!Idle, Tree!Answer, Answer
  <2>4. CASE ~(Find(n) < 0 \/ ~files[Find(n)].is_directory)
    <3>1. Find(n) >= 0
      BY <2>2, <2>4 DEF FoundAt
    <3>2. /\ PathIn(files, Find(n)) = Here(n) /\ Here(n) \in DOMAIN AsTree
          /\ AsTree[Here(n)] = Node(files, mem, Find(n)) /\ Find(n) \in UsedIn(files)
      BY <2>2, <3>1 DEF FoundAt
    <3>3. Node(files, mem, Find(n)).dir = files[Find(n)].is_directory
      BY DEF Node
    <3>4. AsTree[Here(n)].dir = TRUE
      BY <2>4, <3>2, <3>3 DEF TInv, GoodTable, EntryType, UsedIn
    <3>5. Tree!IsDir(n) = TRUE /\ Tree!Lookup(n) = Here(n)
      BY <3>2, <3>4, TreeNames
    <3>6. PathIn(fl, c2) = Here(n) /\ Answer("cd", n, TRUE, << >>)
      BY <1>2, <2>1, <2>4, <3>2
    <3> QED BY <1>1, <1>4, <1>7, <3>5, <3>6 DEF Tree!Cd, Tree!Idle, Tree!Answer, Answer
  <2> QED BY <2>3, <2>4
<1> QED BY <1>5, <1>6, <1>7

(* cat shows a text of the tree. *)
LEMMA CatTree ==
  ASSUME TInv, NEW n \in Names, cmd_cat(n)
  PROVE  Tree!Cat(n)
<1>1. /\ ~edit.on /\ UNCHANGED <<files, mem, current_dir, edit>>
      /\ IF ReadFile(n) = NULL THEN Answer("cat", n, FALSE, << >>) ELSE Answer("cat", n, TRUE, ReadFile(n))
  BY DEF cmd_cat, Idle
<1>2. AsTree' = AsTree /\ PathOf(current_dir)' = PathOf(current_dir)
  BY <1>1 DEF AsTree, PathOf
<1>3. CASE Here(n) \in DOMAIN AsTree /\ ~AsTree[Here(n)].dir
  <2>1. Answer("cat", n, TRUE, AsTree[Here(n)].text)
    BY <1>1, <1>3, ReadLooks
  <2>2. Tree!IsFile(n) = TRUE /\ Tree!Lookup(n) = Here(n)
    BY <1>3, TreeNames DEF Tree!IsFile
  <2> QED BY <1>1, <1>2, <2>1, <2>2 DEF Tree!Cat, Tree!Idle, Tree!Answer, Answer
<1>4. CASE ~(Here(n) \in DOMAIN AsTree /\ ~AsTree[Here(n)].dir)
  <2>1. Answer("cat", n, FALSE, << >>)
    BY <1>1, <1>4, ReadLooks
  <2>2. Tree!IsFile(n) = FALSE
    BY <1>4, TreeNames DEF Tree!IsFile
  <2> QED BY <1>1, <1>2, <2>1, <2>2 DEF Tree!Cat, Tree!Idle, Tree!Answer, Answer
<1> QED BY <1>3, <1>4

(* The editor starts from it, *)
LEMMA EditTree ==
  ASSUME TInv, NEW n \in Names, cmd_edit(n)
  PROVE  Tree!Edit(n)
<1> DEFINE text == IF ReadFile(n) = NULL THEN << >> ELSE ReadFile(n)
<1>1. /\ ~edit.on /\ UNCHANGED <<files, mem, current_dir>> /\ Answer("edit", n, TRUE, << >>)
      /\ edit' = [on |-> TRUE, name |-> n, text |-> text]
  BY DEF cmd_edit, Idle
<1>2. AsTree' = AsTree /\ PathOf(current_dir)' = PathOf(current_dir)
  BY <1>1 DEF AsTree, PathOf
<1>3. text = IF Tree!IsFile(n) THEN AsTree[Tree!Lookup(n)].text ELSE << >>
  BY ReadLooks, TreeNames
<1> HIDE DEF text
<1> QED BY <1>1, <1>2, <1>3 DEF Tree!Edit, Tree!Idle, Tree!Answer, Answer

(* A line is a text. *)
LEMMA LineIs ==
  ASSUME NEW l \in Lines
  PROVE  l \in Seq(Bytes)
<1>1. l \in Seq({l[k] : k \in DOMAIN l})
  BY RamFsAssumption
<1>2. {l[k] : k \in DOMAIN l} \subseteq Bytes
  BY DEF Bytes
<1> HIDE DEF Bytes
<1>3. l \in [1 .. Len(l) -> {l[k] : k \in DOMAIN l}] /\ Len(l) \in Nat
  BY <1>1, LenProperties
<1>4. l \in [1 .. Len(l) -> Bytes]
  BY <1>2, <1>3
<1> QED BY <1>3, <1>4, SeqDef

(* takes the lines it has room for, *)
LEMMA LineTree ==
  ASSUME TInv, NEW l \in Lines, EditLine(l)
  PROVE  Tree!Type(l)
<1>1. /\ edit.on /\ UNCHANGED <<files, mem, current_dir>> /\ Answer("type", edit.name, Room(l), << >>)
      /\ IF Room(l) THEN edit' = [edit EXCEPT !.text = @ \o l] ELSE edit' = Closed
  BY DEF EditLine
<1>2. AsTree' = AsTree /\ PathOf(current_dir)' = PathOf(current_dir)
  BY <1>1 DEF AsTree, PathOf
<1>3. PICK t \in Seq(Bytes), u \in Seq(Bytes) : t = edit.text /\ u = l
  <2>1. edit.text \in Seq(Bytes)
    BY DEF TInv, RInv
  <2>2. l \in Seq(Bytes)
    BY LineIs
  <2> QED BY <2>1, <2>2
<1>4. Len(t \o u) = Len(t) + Len(u) /\ Len(t) \in Nat /\ Len(u) \in Nat
  BY ConcatProperties
<1>5. Room(l) = (Len(edit.text \o l) <= MaxSize - 2)
  BY <1>3, <1>4, RamFsAssumption DEF Room
<1> QED BY <1>1, <1>2, <1>5 DEF Tree!Type, Tree!Answer, Answer, Tree!Closed, Closed

(* and makes them the text of its file. *)
LEMMA SaveTree ==
  ASSUME TInv, TInv', EditSave
  PROVE  Tree!Save
<1>1. PICK n, text : n = edit.name /\ text = edit.text
  OBVIOUS
<1>2. n \in Names /\ text \in Seq(Bytes) /\ Len(text) <= MaxSize - 1
  BY <1>1 DEF TInv, RInv
<1>3. PICK s \in WriteFile(n, text) : Becomes(s) /\ Answer("save", n, s.result >= 0, << >>)
  BY <1>1 DEF EditSave
<1>4. edit.on /\ edit' = Closed /\ current_dir' = current_dir
  BY DEF EditSave
<1>5. Written(s, n, text) /\ Gains(files, s.files, n, current_dir) /\ s.result \in Int /\ AsTree' = AsTreeOf(s)
  <2>1. Distinct(s.files)
    BY <1>3 DEF TInv, GoodTable, Becomes
  <2> QED BY <1>2, <1>3, <2>1, WriteTree, WriteFileSound, WriteResult, TreeBecomes DEF TInv
<1>6. PathOf(current_dir)' = PathOf(current_dir)
  BY <1>3, <1>4, <1>5, CwdKept DEF Becomes, Gains
<1>7. \/ /\ Tree!Answer("save", n, TRUE, << >>)
         /\ (Tree!IsFile(n) \/ Tree!New(n)) /\ AsTree' = Tree!With(n, Tree!File(text))
      \/ Tree!Answer("save", n, FALSE, << >>) /\ AsTree' = AsTree
      \/ Tree!Answer("save", n, FALSE, << >>) /\ Tree!New(n) /\ AsTree' = Tree!With(n, Tree!File(<< >>))
  <2>1. CASE /\ s.result >= 0 /\ (Unmade(n) \/ (Here(n) \in DOMAIN AsTree /\ ~AsTree[Here(n)].dir))
             /\ AsTreeOf(s) = PutAt(AsTree, Spot(n), [dir |-> FALSE, text |-> text])
    <3>1. Tree!Answer("save", n, TRUE, << >>)
      BY <1>3, <2>1 DEF Answer, Tree!Answer
    <3> QED BY <1>5, <2>1, <3>1, TreeNames DEF Tree!File
  <2>2. CASE ~(s.result >= 0)
    <3>1. (s.result >= 0) = FALSE
      BY <2>2
    <3>2. Tree!Answer("save", n, FALSE, << >>)
      BY <1>3, <3>1 DEF Answer, Tree!Answer
    <3>3. CASE AsTreeOf(s) = AsTree
      BY <1>5, <3>2, <3>3
    <3>4. CASE /\ Unmade(n)
               /\ AsTreeOf(s) = PutAt(AsTree, Spot(n), [dir |-> FALSE, text |-> << >>])
      BY <1>5, <3>2, <3>4, TreeNames DEF Tree!File
    <3> QED BY <1>5, <2>2, <3>3, <3>4 DEF Written
  <2>3. ~(s.result >= 0) \/ s.result >= 0
    OBVIOUS
  <2>4. s.result >= 0 => ~(s.result < 0)
    BY <1>5
  <2> QED BY <1>5, <2>1, <2>2, <2>3, <2>4 DEF Written
<1> QED BY <1>1, <1>4, <1>6, <1>7 DEF Tree!Save, Tree!Closed, Closed

(* or forgets them. *)
LEMMA QuitTree ==
  ASSUME EditQuit
  PROVE  Tree!Quit
<1>1. AsTree' = AsTree /\ PathOf(current_dir)' = PathOf(current_dir)
  BY DEF EditQuit, AsTree, PathOf
<1> QED BY <1>1 DEF EditQuit, Tree!Quit, Tree!Closed, Closed, Tree!Answer, Answer

(* Doubled is the table that has one name twice. *)
LEMMA DoubledIs ==
  ASSUME RInv, files[0].name = "/"
  PROVE  Doubled \in BOOLEAN /\ (~Doubled => TInv)
BY DEF TInv, GoodTable, RInv, Sound, fs, Doubled, Distinct, Used, UsedIn

(* The invariant of the refinement, in every reachable state. *)
LEMMA TreeInvariant == Spec => [](RInv /\ files[0].name = "/")
<1>2. ASSUME Init PROVE files[0].name = "/"
  BY <1>2, RamFsAssumption DEF Init, Slots, Unused
<1>3. ASSUME RInv, RInv', files[0].name = "/", [Next]_vars PROVE files'[0].name = "/"
  <2>1. 0 \in UsedIn(files) /\ 0 \in UsedIn(files') /\ files \in [Slots -> EntryType]
    BY <1>3 DEF RInv, Sound, Hangs, fs
  <2>2. CASE files' = files
    BY <1>3, <2>2
  <2>3. ASSUME NEW n \in Names, Gains(files, files', n, current_dir) PROVE files'[0].name = "/"
    BY <1>3, <2>1, <2>3 DEF Gains, Keeps
  <2>4. ASSUME NEW i, files' = [files EXCEPT ![i] = Unused] PROVE files'[0].name = "/"
    <3>1. files'[0].in_use
      BY <2>1 DEF UsedIn
    <3>2. i # 0
      BY <2>1, <2>4, <3>1 DEF Unused, UsedIn
    <3> QED BY <1>3, <2>1, <2>4, <3>2 DEF UsedIn
  <2> QED BY <1>3, <2>2, <2>3, <2>4, NamesStep
<1>4. RInv /\ files[0].name = "/" /\ [Next]_vars /\ RInv' => (files[0].name = "/")'
  BY <1>3
<1>5. Init => files[0].name = "/"
  BY <1>2
<1> QED BY <1>4, <1>5, RamFsInvariant, PTL DEF Spec

(* The step that makes a second entry of one name makes it under a name    *)
(* that was cut to it.                                                     *)
LEMMA DoubleTree ==
  ASSUME TInv, RInv', [Next]_vars, Doubled'
  PROVE  Tree!Double
<1>1. PICK fl, fl2, c, T : fl = files /\ fl2 = files' /\ c = current_dir /\ T = AsTree
  OBVIOUS
<1>2. /\ GoodTable(fl) /\ Distinct(fl) /\ fl[0].name = "/" /\ c \in UsedIn(fl) /\ T = TreeOf(fl, mem)
      /\ \E i, j \in UsedIn(fl2) :
           i # j /\ fl2[i].parent_index = fl2[j].parent_index /\ fl2[i].name = fl2[j].name
  BY <1>1 DEF TInv, RInv, GoodTable, Doubled, Used, UsedIn, AsTree
<1>3. CASE fl2 = fl
  BY <1>2, <1>3 DEF Distinct
<1>4. ASSUME NEW i, fl2 = [fl EXCEPT ![i] = Unused] PROVE FALSE
  <2>1. \A j \in UsedIn(fl2) : j \in UsedIn(fl) /\ fl2[j] = fl[j]
    BY <1>2, <1>4 DEF UsedIn, Unused, GoodTable
  <2> QED BY <1>2, <2>1 DEF Distinct
<1>5. ASSUME NEW n \in Names, edit.on => n = edit.name, Gains(fl, fl2, n, c) PROVE Tree!Double
  <2>1. \A j \in UsedIn(fl) : fl2[j].parent_index = fl[j].parent_index /\ fl2[j].name = fl[j].name
    BY <1>5 DEF Gains, Keeps
  <2>2. PICK i \in Slots : /\ UsedIn(fl2) = UsedIn(fl) \cup {i}
                           /\ fl2[i].name = Stored[n] /\ fl2[i].parent_index = c
                           /\ \A j \in UsedIn(fl) : ~(fl[j].parent_index = c /\ fl[j].name = n)
    BY <1>2, <1>5, <2>1 DEF Gains, Distinct
  <2>3. PICK j \in UsedIn(fl) : fl[j].parent_index = c /\ fl[j].name = Stored[n]
    BY <1>2, <2>1, <2>2 DEF Distinct
  <2>4. Stored[n] # n
    BY <2>2, <2>3
  <2>5. PICK m \in AllNames : m = Stored[n]
    BY DEF AllNames
  <2>6. PathIn(fl, j) = Looked(PathIn(fl, c), m)
    BY <1>2, <2>3, <2>5, LookupIs
  <2>7. PathIn(fl, j) \in DOMAIN T
    BY <1>2, TreeIs DEF GoodTable, TreeIsOf
  <2>8. Tree!Lookup(Stored[n]) \in DOMAIN AsTree
    BY <1>1, <2>5, <2>6, <2>7, TreeNames DEF Here, PathOf
  <2>9. Doubled' = TRUE
    BY DEF Doubled
  <2> QED BY <1>5, <2>4, <2>8, <2>9 DEF Tree!Double
<1> QED BY <1>1, <1>3, <1>4, <1>5, NamesStep DEF TInv

(* The commands of the shell do to a tree of directories and texts what    *)
(* their names say: each makes, removes, replaces, shows or enters what    *)
(* stands under the path of its argument and leaves all else as it was,    *)
(* whatever slots and buffers it uses, until a name that is cut gives a    *)
(* directory two entries of one name.                                      *)
THEOREM CommandsChangeTheTree == Spec => TreeSpec
<1>1. ASSUME Init PROVE Tree!Init
  <2>1. RInv /\ UsedIn(files) = {0} /\ files[0].is_directory = TRUE
    <3>1. RInv
      BY <1>1, Inductive
    <3> DEFINE root == [Unused EXCEPT !.name = "/", !.is_directory = TRUE, !.in_use = TRUE]
    <3>2. Unused.in_use = FALSE /\ root.in_use = TRUE /\ root.is_directory = TRUE
      BY DEF Unused
    <3>3. files = [i \in Slots |-> IF i = 0 THEN root ELSE Unused] /\ 0 \in Slots
      BY <1>1, RamFsAssumption DEF Init, Slots
    <3> HIDE DEF root
    <3>4. files[0] = root /\ \A i \in Slots : files[i].in_use <=> i = 0
      BY <3>2, <3>3
    <3> QED BY <3>1, <3>2, <3>3, <3>4 DEF UsedIn
  <2>2. PICK fl, mm, T : fl = files /\ mm = mem /\ T = AsTree
    OBVIOUS
  <2>3. GoodTable(fl) /\ UsedIn(fl) = {0} /\ fl[0].is_directory = TRUE /\ T = TreeOf(fl, mm)
    BY <2>1, <2>2 DEF RInv, Sound, fs, GoodTable, Distinct, AsTree
  <2>4. PathIn(fl, 0) = << >>
    BY <2>3, PathStep DEF GoodTable
  <2>5. TreeIsOf(T, fl, mm)
    BY <2>3, TreeIs DEF GoodTable
  <2>6. Node(fl, mm, 0) = [dir |-> TRUE, text |-> << >>]
    BY <2>3 DEF Node
  <2>7. {PathIn(fl, i) : i \in UsedIn(fl)} = {<< >>} /\ T[<< >>] = [dir |-> TRUE, text |-> << >>]
    BY <2>3, <2>4, <2>5, <2>6 DEF TreeIsOf
  <2>8. T = [p \in {<< >>} |-> T[p]]
    BY <2>5, <2>7 DEF TreeIsOf
  <2>9. T = [p \in {<< >>} |-> [dir |-> TRUE, text |-> << >>]]
    BY <2>7, <2>8
  <2>10. PathOf(current_dir) = << >>
    BY <1>1, <2>2, <2>4 DEF Init, PathOf
  <2>11. Doubled = FALSE
    BY <2>1 DEF Doubled, Used, UsedIn
  <2> QED BY <1>1, <2>2, <2>9, <2>10, <2>11 DEF Init, Tree!Init, Tree!Dir, Tree!Closed, Closed
<1>2. ASSUME TInv, TInv', [Next]_vars PROVE Tree!Command \/ UNCHANGED <<AsTree, PathOf(current_dir), edit, answer>>
  <2>1. ASSUME NEW n \in Names, cmd_mkdir(n) PROVE Tree!Command
    BY <1>2, <2>1, MkdirTree DEF Tree!Command
  <2>2. ASSUME NEW n \in Names, cmd_touch(n) PROVE Tree!Command
    BY <1>2, <2>2, TouchTree DEF Tree!Command
  <2>3. ASSUME NEW n \in Names, cmd_rm(n) PROVE Tree!Command
    BY <1>2, <2>3, RmTree DEF Tree!Command
  <2>4. ASSUME NEW n \in Names, cmd_cd(n) PROVE Tree!Command
    BY <1>2, <2>4, CdTree DEF Tree!Command
  <2>5. ASSUME NEW n \in Names, cmd_cat(n) PROVE Tree!Command
    BY <1>2, <2>5, CatTree DEF Tree!Command
  <2>6. ASSUME NEW n \in Names, cmd_edit(n) PROVE Tree!Command
    BY <1>2, <2>6, EditTree DEF Tree!Command
  <2>7. ASSUME NEW l \in Lines, EditLine(l) PROVE Tree!Command
    BY <1>2, <2>7, LineTree DEF Tree!Command
  <2>8. CASE EditSave
    BY <1>2, <2>8, SaveTree DEF Tree!Command
  <2>9. CASE EditQuit
    BY <2>9, QuitTree DEF Tree!Command
  <2>10. CASE UNCHANGED vars
    <3>1. AsTree' = AsTree /\ PathOf(current_dir)' = PathOf(current_dir)
      BY <2>10 DEF vars, AsTree, PathOf
    <3> QED BY <2>10, <3>1 DEF vars
  <2> QED BY <1>2, <2>1, <2>2, <2>3, <2>4, <2>5, <2>6, <2>7, <2>8, <2>9, <2>10 DEF Next
<1>3. ASSUME RInv, RInv', files[0].name = "/", files'[0].name = "/", [Next]_vars
      PROVE  [Tree!Next]_Tree!vars
  <2>1. Doubled \in BOOLEAN /\ (~Doubled => TInv)
    BY <1>3, DoubledIs
  <2>2. Doubled' \in BOOLEAN /\ (~Doubled' => TInv')
    BY <1>3 DEF TInv, GoodTable, RInv, Sound, fs, Doubled, Distinct, Used, UsedIn
  <2>3. CASE Doubled
    BY <2>3 DEF Tree!Next
  <2>4. CASE ~Doubled /\ Doubled'
    BY <1>3, <2>1, <2>4, DoubleTree DEF Tree!Next
  <2>5. CASE ~Doubled /\ ~Doubled'
    <3>1. Doubled' = Doubled
      BY <2>1, <2>2, <2>5
    <3> QED BY <1>2, <1>3, <2>1, <2>2, <2>5, <3>1 DEF Tree!Next, Tree!vars
  <2> QED BY <2>3, <2>4, <2>5
<1>4. RInv /\ files[0].name = "/" /\ RInv' /\ (files[0].name = "/")' /\ [Next]_vars
      => [Tree!Next]_Tree!vars
  BY <1>3
<1> QED BY <1>1, <1>4, TreeInvariant, PTL DEF Spec, TreeSpec, Tree!Spec

--------------------------------------------------------------------------------
(* What the commands show.  A loop's recursive function has values: n      *)
(* steps, the k-th of them g[k], lead from s through states of S.          *)
Steps(n, S) == [1 .. n -> [S -> S]]
Runs(n, S, s, g) ==
  {f \in [0 .. n -> S] : f[0] = s /\ \A k \in 1 .. n : f[k] = g[k][f[k - 1]]}

(* Such functions exist, for steps that stay in S. *)
LEMMA Iterates ==
  ASSUME NEW n \in Nat, NEW S, NEW s \in S, NEW g \in Steps(n, S)
  PROVE  Runs(n, S, s, g) # {}
<1> USE DEF Steps, Runs
<1> DEFINE Upto(f, m) == f[0] = s /\ \A k \in 1 .. m : f[k] = g[k][f[k - 1]]
           M == {m \in Nat : m <= n => \E f \in [0 .. m -> S] : Upto(f, m)}
<1>1. 0 \in M
  <2> DEFINE f == [k \in 0 .. 0 |-> s]
  <2>1. f \in [0 .. 0 -> S] /\ f[0] = s
    OBVIOUS
  <2>2. Upto(f, 0)
    BY <2>1
  <2> QED BY <2>1, <2>2
<1>2. ASSUME NEW m \in Nat, m \in M PROVE m + 1 \in M
  <2> SUFFICES ASSUME m + 1 <= n PROVE \E f \in [0 .. m + 1 -> S] : Upto(f, m + 1)
    OBVIOUS
  <2>1. PICK f \in [0 .. m -> S] : Upto(f, m)
    BY <1>2
  <2> DEFINE h == [k \in 0 .. m + 1 |-> IF k = m + 1 THEN g[m + 1][f[m]] ELSE f[k]]
  <2>2. g[m + 1] \in [S -> S] /\ f[m] \in S
    <3>1. m + 1 \in 1 .. n /\ m \in 0 .. m
      OBVIOUS
    <3> QED BY <3>1
  <2>3. h \in [0 .. m + 1 -> S]
    BY <2>2
  <2>4. h[0] = s /\ h[m + 1] = g[m + 1][f[m]] /\ \A k \in 0 .. m : h[k] = f[k]
    BY <2>1
  <2> HIDE DEF h
  <2>5. ASSUME NEW k \in 1 .. m + 1 PROVE h[k] = g[k][h[k - 1]]
    <3>1. CASE k = m + 1
      <4>1. k - 1 = m /\ m \in 0 .. m
        BY <3>1
      <4> QED BY <2>4, <3>1, <4>1
    <3>2. CASE k # m + 1
      <4>1. k \in 1 .. m /\ k \in 0 .. m /\ k - 1 \in 0 .. m
        BY <3>2
      <4> QED BY <2>1, <2>4, <4>1
    <3> QED BY <3>1, <3>2
  <2> QED BY <2>3, <2>4, <2>5
<1> HIDE DEF M
<1>3. n \in M
  BY <1>1, <1>2, Upwards
<1> QED BY <1>3 DEF M

(* Such a run, in the form of a definition. *)
RunOf(n, S, s, e, f) ==
  /\ f \in [0 .. n -> S]
  /\ f[0] = s
  /\ \A k \in 1 .. n : k - 1 \in 0 .. n /\ f[k - 1] \in S /\ f[k] = e[k][f[k - 1]]
  /\ f = [k \in 0 .. n |-> f[k]]

Stays(n, S, e) == \A k \in 1 .. n : \A x \in S : e[k][x] \in S

(* And one whose k-th step is e[k], if those stay in S. *)
LEMMA RunIs ==
  ASSUME NEW n \in Nat, NEW S, NEW s \in S, NEW e, Stays(n, S, e)
  PROVE  \E f : RunOf(n, S, s, e, f)
<1> DEFINE g == [k \in 1 .. n |-> [x \in S |-> e[k][x]]]
<1>1. g \in Steps(n, S)
  BY DEF Steps, Stays
<1>2. Runs(n, S, s, g) # {}
  <2> HIDE DEF g
  <2> QED BY ONLY n \in Nat, s \in S, <1>1, Iterates
<1>3. PICK f \in [0 .. n -> S] : f[0] = s /\ \A k \in 1 .. n : f[k] = g[k][f[k - 1]]
  <2> HIDE DEF g
  <2> QED BY <1>2 DEF Runs
<1>4. ASSUME NEW k \in 1 .. n PROVE k - 1 \in 0 .. n /\ f[k - 1] \in S /\ f[k] = e[k][f[k - 1]]
  <2>1. k - 1 \in 0 .. n
    OBVIOUS
  <2>2. f[k] = g[k][f[k - 1]] /\ f[k - 1] \in S
    BY <1>3, <2>1
  <2> QED BY <2>1, <2>2
<1>5. f = [k \in 0 .. n |-> f[k]]
  BY <1>3
<1> QED BY <1>3, <1>4, <1>5 DEF RunOf

(* The slots of a set, listed in one pass over the table. *)
Lists(W, h) ==
  /\ h[0] = << >>
  /\ \A k \in 1 .. MaxFiles : h[k] = IF k - 1 \in W THEN Append(h[k - 1], k - 1) ELSE h[k - 1]

(* Listed is the last of such lists, of one slot more each. *)
LEMMA ListedRuns == ASSUME NEW W PROVE \E h : Lists(W, h) /\ Listed(W) = h[MaxFiles]
<1> DEFINE S == Seq(Nat)
           n == MaxFiles
           e == [k \in 1 .. n |-> [x \in S |-> IF k - 1 \in W THEN Append(x, k - 1) ELSE x]]
           Def(h) == [k \in 0 .. n |-> IF k = 0 THEN << >>
                                       ELSE IF k - 1 \in W THEN Append(h[k - 1], k - 1)
                                       ELSE h[k - 1]]
           h == CHOOSE h : h = Def(h)
<1>1. n \in Nat /\ << >> \in S
  BY RamFsAssumption, EmptySeq
<1>2. \A k \in 1 .. n : \A x \in S : e[k][x] = (IF k - 1 \in W THEN Append(x, k - 1) ELSE x) /\ e[k][x] \in S
  <2> SUFFICES ASSUME NEW k \in 1 .. n, NEW x \in S
               PROVE  e[k][x] = (IF k - 1 \in W THEN Append(x, k - 1) ELSE x) /\ e[k][x] \in S
    OBVIOUS
  <2>1. k - 1 \in Nat
    BY <1>1
  <2>2. Append(x, k - 1) \in S
    BY <2>1, AppendProperties
  <2> QED BY <2>2
<1>3. PICK f : RunOf(n, S, << >>, e, f)
  <2>1. Stays(n, S, e)
    <3> HIDE DEF n, S, e
    <3> QED BY <1>2 DEF Stays
  <2> HIDE DEF n, S, e
  <2> QED BY ONLY <1>1, <2>1, RunIs
<1>4. f = Def(f)
  <2>1. ASSUME NEW k \in 0 .. n
        PROVE  f[k] = IF k = 0 THEN << >> ELSE IF k - 1 \in W THEN Append(f[k - 1], k - 1) ELSE f[k - 1]
    <3>1. k = 0 \/ (k # 0 /\ k \in 1 .. n)
      BY <1>1
    <3> HIDE DEF n, S, e
    <3> QED BY <1>2, <1>3, <3>1 DEF RunOf
  <2> HIDE DEF n, S, e
  <2>2. f = [k \in 0 .. n |-> f[k]]
    BY <1>3 DEF RunOf
  <2> QED BY ONLY <2>1, <2>2
<1>5. Listed(W) = h[n]
  BY DEF Listed
<1>6. h = Def(h)
  <2> HIDE DEF Def
  <2> QED BY <1>4
<1>7. Lists(W, h)
  <2> HIDE DEF h
  <2>1. 0 \in 0 .. n /\ \A k \in 1 .. n : k \in 0 .. n /\ k # 0
    BY <1>1
  <2>2. h = [k \in 0 .. n |-> IF k = 0 THEN << >>
                              ELSE IF k - 1 \in W THEN Append(h[k - 1], k - 1)
                              ELSE h[k - 1]]
    BY <1>6
  <2>3. h[0] = << >> /\ \A k \in 1 .. n : h[k] = IF k - 1 \in W THEN Append(h[k - 1], k - 1) ELSE h[k - 1]
    <3> HIDE DEF n
    <3> QED BY ONLY <2>1, <2>2
  <2> QED BY <2>3 DEF Lists
<1> QED BY <1>5, <1>7

(* A list without repetitions of the elements of W. *)
ListOf(W, s) ==
  /\ s \in Seq(Nat) /\ Len(s) \in Nat
  /\ \A j \in 1 .. Len(s) : s[j] \in W
  /\ \A i \in W : \E j \in 1 .. Len(s) : s[j] = i
  /\ \A i, j \in 1 .. Len(s) : s[i] = s[j] => i = j

(* A new element at the end makes a list of one element more. *)
LEMMA ListMore ==
  ASSUME NEW W, NEW s, ListOf(W, s), NEW x \in Nat, x \notin W
  PROVE  ListOf(W \cup {x}, Append(s, x))
<1>1. PICK t, n : t = Append(s, x) /\ n = Len(s)
  OBVIOUS
<1>2. /\ n \in Nat /\ t \in Seq(Nat) /\ Len(t) = n + 1 /\ t[n + 1] = x
      /\ \A j \in 1 .. n : t[j] = s[j]
  BY <1>1, AppendProperties DEF ListOf
<1>3. /\ \A j \in 1 .. n : t[j] \in W /\ t[j] # x
      /\ \A i \in W : \E j \in 1 .. n : t[j] = i
      /\ \A i, j \in 1 .. n : t[i] = t[j] => i = j
  BY <1>1, <1>2 DEF ListOf
<1>4. \A j \in 1 .. n + 1 : j \in 1 .. n \/ j = n + 1
  BY <1>2
<1>5. \A j \in 1 .. n : j \in 1 .. n + 1
  BY <1>2
<1>6. n + 1 \in 1 .. n + 1 /\ n + 1 \in Nat
  BY <1>2
<1>7. PICK m : m = n + 1
  OBVIOUS
<1>8. /\ \A j \in 1 .. m : t[j] \in W \cup {x}
      /\ \A i \in W \cup {x} : \E j \in 1 .. m : t[j] = i
      /\ \A i, j \in 1 .. m : t[i] = t[j] => i = j
  BY ONLY <1>2, <1>3, <1>4, <1>5, <1>6, <1>7
<1> QED BY <1>1, <1>2, <1>6, <1>7, <1>8 DEF ListOf

(* Listed lists its slots. *)
LEMMA ListedIs == ASSUME NEW W, W \subseteq Slots PROVE ListOf(W, Listed(W))
<1>1. PICK h : Lists(W, h) /\ Listed(W) = h[MaxFiles]
  BY ListedRuns
<1> DEFINE U(k) == {i \in W : i < k}
           M == {k \in Nat : k <= MaxFiles => ListOf(U(k), h[k])}
<1>2. MaxFiles \in Nat /\ \A i \in W : i \in Nat /\ i < MaxFiles
  BY RamFsAssumption DEF Slots
<1>3. 0 \in M
  <2>1. U(0) = {}
    BY <1>2
  <2>2. << >> \in Seq(Nat) /\ Len(<< >>) = 0
    BY EmptySeq
  <2>3. ListOf({}, << >>)
    BY <2>2 DEF ListOf
  <2> QED BY <1>1, <2>1, <2>3 DEF Lists
<1>4. ASSUME NEW k \in Nat, k \in M PROVE k + 1 \in M
  <2> SUFFICES ASSUME k + 1 <= MaxFiles PROVE ListOf(U(k + 1), h[k + 1])
    OBVIOUS
  <2>1. ListOf(U(k), h[k]) /\ k + 1 \in 1 .. MaxFiles /\ (k + 1) - 1 = k
    BY <1>2, <1>4
  <2>2. h[k + 1] = IF k \in W THEN Append(h[k], k) ELSE h[k]
    BY <1>1, <2>1 DEF Lists
  <2>3. k \notin U(k) /\ U(k + 1) = IF k \in W THEN U(k) \cup {k} ELSE U(k)
    <3>1. \A i \in W : i < k + 1 <=> i < k \/ i = k
      BY <1>2
    <3>2. ~(k < k)
      OBVIOUS
    <3> QED BY <3>1, <3>2
  <2> HIDE DEF U
  <2>4. CASE k \in W
    BY <2>1, <2>2, <2>3, <2>4, ListMore
  <2>5. CASE k \notin W
    BY <2>1, <2>2, <2>3, <2>5
  <2> QED BY <2>4, <2>5
<1>5. U(MaxFiles) = W
  BY <1>2
<1> HIDE DEF M, U
<1>6. MaxFiles \in M
  BY ONLY <1>2, <1>3, <1>4, Upwards
<1> QED BY <1>1, <1>2, <1>5, <1>6 DEF M

(* As many things as a list is long, if each is of one element. *)
LEMMA ListCount ==
  ASSUME NEW W, NEW s, ListOf(W, s), NEW g, \A i, j \in W : g[i] = g[j] => i = j
  PROVE  Cardinality({g[i] : i \in W}) = Len(s)
<1>1. PICK n, T : n = Len(s) /\ T = {g[i] : i \in W}
  OBVIOUS
<1> DEFINE f == [k \in 1 .. n |-> g[s[k]]]
<1>2. n \in Nat /\ \A k \in 1 .. n : s[k] \in W
  BY <1>1 DEF ListOf
<1>3. f \in [1 .. n -> T] /\ \A k \in 1 .. n : f[k] = g[s[k]]
  BY <1>1, <1>2
<1>4. \A i, j \in 1 .. n : f[i] = f[j] => i = j
  BY <1>1, <1>2, <1>3 DEF ListOf
<1>5. \A t \in T : \E k \in 1 .. n : f[k] = t
  BY <1>1, <1>3 DEF ListOf
<1> HIDE DEF f
<1>6. f \in Bijection(1 .. n, T)
  BY <1>3, <1>4, <1>5 DEF Bijection, Injection, Surjection, IsInjective
<1>7. 1 \in Int /\ n \in Int
  BY <1>2
<1>8. IsFiniteSet(1 .. n) /\ Cardinality(1 .. n) = IF 1 > n THEN 0 ELSE n - 1 + 1
  BY ONLY <1>7, FS_Interval
<1>9. ExistsBijection(1 .. n, T)
  BY <1>6 DEF ExistsBijection
<1>10. Cardinality(T) = Cardinality(1 .. n)
  BY ONLY <1>8, <1>9, FS_Bijection
<1>11. Cardinality(1 .. n) = n
  BY <1>2, <1>8
<1> QED BY <1>1, <1>10, <1>11

--------------------------------------------------------------------------------
(* The number of elements of W up to i, one more at each of them. *)
UpTo(W, i) == Cardinality({j \in W : j <= i})

CountsUp(n, W) ==
  /\ UpTo(W, 0) = 0 /\ UpTo(W, n) = Cardinality(W)
  /\ \A i \in Nat : /\ UpTo(W, i) \in Nat
                    /\ UpTo(W, i + 1) = IF i + 1 \in W THEN UpTo(W, i) + 1 ELSE UpTo(W, i)

(* Counting starts at nothing and ends with the whole of W. *)
LEMMA Counted == ASSUME NEW n \in Nat, NEW W, W \subseteq 1 .. n PROVE CountsUp(n, W)
<1> DEFINE U(i) == {j \in W : j <= i}
<1>0. \A j \in W : j \in Nat /\ j >= 1 /\ j <= n
  <2> SUFFICES ASSUME NEW j \in W PROVE j \in Nat /\ j >= 1 /\ j <= n
    OBVIOUS
  <2>1. j \in 1 .. n
    OBVIOUS
  <2> QED BY <2>1
<1>2. IsFiniteSet(W)
  <2>1. 1 \in Int /\ n \in Int
    OBVIOUS
  <2>2. IsFiniteSet(1 .. n)
    BY ONLY <2>1, FS_Interval
  <2> QED BY <2>2, FS_Subset
<1>3. ASSUME NEW i \in Nat PROVE IsFiniteSet(U(i)) /\ Cardinality(U(i)) \in Nat
  <2>1. U(i) \in SUBSET W
    OBVIOUS
  <2>2. IsFiniteSet(U(i))
    BY <1>2, <2>1, FS_Subset
  <2> QED BY <2>2, FS_CardinalityType
<1>4. Cardinality(U(0)) = 0
  <2>0. \A j \in W : ~(j <= 0)
    BY <1>0
  <2>1. U(0) = {}
    BY <2>0
  <2> QED BY <2>1, FS_EmptySet
<1>5. ASSUME NEW i \in Nat
      PROVE  Cardinality(U(i + 1)) = IF i + 1 \in W THEN Cardinality(U(i)) + 1 ELSE Cardinality(U(i))
  <2>1. CASE i + 1 \in W
    <3>0. \A j \in W : j <= i + 1 <=> j <= i \/ j = i + 1
      BY <1>0
    <3>1. U(i + 1) = U(i) \cup {i + 1} /\ i + 1 \notin U(i)
      <4>1. PICK x : x = i + 1
        OBVIOUS
      <4>2. x \in W /\ ~(x <= i) /\ \A j \in W : j <= x <=> j <= i \/ j = x
        BY <2>1, <3>0, <4>1
      <4>3. {j \in W : j <= x} = {j \in W : j <= i} \cup {x} /\ x \notin {j \in W : j <= i}
        BY ONLY <4>2
      <4> QED BY <4>1, <4>3
    <3>2. PICK u, x : u = U(i) /\ x = i + 1
      OBVIOUS
    <3>3. Cardinality(u \cup {x}) = IF x \in u THEN Cardinality(u) ELSE Cardinality(u) + 1
      BY <1>3, <3>2, FS_AddElement
    <3> QED BY <2>1, <3>1, <3>2, <3>3
  <2>2. CASE i + 1 \notin W
    <3>0. \A j \in W : j <= i + 1 <=> j <= i
      BY <1>0, <2>2
    <3>1. U(i + 1) = U(i)
      BY <3>0
    <3> QED BY <2>2, <3>1
  <2> QED BY <2>1, <2>2
<1>6. U(n) = W
  BY <1>0
<1>7. \A i : UpTo(W, i) = Cardinality(U(i))
  BY DEF UpTo
<1> HIDE DEF U
<1> QED BY <1>3, <1>4, <1>5, <1>6, <1>7 DEF CountsUp

(* The places of the line ends of a text. *)
Ends(text) == {j \in 1 .. Len(text) : text[j] = EOL}

(* The line ends before the place behind i are those up to i. *)
LEMMA EndsBeforeIs ==
  ASSUME NEW text, Len(text) \in Nat, DOMAIN text = 1 .. Len(text), NEW i \in Nat
  PROVE  EndsBefore(text, i + 1) = UpTo(Ends(text), i)
<1>1. \A j \in 1 .. Len(text) : j < i + 1 <=> j <= i
  OBVIOUS
<1>2. {j \in DOMAIN text : j < i + 1 /\ text[j] = EOL} = {j \in Ends(text) : j <= i}
  BY <1>1 DEF Ends
<1> QED BY <1>2 DEF EndsBefore, UpTo

(* A part of a sequence. *)
LEMMA PartIs ==
  ASSUME NEW X, NEW s \in Seq(X), NEW a \in Nat \ {0}, NEW b \in Nat, a - 1 <= b, b <= Len(s)
  PROVE  /\ SubSeq(s, a, b) \in Seq(X) /\ Len(SubSeq(s, a, b)) = b - a + 1
         /\ \A i \in 1 .. b - a + 1 : SubSeq(s, a, b)[i] = s[a + i - 1]
<1>1. \A i \in a .. b : s[i] \in X
  <2> SUFFICES ASSUME NEW i \in a .. b PROVE s[i] \in X
    OBVIOUS
  <2>1. i \in 1 .. Len(s)
    BY LenProperties
  <2> QED BY <2>1, ElementOfSeq
<1>2. a \in Int /\ b \in Int
  OBVIOUS
<1>3. /\ SubSeq(s, a, b) \in Seq(X)
      /\ Len(SubSeq(s, a, b)) = IF a <= b THEN b - a + 1 ELSE 0
      /\ \A i \in 1 .. b - a + 1 : SubSeq(s, a, b)[i] = s[a + i - 1]
  BY ONLY <1>1, <1>2, SubSeqProperties
<1>4. (IF a <= b THEN b - a + 1 ELSE 0) = b - a + 1
  OBVIOUS
<1> QED BY <1>3, <1>4

(* strstr finds a pattern where it occurs. *)
LEMMA StrstrIs ==
  ASSUME NEW X, NEW text \in Seq(X), NEW Y, NEW pattern \in Seq(Y)
  PROVE  shell_strstr(text, pattern) <=> Occurs(pattern, text)
<1>1. PICK n, m : n = Len(text) /\ m = Len(pattern)
  OBVIOUS
<1>2. n \in Nat /\ m \in Nat /\ DOMAIN text = 1 .. n /\ (m = 0 <=> pattern = << >>)
  BY <1>1, LenProperties, EmptySeq
<1>3. CASE m = 0
  <2>1. 0 \in 0 .. n - m /\ SubSeq(text, 0 + 1, 0 + m) = << >>
    <3>1. SubSeq(text, 1, 0) = << >>
      BY SubSeqProperties
    <3> QED BY <1>2, <1>3, <3>1
  <2> QED BY <1>1, <1>2, <1>3, <2>1 DEF shell_strstr, Occurs
<1>4. CASE m > 0
  <2>1. ASSUME NEW k \in 1 .. n
        PROVE  IsPrefix(pattern, SubSeq(text, k, n))
                 <=> (k - 1 \in 0 .. n - m /\ SubSeq(text, (k - 1) + 1, (k - 1) + m) = pattern)
    <3>1. PICK u : u = SubSeq(text, k, n)
      OBVIOUS
    <3>2. /\ u \in Seq(X) /\ Len(u) = n - k + 1
          /\ \A i \in 1 .. n - k + 1 : u[i] = text[k + i - 1]
      BY <1>1, <1>2, <3>1, SubSeqProperties
    <3>3. m <= n - k + 1 <=> k - 1 \in 0 .. n - m
      BY <1>2
    <3>4. ASSUME m <= n - k + 1 PROVE SubSeq(u, 1, m) = SubSeq(text, (k - 1) + 1, (k - 1) + m)
      <4>1. PICK v, w, e : v = SubSeq(u, 1, m) /\ w = SubSeq(text, k, e) /\ e = (k - 1) + m
        OBVIOUS
      <4>2. v \in Seq(X) /\ Len(v) = m /\ \A i \in 1 .. m : v[i] = u[i]
        <5>1. 1 \in Nat \ {0} /\ 1 - 1 <= m /\ m <= Len(u)
          BY <1>2, <3>2, <3>4
        <5>2. Len(v) = m - 1 + 1 /\ v \in Seq(X) /\ \A i \in 1 .. m - 1 + 1 : v[i] = u[1 + i - 1]
          BY <1>2, <3>2, <4>1, <5>1, PartIs
        <5>3. m - 1 + 1 = m /\ \A i \in 1 .. m : 1 + i - 1 = i
          BY <1>2
        <5> QED BY <5>2, <5>3
      <4>3. w \in Seq(X) /\ Len(w) = m /\ \A i \in 1 .. m : w[i] = text[k + i - 1]
        <5>1. k \in Nat \ {0} /\ e \in Nat /\ k - 1 <= e /\ e <= n /\ e - k + 1 = m
          BY <1>2, <3>4, <4>1
        <5>2. Len(w) = e - k + 1 /\ w \in Seq(X) /\ \A i \in 1 .. e - k + 1 : w[i] = text[k + i - 1]
          BY <1>1, <4>1, <5>1, PartIs
        <5> QED BY <5>1, <5>2
      <4>4. \A i \in 1 .. m : v[i] = w[i]
        <5> SUFFICES ASSUME NEW i \in 1 .. m PROVE v[i] = w[i]
          OBVIOUS
        <5>1. i \in 1 .. n - k + 1
          BY <1>2, <3>4
        <5> QED BY <3>2, <4>2, <4>3, <5>1
      <4>5. v = w
        BY ONLY <4>2, <4>3, <4>4, SeqEqual
      <4>6. (k - 1) + 1 = k
        OBVIOUS
      <4> QED BY <4>1, <4>5, <4>6
    <3> QED BY <1>1, <3>1, <3>2, <3>3, <3>4 DEF IsPrefix
  <2>2. shell_strstr(text, pattern) <=> \E k \in 1 .. n : IsPrefix(pattern, SubSeq(text, k, n))
    BY <1>1, <1>2, <1>4 DEF shell_strstr
  <2> DEFINE At(i) == SubSeq(text, i + 1, i + m) = pattern
  <2>3. Occurs(pattern, text) <=> \E i \in 0 .. n - m : At(i)
    BY <1>1 DEF Occurs
  <2>4. \A k \in 1 .. n : IsPrefix(pattern, SubSeq(text, k, n)) <=> (k - 1 \in 0 .. n - m /\ At(k - 1))
    BY <2>1
  <2> HIDE DEF At
  <2>5. ASSUME NEW i \in 0 .. n - m PROVE i + 1 \in 1 .. n /\ (i + 1) - 1 = i
    BY <1>2, <1>4
  <2>6. (\E i \in 0 .. n - m : At(i)) => \E k \in 1 .. n : k - 1 \in 0 .. n - m /\ At(k - 1)
    <3> SUFFICES ASSUME NEW i \in 0 .. n - m, At(i)
                 PROVE  \E k \in 1 .. n : k - 1 \in 0 .. n - m /\ At(k - 1)
      OBVIOUS
    <3>1. PICK k : k = i + 1
      OBVIOUS
    <3>2. k \in 1 .. n /\ k - 1 = i
      BY <2>5, <3>1
    <3> QED BY <3>2
  <2> QED BY <2>2, <2>3, <2>4, <2>6
<1> QED BY <1>2, <1>3, <1>4

(* wc, character by character. *)
Counts == [lines : Nat, words : Nat, in_word : BOOLEAN]
Nothing == [lines |-> 0, words |-> 0, in_word |-> FALSE]

Counting(text, h) ==
  /\ h[0] = Nothing
  /\ \A k \in 1 .. Len(text) : h[k] = WcStep(h[k - 1], text[k])

(* cmd_wc is what such counting ends with, and a last word. *)
LEMMA WcRuns ==
  ASSUME NEW text, Len(text) \in Nat
  PROVE  \E h : /\ Counting(text, h)
                /\ LET w == h[Len(text)]
                   IN  cmd_wc(text) = <<w.lines, IF w.in_word THEN w.words + 1 ELSE w.words, Len(text)>>
<1> DEFINE S == Counts
           n == Len(text)
           e == [k \in 1 .. n |-> [x \in S |-> WcStep(x, text[k])]]
           Def(h) == [k \in 0 .. n |-> IF k = 0 THEN [lines |-> 0, words |-> 0, in_word |-> FALSE]
                                       ELSE WcStep(h[k - 1], text[k])]
           h == CHOOSE h : h = Def(h)
<1>1. n \in Nat /\ Nothing \in S
  BY DEF Nothing, Counts
<1>2. \A k \in 1 .. n : \A x \in S : e[k][x] = WcStep(x, text[k]) /\ e[k][x] \in S
  <2> SUFFICES ASSUME NEW k \in 1 .. n, NEW x \in S PROVE WcStep(x, text[k]) \in S
    OBVIOUS
  <2>1. x.lines \in Nat /\ x.words \in Nat
    BY DEF Counts
  <2>2. PICK l, w : /\ l = IF text[k] = EOL THEN x.lines + 1 ELSE x.lines
                    /\ w = IF text[k] \in Space /\ x.in_word THEN x.words + 1 ELSE x.words
    OBVIOUS
  <2>3. l \in Nat /\ w \in Nat
    BY <2>1, <2>2
  <2>4. WcStep(x, text[k]) = [lines |-> l, words |-> w, in_word |-> text[k] \notin Space]
    BY <2>2 DEF WcStep
  <2> QED BY <2>3, <2>4 DEF Counts
<1>3. PICK f : RunOf(n, S, Nothing, e, f)
  <2>1. Stays(n, S, e)
    <3> HIDE DEF n, S, e
    <3> QED BY <1>2 DEF Stays
  <2> HIDE DEF n, S, e
  <2> QED BY ONLY <1>1, <2>1, RunIs
<1>4. f = Def(f)
  <2>1. ASSUME NEW k \in 0 .. n
        PROVE  f[k] = IF k = 0 THEN Nothing ELSE WcStep(f[k - 1], text[k])
    <3>1. k = 0 \/ (k # 0 /\ k \in 1 .. n)
      BY <1>1
    <3> HIDE DEF n, S, e
    <3> QED BY <1>2, <1>3, <3>1 DEF RunOf
  <2> HIDE DEF n, S, e
  <2>2. f = [k \in 0 .. n |-> f[k]]
    BY <1>3 DEF RunOf
  <2> QED BY ONLY <2>1, <2>2 DEF Nothing
<1>5. cmd_wc(text) = LET w == h[n] IN <<w.lines, IF w.in_word THEN w.words + 1 ELSE w.words, n>>
  BY DEF cmd_wc
<1>6. h = Def(h)
  <2> HIDE DEF Def
  <2> QED BY <1>4
<1>7. Counting(text, h)
  <2> HIDE DEF h
  <2>1. 0 \in 0 .. n /\ \A k \in 1 .. n : k \in 0 .. n /\ k # 0
    BY <1>1
  <2>2. h = [k \in 0 .. n |-> IF k = 0 THEN Nothing ELSE WcStep(h[k - 1], text[k])]
    BY <1>6 DEF Nothing
  <2>3. h[0] = Nothing /\ \A k \in 1 .. n : h[k] = WcStep(h[k - 1], text[k])
    <3> HIDE DEF n
    <3> QED BY ONLY <2>1, <2>2
  <2> QED BY <2>3 DEF Counting
<1> HIDE DEF h
<1> QED BY <1>5, <1>7

(* What it has counted after k characters: a word that has begun counts    *)
(* when it ends.                                                           *)
LEMMA WcIs ==
  ASSUME NEW X, NEW text \in Seq(X)
  PROVE  cmd_wc(text) = <<EndsBefore(text, Len(text) + 1), Cardinality(WordStarts(text)), Len(text)>>
<1>1. PICK n, W, E : n = Len(text) /\ W = WordStarts(text) /\ E = Ends(text)
  OBVIOUS
<1>2. n \in Nat /\ DOMAIN text = 1 .. n /\ W \subseteq 1 .. n /\ E \subseteq 1 .. n
  BY <1>1, LenProperties DEF WordStarts, Ends
<1>3. PICK h : /\ Counting(text, h)
               /\ LET w == h[Len(text)]
                  IN  cmd_wc(text) = <<w.lines, IF w.in_word THEN w.words + 1 ELSE w.words, Len(text)>>
  BY <1>1, <1>2, WcRuns
<1>4. /\ UpTo(W, 0) = 0 /\ UpTo(W, n) = Cardinality(W)
      /\ \A i \in Nat : /\ UpTo(W, i) \in Nat
                        /\ UpTo(W, i + 1) = IF i + 1 \in W THEN UpTo(W, i) + 1 ELSE UpTo(W, i)
  <2>1. n \in Nat /\ W \subseteq 1 .. n
    BY <1>2
  <2>2. CountsUp(n, W)
    BY ONLY <2>1, Counted
  <2> QED BY <2>2 DEF CountsUp
<1>5. /\ UpTo(E, 0) = 0
      /\ \A i \in Nat : /\ UpTo(E, i) \in Nat
                        /\ UpTo(E, i + 1) = IF i + 1 \in E THEN UpTo(E, i) + 1 ELSE UpTo(E, i)
  <2>1. n \in Nat /\ E \subseteq 1 .. n
    BY <1>2
  <2>2. CountsUp(n, E)
    BY ONLY <2>1, Counted
  <2> QED BY <2>2 DEF CountsUp
<1> DEFINE In(k) == k > 0 /\ text[k] \notin Space
           Good(k) == /\ h[k].lines = UpTo(E, k) /\ (h[k].in_word <=> In(k))
                      /\ h[k].words \in Nat
                      /\ h[k].words + (IF In(k) THEN 1 ELSE 0) = UpTo(W, k)
           M == {k \in Nat : k <= n => Good(k)}
<1>6. 0 \in M
  <2>1. h[0].lines = 0 /\ h[0].in_word = FALSE /\ h[0].words = 0
    BY <1>3 DEF Counting, Nothing
  <2>2. ~In(0)
    OBVIOUS
  <2> HIDE DEF In
  <2>3. h[0].words + (IF In(0) THEN 1 ELSE 0) = 0
    BY <2>1, <2>2
  <2>4. h[0].in_word <=> In(0)
    BY <2>1, <2>2
  <2>5. Good(0)
    BY <1>4, <1>5, <2>1, <2>3, <2>4
  <2> QED BY <2>5
<1>7. ASSUME NEW k \in Nat, k \in M PROVE k + 1 \in M
  <2> SUFFICES ASSUME k + 1 <= n PROVE Good(k + 1)
    OBVIOUS
  <2>1. Good(k) /\ k + 1 \in 1 .. n /\ (k + 1) - 1 = k
    BY <1>2, <1>7
  <2>2. PICK c, p, w : c = text[k + 1] /\ p = h[k] /\ w = h[k + 1]
    OBVIOUS
  <2>3. w = WcStep(p, c)
    BY <1>1, <1>3, <2>1, <2>2 DEF Counting
  <2>4. /\ w.lines = IF c = EOL THEN p.lines + 1 ELSE p.lines
        /\ w.words = IF c \in Space /\ p.in_word THEN p.words + 1 ELSE p.words
        /\ w.in_word <=> c \notin Space
    BY <2>3 DEF WcStep
  <2>5. k + 1 \in E <=> c = EOL
    BY <1>1, <2>1, <2>2 DEF Ends
  <2>6. k + 1 \in W <=> c \notin Space /\ ~In(k)
    <3>1. k + 1 = 1 <=> ~(k > 0)
      OBVIOUS
    <3> QED BY <1>1, <1>2, <2>1, <2>2, <3>1 DEF WordStarts
  <2>7. In(k + 1) <=> c \notin Space
    <3>1. k + 1 > 0
      OBVIOUS
    <3> QED BY <2>2, <3>1
  <2> HIDE DEF In
  <2>8. w.lines = UpTo(E, k + 1)
    BY <1>5, <2>1, <2>2, <2>4, <2>5
  <2>9. p.words \in Nat /\ (p.in_word <=> In(k)) /\ p.words + (IF In(k) THEN 1 ELSE 0) = UpTo(W, k)
    BY <2>1, <2>2
  <2>10. w.words \in Nat /\ w.words + (IF In(k + 1) THEN 1 ELSE 0) = UpTo(W, k + 1)
    <3>1. UpTo(W, k + 1) = IF c \notin Space /\ ~In(k) THEN UpTo(W, k) + 1 ELSE UpTo(W, k)
      BY <1>4, <2>6
    <3>2. w.words = IF c \in Space /\ In(k) THEN p.words + 1 ELSE p.words
      BY <2>4, <2>9
    <3>3. PICK i, j, u, v, x, y :
            /\ i = (IF In(k) THEN 1 ELSE 0) /\ j = (IF In(k + 1) THEN 1 ELSE 0)
            /\ u = UpTo(W, k) /\ v = UpTo(W, k + 1) /\ x = p.words /\ y = w.words
      OBVIOUS
    <3>4. x \in Nat /\ x + i = u
      BY <2>9, <3>3
    <3>5. \/ i = 1 /\ j = 0 /\ v = u /\ y = x + 1
          \/ i = 0 /\ j = 0 /\ v = u /\ y = x
          \/ i = 1 /\ j = 1 /\ v = u /\ y = x
          \/ i = 0 /\ j = 1 /\ v = u + 1 /\ y = x
      BY <2>7, <3>1, <3>2, <3>3
    <3>6. y \in Nat /\ y + j = v
      BY ONLY <3>4, <3>5
    <3> QED BY <3>3, <3>6
  <2> QED BY <2>2, <2>4, <2>7, <2>8, <2>10
<1> HIDE DEF M, Good
<1>8. n \in M
  BY ONLY <1>2, <1>6, <1>7, Upwards
<1>9. Good(n)
  BY <1>2, <1>8 DEF M
<1>10. EndsBefore(text, n + 1) = UpTo(E, n)
  BY <1>1, <1>2, EndsBeforeIs
<1>11. (IF h[n].in_word THEN h[n].words + 1 ELSE h[n].words) = UpTo(W, n)
  <2>1. (h[n].in_word <=> In(n)) /\ h[n].words \in Nat /\ h[n].words + (IF In(n) THEN 1 ELSE 0) = UpTo(W, n)
    BY <1>9 DEF Good
  <2> HIDE DEF In
  <2>2. CASE In(n)
    <3>1. h[n].words + 1 = UpTo(W, n)
      BY <2>1, <2>2
    <3> QED BY <2>1, <2>2, <3>1
  <2>3. CASE ~In(n)
    <3>1. h[n].words + 0 = UpTo(W, n)
      BY <2>1, <2>3
    <3>2. h[n].words = UpTo(W, n)
      BY <2>1, <3>1
    <3> QED BY <2>1, <2>3, <3>2
  <2> QED BY <2>2, <2>3
<1> QED BY <1>1, <1>3, <1>4, <1>9, <1>10, <1>11 DEF Good

--------------------------------------------------------------------------------
(* grep, line by line. *)
Searches == [start : Nat \ {0}, line : Nat, found : SUBSET Nat]
AtFirst == [start |-> 1, line |-> 1, found |-> {}]

Searching(text, pattern, h) ==
  /\ h[0] = AtFirst
  /\ \A k \in 1 .. Len(text) : h[k] = GrepLine(text, pattern, h[k - 1])

(* A line ends at the first line end in it, or with the text. *)
CutAt(text, a, e) ==
  /\ e \in Nat /\ a <= e /\ e <= Len(text) + 1
  /\ e <= Len(text) => text[e] = EOL
  /\ \A j \in 1 .. Len(text) : a <= j /\ j < e => text[j] # EOL
  /\ LineAt(text, a) = SubSeq(text, a, e - 1)
  /\ \A pattern, g : g.start = a =>
       GrepLine(text, pattern, g) =
         [start |-> e + 1, line |-> g.line + 1,
          found |-> IF shell_strstr(LineAt(text, a), pattern) THEN g.found \cup {g.line} ELSE g.found]

(* Each place of a text is in a line that ends somewhere, where GrepLine   *)
(* cuts it.                                                                *)
LEMMA LineIsCut ==
  ASSUME NEW text, Len(text) \in Nat, NEW a \in 1 .. Len(text)
  PROVE  \E e : CutAt(text, a, e)
<1> DEFINE ends == {j \in a .. Len(text) : text[j] = EOL}
<1>1. PICK n : n = Len(text)
  OBVIOUS
<1>2. PICK e : e = IF ends = {} THEN n + 1 ELSE LowestOf(ends)
  OBVIOUS
<1>3. n \in Nat /\ a \in Nat /\ a >= 1 /\ a <= n /\ ends \subseteq Nat
  BY <1>1
<1>4. /\ e \in Nat /\ a <= e /\ e <= n + 1
      /\ e <= n => text[e] = EOL
      /\ \A j \in 1 .. n : a <= j /\ j < e => text[j] # EOL
  <2>1. CASE ends = {}
    <3>1. \A j \in a .. n : text[j] # EOL
      BY <1>1, <2>1
    <3>2. \A j \in 1 .. n : a <= j => j \in a .. n
      OBVIOUS
    <3> QED BY <1>2, <1>3, <2>1, <3>1, <3>2
  <2>2. CASE ends # {}
    <3>1. LowestOf(ends) \in ends /\ \A y \in ends : LowestOf(ends) <= y
      <4> HIDE DEF ends
      <4> QED BY <1>3, <2>2, Lowest
    <3>2. e \in ends /\ \A y \in ends : e <= y
      BY <1>2, <2>2, <3>1
    <3>3. e \in Nat /\ a <= e /\ e <= n + 1 /\ text[e] = EOL
      BY <1>1, <1>3, <3>2
    <3>4. ASSUME NEW j \in 1 .. n, a <= j, j < e PROVE text[j] # EOL
      <4>1. j \in a .. n /\ ~(e <= j)
        BY <1>3, <3>3, <3>4
      <4> QED BY <1>1, <3>2, <4>1
    <3> QED BY <3>3, <3>4
  <2> QED BY <2>1, <2>2
<1>5. LineAt(text, a) = SubSeq(text, a, e - 1)
  <2>1. n = (n + 1) - 1
    BY <1>3
  <2> QED BY <1>1, <1>2, <2>1 DEF LineAt
<1>6. ASSUME NEW pattern, NEW g, g.start = a
      PROVE  GrepLine(text, pattern, g) =
               [start |-> e + 1, line |-> g.line + 1,
                found |-> IF shell_strstr(LineAt(text, a), pattern) THEN g.found \cup {g.line} ELSE g.found]
  <2>1. ~(g.start > Len(text))
    BY <1>1, <1>3, <1>6
  <2> QED BY <1>1, <1>2, <1>5, <1>6, <2>1 DEF GrepLine
<1> QED BY <1>1, <1>4, <1>5, <1>6 DEF CutAt

(* cmd_grep is what such a search ends with. *)
LEMMA GrepRuns ==
  ASSUME NEW text, Len(text) \in Nat, NEW pattern
  PROVE  \E h : Searching(text, pattern, h) /\ cmd_grep(text, pattern) = h[Len(text)].found
<1> DEFINE S == Searches
           n == Len(text)
           e == [k \in 1 .. n |-> [x \in S |-> GrepLine(text, pattern, x)]]
           Def(h) == [k \in 0 .. n |-> IF k = 0 THEN [start |-> 1, line |-> 1, found |-> {}]
                                       ELSE GrepLine(text, pattern, h[k - 1])]
           h == CHOOSE h : h = Def(h)
<1>1. n \in Nat /\ AtFirst \in S
  BY DEF AtFirst, Searches
<1>2. \A k \in 1 .. n : \A x \in S : e[k][x] = GrepLine(text, pattern, x) /\ e[k][x] \in S
  <2> SUFFICES ASSUME NEW k \in 1 .. n, NEW x \in S PROVE GrepLine(text, pattern, x) \in S
    OBVIOUS
  <2>1. x.start \in Nat \ {0} /\ x.line \in Nat /\ x.found \in SUBSET Nat
    BY DEF Searches
  <2>2. CASE x.start > n
    BY <2>2 DEF GrepLine
  <2>3. CASE x.start <= n
    <3>1. PICK a : a = x.start /\ a \in 1 .. n
      BY <1>1, <2>1, <2>3
    <3>2. PICK c : CutAt(text, a, c)
      BY <1>1, <3>1, LineIsCut
    <3>3. PICK found : found = IF shell_strstr(LineAt(text, a), pattern) THEN x.found \cup {x.line} ELSE x.found
      OBVIOUS
    <3>4. GrepLine(text, pattern, x) = [start |-> c + 1, line |-> x.line + 1, found |-> found]
      BY <3>1, <3>2, <3>3 DEF CutAt
    <3>5. c + 1 \in Nat \ {0} /\ x.line + 1 \in Nat /\ found \in SUBSET Nat
      BY <2>1, <3>2, <3>3 DEF CutAt
    <3> QED BY <3>4, <3>5 DEF Searches
  <2> QED BY <1>1, <2>1, <2>2, <2>3
<1>3. PICK f : RunOf(n, S, AtFirst, e, f)
  <2>1. Stays(n, S, e)
    <3> HIDE DEF n, S, e
    <3> QED BY <1>2 DEF Stays
  <2> HIDE DEF n, S, e
  <2> QED BY ONLY <1>1, <2>1, RunIs
<1>4. f = Def(f)
  <2>1. ASSUME NEW k \in 0 .. n
        PROVE  f[k] = IF k = 0 THEN AtFirst ELSE GrepLine(text, pattern, f[k - 1])
    <3>1. k = 0 \/ (k # 0 /\ k \in 1 .. n)
      BY <1>1
    <3> HIDE DEF n, S, e
    <3> QED BY <1>2, <1>3, <3>1 DEF RunOf
  <2> HIDE DEF n, S, e
  <2>2. f = [k \in 0 .. n |-> f[k]]
    BY <1>3 DEF RunOf
  <2> QED BY ONLY <2>1, <2>2 DEF AtFirst
<1>5. cmd_grep(text, pattern) = h[n].found
  BY DEF cmd_grep
<1>6. h = Def(h)
  <2> HIDE DEF Def
  <2> QED BY <1>4
<1>7. Searching(text, pattern, h)
  <2> HIDE DEF h
  <2>1. 0 \in 0 .. n /\ \A k \in 1 .. n : k \in 0 .. n /\ k # 0
    BY <1>1
  <2>2. h = [k \in 0 .. n |-> IF k = 0 THEN AtFirst ELSE GrepLine(text, pattern, h[k - 1])]
    BY <1>6 DEF AtFirst
  <2>3. h[0] = AtFirst /\ \A k \in 1 .. n : h[k] = GrepLine(text, pattern, h[k - 1])
    <3> HIDE DEF n
    <3> QED BY ONLY <2>1, <2>2
  <2> QED BY <2>3 DEF Searching
<1> HIDE DEF h
<1> QED BY <1>5, <1>7

(* The lines before a place in which the pattern is, and their numbers. *)
Hits(text, pattern, a) == {i \in LineStarts(text) : i < a /\ Occurs(pattern, LineAt(text, i))}
Numbers(text, W) == {1 + EndsBefore(text, i) : i \in W}

(* How far grep is, if it has read all of the lines before. *)
At(text, pattern, g) ==
  /\ g \in Searches
  /\ g.start <= Len(text) => g.start \in LineStarts(text) /\ g.line = 1 + EndsBefore(text, g.start)
  /\ g.found = Numbers(text, Hits(text, pattern, g.start))

(* A line of grep. *)
LEMMA GrepStep ==
  ASSUME NEW X, NEW text \in Seq(X), NEW Y, NEW pattern \in Seq(Y),
         NEW g, At(text, pattern, g), g.start <= Len(text), NEW h, h = GrepLine(text, pattern, g)
  PROVE  At(text, pattern, h) /\ h.start > g.start
<1>1. PICK n, E, a : n = Len(text) /\ E = Ends(text) /\ a = g.start
  OBVIOUS
<1>2. /\ n \in Nat /\ DOMAIN text = 1 .. n /\ E \subseteq 1 .. n
      /\ a \in 1 .. n /\ a \in LineStarts(text) /\ g.line = 1 + EndsBefore(text, a)
      /\ g.line \in Nat /\ g.found \in SUBSET Nat
      /\ g.found = Numbers(text, Hits(text, pattern, a))
  <2>1. n \in Nat /\ DOMAIN text = 1 .. n /\ E \subseteq 1 .. n
    BY <1>1, LenProperties DEF Ends
  <2>2. a \in Nat \ {0} /\ a <= n /\ g.line \in Nat /\ g.found \in SUBSET Nat
    BY <1>1 DEF At, Searches
  <2> QED BY <1>1, <2>1, <2>2 DEF At
<1>3. PICK e : CutAt(text, a, e)
  BY <1>1, <1>2, LineIsCut
<1>4. /\ e \in Nat /\ a <= e /\ e <= n + 1 /\ (e <= n => text[e] = EOL)
      /\ \A j \in 1 .. n : a <= j /\ j < e => text[j] # EOL
      /\ LineAt(text, a) = SubSeq(text, a, e - 1)
  BY <1>1, <1>3 DEF CutAt
<1>5. shell_strstr(LineAt(text, a), pattern) <=> Occurs(pattern, LineAt(text, a))
  <2>1. a \in Nat \ {0} /\ e - 1 \in Nat /\ a - 1 <= e - 1 /\ e - 1 <= n
    BY <1>2, <1>4
  <2>2. SubSeq(text, a, e - 1) \in Seq(X)
    BY <1>1, <2>1, PartIs
  <2> QED BY <1>4, <2>2, StrstrIs
<1>6. h = [start |-> e + 1, line |-> g.line + 1,
           found |-> IF Occurs(pattern, LineAt(text, a)) THEN g.found \cup {g.line} ELSE g.found]
  BY <1>1, <1>3, <1>5 DEF CutAt
<1>7. h.start = e + 1 /\ h.line = g.line + 1 /\ h \in Searches
  <2>1. PICK found : found = IF Occurs(pattern, LineAt(text, a)) THEN g.found \cup {g.line} ELSE g.found
    OBVIOUS
  <2>2. e + 1 \in Nat \ {0} /\ g.line + 1 \in Nat /\ found \in SUBSET Nat
    BY <1>2, <1>4, <2>1
  <2> QED BY <1>6, <2>1, <2>2 DEF Searches
<1>8. ASSUME e + 1 <= n
      PROVE  e + 1 \in LineStarts(text) /\ g.line + 1 = 1 + EndsBefore(text, e + 1)
  <2>1. e \in 1 .. n /\ e + 1 \in 1 .. n /\ (e + 1) - 1 = e /\ e <= n /\ e - 1 \in Nat /\ (e - 1) + 1 = e
        /\ a - 1 \in Nat /\ (a - 1) + 1 = a
    BY <1>2, <1>4, <1>8
  <2>2. e + 1 \in LineStarts(text)
    BY <1>2, <1>4, <2>1 DEF LineStarts
  <2>3. /\ UpTo(E, 0) = 0 /\ UpTo(E, n) = Cardinality(E)
        /\ \A i \in Nat : /\ UpTo(E, i) \in Nat
                          /\ UpTo(E, i + 1) = IF i + 1 \in E THEN UpTo(E, i) + 1 ELSE UpTo(E, i)
    <3>1. n \in Nat /\ E \subseteq 1 .. n
      BY <1>2
    <3>2. CountsUp(n, E)
      BY ONLY <3>1, Counted
    <3> QED BY <3>2 DEF CountsUp
  <2>4. e \in E
    BY <1>1, <1>4, <2>1 DEF Ends
  <2>5. UpTo(E, e) = UpTo(E, e - 1) + 1
    BY ONLY <2>1, <2>3, <2>4
  <2>6. UpTo(E, e - 1) = UpTo(E, a - 1)
    <3>1. \A j \in E : j \in 1 .. n /\ text[j] = EOL
      BY <1>1 DEF Ends
    <3>2. \A j \in E : j <= e - 1 <=> j <= a - 1
      <4> SUFFICES ASSUME NEW j \in E PROVE j <= e - 1 <=> j <= a - 1
        OBVIOUS
      <4>1. j \in 1 .. n /\ ~(a <= j /\ j < e)
        BY <1>4, <3>1
      <4> QED BY <1>2, <1>4, <4>1
    <3>3. {j \in E : j <= e - 1} = {j \in E : j <= a - 1}
      BY <3>2
    <3> QED BY <3>3 DEF UpTo
  <2>7. EndsBefore(text, e + 1) = UpTo(E, e) /\ EndsBefore(text, a) = UpTo(E, a - 1)
    BY <1>1, <1>2, <1>4, <2>1, EndsBeforeIs
  <2>8. UpTo(E, a - 1) \in Nat
    BY <2>1, <2>3
  <2> QED BY <1>2, <2>2, <2>5, <2>6, <2>7, <2>8
<1>9. Hits(text, pattern, e + 1) =
        IF Occurs(pattern, LineAt(text, a)) THEN Hits(text, pattern, a) \cup {a} ELSE Hits(text, pattern, a)
  <2>1. ASSUME NEW i \in LineStarts(text) PROVE i < e + 1 <=> i < a \/ i = a
    <3>1. i \in 1 .. n /\ (i = 1 \/ text[i - 1] = EOL)
      BY <1>2 DEF LineStarts
    <3>2. CASE i < a \/ i = a
      BY <1>2, <1>4, <3>1, <3>2
    <3>3. CASE a < i
      <4>1. i - 1 \in 1 .. n /\ a <= i - 1 /\ i # 1
        BY <1>2, <3>1, <3>3
      <4>2. ~(i - 1 < e)
        BY <1>4, <3>1, <4>1
      <4> QED BY <1>2, <1>4, <3>1, <3>3, <4>2
    <3> QED BY <1>2, <3>1, <3>2, <3>3
  <2>2. ~(a < a)
    BY <1>2
  <2> QED BY <1>2, <2>1, <2>2 DEF Hits
<1>10. h.found = Numbers(text, Hits(text, pattern, e + 1))
  BY <1>2, <1>6, <1>9 DEF Numbers
<1>11. h.start > g.start
  BY <1>1, <1>2, <1>4, <1>7
<1> QED BY <1>1, <1>7, <1>8, <1>10, <1>11 DEF At

(* grep finds the lines the pattern is in: with each line it is further in *)
(* the text, so that it comes to its end.                                  *)
LEMMA GrepIs ==
  ASSUME NEW X, NEW text \in Seq(X), NEW Y, NEW pattern \in Seq(Y)
  PROVE  cmd_grep(text, pattern) =
           {1 + EndsBefore(text, i) : i \in {i \in LineStarts(text) : Occurs(pattern, LineAt(text, i))}}
<1>1. PICK n : n = Len(text)
  OBVIOUS
<1>2. n \in Nat /\ DOMAIN text = 1 .. n
  BY <1>1, LenProperties
<1>3. PICK h : Searching(text, pattern, h) /\ cmd_grep(text, pattern) = h[Len(text)].found
  BY <1>1, <1>2, GrepRuns
<1> DEFINE Good(k) == At(text, pattern, h[k]) /\ (h[k].start > k \/ h[k].start > n)
           M == {k \in Nat : k <= n => Good(k)}
<1>4. 0 \in M
  <2>1. h[0].start = 1 /\ h[0].line = 1 /\ h[0].found = {} /\ h[0] \in Searches
    BY <1>3 DEF Searching, AtFirst, Searches
  <2>2. Hits(text, pattern, 1) = {}
    <3>1. \A i \in 1 .. n : ~(i < 1)
      OBVIOUS
    <3> QED BY <1>2, <3>1 DEF Hits, LineStarts
  <2>3. ASSUME 1 <= n PROVE 1 \in LineStarts(text) /\ EndsBefore(text, 1) = 0
    <3>1. 1 \in 1 .. n /\ 0 + 1 = 1
      BY <1>2, <2>3
    <3>2. 1 \in LineStarts(text)
      BY <1>2, <3>1 DEF LineStarts
    <3>3. Ends(text) \subseteq 1 .. n
      BY <1>1 DEF Ends
    <3>4. CountsUp(n, Ends(text))
      BY <1>2, <3>3, Counted
    <3>5. EndsBefore(text, 0 + 1) = UpTo(Ends(text), 0)
      BY <1>1, <1>2, EndsBeforeIs
    <3> QED BY <3>1, <3>2, <3>4, <3>5 DEF CountsUp
  <2>4. At(text, pattern, h[0])
    BY <1>1, <2>1, <2>2, <2>3 DEF At, Numbers
  <2> QED BY <2>1, <2>4
<1>5. ASSUME NEW k \in Nat, k \in M PROVE k + 1 \in M
  <2> SUFFICES ASSUME k + 1 <= n PROVE Good(k + 1)
    OBVIOUS
  <2>1. Good(k) /\ k + 1 \in 1 .. n /\ (k + 1) - 1 = k
    BY <1>2, <1>5
  <2>2. PICK g, q : g = h[k] /\ q = h[k + 1]
    OBVIOUS
  <2>3. q = GrepLine(text, pattern, g)
    BY <1>1, <1>3, <2>1, <2>2 DEF Searching
  <2>4. At(text, pattern, g) /\ (g.start > k \/ g.start > n) /\ g.start \in Nat
    BY <2>1, <2>2 DEF At, Searches
  <2>5. CASE g.start > n
    <3>1. q = g
      BY <1>1, <2>3, <2>5 DEF GrepLine
    <3> QED BY <2>2, <2>4, <2>5, <3>1
  <2>6. CASE g.start <= n
    <3>1. At(text, pattern, q) /\ q.start > g.start
      BY <1>1, <2>3, <2>4, <2>6, GrepStep
    <3>2. q.start \in Nat
      BY <3>1 DEF At, Searches
    <3>3. q.start > k + 1
      BY <1>2, <2>4, <2>6, <3>1, <3>2
    <3> QED BY <2>2, <3>1, <3>3
  <2> QED BY <1>2, <2>4, <2>5, <2>6
<1> HIDE DEF M, Good
<1>6. n \in M
  BY ONLY <1>2, <1>4, <1>5, Upwards
<1>7. Good(n)
  BY <1>2, <1>6 DEF M
<1>8. PICK g : g = h[n] /\ At(text, pattern, g) /\ g.start \in Nat /\ g.start > n
  BY <1>7 DEF Good, At, Searches
<1>9. Hits(text, pattern, g.start) = {i \in LineStarts(text) : Occurs(pattern, LineAt(text, i))}
  <2>1. \A i \in LineStarts(text) : i < g.start
    <3>1. \A i \in 1 .. n : i < g.start
      BY <1>2, <1>8
    <3> QED BY <1>2, <3>1 DEF LineStarts
  <2> QED BY <2>1 DEF Hits
<1> QED BY <1>1, <1>3, <1>8, <1>9 DEF At, Numbers

--------------------------------------------------------------------------------
(* A function on 1 .. m is a sequence of length m. *)
LEMMA LengthIs ==
  ASSUME NEW m \in Nat, NEW s, DOMAIN s = 1 .. m, s = [k \in 1 .. m |-> s[k]]
  PROVE  Len(s) = m /\ (s = << >> <=> m = 0)
<1> DEFINE T == {s[k] : k \in 1 .. m}
<1>1. s \in [1 .. m -> T]
  OBVIOUS
<1>2. s \in Seq(T)
  BY <1>1, SeqDef
<1>3. PICK l : l = Len(s)
  OBVIOUS
<1>4. l \in Nat /\ DOMAIN s = 1 .. l
  BY <1>2, <1>3, LenProperties
<1>5. l \in 1 .. l \/ l = 0
  BY ONLY <1>4
<1>6. l <= m
  BY ONLY m \in Nat, DOMAIN s = 1 .. m, <1>4, <1>5
<1>7. m \in 1 .. m \/ m = 0
  BY ONLY m \in Nat
<1>8. m <= l
  BY ONLY m \in Nat, DOMAIN s = 1 .. m, <1>4, <1>7
<1>9. l = m
  BY ONLY m \in Nat, <1>4, <1>6, <1>8
<1>10. s = << >> <=> l = 0
  BY <1>2, <1>3, EmptySeq
<1> QED BY <1>3, <1>9, <1>10

(* As many rows as the text fills, the last of them maybe not to its end. *)
LEMMA RowsFill ==
  ASSUME NEW n \in Nat, NEW c \in Nat \ {0}, NEW m, m = (n + c - 1) \div c
  PROVE  /\ m \in Nat /\ m * c >= n
         /\ \A r \in 1 .. m : (r - 1) * c \in Nat /\ (r - 1) * c < n
         /\ \A r \in 1 .. m : (r - 1) * c + c = r * c
<1>1. PICK a : a = n + c - 1 /\ a \in Nat
  OBVIOUS
<1>2. m * c \in Nat /\ m * c + c > a
  BY <1>1, Quotient
<1>3. m \in Nat /\ m * c <= a
  <2>1. c > 0 /\ c \in Nat
    OBVIOUS
  <2>2. (a \div c) \in Nat
    BY ONLY <1>1, <2>1, Z3
  <2>3. (a \div c) * c <= a
    BY ONLY <1>1, <2>1, Z3
  <2> QED BY <1>1, <2>2, <2>3
<1>4. ASSUME NEW r \in 1 .. m PROVE (r - 1) * c + c = r * c /\ (r - 1) * c \in Nat /\ (r - 1) * c < n
  <2>1. r \in Nat /\ r - 1 \in Nat /\ r <= m /\ m - r \in Nat
    BY <1>3
  <2>2. (r - 1) * c + c = r * c
    BY ONLY <2>1, c \in Nat, Z3
  <2>3. (r - 1) * c \in Nat
    BY ONLY <2>1, c \in Nat, Z3
  <2>4. r * c <= m * c
    BY ONLY <1>3, <2>1, c \in Nat, Z3
  <2>5. PICK x, y, z : x = (r - 1) * c /\ y = r * c /\ z = m * c
    OBVIOUS
  <2>6. x + c = y /\ x \in Nat /\ y <= z /\ z \in Nat /\ z <= n + c - 1 /\ c \in Nat /\ n \in Nat
    BY <1>1, <1>2, <1>3, <2>2, <2>3, <2>4, <2>5
  <2>7. x < n
    BY ONLY <2>6
  <2> QED BY <2>2, <2>5, <2>6, <2>7
<1>5. m * c >= n
  <2>1. PICK z : z = m * c
    OBVIOUS
  <2> QED BY <1>1, <1>2, <2>1
<1> QED BY <1>3, <1>4, <1>5

Dumped(text) ==
  LET dump    == cmd_hexdump(text)
      next(r) == dump[r].at + Len(dump[r].bytes)
  IN  /\ \A r \in DOMAIN dump :
           /\ dump[r].at = IF r = 1 THEN 0 ELSE next(r - 1)
           /\ dump[r].bytes # << >> /\ dump[r].bytes = SubSeq(text, dump[r].at + 1, next(r))
           /\ Len(dump[r].bytes) + dump[r].blanks = RowSize
      /\ Len(text) = IF dump = << >> THEN 0 ELSE next(Len(dump))

(* A row starts where the row before it ends, for only the last is not     *)
(* full.                                                                   *)
LEMMA HexIs == ASSUME NEW X, NEW text \in Seq(X) PROVE Dumped(text)
<1>1. PICK n, c, m, dump : n = Len(text) /\ c = RowSize /\ m = (n + c - 1) \div c /\ dump = cmd_hexdump(text)
  OBVIOUS
<1>2. n \in Nat /\ c \in Nat \ {0}
  BY <1>1, LenProperties, RamViewsAssumption
<1>3. /\ m \in Nat /\ m * c >= n
      /\ \A r \in 1 .. m : (r - 1) * c \in Nat /\ (r - 1) * c < n
      /\ \A r \in 1 .. m : (r - 1) * c + c = r * c
  <2>1. m = (n + c - 1) \div c
    BY <1>1
  <2> QED BY ONLY <1>2, <2>1, RowsFill
<1> DEFINE offset(r) == (r - 1) * c
           end(r) == IF offset(r) + c > n THEN n ELSE offset(r) + c
<1>4. dump = [r \in 1 .. m |-> [at |-> offset(r), bytes |-> SubSeq(text, offset(r) + 1, end(r)),
                                blanks |-> c - (end(r) - offset(r))]]
  BY <1>1 DEF cmd_hexdump
<1>5. DOMAIN dump = 1 .. m /\ Len(dump) = m /\ (dump = << >> <=> m = 0)
  <2> HIDE DEF offset, end
  <2>1. DOMAIN dump = 1 .. m /\ dump = [r \in 1 .. m |-> dump[r]]
    BY <1>4
  <2> QED BY <1>3, <2>1, LengthIs
<1>6. ASSUME NEW r \in 1 .. m
      PROVE  /\ offset(r) \in Nat /\ end(r) \in Nat /\ offset(r) < end(r) /\ end(r) <= n
             /\ end(r) <= offset(r) + c
             /\ dump[r].at = offset(r) /\ Len(dump[r].bytes) = end(r) - offset(r)
             /\ dump[r].bytes = SubSeq(text, offset(r) + 1, end(r)) /\ dump[r].bytes # << >>
             /\ dump[r].blanks = c - (end(r) - offset(r))
  <2>1. offset(r) \in Nat /\ offset(r) < n
    BY <1>3
  <2>2. end(r) = IF offset(r) + c > n THEN n ELSE offset(r) + c
    OBVIOUS
  <2>3. PICK a, b : a = offset(r) /\ b = end(r)
    OBVIOUS
  <2> HIDE DEF offset, end
  <2>4. a \in Nat /\ b \in Nat /\ a < b /\ b <= n /\ b <= a + c
    BY ONLY <1>2, <2>1, <2>2, <2>3
  <2>5. /\ dump[r].at = a /\ dump[r].bytes = SubSeq(text, a + 1, b) /\ dump[r].blanks = c - (b - a)
    BY <1>4, <2>3
  <2>6. Len(SubSeq(text, a + 1, b)) = b - a /\ SubSeq(text, a + 1, b) # << >>
    <3>1. a + 1 \in Nat \ {0} /\ (a + 1) - 1 <= b /\ b <= Len(text) /\ b - (a + 1) + 1 = b - a /\ b - a # 0
      BY <1>1, <2>4
    <3>2. PICK u : u = SubSeq(text, a + 1, b)
      OBVIOUS
    <3>3. u \in Seq(X) /\ Len(u) = b - (a + 1) + 1
      BY <2>4, <3>1, <3>2, PartIs
    <3> QED BY <3>1, <3>2, <3>3, EmptySeq
  <2> QED BY <2>3, <2>4, <2>5, <2>6
<1>7. ASSUME NEW r \in 1 .. m PROVE dump[r].at + Len(dump[r].bytes) = end(r)
  <2> HIDE DEF offset, end
  <2>1. PICK a, b : a = offset(r) /\ b = end(r)
    OBVIOUS
  <2>2. a \in Nat /\ b \in Nat /\ a + (b - a) = b
    BY <1>6, <2>1
  <2> QED BY <1>6, <2>1, <2>2
<1>8. ASSUME NEW r \in 1 .. m PROVE offset(r) = IF r = 1 THEN 0 ELSE end(r - 1)
  <2>1. CASE r = 1
    <3>1. offset(1) = 0
      <4>1. 1 - 1 = 0 /\ 0 * c = 0
        BY <1>2
      <4> QED BY <4>1
    <3> QED BY <2>1, <3>1
  <2>2. CASE r # 1
    <3>1. r - 1 \in 1 .. m
      BY <1>3, <2>2
    <3>2. offset(r - 1) + c = offset(r)
      BY <1>3, <3>1
    <3>3. offset(r) \in Nat /\ offset(r) < n
      BY <1>3
    <3>4. end(r - 1) = IF offset(r - 1) + c > n THEN n ELSE offset(r - 1) + c
      OBVIOUS
    <3> HIDE DEF offset, end
    <3>5. ~(offset(r) > n)
      BY ONLY <1>2, <3>3
    <3> QED BY <2>2, <3>2, <3>4, <3>5
  <2> QED BY <2>1, <2>2
<1>9. ASSUME m # 0 PROVE end(m) = n
  <2>1. m \in 1 .. m
    BY <1>3, <1>9
  <2>2. offset(m) + c = m * c /\ offset(m) + c >= n
    BY <1>3, <2>1
  <2>3. end(m) = IF offset(m) + c > n THEN n ELSE offset(m) + c
    OBVIOUS
  <2>4. offset(m) \in Nat
    BY <1>6, <2>1
  <2> HIDE DEF offset, end
  <2> QED BY ONLY <1>2, <2>2, <2>3, <2>4
<1>10. ASSUME m = 0 PROVE n = 0
  <2>1. 0 * c = 0
    BY <1>2
  <2> QED BY <1>2, <1>3, <1>10, <2>1
<1> HIDE DEF offset, end
<1>11. ASSUME NEW r \in DOMAIN dump
       PROVE  /\ dump[r].at = IF r = 1 THEN 0 ELSE dump[r - 1].at + Len(dump[r - 1].bytes)
              /\ dump[r].bytes # << >>
              /\ dump[r].bytes = SubSeq(text, dump[r].at + 1, dump[r].at + Len(dump[r].bytes))
              /\ Len(dump[r].bytes) + dump[r].blanks = RowSize
  <2>1. r \in 1 .. m
    BY <1>5
  <2>2. r = 1 \/ r - 1 \in 1 .. m
    BY <1>3, <2>1
  <2>3. dump[r].at = IF r = 1 THEN 0 ELSE dump[r - 1].at + Len(dump[r - 1].bytes)
    <3>1. dump[r].at = offset(r) /\ offset(r) = IF r = 1 THEN 0 ELSE end(r - 1)
      BY <1>6, <1>8, <2>1
    <3>2. r # 1 => dump[r - 1].at + Len(dump[r - 1].bytes) = end(r - 1)
      BY <1>7, <2>2
    <3> QED BY ONLY <3>1, <3>2
  <2>4. Len(dump[r].bytes) + dump[r].blanks = RowSize
    <3>1. PICK a, b : a = offset(r) /\ b = end(r)
      OBVIOUS
    <3>2. a \in Nat /\ b \in Nat /\ (b - a) + (c - (b - a)) = c
      BY <1>2, <1>6, <2>1, <3>1
    <3> QED BY <1>1, <1>6, <2>1, <3>1, <3>2
  <2> QED BY <1>6, <1>7, <2>1, <2>3, <2>4
<1>12. Len(text) = IF dump = << >> THEN 0 ELSE dump[Len(dump)].at + Len(dump[Len(dump)].bytes)
  <2>1. CASE m = 0
    BY <1>1, <1>5, <1>10, <2>1
  <2>2. CASE m # 0
    <3>1. m \in 1 .. m
      BY <1>3, <2>2
    <3> QED BY <1>1, <1>5, <1>7, <1>9, <2>2, <3>1
  <2> QED BY <2>1, <2>2
<1> QED BY <1>1, <1>11, <1>12 DEF Dumped

(* wc, grep and hexdump show a text as it is. *)
LEMMA TextIs == ASSUME NEW X, NEW text \in Seq(X) PROVE TextShown(text)
<1>1. cmd_wc(text) = <<EndsBefore(text, Len(text) + 1), Cardinality(WordStarts(text)), Len(text)>>
  BY WcIs
<1>2. ASSUME NEW pattern \in Patterns
      PROVE  cmd_grep(text, pattern) =
               {1 + EndsBefore(text, i) : i \in {i \in LineStarts(text) : Occurs(pattern, LineAt(text, i))}}
  <2>1. pattern \in Seq(STRING)
    BY RamViewsAssumption
  <2> QED BY <2>1, GrepIs
<1>3. Dumped(text)
  BY HexIs
<1> QED BY <1>1, <1>2, <1>3 DEF TextShown, Dumped

--------------------------------------------------------------------------------
(* All but the last of a longer sequence. *)
LEMMA FrontIs ==
  ASSUME NEW X, NEW p \in Seq(X), NEW x \in X
  PROVE  SubSeq(Append(p, x), 1, Len(Append(p, x)) - 1) = p
<1>1. PICK q, n : q = Append(p, x) /\ n = Len(p)
  OBVIOUS
<1>2. n \in Nat /\ q \in Seq(X) /\ Len(q) = n + 1 /\ \A i \in 1 .. n : q[i] = p[i]
  BY <1>1, AppendProperties, LenProperties
<1>3. PICK u : u = SubSeq(q, 1, n)
  OBVIOUS
<1>4. u \in Seq(X) /\ Len(u) = n /\ \A i \in 1 .. n : u[i] = q[i]
  <2>1. 1 \in Nat \ {0} /\ 1 - 1 <= n /\ n <= Len(q) /\ n - 1 + 1 = n /\ \A i \in 1 .. n : 1 + i - 1 = i
    BY <1>2
  <2>2. u \in Seq(X) /\ Len(u) = n - 1 + 1 /\ \A i \in 1 .. n - 1 + 1 : u[i] = q[1 + i - 1]
    BY <1>2, <1>3, <2>1, PartIs
  <2> QED BY <2>1, <2>2
<1>5. \A i \in 1 .. n : u[i] = p[i]
  BY <1>2, <1>4
<1>6. u = p
  BY ONLY p \in Seq(X), <1>1, <1>4, <1>5, SeqEqual
<1>7. Len(q) - 1 = n
  BY <1>2
<1> QED BY <1>1, <1>3, <1>6, <1>7

(* A list shows the elements of its set, each once. *)
LEMMA ListedElements ==
  ASSUME NEW W, W \subseteq Slots
  PROVE  Elements(Listed(W)) = W
<1>1. PICK s : s = Listed(W)
  OBVIOUS
<1>2. ListOf(W, s)
  BY <1>1, ListedIs
<1>3. DOMAIN s = 1 .. Len(s)
  BY <1>2, LenProperties DEF ListOf
<1>4. \A i \in W : \E j \in 1 .. Len(s) : s[j] = i
  BY <1>2 DEF ListOf
<1>5. \A j \in 1 .. Len(s) : s[j] \in W
  BY <1>2 DEF ListOf
<1>6. {s[j] : j \in 1 .. Len(s)} = W
  BY <1>4, <1>5
<1> QED BY <1>1, <1>3, <1>6 DEF Elements

(* Every name in use is one that was typed. *)
Known(fl) == \A i \in UsedIn(fl) : fl[i].name \in {Stored[n] : n \in Names}

(* ls and find show what the tree has: a path in it is of one slot only,   *)
(* and is all but its last name the path of the parent.                    *)
LEMMA EntriesAreShown ==
  ASSUME RInv, Known(files)
  PROVE  EntriesShown
<1>1. PICK fl, T, W, cwd : /\ fl = files /\ T = AsTree /\ cwd = current_dir
                           /\ W = {i \in Used : files[i].parent_index = current_dir}
  OBVIOUS
<1>2. /\ Used = UsedIn(fl) /\ UsedIn(fl) \subseteq Slots /\ cwd \in UsedIn(fl)
      /\ fl \in [Slots -> EntryType] /\ Hangs(fl) /\ (~Doubled => Distinct(fl))
      /\ W = {i \in UsedIn(fl) : fl[i].parent_index = cwd}
  BY <1>1 DEF RInv, Sound, fs, Doubled, Distinct, Used, UsedIn
<1>3. Elements(cmd_ls) = W /\ ListOf(W, cmd_ls)
  BY <1>1, <1>2, ListedElements, ListedIs DEF cmd_ls
<1>4. /\ PathIn(fl, 0) = << >> /\ 0 \in UsedIn(fl) /\ fl[0].parent_index = 0
      /\ \A i \in UsedIn(fl) \ {0} :
           /\ PathIn(fl, i) = Append(PathIn(fl, fl[i].parent_index), fl[i].name)
           /\ fl[i].parent_index \in UsedIn(fl) /\ fl[i].name \in AllNames
      /\ \A i \in UsedIn(fl) : PathIn(fl, i) \in Seq(AllNames) /\ (i # 0 => PathIn(fl, i) # << >>)
  <2>1. \A i \in UsedIn(fl) : fl[i].name \in AllNames /\ fl[i].parent_index \in UsedIn(fl)
    BY <1>2 DEF EntryType, AllNames, Hangs
  <2>2. fl[0].parent_index = 0 /\ 0 \in UsedIn(fl)
    BY <1>2 DEF Hangs
  <2> QED BY <1>2, <2>1, <2>2, PathStep, PathIs
<1>5. ASSUME ~Doubled
      PROVE  /\ {PathOf(i) : i \in Elements(cmd_ls)} =
                  {p \in DOMAIN AsTree : IF p = << >> THEN current_dir = 0
                                         ELSE SubSeq(p, 1, Len(p) - 1) = PathOf(current_dir)}
             /\ Cardinality({files[i].name : i \in Elements(cmd_ls)}) = Len(cmd_ls)
  <2>1. Distinct(fl)
    BY <1>2, <1>5
  <2>2. DOMAIN T = {PathIn(fl, i) : i \in UsedIn(fl)}
    <3>1. TreeIsOf(TreeOf(fl, mem), fl, mem)
      BY <1>2, <2>1, TreeIs
    <3> QED BY <1>1, <3>1 DEF AsTree, TreeIsOf
  <2> DEFINE Shows(p) == IF p = << >> THEN cwd = 0 ELSE SubSeq(p, 1, Len(p) - 1) = PathIn(fl, cwd)
  <2>3. ASSUME NEW i \in UsedIn(fl) PROVE Shows(PathIn(fl, i)) <=> i \in W
    <3>1. CASE i = 0
      BY <1>2, <1>4, <3>1
    <3>2. CASE i # 0
      <4>1. PICK q, n : q = PathIn(fl, fl[i].parent_index) /\ n = fl[i].name
        OBVIOUS
      <4>2. q \in Seq(AllNames) /\ n \in AllNames /\ PathIn(fl, i) = Append(q, n) /\ PathIn(fl, i) # << >>
        BY <1>4, <3>2, <4>1
      <4>3. SubSeq(Append(q, n), 1, Len(Append(q, n)) - 1) = q
        BY <4>2, FrontIs
      <4>4. Shows(PathIn(fl, i)) <=> q = PathIn(fl, cwd)
        BY <4>2, <4>3
      <4>5. q = PathIn(fl, cwd) <=> fl[i].parent_index = cwd
        BY <1>2, <1>4, <2>1, <3>2, <4>1, PathsDiffer
      <4> QED BY <1>2, <4>4, <4>5
    <3> QED BY <3>1, <3>2
  <2>4. {PathIn(fl, i) : i \in W} = {p \in DOMAIN T : Shows(p)}
    <3> HIDE DEF Shows
    <3>1. W \subseteq UsedIn(fl)
      BY <1>2
    <3> QED BY <2>2, <2>3, <3>1
  <2>5. {PathOf(i) : i \in Elements(cmd_ls)} =
          {p \in DOMAIN AsTree : IF p = << >> THEN current_dir = 0
                                 ELSE SubSeq(p, 1, Len(p) - 1) = PathOf(current_dir)}
    BY <1>1, <1>3, <2>4 DEF PathOf
  <2>6. Cardinality({files[i].name : i \in Elements(cmd_ls)}) = Len(cmd_ls)
    <3> DEFINE g == [i \in W |-> fl[i].name]
    <3>1. PICK s : s = cmd_ls
      OBVIOUS
    <3>2. \A i, j \in W : g[i] = g[j] => i = j
      BY <1>2, <2>1 DEF Distinct
    <3>3. {g[i] : i \in W} = {fl[i].name : i \in W}
      OBVIOUS
    <3>4. ListOf(W, s)
      BY <1>3, <3>1
    <3> HIDE DEF g
    <3>5. Cardinality({g[i] : i \in W}) = Len(s)
      BY ONLY <3>2, <3>4, ListCount
    <3> QED BY <1>1, <1>3, <3>1, <3>3, <3>5
  <2> QED BY <2>5, <2>6
<1>6. ASSUME NEW pattern \in Patterns
       PROVE  Elements(cmd_find(pattern)) = {i \in Used : Occurs(pattern, Spelling[files[i].name])}
  <2>1. PICK F : F = {i \in Used : shell_strstr(Spelling[files[i].name], pattern)}
    OBVIOUS
  <2>2. F \subseteq Slots
    BY <1>2, <2>1
  <2>3. Elements(cmd_find(pattern)) = F
    BY <2>1, <2>2, ListedElements DEF cmd_find
  <2>4. ASSUME NEW i \in Used
        PROVE  shell_strstr(Spelling[files[i].name], pattern) <=> Occurs(pattern, Spelling[files[i].name])
    <3>1. pattern \in Seq(STRING)
      BY RamViewsAssumption
    <3>2. PICK n \in Names : files[i].name = Stored[n]
      BY <1>1, <1>2 DEF Known
    <3>3. Spelling[files[i].name] \in Seq(STRING)
      BY <3>2, RamViewsAssumption
    <3> QED BY <3>1, <3>3, StrstrIs
  <2> QED BY <2>1, <2>3, <2>4
<1> QED BY <1>5, <1>6 DEF EntriesShown

(* Names in use are typed ones, in every reachable state. *)
LEMMA KnownInductive ==
  /\ Init => Known(files)
  /\ RInv /\ RInv' /\ Known(files) /\ [Next]_vars => Known(files')
<1>1. ASSUME Init PROVE Known(files)
  <2>1. \A i \in UsedIn(files) : i = 0 /\ files[i].name = "/"
    <3> DEFINE root == [Unused EXCEPT !.name = "/", !.is_directory = TRUE, !.in_use = TRUE]
    <3>1. root.name = "/" /\ ~Unused.in_use
      BY DEF Unused
    <3>2. files = [i \in Slots |-> IF i = 0 THEN root ELSE Unused]
      BY <1>1 DEF Init
    <3> HIDE DEF root
    <3> QED BY <3>1, <3>2 DEF UsedIn
  <2>2. "/" \in {Stored[n] : n \in Names}
    BY RamFsAssumption
  <2> QED BY <2>1, <2>2 DEF Known
<1>2. ASSUME RInv, RInv', Known(files), [Next]_vars PROVE Known(files')
  <2>1. CASE files' = files
    BY <1>2, <2>1
  <2>2. ASSUME NEW n \in Names, Gains(files, files', n, current_dir) PROVE Known(files')
    <3>1. Stored[n] \in {Stored[m] : m \in Names}
      OBVIOUS
    <3>2. \A j \in UsedIn(files) : files'[j].name \in {Stored[m] : m \in Names}
      BY <1>2, <2>2 DEF Gains, Keeps, Known
    <3> QED BY <2>2, <3>1, <3>2 DEF Gains, Known
  <2>3. ASSUME NEW i, files' = [files EXCEPT ![i] = Unused] PROVE Known(files')
    <3>1. files \in [Slots -> EntryType]
      BY <1>2 DEF RInv, Sound, fs
    <3>2. \A j \in UsedIn(files') : j \in UsedIn(files) /\ files'[j] = files[j]
      BY <2>3, <3>1 DEF UsedIn, Unused
    <3> QED BY <1>2, <3>2 DEF Known
  <2> QED BY <1>2, <2>1, <2>2, <2>3, NamesStep
<1> QED BY <1>1, <1>2

--------------------------------------------------------------------------------
(* A name in front of what is below it. *)
Part(n) == <<"/">> \o Spelling[n]

TypedNames == {Stored[n] : n \in Names}

(* It is a text, one character longer than the name. *)
LEMMA PartIsText ==
  ASSUME NEW n \in TypedNames
  PROVE  /\ Spelling[n] \in Seq(STRING) /\ Part(n) \in Seq(STRING)
         /\ Len(Spelling[n]) \in Nat /\ Len(Part(n)) = Len(Spelling[n]) + 1
<1>1. PICK t, u : t = Spelling[n] /\ u = <<"/">>
  OBVIOUS
<1>2. t \in Seq(STRING)
  BY <1>1, RamViewsAssumption DEF TypedNames
<1>3. u \in Seq(STRING) /\ Len(u) = 1
  <2>1. "/" \in STRING
    BY RamFsAssumption
  <2>2. PICK c, S : c = "/" /\ S = STRING
    OBVIOUS
  <2>3. <<c>> \in Seq(S) /\ Len(<<c>>) = 1
    BY <2>1, <2>2
  <2> QED BY <1>1, <2>2, <2>3
<1>4. u \o t \in Seq(STRING) /\ Len(u \o t) = Len(u) + Len(t)
  BY <1>2, <1>3, ConcatProperties
<1>5. Len(t) \in Nat
  BY <1>2, LenProperties
<1>6. Len(u) + Len(t) = Len(t) + 1
  BY <1>3, <1>5
<1> QED BY <1>1, <1>2, <1>4, <1>5, <1>6 DEF Part

(* A path spelled name by name. *)
Spells(path, h) ==
  /\ h[0] = << >>
  /\ \A d \in 1 .. Len(path) : h[d] = h[d - 1] \o Part(path[d])
  /\ \A d \in 0 .. Len(path) : h[d] \in Seq(STRING)

(* Spelled is the last of such spellings. *)
LEMMA SpellRuns ==
  ASSUME NEW path \in Seq(TypedNames)
  PROVE  \E h : Spells(path, h) /\ Spelled(path) = h[Len(path)]
<1> DEFINE S == Seq(STRING)
           n == Len(path)
           e == [k \in 1 .. n |-> [x \in S |-> x \o Part(path[k])]]
           Def(h) == [d \in 0 .. n |-> IF d = 0 THEN << >> ELSE h[d - 1] \o Part(path[d])]
           h == CHOOSE h : h = Def(h)
<1>1. n \in Nat /\ << >> \in S
  BY LenProperties, EmptySeq
<1>2. \A k \in 1 .. n : \A x \in S : e[k][x] = x \o Part(path[k]) /\ e[k][x] \in S
  <2> SUFFICES ASSUME NEW k \in 1 .. n, NEW x \in S PROVE x \o Part(path[k]) \in S
    OBVIOUS
  <2>1. path[k] \in TypedNames
    BY ElementOfSeq
  <2>2. PICK u : u = Part(path[k]) /\ u \in Seq(STRING)
    BY <2>1, PartIsText
  <2>3. x \o u \in Seq(STRING)
    BY <2>2, ConcatProperties
  <2> QED BY <2>2, <2>3
<1>3. PICK f : RunOf(n, S, << >>, e, f)
  <2>1. Stays(n, S, e)
    <3> HIDE DEF n, S, e
    <3> QED BY <1>2 DEF Stays
  <2> HIDE DEF n, S, e
  <2> QED BY ONLY <1>1, <2>1, RunIs
<1>4. f = Def(f)
  <2>1. ASSUME NEW d \in 0 .. n
        PROVE  f[d] = IF d = 0 THEN << >> ELSE f[d - 1] \o Part(path[d])
    <3>1. d = 0 \/ (d # 0 /\ d \in 1 .. n)
      BY <1>1
    <3> HIDE DEF n, S, e
    <3> QED BY <1>2, <1>3, <3>1 DEF RunOf
  <2> HIDE DEF n, S, e
  <2>2. f = [d \in 0 .. n |-> f[d]]
    BY <1>3 DEF RunOf
  <2> QED BY ONLY <2>1, <2>2
<1>5. Spelled(path) = h[n]
  BY DEF Spelled, Part
<1>6. h = Def(h)
  <2> HIDE DEF Def
  <2> QED BY <1>4
<1> HIDE DEF h, e
<1>7. h[0] = << >> /\ \A d \in 1 .. n : h[d] = h[d - 1] \o Part(path[d])
  <2>1. 0 \in 0 .. n /\ \A d \in 1 .. n : d \in 0 .. n /\ d # 0
    BY <1>1
  <2>2. h = [d \in 0 .. n |-> IF d = 0 THEN << >> ELSE h[d - 1] \o Part(path[d])]
    BY <1>6
  <2> HIDE DEF n
  <2> QED BY ONLY <2>1, <2>2
<1>8. \A d \in 0 .. n : h[d] \in S
  <2> DEFINE M == {d \in Nat : d <= n => h[d] \in S}
  <2>1. 0 \in M
    BY <1>1, <1>7
  <2>2. ASSUME NEW d \in Nat, d \in M PROVE d + 1 \in M
    <3> SUFFICES ASSUME d + 1 <= n PROVE h[d + 1] \in S
      OBVIOUS
    <3>1. d + 1 \in 1 .. n /\ (d + 1) - 1 = d /\ h[d] \in S
      BY <1>1, <2>2
    <3>2. path[d + 1] \in TypedNames
      BY <3>1, ElementOfSeq
    <3>3. PICK u, x : u = Part(path[d + 1]) /\ u \in Seq(STRING) /\ x = h[d] /\ x \in Seq(STRING)
      BY <3>1, <3>2, PartIsText
    <3>4. x \o u \in Seq(STRING)
      BY <3>3, ConcatProperties
    <3> QED BY <1>7, <3>1, <3>3, <3>4
  <2> HIDE DEF M, n, S
  <2>3. \A d \in Nat : d \in M
    BY ONLY <2>1, <2>2, Upwards
  <2>4. \A d \in 0 .. n : d \in Nat /\ d <= n
    BY <1>1
  <2> QED BY <2>3, <2>4 DEF M
<1> QED BY <1>5, <1>7, <1>8 DEF Spells

(* A path is spelled as its parent's, and the last name. *)
LEMMA SpelledIs ==
  /\ Spelled(<< >>) = << >>
  /\ \A path \in Seq(TypedNames) : Spelled(path) \in Seq(STRING)
  /\ \A path \in Seq(TypedNames) : \A n \in TypedNames :
       Spelled(Append(path, n)) = Spelled(path) \o Part(n)
<1>1. Spelled(<< >>) = << >>
  <2>1. << >> \in Seq(TypedNames) /\ Len(<< >>) = 0
    BY EmptySeq
  <2>2. PICK h : Spells(<< >>, h) /\ Spelled(<< >>) = h[Len(<< >>)]
    BY <2>1, SpellRuns
  <2> QED BY <2>1, <2>2 DEF Spells
<1>2. ASSUME NEW path \in Seq(TypedNames) PROVE Spelled(path) \in Seq(STRING)
  <2>1. PICK h : Spells(path, h) /\ Spelled(path) = h[Len(path)]
    BY SpellRuns
  <2>2. Len(path) \in 0 .. Len(path)
    BY LenProperties
  <2> QED BY <2>1, <2>2 DEF Spells
<1>3. ASSUME NEW path \in Seq(TypedNames), NEW n \in TypedNames
      PROVE  Spelled(Append(path, n)) = Spelled(path) \o Part(n)
  <2>1. PICK q, m : q = Append(path, n) /\ m = Len(path)
    OBVIOUS
  <2>2. /\ m \in Nat /\ q \in Seq(TypedNames) /\ Len(q) = m + 1 /\ q[m + 1] = n
        /\ \A i \in 1 .. m : q[i] = path[i]
    BY <2>1, LenProperties, AppendProperties
  <2>3. PICK f : Spells(path, f) /\ Spelled(path) = f[Len(path)]
    BY SpellRuns
  <2>4. PICK g : Spells(q, g) /\ Spelled(q) = g[Len(q)]
    BY <2>2, SpellRuns
  <2> DEFINE M == {d \in Nat : d <= m => f[d] = g[d]}
  <2>5. 0 \in M
    BY <2>3, <2>4 DEF Spells
  <2>6. ASSUME NEW d \in Nat, d \in M PROVE d + 1 \in M
    <3> SUFFICES ASSUME d + 1 <= m PROVE f[d + 1] = g[d + 1]
      OBVIOUS
    <3>1. d + 1 \in 1 .. m /\ d + 1 \in 1 .. m + 1 /\ (d + 1) - 1 = d /\ f[d] = g[d]
      BY <2>2, <2>6
    <3>2. f[d + 1] = f[d] \o Part(path[d + 1]) /\ g[d + 1] = g[d] \o Part(q[d + 1])
      BY <2>1, <2>2, <2>3, <2>4, <3>1 DEF Spells
    <3> QED BY <2>2, <3>1, <3>2
  <2> HIDE DEF M
  <2>7. m \in M
    BY ONLY <2>2, <2>5, <2>6, Upwards
  <2>8. f[m] = g[m]
    BY <2>2, <2>7 DEF M
  <2>9. m + 1 \in 1 .. m + 1 /\ (m + 1) - 1 = m
    BY <2>2
  <2>10. g[m + 1] = g[m] \o Part(n)
    BY <2>2, <2>4, <2>9 DEF Spells
  <2> QED BY <2>1, <2>2, <2>3, <2>4, <2>8, <2>10
<1> QED BY <1>1, <1>2, <1>3

(* A path has at most as many names as there are slots. *)
LEMMA PathShort ==
  ASSUME NEW fl \in [Slots -> EntryType], NEW i \in Slots
  PROVE  Len(PathIn(fl, i)) <= MaxFiles
<1>1. PICK f : /\ \A j : PathIn(fl, j) = f[MaxFiles][j]
               /\ \A d \in 0 .. MaxFiles : f[d] = Named(fl, f, d)
  BY PathInIs
<1> DEFINE Short(d) == \A j \in Slots : f[d][j] \in Seq(AllNames) /\ Len(f[d][j]) <= d
           M == {d \in Nat : d <= MaxFiles => Short(d)}
<1>2. MaxFiles \in Nat
  BY RamFsAssumption
<1>3. \A j \in Slots : fl[j].parent_index \in Slots /\ fl[j].name \in AllNames
  BY DEF EntryType, AllNames
<1>4. << >> \in Seq(AllNames) /\ Len(<< >>) = 0
  BY EmptySeq
<1>5. 0 \in M
  <2>1. 0 \in 0 .. MaxFiles
    BY <1>2
  <2>2. f[0] = Named(fl, f, 0)
    BY <1>1, <2>1
  <2>3. \A j \in Slots : Named(fl, f, 0)[j] = << >>
    BY DEF Named
  <2>4. \A j \in Slots : f[0][j] = << >>
    BY <2>2, <2>3
  <2>5. Len(<< >>) <= 0
    BY <1>4
  <2>6. Short(0)
    BY <1>4, <2>4, <2>5
  <2> HIDE DEF Short
  <2> QED BY <2>6
<1>6. ASSUME NEW d \in Nat, d \in M PROVE d + 1 \in M
  <2> SUFFICES ASSUME d + 1 <= MaxFiles, NEW j \in Slots
               PROVE  f[d + 1][j] \in Seq(AllNames) /\ Len(f[d + 1][j]) <= d + 1
    OBVIOUS
  <2>1. Short(d) /\ d + 1 \in 0 .. MaxFiles /\ d + 1 # 0 /\ (d + 1) - 1 = d
    BY <1>2, <1>6
  <2>2. f[d + 1][j] = IF j = 0 THEN << >> ELSE Append(f[d][fl[j].parent_index], fl[j].name)
    <3>1. f[d + 1] = Named(fl, f, d + 1)
      BY <1>1, <2>1
    <3>2. Named(fl, f, d + 1)[j] = IF j = 0 THEN << >> ELSE Append(f[d][fl[j].parent_index], fl[j].name)
      BY <2>1 DEF Named
    <3> QED BY <3>1, <3>2
  <2>3. PICK q, n : q = f[d][fl[j].parent_index] /\ n = fl[j].name
    OBVIOUS
  <2>4. q \in Seq(AllNames) /\ Len(q) <= d /\ n \in AllNames
    BY <1>3, <2>1, <2>3
  <2>5. Append(q, n) \in Seq(AllNames) /\ Len(Append(q, n)) = Len(q) + 1
    BY <2>4, AppendProperties
  <2>6. Len(q) \in Nat
    BY <2>4, LenProperties
  <2>7. Len(q) + 1 <= d + 1 /\ 0 <= d + 1
    BY <2>4, <2>6
  <2> QED BY <1>4, <2>2, <2>3, <2>5, <2>7
<1> HIDE DEF M, Short
<1>7. MaxFiles \in M
  BY ONLY <1>2, <1>5, <1>6, Upwards
<1>8. Short(MaxFiles)
  BY <1>2, <1>7 DEF M
<1> QED BY <1>1, <1>8 DEF Short

(* The steps of pwd up the tree. *)
Places == [dir : UsedIn(files), pos : Int, text : Seq(STRING)]
Bottom == [dir |-> current_dir, pos |-> PathRoom, text |-> << >>]

(* A step of Climb: nothing at the root or without room, else the name of  *)
(* the directory in front, and its parent if there was room.               *)
LEMMA ClimbIs ==
  ASSUME Hangs(files), Known(files), NEW p \in Places
  PROVE  /\ Climb(p) \in Places
         /\ p.dir = 0 \/ p.pos < 0 => Climb(p) = p
         /\ p.dir # 0 /\ p.pos >= 0 =>
              /\ files[p.dir].name \in TypedNames /\ Part(files[p.dir].name) \in Seq(STRING)
              /\ Climb(p).text = Part(files[p.dir].name) \o p.text
              /\ Climb(p).pos = p.pos - Len(Part(files[p.dir].name))
              /\ Climb(p).pos >= 0 => Climb(p).dir = files[p.dir].parent_index
<1>1. PICK d, x, t : d = p.dir /\ x = p.pos /\ t = p.text
  OBVIOUS
<1>2. d \in UsedIn(files) /\ x \in Int /\ t \in Seq(STRING)
  BY <1>1 DEF Places
<1>3. CASE d = 0 \/ x < 0
  <2>1. Climb(p) = p
    BY <1>1, <1>3 DEF Climb
  <2>2. ~(x >= 0) \/ ~(d # 0)
    BY <1>2, <1>3
  <2> QED BY <1>1, <2>1, <2>2
<1>4. CASE d # 0 /\ x >= 0
  <2>0. ~(d = 0 \/ x < 0)
    BY <1>2, <1>4
  <2>1. PICK n, u, c : n = files[d].name /\ u = Part(n) /\ c = files[d].parent_index
    OBVIOUS
  <2>2. n \in TypedNames /\ c \in UsedIn(files)
    BY <1>2, <2>1 DEF Known, Hangs, TypedNames
  <2>3. u \in Seq(STRING) /\ Len(Spelling[n]) \in Nat /\ Len(u) = Len(Spelling[n]) + 1
    BY <2>1, <2>2, PartIsText
  <2>4. PICK y : y = x - Len(Spelling[n]) - 1
    OBVIOUS
  <2>5. y = x - Len(u) /\ y \in Int
    BY <1>2, <2>3, <2>4
  <2>6. Climb(p) = [dir |-> IF y < 0 THEN d ELSE c, pos |-> y, text |-> u \o t]
    BY <1>1, <2>0, <2>1, <2>4 DEF Climb, Part
  <2>7. u \o t \in Seq(STRING)
    BY <1>2, <2>3, ConcatProperties
  <2>8. PICK e : e = IF y < 0 THEN d ELSE c
    OBVIOUS
  <2>9. Climb(p) = [dir |-> e, pos |-> y, text |-> u \o t] /\ e \in UsedIn(files)
    BY <1>2, <2>2, <2>6, <2>8
  <2>10. Climb(p) \in Places
    BY <2>5, <2>7, <2>9 DEF Places
  <2>11. y >= 0 => e = c
    BY <2>5, <2>8
  <2>12. Climb(p).text = u \o t /\ Climb(p).pos = y /\ Climb(p).dir = e
    BY <2>9
  <2>13. ~(p.dir = 0 \/ p.pos < 0)
    BY <1>1, <2>0
  <2> QED BY <1>1, <2>1, <2>2, <2>3, <2>5, <2>10, <2>11, <2>12, <2>13
<1>5. (d = 0 \/ x < 0) \/ (d # 0 /\ x >= 0)
  BY <1>2
<1> QED BY <1>3, <1>4, <1>5

Climbing(h) ==
  /\ h[0] = Bottom
  /\ \A k \in 1 .. MaxFiles : h[k] = Climb(h[k - 1])

(* cmd_pwd is what such a climb ends with, if there was room. *)
LEMMA ClimbRuns ==
  ASSUME RInv, Known(files)
  PROVE  \E h : /\ Climbing(h)
                /\ cmd_pwd = IF current_dir = 0 THEN Copied(<<"/">>, PathBuffer)
                             ELSE IF h[MaxFiles].pos < 0 THEN NULL
                             ELSE Copied(h[MaxFiles].text, PathBuffer)
<1> DEFINE S == Places
           n == MaxFiles
           e == [k \in 1 .. n |-> [x \in S |-> Climb(x)]]
           Def(h) == [k \in 0 .. n |-> IF k = 0 THEN [dir |-> current_dir, pos |-> PathRoom, text |-> << >>]
                                       ELSE Climb(h[k - 1])]
           h == CHOOSE h : h = Def(h)
<1>0. PathRoom \in Nat /\ PathBuffer <= PathRoom
  BY RamViewsAssumption
<1>1. n \in Nat /\ Bottom \in S
  <2>1. << >> \in Seq(STRING)
    BY EmptySeq
  <2> QED BY <1>0, <2>1, RamFsAssumption DEF Bottom, Places, RInv
<1>2. \A k \in 1 .. n : \A x \in S : e[k][x] = Climb(x) /\ e[k][x] \in S
  BY ClimbIs DEF RInv, Sound, fs
<1>3. PICK f : RunOf(n, S, Bottom, e, f)
  <2>1. Stays(n, S, e)
    <3> HIDE DEF n, S, e
    <3> QED BY <1>2 DEF Stays
  <2> HIDE DEF n, S, e
  <2> QED BY ONLY <1>1, <2>1, RunIs
<1>4. f = Def(f)
  <2>1. ASSUME NEW k \in 0 .. n
        PROVE  f[k] = IF k = 0 THEN Bottom ELSE Climb(f[k - 1])
    <3>1. k = 0 \/ (k # 0 /\ k \in 1 .. n)
      BY <1>1
    <3> HIDE DEF n, S, e
    <3> QED BY <1>2, <1>3, <3>1 DEF RunOf
  <2> HIDE DEF n, S, e
  <2>2. f = [k \in 0 .. n |-> f[k]]
    BY <1>3 DEF RunOf
  <2> QED BY ONLY <2>1, <2>2 DEF Bottom
<1>5. cmd_pwd = IF current_dir = 0 THEN Copied(<<"/">>, PathBuffer)
                ELSE IF h[n].pos < 0 THEN NULL ELSE Copied(h[n].text, PathBuffer)
  BY DEF cmd_pwd
<1>6. h = Def(h)
  <2> HIDE DEF Def
  <2> QED BY <1>4
<1>7. Climbing(h)
  <2> HIDE DEF h
  <2>1. 0 \in 0 .. n /\ \A k \in 1 .. n : k \in 0 .. n /\ k # 0
    BY <1>1
  <2>2. h = [k \in 0 .. n |-> IF k = 0 THEN Bottom ELSE Climb(h[k - 1])]
    BY <1>6 DEF Bottom
  <2>3. h[0] = Bottom /\ \A k \in 1 .. n : h[k] = Climb(h[k - 1])
    <3> HIDE DEF n
    <3> QED BY ONLY <2>1, <2>2
  <2> QED BY <2>3 DEF Climbing
<1> HIDE DEF h
<1> QED BY <1>5, <1>7

(* The paths of slots in use are of names that were typed. *)
LEMMA PathsTyped ==
  ASSUME NEW fl \in [Slots -> EntryType], Hangs(fl), Known(fl)
  PROVE  \A i \in UsedIn(fl) : PathIn(fl, i) \in Seq(TypedNames)
<1> DEFINE S == {i \in UsedIn(fl) : PathIn(fl, i) \in Seq(TypedNames)}
<1>1. /\ PathIn(fl, 0) = << >> /\ 0 \in UsedIn(fl) /\ << >> \in Seq(TypedNames)
      /\ \A i \in UsedIn(fl) \ {0} :
              PathIn(fl, i) = Append(PathIn(fl, fl[i].parent_index), fl[i].name)
  BY PathStep, EmptySeq DEF Hangs
<1>2. \A i \in UsedIn(fl) : fl[i].name \in TypedNames
  BY DEF Known, TypedNames
<1>3. ASSUME NEW i \in UsedIn(fl) \ {0}, fl[i].parent_index \in S PROVE i \in S
  <2>1. PICK q \in Seq(TypedNames), n \in TypedNames : q = PathIn(fl, fl[i].parent_index) /\ n = fl[i].name
    BY <1>2, <1>3
  <2>2. Append(q, n) \in Seq(TypedNames)
    BY AppendProperties
  <2> QED BY <1>1, <2>1, <2>2
<1>4. 0 \in S
  BY <1>1
<1> HIDE DEF S
<1>5. \A i \in UsedIn(fl) : i \in S
  BY <1>3, <1>4, Downwards
<1> QED BY <1>5 DEF S

(* pwd climbs to the root if the path has room: the names it has passed    *)
(* are the end of the path, and it passes one in each step.                *)
LEMMA PathIsShown ==
  ASSUME RInv, Known(files)
  PROVE  PathShown
<1>1. CASE current_dir = 0
  BY <1>1 DEF PathShown, cmd_pwd, Copied
<1>2. CASE current_dir # 0
  <2>1. PICK h : /\ Climbing(h)
                 /\ cmd_pwd = IF current_dir = 0 THEN Copied(<<"/">>, PathBuffer)
                              ELSE IF h[MaxFiles].pos < 0 THEN NULL
                              ELSE Copied(h[MaxFiles].text, PathBuffer)
    BY ClimbRuns
  <2>2. PICK fl, c, w : fl = files /\ c = current_dir /\ w = Spelled(PathIn(fl, c))
    OBVIOUS
  <2>3. fl \in [Slots -> EntryType] /\ Hangs(fl) /\ Known(fl) /\ c \in UsedIn(fl) /\ UsedIn(fl) \subseteq Slots
    BY <2>2 DEF RInv, Sound, fs, UsedIn
  <2> SUFFICES ASSUME Len(w) < PathBuffer PROVE cmd_pwd = w
    BY <1>2, <2>2 DEF PathShown, PathOf
  <2>4. /\ PathIn(fl, 0) = << >> /\ 0 \in UsedIn(fl)
        /\ \A i \in UsedIn(fl) \ {0} :
                PathIn(fl, i) = Append(PathIn(fl, fl[i].parent_index), fl[i].name)
        /\ \A i \in UsedIn(fl) : PathIn(fl, i) \in Seq(TypedNames) /\ fl[i].parent_index \in UsedIn(fl)
                                 /\ fl[i].name \in TypedNames /\ Len(PathIn(fl, i)) <= MaxFiles
    <3>1. \A i \in UsedIn(fl) : fl[i].parent_index \in UsedIn(fl) /\ 0 \in UsedIn(fl)
      BY <2>3 DEF Hangs
    <3>2. \A i \in UsedIn(fl) : fl[i].name \in TypedNames
      BY <2>3 DEF Known, TypedNames
    <3> QED BY <2>3, <3>1, <3>2, PathStep, PathsTyped, PathShort
  <2>5. PathRoom \in Nat /\ PathBuffer \in Nat /\ PathBuffer <= PathRoom /\ MaxFiles \in Nat \ {0}
    BY RamViewsAssumption, RamFsAssumption
  <2>6. w \in Seq(STRING) /\ Len(w) \in Nat
    <3>1. w \in Seq(STRING)
      BY <2>2, <2>3, <2>4, SpelledIs
    <3> QED BY <3>1, LenProperties
  <2> DEFINE Good(k) ==
               /\ h[k] \in Places
               /\ h[k].pos = PathRoom - Len(h[k].text)
               /\ w = Spelled(PathIn(fl, h[k].dir)) \o h[k].text
               /\ h[k].dir = 0 \/ Len(PathIn(fl, h[k].dir)) + k = Len(PathIn(fl, c))
             M == {k \in Nat : k <= MaxFiles => Good(k)}
  <2>7. 0 \in M
    <3>1. h[0] = Bottom /\ h[0].dir = c /\ h[0].pos = PathRoom /\ h[0].text = << >>
      BY <2>1, <2>2 DEF Climbing, Bottom
    <3>2. << >> \in Seq(STRING) /\ Len(<< >>) = 0
      BY EmptySeq
    <3>3. h[0] \in Places
      BY <2>2, <2>3, <2>5, <3>1, <3>2 DEF Bottom, Places
    <3>4. w \o << >> = w
      BY <2>6, ConcatEmptySeq
    <3>5. Len(PathIn(fl, c)) \in Nat
      BY <2>3, <2>4, LenProperties
    <3>6. PathRoom = PathRoom - Len(<< >>) /\ Len(PathIn(fl, c)) + 0 = Len(PathIn(fl, c))
      BY <2>5, <3>2, <3>5
    <3> QED BY <2>2, <3>1, <3>3, <3>4, <3>6
  <2> HIDE DEF Good
  <2>8. ASSUME NEW k \in Nat, k \in M PROVE k + 1 \in M
    <3> SUFFICES ASSUME k + 1 <= MaxFiles PROVE Good(k + 1)
      OBVIOUS
    <3>1. Good(k) /\ k + 1 \in 1 .. MaxFiles /\ (k + 1) - 1 = k
      BY <2>5, <2>8
    <3>2. PICK p, q, d, t : p = h[k] /\ q = h[k + 1] /\ d = p.dir /\ t = p.text
      OBVIOUS
    <3>3. /\ p \in Places /\ p.pos = PathRoom - Len(t)
          /\ w = Spelled(PathIn(fl, d)) \o t
          /\ d = 0 \/ Len(PathIn(fl, d)) + k = Len(PathIn(fl, c))
          /\ d \in UsedIn(fl) /\ t \in Seq(STRING) /\ Len(t) \in Nat
      <4>1. p \in Places /\ p.pos = PathRoom - Len(t) /\ w = Spelled(PathIn(fl, d)) \o t
            /\ (d = 0 \/ Len(PathIn(fl, d)) + k = Len(PathIn(fl, c)))
        BY <3>1, <3>2 DEF Good
      <4>2. d \in UsedIn(fl) /\ t \in Seq(STRING)
        BY <2>2, <3>2, <4>1 DEF Places
      <4>3. Len(t) \in Nat
        BY <4>2, LenProperties
      <4> QED BY <4>1, <4>2, <4>3
    <3>4. q = Climb(p)
      BY <2>1, <3>1, <3>2 DEF Climbing
    <3>5. CASE d = 0
      <4>1. q = p
        BY <2>2, <2>3, <3>2, <3>3, <3>4, <3>5, ClimbIs
      <4> QED BY <3>2, <3>3, <3>5, <4>1 DEF Good
    <3>6. CASE d # 0
      <4>1. PICK b, n, s, u : /\ b = fl[d].parent_index /\ n = fl[d].name
                              /\ s = Spelled(PathIn(fl, b)) /\ u = Part(n)
        OBVIOUS
      <4>2. /\ b \in UsedIn(fl) /\ n \in TypedNames /\ PathIn(fl, b) \in Seq(TypedNames)
            /\ PathIn(fl, d) = Append(PathIn(fl, b), n)
        BY <2>4, <3>3, <3>6, <4>1
      <4>3. s \in Seq(STRING) /\ u \in Seq(STRING) /\ Len(s) \in Nat /\ Len(u) \in Nat
        <5>1. s \in Seq(STRING) /\ u \in Seq(STRING)
          BY <4>1, <4>2, SpelledIs, PartIsText
        <5> QED BY <5>1, LenProperties
      <4>4. Spelled(PathIn(fl, d)) = s \o u
        BY <4>1, <4>2, SpelledIs
      <4>5. w = s \o (u \o t)
        <5>1. (s \o u) \o t = s \o (u \o t)
          BY <3>3, <4>3, ConcatAssociative
        <5> QED BY <3>3, <4>4, <5>1
      <4>6. u \o t \in Seq(STRING) /\ Len(u \o t) = Len(u) + Len(t)
        BY <3>3, <4>3, ConcatProperties
      <4>7. Len(w) = Len(s) + Len(u \o t)
        BY <4>3, <4>5, <4>6, ConcatProperties
      <4>8. Len(u) + Len(t) <= PathRoom
        BY <2>5, <2>6, <3>3, <4>3, <4>6, <4>7
      <4>9. p.pos >= 0 /\ p.pos - Len(u) = PathRoom - Len(u \o t) /\ p.pos - Len(u) >= 0
        BY <2>5, <3>3, <4>3, <4>6, <4>8
      <4>10. /\ q \in Places /\ q.text = u \o t /\ q.pos = p.pos - Len(u)
             /\ q.pos >= 0 => q.dir = b
        <5>1. /\ Climb(p) \in Places
              /\ p.dir = 0 \/ p.pos < 0 => Climb(p) = p
              /\ p.dir # 0 /\ p.pos >= 0 =>
                   /\ files[p.dir].name \in TypedNames /\ Part(files[p.dir].name) \in Seq(STRING)
                   /\ Climb(p).text = Part(files[p.dir].name) \o p.text
                   /\ Climb(p).pos = p.pos - Len(Part(files[p.dir].name))
                   /\ Climb(p).pos >= 0 => Climb(p).dir = files[p.dir].parent_index
          <6>1. Hangs(files) /\ Known(files) /\ p \in Places
            BY <2>2, <2>3, <3>3
          <6> QED BY ONLY <6>1, ClimbIs
        <5> QED BY <2>2, <3>2, <3>4, <3>6, <4>1, <4>9, <5>1
      <4>11. q.dir = b
        BY <4>9, <4>10
      <4>12. b = 0 \/ Len(PathIn(fl, b)) + (k + 1) = Len(PathIn(fl, c))
        <5>1. Len(PathIn(fl, d)) = Len(PathIn(fl, b)) + 1 /\ Len(PathIn(fl, b)) \in Nat
          BY <4>2, AppendProperties, LenProperties
        <5>2. Len(PathIn(fl, c)) \in Nat
          BY <2>3, <2>4, LenProperties
        <5> QED BY <3>3, <3>6, <5>1, <5>2
      <4> QED BY <3>2, <4>1, <4>5, <4>9, <4>10, <4>11, <4>12 DEF Good
    <3> QED BY <3>5, <3>6
  <2> HIDE DEF M
  <2>9. MaxFiles \in M
    BY ONLY <2>5, <2>7, <2>8, Upwards
  <2>10. PICK p : /\ p = h[MaxFiles] /\ p \in Places
                  /\ p.pos = PathRoom - Len(p.text)
                  /\ w = Spelled(PathIn(fl, p.dir)) \o p.text
                  /\ p.dir = 0 \/ Len(PathIn(fl, p.dir)) + MaxFiles = Len(PathIn(fl, c))
    <3>1. Good(MaxFiles)
      BY <2>5, <2>9 DEF M
    <3> QED BY <3>1 DEF Good
  <2>11. p.dir = 0
    <3> SUFFICES ASSUME p.dir # 0 PROVE FALSE
      OBVIOUS
    <3>1. p.dir \in UsedIn(fl)
      BY <2>2, <2>10 DEF Places
    <3>2. PICK b, n : b = fl[p.dir].parent_index /\ n = fl[p.dir].name
      OBVIOUS
    <3>3. PathIn(fl, p.dir) = Append(PathIn(fl, b), n) /\ PathIn(fl, b) \in Seq(TypedNames) /\ n \in TypedNames
      BY <2>4, <3>1, <3>2
    <3>4. Len(PathIn(fl, p.dir)) = Len(PathIn(fl, b)) + 1 /\ Len(PathIn(fl, b)) \in Nat
      BY <3>3, AppendProperties, LenProperties
    <3>5. Len(PathIn(fl, c)) \in Nat /\ Len(PathIn(fl, c)) <= MaxFiles
      BY <2>3, <2>4, LenProperties
    <3> QED BY <2>5, <2>10, <3>4, <3>5
  <2>12. w = p.text
    <3>1. p.text \in Seq(STRING)
      BY <2>10 DEF Places
    <3>2. << >> \o p.text = p.text
      BY <3>1, ConcatEmptySeq
    <3> QED BY <2>4, <2>10, <2>11, <3>2, SpelledIs
  <2>13. ~(p.pos < 0)
    BY <2>5, <2>6, <2>10, <2>12
  <2> QED BY <1>2, <2>1, <2>10, <2>12, <2>13 DEF Copied
<1> QED BY <1>1, <1>2

(* What pwd, ls, find, grep, wc and hexdump show is what is stored, in     *)
(* every state a session reaches: the current directory's path, its        *)
(* entries, each once, while it has no two of one name, those of the names *)
(* searched, and the lines, words and bytes of every file.                 *)
THEOREM WhatIsShownIsStored == Spec => []ShownAsStored
<1>1. ASSUME RInv, Known(files) PROVE ShownAsStored
  <2>1. PathShown
    BY <1>1, PathIsShown
  <2>2. EntriesShown
    BY <1>1, EntriesAreShown
  <2>3. ASSUME NEW i \in Used, ~files[i].is_directory PROVE TextShown(Contents(i))
    <3>1. PICK text, n : text = mem[files[i].data] /\ n = files[i].size
      OBVIOUS
    <3>2. i \in Slots /\ files[i] \in EntryType /\ HasBuffer(files[i], mem) /\ mem \in [Buffers -> Seq(Bytes)]
      BY <1>1, <2>3 DEF RInv, Sound, fs, Owned, Used, IsFile
    <3>3. text \in Seq(Bytes) /\ n \in Nat /\ n <= Len(text)
      BY <3>1, <3>2 DEF HasBuffer, EntryType
    <3>4. 1 \in Nat \ {0} /\ 1 - 1 <= n
      BY <3>3
    <3>5. SubSeq(text, 1, n) \in Seq(Bytes)
      BY <3>3, <3>4, PartIs
    <3> QED BY <3>1, <3>5, TextIs DEF Contents
  <2> QED BY <2>1, <2>2, <2>3 DEF ShownAsStored
<1>2. /\ Init => Known(files)
      /\ RInv /\ RInv' /\ Known(files) /\ [Next]_vars => Known(files')
  BY KnownInductive
<1>3. RInv /\ RInv' /\ Known(files) /\ [Next]_vars => Known(files)'
  BY <1>2
<1>4. RInv /\ Known(files) => ShownAsStored
  BY <1>1
<1> QED BY <1>2, <1>3, <1>4, RamFsInvariant, PTL DEF Spec

================================================================================
