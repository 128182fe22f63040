------------------------------ MODULE SystemProofs -----------------------------
(***************************************************************************)
(* Proofs about the machine from power on: the boot, for every disk layout *)
(* and kernel file the assumptions of module Boot allow, and the shell,    *)
(* for every size of its buffers and of the screen: its line editor, the   *)
(* kernel messages, the parser, and what is in the row of the prompt.      *)
(***************************************************************************)
EXTENDS System, SequencesExt, FiniteSetTheorems, SequenceTheorems, WellFoundedInduction, TLAPS

N == Len(Extents)

(* A set of numbers has a lowest. *)
LEMMA LowestExists ==
  ASSUME NEW S, S \subseteq Nat, S # {}
  PROVE  \E x \in S : \A y \in S : x <= y
<1> DEFINE R == {ss \in Nat \X Nat : ss[1] < ss[2]}
<1>1. IsWellFoundedOn(R, Nat)
  BY NatLessThanWellFounded DEF OpToRel
<1>2. \A x, y \in Nat : y < x => <<y, x>> \in R
  OBVIOUS
<1> HIDE DEF R
<1>3. PICK x \in S : \A y \in S : <<y, x>> \notin R
  BY <1>1, WFMin
<1>4. ASSUME NEW y \in S PROVE x <= y
  <2>1. x \in Nat /\ y \in Nat
    OBVIOUS
  <2>2. ~(y < x)
    BY <1>2, <1>3, <2>1
  <2> QED BY <2>1, <2>2
<1> QED BY <1>4

(* The sums of the first counts of c. *)
Sums(c, n) == {f \in [0 .. n -> Nat] : f[0] = 0 /\ \A k \in 1 .. n : f[k] = f[k - 1] + c[k]}

(* They exist for every number of counts: the recursion of Before has a    *)
(* solution.                                                               *)
LEMMA SumsExist ==
  ASSUME NEW n \in Nat, NEW c, \A k \in 1 .. n : c[k] \in Nat
  PROVE  Sums(c, n) # {}
<1> DEFINE Bad == {m \in Nat : m <= n /\ Sums(c, m) = {}}
<1> SUFFICES ASSUME Bad # {} PROVE FALSE
  OBVIOUS
<1>1. PICK m \in Bad : \A y \in Bad : m <= y
  BY LowestExists
<1>2. m \in Nat /\ m <= n /\ Sums(c, m) = {}
  OBVIOUS
<1>3. CASE m = 0
  <2>1. [k \in 0 .. m |-> 0] \in Sums(c, m)
    BY <1>3 DEF Sums
  <2> QED BY <1>2, <2>1
<1>4. CASE m # 0
  <2>1. m - 1 \in Nat /\ m - 1 \notin Bad /\ m - 1 <= n
    BY <1>1, <1>2, <1>4
  <2>2. PICK f : f \in Sums(c, m - 1)
    BY <2>1
  <2> HIDE DEF Bad
  <2>3. /\ f \in [0 .. m - 1 -> Nat] /\ f[0] = 0
        /\ \A k \in 1 .. m - 1 : f[k] = f[k - 1] + c[k]
    BY <2>2 DEF Sums
  <2> DEFINE g == [k \in 0 .. m |-> IF k = m THEN f[m - 1] + c[m] ELSE f[k]]
  <2>4. m \in 1 .. n /\ f[m - 1] \in Nat /\ c[m] \in Nat
    BY <1>2, <1>4, <2>1, <2>3
  <2>5. g \in [0 .. m -> Nat]
    BY <1>2, <2>3, <2>4
  <2>6. g[0] = 0
    BY <1>2, <1>4, <2>3
  <2>7. ASSUME NEW k \in 1 .. m PROVE g[k] = g[k - 1] + c[k]
    <3>1. k - 1 \in 0 .. m /\ k - 1 # m /\ k \in 0 .. m
      BY <1>2
    <3>2. CASE k = m
      BY <3>1, <3>2
    <3>3. CASE k # m
      <4>1. k \in 1 .. m - 1
        BY <1>2, <3>3
      <4> QED BY <2>3, <3>1, <3>3, <4>1
    <3> QED BY <3>2, <3>3
  <2>8. g \in Sums(c, m)
    BY <2>5, <2>6, <2>7 DEF Sums
  <2> QED BY <1>2, <2>8
<1> QED BY <1>3, <1>4

(* Before is that sum of the counts of the extents. *)
LEMMA BeforeIs ==
  /\ N \in Nat /\ DOMAIN Extents = 1 .. N
  /\ \A k \in 1 .. N : Extents[k].count \in Nat /\ Extents[k].lba \in Nat
  /\ Before \in [0 .. N -> Nat] /\ Before[0] = 0
  /\ \A k \in 1 .. N : Before[k] = Before[k - 1] + Extents[k].count
<1>1. /\ N \in Nat /\ DOMAIN Extents = 1 .. N
      /\ \A k \in 1 .. N : Extents[k] \in [lba : Nat \ {0}, count : Nat]
  BY BootAssumption, LenProperties DEF N
<1> DEFINE c == [k \in 1 .. N |-> Extents[k].count]
<1>2. \A k \in 1 .. N : c[k] \in Nat /\ Extents[k].count = c[k]
  BY <1>1
<1> HIDE DEF c
<1>3. PICK f : f \in Sums(c, N)
  BY <1>1, <1>2, SumsExist
<1>4. /\ f \in [0 .. N -> Nat] /\ f[0] = 0
      /\ \A k \in 1 .. N : f[k] = f[k - 1] + c[k]
  BY <1>3 DEF Sums
<1> DEFINE Def(g) == [k \in 0 .. N |-> IF k = 0 THEN 0 ELSE g[k - 1] + Extents[k].count]
<1>5. f = Def(f)
  <2>1. ASSUME NEW k \in 0 .. N
        PROVE  f[k] = IF k = 0 THEN 0 ELSE f[k - 1] + Extents[k].count
    <3>1. k = 0 \/ k \in 1 .. N
      BY <1>1
    <3>2. k \in 1 .. N => k # 0
      BY <1>1
    <3> QED BY <1>2, <1>4, <3>1, <3>2
  <2>2. f = [k \in 0 .. N |-> f[k]]
    BY <1>4
  <2> QED BY ONLY <2>1, <2>2
<1>6. Before = CHOOSE g : g = Def(g)
  BY DEF Before, N
<1> HIDE DEF Def
<1>7. Before = Def(Before)
  BY <1>5, <1>6
<1>8. Before = [k \in 0 .. N |-> IF k = 0 THEN 0 ELSE Before[k - 1] + Extents[k].count]
  BY <1>7 DEF Def
<1>9. Before[0] = 0 /\ \A k \in 1 .. N : Before[k] = Before[k - 1] + Extents[k].count
  BY <1>1, <1>8
<1>10. \A k \in 0 .. N : Before[k] \in Nat
  <2> DEFINE Bad == {k \in 0 .. N : Before[k] \notin Nat}
  <2> SUFFICES ASSUME Bad # {} PROVE FALSE
    OBVIOUS
  <2>0. Bad \subseteq Nat
    BY <1>1
  <2>1. PICK k \in Bad : \A y \in Bad : k <= y
    <3> HIDE DEF Bad
    <3> QED BY <2>0, LowestExists
  <2>2. k # 0
    BY <1>9
  <2>3. k \in 1 .. N /\ k - 1 \in 0 .. N /\ k - 1 \notin Bad
    BY <1>1, <2>1, <2>2
  <2> QED BY <1>2, <1>9, <2>1, <2>3
<1>11. Before \in [0 .. N -> Nat]
  BY <1>8, <1>10
<1> QED BY <1>1, <1>2, <1>9, <1>11

(* It never falls. *)
LEMMA BeforeGrows ==
  ASSUME NEW j \in 0 .. N, NEW k \in 0 .. N, j <= k
  PROVE  Before[j] <= Before[k]
<1>0. N \in Nat
  BY BeforeIs
<1> DEFINE Bad == {m \in Nat : j <= m /\ m <= N /\ ~(Before[j] <= Before[m])}
<1> SUFFICES ASSUME Bad # {} PROVE FALSE
  BY <1>0
<1>1. PICK m \in Bad : \A y \in Bad : m <= y
  BY LowestExists
<1>2. m \in 0 .. N /\ j <= m /\ ~(Before[j] <= Before[m])
  BY <1>0
<1>3. m # j /\ m # 0
  BY <1>2, BeforeIs
<1>4. m \in 1 .. N /\ m - 1 \in 0 .. N /\ j <= m - 1
  BY <1>0, <1>2, <1>3
<1>5. m - 1 \notin Bad
  BY <1>0, <1>1, <1>2, <1>4
<1>6. Before[j] <= Before[m - 1]
  BY <1>0, <1>4, <1>5
<1>7. Before[m] = Before[m - 1] + Extents[m].count /\ Extents[m].count \in Nat
  BY <1>4, BeforeIs
<1>8. Before[j] \in Nat /\ Before[m - 1] \in Nat /\ Before[m] \in Nat
  BY <1>2, <1>4, BeforeIs
<1> QED BY <1>2, <1>6, <1>7, <1>8

--------------------------------------------------------------------------------
(* The boot: what the first stage leaves to the second. *)

Second == {"disk", "partition", "fat", "memory", "elf", "header", "skip", "table",
           "segment", "load", "check", "jump"}

(* The first n extents are where the second stage expects them. *)
Placed(n) ==
  \A k \in 1 .. n : \A i \in 0 .. Extents[k].count - 1 :
    stage1.sector[Before[k - 1] + i] = Extents[k].lba + i

Stage1Type ==
  [extent : 1 .. N + 1, tries : 1 .. Retries, es : Nat, sector : [0 .. Sectors - 1 -> Int]]

SoundInv ==
  /\ stage1 \in Stage1Type
  /\ stage1.es = Before[stage1.extent - 1]
  /\ Placed(stage1.extent - 1)
  /\ stage \in Second => stage1.extent = N + 1
  /\ stage \in {"stage1", "disk", "partition"} =>
       at2000 = IF drive = "hard" THEN PartitionStart ELSE Garbage
  /\ stage \in Second \ {"disk", "partition"} =>
       offset = IF drive = "floppy" THEN 0 ELSE PartitionStart
  /\ drive \in {"floppy", "hard"}
  /\ regions \in 0 .. MAX_REGIONS

(* The boot: what ELF_Read makes of the kernel file.  The table of program *)
(* headers is used up as it goes; image.phs is what the file has.          *)

Small(ph) == ph.load /\ ph.filesz < LOAD_SIZE

(* The headers from s on are still those of the file. *)
TableFrom(s) ==
  /\ Len(elf.table) = Len(image.phs)
  /\ \A k \in DOMAIN image.phs : k >= s => elf.table[k] = image.phs[k]

LoadedBelow(s) ==
  \A k \in DOMAIN image.phs : k < s /\ Small(image.phs[k]) => Whole(image.phs[k])

(* Segment k is being loaded: first the bytes before it are read, then its *)
(* own; of a small one, memory holds what is copied, and zeros behind.     *)
InSegment(k) ==
  LET ph   == image.phs[k]
      now  == elf.table[k]
      done == ph.filesz - now.filesz
  IN  /\ k \in DOMAIN image.phs /\ ph.load
      /\ TableFrom(k + 1) /\ LoadedBelow(k)
      /\ now.offset \in 0 .. ph.offset /\ now.filesz \in 0 .. ph.filesz
      /\ now.offset > 0 => now.filesz = ph.filesz
      /\ elf.pos = ph.offset - now.offset + done
      /\ elf.virtual = ph.vaddr + done
      /\ ph.filesz < LOAD_SIZE =>
           \A a \in InMemory(ph) :
             mem[a] = IF a < elf.virtual THEN ph.offset + a - ph.vaddr + 1 ELSE 0

ElfType == [pos : Int, table : Seq(ProgramHeaders), seg : Nat \ {0}, virtual : Int]

LoadInv ==
  /\ stage \in {"stage1"} \cup Second => image \in Images
  /\ elf \in ElfType
  /\ stage \in {"header", "skip", "table"} => elf.seg = 1
  /\ stage = "segment" => TableFrom(elf.seg) /\ LoadedBelow(elf.seg)
  /\ stage = "load" => InSegment(elf.seg)
  /\ stage \in {"check", "jump"} => LoadedBelow(Len(image.phs) + 1)

(* Sectors stored for an extent lie behind those of the extents before, so *)
(* a read, whole or broken off, leaves these in place.                     *)
LEMMA StoredIs ==
  ASSUME SoundInv, Loading, NEW e, e = stage1.extent, NEW n \in 0 .. Extents[e].count
  PROVE  /\ e \in 1 .. N /\ Stored(n) \in [0 .. Sectors - 1 -> Int]
         /\ \A k \in 1 .. e - 1 : \A i \in 0 .. Extents[k].count - 1 :
              Stored(n)[Before[k - 1] + i] = Extents[k].lba + i
         /\ n = Extents[e].count =>
              \A i \in 0 .. n - 1 : Stored(n)[Before[e - 1] + i] = Extents[e].lba + i
<1>1. /\ N \in Nat /\ \A k \in 1 .. N : Extents[k].count \in Nat /\ Extents[k].lba \in Nat
      /\ \A k \in 0 .. N : Before[k] \in Nat
      /\ \A k \in 1 .. N : Before[k] = Before[k - 1] + Extents[k].count
  BY BeforeIs
<1>2. /\ stage1 \in Stage1Type /\ stage1.es = Before[e - 1] /\ Placed(e - 1)
  BY DEF SoundInv
<1>3. e \in 1 .. N /\ e - 1 \in 0 .. N
  BY <1>1, <1>2 DEF Stage1Type, Loading, N
<1>4. stage1.sector \in [0 .. Sectors - 1 -> Int] /\ DOMAIN stage1.sector = 0 .. Sectors - 1
  BY <1>2 DEF Stage1Type
<1> DEFINE b == Before[e - 1]
           c == Extents[e].count
           st == stage1.sector
<1>5. Stored(n) = [a \in 0 .. Sectors - 1 |->
                     IF a \in b .. b + n - 1 THEN Extents[e].lba + a - b ELSE st[a]]
  BY <1>2, <1>4 DEF Stored
<1>6. b \in Nat /\ c \in Nat /\ n \in Nat /\ Sectors \in Nat /\ b + c <= Sectors
  <2>1. b \in Nat /\ c \in Nat /\ Before[e] = b + c
    BY <1>1, <1>3
  <2>2. Before[e] <= Before[N]
    BY <1>1, <1>3, BeforeGrows
  <2>3. N \in 0 .. N
    BY <1>1
  <2>4. Sectors = Before[N] /\ Before[N] \in Nat
    BY <1>1, <2>3 DEF Sectors, N
  <2> QED BY <2>1, <2>2, <2>4
<1>7. Stored(n) \in [0 .. Sectors - 1 -> Int]
  <2>1. st \in [0 .. Sectors - 1 -> Int] /\ Extents[e].lba \in Int
    BY <1>1, <1>3, <1>4
  <2> HIDE DEF b, st
  <2> QED BY <1>5, <1>6, <2>1
<1>8. ASSUME NEW k \in 1 .. e - 1, NEW i \in 0 .. Extents[k].count - 1
      PROVE  Stored(n)[Before[k - 1] + i] = Extents[k].lba + i
  <2>1. k \in 1 .. N /\ k \in 0 .. N /\ k - 1 \in 0 .. N /\ k <= e - 1
    BY <1>1, <1>3
  <2>2. Before[k] <= b /\ Before[k] \in Nat /\ Before[k - 1] \in Nat
    BY <1>1, <1>3, <2>1, BeforeGrows
  <2>3. Before[k - 1] + i < b /\ Before[k - 1] + i \in 0 .. Sectors - 1
    BY <1>1, <1>6, <2>1, <2>2
  <2>4. st[Before[k - 1] + i] = Extents[k].lba + i
    BY <1>2 DEF Placed
  <2> HIDE DEF b, st
  <2>5. Before[k - 1] + i \notin b .. b + n - 1
    BY <1>6, <2>3
  <2> QED BY <1>5, <2>3, <2>4, <2>5
<1>9. ASSUME n = c, NEW i \in 0 .. n - 1
      PROVE  Stored(n)[Before[e - 1] + i] = Extents[e].lba + i
  <2>1. b + i \in b .. b + n - 1 /\ b + i \in 0 .. Sectors - 1 /\ (b + i) - b = i
    BY <1>6, <1>9
  <2>2. Extents[e].lba \in Nat
    BY <1>1, <1>3
  <2>3. Extents[e].lba + (b + i) - b = Extents[e].lba + i
    BY <1>6, <2>2
  <2> HIDE DEF st
  <2> QED BY <1>5, <2>1, <2>3
<1> QED BY <1>3, <1>7, <1>8, <1>9

(* Where stage1 starts, nothing is placed. *)
LEMMA Stage1StartIs ==
  /\ Stage1Start \in Stage1Type /\ Stage1Start.extent = 1
  /\ Stage1Start.es = Before[Stage1Start.extent - 1]
<1>1. N \in Nat /\ Before[0] = 0 /\ Retries \in Nat \ {0}
  BY BeforeIs, BootAssumption
<1> QED BY <1>1 DEF Stage1Start, Stage1Type, Garbage

(* Steps that leave alone what SoundInv is about, but for the stage. *)
LEMMA SoundKept ==
  ASSUME SoundInv, UNCHANGED <<drive, stage1, at2000, offset, regions>>,
         stage' \in Second => stage \in Second,
         stage' \in {"stage1", "disk", "partition"} => stage \in {"stage1", "disk", "partition"},
         stage' \in Second \ {"disk", "partition"} => stage \in Second \ {"disk", "partition"}
  PROVE  SoundInv'
BY DEF SoundInv, Placed

(* The steps of the first stage. *)
LEMMA Stage1Step ==
  ASSUME SoundInv, PowerOn \/ SectorsRead \/ ReadFails \/ Stage2Entered
  PROVE  SoundInv'
<1>1. N \in Nat
  BY BeforeIs
<1>2. CASE PowerOn
  <2>1. /\ stage1' = Stage1Start /\ stage' = "stage1" /\ drive' \in {"floppy", "hard"}
        /\ at2000' = (IF drive' = "hard" THEN PartitionStart ELSE Garbage) /\ regions' = regions
    BY <1>2 DEF PowerOn
  <2>2. Placed(stage1.extent - 1)'
    BY <2>1, Stage1StartIs DEF Placed
  <2> QED BY <2>1, <2>2, Stage1StartIs DEF SoundInv, Second
<1>3. CASE SectorsRead
  <2> DEFINE e == stage1.extent
             n == Extents[e].count
  <2>1. /\ Loading /\ stage = "stage1" /\ stage' = stage /\ UNCHANGED <<drive, at2000, offset, regions>>
        /\ stage1' = [extent |-> e + 1, tries |-> Retries, es |-> stage1.es + n, sector |-> Stored(n)]
    BY <1>3 DEF SectorsRead, Loading
  <2>2. PICK ee, nn : ee = e /\ nn = n
    OBVIOUS
  <2>3. ee \in 1 .. N
    BY <1>1, <2>1, <2>2 DEF SoundInv, Stage1Type, Loading, N
  <2>4. nn \in Nat /\ nn \in 0 .. Extents[ee].count /\ nn = Extents[ee].count
    BY <2>2, <2>3, BeforeIs
  <2>5. /\ Stored(nn) \in [0 .. Sectors - 1 -> Int]
        /\ \A k \in 1 .. ee - 1 : \A i \in 0 .. Extents[k].count - 1 :
             Stored(nn)[Before[k - 1] + i] = Extents[k].lba + i
        /\ \A i \in 0 .. nn - 1 : Stored(nn)[Before[ee - 1] + i] = Extents[ee].lba + i
    BY <2>1, <2>2, <2>4, StoredIs, SMTT(20)
  <2>6. stage1.es = Before[ee - 1] /\ Before[ee] = Before[ee - 1] + nn /\ Before[ee] \in Nat
    BY <2>2, <2>3, <2>4, BeforeIs, SMTT(20) DEF SoundInv
  <2>7. PICK t : t = Stored(nn)
    OBVIOUS
  <2>8. stage1' = [extent |-> ee + 1, tries |-> Retries, es |-> Before[ee], sector |-> t]
    BY <2>1, <2>2, <2>6, <2>7
  <2>9. (ee + 1) - 1 = ee /\ ee + 1 \in 1 .. N + 1 /\ Retries \in 1 .. Retries
    BY <1>1, <2>3, BootAssumption
  <2>10. stage1' \in Stage1Type /\ stage1'.es = Before[stage1'.extent - 1]
    BY <2>5, <2>6, <2>7, <2>8, <2>9 DEF Stage1Type
  <2>11. \A k \in 1 .. ee : k = ee \/ k \in 1 .. ee - 1
    BY <2>3
  <2>12. Placed(stage1.extent - 1)'
    BY <2>4, <2>5, <2>7, <2>8, <2>9, <2>11 DEF Placed
  <2> QED BY <2>1, <2>10, <2>12 DEF SoundInv, Second
<1>4. CASE ReadFails
  <2>1. Loading /\ stage = "stage1" /\ UNCHANGED <<drive, at2000, offset, regions>>
    BY <1>4 DEF ReadFails, Loading
  <2>2. PICK ee : ee = stage1.extent
    OBVIOUS
  <2>3. PICK n \in 0 .. Extents[ee].count, reset \in BOOLEAN :
          IF reset /\ stage1.tries > 1
          THEN stage1' = [stage1 EXCEPT !.tries = @ - 1, !.sector = Stored(n)] /\ stage' = stage
          ELSE stage' = "key" /\ stage1' = Stage1Start
    BY <1>4, <2>2 DEF ReadFails
  <2>4. CASE stage' = "key" /\ stage1' = Stage1Start
    <3>1. Placed(stage1.extent - 1)'
      BY <2>4, Stage1StartIs DEF Placed
    <3> QED BY <2>1, <2>4, <3>1, Stage1StartIs DEF SoundInv, Second
  <2>5. CASE /\ stage1.tries > 1 /\ stage' = stage
             /\ stage1' = [stage1 EXCEPT !.tries = @ - 1, !.sector = Stored(n)]
    <3>1. /\ ee \in 1 .. N /\ Stored(n) \in [0 .. Sectors - 1 -> Int]
          /\ \A k \in 1 .. ee - 1 : \A i \in 0 .. Extents[k].count - 1 :
               Stored(n)[Before[k - 1] + i] = Extents[k].lba + i
      BY <2>1, <2>2, StoredIs
    <3>2. PICK t : t = Stored(n)
      OBVIOUS
    <3>3. stage1 \in Stage1Type /\ stage1' = [stage1 EXCEPT !.tries = @ - 1, !.sector = t]
      BY <2>5, <3>2 DEF SoundInv
    <3>4. stage1.tries \in 1 .. Retries /\ Retries \in Nat
      BY <3>3, BootAssumption DEF Stage1Type
    <3>5. stage1.tries - 1 \in 1 .. Retries
      BY <2>5, <3>4
    <3>6. t \in [0 .. Sectors - 1 -> Int]
      BY <3>1, <3>2
    <3>7. /\ stage1' \in Stage1Type /\ stage1'.extent = stage1.extent /\ stage1'.es = stage1.es
          /\ stage1'.sector = t
      BY <3>3, <3>5, <3>6 DEF Stage1Type
    <3>8. Placed(stage1.extent - 1)'
      BY <2>2, <3>1, <3>2, <3>7 DEF Placed
    <3> QED BY <2>1, <2>5, <3>7, <3>8 DEF SoundInv, Second
  <2> QED BY <2>3, <2>4, <2>5
<1>5. CASE Stage2Entered
  <2>1. stage1.extent = N + 1
    BY <1>1, <1>5 DEF Stage2Entered, ReadFinish, SoundInv, Stage1Type, N
  <2> QED BY <1>5, <2>1, BootAssumption DEF Stage2Entered, ReadFinish, SoundInv, Placed, Second
<1> QED BY <1>2, <1>3, <1>4, <1>5

(* The steps of ELF_Read and what start() does after it. *)
ElfStep ==
  \/ OpenKernel \/ ReadHeader \/ SkipToTable \/ ReadTable
  \/ BeginSegment \/ SkipSegment \/ Seek \/ Copy \/ EndSegment \/ Loaded
  \/ Check

(* They take place behind the memory map and end there or give up, and     *)
(* touch none of what the boot found before.                               *)
LEMMA ElfStepKeeps ==
  ASSUME ElfStep
  PROVE  /\ UNCHANGED <<drive, image, stage1, at2000, offset, regions>>
         /\ stage \in {"elf", "header", "skip", "table", "segment", "load", "check"}
         /\ stage' \in {"header", "skip", "table", "segment", "load", "check", "jump",
                       "wild", "ended"}
<1>1. /\ UNCHANGED <<drive, image, stage1, at2000, offset, regions>>
      /\ stage \in {"elf", "header", "skip", "table", "segment", "load", "check"}
  BY DEF ElfStep, OpenKernel, ReadHeader, SkipToTable, ReadTable, BeginSegment, SkipSegment,
         Seek, Copy, EndSegment, Loaded, Check, InElf
<1> DEFINE Next1 == {"header", "skip", "table", "segment", "load", "check", "jump", "wild", "ended"}
<1>2. CASE OpenKernel \/ SkipToTable \/ BeginSegment
  BY <1>1, <1>2 DEF OpenKernel, SkipToTable, BeginSegment
<1>3. CASE ReadHeader \/ ReadTable
  BY <1>1, <1>3 DEF ReadHeader, ReadTable, MustRead
<1>4. CASE Seek \/ Copy
  BY <1>1, <1>4 DEF Seek, Copy, InElf, MustRead
<1>5. CASE SkipSegment \/ EndSegment \/ Loaded \/ Check
  BY <1>1, <1>5 DEF SkipSegment, EndSegment, Loaded, Check, InElf
<1> QED BY <1>2, <1>3, <1>4, <1>5 DEF ElfStep

(* The steps of the second stage. *)
LEMMA Stage2Step ==
  ASSUME SoundInv,
         DISK_Initialize \/ MBR_DetectPartition \/ FAT_Initialize \/ MemoryBlock
           \/ ElfStep \/ EnterKernel
  PROVE  SoundInv'
<1>1. CASE DISK_Initialize
  BY <1>1, SoundKept DEF DISK_Initialize, Second
<1>2. CASE MBR_DetectPartition
  BY <1>2 DEF MBR_DetectPartition, SoundInv, Placed, Second
<1>3. CASE FAT_Initialize
  BY <1>3 DEF FAT_Initialize, SoundInv, Placed, Second
<1>4. CASE MemoryBlock
  <2>1. /\ stage = "memory" /\ stage' \in {"memory", "elf"}
        /\ UNCHANGED <<drive, stage1, at2000, offset>>
        /\ regions' = regions \/ (regions < MAX_REGIONS /\ regions' = regions + 1)
    BY <1>4 DEF MemoryBlock
  <2>2. regions' \in 0 .. MAX_REGIONS
    BY <2>1, BootAssumption DEF SoundInv
  <2> QED BY <2>1, <2>2 DEF SoundInv, Placed, Second
<1>5. CASE ElfStep
  BY <1>5, ElfStepKeeps, SoundKept DEF Second
<1>6. CASE EnterKernel
  <2>1. Placed(stage1.extent - 1)'
    BY <1>6, Stage1StartIs DEF EnterKernel, Placed
  <2>2. N + 1 # 1 \/ N = 0
    BY BeforeIs
  <2> QED BY <1>6, <2>1, Stage1StartIs, BootAssumption DEF EnterKernel, SoundInv, Second
<1> QED BY <1>1, <1>2, <1>3, <1>4, <1>5, <1>6

--------------------------------------------------------------------------------
(* What ELF_Read asks for at a time. *)
LEMMA ChunkIs ==
  ASSUME NEW size \in Nat
  PROVE  /\ Chunk(size) \in Nat /\ Chunk(size) <= size /\ Chunk(size) <= LOAD_SIZE
         /\ size <= LOAD_SIZE => Chunk(size) = size
         /\ size > 0 => Chunk(size) > 0
<1>1. LOAD_SIZE \in Nat \ {0}
  BY BootAssumption
<1>2. \E x \in {size, LOAD_SIZE} : \A y \in {size, LOAD_SIZE} : x <= y
  BY <1>1
<1>3. Chunk(size) \in {size, LOAD_SIZE} /\ \A y \in {size, LOAD_SIZE} : Chunk(size) <= y
  BY <1>2 DEF Chunk, Min
<1> QED BY <1>1, <1>3

(* What is known of a program header of the file. *)
LEMMA HeaderIs ==
  ASSUME image \in Images, NEW k \in DOMAIN image.phs
  PROVE  /\ image.phs \in Seq(ProgramHeaders) /\ Len(image.phs) \in Nat
         /\ DOMAIN image.phs = 1 .. Len(image.phs)
         /\ image.phs[k] \in ProgramHeaders
         /\ image.phs[k].load =>
              /\ image.phs[k].filesz <= image.phs[k].memsz
              /\ InMemory(image.phs[k]) \subseteq Addresses
              /\ \A j \in DOMAIN image.phs \ {k} :
                   image.phs[j].load => InMemory(image.phs[j]) \cap InMemory(image.phs[k]) = {}
<1>1. image.phs \in Seq(ProgramHeaders)
  BY BootAssumption
<1>2. Len(image.phs) \in Nat /\ DOMAIN image.phs = 1 .. Len(image.phs)
  BY <1>1, LenProperties
<1>3. image.phs[k] \in ProgramHeaders
  BY <1>1, <1>2, ElementOfSeq
<1> QED BY <1>1, <1>2, <1>3, LinkerAssumption

(* Memory that is written only inside a segment leaves the others whole. *)
LEMMA OthersStayWhole ==
  ASSUME image \in Images, image' = image, NEW k \in DOMAIN image.phs, image.phs[k].load,
         LoadedBelow(k),
         \A a \in Addresses : a \notin InMemory(image.phs[k]) => mem'[a] = mem[a]
  PROVE  LoadedBelow(k)'
<1> SUFFICES ASSUME NEW j \in DOMAIN image.phs, j < k, Small(image.phs[j])
             PROVE  Whole(image.phs[j])'
  BY DEF LoadedBelow
<1>1. k \in Nat /\ j \in DOMAIN image.phs \ {k} /\ image.phs[j].load
  BY HeaderIs DEF Small
<1>2. /\ InMemory(image.phs[j]) \subseteq Addresses
      /\ InMemory(image.phs[j]) \cap InMemory(image.phs[k]) = {}
  BY <1>1, HeaderIs
<1>3. \A a \in InMemory(image.phs[j]) : mem'[a] = mem[a]
  BY <1>2
<1>4. Whole(image.phs[j])
  BY DEF LoadedBelow
<1>5. InMemory(image.phs[j])' = InMemory(image.phs[j])
  BY DEF InMemory
<1> QED BY <1>3, <1>4, <1>5 DEF Whole

(* What ELF_Read keeps, with another place in the file and another table, *)
LEMMA ElfTable ==
  ASSUME NEW e \in ElfType, NEW p \in Int, NEW t \in Seq(ProgramHeaders)
  PROVE  LET f == [e EXCEPT !.pos = p, !.table = t]
         IN  f \in ElfType /\ f.table = t /\ f.pos = p /\ f.seg = e.seg /\ f.virtual = e.virtual
<1> DEFINE T == Seq(ProgramHeaders)
           R == [pos : Int, table : T, seg : Nat \ {0}, virtual : Int]
           f == [e EXCEPT !.pos = p, !.table = t]
<1>1. e \in R /\ t \in T
  BY DEF ElfType
<1> HIDE DEF T
<1>2. f \in R
  BY <1>1
<1>3. f.table = t /\ f.pos = p /\ f.seg = e.seg /\ f.virtual = e.virtual
  BY <1>1
<1> QED BY <1>2, <1>3 DEF ElfType, T

(* with another place in the file and in memory,                           *)
LEMMA ElfVirtual ==
  ASSUME NEW e \in ElfType, NEW p \in Int, NEW v \in Int
  PROVE  LET f == [e EXCEPT !.pos = p, !.virtual = v]
         IN  f \in ElfType /\ f.table = e.table /\ f.pos = p /\ f.seg = e.seg /\ f.virtual = v
<1> DEFINE T == Seq(ProgramHeaders)
           R == [pos : Int, table : T, seg : Nat \ {0}, virtual : Int]
           f == [e EXCEPT !.pos = p, !.virtual = v]
<1>1. e \in R
  BY DEF ElfType
<1> HIDE DEF T
<1>2. f \in R
  BY <1>1
<1>3. f.table = e.table /\ f.pos = p /\ f.seg = e.seg /\ f.virtual = v
  BY <1>1
<1> QED BY <1>2, <1>3 DEF ElfType, T

(* with all of these,                                                      *)
LEMMA ElfMoved ==
  ASSUME NEW e \in ElfType, NEW p \in Int, NEW v \in Int, NEW t \in Seq(ProgramHeaders)
  PROVE  LET f == [e EXCEPT !.pos = p, !.virtual = v, !.table = t]
         IN  f \in ElfType /\ f.table = t /\ f.pos = p /\ f.seg = e.seg /\ f.virtual = v
<1> DEFINE T == Seq(ProgramHeaders)
           R == [pos : Int, table : T, seg : Nat \ {0}, virtual : Int]
           f == [e EXCEPT !.pos = p, !.virtual = v, !.table = t]
<1>1. e \in R /\ t \in T
  BY DEF ElfType
<1> HIDE DEF T
<1>2. f \in R
  BY <1>1
<1>3. f.table = t /\ f.pos = p /\ f.seg = e.seg /\ f.virtual = v
  BY <1>1
<1> QED BY <1>2, <1>3 DEF ElfType, T

(* and with the next segment.                                              *)
LEMMA ElfNext ==
  ASSUME NEW e \in ElfType, NEW p \in Int
  PROVE  LET f == [e EXCEPT !.pos = p, !.seg = @ + 1]
         IN  f \in ElfType /\ f.table = e.table /\ f.seg = e.seg + 1 /\ f.virtual = e.virtual
<1> DEFINE T == Seq(ProgramHeaders)
           R == [pos : Int, table : T, seg : Nat \ {0}, virtual : Int]
           f == [e EXCEPT !.pos = p, !.seg = @ + 1]
<1>1. e \in R
  BY DEF ElfType
<1> HIDE DEF T
<1>2. e.seg + 1 \in Nat \ {0}
  BY <1>1
<1>3. f \in R
  BY <1>1, <1>2
<1>4. f.table = e.table /\ f.seg = e.seg + 1 /\ f.virtual = e.virtual
  BY <1>1
<1> QED BY <1>3, <1>4 DEF ElfType, T

(* What ELF_Read keeps when it begins. *)
LEMMA ElfStartIs == ElfStart \in ElfType /\ ElfStart.seg = 1
<1>1. << >> \in Seq(ProgramHeaders)
  BY EmptySeq
<1> QED BY <1>1 DEF ElfStart, ElfType, Lost

(* The steps that are not ELF_Read's. *)
LEMMA LoadKept ==
  ASSUME LoadInv,
         PowerOn \/ SectorsRead \/ ReadFails \/ Stage2Entered \/ DISK_Initialize
           \/ MBR_DetectPartition \/ FAT_Initialize \/ MemoryBlock \/ EnterKernel
  PROVE  LoadInv'
<1> DEFINE Loading1 == {"header", "skip", "table", "segment", "load", "check", "jump"}
<1>1. /\ elf' \in ElfType
      /\ stage' \notin Loading1
      /\ stage' \in {"stage1"} \cup Second => image' \in Images
  <2>1. CASE PowerOn
    BY <2>1 DEF PowerOn, LoadInv, ElfType
  <2>2. CASE SectorsRead \/ ReadFails \/ Stage2Entered
    <3>1. stage = "stage1" /\ stage' \in {"stage1", "key", "disk"} /\ UNCHANGED <<elf, image>>
      BY <2>2 DEF SectorsRead, ReadFails, Stage2Entered, Loading, ReadFinish
    <3> QED BY <3>1 DEF LoadInv
  <2>3. CASE DISK_Initialize \/ MBR_DetectPartition \/ FAT_Initialize \/ MemoryBlock
    <3>1. /\ stage \in {"disk", "partition", "fat", "memory"} /\ UNCHANGED <<elf, image>>
          /\ stage' \in {"partition", "fat", "memory", "elf", "ended"}
      BY <2>3 DEF DISK_Initialize, MBR_DetectPartition, FAT_Initialize, MemoryBlock
    <3> QED BY <3>1 DEF LoadInv, Second
  <2>4. CASE EnterKernel
    BY <2>4, ElfStartIs DEF EnterKernel, Second
  <2> QED BY <2>1, <2>2, <2>3, <2>4
<1> QED BY <1>1 DEF LoadInv

(* Up to the table of program headers. *)
LEMMA TableSteps ==
  ASSUME LoadInv, OpenKernel \/ ReadHeader \/ SkipToTable \/ ReadTable
  PROVE  LoadInv'
<1>0. image \in Images /\ image' = image /\ elf \in ElfType
  BY ElfStepKeeps DEF ElfStep, LoadInv, ElfType, Second
<1>1. image.phs \in Seq(ProgramHeaders) /\ image.phoff \in Nat /\ HeaderSize \in Nat
  BY <1>0, BootAssumption
<1>2. CASE OpenKernel
  <2>1. PICK fd \in FAT_Open : /\ elf' = [ElfStart EXCEPT !.pos = fd]
                              /\ stage' = IF fd = Lost THEN "wild" ELSE "header"
    BY <1>2 DEF OpenKernel
  <2>2. fd \in Int
    BY DEF FAT_Open, Lost
  <2>3. elf' \in ElfType /\ elf'.seg = 1
    BY <2>1, <2>2, ElfStartIs DEF ElfType
  <2> QED BY <1>0, <2>1, <2>3 DEF LoadInv, Second
<1>3. CASE ReadHeader
  <2>1. \/ stage' = "skip" /\ elf' = [elf EXCEPT !.pos = HeaderSize]
        \/ stage' \in {"wild", "ended"} /\ elf' = elf
    BY <1>3 DEF ReadHeader, MustRead
  <2>2. elf.seg = 1
    BY <1>3 DEF ReadHeader, InElf, LoadInv
  <2>3. elf' \in ElfType /\ elf'.seg = 1
    BY <1>0, <1>1, <2>1, <2>2 DEF ElfType
  <2> QED BY <1>0, <2>1, <2>3 DEF LoadInv, Second
<1>4. CASE SkipToTable
  <2>1. PICK read \in FAT_Read(image.phoff - HeaderSize) :
          /\ stage' = IF read = Unnoticed THEN "wild" ELSE "table"
          /\ elf' = [elf EXCEPT !.pos = Moved(read, image.phoff - HeaderSize)]
    BY <1>4 DEF SkipToTable
  <2>2. Moved(read, image.phoff - HeaderSize) \in Int
    BY <1>0, <1>1 DEF Moved, Lost, ElfType
  <2>3. elf.seg = 1
    BY <1>4 DEF SkipToTable, InElf, LoadInv
  <2>4. elf' \in ElfType /\ elf'.seg = 1
    BY <1>0, <2>1, <2>2, <2>3 DEF ElfType
  <2> QED BY <1>0, <2>1, <2>4 DEF LoadInv, Second
<1>5. CASE ReadTable
  <2>1. \/ stage' = "segment" /\ elf' = [elf EXCEPT !.pos = Lost, !.table = image.phs] /\ mem' = mem
        \/ stage' \in {"wild", "ended"} /\ elf' = elf
    BY <1>5 DEF ReadTable, MustRead
  <2>2. elf.seg = 1
    BY <1>5 DEF ReadTable, InElf, LoadInv
  <2>3. CASE stage' = "segment" /\ elf' = [elf EXCEPT !.pos = Lost, !.table = image.phs] /\ mem' = mem
    <3>1. elf' \in ElfType /\ elf'.seg = 1 /\ elf'.table = image.phs
      <4>1. /\ elf \in ElfType /\ Lost \in Int /\ image.phs \in Seq(ProgramHeaders)
            /\ elf' = [elf EXCEPT !.pos = Lost, !.table = image.phs]
        BY <1>0, <1>1, <2>3 DEF Lost
      <4>2. elf' \in ElfType /\ elf'.table = image.phs /\ elf'.seg = elf.seg
        BY ONLY <4>1, ElfTable DEF ElfType
      <4> QED BY <2>2, <4>2
    <3>2. TableFrom(elf.seg)'
      BY <1>0, <3>1 DEF TableFrom
    <3>3. \A k \in DOMAIN image.phs : ~(k < 1)
      BY <1>1, LenProperties
    <3>4. LoadedBelow(elf.seg)'
      BY <1>0, <3>1, <3>3 DEF LoadedBelow
    <3> QED BY <1>0, <2>3, <3>1, <3>2, <3>4 DEF LoadInv
  <2>4. CASE stage' \in {"wild", "ended"} /\ elf' = elf
    BY <1>0, <2>4 DEF LoadInv, Second
  <2> QED BY <2>1, <2>3, <2>4
<1> QED BY <1>2, <1>3, <1>4, <1>5

(* A segment begins, or is no LOAD segment, or was the last. *)
LEMMA SegmentSteps ==
  ASSUME LoadInv, BeginSegment \/ SkipSegment \/ Loaded
  PROVE  LoadInv'
<1> SUFFICES ASSUME NEW k, k = elf.seg PROVE LoadInv'
  OBVIOUS
<1>0. /\ stage = "segment" /\ image \in Images /\ image' = image /\ elf \in ElfType
      /\ TableFrom(k) /\ LoadedBelow(k)
  BY DEF BeginSegment, SkipSegment, Loaded, InElf, LoadInv, ElfType, Second
<1>1. /\ k \in Nat \ {0} /\ Len(elf.table) = Len(image.phs) /\ Len(image.phs) \in Nat
      /\ DOMAIN image.phs = 1 .. Len(image.phs)
      /\ \A j \in DOMAIN image.phs : j >= k => elf.table[j] = image.phs[j]
  <2>1. image.phs \in Seq(ProgramHeaders)
    BY <1>0, BootAssumption
  <2> QED BY <1>0, <2>1, LenProperties DEF ElfType, TableFrom
<1>2. CASE BeginSegment
  <2>1. k \in DOMAIN image.phs /\ elf.table[k] = image.phs[k] /\ image.phs[k].load
    <3>1. k <= Len(elf.table) /\ elf.table[k].load
      BY <1>2 DEF BeginSegment, Header
    <3>2. k \in DOMAIN image.phs
      BY <1>1, <3>1
    <3> QED BY <1>1, <3>1, <3>2
  <2>0. PICK ph : ph = image.phs[k]
    OBVIOUS
  <2>2. /\ ph \in ProgramHeaders /\ ph.vaddr \in Nat /\ ph.memsz \in Nat /\ ph.offset \in Nat
        /\ ph.filesz \in Nat /\ InMemory(ph) \subseteq Addresses
    BY <1>0, <2>0, <2>1, HeaderIs DEF ProgramHeaders
  <2>3. mem' = memset(ph.vaddr, 0, ph.memsz)
    BY <1>2, <2>0, <2>1 DEF BeginSegment, Header
  <2>4. PICK fd \in FAT_Open : /\ stage' = IF fd = Lost THEN "wild" ELSE "load"
                              /\ elf' = [elf EXCEPT !.pos = fd, !.virtual = ph.vaddr]
    BY <1>2, <2>0, <2>1 DEF BeginSegment, Header
  <2>5. fd \in Int /\ (fd = 0 \/ stage' = "wild")
    BY <2>4 DEF FAT_Open, Lost
  <2>6. /\ elf' \in ElfType /\ elf'.seg = k /\ elf'.table = elf.table /\ elf'.virtual = ph.vaddr
        /\ elf'.pos = fd
    <3>1. /\ elf \in ElfType /\ fd \in Int /\ ph.vaddr \in Int
          /\ elf' = [elf EXCEPT !.pos = fd, !.virtual = ph.vaddr]
      BY <1>0, <2>2, <2>4, <2>5 DEF ElfType
    <3>2. /\ elf' \in ElfType /\ elf'.pos = fd /\ elf'.table = elf.table /\ elf'.seg = elf.seg
          /\ elf'.virtual = ph.vaddr
      BY ONLY <3>1, ElfVirtual DEF ElfType
    <3> QED BY <3>2
  <2>7. /\ \A a \in Addresses : a \notin InMemory(ph) => mem'[a] = mem[a]
        /\ \A a \in InMemory(ph) : mem'[a] = 0 /\ a \in Nat /\ ~(a < ph.vaddr)
    BY <2>2, <2>3 DEF memset, InMemory
  <2>8. LoadedBelow(k)'
    BY <1>0, <2>0, <2>1, <2>7, OthersStayWhole
  <2>9. ASSUME fd = 0 PROVE InSegment(elf.seg)'
    <3>1. /\ elf'.table[k] = ph /\ ph.filesz - ph.filesz = 0 /\ ph.offset - ph.offset + 0 = 0
          /\ ph.vaddr + 0 = ph.vaddr /\ ph.offset \in 0 .. ph.offset /\ ph.filesz \in 0 .. ph.filesz
      BY <2>0, <2>1, <2>2, <2>6
    <3>2. TableFrom(k + 1)'
      BY <1>0, <1>1, <2>6 DEF TableFrom
    <3>3. image'.phs[k] = ph /\ ph.load /\ k \in DOMAIN image'.phs
      BY <1>0, <2>0, <2>1
    <3>4. InSegment(k)'
      BY <2>6, <2>7, <2>8, <2>9, <3>1, <3>2, <3>3 DEF InSegment, InMemory
    <3> QED BY <2>6, <3>4
  <2> QED BY <1>0, <2>4, <2>5, <2>6, <2>9 DEF LoadInv, Second
<1>3. CASE SkipSegment
  <2>1. k \in DOMAIN image.phs /\ ~image.phs[k].load
    BY <1>1, <1>3 DEF SkipSegment, Header
  <2>2. elf' = [elf EXCEPT !.seg = k + 1] /\ mem' = mem /\ stage' = "segment"
    BY <1>0, <1>3 DEF SkipSegment
  <2>3. elf' \in ElfType /\ elf'.seg = k + 1 /\ elf'.table = elf.table
    BY <1>0, <1>1, <2>2 DEF ElfType
  <2>4. TableFrom(elf.seg)'
    BY <1>0, <1>1, <2>3 DEF TableFrom
  <2>5. \A j \in DOMAIN image.phs : j < k + 1 /\ Small(image.phs[j]) => j < k
    BY <1>1, <2>1 DEF Small
  <2>6. LoadedBelow(elf.seg)'
    BY <1>0, <2>2, <2>3, <2>5 DEF LoadedBelow, Whole, Small, InMemory
  <2> QED BY <1>0, <2>2, <2>3, <2>4, <2>6 DEF LoadInv
<1>4. CASE Loaded
  <2>1. k > Len(image.phs) /\ (elf' = elf) /\ (mem' = mem) /\ stage' = "check"
    BY <1>1, <1>4 DEF Loaded
  <2>2. \A j \in DOMAIN image.phs : j < k
    BY <1>1, <2>1
  <2>3. LoadedBelow(Len(image.phs) + 1)'
    BY <1>0, <2>1, <2>2 DEF LoadedBelow, Whole, Small, InMemory
  <2> QED BY <1>0, <2>1, <2>3 DEF LoadInv
<1> QED BY <1>2, <1>3, <1>4

(* A small remainder is the number itself, and none is above it. *)
LEMMA Wraps ==
  ASSUME NEW n \in Nat
  PROVE  /\ n % CopyWrap \in Nat /\ n % CopyWrap <= n
         /\ n < CopyWrap => n % CopyWrap = n
<1>1. CopyWrap \in Nat \ {0}
  BY BootAssumption
<1> DEFINE w == CopyWrap
<1>2. ASSUME NEW b \in Nat \ {0}
      PROVE  n % b \in Nat /\ n % b <= n /\ (n < b => n % b = n)
  BY Z3
<1> QED BY <1>1, <1>2

(* What is known while a segment is loaded: k is its index, ph its header  *)
(* in the file, now what is left of the header in the table.               *)
Current(k, ph, now) == stage = "load" /\ k = elf.seg /\ ph = image.phs[k] /\ now = elf.table[k]

Known(k, ph, now) ==
  /\ image \in Images /\ elf \in ElfType /\ k \in Nat \ {0} /\ k \in DOMAIN image.phs
  /\ DOMAIN image.phs = 1 .. Len(image.phs) /\ Len(image.phs) \in Nat
  /\ elf.table \in Seq(ProgramHeaders) /\ k \in 1 .. Len(elf.table)
  /\ DOMAIN elf.table = 1 .. Len(elf.table) /\ now \in ProgramHeaders
  /\ ph.load /\ ph \in ProgramHeaders
  /\ ph.offset \in Nat /\ ph.vaddr \in Nat /\ ph.filesz \in Nat /\ ph.memsz \in Nat
  /\ ph.filesz <= ph.memsz /\ InMemory(ph) \subseteq Addresses
  /\ TableFrom(k + 1) /\ LoadedBelow(k)
  /\ now.offset \in 0 .. ph.offset /\ now.filesz \in 0 .. ph.filesz
  /\ now.offset > 0 => now.filesz = ph.filesz
  /\ elf.pos = ph.offset - now.offset + (ph.filesz - now.filesz)
  /\ elf.virtual = ph.vaddr + (ph.filesz - now.filesz)
  /\ ph.filesz < LOAD_SIZE =>
       \A a \in InMemory(ph) :
         mem[a] = IF a < elf.virtual THEN ph.offset + a - ph.vaddr + 1 ELSE 0

(* All of this follows from the invariant.                                 *)
LEMMA LoadingIs ==
  ASSUME LoadInv, NEW k, NEW ph, NEW now, Current(k, ph, now)
  PROVE  Known(k, ph, now)
<1>0. stage = "load" /\ k = elf.seg /\ ph = image.phs[k] /\ now = elf.table[k]
  BY DEF Current
<1>1. image \in Images /\ elf \in ElfType /\ InSegment(k)
  BY <1>0 DEF LoadInv, Second
<1>2. /\ k \in DOMAIN image.phs /\ ph.load /\ TableFrom(k + 1) /\ LoadedBelow(k)
      /\ now.offset \in 0 .. ph.offset /\ now.filesz \in 0 .. ph.filesz
      /\ now.offset > 0 => now.filesz = ph.filesz
      /\ elf.pos = ph.offset - now.offset + (ph.filesz - now.filesz)
      /\ elf.virtual = ph.vaddr + (ph.filesz - now.filesz)
      /\ ph.filesz < LOAD_SIZE =>
           \A a \in InMemory(ph) :
             mem[a] = IF a < elf.virtual THEN ph.offset + a - ph.vaddr + 1 ELSE 0
  BY <1>0, <1>1 DEF InSegment
<1>3. /\ DOMAIN image.phs = 1 .. Len(image.phs) /\ Len(image.phs) \in Nat
      /\ ph \in ProgramHeaders /\ ph.filesz <= ph.memsz /\ InMemory(ph) \subseteq Addresses
  BY <1>0, <1>1, <1>2, HeaderIs
<1>4. elf.table \in Seq(ProgramHeaders) /\ k \in Nat \ {0}
  BY <1>0, <1>1 DEF ElfType
<1>5. k \in 1 .. Len(elf.table) /\ DOMAIN elf.table = 1 .. Len(elf.table)
  BY <1>2, <1>3, <1>4, LenProperties DEF TableFrom
<1>6. now \in ProgramHeaders
  BY <1>0, <1>4, <1>5, ElementOfSeq
<1>7. ph.offset \in Nat /\ ph.vaddr \in Nat /\ ph.filesz \in Nat /\ ph.memsz \in Nat
  BY <1>3 DEF ProgramHeaders
<1> QED BY <1>1, <1>2, <1>3, <1>4, <1>5, <1>6, <1>7 DEF Known

(* A header in the table is replaced. *)
LEMMA TableWith ==
  ASSUME NEW t \in Seq(ProgramHeaders), NEW k \in 1 .. Len(t), NEW h \in ProgramHeaders
  PROVE  LET u == [t EXCEPT ![k] = h]
         IN  /\ u \in Seq(ProgramHeaders) /\ Len(u) = Len(t) /\ u[k] = h
             /\ \A j \in 1 .. Len(t) : j # k => u[j] = t[j]
BY ExceptSeq

(* A header with less of the bytes before it, or of its own, to read. *)
LEMMA HeaderLess ==
  ASSUME NEW h \in ProgramHeaders, NEW n \in Nat
  PROVE  LET o == [h EXCEPT !.offset = n]
             f == [h EXCEPT !.filesz = n]
         IN  /\ o \in ProgramHeaders /\ o.offset = n /\ o.filesz = h.filesz
             /\ f \in ProgramHeaders /\ f.filesz = n /\ f.offset = h.offset
BY DEF ProgramHeaders

(* Bytes in front of the segment are read. *)
LEMMA SeekStep ==
  ASSUME LoadInv, Seek
  PROVE  LoadInv'
<1>1. PICK k, ph, now : k = elf.seg /\ ph = image.phs[k] /\ now = elf.table[k]
  OBVIOUS
<1>0. Known(k, ph, now)
  <2>1. Current(k, ph, now)
    BY <1>1 DEF Current, Seek, Copy, InElf
  <2> QED BY ONLY LoadInv, <2>1, LoadingIs
<1>2. stage = "load" /\ image' = image /\ now.offset > 0
  BY <1>1 DEF Seek, InElf, Header
<1>3. /\ image \in Images /\ elf \in ElfType /\ k \in Nat \ {0} /\ k \in DOMAIN image.phs
      /\ DOMAIN image.phs = 1 .. Len(image.phs) /\ Len(image.phs) \in Nat
      /\ elf.table \in Seq(ProgramHeaders) /\ k \in 1 .. Len(elf.table)
      /\ now \in ProgramHeaders /\ ph.load
      /\ ph.offset \in Nat /\ ph.vaddr \in Nat /\ ph.filesz \in Nat
      /\ TableFrom(k + 1) /\ LoadedBelow(k)
      /\ now.offset \in 0 .. ph.offset /\ now.filesz = ph.filesz
      /\ elf.pos = ph.offset - now.offset + (ph.filesz - now.filesz)
      /\ elf.virtual = ph.vaddr + (ph.filesz - now.filesz)
      /\ ph.filesz < LOAD_SIZE =>
           \A a \in InMemory(ph) :
             mem[a] = IF a < elf.virtual THEN ph.offset + a - ph.vaddr + 1 ELSE 0
  BY <1>0, <1>2 DEF Known
<1>4. PICK n : n = Chunk(now.offset)
  OBVIOUS
<1>5. n \in Nat /\ n <= now.offset /\ now.offset \in Nat
  BY <1>3, <1>4, ChunkIs
<1>6. PICK h : h = [now EXCEPT !.offset = now.offset - n]
  OBVIOUS
<1>7. /\ h \in ProgramHeaders /\ h.offset = now.offset - n /\ h.filesz = now.filesz
  <2>1. now \in ProgramHeaders /\ now.offset - n \in Nat
    BY <1>3, <1>5
  <2> QED BY ONLY <1>6, <2>1, HeaderLess
<1>8. PICK t : t = [elf.table EXCEPT ![k] = h]
  OBVIOUS
<1>9. /\ t \in Seq(ProgramHeaders) /\ Len(t) = Len(elf.table) /\ t[k] = h
      /\ \A j \in 1 .. Len(elf.table) : j # k => t[j] = elf.table[j]
  BY <1>3, <1>7, <1>8, TableWith
<1>10. \/ /\ elf' = [elf EXCEPT !.pos = @ + n, !.table[elf.seg].offset = @ - n]
          /\ stage' = stage /\ mem' = mem
       \/ stage' \in {"wild", "ended"} /\ elf' = elf
  BY <1>1, <1>4 DEF Seek, MustRead, Header
<1>11. CASE stage' \in {"wild", "ended"} /\ elf' = elf
  BY <1>2, <1>3, <1>11 DEF LoadInv, Second
<1>12. CASE /\ elf' = [elf EXCEPT !.pos = @ + n, !.table[elf.seg].offset = @ - n]
            /\ stage' = stage /\ mem' = mem
  <2>1. elf' = [elf EXCEPT !.pos = elf.pos + n, !.table = t]
    BY <1>1, <1>3, <1>6, <1>8, <1>12 DEF ElfType
  <2>2. elf \in ElfType /\ elf.pos + n \in Int
    BY <1>3, <1>5 DEF ElfType
  <2>3. /\ elf' \in ElfType /\ elf'.table = t /\ elf'.pos = elf.pos + n /\ elf'.seg = elf.seg
        /\ elf'.virtual = elf.virtual
    BY ONLY <1>9, <2>1, <2>2, ElfTable DEF ElfType
  <2>4. image'.phs[k] = ph /\ k \in DOMAIN image'.phs /\ elf'.table[k] = h
    BY <1>1, <1>2, <1>3, <1>9, <2>3
  <2>5. TableFrom(k + 1)'
    BY <1>2, <1>3, <1>9, <2>3 DEF TableFrom
  <2>6. LoadedBelow(k)'
    BY <1>2, <1>3, <1>12 DEF LoadedBelow, Whole, Small, InMemory
  <2>7. /\ h.offset \in 0 .. ph.offset /\ h.filesz \in 0 .. ph.filesz /\ h.filesz = ph.filesz
        /\ elf'.pos = ph.offset - h.offset + (ph.filesz - h.filesz)
        /\ elf'.virtual = ph.vaddr + (ph.filesz - h.filesz)
    BY <1>3, <1>5, <1>7, <2>3, SMTT(20)
  <2>8. InSegment(k)'
    BY <1>3, <1>12, <2>3, <2>4, <2>5, <2>6, <2>7 DEF InSegment, InMemory
  <2> QED BY <1>1, <1>2, <1>3, <1>12, <2>3, <2>8 DEF LoadInv, Second
<1> QED BY <1>10, <1>11, <1>12

(* Bytes of the segment are copied to their place. *)
LEMMA CopyStep ==
  ASSUME LoadInv, Copy
  PROVE  LoadInv'
<1>1. PICK k, ph, now : k = elf.seg /\ ph = image.phs[k] /\ now = elf.table[k]
  OBVIOUS
<1>0. Known(k, ph, now)
  <2>1. Current(k, ph, now)
    BY <1>1 DEF Current, Seek, Copy, InElf
  <2> QED BY ONLY LoadInv, <2>1, LoadingIs
<1>2. stage = "load" /\ image' = image /\ now.offset = 0 /\ now.filesz > 0
  BY <1>1 DEF Copy, InElf, Header
<1>3. /\ image \in Images /\ elf \in ElfType /\ k \in Nat \ {0} /\ k \in DOMAIN image.phs
      /\ DOMAIN image.phs = 1 .. Len(image.phs) /\ Len(image.phs) \in Nat
      /\ elf.table \in Seq(ProgramHeaders) /\ k \in 1 .. Len(elf.table)
      /\ now \in ProgramHeaders /\ ph.load
      /\ ph.offset \in Nat /\ ph.vaddr \in Nat /\ ph.filesz \in Nat /\ ph.memsz \in Nat
      /\ ph.filesz <= ph.memsz /\ InMemory(ph) \subseteq Addresses
      /\ TableFrom(k + 1) /\ LoadedBelow(k) /\ now.filesz \in 0 .. ph.filesz
      /\ elf.pos = ph.offset - now.offset + (ph.filesz - now.filesz)
      /\ elf.virtual = ph.vaddr + (ph.filesz - now.filesz)
      /\ ph.filesz < LOAD_SIZE =>
           \A a \in InMemory(ph) :
             mem[a] = IF a < elf.virtual THEN ph.offset + a - ph.vaddr + 1 ELSE 0
  BY <1>0, <1>2 DEF Known
<1>4. PICK n, v, done : n = Chunk(now.filesz) /\ v = elf.virtual /\ done = ph.filesz - now.filesz
  OBVIOUS
<1>5. /\ n \in Nat /\ n <= now.filesz /\ now.filesz \in Nat /\ done \in Nat
      /\ v = ph.vaddr + done /\ elf.pos = ph.offset + done /\ done + now.filesz = ph.filesz
      /\ v \in Nat /\ n <= LOAD_SIZE
  <2>1. now.filesz \in Nat /\ now.filesz <= ph.filesz /\ ph.filesz \in Nat /\ ph.vaddr \in Nat
        /\ ph.offset \in Nat /\ now.offset = 0
        /\ elf.pos = ph.offset - now.offset + (ph.filesz - now.filesz)
        /\ v = ph.vaddr + (ph.filesz - now.filesz)
    BY <1>2, <1>3, <1>4
  <2>2. n \in Nat /\ n <= now.filesz /\ n <= LOAD_SIZE
    BY ONLY <1>4, <2>1, ChunkIs
  <2> QED BY ONLY <1>4, <2>1, <2>2
<1>6. PICK h : h = [now EXCEPT !.filesz = now.filesz - n]
  OBVIOUS
<1>7. h \in ProgramHeaders /\ h.filesz = now.filesz - n /\ h.offset = 0
  <2>1. now \in ProgramHeaders /\ now.filesz - n \in Nat
    BY <1>3, <1>5, SMTT(20)
  <2>2. h \in ProgramHeaders /\ h.filesz = now.filesz - n /\ h.offset = now.offset
    BY ONLY <1>6, <2>1, HeaderLess
  <2> QED BY <1>2, <2>2
<1>8. PICK t : t = [elf.table EXCEPT ![k] = h]
  OBVIOUS
<1>9. /\ t \in Seq(ProgramHeaders) /\ Len(t) = Len(elf.table) /\ t[k] = h
      /\ \A j \in 1 .. Len(elf.table) : j # k => t[j] = elf.table[j]
  BY <1>3, <1>7, <1>8, TableWith
<1>10. \/ /\ elf' = [elf EXCEPT !.pos = @ + n, !.virtual = @ + n, !.table[elf.seg].filesz = @ - n]
          /\ stage' = stage /\ mem' = memcpy(elf.virtual, elf.pos, n)
       \/ stage' \in {"wild", "ended"} /\ elf' = elf
  BY <1>1, <1>4 DEF Copy, MustRead, Header
<1>11. CASE stage' \in {"wild", "ended"} /\ elf' = elf
  BY <1>2, <1>3, <1>11 DEF LoadInv, Second
<1>12. CASE /\ elf' = [elf EXCEPT !.pos = @ + n, !.virtual = @ + n, !.table[elf.seg].filesz = @ - n]
            /\ stage' = stage /\ mem' = memcpy(elf.virtual, elf.pos, n)
  <2>1. elf' = [elf EXCEPT !.pos = elf.pos + n, !.virtual = v + n, !.table = t]
    BY <1>1, <1>3, <1>4, <1>6, <1>8, <1>12 DEF ElfType
  <2>2. elf \in ElfType /\ elf.pos + n \in Int /\ v + n \in Int
    BY <1>3, <1>5, SMTT(20)
  <2>3. /\ elf' \in ElfType /\ elf'.table = t /\ elf'.pos = elf.pos + n /\ elf'.seg = elf.seg
        /\ elf'.virtual = v + n
    BY ONLY <1>9, <2>1, <2>2, ElfMoved DEF ElfType
  <2>4. image'.phs[k] = ph /\ k \in DOMAIN image'.phs /\ elf'.table[k] = h
    BY <1>1, <1>2, <1>3, <1>9, <2>3
  <2>5. TableFrom(k + 1)'
    BY <1>2, <1>3, <1>9, <2>3 DEF TableFrom
  <2>6. PICK w : w = n % CopyWrap
    OBVIOUS
  <2>7. /\ w \in Nat /\ w <= n /\ (n < CopyWrap => w = n)
    BY <1>5, <2>6, Wraps
  <2>8. \A a \in Addresses :
          mem'[a] = IF a \in v .. v + w - 1 THEN elf.pos + a - v + 1 ELSE mem[a]
    BY <1>4, <1>12, <2>6 DEF memcpy
  <2>9. \A a \in v .. v + w - 1 : a \in InMemory(ph)
    <3>1. /\ n \in Nat /\ now.filesz \in Nat /\ n <= now.filesz /\ done \in Nat /\ ph.vaddr \in Nat
          /\ v = ph.vaddr + done /\ done + now.filesz = ph.filesz /\ w \in Nat /\ w <= n
          /\ ph.filesz \in Nat /\ ph.memsz \in Nat /\ ph.filesz <= ph.memsz
      BY <1>3, <1>5, <2>7
    <3>2. \A a \in v .. v + w - 1 : a \in ph.vaddr .. ph.vaddr + ph.memsz - 1
      BY ONLY <3>1
    <3> QED BY <3>2 DEF InMemory
  <2>10. LoadedBelow(k)'
    BY <1>1, <1>2, <1>3, <2>8, <2>9, OthersStayWhole
  <2>11. ASSUME ph.filesz < LOAD_SIZE, NEW a \in InMemory(ph)
         PROVE  mem'[a] = IF a < v + n THEN ph.offset + a - ph.vaddr + 1 ELSE 0
    <3>1. w = n
      <4>1. n <= now.filesz /\ now.filesz <= ph.filesz /\ ph.filesz < LOAD_SIZE /\ n \in Nat
            /\ now.filesz \in Nat /\ ph.filesz \in Nat
        BY <1>3, <1>5, <2>11
      <4>2. LOAD_SIZE \in Nat /\ CopyWrap \in Nat /\ LOAD_SIZE <= CopyWrap
        BY BootAssumption
      <4>3. n < CopyWrap
        BY ONLY <4>1, <4>2
      <4> QED BY <2>7, <4>3
    <3>2. mem[a] = IF a < v THEN ph.offset + a - ph.vaddr + 1 ELSE 0
      BY <1>3, <1>4, <2>11
    <3>3. a \in Addresses /\ a \in Int
      BY <1>3 DEF InMemory
    <3>4. elf.pos + a - v + 1 = ph.offset + a - ph.vaddr + 1
      <4>1. elf.pos = ph.offset + done /\ v = ph.vaddr + done /\ a \in Int /\ done \in Nat
            /\ ph.offset \in Nat /\ ph.vaddr \in Nat
        BY <1>3, <1>5, <3>3
      <4> QED BY ONLY <4>1
    <3>5. a \in v .. v + n - 1 <=> v <= a /\ a < v + n
      <4>1. v \in Nat /\ n \in Nat
        BY <1>5
      <4> QED BY ONLY <3>3, <4>1
    <3>6. v \in Int /\ v <= v + n
      <4>1. v \in Nat /\ n \in Nat
        BY <1>5
      <4> QED BY ONLY <4>1
    <3>7. CASE a \in v .. v + n - 1
      BY <2>8, <3>1, <3>3, <3>4, <3>5, <3>7
    <3>8. CASE a \notin v .. v + n - 1
      <4>1. mem'[a] = mem[a]
        BY <2>8, <3>1, <3>3, <3>8
      <4>2. a < v + n <=> a < v
        BY <1>5, <3>3, <3>5, <3>6, <3>8
      <4> QED BY <3>2, <4>1, <4>2
    <3> QED BY <3>7, <3>8
  <2>12. /\ h.filesz \in 0 .. ph.filesz /\ h.offset \in 0 .. ph.offset /\ ~(h.offset > 0)
         /\ elf'.pos = ph.offset - h.offset + (ph.filesz - h.filesz)
         /\ elf'.virtual = ph.vaddr + (ph.filesz - h.filesz)
    <3>1. /\ n \in Nat /\ n <= now.filesz /\ now.filesz \in Nat /\ done \in Nat
          /\ v = ph.vaddr + done /\ elf.pos = ph.offset + done /\ done + now.filesz = ph.filesz
          /\ ph.offset \in Nat /\ ph.vaddr \in Nat /\ ph.filesz \in Nat
          /\ h.filesz = now.filesz - n /\ h.offset = 0
          /\ elf'.pos = elf.pos + n /\ elf'.virtual = v + n
      BY <1>3, <1>5, <1>7, <2>3
    <3> QED BY ONLY <3>1
  <2>13. InMemory(ph)' = InMemory(ph) /\ elf'.virtual = v + n
    BY <2>3 DEF InMemory
  <2>14. InSegment(k)'
    BY <1>3, <2>4, <2>5, <2>10, <2>11, <2>12, <2>13 DEF InSegment, InMemory
  <2> QED BY <1>1, <1>2, <1>3, <1>12, <2>3, <2>14 DEF LoadInv, Second
<1> QED BY <1>10, <1>11, <1>12

(* A segment is in memory; start() looks at what has been loaded. *)
LEMMA EndStep ==
  ASSUME LoadInv, EndSegment \/ Check
  PROVE  LoadInv'
<1>1. CASE EndSegment
  <2>1. PICK k, ph, now : k = elf.seg /\ ph = image.phs[k] /\ now = elf.table[k]
    OBVIOUS
  <2>0. Known(k, ph, now)
    <3>1. Current(k, ph, now)
      BY <1>1, <2>1 DEF Current, EndSegment, InElf
    <3> QED BY ONLY LoadInv, <3>1, LoadingIs
  <2>2. /\ stage = "load" /\ image' = image /\ now.offset = 0 /\ now.filesz = 0 /\ mem' = mem
        /\ stage' = "segment" /\ elf' = [elf EXCEPT !.pos = Lost, !.seg = @ + 1]
    BY <1>1, <2>1 DEF EndSegment, InElf, Header
  <2>3. /\ image \in Images /\ elf \in ElfType /\ k \in Nat \ {0} /\ k \in DOMAIN image.phs
        /\ DOMAIN image.phs = 1 .. Len(image.phs) /\ ph.filesz \in Nat
        /\ TableFrom(k + 1) /\ LoadedBelow(k)
        /\ elf.virtual = ph.vaddr + (ph.filesz - now.filesz)
        /\ ph.filesz < LOAD_SIZE =>
             \A a \in InMemory(ph) :
               mem[a] = IF a < elf.virtual THEN ph.offset + a - ph.vaddr + 1 ELSE 0
    BY <2>0 DEF Known
  <2>4. elf' \in ElfType /\ elf'.seg = k + 1 /\ elf'.table = elf.table
    <3>1. elf \in ElfType /\ Lost \in Int /\ elf' = [elf EXCEPT !.pos = Lost, !.seg = @ + 1]
      BY <2>2, <2>3 DEF Lost
    <3>2. elf' \in ElfType /\ elf'.seg = elf.seg + 1 /\ elf'.table = elf.table
      BY ONLY <3>1, ElfNext
    <3> QED BY <2>1, <3>2
  <2>5. TableFrom(k + 1)'
    BY <2>2, <2>3, <2>4 DEF TableFrom
  <2>6. elf.virtual = ph.vaddr + ph.filesz
    BY <2>2, <2>3
  <2>7. ph.filesz < LOAD_SIZE => Whole(ph)
    BY <2>3, <2>6 DEF Whole
  <2>8. \A j \in DOMAIN image.phs : j < k + 1 => j < k \/ j = k
    BY <2>3
  <2>9. LoadedBelow(k + 1)
    BY <2>1, <2>3, <2>7, <2>8 DEF LoadedBelow, Small
  <2>10. LoadedBelow(k + 1)'
    BY <2>2, <2>9 DEF LoadedBelow, Whole, Small, InMemory
  <2> QED BY <2>2, <2>3, <2>4, <2>5, <2>10 DEF LoadInv
<1>2. CASE Check
  <2>1. /\ stage = "check" /\ stage' \in {"ended", "jump"} /\ UNCHANGED <<image, elf, mem>>
    BY <1>2 DEF Check, InElf
  <2>2. LoadedBelow(Len(image.phs) + 1)'
    BY <2>1 DEF LoadInv, LoadedBelow, Whole, Small, InMemory
  <2> QED BY <2>1, <2>2 DEF LoadInv, Second
<1> QED BY <1>1, <1>2

--------------------------------------------------------------------------------
(* Both hold of the machine that has not been started, *)
LEMMA BootStarts == SystemInit => SoundInv /\ LoadInv
<1> SUFFICES ASSUME SystemInit PROVE SoundInv /\ LoadInv
  OBVIOUS
<1>1. /\ stage = "off" /\ drive = "floppy" /\ stage1 = Stage1Start /\ elf = ElfStart
      /\ regions = 0
  BY DEF SystemInit, BootInit
<1>2. Placed(stage1.extent - 1)
  BY <1>1, Stage1StartIs DEF Placed
<1>3. SoundInv
  BY <1>1, <1>2, Stage1StartIs, BootAssumption DEF SoundInv, Second
<1>4. LoadInv
  BY <1>1, ElfStartIs DEF LoadInv, Second
<1> QED BY <1>3, <1>4

(* and after every step of a boot, *)
LEMMA BootingKeeps ==
  ASSUME SoundInv, LoadInv, BootStep
  PROVE  SoundInv' /\ LoadInv'
<1>1. CASE PowerOn \/ SectorsRead \/ ReadFails \/ Stage2Entered
  BY <1>1, Stage1Step, LoadKept
<1>2. CASE DISK_Initialize \/ MBR_DetectPartition \/ FAT_Initialize \/ MemoryBlock \/ EnterKernel
  BY <1>2, Stage2Step, LoadKept
<1>3. CASE OpenKernel \/ ReadHeader \/ SkipToTable \/ ReadTable
  BY <1>3, Stage2Step, TableSteps DEF ElfStep
<1>4. CASE BeginSegment \/ SkipSegment \/ Loaded
  BY <1>4, Stage2Step, SegmentSteps DEF ElfStep
<1>5. CASE Seek
  BY <1>5, Stage2Step, SeekStep DEF ElfStep
<1>6. CASE Copy
  BY <1>6, Stage2Step, CopyStep DEF ElfStep
<1>7. CASE EndSegment \/ Check
  BY <1>7, Stage2Step, EndStep DEF ElfStep
<1> QED BY <1>1, <1>2, <1>3, <1>4, <1>5, <1>6, <1>7 DEF BootStep

(* every step of the kernel's session and the steps that end it. *)
LEMMA BootInvariant ==
  ASSUME SoundInv, LoadInv, [SystemNext]_systemVars
  PROVE  SoundInv' /\ LoadInv'
<1>1. CASE Booting
  BY <1>1, BootingKeeps DEF Booting
<1>2. CASE Retrying \/ Reboot \/ Exit
  <2>1. /\ UNCHANGED <<drive, image, stage1, at2000, offset, regions, elf, mem>>
        /\ stage' \in {"off", "halted"}
    BY <1>2 DEF Retrying, KeyPressed, Reboot, Exit
  <2>2. SoundInv'
    BY <2>1, SoundKept DEF Second
  <2>3. LoadInv'
    BY <2>1 DEF LoadInv, Second
  <2> QED BY <2>2, <2>3
<1>3. CASE Running \/ UNCHANGED systemVars
  <2>1. UNCHANGED <<stage, drive, image, stage1, at2000, offset, regions, elf, mem>>
    BY <1>3 DEF Running, systemVars, bootVars
  <2>2. SoundInv'
    BY <2>1, SoundKept
  <2>3. LoadInv'
    BY <2>1 DEF LoadInv, TableFrom, LoadedBelow, Whole, Small, InMemory, InSegment
  <2> QED BY <2>2, <2>3
<1> QED BY <1>1, <1>2, <1>3 DEF SystemNext

(* What holds of every boot, of whatever extents, kernel files and tries:  *)
(* the boot sector's loop over the extents and ELF_Read's over the         *)
(* segments keep what they have stored.                                    *)
THEOREM BootKeepsWhatItStored == SystemSpec => [](SoundInv /\ LoadInv)
<1>1. SystemInit => SoundInv /\ LoadInv
  BY BootStarts
<1>2. SoundInv /\ LoadInv /\ [SystemNext]_systemVars => (SoundInv /\ LoadInv)'
  BY BootInvariant
<1> QED BY <1>1, <1>2, PTL DEF SystemSpec

(* The second stage is entered with all its sectors in their order, after  *)
(* any tries, keeps the start of the partition before it is overwritten,   *)
(* and counts no more memory regions than it has room for.                 *)
THEOREM SecondStageIsSound == SystemSpec => []Stage2Sound
<1>1. SoundInv => Stage2Sound
  <2> SUFFICES ASSUME SoundInv PROVE Stage2Sound
    OBVIOUS
  <2>1. N \in Nat /\ DOMAIN Extents = 1 .. N
    BY BeforeIs
  <2>2. stage \in {"disk", "jump"} => Placed(N)
    BY <2>1 DEF SoundInv, Second
  <2>3. stage \in {"memory", "jump"} => offset = IF drive = "floppy" THEN 0 ELSE PartitionStart
    BY DEF SoundInv, Second
  <2>4. regions \in 0 .. MAX_REGIONS
    BY DEF SoundInv
  <2> QED BY <2>1, <2>2, <2>3, <2>4 DEF Stage2Sound, Placed
<1> QED BY <1>1, BootKeepsWhatItStored, PTL

(* The kernel is started only with each of its segments of less than       *)
(* MEMORY_LOAD_SIZE as the file has it and zeros behind, whatever a        *)
(* session before has left in memory: ELF_Read clears before it copies,    *)
(* and what it copies for one segment stays out of the others.             *)
THEOREM KernelIsWhole == SystemSpec => []KernelWhole
<1>1. LoadInv => KernelWhole
  <2> SUFFICES ASSUME LoadInv, stage = "jump", NEW k \in DOMAIN image.phs,
                      image.phs[k].load, image.phs[k].filesz < LOAD_SIZE
               PROVE  Whole(image.phs[k])
    BY DEF KernelWhole
  <2>1. image \in Images /\ LoadedBelow(Len(image.phs) + 1)
    BY DEF LoadInv, Second
  <2>2. DOMAIN image.phs = 1 .. Len(image.phs) /\ Len(image.phs) \in Nat
    BY <2>1, HeaderIs
  <2> QED BY <2>1, <2>2 DEF LoadedBelow, Small
<1> QED BY <1>1, BootKeepsWhatItStored, PTL

--------------------------------------------------------------------------------
(* The line editor: a sequence in which an element is put at a place,      *)
LEMMA InsertAtIs ==
  ASSUME NEW S, NEW s \in Seq(S), NEW p \in 1 .. Len(s) + 1, NEW e \in S
  PROVE  /\ InsertAt(s, p, e) \in Seq(S) /\ Len(InsertAt(s, p, e)) = Len(s) + 1
         /\ \A i \in 1 .. Len(s) + 1 :
              InsertAt(s, p, e)[i] = IF i < p THEN s[i] ELSE IF i = p THEN e ELSE s[i - 1]
<1>1. Len(s) \in Nat /\ p \in Nat \ {0} /\ \A i \in 1 .. Len(s) : s[i] \in S
  BY LenProperties, ElementOfSeq
<1>2. PICK a, b, c : a = SubSeq(s, 1, p - 1) /\ b = <<e>> /\ c = SubSeq(s, p, Len(s))
  OBVIOUS
<1>3. /\ a \in Seq(S) /\ Len(a) = p - 1 /\ \A i \in 1 .. p - 1 : a[i] = s[i]
  <2>1. p - 1 \in Int /\ 1 \in Int /\ \A i \in 1 .. p - 1 : s[i] \in S
    BY <1>1
  <2>2. /\ SubSeq(s, 1, p - 1) \in Seq(S)
        /\ Len(SubSeq(s, 1, p - 1)) = IF 1 <= p - 1 THEN (p - 1) - 1 + 1 ELSE 0
        /\ \A i \in 1 .. (p - 1) - 1 + 1 : SubSeq(s, 1, p - 1)[i] = s[1 + i - 1]
    BY ONLY <2>1, SubSeqProperties
  <2> QED BY <1>1, <1>2, <2>2
<1>4. /\ c \in Seq(S) /\ Len(c) = Len(s) - p + 1
      /\ \A i \in 1 .. Len(s) - p + 1 : c[i] = s[p + i - 1]
  <2>1. p \in Int /\ Len(s) \in Int /\ \A i \in p .. Len(s) : s[i] \in S
    BY <1>1
  <2>2. /\ SubSeq(s, p, Len(s)) \in Seq(S)
        /\ Len(SubSeq(s, p, Len(s))) = IF p <= Len(s) THEN Len(s) - p + 1 ELSE 0
        /\ \A i \in 1 .. Len(s) - p + 1 : SubSeq(s, p, Len(s))[i] = s[p + i - 1]
    BY ONLY <2>1, SubSeqProperties
  <2> QED BY <1>1, <1>2, <2>2
<1>5. b \in Seq(S) /\ Len(b) = 1 /\ b[1] = e
  BY <1>2
<1>6. /\ a \o b \in Seq(S) /\ Len(a \o b) = p
      /\ \A i \in 1 .. p : (a \o b)[i] = IF i < p THEN a[i] ELSE e
  <2>1. /\ a \o b \in Seq(S) /\ Len(a \o b) = Len(a) + Len(b)
        /\ \A i \in 1 .. Len(a) + Len(b) : (a \o b)[i] = IF i <= Len(a) THEN a[i] ELSE b[i - Len(a)]
    BY ONLY <1>3, <1>5, ConcatProperties
  <2> QED BY <1>1, <1>3, <1>5, <2>1
<1>7. PICK d : d = a \o b
  OBVIOUS
<1>8. /\ d \o c \in Seq(S) /\ Len(d \o c) = Len(d) + Len(c)
      /\ \A i \in 1 .. Len(d) + Len(c) : (d \o c)[i] = IF i <= Len(d) THEN d[i] ELSE c[i - Len(d)]
  <2>1. d \in Seq(S) /\ c \in Seq(S)
    BY <1>4, <1>6, <1>7
  <2> QED BY ONLY <2>1, ConcatProperties
<1>9. InsertAt(s, p, e) = d \o c
  BY <1>2, <1>7 DEF InsertAt
<1>10. Len(d) = p /\ Len(d) + Len(c) = Len(s) + 1
  <2>1. Len(d) = p
    BY ONLY <1>6, <1>7
  <2>2. Len(c) = Len(s) - p + 1
    BY ONLY <1>4
  <2> QED BY ONLY <1>1, <2>1, <2>2
<1>11. ASSUME NEW i \in 1 .. Len(s) + 1
       PROVE  (d \o c)[i] = IF i < p THEN s[i] ELSE IF i = p THEN e ELSE s[i - 1]
  <2>1. CASE i <= p
    BY <1>1, <1>3, <1>6, <1>7, <1>8, <1>10, <2>1
  <2>2. CASE i > p
    <3>1. PICK j : j = i - p
      OBVIOUS
    <3>2. j \in 1 .. Len(s) - p + 1 /\ p + j - 1 = i - 1 /\ i # p /\ ~(i < p)
      BY <1>1, <2>2, <3>1
    <3>3. (d \o c)[i] = c[j]
      BY <1>1, <1>8, <1>10, <2>2, <3>1
    <3>4. c[j] = s[i - 1]
      BY <1>4, <3>2
    <3>5. (d \o c)[i] = s[i - 1]
      BY ONLY <3>3, <3>4
    <3> QED BY <3>2, <3>5
  <2>3. i <= p \/ i > p
    BY <1>1
  <2> QED BY <2>1, <2>2, <2>3
<1> QED BY <1>8, <1>9, <1>10, <1>11

(* and one in which an element is left out.                                *)
LEMMA RemoveAtIs ==
  ASSUME NEW S, NEW s \in Seq(S), NEW p \in 1 .. Len(s)
  PROVE  /\ RemoveAt(s, p) \in Seq(S) /\ Len(RemoveAt(s, p)) = Len(s) - 1
         /\ \A i \in 1 .. Len(s) - 1 : RemoveAt(s, p)[i] = IF i < p THEN s[i] ELSE s[i + 1]
<1>1. Len(s) \in Nat /\ p \in Nat \ {0} /\ \A i \in 1 .. Len(s) : s[i] \in S
  BY LenProperties, ElementOfSeq
<1>2. PICK a, c : a = SubSeq(s, 1, p - 1) /\ c = SubSeq(s, p + 1, Len(s))
  OBVIOUS
<1>3. /\ a \in Seq(S) /\ Len(a) = p - 1 /\ \A i \in 1 .. p - 1 : a[i] = s[i]
  <2>1. p - 1 \in Int /\ 1 \in Int /\ \A i \in 1 .. p - 1 : s[i] \in S
    BY <1>1
  <2>2. /\ SubSeq(s, 1, p - 1) \in Seq(S)
        /\ Len(SubSeq(s, 1, p - 1)) = IF 1 <= p - 1 THEN (p - 1) - 1 + 1 ELSE 0
        /\ \A i \in 1 .. (p - 1) - 1 + 1 : SubSeq(s, 1, p - 1)[i] = s[1 + i - 1]
    BY ONLY <2>1, SubSeqProperties
  <2> QED BY <1>1, <1>2, <2>2
<1>4. /\ c \in Seq(S) /\ Len(c) = Len(s) - p
      /\ \A i \in 1 .. Len(s) - p : c[i] = s[p + i]
  <2>1. p + 1 \in Int /\ Len(s) \in Int /\ \A i \in p + 1 .. Len(s) : s[i] \in S
    BY <1>1
  <2>2. /\ SubSeq(s, p + 1, Len(s)) \in Seq(S)
        /\ Len(SubSeq(s, p + 1, Len(s))) = IF p + 1 <= Len(s) THEN Len(s) - (p + 1) + 1 ELSE 0
        /\ \A i \in 1 .. Len(s) - (p + 1) + 1 : SubSeq(s, p + 1, Len(s))[i] = s[(p + 1) + i - 1]
    BY ONLY <2>1, SubSeqProperties
  <2> QED BY <1>1, <1>2, <2>2
<1>5. /\ a \o c \in Seq(S) /\ Len(a \o c) = Len(a) + Len(c)
      /\ \A i \in 1 .. Len(a) + Len(c) : (a \o c)[i] = IF i <= Len(a) THEN a[i] ELSE c[i - Len(a)]
  BY ONLY <1>3, <1>4, ConcatProperties
<1>6. RemoveAt(s, p) = a \o c
  BY <1>2 DEF RemoveAt
<1>7. Len(a) = p - 1 /\ Len(a) + Len(c) = Len(s) - 1
  BY <1>1, <1>3, <1>4
<1>8. ASSUME NEW i \in 1 .. Len(s) - 1
      PROVE  (a \o c)[i] = IF i < p THEN s[i] ELSE s[i + 1]
  <2>1. CASE i < p
    BY <1>1, <1>3, <1>5, <1>7, <2>1
  <2>2. CASE i >= p
    <3>1. PICK j : j = i - (p - 1)
      OBVIOUS
    <3>2. j \in 1 .. Len(s) - p /\ p + j = i + 1 /\ ~(i < p)
      BY <1>1, <2>2, <3>1
    <3>3. (a \o c)[i] = c[j]
      BY <1>1, <1>5, <1>7, <2>2, <3>1
    <3>4. c[j] = s[i + 1]
      BY <1>4, <3>2
    <3>5. (a \o c)[i] = s[i + 1]
      BY ONLY <3>3, <3>4
    <3> QED BY <3>2, <3>5
  <2>3. i < p \/ i >= p
    BY <1>1
  <2> QED BY <2>1, <2>2, <2>3
<1> QED BY <1>5, <1>6, <1>7, <1>8

(* A buffer that holds a line of n characters, and zeros behind. *)
Chars == Printable \cup Special

Lined(b, n) ==
  /\ b \in [0 .. SHELL_BUFFER_SIZE - 1 -> Chars \cup {Zero}]
  /\ n \in 0 .. SHELL_BUFFER_SIZE - 1
  /\ \A i \in 0 .. SHELL_BUFFER_SIZE - 1 : b[i] = Zero <=> i >= n

TextOf(b, n) == [k \in 1 .. n |-> b[k - 1]]

(* The shell has such a buffer and a cursor in its line, and the line is   *)
(* empty unless the kernel runs.                                           *)
LineInv ==
  /\ Lined(command_buffer, command_pos)
  /\ cursor_position \in 0 .. command_pos
  /\ stage # "kernel" => command_pos = 0 /\ cursor_position = 0

(* The line is a sequence of characters. *)
LEMMA TextIs ==
  ASSUME NEW b, NEW n, Lined(b, n)
  PROVE  /\ n \in Nat /\ TextOf(b, n) \in Seq(Chars) /\ Len(TextOf(b, n)) = n
         /\ \A k \in 1 .. n : TextOf(b, n)[k] = b[k - 1]
<1>1. n \in Nat /\ SHELL_BUFFER_SIZE \in Nat /\ n < SHELL_BUFFER_SIZE
  BY ShellAssumption DEF Lined
<1>2. ASSUME NEW k \in 1 .. n PROVE b[k - 1] \in Chars
  <2>1. k - 1 \in 0 .. SHELL_BUFFER_SIZE - 1 /\ ~(k - 1 >= n)
    BY <1>1
  <2> QED BY <2>1 DEF Lined
<1>3. TextOf(b, n) \in [1 .. n -> Chars]
  BY <1>2 DEF TextOf
<1>4. TextOf(b, n) \in Seq(Chars)
  BY <1>1, <1>3, SeqDef
<1>5. Len(TextOf(b, n)) = n
  <2>1. PICK l : l = Len(TextOf(b, n))
    OBVIOUS
  <2>2. l \in Nat /\ DOMAIN TextOf(b, n) = 1 .. l
    BY <1>4, <2>1, LenProperties
  <2>3. DOMAIN TextOf(b, n) = 1 .. n
    BY DEF TextOf
  <2>4. l \in 1 .. l \/ l = 0
    BY ONLY <2>2
  <2>5. l <= n
    BY ONLY <1>1, <2>2, <2>3, <2>4
  <2>6. n \in 1 .. n \/ n = 0
    BY ONLY <1>1
  <2>7. n <= l
    BY ONLY <1>1, <2>2, <2>3, <2>6
  <2> QED BY ONLY <1>1, <2>1, <2>2, <2>5, <2>7
<1> QED BY <1>1, <1>4, <1>5 DEF TextOf

(* Two texts with the same characters are one. *)
LEMMA SameText ==
  ASSUME NEW b, NEW n, Lined(b, n), NEW t \in Seq(Chars), Len(t) = n,
         \A k \in 1 .. n : t[k] = b[k - 1]
  PROVE  TextOf(b, n) = t
<1>1. /\ TextOf(b, n) \in Seq(Chars) /\ Len(TextOf(b, n)) = n
      /\ \A k \in 1 .. n : TextOf(b, n)[k] = b[k - 1]
  BY TextIs
<1>2. PICK u : u = TextOf(b, n)
  OBVIOUS
<1>3. u \in Seq(Chars) /\ Len(u) = Len(t) /\ \A k \in 1 .. Len(u) : u[k] = t[k]
  BY <1>1, <1>2
<1>4. u = t
  BY ONLY <1>3, t \in Seq(Chars), SeqEqual
<1> QED BY <1>2, <1>4

(* A buffer of zeros holds the empty line. *)
LEMMA EmptyIs == Lined(Empty, 0) /\ TextOf(Empty, 0) = << >>
<1>1. SHELL_BUFFER_SIZE \in Nat \ {0}
  BY ShellAssumption
<1>2. Lined(Empty, 0)
  BY <1>1 DEF Lined, Empty
<1>3. << >> \in Seq(Chars) /\ Len(<< >>) = 0 /\ \A k \in 1 .. 0 : << >>[k] = Empty[k - 1]
  BY EmptySeq
<1>4. TextOf(Empty, 0) = << >>
  BY ONLY <1>2, <1>3, SameText
<1> QED BY <1>2, <1>4

(* A character put in at the cursor: what is behind it moves on. *)
LEMMA OpenedIs ==
  ASSUME LineInv, NEW c \in Chars, command_pos < SHELL_BUFFER_SIZE - 1
  PROVE  /\ Lined(Opened(c), command_pos + 1)
         /\ TextOf(Opened(c), command_pos + 1) =
              InsertAt(TextOf(command_buffer, command_pos), cursor_position + 1, c)
<1>1. PICK b, n, p, o, t : /\ b = command_buffer /\ n = command_pos /\ p = cursor_position
                          /\ o = Opened(c) /\ t = InsertAt(TextOf(b, n), p + 1, c)
  OBVIOUS
<1>2. /\ Lined(b, n) /\ n \in Nat /\ p \in Nat /\ p <= n /\ n < SHELL_BUFFER_SIZE - 1
      /\ SHELL_BUFFER_SIZE \in Nat /\ c # Zero
  BY <1>1, ShellAssumption DEF LineInv, Lined, Chars
<1>3. /\ b \in [0 .. SHELL_BUFFER_SIZE - 1 -> Chars \cup {Zero}]
      /\ \A i \in 0 .. SHELL_BUFFER_SIZE - 1 : b[i] = Zero <=> i >= n
  BY <1>2 DEF Lined
<1>4. o = [i \in 0 .. SHELL_BUFFER_SIZE - 1 |->
             IF i \in p + 1 .. n THEN b[i - 1] ELSE IF i = p THEN c ELSE b[i]]
  BY <1>1, <1>3 DEF Opened
<1>5. ASSUME NEW i \in 0 .. SHELL_BUFFER_SIZE - 1
      PROVE  o[i] \in Chars \cup {Zero} /\ (o[i] = Zero <=> i >= n + 1)
  <2>1. CASE i \in p + 1 .. n
    <3>1. i - 1 \in 0 .. SHELL_BUFFER_SIZE - 1 /\ ~(i - 1 >= n) /\ ~(i >= n + 1)
      BY <1>2, <2>1
    <3> QED BY <1>3, <1>4, <2>1, <3>1
  <2>2. CASE i = p
    BY <1>2, <1>4, <2>2
  <2>3. CASE i \notin p + 1 .. n /\ i # p
    <3>1. i < p \/ i >= n + 1
      BY <1>2, <2>3
    <3>2. i >= n <=> i >= n + 1
      BY <1>2, <3>1
    <3> QED BY <1>3, <1>4, <2>3, <3>2
  <2> QED BY <2>1, <2>2, <2>3
<1>6. Lined(o, n + 1)
  <2>1. o \in [0 .. SHELL_BUFFER_SIZE - 1 -> Chars \cup {Zero}]
    BY <1>4, <1>5
  <2>2. n + 1 \in 0 .. SHELL_BUFFER_SIZE - 1
    BY <1>2
  <2> QED BY <1>5, <2>1, <2>2 DEF Lined
<1>7. PICK s : s = TextOf(b, n)
  OBVIOUS
<1>8. s \in Seq(Chars) /\ Len(s) = n /\ \A k \in 1 .. n : s[k] = b[k - 1]
  BY <1>2, <1>7, TextIs
<1>9. /\ t \in Seq(Chars) /\ Len(t) = n + 1
      /\ \A i \in 1 .. n + 1 : t[i] = IF i < p + 1 THEN s[i] ELSE IF i = p + 1 THEN c ELSE s[i - 1]
  <2>1. t = InsertAt(s, p + 1, c) /\ p + 1 \in 1 .. Len(s) + 1 /\ s \in Seq(Chars) /\ c \in Chars
    BY <1>1, <1>2, <1>7, <1>8
  <2>2. /\ t \in Seq(Chars) /\ Len(t) = Len(s) + 1
        /\ \A i \in 1 .. Len(s) + 1 : t[i] = IF i < p + 1 THEN s[i] ELSE IF i = p + 1 THEN c ELSE s[i - 1]
    BY ONLY <2>1, InsertAtIs, SMTT(20)
  <2> QED BY <1>8, <2>2
<1>10. ASSUME NEW k \in 1 .. n + 1 PROVE t[k] = o[k - 1]
  <2>1. PICK i : i = k - 1
    OBVIOUS
  <2>2. i \in 0 .. SHELL_BUFFER_SIZE - 1 /\ k = i + 1 /\ i \in 0 .. n
    BY <1>2, <2>1
  <2>3. CASE i < p
    <3>1. k < p + 1 /\ k \in 1 .. n /\ i \notin p + 1 .. n /\ i # p
      BY <1>2, <2>2, <2>3
    <3> QED BY <1>4, <1>8, <1>9, <2>1, <2>2, <3>1
  <2>4. CASE i = p
    <3>1. ~(k < p + 1) /\ k = p + 1 /\ i \notin p + 1 .. n
      BY <1>2, <2>2, <2>4
    <3> QED BY <1>4, <1>9, <2>1, <2>2, <2>4, <3>1
  <2>5. CASE i > p
    <3>1. ~(k < p + 1) /\ k # p + 1 /\ i \in p + 1 .. n /\ i \in 1 .. n
      BY <1>2, <2>2, <2>5
    <3>2. t[k] = s[i] /\ s[i] = b[i - 1] /\ o[i] = b[i - 1]
      BY <1>4, <1>8, <1>9, <2>1, <2>2, <3>1
    <3> QED BY <2>1, <3>2
  <2> QED BY <1>2, <2>2, <2>3, <2>4, <2>5
<1>11. TextOf(o, n + 1) = t
  BY ONLY <1>6, <1>9, <1>10, SameText
<1> QED BY <1>1, <1>6, <1>11

(* The character before the cursor left out: what is behind moves back. *)
LEMMA ClosedIs ==
  ASSUME LineInv, cursor_position > 0
  PROVE  /\ Lined(Closed, command_pos - 1)
         /\ TextOf(Closed, command_pos - 1) =
              RemoveAt(TextOf(command_buffer, command_pos), cursor_position)
<1>1. PICK b, n, p, o, t : /\ b = command_buffer /\ n = command_pos /\ p = cursor_position
                          /\ o = Closed /\ t = RemoveAt(TextOf(b, n), p)
  OBVIOUS
<1>2. /\ Lined(b, n) /\ n \in Nat /\ p \in Nat /\ p <= n /\ n < SHELL_BUFFER_SIZE /\ p > 0
      /\ SHELL_BUFFER_SIZE \in Nat
  BY <1>1, ShellAssumption DEF LineInv, Lined
<1>3. /\ b \in [0 .. SHELL_BUFFER_SIZE - 1 -> Chars \cup {Zero}]
      /\ \A i \in 0 .. SHELL_BUFFER_SIZE - 1 : b[i] = Zero <=> i >= n
  BY <1>2 DEF Lined
<1>4. o = [i \in 0 .. SHELL_BUFFER_SIZE - 1 |->
             IF i \in p - 1 .. n - 2 THEN b[i + 1] ELSE IF i = n - 1 THEN Zero ELSE b[i]]
  BY <1>1, <1>3 DEF Closed
<1>5. ASSUME NEW i \in 0 .. SHELL_BUFFER_SIZE - 1
      PROVE  o[i] \in Chars \cup {Zero} /\ (o[i] = Zero <=> i >= n - 1)
  <2>1. CASE i \in p - 1 .. n - 2
    <3>1. i + 1 \in 0 .. SHELL_BUFFER_SIZE - 1 /\ ~(i + 1 >= n) /\ ~(i >= n - 1)
      BY <1>2, <2>1
    <3> QED BY <1>3, <1>4, <2>1, <3>1
  <2>2. CASE i = n - 1
    <3>1. i \notin p - 1 .. n - 2 /\ i >= n - 1
      BY <1>2, <2>2
    <3> QED BY <1>4, <2>2, <3>1
  <2>3. CASE i \notin p - 1 .. n - 2 /\ i # n - 1
    <3>1. i >= n <=> i >= n - 1
      BY <1>2, <2>3
    <3> QED BY <1>3, <1>4, <2>3, <3>1
  <2> QED BY <2>1, <2>2, <2>3
<1>6. Lined(o, n - 1)
  <2>1. o \in [0 .. SHELL_BUFFER_SIZE - 1 -> Chars \cup {Zero}]
    BY <1>4, <1>5
  <2>2. n - 1 \in 0 .. SHELL_BUFFER_SIZE - 1
    BY <1>2
  <2> QED BY <1>5, <2>1, <2>2 DEF Lined
<1>7. PICK s : s = TextOf(b, n)
  OBVIOUS
<1>8. s \in Seq(Chars) /\ Len(s) = n /\ \A k \in 1 .. n : s[k] = b[k - 1]
  BY <1>2, <1>7, TextIs
<1>9. /\ t \in Seq(Chars) /\ Len(t) = n - 1
      /\ \A i \in 1 .. n - 1 : t[i] = IF i < p THEN s[i] ELSE s[i + 1]
  <2>1. t = RemoveAt(s, p) /\ p \in 1 .. Len(s) /\ s \in Seq(Chars)
    BY <1>1, <1>2, <1>7, <1>8
  <2>2. /\ t \in Seq(Chars) /\ Len(t) = Len(s) - 1
        /\ \A i \in 1 .. Len(s) - 1 : t[i] = IF i < p THEN s[i] ELSE s[i + 1]
    BY ONLY <2>1, RemoveAtIs
  <2> QED BY <1>8, <2>2
<1>10. ASSUME NEW k \in 1 .. n - 1 PROVE t[k] = o[k - 1]
  <2>1. PICK i : i = k - 1
    OBVIOUS
  <2>2. i \in 0 .. SHELL_BUFFER_SIZE - 1 /\ k = i + 1 /\ i \in 0 .. n - 2
    BY <1>2, <2>1
  <2>3. CASE k < p
    <3>1. k \in 1 .. n /\ i \notin p - 1 .. n - 2 /\ i # n - 1
      BY <1>2, <2>2, <2>3
    <3> QED BY <1>4, <1>8, <1>9, <2>1, <2>2, <2>3, <3>1
  <2>4. CASE ~(k < p)
    <3>1. i \in p - 1 .. n - 2 /\ k + 1 \in 1 .. n /\ (k + 1) - 1 = i + 1
      BY <1>2, <2>2, <2>4
    <3>2. t[k] = s[k + 1] /\ s[k + 1] = b[i + 1] /\ o[i] = b[i + 1]
      BY <1>4, <1>8, <1>9, <2>2, <2>4, <3>1
    <3> QED BY <2>1, <3>2
  <2> QED BY <2>3, <2>4
<1>11. TextOf(o, n - 1) = t
  BY ONLY <1>6, <1>9, <1>10, SameText
<1> QED BY <1>1, <1>6, <1>11

(* The line of the shell is that of its buffer. *)
LEMMA LineIsText == Line = TextOf(command_buffer, command_pos)
BY DEF Line, TextOf

(* What holds of the shell before the kernel runs, *)
LEMMA ShellStarts == SystemInit => LineInv /\ Editor!Init
<1> SUFFICES ASSUME SystemInit PROVE LineInv /\ Editor!Init
  OBVIOUS
<1>1. /\ command_buffer = Empty /\ command_pos = 0 /\ cursor_position = 0 /\ submitted = << >>
  BY DEF SystemInit, Init
<1>2. LineInv
  BY <1>1, EmptyIs DEF LineInv
<1> QED BY <1>1, <1>2, EmptyIs, LineIsText DEF Editor!Init

(* when it hands over a line, or is left,                                  *)
LEMMA LineEnds ==
  ASSUME LineInv, command_buffer' = Empty, command_pos' = 0, cursor_position' = 0,
         submitted' = Line
  PROVE  LineInv' /\ Editor!Enter
<1>1. LineInv'
  BY EmptyIs DEF LineInv
<1>2. Line' = << >>
  <2>1. Line' = TextOf(command_buffer', command_pos')
    BY DEF Line, TextOf
  <2> QED BY <2>1, EmptyIs
<1> QED BY <1>1, <1>2 DEF Editor!Enter

(* and with each key.                                                      *)
LEMMA KeyEdits ==
  ASSUME LineInv, stage = "kernel", stage' = stage,
         Backspace \/ Left \/ Right \/ \E c \in Chars : Insert(c) /\ submitted' = << >>
  PROVE  LineInv' /\ Editor!Next
<1>0. /\ Lined(command_buffer, command_pos) /\ command_pos \in Nat /\ cursor_position \in Nat
      /\ cursor_position <= command_pos
      /\ Line = TextOf(command_buffer, command_pos) /\ Len(Line) = command_pos
      /\ Line' = TextOf(command_buffer', command_pos')
  <2>1. Lined(command_buffer, command_pos) /\ cursor_position \in 0 .. command_pos
    BY DEF LineInv
  <2>2. /\ Line = TextOf(command_buffer, command_pos)
        /\ Line' = TextOf(command_buffer', command_pos')
    BY DEF Line, TextOf
  <2>3. command_pos \in Nat /\ Len(Line) = command_pos
    BY <2>1, <2>2, TextIs
  <2> QED BY <2>1, <2>2, <2>3
<1>1. CASE Backspace
  <2>1. /\ cursor_position > 0 /\ command_buffer' = Closed /\ command_pos' = command_pos - 1
        /\ cursor_position' = cursor_position - 1 /\ submitted' = << >>
    BY <1>1 DEF Backspace
  <2>2. /\ Lined(command_buffer', command_pos')
        /\ TextOf(command_buffer', command_pos') = RemoveAt(Line, cursor_position)
    BY <1>0, <2>1, ClosedIs
  <2>3. cursor_position' \in 0 .. command_pos'
    BY <1>0, <2>1
  <2>4. LineInv'
    BY <2>2, <2>3 DEF LineInv
  <2>5. Editor!Delete
    BY <1>0, <2>1, <2>2 DEF Editor!Delete, RemoveAt, Editor!RemoveAt
  <2> QED BY <2>4, <2>5 DEF Editor!Next
<1>2. CASE Left \/ Right
  <2>1. /\ UNCHANGED <<command_buffer, command_pos>> /\ submitted' = << >>
        /\ \/ cursor_position > 0 /\ cursor_position' = cursor_position - 1
           \/ cursor_position < command_pos /\ cursor_position' = cursor_position + 1
    BY <1>2 DEF Left, Right
  <2>2. cursor_position' \in 0 .. command_pos'
    BY <1>0, <2>1
  <2>3. LineInv'
    BY <1>0, <2>1, <2>2 DEF LineInv
  <2>4. Editor!Left \/ Editor!Right
    BY <1>0, <2>1 DEF Editor!Left, Editor!Right
  <2> QED BY <2>3, <2>4 DEF Editor!Next
<1>3. CASE \E c \in Chars : Insert(c) /\ submitted' = << >>
  <2>1. PICK c \in Chars : Insert(c) /\ submitted' = << >>
    BY <1>3
  <2>2. /\ command_pos < SHELL_BUFFER_SIZE - 1 /\ command_buffer' = Opened(c)
        /\ command_pos' = command_pos + 1 /\ cursor_position' = cursor_position + 1
    BY <2>1 DEF Insert
  <2>3. /\ Lined(command_buffer', command_pos')
        /\ TextOf(command_buffer', command_pos') = InsertAt(Line, cursor_position + 1, c)
    BY <1>0, <2>2, OpenedIs
  <2>4. cursor_position' \in 0 .. command_pos'
    BY <1>0, <2>2
  <2>5. LineInv'
    BY <2>3, <2>4 DEF LineInv
  <2>6. Editor!Insert(c)
    BY <1>0, <2>1, <2>2, <2>3 DEF Editor!Insert, InsertAt, Editor!InsertAt
  <2> QED BY <2>5, <2>6 DEF Editor!Next, Chars
<1> QED BY <1>1, <1>2, <1>3

(* Every step of the machine is one of these, or none of the editor's.     *)
LEMMA ShellInvariant ==
  ASSUME LineInv, [SystemNext]_systemVars
  PROVE  LineInv' /\ [Editor!Next]_(Editor!vars)
<1>1. CASE Booting
  <2>1. UNCHANGED <<command_buffer, command_pos, cursor_position>> /\ submitted' = << >>
    BY <1>1 DEF Booting
  <2>2. stage # "kernel"
    BY <1>1 DEF Booting, BootStep, PowerOn, SectorsRead, ReadFails, Stage2Entered, Loading,
                ReadFinish, DISK_Initialize, MBR_DetectPartition, FAT_Initialize, MemoryBlock,
                OpenKernel, ReadHeader, SkipToTable, ReadTable, BeginSegment, SkipSegment, Seek,
                Copy, EndSegment, Loaded, Check, EnterKernel, InElf
  <2>3. command_pos = 0 /\ cursor_position = 0
    BY <2>2 DEF LineInv
  <2>4. LineInv'
    BY <2>1, <2>3 DEF LineInv
  <2>5. Line = << >> /\ Line' = << >>
    <3>1. Line = TextOf(command_buffer, 0) /\ Line' = TextOf(command_buffer, 0)
      BY <2>1, <2>3 DEF Line, TextOf
    <3>2. TextOf(command_buffer, 0) = << >>
      <4>1. Lined(command_buffer, 0)
        BY <2>3 DEF LineInv
      <4>2. << >> \in Seq(Chars) /\ Len(<< >>) = 0 /\ \A k \in 1 .. 0 : << >>[k] = command_buffer[k - 1]
        BY EmptySeq
      <4> QED BY ONLY <4>1, <4>2, SameText
    <3> QED BY <3>1, <3>2
  <2>6. Editor!Enter
    BY <2>1, <2>3, <2>5 DEF Editor!Enter
  <2> QED BY <2>4, <2>6 DEF Editor!Next
<1>2. CASE Retrying \/ UNCHANGED systemVars
  <2>1. /\ UNCHANGED <<command_buffer, command_pos, cursor_position, submitted>>
        /\ stage' = "kernel" => stage = "kernel"
        /\ stage = "kernel" => stage' = "kernel"
    BY <1>2 DEF Retrying, KeyPressed, vars, systemVars, bootVars
  <2>2. LineInv'
    BY <2>1 DEF LineInv
  <2>3. UNCHANGED Editor!vars
    BY <2>1 DEF Editor!vars, Line
  <2> QED BY <2>2, <2>3
<1>3. CASE Reboot \/ Exit
  <2>1. PICK command : Leave(command)
    BY <1>3 DEF Reboot, Exit
  <2> QED BY <2>1, LineEnds DEF Leave, Editor!Next
<1>4. CASE Running
  <2>1. stage = "kernel" /\ stage' = stage /\ Next
    BY <1>4 DEF Running, bootVars
  <2>2. CASE Enter
    BY <2>2, LineEnds DEF Enter, Editor!Next
  <2>3. CASE Backspace \/ Left \/ Right
    BY <2>1, <2>3, KeyEdits
  <2>4. CASE \/ \E c \in Printable : Type(c)
            \/ \E c \in Special : TypeSpecial(c)
    <3>1. \E c \in Chars : Insert(c) /\ submitted' = << >>
      BY <2>4 DEF Type, TypeSpecial, Chars
    <3> QED BY <2>1, <3>1, KeyEdits
  <2> QED BY <2>1, <2>2, <2>3, <2>4 DEF Next
<1> QED BY <1>1, <1>2, <1>3, <1>4 DEF SystemNext

(* printf("%s") always ends at the end of the line: the first zero of the  *)
(* buffer is behind its last character, after any keys, whatever its size. *)
THEOREM ZeroEndsLine == SystemSpec => []LineInv
<1>1. SystemInit => LineInv
  BY ShellStarts
<1>2. LineInv /\ [SystemNext]_systemVars => LineInv'
  BY ShellInvariant
<1> QED BY <1>1, <1>2, PTL DEF SystemSpec

(* shell_run's buffer, length and cursor, moved by loops over the buffer,  *)
(* are a text with a cursor in it, through sessions, reboots and failed    *)
(* boots.                                                                  *)
THEOREM ShellIsLineEditor == SystemSpec => EditorSpec
<1>1. SystemInit => Editor!Init
  BY ShellStarts
<1>2. LineInv /\ [SystemNext]_systemVars => [Editor!Next]_(Editor!vars)
  BY ShellInvariant
<1> QED BY <1>1, <1>2, ZeroEndsLine, PTL DEF SystemSpec, EditorSpec, Editor!Spec

--------------------------------------------------------------------------------
(* Induction, for sets of numbers. *)
LEMMA Upwards ==
  ASSUME NEW S, 0 \in S, \A n \in Nat : n \in S => n + 1 \in S
  PROVE  \A n \in Nat : n \in S
<1> DEFINE T == {k \in Nat : k \notin S}
<1> SUFFICES ASSUME T # {} PROVE FALSE
  OBVIOUS
<1>1. PICK x \in T : \A y \in T : x <= y
  <2> HIDE DEF T
  <2>1. T \subseteq Nat
    BY DEF T
  <2> QED BY <2>1, LowestExists
<1>2. x # 0 /\ x - 1 \in Nat /\ x \in Nat
  OBVIOUS
<1>3. x - 1 \in S
  BY <1>1, <1>2
<1>4. (x - 1) + 1 = x
  BY <1>2
<1> QED BY <1>2, <1>3, <1>4

(* n steps, the k-th of them g[k], lead from s through states of S. *)
Steps(n, S) == [1 .. n -> [S -> S]]
Runs(n, S, s, g) ==
  {f \in [0 .. n -> S] : f[0] = s /\ \A k \in 1 .. n : f[k] = g[k][f[k - 1]]}

(* Functions applied one after the other have the results they should: a   *)
(* recursive function over their numbers has a solution.                   *)
LEMMA Iterates ==
  ASSUME NEW n \in Nat, NEW S, NEW s \in S, NEW g \in Steps(n, S)
  PROVE  Runs(n, S, s, g) # {}
<1> USE DEF Steps, Runs
<1> DEFINE Upto(f, m) == f[0] = s /\ \A k \in 1 .. m : f[k] = g[k][f[k - 1]]
           M == {m \in Nat : m <= n => \E f \in [0 .. m -> S] : Upto(f, m)}
<1>1. 0 \in M
  <2> DEFINE f == [k \in 0 .. 0 |-> s]
  <2>1. f \in [0 .. 0 -> S] /\ f[0] = s
    OBVIOUS
  <2>2. Upto(f, 0)
    BY <2>1
  <2> QED BY <2>1, <2>2
<1>2. ASSUME NEW m \in Nat, m \in M PROVE m + 1 \in M
  <2> SUFFICES ASSUME m + 1 <= n PROVE \E f \in [0 .. m + 1 -> S] : Upto(f, m + 1)
    OBVIOUS
  <2>1. PICK f \in [0 .. m -> S] : Upto(f, m)
    BY <1>2
  <2> DEFINE h == [k \in 0 .. m + 1 |-> IF k = m + 1 THEN g[m + 1][f[m]] ELSE f[k]]
  <2>2. g[m + 1] \in [S -> S] /\ f[m] \in S
    <3>1. m + 1 \in 1 .. n /\ m \in 0 .. m
      OBVIOUS
    <3> QED BY <3>1
  <2>3. h \in [0 .. m + 1 -> S]
    BY <2>2
  <2>4. h[0] = s /\ h[m + 1] = g[m + 1][f[m]] /\ \A k \in 0 .. m : h[k] = f[k]
    BY <2>1
  <2> HIDE DEF h
  <2>5. ASSUME NEW k \in 1 .. m + 1 PROVE h[k] = g[k][h[k - 1]]
    <3>1. CASE k = m + 1
      <4>1. k - 1 = m /\ m \in 0 .. m
        BY <3>1
      <4> QED BY <2>4, <3>1, <4>1
    <3>2. CASE k # m + 1
      <4>1. k \in 1 .. m /\ k \in 0 .. m /\ k - 1 \in 0 .. m
        BY <3>2
      <4> QED BY <2>1, <2>4, <4>1
    <3> QED BY <3>1, <3>2
  <2> QED BY <2>3, <2>4, <2>5
<1> HIDE DEF M
<1>3. n \in M
  BY <1>1, <1>2, Upwards
<1> QED BY <1>3 DEF M

--------------------------------------------------------------------------------
(* dmesg: what the table holds is the beginning of the log. *)
Messages == {BootLog[k] : k \in DOMAIN BootLog} \cup {TestMessage, NoMessage}

Tables == [entry : [Entries -> [msg : Messages, valid : BOOLEAN]],
           idx : 0 .. SIMPLE_MSG_COUNT, initialized : BOOLEAN]

Held(log) == IF Len(log) < SIMPLE_MSG_COUNT THEN Len(log) ELSE SIMPLE_MSG_COUNT

Keeps(d, log) ==
  /\ d \in Tables
  /\ log \in Seq(Messages) /\ Len(log) <= SIMPLE_MSG_COUNT + 1
  /\ d.idx = Held(log)
  /\ \A i \in 0 .. SIMPLE_MSG_COUNT - 1 :
       i < d.idx => d.entry[i].valid /\ d.entry[i].msg = log[i + 1]

Longer(log, m) == IF Len(log) > SIMPLE_MSG_COUNT THEN log ELSE Append(log, m)

(* The table has twice ten entries.                                        *)
LEMMA CountIs == SIMPLE_MSG_COUNT \in Nat /\ Ten \in Nat \ {0} /\ SIMPLE_MSG_COUNT = Ten + Ten
<1>1. Ten \in Nat \ {0} /\ SIMPLE_MSG_COUNT = 2 * Ten
  BY DmesgAssumption
<1> QED BY <1>1

(* kernel_add_message keeps the table a table,                             *)
LEMMA AddedType == ASSUME NEW d \in Tables, NEW m \in Messages PROVE Added(d, m) \in Tables
<1>1. SIMPLE_MSG_COUNT \in Nat /\ d.idx \in 0 .. SIMPLE_MSG_COUNT
  BY CountIs DEF Tables
<1>2. CASE d.idx >= SIMPLE_MSG_COUNT
  BY <1>2 DEF Added, Tables
<1>3. CASE ~(d.idx >= SIMPLE_MSG_COUNT)
  <2> DEFINE e == [d.entry EXCEPT ![d.idx] = [msg |-> m, valid |-> TRUE]]
  <2>1. Added(d, m) = [d EXCEPT !.entry = e, !.idx = d.idx + 1, !.initialized = TRUE]
    BY <1>3 DEF Added
  <2>2. e \in [Entries -> [msg : Messages, valid : BOOLEAN]]
    BY DEF Tables
  <2>3. d.idx + 1 \in 0 .. SIMPLE_MSG_COUNT
    BY <1>1, <1>3
  <2> HIDE DEF e
  <2> QED BY <2>1, <2>2, <2>3 DEF Tables
<1> QED BY <1>2, <1>3

(* and, as the first messages of a log are in it and no others, so are they*)
(* after one more: the last entry is never written.                        *)
LEMMA AddedKeeps ==
  ASSUME NEW d, NEW log, NEW m \in Messages, Keeps(d, log)
  PROVE  Keeps(Added(d, m), Longer(log, m))
<1>1. /\ SIMPLE_MSG_COUNT \in Nat /\ d \in Tables /\ log \in Seq(Messages)
      /\ Len(log) \in Nat /\ Len(log) <= SIMPLE_MSG_COUNT + 1 /\ d.idx = Held(log)
  BY CountIs, LenProperties DEF Keeps
<1>2. Added(d, m) \in Tables
  BY <1>1, AddedType
<1>3. /\ Append(log, m) \in Seq(Messages) /\ Len(Append(log, m)) = Len(log) + 1
      /\ \A i \in 1 .. Len(log) : Append(log, m)[i] = log[i]
      /\ Append(log, m)[Len(log) + 1] = m
  BY <1>1, AppendProperties
<1>4. CASE d.idx >= SIMPLE_MSG_COUNT
  <2>1. Len(log) >= SIMPLE_MSG_COUNT
    BY <1>1, <1>4 DEF Held
  <2>2. Added(d, m).idx = d.idx /\ Added(d, m).entry = d.entry
    BY <1>1, <1>4 DEF Added, Tables
  <2>3. /\ Longer(log, m) \in Seq(Messages) /\ Len(Longer(log, m)) <= SIMPLE_MSG_COUNT + 1
        /\ Held(Longer(log, m)) = SIMPLE_MSG_COUNT /\ Held(log) = SIMPLE_MSG_COUNT
        /\ \A i \in 0 .. SIMPLE_MSG_COUNT - 1 : Longer(log, m)[i + 1] = log[i + 1]
    <3>1. CASE Len(log) > SIMPLE_MSG_COUNT
      BY <1>1, <3>1 DEF Longer, Held
    <3>2. CASE ~(Len(log) > SIMPLE_MSG_COUNT)
      <4>1. Longer(log, m) = Append(log, m) /\ Len(log) = SIMPLE_MSG_COUNT
        BY <1>1, <2>1, <3>2 DEF Longer
      <4>2. \A i \in 0 .. SIMPLE_MSG_COUNT - 1 : i + 1 \in 1 .. Len(log)
        BY <1>1, <4>1
      <4> QED BY <1>1, <1>3, <4>1, <4>2 DEF Held
    <3> QED BY <3>1, <3>2
  <2> QED BY <1>1, <1>2, <2>2, <2>3 DEF Keeps
<1>5. CASE ~(d.idx >= SIMPLE_MSG_COUNT)
  <2>1. d.idx \in 0 .. SIMPLE_MSG_COUNT /\ d.entry \in [Entries -> [msg : Messages, valid : BOOLEAN]]
    BY <1>1 DEF Tables
  <2>2. /\ Len(log) < SIMPLE_MSG_COUNT /\ d.idx = Len(log) /\ Longer(log, m) = Append(log, m)
        /\ Held(Append(log, m)) = Len(log) + 1
    BY <1>1, <1>3, <1>5, <2>1 DEF Held, Longer
  <2>3. /\ Added(d, m).idx = d.idx + 1
        /\ Added(d, m).entry = [d.entry EXCEPT ![d.idx] = [msg |-> m, valid |-> TRUE]]
    BY <1>1, <1>5 DEF Added, Tables
  <2>4. ASSUME NEW i \in 0 .. SIMPLE_MSG_COUNT - 1, i < d.idx + 1
        PROVE  Added(d, m).entry[i].valid /\ Added(d, m).entry[i].msg = Append(log, m)[i + 1]
    <3>1. CASE i = d.idx
      <4>1. Added(d, m).entry[i] = [msg |-> m, valid |-> TRUE]
        BY <2>1, <2>3, <3>1 DEF Entries
      <4> QED BY <1>3, <2>2, <3>1, <4>1
    <3>2. CASE i # d.idx
      <4>1. i < d.idx /\ i + 1 \in 1 .. Len(log)
        BY <1>1, <2>1, <2>2, <2>4, <3>2
      <4>2. Added(d, m).entry[i] = d.entry[i]
        BY <2>1, <2>3, <3>2 DEF Entries
      <4>3. d.entry[i].valid /\ d.entry[i].msg = log[i + 1]
        BY <4>1 DEF Keeps
      <4> QED BY <1>3, <4>1, <4>2, <4>3
    <3> QED BY <3>1, <3>2
  <2>5. Len(Append(log, m)) <= SIMPLE_MSG_COUNT + 1
    BY <1>1, <1>3, <2>2
  <2> QED BY <1>2, <1>3, <2>2, <2>3, <2>4, <2>5 DEF Keeps
<1> QED BY <1>4, <1>5

(* clear_kernel_messages leaves none.                                      *)
LEMMA ClearedKeeps == ASSUME NEW d \in Tables PROVE Keeps(DmesgCleared(d), << >>)
<1>1. SIMPLE_MSG_COUNT \in Nat /\ << >> \in Seq(Messages) /\ Len(<< >>) = 0
  BY CountIs, EmptySeq
<1>2. Emptied \in [Entries -> [msg : Messages, valid : BOOLEAN]]
  BY DEF Emptied, Messages
<1>3. DmesgCleared(d) \in Tables /\ DmesgCleared(d).idx = 0
  <2>1. PICK e : e = Emptied
    OBVIOUS
  <2>2. 0 \in 0 .. SIMPLE_MSG_COUNT
    BY <1>1
  <2> QED BY <1>2, <2>1, <2>2 DEF DmesgCleared, Tables
<1>4. Held(<< >>) = 0
  BY <1>1 DEF Held
<1> QED BY <1>1, <1>3, <1>4 DEF Keeps

(* The messages of start(). *)
LEMMA BootMessagesKept == Keeps(BootMessages, BootLogged)
<1> DEFINE n == Len(BootLog)
           Fit(k) == IF k <= SIMPLE_MSG_COUNT + 1 THEN k ELSE SIMPLE_MSG_COUNT + 1
           Part(k) == SubSeq(BootLog, 1, Fit(k))
           g == [k \in 1 .. n |-> [d \in Tables |-> Added(d, BootLog[k])]]
<1>1. /\ BootLog \in Seq(Messages) /\ n \in Nat /\ SIMPLE_MSG_COUNT \in Nat
      /\ \A k \in 1 .. n : BootLog[k] \in Messages
  <2>1. BootLog \in Seq({BootLog[k] : k \in DOMAIN BootLog})
    BY ShellAssumption
  <2>2. n \in Nat /\ DOMAIN BootLog = 1 .. n
    BY <2>1, LenProperties
  <2>3. \A k \in 1 .. n : BootLog[k] \in Messages
    BY <2>2 DEF Messages
  <2>4. BootLog \in Seq(Messages)
    BY <2>1, <2>2, <2>3, SeqDef
  <2> QED BY <2>2, <2>3, <2>4, CountIs
<1>2. Uninitialized \in Tables /\ Uninitialized.idx = 0
  <2>1. Emptied \in [Entries -> [msg : Messages, valid : BOOLEAN]]
    BY DEF Emptied, Messages
  <2>2. 0 \in 0 .. SIMPLE_MSG_COUNT /\ FALSE \in BOOLEAN
    BY <1>1
  <2> QED BY <2>1, <2>2 DEF Tables, Uninitialized
<1>3. g \in [1 .. n -> [Tables -> Tables]]
  BY <1>1, AddedType
<1>4. \E f \in [0 .. n -> Tables] : f[0] = Uninitialized /\ \A k \in 1 .. n : f[k] = g[k][f[k - 1]]
  <2>1. n \in Nat /\ Uninitialized \in Tables /\ g \in Steps(n, Tables)
    BY <1>1, <1>2, <1>3 DEF Steps
  <2> HIDE DEF n, g
  <2>2. Runs(n, Tables, Uninitialized, g) # {}
    BY ONLY <2>1, Iterates
  <2> QED BY <2>2 DEF Runs
<1>5. PICK f \in [0 .. n -> Tables] : f[0] = Uninitialized /\ \A k \in 1 .. n : f[k] = g[k][f[k - 1]]
  BY <1>4
<1> DEFINE Def(h) == [k \in 0 .. n |-> IF k = 0 THEN Uninitialized ELSE Added(h[k - 1], BootLog[k])]
           h == CHOOSE h : h = Def(h)
<1>6. f = Def(f)
  <2>1. ASSUME NEW k \in 0 .. n
        PROVE  f[k] = IF k = 0 THEN Uninitialized ELSE Added(f[k - 1], BootLog[k])
    <3>1. CASE k = 0
      BY <1>5, <3>1
    <3>2. CASE k # 0
      <4>1. k \in 1 .. n /\ k - 1 \in 0 .. n
        BY <1>1, <3>2
      <4>2. f[k] = g[k][f[k - 1]] /\ f[k - 1] \in Tables
        BY <1>5, <4>1
      <4> QED BY <3>2, <4>1, <4>2
    <3> QED BY <3>1, <3>2
  <2>2. f = [k \in 0 .. n |-> f[k]]
    BY <1>5
  <2> HIDE DEF n, g
  <2> QED BY ONLY <2>1, <2>2
<1>7. BootMessages = h[n]
  BY DEF BootMessages, AddedAll
<1>8. h = Def(h)
  <2> HIDE DEF Def
  <2> QED BY <1>6
<1>9. h[0] = Uninitialized /\ \A k \in 1 .. n : h[k] = Added(h[k - 1], BootLog[k])
  <2> HIDE DEF h
  <2>1. 0 \in 0 .. n /\ \A k \in 1 .. n : k \in 0 .. n /\ k # 0
    BY <1>1
  <2>2. h = [k \in 0 .. n |-> IF k = 0 THEN Uninitialized ELSE Added(h[k - 1], BootLog[k])]
    BY <1>8
  <2> HIDE DEF n
  <2> QED BY ONLY <2>1, <2>2
<1> HIDE DEF h, Def, g
<1> DEFINE M == {k \in Nat : k <= n => Keeps(h[k], Part(k))}
<1>10. 0 \in M
  <2>1. Part(0) = << >>
    BY <1>1, SubSeqEmpty
  <2>2. << >> \in Seq(Messages) /\ Len(<< >>) = 0 /\ Held(<< >>) = 0
    BY <1>1, EmptySeq DEF Held
  <2>3. Keeps(Uninitialized, << >>)
    BY <1>1, <1>2, <2>2 DEF Keeps
  <2> QED BY <1>9, <2>1, <2>3
<1>11. ASSUME NEW k \in Nat, k \in M PROVE k + 1 \in M
  <2> SUFFICES ASSUME k + 1 <= n PROVE Keeps(h[k + 1], Part(k + 1))
    OBVIOUS
  <2>1. Keeps(h[k], Part(k)) /\ k + 1 \in 1 .. n /\ (k + 1) - 1 = k
    BY <1>1, <1>11
  <2>2. h[k + 1] = Added(h[k], BootLog[k + 1]) /\ BootLog[k + 1] \in Messages
    BY <1>1, <1>9, <2>1
  <2> HIDE DEF M
  <2>3. Part(k + 1) = Longer(Part(k), BootLog[k + 1])
    <3>1. /\ Part(k) \in Seq(Messages) /\ Len(Part(k)) = Fit(k)
          /\ \A i \in 1 .. Fit(k) : Part(k)[i] = BootLog[i]
      <4>1. 1 \in Int /\ Fit(k) \in Nat /\ \A i \in 1 .. Fit(k) : BootLog[i] \in Messages
        BY <1>1, <2>1
      <4>2. PICK u : u = Fit(k)
        OBVIOUS
      <4>3. /\ SubSeq(BootLog, 1, u) \in Seq(Messages)
            /\ Len(SubSeq(BootLog, 1, u)) = IF 1 <= u THEN u - 1 + 1 ELSE 0
            /\ \A i \in 1 .. u - 1 + 1 : SubSeq(BootLog, 1, u)[i] = BootLog[1 + i - 1]
        BY <4>1, <4>2, SubSeqProperties
      <4> QED BY <4>1, <4>2, <4>3
    <3>2. CASE k > SIMPLE_MSG_COUNT
      <4>1. Fit(k) = SIMPLE_MSG_COUNT + 1 /\ Fit(k + 1) = SIMPLE_MSG_COUNT + 1
        BY <1>1, <3>2
      <4> QED BY <1>1, <3>1, <4>1 DEF Longer
    <3>3. CASE ~(k > SIMPLE_MSG_COUNT)
      <4>1. Fit(k) = k /\ Fit(k + 1) = k + 1
        BY <1>1, <3>3
      <4>2. Longer(Part(k), BootLog[k + 1]) = Append(Part(k), BootLog[k + 1])
        BY <1>1, <3>1, <3>3, <4>1 DEF Longer
      <4>3. PICK s, m : s = Part(k) /\ m = BootLog[k + 1]
        OBVIOUS
      <4>4. /\ Append(s, m) \in Seq(Messages) /\ Len(Append(s, m)) = k + 1
            /\ \A i \in 1 .. k : Append(s, m)[i] = BootLog[i]
            /\ Append(s, m)[k + 1] = BootLog[k + 1]
        BY <2>2, <3>1, <4>1, <4>3, AppendProperties
      <4>5. /\ SubSeq(BootLog, 1, k + 1) \in Seq(Messages) /\ Len(SubSeq(BootLog, 1, k + 1)) = k + 1
            /\ \A i \in 1 .. k + 1 : SubSeq(BootLog, 1, k + 1)[i] = BootLog[i]
        <5>1. 1 \in Int /\ k + 1 \in Int /\ \A i \in 1 .. k + 1 : BootLog[i] \in Messages
          BY <1>1, <2>1
        <5>2. PICK u : u = k + 1
          OBVIOUS
        <5>3. /\ SubSeq(BootLog, 1, u) \in Seq(Messages)
              /\ Len(SubSeq(BootLog, 1, u)) = IF 1 <= u THEN u - 1 + 1 ELSE 0
              /\ \A i \in 1 .. u - 1 + 1 : SubSeq(BootLog, 1, u)[i] = BootLog[1 + i - 1]
          BY <5>1, <5>2, SubSeqProperties
        <5> QED BY <5>1, <5>2, <5>3
      <4>6. \A i \in 1 .. k + 1 : i \in 1 .. k \/ i = k + 1
        OBVIOUS
      <4>7. PICK t, u : t = SubSeq(BootLog, 1, k + 1) /\ u = Append(s, m)
        OBVIOUS
      <4>8. t \in Seq(Messages) /\ u \in Seq(Messages) /\ Len(t) = Len(u) /\ \A i \in 1 .. Len(t) : t[i] = u[i]
        BY <4>4, <4>5, <4>6, <4>7
      <4>9. t = u
        BY ONLY <4>8, SeqEqual
      <4> QED BY <4>1, <4>2, <4>3, <4>7, <4>9
    <3> QED BY <3>2, <3>3
  <2> QED BY <2>1, <2>2, <2>3, AddedKeeps
<1>12. n \in M
  <2> HIDE DEF M, n
  <2> QED BY ONLY <1>1, <1>10, <1>11, Upwards
<1>13. BootLogged = Part(n)
  <2>1. PICK w : w = Fit(n)
    OBVIOUS
  <2>2. w \in {n, SIMPLE_MSG_COUNT + 1} /\ \A y \in {n, SIMPLE_MSG_COUNT + 1} : w <= y
    BY <1>1, <2>1
  <2>3. Min({n, SIMPLE_MSG_COUNT + 1}) = w
    BY <1>1, <2>2 DEF Min
  <2> QED BY <2>1, <2>3 DEF BootLogged
<1> QED BY <1>1, <1>7, <1>12, <1>13

(* What display_kernel_messages prints is that beginning. *)
LEMMA DisplayedIs ==
  ASSUME NEW d, NEW log, Keeps(d, log)
  PROVE  Displayed(d) = SubSeq(log, 1, Min({Len(log), SIMPLE_MSG_COUNT}))
<1> DEFINE n == d.idx
           S == Seq(Messages)
           g == [k \in 1 .. n |-> [x \in S |-> IF d.entry[k - 1].valid THEN Append(x, d.entry[k - 1].msg) ELSE x]]
<1>1. /\ SIMPLE_MSG_COUNT \in Nat /\ n \in Nat /\ n <= SIMPLE_MSG_COUNT /\ log \in S /\ Len(log) \in Nat
      /\ n = Held(log)
  BY CountIs, LenProperties DEF Keeps, Tables
<1>2. ASSUME NEW k \in 1 .. n
      PROVE  /\ k - 1 \in 0 .. n /\ k \in 1 .. Len(log)
             /\ d.entry[k - 1].valid /\ d.entry[k - 1].msg = log[k] /\ log[k] \in Messages
  <2>1. k - 1 \in 0 .. SIMPLE_MSG_COUNT - 1 /\ k - 1 < n /\ (k - 1) + 1 = k /\ k \in 1 .. Len(log)
    BY <1>1 DEF Held
  <2>2. d.entry[k - 1].valid /\ d.entry[k - 1].msg = log[(k - 1) + 1]
    BY <2>1 DEF Keeps
  <2>3. log[k] \in Messages
    BY <1>1, <2>1, ElementOfSeq
  <2> QED BY <1>1, <2>1, <2>2, <2>3
<1>3. \A k \in 1 .. n : \A x \in S : g[k][x] = Append(x, log[k]) /\ Append(x, log[k]) \in S
  BY <1>2, AppendProperties
<1>4. n \in Nat /\ << >> \in S /\ g \in Steps(n, S)
  <2>1. g \in [1 .. n -> [S -> S]]
    BY <1>2, <1>3
  <2> QED BY <1>1, <2>1, EmptySeq DEF Steps
<1>5. Runs(n, S, << >>, g) # {}
  <2> HIDE DEF n, g, S
  <2> QED BY ONLY <1>4, Iterates
<1>6. PICK f \in [0 .. n -> S] : f[0] = << >> /\ \A k \in 1 .. n : f[k] = g[k][f[k - 1]]
  BY <1>5 DEF Runs
<1> DEFINE Def(h) == [k \in 0 .. n |-> IF k = 0 THEN << >>
                                       ELSE IF d.entry[k - 1].valid THEN Append(h[k - 1], d.entry[k - 1].msg)
                                       ELSE h[k - 1]]
           h == CHOOSE h : h = Def(h)
<1>7. f = Def(f)
  <2>1. ASSUME NEW k \in 0 .. n
        PROVE  f[k] = IF k = 0 THEN << >>
                      ELSE IF d.entry[k - 1].valid THEN Append(f[k - 1], d.entry[k - 1].msg)
                      ELSE f[k - 1]
    <3>1. CASE k = 0
      BY <1>6, <3>1
    <3>2. CASE k # 0
      <4>1. k \in 1 .. n /\ k - 1 \in 0 .. n
        BY <1>1, <3>2
      <4>2. f[k] = g[k][f[k - 1]] /\ f[k - 1] \in S
        BY <1>6, <4>1
      <4> QED BY <1>2, <1>3, <3>2, <4>1, <4>2
    <3> QED BY <3>1, <3>2
  <2>2. f = [k \in 0 .. n |-> f[k]]
    BY <1>6
  <2> HIDE DEF n, g
  <2> QED BY ONLY <2>1, <2>2
<1>8. Displayed(d) = h[n]
  BY DEF Displayed
<1>9. h = Def(h)
  <2> HIDE DEF Def
  <2> QED BY <1>7
<1>10. h[0] = << >> /\ \A k \in 1 .. n : h[k] = Append(h[k - 1], log[k])
  <2> HIDE DEF h
  <2>1. 0 \in 0 .. n /\ \A k \in 1 .. n : k \in 0 .. n /\ k # 0
    BY <1>1
  <2>2. h = [k \in 0 .. n |-> IF k = 0 THEN << >>
                              ELSE IF d.entry[k - 1].valid THEN Append(h[k - 1], d.entry[k - 1].msg)
                              ELSE h[k - 1]]
    BY <1>9
  <2>3. \A k \in 1 .. n : d.entry[k - 1].valid /\ d.entry[k - 1].msg = log[k]
    BY <1>2
  <2> HIDE DEF n
  <2> QED BY ONLY <2>1, <2>2, <2>3
<1> HIDE DEF h, Def, g
<1> DEFINE First(k, x) == x \in S /\ Len(x) = k /\ \A i \in 1 .. k : x[i] = log[i]
           M == {k \in Nat : k <= n => First(k, h[k])}
<1>11. 0 \in M
  <2>1. << >> \in Seq(Messages) /\ Len(<< >>) = 0 /\ h[0] = << >>
    BY <1>10, EmptySeq
  <2>2. First(0, h[0])
    BY <2>1
  <2> QED BY <2>2
<1>12. ASSUME NEW k \in Nat, k \in M PROVE k + 1 \in M
  <2> SUFFICES ASSUME k + 1 <= n PROVE First(k + 1, h[k + 1])
    OBVIOUS
  <2>1. First(k, h[k]) /\ k + 1 \in 1 .. n /\ (k + 1) - 1 = k
    BY <1>1, <1>12
  <2>2. h[k + 1] = Append(h[k], log[k + 1]) /\ log[k + 1] \in Messages
    BY <1>2, <1>10, <2>1
  <2>3. PICK x, m : x = h[k] /\ m = log[k + 1]
    OBVIOUS
  <2>4. /\ Append(x, m) \in S /\ Len(Append(x, m)) = k + 1
        /\ \A i \in 1 .. k : Append(x, m)[i] = x[i]
        /\ Append(x, m)[k + 1] = m
    BY <2>1, <2>2, <2>3, AppendProperties
  <2>5. \A i \in 1 .. k + 1 : i \in 1 .. k \/ i = k + 1
    OBVIOUS
  <2> QED BY <2>1, <2>2, <2>3, <2>4, <2>5
<1> HIDE DEF M
<1>13. n \in M
  <2> HIDE DEF n
  <2> QED BY ONLY <1>1, <1>11, <1>12, Upwards
<1>14. First(n, h[n])
  BY <1>1, <1>13 DEF M
<1>15. Min({Len(log), SIMPLE_MSG_COUNT}) = n
  <2>1. n \in {Len(log), SIMPLE_MSG_COUNT} /\ \A y \in {Len(log), SIMPLE_MSG_COUNT} : n <= y
    BY <1>1 DEF Held
  <2> HIDE DEF n
  <2> QED BY <1>1, <2>1 DEF Min
<1>16. PICK u, t : u = n /\ t = SubSeq(log, 1, n)
  OBVIOUS
<1>17. t \in S /\ Len(t) = u /\ \A i \in 1 .. u : t[i] = log[i]
  <2>1. 1 \in Int /\ u \in Int /\ u \in Nat /\ \A i \in 1 .. u : log[i] \in Messages
    BY <1>1, <1>2, <1>16
  <2>2. /\ SubSeq(log, 1, u) \in Seq(Messages)
        /\ Len(SubSeq(log, 1, u)) = IF 1 <= u THEN u - 1 + 1 ELSE 0
        /\ \A i \in 1 .. u - 1 + 1 : SubSeq(log, 1, u)[i] = log[1 + i - 1]
    BY <2>1, SubSeqProperties
  <2> QED BY <1>16, <2>1, <2>2
<1>18. PICK x : x = h[n]
  OBVIOUS
<1>19. x = t
  <2>1. x \in Seq(Messages) /\ t \in Seq(Messages) /\ Len(x) = Len(t) /\ \A i \in 1 .. Len(x) : x[i] = t[i]
    BY <1>14, <1>16, <1>17, <1>18
  <2> QED BY ONLY <2>1, SeqEqual
<1> QED BY <1>8, <1>15, <1>16, <1>18, <1>19

(* dmesg_stats finds all of them intact, *)
LEMMA ValidAll == ASSUME NEW d, NEW log, Keeps(d, log) PROVE ValidEntries(d) = d.idx
<1>1. PICK n : n = d.idx
  OBVIOUS
<1>2. n \in Nat /\ n <= SIMPLE_MSG_COUNT /\ SIMPLE_MSG_COUNT \in Nat
  BY <1>1, CountIs DEF Keeps, Tables
<1>3. {i \in 0 .. n - 1 : d.entry[i].valid} = 0 .. n - 1
  <2>1. ASSUME NEW i \in 0 .. n - 1 PROVE d.entry[i].valid
    <3>1. i \in 0 .. SIMPLE_MSG_COUNT - 1 /\ i < d.idx
      BY <1>1, <1>2
    <3> QED BY <3>1 DEF Keeps
  <2> QED BY <2>1
<1>4. Cardinality(0 .. n - 1) = n
  <2>1. PICK m : m = n - 1
    OBVIOUS
  <2>2. 0 \in Int /\ m \in Int
    BY <1>2, <2>1
  <2>3. Cardinality(0 .. m) = IF 0 > m THEN 0 ELSE m - 0 + 1
    BY ONLY <2>2, FS_Interval
  <2> QED BY <1>2, <2>1, <2>3
<1> QED BY <1>1, <1>3, <1>4 DEF ValidEntries

(* and a number below that of the entries has two digits. *)
LEMMA NumeralIs ==
  ASSUME NEW n \in Nat, n < SIMPLE_MSG_COUNT
  PROVE  Numeral(n)[2] < Ten /\ Ten * Numeral(n)[1] + Numeral(n)[2] = n
<1>1. Ten \in Nat \ {0} /\ SIMPLE_MSG_COUNT = Ten + Ten
  BY CountIs
<1>2. CASE n < Ten
  <2>1. Numeral(n)[1] = 0 /\ Numeral(n)[2] = n
    BY <1>2 DEF Numeral
  <2> QED BY <1>1, <1>2, <2>1
<1>3. CASE ~(n < Ten)
  <2>1. Numeral(n)[1] = 1 /\ Numeral(n)[2] = n - Ten
    BY <1>3 DEF Numeral
  <2> QED BY <1>1, <1>3, <2>1
<1> QED BY <1>2, <1>3

DmesgInv == Keeps(messages, logged)

(* The commands keep it, whatever they print, *)
Logs(s) == Keeps(s.messages, s.log)
IsState(s) == s \in [screen : {s.screen}, messages : {s.messages}, log : {s.log}]

(* A line that is run keeps the table and the log in step.                 *)
LEMMA CommandsKeep ==
  ASSUME NEW s, NEW b, Logs(s), IsState(s)
  PROVE  Logs(Processed(s, b))
<1>1. \A n : Logs(Printing(s, n)) /\ Logs(PrintingOpen(s)) /\ Logs(cmd_clear(s))
  BY DEF Logs, IsState, Printing, PrintingOpen, cmd_clear
<1>2. ASSUME NEW argv PROVE Logs(cmd_dmesg(s, argv))
  <2>1. Logs(PrintingOpen([s EXCEPT !.messages = DmesgCleared(@), !.log = << >>]))
    <3>1. Keeps(DmesgCleared(s.messages), << >>)
      BY ClearedKeeps DEF Logs, Keeps
    <3> QED BY <3>1 DEF Logs, IsState, PrintingOpen
  <2>2. Logs(Printing(Logging(s, TestMessage), 1))
    <3>1. Keeps(Added(s.messages, TestMessage), Longer(s.log, TestMessage))
      BY AddedKeeps DEF Logs, Messages
    <3>2. /\ Logging(s, TestMessage).messages = Added(s.messages, TestMessage)
          /\ Logging(s, TestMessage).log = Longer(s.log, TestMessage)
          /\ IsState(Logging(s, TestMessage))
      <4>1. PICK a, l : a = Added(s.messages, TestMessage) /\ l = Longer(s.log, TestMessage)
        OBVIOUS
      <4>2. Logging(s, TestMessage) = [s EXCEPT !.messages = a, !.log = l]
        BY <4>1 DEF Logging, Longer
      <4> QED BY <4>1, <4>2 DEF IsState
    <3> QED BY <3>1, <3>2 DEF Logs, IsState, Printing
  <2> QED BY <1>1, <2>1, <2>2 DEF cmd_dmesg
<1> QED BY <1>1, <1>2 DEF Processed

(* The table holds the beginning of the log of this boot: inductive.       *)
LEMMA DmesgInductive ==
  /\ SystemInit => DmesgInv
  /\ DmesgInv /\ [SystemNext]_systemVars => DmesgInv'
<1>1. SystemInit => DmesgInv
  BY BootMessagesKept DEF SystemInit, Init, DmesgInv
<1>2. ASSUME DmesgInv, [SystemNext]_systemVars PROVE DmesgInv'
  <2>1. CASE UNCHANGED <<messages, logged>>
    BY <1>2, <2>1 DEF DmesgInv
  <2>2. CASE Reboot \/ Exit
    <3>1. messages' = BootMessages /\ logged' = BootLogged
      BY <2>2 DEF Reboot, Exit, Leave
    <3> QED BY <3>1, BootMessagesKept DEF DmesgInv
  <2>3. CASE Enter
    <3> DEFINE s == [screen |-> Putc(screen, NL), messages |-> messages, log |-> logged]
    <3>1. Logs(s) /\ IsState(s)
      BY <1>2 DEF Logs, IsState, DmesgInv
    <3> HIDE DEF s
    <3>2. Logs(Processed(s, command_buffer))
      BY <3>1, CommandsKeep
    <3>3. \E a \in {s, Processed(s, command_buffer)} : messages' = a.messages /\ logged' = a.log
      BY <2>3 DEF Enter, s
    <3> QED BY <3>1, <3>2, <3>3 DEF Logs, DmesgInv
  <2>4. Booting \/ Retrying \/ UNCHANGED systemVars => UNCHANGED <<messages, logged>>
    BY DEF Booting, Retrying, vars, systemVars
  <2>5. Backspace \/ Left \/ Right => UNCHANGED <<messages, logged>>
    BY DEF Backspace, Left, Right
  <2>6. (\E c \in Printable : Type(c)) \/ (\E c \in Special : TypeSpecial(c)) => UNCHANGED <<messages, logged>>
    BY DEF Type, TypeSpecial
  <2>7. Running => Next
    BY DEF Running
  <2> QED BY <1>2, <2>1, <2>2, <2>3, <2>4, <2>5, <2>6, <2>7 DEF SystemNext, Next
<1> QED BY <1>1, <1>2

(* kernel_add_message's table and the commands over it: what dmesg shows is*)
(* the first messages since the last boot or clear, in their order, as many*)
(* as there are entries; dmesg_stats counts them all as valid.             *)
THEOREM FirstMessagesKept == SystemSpec => []MessagesAreFirst
<1>1. DmesgInv => MessagesAreFirst
  <2> SUFFICES ASSUME DmesgInv PROVE MessagesAreFirst
    OBVIOUS
  <2>1. Keeps(messages, logged)
    BY DEF DmesgInv
  <2>2. /\ Displayed(messages) = SubSeq(logged, 1, Min({Len(logged), SIMPLE_MSG_COUNT}))
        /\ ValidEntries(messages) = messages.idx
    BY <2>1, DisplayedIs, ValidAll
  <2>3. ASSUME NEW n \in {messages.idx, SIMPLE_MSG_COUNT - messages.idx}, n < SIMPLE_MSG_COUNT
        PROVE  Numeral(n)[2] < Ten /\ Ten * Numeral(n)[1] + Numeral(n)[2] = n
    <3>1. n \in Nat
      BY <2>1, CountIs DEF Keeps, Tables
    <3> QED BY <2>3, <3>1, NumeralIs
  <2> QED BY <2>2, <2>3 DEF MessagesAreFirst
<1> QED BY <1>1, DmesgInductive, PTL DEF SystemSpec

--------------------------------------------------------------------------------
(* The parser: the words of a line and what shell_parse_command finds. *)

MaxWords == SHELL_MAX_ARGS - 1

(* A line b of n characters: blanks, and where words start. *)
BlankAt(b, i) == b[i - 1] \in {Blank, Tab}
StartsOf(b, n) == {i \in 1 .. n : ~BlankAt(b, i) /\ (i = 1 \/ BlankAt(b, i - 1))}

(* How many words start up to each place. *)
RanksOf(W) == [i \in 0 .. SHELL_BUFFER_SIZE - 1 |-> Cardinality({j \in W : j <= i})]

Ranked(W, r) ==
  /\ W \subseteq 1 .. SHELL_BUFFER_SIZE - 1
  /\ r \in [0 .. SHELL_BUFFER_SIZE - 1 -> Nat]
  /\ r[0] = 0
  /\ \A i \in 0 .. SHELL_BUFFER_SIZE - 2 : r[i + 1] = IF i + 1 \in W THEN r[i] + 1 ELSE r[i]

(* Such a numbering of the starts exists: by counting.                     *)
LEMMA RanksAre ==
  ASSUME NEW n \in 0 .. SHELL_BUFFER_SIZE - 1, NEW W, W \subseteq 1 .. n
  PROVE  Ranked(W, RanksOf(W)) /\ RanksOf(W)[n] = Cardinality(W)
<1> DEFINE U(i) == {j \in W : j <= i}
<1>1. SHELL_BUFFER_SIZE \in Nat \ {0} /\ n \in Nat /\ n <= SHELL_BUFFER_SIZE - 1 /\ W \subseteq Nat
  BY ShellAssumption
<1>0. \A j \in W : j \in Nat /\ j >= 1 /\ j <= n
  <2> SUFFICES ASSUME NEW j \in W PROVE j \in Nat /\ j >= 1 /\ j <= n
    OBVIOUS
  <2>1. j \in 1 .. n
    OBVIOUS
  <2> QED BY <1>1, <2>1
<1>2. IsFiniteSet(W)
  <2>1. 1 \in Int /\ n \in Int
    BY <1>1
  <2>2. IsFiniteSet(1 .. n)
    BY ONLY <2>1, FS_Interval
  <2> QED BY <2>2, FS_Subset
<1>3. ASSUME NEW i \in Nat PROVE IsFiniteSet(U(i)) /\ Cardinality(U(i)) \in Nat
  <2>1. U(i) \in SUBSET W
    OBVIOUS
  <2>2. IsFiniteSet(U(i))
    BY <1>2, <2>1, FS_Subset
  <2> QED BY <2>2, FS_CardinalityType
<1>4. Cardinality(U(0)) = 0
  <2>0. \A j \in W : ~(j <= 0)
    BY <1>0
  <2>1. U(0) = {}
    BY <2>0
  <2> QED BY <2>1, FS_EmptySet
<1>5. ASSUME NEW i \in Nat
      PROVE  Cardinality(U(i + 1)) = IF i + 1 \in W THEN Cardinality(U(i)) + 1 ELSE Cardinality(U(i))
  <2>1. CASE i + 1 \in W
    <3>0. \A j \in W : j <= i + 1 <=> j <= i \/ j = i + 1
      BY <1>0
    <3>1. U(i + 1) = U(i) \cup {i + 1} /\ i + 1 \notin U(i)
      <4>1. PICK x : x = i + 1
        OBVIOUS
      <4>2. x \in W /\ ~(x <= i) /\ \A j \in W : j <= x <=> j <= i \/ j = x
        BY <2>1, <3>0, <4>1
      <4>3. {j \in W : j <= x} = {j \in W : j <= i} \cup {x} /\ x \notin {j \in W : j <= i}
        BY ONLY <4>2
      <4> QED BY <4>1, <4>3
    <3>2. PICK u, x : u = U(i) /\ x = i + 1
      OBVIOUS
    <3>3. Cardinality(u \cup {x}) = IF x \in u THEN Cardinality(u) ELSE Cardinality(u) + 1
      BY <1>3, <3>2, FS_AddElement
    <3> QED BY <2>1, <3>1, <3>2, <3>3
  <2>2. CASE i + 1 \notin W
    <3>0. \A j \in W : j <= i + 1 <=> j <= i
      BY <1>0, <2>2
    <3>1. U(i + 1) = U(i)
      BY <3>0
    <3> QED BY <2>2, <3>1
  <2> QED BY <2>1, <2>2
<1>6. U(n) = W
  BY <1>0
<1> DEFINE r == RanksOf(W)
<1>7. \A i \in 0 .. SHELL_BUFFER_SIZE - 1 : r[i] = Cardinality(U(i))
  BY DEF RanksOf
<1>8. W \subseteq 1 .. SHELL_BUFFER_SIZE - 1
  BY <1>1
<1>9. r \in [0 .. SHELL_BUFFER_SIZE - 1 -> Nat]
  <2>1. ASSUME NEW i \in 0 .. SHELL_BUFFER_SIZE - 1 PROVE r[i] \in Nat
    <3>1. i \in Nat
      BY <1>1
    <3> QED BY <1>3, <1>7, <3>1
  <2> QED BY <2>1 DEF RanksOf
<1>10. \A i \in 0 .. SHELL_BUFFER_SIZE - 2 : i \in Nat /\ i \in 0 .. SHELL_BUFFER_SIZE - 1 /\ i + 1 \in 0 .. SHELL_BUFFER_SIZE - 1
  BY <1>1
<1>11. 0 \in 0 .. SHELL_BUFFER_SIZE - 1 /\ n \in 0 .. SHELL_BUFFER_SIZE - 1
  BY <1>1
<1> HIDE DEF U, r
<1> QED BY <1>4, <1>5, <1>6, <1>7, <1>8, <1>9, <1>10, <1>11 DEF Ranked, r

(* Ranks never fall; and that of a start is one at least. *)
LEMMA RanksGrow ==
  ASSUME NEW W, NEW r, Ranked(W, r), NEW i \in 0 .. SHELL_BUFFER_SIZE - 1
  PROVE  /\ \A j \in 0 .. SHELL_BUFFER_SIZE - 1 : i <= j => r[i] <= r[j]
         /\ \A j \in 0 .. SHELL_BUFFER_SIZE - 1 :
              i <= j /\ (\A k \in i + 1 .. j : k \notin W) => r[j] = r[i]
         /\ i \in W => r[i] >= 1
<1>1. SHELL_BUFFER_SIZE \in Nat \ {0} /\ i \in Nat
  BY ShellAssumption
<1>2. r \in [0 .. SHELL_BUFFER_SIZE - 1 -> Nat]
  BY DEF Ranked
<1> DEFINE Same(j) == (\A k \in i + 1 .. j : k \notin W) => r[j] = r[i]
           M == {d \in Nat : i + d <= SHELL_BUFFER_SIZE - 1 => r[i] <= r[i + d] /\ Same(i + d)}
<1>3. 0 \in M
  BY <1>1, <1>2
<1>4. ASSUME NEW d \in Nat, d \in M PROVE d + 1 \in M
  <2> SUFFICES ASSUME i + (d + 1) <= SHELL_BUFFER_SIZE - 1 PROVE r[i] <= r[i + (d + 1)] /\ Same(i + (d + 1))
    OBVIOUS
  <2>1. /\ i + d \in 0 .. SHELL_BUFFER_SIZE - 2 /\ i + d \in 0 .. SHELL_BUFFER_SIZE - 1
        /\ i + (d + 1) = (i + d) + 1
    BY <1>1
  <2>2. r[i] <= r[i + d] /\ Same(i + d)
    BY <1>1, <1>4, <2>1
  <2> HIDE DEF M
  <2>3. PICK j : j = i + d
    OBVIOUS
  <2>4. r[j + 1] = IF j + 1 \in W THEN r[j] + 1 ELSE r[j]
    BY <2>1, <2>3 DEF Ranked
  <2>5. r[i] \in Nat /\ r[j] \in Nat
    BY <1>2, <2>1, <2>3
  <2>6. r[i] <= r[j + 1]
    BY <2>2, <2>3, <2>4, <2>5
  <2>7. Same(j + 1)
    <3> SUFFICES ASSUME \A k \in i + 1 .. j + 1 : k \notin W PROVE r[j + 1] = r[i]
      OBVIOUS
    <3>1. j + 1 \in i + 1 .. j + 1 /\ \A k \in i + 1 .. j : k \in i + 1 .. j + 1
      BY <1>1, <2>1, <2>3
    <3> QED BY <2>2, <2>3, <2>4, <3>1
  <2> QED BY <2>1, <2>3, <2>6, <2>7
<1> HIDE DEF M
<1>5. \A d \in Nat : d \in M
  BY ONLY <1>3, <1>4, Upwards
<1>6. ASSUME NEW j \in 0 .. SHELL_BUFFER_SIZE - 1, i <= j PROVE r[i] <= r[j] /\ Same(j)
  <2>1. j - i \in Nat /\ i + (j - i) = j /\ j <= SHELL_BUFFER_SIZE - 1
    BY <1>1, <1>6
  <2>2. j - i \in M
    BY <1>5, <2>1
  <2> QED BY <2>1, <2>2 DEF M
<1>7. ASSUME i \in W PROVE r[i] >= 1
  <2>1. i - 1 \in 0 .. SHELL_BUFFER_SIZE - 2 /\ (i - 1) + 1 = i /\ i - 1 \in 0 .. SHELL_BUFFER_SIZE - 1
    BY <1>1, <1>7 DEF Ranked
  <2>2. r[i] = r[i - 1] + 1 /\ r[i - 1] \in Nat
    BY <1>2, <1>7, <2>1 DEF Ranked
  <2> QED BY <2>2
<1> QED BY <1>6, <1>7

Places == 0 .. SHELL_BUFFER_SIZE - 1

Parsers == [buffer : [Places -> Chars \cup {Zero}], argv : Seq(Places), in_word : BOOLEAN]

(* A blank that ends a word other than the last there is room for. *)
Cut(b, r, e, j) ==
  /\ j >= 1 /\ j < e /\ BlankAt(b, j + 1) /\ ~BlankAt(b, j)
  /\ r[j + 1] < MaxWords

UpTo(i, n) == IF i < n THEN i ELSE n

(* What the parser has after i characters of the line b of n. *)
Scanned(b, n, r, p, i) ==
  /\ p \in Parsers
  /\ Len(p.argv) = UpTo(r[i], MaxWords)
  /\ \A w \in StartsOf(b, n) : w <= i /\ r[w] <= MaxWords => p.argv[r[w]] = w - 1
  /\ r[i] < MaxWords => (p.in_word <=> (UpTo(i, n) >= 1 /\ ~BlankAt(b, UpTo(i, n))))
  /\ \A j \in Places : p.buffer[j] = IF Cut(b, r, UpTo(i, n), j) THEN Zero ELSE b[j]

LEMMA ParseType == ASSUME NEW p \in Parsers, NEW i \in Places PROVE ParseStep(p, i) \in Parsers
<1>1. CASE p.buffer[i] = Zero \/ Len(p.argv) >= SHELL_MAX_ARGS - 1
  BY <1>1 DEF ParseStep
<1>2. CASE ~(p.buffer[i] = Zero \/ Len(p.argv) >= SHELL_MAX_ARGS - 1) /\ p.buffer[i] \notin {Blank, Tab}
  <2>1. PICK a : a = IF p.in_word THEN p.argv ELSE Append(p.argv, i)
    OBVIOUS
  <2>2. a \in Seq(Places)
    BY <2>1, AppendProperties DEF Parsers
  <2>3. ParseStep(p, i) = [p EXCEPT !.argv = a, !.in_word = TRUE]
    BY <1>2, <2>1 DEF ParseStep
  <2> QED BY <2>2, <2>3 DEF Parsers
<1>3. CASE ~(p.buffer[i] = Zero \/ Len(p.argv) >= SHELL_MAX_ARGS - 1) /\ p.buffer[i] \in {Blank, Tab}
  <2>1. PICK u : u = [p.buffer EXCEPT ![i] = IF p.in_word THEN Zero ELSE @]
    OBVIOUS
  <2>2. u \in [Places -> Chars \cup {Zero}]
    BY <2>1 DEF Parsers
  <2>3. ParseStep(p, i) = [p EXCEPT !.buffer = u, !.in_word = FALSE]
    BY <1>3, <2>1 DEF ParseStep
  <2> QED BY <2>2, <2>3 DEF Parsers
<1> QED BY <1>1, <1>2, <1>3

(* What a step does to a parser that is not full, by fields. *)
LEMMA ParseFields ==
  ASSUME NEW p \in Parsers, NEW i \in Places,
         p.buffer[i] # Zero, Len(p.argv) < SHELL_MAX_ARGS - 1
  PROVE  /\ p.buffer[i] \notin {Blank, Tab} =>
              /\ ParseStep(p, i).buffer = p.buffer /\ ParseStep(p, i).in_word
              /\ ParseStep(p, i).argv = IF p.in_word THEN p.argv ELSE Append(p.argv, i)
         /\ p.buffer[i] \in {Blank, Tab} =>
              /\ ParseStep(p, i).argv = p.argv /\ ~ParseStep(p, i).in_word
              /\ ParseStep(p, i).buffer = [p.buffer EXCEPT ![i] = IF p.in_word THEN Zero ELSE @]
<1>0. ~(Len(p.argv) >= SHELL_MAX_ARGS - 1)
  <2>1. Len(p.argv) \in Nat /\ SHELL_MAX_ARGS \in Nat
    BY ShellAssumption, LenProperties DEF Parsers
  <2> QED BY <2>1
<1>1. CASE p.buffer[i] \notin {Blank, Tab}
  <2>1. PICK a : a = IF p.in_word THEN p.argv ELSE Append(p.argv, i)
    OBVIOUS
  <2>2. ParseStep(p, i) = [p EXCEPT !.argv = a, !.in_word = TRUE]
    BY <1>0, <1>1, <2>1 DEF ParseStep
  <2> QED BY <1>1, <2>1, <2>2 DEF Parsers
<1>2. CASE p.buffer[i] \in {Blank, Tab}
  <2>1. PICK u : u = [p.buffer EXCEPT ![i] = IF p.in_word THEN Zero ELSE @]
    OBVIOUS
  <2>2. ParseStep(p, i) = [p EXCEPT !.buffer = u, !.in_word = FALSE]
    BY <1>0, <1>2, <2>1 DEF ParseStep
  <2> QED BY <1>2, <2>1, <2>2 DEF Parsers
<1> QED BY <1>1, <1>2

(* One more character. *)
LEMMA ScanStep ==
  ASSUME NEW b, NEW n, Lined(b, n), NEW r, Ranked(StartsOf(b, n), r), NEW p,
         NEW i \in 0 .. SHELL_BUFFER_SIZE - 2, Scanned(b, n, r, p, i)
  PROVE  Scanned(b, n, r, ParseStep(p, i), i + 1)
<1> DEFINE W == StartsOf(b, n)
           q == ParseStep(p, i)
<1>1. /\ SHELL_BUFFER_SIZE \in Nat /\ n \in Nat /\ n <= SHELL_BUFFER_SIZE - 1 /\ i \in Nat
      /\ i \in Places /\ i + 1 \in Places /\ MaxWords \in Nat /\ i + 1 <= SHELL_BUFFER_SIZE - 1
      /\ MaxWords = SHELL_MAX_ARGS - 1
  BY ShellAssumption DEF Lined, Places, MaxWords
<1>2. /\ r[i] \in Nat /\ r[i + 1] \in Nat
      /\ r[i + 1] = IF i + 1 \in W THEN r[i] + 1 ELSE r[i]
      /\ \A j \in Places : r[j] \in Nat
  BY <1>1 DEF Ranked, Places
<1>3. p \in Parsers /\ q \in Parsers /\ p.buffer \in [Places -> Chars \cup {Zero}] /\ p.argv \in Seq(Places)
  BY <1>1, ParseType DEF Scanned, Parsers
<1>4. \A w \in W : /\ w \in Nat /\ w \in Places /\ w >= 1 /\ w <= n /\ r[w] \in Nat /\ r[w] >= 1
                   /\ w <= i => r[w] <= r[i]
  <2> SUFFICES ASSUME NEW w \in W
               PROVE  /\ w \in Nat /\ w \in Places /\ w >= 1 /\ w <= n /\ r[w] \in Nat /\ r[w] >= 1
                      /\ w <= i => r[w] <= r[i]
    OBVIOUS
  <2>1. w \in 1 .. n
    BY DEF StartsOf
  <2>2. w \in 0 .. SHELL_BUFFER_SIZE - 1 /\ i \in 0 .. SHELL_BUFFER_SIZE - 1 /\ w \in Places
    BY <1>1, <2>1 DEF Places
  <2>3. r[w] >= 1 /\ (w <= i => r[w] <= r[i])
    BY <2>2, RanksGrow
  <2> QED BY <1>1, <1>2, <2>1, <2>2, <2>3
<1>5. p.buffer[i] = b[i]
  <2>1. ~(i < UpTo(i, n))
    BY <1>1 DEF UpTo
  <2> QED BY <1>1, <2>1 DEF Scanned, Cut
<1>6. CASE i >= n
  <2>1. b[i] = Zero
    BY <1>1, <1>6 DEF Lined, Places
  <2>2. q = p
    BY <1>5, <2>1 DEF ParseStep
  <2>3. i + 1 \notin W /\ UpTo(i + 1, n) = n /\ UpTo(i, n) = n
    BY <1>1, <1>4, <1>6 DEF UpTo
  <2>4. \A w \in W : w <= i
    BY <1>1, <1>4, <1>6
  <2> QED BY <1>2, <2>2, <2>3, <2>4 DEF Scanned
<1>7. CASE i < n /\ r[i] >= MaxWords
  <2>1. UpTo(r[i], MaxWords) = MaxWords /\ UpTo(r[i + 1], MaxWords) = MaxWords /\ r[i + 1] >= MaxWords
    BY <1>1, <1>2, <1>7 DEF UpTo
  <2>2. q = p
    <3>1. Len(p.argv) >= SHELL_MAX_ARGS - 1
      BY <1>1, <2>1 DEF Scanned
    <3> QED BY <3>1 DEF ParseStep
  <2>3. ASSUME NEW w \in W, w <= i + 1, r[w] <= MaxWords PROVE w <= i
    <3>1. CASE w = i + 1
      BY <1>1, <1>2, <1>7, <2>3, <3>1
    <3>2. CASE w # i + 1
      BY <1>1, <1>4, <2>3, <3>2
    <3> QED BY <3>1, <3>2
  <2>4. \A j \in Places : Cut(b, r, UpTo(i, n), j) <=> Cut(b, r, UpTo(i + 1, n), j)
    <3> SUFFICES ASSUME NEW j \in Places PROVE Cut(b, r, UpTo(i, n), j) <=> Cut(b, r, UpTo(i + 1, n), j)
      OBVIOUS
    <3>1. UpTo(i, n) = i /\ UpTo(i + 1, n) = i + 1
      BY <1>1, <1>7 DEF UpTo
    <3>2. j \in Nat /\ (j < i + 1 <=> j < i \/ j = i)
      BY <1>1 DEF Places
    <3>3. ~(r[i + 1] < MaxWords)
      BY <1>1, <1>2, <2>1
    <3> QED BY <3>1, <3>2, <3>3 DEF Cut
  <2> QED BY <1>1, <1>2, <1>3, <2>1, <2>2, <2>3, <2>4 DEF Scanned
<1>8. CASE i < n /\ r[i] < MaxWords
  <2>1. /\ UpTo(i, n) = i /\ UpTo(i + 1, n) = i + 1 /\ UpTo(r[i], MaxWords) = r[i]
        /\ UpTo(r[i + 1], MaxWords) = r[i + 1] /\ r[i + 1] <= MaxWords
    BY <1>1, <1>2, <1>8 DEF UpTo
  <2>2. b[i] # Zero /\ Len(p.argv) = r[i] /\ Len(p.argv) < SHELL_MAX_ARGS - 1
    BY <1>1, <1>2, <1>8, <2>1 DEF Lined, Places, Scanned
  <2>3. (p.in_word <=> (i >= 1 /\ ~BlankAt(b, i))) /\ (BlankAt(b, i + 1) <=> b[i] \in {Blank, Tab})
    <3>1. (i + 1) - 1 = i
      BY <1>1
    <3> QED BY <1>8, <2>1, <3>1 DEF Scanned, BlankAt
  <2>4. i + 1 \in W <=> ~BlankAt(b, i + 1) /\ (i = 0 \/ BlankAt(b, i))
    <3>1. i + 1 \in 1 .. n /\ (i + 1 = 1 <=> i = 0) /\ (i + 1) - 1 = i
      BY <1>1, <1>8
    <3> QED BY <3>1 DEF StartsOf
  <2>5. \A w \in W : w <= i + 1 => w <= i \/ w = i + 1
    BY <1>1, <1>4
  <2>6. \A j \in Places : j < i + 1 <=> j < i \/ j = i
    BY <1>1 DEF Places
  <2>7. CASE BlankAt(b, i + 1)
    <3>1. /\ q.argv = p.argv /\ ~q.in_word
          /\ q.buffer = [p.buffer EXCEPT ![i] = IF p.in_word THEN Zero ELSE @]
      BY <1>1, <1>3, <1>5, <2>2, <2>3, <2>7, ParseFields
    <3>2. i + 1 \notin W /\ r[i + 1] = r[i] /\ r[i + 1] < MaxWords
      BY <1>2, <1>8, <2>4, <2>7
    <3>3. Len(q.argv) = UpTo(r[i + 1], MaxWords)
      BY <2>1, <2>2, <3>1, <3>2
    <3>4. \A w \in W : w <= i + 1 /\ r[w] <= MaxWords => q.argv[r[w]] = w - 1
      BY <2>5, <3>1, <3>2 DEF Scanned
    <3>5. \A j \in Places : q.buffer[j] = IF Cut(b, r, i + 1, j) THEN Zero ELSE b[j]
      <4> SUFFICES ASSUME NEW j \in Places PROVE q.buffer[j] = IF Cut(b, r, i + 1, j) THEN Zero ELSE b[j]
        OBVIOUS
      <4>1. CASE j = i
        <5>1. Cut(b, r, i + 1, i) <=> i >= 1 /\ ~BlankAt(b, i)
          BY <1>1, <2>7, <3>2 DEF Cut
        <5>2. q.buffer[i] = IF p.in_word THEN Zero ELSE b[i]
          BY <1>1, <1>3, <1>5, <3>1
        <5> QED BY <2>3, <4>1, <5>1, <5>2
      <4>2. CASE j # i
        <5>1. Cut(b, r, i + 1, j) <=> Cut(b, r, i, j)
          BY <2>6, <4>2 DEF Cut
        <5>2. q.buffer[j] = p.buffer[j]
          BY <1>1, <1>3, <3>1, <4>2
        <5>3. p.buffer[j] = IF Cut(b, r, i, j) THEN Zero ELSE b[j]
          BY <2>1 DEF Scanned
        <5> QED BY <5>1, <5>2, <5>3
      <4> QED BY <4>1, <4>2
    <3>6. q.in_word <=> (i + 1 >= 1 /\ ~BlankAt(b, i + 1))
      BY <2>7, <3>1
    <3> QED BY <1>3, <2>1, <3>3, <3>4, <3>5, <3>6 DEF Scanned
  <2>8. CASE ~BlankAt(b, i + 1)
    <3>1. /\ q.buffer = p.buffer /\ q.in_word
          /\ q.argv = IF p.in_word THEN p.argv ELSE Append(p.argv, i)
      BY <1>1, <1>3, <1>5, <2>2, <2>3, <2>8, ParseFields
    <3>2. i + 1 \in W <=> ~p.in_word
      BY <1>1, <2>3, <2>4, <2>8
    <3>3. \A j \in Places : q.buffer[j] = IF Cut(b, r, i + 1, j) THEN Zero ELSE b[j]
      <4> SUFFICES ASSUME NEW j \in Places PROVE q.buffer[j] = IF Cut(b, r, i + 1, j) THEN Zero ELSE b[j]
        OBVIOUS
      <4>1. Cut(b, r, i + 1, j) <=> Cut(b, r, i, j)
        <5>1. CASE j = i
          BY <1>1, <2>8, <5>1 DEF Cut
        <5>2. CASE j # i
          BY <2>6, <5>2 DEF Cut
        <5> QED BY <5>1, <5>2
      <4>2. p.buffer[j] = IF Cut(b, r, i, j) THEN Zero ELSE b[j]
        BY <2>1 DEF Scanned
      <4> QED BY <3>1, <4>1, <4>2
    <3>4. q.in_word <=> (i + 1 >= 1 /\ ~BlankAt(b, i + 1))
      BY <1>1, <2>8, <3>1
    <3>5. /\ Len(q.argv) = r[i + 1]
          /\ \A w \in W : w <= i + 1 /\ r[w] <= MaxWords => q.argv[r[w]] = w - 1
      <4>1. CASE p.in_word
        <5>1. q.argv = p.argv /\ i + 1 \notin W /\ r[i + 1] = r[i]
          BY <1>2, <3>1, <3>2, <4>1
        <5> QED BY <2>2, <2>5, <5>1 DEF Scanned
      <4>2. CASE ~p.in_word
        <5>1. q.argv = Append(p.argv, i) /\ i + 1 \in W /\ r[i + 1] = r[i] + 1
          BY <1>2, <3>1, <3>2, <4>2
        <5>2. PICK a : a = p.argv
          OBVIOUS
        <5>3. /\ Len(Append(a, i)) = r[i] + 1 /\ Append(a, i)[r[i] + 1] = i
              /\ \A k \in 1 .. r[i] : Append(a, i)[k] = a[k]
          BY <1>1, <1>3, <2>2, <5>2, AppendProperties
        <5>4. ASSUME NEW w \in W, w <= i + 1, r[w] <= MaxWords PROVE q.argv[r[w]] = w - 1
          <6>1. CASE w = i + 1
            <7>1. w - 1 = i
              BY <1>1, <6>1
            <7> QED BY <5>1, <5>2, <5>3, <6>1, <7>1
          <6>2. CASE w # i + 1
            <7>1. w <= i
              BY <2>5, <5>4, <6>2
            <7>2. r[w] \in 1 .. r[i]
              BY <1>2, <1>4, <7>1
            <7>3. a[r[w]] = w - 1
              BY <5>2, <5>4, <7>1 DEF Scanned
            <7> QED BY <5>1, <5>2, <5>3, <7>2, <7>3
          <6> QED BY <6>1, <6>2
        <5> QED BY <5>1, <5>2, <5>3, <5>4
      <4> QED BY <4>1, <4>2
    <3> QED BY <1>3, <2>1, <3>3, <3>4, <3>5 DEF Scanned
  <2> QED BY <2>7, <2>8
<1>9. i >= n \/ (i < n /\ r[i] >= MaxWords) \/ (i < n /\ r[i] < MaxWords)
  BY <1>1, <1>2
<1> QED BY <1>6, <1>7, <1>8, <1>9

(* What shell_parse_command has in the end. *)
LEMMA ParseIs ==
  ASSUME NEW b, NEW n, Lined(b, n), NEW r, Ranked(StartsOf(b, n), r)
  PROVE  \E p : /\ Scanned(b, n, r, p, SHELL_BUFFER_SIZE - 1)
                /\ Parse(b) = [k \in DOMAIN p.argv |-> StringAt(p.buffer, p.argv[k])]
<1> DEFINE m == SHELL_BUFFER_SIZE - 1
           start == [buffer |-> b, argv |-> << >>, in_word |-> FALSE]
           g == [k \in 1 .. m |-> [p \in Parsers |-> ParseStep(p, k - 1)]]
<1>1. SHELL_BUFFER_SIZE \in Nat /\ m \in Nat /\ n \in Nat /\ SHELL_MAX_ARGS \in Nat \ {0}
      /\ \A k \in 1 .. m : k - 1 \in Places /\ k - 1 \in 0 .. SHELL_BUFFER_SIZE - 2 /\ k - 1 \in Nat
  BY ShellAssumption DEF Lined, Places
<1>2. start \in Parsers
  <2>1. << >> \in Seq(Places)
    BY EmptySeq
  <2>2. b \in [Places -> Chars \cup {Zero}]
    BY DEF Lined, Places
  <2> QED BY <2>1, <2>2 DEF Parsers
<1>3. m \in Nat /\ start \in Parsers /\ g \in Steps(m, Parsers)
  BY <1>1, <1>2, ParseType DEF Steps
<1>4. Runs(m, Parsers, start, g) # {}
  <2> HIDE DEF m, start, g
  <2> QED BY ONLY <1>3, Iterates
<1>5. PICK f \in [0 .. m -> Parsers] : f[0] = start /\ \A k \in 1 .. m : f[k] = g[k][f[k - 1]]
  <2> HIDE DEF m, start, g
  <2> QED BY <1>4 DEF Runs
<1> DEFINE Def(h) == [k \in 0 .. m |-> IF k = 0 THEN start ELSE ParseStep(h[k - 1], k - 1)]
           h == CHOOSE h : h = Def(h)
<1>6. f = Def(f)
  <2>1. ASSUME NEW k \in 0 .. m PROVE f[k] = IF k = 0 THEN start ELSE ParseStep(f[k - 1], k - 1)
    <3>1. CASE k = 0
      BY <1>5, <3>1
    <3>2. CASE k # 0
      <4>1. k \in 1 .. m /\ k - 1 \in 0 .. m
        BY <1>1, <3>2
      <4>2. f[k] = g[k][f[k - 1]] /\ f[k - 1] \in Parsers
        BY <1>5, <4>1
      <4> QED BY <3>2, <4>1, <4>2
    <3> QED BY <3>1, <3>2
  <2>2. f = [k \in 0 .. m |-> f[k]]
    BY <1>5
  <2> HIDE DEF m, start, g
  <2> QED BY ONLY <2>1, <2>2
<1>7. Parse(b) = [k \in DOMAIN h[m].argv |-> StringAt(h[m].buffer, h[m].argv[k])]
  BY DEF Parse
<1>8. h = Def(h)
  <2> HIDE DEF Def
  <2> QED BY <1>6
<1>9. h[0] = start /\ \A k \in 1 .. m : h[k] = ParseStep(h[k - 1], k - 1)
  <2> HIDE DEF h
  <2>1. 0 \in 0 .. m /\ \A k \in 1 .. m : k \in 0 .. m /\ k # 0
    BY <1>1
  <2>2. h = [k \in 0 .. m |-> IF k = 0 THEN start ELSE ParseStep(h[k - 1], k - 1)]
    BY <1>8
  <2> HIDE DEF m, start
  <2> QED BY ONLY <2>1, <2>2
<1> HIDE DEF h, Def, g
<1> DEFINE M == {k \in Nat : k <= m => Scanned(b, n, r, h[k], k)}
<1>10. 0 \in M
  <2>1. r[0] = 0 /\ Len(<< >>) = 0 /\ UpTo(0, n) = 0 /\ UpTo(0, MaxWords) = 0
    BY <1>1, EmptySeq DEF Ranked, UpTo, MaxWords
  <2>2. \A w \in StartsOf(b, n) : ~(w <= 0)
    BY <1>1 DEF StartsOf
  <2>3. \A j \in Places : ~Cut(b, r, 0, j)
    BY <1>1 DEF Cut, Places
  <2>4. Scanned(b, n, r, start, 0)
    BY <1>2, <2>1, <2>2, <2>3 DEF Scanned
  <2> HIDE DEF start
  <2> QED BY <1>9, <2>4
<1>11. ASSUME NEW k \in Nat, k \in M PROVE k + 1 \in M
  <2> SUFFICES ASSUME k + 1 <= m PROVE Scanned(b, n, r, h[k + 1], k + 1)
    OBVIOUS
  <2>1. Scanned(b, n, r, h[k], k) /\ k + 1 \in 1 .. m /\ (k + 1) - 1 = k
    BY <1>1, <1>11
  <2>2. h[k + 1] = ParseStep(h[k], k) /\ k \in 0 .. SHELL_BUFFER_SIZE - 2
    BY <1>1, <1>9, <2>1
  <2> QED BY <2>1, <2>2, ScanStep
<1> HIDE DEF M
<1>12. m \in M
  <2> HIDE DEF m
  <2> QED BY ONLY <1>1, <1>10, <1>11, Upwards
<1> QED BY <1>1, <1>7, <1>12 DEF M

(* The string that begins at a place of a buffer, if it ends. *)
LEMMA StringIs ==
  ASSUME NEW u, DOMAIN u = Places, NEW i \in Places, NEW e \in Places, i <= e, u[e] = Zero,
         \A j \in Places : i <= j /\ j < e => u[j] # Zero
  PROVE  StringAt(u, i) = [k \in 1 .. e - i |-> u[i + k - 1]]
<1>1. SHELL_BUFFER_SIZE \in Nat /\ i \in Int /\ e \in Int /\ Places \subseteq Int
  BY ShellAssumption DEF Places
<1> DEFINE after == {j \in DOMAIN u : j >= i /\ u[j] = Zero}
<1>2. e \in after
  BY <1>1
<1>3. ASSUME NEW y \in after PROVE e <= y
  <2>1. y \in Places /\ y >= i /\ u[y] = Zero /\ y \in Int
    BY <1>1
  <2> QED BY <1>1, <2>1
<1>4. Min(after) = e
  <2> HIDE DEF after
  <2>1. Min(after) = CHOOSE x \in after : \A y \in after : x <= y
    BY DEF Min
  <2>2. ASSUME NEW x \in after, \A y \in after : x <= y PROVE x = e
    <3>1. x \in Int /\ x <= e /\ e <= x
      BY <1>1, <1>2, <1>3, <2>2 DEF after
    <3> QED BY <1>1, <3>1
  <2> QED BY <1>2, <1>3, <2>1, <2>2
<1> QED BY <1>4 DEF StringAt

(* The part of a line from one place to another. *)
LEMMA PartIs ==
  ASSUME NEW b, NEW n, Lined(b, n), NEW i \in 1 .. n, NEW e \in i .. n
  PROVE  SubSeq(TextOf(b, n), i, e) = [k \in 1 .. e - i + 1 |-> b[i + k - 2]]
<1>1. n \in Nat /\ \A k \in 1 .. n : TextOf(b, n)[k] = b[k - 1]
  BY TextIs
<1>2. SubSeq(TextOf(b, n), i, e) = [k \in 1 .. e - i + 1 |-> TextOf(b, n)[i + k - 1]]
  BY <1>1, TextIs
<1>3. ASSUME NEW k \in 1 .. e - i + 1 PROVE TextOf(b, n)[i + k - 1] = b[i + k - 2]
  <2>1. i + k - 1 \in 1 .. n /\ (i + k - 1) - 1 = i + k - 2
    BY <1>1
  <2> QED BY <1>1, <2>1
<1> QED BY <1>2, <1>3

(* What the parser hands over, by the words of the line. *)
ArgvOf(b, n, argv) ==
  LET W    == StartsOf(b, n)
      text == TextOf(b, n)
  IN  /\ Len(argv) = Min({Cardinality(W), MaxWords})
      /\ \A i \in W :
           LET rank == Cardinality({j \in W : j <= i})
               ends == {j \in i .. n : BlankAt(b, j)}
           IN  rank <= MaxWords =>
                 argv[rank] = IF rank < MaxWords
                              THEN SubSeq(text, i, IF ends = {} THEN n ELSE Min(ends) - 1)
                              ELSE SubSeq(text, i, n)

(* The words of the line, each at its number, the rest of the line last.   *)
LEMMA WordsAreParsed == ASSUME NEW b, NEW n, Lined(b, n) PROVE ArgvOf(b, n, Parse(b))
<1> DEFINE W == StartsOf(b, n)
<1>1. /\ SHELL_BUFFER_SIZE \in Nat /\ n \in Nat /\ n <= SHELL_BUFFER_SIZE - 1 /\ n \in Places
      /\ MaxWords \in Nat /\ SHELL_BUFFER_SIZE - 1 \in Nat
  BY ShellAssumption DEF Lined, Places, MaxWords
<1>2. PICK r : /\ r = RanksOf(W) /\ Ranked(W, r) /\ r[n] = Cardinality(W)
  <2>1. W \subseteq 1 .. n /\ n \in 0 .. SHELL_BUFFER_SIZE - 1
    BY <1>1 DEF StartsOf, Places
  <2> HIDE DEF W
  <2>2. Ranked(W, RanksOf(W)) /\ RanksOf(W)[n] = Cardinality(W)
    BY ONLY <2>1, RanksAre
  <2> QED BY <2>2
<1>3. PICK p : /\ Scanned(b, n, r, p, SHELL_BUFFER_SIZE - 1)
               /\ Parse(b) = [k \in DOMAIN p.argv |-> StringAt(p.buffer, p.argv[k])]
  BY <1>2, ParseIs
<1>4. ASSUME NEW w \in W
      PROVE  /\ w \in 1 .. n /\ w \in Places /\ w - 1 \in Places /\ w \in Nat /\ 1 <= w /\ w <= n
             /\ w <= SHELL_BUFFER_SIZE - 1 /\ r[w] = Cardinality({j \in W : j <= w}) /\ r[w] >= 1
  <2>1. w \in 1 .. n
    BY DEF StartsOf
  <2>2. /\ w \in Places /\ w - 1 \in Places /\ w \in Nat /\ 1 <= w /\ w <= n
        /\ w <= SHELL_BUFFER_SIZE - 1 /\ w \in 0 .. SHELL_BUFFER_SIZE - 1
    BY <1>1, <2>1 DEF Places
  <2> HIDE DEF W
  <2>3. r[w] >= 1
    BY <1>2, <2>2, RanksGrow
  <2>4. r[w] = Cardinality({j \in W : j <= w})
    BY <1>2, <2>2 DEF RanksOf
  <2> QED BY <2>1, <2>2, <2>3, <2>4
<1>5. /\ \A i \in Places : r[i] \in Nat
      /\ \A i \in Places : \A j \in Places : i <= j => r[i] <= r[j]
      /\ \A i \in Places : \A j \in Places : i <= j /\ (\A k \in i + 1 .. j : k \notin W) => r[j] = r[i]
  <2> HIDE DEF W
  <2>1. \A i \in Places : r[i] \in Nat
    BY <1>2 DEF Ranked, Places
  <2>2. ASSUME NEW i \in Places
        PROVE  /\ \A j \in Places : i <= j => r[i] <= r[j]
               /\ \A j \in Places : i <= j /\ (\A k \in i + 1 .. j : k \notin W) => r[j] = r[i]
    <3>1. i \in 0 .. SHELL_BUFFER_SIZE - 1
      BY DEF Places
    <3>2. /\ \A j \in 0 .. SHELL_BUFFER_SIZE - 1 : i <= j => r[i] <= r[j]
          /\ \A j \in 0 .. SHELL_BUFFER_SIZE - 1 :
               i <= j /\ (\A k \in i + 1 .. j : k \notin W) => r[j] = r[i]
      BY <1>2, <3>1, RanksGrow
    <3> QED BY <3>2 DEF Places
  <2> QED BY <2>1, <2>2
<1>6. r[SHELL_BUFFER_SIZE - 1] = r[n]
  <2>1. \A k \in n + 1 .. SHELL_BUFFER_SIZE - 1 : k \notin W
    <3> SUFFICES ASSUME NEW k \in n + 1 .. SHELL_BUFFER_SIZE - 1, k \in W PROVE FALSE
      OBVIOUS
    <3>1. k \in 1 .. n
      BY <1>4
    <3> QED BY <1>1, <3>1
  <2>2. n \in Places /\ SHELL_BUFFER_SIZE - 1 \in Places /\ n <= SHELL_BUFFER_SIZE - 1
    BY <1>1 DEF Places
  <2> QED BY <1>5, <2>1, <2>2
<1>7. UpTo(SHELL_BUFFER_SIZE - 1, n) = n
  BY <1>1 DEF UpTo
<1>8. /\ p \in Parsers /\ p.argv \in Seq(Places) /\ DOMAIN p.buffer = Places
      /\ Len(p.argv) = UpTo(r[n], MaxWords)
      /\ \A j \in Places : p.buffer[j] = IF Cut(b, r, n, j) THEN Zero ELSE b[j]
      /\ \A w \in W : r[w] <= MaxWords => p.argv[r[w]] = w - 1
  <2>1. \A w \in W : w <= SHELL_BUFFER_SIZE - 1
    BY <1>4
  <2> QED BY <1>3, <1>6, <1>7, <2>1 DEF Scanned, Parsers
<1>9. PICK m : m = Len(p.argv)
  OBVIOUS
<1>10. m \in Nat /\ DOMAIN p.argv = 1 .. m /\ m = UpTo(r[n], MaxWords)
  BY <1>8, <1>9, LenProperties
<1>11. Len(Parse(b)) = m
  <2> DEFINE T == {Parse(b)[k] : k \in 1 .. m}
  <2>1. DOMAIN Parse(b) = 1 .. m /\ Parse(b) \in [1 .. m -> T]
    BY <1>3, <1>10
  <2>2. Parse(b) \in Seq(T)
    BY <1>10, <2>1, SeqDef
  <2>3. PICK l : l = Len(Parse(b))
    OBVIOUS
  <2>4. l \in Nat /\ DOMAIN Parse(b) = 1 .. l
    BY <2>2, <2>3, LenProperties
  <2>5. l \in 1 .. l \/ l = 0
    BY ONLY <2>4
  <2>6. l <= m
    BY ONLY <1>10, <2>1, <2>4, <2>5
  <2>7. m \in 1 .. m \/ m = 0
    BY ONLY <1>10
  <2>8. m <= l
    BY ONLY <1>10, <2>1, <2>4, <2>7
  <2> QED BY ONLY <1>10, <2>3, <2>4, <2>6, <2>8
<1>12. Min({Cardinality(W), MaxWords}) = m
  <2>1. PICK c : c = Cardinality(W)
    OBVIOUS
  <2>2. c \in Nat /\ m = IF c < MaxWords THEN c ELSE MaxWords
    BY <1>1, <1>2, <1>5, <1>10, <2>1 DEF UpTo
  <2>3. m \in {c, MaxWords} /\ \A y \in {c, MaxWords} : m <= y
    BY <1>1, <2>2
  <2>4. Min({c, MaxWords}) = m
    <3>1. Min({c, MaxWords}) = CHOOSE x \in {c, MaxWords} : \A y \in {c, MaxWords} : x <= y
      BY DEF Min
    <3> QED BY <1>1, <2>2, <2>3, <3>1
  <2> QED BY <2>1, <2>4
<1>13. ASSUME NEW i \in W, r[i] <= MaxWords, NEW e \in i .. n, NEW z \in Places, z = e,
              \A j \in Places : i - 1 <= j /\ j < e => ~Cut(b, r, n, j),
              e = n \/ Cut(b, r, n, e)
       PROVE  Parse(b)[r[i]] = SubSeq(TextOf(b, n), i, e)
  <2>1. i \in 1 .. n /\ i - 1 \in Places /\ i \in Places /\ r[i] \in 1 .. m
    <3>0. i \in 1 .. n /\ i - 1 \in Places /\ i \in Places /\ i <= n /\ r[i] >= 1
      BY <1>4
    <3>1. r[i] <= r[n] /\ r[i] \in Nat /\ r[n] \in Nat
      BY <1>1, <1>5, <3>0
    <3>2. r[i] <= m
      BY <1>1, <1>10, <1>13, <3>1 DEF UpTo
    <3> QED BY <1>10, <3>0, <3>1, <3>2
  <2>2. p.argv[r[i]] = i - 1
    BY <1>8, <1>13
  <2>3. Parse(b)[r[i]] = StringAt(p.buffer, i - 1)
    BY <1>3, <1>10, <2>1, <2>2
  <2>4. p.buffer[e] = Zero
    BY <1>1, <1>8, <1>13 DEF Lined, Places
  <2>5. ASSUME NEW j \in Places, i - 1 <= j, j < e PROVE p.buffer[j] # Zero /\ p.buffer[j] = b[j]
    <3>1. p.buffer[j] = b[j]
      BY <1>8, <1>13, <2>5
    <3>2. ~(j >= n)
      BY <1>1, <1>13, <2>1, <2>5 DEF Places
    <3> QED BY <3>1, <3>2 DEF Lined, Places
  <2>6. PICK q : q = i - 1
    OBVIOUS
  <2>7. q \in Places /\ e \in Places /\ q <= e /\ e \in Int /\ q \in Nat
    BY <1>1, <1>13, <2>1, <2>6 DEF Places
  <2>8. StringAt(p.buffer, q) = [k \in 1 .. e - q |-> p.buffer[q + k - 1]]
    <3>1. PICK u : u = p.buffer
      OBVIOUS
    <3>2. /\ DOMAIN u = Places /\ q \in Places /\ e \in Places /\ q <= e /\ u[e] = Zero
          /\ \A j \in Places : q <= j /\ j < e => u[j] # Zero
      BY <1>8, <2>4, <2>5, <2>6, <2>7, <3>1
    <3>3. StringAt(u, q) = [k \in 1 .. e - q |-> u[q + k - 1]]
      BY ONLY <3>2, StringIs
    <3> QED BY <3>1, <3>3
  <2>9. SubSeq(TextOf(b, n), i, e) = [k \in 1 .. e - i + 1 |-> b[i + k - 2]]
    BY <2>1, PartIs
  <2>10. e - q = e - i + 1
    BY <2>1, <2>6, <2>7
  <2>11. ASSUME NEW k \in 1 .. e - q PROVE p.buffer[q + k - 1] = b[i + k - 2]
    <3>1. q + k - 1 = i + k - 2 /\ q + k - 1 \in Places /\ i - 1 <= q + k - 1 /\ q + k - 1 < e
      BY <1>1, <2>1, <2>6, <2>7 DEF Places
    <3> QED BY <2>5, <3>1
  <2> QED BY <2>3, <2>6, <2>8, <2>9, <2>10, <2>11
<1>14. ASSUME NEW i \in W, r[i] <= MaxWords, r[i] >= MaxWords
       PROVE  Parse(b)[r[i]] = SubSeq(TextOf(b, n), i, n)
  <2>0. i \in Nat /\ i <= n /\ i \in Places
    BY <1>4
  <2>1. n \in i .. n
    BY <1>1, <2>0
  <2>2. ASSUME NEW j \in Places, i - 1 <= j, j < n PROVE ~Cut(b, r, n, j)
    <3>1. j + 1 \in Places /\ i <= j + 1 /\ i \in Places
      BY <1>1, <2>0, <2>2 DEF Places
    <3>2. r[i] <= r[j + 1] /\ r[i] \in Nat /\ r[j + 1] \in Nat
      BY <1>5, <3>1
    <3> QED BY <1>1, <1>14, <3>2 DEF Cut
  <2> QED BY <1>1, <1>13, <1>14, <2>1, <2>2
<1>15. ASSUME NEW i \in W, r[i] < MaxWords, NEW ends, ends = {j \in i .. n : BlankAt(b, j)}
       PROVE  Parse(b)[r[i]] = SubSeq(TextOf(b, n), i, IF ends = {} THEN n ELSE Min(ends) - 1)
  <2>0. i \in 1 .. n /\ i \in Places /\ i \in Nat
    BY <1>4
  <2>1. i \in 1 .. n /\ i \in Places /\ i \in Nat /\ ~BlankAt(b, i) /\ r[i] \in Nat
    BY <1>5, <2>0 DEF StartsOf
  <2>2. PICK e : /\ e \in i .. n /\ e = (IF ends = {} THEN n ELSE Min(ends) - 1)
                 /\ \A j \in i .. e : ~BlankAt(b, j)
                 /\ e = n \/ BlankAt(b, e + 1)
    <3>1. CASE ends = {}
      <4>1. n \in i .. n /\ \A j \in i .. n : ~BlankAt(b, j)
        BY <1>1, <1>15, <2>1, <3>1
      <4> QED BY <3>1, <4>1
    <3>2. CASE ends # {}
      <4>1. ends \subseteq Nat
        BY <1>1, <1>15, <2>1
      <4>2. PICK x \in ends : \A y \in ends : x <= y
        BY <3>2, <4>1, LowestExists
      <4>3. Min(ends) = x
        <5>1. Min(ends) = CHOOSE y \in ends : \A w \in ends : y <= w
          BY DEF Min
        <5>2. ASSUME NEW y \in ends, \A w \in ends : y <= w PROVE y = x
          <6>1. x <= y /\ y <= x /\ x \in Nat /\ y \in Nat
            BY <4>1, <4>2, <5>2
          <6> QED BY <6>1
        <5> QED BY <4>2, <5>1, <5>2
      <4>4. x \in i .. n /\ BlankAt(b, x) /\ x # i
        BY <1>15, <2>1
      <4>5. x - 1 \in i .. n /\ (x - 1) + 1 = x /\ x \in Nat
        BY <1>1, <2>1, <4>4
      <4>6. ASSUME NEW j \in i .. x - 1 PROVE ~BlankAt(b, j)
        <5>1. j \in i .. n /\ ~(x <= j)
          BY <1>1, <2>1, <4>4
        <5> QED BY <1>15, <4>2, <5>1
      <4> QED BY <3>2, <4>3, <4>4, <4>5, <4>6
    <3> QED BY <3>1, <3>2
  <2>3. e \in Places /\ e \in Nat /\ e <= n /\ i <= e
    BY <1>1, <2>1, <2>2 DEF Places
  <2>4. ASSUME NEW j \in Places, i - 1 <= j, j < e PROVE ~Cut(b, r, n, j)
    <3>1. j + 1 \in i .. e
      BY <2>1, <2>3, <2>4 DEF Places
    <3> QED BY <2>2, <3>1 DEF Cut
  <2>5. e = n \/ Cut(b, r, n, e)
    <3> SUFFICES ASSUME e # n PROVE Cut(b, r, n, e)
      OBVIOUS
    <3>1. e >= 1 /\ e < n /\ BlankAt(b, e + 1) /\ e \in i .. e /\ ~BlankAt(b, e)
      BY <1>1, <2>1, <2>2, <2>3
    <3>2. e + 1 \in Places /\ i <= e + 1
      BY <1>1, <2>1, <2>3, <3>1 DEF Places
    <3>3. ASSUME NEW k \in i + 1 .. e + 1 PROVE k \notin W
      <4>1. CASE k = e + 1
        BY <3>1, <4>1 DEF StartsOf
      <4>2. CASE k # e + 1
        <5>1. k - 1 \in i .. e /\ k # 1
          BY <2>1, <2>3, <4>2
        <5>2. ~BlankAt(b, k - 1)
          BY <2>2, <5>1
        <5> QED BY <5>1, <5>2 DEF StartsOf
      <4> QED BY <4>1, <4>2
    <3>4. r[e + 1] = r[i]
      BY <1>5, <2>1, <3>2, <3>3
    <3> QED BY <1>15, <3>1, <3>4 DEF Cut
  <2>6. r[i] <= MaxWords
    BY <1>1, <1>15, <2>1
  <2> QED BY <1>13, <2>2, <2>3, <2>4, <2>5, <2>6
<1>16. ASSUME NEW i \in W, NEW rank, rank = Cardinality({j \in W : j <= i}), rank <= MaxWords,
              NEW ends, ends = {j \in i .. n : BlankAt(b, j)}
       PROVE  Parse(b)[rank] = IF rank < MaxWords
                               THEN SubSeq(TextOf(b, n), i, IF ends = {} THEN n ELSE Min(ends) - 1)
                               ELSE SubSeq(TextOf(b, n), i, n)
  <2>1. rank = r[i] /\ r[i] \in Nat
    BY <1>4, <1>5, <1>16
  <2>2. CASE rank < MaxWords
    BY <1>15, <1>16, <2>1, <2>2
  <2>3. CASE ~(rank < MaxWords)
    <3>1. r[i] <= MaxWords /\ r[i] >= MaxWords
      BY <1>1, <1>16, <2>1, <2>3
    <3> QED BY <1>14, <2>1, <2>3, <3>1
  <2> QED BY <2>2, <2>3
<1> HIDE DEF W
<1> QED BY <1>11, <1>12, <1>16 DEF ArgvOf, W

(* shell_parse_command cuts the line in place, in one pass over the buffer:*)
(* argv has the words of the line in their order, and, when there are more *)
(* than there is room for, the rest of the line as its last.               *)
THEOREM WordsAreHandedOver == SystemSpec => []ArgvIsWords
<1>1. LineInv => ArgvIsWords
  <2> SUFFICES ASSUME LineInv PROVE ArgvIsWords
    OBVIOUS
  <2>1. PICK b, n : b = command_buffer /\ n = command_pos
    OBVIOUS
  <2>2. Lined(b, n) /\ Line = TextOf(b, n)
    BY <2>1, LineIsText DEF LineInv
  <2>3. n \in Nat /\ \A k \in 1 .. n : Line[k] = b[k - 1]
    BY <2>2, TextIs
  <2>4. ASSUME NEW i \in 1 .. n PROVE IsBlank(i) <=> BlankAt(b, i)
    BY <2>3 DEF IsBlank, BlankAt
  <2>5. ASSUME NEW i \in 1 .. n, i # 1 PROVE IsBlank(i - 1) <=> BlankAt(b, i - 1)
    <3>1. i - 1 \in 1 .. n
      BY <2>3, <2>5
    <3> QED BY <2>4, <3>1
  <2>6. WordStarts = StartsOf(b, n)
    BY <2>1, <2>4, <2>5 DEF WordStarts, StartsOf
  <2>7. ASSUME NEW i \in StartsOf(b, n)
        PROVE  WordAt(i) = LET ends == {j \in i .. n : BlankAt(b, j)}
                           IN  SubSeq(Line, i, IF ends = {} THEN n ELSE Min(ends) - 1)
    <3>1. i \in 1 .. n /\ \A j \in i .. n : j \in 1 .. n
      BY <2>3 DEF StartsOf
    <3>2. {j \in i .. n : IsBlank(j)} = {j \in i .. n : BlankAt(b, j)}
      BY <2>4, <3>1
    <3> QED BY <2>1, <3>2 DEF WordAt
  <2>8. ArgvOf(b, n, Parse(b))
    BY <2>2, WordsAreParsed
  <2>9. PICK argv : argv = Parse(b)
    OBVIOUS
  <2>10. Len(argv) = Min({Cardinality(WordStarts), SHELL_MAX_ARGS - 1})
    BY <2>6, <2>8, <2>9 DEF ArgvOf, MaxWords
  <2>11. ASSUME NEW i \in WordStarts, NEW rank, rank = Cardinality({j \in WordStarts : j <= i}),
                rank <= SHELL_MAX_ARGS - 1
         PROVE  argv[rank] = IF rank < SHELL_MAX_ARGS - 1 THEN WordAt(i) ELSE SubSeq(Line, i, n)
    BY <2>2, <2>6, <2>7, <2>8, <2>9, <2>11 DEF ArgvOf, MaxWords
  <2> QED BY <2>1, <2>9, <2>10, <2>11 DEF ArgvIsWords
<1> QED BY <1>1, ZeroEndsLine, PTL

--------------------------------------------------------------------------------
(* The console.  Below the cursor's row nothing is on the screen; a text   *)
(* written from the left edge of a row that is empty stays in that row.    *)
Glyph == Chars \cup {Blank, Out, NL} \cup {Prompt[k] : k \in DOMAIN Prompt}

Screens == [cell : [Cells -> Glyph], x : Nat, y : 0 .. ScreenHeight - 1]

Row(s) == s.y * ScreenWidth
Below(s) == \A p \in Cells : p >= Row(s) + ScreenWidth => s.cell[p] = Blank
Fresh(s) == s.x = 0 /\ \A p \in Cells : p >= Row(s) => s.cell[p] = Blank
Near == {s \in Screens : s.x < 2 * ScreenWidth /\ Below(s)}
Inside == {s \in Near : s.x < ScreenWidth}

(* Rows, by the cells they begin at. *)
LEMMA RowIs ==
  /\ ScreenWidth \in Nat \ {0} /\ ScreenHeight \in Nat \ {0}
  /\ ScreenWidth * ScreenHeight \in Nat
  /\ \A y \in 0 .. ScreenHeight - 1 :
       /\ y * ScreenWidth \in Nat /\ (y + 1) * ScreenWidth = y * ScreenWidth + ScreenWidth
       /\ y * ScreenWidth + ScreenWidth <= ScreenWidth * ScreenHeight
       /\ y + 1 >= ScreenHeight => y * ScreenWidth + ScreenWidth = ScreenWidth * ScreenHeight
<1>1. ScreenWidth \in Nat \ {0} /\ ScreenHeight \in Nat \ {0}
  BY ConsoleAssumption
<1>2. PICK w, h : w = ScreenWidth /\ h = ScreenHeight
  OBVIOUS
<1>3. w \in Nat \ {0} /\ h \in Nat \ {0}
  BY <1>1, <1>2
<1>4. w * h \in Nat
  BY ONLY <1>3, Z3
<1>5. ASSUME NEW y \in 0 .. h - 1
      PROVE  /\ y * w \in Nat /\ (y + 1) * w = y * w + w /\ y * w + w <= w * h
             /\ y + 1 >= h => y * w + w = w * h
  <2>1. y \in Nat /\ y + 1 <= h
    BY <1>3
  <2>2. y * w \in Nat
    BY ONLY <1>3, <2>1, Z3
  <2>3. (y + 1) * w = y * w + w
    BY ONLY <1>3, <2>1, Z3
  <2>4. (y + 1) * w <= w * h
    <3>1. PICK d \in Nat : h = (y + 1) + d
      <4>1. h - (y + 1) \in Nat /\ h = (y + 1) + (h - (y + 1))
        BY <1>3, <2>1
      <4> QED BY <4>1
    <3>2. w * h = (y + 1) * w + d * w
      BY ONLY <1>3, <2>1, <3>1, Z3
    <3>3. d * w \in Nat /\ (y + 1) * w \in Nat
      BY ONLY <1>3, <2>1, <3>1, Z3
    <3> QED BY ONLY <3>2, <3>3, Z3
  <2>5. y + 1 >= h => (y + 1) * w = w * h
    <3>1. ASSUME y + 1 >= h PROVE y + 1 = h
      BY <1>3, <2>1, <3>1
    <3>2. h * w = w * h
      BY ONLY <1>3, Z3
    <3> QED BY <3>1, <3>2
  <2> QED BY <2>2, <2>3, <2>4, <2>5
<1> QED BY <1>1, <1>2, <1>4, <1>5

(* A screen by its parts. *)
LEMMA ScreenIs ==
  ASSUME NEW s \in Screens
  PROVE  /\ s = [cell |-> s.cell, x |-> s.x, y |-> s.y]
         /\ s.cell \in [Cells -> Glyph] /\ s.x \in Nat /\ s.y \in 0 .. ScreenHeight - 1
         /\ Row(s) \in Nat /\ Row(s) + ScreenWidth <= ScreenWidth * ScreenHeight
         /\ s.y + 1 >= ScreenHeight => Row(s) + ScreenWidth = ScreenWidth * ScreenHeight
BY RowIs DEF Screens, Row

(* The row behind the cursor's, empty if nothing is below the cursor's. *)
NextRow(s) ==
  IF s.y + 1 >= ScreenHeight
  THEN [cell |-> [p \in Cells |-> IF p + ScreenWidth \in Cells THEN s.cell[p + ScreenWidth] ELSE Blank],
        x |-> 0, y |-> s.y]
  ELSE [cell |-> s.cell, x |-> 0, y |-> s.y + 1]

(* Putc's last loop: the lines move up until the cursor's is on the screen.*)
LEMMA SettledIs ==
  ASSUME NEW s \in Screens
  PROVE  /\ Settled([s EXCEPT !.x = 0, !.y = @ + 1]) = NextRow(s)
         /\ Settled([s EXCEPT !.x = 0]) = [s EXCEPT !.x = 0]
         /\ Settled(s) = IF s.x >= ScreenWidth THEN NextRow(s) ELSE s
<1>1. PICK C, x, y : s = [cell |-> C, x |-> x, y |-> y] /\ x \in Nat /\ y \in 0 .. ScreenHeight - 1
  BY ScreenIs
<1>2. ScreenWidth \in Nat \ {0} /\ ScreenHeight \in Nat \ {0} /\ ~(y >= ScreenHeight) /\ ~(0 >= ScreenWidth)
  BY <1>1, ConsoleAssumption
<1> DEFINE t == [cell |-> C, x |-> 0, y |-> y + 1]
<1>3. /\ [s EXCEPT !.x = 0, !.y = @ + 1] = t
      /\ [s EXCEPT !.x = 0] = [cell |-> C, x |-> 0, y |-> y]
  <2>1. PICK z : z = y + 1
    OBVIOUS
  <2>2. s = [cell |-> C, x |-> x, y |-> y]
    BY <1>1
  <2>3. [s EXCEPT !.x = 0] = [cell |-> C, x |-> 0, y |-> y]
    BY ONLY <2>2
  <2>4. [s EXCEPT !.x = 0, !.y = z] = [cell |-> C, x |-> 0, y |-> z]
    <3>1. PICK r : r = [cell |-> C, x |-> 0, y |-> y]
      OBVIOUS
    <3>2. [r EXCEPT !.y = z] = [cell |-> C, x |-> 0, y |-> z]
      BY ONLY <3>1
    <3>3. [s EXCEPT !.x = 0, !.y = z] = [[s EXCEPT !.x = 0] EXCEPT !.y = z]
      OBVIOUS
    <3> QED BY <2>3, <3>1, <3>2, <3>3
  <2>5. [s EXCEPT !.x = 0, !.y = @ + 1] = [s EXCEPT !.x = 0, !.y = z]
    BY ONLY <2>1, <2>2
  <2> QED BY <2>1, <2>3, <2>4, <2>5
<1>4. Scrolled(t) = [cell |-> [p \in Cells |-> IF p + ScreenWidth \in Cells THEN C[p + ScreenWidth] ELSE Blank],
                     x |-> 0, y |-> y]
  <2>1. PICK D : D = [p \in Cells |-> IF p + ScreenWidth \in Cells THEN C[p + ScreenWidth] ELSE Blank]
    OBVIOUS
  <2>2. Scrolled(t) = [t EXCEPT !.cell = D, !.y = @ - 1]
    BY <2>1 DEF Scrolled
  <2>3. (y + 1) - 1 = y
    BY <1>1, <1>2
  <2> QED BY <2>1, <2>2, <2>3
<1>5. (IF t.y >= ScreenHeight THEN Scrolled(t) ELSE t) = NextRow(s)
  BY <1>1, <1>4 DEF NextRow
<1>6. Settled(t) = NextRow(s)
  BY <1>2, <1>5 DEF Settled
<1>7. Settled([s EXCEPT !.x = 0]) = [s EXCEPT !.x = 0]
  BY <1>1, <1>2, <1>3 DEF Settled
<1>8. Settled(s) = IF s.x >= ScreenWidth THEN NextRow(s) ELSE s
  BY <1>1, <1>2, <1>3, <1>5 DEF Settled
<1> QED BY <1>3, <1>6, <1>7, <1>8

(* A line feed.                                                            *)
LEMMA NextRowIs ==
  ASSUME NEW s \in Screens
  PROVE  /\ NextRow(s) \in Screens /\ NextRow(s).x = 0
         /\ Below(s) => Fresh(NextRow(s))
         /\ (\A p \in Cells : p >= Row(s) + 2 * ScreenWidth => s.cell[p] = Blank) => Below(NextRow(s))
<1>1. PICK C, y, b, w, n : /\ C = s.cell /\ y = s.y /\ b = Row(s) /\ w = ScreenWidth
                           /\ n = ScreenWidth * ScreenHeight
  OBVIOUS
<1>2. /\ C \in [Cells -> Glyph] /\ y \in 0 .. ScreenHeight - 1 /\ w \in Nat \ {0} /\ b \in Nat
      /\ n \in Nat /\ b + w <= n /\ ScreenHeight \in Nat \ {0} /\ Cells = 0 .. n - 1
  BY <1>1, RowIs, ScreenIs DEF Cells
<1>3. CASE y + 1 >= ScreenHeight
  <2>1. b + w = n
    BY <1>1, <1>3, ScreenIs
  <2> DEFINE D == [p \in Cells |-> IF p + w \in Cells THEN C[p + w] ELSE Blank]
  <2>2. NextRow(s) = [cell |-> D, x |-> 0, y |-> y]
    BY <1>1, <1>3 DEF NextRow
  <2>3. D \in [Cells -> Glyph]
    BY <1>2 DEF Glyph
  <2>4. \A p \in Cells : p >= b => D[p] = Blank
    BY <1>2, <2>1
  <2>5. \A p \in Cells : ~(p >= b + w)
    BY <1>2, <2>1
  <2> HIDE DEF D
  <2>6. NextRow(s) \in Screens
    BY <1>2, <2>2, <2>3 DEF Screens
  <2>7. Row(NextRow(s)) = b /\ NextRow(s).cell = D /\ NextRow(s).x = 0
    BY <1>1, <2>2 DEF Row
  <2> QED BY <1>1, <2>4, <2>5, <2>6, <2>7 DEF Below, Fresh
<1>4. CASE ~(y + 1 >= ScreenHeight)
  <2>1. NextRow(s) = [cell |-> C, x |-> 0, y |-> y + 1]
    BY <1>1, <1>4 DEF NextRow
  <2>2. y + 1 \in 0 .. ScreenHeight - 1
    BY <1>2, <1>4
  <2>3. NextRow(s) \in Screens
    BY <1>2, <2>1, <2>2 DEF Screens
  <2>4. Row(NextRow(s)) = b + w
    BY <1>1, <1>2, <2>1, RowIs DEF Row
  <2>5. \A p \in Cells : p >= b + 2 * w <=> p >= (b + w) + w
    BY <1>2
  <2>6. NextRow(s).cell = C /\ NextRow(s).x = 0
    BY <2>1
  <2> QED BY <1>1, <2>3, <2>4, <2>5, <2>6 DEF Below, Fresh
<1> QED BY <1>3, <1>4

(* A character written from there. *)
LEMMA WrittenIs ==
  ASSUME NEW s \in Screens, NEW c \in Glyph
  PROVE  /\ Written(s, c) \in Screens
         /\ Written(s, c).x = s.x + 1 /\ Written(s, c).y = s.y /\ Row(Written(s, c)) = Row(s)
         /\ \A p \in Cells : Written(s, c).cell[p] = IF p = Row(s) + s.x THEN c ELSE s.cell[p]
<1>1. PICK C, x, y, q : /\ s = [cell |-> C, x |-> x, y |-> y] /\ x \in Nat /\ y \in 0 .. ScreenHeight - 1
                        /\ C \in [Cells -> Glyph] /\ q = y * ScreenWidth + x
  BY ScreenIs
<1> DEFINE D == IF q \in Cells THEN [C EXCEPT ![q] = c] ELSE C
<1>2. Written(s, c) = [cell |-> D, x |-> x + 1, y |-> y]
  <2>1. PICK E : E = D
    OBVIOUS
  <2>2. Written(s, c) = [s EXCEPT !.cell = E, !.x = @ + 1]
    BY <1>1, <2>1 DEF Written
  <2> HIDE DEF D
  <2> QED BY <1>1, <2>1, <2>2
<1>3. D \in [Cells -> Glyph]
  BY <1>1
<1>4. \A p \in Cells : D[p] = IF p = q THEN c ELSE C[p]
  BY <1>1
<1> HIDE DEF D
<1>5. Written(s, c) \in Screens
  <2>1. x + 1 \in Nat
    BY <1>1
  <2> QED BY <1>1, <1>2, <1>3, <2>1 DEF Screens
<1> QED BY <1>1, <1>2, <1>4, <1>5 DEF Row

(* A character that is none of the controls,                               *)
LEMMA PlainIs ==
  ASSUME NEW s \in Screens, NEW c \in Glyph
  PROVE  /\ PutPlain(s, c) \in Screens
         /\ s \in Near => PutPlain(s, c) \in Inside
         /\ s.x + 1 < ScreenWidth => PutPlain(s, c) = Written(s, c)
<1>1. PICK t : t = Written(s, c)
  OBVIOUS
<1>2. /\ t \in Screens /\ t.x = s.x + 1 /\ Row(t) = Row(s)
      /\ \A p \in Cells : t.cell[p] = IF p = Row(s) + s.x THEN c ELSE s.cell[p]
  BY <1>1, WrittenIs
<1>3. /\ s.x \in Nat /\ ScreenWidth \in Nat \ {0} /\ Row(s) \in Nat
      /\ \A p \in Cells : p \in Nat
  BY ScreenIs, RowIs DEF Cells
<1>4. PutPlain(s, c) = IF t.x >= ScreenWidth THEN NextRow(t) ELSE t
  BY <1>1, <1>2, SettledIs DEF PutPlain
<1>5. NextRow(t) \in Screens /\ NextRow(t).x = 0
  BY <1>2, NextRowIs
<1>6. ASSUME s \in Near PROVE PutPlain(s, c) \in Inside
  <2>1. s.x < 2 * ScreenWidth /\ \A p \in Cells : p >= Row(s) + ScreenWidth => s.cell[p] = Blank
    BY <1>6 DEF Near, Below
  <2>2. CASE s.x + 1 < ScreenWidth
    <3>1. \A p \in Cells : p >= Row(s) + ScreenWidth => p # Row(s) + s.x
      BY <1>3, <2>2
    <3>2. Below(t)
      BY <1>2, <2>1, <3>1 DEF Below
    <3>3. PutPlain(s, c) = t /\ t.x < ScreenWidth /\ t.x < 2 * ScreenWidth
      BY <1>2, <1>3, <1>4, <2>2
    <3> QED BY <1>2, <3>2, <3>3 DEF Inside, Near
  <2>3. CASE ~(s.x + 1 < ScreenWidth)
    <3>1. \A p \in Cells : p >= Row(s) + 2 * ScreenWidth => p # Row(s) + s.x /\ p >= Row(s) + ScreenWidth
      BY <1>3, <2>1
    <3>2. \A p \in Cells : p >= Row(t) + 2 * ScreenWidth => t.cell[p] = Blank
      BY <1>2, <2>1, <3>1
    <3>3. Below(NextRow(t))
      BY <1>2, <3>2, NextRowIs
    <3>4. PutPlain(s, c) = NextRow(t)
      BY <1>2, <1>3, <1>4, <2>3
    <3>5. 0 < ScreenWidth /\ 0 < 2 * ScreenWidth
      BY <1>3
    <3> QED BY <1>5, <3>3, <3>4, <3>5 DEF Inside, Near
  <2> QED BY <2>2, <2>3
<1>7. s.x + 1 < ScreenWidth => PutPlain(s, c) = t
  BY <1>2, <1>3, <1>4
<1> QED BY <1>1, <1>2, <1>4, <1>5, <1>6, <1>7

(* a tab, which is blanks as far as the next stop,                         *)
LEMMA TabIs ==
  ASSUME NEW s \in Screens
  PROVE  PutTab(s) \in Screens /\ (s \in Near => PutTab(s) \in Near)
<1> DEFINE Step(t, i) == IF i < 4 - (t.x % 4) THEN PutPlain(t, Blank) ELSE t
<1>1. ASSUME NEW t \in Screens, NEW i PROVE Step(t, i) \in Screens /\ (t \in Near => Step(t, i) \in Near)
  <2>1. Blank \in Glyph
    BY DEF Glyph
  <2> QED BY <2>1, PlainIs DEF Inside
<1>2. ASSUME NEW t \in Screens PROVE Settled(t) \in Screens /\ (t \in Near => Settled(t) \in Near)
  <2>1. Settled(t) = IF t.x >= ScreenWidth THEN NextRow(t) ELSE t
    BY SettledIs
  <2>2. NextRow(t) \in Screens /\ NextRow(t).x = 0
    BY NextRowIs
  <2>3. ASSUME t \in Near PROVE NextRow(t) \in Near
    <3>1. ScreenWidth \in Nat \ {0} /\ Row(t) \in Nat /\ \A p \in Cells : p \in Nat
      BY RowIs, ScreenIs DEF Cells
    <3>2. \A p \in Cells : p >= Row(t) + 2 * ScreenWidth => p >= Row(t) + ScreenWidth
      BY <3>1
    <3>3. Below(NextRow(t))
      BY <2>3, <3>2, NextRowIs DEF Near, Below
    <3>4. 0 < 2 * ScreenWidth
      BY <3>1
    <3> QED BY <2>2, <3>3, <3>4 DEF Near
  <2> QED BY <2>1, <2>2, <2>3
<1>3. PutTab(s) = Settled(Step(Step(Step(Step(s, 0), 1), 2), 3))
  BY DEF PutTab
<1> HIDE DEF Step
<1>4. PICK t : /\ t = Step(Step(s, 0), 1) /\ t \in Screens /\ (s \in Near => t \in Near)
  BY <1>1
<1>5. PICK u : /\ u = Step(Step(t, 2), 3) /\ u \in Screens /\ (s \in Near => u \in Near)
  BY <1>1, <1>4
<1> QED BY <1>2, <1>3, <1>4, <1>5

(* any character.                                                          *)
LEMMA PutcIs ==
  ASSUME NEW s \in Screens, NEW c \in Glyph \cup {Tab, CR}
  PROVE  /\ Putc(s, c) \in Screens
         /\ s \in Near => Putc(s, c) \in Near
         /\ c = NL => Putc(s, c).x = 0 /\ (Below(s) => Fresh(Putc(s, c)) /\ Putc(s, c) \in Near)
         /\ c \notin {NL, CR, Tab} => Putc(s, c) = PutPlain(s, c)
<1>1. NL # CR /\ NL # Tab /\ CR # Tab /\ ScreenWidth \in Nat \ {0}
  BY ConsoleAssumption
<1>2. CASE c = NL
  <2>1. Putc(s, c) = NextRow(s)
    BY <1>1, <1>2, SettledIs DEF Putc
  <2>2. NextRow(s) \in Screens /\ NextRow(s).x = 0 /\ (Below(s) => Fresh(NextRow(s)))
    BY NextRowIs
  <2>3. ASSUME Below(s) PROVE NextRow(s) \in Near
    <3>1. Row(s) \in Nat /\ \A p \in Cells : p \in Nat
      BY RowIs, ScreenIs DEF Cells
    <3>2. \A p \in Cells : p >= Row(s) + 2 * ScreenWidth => p >= Row(s) + ScreenWidth
      BY <1>1, <3>1
    <3>3. Below(NextRow(s))
      BY <2>3, <3>2, NextRowIs DEF Below
    <3>4. 0 < 2 * ScreenWidth
      BY <1>1
    <3> QED BY <2>2, <3>3, <3>4 DEF Near
  <2> QED BY <1>1, <1>2, <2>1, <2>2, <2>3 DEF Near
<1>3. CASE c = CR
  <2>1. Putc(s, c) = [s EXCEPT !.x = 0]
    BY <1>1, <1>3, SettledIs DEF Putc
  <2>2. [s EXCEPT !.x = 0] \in Screens
    BY DEF Screens
  <2>3. Row([s EXCEPT !.x = 0]) = Row(s) /\ [s EXCEPT !.x = 0].cell = s.cell /\ [s EXCEPT !.x = 0].x = 0
    BY DEF Screens, Row
  <2>4. s \in Near => [s EXCEPT !.x = 0] \in Near
    <3>1. 0 < 2 * ScreenWidth
      BY <1>1
    <3> QED BY <2>2, <2>3, <3>1 DEF Near, Below
  <2> QED BY <1>1, <1>3, <2>1, <2>2, <2>4
<1>4. CASE c = Tab
  <2>1. Putc(s, c) = PutTab(s)
    BY <1>1, <1>4 DEF Putc
  <2> QED BY <1>1, <1>4, <2>1, TabIs
<1>5. CASE c \notin {NL, CR, Tab}
  <2>1. Putc(s, c) = PutPlain(s, c)
    BY <1>5 DEF Putc
  <2> QED BY <1>5, <2>1, PlainIs DEF Inside
<1> QED BY <1>2, <1>3, <1>4, <1>5

(* The length of a string that is written as a function. *)
LEMMA LengthIs ==
  ASSUME NEW m \in Nat, NEW s, DOMAIN s = 1 .. m, s = [k \in 1 .. m |-> s[k]]
  PROVE  Len(s) = m
<1> DEFINE T == {s[k] : k \in 1 .. m}
<1>1. s \in [1 .. m -> T]
  OBVIOUS
<1>2. s \in Seq(T)
  BY <1>1, SeqDef
<1>3. PICK l : l = Len(s)
  OBVIOUS
<1>4. l \in Nat /\ DOMAIN s = 1 .. l
  BY <1>2, <1>3, LenProperties
<1>5. l \in 1 .. l \/ l = 0
  BY ONLY <1>4
<1>6. l <= m
  BY ONLY m \in Nat, DOMAIN s = 1 .. m, <1>4, <1>5
<1>7. m \in 1 .. m \/ m = 0
  BY ONLY m \in Nat
<1>8. m <= l
  BY ONLY m \in Nat, DOMAIN s = 1 .. m, <1>4, <1>7
<1> QED BY ONLY m \in Nat, <1>3, <1>4, <1>6, <1>8

(* Puts is its characters, one after the other, through screens of S. *)
Through(S, s, str, f) ==
  /\ f \in [0 .. Len(str) -> S] /\ f[0] = s
  /\ \A k \in 1 .. Len(str) : f[k] = Putc(f[k - 1], str[k])

(* The screens a text goes through.                                        *)
LEMMA PutsIs ==
  ASSUME NEW S, NEW s \in S, NEW str, Len(str) \in Nat,
         \A x \in S : \A k \in 1 .. Len(str) : Putc(x, str[k]) \in S
  PROVE  \E f : Through(S, s, str, f) /\ Puts(s, str) = f[Len(str)]
<1> DEFINE n == Len(str)
           g == [k \in 1 .. n |-> [x \in S |-> Putc(x, str[k])]]
<1>1. n \in Nat /\ s \in S /\ g \in Steps(n, S)
  BY DEF Steps
<1>2. Runs(n, S, s, g) # {}
  <2> HIDE DEF n, g
  <2> QED BY ONLY <1>1, Iterates
<1>3. PICK f \in [0 .. n -> S] : f[0] = s /\ \A k \in 1 .. n : f[k] = g[k][f[k - 1]]
  <2> HIDE DEF n, g
  <2> QED BY <1>2 DEF Runs
<1>4. \A k \in 1 .. n : k - 1 \in 0 .. n /\ f[k - 1] \in S /\ f[k] = Putc(f[k - 1], str[k])
  <2> SUFFICES ASSUME NEW k \in 1 .. n PROVE k - 1 \in 0 .. n /\ f[k - 1] \in S /\ f[k] = Putc(f[k - 1], str[k])
    OBVIOUS
  <2>1. k - 1 \in 0 .. n
    BY <1>1
  <2>2. f[k] = g[k][f[k - 1]] /\ f[k - 1] \in S
    BY <1>3, <2>1
  <2> QED BY <2>1, <2>2
<1> DEFINE Def(h) == [k \in 0 .. n |-> IF k = 0 THEN s ELSE Putc(h[k - 1], str[k])]
           h == CHOOSE h : h = Def(h)
<1>5. f = Def(f)
  <2>1. ASSUME NEW k \in 0 .. n PROVE f[k] = IF k = 0 THEN s ELSE Putc(f[k - 1], str[k])
    <3>1. k = 0 \/ (k # 0 /\ k \in 1 .. n)
      BY <1>1
    <3> HIDE DEF n, g
    <3> QED BY <1>3, <1>4, <3>1
  <2>2. f = [k \in 0 .. n |-> f[k]]
    BY <1>3
  <2> HIDE DEF n, g
  <2> QED BY ONLY <2>1, <2>2
<1>6. Puts(s, str) = h[n]
  BY DEF Puts
<1>7. h = Def(h)
  <2> HIDE DEF Def
  <2> QED BY <1>5
<1>8. h[0] = s /\ \A k \in 1 .. n : h[k] = Putc(h[k - 1], str[k])
  <2> HIDE DEF h
  <2>1. 0 \in 0 .. n /\ \A k \in 1 .. n : k \in 0 .. n /\ k # 0
    BY <1>1
  <2>2. h = [k \in 0 .. n |-> IF k = 0 THEN s ELSE Putc(h[k - 1], str[k])]
    BY <1>7
  <2> HIDE DEF n
  <2> QED BY ONLY <2>1, <2>2
<1> HIDE DEF h, Def, g
<1> DEFINE M == {k \in Nat : k <= n => h[k] = f[k]}
<1>9. 0 \in M
  BY <1>3, <1>8
<1>10. ASSUME NEW k \in Nat, k \in M PROVE k + 1 \in M
  <2> SUFFICES ASSUME k + 1 <= n PROVE h[k + 1] = f[k + 1]
    OBVIOUS
  <2>1. h[k] = f[k] /\ k + 1 \in 1 .. n /\ (k + 1) - 1 = k
    BY <1>1, <1>10
  <2> QED BY <1>4, <1>8, <2>1
<1> HIDE DEF M
<1>11. n \in M
  <2> HIDE DEF n
  <2> QED BY ONLY <1>1, <1>9, <1>10, Upwards
<1>12. Puts(s, str) = f[n]
  BY <1>1, <1>6, <1>11 DEF M
<1>13. Through(S, s, str, f)
  BY <1>3, <1>4 DEF Through
<1> QED BY <1>12, <1>13

(* Strings of what can be written. *)
IsText(str) == Len(str) \in Nat /\ \A k \in 1 .. Len(str) : str[k] \in Glyph \cup {Tab, CR}

(* A text keeps the screen empty below its last line; one that ends with a *)
(* line feed leaves the cursor on an empty line.                           *)
LEMMA PutsStays ==
  ASSUME NEW str, IsText(str), NEW s \in Screens
  PROVE  /\ Puts(s, str) \in Screens
         /\ s \in Near => Puts(s, str) \in Near
         /\ Len(str) > 0 /\ str[Len(str)] = NL => Puts(s, str).x = 0 /\ (s \in Near => Fresh(Puts(s, str)))
<1>1. Len(str) \in Nat /\ \A k \in 1 .. Len(str) : str[k] \in Glyph \cup {Tab, CR}
  BY DEF IsText
<1>2. ASSUME NEW S \in {Screens, Near}, s \in S
      PROVE  /\ Puts(s, str) \in S
             /\ Len(str) > 0 => \E x \in S : Puts(s, str) = Putc(x, str[Len(str)])
  <2>1. \A x \in S : \A k \in 1 .. Len(str) : Putc(x, str[k]) \in S
    BY <1>1, PutcIs DEF Near
  <2>2. PICK f : Through(S, s, str, f) /\ Puts(s, str) = f[Len(str)]
    BY <1>1, <1>2, <2>1, PutsIs
  <2>3. PICK n : n = Len(str)
    OBVIOUS
  <2>4. f \in [0 .. n -> S] /\ \A k \in 1 .. n : f[k] = Putc(f[k - 1], str[k])
    BY <2>2, <2>3 DEF Through
  <2>5. n \in Nat /\ n \in 0 .. n /\ (n > 0 => n \in 1 .. n /\ n - 1 \in 0 .. n)
    BY <1>1, <2>3
  <2> QED BY <2>2, <2>3, <2>4, <2>5
<1>3. /\ Puts(s, str) \in Screens
      /\ Len(str) > 0 => \E x \in Screens : Puts(s, str) = Putc(x, str[Len(str)])
  BY <1>2
<1>4. s \in Near => /\ Puts(s, str) \in Near
                    /\ Len(str) > 0 => \E x \in Near : Puts(s, str) = Putc(x, str[Len(str)])
  BY <1>2
<1>5. ASSUME NEW x \in Screens PROVE Putc(x, NL).x = 0 /\ (x \in Near => Fresh(Putc(x, NL)))
  <2>1. NL \in Glyph \cup {Tab, CR}
    BY DEF Glyph
  <2> QED BY <2>1, PutcIs DEF Near
<1> QED BY <1>3, <1>4, <1>5 DEF Near

(* A text without controls that fits into the row stays in it. *)
LEMMA PutsRow ==
  ASSUME NEW str, IsText(str), NEW s \in Screens, s.x + Len(str) < ScreenWidth,
         \A k \in 1 .. Len(str) : str[k] \notin {NL, CR, Tab}
  PROVE  LET t == Puts(s, str)
             at == Row(s) + s.x
         IN  /\ t \in Screens /\ t.x = s.x + Len(str) /\ t.y = s.y
             /\ \A p \in Cells : t.cell[p] = IF p >= at /\ p < at + Len(str) THEN str[p - at + 1] ELSE s.cell[p]
<1>1. /\ Len(str) \in Nat /\ \A k \in 1 .. Len(str) : str[k] \in Glyph \cup {Tab, CR}
      /\ \A k \in 1 .. Len(str) : str[k] \in Glyph /\ str[k] \notin {NL, CR, Tab}
  BY DEF IsText
<1>2. \A x \in Screens : \A k \in 1 .. Len(str) : Putc(x, str[k]) \in Screens
  BY <1>1, PutcIs
<1>3. PICK f : Through(Screens, s, str, f) /\ Puts(s, str) = f[Len(str)]
  BY <1>1, <1>2, PutsIs
<1>4. PICK n, at : n = Len(str) /\ at = Row(s) + s.x
  OBVIOUS
<1>5. /\ f \in [0 .. n -> Screens] /\ f[0] = s
      /\ \A k \in 1 .. n : f[k] = Putc(f[k - 1], str[k])
  BY <1>3, <1>4 DEF Through
<1>6. /\ n \in Nat /\ at \in Nat /\ s.x \in Nat /\ Row(s) \in Nat /\ ScreenWidth \in Nat
      /\ s.x + n < ScreenWidth /\ \A p \in Cells : p \in Nat
  <2>1. s.x \in Nat /\ Row(s) \in Nat /\ ScreenWidth \in Nat
    BY ScreenIs, ConsoleAssumption
  <2>2. \A p \in Cells : p \in Nat
    BY ConsoleAssumption DEF Cells
  <2>3. n \in Nat /\ at \in Nat /\ s.x + n < ScreenWidth
    BY <1>1, <1>4, <2>1
  <2> QED BY <2>1, <2>2, <2>3
<1> DEFINE Upto(k) == /\ f[k] \in Screens /\ f[k].x = s.x + k /\ f[k].y = s.y
                      /\ \A p \in Cells : f[k].cell[p] = IF p >= at /\ p < at + k THEN str[p - at + 1] ELSE s.cell[p]
           M == {k \in Nat : k <= n => Upto(k)}
<1>7. 0 \in M
  <2>1. s.x = s.x + 0 /\ \A p \in Cells : ~(p >= at /\ p < at + 0)
    BY <1>6
  <2>2. Upto(0)
    BY <1>5, <2>1
  <2> QED BY <2>2
<1>8. ASSUME NEW k \in Nat, k \in M PROVE k + 1 \in M
  <2> SUFFICES ASSUME k + 1 <= n PROVE Upto(k + 1)
    OBVIOUS
  <2>1. Upto(k) /\ k + 1 \in 1 .. n /\ (k + 1) - 1 = k
    BY <1>6, <1>8
  <2> HIDE DEF M
  <2>2. PICK u, c : u = f[k] /\ c = str[k + 1]
    OBVIOUS
  <2>3. u \in Screens /\ c \in Glyph /\ c \notin {NL, CR, Tab} /\ f[k + 1] = Putc(u, c)
    BY <1>1, <1>4, <1>5, <2>1, <2>2
  <2>4. u.x = s.x + k /\ u.x + 1 < ScreenWidth /\ Row(u) = Row(s) /\ Row(u) + u.x = at + k
    <3>1. u.x = s.x + k /\ u.y = s.y
      BY <2>1, <2>2
    <3>2. Row(u) = Row(s)
      BY <3>1 DEF Row
    <3>3. PICK X, r, z : X = s.x /\ r = Row(s) /\ z = u.x
      OBVIOUS
    <3>4. /\ X \in Nat /\ r \in Nat /\ k \in Nat /\ ScreenWidth \in Nat /\ n \in Nat
          /\ X + n < ScreenWidth /\ k + 1 <= n /\ z = X + k /\ at = r + X
      BY <1>4, <1>6, <3>1, <3>3
    <3>5. z + 1 < ScreenWidth /\ r + z = at + k
      BY ONLY <3>4
    <3> QED BY <3>1, <3>2, <3>3, <3>5
  <2>5. f[k + 1] = Written(u, c)
    BY <2>3, <2>4, PutcIs, PlainIs
  <2>6. /\ Written(u, c) \in Screens
        /\ Written(u, c).x = u.x + 1 /\ Written(u, c).y = u.y
        /\ \A p \in Cells : Written(u, c).cell[p] = IF p = at + k THEN c ELSE u.cell[p]
    BY <2>3, <2>4, WrittenIs
  <2>7. ASSUME NEW p \in Cells
        PROVE  f[k + 1].cell[p] = IF p >= at /\ p < at + (k + 1) THEN str[p - at + 1] ELSE s.cell[p]
    <3>1. f[k].cell[p] = IF p >= at /\ p < at + k THEN str[p - at + 1] ELSE s.cell[p]
      BY <2>1
    <3>2. CASE p = at + k
      <4>1. p >= at /\ p < at + (k + 1) /\ p - at + 1 = k + 1
        BY <1>6, <3>2
      <4> QED BY <2>2, <2>5, <2>6, <3>2, <4>1
    <3>3. CASE p # at + k
      <4>1. p < at + (k + 1) <=> p < at + k
        BY <1>6, <3>3
      <4> QED BY <2>2, <2>5, <2>6, <3>1, <3>3, <4>1
    <3> QED BY <3>2, <3>3
  <2>8. f[k + 1].x = s.x + (k + 1) /\ f[k + 1].y = s.y /\ f[k + 1] \in Screens
    <3>1. f[k + 1].x = u.x + 1 /\ f[k + 1].y = u.y /\ f[k + 1] \in Screens
      BY <2>5, <2>6
    <3>2. u.x = s.x + k /\ u.y = s.y
      BY <2>1, <2>2
    <3>3. (s.x + k) + 1 = s.x + (k + 1)
      <4>1. PICK X : X = s.x
        OBVIOUS
      <4>2. X \in Nat /\ k \in Nat
        BY <1>6, <4>1
      <4>3. (X + k) + 1 = X + (k + 1)
        BY ONLY <4>2
      <4> QED BY <4>1, <4>3
    <3> QED BY <3>1, <3>2, <3>3
  <2> QED BY <2>7, <2>8
<1> HIDE DEF M
<1>9. n \in M
  BY ONLY <1>6, <1>7, <1>8, Upwards
<1>10. Upto(n)
  BY <1>6, <1>9 DEF M
<1> QED BY <1>3, <1>4, <1>10

--------------------------------------------------------------------------------
(* The row of the prompt: prompt, line, and nothing else. *)
P == Len(Prompt)

RowShows(s, b, n, cursor) ==
  /\ s.x = P + cursor
  /\ \A x \in 0 .. ScreenWidth - 1 :
       s.cell[Row(s) + x] = IF x < P THEN Prompt[x + 1] ELSE IF x < P + n THEN b[x - P] ELSE Blank

Shown(b, n) == Narrow(n) /\ \A i \in 0 .. n - 1 : b[i] \in Printable

(* The prompt is a text that fits into a row.                              *)
LEMMA PromptIs ==
  /\ P \in Nat /\ P + 1 < ScreenWidth /\ ScreenWidth \in Nat \ {0} /\ IsText(Prompt)
  /\ \A k \in 1 .. P : Prompt[k] \notin {NL, CR, Tab}
  /\ Prompt \in Seq({Prompt[k] : k \in 1 .. P})
<1> DEFINE T == {Prompt[k] : k \in DOMAIN Prompt} \ {NL, CR, Tab}
<1>1. Prompt \in Seq(T) /\ P + 1 < ScreenWidth
  BY ShellAssumption DEF P
<1>2. P \in Nat /\ DOMAIN Prompt = 1 .. P /\ Prompt \in [1 .. P -> T]
  BY <1>1, LenProperties DEF P
<1>3. IsText(Prompt)
  BY <1>2 DEF IsText, Glyph, P
<1>4. Prompt \in Seq({Prompt[k] : k \in 1 .. P})
  <2>1. Prompt \in [1 .. P -> {Prompt[k] : k \in 1 .. P}]
    BY <1>2
  <2> QED BY <1>2, <2>1, SeqDef
<1> QED BY <1>1, <1>2, <1>3, <1>4, ConsoleAssumption

(* The cells of a screen's row. *)
LEMMA CellIs ==
  ASSUME NEW s \in Screens, NEW x \in 0 .. ScreenWidth - 1
  PROVE  Row(s) + x \in Cells /\ Row(s) \in Nat
<1>1. PICK r, w, n : r = Row(s) /\ w = ScreenWidth /\ n = ScreenWidth * ScreenHeight
  OBVIOUS
<1>2. r \in Nat /\ w \in Nat \ {0} /\ n \in Nat /\ r + w <= n /\ x \in 0 .. w - 1
  BY <1>1, ScreenIs, RowIs
<1>3. r + x \in 0 .. n - 1
  BY ONLY <1>2
<1> QED BY <1>1, <1>2, <1>3 DEF Cells

(* An arrow moves the cursor and leaves the cells alone.                   *)
LEMMA MovedIs ==
  ASSUME NEW s \in Screens, NEW x \in Nat
  PROVE  LET t == [s EXCEPT !.x = x]
         IN  /\ t \in Screens /\ t.x = x /\ t.y = s.y /\ t.cell = s.cell /\ Row(t) = Row(s)
             /\ Below(t) <=> Below(s)
             /\ x < ScreenWidth /\ Below(s) => t \in Near
<1> DEFINE t == [s EXCEPT !.x = x]
<1>1. t \in Screens /\ t.x = x /\ t.y = s.y /\ t.cell = s.cell
  BY DEF Screens
<1> HIDE DEF t
<1>2. Row(t) = Row(s)
  BY <1>1 DEF Row
<1>3. Below(t) <=> Below(s)
  BY <1>1, <1>2 DEF Below
<1>4. x < ScreenWidth => x < 2 * ScreenWidth
  BY ConsoleAssumption
<1> QED BY <1>1, <1>2, <1>3, <1>4 DEF Near, t

(* The prompt, in a row that was empty, *)
LEMMA AskedIs ==
  ASSUME NEW s \in Screens, Fresh(s), NEW b
  PROVE  RowShows(Puts(s, Prompt), b, 0, 0)
<1>1. /\ P \in Nat /\ P + 1 < ScreenWidth /\ ScreenWidth \in Nat \ {0} /\ IsText(Prompt)
      /\ \A k \in 1 .. P : Prompt[k] \notin {NL, CR, Tab}
  BY PromptIs
<1>2. s.x = 0 /\ s.x + P < ScreenWidth /\ \A p \in Cells : p >= Row(s) => s.cell[p] = Blank
  BY <1>1 DEF Fresh
<1>3. PICK t, r : t = Puts(s, Prompt) /\ r = Row(s)
  OBVIOUS
<1>4. /\ t.x = P /\ t.y = s.y /\ r \in Nat
      /\ \A p \in Cells : t.cell[p] = IF p >= r /\ p < r + P THEN Prompt[p - r + 1] ELSE s.cell[p]
  <2>1. LET at == Row(s) + s.x
        IN  /\ t \in Screens /\ t.x = s.x + Len(Prompt) /\ t.y = s.y
            /\ \A p \in Cells : t.cell[p] = IF p >= at /\ p < at + Len(Prompt) THEN Prompt[p - at + 1] ELSE s.cell[p]
    BY <1>1, <1>2, <1>3, PutsRow DEF P
  <2>2. r \in Nat /\ r + 0 = r /\ 0 + P = P
    BY <1>1, <1>3, ScreenIs
  <2> QED BY <1>2, <1>3, <2>1, <2>2 DEF P
<1>5. ASSUME NEW x \in 0 .. ScreenWidth - 1
      PROVE  t.cell[r + x] = IF x < P THEN Prompt[x + 1] ELSE IF x < P + 0 THEN b[x - P] ELSE Blank
  <2>1. r + x \in Cells
    BY <1>3, CellIs
  <2>2. /\ r + x >= r /\ (r + x < r + P <=> x < P) /\ (r + x) - r + 1 = x + 1
        /\ ~(x < P) => ~(x < P + 0)
    BY <1>1, <1>4
  <2>3. s.cell[r + x] = Blank
    BY <1>2, <1>3, <2>1, <2>2
  <2> QED BY <1>4, <2>1, <2>2, <2>3
<1>6. t.x = P + 0 /\ Row(t) = r
  BY <1>1, <1>3, <1>4 DEF Row
<1> QED BY <1>3, <1>5, <1>6 DEF RowShows

(* The string from the cursor on. *)
LEMMA RestIs ==
  ASSUME NEW b, NEW n, Lined(b, n), NEW i \in 0 .. n
  PROVE  LET str == StringAt(b, i)
         IN  /\ Len(str) = n - i /\ IsText(str)
             /\ \A k \in 1 .. n - i : str[k] = b[i + k - 1]
             /\ (\A j \in 0 .. n - 1 : b[j] \in Printable) => \A k \in 1 .. n - i : str[k] \notin {NL, CR, Tab}
<1> DEFINE str == StringAt(b, i)
<1>1. /\ n \in Nat /\ SHELL_BUFFER_SIZE \in Nat /\ n <= SHELL_BUFFER_SIZE - 1 /\ i \in Nat /\ i <= n
      /\ DOMAIN b = Places /\ i \in Places /\ n \in Places
  BY ShellAssumption DEF Lined, Places
<1>2. b[n] = Zero /\ \A j \in Places : i <= j /\ j < n => b[j] # Zero
  BY <1>1 DEF Lined, Places
<1>3. str = [k \in 1 .. n - i |-> b[i + k - 1]]
  BY <1>1, <1>2, StringIs
<1>4. n - i \in Nat
  BY <1>1
<1>5. ASSUME NEW k \in 1 .. n - i
      PROVE  str[k] = b[i + k - 1] /\ i + k - 1 \in 0 .. n - 1 /\ str[k] \in Glyph
  <2>1. i + k - 1 \in 0 .. n - 1 /\ i + k - 1 \in 0 .. SHELL_BUFFER_SIZE - 1 /\ ~(i + k - 1 >= n)
    BY <1>1
  <2>2. b[i + k - 1] \in Chars
    BY <2>1 DEF Lined
  <2> QED BY <1>3, <2>1, <2>2 DEF Glyph
<1>6. Len(str) = n - i
  <2>1. PICK m, u : m = n - i /\ u = str
    OBVIOUS
  <2>2. m \in Nat /\ DOMAIN u = 1 .. m /\ u = [k \in 1 .. m |-> u[k]]
    BY <1>3, <1>4, <2>1
  <2>3. Len(u) = m
    BY ONLY <2>2, LengthIs
  <2> QED BY <2>1, <2>3
<1>7. IsText(str)
  BY <1>4, <1>5, <1>6 DEF IsText
<1>8. ASSUME \A j \in 0 .. n - 1 : b[j] \in Printable, NEW k \in 1 .. n - i PROVE str[k] \notin {NL, CR, Tab}
  BY <1>5, <1>8, ShellAssumption
<1> HIDE DEF str
<1> QED BY <1>5, <1>6, <1>7, <1>8 DEF str

(* and the line, written again from the cursor on. *)
Typed(s, b, n, i, t) ==
  /\ t \in Screens
  /\ s \in Near => Below(t)
  /\ \A o : /\ Shown(b, n) /\ RowShows(s, o, n - 1, i)
            /\ \A j \in 0 .. i - 1 : o[j] = b[j]
            => RowShows(t, b, n, i + 1)

(* A character typed: the rest of the line is written from the cursor on.  *)
LEMMA TypedIs ==
  ASSUME NEW s \in Screens, NEW b, NEW n, Lined(b, n), NEW i \in 0 .. n - 1
  PROVE  Typed(s, b, n, i, [Puts(s, StringAt(b, i)) EXCEPT !.x = s.x + 1])
<1> DEFINE str == StringAt(b, i)
           u == Puts(s, str)
           t == [u EXCEPT !.x = s.x + 1]
<1>1. /\ n \in Nat /\ i \in Nat /\ i < n /\ i \in 0 .. n /\ n - i \in Nat
  BY ShellAssumption DEF Lined
<1>2. /\ Len(str) = n - i /\ IsText(str)
      /\ \A k \in 1 .. n - i : str[k] = b[i + k - 1]
      /\ (\A j \in 0 .. n - 1 : b[j] \in Printable) => \A k \in 1 .. n - i : str[k] \notin {NL, CR, Tab}
  BY <1>1, RestIs
<1> HIDE DEF str
<1>3. u \in Screens /\ (s \in Near => u \in Near)
  BY <1>2, PutsStays
<1>4. s.x \in Nat /\ s.x + 1 \in Nat
  BY ScreenIs
<1> HIDE DEF u
<1>5. /\ t \in Screens /\ t.x = s.x + 1 /\ t.y = u.y /\ t.cell = u.cell /\ Row(t) = Row(u)
      /\ Below(t) <=> Below(u)
  BY <1>3, <1>4, MovedIs
<1>6. s \in Near => Below(t)
  BY <1>3, <1>5 DEF Near
<1> HIDE DEF t
<1>7. ASSUME NEW o, Shown(b, n), RowShows(s, o, n - 1, i), \A j \in 0 .. i - 1 : o[j] = b[j]
      PROVE  RowShows(t, b, n, i + 1)
  <2>1. /\ P \in Nat /\ ScreenWidth \in Nat \ {0} /\ P + n + 1 < ScreenWidth /\ s.x = P + i
        /\ \A k \in 1 .. n - i : str[k] \notin {NL, CR, Tab}
    BY <1>2, <1>7, PromptIs DEF Shown, Narrow, RowShows, P
  <2>2. s.x + Len(str) < ScreenWidth
    BY <1>1, <1>2, <2>1
  <2>3. PICK r, at : r = Row(s) /\ at = Row(s) + s.x
    OBVIOUS
  <2>4. /\ u.y = s.y
        /\ \A p \in Cells : u.cell[p] = IF p >= at /\ p < at + (n - i) THEN str[p - at + 1] ELSE s.cell[p]
    BY <1>2, <2>1, <2>2, <2>3, PutsRow DEF u
  <2>5. Row(t) = r /\ r \in Nat /\ at = r + (P + i)
    <3>1. Row(u) = r
      BY <2>3, <2>4 DEF Row
    <3> QED BY <1>5, <2>1, <2>3, <3>1, ScreenIs
  <2>6. ASSUME NEW x \in 0 .. ScreenWidth - 1
        PROVE  t.cell[r + x] = IF x < P THEN Prompt[x + 1] ELSE IF x < P + n THEN b[x - P] ELSE Blank
    <3>1. r + x \in Cells
      BY <2>3, CellIs
    <3>2. t.cell[r + x] = IF r + x >= at /\ r + x < at + (n - i) THEN str[(r + x) - at + 1] ELSE s.cell[r + x]
      BY <1>5, <2>4, <3>1
    <3>3. s.cell[r + x] = IF x < P THEN Prompt[x + 1] ELSE IF x < P + (n - 1) THEN o[x - P] ELSE Blank
      BY <1>7, <2>3 DEF RowShows
    <3>4. x \in Nat /\ r \in Nat /\ P \in Nat /\ i \in Nat /\ n \in Nat /\ i < n /\ at = r + (P + i)
      BY <1>1, <2>1, <2>5
    <3>5. CASE x < P + i
      <4>1. ~(r + x >= at) /\ (x < P + n) /\ (x < P + (n - 1))
        BY ONLY <3>4, <3>5
      <4>2. ~(x < P) => x - P \in 0 .. i - 1
        BY ONLY <3>4, <3>5
      <4> QED BY <1>7, <3>2, <3>3, <4>1, <4>2
    <3>6. CASE x >= P + i /\ x < P + n
      <4>1. /\ r + x >= at /\ r + x < at + (n - i) /\ ~(x < P) /\ (r + x) - at + 1 \in 1 .. n - i
            /\ i + ((r + x) - at + 1) - 1 = x - P
        BY ONLY <3>4, <3>6
      <4>2. str[(r + x) - at + 1] = b[x - P]
        BY <1>2, <4>1
      <4> QED BY <3>2, <3>6, <4>1, <4>2
    <3>7. CASE ~(x < P + i) /\ ~(x >= P + i /\ x < P + n)
      <4>1. ~(r + x < at + (n - i)) /\ ~(x < P) /\ ~(x < P + n) /\ ~(x < P + (n - 1))
        BY ONLY <3>4, <3>7
      <4> QED BY <3>2, <3>3, <4>1
    <3> QED BY <3>5, <3>6, <3>7
  <2>7. t.x = P + (i + 1)
    BY <1>1, <1>5, <2>1
  <2> QED BY <2>5, <2>6, <2>7 DEF RowShows
<1> QED BY <1>5, <1>6, <1>7 DEF t, u, str, Typed

(* The row blanked from the prompt on and the line written again. *)
LEMMA RepaintedIs ==
  ASSUME NEW s \in Screens, NEW b, NEW n, Lined(b, n), NEW i \in 0 .. n
  PROVE  LET t == Repainted(s, b, n, i)
         IN  /\ t \in Screens
             /\ Below(s) => Below(t)
             /\ \A o, c : Shown(b, n) /\ Narrow(n + 1) /\ RowShows(s, o, n + 1, c) => RowShows(t, b, n, i)
<1> DEFINE start == [s EXCEPT !.x = P]
           blanks == [k \in 1 .. n + 2 |-> Blank]
           u == Puts(start, blanks)
           v == [u EXCEPT !.x = P]
           str == StringAt(b, 0)
           w == Puts(v, str)
           t == [w EXCEPT !.x = P + i]
<1>1. /\ n \in Nat /\ i \in Nat /\ i <= n /\ 0 \in 0 .. n /\ n + 2 \in Nat /\ n - 0 = n
      /\ P \in Nat /\ P + 1 < ScreenWidth /\ P < ScreenWidth /\ ScreenWidth \in Nat \ {0} /\ P + i \in Nat
  BY ShellAssumption, PromptIs DEF Lined
<1>2. Repainted(s, b, n, i) = t
  BY DEF Repainted, P
<1>3. /\ Len(str) = n /\ IsText(str)
      /\ \A k \in 1 .. n : str[k] = b[k - 1]
      /\ (\A j \in 0 .. n - 1 : b[j] \in Printable) => \A k \in 1 .. n : str[k] \notin {NL, CR, Tab}
  <2>1. /\ Len(str) = n - 0 /\ IsText(str)
        /\ \A k \in 1 .. n - 0 : str[k] = b[0 + k - 1]
        /\ (\A j \in 0 .. n - 1 : b[j] \in Printable) => \A k \in 1 .. n - 0 : str[k] \notin {NL, CR, Tab}
    BY <1>1, RestIs
  <2>2. \A k \in 1 .. n : 0 + k - 1 = k - 1
    BY <1>1
  <2> HIDE DEF str
  <2> QED BY <1>1, <2>1, <2>2
<1>4. /\ Len(blanks) = n + 2 /\ IsText(blanks)
      /\ \A k \in 1 .. n + 2 : blanks[k] = Blank /\ blanks[k] \notin {NL, CR, Tab}
  <2>1. PICK m, z : m = n + 2 /\ z = blanks
    OBVIOUS
  <2>2. m \in Nat /\ DOMAIN z = 1 .. m /\ z = [k \in 1 .. m |-> z[k]]
    BY <1>1, <2>1
  <2>3. Len(z) = m
    BY ONLY <2>2, LengthIs
  <2>4. Blank \notin {NL, CR, Tab}
    BY ShellAssumption
  <2>5. \A k \in 1 .. n + 2 : blanks[k] = Blank /\ blanks[k] \notin {NL, CR, Tab}
    BY <2>4
  <2>6. Blank \in Glyph \cup {Tab, CR}
    BY DEF Glyph
  <2> HIDE DEF blanks
  <2>7. Len(blanks) = n + 2
    BY <2>1, <2>3
  <2>8. IsText(blanks)
    BY <1>1, <2>5, <2>6, <2>7 DEF IsText
  <2> QED BY <2>5, <2>7, <2>8
<1> HIDE DEF str, blanks
<1>5. /\ start \in Screens /\ start.x = P /\ start.y = s.y /\ start.cell = s.cell /\ Row(start) = Row(s)
      /\ Below(s) => start \in Near
  BY <1>1, MovedIs
<1> HIDE DEF start
<1>6. u \in Screens /\ (Below(s) => Below(u))
  BY <1>4, <1>5, PutsStays DEF Near
<1> HIDE DEF u
<1>7. /\ v \in Screens /\ v.x = P /\ v.y = u.y /\ v.cell = u.cell /\ Row(v) = Row(u)
      /\ Below(s) => v \in Near
  BY <1>1, <1>6, MovedIs
<1> HIDE DEF v
<1>8. w \in Screens /\ (Below(s) => Below(w))
  BY <1>3, <1>7, PutsStays DEF Near
<1> HIDE DEF w
<1>9. /\ t \in Screens /\ t.x = P + i /\ t.y = w.y /\ t.cell = w.cell /\ Row(t) = Row(w)
      /\ Below(s) => Below(t)
  BY <1>1, <1>8, MovedIs
<1> HIDE DEF t
<1>10. ASSUME NEW o, NEW c, Shown(b, n), Narrow(n + 1), RowShows(s, o, n + 1, c)
       PROVE  RowShows(t, b, n, i)
  <2>1. P + (n + 1) + 1 < ScreenWidth /\ \A k \in 1 .. n : str[k] \notin {NL, CR, Tab}
    BY <1>3, <1>10 DEF Shown, Narrow, P
  <2>2. start.x + Len(blanks) < ScreenWidth /\ v.x + Len(str) < ScreenWidth
    BY <1>1, <1>3, <1>4, <1>5, <1>7, <2>1
  <2>3. PICK r, at : r = Row(s) /\ at = Row(s) + P
    OBVIOUS
  <2>4. /\ u.y = s.y
        /\ \A p \in Cells : u.cell[p] = IF p >= at /\ p < at + (n + 2) THEN blanks[p - at + 1] ELSE s.cell[p]
    BY <1>4, <1>5, <2>2, <2>3, PutsRow DEF u
  <2>5. Row(u) = r /\ Row(v) = r
    BY <1>7, <2>3, <2>4 DEF Row
  <2>6. /\ w.y = v.y
        /\ \A p \in Cells : w.cell[p] = IF p >= at /\ p < at + n THEN str[p - at + 1] ELSE v.cell[p]
    BY <1>3, <1>7, <2>1, <2>2, <2>3, <2>5, PutsRow DEF w
  <2>7. Row(t) = r /\ r \in Nat /\ at = r + P
    <3>1. Row(w) = r
      BY <2>5, <2>6 DEF Row
    <3> QED BY <1>9, <2>3, <3>1, ScreenIs
  <2>8. ASSUME NEW x \in 0 .. ScreenWidth - 1
        PROVE  t.cell[r + x] = IF x < P THEN Prompt[x + 1] ELSE IF x < P + n THEN b[x - P] ELSE Blank
    <3>1. r + x \in Cells
      BY <2>3, CellIs
    <3>2. t.cell[r + x] = IF r + x >= at /\ r + x < at + n THEN str[(r + x) - at + 1] ELSE v.cell[r + x]
      BY <1>9, <2>6, <3>1
    <3>3. v.cell[r + x] = IF r + x >= at /\ r + x < at + (n + 2) THEN blanks[(r + x) - at + 1] ELSE s.cell[r + x]
      BY <1>7, <2>4, <3>1
    <3>4. s.cell[r + x] = IF x < P THEN Prompt[x + 1] ELSE IF x < P + (n + 1) THEN o[x - P] ELSE Blank
      BY <1>10, <2>3 DEF RowShows
    <3>5. x \in Nat /\ r \in Nat /\ P \in Nat /\ n \in Nat /\ at = r + P
      BY <1>1, <2>7
    <3>6. CASE x < P
      <4>1. ~(r + x >= at)
        BY ONLY <3>5, <3>6
      <4> QED BY <3>2, <3>3, <3>4, <3>6, <4>1
    <3>7. CASE ~(x < P) /\ x < P + n
      <4>1. r + x >= at /\ r + x < at + n /\ (r + x) - at + 1 \in 1 .. n /\ ((r + x) - at + 1) - 1 = x - P
        BY ONLY <3>5, <3>7
      <4>2. str[(r + x) - at + 1] = b[x - P]
        BY <1>3, <4>1
      <4> QED BY <3>2, <3>7, <4>1, <4>2
    <3>8. CASE ~(x < P) /\ ~(x < P + n)
      <4>1. ~(r + x < at + n) /\ r + x >= at
        BY ONLY <3>5, <3>8
      <4>2. CASE x < P + (n + 2)
        <5>1. r + x < at + (n + 2) /\ (r + x) - at + 1 \in 1 .. n + 2
          BY ONLY <3>5, <3>8, <4>2
        <5> QED BY <1>4, <3>2, <3>3, <3>8, <4>1, <5>1
      <4>3. CASE ~(x < P + (n + 2))
        <5>1. ~(r + x < at + (n + 2)) /\ ~(x < P + (n + 1))
          BY ONLY <3>5, <4>3
        <5> QED BY <3>2, <3>3, <3>4, <3>8, <4>1, <5>1
      <4> QED BY <4>2, <4>3
    <3> QED BY <3>6, <3>7, <3>8
  <2> QED BY <1>9, <2>7, <2>8 DEF RowShows
<1> QED BY <1>2, <1>9, <1>10

--------------------------------------------------------------------------------
(* The screen a command leaves. *)
LEMMA ClearedIs == Cleared \in Screens /\ Cleared \in Near /\ Fresh(Cleared)
<1>1. ScreenWidth \in Nat \ {0} /\ ScreenHeight \in Nat \ {0} /\ 0 \in 0 .. ScreenHeight - 1 /\ 0 \in Nat
      /\ 0 < 2 * ScreenWidth
  BY ConsoleAssumption
<1>2. Cleared \in Screens
  BY <1>1 DEF Cleared, Screens, Glyph
<1> QED BY <1>1, <1>2 DEF Cleared, Near, Below, Fresh

Leaves(s, t) ==
  /\ t \in Screens
  /\ s \in Near /\ Fresh(s) => t \in Near /\ (t.x = 0 => Fresh(t))

(* What commands write: some text,                                         *)
LEMMA OpenIs == ASSUME NEW s \in Screens PROVE Leaves(s, Puts(s, <<Out>>))
<1>1. Len(<<Out>>) = 1 /\ <<Out>>[1] = Out /\ Out \in Glyph /\ Out \notin {NL, CR, Tab}
  BY ShellAssumption DEF Glyph
<1>2. PICK str : str = <<Out>>
  OBVIOUS
<1>3. IsText(str) /\ Len(str) = 1 /\ \A k \in 1 .. 1 : str[k] \notin {NL, CR, Tab}
  BY <1>1, <1>2 DEF IsText
<1>4. Puts(s, str) \in Screens /\ (s \in Near => Puts(s, str) \in Near)
  BY <1>3, PutsStays
<1>5. ASSUME Fresh(s) PROVE Puts(s, str).x # 0
  <2>1. s.x = 0 /\ s.x + Len(str) < ScreenWidth
    BY <1>3, <1>5, PromptIs DEF Fresh
  <2>2. Puts(s, str).x = s.x + Len(str)
    BY <1>3, <2>1, PutsRow
  <2> QED BY <1>3, <2>1, <2>2
<1> QED BY <1>2, <1>4, <1>5 DEF Leaves

(* some text and the end of its line,                                      *)
LEMMA LinesAre ==
  ASSUME NEW s \in Screens, NEW n \in Nat \ {0}
  PROVE  Leaves(s, Puts(s, [k \in 1 .. 2 * n |-> IF k % 2 = 1 THEN Out ELSE NL]))
<1> DEFINE str == [k \in 1 .. 2 * n |-> IF k % 2 = 1 THEN Out ELSE NL]
<1>1. PICK m : m = 2 * n
  OBVIOUS
<1>2. m \in Nat /\ m > 0 /\ m % 2 = 0 /\ m \in 1 .. m
  BY <1>1
<1>3. \A k \in 1 .. m : str[k] \in Glyph \cup {Tab, CR}
  BY <1>1 DEF Glyph
<1>4. str[m] = NL
  BY <1>1, <1>2
<1>5. Len(str) = m
  <2>1. PICK z : z = str
    OBVIOUS
  <2>2. m \in Nat /\ DOMAIN z = 1 .. m /\ z = [k \in 1 .. m |-> z[k]]
    BY <1>1, <1>2, <2>1
  <2>3. Len(z) = m
    BY ONLY <2>2, LengthIs
  <2> QED BY <2>1, <2>3
<1> HIDE DEF str
<1>6. IsText(str) /\ Len(str) > 0 /\ str[Len(str)] = NL
  BY <1>2, <1>3, <1>4, <1>5 DEF IsText
<1>7. /\ Puts(s, str) \in Screens /\ (s \in Near => Puts(s, str) \in Near)
      /\ s \in Near => Fresh(Puts(s, str))
  BY <1>6, PutsStays
<1> QED BY <1>7 DEF Leaves, str

(* or what one of the commands of the table writes.                        *)
LEMMA CommandsLeave ==
  ASSUME NEW s, NEW b, Logs(s), IsState(s), s.screen \in Screens
  PROVE  /\ Leaves(s.screen, Processed(s, b).screen)
         /\ Parse(b) # << >> /\ Parse(b)[1] = clear => Processed(s, b).screen = Cleared
<1>1. \A t \in Screens : Leaves(t, t) /\ Leaves(t, Cleared)
  BY ClearedIs DEF Leaves
<1>2. ASSUME NEW t, IsState(t), t.screen \in Screens
      PROVE  /\ Leaves(t.screen, PrintingOpen(t).screen)
             /\ \A n \in Nat \ {0} : Leaves(t.screen, Printing(t, n).screen)
             /\ cmd_clear(t).screen = Cleared
  <2>1. PrintingOpen(t).screen = Puts(t.screen, <<Out>>) /\ cmd_clear(t).screen = Cleared
    BY <1>2 DEF IsState, PrintingOpen, cmd_clear
  <2>2. ASSUME NEW n \in Nat \ {0} PROVE Leaves(t.screen, Printing(t, n).screen)
    <3>1. Printing(t, n).screen = Puts(t.screen, [k \in 1 .. 2 * n |-> IF k % 2 = 1 THEN Out ELSE NL])
      BY <1>2 DEF IsState, Printing
    <3> QED BY <1>2, <3>1, LinesAre
  <2> QED BY <1>2, <2>1, <2>2, OpenIs
<1>3. ASSUME NEW argv PROVE Leaves(s.screen, cmd_dmesg(s, argv).screen)
  <2>1. Leaves(s.screen, PrintingOpen([s EXCEPT !.messages = DmesgCleared(@), !.log = << >>]).screen)
    <3>1. PICK t : t = [s EXCEPT !.messages = DmesgCleared(@), !.log = << >>]
      OBVIOUS
    <3>2. IsState(t) /\ t.screen = s.screen
      BY <3>1 DEF IsState
    <3> QED BY <1>2, <3>1, <3>2
  <2>2. Leaves(s.screen, Printing(Logging(s, TestMessage), 1).screen)
    <3>1. PICK t : t = Logging(s, TestMessage)
      OBVIOUS
    <3>2. IsState(t) /\ t.screen = s.screen
      BY <3>1 DEF IsState, Logging
    <3>3. 1 \in Nat \ {0}
      OBVIOUS
    <3> QED BY <1>2, <3>1, <3>2, <3>3
  <2>3. Len(Displayed(s.messages)) + 2 \in Nat \ {0} /\ 2 \in Nat \ {0}
    <3>1. PICK l : l = Len(Displayed(s.messages))
      OBVIOUS
    <3>2. l \in Nat
      <4>1. Keeps(s.messages, s.log)
        BY DEF Logs
      <4>2. Displayed(s.messages) = SubSeq(s.log, 1, Min({Len(s.log), SIMPLE_MSG_COUNT}))
        BY <4>1, DisplayedIs
      <4>3. PICK m : m = Min({Len(s.log), SIMPLE_MSG_COUNT}) /\ m \in Nat /\ m <= Len(s.log)
        <5>1. Len(s.log) \in Nat /\ SIMPLE_MSG_COUNT \in Nat
          BY <4>1, CountIs, LenProperties DEF Keeps
        <5>2. PICK a, c : a = Len(s.log) /\ c = SIMPLE_MSG_COUNT
          OBVIOUS
        <5>3. Min({a, c}) = CHOOSE x \in {a, c} : \A y \in {a, c} : x <= y
          BY DEF Min
        <5>4. \E x \in {a, c} : \A y \in {a, c} : x <= y
          BY <5>1, <5>2
        <5>5. Min({a, c}) \in {a, c} /\ \A y \in {a, c} : Min({a, c}) <= y
          BY <5>3, <5>4
        <5> QED BY <5>1, <5>2, <5>5
      <4>4. \A i \in 1 .. m : s.log[i] \in Messages
        <5>1. s.log \in Seq(Messages) /\ Len(s.log) \in Nat
          BY <4>1, LenProperties DEF Keeps
        <5>2. \A i \in 1 .. m : i \in 1 .. Len(s.log)
          BY <4>3, <5>1
        <5> QED BY <5>1, <5>2, ElementOfSeq
      <4>5. 1 \in Int /\ m \in Int
        BY <4>3
      <4>6. PICK q : q = s.log
        OBVIOUS
      <4>7. SubSeq(q, 1, m) \in Seq(Messages)
        BY <4>4, <4>5, <4>6, SubSeqProperties
      <4> QED BY <3>1, <4>2, <4>3, <4>6, <4>7, LenProperties
    <3> QED BY <3>1, <3>2
  <2> QED BY <1>2, <2>1, <2>2, <2>3 DEF cmd_dmesg
<1>4. Leaves(s.screen, Processed(s, b).screen)
  <2>1. \/ Processed(s, b) = s
        \/ Processed(s, b) = cmd_dmesg(s, Parse(b))
        \/ Processed(s, b) = cmd_clear(s)
        \/ Processed(s, b) = Printing(s, 2)
    BY DEF Processed
  <2>2. 2 \in Nat \ {0}
    OBVIOUS
  <2> QED BY <1>1, <1>2, <1>3, <2>1, <2>2
<1>5. ASSUME Parse(b) # << >>, Parse(b)[1] = clear PROVE Processed(s, b).screen = Cleared
  <2>1. dmesg # clear
    BY ShellAssumption
  <2>2. Processed(s, b) = cmd_clear(s)
    BY <1>5, <2>1 DEF Processed
  <2> QED BY <1>2, <2>2
<1> QED BY <1>4, <1>5

ScreenInv ==
  /\ screen \in Screens
  /\ ~far => Below(screen)
  /\ plain => /\ ~far
              /\ Shown(command_buffer, command_pos)
              /\ RowShows(screen, command_buffer, command_pos, cursor_position)

(* The screen the shell starts with.                                       *)
LEMMA GreetingIs ==
  /\ Greeting \in Screens /\ Below(Greeting)
  /\ Shown(Empty, 0) /\ RowShows(Greeting, Empty, 0, 0)
<1>1. PICK str : str = <<Out, NL, Out, NL, NL>>
  OBVIOUS
<1>2. IsText(str) /\ Len(str) > 0 /\ str[Len(str)] = NL
  <2>1. Len(str) = 5 /\ str[5] = NL
    BY <1>1
  <2>2. \A k \in 1 .. 5 : str[k] \in {Out, NL}
    BY <1>1
  <2> QED BY <2>1, <2>2 DEF IsText, Glyph
<1>3. PICK s : s = Puts(Cleared, str)
  OBVIOUS
<1>4. s \in Near /\ s \in Screens /\ Fresh(s)
  BY <1>2, <1>3, ClearedIs, PutsStays DEF Near
<1>5. Greeting = Puts(s, Prompt)
  BY <1>1, <1>3 DEF Greeting
<1>6. Puts(s, Prompt) \in Near /\ RowShows(Puts(s, Prompt), Empty, 0, 0)
  BY <1>4, PromptIs, PutsStays, AskedIs
<1>7. Shown(Empty, 0)
  BY PromptIs DEF Shown, Narrow, P
<1> QED BY <1>5, <1>6, <1>7 DEF Near

(* Enter, a command and the next prompt.                                   *)
LEMMA EnterShows ==
  ASSUME LineInv, DmesgInv, ScreenInv, Enter
  PROVE  ScreenInv'
<1> DEFINE s == [screen |-> Putc(screen, NL), messages |-> messages, log |-> logged]
           after == IF command_pos > 0 THEN Processed(s, command_buffer) ELSE s
<1>1. /\ command_buffer' = Empty /\ command_pos' = 0 /\ cursor_position' = 0
      /\ screen' = Puts(after.screen, Prompt)
      /\ far' <=> (far /\ ~Asked(clear))
      /\ plain' <=> (after.screen.x = 0 /\ ~far')
  BY DEF Enter
<1>2. /\ Logs(s) /\ IsState(s) /\ s.screen = Putc(screen, NL)
  BY DEF Logs, IsState, DmesgInv
<1>3. s.screen \in Screens /\ (Below(screen) => Fresh(s.screen) /\ s.screen \in Near)
  <2>1. screen \in Screens /\ NL \in Glyph \cup {Tab, CR}
    BY DEF ScreenInv, Glyph
  <2> QED BY <1>2, <2>1, PutcIs
<1> HIDE DEF s
<1>4. Leaves(s.screen, after.screen) /\ (Asked(clear) => after.screen = Cleared)
  <2>1. CASE command_pos > 0
    BY <1>2, <1>3, <2>1, CommandsLeave DEF Asked
  <2>2. CASE ~(command_pos > 0)
    <3>1. Leaves(s.screen, s.screen)
      BY <1>3 DEF Leaves
    <3> QED BY <2>2, <3>1 DEF Asked
  <2> QED BY <2>1, <2>2
<1> HIDE DEF after
<1>5. PICK t : t = after.screen
  OBVIOUS
<1>6. t \in Screens /\ Puts(t, Prompt) \in Screens
  BY <1>4, <1>5, PromptIs, PutsStays DEF Leaves
<1>7. ASSUME ~far' PROVE t \in Near /\ (t.x = 0 => Fresh(t))
  <2>1. CASE Asked(clear)
    BY <1>4, <1>5, <2>1, ClearedIs
  <2>2. CASE ~far
    BY <1>3, <1>4, <1>5, <2>2 DEF ScreenInv, Leaves
  <2> QED BY <1>1, <1>7, <2>1, <2>2
<1>8. ASSUME ~far' PROVE Below(Puts(t, Prompt))
  BY <1>6, <1>7, <1>8, PromptIs, PutsStays DEF Near
<1>9. ASSUME plain' PROVE ~far' /\ RowShows(Puts(t, Prompt), Empty, 0, 0)
  <2>1. ~far' /\ Fresh(t)
    BY <1>1, <1>5, <1>7, <1>9
  <2> QED BY <1>6, <2>1, AskedIs
<1> QED BY <1>1, <1>5, <1>6, <1>8, <1>9, GreetingIs DEF ScreenInv

(* The arrows.                                                             *)
LEMMA MovesShow ==
  ASSUME LineInv, ScreenInv, Left \/ Right
  PROVE  ScreenInv'
<1>1. screen \in Screens /\ screen.x \in Nat /\ P \in Nat /\ cursor_position \in Nat
  BY ScreenIs, PromptIs DEF ScreenInv, LineInv, Lined
<1>2. PICK x \in Nat : /\ screen' = [screen EXCEPT !.x = x]
                       /\ screen.x = P + cursor_position => x = P + cursor_position'
  <2>1. CASE Left
    <3>1. /\ screen' = [screen EXCEPT !.x = IF screen.x > P THEN screen.x - 1 ELSE screen.x]
          /\ cursor_position > 0 /\ cursor_position' = cursor_position - 1
      BY <2>1 DEF Left, P
    <3>2. PICK x : x = IF screen.x > P THEN screen.x - 1 ELSE screen.x
      OBVIOUS
    <3>3. x \in Nat /\ (screen.x = P + cursor_position => x = P + cursor_position')
      BY <1>1, <3>1, <3>2
    <3> QED BY <3>1, <3>2, <3>3
  <2>2. CASE Right
    <3>1. screen' = [screen EXCEPT !.x = screen.x + 1] /\ cursor_position' = cursor_position + 1
      BY <2>2 DEF Right
    <3>2. screen.x + 1 \in Nat /\ (screen.x = P + cursor_position => screen.x + 1 = P + cursor_position')
      BY <1>1, <3>1
    <3> QED BY <3>1, <3>2
  <2> QED BY <2>1, <2>2
<1>3. PICK t : t = screen'
  OBVIOUS
<1>4. t \in Screens /\ t.x = x /\ t.cell = screen.cell /\ Row(t) = Row(screen) /\ (Below(t) <=> Below(screen))
  BY <1>1, <1>2, <1>3, MovedIs
<1>5. /\ command_buffer' = command_buffer /\ command_pos' = command_pos
      /\ far' = far /\ plain' = plain
  BY DEF Left, Right
<1>6. RowShows(screen, command_buffer, command_pos, cursor_position)
        => RowShows(t, command_buffer, command_pos, cursor_position')
  BY <1>2, <1>4 DEF RowShows
<1> QED BY <1>3, <1>4, <1>5, <1>6 DEF ScreenInv

(* Backspace closes the line up and writes the row again.                  *)
LEMMA BackspaceShows ==
  ASSUME LineInv, ScreenInv, Backspace
  PROVE  ScreenInv'
<1>1. /\ cursor_position > 0 /\ command_buffer' = Closed /\ command_pos' = command_pos - 1
      /\ cursor_position' = cursor_position - 1
      /\ screen' = Repainted(screen, command_buffer', command_pos', cursor_position')
      /\ far' = far /\ plain' = plain
  BY DEF Backspace
<1>2. PICK b, o, n, c, m, s : /\ b = command_buffer' /\ n = command_pos' /\ c = cursor_position'
                              /\ m = command_pos /\ o = command_buffer /\ s = screen
  OBVIOUS
<1>3. /\ Lined(b, n) /\ n \in Nat /\ m = n + 1 /\ c \in 0 .. n /\ cursor_position = c + 1
      /\ SHELL_BUFFER_SIZE \in Nat /\ m \in 0 .. SHELL_BUFFER_SIZE - 1
      /\ DOMAIN o = 0 .. SHELL_BUFFER_SIZE - 1
  <2>1. Lined(b, n)
    BY <1>1, <1>2, ClosedIs
  <2> QED BY <1>1, <1>2, <2>1, ShellAssumption DEF LineInv, Lined
<1>4. PICK t : t = screen' /\ t = Repainted(s, b, n, c)
  BY <1>1, <1>2
<1>5. /\ t \in Screens /\ (Below(s) => Below(t))
      /\ \A u, i : Shown(b, n) /\ Narrow(n + 1) /\ RowShows(s, u, n + 1, i) => RowShows(t, b, n, c)
  BY <1>2, <1>3, <1>4, RepaintedIs DEF ScreenInv
<1>6. ASSUME Shown(o, m) PROVE Shown(b, n) /\ Narrow(n + 1)
  <2>1. Narrow(n + 1) /\ Narrow(n)
    <3>1. P + (n + 1) + 1 < ScreenWidth /\ P \in Nat /\ ScreenWidth \in Nat
      BY <1>3, <1>6, PromptIs DEF Shown, Narrow, P
    <3>2. P + n + 1 < ScreenWidth
      BY <1>3, <3>1
    <3> QED BY <3>1, <3>2 DEF Narrow, P
  <2>2. ASSUME NEW i \in 0 .. n - 1 PROVE b[i] \in Printable
    <3>1. i \in DOMAIN o /\ i \in 0 .. m - 1 /\ i # m - 1
      BY <1>3
    <3>2. b[i] = IF i \in c .. m - 2 THEN o[i + 1] ELSE o[i]
      BY <1>1, <1>2, <1>3, <3>1 DEF Closed
    <3>3. i \in c .. m - 2 => i + 1 \in 0 .. m - 1
      BY <1>3
    <3> QED BY <1>6, <3>1, <3>2, <3>3 DEF Shown
  <2> QED BY <2>1, <2>2 DEF Shown
<1> QED BY <1>1, <1>2, <1>3, <1>4, <1>5, <1>6 DEF ScreenInv

(* A character opens the line.                                             *)
LEMMA InsertShows ==
  ASSUME LineInv, ScreenInv, NEW c \in Chars, (Type(c) /\ c \in Printable) \/ TypeSpecial(c)
  PROVE  ScreenInv'
<1>1. /\ command_pos < SHELL_BUFFER_SIZE - 1 /\ command_buffer' = Opened(c)
      /\ command_pos' = command_pos + 1 /\ cursor_position' = cursor_position + 1
      /\ far' <=> (far \/ screen.x >= 2 * ScreenWidth)
  BY DEF Type, TypeSpecial, Insert
<1>2. PICK b, o, n, i, m, s : /\ b = command_buffer' /\ n = command_pos' /\ i = cursor_position
                              /\ m = command_pos /\ o = command_buffer /\ s = screen
  OBVIOUS
<1>3. /\ Lined(b, n) /\ n \in Nat /\ m \in Nat /\ n = m + 1 /\ m = n - 1 /\ i \in 0 .. n - 1
      /\ cursor_position' = i + 1
      /\ SHELL_BUFFER_SIZE \in Nat /\ n \in 0 .. SHELL_BUFFER_SIZE - 1
      /\ DOMAIN o = 0 .. SHELL_BUFFER_SIZE - 1
  <2>1. Lined(b, n)
    BY <1>1, <1>2, OpenedIs
  <2> QED BY <1>1, <1>2, <2>1, ShellAssumption DEF LineInv, Lined
<1>4. s \in Screens /\ (~far' => s \in Near)
  <2>1. s \in Screens /\ s.x \in Nat /\ ScreenWidth \in Nat
    BY <1>2, ScreenIs, ConsoleAssumption DEF ScreenInv
  <2>2. ASSUME ~far' PROVE s \in Near
    <3>1. s.x < 2 * ScreenWidth /\ Below(s)
      BY <1>1, <1>2, <2>1, <2>2 DEF ScreenInv
    <3> QED BY <2>1, <3>1 DEF Near
  <2> QED BY <2>1, <2>2
<1>5. CASE TypeSpecial(c)
  <2>1. screen' = Putc(s, c) /\ ~plain'
    BY <1>2, <1>5 DEF TypeSpecial
  <2>2. Putc(s, c) \in Screens /\ (s \in Near => Putc(s, c) \in Near)
    <3>1. c \in Glyph \cup {Tab, CR}
      BY DEF Glyph
    <3> QED BY <1>4, <3>1, PutcIs
  <2> QED BY <1>4, <2>1, <2>2 DEF ScreenInv, Near
<1>6. CASE Type(c) /\ c \in Printable
  <2>1. PICK t : t = screen' /\ t = [Puts(s, StringAt(b, i)) EXCEPT !.x = s.x + 1]
    BY <1>2, <1>6 DEF Type
  <2>2. plain' <=> plain /\ Narrow(n)
    BY <1>2, <1>6 DEF Type
  <2>3. /\ t \in Screens /\ (s \in Near => Below(t))
        /\ \A u : Shown(b, n) /\ RowShows(s, u, n - 1, i) /\ (\A j \in 0 .. i - 1 : u[j] = b[j])
                    => RowShows(t, b, n, i + 1)
    <3>1. Typed(s, b, n, i, [Puts(s, StringAt(b, i)) EXCEPT !.x = s.x + 1])
      BY <1>3, <1>4, TypedIs
    <3> QED BY <2>1, <3>1 DEF Typed
  <2>4. ASSUME NEW j \in 0 .. n - 1
        PROVE  /\ b[j] = IF j \in i + 1 .. m THEN o[j - 1] ELSE IF j = i THEN c ELSE o[j]
               /\ j \in i + 1 .. m => j - 1 \in 0 .. m - 1
               /\ j \notin i + 1 .. m /\ j # i => j \in 0 .. m - 1
    <3>1. j \in DOMAIN o
      BY <1>3
    <3>2. b[j] = IF j \in i + 1 .. m THEN o[j - 1] ELSE IF j = i THEN c ELSE o[j]
      BY <1>1, <1>2, <3>1 DEF Opened
    <3>3. /\ j \in i + 1 .. m => j - 1 \in 0 .. m - 1
          /\ j \notin i + 1 .. m /\ j # i => j \in 0 .. m - 1
      BY <1>3
    <3> QED BY <3>2, <3>3
  <2>5. \A j \in 0 .. i - 1 : o[j] = b[j]
    <3> SUFFICES ASSUME NEW j \in 0 .. i - 1 PROVE o[j] = b[j]
      OBVIOUS
    <3>1. j \in 0 .. n - 1 /\ j \notin i + 1 .. m /\ j # i
      BY <1>3
    <3> QED BY <2>4, <3>1
  <2>6. ASSUME plain' PROVE ~far' /\ Shown(b, n) /\ RowShows(t, b, n, i + 1)
    <3>1. plain /\ Narrow(n) /\ ~far /\ Shown(o, m) /\ RowShows(s, o, n - 1, i)
      BY <1>2, <1>3, <2>2, <2>6 DEF ScreenInv
    <3>2. Shown(b, n)
      BY <1>6, <2>4, <3>1 DEF Shown
    <3>3. ~far'
      <4>1. /\ P \in Nat /\ ScreenWidth \in Nat \ {0} /\ P + n + 1 < ScreenWidth /\ s.x = P + i
        BY <3>1, PromptIs DEF Narrow, RowShows, P
      <4>2. ~(s.x >= 2 * ScreenWidth)
        BY <1>3, <4>1
      <4> QED BY <1>1, <1>2, <3>1, <4>2
    <3> QED BY <2>3, <2>5, <3>1, <3>2, <3>3
  <2> QED BY <1>2, <1>3, <1>4, <2>1, <2>3, <2>6 DEF ScreenInv
<1> QED BY <1>5, <1>6

(* The row of the prompt holds prompt and line: inductive.                 *)
LEMMA ScreenInductive ==
  /\ SystemInit => ScreenInv
  /\ LineInv /\ DmesgInv /\ ScreenInv /\ [SystemNext]_systemVars => ScreenInv'
<1>1. ASSUME SystemInit PROVE ScreenInv
  <2>1. /\ command_buffer = Empty /\ command_pos = 0 /\ cursor_position = 0 /\ screen = Greeting
        /\ plain /\ ~far
    BY <1>1 DEF SystemInit, Init
  <2> QED BY <2>1, GreetingIs DEF ScreenInv
<1>2. ASSUME LineInv, DmesgInv, ScreenInv, [SystemNext]_systemVars PROVE ScreenInv'
  <2>1. CASE UNCHANGED <<command_buffer, command_pos, cursor_position, screen, plain, far>>
    BY <1>2, <2>1 DEF ScreenInv
  <2>2. CASE Reboot \/ Exit
    <3>1. /\ command_buffer' = Empty /\ command_pos' = 0 /\ cursor_position' = 0 /\ screen' = Greeting
          /\ plain' /\ ~far'
      BY <2>2 DEF Reboot, Exit, Leave
    <3> QED BY <3>1, GreetingIs DEF ScreenInv
  <2>3. CASE Running
    <3>1. Enter \/ Backspace \/ Left \/ Right \/ (\E c \in Printable : Type(c)) \/ (\E c \in Special : TypeSpecial(c))
      BY <2>3 DEF Running, Next
    <3>2. CASE \E c \in Printable : Type(c)
      BY <1>2, <3>2, InsertShows DEF Chars
    <3>3. CASE \E c \in Special : TypeSpecial(c)
      <4>1. PICK c \in Special : TypeSpecial(c)
        BY <3>3
      <4>2. c \in Chars
        BY DEF Chars
      <4> QED BY <1>2, <4>1, <4>2, InsertShows
    <3> QED BY <1>2, <3>1, <3>2, <3>3, EnterShows, BackspaceShows, MovesShow
  <2>4. Booting \/ Retrying \/ UNCHANGED systemVars
          => UNCHANGED <<command_buffer, command_pos, cursor_position, screen, plain, far>>
    BY DEF Booting, Retrying, vars, systemVars
  <2> QED BY <1>2, <2>1, <2>2, <2>3, <2>4 DEF SystemNext
<1> QED BY <1>1, <1>2

(* What shell_run and its redraws leave on the screen: after any keys, in the*)
(* row of the cursor there is the prompt, then the line, and nothing else, *)
(* and the cursor is where the next character goes.                        *)
THEOREM RowIsPromptAndLine == SystemSpec => []ScreenShowsLine
<1>1. LineInv /\ DmesgInv /\ ScreenInv => ScreenShowsLine
  <2> SUFFICES ASSUME LineInv, DmesgInv, ScreenInv PROVE ScreenShowsLine
    OBVIOUS
  <2>1. PICK b, n, s : b = command_buffer /\ n = command_pos /\ s = screen
    OBVIOUS
  <2>2. /\ Lined(b, n) /\ Line = TextOf(b, n) /\ n \in Nat /\ Len(Line) = n /\ Line \in Seq(Chars)
        /\ \A k \in 1 .. n : Line[k] = b[k - 1]
    <3>1. Lined(b, n) /\ Line = TextOf(b, n)
      BY <2>1, LineIsText DEF LineInv
    <3> QED BY <3>1, TextIs
  <2>3. TypeOK
    <3>1. messages.idx \in 0 .. SIMPLE_MSG_COUNT
      BY DEF DmesgInv, Keeps, Tables
    <3>2. screen.x \in Nat /\ screen.y \in 0 .. ScreenHeight - 1
      BY ScreenIs DEF ScreenInv
    <3> QED BY <3>1, <3>2 DEF TypeOK, LineInv, Lined, Chars
  <2>4. \A i \in DOMAIN command_buffer : (command_buffer[i] = Zero) = (i >= command_pos)
    BY <2>1, <2>2 DEF Lined
  <2>5. ASSUME plain
        PROVE  LET shown == Prompt \o Line
                   row   == screen.y * ScreenWidth
               IN  /\ screen.x = Len(Prompt) + cursor_position
                   /\ \A x \in 0 .. ScreenWidth - 1 :
                        screen.cell[row + x] = IF x < Len(shown) THEN shown[x + 1] ELSE Blank
    <3>1. RowShows(s, b, n, cursor_position) /\ P \in Nat
      BY <2>1, <2>5, PromptIs DEF ScreenInv
    <3>2. PICK T, q, l : /\ T = {Prompt[k] : k \in 1 .. P} \cup Chars /\ q = Prompt /\ l = Line
      OBVIOUS
    <3>3. q \in Seq(T) /\ l \in Seq(T) /\ Len(q) = P /\ Len(l) = n
      <4>1. Prompt \in Seq({Prompt[k] : k \in 1 .. P})
        BY PromptIs
      <4> QED BY <2>2, <3>2, <4>1 DEF P
    <3>4. Len(q \o l) = P + n /\ \A k \in 1 .. P + n : (q \o l)[k] = IF k <= P THEN q[k] ELSE l[k - P]
      BY <3>3
    <3>5. ASSUME NEW x \in 0 .. ScreenWidth - 1
          PROVE  s.cell[Row(s) + x] = IF x < P + n THEN (q \o l)[x + 1] ELSE Blank
      <4>1. s.cell[Row(s) + x] = IF x < P THEN Prompt[x + 1] ELSE IF x < P + n THEN b[x - P] ELSE Blank
        BY <3>1 DEF RowShows
      <4>2. x \in Nat
        BY ConsoleAssumption
      <4>3. CASE x < P
        <5>1. x + 1 \in 1 .. P + n /\ x + 1 <= P /\ x < P + n
          BY <2>2, <3>1, <4>2, <4>3
        <5> QED BY <3>2, <3>4, <4>1, <4>3, <5>1
      <4>4. CASE ~(x < P) /\ x < P + n
        <5>1. /\ x + 1 \in 1 .. P + n /\ ~(x + 1 <= P) /\ (x + 1) - P \in 1 .. n
              /\ ((x + 1) - P) - 1 = x - P
          BY <2>2, <3>1, <4>2, <4>4
        <5> QED BY <2>2, <3>2, <3>4, <4>1, <4>4, <5>1
      <4>5. CASE ~(x < P) /\ ~(x < P + n)
        BY <4>1, <4>5
      <4> QED BY <4>3, <4>4, <4>5
    <3> QED BY <2>1, <3>1, <3>2, <3>4, <3>5 DEF Row, RowShows, P
  <2> QED BY <2>3, <2>4, <2>5 DEF ScreenShowsLine
<1>2. SystemInit => LineInv /\ DmesgInv /\ ScreenInv
  BY ShellStarts, DmesgInductive, ScreenInductive
<1>3. LineInv /\ DmesgInv /\ ScreenInv /\ [SystemNext]_systemVars => LineInv' /\ DmesgInv' /\ ScreenInv'
  BY ShellInvariant, DmesgInductive, ScreenInductive
<1> QED BY <1>1, <1>2, <1>3, PTL DEF SystemSpec

================================================================================
