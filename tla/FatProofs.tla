------------------------------- MODULE FatProofs -------------------------------
(***************************************************************************)
(* Proofs about the FAT reader, for volumes of any size within the limits  *)
(* of module Fat and a disk that can be read: the buffer of an open file   *)
(* is the sector its position is in, and the calls are the streams of      *)
(* module FileStream.                                                      *)
(***************************************************************************)
EXTENDS Fat, SequenceTheorems, WellFoundedInduction, TLAPS

(* What a cell holds; one of a sector the disk has in place of another. *)
Datum == STRING \cup {"?"}

Values == [1 .. Cells -> Datum]

HandleType(v) ==
  [buffer : Values \cup {<< >>}, pos : 0 .. Word - 1, size : Nat, dir : BOOLEAN, open : BOOLEAN,
   first : Nat, cluster : Int, sector : 0 .. v.bs.spc - 1]

(* The sector of the entry's cell behind its first i. *)
ClusterOf(v, e, i) == e.chain[((i \div Cells) \div v.bs.spc) + 1]
SectorOf(v, i) == (i \div Cells) % v.bs.spc

(* A handle opened from entry e: what it says of its place in the chain is *)
(* right until the data ends.  The end of a directory, which has no size,  *)
(* is kept as one once it is seen; it need not be if every path is found.  *)
At(v, f, e) ==
  /\ f.open /\ f.first = e.first /\ f.dir = e.dir
  /\ f.pos \in 0 .. CellsOf(v, e)
  /\ f.buffer \in Values
  /\ IF e.dir THEN \/ f.size = 0 /\ (f.pos = Room(v, e) => v.paths = DOMAIN v.files)
                   \/ f.size = f.pos /\ f.pos = Room(v, e)
     ELSE f.size = e.size
  /\ f.pos < CellsOf(v, e) =>
       /\ f.cluster = ClusterOf(v, e, f.pos) /\ f.sector = SectorOf(v, f.pos)
       /\ f.buffer = v.sectors[LbaOf(v, f.cluster) + f.sector]

Typed ==
  /\ vol \in Volumes
  /\ file \in [Handles \cup {ROOT} -> HandleType(vol)]
  /\ pc \in {"idle", "find", "read"}
  /\ cur \in Handles \cup {ROOT, NULL}
  /\ left \in Nat /\ out \in Seq(Datum)
  /\ pc = "idle" => ~Searching
  /\ pc = "find" => Searching

(* Of cluster c's entry in the FAT no more may be read than that it has    *)
(* one; it is read whole, but for the end marks of FAT32, if it does not   *)
(* straddle the cache.                                                     *)
Follows(v, c, x) ==
  LET next == IF v.table[c] = End /\ LayoutOf(v).type = 32 THEN Wild ELSE v.table[c]
  IN  x \in {Wild, next} /\ (~Straddles(v, c) => x = next)

(* The cache is empty or holds a part of the FAT. *)
CacheRight(v, m) ==
  \/ m = NoCache
  \/ /\ m.pos \in Nat /\ DOMAIN m.entries = 0 .. CacheSize * FatBytes - 1
     /\ \A c \in DOMAIN v.table :
          LET k == FatIndexOf(v, c) - m.pos * FatBytes
          IN  k \in DOMAIN m.entries => Follows(v, c, m.entries[k])

(* Searches stay in the first sector of the root directory. *)
RootIs(v, f) ==
  /\ f = [buffer |-> v.sectors[LayoutOf(v).root], pos |-> f.pos, size |-> v.bs.entries,
          dir |-> TRUE, open |-> TRUE, first |-> LayoutOf(v).root, cluster |-> LayoutOf(v).root,
          sector |-> 0]
  /\ f.pos < Cells

(* The next search starts at the first cell. *)
RootRests == ~(Searching /\ cur = ROOT) => file[ROOT].pos = 0

(* An open handle has an entry. *)
Has(v, f) == \E n \in DOMAIN v.entry : At(v, f, v.entry[n])

(* Callers have files only; a directory is open while it is searched. *)
OpenFiles ==
  \A h \in Handles : file[h].open =>
    Has(vol, file[h]) /\ (file[h].dir => Searching /\ h = cur)

(* Name i of path p is looked for in what name i - 1 led to, or in the     *)
(* root directory: its cells, and that the name is not in the first m.     *)
Looked(v, p, i) == v.entry[ShortName[p[i - 1]]]

Cell(v, p, i, k) ==
  IF i = 1 THEN v.sectors[LayoutOf(v).root][k] ELSE CellAt(v, Looked(v, p, i).chain, k)

NotIn(v, p, i, m) == \A k \in 1 .. m : Cell(v, p, i, k) # ShortName[p[i]]

(* The search for it, in handle h of fs. *)
Place(v, fs, h, p, i) ==
  /\ \A j \in 2 .. i - 1 : Holds(v, ShortName[p[j - 1]], ShortName[p[j]])
  /\ IF i = 1 THEN h = ROOT /\ (Len(p) = 1 \/ \E x \in Handles : ~fs[x].open)
     ELSE /\ h \in Handles
          /\ ShortName[p[i - 1]] \in DOMAIN v.entry
          /\ At(v, fs[h], Looked(v, p, i))

(* An entry is read, o is what has been and l what is left, to end at pos. *)
EntryOut(v, p, i, pos, o, l) ==
  /\ Len(o) + l <= 1 /\ Len(o) <= pos
  /\ Len(o) = 1 => o[1] = Cell(v, p, i, pos)
  /\ IF i = 1 THEN Len(o) + l = 1
     ELSE IF Len(o) + l = 0 THEN pos = CellsOf(v, Looked(v, p, i))
     ELSE pos - Len(o) < CellsOf(v, Looked(v, p, i))

SearchInv ==
  Searching =>
    /\ asked \in vol.paths
    /\ \E i \in DOMAIN asked :
         /\ path = SubSeq(asked, i, Len(asked))
         /\ Place(vol, file, cur, asked, i)
         /\ IF pc = "read"
            THEN /\ EntryOut(vol, asked, i, file[cur].pos, out, left)
                 /\ NotIn(vol, asked, i, file[cur].pos - Len(out))
            ELSE NotIn(vol, asked, i, file[cur].pos)

(* A caller's read of entry e has copied o, and is to copy l more. *)
Copied(v, f, e, o, l) ==
  LET at == f.pos - Len(o)
  IN  /\ At(v, f, e) /\ ~e.dir
      /\ at >= 0 /\ l + f.pos <= f.size
      /\ \A k \in 1 .. Len(o) : o[k] = CellAt(v, e.chain, at + k)
      /\ \E n \in Counts : l + Len(o) = LesserOf(n, f.size - at)

ReadInv ==
  pc = "read" /\ ~Searching =>
    cur \in Handles /\ \E n \in DOMAIN vol.entry : Copied(vol, file[cur], vol.entry[n], out, left)

FInv ==
  /\ Typed /\ CacheRight(vol, cache) /\ RootIs(vol, file[ROOT]) /\ RootRests
  /\ OpenFiles /\ SearchInv /\ ReadInv

--------------------------------------------------------------------------------
(* Positions, sectors and clusters. *)

(* Quotient and remainder are the only pair of their kind. *)
LEMMA DivIs ==
  ASSUME NEW b \in Nat \ {0}, NEW n \in Nat, NEW q \in Nat, NEW r \in Nat, n = b * q + r, r < b
  PROVE  n \div b = q /\ n % b = r
<1> DEFINE q2 == n \div b
           r2 == n % b
<1>1. q2 \in Nat /\ r2 \in Nat /\ r2 < b /\ n = b * q2 + r2
  OBVIOUS
<1> HIDE DEF q2, r2
<1>2. ~(q < q2)
  <2> SUFFICES ASSUME q < q2 PROVE FALSE
    OBVIOUS
  <2>1. PICK d \in Nat : q2 = q + 1 + d
    BY <1>1
  <2>2. b * q2 = b * q + b + b * d /\ b * d \in Nat /\ b * q \in Nat
    BY <2>1
  <2> QED BY <1>1, <2>2
<1>3. ~(q2 < q)
  <2> SUFFICES ASSUME q2 < q PROVE FALSE
    OBVIOUS
  <2>1. PICK d \in Nat : q = q2 + 1 + d
    BY <1>1
  <2>2. b * q = b * q2 + b + b * d /\ b * d \in Nat /\ b * q2 \in Nat
    BY <1>1, <2>1
  <2> QED BY <1>1, <2>2
<1>4. q = q2
  BY <1>1, <1>2, <1>3
<1>5. r = r2
  <2>1. b * q \in Nat
    OBVIOUS
  <2> QED BY <1>1, <1>4, <2>1
<1> QED BY <1>4, <1>5 DEF q2, r2

(* What is less than b is its own remainder. *)
LEMMA Remains ==
  ASSUME NEW b \in Nat \ {0}, NEW n \in Nat, n < b
  PROVE  n % b = n
<1>1. PICK q \in Nat : q = 0
  OBVIOUS
<1>2. n = b * q + n
  BY <1>1
<1> QED BY <1>2, DivIs

(* Going on within a piece of b, or to the start of the next. *)
LEMMA GoOn ==
  ASSUME NEW b \in Nat \ {0}, NEW n \in Nat, NEW d \in Nat, (n % b) + d <= b
  PROVE  IF (n % b) + d < b
         THEN (n + d) \div b = n \div b /\ (n + d) % b = (n % b) + d
         ELSE (n + d) \div b = (n \div b) + 1 /\ (n + d) % b = 0
<1>1. PICK q \in Nat, r \in Nat : q = n \div b /\ r = n % b /\ n = b * q + r /\ r < b
  OBVIOUS
<1>2. CASE r + d < b
  <2>1. n + d = b * q + (r + d) /\ r + d \in Nat /\ n + d \in Nat
    BY <1>1
  <2>2. PICK n2 \in Nat, r2 \in Nat : n2 = n + d /\ r2 = r + d
    BY <2>1
  <2>3. n2 = b * q + r2 /\ r2 < b
    BY <1>2, <2>1, <2>2
  <2>4. n2 \div b = q /\ n2 % b = r2
    BY ONLY <2>3, DivIs, b \in Nat \ {0}, n2 \in Nat, q \in Nat, r2 \in Nat
  <2> QED BY <1>1, <1>2, <2>2, <2>4
<1>3. CASE r + d = b
  <2>1. b * (q + 1) = b * q + b /\ b * q \in Nat
    BY <1>1
  <2>2. PICK q1 \in Nat, n1 \in Nat, z \in Nat : q1 = q + 1 /\ n1 = n + d /\ z = 0
    BY <1>1
  <2>5. n1 = b * q1 + z /\ z < b
    BY <1>1, <1>3, <2>1, <2>2
  <2>6. n1 \div b = q1 /\ n1 % b = z
    BY <2>5, DivIs
  <2>3. (n + d) \div b = q + 1 /\ (n + d) % b = 0
    BY <2>2, <2>6
  <2>4. ~((n % b) + d < b)
    BY <1>1, <1>3
  <2> QED BY ONLY <1>1, <2>3, <2>4
<1> QED BY <1>1, <1>2, <1>3

(* A number lies below m pieces if it lies in one of them. *)
LEMMA BelowPieces ==
  ASSUME NEW b \in Nat \ {0}, NEW n \in Nat, NEW m \in Nat
  PROVE  n < m * b <=> n \div b < m
<1>1. PICK q \in Nat, r \in Nat : q = n \div b /\ r = n % b /\ n = b * q + r /\ r < b
  OBVIOUS
<1>2. CASE q < m
  <2>1. PICK d \in Nat : m = q + 1 + d
    BY <1>2
  <2>2. m * b = b * q + b + b * d /\ b * d \in Nat /\ b * q \in Nat
    BY <2>1
  <2> QED BY <1>1, <1>2, <2>2
<1>3. CASE m <= q
  <2>1. PICK d \in Nat : q = m + d
    BY <1>3
  <2>2. b * q = m * b + b * d /\ b * d \in Nat /\ m * b \in Nat
    BY <2>1
  <2> QED BY <1>1, <1>3, <2>2
<1> QED BY <1>2, <1>3

(* The cells of a chain are those of its clusters. *)
LEMMA InRoom ==
  ASSUME NEW spc \in Nat \ {0}, NEW m \in Nat, NEW i \in Nat
  PROVE  /\ i < m * spc * Cells <=> (i \div Cells) \div spc < m
         /\ i \div Cells \in Nat /\ (i \div Cells) \div spc \in Nat
         /\ (i \div Cells) % spc \in 0 .. spc - 1 /\ i % Cells \in 0 .. Cells - 1
<1> USE FatAssumption
<1>1. i \div Cells \in Nat /\ m * spc \in Nat /\ i % Cells \in 0 .. Cells - 1
  OBVIOUS
<1>2. i < (m * spc) * Cells <=> i \div Cells < m * spc
  BY <1>1, BelowPieces
<1>3. i \div Cells < m * spc <=> (i \div Cells) \div spc < m
  BY <1>1, BelowPieces
<1>4. PICK q \in Nat : q = i \div Cells
  BY <1>1
<1>5. q \div spc \in Nat /\ q % spc \in 0 .. spc - 1
  OBVIOUS
<1> QED BY <1>1, <1>2, <1>3, <1>4, <1>5

(* The layout of a volume, and where a cluster's entry starts in its FAT.  *)
LEMMA LayoutIs ==
  ASSUME NEW v, Formatted(v)
  PROVE  /\ LayoutOf(v).data \in Int /\ LayoutOf(v).type \in {12, 16, 32}
         /\ \A c \in Int : LbaOf(v, c) \in Int
         /\ \A c \in DOMAIN v.table : c \in Nat /\ FatIndexOf(v, c) \in Nat
         /\ \A c, d \in DOMAIN v.table : FatIndexOf(v, c) = FatIndexOf(v, d) => c = d
<1> DEFINE bs == v.bs
<1>1. /\ bs.spc \in Nat /\ bs.reserved \in Nat /\ bs.fats \in Nat /\ bs.entries \in Int
      /\ bs.spf \in Nat /\ bs.spf32 \in Nat
      /\ DOMAIN v.table \subseteq Nat
  BY DEF Formatted
<1>2. LayoutOf(v).type \in {12, 16, 32}
  BY DEF LayoutOf
<1>3. LayoutOf(v).data \in Int
  <2>1. (IF bs.spf = 0 THEN bs.spf32 ELSE bs.spf) * bs.fats \in Nat
    BY <1>1
  <2>2. (bs.entries + Cells - 1) \div Cells \in Int
    BY <1>1, FatAssumption
  <2> QED BY <1>1, <2>1, <2>2 DEF LayoutOf
<1>4. \A c \in Int : LbaOf(v, c) \in Int
  BY <1>1, <1>3 DEF LbaOf
<1>5. \A c \in DOMAIN v.table : c \in Nat /\ FatIndexOf(v, c) \in Nat
  BY <1>1, <1>2 DEF FatIndexOf
<1>6. \A c, d \in DOMAIN v.table : FatIndexOf(v, c) = FatIndexOf(v, d) => c = d
  BY <1>1, <1>2 DEF FatIndexOf
<1> QED BY <1>2, <1>3, <1>4, <1>5, <1>6

(* An entry is known by its first cluster, and whether it is a directory.  *)
LEMMA EntryIs ==
  ASSUME vol \in Volumes, NEW n \in DOMAIN vol.entry, NEW f,
         f.first = vol.entry[n].first, f.dir = vol.entry[n].dir
  PROVE  EntryOf(f) = vol.entry[n]
<1>1. \A k, m \in DOMAIN vol.entry :
        vol.entry[k].first = vol.entry[m].first /\ vol.entry[k].dir = vol.entry[m].dir
          => vol.entry[k] = vol.entry[m]
  BY MkfsAssumption DEF Formatted
<1> QED BY <1>1 DEF EntryOf

(* What is known of an entry of a volume. *)
LEMMA EntryTyped ==
  ASSUME NEW v \in Volumes, NEW n \in DOMAIN v.entry, NEW e, e = v.entry[n]
  PROVE  /\ e.dir \in BOOLEAN /\ e.first \in Nat /\ e.size \in Nat
         /\ e.chain \in Seq(DOMAIN v.table) /\ Len(e.chain) \in Nat
         /\ v.bs.spc \in Nat \ {0}
         /\ Room(v, e) \in Nat /\ CellsOf(v, e) \in 0 .. Word - 1 /\ CellsOf(v, e) <= Room(v, e)
         /\ e.dir => CellsOf(v, e) = Room(v, e) /\ e.chain # << >> /\ Room(v, e) # 0
         /\ ~e.dir => CellsOf(v, e) = e.size
<1> USE FatAssumption
<1>1. Formatted(v) /\ Linked(v, e)
  BY MkfsAssumption DEF Formatted
<1>2. v.bs.spc \in Nat \ {0}
  BY <1>1 DEF Formatted
<1>3. /\ e.dir \in BOOLEAN /\ e.first \in Nat /\ e.size \in Nat
      /\ e.chain \in Seq(DOMAIN v.table)
  BY <1>1 DEF Linked
<1>4. Len(e.chain) \in Nat
  BY <1>3
<1>5. Len(e.chain) * v.bs.spc \in Nat
  BY <1>2, <1>4
<1>6. Room(v, e) \in Nat
  BY <1>5 DEF Room
<1>7. /\ e.dir => e.chain # << >>
      /\ ~e.dir => e.size <= Room(v, e)
      /\ CellsOf(v, e) < Word
  BY <1>1 DEF Linked
<1>8. e.dir => Room(v, e) # 0
  <2>1. e.dir => Len(e.chain) # 0
    BY <1>3, <1>7
  <2>2. PICK z \in Nat : z = 0
    OBVIOUS
  <2>3. (z \div Cells) \div v.bs.spc = 0
    BY <1>2, <2>2
  <2>4. z < Len(e.chain) * v.bs.spc * Cells <=> (z \div Cells) \div v.bs.spc < Len(e.chain)
    BY <1>2, <1>4, InRoom
  <2> QED BY <1>4, <1>6, <2>1, <2>2, <2>3, <2>4 DEF Room
<1> QED BY <1>2, <1>3, <1>4, <1>6, <1>7, <1>8 DEF CellsOf

(* The clusters of an entry are of the volume, linked in its FAT. *)
LEMMA ChainIs ==
  ASSUME NEW v \in Volumes, NEW n \in DOMAIN v.entry, NEW e, e = v.entry[n],
         NEW i \in 1 .. Len(e.chain)
  PROVE  /\ e.chain[i] \in DOMAIN v.table /\ e.chain[i] \in Nat
         /\ v.table[e.chain[i]] = IF i = Len(e.chain) THEN End ELSE e.chain[i + 1]
         /\ \A s \in 0 .. v.bs.spc - 1 : LbaOf(v, e.chain[i]) + s \in DOMAIN v.sectors
         /\ i = 1 => e.first = e.chain[i]
<1>1. Formatted(v) /\ Linked(v, e)
  BY MkfsAssumption DEF Formatted
<1>2. e.chain \in Seq(DOMAIN v.table) /\ DOMAIN v.table \subseteq Nat /\ Len(e.chain) \in Nat
  BY <1>1, SMTT(20) DEF Linked, Formatted
<1>3. i \in DOMAIN e.chain /\ e.chain # << >> /\ e.chain[i] \in DOMAIN v.table
  BY <1>2
<1> QED BY <1>1, <1>2, <1>3 DEF Linked

(* A cell of an entry lies in a sector of one of its clusters. *)
LEMMA CellIs ==
  ASSUME NEW v \in Volumes, NEW n \in DOMAIN v.entry, NEW e, e = v.entry[n],
         NEW i \in Nat, i < CellsOf(v, e)
  PROVE  /\ ((i \div Cells) \div v.bs.spc) + 1 \in 1 .. Len(e.chain)
         /\ SectorOf(v, i) \in 0 .. v.bs.spc - 1
         /\ LbaOf(v, ClusterOf(v, e, i)) + SectorOf(v, i) \in DOMAIN v.sectors
         /\ v.sectors[LbaOf(v, ClusterOf(v, e, i)) + SectorOf(v, i)] \in Values
         /\ CellAt(v, e.chain, i + 1) = v.sectors[LbaOf(v, ClusterOf(v, e, i)) + SectorOf(v, i)][(i % Cells) + 1]
<1>1. /\ v.bs.spc \in Nat \ {0} /\ Len(e.chain) \in Nat
      /\ CellsOf(v, e) \in Nat /\ Room(v, e) \in Nat /\ CellsOf(v, e) <= Room(v, e)
  BY EntryTyped
<1>2. i < Len(e.chain) * v.bs.spc * Cells
  BY <1>1 DEF Room
<1>3. PICK q \in Nat : q = (i \div Cells) \div v.bs.spc /\ q < Len(e.chain)
  BY <1>1, <1>2, InRoom
<1>4. SectorOf(v, i) \in 0 .. v.bs.spc - 1
  BY <1>1, InRoom DEF SectorOf
<1>5. q + 1 \in 1 .. Len(e.chain) /\ ClusterOf(v, e, i) = e.chain[q + 1]
  BY <1>1, <1>3 DEF ClusterOf
<1>6. LbaOf(v, ClusterOf(v, e, i)) + SectorOf(v, i) \in DOMAIN v.sectors
  BY <1>4, <1>5, ChainIs
<1>7. v.sectors[LbaOf(v, ClusterOf(v, e, i)) + SectorOf(v, i)] \in Values
  BY <1>6, MkfsAssumption DEF Formatted, Values, Datum
<1>8. i + 1 - 1 = i
  OBVIOUS
<1>9. CellAt(v, e.chain, i + 1) = v.sectors[LbaOf(v, ClusterOf(v, e, i)) + SectorOf(v, i)][(i % Cells) + 1]
  <2>1. PICK j : j = i + 1
    OBVIOUS
  <2>2. j - 1 = i
    BY <2>1, <1>8
  <2>3. CellAt(v, e.chain, j) =
          v.sectors[LbaOf(v, e.chain[(((j - 1) \div Cells) \div v.bs.spc) + 1])
                      + (((j - 1) \div Cells) % v.bs.spc)][((j - 1) % Cells) + 1]
    BY Zenon DEF CellAt
  <2>4. CellAt(v, e.chain, j) = v.sectors[LbaOf(v, ClusterOf(v, e, i)) + SectorOf(v, i)][(i % Cells) + 1]
    BY ONLY <2>2, <2>3, Zenon DEF ClusterOf, SectorOf
  <2> QED BY <2>1, <2>4
<1> QED BY <1>3, <1>4, <1>5, <1>6, <1>7, <1>9

(* The buffer of a handle holds the rest of its sector. *)
LEMMA BufferHas ==
  ASSUME NEW v \in Volumes, NEW n \in DOMAIN v.entry, NEW e, e = v.entry[n],
         NEW f, At(v, f, e), f.pos < CellsOf(v, e), NEW k \in 1 .. Cells
  PROVE  CellAt(v, e.chain, f.pos - (f.pos % Cells) + k) = f.buffer[k]
<1> USE FatAssumption
<1>1. CellsOf(v, e) \in Nat /\ v.bs.spc \in Nat \ {0} /\ Len(e.chain) \in Nat
  BY EntryTyped
<1>2. PICK p \in Nat : p = f.pos /\ p < CellsOf(v, e)
  BY <1>1 DEF At
<1>3. PICK q \in Nat, r \in Nat : q = p \div Cells /\ r = p % Cells /\ p = Cells * q + r /\ r < Cells
  OBVIOUS
<1>4. PICK j \in Nat : k = j + 1 /\ j < Cells
  <2>1. k - 1 \in Nat
    OBVIOUS
  <2> QED BY <2>1
<1>5. PICK i \in Nat : i = Cells * q + j
  OBVIOUS
<1>6. i \div Cells = q /\ i % Cells = j
  BY ONLY <1>4, <1>5, DivIs, Cells \in Nat \ {0}, q \in Nat, j \in Nat, i \in Nat
<1>7. p - (p % Cells) + k = i + 1
  <2>1. Cells * q \in Nat
    OBVIOUS
  <2> QED BY <1>3, <1>4, <1>5, <2>1
<1>8. CellAt(v, e.chain, i + 1) = v.sectors[LbaOf(v, ClusterOf(v, e, p)) + SectorOf(v, p)][j + 1]
  <2>1. PICK l : l = i + 1
    OBVIOUS
  <2>2. l - 1 = i
    BY <2>1
  <2>3. CellAt(v, e.chain, l) =
          v.sectors[LbaOf(v, e.chain[(((l - 1) \div Cells) \div v.bs.spc) + 1])
                      + (((l - 1) \div Cells) % v.bs.spc)][((l - 1) % Cells) + 1]
    BY Zenon DEF CellAt
  <2>4. (l - 1) \div Cells = p \div Cells /\ (l - 1) % Cells = j
    BY <2>2, <1>3, <1>6
  <2>5. CellAt(v, e.chain, l) = v.sectors[LbaOf(v, ClusterOf(v, e, p)) + SectorOf(v, p)][j + 1]
    BY ONLY <2>3, <2>4, Zenon DEF ClusterOf, SectorOf
  <2> QED BY <2>1, <2>5
<1>9. f.buffer = v.sectors[LbaOf(v, ClusterOf(v, e, p)) + SectorOf(v, p)]
  BY <1>2, Zenon DEF At
<1> QED BY <1>2, <1>4, <1>7, <1>8, <1>9

--------------------------------------------------------------------------------
(* The FAT and its cache. *)

(* What is read from the FAT is a part of it. *)
LEMMA ReadFatIs ==
  ASSUME vol \in Volumes, NEW s \in Nat
  PROVE  CacheRight(vol, [pos |-> s, entries |-> FAT_ReadFat(s)])
<1> USE FatAssumption
<1> DEFINE size == CacheSize * FatBytes
           k(c) == FatIndexOf(vol, c) - s * FatBytes
<1>1. Formatted(vol) /\ s * FatBytes \in Nat /\ size \in Nat
  BY MkfsAssumption
<1>2. SUFFICES ASSUME NEW c \in DOMAIN vol.table, k(c) \in 0 .. size - 1
               PROVE  Follows(vol, c, Cached(s, k(c)))
  BY DEF CacheRight, FAT_ReadFat
<1>3. /\ \A d \in DOMAIN vol.table : FatIndexOf(vol, d) \in Nat
      /\ \A d \in DOMAIN vol.table : FatIndexOf(vol, d) = FatIndexOf(vol, c) => d = c
  BY <1>1, LayoutIs
<1>4. s * FatBytes + k(c) = FatIndexOf(vol, c)
  BY <1>1, <1>3
<1>5. {d \in DOMAIN vol.table : FatIndex(d) = s * FatBytes + k(c)} = {c}
  BY <1>3, <1>4 DEF FatIndex
<1>6. (CHOOSE d \in {c} : TRUE) = c
  OBVIOUS
<1>7. ASSUME Layout.type = 12, k(c) = size - 1 PROVE Straddles(vol, c)
  <2>1. PICK x \in Nat : x = FatIndexOf(vol, c)
    BY <1>3
  <2>2. PICK y \in Nat, a \in Nat, z \in Nat : y = x + 1 /\ a = s + CacheSize /\ z = 0
    OBVIOUS
  <2>3. y = FatBytes * a + z /\ z < FatBytes
    <3>1. FatBytes * a = s * FatBytes + size
      BY <2>2
    <3> QED BY <1>1, <1>7, <2>1, <2>2, <3>1
  <2>4. y % FatBytes = z
    BY <2>3, DivIs
  <2>5. x >= size - 1
    BY <1>1, <1>7, <2>1
  <2> QED BY <1>7, <2>1, <2>2, <2>4, <2>5 DEF Straddles, Layout
<1> HIDE DEF k, size
<1>8. Cached(s, k(c)) = IF Layout.type = 12 /\ k(c) = size - 1 THEN Wild
                        ELSE Decoded(vol.table[c])
  BY <1>5, <1>6 DEF Cached, size
<1> QED BY <1>7, <1>8 DEF Follows, Decoded, Layout

(* With a disk that can be read, FAT_NextCluster follows the chain. *)
LEMMA NextClusterIs ==
  ASSUME vol \in Volumes, Errors = FALSE, CacheRight(vol, cache), NEW c \in DOMAIN vol.table,
         NEW s \in FAT_NextCluster(c)
  PROVE  CacheRight(vol, s.cache) /\ Follows(vol, c, s.next)
<1> USE FatAssumption
<1> DEFINE t == FatIndex(c) \div FatBytes
           size == CacheSize * FatBytes
<1>1. FatIndex(c) \in Nat
  BY MkfsAssumption, LayoutIs DEF FatIndex
<1>2. PICK x \in Nat : x = FatIndex(c)
  BY <1>1
<1>3. PICK q \in Nat, r \in Nat : q = x \div FatBytes /\ r = x % FatBytes /\ x = FatBytes * q + r /\ r < FatBytes
  OBVIOUS
<1>4. t = q
  BY <1>2, <1>3
<1>5. PICK m : /\ s = [next |-> IF FatIndex(c) - m.pos * FatBytes \in DOMAIN m.entries
                               THEN m.entries[FatIndex(c) - m.pos * FatBytes] ELSE Wild,
                       cache |-> m]
               /\ \/ InCache(t) /\ m = cache
                  \/ ~InCache(t) /\ m = [pos |-> t, entries |-> FAT_ReadFat(t)]
  BY DEF FAT_NextCluster
<1>6. m.pos \in Nat /\ CacheRight(vol, m)
  <2>1. CASE InCache(t) /\ m = cache
    <3>1. cache.pos >= 0
      BY <2>1 DEF InCache
    <3>2. cache # NoCache
      BY <3>1 DEF NoCache
    <3> QED BY <2>1, <3>2 DEF CacheRight
  <2>2. CASE ~InCache(t) /\ m = [pos |-> t, entries |-> FAT_ReadFat(t)]
    BY <2>2, <1>4, ReadFatIs
  <2> QED BY <1>5, <2>1, <2>2
<1>7. m.pos <= q /\ q <= m.pos + CacheSize - 1
  BY <1>4, <1>5, <1>6 DEF InCache
<1>8. PICK p \in Nat : p = m.pos
  BY <1>6
<1>9. PICK k \in Int : k = x - p * FatBytes
  <2>1. p * FatBytes \in Nat
    OBVIOUS
  <2> QED BY <2>1
<1>10. k \in 0 .. size - 1
  <2>1. PICK d \in Nat : q = p + d
    <3>1. q - p \in Nat
      BY <1>7, <1>8
    <3> QED BY <3>1
  <2>2. PICK g \in Nat : CacheSize = d + 1 + g
    <3>1. CacheSize - (d + 1) \in Nat
      BY <1>7, <1>8, <2>1
    <3> QED BY <3>1
  <2>3. FatBytes * q = p * FatBytes + FatBytes * d /\ FatBytes * d \in Nat /\ p * FatBytes \in Nat
    BY <2>1
  <2>4. size = FatBytes * d + FatBytes + FatBytes * g /\ FatBytes * g \in Nat
    BY <2>2
  <2> QED BY <1>3, <1>9, <2>3, <2>4
<1>11. DOMAIN m.entries = 0 .. size - 1
       /\ \A d \in DOMAIN vol.table :
            FatIndexOf(vol, d) - m.pos * FatBytes \in DOMAIN m.entries
              => Follows(vol, d, m.entries[FatIndexOf(vol, d) - m.pos * FatBytes])
  <2>1. m # NoCache
    BY <1>6 DEF NoCache
  <2> QED BY <1>6, <2>1 DEF CacheRight
<1>12. FatIndexOf(vol, c) - m.pos * FatBytes = k /\ FatIndex(c) - m.pos * FatBytes = k
  BY <1>2, <1>8, <1>9 DEF FatIndex
<1>13. Follows(vol, c, m.entries[k])
  BY <1>10, <1>11, <1>12
<1>14. s.next = m.entries[k] /\ s.cache = m
  BY <1>5, <1>10, <1>11, <1>12
<1> QED BY <1>6, <1>13, <1>14

(* A sector that is read is full; of the volume's it is its data. *)
LEMMA SectorIs ==
  ASSUME vol \in Volumes, NEW l, NEW b \in Sector(l)
  PROVE  /\ b \in Values \cup {<< >>}
         /\ Errors = FALSE /\ l \in DOMAIN vol.sectors => b = vol.sectors[l] /\ b \in Values
<1>1. \A x \in DOMAIN vol.sectors : vol.sectors[x] \in Values
  BY MkfsAssumption DEF Formatted, Values, Datum
<1>2. Foreign \in Values
  BY DEF Foreign, Values, Datum
<1> QED BY <1>1, <1>2 DEF Sector

(* A full sector is not an empty one. *)
LEMMA FullIs ==
  ASSUME NEW b \in Values
  PROVE  b # << >> /\ DOMAIN b = 1 .. Cells /\ b \in Seq(Datum) /\ Len(b) = Cells
<1>1. Cells \in Nat \ {0} /\ DOMAIN b = 1 .. Cells
  BY FatAssumption DEF Values
<1>2. DOMAIN << >> = {}
  OBVIOUS
<1>3. b \in Seq(Datum)
  BY <1>1, Z3 DEF Values
<1> QED BY <1>1, <1>2, <1>3

(* What RefillFile makes of a handle g: s is the next cluster, a the      *)
(* handle there.                                                           *)
Refills(g, r, s, a) ==
  /\ IF g.sector + 1 >= vol.bs.spc
     THEN s \in FAT_NextCluster(g.cluster) /\ a = [g EXCEPT !.cluster = s.next, !.sector = 0]
     ELSE s = [next |-> g.cluster, cache |-> cache]
            /\ a = [g EXCEPT !.cluster = s.next, !.sector = g.sector + 1]
  /\ \/ s.next = End /\ r = [file |-> [a EXCEPT !.size = g.pos], cache |-> s.cache, go |-> FALSE]
     \/ s.next # End /\ \E b \in Sector(FAT_ClusterToLba(s.next) + a.sector) : r = Refilled(a, b, s.cache)

(* What FAT_Read's refill of a file's buffer consists of. *)
LEMMA RefillShape ==
  ASSUME NEW g, NEW r \in RefillFile(g)
  PROVE  \E s, a : Refills(g, r, s, a)
<1> DEFINE last == g.sector + 1 >= vol.bs.spc
           after == IF last THEN FAT_NextCluster(g.cluster) ELSE {[next |-> g.cluster, cache |-> cache]}
           at(c) == [g EXCEPT !.cluster = c, !.sector = IF last THEN 0 ELSE @ + 1]
           refills(s) == IF s.next = End
                         THEN {[file |-> [at(End) EXCEPT !.size = g.pos], cache |-> s.cache, go |-> FALSE]}
                         ELSE {Refilled(at(s.next), b, s.cache)
                                 : b \in Sector(FAT_ClusterToLba(s.next) + at(s.next).sector)}
<1>1. r \in UNION {refills(s) : s \in after}
  BY Zenon DEF RefillFile
<1>2. PICK s \in after : r \in refills(s)
  BY <1>1, Zenon
<1>3. IF last THEN s \in FAT_NextCluster(g.cluster) /\ at(s.next) = [g EXCEPT !.cluster = s.next, !.sector = 0]
      ELSE s = [next |-> g.cluster, cache |-> cache]
             /\ at(s.next) = [g EXCEPT !.cluster = s.next, !.sector = g.sector + 1]
  BY <1>2
<1>4. \/ s.next = End /\ r = [file |-> [at(s.next) EXCEPT !.size = g.pos], cache |-> s.cache, go |-> FALSE]
      \/ s.next # End /\ \E b \in Sector(FAT_ClusterToLba(s.next) + at(s.next).sector) :
                           r = Refilled(at(s.next), b, s.cache)
  BY <1>2
<1> HIDE DEF at
<1> QED BY <1>3, <1>4 DEF Refills

(* The place in its chain one sector on, and where RefillFile goes. *)
LEMMA NextPlace ==
  ASSUME NEW spc \in Nat \ {0}, NEW p \in Nat, NEW take \in Nat, (p % Cells) + take = Cells,
         NEW q \in Nat, q = p \div Cells
  PROVE  /\ (p + take) \div Cells = q + 1 /\ (p + take) % Cells = 0
         /\ IF (q % spc) + 1 < spc
            THEN (q + 1) \div spc = q \div spc /\ (q + 1) % spc = (q % spc) + 1
            ELSE (q + 1) \div spc = (q \div spc) + 1 /\ (q + 1) % spc = 0
<1> USE FatAssumption
<1>1. (p % Cells) + take <= Cells /\ ~((p % Cells) + take < Cells)
  OBVIOUS
<1>2. (p + take) \div Cells = (p \div Cells) + 1 /\ (p + take) % Cells = 0
  BY <1>1, GoOn
<1>3. PICK d \in Nat : d = 1
  OBVIOUS
<1>4. q % spc \in 0 .. spc - 1
  OBVIOUS
<1>5. (q % spc) + d <= spc
  BY <1>3, <1>4
<1>6. IF (q % spc) + d < spc
      THEN (q + d) \div spc = q \div spc /\ (q + d) % spc = (q % spc) + d
      ELSE (q + d) \div spc = (q \div spc) + 1 /\ (q + d) % spc = 0
  BY ONLY <1>5, GoOn, spc \in Nat \ {0}, q \in Nat, d \in Nat
<1>7. IF (q % spc) + 1 < spc
      THEN (q + 1) \div spc = q \div spc /\ (q + 1) % spc = (q % spc) + 1
      ELSE (q + 1) \div spc = (q \div spc) + 1 /\ (q + 1) % spc = 0
  BY <1>3, <1>6
<1> QED BY <1>2, <1>7

(* The cluster and the sector RefillFile goes to, the end of a chain or of *)
(* the data aside.                                                         *)
Goes(v, e, p, c, s) ==
  IF p < CellsOf(v, e) THEN c = ClusterOf(v, e, p) /\ s = SectorOf(v, p)
  ELSE e.dir => c = End \/ (c = Wild /\ v.paths = DOMAIN v.files)

(* From the cell p, the last of its sector, the chain is followed. *)
LEMMA GoesIs ==
  ASSUME vol \in Volumes, WithinLimits(vol), Errors = FALSE, CacheRight(vol, cache),
         NEW n \in DOMAIN vol.entry, NEW e, e = vol.entry[n],
         NEW p \in Nat, NEW p2 \in Nat, p < CellsOf(vol, e), p2 <= CellsOf(vol, e),
         NEW take \in Nat, (p % Cells) + take = Cells, p2 = p + take,
         NEW s
  PROVE  IF SectorOf(vol, p) + 1 >= vol.bs.spc
         THEN s \in FAT_NextCluster(ClusterOf(vol, e, p)) =>
                CacheRight(vol, s.cache) /\ s.next \in Int /\ Goes(vol, e, p2, s.next, 0)
         ELSE Goes(vol, e, p2, ClusterOf(vol, e, p), SectorOf(vol, p) + 1)
<1> USE FatAssumption
<1>1. /\ vol.bs.spc \in Nat \ {0} /\ Len(e.chain) \in Nat /\ e.dir \in BOOLEAN
      /\ CellsOf(vol, e) \in Nat /\ Room(vol, e) \in Nat
      /\ e.dir => CellsOf(vol, e) = Room(vol, e)
  BY EntryTyped
<1>2. PICK spc \in Nat \ {0} : spc = vol.bs.spc
  BY <1>1
<1>3. PICK q \in Nat, u \in Nat, w \in Nat :
        q = p \div Cells /\ u = q \div spc /\ w = q % spc /\ w < spc
  <2>1. PICK q \in Nat : q = p \div Cells
    OBVIOUS
  <2>2. q \div spc \in Nat /\ q % spc \in 0 .. spc - 1
    OBVIOUS
  <2> QED BY <2>1, <2>2
<1>4. /\ p2 \div Cells = q + 1
      /\ IF w + 1 < spc THEN (q + 1) \div spc = u /\ (q + 1) % spc = w + 1
         ELSE (q + 1) \div spc = u + 1 /\ (q + 1) % spc = 0
  <2>1. q = p \div Cells /\ u = q \div spc /\ w = q % spc
    BY <1>3
  <2>2. /\ (p + take) \div Cells = q + 1 /\ (p + take) % Cells = 0
        /\ IF (q % spc) + 1 < spc
           THEN (q + 1) \div spc = q \div spc /\ (q + 1) % spc = (q % spc) + 1
           ELSE (q + 1) \div spc = (q \div spc) + 1 /\ (q + 1) % spc = 0
    BY ONLY <2>1, NextPlace, spc \in Nat \ {0}, p \in Nat, take \in Nat, (p % Cells) + take = Cells, q \in Nat
  <2> QED BY ONLY <2>1, <2>2, p2 = p + take
<1>5. /\ ClusterOf(vol, e, p) = e.chain[u + 1] /\ SectorOf(vol, p) = w
      /\ u + 1 \in 1 .. Len(e.chain)
  BY <1>2, <1>3, CellIs DEF ClusterOf, SectorOf
<1>6. ~(p2 < CellsOf(vol, e)) /\ e.dir => ~(p2 < Len(e.chain) * spc * Cells)
  BY <1>1, <1>2 DEF Room
<1>7. p2 < Len(e.chain) * spc * Cells <=> (p2 \div Cells) \div spc < Len(e.chain)
  BY <1>1, InRoom
<1>8. CASE w + 1 < spc
  <2>1. ClusterOf(vol, e, p2) = ClusterOf(vol, e, p) /\ SectorOf(vol, p2) = w + 1
    BY <1>2, <1>3, <1>4, <1>8 DEF ClusterOf, SectorOf
  <2>2. (p2 \div Cells) \div spc = u
    BY <1>4, <1>8
  <2>3. u < Len(e.chain)
    BY <1>1, <1>5
  <2>4. ~(~(p2 < CellsOf(vol, e)) /\ e.dir)
    BY <1>6, <1>7, <2>2, <2>3
  <2>5. ~(w + 1 >= vol.bs.spc)
    BY <1>2, <1>8
  <2> QED BY <1>5, <2>1, <2>4, <2>5 DEF Goes
<1>9. CASE ~(w + 1 < spc)
  <2>1. SUFFICES ASSUME s \in FAT_NextCluster(e.chain[u + 1])
                 PROVE  CacheRight(vol, s.cache) /\ s.next \in Int /\ Goes(vol, e, p2, s.next, 0)
    BY <1>2, <1>5, <1>9
  <2>2. /\ e.chain[u + 1] \in DOMAIN vol.table /\ e.chain[u + 1] \in Nat
        /\ vol.table[e.chain[u + 1]] = IF u + 1 = Len(e.chain) THEN End ELSE e.chain[u + 2]
    BY <1>5, ChainIs
  <2>3. /\ CacheRight(vol, s.cache)
        /\ s.next \in {Wild, Decoded(vol.table[e.chain[u + 1]])}
        /\ ~Straddles(vol, e.chain[u + 1]) => s.next = Decoded(vol.table[e.chain[u + 1]])
    <3>1. CacheRight(vol, s.cache) /\ Follows(vol, e.chain[u + 1], s.next)
      BY <2>1, <2>2, NextClusterIs
    <3> QED BY <3>1 DEF Follows, Decoded, Layout
  <2>4. u + 1 # Len(e.chain) => e.chain[u + 2] \in Nat
    <3>1. u + 1 # Len(e.chain) => u + 2 \in 1 .. Len(e.chain)
      BY <1>1, <1>5
    <3> QED BY <3>1, ChainIs
  <2>5. Decoded(vol.table[e.chain[u + 1]]) =
          IF u + 1 # Len(e.chain) THEN e.chain[u + 2]
          ELSE IF Layout.type = 32 THEN Wild ELSE End
    BY <2>2, <2>4 DEF Decoded, End
  <2>6. s.next \in Int
    BY <2>3, <2>4, <2>5 DEF End, Wild
  <2>7. /\ vol.paths # DOMAIN vol.files => Layout.type # 32
        /\ u + 1 # Len(e.chain) \/ (e.dir /\ vol.paths # DOMAIN vol.files) => ~Straddles(vol, e.chain[u + 1])
    <3>1. u + 1 \in DOMAIN e.chain
      BY <1>5, EntryTyped
    <3>2. u + 1 # Len(e.chain) => u + 1 < Len(e.chain)
      <4>1. Len(e.chain) \in Nat /\ u + 1 \in 1 .. Len(e.chain)
        BY <1>1, <1>5
      <4> QED BY ONLY <4>1, u \in Nat
    <3> QED BY <3>1, <3>2 DEF WithinLimits, Layout
  <2>8. CASE p2 < CellsOf(vol, e)
    <3>1. /\ ClusterOf(vol, e, p2) = e.chain[u + 2] /\ SectorOf(vol, p2) = 0
      <4>1. (p2 \div Cells) \div spc = u + 1 /\ (p2 \div Cells) % spc = 0
        BY <1>4, <1>9
      <4>2. (u + 1) + 1 = u + 2
        OBVIOUS
      <4> QED BY <1>2, <4>1, <4>2 DEF ClusterOf, SectorOf
    <3>2. u + 1 # Len(e.chain)
      <4>1. (p2 \div Cells) \div spc + 1 \in 1 .. Len(e.chain)
        BY <2>8, <1>2, CellIs
      <4>2. (p2 \div Cells) \div spc = u + 1
        BY <1>4, <1>9
      <4> QED BY <1>1, <4>1, <4>2
    <3>3. s.next = e.chain[u + 2]
      BY <2>3, <2>5, <2>7, <3>2
    <3> QED BY <2>3, <2>6, <2>8, <3>1, <3>3 DEF Goes
  <2>9. CASE ~(p2 < CellsOf(vol, e))
    <3>1. e.dir => u + 1 = Len(e.chain)
      <4>1. (p2 \div Cells) \div spc = u + 1
        BY <1>4, <1>9
      <4> QED BY <1>1, <1>5, <1>6, <1>7, <2>9, <4>1
    <3>2. e.dir => s.next \in {Wild, End}
      BY <2>3, <2>5, <3>1
    <3>3. e.dir /\ vol.paths # DOMAIN vol.files => s.next = End
      BY <2>3, <2>5, <2>7, <3>1
    <3> QED BY <2>3, <2>6, <2>9, <3>2, <3>3 DEF Goes
  <2> QED BY <2>8, <2>9
<1> QED BY <1>8, <1>9

(* A handle f goes from its position to p2, the end of its sector: it is g. *)
UsesUp(v, f, e, take, p2, g) ==
  /\ At(v, f, e) /\ f.pos < CellsOf(v, e) /\ p2 <= CellsOf(v, e)
  /\ (f.pos % Cells) + take = Cells /\ p2 = f.pos + take
  /\ g = [f EXCEPT !.pos = p2]

(* It is refreshed. *)
Refreshed(v, e, p2, r) ==
  /\ r.file \in HandleType(v) /\ At(v, r.file, e) /\ r.file.pos = p2
  /\ CacheRight(v, r.cache) /\ r.go \in BOOLEAN
  /\ p2 < CellsOf(v, e) => r.go

(* A handle that has used up its buffer is at its next sector, or at the   *)
(* end of its data.                                                        *)
LEMMA RefillIs ==
  ASSUME vol \in Volumes, WithinLimits(vol), Errors = FALSE, CacheRight(vol, cache),
         NEW n \in DOMAIN vol.entry, NEW e, e = vol.entry[n],
         NEW f \in HandleType(vol), NEW take \in Nat, NEW p2 \in Nat,
         NEW g, UsesUp(vol, f, e, take, p2, g), NEW r \in RefillFile(g)
  PROVE  Refreshed(vol, e, p2, r)
<1> USE FatAssumption
<1>16. SUFFICES /\ r.file \in HandleType(vol) /\ At(vol, r.file, e) /\ r.file.pos = p2
                /\ CacheRight(vol, r.cache) /\ r.go \in BOOLEAN
                /\ p2 < CellsOf(vol, e) => r.go
  BY DEF Refreshed
<1>15. /\ At(vol, f, e) /\ f.pos < CellsOf(vol, e) /\ p2 <= CellsOf(vol, e)
       /\ (f.pos % Cells) + take = Cells /\ p2 = f.pos + take
       /\ g = [f EXCEPT !.pos = p2]
  BY DEF UsesUp
<1>1. /\ vol.bs.spc \in Nat \ {0} /\ e.dir \in BOOLEAN /\ e.first \in Nat
      /\ CellsOf(vol, e) \in 0 .. Word - 1
      /\ e.dir => CellsOf(vol, e) = Room(vol, e)
      /\ ~e.dir => CellsOf(vol, e) = e.size
  BY EntryTyped
<1>2. /\ g.pos = p2 /\ g.buffer = f.buffer /\ g.size = f.size /\ g.dir = f.dir /\ g.open = f.open
      /\ g.first = f.first /\ g.cluster = f.cluster /\ g.sector = f.sector
      /\ g \in HandleType(vol)
  <2>1. p2 \in 0 .. Word - 1
    BY <1>1, <1>15
  <2> QED BY <1>15, <2>1 DEF HandleType
<1>3. /\ f.open /\ f.first = e.first /\ f.dir = e.dir /\ f.buffer \in Values
      /\ e.dir => f.size = 0
      /\ ~e.dir => f.size = e.size
      /\ f.cluster = ClusterOf(vol, e, f.pos) /\ f.sector = SectorOf(vol, f.pos)
      /\ f.pos \in Nat
  BY <1>1, <1>15 DEF At
<1>14. PICK s, a : Refills(g, r, s, a)
  BY RefillShape
<1>4. /\ IF g.sector + 1 >= vol.bs.spc
         THEN s \in FAT_NextCluster(g.cluster) /\ a = [g EXCEPT !.cluster = s.next, !.sector = 0]
         ELSE s = [next |-> g.cluster, cache |-> cache]
              /\ a = [g EXCEPT !.cluster = s.next, !.sector = g.sector + 1]
      /\ \/ s.next = End /\ r = [file |-> [a EXCEPT !.size = g.pos], cache |-> s.cache, go |-> FALSE]
         \/ s.next # End /\ \E b \in Sector(FAT_ClusterToLba(s.next) + a.sector) : r = Refilled(a, b, s.cache)
  BY <1>14 DEF Refills
<1>5. PICK p \in Nat : p = f.pos
  BY <1>3
<1>6. IF SectorOf(vol, p) + 1 >= vol.bs.spc
      THEN s \in FAT_NextCluster(ClusterOf(vol, e, p)) =>
             CacheRight(vol, s.cache) /\ s.next \in Int /\ Goes(vol, e, p2, s.next, 0)
      ELSE Goes(vol, e, p2, ClusterOf(vol, e, p), SectorOf(vol, p) + 1)
  <2>1. p < CellsOf(vol, e) /\ (p % Cells) + take = Cells /\ p2 = p + take
    BY <1>5, <1>15
  <2> QED BY <1>15, <2>1, GoesIs
<1>7. /\ CacheRight(vol, s.cache) /\ s.next \in Int
      /\ a = [g EXCEPT !.cluster = a.cluster, !.sector = a.sector]
      /\ a.cluster = s.next /\ a.sector \in 0 .. vol.bs.spc - 1 /\ a \in HandleType(vol)
      /\ Goes(vol, e, p2, a.cluster, a.sector)
  <2>1. g.sector \in 0 .. vol.bs.spc - 1 /\ g.cluster \in Int
    BY <1>2 DEF HandleType
  <2>2. g.sector = SectorOf(vol, p) /\ g.cluster = ClusterOf(vol, e, p)
    BY <1>2, <1>3, <1>5
  <2>3. CASE g.sector + 1 >= vol.bs.spc
    <3>1. s \in FAT_NextCluster(g.cluster) /\ a = [g EXCEPT !.cluster = s.next, !.sector = 0]
      BY <1>4, <2>3
    <3>2. CacheRight(vol, s.cache) /\ s.next \in Int /\ Goes(vol, e, p2, s.next, 0)
      BY <1>6, <2>2, <2>3, <3>1
    <3>3. a.cluster = s.next /\ a.sector = 0 /\ a \in HandleType(vol)
      <4>1. 0 \in 0 .. vol.bs.spc - 1
        BY <1>1
      <4> QED BY <1>2, <3>1, <3>2, <4>1 DEF HandleType
    <3>4. a = [g EXCEPT !.cluster = a.cluster, !.sector = a.sector]
      BY <3>1, <3>3
    <3> QED BY <1>1, <3>2, <3>3, <3>4
  <2>4. CASE ~(g.sector + 1 >= vol.bs.spc)
    <3>1. s = [next |-> g.cluster, cache |-> cache] /\ a = [g EXCEPT !.cluster = s.next, !.sector = g.sector + 1]
      BY <1>4, <2>4
    <3>2. Goes(vol, e, p2, g.cluster, g.sector + 1)
      BY <1>6, <2>2, <2>4
    <3>3. s.next = g.cluster /\ s.cache = cache /\ g.sector + 1 \in 0 .. vol.bs.spc - 1
      BY <1>1, <2>1, <2>4, <3>1
    <3>4. /\ a.cluster = s.next /\ a.sector = g.sector + 1 /\ a \in HandleType(vol)
      BY <1>2, <2>1, <3>1, <3>3 DEF HandleType
    <3>5. a = [g EXCEPT !.cluster = a.cluster, !.sector = a.sector]
      BY <3>1, <3>4
    <3> QED BY <2>1, <3>2, <3>3, <3>4, <3>5
  <2> QED BY <2>3, <2>4
<1>8. /\ a.pos = p2 /\ a.buffer = f.buffer /\ a.size = f.size /\ a.dir = f.dir /\ a.open = f.open
      /\ a.first = f.first
  BY <1>2, <1>7 DEF HandleType
<1>9. p2 < CellsOf(vol, e) =>
        /\ s.next \in Nat /\ s.next = ClusterOf(vol, e, p2) /\ a.sector = SectorOf(vol, p2)
        /\ LbaOf(vol, s.next) + a.sector \in DOMAIN vol.sectors
  <2>1. SUFFICES ASSUME p2 < CellsOf(vol, e)
                 PROVE  /\ s.next \in Nat /\ s.next = ClusterOf(vol, e, p2) /\ a.sector = SectorOf(vol, p2)
                        /\ LbaOf(vol, s.next) + a.sector \in DOMAIN vol.sectors
    OBVIOUS
  <2>2. s.next = ClusterOf(vol, e, p2) /\ a.sector = SectorOf(vol, p2)
    BY <1>7, <2>1 DEF Goes
  <2>3. LbaOf(vol, ClusterOf(vol, e, p2)) + SectorOf(vol, p2) \in DOMAIN vol.sectors
    BY <2>1, CellIs
  <2>4. PICK i \in 1 .. Len(e.chain) : ClusterOf(vol, e, p2) = e.chain[i]
    BY <2>1, CellIs DEF ClusterOf
  <2>5. e.chain[i] \in Nat
    BY ChainIs
  <2> QED BY <2>2, <2>3, <2>4, <2>5
<1>10. CASE s.next = End
  <2>1. r.file = [a EXCEPT !.size = p2] /\ r.cache = s.cache /\ r.go = FALSE
    BY <1>2, <1>4, <1>10
  <2>2. p2 = CellsOf(vol, e)
    BY <1>1, <1>9, <1>10, <1>15 DEF End
  <2>3. /\ r.file \in HandleType(vol) /\ r.file.pos = p2 /\ r.file.size = p2
        /\ r.file.open = f.open /\ r.file.first = f.first /\ r.file.dir = f.dir /\ r.file.buffer = f.buffer
    BY <1>7, <1>8, <2>1 DEF HandleType
  <2>4. At(vol, r.file, e)
    <3>1. p2 \in 0 .. CellsOf(vol, e) /\ ~(p2 < CellsOf(vol, e))
      BY <1>1, <2>2
    <3>2. e.dir => r.file.size = r.file.pos /\ r.file.pos = Room(vol, e)
      BY <1>1, <2>2, <2>3
    <3>3. ~e.dir => r.file.size = e.size
      BY <1>1, <2>2, <2>3
    <3> QED BY <1>3, <2>3, <3>1, <3>2, <3>3 DEF At
  <2>5. ~(p2 < CellsOf(vol, e))
    BY <1>1, <2>2
  <2> QED BY <1>7, <2>1, <2>3, <2>4, <2>5
<1>11. CASE s.next # End
  <2>1. PICK b \in Sector(FAT_ClusterToLba(s.next) + a.sector) : r = Refilled(a, b, s.cache)
    BY <1>4, <1>11
  <2>2. b \in Values \cup {<< >>}
    BY <2>1, SectorIs
  <2>3. r.file = IF b = << >> THEN a ELSE [a EXCEPT !.buffer = b]
    BY <2>1 DEF Refilled
  <2>4. r.cache = s.cache /\ r.go = (b # << >>)
    BY <2>1 DEF Refilled
  <2>5. /\ r.file \in HandleType(vol) /\ r.file.pos = p2 /\ r.file.size = f.size
        /\ r.file.open = f.open /\ r.file.first = f.first /\ r.file.dir = f.dir
        /\ r.file.cluster = a.cluster /\ r.file.sector = a.sector
        /\ r.file.buffer = IF b = << >> THEN f.buffer ELSE b
    <3>1. CASE b = << >>
      BY <1>7, <1>8, <2>3, <3>1
    <3>2. CASE b # << >>
      <4>1. r.file = [a EXCEPT !.buffer = b]
        BY <2>3, <3>2
      <4>2. r.file \in HandleType(vol)
        BY <1>7, <2>2, <4>1 DEF HandleType
      <4>3. /\ r.file.pos = p2 /\ r.file.size = f.size /\ r.file.buffer = b
            /\ r.file.open = f.open /\ r.file.first = f.first /\ r.file.dir = f.dir
            /\ r.file.cluster = a.cluster /\ r.file.sector = a.sector
        BY <1>7, <1>8, <4>1 DEF HandleType
      <4> QED BY <3>2, <4>2, <4>3
    <3> QED BY <3>1, <3>2
  <2>6. r.file.buffer \in Values
    BY <1>3, <2>2, <2>5
  <2>7. CASE p2 < CellsOf(vol, e)
    <3>1. FAT_ClusterToLba(s.next) = LbaOf(vol, s.next)
      BY <1>9, <2>7 DEF FAT_ClusterToLba, Wild
    <3>2. FAT_ClusterToLba(s.next) + a.sector \in DOMAIN vol.sectors
      BY <1>9, <2>7, <3>1
    <3>3. b = vol.sectors[LbaOf(vol, s.next) + a.sector] /\ b \in Values
      BY <3>1, <3>2, SectorIs
    <3>4. b # << >>
      BY <3>3, FullIs
    <3>5. r.file.buffer = vol.sectors[LbaOf(vol, r.file.cluster) + r.file.sector]
      BY <1>7, <2>5, <3>3, <3>4
    <3>6. r.file.cluster = ClusterOf(vol, e, p2) /\ r.file.sector = SectorOf(vol, p2)
      BY <1>7, <1>9, <2>5, <2>7
    <3>7. e.dir => r.file.size = 0 /\ p2 # Room(vol, e)
      BY <1>1, <1>3, <2>5, <2>7
    <3>8. ~e.dir => r.file.size = e.size
      BY <1>3, <2>5
    <3>9. p2 \in 0 .. CellsOf(vol, e)
      BY <1>1, <2>7
    <3>10. At(vol, r.file, e)
      BY <1>3, <2>5, <2>6, <3>5, <3>6, <3>7, <3>8, <3>9 DEF At
    <3> QED BY <1>7, <2>4, <2>5, <3>4, <3>10
  <2>8. CASE ~(p2 < CellsOf(vol, e))
    <3>1. e.dir => vol.paths = DOMAIN vol.files
      BY <1>7, <1>11, <2>8 DEF Goes
    <3>2. e.dir => r.file.size = 0
      BY <1>3, <2>5
    <3>3. ~e.dir => r.file.size = e.size
      BY <1>3, <2>5
    <3>4. p2 \in 0 .. CellsOf(vol, e)
      BY <1>1, <1>15
    <3>5. At(vol, r.file, e)
      BY <1>3, <2>5, <2>6, <2>8, <3>1, <3>2, <3>3, <3>4 DEF At
    <3> QED BY <1>7, <2>4, <2>5, <2>8, <3>5
  <2> QED BY <2>7, <2>8
<1> QED BY <1>10, <1>11

--------------------------------------------------------------------------------
(* The handles. *)

(* The handles are told from each other. *)
LEMMA HandlesAre ==
  Handles \subseteq Nat /\ ROOT \notin Handles /\ NULL \notin Handles /\ ROOT # NULL
BY FatAssumption DEF Handles, ROOT, NULL

(* A volume within the limits: its root directory, what starts an entry,   *)
(* and where a path does.                                                  *)
LEMMA LimitsAre ==
  ASSUME NEW v \in Volumes, WithinLimits(v)
  PROVE  /\ LayoutOf(v).root \in DOMAIN v.sectors /\ LayoutOf(v).root \in Nat
         /\ v.sectors[LayoutOf(v).root] \in Values
         /\ v.bs.spc \in Nat \ {0} /\ v.bs.entries \in 0 .. Word - 1
         /\ \A n \in DOMAIN v.entry : LbaOf(v, v.entry[n].first) \in DOMAIN v.sectors
         /\ \A p \in v.paths :
              /\ p \in Seq(DOMAIN ShortName) /\ p # << >>
              /\ \E k \in 1 .. Cells - 1 :
                   /\ v.sectors[LayoutOf(v).root][k] = ShortName[p[1]]
                   /\ v.bs.entries = 0 \/ k <= v.bs.entries
<1>1. Formatted(v)
  BY MkfsAssumption
<1>2. /\ LayoutOf(v).root \in DOMAIN v.sectors /\ DOMAIN v.sectors \subseteq Nat
      /\ v.sectors[LayoutOf(v).root] \in Values
  BY <1>1 DEF Formatted, Values, Datum
<1>3. v.bs.spc \in Nat \ {0} /\ v.bs.entries \in 0 .. Word - 1
  BY <1>1 DEF Formatted
<1>4. \A n \in DOMAIN v.entry : LbaOf(v, v.entry[n].first) \in DOMAIN v.sectors
  BY DEF WithinLimits
<1>5. \A p \in v.paths : p \in Seq(DOMAIN ShortName) /\ p # << >>
  BY <1>1 DEF Formatted
<1>6. \A p \in v.paths :
        \E k \in 1 .. Cells - 1 :
          /\ v.sectors[LayoutOf(v).root][k] = ShortName[p[1]]
          /\ v.bs.entries = 0 \/ k <= v.bs.entries
  BY DEF WithinLimits
<1> QED BY <1>2, <1>3, <1>4, <1>5, <1>6

(* After FAT_Initialize. *)
LEMMA FInvInit ==
  ASSUME Init, WithinLimits(vol)
  PROVE  FInv
<1> USE FatAssumption, HandlesAre
<1>1. vol \in Volumes
  BY DEF Init
<1>2. /\ LayoutOf(vol).root \in Nat /\ vol.sectors[LayoutOf(vol).root] \in Values
      /\ vol.bs.spc \in Nat \ {0} /\ vol.bs.entries \in Nat
  BY <1>1, LimitsAre
<1>3. /\ pc = "idle" /\ cur = ROOT /\ left = 0 /\ out = << >> /\ path = << >> /\ cache = NoCache
  BY DEF Init
<1>9. file[ROOT] = [buffer |-> vol.sectors[LayoutOf(vol).root], pos |-> 0, size |-> vol.bs.entries,
                    dir |-> TRUE, open |-> TRUE, first |-> LayoutOf(vol).root,
                    cluster |-> LayoutOf(vol).root, sector |-> 0]
  BY DEF Init, Layout, NoFile
<1>10. \A h \in Handles : file[h] = NoFile
  BY DEF Init
<1>4. file \in [Handles \cup {ROOT} -> HandleType(vol)]
  <2>1. NoFile \in HandleType(vol)
    BY <1>2 DEF NoFile, HandleType
  <2>2. file[ROOT] \in HandleType(vol)
    <3>1. 0 \in 0 .. Word - 1 /\ 0 \in 0 .. vol.bs.spc - 1 /\ LayoutOf(vol).root \in Int
      BY <1>2
    <3> QED BY <1>2, <1>9, <3>1 DEF HandleType
  <2> QED BY <2>1, <2>2, <1>10 DEF Init
<1>5. RootIs(vol, file[ROOT])
  BY <1>9 DEF RootIs
<1>6. \A h \in Handles : ~file[h].open
  BY DEF Init, NoFile
<1>7. Typed
  BY <1>1, <1>3, <1>4 DEF Typed, Searching
<1>8. OpenFiles /\ SearchInv /\ ReadInv /\ CacheRight(vol, cache)
  BY <1>3, <1>6 DEF OpenFiles, SearchInv, ReadInv, Searching, CacheRight
<1>11. RootRests
  BY <1>9 DEF RootRests
<1> QED BY <1>5, <1>7, <1>8, <1>11 DEF FInv

(* A handle moves on in its buffer. *)
LEMMA MovedIs ==
  ASSUME NEW v \in Volumes, NEW n \in DOMAIN v.entry, NEW e, e = v.entry[n],
         NEW f \in HandleType(v), At(v, f, e), f.pos < CellsOf(v, e),
         NEW p2 \in Nat, p2 <= CellsOf(v, e),
         NEW take \in Nat, (f.pos % Cells) + take < Cells, p2 = f.pos + take,
         NEW g, g = [f EXCEPT !.pos = p2]
  PROVE  g \in HandleType(v) /\ At(v, g, e) /\ g.pos = p2
<1> USE FatAssumption
<1>1. /\ v.bs.spc \in Nat \ {0} /\ e.dir \in BOOLEAN /\ Len(e.chain) \in Nat
      /\ CellsOf(v, e) \in 0 .. Word - 1
      /\ e.dir => CellsOf(v, e) = Room(v, e)
      /\ ~e.dir => CellsOf(v, e) = e.size
  BY EntryTyped
<1>2. /\ g.pos = p2 /\ g.buffer = f.buffer /\ g.size = f.size /\ g.dir = f.dir /\ g.open = f.open
      /\ g.first = f.first /\ g.cluster = f.cluster /\ g.sector = f.sector
      /\ g \in HandleType(v)
  <2>1. p2 \in 0 .. Word - 1
    BY <1>1
  <2> QED BY <2>1 DEF HandleType
<1>3. /\ f.open /\ f.first = e.first /\ f.dir = e.dir /\ f.buffer \in Values
      /\ e.dir => f.size = 0
      /\ ~e.dir => f.size = e.size
      /\ f.cluster = ClusterOf(v, e, f.pos) /\ f.sector = SectorOf(v, f.pos)
      /\ f.buffer = v.sectors[LbaOf(v, f.cluster) + f.sector]
      /\ f.pos \in Nat
  BY <1>1 DEF At
<1>4. PICK p \in Nat : p = f.pos
  BY <1>3
<1>5. p2 \div Cells = p \div Cells
  <2>1. (p % Cells) + take < Cells /\ p2 = p + take
    BY <1>4
  <2>2. (p % Cells) + take <= Cells
    BY <2>1
  <2>3. (p + take) \div Cells = p \div Cells
    BY ONLY <2>1, <2>2, GoOn, Cells \in Nat \ {0}, p \in Nat, take \in Nat
  <2> QED BY <2>1, <2>3
<1>6. ClusterOf(v, e, p2) = ClusterOf(v, e, p) /\ SectorOf(v, p2) = SectorOf(v, p)
  BY <1>5 DEF ClusterOf, SectorOf
<1>7. e.dir => p2 # Room(v, e)
  <2>1. p < Len(e.chain) * v.bs.spc * Cells <=> (p \div Cells) \div v.bs.spc < Len(e.chain)
    BY <1>1, InRoom
  <2>2. p2 < Len(e.chain) * v.bs.spc * Cells <=> (p2 \div Cells) \div v.bs.spc < Len(e.chain)
    BY <1>1, InRoom
  <2>3. Room(v, e) = Len(e.chain) * v.bs.spc * Cells
    BY DEF Room
  <2>4. e.dir => p < Room(v, e)
    BY <1>1, <1>4
  <2>5. e.dir => p2 < Room(v, e)
    BY ONLY <2>1, <2>2, <2>3, <2>4, <1>5
  <2> QED BY <2>5
<1>8. p2 \in 0 .. CellsOf(v, e)
  BY <1>1
<1>9. g.cluster = ClusterOf(v, e, p2) /\ g.sector = SectorOf(v, p2)
  BY <1>2, <1>3, <1>4, <1>6
<1>10. At(v, g, e)
  BY <1>2, <1>3, <1>7, <1>8, <1>9 DEF At
<1> QED BY <1>2, <1>10

(* A step of a read in a handle of entry e. *)
StepTo(v, f, e, take, f2, o, o2, l, l2) ==
  /\ take \in 1 .. l /\ take <= Cells - (f.pos % Cells)
  /\ f2 \in HandleType(v) /\ At(v, f2, e) /\ f2.pos = f.pos + take
  /\ l2 = l - take
  /\ o2 = o \o SubSeq(f.buffer, (f.pos % Cells) + 1, (f.pos % Cells) + take)

(* Every step of FAT_Read is one of those. *)
LEMMA StepIs ==
  ASSUME vol \in Volumes, WithinLimits(vol), Errors = FALSE, CacheRight(vol, cache),
         NEW n \in DOMAIN vol.entry, NEW e, e = vol.entry[n],
         NEW f \in HandleType(vol), f = file[cur], At(vol, f, e),
         cur # ROOT, left \in Nat, left + f.pos <= CellsOf(vol, e), ReadStep
  PROVE  /\ CacheRight(vol, cache')
         /\ \E take, f2 : /\ StepTo(vol, f, e, take, f2, out, out', left, left')
                          /\ file' = [file EXCEPT ![cur] = f2]
<1> USE FatAssumption
<1>1. CellsOf(vol, e) \in 0 .. Word - 1
  BY EntryTyped
<1>2. PICK p \in Nat : p = f.pos
  BY DEF At
<1>3. PICK k \in Nat : k = p % Cells /\ k < Cells
  OBVIOUS
<1>4. PICK take \in Nat : take = LesserOf(left, Cells - k)
  <2>1. LesserOf(left, Cells - k) \in Nat
    BY <1>3 DEF LesserOf
  <2> QED BY <2>1
<1>5. take \in 1 .. left /\ take <= Cells - k /\ (take < Cells - k => take = left)
  <2>1. left > 0
    BY DEF ReadStep
  <2>2. take = IF left < Cells - k THEN left ELSE Cells - k
    BY <1>4 DEF LesserOf
  <2> QED BY <1>3, <2>1, <2>2
<1>6. PICK p2 \in Nat : p2 = p + take
  OBVIOUS
<1>7. p < CellsOf(vol, e) /\ p2 <= CellsOf(vol, e) /\ p2 = f.pos + take
  BY <1>1, <1>2, <1>5, <1>6
<1>8. (f.pos + take) % Word = p2
  <2>1. p2 < Word
    BY <1>1, <1>7
  <2>2. p2 % Word = p2
    BY <2>1, Remains
  <2> QED BY <1>7, <2>2
<1>9. PICK g : g = [f EXCEPT !.pos = p2]
  OBVIOUS
<1>10. /\ out' = out \o SubSeq(f.buffer, k + 1, k + take)
       /\ IF take < Cells - k
          THEN file' = [file EXCEPT ![cur] = g] /\ left' = 0 /\ cache' = cache
          ELSE \E r \in RefillFile(g) :
                 /\ file' = [file EXCEPT ![cur] = r.file]
                 /\ cache' = r.cache
                 /\ left' = IF r.go THEN left - take ELSE 0
  <2>1. [f EXCEPT !.pos = (@ + take) % Word] = g
    BY <1>8, <1>9
  <2> QED BY <1>2, <1>3, <1>4, <2>1 DEF ReadStep
<1>11. CASE take < Cells - k
  <2>1. (f.pos % Cells) + take < Cells
    BY <1>2, <1>3, <1>11
  <2>2. g \in HandleType(vol) /\ At(vol, g, e) /\ g.pos = p2
    BY <1>2, <1>7, <1>9, <2>1, MovedIs
  <2>3. left' = left - take
    BY <1>5, <1>10, <1>11
  <2>4. StepTo(vol, f, e, take, g, out, out', left, left')
    BY <1>2, <1>3, <1>5, <1>7, <1>10, <2>2, <2>3 DEF StepTo
  <2> QED BY <1>10, <1>11, <2>4
<1>12. CASE ~(take < Cells - k)
  <2>1. (f.pos % Cells) + take = Cells
    BY <1>2, <1>3, <1>5, <1>12
  <2>2. PICK r \in RefillFile(g) : /\ file' = [file EXCEPT ![cur] = r.file]
                                   /\ cache' = r.cache
                                   /\ left' = IF r.go THEN left - take ELSE 0
    BY <1>10, <1>12
  <2>3. /\ r.file \in HandleType(vol) /\ At(vol, r.file, e) /\ r.file.pos = p2
        /\ CacheRight(vol, r.cache) /\ r.go \in BOOLEAN
        /\ p2 < CellsOf(vol, e) => r.go
    <3>1. UsesUp(vol, f, e, take, p2, g)
      BY <1>2, <1>7, <1>9, <2>1 DEF UsesUp
    <3>2. Refreshed(vol, e, p2, r)
      BY <2>2, <3>1, RefillIs
    <3> QED BY <3>2 DEF Refreshed
  <2>4. left' = left - take
    <3>1. ~r.go => left = take
      BY <1>1, <1>2, <1>5, <1>6, <1>7, <2>3
    <3> QED BY <2>2, <3>1
  <2>5. StepTo(vol, f, e, take, r.file, out, out', left, left')
    BY <1>2, <1>3, <1>5, <1>7, <1>10, <2>3, <2>4 DEF StepTo
  <2> QED BY <2>2, <2>3, <2>5
<1> QED BY <1>11, <1>12

--------------------------------------------------------------------------------
(* The steps keep the invariant. *)

(* FAT_Open starts a search in the root directory, at its first cell. *)
LEMMA OpenKeeps ==
  ASSUME FInv, WithinLimits(vol), NEW p \in vol.paths, FAT_Open(p)
  PROVE  FInv'
<1> USE HandlesAre
<1>1. /\ Typed /\ CacheRight(vol, cache) /\ RootIs(vol, file[ROOT]) /\ RootRests
      /\ OpenFiles /\ SearchInv /\ ReadInv
  BY DEF FInv
<1>2. /\ pc = "idle" /\ (Len(p) = 1 \/ \E h \in Handles : ~file[h].open)
      /\ pc' = "find" /\ cur' = ROOT /\ path' = p /\ asked' = p
      /\ vol' = vol /\ file' = file /\ cache' = cache /\ left' = left /\ out' = out
  BY DEF FAT_Open, Idle
<1>3. ~Searching
  BY <1>1, <1>2 DEF Typed
<1>4. p \in Seq(DOMAIN ShortName) /\ p # << >>
  BY <1>1, LimitsAre DEF Typed
<1>5. Searching'
  BY <1>2, <1>4 DEF Searching
<1>6. Typed'
  BY <1>1, <1>2, <1>5 DEF Typed
<1>7. RootRests' /\ file[ROOT].pos = 0
  BY <1>1, <1>2, <1>3, <1>5 DEF RootRests
<1>8. OpenFiles'
  BY <1>1, <1>2, <1>3 DEF OpenFiles
<1>9. SearchInv'
  <2>1. PICK i : i = 1
    OBVIOUS
  <2>2. i \in DOMAIN p /\ p = SubSeq(p, i, Len(p))
    BY <1>4, <2>1
  <2>3. Place(vol, file, ROOT, p, i)
    BY <1>2, <2>1 DEF Place
  <2>4. NotIn(vol, p, i, file[ROOT].pos)
    BY <1>7 DEF NotIn
  <2>5. pc' # "read"
    BY <1>2
  <2> QED BY <1>2, <2>2, <2>3, <2>4, <2>5 DEF SearchInv
<1>10. ReadInv'
  BY <1>2 DEF ReadInv
<1>11. CacheRight(vol, cache)' /\ RootIs(vol, file[ROOT])'
  BY <1>1, <1>2
<1> QED BY <1>6, <1>7, <1>8, <1>9, <1>10, <1>11 DEF FInv

(* An entry that is none of the wanted name has been compared. *)
LEMMA NoMatchKeeps ==
  ASSUME FInv, WithinLimits(vol), NoMatch
  PROVE  FInv'
<1> USE HandlesAre
<1>1. /\ Typed /\ CacheRight(vol, cache) /\ RootIs(vol, file[ROOT]) /\ RootRests
      /\ OpenFiles /\ SearchInv /\ ReadInv
  BY DEF FInv
<1>2. /\ pc = "read" /\ left = 0 /\ Searching /\ Len(out) = 1 /\ out[1] # ShortName[path[1]]
      /\ pc' = "find" /\ cur' = cur /\ path' = path /\ asked' = asked
      /\ vol' = vol /\ file' = file /\ cache' = cache /\ left' = left /\ out' = out
  BY DEF NoMatch, EntryRead, Matches, Searching
<1>3. Typed' /\ RootRests' /\ OpenFiles' /\ Searching'
  BY <1>1, <1>2 DEF Typed, RootRests, OpenFiles, Searching
<1>4. SearchInv'
  <2>1. PICK i \in DOMAIN asked :
          /\ asked \in vol.paths
          /\ path = SubSeq(asked, i, Len(asked))
          /\ Place(vol, file, cur, asked, i)
          /\ EntryOut(vol, asked, i, file[cur].pos, out, left)
          /\ NotIn(vol, asked, i, file[cur].pos - Len(out))
    BY <1>1, <1>2 DEF SearchInv
  <2>2. asked \in Seq(DOMAIN ShortName)
    BY <1>1, <2>1, LimitsAre DEF Typed
  <2>3. path[1] = asked[i]
    BY <2>1, <2>2
  <2>4. PICK n \in Nat : n = file[cur].pos
    <3>1. cur # NULL
      BY <1>1, <2>1 DEF Place
    <3>2. file[cur] \in HandleType(vol)
      BY <1>1, <3>1 DEF Typed
    <3> QED BY <3>2 DEF HandleType
  <2>5. NotIn(vol, asked, i, n)
    <3>1. Cell(vol, asked, i, n) # ShortName[asked[i]]
      BY <1>2, <2>1, <2>3, <2>4 DEF EntryOut
    <3>2. \A k \in 1 .. n - 1 : Cell(vol, asked, i, k) # ShortName[asked[i]]
      BY <1>2, <2>1, <2>4 DEF NotIn
    <3>3. \A k \in 1 .. n : k \in 1 .. n - 1 \/ k = n
      OBVIOUS
    <3> QED BY <3>1, <3>2, <3>3 DEF NotIn
  <2>6. pc' # "read"
    BY <1>2
  <2> QED BY <1>2, <2>1, <2>4, <2>5, <2>6 DEF SearchInv
<1>5. ReadInv'
  BY <1>2 DEF ReadInv
<1>6. CacheRight(vol, cache)' /\ RootIs(vol, file[ROOT])'
  BY <1>1, <1>2
<1> QED BY <1>3, <1>4, <1>5, <1>6 DEF FInv

(* A caller's read returns. *)
LEMMA ReadReturnKeeps ==
  ASSUME FInv, WithinLimits(vol), ReadReturn
  PROVE  FInv'
<1>1. /\ Typed /\ CacheRight(vol, cache) /\ RootIs(vol, file[ROOT]) /\ RootRests
      /\ OpenFiles /\ SearchInv /\ ReadInv
  BY DEF FInv
<1>2. /\ ~Searching /\ pc' = "idle" /\ cur' = cur /\ path' = path /\ asked' = asked
      /\ vol' = vol /\ file' = file /\ cache' = cache /\ left' = left /\ out' = out
  BY DEF ReadReturn, Searching
<1>3. Typed' /\ RootRests' /\ OpenFiles' /\ ~Searching'
  BY <1>1, <1>2 DEF Typed, RootRests, OpenFiles, Searching
<1>4. SearchInv' /\ ReadInv'
  BY <1>2, <1>3 DEF SearchInv, ReadInv
<1>5. CacheRight(vol, cache)' /\ RootIs(vol, file[ROOT])'
  BY <1>1, <1>2
<1> QED BY <1>3, <1>4, <1>5 DEF FInv

(* A handle that is closed is no open file. *)
LEMMA ClosedIs ==
  ASSUME Typed, NEW h \in Handles
  PROVE  /\ Closing(h) \in [Handles \cup {ROOT} -> HandleType(vol)]
         /\ ~Closing(h)[h].open
         /\ \A x \in Handles \cup {ROOT} : x # h => Closing(h)[x] = file[x]
<1> USE HandlesAre
<1>1. /\ file \in [Handles \cup {ROOT} -> HandleType(vol)]
      /\ Closing(h) = [file EXCEPT ![h] = [file[h] EXCEPT !.open = FALSE]]
  BY DEF Typed, Closing
<1>2. file[h] \in HandleType(vol)
  BY <1>1
<1>3. /\ [file[h] EXCEPT !.open = FALSE] \in HandleType(vol)
      /\ ~[file[h] EXCEPT !.open = FALSE].open
  BY <1>2 DEF HandleType
<1> QED BY <1>1, <1>3

(* FAT_Close of a file a caller has. *)
LEMMA CloseKeeps ==
  ASSUME FInv, WithinLimits(vol), NEW h \in Handles, FAT_Close(h)
  PROVE  FInv'
<1> USE HandlesAre
<1>1. /\ Typed /\ CacheRight(vol, cache) /\ RootIs(vol, file[ROOT]) /\ RootRests
      /\ OpenFiles /\ SearchInv /\ ReadInv
  BY DEF FInv
<1>2. /\ pc = "idle" /\ pc' = pc /\ cur' = cur /\ path' = path /\ asked' = asked
      /\ vol' = vol /\ file' = Closing(h) /\ cache' = cache /\ left' = left /\ out' = out
  BY DEF FAT_Close, Idle
<1>3. ~Searching /\ ~Searching'
  BY <1>1, <1>2 DEF Typed, Searching
<1>4. /\ file' \in [Handles \cup {ROOT} -> HandleType(vol)]
      /\ ~file'[h].open /\ file'[ROOT] = file[ROOT]
      /\ \A x \in Handles : x # h => file'[x] = file[x]
  BY <1>1, <1>2, ClosedIs
<1>5. Typed'
  BY <1>1, <1>2, <1>3, <1>4 DEF Typed
<1>6. RootRests'
  BY <1>1, <1>3, <1>4 DEF RootRests
<1>7. OpenFiles'
  BY <1>1, <1>2, <1>3, <1>4 DEF OpenFiles
<1>8. SearchInv' /\ ReadInv'
  BY <1>2, <1>3 DEF SearchInv, ReadInv
<1>9. CacheRight(vol, cache)' /\ RootIs(vol, file[ROOT])'
  BY <1>1, <1>2, <1>4
<1> QED BY <1>5, <1>6, <1>7, <1>8, <1>9 DEF FInv

(* What is left of an entry, modulo 2^32, is what is left of it. *)
LEMMA RestIs ==
  ASSUME NEW v \in Volumes, NEW n \in DOMAIN v.entry, NEW e, e = v.entry[n], NEW f, At(v, f, e)
  PROVE  /\ f.pos \in Nat /\ f.pos <= CellsOf(v, e) /\ CellsOf(v, e) \in Nat
         /\ f.size # 0 \/ ~e.dir => (f.size - f.pos) % Word = CellsOf(v, e) - f.pos
         /\ ~e.dir => f.size = CellsOf(v, e)
         /\ e.dir /\ f.size # 0 => f.pos = CellsOf(v, e)
         /\ e.dir /\ f.size = 0 /\ f.pos = CellsOf(v, e) => v.paths = DOMAIN v.files
<1> USE FatAssumption
<1>1. /\ CellsOf(v, e) \in 0 .. Word - 1 /\ e.dir \in BOOLEAN
      /\ e.dir => CellsOf(v, e) = Room(v, e) /\ Room(v, e) # 0
      /\ ~e.dir => CellsOf(v, e) = e.size
  BY EntryTyped
<1>2. /\ f.pos \in Nat /\ f.pos <= CellsOf(v, e)
      /\ ~e.dir => f.size = CellsOf(v, e)
      /\ e.dir => \/ f.size = 0 /\ (f.pos = Room(v, e) => v.paths = DOMAIN v.files)
                  \/ f.size = f.pos /\ f.pos = Room(v, e)
  BY <1>1 DEF At
<1>3. PICK d \in Nat : d = CellsOf(v, e) - f.pos
  <2>1. CellsOf(v, e) - f.pos \in Nat
    BY <1>1, <1>2
  <2> QED BY <2>1
<1>4. d < Word
  BY <1>1, <1>2, <1>3
<1>5. d % Word = d
  BY <1>4, Remains
<1>6. f.size # 0 \/ ~e.dir => f.size - f.pos = d
  BY <1>1, <1>2, <1>3
<1>7. f.size # 0 \/ ~e.dir => (f.size - f.pos) % Word = CellsOf(v, e) - f.pos
  BY ONLY <1>3, <1>5, <1>6
<1>8. /\ e.dir /\ f.size # 0 => f.pos = CellsOf(v, e)
      /\ e.dir /\ f.size = 0 /\ f.pos = CellsOf(v, e) => v.paths = DOMAIN v.files
  BY <1>1, <1>2
<1> QED BY <1>1, <1>2, <1>7, <1>8

(* A caller's read begins. *)
LEMMA ReadKeeps ==
  ASSUME FInv, WithinLimits(vol), NEW h \in Handles, NEW m \in Counts, FAT_Read(h, m)
  PROVE  FInv'
<1> USE HandlesAre, FatAssumption
<1>1. /\ Typed /\ CacheRight(vol, cache) /\ RootIs(vol, file[ROOT]) /\ RootRests
      /\ OpenFiles /\ SearchInv /\ ReadInv
  BY DEF FInv
<1>2. /\ pc = "idle" /\ file[h].open
      /\ pc' = "read" /\ cur' = h /\ left' = Limited(h, m) /\ out' = << >>
      /\ path' = path /\ asked' = asked /\ vol' = vol /\ file' = file /\ cache' = cache
  BY DEF FAT_Read, Idle, Enter
<1>3. ~Searching /\ ~Searching'
  BY <1>1, <1>2 DEF Typed, Searching
<1>4. vol \in Volumes /\ file[h] \in HandleType(vol)
  BY <1>1 DEF Typed
<1>5. PICK n \in DOMAIN vol.entry : At(vol, file[h], vol.entry[n]) /\ ~file[h].dir
  BY <1>1, <1>2, <1>3 DEF OpenFiles, Has
<1>6. PICK e : e = vol.entry[n]
  OBVIOUS
<1>7. PICK f : f = file[h]
  OBVIOUS
<1>8. At(vol, f, e) /\ ~e.dir
  BY <1>5, <1>6, <1>7 DEF At
<1>9. /\ f.pos \in Nat /\ f.pos <= CellsOf(vol, e) /\ CellsOf(vol, e) \in Nat
      /\ (f.size - f.pos) % Word = CellsOf(vol, e) - f.pos /\ f.size = CellsOf(vol, e)
  BY <1>4, <1>6, <1>8, RestIs
<1>10. left' = LesserOf(m, CellsOf(vol, e) - f.pos)
  BY <1>2, <1>5, <1>7, <1>9 DEF Limited
<1>11. left' \in Nat /\ left' <= CellsOf(vol, e) - f.pos
  BY <1>9, <1>10 DEF LesserOf
<1>12. Copied(vol, f, e, << >>, left')
  <2>1. PICK o : o = << >> /\ Len(o) = 0
    OBVIOUS
  <2>2. PICK l \in Nat : l = left'
    BY <1>11
  <2>3. f.pos - Len(o) = f.pos
    BY ONLY <1>9, <2>1
  <2>4. l + Len(o) = l
    BY <2>1
  <2>5. \A k \in 1 .. Len(o) : FALSE
    BY <2>1
  <2>6. l + f.pos <= f.size /\ f.pos >= 0
    BY <1>9, <1>11, <2>2
  <2>7. l = LesserOf(m, f.size - f.pos)
    BY <1>9, <1>10, <2>2
  <2>8. Copied(vol, f, e, o, l)
    BY <1>8, <2>3, <2>4, <2>5, <2>6, <2>7 DEF Copied
  <2> QED BY <2>1, <2>2, <2>8
<1>13. Typed'
  BY <1>1, <1>2, <1>3, <1>11 DEF Typed
<1>14. RootRests' /\ OpenFiles'
  BY <1>1, <1>2, <1>3 DEF RootRests, OpenFiles
<1>15. SearchInv'
  BY <1>3 DEF SearchInv
<1>16. ReadInv'
  BY <1>2, <1>6, <1>7, <1>12 DEF ReadInv
<1>17. CacheRight(vol, cache)' /\ RootIs(vol, file[ROOT])'
  BY <1>1, <1>2
<1> QED BY <1>13, <1>14, <1>15, <1>16, <1>17 DEF FInv

(* Name i of a path a search is at has not been found so far. *)
LEMMA SearchedIs ==
  ASSUME Typed, SearchInv, Searching, WithinLimits(vol)
  PROVE  /\ asked \in vol.paths /\ asked \in Seq(DOMAIN ShortName)
         /\ cur \in Handles \cup {ROOT} /\ file[cur] \in HandleType(vol) /\ file[cur].pos \in Nat
         /\ \E i \in 1 .. Len(asked) :
              /\ path = SubSeq(asked, i, Len(asked)) /\ path[1] = asked[i]
              /\ Len(path) = Len(asked) - i + 1 /\ Tail(path) = SubSeq(asked, i + 1, Len(asked))
              /\ Place(vol, file, cur, asked, i)
              /\ IF pc = "read"
                 THEN /\ EntryOut(vol, asked, i, file[cur].pos, out, left)
                      /\ NotIn(vol, asked, i, file[cur].pos - Len(out))
                 ELSE NotIn(vol, asked, i, file[cur].pos)
<1> USE HandlesAre
<1>1. PICK i \in DOMAIN asked :
        /\ asked \in vol.paths
        /\ path = SubSeq(asked, i, Len(asked))
        /\ Place(vol, file, cur, asked, i)
        /\ IF pc = "read"
           THEN /\ EntryOut(vol, asked, i, file[cur].pos, out, left)
                /\ NotIn(vol, asked, i, file[cur].pos - Len(out))
           ELSE NotIn(vol, asked, i, file[cur].pos)
  BY DEF SearchInv
<1>2. asked \in Seq(DOMAIN ShortName)
  BY <1>1, LimitsAre DEF Typed
<1>3. i \in 1 .. Len(asked) /\ path[1] = asked[i] /\ Len(path) = Len(asked) - i + 1
  BY <1>1, <1>2
<1>4. Tail(path) = SubSeq(asked, i + 1, Len(asked))
  BY <1>1, <1>2, <1>3, SMTT(20)
<1>5. cur \in Handles \cup {ROOT}
  BY <1>1 DEF Place
<1>6. file[cur] \in HandleType(vol)
  BY <1>5 DEF Typed
<1>7. file[cur].pos \in Nat
  BY <1>6, FatAssumption DEF HandleType
<1> QED BY <1>1, <1>2, <1>3, <1>4, <1>5, <1>6, <1>7

(* In the root directory the wanted name lies ahead, and not in the last   *)
(* cell of the first sector.                                               *)
LEMMA WantedAhead ==
  ASSUME NEW v \in Volumes, WithinLimits(v), NEW p \in v.paths, NEW m \in Nat, NotIn(v, p, 1, m)
  PROVE  m + 1 < Cells /\ (v.bs.entries = 0 \/ m < v.bs.entries)
<1> USE FatAssumption
<1>1. PICK k \in 1 .. Cells - 1 :
        /\ v.sectors[LayoutOf(v).root][k] = ShortName[p[1]]
        /\ v.bs.entries = 0 \/ k <= v.bs.entries
  BY LimitsAre
<1>2. ~(k \in 1 .. m)
  BY <1>1 DEF NotIn, Cell
<1>3. m < k
  BY <1>2
<1>4. v.bs.entries \in Nat
  BY LimitsAre
<1> QED BY <1>1, <1>3, <1>4

(* In an entry the search has led to, what is looked for is not missed: if *)
(* every path leads to a file, it is there.                                *)
LEMMA WantedThere ==
  ASSUME NEW v \in Volumes, v.paths = DOMAIN v.files, NEW p \in v.paths,
         NEW i \in 2 .. Len(p), NEW e, e = Looked(v, p, i)
  PROVE  ~NotIn(v, p, i, CellsOf(v, e))
<1>1. Leads(v, p)
  BY MkfsAssumption DEF Formatted
<1>2. Holds(v, ShortName[p[i - 1]], ShortName[p[i]])
  BY <1>1 DEF Leads
<1>3. PICK k \in 1 .. CellsOf(v, e) : CellAt(v, e.chain, k) = ShortName[p[i]]
  BY <1>2 DEF Holds, Looked
<1>4. Cell(v, p, i, k) = ShortName[p[i]]
  BY <1>3 DEF Cell
<1> QED BY <1>4 DEF NotIn

(* FAT_FindFile reads an entry, or sees the end. *)
LEMMA ReadEntryKeeps ==
  ASSUME FInv, WithinLimits(vol), ReadEntry
  PROVE  FInv'
<1> USE HandlesAre, FatAssumption
<1>1. /\ Typed /\ CacheRight(vol, cache) /\ RootIs(vol, file[ROOT]) /\ RootRests
      /\ OpenFiles /\ SearchInv /\ ReadInv
  BY DEF FInv
<1>2. /\ pc = "find" /\ pc' = "read" /\ cur' = cur /\ left' = Limited(cur, 1) /\ out' = << >>
      /\ path' = path /\ asked' = asked /\ vol' = vol /\ file' = file /\ cache' = cache
  BY DEF ReadEntry, Enter
<1>3. Searching /\ Searching' /\ vol \in Volumes
  BY <1>1, <1>2 DEF Typed, Searching
<1>4. /\ asked \in vol.paths /\ asked \in Seq(DOMAIN ShortName)
      /\ cur \in Handles \cup {ROOT} /\ file[cur] \in HandleType(vol) /\ file[cur].pos \in Nat
  BY <1>1, <1>3, SearchedIs
<1>5. PICK i \in 1 .. Len(asked) :
        /\ path = SubSeq(asked, i, Len(asked))
        /\ Place(vol, file, cur, asked, i) /\ NotIn(vol, asked, i, file[cur].pos)
  BY <1>1, <1>2, <1>3, SearchedIs
<1>6. PICK f : f = file[cur]
  OBVIOUS
<1>7. PICK o : o = << >> /\ Len(o) = 0
  OBVIOUS
<1>8. PICK m \in Nat : m = f.pos
  BY <1>4, <1>6
<1>9. left' \in Nat /\ EntryOut(vol, asked, i, m, o, left')
  <2>1. CASE i = 1
    <3>1. cur = ROOT
      BY <1>5, <2>1 DEF Place
    <3>2. m + 1 < Cells /\ (vol.bs.entries = 0 \/ m < vol.bs.entries)
      <4>1. NotIn(vol, asked, 1, m)
        BY <1>5, <1>6, <1>8, <2>1
      <4> QED BY <1>3, <1>4, <4>1, WantedAhead
    <3>3. f.dir /\ f.size = vol.bs.entries /\ vol.bs.entries \in 0 .. Word - 1
      BY <1>1, <1>3, <1>6, <3>1, LimitsAre DEF RootIs
    <3>4. left' = 1
      <4>1. CASE f.size = 0
        BY <1>2, <1>6, <3>3, <4>1 DEF Limited
      <4>2. CASE f.size # 0
        <5>1. PICK d \in Nat : d = f.size - m /\ d < Word /\ d >= 1
          <6>1. f.size - m \in Nat
            BY <3>2, <3>3, <4>2
          <6> QED BY <3>2, <3>3, <4>2, <6>1
        <5>2. (f.size - f.pos) % Word = d
          BY <1>8, <5>1, Remains
        <5>3. LesserOf(1, d) = 1
          BY <5>1 DEF LesserOf
        <5> QED BY <1>2, <1>6, <4>2, <5>2, <5>3 DEF Limited
      <4> QED BY <4>1, <4>2
    <3> QED BY <1>7, <2>1, <3>4 DEF EntryOut
  <2>2. CASE i # 1
    <3>1. PICK e : e = Looked(vol, asked, i)
      OBVIOUS
    <3>2. /\ At(vol, f, e) /\ ShortName[asked[i - 1]] \in DOMAIN vol.entry
          /\ e = vol.entry[ShortName[asked[i - 1]]]
      BY <1>5, <1>6, <2>2, <3>1 DEF Place, Looked
    <3>3. /\ m <= CellsOf(vol, e) /\ CellsOf(vol, e) \in Nat
          /\ f.size # 0 \/ ~e.dir => (f.size - f.pos) % Word = CellsOf(vol, e) - m
          /\ e.dir /\ f.size # 0 => m = CellsOf(vol, e)
          /\ e.dir /\ f.size = 0 /\ m = CellsOf(vol, e) => vol.paths = DOMAIN vol.files
      BY <1>3, <1>8, <3>2, RestIs, SMTT(20)
    <3>4. f.dir = e.dir /\ e.dir \in BOOLEAN
      BY <1>3, <3>2, EntryTyped DEF At
    <3>5. CASE e.dir /\ f.size = 0
      <4>1. left' = 1
        BY <1>2, <1>6, <3>4, <3>5 DEF Limited
      <4>2. m # CellsOf(vol, e)
        <5>1. NotIn(vol, asked, i, m)
          BY <1>5, <1>6, <1>8
        <5>2. i \in 2 .. Len(asked)
          BY <1>5, <2>2
        <5>3. vol.paths = DOMAIN vol.files => ~NotIn(vol, asked, i, CellsOf(vol, e))
          BY <1>3, <1>4, <3>1, <5>2, WantedThere
        <5> QED BY <3>3, <3>5, <5>1, <5>3
      <4>3. m - Len(o) < CellsOf(vol, e) /\ Len(o) <= m
        BY <1>7, <3>3, <4>2
      <4> QED BY <1>7, <2>2, <3>1, <4>1, <4>3 DEF EntryOut
    <3>6. CASE f.size # 0 \/ ~e.dir
      <4>1. PICK d \in Nat : d = CellsOf(vol, e) - m
        <5>1. CellsOf(vol, e) - m \in Nat
          BY <3>3
        <5> QED BY <5>1
      <4>2. left' = LesserOf(1, d)
        <5>1. ~(f.dir /\ f.size = 0)
          BY <3>4, <3>6
        <5> QED BY <1>2, <1>6, <3>3, <3>6, <4>1, <5>1 DEF Limited
      <4>3. CASE d = 0
        <5>1. left' = 0 /\ m = CellsOf(vol, e)
          BY <3>3, <4>1, <4>2, <4>3 DEF LesserOf
        <5> QED BY <1>7, <2>2, <3>1, <5>1 DEF EntryOut
      <4>4. CASE d # 0
        <5>1. left' = 1 /\ m - Len(o) < CellsOf(vol, e) /\ Len(o) <= m
          BY <1>7, <3>3, <4>1, <4>2, <4>4 DEF LesserOf
        <5> QED BY <1>7, <2>2, <3>1, <5>1 DEF EntryOut
      <4> QED BY <4>3, <4>4
    <3> QED BY <3>4, <3>5, <3>6
  <2> QED BY <2>1, <2>2
<1>10. Typed'
  BY <1>1, <1>2, <1>3, <1>9 DEF Typed
<1>11. RootRests' /\ OpenFiles'
  BY <1>1, <1>2, <1>3 DEF RootRests, OpenFiles
<1>12. SearchInv'
  <2>1. NotIn(vol, asked, i, m - Len(o))
    <3>1. m - Len(o) = m
      BY <1>7
    <3> QED BY <1>5, <1>6, <1>8, <3>1
  <2>2. i \in DOMAIN asked
    BY <1>4
  <2>3. EntryOut(vol', asked', i, file'[cur'].pos, out', left') /\ NotIn(vol', asked', i, file'[cur'].pos - Len(out'))
    BY <1>2, <1>6, <1>7, <1>8, <1>9, <2>1
  <2> QED BY <1>2, <1>4, <1>5, <2>2, <2>3 DEF SearchInv
<1>13. ReadInv'
  BY <1>3 DEF ReadInv
<1>14. CacheRight(vol, cache)' /\ RootIs(vol, file[ROOT])'
  BY <1>1, <1>2
<1> QED BY <1>10, <1>11, <1>12, <1>13, <1>14 DEF FInv

(* A search ends where its entry does. *)
LEMMA NotFoundKeeps ==
  ASSUME FInv, WithinLimits(vol), NotFound
  PROVE  FInv' /\ cur \in Handles /\ ~Leads(vol, asked)
<1> USE HandlesAre, FatAssumption
<1>1. /\ Typed /\ CacheRight(vol, cache) /\ RootIs(vol, file[ROOT]) /\ RootRests
      /\ OpenFiles /\ SearchInv /\ ReadInv
  BY DEF FInv
<1>2. /\ pc = "read" /\ left = 0 /\ Searching /\ out = << >>
      /\ pc' = "idle" /\ file' = Closing(cur) /\ path' = << >>
      /\ cur' = cur /\ left' = left /\ out' = out /\ asked' = asked /\ vol' = vol /\ cache' = cache
  BY DEF NotFound, EntryRead, Searching
<1>3. ~Searching'
  BY <1>2 DEF Searching
<1>4. PICK i \in 1 .. Len(asked) :
        /\ Place(vol, file, cur, asked, i)
        /\ EntryOut(vol, asked, i, file[cur].pos, out, left)
        /\ NotIn(vol, asked, i, file[cur].pos - Len(out))
  BY <1>1, <1>2, SearchedIs
<1>5. Len(out) = 0
  BY <1>2
<1>6. i # 1
  BY <1>2, <1>4, <1>5 DEF EntryOut
<1>7. cur \in Handles
  BY <1>4, <1>6 DEF Place
<1>8. /\ file' \in [Handles \cup {ROOT} -> HandleType(vol)]
      /\ ~file'[cur].open /\ file'[ROOT] = file[ROOT]
      /\ \A x \in Handles : x # cur => file'[x] = file[x]
  BY <1>1, <1>2, <1>7, ClosedIs
<1>9. Typed'
  BY <1>1, <1>2, <1>3, <1>8 DEF Typed
<1>10. RootRests'
  BY <1>1, <1>7, <1>8 DEF RootRests
<1>11. OpenFiles'
  BY <1>1, <1>2, <1>8 DEF OpenFiles
<1>12. SearchInv' /\ ReadInv'
  BY <1>2, <1>3 DEF SearchInv, ReadInv
<1>13. CacheRight(vol, cache)' /\ RootIs(vol, file[ROOT])'
  BY <1>1, <1>2, <1>8
<1>14. ~Leads(vol, asked)
  <2>1. file[cur].pos \in Nat /\ asked \in Seq(DOMAIN ShortName)
    BY <1>1, <1>2, SearchedIs
  <2>2. file[cur].pos - Len(out) = CellsOf(vol, Looked(vol, asked, i))
    BY <1>2, <1>4, <1>5, <1>6, <2>1 DEF EntryOut
  <2>3. NotIn(vol, asked, i, CellsOf(vol, Looked(vol, asked, i)))
    BY <1>4, <2>2
  <2>4. SUFFICES ASSUME Leads(vol, asked) PROVE FALSE
    OBVIOUS
  <2>5. Holds(vol, ShortName[asked[i - 1]], ShortName[asked[i]])
    BY <1>4, <1>6, <2>4 DEF Leads
  <2>6. PICK k \in 1 .. CellsOf(vol, Looked(vol, asked, i)) :
          CellAt(vol, Looked(vol, asked, i).chain, k) = ShortName[asked[i]]
    BY <2>5 DEF Holds, Looked
  <2>7. Cell(vol, asked, i, k) = ShortName[asked[i]]
    BY <1>6, <2>6 DEF Cell
  <2> QED BY <2>3, <2>6, <2>7 DEF NotIn
<1> QED BY <1>7, <1>9, <1>10, <1>11, <1>12, <1>13, <1>14 DEF FInv

(* There is a least among some handles. *)
LEMMA LeastIs ==
  ASSUME NEW S, S \subseteq Handles, S # {}
  PROVE  (CHOOSE x \in S : \A y \in S : x <= y) \in S
<1> DEFINE Less == {ss \in Nat \X Nat : ss[1] < ss[2]}
<1>1. IsWellFoundedOn(Less, Nat)
  BY NatLessThanWellFounded DEF OpToRel
<1>2. \A x, y \in Nat : y < x => <<y, x>> \in Less
  OBVIOUS
<1> HIDE DEF Less
<1>3. S \subseteq Nat
  BY HandlesAre
<1>4. PICK x \in S : \A y \in S : <<y, x>> \notin Less
  BY <1>1, <1>3, WFMin
<1>5. ASSUME NEW y \in S PROVE x <= y
  <2>1. x \in Nat /\ y \in Nat /\ ~(y < x)
    BY <1>2, <1>3, <1>4, <1>5
  <2> QED BY <2>1
<1> QED BY <1>5

(* What becomes of the handles fs, and the handle that is returned. *)
Opened(v, fs, e, o) ==
  \/ o = [file |-> fs, h |-> NULL] /\ \A x \in Handles : fs[x].open
  \/ \E h \in Handles, g \in HandleType(v) :
       /\ o = [file |-> [fs EXCEPT ![h] = g], h |-> h]
       /\ ~fs[h].open /\ At(v, g, e) /\ g.pos = 0

(* FAT_OpenEntry takes a free handle if there is one, and puts it at the   *)
(* entry's first cell.                                                     *)
LEMMA OpenEntryIs ==
  ASSUME vol \in Volumes, WithinLimits(vol), Errors = FALSE,
         NEW fs \in [Handles \cup {ROOT} -> HandleType(vol)],
         NEW n \in DOMAIN vol.entry, NEW e, e = vol.entry[n], NEW o \in FAT_OpenEntry(fs, e)
  PROVE  Opened(vol, fs, e, o)
<1> USE HandlesAre, FatAssumption
<1> DEFINE free == {x \in Handles : ~fs[x].open}
           least == CHOOSE x \in free : \A y \in free : x <= y
           fd(b) == [buffer |-> IF b = << >> THEN fs[least].buffer ELSE b, open |-> b # << >>,
                     pos |-> 0, size |-> e.size, dir |-> e.dir,
                     first |-> e.first, cluster |-> e.first, sector |-> 0]
<1>1. CASE free = {}
  BY <1>1 DEF FAT_OpenEntry, Opened
<1>2. CASE free # {}
  <2>1. least \in free
    BY <1>2, LeastIs
  <2>2. \E b \in Sector(FAT_ClusterToLba(e.first)) :
          o = [file |-> [fs EXCEPT ![least] = fd(b)], h |-> IF b = << >> THEN NULL ELSE least]
    BY <1>2 DEF FAT_OpenEntry
  <2> HIDE DEF least
  <2>3. PICK b \in Sector(FAT_ClusterToLba(e.first)) :
          o = [file |-> [fs EXCEPT ![least] = fd(b)], h |-> IF b = << >> THEN NULL ELSE least]
    BY <2>2
  <2>4. /\ e.dir \in BOOLEAN /\ e.first \in Nat /\ e.size \in Nat /\ e.chain \in Seq(DOMAIN vol.table)
        /\ Len(e.chain) \in Nat /\ vol.bs.spc \in Nat \ {0}
        /\ CellsOf(vol, e) \in Nat /\ Room(vol, e) \in Nat
        /\ e.dir => CellsOf(vol, e) = Room(vol, e) /\ Room(vol, e) # 0
        /\ ~e.dir => CellsOf(vol, e) = e.size
    BY EntryTyped, SMTT(20)
  <2>5. FAT_ClusterToLba(e.first) = LbaOf(vol, e.first) /\ LbaOf(vol, e.first) \in DOMAIN vol.sectors
    BY <2>4, LimitsAre DEF FAT_ClusterToLba, Wild
  <2>6. b = vol.sectors[LbaOf(vol, e.first)] /\ b \in Values /\ b # << >>
    BY <2>5, SectorIs, FullIs
  <2>7. PICK g : g = [buffer |-> b, open |-> TRUE, pos |-> 0, size |-> e.size, dir |-> e.dir,
                      first |-> e.first, cluster |-> e.first, sector |-> 0]
    OBVIOUS
  <2>8. o = [file |-> [fs EXCEPT ![least] = g], h |-> least]
    BY <2>3, <2>6, <2>7
  <2>9. g \in HandleType(vol)
    <3>1. 0 \in 0 .. Word - 1 /\ 0 \in 0 .. vol.bs.spc - 1
      BY <2>4
    <3> QED BY <2>4, <2>6, <2>7, <3>1 DEF HandleType
  <2>10. e.dir => e.size = 0
    BY MkfsAssumption DEF Formatted, Linked
  <2>11. 0 < CellsOf(vol, e) => /\ ClusterOf(vol, e, 0) = e.first /\ SectorOf(vol, 0) = 0
                                /\ b = vol.sectors[LbaOf(vol, g.cluster) + g.sector]
    <3>1. SUFFICES ASSUME 0 < CellsOf(vol, e)
                   PROVE  /\ ClusterOf(vol, e, 0) = e.first /\ SectorOf(vol, 0) = 0
                          /\ b = vol.sectors[LbaOf(vol, g.cluster) + g.sector]
      OBVIOUS
    <3>2. (0 \div Cells) \div vol.bs.spc = 0 /\ (0 \div Cells) % vol.bs.spc = 0
      BY <2>4
    <3>3. ClusterOf(vol, e, 0) = e.chain[1] /\ SectorOf(vol, 0) = 0
      BY <3>2 DEF ClusterOf, SectorOf
    <3>4. 1 \in 1 .. Len(e.chain)
      BY <3>1, <3>2, CellIs
    <3>5. e.chain[1] = e.first
      BY <3>4, ChainIs
    <3>6. LbaOf(vol, e.first) \in Int
      BY <2>4, MkfsAssumption, LayoutIs
    <3> QED BY <2>6, <2>7, <3>3, <3>5, <3>6
  <2>12. At(vol, g, e)
    <3>1. g.pos = 0 /\ 0 \in 0 .. CellsOf(vol, e) /\ g.open /\ g.first = e.first /\ g.dir = e.dir
          /\ g.buffer = b /\ g.size = e.size /\ g.cluster = e.first /\ g.sector = 0
      BY <2>4, <2>7
    <3> QED BY <2>4, <2>6, <2>10, <2>11, <3>1 DEF At
  <2>13. least \in Handles /\ ~fs[least].open
    BY <2>1
  <2>14. g.pos = 0
    BY <2>7
  <2> QED BY <2>8, <2>9, <2>12, <2>13, <2>14 DEF Opened
<1> QED BY <1>1, <1>2

(* FAT_Close of the root directory rewinds it. *)
LEMMA RewoundIs ==
  ASSUME Typed, WithinLimits(vol), RootIs(vol, file[ROOT])
  PROVE  /\ Closing(ROOT) \in [Handles \cup {ROOT} -> HandleType(vol)]
         /\ RootIs(vol, Closing(ROOT)[ROOT]) /\ Closing(ROOT)[ROOT].pos = 0
         /\ \A x \in Handles : Closing(ROOT)[x] = file[x]
<1> USE HandlesAre, FatAssumption
<1>1. vol \in Volumes /\ file \in [Handles \cup {ROOT} -> HandleType(vol)]
  BY DEF Typed
<1>2. LayoutOf(vol).root \in Nat
  BY <1>1, LimitsAre
<1>3. PICK f : f = file[ROOT] /\ f \in HandleType(vol)
  BY <1>1
<1>4. PICK g : g = [f EXCEPT !.pos = 0, !.cluster = LayoutOf(vol).root]
  OBVIOUS
<1>5. Closing(ROOT) = [file EXCEPT ![ROOT] = g]
  BY <1>1, <1>3, <1>4 DEF Closing, Layout
<1>6. g \in HandleType(vol) /\ g.pos = 0
  <2>1. 0 \in 0 .. Word - 1 /\ LayoutOf(vol).root \in Int
    BY <1>2
  <2> QED BY <1>3, <1>4, <2>1 DEF HandleType
<1>7. RootIs(vol, g)
  <2>1. f = [buffer |-> vol.sectors[LayoutOf(vol).root], pos |-> f.pos, size |-> vol.bs.entries,
             dir |-> TRUE, open |-> TRUE, first |-> LayoutOf(vol).root,
             cluster |-> LayoutOf(vol).root, sector |-> 0]
    BY <1>3 DEF RootIs
  <2>2. g = [buffer |-> vol.sectors[LayoutOf(vol).root], pos |-> 0, size |-> vol.bs.entries,
             dir |-> TRUE, open |-> TRUE, first |-> LayoutOf(vol).root,
             cluster |-> LayoutOf(vol).root, sector |-> 0]
    <3>1. /\ g.buffer = vol.sectors[LayoutOf(vol).root] /\ g.pos = 0 /\ g.size = vol.bs.entries
          /\ g.dir = TRUE /\ g.open = TRUE /\ g.first = LayoutOf(vol).root
          /\ g.cluster = LayoutOf(vol).root /\ g.sector = 0
      BY <1>4, <2>1
    <3> QED BY <1>6, <3>1 DEF HandleType
  <2>3. g.pos < Cells
    BY <1>6
  <2> QED BY <1>6, <2>2, <2>3 DEF RootIs
<1> QED BY <1>1, <1>5, <1>6, <1>7

(* Handle h is put at the first cell of entry e. *)
OpensAs(v, fs, fs2, h, e) ==
  /\ h \in Handles /\ ~fs[h].open
  /\ \E g \in HandleType(v) : At(v, g, e) /\ g.pos = 0 /\ fs2 = [fs EXCEPT ![h] = g]

(* Name i of the path is found: its entry is opened, unless all handles    *)
(* are in use.                                                             *)
FoundTo(i, e) ==
  /\ Place(vol, file, cur, asked, i)
  /\ ShortName[asked[i]] \in DOMAIN vol.entry /\ e = vol.entry[ShortName[asked[i]]]
  /\ i # 1 => Holds(vol, ShortName[asked[i - 1]], ShortName[asked[i]])
  /\ path' = SubSeq(asked, i + 1, Len(asked))
  /\ IF i = Len(asked)
     THEN /\ pc' = "idle" /\ Leads(vol, asked) /\ asked \in DOMAIN vol.files
          /\ e = vol.entry[vol.files[asked]] /\ ~e.dir
          /\ reply' = [op |-> "open", path |-> asked, h |-> cur', at |-> 0, cells |-> << >>]
     ELSE pc' = "find" /\ reply' = reply
  /\ \/ cur' = NULL /\ file' = Closing(cur) /\ i = 1 /\ Len(asked) = 1
        /\ \A x \in Handles : file[x].open
     \/ OpensAs(vol, Closing(cur), file', cur', e)

(* A name that matches is found in what was searched. *)
LEMMA FoundIs ==
  ASSUME FInv, WithinLimits(vol), Errors = FALSE, Found
  PROVE  \E i \in 1 .. Len(asked) : \E e : FoundTo(i, e)
<1> USE HandlesAre, FatAssumption
<1>1. /\ Typed /\ CacheRight(vol, cache) /\ RootIs(vol, file[ROOT]) /\ RootRests
      /\ OpenFiles /\ SearchInv /\ ReadInv
  BY DEF FInv
<1>2. /\ pc = "read" /\ left = 0 /\ Searching /\ Len(out) = 1 /\ out[1] = ShortName[path[1]]
      /\ path' = Tail(path)
  BY DEF Found, EntryRead, Matches, Searching
<1>3. PICK o \in FAT_OpenEntry(Closing(cur), vol.entry[ShortName[path[1]]]) :
        /\ file' = o.file /\ cur' = o.h
        /\ IF Len(path) = 1
           THEN pc' = "idle"
                  /\ reply' = [op |-> "open", path |-> asked, h |-> o.h, at |-> 0, cells |-> << >>]
           ELSE pc' = (IF o.h = NULL THEN "fault" ELSE "find") /\ reply' = reply
  BY DEF Found, Reply
<1>4. /\ asked \in vol.paths /\ asked \in Seq(DOMAIN ShortName) /\ vol \in Volumes
      /\ cur \in Handles \cup {ROOT} /\ file[cur].pos \in Nat
  BY <1>1, <1>2, SearchedIs DEF Typed
<1>5. PICK i \in 1 .. Len(asked) :
        /\ path[1] = asked[i]
        /\ Len(path) = Len(asked) - i + 1 /\ Tail(path) = SubSeq(asked, i + 1, Len(asked))
        /\ Place(vol, file, cur, asked, i)
        /\ EntryOut(vol, asked, i, file[cur].pos, out, left)
  BY <1>1, <1>2, SearchedIs
<1>6. PICK m \in Nat : m = file[cur].pos
  BY <1>4
<1>7. Cell(vol, asked, i, m) = ShortName[asked[i]] /\ m >= 1
  BY <1>2, <1>5, <1>6 DEF EntryOut
<1>8. i # 1 => Holds(vol, ShortName[asked[i - 1]], ShortName[asked[i]])
  <2>1. SUFFICES ASSUME i # 1 PROVE Holds(vol, ShortName[asked[i - 1]], ShortName[asked[i]])
    OBVIOUS
  <2>2. PICK e : e = Looked(vol, asked, i)
    OBVIOUS
  <2>3. /\ ShortName[asked[i - 1]] \in DOMAIN vol.entry /\ e = vol.entry[ShortName[asked[i - 1]]]
        /\ At(vol, file[cur], e)
    BY <1>5, <2>1, <2>2 DEF Place, Looked
  <2>4. m <= CellsOf(vol, e) /\ CellsOf(vol, e) \in Nat
    BY <1>4, <1>6, <2>3, RestIs
  <2>5. CellAt(vol, e.chain, m) = ShortName[asked[i]]
    BY <1>7, <2>1, <2>2 DEF Cell
  <2>6. m \in 1 .. CellsOf(vol, e)
    BY <1>7, <2>4
  <2> QED BY <2>3, <2>5, <2>6 DEF Holds
<1>9. ShortName[asked[i]] \in DOMAIN vol.entry
  <2>1. i \in DOMAIN asked
    BY <1>4
  <2>2. i = 1 \/ \E n \in DOMAIN vol.entry : Holds(vol, n, ShortName[asked[i]])
    BY <1>8 DEF Holds
  <2> QED BY <1>4, <2>1, <2>2, MkfsAssumption DEF Formatted
<1>10. PICK e : e = vol.entry[ShortName[asked[i]]]
  OBVIOUS
<1>11. i = Len(asked) => /\ Leads(vol, asked) /\ asked \in DOMAIN vol.files
                         /\ e = vol.entry[vol.files[asked]] /\ ~e.dir
  <2>1. SUFFICES ASSUME i = Len(asked)
                 PROVE  /\ Leads(vol, asked) /\ asked \in DOMAIN vol.files
                        /\ e = vol.entry[vol.files[asked]] /\ ~e.dir
    OBVIOUS
  <2>2. Leads(vol, asked)
    <3>1. \A j \in 2 .. i - 1 : Holds(vol, ShortName[asked[j - 1]], ShortName[asked[j]])
      BY <1>5 DEF Place
    <3>2. \A j \in 2 .. Len(asked) : j \in 2 .. i - 1 \/ (j = i /\ i # 1)
      BY <2>1
    <3> QED BY <1>8, <3>1, <3>2 DEF Leads
  <2>3. asked \in DOMAIN vol.files
    BY <1>4, <2>2, MkfsAssumption DEF Formatted
  <2>4. vol.files[asked] = ShortName[asked[Len(asked)]] /\ ~vol.entry[vol.files[asked]].dir
    BY <1>4, <2>3, MkfsAssumption DEF Formatted
  <2> QED BY <1>10, <2>1, <2>2, <2>3, <2>4
<1>12. PICK fs : fs = Closing(cur)
  OBVIOUS
<1>13. fs \in [Handles \cup {ROOT} -> HandleType(vol)]
       /\ IF cur = ROOT THEN \A x \in Handles : fs[x] = file[x] ELSE ~fs[cur].open
  BY <1>1, <1>4, <1>12, ClosedIs, RewoundIs
<1>14. Opened(vol, fs, e, o)
  <2>1. o \in FAT_OpenEntry(fs, e)
    BY <1>3, <1>5, <1>10, <1>12
  <2> QED BY <1>4, <1>9, <1>10, <1>13, <2>1, OpenEntryIs
<1>15. \/ cur' = NULL /\ file' = fs /\ i = 1 /\ Len(asked) = 1 /\ \A x \in Handles : file[x].open
       \/ OpensAs(vol, fs, file', cur', e)
  <2>1. CASE o = [file |-> fs, h |-> NULL] /\ \A x \in Handles : fs[x].open
    <3>1. cur = ROOT
      BY <1>4, <1>13, <2>1
    <3>2. i = 1
      BY <1>5, <3>1 DEF Place
    <3>3. \A x \in Handles : file[x].open
      BY <1>13, <2>1, <3>1
    <3>4. Len(asked) = 1
      BY <1>5, <3>2, <3>3 DEF Place
    <3> QED BY <1>3, <2>1, <3>2, <3>3, <3>4
  <2>2. CASE \E h \in Handles, g \in HandleType(vol) :
               /\ o = [file |-> [fs EXCEPT ![h] = g], h |-> h]
               /\ ~fs[h].open /\ At(vol, g, e) /\ g.pos = 0
    <3>1. PICK h \in Handles, g \in HandleType(vol) :
            /\ o = [file |-> [fs EXCEPT ![h] = g], h |-> h]
            /\ ~fs[h].open /\ At(vol, g, e) /\ g.pos = 0
      BY <2>2
    <3>2. file' = [fs EXCEPT ![h] = g] /\ cur' = h
      BY <1>3, <3>1
    <3>3. OpensAs(vol, fs, file', h, e)
      BY <3>1, <3>2 DEF OpensAs
    <3> QED BY <3>2, <3>3
  <2> QED BY <1>14, <2>1, <2>2 DEF Opened
<1>16. Len(path) = 1 <=> i = Len(asked)
  BY <1>4, <1>5
<1>17. i # Len(asked) => cur' # NULL
  BY <1>15, <1>5 DEF OpensAs
<1>18. IF i = Len(asked)
       THEN /\ pc' = "idle"
            /\ reply' = [op |-> "open", path |-> asked, h |-> cur', at |-> 0, cells |-> << >>]
       ELSE pc' = "find" /\ reply' = reply
  BY <1>3, <1>16, <1>17
<1>19. FoundTo(i, e)
  BY <1>2, <1>5, <1>8, <1>9, <1>10, <1>11, <1>12, <1>15, <1>18 DEF FoundTo
<1> QED BY <1>19

(* The handles after an entry was opened: what was searched is closed, and *)
(* the other handles are as before.                                        *)
HandlesThen(i, e) ==
  /\ file' \in [Handles \cup {ROOT} -> HandleType(vol)]
  /\ RootIs(vol, file'[ROOT]) /\ file'[ROOT].pos = 0
  /\ \/ /\ cur' = NULL /\ i = 1 /\ Len(asked) = 1 /\ \A x \in Handles : file[x].open
        /\ \A x \in Handles : file'[x] = file[x]
     \/ /\ cur' \in Handles /\ At(vol, file'[cur'], e) /\ file'[cur'].pos = 0
        /\ cur' = cur \/ ~file[cur'].open
        /\ \A x \in Handles : x # cur' => IF x = cur THEN ~file'[x].open ELSE file'[x] = file[x]

(* No handle but these two is touched. *)
LEMMA OpenedIs ==
  ASSUME FInv, WithinLimits(vol), Searching, NEW i \in Nat, NEW e, FoundTo(i, e)
  PROVE  HandlesThen(i, e)
<1> USE HandlesAre
<1>1. Typed /\ RootIs(vol, file[ROOT]) /\ RootRests /\ SearchInv
  BY DEF FInv
<1>2. cur \in Handles \cup {ROOT}
  BY <1>1, SearchedIs
<1>3. PICK fs : fs = Closing(cur)
  OBVIOUS
<1>4. /\ fs \in [Handles \cup {ROOT} -> HandleType(vol)]
      /\ RootIs(vol, fs[ROOT]) /\ fs[ROOT].pos = 0
      /\ \A x \in Handles : IF x = cur THEN ~fs[x].open ELSE fs[x] = file[x]
  <2>1. CASE cur = ROOT
    BY <1>1, <1>3, <2>1, RewoundIs
  <2>2. CASE cur \in Handles
    <3>1. /\ fs \in [Handles \cup {ROOT} -> HandleType(vol)] /\ ~fs[cur].open
          /\ \A x \in Handles \cup {ROOT} : x # cur => fs[x] = file[x]
      BY <1>1, <1>3, <2>2, ClosedIs
    <3>2. cur # ROOT
      BY <2>2
    <3>3. file[ROOT].pos = 0
      BY <1>1, <3>2 DEF RootRests
    <3> QED BY <1>1, <3>1, <3>2, <3>3
  <2> QED BY <1>2, <2>1, <2>2
<1>5. CASE cur' = NULL /\ file' = fs /\ i = 1 /\ Len(asked) = 1 /\ \A x \in Handles : file[x].open
  <2>1. cur = ROOT
    BY <1>5 DEF FoundTo, Place
  <2>2. \A x \in Handles : file'[x] = file[x]
    BY <1>4, <1>5, <2>1
  <2> QED BY <1>4, <1>5, <2>2 DEF HandlesThen
<1>6. CASE OpensAs(vol, fs, file', cur', e)
  <2>1. PICK g \in HandleType(vol) : At(vol, g, e) /\ g.pos = 0 /\ file' = [fs EXCEPT ![cur'] = g]
    BY <1>6 DEF OpensAs
  <2>2. cur' \in Handles /\ ~fs[cur'].open
    BY <1>6 DEF OpensAs
  <2>3. cur' # ROOT
    BY <2>2
  <2>4. /\ file' \in [Handles \cup {ROOT} -> HandleType(vol)]
        /\ file'[ROOT] = fs[ROOT] /\ file'[cur'] = g
        /\ \A x \in Handles : x # cur' => file'[x] = fs[x]
    BY <1>4, <2>1, <2>2, <2>3
  <2>5. cur' = cur \/ ~file[cur'].open
    BY <1>4, <2>2
  <2>6. \A x \in Handles : x # cur' => IF x = cur THEN ~file'[x].open ELSE file'[x] = file[x]
    BY <1>4, <2>4
  <2> QED BY <1>4, <2>1, <2>2, <2>4, <2>5, <2>6 DEF HandlesThen
<1> QED BY <1>3, <1>5, <1>6 DEF FoundTo

(* A match: on to the next name, or the file is open. *)
LEMMA FoundKeeps ==
  ASSUME FInv, WithinLimits(vol), Errors = FALSE, Found
  PROVE  FInv'
<1> USE HandlesAre
<1>1. /\ Typed /\ CacheRight(vol, cache) /\ RootIs(vol, file[ROOT]) /\ RootRests
      /\ OpenFiles /\ SearchInv /\ ReadInv
  BY DEF FInv
<1>2. /\ Searching /\ vol' = vol /\ cache' = cache /\ left' = left /\ out' = out /\ asked' = asked
  BY DEF Found, EntryRead, Searching
<1>3. asked \in vol.paths /\ asked \in Seq(DOMAIN ShortName) /\ vol \in Volumes
  BY <1>1, <1>2, SearchedIs DEF Typed
<1>0. PICK i \in 1 .. Len(asked) : \E e : FoundTo(i, e)
  BY FoundIs
<1>4. PICK e : FoundTo(i, e)
  BY <1>0
<1>5. /\ file' \in [Handles \cup {ROOT} -> HandleType(vol)]
      /\ RootIs(vol, file'[ROOT]) /\ file'[ROOT].pos = 0
      /\ \/ /\ cur' = NULL /\ i = 1 /\ Len(asked) = 1 /\ \A x \in Handles : file[x].open
            /\ \A x \in Handles : file'[x] = file[x]
         \/ /\ cur' \in Handles /\ At(vol, file'[cur'], e) /\ file'[cur'].pos = 0
            /\ cur' = cur \/ ~file[cur'].open
            /\ \A x \in Handles : x # cur' => IF x = cur THEN ~file'[x].open ELSE file'[x] = file[x]
  <2>1. HandlesThen(i, e)
    BY <1>2, <1>4, OpenedIs
  <2> QED BY <2>1 DEF HandlesThen
<1>6. /\ Place(vol, file, cur, asked, i)
      /\ ShortName[asked[i]] \in DOMAIN vol.entry /\ e = vol.entry[ShortName[asked[i]]]
      /\ i # 1 => Holds(vol, ShortName[asked[i - 1]], ShortName[asked[i]])
      /\ path' = SubSeq(asked, i + 1, Len(asked))
      /\ IF i = Len(asked) THEN pc' = "idle" /\ ~e.dir ELSE pc' = "find"
  BY <1>4 DEF FoundTo
<1>7. Searching' <=> i # Len(asked)
  <2>1. Len(path') = Len(asked) - i
    BY <1>3, <1>6
  <2>2. i = Len(asked) => path' = << >>
    BY <1>3, <1>6
  <2>3. i # Len(asked) => Len(path') # 0
    BY <1>3, <2>1
  <2> QED BY <2>2, <2>3 DEF Searching
<1>8. Typed'
  BY <1>1, <1>2, <1>5, <1>6, <1>7 DEF Typed
<1>9. RootRests'
  BY <1>5 DEF RootRests
<1>10. OpenFiles'
  <2>1. SUFFICES ASSUME NEW x \in Handles, file'[x].open
                 PROVE  Has(vol, file'[x]) /\ (file'[x].dir => Searching' /\ x = cur')
    BY <1>2 DEF OpenFiles
  <2>2. CASE x = cur'
    <3>1. At(vol, file'[x], e)
      BY <1>5, <2>2
    <3>2. Has(vol, file'[x])
      BY <1>6, <3>1 DEF Has
    <3>3. file'[x].dir => ~(i = Len(asked))
      BY <1>6, <3>1 DEF At
    <3> QED BY <1>7, <2>2, <3>2, <3>3
  <2>3. CASE x # cur'
    <3>1. file'[x] = file[x] /\ x # cur
      <4>1. CASE cur' = NULL
        <5>1. cur = ROOT
          BY <1>5, <1>6, <4>1 DEF Place
        <5> QED BY <1>5, <4>1, <5>1
      <4>2. CASE cur' # NULL
        BY <1>5, <2>1, <2>3, <4>2
      <4> QED BY <4>1, <4>2
    <3>2. Has(vol, file[x]) /\ ~file[x].dir
      BY <1>1, <2>1, <3>1 DEF OpenFiles
    <3> QED BY <3>1, <3>2
  <2> QED BY <2>2, <2>3
<1>11. SearchInv'
  <2>1. SUFFICES ASSUME i # Len(asked) PROVE SearchInv'
    BY <1>7 DEF SearchInv
  <2>2. PICK j : j = i + 1
    OBVIOUS
  <2>3. j \in DOMAIN asked /\ j # 1 /\ j - 1 = i
    BY <1>3, <2>1, <2>2
  <2>4. cur' \in Handles /\ At(vol, file'[cur'], e) /\ file'[cur'].pos = 0
    BY <1>3, <1>5, <2>1
  <2>5. Place(vol, file', cur', asked, j)
    <3>1. Looked(vol, asked, j) = e
      BY <1>6, <2>3 DEF Looked
    <3>2. \A k \in 2 .. j - 1 : Holds(vol, ShortName[asked[k - 1]], ShortName[asked[k]])
      <4>1. \A k \in 2 .. i - 1 : Holds(vol, ShortName[asked[k - 1]], ShortName[asked[k]])
        BY <1>6 DEF Place
      <4>2. \A k \in 2 .. j - 1 : k \in 2 .. i - 1 \/ (k = i /\ i # 1)
        BY <2>3
      <4> QED BY <1>6, <4>1, <4>2
    <3> QED BY <1>6, <2>3, <2>4, <3>1, <3>2 DEF Place
  <2>6. NotIn(vol, asked, j, file'[cur'].pos)
    BY <2>4 DEF NotIn
  <2>7. path' = SubSeq(asked, j, Len(asked)) /\ pc' # "read"
    BY <1>6, <2>1, <2>2
  <2> QED BY <1>2, <1>3, <2>3, <2>5, <2>6, <2>7 DEF SearchInv
<1>12. ReadInv'
  BY <1>6 DEF ReadInv
<1>13. CacheRight(vol, cache)' /\ RootIs(vol, file[ROOT])'
  BY <1>1, <1>2, <1>5
<1> QED BY <1>8, <1>9, <1>10, <1>11, <1>12, <1>13 DEF FInv

(* What a step of FAT_Read copies out of the buffer. *)
CopiedOut(b, o, k, take, o2) ==
  /\ o2 \in Seq(Datum) /\ Len(o2) = Len(o) + take /\ Len(o) \in Nat
  /\ \A j \in 1 .. Len(o) : o2[j] = o[j]
  /\ \A j \in 1 .. take : o2[Len(o) + j] = b[k + j]

(* The rest of the buffer, or less, is put behind what is there. *)
LEMMA OutIs ==
  ASSUME NEW b \in Values, NEW o \in Seq(Datum), NEW k \in Nat, NEW take \in Nat, k + take <= Cells,
         NEW o2, o2 = o \o SubSeq(b, k + 1, k + take)
  PROVE  CopiedOut(b, o, k, take, o2)
<1> USE FatAssumption
<1>1. b \in Seq(Datum) /\ Len(b) = Cells
  <2>1. DOMAIN b = 1 .. Cells /\ \A j \in 1 .. Cells : b[j] \in Datum
    BY DEF Values
  <2> QED BY <2>1, Z3 DEF Values
<1>2. PICK s : s = SubSeq(b, k + 1, k + take)
  OBVIOUS
<1>3. s \in Seq(Datum) /\ Len(s) = take /\ \A j \in 1 .. take : s[j] = b[k + j]
  BY <1>1, <1>2
<1>4. o2 = o \o s
  BY <1>2
<1>5. o2 \in Seq(Datum) /\ Len(o2) = Len(o) + Len(s) /\ Len(o) \in Nat
  <2>1. s \in Seq(Datum)
    BY <1>3
  <2>2. o \o s \in Seq(Datum) /\ Len(o \o s) = Len(o) + Len(s)
    BY ONLY <2>1, o \in Seq(Datum), ConcatProperties, Zenon
  <2>3. Len(o) \in Nat
    BY ONLY o \in Seq(Datum)
  <2> QED BY ONLY <1>4, <2>2, <2>3
<1>6. \A j \in 1 .. Len(o) + Len(s) : o2[j] = IF j <= Len(o) THEN o[j] ELSE s[j - Len(o)]
  <2>1. s \in Seq(Datum)
    BY <1>3
  <2>2. \A j \in 1 .. Len(o) + Len(s) : (o \o s)[j] = IF j <= Len(o) THEN o[j] ELSE s[j - Len(o)]
    BY ONLY <2>1, o \in Seq(Datum), ConcatProperties, Zenon
  <2> QED BY ONLY <1>4, <2>2
<1>7. ASSUME NEW j \in 1 .. take PROVE o2[Len(o) + j] = b[k + j]
  <2>1. PICK l \in Nat : l = Len(o) + j
    BY <1>5
  <2>2. l \in 1 .. Len(o) + Len(s) /\ ~(l <= Len(o)) /\ l - Len(o) = j
    BY <1>3, <1>5, <2>1
  <2>3. o2[l] = s[j]
    BY <1>6, <2>2
  <2> QED BY <1>3, <2>1, <2>3
<1>8. ASSUME NEW j \in 1 .. Len(o) PROVE o2[j] = o[j]
  BY <1>3, <1>5, <1>6
<1> QED BY <1>3, <1>5, <1>7, <1>8 DEF CopiedOut

(* A step of a search in the root directory. *)
LEMMA RootStepKeeps ==
  ASSUME FInv, WithinLimits(vol), ReadStep, Searching, cur = ROOT
  PROVE  FInv'
<1> USE HandlesAre, FatAssumption
<1>1. /\ Typed /\ CacheRight(vol, cache) /\ RootIs(vol, file[ROOT]) /\ RootRests
      /\ OpenFiles /\ SearchInv /\ ReadInv
  BY DEF FInv
<1>2. /\ pc = "read" /\ left > 0 /\ vol' = vol /\ pc' = pc /\ cur' = cur /\ path' = path /\ asked' = asked
  BY DEF ReadStep
<1>3. /\ vol \in Volumes /\ left \in Nat /\ out \in Seq(Datum) /\ Searching'
      /\ file \in [Handles \cup {ROOT} -> HandleType(vol)]
  BY <1>1, <1>2 DEF Typed, Searching
<1>4. /\ asked \in vol.paths /\ asked \in Seq(DOMAIN ShortName) /\ file[cur].pos \in Nat
  BY <1>1, SearchedIs
<1>5. PICK i \in 1 .. Len(asked) :
        /\ path = SubSeq(asked, i, Len(asked)) /\ Place(vol, file, cur, asked, i)
        /\ EntryOut(vol, asked, i, file[cur].pos, out, left)
        /\ NotIn(vol, asked, i, file[cur].pos - Len(out))
  BY <1>1, <1>2, SearchedIs
<1>6. i = 1
  BY <1>5 DEF Place
<1>7. PICK f \in HandleType(vol) : f = file[ROOT]
  BY <1>3
<1>24. PICK m \in Nat : m = f.pos
  <2>1. cur = ROOT
    OBVIOUS
  <2> QED BY <1>4, <1>7, <2>1
<1>8. left = 1 /\ Len(out) = 0
  <2>1. Len(out) + left <= 1 /\ Len(out) \in Nat
    BY <1>3, <1>5 DEF EntryOut
  <2> QED BY <1>2, <1>3, <2>1
<1>9. m + 1 < Cells
  <2>1. file[cur].pos - Len(out) = m
    BY <1>7, <1>24, <1>8
  <2>2. NotIn(vol, asked, 1, m)
    BY <1>5, <1>6, <2>1
  <2> QED BY <1>3, <1>4, <2>2, WantedAhead
<1>10. m % Cells = m
  BY <1>9, Remains
<1>11. (m + 1) % Word = m + 1
  <2>1. Cells <= Word
    BY Remains
  <2>2. PICK x \in Nat : x = m + 1 /\ x < Word
    BY <1>9, <2>1
  <2>3. x % Word = x
    BY <2>2, Remains
  <2> QED BY <2>2, <2>3
<1>12. f.buffer = vol.sectors[LayoutOf(vol).root] /\ f.buffer \in Values
  BY <1>1, <1>3, <1>7, <1>24, LimitsAre DEF RootIs
<1>13. PICK g : g = [f EXCEPT !.pos = m + 1]
  OBVIOUS
<1>14. /\ out' = out \o SubSeq(f.buffer, m + 1, m + 1) /\ file' = [file EXCEPT ![ROOT] = g]
       /\ left' = 0 /\ cache' = cache
  <2>1. LesserOf(left, Cells - (f.pos % Cells)) = 1
    BY <1>7, <1>24, <1>8, <1>9, <1>10 DEF LesserOf
  <2>2. 1 < Cells - (f.pos % Cells)
    BY <1>7, <1>24, <1>9, <1>10
  <2>3. [f EXCEPT !.pos = (@ + 1) % Word] = g
    BY <1>7, <1>24, <1>11, <1>13
  <2>4. f.pos % Cells = m
    BY <1>7, <1>24, <1>10
  <2> QED BY <1>7, <1>24, <2>1, <2>2, <2>3, <2>4 DEF ReadStep
<1>15. out' \in Seq(Datum) /\ Len(out') = 1 /\ out'[1] = f.buffer[m + 1]
  <2>1. PICK t \in Nat : t = 1 /\ m + t <= Cells
    BY <1>9
  <2>2. out' = out \o SubSeq(f.buffer, m + 1, m + t)
    BY <1>14, <2>1
  <2>6. CopiedOut(f.buffer, out, m, t, out')
    BY <1>3, <1>12, <2>1, <2>2, OutIs
  <2>3. /\ out' \in Seq(Datum) /\ Len(out') = Len(out) + t
        /\ \A j \in 1 .. t : out'[Len(out) + j] = f.buffer[m + j]
    BY <2>6 DEF CopiedOut
  <2>4. 1 \in 1 .. t /\ Len(out) + 1 = 1
    BY <1>8, <2>1
  <2>5. out'[Len(out) + 1] = f.buffer[m + 1]
    BY <2>3, <2>4
  <2> QED BY <1>8, <2>1, <2>3, <2>4, <2>5
<1>16. /\ g \in HandleType(vol) /\ g.pos = m + 1 /\ g.buffer = f.buffer /\ g.size = f.size /\ g.dir = f.dir
       /\ g.open = f.open /\ g.first = f.first /\ g.cluster = f.cluster /\ g.sector = f.sector
  <2>1. m + 1 \in 0 .. Word - 1
    <3>1. Cells <= Word
      BY Remains
    <3> QED BY <1>9, <3>1
  <2> QED BY <1>7, <1>24, <1>13, <2>1 DEF HandleType
<1>17. RootIs(vol, g)
  <2>1. /\ f.size = vol.bs.entries /\ f.dir = TRUE /\ f.open = TRUE /\ f.first = LayoutOf(vol).root
        /\ f.cluster = LayoutOf(vol).root /\ f.sector = 0
    BY <1>1, <1>7, <1>24 DEF RootIs
  <2>2. g = [buffer |-> vol.sectors[LayoutOf(vol).root], pos |-> g.pos, size |-> vol.bs.entries,
             dir |-> TRUE, open |-> TRUE, first |-> LayoutOf(vol).root,
             cluster |-> LayoutOf(vol).root, sector |-> 0]
    BY <1>12, <1>16, <2>1 DEF HandleType
  <2>3. g.pos < Cells
    BY <1>9, <1>16
  <2> QED BY <2>2, <2>3 DEF RootIs
<1>18. /\ file' \in [Handles \cup {ROOT} -> HandleType(vol)] /\ file'[ROOT] = g
       /\ \A x \in Handles : file'[x] = file[x]
  BY <1>3, <1>14, <1>16
<1>19. Typed'
  BY <1>1, <1>2, <1>3, <1>14, <1>15, <1>18 DEF Typed
<1>20. RootRests' /\ OpenFiles'
  BY <1>1, <1>2, <1>3, <1>18 DEF RootRests, OpenFiles
<1>21. SearchInv'
  <2>1. Place(vol, file', cur, asked, i)
    BY <1>5, <1>6, <1>18 DEF Place
  <2>2. EntryOut(vol, asked, i, m + 1, out', 0)
    <3>1. out'[1] = Cell(vol, asked, i, m + 1)
      BY <1>6, <1>12, <1>15 DEF Cell
    <3>2. Len(out') + 0 = 1 /\ Len(out') + 0 <= 1 /\ Len(out') <= m + 1
      BY <1>15
    <3> QED BY ONLY <1>6, <3>1, <3>2 DEF EntryOut
  <2>3. NotIn(vol, asked, i, (m + 1) - Len(out'))
    <3>1. (m + 1) - Len(out') = m /\ file[cur].pos - Len(out) = m
      BY <1>7, <1>24, <1>8, <1>15
    <3> QED BY <1>5, <3>1
  <2>4. file'[cur'].pos = m + 1
    BY <1>2, <1>16, <1>18
  <2>5. i \in DOMAIN asked
    BY <1>4
  <2> QED BY <1>2, <1>4, <1>5, <1>14, <2>1, <2>2, <2>3, <2>4, <2>5 DEF SearchInv
<1>22. ReadInv'
  BY <1>3 DEF ReadInv
<1>23. CacheRight(vol, cache)' /\ RootIs(vol, file[ROOT])'
  BY <1>1, <1>2, <1>14, <1>17, <1>18
<1> QED BY <1>19, <1>20, <1>21, <1>22, <1>23 DEF FInv

(* What a step brings is the entry's next cells. *)
Brings(v, f, e, o, take, o2) ==
  /\ o2 \in Seq(Datum) /\ Len(o2) = Len(o) + take /\ Len(o) \in Nat
  /\ \A j \in 1 .. Len(o) : o2[j] = o[j]
  /\ \A j \in 1 .. take : o2[Len(o) + j] = CellAt(v, e.chain, f.pos + j)

(* For the buffer is the sector the position is in. *)
LEMMA StepBrings ==
  ASSUME NEW v \in Volumes, NEW n \in DOMAIN v.entry, NEW e, e = v.entry[n],
         NEW f, At(v, f, e), f.pos < CellsOf(v, e),
         NEW take \in Nat, NEW f2, NEW o \in Seq(Datum), NEW o2, NEW l, NEW l2,
         StepTo(v, f, e, take, f2, o, o2, l, l2)
  PROVE  Brings(v, f, e, o, take, o2)
<1> USE FatAssumption
<1>1. PICK p \in Nat : p = f.pos
  BY DEF At
<1>2. PICK k \in Nat : k = p % Cells /\ k < Cells
  OBVIOUS
<1>3. k + take <= Cells /\ o2 = o \o SubSeq(f.buffer, k + 1, k + take) /\ f.buffer \in Values
  BY <1>1, <1>2 DEF StepTo, At
<1>4. CopiedOut(f.buffer, o, k, take, o2)
  BY <1>3, OutIs
<1>5. ASSUME NEW j \in 1 .. take PROVE f.buffer[k + j] = CellAt(v, e.chain, f.pos + j)
  <2>1. PICK y \in 1 .. Cells : y = k + j
    BY <1>3
  <2>2. CellAt(v, e.chain, f.pos - (f.pos % Cells) + y) = f.buffer[y]
    BY BufferHas
  <2>3. f.pos - (f.pos % Cells) + y = f.pos + j
    BY <1>1, <1>2, <2>1
  <2> QED BY <2>1, <2>2, <2>3
<1> QED BY <1>4, <1>5 DEF CopiedOut, Brings

(* A step of a search in an entry. *)
LEMMA EntryStepKeeps ==
  ASSUME FInv, WithinLimits(vol), Errors = FALSE, ReadStep, Searching, cur # ROOT
  PROVE  FInv'
<1> USE HandlesAre, FatAssumption
<1>1. /\ Typed /\ CacheRight(vol, cache) /\ RootIs(vol, file[ROOT]) /\ RootRests
      /\ OpenFiles /\ SearchInv /\ ReadInv
  BY DEF FInv
<1>2. /\ pc = "read" /\ left > 0 /\ vol' = vol /\ pc' = pc /\ cur' = cur /\ path' = path /\ asked' = asked
  BY DEF ReadStep
<1>3. /\ vol \in Volumes /\ left \in Nat /\ out \in Seq(Datum) /\ Searching'
      /\ file \in [Handles \cup {ROOT} -> HandleType(vol)]
  BY <1>1, <1>2 DEF Typed, Searching
<1>4. /\ asked \in vol.paths /\ asked \in Seq(DOMAIN ShortName) /\ file[cur].pos \in Nat
  BY <1>1, SearchedIs
<1>5. PICK i \in 1 .. Len(asked) :
        /\ path = SubSeq(asked, i, Len(asked)) /\ Place(vol, file, cur, asked, i)
        /\ EntryOut(vol, asked, i, file[cur].pos, out, left)
        /\ NotIn(vol, asked, i, file[cur].pos - Len(out))
  BY <1>1, <1>2, SearchedIs
<1>6. i # 1 /\ cur \in Handles
  BY <1>5 DEF Place
<1>7. PICK f \in HandleType(vol) : f = file[cur]
  BY <1>3, <1>6
<1>8. PICK e : e = Looked(vol, asked, i)
  OBVIOUS
<1>9. PICK n \in DOMAIN vol.entry : e = vol.entry[n] /\ At(vol, f, e)
  BY <1>5, <1>6, <1>7, <1>8 DEF Place, Looked
<1>10. left = 1 /\ Len(out) = 0 /\ f.pos < CellsOf(vol, e)
  <2>1. Len(out) + left <= 1 /\ Len(out) \in Nat
    BY <1>3, <1>5 DEF EntryOut
  <2>2. left = 1 /\ Len(out) = 0
    BY <1>2, <1>3, <2>1
  <2>3. f.pos - Len(out) < CellsOf(vol, e)
    BY <1>5, <1>6, <1>7, <1>8, <2>2 DEF EntryOut
  <2> QED BY <1>4, <1>7, <2>2, <2>3
<1>11. left + f.pos <= CellsOf(vol, e) /\ CellsOf(vol, e) \in Nat /\ f.pos \in Nat
  BY <1>3, <1>9, <1>10, RestIs
<1>12. /\ CacheRight(vol, cache')
       /\ \E take, f2 : /\ StepTo(vol, f, e, take, f2, out, out', left, left')
                        /\ file' = [file EXCEPT ![cur] = f2]
  BY <1>1, <1>3, <1>7, <1>9, <1>11, StepIs
<1>13. PICK take, f2 : /\ StepTo(vol, f, e, take, f2, out, out', left, left')
                       /\ file' = [file EXCEPT ![cur] = f2]
  BY <1>12
<1>14. /\ take = 1 /\ f2 \in HandleType(vol) /\ At(vol, f2, e) /\ f2.pos = f.pos + 1 /\ left' = 0
  BY <1>10, <1>13 DEF StepTo
<1>15. PICK t \in Nat : t = take
  BY <1>14
<1>16. Brings(vol, f, e, out, t, out')
  BY <1>3, <1>9, <1>10, <1>13, <1>15, StepBrings
<1>17. out' \in Seq(Datum) /\ Len(out') = 1 /\ out'[1] = CellAt(vol, e.chain, f.pos + 1)
  <2>1. 1 \in 1 .. t /\ Len(out) + 1 = 1
    BY <1>10, <1>14, <1>15
  <2>2. out'[Len(out) + 1] = CellAt(vol, e.chain, f.pos + 1)
    BY <1>16, <2>1 DEF Brings
  <2> QED BY <1>10, <1>14, <1>15, <1>16, <2>1, <2>2 DEF Brings
<1>18. /\ file' \in [Handles \cup {ROOT} -> HandleType(vol)] /\ file'[ROOT] = file[ROOT]
       /\ file'[cur] = f2 /\ \A x \in Handles : x # cur => file'[x] = file[x]
  BY <1>3, <1>6, <1>13, <1>14
<1>19. Typed'
  BY <1>1, <1>2, <1>3, <1>14, <1>17, <1>18 DEF Typed
<1>20. RootRests'
  BY <1>1, <1>2, <1>6, <1>18 DEF RootRests
<1>21. OpenFiles'
  <2>1. SUFFICES ASSUME NEW x \in Handles, file'[x].open
                 PROVE  Has(vol, file'[x]) /\ (file'[x].dir => x = cur)
    BY <1>2, <1>3 DEF OpenFiles
  <2>2. CASE x = cur
    BY <1>9, <1>14, <1>18, <2>2 DEF Has
  <2>3. CASE x # cur
    BY <1>1, <1>18, <2>1, <2>3 DEF OpenFiles
  <2> QED BY <2>2, <2>3
<1>22. SearchInv'
  <2>1. PICK m \in Nat : m = f.pos
    BY <1>11
  <2>2. Place(vol, file', cur, asked, i)
    BY <1>5, <1>6, <1>8, <1>14, <1>18 DEF Place
  <2>3. EntryOut(vol, asked, i, m + 1, out', 0)
    <3>1. out'[1] = Cell(vol, asked, i, m + 1)
      BY <1>6, <1>8, <1>17, <2>1 DEF Cell
    <3>2. Len(out') + 0 <= 1 /\ Len(out') <= m + 1 /\ Len(out') + 0 # 0 /\ m + 1 - Len(out') = m
      BY <1>17
    <3>3. m < CellsOf(vol, Looked(vol, asked, i))
      BY <1>8, <1>10, <2>1
    <3> QED BY <1>6, <3>1, <3>2, <3>3 DEF EntryOut
  <2>4. NotIn(vol, asked, i, (m + 1) - Len(out'))
    <3>1. (m + 1) - Len(out') = m /\ file[cur].pos - Len(out) = m
      BY <1>7, <1>10, <1>17, <2>1
    <3> QED BY <1>5, <3>1
  <2>5. file'[cur'].pos = m + 1
    BY <1>2, <1>14, <1>18, <2>1
  <2>6. i \in DOMAIN asked
    BY <1>4
  <2> QED BY <1>2, <1>4, <1>5, <1>14, <2>2, <2>3, <2>4, <2>5, <2>6 DEF SearchInv
<1>23. ReadInv'
  BY <1>3 DEF ReadInv
<1>24. CacheRight(vol, cache)' /\ RootIs(vol, file[ROOT])'
  BY <1>1, <1>2, <1>12, <1>18
<1> QED BY <1>19, <1>20, <1>21, <1>22, <1>23, <1>24 DEF FInv

(* A handle after it has moved on, by what was copied. *)
Advances(f, f2, o, o2) ==
  f2.open /\ f2.first = f.first /\ f2.dir = f.dir /\ f2.pos - Len(o2) = f.pos - Len(o)

(* A step of a caller's read. *)
LEMMA CallerStepKeeps ==
  ASSUME FInv, WithinLimits(vol), Errors = FALSE, ReadStep, ~Searching
  PROVE  FInv' /\ Advances(file[cur], file'[cur], out, out')
<1> USE HandlesAre, FatAssumption
<1>1. /\ Typed /\ CacheRight(vol, cache) /\ RootIs(vol, file[ROOT]) /\ RootRests
      /\ OpenFiles /\ SearchInv /\ ReadInv
  BY DEF FInv
<1>2. /\ pc = "read" /\ left > 0 /\ vol' = vol /\ pc' = pc /\ cur' = cur /\ path' = path /\ asked' = asked
  BY DEF ReadStep
<1>3. /\ vol \in Volumes /\ left \in Nat /\ out \in Seq(Datum) /\ ~Searching'
      /\ file \in [Handles \cup {ROOT} -> HandleType(vol)]
  BY <1>1, <1>2 DEF Typed, Searching
<1>4. cur \in Handles /\ cur # ROOT
  BY <1>1, <1>2 DEF ReadInv
<1>5. PICK n \in DOMAIN vol.entry : Copied(vol, file[cur], vol.entry[n], out, left)
  BY <1>1, <1>2 DEF ReadInv
<1>6. PICK f \in HandleType(vol) : f = file[cur]
  BY <1>3, <1>4
<1>7. PICK e : e = vol.entry[n]
  OBVIOUS
<1>8. Copied(vol, f, e, out, left)
  BY <1>5, <1>6, <1>7
<1>9. /\ At(vol, f, e) /\ ~e.dir
      /\ f.pos - Len(out) >= 0 /\ left + f.pos <= f.size
      /\ \A k \in 1 .. Len(out) : out[k] = CellAt(vol, e.chain, f.pos - Len(out) + k)
      /\ \E m \in Counts : left + Len(out) = LesserOf(m, f.size - (f.pos - Len(out)))
  BY <1>8 DEF Copied
<1>10. f.pos \in Nat /\ CellsOf(vol, e) \in Nat /\ f.size = CellsOf(vol, e)
  BY <1>3, <1>7, <1>9, RestIs
<1>11. left + f.pos <= CellsOf(vol, e) /\ f.pos < CellsOf(vol, e)
  BY <1>2, <1>3, <1>9, <1>10
<1>12. /\ CacheRight(vol, cache')
       /\ \E take, f2 : /\ StepTo(vol, f, e, take, f2, out, out', left, left')
                        /\ file' = [file EXCEPT ![cur] = f2]
  BY <1>1, <1>3, <1>4, <1>6, <1>7, <1>9, <1>11, StepIs
<1>13. PICK take, f2 : /\ StepTo(vol, f, e, take, f2, out, out', left, left')
                       /\ file' = [file EXCEPT ![cur] = f2]
  BY <1>12
<1>14. /\ take \in 1 .. left /\ f2 \in HandleType(vol) /\ At(vol, f2, e) /\ f2.pos = f.pos + take
       /\ left' = left - take
  BY <1>13 DEF StepTo
<1>15. PICK t \in Nat : t = take
  BY <1>3, <1>14
<1>16. Brings(vol, f, e, out, t, out')
  BY <1>3, <1>7, <1>9, <1>11, <1>13, <1>15, StepBrings
<1>17. /\ out' \in Seq(Datum) /\ Len(out') = Len(out) + t /\ Len(out) \in Nat
       /\ \A j \in 1 .. Len(out) : out'[j] = out[j]
       /\ \A j \in 1 .. t : out'[Len(out) + j] = CellAt(vol, e.chain, f.pos + j)
  BY <1>16 DEF Brings
<1>18. /\ file' \in [Handles \cup {ROOT} -> HandleType(vol)] /\ file'[ROOT] = file[ROOT]
       /\ file'[cur] = f2 /\ \A x \in Handles : x # cur => file'[x] = file[x]
  BY <1>3, <1>4, <1>13, <1>14
<1>19. left' \in Nat
  BY <1>3, <1>14
<1>20. Typed'
  BY <1>1, <1>2, <1>3, <1>17, <1>18, <1>19 DEF Typed
<1>21. RootRests'
  BY <1>1, <1>2, <1>3, <1>18 DEF RootRests
<1>22. OpenFiles'
  <2>1. SUFFICES ASSUME NEW x \in Handles, file'[x].open
                 PROVE  Has(vol, file'[x]) /\ ~file'[x].dir
    BY <1>2, <1>3 DEF OpenFiles
  <2>2. CASE x = cur
    <3>1. file'[x] = f2 /\ f2.dir = e.dir
      BY <1>14, <1>18, <2>2 DEF At
    <3> QED BY <1>7, <1>9, <1>14, <3>1 DEF Has
  <2>3. CASE x # cur
    BY <1>1, <1>3, <1>18, <2>1, <2>3 DEF OpenFiles
  <2> QED BY <2>2, <2>3
<1>23. ReadInv'
  <2>1. PICK at \in Nat : at = f.pos - Len(out)
    <3>1. f.pos - Len(out) \in Nat
      BY <1>9, <1>10, <1>17
    <3> QED BY <3>1
  <2>2. f2.pos - Len(out') = at
    BY <1>10, <1>14, <1>15, <1>17, <2>1
  <2>3. f2.size = f.size
    BY <1>9, <1>14 DEF At
  <2>4. left' + f2.pos <= f2.size
    BY <1>3, <1>9, <1>10, <1>14, <2>3
  <2>5. ASSUME NEW k \in 1 .. Len(out') PROVE out'[k] = CellAt(vol, e.chain, at + k)
    <3>1. CASE k <= Len(out)
      <4>1. k \in 1 .. Len(out)
        BY <1>17, <3>1
      <4> QED BY <1>9, <1>17, <2>1, <4>1
    <3>2. CASE ~(k <= Len(out))
      <4>1. PICK j \in 1 .. t : k = Len(out) + j
        <5>1. k - Len(out) \in 1 .. t
          BY <1>17, <3>2
        <5>2. k = Len(out) + (k - Len(out))
          BY <1>17
        <5> QED BY <5>1, <5>2
      <4>2. at + k = f.pos + j
        BY <1>10, <1>17, <2>1, <4>1
      <4> QED BY <1>17, <4>1, <4>2
    <3> QED BY <3>1, <3>2
  <2>6. \E m \in Counts : left' + Len(out') = LesserOf(m, f2.size - at)
    <3>1. left' + Len(out') = left + Len(out)
      BY <1>3, <1>14, <1>15, <1>17
    <3> QED BY <1>9, <2>1, <2>3, <3>1
  <2>7. Copied(vol, f2, e, out', left')
    BY <1>9, <1>14, <2>2, <2>1, <2>4, <2>5, <2>6 DEF Copied
  <2> QED BY <1>2, <1>4, <1>7, <1>18, <2>7 DEF ReadInv
<1>24. SearchInv'
  BY <1>3 DEF SearchInv
<1>25. CacheRight(vol, cache)' /\ RootIs(vol, file[ROOT])'
  BY <1>1, <1>2, <1>12, <1>18
<1>26. Advances(file[cur], file'[cur], out, out')
  <2>1. f2.pos - Len(out') = f.pos - Len(out)
    BY <1>10, <1>14, <1>15, <1>17
  <2>2. f2.open /\ f2.first = f.first /\ f2.dir = f.dir
    BY <1>9, <1>14 DEF At
  <2> QED BY <1>6, <1>18, <2>1, <2>2 DEF Advances
<1>27. FInv'
  BY <1>20, <1>21, <1>22, <1>23, <1>24, <1>25 DEF FInv
<1> QED BY <1>26, <1>27

(* All steps. *)
LEMMA FInvNext ==
  ASSUME FInv, WithinLimits(vol), Errors = FALSE, [Next]_vars
  PROVE  FInv' /\ vol' = vol
<1>1. CASE UNCHANGED vars
  <2>1. /\ vol' = vol /\ file' = file /\ cache' = cache /\ pc' = pc /\ cur' = cur
        /\ left' = left /\ out' = out /\ path' = path /\ asked' = asked
    BY <1>1 DEF vars
  <2> QED BY <2>1 DEF FInv, Typed, Searching, RootRests, OpenFiles, SearchInv, ReadInv
<1>2. CASE ReadEntry
  BY <1>2, ReadEntryKeeps DEF ReadEntry
<1>3. CASE NoMatch
  BY <1>3, NoMatchKeeps DEF NoMatch
<1>4. CASE NotFound
  BY <1>4, NotFoundKeeps DEF NotFound
<1>5. CASE Found
  BY <1>5, FoundKeeps DEF Found
<1>6. CASE ReadStep
  BY <1>6, RootStepKeeps, EntryStepKeeps, CallerStepKeeps DEF ReadStep
<1>7. CASE ReadReturn
  BY <1>7, ReadReturnKeeps DEF ReadReturn
<1>8. CASE \E p \in vol.paths : FAT_Open(p)
  BY <1>8, OpenKeeps DEF FAT_Open
<1>9. CASE \E h \in Handles : FAT_Close(h)
  BY <1>9, CloseKeeps DEF FAT_Close
<1>10. CASE \E h \in Handles : \E n \in Counts : FAT_Read(h, n)
  BY <1>10, ReadKeeps DEF FAT_Read
<1> QED BY <1>1, <1>2, <1>3, <1>4, <1>5, <1>6, <1>7, <1>8, <1>9, <1>10 DEF Next, Inside

--------------------------------------------------------------------------------
(* What follows. *)

(* The handle of a caller: its entry is a file, its position in it, and    *)
(* its buffer the sector there.                                            *)
LEMMA GivenIs ==
  ASSUME FInv, NEW h \in Given
  PROVE  /\ h \in Handles /\ file[h].open /\ h # ROOT
         /\ \E n \in DOMAIN vol.entry :
              EntryOf(file[h]) = vol.entry[n] /\ At(vol, file[h], vol.entry[n]) /\ ~vol.entry[n].dir
<1>1. Typed /\ OpenFiles
  BY DEF FInv
<1>2. h \in Handles /\ file[h].open /\ ~(Searching /\ h = cur)
  BY DEF Given
<1>3. PICK n \in DOMAIN vol.entry : At(vol, file[h], vol.entry[n]) /\ ~file[h].dir
  BY <1>1, <1>2 DEF OpenFiles, Has
<1>4. file[h].first = vol.entry[n].first /\ file[h].dir = vol.entry[n].dir
  BY <1>3 DEF At
<1>5. EntryOf(file[h]) = vol.entry[n]
  BY <1>1, <1>4, EntryIs DEF Typed
<1> QED BY <1>2, <1>3, <1>4, <1>5, HandlesAre

(* The text of an entry is its cells. *)
LEMMA TextIs ==
  ASSUME vol \in Volumes, NEW n \in DOMAIN vol.entry, NEW e, e = vol.entry[n]
  PROVE  /\ Len(Text(e)) = e.size /\ e.size \in Nat
         /\ \A k \in 1 .. e.size : Text(e)[k] = CellAt(vol, e.chain, k)
<1>1. e.size \in Nat
  BY EntryTyped
<1>2. Text(e) = [i \in 1 .. e.size |-> CellAt(vol, e.chain, i)]
  BY DEF Text
<1>3. \A k \in 1 .. e.size : Text(e)[k] = CellAt(vol, e.chain, k)
  BY <1>2
<1> HIDE DEF Text
<1>4. DOMAIN Text(e) = 1 .. e.size
  BY <1>2
<1>5. Len(Text(e)) = e.size
  <2>1. \A k \in 1 .. e.size : Text(e)[k] \in {Text(e)[j] : j \in 1 .. e.size}
    OBVIOUS
  <2>2. PICK S : S = {Text(e)[j] : j \in 1 .. e.size}
    OBVIOUS
  <2>3. Text(e) \in [1 .. e.size -> S]
    BY <1>2, <1>4, <2>1, <2>2
  <2>4. Text(e) \in Seq(S)
    BY <1>1, <2>3, Z3
  <2> QED BY <1>1, <1>4, <2>4, LenProperties
<1> QED BY <1>1, <1>3, <1>5

(* The variables have their types. *)
LEMMA FInvTypes == FInv => TypeOK
<1> USE HandlesAre, FatAssumption
<1> SUFFICES ASSUME FInv PROVE TypeOK
  OBVIOUS
<1>1. Typed /\ CacheRight(vol, cache)
  BY DEF FInv
<1>2. \A h \in Handles \cup {ROOT} : file[h] \in HandleType(vol)
  BY <1>1 DEF Typed
<1>3. \A h \in Handles \cup {ROOT} :
        /\ file[h].open \in BOOLEAN /\ file[h].dir \in BOOLEAN
        /\ file[h].pos \in 0 .. (Word - 1) /\ file[h].size \in Nat
        /\ file[h].sector \in 0 .. (vol.bs.spc - 1)
        /\ file[h].buffer \in Values \cup {<< >>}
  BY <1>2 DEF HandleType
<1>4. \A b \in Values : Len(b) = Cells
  BY FullIs
<1>5. DOMAIN cache.entries = 0 .. (CacheSize * FatBytes - 1)
  BY <1>1 DEF CacheRight, NoCache
<1> QED BY <1>1, <1>3, <1>4, <1>5 DEF Typed, TypeOK

(* The buffer of every file a caller has is its sector. *)
LEMMA FInvBuffers == FInv => BufferCurrent
<1> USE FatAssumption
<1> SUFFICES ASSUME FInv PROVE BufferCurrent
  OBVIOUS
<1>1. vol \in Volumes /\ TypeOK
  BY FInvTypes DEF TypeOK
<1>2. ASSUME NEW h \in Given, file[h].pos < file[h].size, NEW k \in 1 .. Cells,
             file[h].pos - (file[h].pos % Cells) + k <= Len(Text(EntryOf(file[h])))
      PROVE  file[h].buffer[k] = Text(EntryOf(file[h]))[file[h].pos - (file[h].pos % Cells) + k]
  <2>1. PICK n \in DOMAIN vol.entry :
          EntryOf(file[h]) = vol.entry[n] /\ At(vol, file[h], vol.entry[n]) /\ ~vol.entry[n].dir
    BY <1>2, GivenIs
  <2>2. PICK e : e = vol.entry[n]
    OBVIOUS
  <2>3. PICK f : f = file[h]
    OBVIOUS
  <2>4. At(vol, f, e) /\ ~e.dir /\ EntryOf(f) = e
    BY <2>1, <2>2, <2>3
  <2>5. f.pos \in Nat /\ f.size = CellsOf(vol, e) /\ f.size = e.size
    BY <1>1, <2>2, <2>4, RestIs DEF At
  <2>6. /\ Len(Text(e)) = e.size /\ e.size \in Nat
        /\ \A j \in 1 .. e.size : Text(e)[j] = CellAt(vol, e.chain, j)
    BY <1>1, <2>2, TextIs
  <2>7. CellAt(vol, e.chain, f.pos - (f.pos % Cells) + k) = f.buffer[k]
    <3>1. f.pos < CellsOf(vol, e)
      BY <1>2, <2>3, <2>5
    <3> QED BY ONLY <1>1, <1>2, <2>2, <2>4, <3>1, BufferHas
  <2>8. PICK p \in Nat : p = f.pos
    BY <2>5
  <2>9. p - (p % Cells) \in Nat
    <3>1. PICK q \in Nat, r \in Nat : q = p \div Cells /\ r = p % Cells /\ p = Cells * q + r
      OBVIOUS
    <3>2. Cells * q \in Nat
      OBVIOUS
    <3> QED BY <3>1, <3>2
  <2>10. PICK j \in Nat : j = f.pos - (f.pos % Cells) + k /\ j >= 1
    BY <2>8, <2>9
  <2>11. j \in 1 .. e.size
    BY <1>2, <2>3, <2>4, <2>6, <2>10
  <2> QED BY <2>3, <2>4, <2>6, <2>7, <2>10, <2>11
<1> QED BY <1>1, <1>2 DEF BufferCurrent

(* On a disk that can be read, the buffer of a file a caller has is the    *)
(* sector its position is in: FAT_Read does not lose its place in a chain  *)
(* (fat.c:301), whatever goes through the cache in between.                *)
THEOREM BuffersAreCurrent ==
  ASSUME Errors = FALSE, \A v \in Volumes : WithinLimits(v)
  PROVE  Spec => []BufferCurrent
<1>1. Init => FInv
  BY FInvInit DEF Init
<1>2. FInv /\ [Next]_vars => FInv'
  BY FInvNext DEF FInv, Typed
<1>3. FInv => BufferCurrent
  BY FInvBuffers
<1> QED BY <1>1, <1>2, <1>3, PTL DEF Spec

--------------------------------------------------------------------------------
(* The streams of module FileStream. *)

(* The text of a handle's entry, and its stream if it is a caller's. *)
TextIn(v, f) ==
  LET e == v.entry[CHOOSE n \in DOMAIN v.entry :
                     v.entry[n].first = f.first /\ v.entry[n].dir = f.dir]
  IN  [i \in 1 .. e.size |-> CellAt(v, e.chain, i)]

IsGiven(f, p, c, h) == f.open /\ ~(p # << >> /\ h = c)

Back(k, c, o, h) == IF k = "read" /\ h = c THEN Len(o) ELSE 0

StreamOf(v, f, given, back) ==
  IF given THEN [text |-> TextIn(v, f), pos |-> f.pos - back] ELSE [text |-> << >>, pos |-> -1]

(* The streams before and after a step. *)
LEMMA StreamsAre ==
  /\ Streams = [h \in Handles |->
                  StreamOf(vol, file[h], IsGiven(file[h], path, cur, h), Back(pc, cur, out, h))]
  /\ Streams' = [h \in Handles |->
                   StreamOf(vol', file'[h], IsGiven(file'[h], path', cur', h), Back(pc', cur', out', h))]
  BY DEF Streams, StreamOf, TextIn, IsGiven, Back, Text, EntryOf, Given, Searching

(* What a file holds does not change. *)
LEMMA TextsStay == vol' = vol => Texts' = Texts
  BY DEF Texts, Text

(* The stream of a handle stays as it is. *)
Same(h) ==
  /\ IsGiven(file'[h], path', cur', h) <=> IsGiven(file[h], path, cur, h)
  /\ IsGiven(file[h], path, cur, h) =>
       /\ file'[h].first = file[h].first /\ file'[h].dir = file[h].dir
       /\ file'[h].pos - Back(pc', cur', out', h) = file[h].pos - Back(pc, cur, out, h)

(* It does if the handle is neither used nor searched. *)
LEMMA OthersSame ==
  ASSUME NEW h \in Handles, file'[h] = file[h], h # cur \/ pc # "read", h # cur' \/ pc' # "read",
         h # cur \/ path = << >>, h # cur' \/ path' = << >>
  PROVE  Same(h)
  BY DEF Same, IsGiven, Back

(* Nor is the stream of one no caller has. *)
LEMMA UnusedSame ==
  ASSUME NEW h \in Handles, ~IsGiven(file[h], path, cur, h), ~IsGiven(file'[h], path', cur', h)
  PROVE  Same(h)
  BY DEF Same

(* Then its place in the map of streams is as it was. *)
LEMMA SameIs ==
  ASSUME vol' = vol, NEW h \in Handles, Same(h)
  PROVE  Streams'[h] = Streams[h]
<1>1. ASSUME NEW f, NEW g, g.first = f.first, g.dir = f.dir PROVE TextIn(vol, g) = TextIn(vol, f)
  <2>1. PICK x, y : x = f.first /\ y = f.dir
    OBVIOUS
  <2>2. g.first = x /\ g.dir = y
    BY <1>1, <2>1
  <2> QED BY ONLY <2>1, <2>2 DEF TextIn
<1>3. IsGiven(file[h], path, cur, h) => TextIn(vol, file'[h]) = TextIn(vol, file[h])
  BY <1>1 DEF Same
<1>2. /\ Streams[h] = StreamOf(vol, file[h], IsGiven(file[h], path, cur, h), Back(pc, cur, out, h))
      /\ Streams'[h] = StreamOf(vol, file'[h], IsGiven(file'[h], path', cur', h), Back(pc', cur', out', h))
  BY StreamsAre
<1> QED BY <1>2, <1>3 DEF StreamOf, Same

(* A step that changes no stream. *)
LEMMA AllSame ==
  ASSUME vol' = vol, \A h \in Handles : Same(h)
  PROVE  Streams' = Streams
<1>1. \A h \in Handles : Streams'[h] = Streams[h]
  BY SameIs
<1>2. PICK S, S2 : S = Streams /\ S2 = Streams'
  OBVIOUS
<1>3. DOMAIN S = Handles /\ DOMAIN S2 = Handles
  BY <1>2, StreamsAre
<1>4. S = [h \in Handles |-> S[h]] /\ S2 = [h \in Handles |-> S2[h]]
  <2>1. S = [h \in DOMAIN S |-> S[h]] /\ S2 = [h \in DOMAIN S2 |-> S2[h]]
    BY <1>2, StreamsAre
  <2> QED BY <1>3, <2>1
<1> QED BY <1>1, <1>2, <1>4

(* A step of one handle. *)
LEMMA OneMoves ==
  ASSUME vol' = vol, NEW c \in Handles, \A h \in Handles : h # c => Same(h)
  PROVE  Streams' = [Streams EXCEPT ![c] = Streams'[c]]
<1>1. \A h \in Handles : h # c => Streams'[h] = Streams[h]
  BY SameIs
<1>2. PICK S, S2 : S = Streams /\ S2 = Streams'
  OBVIOUS
<1>3. DOMAIN S = Handles /\ DOMAIN S2 = Handles
  BY <1>2, StreamsAre
<1>4. S = [h \in Handles |-> S[h]] /\ S2 = [h \in Handles |-> S2[h]]
  <2>1. S = [h \in DOMAIN S |-> S[h]] /\ S2 = [h \in DOMAIN S2 |-> S2[h]]
    BY <1>2, StreamsAre
  <2> QED BY <1>3, <2>1
<1> QED BY <1>1, <1>2, <1>4

(* The handle of a caller is a stream that is open. *)
LEMMA GivenOpen ==
  ASSUME FInv, NEW h \in Handles, IsGiven(file[h], path, cur, h), Back(pc, cur, out, h) = 0
  PROVE  Stream!IsOpen(h)
<1>1. Streams[h] = [text |-> TextIn(vol, file[h]), pos |-> file[h].pos - Back(pc, cur, out, h)]
  BY StreamsAre DEF StreamOf
<1>2. file[h].pos \in Nat
  <2>1. file[h] \in HandleType(vol)
    BY DEF FInv, Typed
  <2> QED BY <2>1, FatAssumption DEF HandleType
<1>3. Streams[h].pos >= 0
  BY <1>1, <1>2
<1>4. Streams[h] # [text |-> << >>, pos |-> -1]
  BY <1>3
<1> QED BY <1>4 DEF Stream!IsOpen, Stream!Unopened

(* The calls that begin, and the steps of a search, change no stream. *)
LEMMA BeginsStutter ==
  ASSUME FInv, (\E p \in vol.paths : FAT_Open(p)) \/ (\E h \in Handles : \E m \in Counts : FAT_Read(h, m))
  PROVE  UNCHANGED <<Texts, Streams, reply>>
<1> USE HandlesAre
<1>1. pc = "idle" /\ path = << >>
  BY DEF FInv, Typed, Searching, FAT_Open, FAT_Read, Idle
<1>2. vol' = vol /\ file' = file /\ reply' = reply
  BY DEF FAT_Open, FAT_Read
<1>3. CASE \E p \in vol.paths : FAT_Open(p)
  <2>1. cur' = ROOT /\ pc' # "read"
    BY <1>3 DEF FAT_Open
  <2>2. \A h \in Handles : h # cur'
    BY <2>1
  <2>3. \A h \in Handles : Same(h)
    BY <1>1, <1>2, <2>1, <2>2, OthersSame
  <2> QED BY <1>2, <2>3, AllSame, TextsStay
<1>4. CASE \E h \in Handles : \E m \in Counts : FAT_Read(h, m)
  <2>1. path' = path /\ out' = << >> /\ Len(out') = 0
    BY <1>4 DEF FAT_Read, Enter
  <2>2. \A h \in Handles : Back(pc', cur', out', h) = 0 /\ Back(pc, cur, out, h) = 0
    BY <1>1, <2>1 DEF Back
  <2>3. \A h \in Handles : Same(h)
    BY <1>1, <1>2, <2>1, <2>2 DEF Same, IsGiven
  <2> QED BY <1>2, <2>3, AllSame, TextsStay
<1> QED BY <1>3, <1>4

(* The steps of a search that read entries and compare them. *)
LEMMA SearchStutters ==
  ASSUME FInv, ReadEntry \/ NoMatch \/ (ReadStep /\ Searching)
  PROVE  UNCHANGED <<Texts, Streams, reply>>
<1>1. /\ path # << >> /\ path' = path /\ cur' = cur /\ vol' = vol /\ reply' = reply
      /\ \A h \in Handles : h # cur => file'[h] = file[h]
  <2>1. CASE ReadEntry \/ NoMatch
    BY <2>1 DEF FInv, Typed, Searching, ReadEntry, NoMatch, EntryRead, Enter
  <2>2. CASE ReadStep /\ Searching
    <3>1. file \in [Handles \cup {ROOT} -> HandleType(vol)]
      BY DEF FInv, Typed
    <3>2. \E g : file' = [file EXCEPT ![cur] = g]
      BY <2>2 DEF ReadStep
    <3> QED BY <2>2, <3>1, <3>2 DEF ReadStep, Searching
  <2> QED BY <2>1, <2>2
<1>2. ASSUME NEW h \in Handles PROVE Same(h)
  <2>1. CASE h = cur
    BY <1>1, <2>1, UnusedSame DEF IsGiven
  <2>2. CASE h # cur
    BY <1>1, <2>2, OthersSame
  <2> QED BY <2>1, <2>2
<1> QED BY <1>1, <1>2, AllSame, TextsStay

(* What a read has copied counts once it returns. *)
LEMMA CallerStutters ==
  ASSUME FInv, ReadStep, ~Searching, Advances(file[cur], file'[cur], out, out')
  PROVE  UNCHANGED <<Texts, Streams, reply>>
<1>1. /\ path = << >> /\ path' = path /\ cur' = cur /\ vol' = vol /\ reply' = reply
      /\ pc = "read" /\ pc' = pc
      /\ \A h \in Handles : h # cur => file'[h] = file[h]
  <2>1. file \in [Handles \cup {ROOT} -> HandleType(vol)]
    BY DEF FInv, Typed
  <2>2. \E g : file' = [file EXCEPT ![cur] = g]
    BY DEF ReadStep
  <2> QED BY <2>1, <2>2 DEF ReadStep, Searching
<1>2. ASSUME NEW h \in Handles PROVE Same(h)
  <2>1. CASE h = cur
    <3>1. cur \in Handles
      BY <2>1
    <3>2. file[cur].open
      <4>1. PICK n \in DOMAIN vol.entry : Copied(vol, file[cur], vol.entry[n], out, left)
        BY <1>1 DEF FInv, ReadInv, Searching
      <4> QED BY <4>1 DEF Copied, At
    <3>3. Back(pc, cur, out, h) = Len(out) /\ Back(pc', cur', out', h) = Len(out')
      BY <1>1, <2>1 DEF Back
    <3> QED BY <1>1, <2>1, <3>2, <3>3 DEF Same, IsGiven, Advances
  <2>2. CASE h # cur
    BY <1>1, <2>2, OthersSame
  <2> QED BY <2>1, <2>2
<1> QED BY <1>1, <1>2, AllSame, TextsStay

(* FAT_Close closes the stream. *)
LEMMA CloseImplements ==
  ASSUME FInv, NEW h \in Handles, FAT_Close(h)
  PROVE  Stream!Close(h)
<1>1. Typed
  BY DEF FInv
<1>2. /\ pc = "idle" /\ pc' = pc /\ path = << >> /\ path' = path /\ vol' = vol
      /\ file[h].open /\ file' = Closing(h) /\ cur' = cur
      /\ reply' = [op |-> "close", path |-> << >>, h |-> h, at |-> 0, cells |-> << >>]
  BY <1>1 DEF FAT_Close, Idle, Typed, Searching, Reply
<1>3. ~file'[h].open /\ \A x \in Handles : x # h => file'[x] = file[x]
  BY <1>1, <1>2, ClosedIs
<1>4. \A x \in Handles : x # h => Same(x)
  BY <1>2, <1>3, OthersSame
<1>5. Streams'[h] = [text |-> << >>, pos |-> -1]
  BY <1>3, StreamsAre DEF StreamOf, IsGiven
<1>6. Streams' = [Streams EXCEPT ![h] = Stream!Unopened]
  BY <1>2, <1>4, <1>5, OneMoves DEF Stream!Unopened
<1>7. Stream!IsOpen(h)
  BY <1>2, GivenOpen DEF IsGiven, Back
<1>8. Texts' = Texts
  BY <1>2, TextsStay
<1> QED BY <1>2, <1>6, <1>7, <1>8 DEF Stream!Close, Stream!Reply

(* A search that fails opens no stream: there is no such file. *)
LEMMA NotFoundImplements ==
  ASSUME FInv, WithinLimits(vol), NotFound
  PROVE  asked \in vol.paths /\ Stream!Open(asked)
<1>1. Typed /\ SearchInv /\ cur \in Handles /\ ~Leads(vol, asked)
  BY NotFoundKeeps DEF FInv
<1>2. /\ path # << >> /\ path' = << >> /\ cur' = cur /\ vol' = vol /\ pc' = "idle"
      /\ file' = Closing(cur)
      /\ reply' = [op |-> "open", path |-> asked, h |-> NULL, at |-> 0, cells |-> << >>]
  BY DEF NotFound, EntryRead, Reply
<1>3. asked \in vol.paths
  BY <1>1, <1>2 DEF SearchInv, Searching
<1>4. ~file'[cur].open /\ \A x \in Handles : x # cur => file'[x] = file[x]
  BY <1>1, <1>2, ClosedIs
<1>5. ASSUME NEW h \in Handles PROVE Same(h)
  <2>1. CASE h = cur
    BY <1>2, <1>4, <2>1, UnusedSame DEF IsGiven
  <2>2. CASE h # cur
    BY <1>2, <1>4, <2>2, OthersSame
  <2> QED BY <2>1, <2>2
<1>6. asked \notin DOMAIN Texts
  <2>1. DOMAIN Texts = DOMAIN vol.files
    BY DEF Texts
  <2>2. DOMAIN vol.files = {p \in vol.paths : Leads(vol, p)}
    BY <1>1, MkfsAssumption DEF Formatted, Typed
  <2> QED BY <1>1, <2>1, <2>2
<1>7. Streams' = Streams /\ Texts' = Texts
  BY <1>2, <1>5, AllSame, TextsStay
<1> QED BY <1>2, <1>3, <1>6, <1>7 DEF Stream!Open, Stream!Reply

(* What handles are in use when a name is found. *)
LEMMA FoundSame ==
  ASSUME FInv, WithinLimits(vol), Found, NEW i \in 1 .. Len(asked), NEW e,
         FoundTo(i, e), HandlesThen(i, e)
  PROVE  \A h \in Handles : h # cur' \/ i # Len(asked) => Same(h)
<1>1. path # << >> /\ pc = "read"
  BY DEF Found, EntryRead
<1>2. IF i = Len(asked) THEN pc' = "idle" ELSE pc' = "find"
  BY DEF FoundTo
<1>3. ASSUME NEW h \in Handles, h # cur' PROVE Same(h)
  <2>1. CASE h = cur
    <3>1. ~file'[h].open
      <4>1. cur # ROOT
        BY <2>1, HandlesAre
      <4>2. i # 1
        BY <4>1 DEF FoundTo, Place
      <4> QED BY <1>3, <2>1, <4>2 DEF HandlesThen
    <3> QED BY <1>1, <2>1, <3>1, UnusedSame DEF IsGiven
  <2>2. CASE h # cur
    <3>1. file'[h] = file[h]
      BY <1>3, <2>2 DEF HandlesThen
    <3> QED BY <1>3, <2>2, <3>1, OthersSame
  <2> QED BY <2>1, <2>2
<1>4. ASSUME NEW h \in Handles, h = cur', i # Len(asked) PROVE Same(h)
  <2>1. ~IsGiven(file[h], path, cur, h)
    <3>1. h # NULL
      BY <1>4, HandlesAre
    <3>2. cur' = cur \/ ~file[cur'].open
      BY <1>4, <3>1 DEF HandlesThen
    <3> QED BY <1>1, <1>4, <3>2 DEF IsGiven
  <2>2. path' # << >>
    <3>1. asked \in Seq(DOMAIN ShortName)
      BY <1>1, SearchedIs DEF FInv, Searching
    <3>2. path' = SubSeq(asked, i + 1, Len(asked))
      BY DEF FoundTo
    <3>3. Len(path') # 0
      BY <1>4, <3>1, <3>2
    <3> QED BY <3>3
  <2>3. ~IsGiven(file'[h], path', cur', h)
    BY <1>4, <2>2 DEF IsGiven
  <2> QED BY <2>1, <2>3, UnusedSame
<1> QED BY <1>3, <1>4

(* A handle is opened with the last name of a path, unless all are in use. *)
LEMMA FoundImplements ==
  ASSUME FInv, FInv', WithinLimits(vol), Errors = FALSE, Found
  PROVE  UNCHANGED <<Texts, Streams, reply>> \/ (asked \in vol.paths /\ Stream!Open(asked))
<1> USE HandlesAre
<1>1. Typed /\ Typed' /\ SearchInv /\ vol' = vol /\ pc = "read" /\ Searching /\ path # << >>
  BY DEF FInv, Found, EntryRead, Searching
<1>0. PICK i \in 1 .. Len(asked) : \E e : FoundTo(i, e)
  BY FoundIs
<1>2. PICK e : FoundTo(i, e)
  BY <1>0
<1>3. asked \in vol.paths /\ asked \in Seq(DOMAIN ShortName)
  BY <1>1, SearchedIs
<1>4. i \in Nat
  BY <1>3
<1>5. HandlesThen(i, e)
  BY <1>1, <1>2, <1>4, OpenedIs
<1>6. \A h \in Handles : h # cur' \/ i # Len(asked) => Same(h)
  BY <1>2, <1>5, FoundSame
<1>7. Texts' = Texts
  BY <1>1, TextsStay
<1>8. CASE i # Len(asked)
  <2>1. Streams' = Streams
    BY <1>1, <1>6, <1>8, AllSame
  <2>2. reply' = reply
    BY <1>2, <1>8 DEF FoundTo
  <2> QED BY <1>7, <2>1, <2>2
<1>9. CASE i = Len(asked)
  <2>1. /\ pc' = "idle" /\ asked \in DOMAIN vol.files /\ e = vol.entry[vol.files[asked]]
        /\ reply' = [op |-> "open", path |-> asked, h |-> cur', at |-> 0, cells |-> << >>]
        /\ path' = SubSeq(asked, i + 1, Len(asked))
    BY <1>2, <1>9 DEF FoundTo
  <2>2. path' = << >>
    BY <1>1, <1>9, <1>3, <2>1 DEF Typed, Searching
  <2>3. CASE cur' \notin Handles
    <3>1. cur' = NULL /\ \A x \in Handles : file[x].open
      BY <1>5, <2>3 DEF HandlesThen
    <3>2. Streams' = Streams
      BY <1>1, <1>6, <2>3, AllSame
    <3>3. cur \notin Handles
      <4>1. i = 1
        BY <1>5, <2>3 DEF HandlesThen
      <4> QED BY <1>2, <4>1 DEF FoundTo, Place
    <3>4. \A h \in Handles : Stream!IsOpen(h)
      BY <3>1, <3>3, GivenOpen DEF IsGiven, Back
    <3> QED BY <1>3, <1>7, <2>1, <3>1, <3>2, <3>4 DEF Stream!Open, Stream!Reply
  <2>4. CASE cur' \in Handles
    <3>1. At(vol, file'[cur'], e) /\ file'[cur'].pos = 0 /\ (cur' = cur \/ ~file[cur'].open)
      BY <1>5, <2>4 DEF HandlesThen
    <3>2. Streams' = [Streams EXCEPT ![cur'] = Streams'[cur']]
      BY <1>1, <1>6, <2>4, OneMoves
    <3>3. PICK c \in Handles : c = cur'
      BY <2>4
    <3>4. Streams[c] = [text |-> << >>, pos |-> -1]
      <4>1. ~IsGiven(file[c], path, cur, c)
        BY <1>1, <3>1, <3>3 DEF IsGiven
      <4> QED BY <4>1, StreamsAre DEF StreamOf
    <3>5. Streams'[c] = [text |-> TextIn(vol, file'[c]), pos |-> 0]
      <4>1. IsGiven(file'[c], path', cur', c) /\ Back(pc', cur', out', c) = 0
        BY <2>1, <2>2, <3>1, <3>3 DEF IsGiven, Back, At
      <4>2. file'[c].pos - 0 = 0
        BY <3>1, <3>3
      <4>3. Streams'[c] = StreamOf(vol', file'[c], IsGiven(file'[c], path', cur', c), Back(pc', cur', out', c))
        BY StreamsAre
      <4> QED BY <1>1, <4>1, <4>2, <4>3 DEF StreamOf
    <3>6. TextIn(vol, file'[c]) = Texts[asked]
      <4>1. PICK g : g = file'[c]
        OBVIOUS
      <4>2. g.first = e.first /\ g.dir = e.dir
        BY <3>1, <3>3, <4>1 DEF At
      <4>3. vol.files[asked] \in DOMAIN vol.entry
        BY <1>1, <2>1, MkfsAssumption DEF Formatted, Typed
      <4>4. EntryOf(g) = e
        BY <1>1, <2>1, <4>2, <4>3, EntryIs DEF Typed
      <4>5. TextIn(vol, g) = Text(e)
        BY <4>4 DEF TextIn, EntryOf, Text
      <4>6. Texts[asked] = Text(e)
        BY <2>1 DEF Texts
      <4> QED BY <4>1, <4>5, <4>6
    <3>7. asked \in DOMAIN Texts
      BY <2>1 DEF Texts
    <3>8. ~Stream!IsOpen(c)
      BY <3>4 DEF Stream!IsOpen, Stream!Unopened
    <3>9. Streams' = [Streams EXCEPT ![c] = [text |-> Texts[asked], pos |-> 0]]
      BY <3>2, <3>3, <3>5, <3>6
    <3>10. reply' = [op |-> "open", path |-> asked, h |-> c, at |-> 0, cells |-> << >>]
      BY <2>1, <3>3
    <3> QED BY <1>3, <1>7, <3>7, <3>8, <3>9, <3>10 DEF Stream!Open, Stream!Reply
  <2> QED BY <2>3, <2>4
<1> QED BY <1>8, <1>9

(* What has been copied is a part of the text. *)
LEMMA PartIs ==
  ASSUME NEW o \in Seq(Datum), NEW t, NEW at \in Nat,
         \A k \in 1 .. Len(o) : o[k] = t[at + k]
  PROVE  o = SubSeq(t, at + 1, at + Len(o))
<1>1. PICK n \in Nat : n = Len(o) /\ DOMAIN o = 1 .. n
  OBVIOUS
<1>2. o = [k \in 1 .. n |-> o[k]]
  BY <1>1
<1>3. SubSeq(t, at + 1, at + n) = [k \in 1 .. n |-> t[at + k]]
  BY <1>1
<1> QED BY <1>1, <1>2, <1>3

(* A read that returns is a read of the stream. *)
LEMMA ReturnImplements ==
  ASSUME FInv, ReadReturn
  PROVE  \E h \in Handles : \E m \in Counts : Stream!Read(h, m)
<1> USE HandlesAre, FatAssumption
<1>1. Typed /\ ReadInv
  BY DEF FInv
<1>2. /\ pc = "read" /\ left = 0 /\ path = << >> /\ pc' = "idle"
      /\ vol' = vol /\ file' = file /\ cur' = cur /\ out' = out /\ path' = path
      /\ reply' = [op |-> "read", path |-> << >>, h |-> cur, at |-> file[cur].pos - Len(out), cells |-> out]
  BY DEF ReadReturn, Reply
<1>3. PICK c \in Handles : c = cur
  BY <1>1, <1>2 DEF ReadInv, Searching
<1>4. PICK n \in DOMAIN vol.entry : Copied(vol, file[cur], vol.entry[n], out, left)
  BY <1>1, <1>2 DEF ReadInv, Searching
<1>5. PICK e, f : e = vol.entry[n] /\ f = file[c]
  OBVIOUS
<1>6. Copied(vol, f, e, out, 0)
  BY <1>2, <1>3, <1>4, <1>5
<1>7. vol \in Volumes /\ out \in Seq(Datum) /\ Len(out) \in Nat
  BY <1>1 DEF Typed
<1>8. /\ At(vol, f, e) /\ ~e.dir /\ f.pos - Len(out) >= 0
      /\ \A k \in 1 .. Len(out) : out[k] = CellAt(vol, e.chain, f.pos - Len(out) + k)
  BY <1>6 DEF Copied
<1>9. f.pos \in Nat /\ CellsOf(vol, e) \in Nat /\ f.size = CellsOf(vol, e) /\ f.pos <= f.size
  BY <1>5, <1>7, <1>8, RestIs
<1>10. f.size = e.size
  BY <1>8 DEF At
<1>11. PICK at \in Nat : at = f.pos - Len(out)
  BY <1>7, <1>8, <1>9
<1>12. PICK m \in Counts : Len(out) = LesserOf(m, e.size - at)
  BY <1>6, <1>7, <1>10, <1>11 DEF Copied
<1>13. /\ Len(Text(e)) = e.size /\ e.size \in Nat
       /\ \A k \in 1 .. e.size : Text(e)[k] = CellAt(vol, e.chain, k)
  BY <1>5, <1>7, TextIs
<1>14. PICK t : t = Text(e)
  OBVIOUS
<1>15. at + Len(out) = f.pos /\ f.pos <= e.size
  BY <1>7, <1>9, <1>10, <1>11
<1>16. out = SubSeq(t, at + 1, at + Len(out))
  <2>1. ASSUME NEW k \in 1 .. Len(out) PROVE out[k] = t[at + k]
    <3>1. PICK j \in 1 .. e.size : j = at + k
      BY <1>7, <1>13, <1>15
    <3> QED BY <1>8, <1>11, <1>13, <1>14, <3>1
  <2> QED BY <1>7, <2>1, PartIs
<1>17. (IF at + m < Len(t) THEN at + m ELSE Len(t)) = f.pos
  <2>1. m \in Nat
    OBVIOUS
  <2> QED BY <1>7, <1>9, <1>11, <1>12, <1>13, <1>14, <1>15, <2>1 DEF LesserOf
<1>18. EntryOf(f) = e
  BY <1>5, <1>7, <1>8, EntryIs DEF At
<1>19. TextIn(vol, f) = t
  BY <1>14, <1>18 DEF TextIn, EntryOf, Text
<1>20. Streams[c] = [text |-> t, pos |-> at]
  <2>1. IsGiven(f, path, cur, c) /\ Back(pc, cur, out, c) = Len(out)
    BY <1>2, <1>3, <1>8 DEF IsGiven, Back, At
  <2> QED BY <1>5, <1>11, <1>19, <2>1, StreamsAre DEF StreamOf
<1>21. Streams'[c] = [text |-> t, pos |-> f.pos]
  <2>1. IsGiven(file'[c], path', cur', c) /\ Back(pc', cur', out', c) = 0
    BY <1>2, <1>5, <1>8 DEF IsGiven, Back, At
  <2>2. f.pos - 0 = f.pos
    BY <1>9
  <2>3. Streams'[c] = StreamOf(vol', file'[c], IsGiven(file'[c], path', cur', c), Back(pc', cur', out', c))
    BY StreamsAre
  <2> QED BY <1>2, <1>5, <1>19, <2>1, <2>2, <2>3 DEF StreamOf
<1>22. \A h \in Handles : h # c => Same(h)
  BY <1>2, <1>3, OthersSame
<1>23. Streams' = [Streams EXCEPT ![c] = [text |-> t, pos |-> f.pos]]
  BY <1>2, <1>21, <1>22, OneMoves
<1>24. Streams' = [Streams EXCEPT ![c].pos = f.pos]
  <2>1. [Streams[c] EXCEPT !.pos = f.pos] = [text |-> t, pos |-> f.pos]
    BY <1>20
  <2> QED BY <1>23, <2>1
<1>25. Stream!IsOpen(c)
  BY <1>11, <1>20 DEF Stream!IsOpen, Stream!Unopened
<1>26. Texts' = Texts
  BY <1>2, TextsStay
<1>27. reply' = [op |-> "read", path |-> << >>, h |-> c, at |-> at, cells |-> SubSeq(t, at + 1, f.pos)]
  BY <1>2, <1>3, <1>5, <1>11, <1>15, <1>16
<1>28. Stream!Read(c, m)
  <2>1. Streams[c].pos = at /\ Streams[c].text = t
    BY <1>20
  <2>2. PICK p : p = f.pos
    OBVIOUS
  <2>3. /\ (IF at + m < Len(t) THEN at + m ELSE Len(t)) = p
        /\ Streams' = [Streams EXCEPT ![c].pos = p]
        /\ reply' = [op |-> "read", path |-> << >>, h |-> c, at |-> at, cells |-> SubSeq(t, at + 1, p)]
    BY <1>17, <1>24, <1>27, <2>2
  <2> QED BY ONLY <1>25, <1>26, <2>1, <2>3 DEF Stream!Read, Stream!Reply
<1> QED BY <1>28

(* No stream is open at first. *)
LEMMA StreamInit ==
  ASSUME Init
  PROVE  Stream!Init
<1>1. \A h \in Handles : ~file[h].open
  BY HandlesAre DEF Init, NoFile
<1>2. \A h \in Handles : h \notin Given
  BY <1>1 DEF Given
<1>3. Streams = [h \in Handles |-> [text |-> << >>, pos |-> -1]]
  BY <1>2 DEF Streams
<1> QED BY <1>3 DEF Init, NoReply, Stream!Init, Stream!Unopened

(* FAT_Open, FAT_Read and FAT_Close, on a disk that can be read, are the   *)
(* streams of module FileStream: a file is found where there is one, and   *)
(* read from front to back, whatever sectors, clusters and part of the FAT *)
(* are at hand.                                                            *)
THEOREM CallsAreStreams ==
  ASSUME Errors = FALSE, \A v \in Volumes : WithinLimits(v)
  PROVE  Spec => StreamSpec
<1>1. Init => FInv /\ Stream!Init
  BY FInvInit, StreamInit DEF Init
<1>2. FInv /\ [Next]_vars => FInv'
  BY FInvNext DEF FInv, Typed
<1>3. FInv /\ FInv' /\ [Next]_vars => [Stream!Next]_<<Texts, Streams, reply>>
  <2> SUFFICES ASSUME FInv, FInv', [Next]_vars
               PROVE  Stream!Next \/ UNCHANGED <<Texts, Streams, reply>>
    OBVIOUS
  <2>1. vol \in Volumes /\ WithinLimits(vol)
    BY DEF FInv, Typed
  <2>2. ASSUME asked \in vol.paths, Stream!Open(asked) PROVE Stream!Next
    BY <2>1, <2>2 DEF Stream!Next
  <2>3. CASE UNCHANGED vars
    <3>1. vol' = vol /\ file' = file /\ pc' = pc /\ cur' = cur /\ out' = out /\ path' = path /\ reply' = reply
      BY <2>3 DEF vars
    <3>2. \A h \in Handles : Same(h)
      BY <3>1 DEF Same
    <3> QED BY <3>1, <3>2, AllSame, TextsStay
  <2>4. CASE ReadEntry \/ NoMatch
    BY <2>4, SearchStutters
  <2>5. CASE NotFound
    BY <2>1, <2>2, <2>5, NotFoundImplements
  <2>6. CASE Found
    BY <2>1, <2>2, <2>6, FoundImplements
  <2>7. CASE ReadStep
    BY <2>1, <2>7, SearchStutters, CallerStepKeeps, CallerStutters
  <2>8. CASE ReadReturn
    BY <2>8, ReturnImplements DEF Stream!Next
  <2>9. CASE (\E p \in vol.paths : FAT_Open(p)) \/ (\E h \in Handles : \E m \in Counts : FAT_Read(h, m))
    BY <2>9, BeginsStutter
  <2>10. CASE \E h \in Handles : FAT_Close(h)
    BY <2>10, CloseImplements DEF Stream!Next
  <2> QED BY <2>3, <2>4, <2>5, <2>6, <2>7, <2>8, <2>9, <2>10 DEF Next, Inside
<1> QED BY <1>1, <1>2, <1>3, PTL DEF Spec, StreamSpec, Stream!Spec, Stream!vars

================================================================================
