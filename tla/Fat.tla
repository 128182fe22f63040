---------------------------------- MODULE Fat ----------------------------------
(***************************************************************************)
(* The FAT reader of the second stage (fat.c): it finds a file along a     *)
(* path, follows its chain of clusters through a cached part of the FAT,   *)
(* and hands out its bytes through one sector buffer per handle.           *)
(*                                                                         *)
(* Data is counted in cells: a cell is a directory entry, or as much of a  *)
(* file; a cell's value is the short name of the entry, or the data.  One  *)
(* iteration of the loops of FAT_Read and FAT_FindFile is a step.  The     *)
(* volume is what mkfs.fat has written and nothing changes it.             *)
(***************************************************************************)
EXTENDS Integers, Sequences, FiniteSets

CONSTANTS
  Volumes,    (* the volumes to read; a record each:
                 bs         its boot sector: spc (SectorsPerCluster),
                            reserved, fats, entries (DirEntryCount),
                            total, large, spf, spf32, rootCluster
                 sectors    LBA -> its cells
                 table      cluster -> the next one, or End
                 entry      short name -> [dir, first, size, chain]: what its
                            directory says, and the clusters of its data
                 paths      paths callers open
                 files      path -> short name of the file it leads to *)
  ShortName,  (* name in a path -> 8.3 name, as FAT_GetShortName makes it    *)
  Ended,      (* names with an extension of three letters: FAT_GetShortName  *)
              (* does not look behind it                                     *)
  Cells,      (* SECTOR_SIZE, in cells                                       *)
  FatBytes,   (* SECTOR_SIZE, in bytes of the FAT                            *)
  CacheSize,  (* FAT_CACHE_SIZE                                              *)
  FewClusters, (* 0xFF5                                                      *)
  MaxHandles, (* MAX_FILE_HANDLES                                            *)
  Word,       (* 2^32 bytes, in cells                                        *)
  Counts,     (* how much callers read at a time                             *)
  Errors      (* whether reads of the disk may fail, all three times         *)

ASSUME FatAssumption ==
  /\ Cells \in Nat \ {0} /\ FewClusters \in Nat /\ FatBytes \in Nat \ {0} /\ CacheSize \in Nat \ {0}
  /\ MaxHandles \in Nat \ {0} /\ Word \in Nat \ {0} /\ Word % Cells = 0
  /\ Counts \subseteq Nat /\ Errors \in BOOLEAN

ROOT == -1    (* ROOT_DIRECTORY_HANDLE *)
NULL == -2

Handles == 0 .. (MaxHandles - 1)

(* Cluster numbers: every end mark is made End; Wild is one of which       *)
(* nothing is known but that it lies outside the volume.                   *)
End  == -1
Wild == -2

--------------------------------------------------------------------------------
(* FAT_Initialize and FAT_Detect: the layout that follows from the boot    *)
(* sector.                                                                 *)
LayoutOf(v) ==
  LET bs    == v.bs
      fats  == bs.reserved + (IF bs.spf = 0 THEN bs.spf32 ELSE bs.spf) * bs.fats
      data  == IF bs.spf = 0 THEN fats ELSE fats + (bs.entries + Cells - 1) \div Cells
      total == IF bs.total = 0 THEN bs.large ELSE bs.total
  IN  [data |-> data,
       root |-> IF bs.spf = 0 THEN data + (bs.rootCluster - 2) * bs.spc ELSE fats,
       type |-> IF (total - data) \div bs.spc < FewClusters THEN 12
                ELSE IF bs.spf # 0 THEN 16 ELSE 32]

LbaOf(v, c) == LayoutOf(v).data + (c - 2) * v.bs.spc

(* FAT_NextCluster: the byte of the FAT cluster c's entry starts at. *)
FatIndexOf(v, c) ==
  CASE LayoutOf(v).type = 12 -> (c * 3) \div 2
    [] LayoutOf(v).type = 16 -> c * 2
    [] LayoutOf(v).type = 32 -> c * 4

(* Cell i of a chain of clusters. *)
CellAt(v, chain, i) ==
  LET sector == (i - 1) \div Cells
  IN  v.sectors[LbaOf(v, chain[(sector \div v.bs.spc) + 1]) + (sector % v.bs.spc)][((i - 1) % Cells) + 1]

(* The cells of an entry: those of a directory go on to the end of its     *)
(* chain.                                                                  *)
Room(v, e) == Len(e.chain) * v.bs.spc * Cells
CellsOf(v, e) == IF e.dir THEN Room(v, e) ELSE e.size

Holds(v, n, x) ==
  n \in DOMAIN v.entry /\ \E k \in 1 .. CellsOf(v, v.entry[n]) : CellAt(v, v.entry[n].chain, k) = x

(* From the root directory on, each name of a path is in the one before. *)
Leads(v, p) == \A i \in 2 .. Len(p) : Holds(v, ShortName[p[i - 1]], ShortName[p[i]])

(* What mkfs.fat and mcopy make of a volume: chains linked in the table and *)
(* ended, their sectors there, a short name only once; and the paths.       *)
Linked(v, e) ==
  /\ e \in [dir : BOOLEAN, first : Nat, size : Nat, chain : Seq(DOMAIN v.table)]
  /\ e.first = IF e.chain = << >> THEN 0 ELSE e.chain[1]
  /\ \A i \in DOMAIN e.chain :
       /\ v.table[e.chain[i]] = IF i = Len(e.chain) THEN End ELSE e.chain[i + 1]
       /\ \A s \in 0 .. v.bs.spc - 1 : LbaOf(v, e.chain[i]) + s \in DOMAIN v.sectors
  /\ IF e.dir THEN e.chain # << >> /\ e.size = 0 ELSE e.size <= Room(v, e)
  /\ CellsOf(v, e) < Word

Formatted(v) ==
  /\ v.bs \in [spc : Nat \ {0}, reserved : Nat, fats : Nat, entries : 0 .. Word - 1, total : Nat,
               large : Nat, spf : Nat, spf32 : Nat, rootCluster : Nat]
  /\ DOMAIN v.sectors \subseteq Nat /\ DOMAIN v.table \subseteq Nat
  /\ \A l \in DOMAIN v.sectors : v.sectors[l] \in [1 .. Cells -> STRING]
  /\ LayoutOf(v).root \in DOMAIN v.sectors
  /\ \A n \in DOMAIN v.entry : Linked(v, v.entry[n])
  /\ \A m, n \in DOMAIN v.entry :
       v.entry[m].first = v.entry[n].first /\ v.entry[m].dir = v.entry[n].dir
         => v.entry[m] = v.entry[n]
  /\ v.paths \subseteq Seq(DOMAIN ShortName) \ {<< >>}
  /\ DOMAIN v.files = {p \in v.paths : Leads(v, p)}
  /\ \A p \in DOMAIN v.files :
       v.files[p] = ShortName[p[Len(p)]] /\ v.files[p] \in DOMAIN v.entry /\ ~v.entry[v.files[p]].dir
  /\ \A p \in v.paths : \A i \in DOMAIN p :
       i = 1 \/ (\E n \in DOMAIN v.entry : Holds(v, n, ShortName[p[i]]))
         => ShortName[p[i]] \in DOMAIN v.entry

(* FAT_Open ends the last name of a path one byte too far and leaves a byte *)
(* behind it as it was (fat.c:481), which would be part of the short name   *)
(* of a name that is not Ended.                                             *)
ASSUME PathsAssumption == \A v \in Volumes : \A p \in v.paths : p[Len(p)] \in Ended

ASSUME MkfsAssumption == \A v \in Volumes : Formatted(v)

(* The limits of this reader, which the image of the kernel keeps: a FAT12 *)
(* entry that starts in the last byte the cache can hold is not read whole *)
Straddles(v, c) ==
  /\ LayoutOf(v).type = 12
  /\ FatIndexOf(v, c) >= CacheSize * FatBytes - 1 /\ (FatIndexOf(v, c) + 1) % FatBytes = 0

(* (fat.c:280), the type of the volume is taken from its size, the end of  *)
(* a directory is not seen on FAT32 (fat.c:349), a search that leaves the  *)
(* first sector of the root directory spoils it for the next (fat.c:379),  *)
(* and an empty file is opened by reading cluster 0 (fat.c:239).           *)
WithinLimits(v) ==
  /\ v.bs.spf = 0 => LayoutOf(v).type = 32
  /\ LayoutOf(v).type = 32 => v.paths = DOMAIN v.files
  /\ \A n \in DOMAIN v.entry :
       LET e == v.entry[n]
       IN  /\ LbaOf(v, e.first) \in DOMAIN v.sectors
           /\ \A i \in DOMAIN e.chain :
                i < Len(e.chain) \/ (e.dir /\ v.paths # DOMAIN v.files) => ~Straddles(v, e.chain[i])
  /\ \A p \in v.paths : \E k \in 1 .. Cells - 1 :
       /\ v.sectors[LayoutOf(v).root][k] = ShortName[p[1]]
       /\ v.bs.entries = 0 \/ k <= v.bs.entries

VARIABLES
  vol,      \* the volume
  file,     \* handle -> FAT_FileData
  cache,    \* FatCachePosition, and the entries starting at each byte of FatCache
  pc,       \* "idle", "find", "read", "fault"
  cur,      \* handle FAT_Read works on
  left,     \* its byteCount
  out,      \* what it has copied
  path,     \* names FAT_Open has yet to find; << >> if it is not running
  asked,    \* the whole path
  reply     \* of the last call

vars == <<vol, file, cache, pc, cur, left, out, path, asked, reply>>

Reply(op, p, h, at, cells) ==
  reply' = [op |-> op, path |-> p, h |-> h, at |-> at, cells |-> cells]

LesserOf(x, y) == IF x < y THEN x ELSE y

--------------------------------------------------------------------------------
Layout == LayoutOf(vol)

(* The disk: a sector, or << >> if all three tries fail, as they do beyond *)
(* its end unless the geometry wraps and another sector is read.           *)
Foreign == [k \in 1 .. Cells |-> "?"]

Sector(lba) ==
  IF lba \in DOMAIN vol.sectors
  THEN {vol.sectors[lba]} \cup (IF Errors THEN {<< >>} ELSE {})
  ELSE {<< >>, Foreign}

FAT_ClusterToLba(c) == IF c = Wild THEN -1 ELSE LbaOf(vol, c)

(* The byte of the FAT cluster c's entry starts at. *)
FatIndex(c) == FatIndexOf(vol, c)

(* The number FAT_NextCluster makes of an entry: the end marks of FAT32    *)
(* have 28 bits and are below the 0xFFFFFFF8 its caller compares with.     *)
Decoded(next) == IF next = End /\ Layout.type = 32 THEN Wild ELSE next

(* What the cache holds at byte k after FAT_ReadFat at sector s.  The last *)
(* byte holds only a part of a 12-bit entry; the rest lies behind it.      *)
Cached(s, k) ==
  LET here == {c \in DOMAIN vol.table : FatIndex(c) = s * FatBytes + k}
  IN  IF here = {} \/ (Layout.type = 12 /\ k = CacheSize * FatBytes - 1) THEN Wild
      ELSE Decoded(vol.table[CHOOSE c \in here : TRUE])

FAT_ReadFat(s) == [k \in 0 .. (CacheSize * FatBytes - 1) |-> Cached(s, k)]

(* Nothing is in the cache: its position is 0xFFFFFFFF. *)
NoCache == [pos |-> -1, entries |-> [k \in 0 .. (CacheSize * FatBytes - 1) |-> Wild]]

(* Mutant: the sector behind the cache is taken for its last. *)
InCacheOrNext(s) == cache.pos >= 0 /\ s \in cache.pos .. (cache.pos + CacheSize)

InCache(s) == cache.pos >= 0 /\ s \in cache.pos .. (cache.pos + CacheSize - 1)

(* FAT_NextCluster: a sector of the FAT outside the cache is read, with    *)
(* those after it.  That the read failed is not noticed.                   *)
FAT_NextCluster(c) ==
  LET s   == FatIndex(c) \div FatBytes
      now == IF InCache(s) THEN {cache}
             ELSE {[pos |-> s, entries |-> FAT_ReadFat(s)]}
                    \cup (IF Errors THEN {[cache EXCEPT !.pos = s]} ELSE {})
  IN  IF c \notin DOMAIN vol.table THEN {[next |-> Wild, cache |-> NoCache]}
      ELSE {LET k == FatIndex(c) - m.pos * FatBytes
            IN  [next  |-> IF k \in DOMAIN m.entries THEN m.entries[k] ELSE Wild,
                 cache |-> m] : m \in now}

--------------------------------------------------------------------------------
(* FAT_Read's refill of the buffer once it is used up: the handle and the  *)
(* cache after it, and whether the loop goes on.                           *)
Refilled(f, buffer, m) ==
  [file |-> IF buffer = << >> THEN f ELSE [f EXCEPT !.buffer = buffer],
   cache |-> m, go |-> buffer # << >>]

(* The root directory is read sector by sector. *)
RefillRoot(f) ==
  {Refilled([f EXCEPT !.cluster = @ + 1], b, cache) : b \in Sector(f.cluster + 1)}

(* Mutant: the end of the chain is not remembered as the file's size. *)
RefillFileUnsized(f) ==
  LET last  == f.sector + 1 >= vol.bs.spc
      after == IF last THEN FAT_NextCluster(f.cluster)
               ELSE {[next |-> f.cluster, cache |-> cache]}
      at(c) == [f EXCEPT !.cluster = c, !.sector = IF last THEN 0 ELSE @ + 1]
  IN  UNION {IF s.next = End
             THEN {[file |-> at(End), cache |-> s.cache, go |-> FALSE]}
             ELSE {Refilled(at(s.next), b, s.cache)
                     : b \in Sector(FAT_ClusterToLba(s.next) + at(s.next).sector)}
             : s \in after}

RefillFile(f) ==
  LET last  == f.sector + 1 >= vol.bs.spc
      after == IF last THEN FAT_NextCluster(f.cluster)
               ELSE {[next |-> f.cluster, cache |-> cache]}
      at(c) == [f EXCEPT !.cluster = c, !.sector = IF last THEN 0 ELSE @ + 1]
  IN  UNION {IF s.next = End
             THEN {[file |-> [at(End) EXCEPT !.size = f.pos], cache |-> s.cache, go |-> FALSE]}
             ELSE {Refilled(at(s.next), b, s.cache)
                     : b \in Sector(FAT_ClusterToLba(s.next) + at(s.next).sector)}
             : s \in after}

(* byteCount once cut to the rest of the file; a directory of unknown size *)
(* is not cut.                                                             *)
Limited(h, n) ==
  IF file[h].dir /\ file[h].size = 0 THEN n
  ELSE LesserOf(n, (file[h].size - file[h].pos) % Word)

(* The entry of FAT_Read. *)
Enter(h, n) ==
  /\ pc' = "read" /\ cur' = h /\ left' = Limited(h, n) /\ out' = << >>

(* One iteration of its loop. *)
ReadStep ==
  /\ pc = "read" /\ left > 0
  /\ LET f    == file[cur]
         k    == f.pos % Cells
         take == LesserOf(left, Cells - k)
         moved == [f EXCEPT !.pos = (@ + take) % Word]
     IN  /\ out' = out \o SubSeq(f.buffer, k + 1, k + take)
         /\ IF take < Cells - k
            THEN /\ file' = [file EXCEPT ![cur] = moved]
                 /\ left' = 0 /\ UNCHANGED cache
            ELSE \E r \in (IF cur = ROOT THEN RefillRoot(moved) ELSE RefillFile(moved)) :
                   /\ file' = [file EXCEPT ![cur] = r.file]
                   /\ cache' = r.cache
                   /\ left' = IF r.go THEN left - take ELSE 0
  /\ UNCHANGED <<vol, pc, cur, path, asked, reply>>

Closing(h) ==
  IF h = ROOT THEN [file EXCEPT ![ROOT].pos = 0, ![ROOT].cluster = Layout.root]
  ELSE [file EXCEPT ![h].open = FALSE]

(* FAT_OpenEntry, in the table of handles fs: the table after it, and the  *)
(* handle or NULL.                                                         *)
FAT_OpenEntry(fs, e) ==
  LET free == {h \in Handles : ~fs[h].open}
      h    == CHOOSE x \in free : \A y \in free : x <= y
      fd(b) == [buffer |-> IF b = << >> THEN fs[h].buffer ELSE b, open |-> b # << >>,
                pos |-> 0, size |-> e.size, dir |-> e.dir,
                first |-> e.first, cluster |-> e.first, sector |-> 0]
  IN  IF free = {} THEN {[file |-> fs, h |-> NULL]}
      ELSE {[file |-> [fs EXCEPT ![h] = fd(b)], h |-> IF b = << >> THEN NULL ELSE h]
              : b \in Sector(FAT_ClusterToLba(e.first))}

--------------------------------------------------------------------------------
(* The calls.  A caller opens a directory on the way only with a handle    *)
(* left for it: FAT_Open goes on with a null pointer when it has none.     *)
Idle == pc = "idle"

FAT_Open(p) ==
  /\ Idle
  /\ Len(p) = 1 \/ \E h \in Handles : ~file[h].open
  /\ pc' = "find" /\ cur' = ROOT /\ path' = p /\ asked' = p
  /\ UNCHANGED <<vol, file, cache, left, out, reply>>

(* An iteration of FAT_FindFile reads an entry, *)
ReadEntry ==
  /\ pc = "find"
  /\ Enter(cur, 1)
  /\ UNCHANGED <<vol, file, cache, path, asked, reply>>

EntryRead == pc = "read" /\ left = 0 /\ path # << >>

Matches == Len(out) = 1 /\ out[1] = ShortName[path[1]]

(* compares it, *)
NoMatch ==
  /\ EntryRead /\ ~Matches /\ Len(out) = 1
  /\ pc' = "find"
  /\ UNCHANGED <<vol, file, cache, cur, left, out, path, asked, reply>>

(* and ends when there is none left. *)
NotFound ==
  /\ EntryRead /\ out = << >>
  /\ file' = Closing(cur)
  /\ pc' = "idle" /\ path' = << >>
  /\ Reply("open", asked, NULL, 0, << >>)
  /\ UNCHANGED <<vol, cache, cur, left, out, asked>>

(* Mutant: the directory stays open. *)
FoundLeaving ==
  /\ EntryRead /\ Matches
  /\ \E o \in FAT_OpenEntry(file, vol.entry[ShortName[path[1]]]) :
       /\ file' = o.file /\ cur' = o.h
       /\ IF Len(path) = 1
          THEN pc' = "idle" /\ Reply("open", asked, o.h, 0, << >>)
          ELSE pc' = (IF o.h = NULL THEN "fault" ELSE "find") /\ UNCHANGED reply
  /\ path' = Tail(path)
  /\ UNCHANGED <<vol, cache, left, out, asked>>

(* The directory is closed and the entry opened; that it is no directory   *)
(* itself is never noticed.  FAT_Open goes on with what it got, NULL too.  *)
Found ==
  /\ EntryRead /\ Matches
  /\ \E o \in FAT_OpenEntry(Closing(cur), vol.entry[ShortName[path[1]]]) :
       /\ file' = o.file /\ cur' = o.h
       /\ IF Len(path) = 1
          THEN pc' = "idle" /\ Reply("open", asked, o.h, 0, << >>)
          ELSE pc' = (IF o.h = NULL THEN "fault" ELSE "find") /\ UNCHANGED reply
  /\ path' = Tail(path)
  /\ UNCHANGED <<vol, cache, left, out, asked>>

FAT_Read(h, n) ==
  /\ Idle /\ file[h].open
  /\ Enter(h, n)
  /\ UNCHANGED <<vol, file, cache, path, asked, reply>>

ReadReturn ==
  /\ pc = "read" /\ left = 0 /\ path = << >>
  /\ pc' = "idle"
  /\ Reply("read", << >>, cur, file[cur].pos - Len(out), out)
  /\ UNCHANGED <<vol, file, cache, cur, left, out, path, asked>>

FAT_Close(h) ==
  /\ Idle /\ file[h].open
  /\ file' = Closing(h)
  /\ Reply("close", << >>, h, 0, << >>)
  /\ UNCHANGED <<vol, cache, pc, cur, left, out, path, asked>>

(* FAT_Initialize, on any of the volumes. *)
NoFile == [buffer |-> << >>, pos |-> 0, size |-> 0, dir |-> FALSE, open |-> FALSE,
           first |-> 0, cluster |-> 0, sector |-> 0]

NoReply == [op |-> "init", path |-> << >>, h |-> NULL, at |-> 0, cells |-> << >>]

Init ==
  /\ vol \in Volumes
  /\ file = [h \in Handles \cup {ROOT} |->
               IF h = ROOT
               THEN [NoFile EXCEPT !.buffer = vol.sectors[Layout.root], !.size = vol.bs.entries,
                                   !.dir = TRUE, !.open = TRUE, !.first = Layout.root, !.cluster = Layout.root]
               ELSE NoFile]
  /\ cache = NoCache
  /\ pc = "idle" /\ cur = ROOT /\ left = 0 /\ out = << >> /\ path = << >> /\ asked = << >>
  /\ reply = NoReply

Inside == ReadEntry \/ NoMatch \/ NotFound \/ Found \/ ReadStep \/ ReadReturn

Next ==
  \/ Inside
  \/ \E p \in vol.paths : FAT_Open(p)
  \/ \E h \in Handles : FAT_Close(h) \/ \E n \in Counts : FAT_Read(h, n)

Spec == Init /\ [][Next]_vars

(* The CPU runs a call that has begun. *)
FairSpec == Spec /\ WF_vars(Inside)

--------------------------------------------------------------------------------
(* A file, as mkfs.fat has written it. *)
Text(e) == [i \in 1 .. e.size |-> CellAt(vol, e.chain, i)]

(* The entry a handle was opened from. *)
EntryOf(f) ==
  vol.entry[CHOOSE n \in DOMAIN vol.entry :
              vol.entry[n].first = f.first /\ vol.entry[n].dir = f.dir]

Searching == path # << >>

(* The handles callers have. *)
Given == {h \in Handles : file[h].open /\ ~(Searching /\ h = cur)}

TypeOK ==
  /\ vol \in Volumes
  /\ \A h \in Handles \cup {ROOT} :
       /\ file[h].open \in BOOLEAN /\ file[h].dir \in BOOLEAN
       /\ file[h].pos \in 0 .. (Word - 1) /\ file[h].size \in Nat
       /\ file[h].sector \in 0 .. (vol.bs.spc - 1)
       /\ file[h].buffer = << >> \/ Len(file[h].buffer) = Cells
  /\ DOMAIN cache.entries = 0 .. (CacheSize * FatBytes - 1)
  /\ pc \in {"idle", "find", "read", "fault"}
  /\ cur \in Handles \cup {ROOT, NULL} /\ left \in Nat

(* The buffer of an open file is the sector its position is in, whatever   *)
(* else was read through the cache since.                                  *)
BufferCurrent ==
  /\ TypeOK
  /\ \A h \in Given :
       LET f    == file[h]
           text == Text(EntryOf(f))
           base == f.pos - (f.pos % Cells)
       IN  f.pos < f.size =>
             \A k \in 1 .. Cells : base + k <= Len(text) => f.buffer[k] = text[base + k]

(* A search ends, found or not, and so does a read: the chain does, or the *)
(* size is known.                                                          *)
CallReturns == pc # "idle" ~> pc = "idle"

(* The calls implement the streams of module FileStream: a handle's text   *)
(* is that of the entry it was opened from, its position that of the last  *)
(* read that returned.                                                     *)
Texts == [p \in DOMAIN vol.files |-> Text(vol.entry[vol.files[p]])]

Streams ==
  [h \in Handles |->
     IF h \in Given
     THEN [text |-> Text(EntryOf(file[h])),
           pos  |-> file[h].pos - (IF pc = "read" /\ h = cur THEN Len(out) ELSE 0)]
     ELSE [text |-> << >>, pos |-> -1]]

Stream == INSTANCE FileStream WITH
  Paths <- UNION {v.paths : v \in Volumes}, texts <- Texts, streams <- Streams

StreamSpec == Stream!Spec

================================================================================
