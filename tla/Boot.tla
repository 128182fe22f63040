---------------------------------- MODULE Boot ---------------------------------
(***************************************************************************)
(* From power on to the kernel: the boot sector (boot.asm) reads the       *)
(* extents of the second stage, which finds the disk, the partition, the   *)
(* FAT volume and the memory map (main.c, mbr.c, memdetect.c), and loads   *)
(* the segments of the kernel's ELF file (elf.c).                          *)
(*                                                                         *)
(* The BIOS is free to fail wherever it is called.  Of the FAT reader only *)
(* what module Fat shows of it is used here: a read of the disk that fails *)
(* makes FAT_Read deliver less, or it is not noticed at all.  In the       *)
(* latter case, and after a null file, nothing is said of what follows:    *)
(* that is stage "wild".                                                   *)
(***************************************************************************)
EXTENDS Integers, Sequences, FiniteSetsExt

CONSTANTS
  Extents,        (* stage2_location: [lba, count] each, up to an lba of 0  *)
  Room,           (* sectors from STAGE2_LOAD_OFFSET to the boot sector:    *)
                  (* (0x7C00 - 0x500) / 512, the last of them its stack     *)
  Retries,        (* tries of disk_read                                     *)
  PartitionStart, (* lbaStart of the entry the MBR hands over               *)
  MAX_REGIONS,
  Images,         (* kernel files: their size, entry (an address), phoff,   *)
                  (* and phs, the program headers: load (its type is LOAD), *)
                  (* offset, vaddr, filesz, memsz                           *)
  HeaderSize,     (* sizeof(ELFHeader); the size of a program header is 1   *)
  LOAD_SIZE,      (* MEMORY_LOAD_SIZE                                       *)
  CopyWrap,       (* 2^16, as memcpy takes a uint16_t                       *)
  CheckSize,      (* bytes at the entry that must not all be zero           *)
  Addresses       (* memory above MEMORY_KERNEL_ADDR                        *)

ProgramHeaders == [load : BOOLEAN, offset : Nat, vaddr : Nat, filesz : Nat, memsz : Nat]

ASSUME BootAssumption ==
  /\ Extents \in Seq([lba : Nat \ {0}, count : Nat])
  /\ Retries \in Nat \ {0} /\ MAX_REGIONS \in Nat \ {0}
  /\ LOAD_SIZE \in Nat \ {0} /\ CopyWrap \in Nat \ {0} /\ LOAD_SIZE <= CopyWrap
  /\ PartitionStart \in Nat \ {0} /\ HeaderSize \in Nat
  /\ Images \subseteq [size : Nat, entry : Nat, phoff : Nat, phs : Seq(ProgramHeaders)]
  /\ \A i \in Images : i.phoff >= HeaderSize /\ Len(i.phs) > 0

InMemory(ph) == ph.vaddr .. ph.vaddr + ph.memsz - 1

(* What linker.ld makes of the kernel's sections: segments above           *)
(* MEMORY_KERNEL_ADDR, apart from each other, of no more bytes in the file *)
(* than in memory.                                                         *)
ASSUME LinkerAssumption ==
  \A i \in Images : \A k \in DOMAIN i.phs :
    i.phs[k].load =>
      /\ i.phs[k].filesz <= i.phs[k].memsz
      /\ InMemory(i.phs[k]) \subseteq Addresses
      /\ \A j \in DOMAIN i.phs \ {k} :
           i.phs[j].load => InMemory(i.phs[j]) \cap InMemory(i.phs[k]) = {}

Garbage   == -1 (* what memory holds that nothing was stored in      *)
Lost      == -1 (* the position of a file a read of which has failed *)
Unnoticed == -1 (* FAT_Read's result, if it is not the file's data   *)

VARIABLES
  stage,   \* "off", "stage1"; then, of the second stage, "disk", "partition", "fat",
           \* "memory", "elf", "header", "skip", "table", "segment", "load", "check", "jump";
           \* and where it ends: "kernel", "ended", "key", "wild", "halted"
  drive,   \* ebr_drive_number: "floppy" (below 0x80) or "hard"
  image,   \* the kernel file on it
  stage1,  \* what the boot sector keeps: the extent, the tries left, es (in sectors),
           \* and the sector stored in each place from STAGE2_LOAD on
  at2000,  \* memory at 0x20000: lbaStart, or Garbage
  offset,  \* partitionOffset
  regions, \* g_MemRegionCount
  elf,     \* what ELF_Read keeps: the position of fd, the program headers in
           \* headerBuffer, the index of the one that is loaded, and virtAddress
  mem

bootVars == <<stage, drive, image, stage1, at2000, offset, regions, elf, mem>>

(* Sectors of the first k extents. *)
Before[k \in 0 .. Len(Extents)] == IF k = 0 THEN 0 ELSE Before[k - 1] + Extents[k].count

Sectors == Before[Len(Extents)]

(* The second stage ends below the boot sector that loads it.  Neither     *)
(* boot.asm nor the build, which writes the extents, sees to that.         *)
ASSUME LayoutAssumption == Room \in Nat /\ Sectors < Room

Stage1Start == [extent |-> 1, tries |-> Retries, es |-> 0,
                sector |-> [a \in 0 .. Sectors - 1 |-> Garbage]]
ElfStart == [pos |-> Lost, table |-> << >>, seg |-> 1, virtual |-> 0]
DirtyMemory == [a \in Addresses |-> Garbage]

BootInit ==
  /\ stage = "off" /\ drive = "floppy" /\ image = CHOOSE i \in Images : TRUE
  /\ stage1 = Stage1Start /\ at2000 = Garbage /\ offset = 0 /\ regions = 0
  /\ elf = ElfStart /\ mem = DirtyMemory

--------------------------------------------------------------------------------
(* The boot sector. *)

(* The BIOS starts it; it saves the partition's entry. *)
PowerOn ==
  /\ stage = "off"
  /\ drive' \in {"floppy", "hard"} /\ image' \in Images
  /\ at2000' = (IF drive' = "hard" THEN PartitionStart ELSE Garbage)
  /\ stage' = "stage1" /\ stage1' = Stage1Start
  /\ UNCHANGED <<offset, regions, elf, mem>>

(* The first n sectors of the extent, stored at es. *)
Stored(n) ==
  [a \in DOMAIN stage1.sector |->
     IF a \in stage1.es .. stage1.es + n - 1
     THEN Extents[stage1.extent].lba + a - stage1.es ELSE stage1.sector[a]]

Loading == stage = "stage1" /\ stage1.extent <= Len(Extents)

(* disk_read, if the BIOS reads. *)
SectorsRead ==
  /\ Loading
  /\ LET n == Extents[stage1.extent].count
     IN  stage1' = [extent |-> stage1.extent + 1, tries |-> Retries, es |-> stage1.es + n,
                    sector |-> Stored(n)]
  /\ UNCHANGED <<stage, drive, image, at2000, offset, regions, elf, mem>>

(* Mutant: after the last try the loop goes on with the next extent. *)
ReadFailsOn ==
  /\ Loading
  /\ \E n \in 0 .. Extents[stage1.extent].count :
       IF stage1.tries > 1
       THEN stage1' = [stage1 EXCEPT !.tries = @ - 1, !.sector = Stored(n)]
       ELSE stage1' = [extent |-> stage1.extent + 1, tries |-> Retries,
                       es |-> stage1.es + Extents[stage1.extent].count, sector |-> Stored(n)]
  /\ UNCHANGED <<stage, drive, image, at2000, offset, regions, elf, mem>>

(* If it does not, having stored any part: disk_reset, which must succeed, *)
(* and another try.                                                        *)
ReadFails ==
  /\ Loading
  /\ \E n \in 0 .. Extents[stage1.extent].count, reset \in BOOLEAN :
       IF reset /\ stage1.tries > 1
       THEN stage1' = [stage1 EXCEPT !.tries = @ - 1, !.sector = Stored(n)] /\ UNCHANGED stage
       ELSE stage' = "key" /\ stage1' = Stage1Start
  /\ UNCHANGED <<drive, image, at2000, offset, regions, elf, mem>>

(* wait_key_and_reboot *)
KeyPressed ==
  /\ stage = "key" /\ stage' = "off"
  /\ UNCHANGED <<drive, image, stage1, at2000, offset, regions, elf, mem>>

ReadFinish == stage = "stage1" /\ stage1.extent > Len(Extents)

(* The jump to the second stage, which clears its bss. *)
Stage2Entered ==
  /\ ReadFinish
  /\ stage' = "disk" /\ regions' = 0
  /\ UNCHANGED <<drive, image, stage1, at2000, offset, elf, mem>>

--------------------------------------------------------------------------------
(* start() of the second stage, up to the kernel file. *)

(* Whether the BIOS knows the drive. *)
x86_Disk_GetDriveParams == BOOLEAN

DISK_Initialize ==
  /\ stage = "disk"
  /\ \E known \in x86_Disk_GetDriveParams : stage' = IF known THEN "partition" ELSE "ended"
  /\ UNCHANGED <<drive, image, stage1, at2000, offset, regions, elf, mem>>

MBR_DetectPartition ==
  /\ stage = "partition" /\ stage' = "fat"
  /\ offset' = (IF drive = "floppy" THEN 0 ELSE at2000)
  /\ UNCHANGED <<drive, image, stage1, at2000, regions, elf, mem>>

(* FAT_Initialize: its data begin where the entry of the partition is. *)
FAT_Initialize ==
  /\ stage = "fat" /\ stage' \in {"memory", "ended"}
  /\ at2000' = Garbage
  /\ UNCHANGED <<drive, image, stage1, offset, regions, elf, mem>>

(* The BIOS has no block, or an error; a block; or one that others follow. *)
x86_E820GetNextBlock == {"none", "last", "more"}

(* Mutant: a full table is filled again from its start. *)
MemoryBlockRound ==
  /\ stage = "memory"
  /\ \E ret \in x86_E820GetNextBlock :
       /\ regions' = IF ret = "none" THEN regions ELSE (regions % MAX_REGIONS) + 1
       /\ stage' = IF ret = "more" THEN "memory" ELSE "elf"
  /\ UNCHANGED <<drive, image, stage1, at2000, offset, elf, mem>>

(* A step of Memory_Detect's loop. *)
MemoryBlock ==
  /\ stage = "memory"
  /\ \E ret \in x86_E820GetNextBlock :
       LET kept == ret # "none" /\ regions < MAX_REGIONS
       IN  /\ regions' = IF kept THEN regions + 1 ELSE regions
           /\ stage' = IF kept /\ ret = "more" THEN "memory" ELSE "elf"
  /\ UNCHANGED <<drive, image, stage1, at2000, offset, elf, mem>>

--------------------------------------------------------------------------------
(* ELF_Read.  The file's byte at o has the value o + 1. *)

(* FAT_Read's results for n bytes. *)
FAT_Read(n) ==
  IF n = 0 THEN {0}
  ELSE {Unnoticed} \cup 0 .. (IF elf.pos = Lost THEN n - 1 ELSE Min({n, image.size - elf.pos}))

(* FAT_Open: the file or NULL. *)
FAT_Open == {0, Lost}

memset(at, value, n) == [a \in Addresses |-> IF a \in at .. at + n - 1 THEN value ELSE mem[a]]

(* Of the file's bytes at o, which are in loadBuffer.  It counts in 16 bits. *)
memcpy(at, o, n) ==
  [a \in Addresses |-> IF a \in at .. at + (n % CopyWrap) - 1 THEN o + a - at + 1 ELSE mem[a]]

Moved(read, n) == IF read = n THEN elf.pos + n ELSE Lost

(* A read that must deliver n bytes: the load ends if it does not. *)
MustRead(n, Done) ==
  \E read \in FAT_Read(n) :
    IF read = n THEN Done
    ELSE /\ stage' = IF read = Unnoticed THEN "wild" ELSE "ended"
         /\ UNCHANGED <<elf, mem>>

InElf(s) == stage = s /\ UNCHANGED <<drive, image, stage1, at2000, offset, regions>>

(* The file is opened; a null file is read like any other. *)
OpenKernel ==
  /\ InElf("elf")
  /\ \E fd \in FAT_Open :
       /\ elf' = [ElfStart EXCEPT !.pos = fd]
       /\ stage' = IF fd = Lost THEN "wild" ELSE "header"
  /\ UNCHANGED mem

(* The header is checked, but the result is not used. *)
ReadHeader ==
  /\ InElf("header")
  /\ MustRead(HeaderSize,
       stage' = "skip" /\ elf' = [elf EXCEPT !.pos = HeaderSize] /\ UNCHANGED mem)

(* How much is skipped is not looked at. *)
SkipToTable ==
  /\ InElf("skip")
  /\ LET n == image.phoff - HeaderSize
     IN  \E read \in FAT_Read(n) :
           /\ stage' = IF read = Unnoticed THEN "wild" ELSE "table"
           /\ elf' = [elf EXCEPT !.pos = Moved(read, n)]
  /\ UNCHANGED mem

ReadTable ==
  /\ InElf("table")
  /\ MustRead(Len(image.phs),
       stage' = "segment" /\ elf' = [elf EXCEPT !.pos = Lost, !.table = image.phs] /\ UNCHANGED mem)

Header == elf.table[elf.seg]

(* Mutant: memory is not cleared. *)
BeginSegmentDirty ==
  /\ InElf("segment") /\ elf.seg <= Len(elf.table) /\ Header.load
  /\ \E fd \in FAT_Open :
       /\ stage' = IF fd = Lost THEN "wild" ELSE "load"
       /\ elf' = [elf EXCEPT !.pos = fd, !.virtual = Header.vaddr]
  /\ UNCHANGED mem

BeginSegment ==
  /\ InElf("segment") /\ elf.seg <= Len(elf.table) /\ Header.load
  /\ mem' = memset(Header.vaddr, 0, Header.memsz)
  /\ \E fd \in FAT_Open :
       /\ stage' = IF fd = Lost THEN "wild" ELSE "load"
       /\ elf' = [elf EXCEPT !.pos = fd, !.virtual = Header.vaddr]

SkipSegment ==
  /\ InElf("segment") /\ elf.seg <= Len(elf.table) /\ ~Header.load
  /\ elf' = [elf EXCEPT !.seg = @ + 1]
  /\ UNCHANGED <<stage, mem>>

Chunk(size) == Min({size, LOAD_SIZE})

(* A step of the loop that seeks by reading, *)
Seek ==
  /\ InElf("load") /\ Header.offset > 0
  /\ LET n == Chunk(Header.offset)
     IN  MustRead(n,
           elf' = [elf EXCEPT !.pos = @ + n, !.table[elf.seg].offset = @ - n]
           /\ UNCHANGED <<stage, mem>>)

(* and of the one that copies. *)
Copy ==
  /\ InElf("load") /\ Header.offset = 0 /\ Header.filesz > 0
  /\ LET n == Chunk(Header.filesz)
     IN  MustRead(n,
           /\ elf' = [elf EXCEPT !.pos = @ + n, !.virtual = @ + n, !.table[elf.seg].filesz = @ - n]
           /\ mem' = memcpy(elf.virtual, elf.pos, n)
           /\ UNCHANGED stage)

EndSegment ==
  /\ InElf("load") /\ Header.offset = 0 /\ Header.filesz = 0
  /\ stage' = "segment" /\ elf' = [elf EXCEPT !.pos = Lost, !.seg = @ + 1]
  /\ UNCHANGED mem

Loaded ==
  /\ InElf("segment") /\ elf.seg > Len(elf.table)
  /\ stage' = "check"
  /\ UNCHANGED <<elf, mem>>

--------------------------------------------------------------------------------
(* start() looks at the bytes at the entry, *)
Check ==
  /\ InElf("check")
  /\ stage' = IF \A a \in image.entry .. image.entry + CheckSize - 1 : mem[a] = 0
              THEN "ended" ELSE "jump"
  /\ UNCHANGED <<elf, mem>>

(* and calls it.  What the boot has left is of no use to the kernel, but   *)
(* for itself; and its memory is its own.                                  *)
EnterKernel ==
  /\ stage = "jump" /\ stage' = "kernel"
  /\ drive' = "floppy" /\ image' = (CHOOSE i \in Images : TRUE)
  /\ stage1' = Stage1Start /\ at2000' = Garbage /\ offset' = 0 /\ regions' = 0
  /\ elf' = ElfStart /\ mem' = DirtyMemory

BootStep ==
  \/ PowerOn \/ SectorsRead \/ ReadFails \/ Stage2Entered
  \/ DISK_Initialize \/ MBR_DetectPartition \/ FAT_Initialize \/ MemoryBlock
  \/ OpenKernel \/ ReadHeader \/ SkipToTable \/ ReadTable
  \/ BeginSegment \/ SkipSegment \/ Seek \/ Copy \/ EndSegment \/ Loaded
  \/ Check \/ EnterKernel

--------------------------------------------------------------------------------
(* The second stage runs only if the sectors of all its extents follow     *)
(* each other in memory, however often reads of them have failed, and it   *)
(* reads the entry of the partition before the FAT reader's data overwrite *)
(* it: both are at 0x20000.                                                *)
Stage2Sound ==
  /\ stage \in {"disk", "jump"} =>
       \A k \in DOMAIN Extents :
         \A i \in 0 .. Extents[k].count - 1 :
           stage1.sector[Before[k - 1] + i] = Extents[k].lba + i
  /\ stage \in {"memory", "jump"} => offset = IF drive = "floppy" THEN 0 ELSE PartitionStart
  /\ regions \in 0 .. MAX_REGIONS

(* A segment is in memory as the file has it, with zeros behind. *)
Whole(ph) ==
  \A a \in InMemory(ph) :
    mem[a] = IF a < ph.vaddr + ph.filesz THEN ph.offset + a - ph.vaddr + 1 ELSE 0

(* The kernel is started only if each of its segments of less than         *)
(* MEMORY_LOAD_SIZE is whole, with whatever a session before has left in   *)
(* memory cleared.  Of a larger segment each full load is copied as zero   *)
(* bytes: start() finds that out only if the entry is in it.               *)
KernelWhole ==
  stage = "jump" =>
    \A k \in DOMAIN image.phs :
      image.phs[k].load /\ image.phs[k].filesz < LOAD_SIZE => Whole(image.phs[k])

(* A boot ends, whatever the BIOS does. *)
BootEnds ==
  stage = "stage1" ~> stage \in {"kernel", "ended", "key", "wild"}

================================================================================
