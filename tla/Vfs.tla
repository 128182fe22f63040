---------------------------------- MODULE Vfs ----------------------------------
(***************************************************************************)
(* The file system calls of syscall.c: sys_handler_open, close, read and   *)
(* write over the tables virtual_files and file_descriptors, with file     *)
(* data in buffers that write replaces by larger ones.                     *)
(*                                                                         *)
(* The heap under it is used by its contract (module Allocator): a buffer  *)
(* is an identity with contents of its own, malloc gives out a free one or *)
(* fails, and free takes it back.  Each call runs to its end inside the    *)
(* int 0x80 gate, interrupts off, so a call is one step.                   *)
(***************************************************************************)
EXTENDS Integers, Sequences, FiniteSets, SequencesExt

CONSTANTS
  Names,     (* paths callers use                                          *)
  Defaults,  (* the files of vfs_init: a sequence of names                 *)
  FileSlots, (* MAX_OPEN_FILES, as the size of virtual_files               *)
  Fds,       (* 3 .. MAX_OPEN_FILES - 1, the descriptors open hands out    *)
  Chunk,     (* 256, the granularity of capacities                         *)
  CopyWord,  (* 2^16: memcpy takes its count as a uint16_t (memory.c:3)    *)
  Word,      (* 2^32, the modulus of uint32_t                              *)
  Buffers,   (* the buffers the heap can hold at a time                    *)
  Byte,      (* byte values callers write                                  *)
  Text,      (* the byte of the string literals                             *)
  Junk,      (* the value of a byte nobody has written                     *)
  NULL,      (* the null pointer                                            *)
  Beyond,    (* marks a read that left the file                            *)
  Flags,     (* the combinations of open flags callers pass: subsets of     *)
             (* {"write", "create", "truncate", "append"}; OPEN_READ is     *)
             (* never looked at                                             *)
  Counts,    (* byte counts callers pass                                   *)
  MaxSize    (* bound of the model: positions stay at or below it          *)

ASSUME VfsAssumption ==
  /\ Defaults \in Seq(Names)
  /\ \A i, j \in DOMAIN Defaults : Defaults[i] = Defaults[j] => i = j
  /\ FileSlots \in Nat /\ Len(Defaults) <= FileSlots
  /\ Fds \subseteq Nat /\ IsFiniteSet(Fds)
  /\ Chunk \in Nat \ {0} /\ CopyWord \in Nat \ {0} /\ Word \in Nat
  /\ Junk \notin Byte
  /\ MaxSize \in Nat \ {0} /\ MaxSize + Chunk < Word
  /\ Counts \subseteq Nat /\ \A n \in Counts : MaxSize + n < Word

Slots    == 1 .. FileSlots
Literals == {<<"literal", i>> : i \in DOMAIN Defaults}  \* string constants of vfs_init
NoFile   == [name |-> NULL, data |-> NULL, size |-> 0, capacity |-> 0, in_use |-> FALSE]
Closed   == [file |-> NULL, position |-> 0, write |-> FALSE, in_use |-> FALSE]

(* A string constant is no block of the heap. *)
ASSUME LiteralAssumption == Buffers \cap Literals = {}

VARIABLES
  virtual_files,     \* slot -> vfile_t
  file_descriptors,  \* descriptor -> file_descriptor_t
  mem,               \* buffer or literal -> its bytes; << >> for a free buffer
  got,               \* what the last call copied to its caller
  wild,              \* whether a copy has run past its caller's buffer
  overtaken          \* history: descriptors whose file another open emptied
                     \* while they were past its start

vars == <<virtual_files, file_descriptors, mem, got, wild, overtaken>>

--------------------------------------------------------------------------------
LowestOf(S) == CHOOSE x \in S : \A y \in S : x <= y

InUse(i)  == virtual_files[i].in_use
Open(fd)  == file_descriptors[fd].in_use
FileOf(fd) == virtual_files[file_descriptors[fd].file]

(* The first slot strcmp finds the path in. *)
Found(path) == {i \in Slots : InUse(i) /\ virtual_files[i].name = path}

FreeSlots   == {i \in Slots : ~InUse(i)}
FreeFds     == {fd \in Fds : ~Open(fd)}
FreeBuffers == {b \in Buffers : mem[b] = << >>}

Fresh(n) == [i \in 1 .. n |-> Junk]

(* memcpy(dst + at, src, n): n is cut to sixteen bits. *)
Copied(dst, at, src, n) ==
  [i \in DOMAIN dst |->
     IF i > at /\ i <= at + (n % CopyWord) THEN src[i - at] ELSE dst[i]]

(* (needed_size + 255) & ~255 *)
RoundToChunk(n) == n + Chunk - 1 - ((n + Chunk - 1) % Chunk)

--------------------------------------------------------------------------------
(* vfs_init: the default files point at string literals. *)
Init ==
  /\ virtual_files =
       [i \in Slots |->
          IF i \in DOMAIN Defaults
          THEN [name |-> Defaults[i], data |-> <<"literal", i>>,
                size |-> 1, capacity |-> 1, in_use |-> TRUE]
          ELSE NoFile]
  /\ file_descriptors = [fd \in Fds |-> Closed]
  /\ mem = [b \in Buffers \cup Literals |->
              IF b \in Literals THEN <<Text>> ELSE << >>]
  /\ got = << >>
  /\ wild = FALSE
  /\ overtaken = {}

(* The tail of sys_handler_open, with the file in slot i of `table`: the   *)
(* lowest free descriptor, or SYSCALL_OUT_OF_MEMORY after the file may     *)
(* already have been created.                                              *)
TakeDescriptor(i, table, flags) ==
  IF FreeFds = {}
  THEN virtual_files' = table /\ UNCHANGED <<file_descriptors, overtaken>>
  ELSE LET fd    == LowestOf(FreeFds)
           trunc == "truncate" \in flags
           start == IF "append" \in flags /\ ~trunc THEN table[i].size ELSE 0
       IN  /\ file_descriptors' = [file_descriptors EXCEPT ![fd] =
                [file |-> i, position |-> start,
                 write |-> "write" \in flags, in_use |-> TRUE]]
           /\ virtual_files' = IF trunc THEN [table EXCEPT ![i].size = 0] ELSE table
           /\ overtaken' = IF trunc
                           THEN overtaken \cup {f \in Fds : /\ Open(f)
                                                            /\ file_descriptors[f].file = i
                                                            /\ file_descriptors[f].position > 0}
                           ELSE overtaken

OpenExisting(path, flags) ==
  /\ Found(path) # {}
  /\ TakeDescriptor(LowestOf(Found(path)), virtual_files, flags)
  /\ got' = << >>
  /\ UNCHANGED mem

(* Mutant: the new slot is not marked in use. *)
OpenNewUnmarked(path, flags) ==
  /\ Found(path) = {}
  /\ "create" \in flags
  /\ FreeSlots # {}
  /\ LET i == LowestOf(FreeSlots) IN
     \E b \in FreeBuffers :
       /\ mem' = [mem EXCEPT ![b] = Fresh(Chunk)]
       /\ TakeDescriptor(i, [virtual_files EXCEPT ![i] =
            [name |-> path, data |-> b, size |-> 0, capacity |-> Chunk, in_use |-> FALSE]],
            flags)
  /\ got' = << >>

(* OPEN_CREATE on a path no slot has: the first free slot gets a buffer of *)
(* one chunk; without memory only the slot's name has changed, and the     *)
(* slot stays out of use.                                                  *)
OpenNew(path, flags) ==
  /\ Found(path) = {}
  /\ "create" \in flags
  /\ FreeSlots # {}
  /\ LET i == LowestOf(FreeSlots) IN
     \/ \E b \in FreeBuffers :
          /\ mem' = [mem EXCEPT ![b] = Fresh(Chunk)]
          /\ TakeDescriptor(i, [virtual_files EXCEPT ![i] =
               [name |-> path, data |-> b, size |-> 0, capacity |-> Chunk, in_use |-> TRUE]],
               flags)
     \/ /\ virtual_files' = [virtual_files EXCEPT ![i].name = path, ![i].data = NULL]
        /\ UNCHANGED <<file_descriptors, mem, overtaken>>
  /\ got' = << >>

Close(fd) ==
  /\ Open(fd)
  /\ file_descriptors' = [file_descriptors EXCEPT ![fd] = Closed]
  /\ overtaken' = overtaken \ {fd}
  /\ got' = << >>
  /\ UNCHANGED <<virtual_files, mem>>

(* The count sys_handler_read hands to memcpy: what was asked for, or what *)
(* is left, which wraps for a position above the size.                     *)
ToRead(fd, count) ==
  LET pos  == file_descriptors[fd].position
      size == FileOf(fd).size
  IN  IF pos + count > size THEN (size - pos) % Word ELSE count

(* sys_handler_read, for a copy that fits the caller's buffer.  From a     *)
(* position above the size it delivers what lies behind the file, and the  *)
(* position becomes the size.                                              *)
Read(fd, count) ==
  /\ Open(fd)
  /\ LET pos     == file_descriptors[fd].position
         file    == FileOf(fd)
         to_read == ToRead(fd, count)
     IN  /\ to_read % CopyWord <= count
         /\ got' = IF pos <= file.size
                   THEN SubSeq(mem[file.data], pos + 1, pos + (to_read % CopyWord))
                   ELSE Beyond
         /\ file_descriptors' =
              [file_descriptors EXCEPT ![fd].position = (pos + to_read) % Word]
  /\ overtaken' = overtaken \ {fd}
  /\ UNCHANGED <<virtual_files, mem>>

(* sys_handler_read, for a copy that does not: memcpy overwrites the       *)
(* caller's memory behind its buffer of count bytes.  Nothing is said of   *)
(* what the program does with that memory; the model ends here.            *)
ReadOverrun(fd, count) ==
  /\ Open(fd)
  /\ ToRead(fd, count) % CopyWord > count
  /\ wild' = TRUE
  /\ got' = << >>
  /\ UNCHANGED <<virtual_files, file_descriptors, mem, overtaken>>

(* Mutants: the old buffer is not freed; its bytes are not copied. *)
GrownLeaking(file, b, needed) ==
  [mem EXCEPT ![b] = Copied(Fresh(RoundToChunk(needed)), 0, mem[file.data], file.size)]

GrownBlank(file, b, needed) ==
  LET moved == [mem EXCEPT ![b] = Fresh(RoundToChunk(needed))]
  IN  IF file.data \in Buffers THEN [moved EXCEPT ![file.data] = << >>] ELSE moved

(* The buffer of a file after write has made room for `needed` bytes:      *)
(* a new one with the old size bytes copied, the old one freed.  A default *)
(* file's literal is passed to free like a heap buffer; the block it names *)
(* is outside the heap.                                                    *)
Grown(file, b, needed) ==
  LET moved == [mem EXCEPT ![b] =
                  Copied(Fresh(RoundToChunk(needed)), 0, mem[file.data], file.size)]
  IN  IF file.data \in Buffers THEN [moved EXCEPT ![file.data] = << >>] ELSE moved

(* sys_handler_write of count bytes v to a file: the data lands in buffer  *)
(* b of `buffers`.                                                         *)
PutBytes(fd, count, v, b, buffers, capacity) ==
  LET pos == file_descriptors[fd].position
      i   == file_descriptors[fd].file
      end == pos + count
  IN  /\ mem' = [buffers EXCEPT ![b] = Copied(@, pos, [k \in 1 .. count |-> v], count)]
      /\ virtual_files' = [virtual_files EXCEPT
           ![i].data = b, ![i].capacity = capacity,
           ![i].size = IF end > @ THEN end ELSE @]
      /\ file_descriptors' = [file_descriptors EXCEPT ![fd].position = end]
      /\ overtaken' = overtaken \ {fd}
      /\ got' = << >>

Write(fd, count, v) ==
  /\ Open(fd)
  /\ file_descriptors[fd].write
  /\ count > 0
  /\ LET file   == FileOf(fd)
         needed == file_descriptors[fd].position + count
     IN  /\ needed <= MaxSize
         /\ IF needed > file.capacity
            THEN \E b \in FreeBuffers :
                   PutBytes(fd, count, v, b, Grown(file, b, needed), RoundToChunk(needed))
            ELSE PutBytes(fd, count, v, file.data, mem, file.capacity)

(* The early returns: SYSCALL_NOT_FOUND, SYSCALL_INVALID_PARAMS,           *)
(* SYSCALL_PERMISSION_DENIED, and SYSCALL_OUT_OF_MEMORY from a write the   *)
(* heap has no buffer for, before anything has changed.                    *)
OpenRefused(path, flags) ==
  /\ Found(path) = {}
  /\ "create" \notin flags \/ FreeSlots = {}

AccessRefused(fd) == ~Open(fd) \/ ~file_descriptors[fd].write

WriteRefused(fd, count) ==
  /\ Open(fd)
  /\ file_descriptors[fd].position + count > FileOf(fd).capacity

Refused ==
  /\ \/ \E path \in Names, flags \in Flags : OpenRefused(path, flags)
     \/ \E fd \in Fds : AccessRefused(fd)
     \/ \E fd \in Fds, count \in Counts : WriteRefused(fd, count)
  /\ got' = << >>
  /\ UNCHANGED <<virtual_files, file_descriptors, mem, overtaken>>

--------------------------------------------------------------------------------
Call ==
  \/ Refused
  \/ \E path \in Names, flags \in Flags : OpenExisting(path, flags) \/ OpenNew(path, flags)
  \/ \E fd \in Fds : Close(fd)
  \/ \E fd \in Fds, count \in Counts : Read(fd, count)
  \/ \E fd \in Fds, count \in Counts, v \in Byte : Write(fd, count, v)

Next ==
  /\ ~wild
  /\ \/ Call /\ UNCHANGED wild
     \/ \E fd \in Fds, count \in Counts : ReadOverrun(fd, count)

Spec == Init /\ [][Next]_vars

--------------------------------------------------------------------------------
FilesInUse == {i \in Slots : InUse(i)}

TypeOK ==
  /\ virtual_files \in
       [Slots -> [name : Names \cup {NULL}, data : Buffers \cup Literals \cup {NULL},
                  size : 0 .. MaxSize, capacity : 0 .. MaxSize + Chunk, in_use : BOOLEAN]]
  /\ file_descriptors \in
       [Fds -> [file : Slots \cup {NULL}, position : 0 .. MaxSize,
                write : BOOLEAN, in_use : BOOLEAN]]
  /\ DOMAIN mem = Buffers \cup Literals
  /\ wild \in BOOLEAN
  /\ overtaken \subseteq Fds

(* An open descriptor is on a file that exists: no call leaves one behind, *)
(* and failing opens hand out none.  Only a descriptor whose file another  *)
(* open with OPEN_TRUNCATE has emptied is past the end of its file, until  *)
(* a read or write through it; and only a read through such a descriptor,  *)
(* whose size - position wraps, copies more than its caller has room for.  *)
DescriptorsValid ==
  /\ TypeOK
  /\ \A fd \in Fds : Open(fd) =>
       /\ file_descriptors[fd].file \in FilesInUse
       /\ fd \notin overtaken => file_descriptors[fd].position <= FileOf(fd).size
  /\ wild => \E fd \in overtaken :
               Open(fd) /\ file_descriptors[fd].position > FileOf(fd).size

(* Each heap buffer belongs to exactly one file and is as long as that     *)
(* file's capacity says; no buffer is lost when write replaces it or when  *)
(* open fails half way, and none is used after it was freed.               *)
BuffersOwned ==
  /\ \A i \in FilesInUse :
       /\ virtual_files[i].size <= virtual_files[i].capacity
       /\ Len(mem[virtual_files[i].data]) = virtual_files[i].capacity
  /\ \A i, j \in FilesInUse : virtual_files[i].data = virtual_files[j].data => i = j
  /\ \A b \in Buffers :
       mem[b] # << >> => \E i \in FilesInUse : virtual_files[i].data = b

(* The bytes of a file. *)
Contents(i) == SubSeq(mem[virtual_files[i].data], 1, virtual_files[i].size)

SlotOf(n) == CHOOSE i \in FilesInUse : virtual_files[i].name = n

StoreContent == [n \in {virtual_files[i].name : i \in FilesInUse} |-> Contents(SlotOf(n))]

StoreDesc == [fd \in {f \in Fds : Open(f)} |->
                [name |-> FileOf(fd).name, pos |-> file_descriptors[fd].position]]

(* The calls implement the abstract file store: what a read delivers is    *)
(* what the writes before it have put there, whatever buffers the data     *)
(* moved through; calls that fail leave every file as it was.  The store   *)
(* promises nothing after a read past the end of a file that was emptied.  *)
Store == INSTANCE FileStore WITH
  Byte    <- Byte,
  Initial <- [n \in {Defaults[i] : i \in DOMAIN Defaults} |-> <<Text>>],
  content <- StoreContent,
  desc    <- StoreDesc,
  got     <- got,
  wild    <- wild

StoreSpec == Store!Spec

================================================================================
