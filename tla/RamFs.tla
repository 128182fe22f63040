---------------------------------- MODULE RamFs --------------------------------
(***************************************************************************)
(* The RAM file system of shell_commands.c and the commands that change    *)
(* it: a table of slots linked into a tree by parent_index, file data in   *)
(* heap buffers, and the line editor of cmd_edit.                          *)
(*                                                                         *)
(* The heap is used by its contract, as in module Vfs.  The shell runs one *)
(* command at a time and nothing else touches the table, so a command is   *)
(* one step, and an editor session a step per line.                        *)
(***************************************************************************)
EXTENDS Integers, Sequences, FiniteSets

CONSTANTS
  MaxFiles,  (* MAX_FILES                                                    *)
  MaxSize,   (* MAX_FILE_SIZE                                                *)
  Chunk,     (* 256, the granularity of capacities                           *)
  Names,     (* names users type                                             *)
  Stored,    (* name -> what MAX_FILENAME_LEN leaves of it                   *)
  Lines,     (* lines users type into the editor, with their line end        *)
  Buffers,   (* the buffers the heap can hold at a time                      *)
  Junk,      (* the value of a byte nobody has written                       *)
  NULL       (* the null pointer                                             *)

(* The bytes of files: what users type, and what nobody has written.       *)
Bytes == {Junk} \cup UNION {{l[k] : k \in DOMAIN l} : l \in Lines}

ASSUME RamFsAssumption ==
  /\ MaxFiles \in Nat \ {0} /\ MaxSize \in Nat \ {0} /\ Chunk \in Nat \ {0}
  /\ NULL \notin Buffers /\ NULL \notin Seq(Bytes)
  /\ Stored \in [Names -> STRING]
  /\ \A n \in Names : Stored[n] \in Names => Stored[Stored[n]] = Stored[n]
  /\ {"/", ".."} \subseteq Names /\ Stored["/"] = "/"
  /\ \A l \in Lines : l # << >> /\ l \in Seq({l[k] : k \in DOMAIN l})

Slots == 0 .. (MaxFiles - 1)

VARIABLES
  files,        \* slot -> ram_file_t
  file_count, current_dir,
  mem,          \* buffer -> its bytes; << >> for a free buffer
  edit,         \* the editor: [on, name, text], edit_buffer up to content_length
  answer        \* of the last command: [op, name, ok, text]

vars == <<files, file_count, current_dir, mem, edit, answer>>

fs == [files |-> files, count |-> file_count, mem |-> mem]

Unused == [name |-> NULL, data |-> NULL, size |-> 0, capacity |-> 0,
           is_directory |-> FALSE, parent_index |-> 0, in_use |-> FALSE]

Closed == [on |-> FALSE, name |-> "/", text |-> << >>]

Answer(op, n, ok, text) == answer' = [op |-> op, name |-> n, ok |-> ok, text |-> text]

(* ramfs_init, called by the first command: the root is its own parent. *)
Init ==
  /\ files = [i \in Slots |->
                IF i = 0 THEN [Unused EXCEPT !.name = "/", !.is_directory = TRUE, !.in_use = TRUE]
                ELSE Unused]
  /\ file_count = 1 /\ current_dir = 0
  /\ mem = [b \in Buffers |-> << >>]
  /\ edit = Closed
  /\ answer = [op |-> "boot", name |-> "/", ok |-> TRUE, text |-> << >>]

--------------------------------------------------------------------------------
(* The functions ramfs_*.  Those that change the file system take and      *)
(* return it as a record, with a result: a slot, or a negative error.      *)

Used == {i \in Slots : files[i].in_use}

LowestOf(S) == CHOOSE x \in S : \A y \in S : x <= y

(* Mutant: only files are found. *)
FindFiles(name) ==
  LET found == {i \in Used : /\ files[i].parent_index = current_dir
                             /\ files[i].name = name /\ ~files[i].is_directory}
  IN  IF found = {} THEN -1 ELSE LowestOf(found)

(* ramfs_find_file in the current directory: strcmp with the whole name. *)
Find(name) ==
  LET found == {i \in Used : files[i].parent_index = current_dir /\ files[i].name = name}
  IN  IF found = {} THEN -1 ELSE LowestOf(found)

Free(s) == {b \in Buffers : s.mem[b] = << >>}

Fresh(n) == [k \in 1 .. n |-> Junk]

With(s, i, entry, mm, count) ==
  [files |-> [s.files EXCEPT ![i] = entry], mem |-> mm, count |-> count, result |-> i]

Failed(s, code) == [files |-> s.files, mem |-> s.mem, count |-> s.count, result |-> code]

(* A slot's entry after ramfs_create. *)
Entry(name, dir, b, capacity) ==
  [name |-> Stored[name], data |-> b, size |-> 0, capacity |-> capacity,
   is_directory |-> dir, parent_index |-> current_dir, in_use |-> TRUE]

(* ramfs_create.  Without memory the slot keeps the name, and stays free. *)
Create(name, dir) ==
  LET slots == Slots \ Used
      i     == LowestOf(slots)
  IN  IF Find(name) >= 0 THEN {Failed(fs, -1)}
      ELSE IF slots = {} THEN {Failed(fs, -2)}
      ELSE IF dir THEN {With(fs, i, Entry(name, TRUE, NULL, 0), mem, file_count + 1)}
      ELSE {With(fs, i, Entry(name, FALSE, b, Chunk), [mem EXCEPT ![b] = Fresh(Chunk)], file_count + 1)
              : b \in Free(fs)}
             \cup {[With(fs, i, [files[i] EXCEPT !.name = Stored[name], !.data = NULL], mem, file_count)
                     EXCEPT !.result = -3]}

RoundToChunk(n) == ((n + Chunk - 1) \div Chunk) * Chunk

(* The bytes of text over the start of buf. *)
Over(text, buf) == [k \in DOMAIN buf |-> IF k <= Len(text) THEN text[k] ELSE buf[k]]

(* Mutants: a text that needs a larger buffer is not copied into it; the   *)
(* old buffer is kept.                                                     *)
PutUncopied(s, i, text) ==
  LET file == s.files[i]
      n    == Len(text)
  IN  IF file.is_directory THEN {Failed(s, -1)}
      ELSE IF n <= file.capacity
      THEN {With(s, i, [file EXCEPT !.size = n],
                 [s.mem EXCEPT ![file.data] = Over(text, @)], s.count)}
      ELSE {With(s, i, [file EXCEPT !.size = n, !.data = b, !.capacity = RoundToChunk(n)],
                 [s.mem EXCEPT ![b] = Over(s.mem[file.data], Fresh(RoundToChunk(n))), ![file.data] = << >>],
                 s.count) : b \in Free(s)}

PutLeaking(s, i, text) ==
  LET file == s.files[i]
      n    == Len(text)
  IN  IF file.is_directory THEN {Failed(s, -1)}
      ELSE IF n <= file.capacity
      THEN {With(s, i, [file EXCEPT !.size = n],
                 [s.mem EXCEPT ![file.data] = Over(text, @)], s.count)}
      ELSE {With(s, i, [file EXCEPT !.size = n, !.data = b, !.capacity = RoundToChunk(n)],
                 [s.mem EXCEPT ![b] = Over(text, Fresh(RoundToChunk(n)))],
                 s.count) : b \in Free(s)}

(* ramfs_write_file from the file in slot i on: a larger buffer if the     *)
(* text does not fit, and the text.  The zero byte it puts after the text  *)
(* is outside the buffer when the text fills it: see module HeapTexts.     *)
Put(s, i, text) ==
  LET file == s.files[i]
      n    == Len(text)
  IN  IF file.is_directory THEN {Failed(s, -1)}
      ELSE IF n <= file.capacity
      THEN {With(s, i, [file EXCEPT !.size = n],
                 [s.mem EXCEPT ![file.data] = Over(text, @)], s.count)}
      ELSE {With(s, i, [file EXCEPT !.size = n, !.data = b, !.capacity = RoundToChunk(n)],
                 [s.mem EXCEPT ![b] = Over(text, Fresh(RoundToChunk(n))), ![file.data] = << >>],
                 s.count) : b \in Free(s)}
             \cup {Failed(s, -3)}

(* ramfs_write_file: creates the file it does not find. *)
WriteFile(name, text) ==
  IF Find(name) >= 0 THEN Put(fs, Find(name), text)
  ELSE UNION {IF s.result < 0 THEN {s} ELSE Put(s, s.result, text) : s \in Create(name, FALSE)}

Contents(i) == SubSeq(mem[files[i].data], 1, files[i].size)

(* ramfs_read_file into a buffer of MAX_FILE_SIZE - 1 bytes; NULL for the  *)
(* errors.                                                                 *)
ReadFile(name) ==
  LET i == Find(name)
  IN  IF i < 0 \/ files[i].is_directory THEN NULL
      ELSE IF files[i].size < MaxSize - 1 THEN Contents(i)
      ELSE SubSeq(Contents(i), 1, MaxSize - 1)

--------------------------------------------------------------------------------
(* The commands. *)

Idle == ~edit.on

Becomes(s) == files' = s.files /\ mem' = s.mem /\ file_count' = s.count

cmd_mkdir(n) ==
  /\ Idle
  /\ \E s \in Create(n, TRUE) : Becomes(s) /\ Answer("mkdir", n, s.result >= 0, << >>)
  /\ UNCHANGED <<current_dir, edit>>

cmd_touch(n) ==
  /\ Idle
  /\ IF Find(n) >= 0
     THEN Answer("touch", n, FALSE, << >>) /\ UNCHANGED <<files, file_count, mem>>
     ELSE \E s \in WriteFile(n, << >>) : Becomes(s) /\ Answer("touch", n, s.result >= 0, << >>)
  /\ UNCHANGED <<current_dir, edit>>

(* Mutant: only files count as entries. *)
HasFile(i) ==
  files[i].is_directory /\ \E j \in Used : files[j].parent_index = i /\ ~files[j].is_directory

(* The test of ramfs_delete: a directory with an entry is not empty.  The  *)
(* root is an entry of itself.                                             *)
HasEntry(i) == files[i].is_directory /\ \E j \in Used : files[j].parent_index = i

(* ramfs_delete. *)
cmd_rm(n) ==
  /\ Idle
  /\ LET i == Find(n) IN
     IF i < 0 \/ HasEntry(i)
     THEN Answer("rm", n, FALSE, << >>) /\ UNCHANGED <<files, file_count, mem>>
     ELSE /\ mem' = IF files[i].data # NULL THEN [mem EXCEPT ![files[i].data] = << >>] ELSE mem
          /\ files' = [files EXCEPT ![i] = Unused]
          /\ file_count' = file_count - 1
          /\ Answer("rm", n, TRUE, << >>)
  /\ UNCHANGED <<current_dir, edit>>

(* ".." and "/" are tested before the table is searched. *)
cmd_cd(n) ==
  /\ Idle
  /\ LET i == Find(n) IN
     CASE n = ".." -> /\ current_dir' = files[current_dir].parent_index
                      /\ Answer("cd", n, TRUE, << >>)
       [] n = "/"  -> /\ current_dir' = 0
                      /\ Answer("cd", n, TRUE, << >>)
       [] OTHER    -> IF i < 0 \/ ~files[i].is_directory
                      THEN current_dir' = current_dir /\ Answer("cd", n, FALSE, << >>)
                      ELSE current_dir' = i /\ Answer("cd", n, TRUE, << >>)
  /\ UNCHANGED <<files, file_count, mem, edit>>

cmd_cat(n) ==
  /\ Idle
  /\ LET text == ReadFile(n)
     IN  IF text = NULL THEN Answer("cat", n, FALSE, << >>) ELSE Answer("cat", n, TRUE, text)
  /\ UNCHANGED <<files, file_count, current_dir, mem, edit>>

(* cmd_edit up to its loop. *)
cmd_edit(n) ==
  /\ Idle
  /\ LET text == ReadFile(n)
     IN  edit' = [on |-> TRUE, name |-> n, text |-> IF text = NULL THEN << >> ELSE text]
  /\ Answer("edit", n, TRUE, << >>)
  /\ UNCHANGED <<files, file_count, current_dir, mem>>

(* content_length + line_len + 2 < MAX_FILE_SIZE *)
Room(l) == Len(edit.text) + (Len(l) - 1) + 2 < MaxSize

(* One line of it; the line that does not fit ends the editor. *)
EditLine(l) ==
  /\ edit.on
  /\ IF Room(l)
     THEN edit' = [edit EXCEPT !.text = @ \o l]
     ELSE edit' = Closed
  /\ Answer("type", edit.name, Room(l), << >>)
  /\ UNCHANGED <<files, file_count, current_dir, mem>>

EditSave ==
  /\ edit.on
  /\ \E s \in WriteFile(edit.name, edit.text) :
       Becomes(s) /\ Answer("save", edit.name, s.result >= 0, << >>)
  /\ edit' = Closed
  /\ UNCHANGED current_dir

EditQuit ==
  /\ edit.on
  /\ edit' = Closed
  /\ Answer("quit", edit.name, TRUE, << >>)
  /\ UNCHANGED <<files, file_count, current_dir, mem>>

Next ==
  \/ \E n \in Names : \/ cmd_mkdir(n) \/ cmd_touch(n) \/ cmd_rm(n)
                      \/ cmd_cd(n) \/ cmd_cat(n) \/ cmd_edit(n)
  \/ \E l \in Lines : EditLine(l)
  \/ EditSave \/ EditQuit

Spec == Init /\ [][Next]_vars

--------------------------------------------------------------------------------
TypeOK ==
  /\ files \in [Slots -> [name : {Stored[n] : n \in Names} \cup {NULL}, data : Buffers \cup {NULL},
                          size : 0 .. MaxSize, capacity : Nat,
                          is_directory : BOOLEAN, parent_index : Slots, in_use : BOOLEAN]]
  /\ file_count \in 0 .. MaxFiles /\ current_dir \in Slots
  /\ edit.on \in BOOLEAN /\ edit.name \in Names /\ Len(edit.text) <= MaxSize

(* Every entry hangs in the tree: its parents are directories in use, and  *)
(* lead to the root, for the entries below the root have no set among them *)
(* that the parents never leave.  In particular the current directory, the *)
(* root and the parents of entries are never removed, though rm tests no   *)
(* more than the entries of the directory it is given.                     *)
TreeRooted ==
  /\ TypeOK
  /\ current_dir \in Used /\ files[current_dir].is_directory
  /\ \A i \in Used : /\ files[i].parent_index \in Used
                     /\ files[files[i].parent_index].is_directory
  /\ files[0].parent_index = 0
  /\ \A S \in SUBSET (Used \ {0}) : S # {} => \E i \in S : files[i].parent_index \notin S

(* Each buffer belongs to one file and is as long as its capacity; none is *)
(* lost when ramfs_write_file replaces it or fails half way, and none is   *)
(* used after rm has freed it.  No file outgrows the buffers that cat and  *)
(* edit read it into, so they show and keep the whole of it.               *)
BuffersOwned ==
  /\ \A i \in Used : ~files[i].is_directory =>
       /\ files[i].data \in Buffers
       /\ Len(mem[files[i].data]) = files[i].capacity
       /\ files[i].size <= files[i].capacity /\ files[i].size <= MaxSize - 1
  /\ \A i, j \in Slots : files[i].data = files[j].data /\ files[i].data # NULL => i = j
  /\ \A b \in Buffers : mem[b] # << >> => \E i \in Used : files[i].data = b

(* ramfs_create's "Check if file already exists" (shell_commands.c:256)    *)
(* looks for the name as it was typed, and the table keeps what            *)
(* MAX_FILENAME_LEN leaves of it: only a name that was cut is the name of  *)
(* two entries of a directory.                                             *)
UniqueNames ==
  \A i, j \in Used :
    files[i].parent_index = files[j].parent_index /\ files[i].name = files[j].name
      => i = j \/ \E n \in Names : Stored[n] # n /\ Stored[n] = files[i].name

--------------------------------------------------------------------------------
(* In a table: the names on the way from the root. *)
PathIn(fl, i) ==
  LET path[d \in 0 .. MaxFiles] ==
        [j \in Slots |-> IF d = 0 \/ j = 0 THEN << >>
                         ELSE Append(path[d - 1][fl[j].parent_index], fl[j].name)]
  IN  path[MaxFiles][i]

(* And the table as a tree: an entry under the path of each slot in use. *)
TreeOf(fl, mm) ==
  LET used == {i \in Slots : fl[i].in_use}
      at   == [i \in used |-> PathIn(fl, i)]
  IN  [p \in {at[i] : i \in used} |->
         LET file == fl[CHOOSE i \in used : at[i] = p]
         IN  [dir  |-> file.is_directory,
              text |-> IF file.is_directory THEN << >> ELSE SubSeq(mm[file.data], 1, file.size)]]

PathOf(i) == PathIn(files, i)

AsTree == TreeOf(files, mem)

(* A directory has two entries of one name. *)
Doubled ==
  \E i, j \in Used :
    i # j /\ files[i].parent_index = files[j].parent_index /\ files[i].name = files[j].name

(* The commands implement the tree of module DirTree: each changes what    *)
(* its name says and nothing else.  A name too long for its field makes an *)
(* entry under what is left of it, and never finds one; until it makes a   *)
(* second one of the same name, all else is as it should be.               *)
Tree == INSTANCE DirTree WITH
  MaxText <- MaxSize - 2, tree <- AsTree, cwd <- PathOf(current_dir), doubled <- Doubled

TreeSpec == Tree!Spec

================================================================================
