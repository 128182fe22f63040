--------------------------------- MODULE RamViews ------------------------------
(***************************************************************************)
(* The commands of the shell that show the RAM file system: pwd, ls, find, *)
(* grep, wc and hexdump.  They change nothing, so they are operators here, *)
(* of the state of module RamFs, with what they print as their value.      *)
(***************************************************************************)
EXTENDS RamFs

CONSTANTS
  Spelling,   (* stored name -> its characters                              *)
  PathRoom,   (* characters temp_path has room for                          *)
  PathBuffer, (* size of the buffer a path is asked for with                *)
  EOL,        (* the line end,                                              *)
  Space,      (* and the characters that end a word, it among them          *)
  RowSize,    (* bytes in a row of hexdump                                  *)
  Patterns    (* what users look for                                        *)

ASSUME RamViewsAssumption ==
  /\ PathRoom \in Nat /\ PathBuffer \in 2 .. PathRoom /\ RowSize \in Nat \ {0}
  /\ EOL \in Space
  /\ Patterns \subseteq Seq(STRING) /\ \A n \in Names : Spelling[Stored[n]] \in Seq(STRING)

--------------------------------------------------------------------------------
(* shell_strncpy, as printf shows its result: not the text if that leaves  *)
(* no room for its end.  A shorter one is filled up with one zero too many.*)
Copied(text, n) == IF Len(text) < n THEN text ELSE NULL

(* A step of ramfs_get_current_path up the tree.  It stops in front of     *)
(* temp_path.                                                              *)

(* Mutant: the parent's name is taken, not the directory's. *)
ClimbParent(p) ==
  LET name == Spelling[files[files[p.dir].parent_index].name]
      pos  == p.pos - Len(name) - 1
  IN  IF p.dir = 0 \/ p.pos < 0 THEN p
      ELSE [dir  |-> IF pos < 0 THEN p.dir ELSE files[p.dir].parent_index,
            pos  |-> pos,
            text |-> (<<"/">> \o name) \o p.text]

Climb(p) ==
  LET name == Spelling[files[p.dir].name]
      pos  == p.pos - Len(name) - 1
  IN  IF p.dir = 0 \/ p.pos < 0 THEN p
      ELSE [dir  |-> IF pos < 0 THEN p.dir ELSE files[p.dir].parent_index,
            pos  |-> pos,
            text |-> (<<"/">> \o name) \o p.text]

(* What pwd, ls and cd show of it. *)
cmd_pwd ==
  LET climbed[k \in 0 .. MaxFiles] ==
        IF k = 0 THEN [dir |-> current_dir, pos |-> PathRoom, text |-> << >>] ELSE Climb(climbed[k - 1])
      p == climbed[MaxFiles]
  IN  IF current_dir = 0 THEN Copied(<<"/">>, PathBuffer)
      ELSE IF p.pos < 0 THEN NULL
      ELSE Copied(p.text, PathBuffer)

(* The slots of a set in the order of the table: those ls shows, *)
Listed(slots) ==
  LET listed[k \in 0 .. MaxFiles] ==
        IF k = 0 THEN << >>
        ELSE IF k - 1 \in slots THEN Append(listed[k - 1], k - 1)
        ELSE listed[k - 1]
  IN  listed[MaxFiles]

cmd_ls == Listed({i \in Used : files[i].parent_index = current_dir})

IsPrefix(pattern, text) ==
  Len(pattern) <= Len(text) /\ SubSeq(text, 1, Len(pattern)) = pattern

shell_strstr(text, pattern) ==
  pattern = << >> \/ \E k \in DOMAIN text : IsPrefix(pattern, SubSeq(text, k, Len(text)))

(* and find, in the whole table. *)
cmd_find(pattern) == Listed({i \in Used : shell_strstr(Spelling[files[i].name], pattern)})

(* One line of grep: it is cut off at its end, searched, and put together. *)
GrepLine(text, pattern, g) ==
  LET ends == {k \in g.start .. Len(text) : text[k] = EOL}
      end  == IF ends = {} THEN Len(text) + 1 ELSE LowestOf(ends)
  IN  IF g.start > Len(text) THEN g
      ELSE [start |-> end + 1, line |-> g.line + 1,
            found |-> IF shell_strstr(SubSeq(text, g.start, end - 1), pattern)
                      THEN g.found \cup {g.line} ELSE g.found]

(* The numbers of the lines it prints. *)
cmd_grep(text, pattern) ==
  LET grep[k \in 0 .. Len(text)] ==
        IF k = 0 THEN [start |-> 1, line |-> 1, found |-> {}] ELSE GrepLine(text, pattern, grep[k - 1])
  IN  grep[Len(text)].found

(* wc counts a word where it ends, and a last one. *)
WcStep(w, c) ==
  [lines   |-> IF c = EOL THEN w.lines + 1 ELSE w.lines,
   words   |-> IF c \in Space /\ w.in_word THEN w.words + 1 ELSE w.words,
   in_word |-> c \notin Space]

cmd_wc(text) ==
  LET counted[k \in 0 .. Len(text)] ==
        IF k = 0 THEN [lines |-> 0, words |-> 0, in_word |-> FALSE] ELSE WcStep(counted[k - 1], text[k])
      w == counted[Len(text)]
  IN  <<w.lines, IF w.in_word THEN w.words + 1 ELSE w.words, Len(text)>>

(* The rows of a dump: the bytes of each, and the blanks that fill it up.  *)
cmd_hexdump(text) ==
  [r \in 1 .. (Len(text) + RowSize - 1) \div RowSize |->
     LET offset == (r - 1) * RowSize
         end    == IF offset + RowSize > Len(text) THEN Len(text) ELSE offset + RowSize
     IN  [at |-> offset, bytes |-> SubSeq(text, offset + 1, end),
          blanks |-> RowSize - (end - offset)]]

--------------------------------------------------------------------------------
(* A path, spelled. *)
Spelled(path) ==
  LET spelled[d \in 0 .. Len(path)] ==
        IF d = 0 THEN << >> ELSE spelled[d - 1] \o (<<"/">> \o Spelling[path[d]])
  IN  spelled[Len(path)]

(* pwd shows the current directory's path if it is shorter than its buffer; *)
(* a longer one is shown without its end, and one longer than temp_path     *)
(* (shell_commands.c:390) is read from in front of it.                      *)
PathShown ==
  LET path_ == IF current_dir = 0 THEN <<"/">> ELSE Spelled(PathOf(current_dir))
  IN  Len(path_) < PathBuffer => cmd_pwd = path_

Occurs(pattern, text) ==
  \E k \in 0 .. Len(text) - Len(pattern) : SubSeq(text, k + 1, k + Len(pattern)) = pattern

Elements(s) == {s[k] : k \in DOMAIN s}

(* ls shows the entries of the current directory, each once, and of the     *)
(* root the root itself, where names are different; find shows those whose  *)
(* names have the pattern.                                                  *)
EntriesShown ==
  /\ ~Doubled =>
       /\ {PathOf(i) : i \in Elements(cmd_ls)} =
            {p \in DOMAIN AsTree : IF p = << >> THEN current_dir = 0
                                   ELSE SubSeq(p, 1, Len(p) - 1) = PathOf(current_dir)}
       /\ Cardinality({files[i].name : i \in Elements(cmd_ls)}) = Len(cmd_ls)
  /\ \A pattern \in Patterns :
       Elements(cmd_find(pattern)) = {i \in Used : Occurs(pattern, Spelling[files[i].name])}

(* Where the lines of a text begin, and the one that begins at i. *)
LineStarts(text) == {i \in DOMAIN text : i = 1 \/ text[i - 1] = EOL}

LineAt(text, i) ==
  LET ends == {j \in i .. Len(text) : text[j] = EOL}
  IN  SubSeq(text, i, IF ends = {} THEN Len(text) ELSE LowestOf(ends) - 1)

EndsBefore(text, i) == Cardinality({j \in DOMAIN text : j < i /\ text[j] = EOL})

WordStarts(text) == {i \in DOMAIN text : text[i] \notin Space /\ (i = 1 \/ text[i - 1] \in Space)}

(* wc and grep count the lines and words of a text; grep finds the lines    *)
(* the pattern is in.  The rows of hexdump follow each other through the    *)
(* whole of the text, and are filled up to one width.                       *)
TextShown(text) ==
  /\ cmd_wc(text) = <<EndsBefore(text, Len(text) + 1), Cardinality(WordStarts(text)), Len(text)>>
  /\ \A pattern \in Patterns :
       cmd_grep(text, pattern) =
         {1 + EndsBefore(text, i) : i \in {i \in LineStarts(text) : Occurs(pattern, LineAt(text, i))}}
  /\ LET dump    == cmd_hexdump(text)
         next(r) == dump[r].at + Len(dump[r].bytes)
     IN  /\ \A r \in DOMAIN dump :
              /\ dump[r].at = IF r = 1 THEN 0 ELSE next(r - 1)
              /\ dump[r].bytes # << >> /\ dump[r].bytes = SubSeq(text, dump[r].at + 1, next(r))
              /\ Len(dump[r].bytes) + dump[r].blanks = RowSize
         /\ Len(text) = IF dump = << >> THEN 0 ELSE next(Len(dump))

(* What is shown is what is there, in every state a session reaches: of     *)
(* the current directory, the whole table, and each file.                   *)
ShownAsStored ==
  PathShown /\ EntriesShown /\ \A i \in Used : ~files[i].is_directory => TextShown(Contents(i))

================================================================================
