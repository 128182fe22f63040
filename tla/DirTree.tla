-------------------------------- MODULE DirTree --------------------------------
(***************************************************************************)
(* What the file commands of the shell promise (mkdir, touch, rm, cd, cat, *)
(* edit of shell_commands.c): a tree of named directories and texts, a     *)
(* current directory, and an editor that replaces a text as a whole.       *)
(* Module RamFs, with its table of slots and parent indices, implements    *)
(* it.                                                                     *)
(*                                                                         *)
(* A path is a sequence of names; the root is << >>, and is an entry of    *)
(* itself under the name "/".  An entry has the name it was made under as  *)
(* far as its field holds it.  Nothing else is found under a name that is  *)
(* cut, and two of them may be cut to the same: where a directory has two  *)
(* entries of one name, nothing is promised.                               *)
(***************************************************************************)
EXTENDS Integers, Sequences

CONSTANTS
  Names,   (* names users type                    *)
  Stored,  (* name -> what its field holds of it  *)
  Lines,   (* lines users type into the editor, with their line end *)
  MaxText  (* longest text the editor holds       *)

VARIABLES
  tree,    \* path -> [dir, text]
  cwd,     \* path of the current directory
  edit,    \* the editor: [on, name, text]
  answer,  \* of the last command: [op, name, ok, text]
  doubled  \* whether a directory has two entries of one name

vars == <<tree, cwd, edit, answer, doubled>>

Dir        == [dir |-> TRUE, text |-> << >>]
File(text) == [dir |-> FALSE, text |-> text]
Closed     == [on |-> FALSE, name |-> "/", text |-> << >>]

Answer(op, n, ok, text) == answer' = [op |-> op, name |-> n, ok |-> ok, text |-> text]

Init ==
  /\ tree = [p \in {<< >>} |-> Dir]
  /\ cwd = << >>
  /\ edit = Closed
  /\ answer = [op |-> "boot", name |-> "/", ok |-> TRUE, text |-> << >>]
  /\ doubled = FALSE

--------------------------------------------------------------------------------
Lookup(n) == IF cwd = << >> /\ n = "/" THEN << >> ELSE Append(cwd, n)

Exists(n)   == Lookup(n) \in DOMAIN tree
IsDir(n)    == Exists(n) /\ tree[Lookup(n)].dir
IsFile(n)   == Exists(n) /\ ~tree[Lookup(n)].dir

(* Directory n contains something; the root contains itself. *)
HasEntry(n) ==
  \/ Lookup(n) = << >>
  \/ \E p \in DOMAIN tree : Len(p) = Len(cwd) + 2 /\ SubSeq(p, 1, Len(cwd) + 1) = Lookup(n)

(* An entry can be made under name n. *)
New(n) == ~Exists(n) /\ Lookup(Stored[n]) \notin DOMAIN tree

(* Where it is then, or the one that is there already. *)
Place(n) == IF Exists(n) THEN Lookup(n) ELSE Lookup(Stored[n])

(* The tree with entry e in that place. *)
With(n, e) ==
  [p \in DOMAIN tree \cup {Place(n)} |-> IF p = Place(n) THEN e ELSE tree[p]]

Idle == ~edit.on

(* mkdir and touch make an entry if there is none; they may find no room. *)
Make(op, n, e) ==
  /\ Idle
  /\ \/ Answer(op, n, TRUE, << >>) /\ New(n) /\ tree' = With(n, e)
     \/ Answer(op, n, FALSE, << >>) /\ tree' = tree
  /\ UNCHANGED <<cwd, edit>>

(* rm removes what exists and has no entries, and nothing else. *)
Rm(n) ==
  /\ Idle
  /\ \/ /\ Answer("rm", n, TRUE, << >>)
        /\ Exists(n) /\ ~HasEntry(n)
        /\ tree' = [p \in DOMAIN tree \ {Lookup(n)} |-> tree[p]]
     \/ /\ Answer("rm", n, FALSE, << >>)
        /\ ~Exists(n) \/ HasEntry(n)
        /\ tree' = tree
  /\ UNCHANGED <<cwd, edit>>

Cd(n) ==
  /\ Idle /\ n \notin {"/", ".."}
  /\ Answer("cd", n, IsDir(n), << >>)
  /\ cwd' = IF IsDir(n) THEN Lookup(n) ELSE cwd
  /\ UNCHANGED <<tree, edit>>

CdUp ==
  /\ Idle
  /\ Answer("cd", "..", TRUE, << >>)
  /\ cwd' = IF cwd = << >> THEN cwd ELSE SubSeq(cwd, 1, Len(cwd) - 1)
  /\ UNCHANGED <<tree, edit>>

CdRoot ==
  /\ Idle
  /\ Answer("cd", "/", TRUE, << >>)
  /\ cwd' = << >>
  /\ UNCHANGED <<tree, edit>>

(* cat shows the whole text. *)
Cat(n) ==
  /\ Idle
  /\ Answer("cat", n, IsFile(n), IF IsFile(n) THEN tree[Lookup(n)].text ELSE << >>)
  /\ UNCHANGED <<tree, cwd, edit>>

(* The editor starts from the text of an existing file, *)
Edit(n) ==
  /\ Idle
  /\ Answer("edit", n, TRUE, << >>)
  /\ edit' = [on |-> TRUE, name |-> n, text |-> IF IsFile(n) THEN tree[Lookup(n)].text ELSE << >>]
  /\ UNCHANGED <<tree, cwd>>

(* takes lines while there is room, *)
Type(l) ==
  /\ edit.on
  /\ LET fits == Len(edit.text \o l) <= MaxText
     IN  /\ Answer("type", edit.name, fits, << >>)
         /\ edit' = IF fits THEN [edit EXCEPT !.text = @ \o l] ELSE Closed
  /\ UNCHANGED <<tree, cwd>>

(* and on SAVE makes them the text of the file.  Without memory the file   *)
(* stays as it was, or comes into existence empty.                         *)
Save ==
  LET n == edit.name IN
  /\ edit.on
  /\ \/ Answer("save", n, TRUE, << >>) /\ (IsFile(n) \/ New(n)) /\ tree' = With(n, File(edit.text))
     \/ Answer("save", n, FALSE, << >>) /\ tree' = tree
     \/ Answer("save", n, FALSE, << >>) /\ New(n) /\ tree' = With(n, File(<< >>))
  /\ edit' = Closed
  /\ UNCHANGED cwd

Quit ==
  /\ edit.on
  /\ Answer("quit", edit.name, TRUE, << >>)
  /\ edit' = Closed
  /\ UNCHANGED <<tree, cwd>>

(* A name that is cut is not found under what is left of it, so that what  *)
(* mkdir, touch and the editor make may be a second entry of that name.    *)
Double ==
  \E n \in Names :
    /\ doubled' = TRUE
    /\ edit.on => n = edit.name
    /\ Stored[n] # n /\ Lookup(Stored[n]) \in DOMAIN tree

Command ==
  \/ \E n \in Names : \/ Make("mkdir", n, Dir) \/ Make("touch", n, File(<< >>))
                      \/ Rm(n) \/ Cd(n) \/ Cat(n) \/ Edit(n)
  \/ CdUp \/ CdRoot
  \/ \E l \in Lines : Type(l)
  \/ Save \/ Quit

Next == doubled \/ Double \/ (Command /\ UNCHANGED doubled)

Spec == Init /\ [][Next]_vars

================================================================================
