---------------------------------- MODULE Shell --------------------------------
(***************************************************************************)
(* The shell of shell.c on the console of vga_text.c: the line editor of   *)
(* shell_run, which keeps a buffer, a length and a cursor and repaints the *)
(* row by hand, the parser, the search of the command table, and of the    *)
(* commands those that work on the state kept here: `clear` and `dmesg`,   *)
(* and `reboot` and `exit`, which end it.                                  *)
(*                                                                         *)
(* One step is one character taken from the keyboard's ring.  A line   *)
(* of output is one cell wide in the model:                                *)
(* what a command prints matters only by where it leaves the cursor.       *)
(***************************************************************************)
EXTENDS Console, Dmesg, FiniteSetsExt

CONSTANTS
  SHELL_BUFFER_SIZE, SHELL_MAX_ARGS,
  Prompt,                (* SHELL_PROMPT, as a sequence of characters       *)
  Printable, Special,    (* characters that are shown, Blank among them,    *)
                         (* and others that enter a line, such as Tab       *)
  Zero,                  (* the character that ends a string                *)
  Out,                   (* stands for a line of output                     *)
  dmesg, clear, reboot, exit, (* commands, and                              *)
  OptClear, OptTest,     (* options of dmesg: words                         *)
  BootLog, TestMessage   (* what start() has logged, what --test logs       *)

ASSUME ShellAssumption ==
  /\ SHELL_BUFFER_SIZE \in Nat \ {0} /\ SHELL_MAX_ARGS \in Nat \ {0}
  /\ Zero \notin Printable \cup Special
  /\ Blank \in Printable /\ Printable \cap Special = {}
  /\ (Printable \cup {Out}) \cap {NL, CR, Tab} = {}
  /\ Prompt \in Seq({Prompt[k] : k \in DOMAIN Prompt} \ {NL, CR, Tab})
  /\ Len(Prompt) + 1 < ScreenWidth
  /\ BootLog \in Seq({BootLog[k] : k \in DOMAIN BootLog})
  /\ dmesg # clear

VARIABLES
  command_buffer, command_pos, cursor_position,
  screen,
  messages,
  \* history
  submitted, \* the line the last step has processed, if it has
  logged,    \* messages since boot or the last clear, one more than fit at most
  plain,     \* the prompt is at the left edge and nothing has been written `far`, and
             \* the line has been narrow and without special characters since
  far        \* since the screen was last cleared, a character has been written two
             \* rows below the cursor's, or more

vars == <<command_buffer, command_pos, cursor_position, screen, messages,
          submitted, logged, plain, far>>

Empty == [i \in 0 .. SHELL_BUFFER_SIZE - 1 |-> Zero]

(* The string at an index of a buffer, as printf sees it. *)
StringAt(buffer, i) ==
  LET after == {j \in DOMAIN buffer : j >= i /\ buffer[j] = Zero}
  IN  [k \in 1 .. Min(after) - i |-> buffer[i + k - 1]]

(* The line that has been typed. *)
Line == [k \in 1 .. command_pos |-> command_buffer[k - 1]]

(* shell_init's greeting and the prompt; the messages of start().          *)
Greeting == Puts(Puts(Cleared, <<Out, NL, Out, NL, NL>>), Prompt)
BootMessages == AddedAll(Uninitialized, BootLog)
BootLogged == SubSeq(BootLog, 1, Min({Len(BootLog), SIMPLE_MSG_COUNT + 1}))

Init ==
  /\ command_buffer = Empty /\ command_pos = 0 /\ cursor_position = 0
  /\ screen = Greeting
  /\ messages = BootMessages /\ logged = BootLogged
  /\ submitted = << >>
  /\ plain = TRUE /\ far = FALSE

--------------------------------------------------------------------------------
(* shell_parse_command: words are cut where a blank or a tab ends them;    *)
(* the loop stops as soon as the table of words is full.                   *)

(* Mutant: a blank does not end the word it follows. *)
ParseStepJoining(p, i) ==
  IF p.buffer[i] = Zero \/ Len(p.argv) >= SHELL_MAX_ARGS - 1 THEN p
  ELSE IF p.buffer[i] \notin {Blank, Tab}
  THEN [p EXCEPT !.argv = IF p.in_word THEN @ ELSE Append(@, i), !.in_word = TRUE]
  ELSE [p EXCEPT !.in_word = FALSE]

ParseStep(p, i) ==
  IF p.buffer[i] = Zero \/ Len(p.argv) >= SHELL_MAX_ARGS - 1 THEN p
  ELSE IF p.buffer[i] \notin {Blank, Tab}
  THEN [p EXCEPT !.argv = IF p.in_word THEN @ ELSE Append(@, i), !.in_word = TRUE]
  ELSE [p EXCEPT !.buffer[i] = IF p.in_word THEN Zero ELSE @, !.in_word = FALSE]

Parse(buffer) ==
  LET scan[i \in 0 .. SHELL_BUFFER_SIZE - 1] ==
        IF i = 0 THEN [buffer |-> buffer, argv |-> << >>, in_word |-> FALSE]
        ELSE ParseStep(scan[i - 1], i - 1)
      p == scan[SHELL_BUFFER_SIZE - 1]
  IN  [k \in DOMAIN p.argv |-> StringAt(p.buffer, p.argv[k])]

--------------------------------------------------------------------------------
(* Commands: what they make of [screen, messages, log]. *)

(* n lines of output. *)
Printing(s, n) == [s EXCEPT !.screen = Puts(@, [k \in 1 .. 2 * n |-> IF k % 2 = 1 THEN Out ELSE NL])]

(* Output that does not end its line. *)
PrintingOpen(s) == [s EXCEPT !.screen = Puts(@, <<Out>>)]

Logging(s, message) ==
  [s EXCEPT !.messages = Added(@, message),
            !.log = IF Len(@) > SIMPLE_MSG_COUNT THEN @ ELSE Append(@, message)]

(* cmd_dmesg; --stats, --help and what it does not know print lines only,  *)
(* one of them by shell_process_command when there is an error code.       *)
cmd_dmesg(s, argv) ==
  CASE Len(argv) = 1 /\ s.messages.idx = 0 -> PrintingOpen(s)
    [] Len(argv) = 1 /\ s.messages.idx > 0 -> Printing(s, Len(Displayed(s.messages)) + 2)
    [] Len(argv) = 2 /\ argv[2] = OptClear ->
         PrintingOpen([s EXCEPT !.messages = DmesgCleared(@), !.log = << >>])
    [] Len(argv) = 2 /\ argv[2] = OptTest -> Printing(Logging(s, TestMessage), 1)
    [] OTHER -> Printing(s, 2)

cmd_clear(s) == [s EXCEPT !.screen = Cleared]

(* shell_process_command: the table is searched for the first word. *)
Processed(s, buffer) ==
  LET argv == Parse(buffer)
  IN  CASE argv = << >>        -> s
        [] argv # << >> /\ argv[1] = dmesg -> cmd_dmesg(s, argv)
        [] argv # << >> /\ argv[1] = clear -> cmd_clear(s)
        [] OTHER               -> Printing(s, 2)

--------------------------------------------------------------------------------
(* shell_run, by character. *)

(* The prompt, then the row as far as it can be repainted in place. *)
Narrow(length) == Len(Prompt) + length + 1 < ScreenWidth

Asked(command) ==
  LET argv == Parse(command_buffer)
  IN  command_pos > 0 /\ argv # << >> /\ argv[1] = command

(* cmd_reboot, cmd_exit: nothing here is used again; what it holds when    *)
(* the kernel next starts stands for it until then.                        *)
Leave(command) ==
  /\ Asked(command)
  /\ command_buffer' = Empty /\ command_pos' = 0 /\ cursor_position' = 0
  /\ screen' = Greeting
  /\ messages' = BootMessages /\ logged' = BootLogged
  /\ submitted' = Line
  /\ plain' = TRUE /\ far' = FALSE

Enter ==
  LET before == [screen |-> Putc(screen, NL), messages |-> messages, log |-> logged]
      after  == IF command_pos > 0 THEN Processed(before, command_buffer) ELSE before
  IN  /\ ~Asked(reboot) /\ ~Asked(exit)
      /\ command_buffer' = Empty /\ command_pos' = 0 /\ cursor_position' = 0
      /\ screen' = Puts(after.screen, Prompt)
      /\ messages' = after.messages /\ logged' = after.log
      /\ submitted' = Line
      /\ far' = (far /\ ~Asked(clear))
      /\ plain' = (after.screen.x = 0 /\ ~far')

(* Mutant: only what the new line needs is blanked. *)
RepaintedShort(s, buffer, length, cursor) ==
  LET start   == [s EXCEPT !.x = Len(Prompt)]
      blanked == Puts(start, [k \in 1 .. length |-> Blank])
      written == Puts([blanked EXCEPT !.x = Len(Prompt)], StringAt(buffer, 0))
  IN  [written EXCEPT !.x = Len(Prompt) + cursor]

(* The row from the prompt on is blanked and written again. *)
Repainted(s, buffer, length, cursor) ==
  LET start   == [s EXCEPT !.x = Len(Prompt)]
      blanked == Puts(start, [k \in 1 .. length + 2 |-> Blank])
      written == Puts([blanked EXCEPT !.x = Len(Prompt)], StringAt(buffer, 0))
  IN  [written EXCEPT !.x = Len(Prompt) + cursor]

(* The buffer without the character before the cursor. *)
Closed ==
  [i \in DOMAIN command_buffer |->
     IF i \in cursor_position - 1 .. command_pos - 2 THEN command_buffer[i + 1]
     ELSE IF i = command_pos - 1 THEN Zero ELSE command_buffer[i]]

Backspace ==
  /\ cursor_position > 0
  /\ command_buffer' = Closed
  /\ command_pos' = command_pos - 1
  /\ cursor_position' = cursor_position - 1
  /\ screen' = Repainted(screen, command_buffer', command_pos', cursor_position')
  /\ submitted' = << >>
  /\ UNCHANGED <<messages, logged, plain, far>>

Left ==
  /\ cursor_position > 0
  /\ cursor_position' = cursor_position - 1
  /\ screen' = [screen EXCEPT !.x = IF @ > Len(Prompt) THEN @ - 1 ELSE @]
  /\ submitted' = << >>
  /\ UNCHANGED <<command_buffer, command_pos, messages, logged, plain, far>>

Right ==
  /\ cursor_position < command_pos
  /\ cursor_position' = cursor_position + 1
  /\ screen' = [screen EXCEPT !.x = @ + 1]
  /\ submitted' = << >>
  /\ UNCHANGED <<command_buffer, command_pos, messages, logged, plain, far>>

(* Mutant: what is behind the cursor is not moved on. *)
OpenedOver(c) ==
  [i \in DOMAIN command_buffer |-> IF i = cursor_position THEN c ELSE command_buffer[i]]

(* The buffer with a character at the cursor. *)
Opened(c) ==
  [i \in DOMAIN command_buffer |->
     IF i \in cursor_position + 1 .. command_pos THEN command_buffer[i - 1]
     ELSE IF i = cursor_position THEN c ELSE command_buffer[i]]

Insert(c) ==
  /\ command_pos < SHELL_BUFFER_SIZE - 1
  /\ command_buffer' = Opened(c)
  /\ command_pos' = command_pos + 1
  /\ cursor_position' = cursor_position + 1
  /\ far' = (far \/ screen.x >= 2 * ScreenWidth)

(* A character that is shown: the row is written again from the cursor on. *)
Type(c) ==
  /\ Insert(c)
  /\ screen' = [Puts(screen, StringAt(command_buffer', cursor_position)) EXCEPT !.x = screen.x + 1]
  /\ plain' = (plain /\ Narrow(command_pos'))
  /\ submitted' = << >>
  /\ UNCHANGED <<messages, logged>>

(* Any other is written where the cursor is, and nothing else is. *)
TypeSpecial(c) ==
  /\ Insert(c)
  /\ screen' = Putc(screen, c)
  /\ plain' = FALSE
  /\ submitted' = << >>
  /\ UNCHANGED <<messages, logged>>

Next ==
  \/ Enter \/ Backspace \/ Left \/ Right
  \/ \E c \in Printable : Type(c)
  \/ \E c \in Special : TypeSpecial(c)

--------------------------------------------------------------------------------
TypeOK ==
  /\ command_buffer \in [0 .. SHELL_BUFFER_SIZE - 1 -> Printable \cup Special \cup {Zero}]
  /\ command_pos \in 0 .. SHELL_BUFFER_SIZE - 1
  /\ cursor_position \in 0 .. command_pos
  /\ screen.x \in Nat /\ screen.y \in 0 .. ScreenHeight - 1
  /\ messages.idx \in 0 .. SIMPLE_MSG_COUNT

(* printf("%s") ends at the first zero: it must be the end of the line,    *)
(* after any mix of insertions and deletions.  The row shows the prompt,   *)
(* the line and nothing else, with the cursor where the next character     *)
(* goes.  The code repaints by column numbers: the row is right only for a *)
(* prompt at the left edge and a line that leaves the last column free,    *)
(* without special characters.                                             *)
ScreenShowsLine ==
  /\ TypeOK
  /\ \A i \in DOMAIN command_buffer : (command_buffer[i] = Zero) = (i >= command_pos)
  /\ plain =>
       LET shown == Prompt \o Line
           row   == screen.y * ScreenWidth
       IN  /\ screen.x = Len(Prompt) + cursor_position
           /\ \A x \in 0 .. ScreenWidth - 1 :
                screen.cell[row + x] = IF x < Len(shown) THEN shown[x + 1] ELSE Blank

(* The words a line has, each with its place. *)
IsBlank(i)  == Line[i] \in {Blank, Tab}
WordStarts == {i \in 1 .. command_pos : ~IsBlank(i) /\ (i = 1 \/ IsBlank(i - 1))}
WordAt(i) ==
  LET ends == {j \in i .. command_pos : IsBlank(j)}
  IN  SubSeq(Line, i, IF ends = {} THEN command_pos ELSE Min(ends) - 1)

(* shell_parse_command hands a command the words of the line in order, but *)
(* for the last the table has room for, which is the rest of the line.     *)
ArgvIsWords ==
  LET argv    == Parse(command_buffer)
      last    == SHELL_MAX_ARGS - 1
      Rank(i) == Cardinality({j \in WordStarts : j <= i})
  IN  /\ Len(argv) = Min({Cardinality(WordStarts), last})
      /\ \A i \in WordStarts :
           Rank(i) <= last =>
             argv[Rank(i)] = IF Rank(i) < last THEN WordAt(i) ELSE SubSeq(Line, i, command_pos)

(* dmesg shows the messages since the boot or the last --clear, oldest     *)
(* first, as many as the table holds; later ones are lost.  The numbers it *)
(* prints are those of its table, unless that is full: for twenty there is *)
(* no digit.                                                               *)
MessagesAreFirst ==
  /\ Displayed(messages) = SubSeq(logged, 1, Min({Len(logged), SIMPLE_MSG_COUNT}))
  /\ ValidEntries(messages) = messages.idx
  /\ \A n \in {messages.idx, SIMPLE_MSG_COUNT - messages.idx} :
       n < SIMPLE_MSG_COUNT => Numeral(n)[2] < Ten /\ Ten * Numeral(n)[1] + Numeral(n)[2] = n

Editor == INSTANCE LineEditor WITH
  Char <- Printable \cup Special, Room <- SHELL_BUFFER_SIZE - 1,
  text <- Line, cursor <- cursor_position

(* The buffer, its length and its cursor are a text with a cursor in it,   *)
(* and what is processed is that text.                                     *)
EditorSpec == Editor!Spec

================================================================================
