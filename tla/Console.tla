--------------------------------- MODULE Console -------------------------------
(***************************************************************************)
(* The text console of vga_text.c, as operators on a screen.               *)
(*                                                                         *)
(* A screen is [cell, x, y]: the visible cells of the frame buffer, which  *)
(* is linear, and g_ScreenX and g_ScreenY.  Callers outside vga_text.c     *)
(* store into x and y, so x may lie beyond the row; what is written behind *)
(* the last cell lands in video memory that is not shown.  Blank stands    *)
(* for the two characters that show nothing, the space and the zero.       *)
(* Colours and the hardware cursor, which follows x and y, are left out.   *)
(***************************************************************************)
EXTENDS Integers, Sequences

CONSTANTS
  ScreenWidth, ScreenHeight,
  Blank, NL, Tab, CR (* the space and the characters VGA_putc acts on *)

ASSUME ConsoleAssumption ==
  /\ ScreenWidth \in Nat \ {0} /\ ScreenHeight \in Nat \ {0}
  /\ NL # CR /\ NL # Tab /\ CR # Tab

Cells == 0 .. ScreenWidth * ScreenHeight - 1

(* VGA_clrscr. *)
Cleared == [cell |-> [p \in Cells |-> Blank], x |-> 0, y |-> 0]

(* VGA_scrollback(1). *)
Scrolled(s) ==
  [s EXCEPT !.cell = [p \in Cells |->
                        IF p + ScreenWidth \in Cells THEN s.cell[p + ScreenWidth] ELSE Blank],
            !.y = @ - 1]

(* What VGA_putc does behind its switch: wrap, then scroll. *)
Settled(s) ==
  LET wrapped == IF s.x >= ScreenWidth THEN [s EXCEPT !.x = 0, !.y = @ + 1] ELSE s
  IN  IF wrapped.y >= ScreenHeight THEN Scrolled(wrapped) ELSE wrapped

(* VGA_putchr at the cursor, which moves on. *)
Written(s, c) ==
  LET p == s.y * ScreenWidth + s.x
  IN  [s EXCEPT !.cell = IF p \in Cells THEN [@ EXCEPT ![p] = c] ELSE @,
                !.x = @ + 1]

PutPlain(s, c) == Settled(Written(s, c))

(* A tab writes blanks while i < 4 - x % 4, with x moving under the test.  *)
PutTab(s) ==
  LET Step(t, i) == IF i < 4 - (t.x % 4) THEN PutPlain(t, Blank) ELSE t
  IN  Settled(Step(Step(Step(Step(s, 0), 1), 2), 3))

(* VGA_putc. *)
Putc(s, c) ==
  CASE c = NL  -> Settled([s EXCEPT !.x = 0, !.y = @ + 1])
    [] c = CR  -> Settled([s EXCEPT !.x = 0])
    [] c = Tab -> PutTab(s)
    [] OTHER   -> PutPlain(s, c)

(* fputs and printf to the screen. *)
Puts(s, str) ==
  LET put[k \in 0 .. Len(str)] == IF k = 0 THEN s ELSE Putc(put[k - 1], str[k])
  IN  put[Len(str)]

================================================================================
