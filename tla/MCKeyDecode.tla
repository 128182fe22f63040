------------------------------ MODULE MCKeyDecode ------------------------------
(* The modifier keys, an arrow, a letter, a digit and an accent, for TLC. *)
EXTENDS KeyDecode, TLC

Row(n, s, a) == [normal |-> n, shift |-> s, altgr |-> a, is_dead_key |-> FALSE]

(* Rows of keyboard.c:122 and keyboard.c:137; the accent 1A has none. *)
MCKeymap == ("03" :> Row("2", "dquote", "at")) @@ ("12" :> Row("e", "E", "euro"))

MCSwap == ("e" :> "E") @@ ("E" :> "e")

MCKeys ==
  ShiftKeys
    \cup {AltGr, Key(FALSE, Alt), Key(FALSE, Caps)}
    \cup {Key(FALSE, "03"), Key(FALSE, "12"), Key(FALSE, "1A")}
    \cup {Key(TRUE, "48"), Key(TRUE, Shift)}

================================================================================
