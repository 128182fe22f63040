-------------------------------- MODULE KeyDecode ------------------------------
(***************************************************************************)
(* keyboard_handler of keyboard.c: the scancode bytes of the keys a user   *)
(* presses and releases, decoded into modifier flags and characters for    *)
(* the keyboard buffer.                                                    *)
(*                                                                         *)
(* The keyboard sends, and the handler reads later, one byte at a time, so *)
(* the flags lag behind the keys; a key of the extended set takes two      *)
(* bytes and two runs of the handler, with extended_key between them.      *)
(* Each byte on the wire carries, for the properties, what the keyboard    *)
(* stood at when it was sent (Now), and so does what is typed.             *)
(***************************************************************************)
EXTENDS Integers, Sequences, FiniteSets

CONSTANTS
  Keys,    (* the keys of the keyboard: [ext, code] records               *)
  Keymap,  (* keymap[]: code -> [normal, shift, altgr, is_dead_key]       *)
  Swap,    (* apply_caps_lock with caps lock on: letter -> other case      *)
  NUL,     (* the zero character                                           *)
  Wire,    (* bound: bytes sent and not yet handled                        *)
  Down     (* bound: keys held at a time                                   *)

(* Codes without the release bit.  The same code means another key after   *)
(* the prefix E0: 38 is Alt and AltGr, 2A is Shift and a byte keyboards    *)
(* send along with PrintScreen.                                            *)
Shift  == "2A"
RShift == "36"
Alt    == "38"
Caps   == "3A"
Prefix == "E0"

(* After the prefix, the arrows: their codes for the shell are 01 to 04. *)
Special == [u \in {"48", "50", "4B", "4D"} |-> <<"arrow", u>>]

ASSUME DecodeAssumption ==
  /\ Keys \subseteq [ext : BOOLEAN, code : STRING \ {Prefix}]
  /\ DOMAIN Keymap \cap ({Shift, RShift, Alt, Caps, Prefix, NUL} \cup DOMAIN Special) = {}
  /\ \A u \in DOMAIN Keymap : Keymap[u].normal # NUL
  /\ Wire \in Nat

VARIABLES
  held,           \* the keys that are down
  wire,           \* bytes sent: [code, up, at]
  shift_pressed, altgr_pressed, caps_lock, extended_key,
  dead_key_state, \* the code of a pending dead key, or NUL
  typed,          \* the last call of keyboard_buffer_push: [char, code, at]
  mixed,          \* history: since all keys were up, two keys of one
                  \* modifier flag have been used together
  caps            \* history: caps lock, as the bytes sent so far leave it

flags == <<shift_pressed, altgr_pressed, caps_lock, extended_key, dead_key_state>>
vars  == <<held, wire, flags, typed, mixed, caps>>

Key(ext, code) == [ext |-> ext, code |-> code]

ShiftKeys == {Key(FALSE, Shift), Key(FALSE, RShift)}
AltGr     == Key(TRUE, Alt)

(* What the keyboard stands at: the keys down, whether keys of one flag    *)
(* have been mixed, and caps lock.                                         *)
Now == [with |-> held, mixed |-> mixed, caps |-> caps]

Nothing == [char |-> NUL, code |-> NUL, at |-> [with |-> {}, mixed |-> FALSE, caps |-> FALSE]]

Init ==
  /\ held = {} /\ wire = << >>
  /\ shift_pressed = FALSE /\ altgr_pressed = FALSE
  /\ caps_lock = FALSE /\ extended_key = FALSE
  /\ dead_key_state = NUL
  /\ typed = Nothing
  /\ mixed = FALSE /\ caps = FALSE

--------------------------------------------------------------------------------
(* The keyboard. *)

(* The bytes of key k going down, or up, that leave the keyboard as in at. *)
Bytes(k, up, at) ==
  IF k.ext
  THEN <<[code |-> Prefix, up |-> FALSE, at |-> at], [code |-> k.code, up |-> up, at |-> at]>>
  ELSE <<[code |-> k.code, up |-> up, at |-> at]>>

(* A key goes down, or repeats because it stays down. *)
Press(k) ==
  /\ Cardinality(held \cup {k}) <= Down
  /\ Len(wire) + 2 <= Wire
  /\ held' = held \cup {k}
  /\ mixed' = (mixed \/ ShiftKeys \subseteq held')
  /\ caps' = IF k = Key(FALSE, Caps) THEN ~caps ELSE caps
  /\ UNCHANGED <<flags, typed>>
  /\ wire' = wire \o Bytes(k, FALSE, Now')

Release(k) ==
  /\ k \in held
  /\ Len(wire) + 2 <= Wire
  /\ held' = held \ {k}
  /\ mixed' = (held' # {} /\ (mixed \/ (k = Key(FALSE, Alt) /\ AltGr \in held)))
  /\ UNCHANGED <<flags, typed, caps>>
  /\ wire' = wire \o Bytes(k, TRUE, Now')

--------------------------------------------------------------------------------
(* The handler. *)

byte == Head(wire)

(* One run of it reads one byte. *)
Reads == wire # << >> /\ wire' = Tail(wire) /\ UNCHANGED <<held, mixed, caps>>

Pushes(ch) == typed' = [char |-> ch, code |-> byte.code, at |-> byte.at]

HandlePrefix ==
  /\ Reads /\ byte.code = Prefix
  /\ extended_key' = TRUE
  /\ UNCHANGED <<shift_pressed, altgr_pressed, caps_lock, dead_key_state, typed>>

(* Mutant: a byte the switch does not know leaves extended_key set. *)
HandleExtendedKnown ==
  /\ Reads /\ byte.code # Prefix /\ extended_key
  /\ extended_key' = (byte.code \notin {Alt} \cup DOMAIN Special)
  /\ altgr_pressed' = IF byte.code = Alt THEN ~byte.up ELSE altgr_pressed
  /\ IF byte.code \in DOMAIN Special /\ ~byte.up THEN Pushes(Special[byte.code]) ELSE UNCHANGED typed
  /\ UNCHANGED <<shift_pressed, caps_lock, dead_key_state>>

(* The byte after the prefix: AltGr, an arrow, or a key the kernel has no  *)
(* use for.  (Delete edits a line buffer that is always empty.)            *)
HandleExtended ==
  /\ Reads /\ byte.code # Prefix /\ extended_key
  /\ extended_key' = FALSE
  /\ altgr_pressed' = IF byte.code = Alt THEN ~byte.up ELSE altgr_pressed
  /\ IF byte.code \in DOMAIN Special /\ ~byte.up THEN Pushes(Special[byte.code]) ELSE UNCHANGED typed
  /\ UNCHANGED <<shift_pressed, caps_lock, dead_key_state>>

Plain == Reads /\ byte.code # Prefix /\ ~extended_key

(* Mutant: any release ends the shift. *)
HandleReleaseAny ==
  /\ Plain /\ byte.up
  /\ shift_pressed' = FALSE
  /\ altgr_pressed' = (altgr_pressed /\ byte.code # Alt)
  /\ UNCHANGED <<caps_lock, extended_key, dead_key_state, typed>>

HandleRelease ==
  /\ Plain /\ byte.up
  /\ shift_pressed' = (shift_pressed /\ byte.code \notin {Shift, RShift})
  /\ altgr_pressed' = (altgr_pressed /\ byte.code # Alt)
  /\ UNCHANGED <<caps_lock, extended_key, dead_key_state, typed>>

HandleModifier ==
  /\ Plain /\ ~byte.up
  /\ byte.code \in {Shift, RShift, Alt, Caps}
  /\ shift_pressed' = (shift_pressed \/ byte.code \in {Shift, RShift})
  /\ caps_lock' = IF byte.code = Caps THEN ~caps_lock ELSE caps_lock
  /\ UNCHANGED <<altgr_pressed, extended_key, dead_key_state, typed>>

(* Mutant: AltGr selects no column. *)
ColumnNoAltGr(row) ==
  IF shift_pressed /\ row.shift # NUL THEN row.shift
  ELSE IF caps_lock /\ ~shift_pressed /\ row.normal \in DOMAIN Swap THEN Swap[row.normal]
  ELSE row.normal

(* The character of a row of keymap for values of the three flags. *)
ColumnOf(row, shift, altgr, lock) ==
  LET ascii == IF altgr /\ row.altgr # NUL THEN row.altgr
               ELSE IF shift /\ row.shift # NUL THEN row.shift
               ELSE row.normal
  IN  IF lock /\ ~shift /\ ~altgr /\ ascii \in DOMAIN Swap THEN Swap[ascii] ELSE ascii

Column(row) == ColumnOf(row, shift_pressed, altgr_pressed, caps_lock)

(* A key with a row in keymap.  No row has is_dead_key set, so the code    *)
(* that composes accents is never entered.                                 *)
HandleKey ==
  /\ Plain /\ ~byte.up
  /\ byte.code \in DOMAIN Keymap
  /\ IF Keymap[byte.code].is_dead_key
     THEN dead_key_state' = byte.code /\ UNCHANGED typed
     ELSE Pushes(Column(Keymap[byte.code])) /\ UNCHANGED dead_key_state
  /\ UNCHANGED <<shift_pressed, altgr_pressed, caps_lock, extended_key>>

(* A key without a row: function keys, keypad, the accents. *)
HandleUnknown ==
  /\ Plain /\ ~byte.up
  /\ byte.code \notin DOMAIN Keymap \cup {Shift, RShift, Alt, Caps}
  /\ UNCHANGED <<flags, typed>>

keyboard_handler ==
  \/ HandlePrefix \/ HandleExtended
  \/ HandleRelease \/ HandleModifier \/ HandleKey \/ HandleUnknown

Next ==
  \/ \E k \in Keys : Press(k) \/ Release(k)
  \/ keyboard_handler

Spec == Init /\ [][Next]_vars

--------------------------------------------------------------------------------
TypeOK ==
  /\ held \subseteq Keys /\ Len(wire) <= Wire
  /\ \A i \in DOMAIN wire : wire[i].up \in BOOLEAN /\ wire[i].at.with \subseteq Keys
  /\ {shift_pressed, altgr_pressed, caps_lock, extended_key, mixed, caps} \subseteq BOOLEAN
  /\ dead_key_state \in DOMAIN Keymap \cup {NUL}
  /\ typed.char = NUL \/ typed.code \in DOMAIN Keymap \cup DOMAIN Special

(* The byte after a prefix is always still to come: no byte the handler    *)
(* does not know upsets the pairing, so no arrow is taken for a keypad     *)
(* key or the other way round.                                             *)
PrefixPaired == extended_key => wire # << >> /\ Head(wire).code # Prefix

(* Once the handler has caught up, a modifier flag is set only while a key *)
(* of that modifier is down: no order of presses, repeats and releases     *)
(* leaves the keyboard shifted.  And it is set whenever such a key is      *)
(* down, unless two keys share the flag and one was released before the    *)
(* other; letting go of all keys ends that.                                *)
ModifiersAgree ==
  /\ TypeOK
  /\ wire = << >> =>
       /\ shift_pressed => ShiftKeys \cap held # {}
       /\ altgr_pressed => AltGr \in held
       /\ ~mixed => /\ ShiftKeys \cap held # {} => shift_pressed
                    /\ AltGr \in held => altgr_pressed

(* A modifier flag says whether a key of the modifier is down; only after  *)
(* a mix of keys may it be clear though one is.                            *)
Agrees(flag, down, mix) == (flag => down) /\ (down => flag \/ mix)

(* A character is the one of the column of keymap that the keys down when  *)
(* its key was struck stand for, and in the case caps lock stood for then, *)
(* whatever has been sent since and however late the handler reads the     *)
(* byte.  After a mix of keys of one flag it may be the one without that   *)
(* modifier.                                                               *)
TypedAsHeld ==
  typed.code \in DOMAIN Keymap =>
    \E shift, altgr \in BOOLEAN :
      /\ Agrees(shift, ShiftKeys \cap typed.at.with # {}, typed.at.mixed)
      /\ Agrees(altgr, AltGr \in typed.at.with, typed.at.mixed)
      /\ typed.char = ColumnOf(Keymap[typed.code], shift, altgr, typed.at.caps)

================================================================================
