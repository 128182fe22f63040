---------------------------------- MODULE Dmesg --------------------------------
(***************************************************************************)
(* The kernel messages of main.c, as operators on their buffer: a table of *)
(* entries that fills up once, the number used, and the flag that it has   *)
(* been initialised.  A message is a value: its cutting to 49 characters   *)
(* and its filter of characters are left out.                              *)
(***************************************************************************)
EXTENDS Integers, Sequences, FiniteSets

CONSTANTS
  SIMPLE_MSG_COUNT, (* entries of the table                               *)
  Ten,              (* the base of the two-digit numbers that are printed *)
  NoMessage         (* an empty entry                                     *)

ASSUME DmesgAssumption ==
  /\ Ten \in Nat \ {0}
  /\ SIMPLE_MSG_COUNT = 2 * Ten

Entries == 0 .. SIMPLE_MSG_COUNT - 1

Emptied == [i \in Entries |-> [msg |-> NoMessage, valid |-> FALSE]]

Uninitialized == [entry |-> Emptied, idx |-> 0, initialized |-> FALSE]

(* Mutant: a full table gives its last entry to the new message. *)
AddedOver(d, message) ==
  LET i == IF d.idx >= SIMPLE_MSG_COUNT THEN SIMPLE_MSG_COUNT - 1 ELSE d.idx
  IN  [entry |-> [d.entry EXCEPT ![i] = [msg |-> message, valid |-> TRUE]],
       idx |-> i + 1, initialized |-> TRUE]

(* kernel_add_message: the first call initialises, a full table drops. *)
Added(d, message) ==
  IF d.idx >= SIMPLE_MSG_COUNT
  THEN [d EXCEPT !.initialized = TRUE]
  ELSE [d EXCEPT !.entry[d.idx] = [msg |-> message, valid |-> TRUE],
                 !.idx = @ + 1,
                 !.initialized = TRUE]

(* The messages of a log, one after the other. *)
AddedAll(d, log) ==
  LET added[k \in 0 .. Len(log)] == IF k = 0 THEN d ELSE Added(added[k - 1], log[k])
  IN  added[Len(log)]

(* dmesg_clear, which leaves `initialized` as it is. *)
DmesgCleared(d) == [d EXCEPT !.entry = Emptied, !.idx = 0]

(* The messages display_kernel_messages prints, in its order. *)
Displayed(d) ==
  LET shown[k \in 0 .. d.idx] ==
        IF k = 0 THEN << >>
        ELSE IF d.entry[k - 1].valid THEN Append(shown[k - 1], d.entry[k - 1].msg)
        ELSE shown[k - 1]
  IN  shown[d.idx]

(* How the summaries print a number: one digit under ten, else a one and   *)
(* what is left over ten, as a digit.                                      *)
Numeral(n) == IF n < Ten THEN <<0, n>> ELSE <<1, n - Ten>>

(* The entries dmesg_stats finds intact. *)
ValidEntries(d) == Cardinality({i \in 0 .. d.idx - 1 : d.entry[i].valid})

================================================================================
