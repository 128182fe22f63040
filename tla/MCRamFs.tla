--------------------------------- MODULE MCRamFs -------------------------------
(* A small RAM file system for TLC. *)
EXTENDS RamViews, TLC

(* The last of them does not fit its field. *)
MCNames  == {"/", "..", "a", "a-too-long"}
MCStored == [n \in MCNames |-> IF n = "a-too-long" THEN "a" ELSE n]

MCLines == {<<"x", "blank", "eol">>}

(* Paths of two, four and six characters, for a buffer of four. *)
MCSpelling == ("/" :> <<"/">>) @@ ("a" :> <<"x">>) @@ (".." :> <<".", ".">>)

MCPatterns == {<<"x">>, <<"x", "blank">>, << >>}

Symmetry == Permutations(Buffers)

================================================================================
