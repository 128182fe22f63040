-------------------------------- MODULE MCKeyRing ------------------------------
(* A ring of four slots for TLC. *)
EXTENDS KeyRing, TLC

Symmetry == Permutations(Char)

================================================================================
