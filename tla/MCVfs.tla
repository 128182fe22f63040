--------------------------------- MODULE MCVfs ---------------------------------
(* A small file system for TLC. *)
EXTENDS Vfs, TLC

CONSTANT welcome  \* the default file

MCDefaults == <<welcome>>

MCFlags == {{}, {"write"}, {"write", "create"}, {"write", "append"},
            {"write", "create", "truncate"}}

Symmetry == Permutations(Buffers) \cup Permutations(Byte)

================================================================================
