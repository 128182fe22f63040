-------------------------------- MODULE MCHeap ---------------------------------
(* A small heap for TLC, one of whose requests is a file's buffer. *)
EXTENDS HeapTexts

================================================================================
