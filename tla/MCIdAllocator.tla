--------------------------- MODULE MCIdAllocator ---------------------------
(* Instances of IdAllocator for TLC. *)
EXTENDS IdAllocator

=============================================================================
