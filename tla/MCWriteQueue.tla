---------------------------- MODULE MCWriteQueue ----------------------------
(* Instances of WriteQueue for TLC. *)
EXTENDS WriteQueue

=============================================================================
