-------------------------- MODULE MCSchemaScanJobs --------------------------
(* Instances of SchemaScanJobs for TLC. *)
EXTENDS SchemaScanJobs

=============================================================================
