-------------------------- MODULE MCSnapshotScript --------------------------
(* A small instance of SnapshotScript: one event filter and one call of the *)
(* service at a time.                                                       *)
EXTENDS SnapshotScript
=============================================================================
