----------------------------- MODULE MCSnapshots ----------------------------
(***************************************************************************)
(* Small instances of Snapshots for TLC.                                   *)
(***************************************************************************)
EXTENDS Snapshots

SomeReaders == Permutations(Readers)
=============================================================================
