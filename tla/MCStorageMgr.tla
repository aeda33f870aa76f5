---------------------------- MODULE MCStorageMgr ----------------------------
(***************************************************************************)
(* Instances of StorageMgr for TLC.                                        *)
(***************************************************************************)
EXTENDS StorageMgr, TLC

\* The result of the last call guards no step: states that differ in it alone
\* are explored once, and the action properties still see every step.
StateView == <<dir, disk, streams, handle>>

\* Handles differ only by name, and so do inodes.
Symmetry == Permutations(Handles) \cup Permutations(Inodes)
=============================================================================
