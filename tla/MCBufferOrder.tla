--------------------------- MODULE MCBufferOrder ---------------------------
(***************************************************************************)
(* Instances of BufferOrder for TLC.                                       *)
(***************************************************************************)
EXTENDS BufferOrder, TLC

MC == INSTANCE MCBufferMgr

OrderView == <<MC!PoolView, loads, uses, skipped>>
OrderSymmetry == Permutations(Clients)
=============================================================================
