---------------------------- MODULE MCBufferMgr ----------------------------
(***************************************************************************)
(* Instances of BufferMgr for TLC.                                         *)
(***************************************************************************)
EXTENDS BufferMgr

(***************************************************************************)
(* The counters grow for ever, but the steps depend only on the position   *)
(* of fifo in the pool and, for lru, on the order of the ranks and on      *)
(* which of them is MaxRank; nobody uses the data pointer of a handle that *)
(* is not pinned, and nothing of a pool that is closed.  States that agree *)
(* in the rest are the same to every guard and every property.             *)
(***************************************************************************)
RankOrder ==
  [i \in Frames |-> <<ranking[i] = MaxRank,
                      Cardinality({j \in Frames : ranking[j] < ranking[i]})>>]

HandleView ==
  [c \in Clients |-> IF handle[c].pinned THEN <<handle[c]>> ELSE <<handle[c].pageNum>>]

PoolView ==
  IF ~mgmtData THEN <<disk>>
  ELSE <<disk, strategy, pagedata, pagenum, dirtybit, fixedcount,
         IF strategy = "RS_LRU" THEN <<RankOrder>> ELSE <<stat.lastposition % NumPages>>,
         HandleView, call>>
=============================================================================
