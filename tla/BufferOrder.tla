---------------------------- MODULE BufferOrder ----------------------------
(***************************************************************************)
(* The buffer manager with a record of the order in which its frames were  *)
(* loaded and used.  fifo and lru do not keep that order: fifo has one     *)
(* counter, lru the ranks.  These history variables say what the counter   *)
(* and the ranks are meant to stand for.                                   *)
(***************************************************************************)
EXTENDS BufferMgr

VARIABLES
  loads,    \* pairs of frames, the one loaded before the other
  uses,     \* pairs of frames, the last pin of one before that of the other
  skipped   \* fifo has passed over a pinned frame since the pool was opened

orderVars == <<vars, loads, uses, skipped>>

\* The frames that hold a page.
InUse == {i \in Frames : pagenum[i] # NoPage}

\* The frames a step pins for a client, and those it loads.
Touched ==
  {handle'[c].data : c \in {c \in Clients : ~handle[c].pinned /\ handle'[c].pinned}}
Loaded == {i \in Touched : pagenum'[i] # pagenum[i]}

\* The frames of S, at most one, become the newest.
Renew(order, S) ==
  {e \in order : e[1] \notin S /\ e[2] \notin S} \cup ((InUse \ S) \X S)

OrderInit == Init /\ loads = {} /\ uses = {} /\ skipped = FALSE

OrderNext ==
  /\ Next
  /\ IF mgmtData'
     THEN /\ loads' = Renew(loads, Loaded)
          /\ uses' = Renew(uses, Touched)
          /\ skipped' = (skipped \/ (call.op = "fifo" /\ fixedcount[call.index] # 0))
     ELSE loads' = {} /\ uses' = {} /\ skipped' = FALSE

OrderSpec == OrderInit /\ [][OrderNext]_orderVars

\* Of the frames of S, i stands first in the order.
FirstOf(order, S, i) == i \in S /\ \A j \in S \ {i} : <<i, j>> \in order

-----------------------------------------------------------------------------
\* fifo evicts the frame that was loaded first, although all it keeps is a
\* count of loads, as long as it has not had to pass over a pinned frame.
\* (Passing over one does not move the count: from then on it may evict a
\* page that was loaded after others.)
FifoEvictsOldest ==
  [][FifoEvict /\ ~skipped => FirstOf(loads, Frames, call.index)]_orderVars

\* lru evicts, of the frames nobody has pinned, the one used longest ago:
\* the ranks it decrements on every pin are the order of the last uses.
LruEvictsLeastRecent ==
  [][\A c \in Clients, p \in Pages : PinMissLru(c, p) =>
       \E i \in Frames : /\ Loaded = {i}
                         /\ FirstOf(uses, {j \in Frames : fixedcount[j] = 0}, i)]_orderVars
=============================================================================
