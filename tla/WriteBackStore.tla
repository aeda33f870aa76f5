--------------------------- MODULE WriteBackStore ---------------------------
(***************************************************************************)
(* What a buffer pool promises, without frames, fix counts and strategies: *)
(* each page has a content its clients see and a content that is in the    *)
(* file.  A write changes the first; at any time any set of pages may be   *)
(* brought into the file; when the pool goes away, the file is what is     *)
(* left.                                                                   *)
(***************************************************************************)
CONSTANTS Pages, Data

VARIABLES
  volatile,  \* page -> what a client that pins the page sees
  durable,   \* page -> what is in the file
  open       \* the pool exists

storeVars == <<volatile, durable, open>>

Init == ~open /\ volatile = durable

Open ==
  /\ ~open
  /\ open' = TRUE
  /\ UNCHANGED <<volatile, durable>>

Write(p, data) ==
  /\ open
  /\ volatile' = [volatile EXCEPT ![p] = data]
  /\ UNCHANGED <<durable, open>>

\* An eviction, a force, a flush, or a pin that finds the page dirty.
WriteBack(p) ==
  /\ open
  /\ durable' = [durable EXCEPT ![p] = volatile[p]]
  /\ UNCHANGED <<volatile, open>>

\* Shutdown, or the end of the process.
Lose ==
  /\ open
  /\ open' = FALSE
  /\ volatile' = durable
  /\ UNCHANGED durable

Next ==
  \/ Open
  \/ \E p \in Pages, data \in Data : Write(p, data)
  \/ \E p \in Pages : WriteBack(p)
  \/ Lose

Spec == Init /\ [][Next]_storeVars
=============================================================================
