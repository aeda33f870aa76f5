--------------------------- MODULE MCTableOnPool ---------------------------
(***************************************************************************)
(* An instance of TableOnPool for TLC.                                     *)
(***************************************************************************)
EXTENDS TableOnPool, TLC

MCData == {Schema, Junk} \cup Values \cup {<<"TOMBESTONED", x>> : x \in Values}

\* No operator tells one value of a record from another.
Symmetry == Permutations(Values)

\* The counters of the pool grow for ever; fifo knows only its position.  No
\* step reads ranks, the results of earlier calls, or the record's handle
\* between two calls.
TableView ==
  <<disk, mgmtData, pagedata, pagenum, dirtybit, fixedcount,
    stat.lastposition % NumPages, call, last.rc, total_pages, todo, before,
    IF todo = <<>> THEN <<>> ELSE <<op, handle>>>>
=============================================================================
