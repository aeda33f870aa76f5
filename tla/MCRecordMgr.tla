---------------------------- MODULE MCRecordMgr ----------------------------
(***************************************************************************)
(* Instances of RecordMgr for TLC.                                         *)
(***************************************************************************)
EXTENDS RecordMgr, TLC

CONSTANTS a, b

\* All records, and those with value a.
MCConditions == {NULL, {a}}

\* Of the history of a scan, what ScanComplete reads.
HistoryRead(sc) ==
  IF sc = NULL THEN NULL
  ELSE IF sc.cond = NULL THEN [sc EXCEPT !.returned = {}, !.unseen = {}]
  ELSE [sc EXCEPT !.returned = @ \ sc.unseen, !.unseen = @ \ {0}]

\* No guard and no invariant reads `last': states that differ in it only have
\* the same steps, and each step is checked against the abstract table.
RecordView ==
  <<file, total_pages, name, pool, [s \in Scans |-> HistoryRead(scan[s])]>>
=============================================================================
