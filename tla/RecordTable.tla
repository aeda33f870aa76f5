---------------------------- MODULE RecordTable ----------------------------
(***************************************************************************)
(* What a table of the record manager promises, without pages, frames and  *)
(* scans: a numbered list of rows.  An insert adds a row at the end and    *)
(* tells its number; the number of a row never changes while the process   *)
(* lives; an update changes the row its record is numbered with and no     *)
(* other; a read answers, with the number of the row, what was stored last *)
(* in that row.  Only of a deleted row it is left open what a read         *)
(* answers.  When the process ends, the list is forgotten: the record      *)
(* manager does not keep its length.                                       *)
(***************************************************************************)
EXTENDS Integers, Sequences

CONSTANTS
  Values,   \* contents of a record
  Numbers,  \* what a caller may ask for
  Gone,     \* what is left of a deleted row
  NULL

VARIABLES
  rows,     \* the table: row i is rows[i]
  reply     \* the last call on rows: what it was, its return code and its
            \* record; NULL after a call that is on none

tableVars == <<rows, reply>>

Answer(op, rc, out) == reply' = [op |-> op, rc |-> rc, out |-> out]

Record(i, data) == [id |-> i, data |-> data]

Init ==
  /\ rows = <<>>
  /\ reply = [op |-> "initRecordManager", rc |-> "RC_OK", out |-> NULL]

Insert(v) ==
  /\ rows' = Append(rows, v)
  /\ Answer("insertRecord", "RC_OK", Record(Len(rows) + 1, v))

Update(i, v) ==
  /\ rows' = [rows EXCEPT ![i] = v]
  /\ Answer("updateRecord", "RC_OK", Record(i, v))

Delete(i) ==
  /\ rows' = [rows EXCEPT ![i] = Gone]
  /\ Answer("deleteRecord", "RC_OK", Record(i, NULL))

\* By number, or as the next of a scan.
Get(op, i, v) ==
  /\ rows[i] # Gone => v = rows[i]
  /\ Answer(op, "RC_OK", Record(i, v))
  /\ UNCHANGED rows

\* A call for a row that is not there.
Refuse(op, i, data) ==
  /\ i \notin DOMAIN rows
  /\ Answer(op, "RC_RM_NO_MORE_TUPLES", Record(i, data))
  /\ UNCHANGED rows

\* There is no row 0, but an update of it is let through.
UpdateNone(v) ==
  /\ Answer("updateRecord", "RC_OK", Record(0, v))
  /\ UNCHANGED rows

\* The numbers go on behind the rows of a table that has been dropped.
Drop(rc) ==
  /\ rows' = [i \in DOMAIN rows |-> Gone]
  /\ Answer("deleteTable", rc, NULL)

\* A createTable that is refused takes the rows all the same.
RefusedCreate ==
  /\ rows' = [i \in DOMAIN rows |-> Gone]
  /\ Answer("createTable", "RC_TABLE_EXISTS", NULL)

\* A new table, or a new process.
Forget(op) ==
  /\ rows' = <<>>
  /\ Answer(op, "RC_OK", NULL)

Other == UNCHANGED rows /\ reply' = NULL

Next ==
  \/ \E v \in Values : Insert(v) \/ UpdateNone(v)
  \/ \E i \in DOMAIN rows :
       \/ Delete(i)
       \/ \E v \in Values :
            Update(i, v) \/ Get("getRecord", i, v) \/ Get("next", i, v)
  \/ \E i \in Numbers :
       \/ Refuse("getRecord", i, NULL) \/ Refuse("deleteRecord", i, NULL)
       \/ \E v \in Values : Refuse("updateRecord", i, v)
  \/ \E rc \in {"RC_OK", "RC_FILE_NOT_DELETED"} : Drop(rc)
  \/ RefusedCreate
  \/ \E op \in {"createTable", "initRecordManager"} : Forget(op)
  \/ Other

Spec == Init /\ [][Next]_tableVars
=============================================================================
