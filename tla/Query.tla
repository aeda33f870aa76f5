------------------------------- MODULE Query -------------------------------
(***************************************************************************)
(* One record of one table, from the values the caller sets to the answer  *)
(* of a scan: createTable writes the schema as text and openTable parses   *)
(* it; insertRecord and updateRecord write a record as text, deleteRecord  *)
(* puts a mark in front of it, getRecord parses it, and next evaluates a   *)
(* condition on the result (record_mgr.c, with rm_serializer.c,            *)
(* object_parser.c and expr.c).                                            *)
(*                                                                         *)
(* Pages, frames and the other records are RecordMgr's: there a record is  *)
(* a value and its page gives that value back.  Here is what this rests    *)
(* on.  The loops over the attributes of a record are steps of their own.  *)
(***************************************************************************)
EXTENDS SchemaText, Expr

CONSTANTS
  Schemas,     \* the schemas a caller may create a table with
  Literals,    \* the values a caller may set
  Conditions,  \* the conditions of a scan
  Heaps,       \* what may stand behind the four texts openTable leaves open
  Garbage,     \* what may stand in a block deleteRecord has not cleared
  MaxDeletes,  \* bound: deletion marks in front of a record
  NULL

ASSUME MaxAssumption == MaxDeletes \in Nat
ASSUME ConditionsAssumption == Conditions \subseteq Exprs

\* A number that is written with a symbol there is.
Writable(v) ==
  /\ v.dt \in {"INT", "FLOAT"} => v.num \in Nat
  /\ v.dt = "INT" => v.num * One \in DOMAIN Numeral
  /\ v.dt = "FLOAT" => (v.num + 5) \div 10 \in DOMAIN Numeral

ASSUME LiteralsAssumption == \A v \in Literals : v \in Values /\ Writable(v)

\* Names are not empty and hold nothing the parsers cut at.
ASSUME SchemasAssumption ==
  \A s \in Schemas :
    s.attrs \in Seq([name : Seq(Symbols \ Delimiters) \ {<<>>},
                    dataType : DataTypes, typeLength : Nat])

\* serializeRecord begins with the record's number.
RID == "[1-0]"

ASSUME TextAssumption ==
  /\ {RID, "TOMBESTONED", "TRUE", "FALSE"} \subseteq Symbols
  /\ Garbage \subseteq Seq(Symbols)

ASSUME NullAssumption ==
  /\ NULL \notin Seq(Symbols)
  /\ NULL \notin [cond : Conditions, result : {"returned", "skipped", "ended"}]

VARIABLES
  pc,      \* what the process is doing; "ended" when there is none
  schema,  \* the caller's schema
  page0,   \* the text on page 0 of the table, or NULL
  rel,     \* the schema openTable has made of that text, or NULL
  heap,    \* history: what stood in memory in openTable, or NULL
  record,  \* the values the caller has set, and insertRecord writes
  page,    \* the text on the page of the record, or NULL
  text,    \* what serializeRecord has written so far
  attr,    \* the attribute a loop is at
  saved,   \* where strtok goes on in the page
  out,     \* the values getRecord has read so far
  answer   \* the condition of the last call of next and its result, or NULL

vars == <<pc, schema, page0, rel, heap, record, page, text, attr, saved, out, answer>>

Init ==
  /\ pc = "start"
  /\ schema = NULL /\ page0 = NULL /\ rel = NULL /\ heap = NULL /\ page = NULL /\ answer = NULL
  /\ record = <<>> /\ text = <<>> /\ out = <<>>
  /\ attr = 0 /\ saved = 0

NumAttr == Len(rel.attrs)

\* Between two calls on the open table, before and after getRecord.
Ready == pc \in {"open", "read"}

Forget == out' = <<>> /\ answer' = NULL

-----------------------------------------------------------------------------
createTable(s) ==
  /\ pc = "start"
  /\ schema' = s
  /\ page0' = serializeSchema(s)
  /\ pc' = "closed"
  /\ UNCHANGED <<rel, heap, record, page, text, attr, saved, out, answer>>

openTable(behind) ==
  /\ pc = "closed"
  /\ heap' = behind
  /\ LET opened == stringToSchemaParser(page0, behind) IN
       \/ opened # Crash /\ rel' = opened /\ pc' = "open"
       \/ opened = Crash /\ rel' = NULL /\ pc' = "ended"
  /\ UNCHANGED <<schema, page0, record, page, text, attr, saved, out, answer>>

-----------------------------------------------------------------------------
\* An attribute as it comes out of the text of the schema.
Opened(a) == [a EXCEPT !.typeLength = IF a.dataType = "STRING" THEN @ ELSE 0]

\* A table that was opened with other types is left alone: the bytes of the
\* caller's values would be taken for values of those.
SameAttrs == rel.attrs = [i \in DOMAIN schema.attrs |-> Opened(schema.attrs[i])]

\* The caller builds a record: createRecord, and setAttr for each attribute.
createRecord ==
  /\ pc = "open" /\ page = NULL
  /\ SameAttrs
  /\ record' = <<>>
  /\ heap' = NULL
  /\ pc' = "filling"
  /\ UNCHANGED <<schema, page0, rel, page, text, attr, saved, out, answer>>

setNextAttr(v) ==
  /\ pc = "filling"
  /\ Len(record) < Len(schema.attrs)
  /\ v.dt = schema.attrs[Len(record) + 1].dataType
  /\ record' = Append(record, setAttr(schema.attrs[Len(record) + 1], v))
  /\ UNCHANGED <<pc, schema, page0, rel, heap, page, text, attr, saved, out, answer>>

\* serializeRecord writes the record's number ...
StartWriting ==
  /\ text' = <<RID, " ", "(">>
  /\ attr' = 1
  /\ pc' = "writing"

insertRecord ==
  /\ pc = "filling"
  /\ Len(record) = Len(schema.attrs)
  /\ StartWriting
  /\ UNCHANGED <<schema, page0, rel, heap, record, page, saved, out, answer>>

\* The caller sets an attribute of the record it has read and writes it back.
updateRecord(i, v) ==
  /\ pc = "read"
  /\ v.dt = rel.attrs[i].dataType
  /\ record' = [out EXCEPT ![i] = setAttr(rel.attrs[i], v)]
  /\ StartWriting
  /\ Forget
  /\ UNCHANGED <<schema, page0, rel, heap, page, saved>>

\* ... goes through the attributes ...
serializeNext ==
  /\ pc = "writing"
  /\ attr <= NumAttr
  /\ text' = text \o serializeAttr(rel.attrs[attr], record[attr])
                  \o (IF attr = NumAttr THEN <<>> ELSE <<",">>)
  /\ attr' = attr + 1
  /\ UNCHANGED <<pc, schema, page0, rel, heap, record, page, saved, out, answer>>

\* ... and the text replaces what is on the page.
recordWritten ==
  /\ pc = "writing"
  /\ attr > NumAttr
  /\ page' = text \o <<")">>
  /\ pc' = "open"
  /\ text' = <<>> /\ attr' = 0
  /\ UNCHANGED <<schema, page0, rel, heap, record, saved, out, answer>>

\* The mark is appended to a block that was not cleared, and the page to it.
deleteRecord(garbage) ==
  /\ Ready /\ page # NULL
  /\ Cardinality({i \in DOMAIN page : page[i] = "TOMBESTONED"}) < MaxDeletes
  /\ page' = garbage \o <<"TOMBESTONED">> \o page
  /\ pc' = "open"
  /\ Forget
  /\ UNCHANGED <<schema, page0, rel, heap, record, text, attr, saved>>

-----------------------------------------------------------------------------
\* getRecord, from the caller or from next: the record parser skips what
\* stands in front of the first bracket.
getRecord ==
  /\ pc = "open" /\ page # NULL
  /\ saved' = strtok(page, 1, {"("}).saved
  /\ attr' = 1
  /\ pc' = "reading"
  /\ Forget
  /\ UNCHANGED <<schema, page0, rel, heap, record, page, text>>

ValueEnd(i) == IF i = NumAttr THEN {")"} ELSE {","}

\* Mutation: the name is not skipped.
NameToken_Kept(i) == [token |-> <<>>, saved |-> saved]

\* The tokens of an attribute's name and value.
NameToken(i) == strtok(page, saved, {":"})
ValueToken(i) == strtok(page, NameToken(i).saved, ValueEnd(i))

\* An attribute is read by its place: its name is skipped whatever it is.
\* Without a token the parser follows a NULL.
parseNext ==
  /\ pc = "reading"
  /\ attr <= NumAttr
  /\ LET value == ValueToken(attr)
         a == rel.attrs[attr]
     IN \/ /\ value.token # <<>>
           /\ out' = Append(out, setAttr(a, ParsedValue(a.dataType, value.token)))
           /\ saved' = value.saved
           /\ attr' = attr + 1
           /\ UNCHANGED pc
        \/ /\ value.token = <<>>
           /\ pc' = "ended"
           /\ UNCHANGED <<out, saved, attr>>
  /\ UNCHANGED <<schema, page0, rel, heap, record, page, text, answer>>

recordParsed ==
  /\ pc = "reading"
  /\ attr > NumAttr
  /\ pc' = "read"
  /\ attr' = 0 /\ saved' = 0
  /\ UNCHANGED <<schema, page0, rel, heap, record, page, text, out, answer>>

\* Mutation: a condition selects a record unless it is FALSE.
Selects_NotFalse(v) == v # BoolV(FALSE)

Selects(v) == v.dt = "BOOL" /\ v.num = 1

\* The rest of next, after getRecord.
next(cond) ==
  /\ pc = "read"
  /\ \A e \in Parts(cond) : e.type = "ATTRREF" => e.attrRef <= NumAttr
  /\ \E v \in evalExpr(out, rel.attrs, cond) :
       \/ /\ v = Exit
          /\ pc' = "ended"
          /\ answer' = [cond |-> cond, result |-> "ended"]
       \/ /\ v # Exit
          /\ pc' = "open"
          /\ answer' = [cond |-> cond,
                        result |-> IF Selects(v) THEN "returned" ELSE "skipped"]
  /\ UNCHANGED <<schema, page0, rel, heap, record, page, text, attr, saved, out>>

Next ==
  \/ \E s \in Schemas : createTable(s)
  \/ \E behind \in Heaps : openTable(behind)
  \/ createRecord
  \/ \E v \in Literals : setNextAttr(v)
  \/ insertRecord
  \/ \E v \in Literals, i \in DOMAIN out : updateRecord(i, v)
  \/ serializeNext \/ recordWritten
  \/ \E garbage \in Garbage : deleteRecord(garbage)
  \/ getRecord \/ parseNext \/ recordParsed
  \/ \E cond \in Conditions : next(cond)

Spec == Init /\ [][Next]_vars

-----------------------------------------------------------------------------
\* Properties.

Phases == {"start", "closed", "open", "filling", "writing", "reading", "read", "ended"}

\* A value stays inside its attribute, and a string does not run into the next.
Fits(v, a) == v.dt = a.dataType /\ (v.dt = "STRING" => Len(v.str) <= a.typeLength)

\* There is a text of the schema, and what openTable has made of it.
SchemaOK ==
  /\ page0 = NULL <=> pc = "start"
  /\ rel # NULL => Len(rel.attrs) = Len(schema.attrs)
  /\ pc \notin {"start", "closed", "ended"} => rel # NULL
  /\ page # NULL => rel # NULL

\* Values stay inside their attributes, and the loops inside the record.
RecordOK ==
  /\ pc \in Phases
  /\ pc = "filling" => Len(record) <= NumAttr
  /\ \A i \in DOMAIN record : Fits(record[i], rel.attrs[i])
  /\ \A i \in DOMAIN out : Fits(out[i], rel.attrs[i])
  /\ pc \in {"writing", "reading"} => attr \in 1..(NumAttr + 1)
  /\ pc = "reading" => Len(out) = attr - 1 /\ saved \in 1..(Len(page) + 2)
  /\ pc = "read" => Len(out) = NumAttr
  /\ answer # NULL => pc \in {"open", "ended"}

\* The types of the variables, and how far the loops are.
TypeOK == SchemaOK /\ RecordOK

-----------------------------------------------------------------------------
\* openTable gives back the attributes createTable was called with, and the
\* keys when there are any, whatever stands in memory behind the pieces of the
\* text, if it holds no bracket and the process survives.
SchemaReadBack ==
  heap # NULL /\ pc = "open" /\ (\A i \in 1..4 : "[" \notin Range(heap[i]))
  => /\ SameAttrs
     /\ schema.keys # <<>> => rel.keys = schema.keys

\* When zeros stand behind the pieces of the text, every table that
\* createTable has written can be opened.
OpensIfTerminated == heap = [i \in 1..4 |-> <<>>] => pc # "ended"

-----------------------------------------------------------------------------
\* The string of an attribute as strtok finds it when it reads nothing else.
Cut(i) == strtok(record[i].str, 1, ValueEnd(i)).token

Blank(i) == record[i].dt = "STRING" /\ Cut(i) = <<>>

\* A string that holds the end of a value and that of a name.
Strays(i) == i < NumAttr /\ {",", ":"} \subseteq Range(record[i].str)

\* No colon stands in front of the record, where a deletion may have put it.
CleanFront == \A i \in DOMAIN page : page[i] = RID => ":" \notin Range(SubSeq(page, 1, i))

\* No value and no mark that the parser takes for something else.
Legible ==
  /\ CleanFront
  /\ \A i \in 1..NumAttr : ~Blank(i) /\ ~Strays(i)

\* No deletion mark and nothing else stands in front of the record.
Live == Head(page) = RID

\* A value with the digits that %f writes.
Stored(v) == IF v.dt = "FLOAT" THEN FloatV(10 * ((v.num + 5) \div 10)) ELSE v

\* The text of the value is one token: no symbol in it ends the value.
OneToken(i) ==
  record[i].dt = "STRING" =>
    record[i].str # <<>> /\ ValueEnd(i) \cap Range(record[i].str) = {}

\* getRecord gives back every number of a record, and every string that does
\* not hold the end of its value, as it was stored: the parser, which goes by
\* delimiters and not by names, does not lose its place, even next to strings
\* that it cuts.
RecordReadBack ==
  pc = "read" /\ Live /\ Legible =>
    \A i \in 1..NumAttr :
      record[i].dt # "BOOL" /\ OneToken(i) => out[i] = Stored(record[i])

\* getRecord "Performs a 1 to 1 mapping of record and returns it."
\* (record_mgr.c:336): a Boolean is read as it was stored.
BooleansReadBack ==
  pc = "read" /\ Live =>
    \A i \in 1..NumAttr : record[i].dt = "BOOL" => out[i] = record[i]

\* Only a string that leaves the parser no token ends the process in
\* getRecord: an empty one, or one of delimiters alone.
EndsOnlyOnBlank ==
  pc = "ended" /\ page # NULL /\ answer = NULL => \E i \in 1..NumAttr : Blank(i)

Letter(v) ==
  CASE v.dt = "INT" -> "i" [] v.dt = "FLOAT" -> "f"
    [] v.dt = "BOOL" -> "b" [] v.dt = "STRING" -> "s"

\* A value survives serializeValue and stringToValue, Booleans included, but
\* for the digits %f does not write.
ValueReadBack ==
  \A i \in DOMAIN record :
    LET v == record[i] IN
    stringToValue(<<Letter(v)>> \o serializeValue(v)) = Stored(v)

-----------------------------------------------------------------------------
\* Every string of the record is shorter than its type.
Terminated == \A i \in 1..NumAttr : ~Unterminated(rel.attrs[i], out[i])

IsTrue(cond) == Meaning(out, cond) = BoolV(TRUE)

\* A well-typed condition made of comparisons and NOT is decided as it should
\* be, and its evaluation does not end the process.
DecidesComparisons ==
  /\ answer # NULL
  /\ Terminated
  /\ TypeOf(rel.attrs, answer.cond) = "BOOL"
  /\ Uses(rel.attrs, answer.cond, {"NOT", "EQUAL", "SMALLER"})
  => answer.result = IF IsTrue(answer.cond) THEN "returned" ELSE "skipped"

\* A record that next returns satisfies the condition, if that is well-typed,
\* whatever the evaluator makes of the results of AND and OR inside it.
ReturnedSatisfies ==
  /\ answer # NULL
  /\ answer.result = "returned"
  /\ Terminated
  /\ TypeOf(rel.attrs, answer.cond) = "BOOL"
  /\ Uses(rel.attrs, answer.cond, Binary \cup {"NOT"})
  => IsTrue(answer.cond)

\* next "Stores record when result of condition from evalExpr is true"
\* (README.txt:131), and "(Const 10 < Const 20) AND true" equals true
\* (test_expr.c:122): a record is returned when the condition holds of it.
ConditionSelects ==
  /\ answer # NULL
  /\ TypeOf(rel.attrs, answer.cond) = "BOOL"
  /\ IsTrue(answer.cond)
  => answer.result = "returned"
=============================================================================
