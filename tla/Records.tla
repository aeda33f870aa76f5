------------------------------ MODULE Records ------------------------------
(***************************************************************************)
(* Values, the attributes of a record, and their texts (record_mgr.c,      *)
(* rm_serializer.c, object_parser.c).  A record is kept as one value for   *)
(* each attribute instead of bytes at the offsets of getRecordSizeOffset.  *)
(* An attribute is [name, dataType, typeLength].                           *)
(***************************************************************************)
EXTENDS CText

CONSTANT
  Tails  \* what may stand in memory behind a string that is not terminated

\* A value.  Only one of num and str counts: num is the number of an INT, a
\* FLOAT in tenths of the last digit %f prints, and 0 or 1 for a BOOL.
IntV(n) == [dt |-> "INT", num |-> n, str |-> <<>>]
FloatV(n) == [dt |-> "FLOAT", num |-> n, str |-> <<>>]
BoolV(b) == [dt |-> "BOOL", num |-> IF b THEN 1 ELSE 0, str |-> <<>>]
StringV(s) == [dt |-> "STRING", num |-> 0, str |-> s]

DataTypes == {"INT", "FLOAT", "BOOL", "STRING"}

Values ==
  [dt : {"INT", "FLOAT"}, num : Int, str : {<<>>}]
  \cup [dt : {"BOOL"}, num : {0, 1}, str : {<<>>}]
  \cup [dt : {"STRING"}, num : {0}, str : Seq(Symbols)]

\* Mutation: a string is copied with strcpy.
setAttr_Whole(attr, v) == v

\* A string is cut at the length of its type, and has no '\0' when it fills it.
setAttr(attr, v) ==
  IF attr.dataType # "STRING" THEN v
  ELSE StringV(SubSeq(v.str, 1, IF Len(v.str) < attr.typeLength THEN Len(v.str)
                                                              ELSE attr.typeLength))

Unterminated(attr, v) == attr.dataType = "STRING" /\ Len(v.str) = attr.typeLength

\* The values a caller may see: a string that fills its type is copied into a
\* block of its length, and read on behind it.
getAttr(attr, v) ==
  IF Unterminated(attr, v) THEN {StringV(v.str \o tail) : tail \in Tails} ELSE {v}

\* %i and %f; %f rounds to its last digit.
NumberText(v) ==
  IF v.dt = "INT" THEN <<Numeral[v.num * One]>> ELSE <<Numeral[(v.num + 5) \div 10]>>

\* The text of an attribute's value in the record's page.
AttrText(v) ==
  CASE v.dt = "STRING" -> v.str
    [] v.dt = "BOOL" -> IF v.num = 1 THEN <<"TRUE">> ELSE <<"FALSE">>
    [] OTHER -> NumberText(v)

\* Mutation: no colon between the name and the value.
serializeAttr_NoColon(attr, v) == attr.name \o AttrText(v)

serializeAttr(attr, v) == attr.name \o <<":">> \o AttrText(v)

\* The value the record parser makes of a token.  It knows a Boolean by a
\* small t, which no text of a Boolean in a page begins with.
ParsedValue(dataType, token) ==
  CASE dataType = "INT" -> IntV(Leading(token) \div One)
    [] dataType = "FLOAT" -> FloatV(10 * Leading(token))
    [] dataType = "BOOL" -> BoolV(Head(token) \in {"t", "true"})
    [] dataType = "STRING" -> StringV(token)

-----------------------------------------------------------------------------
\* The text of a value of its own, and a value from a text that begins with
\* the letter of its type, as the constants of conditions are written.
\* Mutation: Booleans are written as in a page.
serializeValue_Upper(v) == AttrText(v)

serializeValue(v) ==
  CASE v.dt = "STRING" -> v.str
    [] v.dt = "BOOL" -> IF v.num = 1 THEN <<"true">> ELSE <<"false">>
    [] OTHER -> NumberText(v)

stringToValue(text) ==
  CASE Head(text) = "i" -> IntV(atoi(Tail(text)))
    [] Head(text) = "f" -> FloatV(10 * Leading(Tail(text)))
    [] Head(text) = "s" -> StringV(Tail(text))
    [] Head(text) = "b" -> BoolV(text[2] \in {"t", "true"})
    [] OTHER -> IntV(-1)
=============================================================================
