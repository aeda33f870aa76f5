---------------------------- MODULE SchemaText -----------------------------
(***************************************************************************)
(* The schema of a table as text on page 0 (serializeSchema), and what     *)
(* openTable makes of that text (stringToSchemaParser).  A schema is       *)
(* [attrs, keys]: its attributes, and the numbers of those that are keys.  *)
(***************************************************************************)
EXTENDS CText

CONSTANT
  Crash  \* the process does not survive the call

\* Mutation: the length of a string type is not written.
TypeText_NoLength(attr) ==
  IF attr.dataType = "STRING" THEN <<"STRING", "[", Numeral[0], "]">> ELSE <<attr.dataType>>

\* Mutation: a string type is written without a length.
TypeText_NoBracket(attr) == <<attr.dataType>>

TypeText(attr) ==
  IF attr.dataType = "STRING"
  THEN <<"STRING", "[", Numeral[attr.typeLength * One], "]">>
  ELSE <<attr.dataType>>

\* ", " between the texts of a sequence.
Listed(texts) ==
  FlattenSeq([i \in DOMAIN texts |-> (IF i = 1 THEN <<>> ELSE <<",", " ">>) \o texts[i]])

serializeSchema(schema) ==
  LET attr(i) == schema.attrs[i].name \o <<":", " ">> \o TypeText(schema.attrs[i])
  IN <<"Schema with ", "<", Numeral[Len(schema.attrs) * One], ">", " attributes ", "(">>
       \o Listed([i \in DOMAIN schema.attrs |-> attr(i)])
       \o <<")", " with keys", ":", " ", "(">>
       \o Listed([i \in DOMAIN schema.keys |-> schema.attrs[schema.keys[i]].name])
       \o <<")", "\n">>

-----------------------------------------------------------------------------
\* Every piece gets a '\0' but the last: behind it comes what the heap holds.
split(text, c, garbage) ==
  LET pieces == Pieces(text, {c})
  IN [pieces EXCEPT ![Len(pieces)] = @ \o garbage]

\* The attribute a piece of the list describes.  The type is compared as a
\* whole, and everything unknown is a string type, whose length stands behind
\* a bracket; without one, atoi is called with NULL.
ParsedAttr(piece) ==
  LET nameToken == strtok(piece, 1, {":", " "})
      type == strtok(piece, nameToken.saved, {":", " "}).token
      bracket == strtok(type, 1, {"["})
      length == strtok(strtok(type, bracket.saved, {"["}).token, 1, {"]"}).token
  IN CASE type \in {<<"INT">>, <<"FLOAT">>, <<"BOOL">>} ->
            [name |-> nameToken.token, dataType |-> Head(type), typeLength |-> 0]
       [] length # <<>> ->
            [name |-> nameToken.token, dataType |-> "STRING", typeLength |-> atoi(length)]
       [] OTHER -> Crash

\* The texts in the second pair of brackets.  Without a key the token is what
\* stands behind the closing bracket.
KeyNames(text) ==
  LET list == strtok(text, strtok(text, 1, {":"}).saved, {":"}).token
      names == strtok(list, strtok(list, 1, {"("}).saved, {"("}).token
  IN SelectSeq(Pieces(strtok(names, 1, {")"}).token, {",", " "}),
               LAMBDA piece : piece # <<>>)

\* The number of the attribute with this name, or 0: then keyAttrs keeps what
\* malloc has left in it.
KeyAttr(attrs, keyName) ==
  IF \E j \in DOMAIN attrs : attrs[j].name = keyName
  THEN Min({j \in DOMAIN attrs : attrs[j].name = keyName})
  ELSE 0

\* `garbage' is what stands behind the four texts without a '\0'.  A piece that
\* is none of the attributes, after a comma in the garbage, is parsed like one.
stringToSchemaParser(data, garbage) ==
  LET attributeArray == split(split(data, "<", garbage[1])[2], ">", garbage[2])
      numAttr == atoi(attributeArray[1])
      open == strstr(attributeArray[2], "(")
      close == strstr(attributeArray[2], ")")
      attributeString == SubSeq(attributeArray[2], open + 1, close - 1) \o garbage[3]
      datatypeArray == split(attributeString, ",", garbage[4])
      parsed == [i \in DOMAIN datatypeArray |-> ParsedAttr(datatypeArray[i])]
      attrs == SubSeq(parsed, 1, numAttr)
      keys == KeyNames(SubSeq(attributeArray[2], close, Len(attributeArray[2])))
  IN IF \E i \in DOMAIN parsed : parsed[i] = Crash THEN Crash
     ELSE [attrs |-> attrs, keys |-> [i \in DOMAIN keys |-> KeyAttr(attrs, keys[i])]]
=============================================================================
