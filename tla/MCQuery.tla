------------------------------ MODULE MCQuery ------------------------------
(***************************************************************************)
(* Instances of Query for TLC.                                             *)
(***************************************************************************)
EXTENDS Query, TLC

\* Numbers in units of the last digit of %f, of which two make 1.
MCNumeral == [n \in 0..8 |-> "#" \o ToString(n)]

Attr(n, t, len) == [name |-> <<n>>, dataType |-> t, typeLength |-> len]

\* The schema of the tests: a and c numbers, b a string, a the key.
TestSchema ==
  [attrs |-> <<Attr("a", "INT", 0), Attr("b", "STRING", 2), Attr("c", "INT", 0)>>,
   keys |-> <<1>>]

\* Two keys, and a string and a Boolean; no key, and a string at the end; a
\* FLOAT; and a string in a type of length 3, before another string.
MCSchemas ==
  {TestSchema,
   [attrs |-> <<Attr("b", "STRING", 2), Attr("d", "BOOL", 0)>>, keys |-> <<2, 1>>],
   [attrs |-> <<Attr("e", "FLOAT", 4), Attr("b", "STRING", 2)>>, keys |-> <<>>],
   [attrs |-> <<Attr("f", "STRING", 3), Attr("b", "STRING", 2)>>, keys |-> <<1>>]}

\* Plain strings, with and without a '\0' at the end of their type, and
\* strings with delimiters in every place.
MCStrings ==
  {<<>>, <<"x">>, <<"y">>, <<"x", "y">>, <<"x", "y", "x">>,
   <<",">>, <<":">>, <<")">>, <<",", "x">>, <<"x", ",">>,
   <<"x", ")">>, <<")", "x">>, <<"x", ",", ":">>, <<",", "x", ":">>}

MCLiterals ==
  {IntV(0), IntV(2), FloatV(14), FloatV(15), BoolV(TRUE), BoolV(FALSE)}
  \cup {StringV(s) : s \in MCStrings}

\* A block deleteRecord finds with zeros, with a bracket, and with more.
MCGarbage == {<<>>, <<"?", "(">>, <<"?", "(", "?", ":">>}

\* Zeros behind all texts of a schema, or something behind one of them.
MCHeaps ==
  LET zeros == [i \in 1..4 |-> <<>>]
      texts == {<<"?">>, <<",", "?">>, <<" ", "?">>, <<"[", "?">>, <<":", "?">>}
  IN {zeros} \cup {[zeros EXCEPT ![i] = t] : i \in 1..4, t \in texts}

MCTails == {<<>>, <<"y">>}

\* The order of the symbols a string may come to hold.
MCOrder ==
  <<"\n", " ", "(", ")", ",">> \o [n \in 1..9 |-> MCNumeral[n - 1]] \o
  <<":", "?", "FALSE", "TOMBESTONED", "TRUE", RID, "[", "a", "b", "c", "d",
    "e", "f", "x", "y">>

MCRank == [s \in Range(MCOrder) |-> CHOOSE k \in DOMAIN MCOrder : MCOrder[k] = s]

\* Constants as the tests write them, and the first two attributes.
Leaves ==
  {Const(stringToValue(t)) : t \in {<<"i", "#2">>, <<"s", "x", "y">>, <<"b", "t">>}}
  \cup {AttrRef(1), AttrRef(2)}

\* The symbols of strings, and of the text of a schema.
MCSymbols ==
  Range(MCOrder) \cup {"Schema with ", "<", ">", " attributes ", " with keys", "INT", "FLOAT",
                       "BOOL", "STRING", "]"}

Comparisons == {Op(o, <<l, r>>) : o \in {"EQUAL", "SMALLER"}, l \in Leaves, r \in Leaves}

Truths ==
  {AttrRef(2), Const(stringToValue(<<"b", "t">>))}
  \cup {Op("EQUAL", <<AttrRef(1), l>>) : l \in {AttrRef(2), Const(stringToValue(<<"i", "#2">>))}}

Connected == {Op(o, <<l, r>>) : o \in {"AND", "OR"}, l \in Truths, r \in Truths}

\* AND and OR as operands.
Nested ==
  LET some == {e \in Connected : e.args[1] = AttrRef(2)}
      one == Op("AND", <<AttrRef(2), AttrRef(2)>>)
  IN {Op("NOT", <<e>>) : e \in some}
     \cup {Op(o, <<e, one>>) : o \in {"EQUAL", "SMALLER", "OR"}, e \in some}

MCConditions ==
  Leaves \cup Comparisons \cup {Op("NOT", <<e>>) : e \in Comparisons \cup Truths}
  \cup Connected \cup Nested

\* For the run about AND and OR.
AndOr == Connected \cup Truths \cup Leaves

MCHeight ==
  LET height[e \in MCConditions] ==
        IF e.type = "OP" THEN 1 + Max({height[e.args[i]] : i \in DOMAIN e.args}) ELSE 0
  IN height

AndOrHeight == [e \in AndOr |-> MCHeight[e]]

\* Only plain strings, which the text of a record keeps.
PlainLiterals ==
  {IntV(2), FloatV(10), BoolV(TRUE), BoolV(FALSE), StringV(<<"x">>)}

NoGarbage == {<<>>}
NoHeap == {[i \in 1..4 |-> <<>>]}
=============================================================================
