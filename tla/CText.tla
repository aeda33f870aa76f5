------------------------------- MODULE CText -------------------------------
(***************************************************************************)
(* Strings as the serializer and the parsers see them, and the functions   *)
(* of the C library they are taken apart with.  A string is a sequence of  *)
(* symbols: a bracket, comma, colon or blank is one symbol, and so is      *)
(* every name, keyword or number, since nothing cuts inside them.          *)
(***************************************************************************)
EXTENDS Integers, SequencesExt

CONSTANTS
  Symbols,  \* the symbols of texts
  Numeral,  \* number -> its symbol, counted in the last digit %f prints
  One       \* how many of these units make 1

ASSUME OneAssumption == One \in Nat \ {0}

\* The symbols the parsers cut at.
Delimiters == {" ", "(", ")", ",", ":", "<", ">", "[", "]"}

ASSUME SymbolsAssumption == Delimiters \subseteq Symbols

\* The numbers up to one that is written with this many digits.
ASSUME NumeralAssumption ==
  /\ 0 \in DOMAIN Numeral
  /\ \A n \in DOMAIN Numeral :
       /\ n \in Nat /\ 0..n \subseteq DOMAIN Numeral
       /\ Numeral[n] \in Symbols \ Delimiters
  /\ \A m, n \in DOMAIN Numeral : Numeral[m] = Numeral[n] => m = n

\* Where one of these symbols stands next, or the end of the text.
NextAt(text, from, symbols) ==
  Min({i \in from..Len(text) : text[i] \in symbols} \cup {Len(text) + 1})

\* The next token of text behind position `from', and the position from which
\* the next call goes on.  Delimiters in front of the token are skipped; the
\* empty token is the NULL that says there is none.
strtok(text, from, delims) ==
  LET first == NextAt(text, from, Symbols \ delims)
      end == NextAt(text, first, delims)
  IN [token |-> SubSeq(text, first, end - 1), saved |-> end + 1]

\* Where a symbol stands first; there is one.
strstr(text, symbol) == NextAt(text, 1, {symbol})

\* The pieces between the delimiters.
Pieces(text, delims) ==
  LET cuts == <<0>> \o SetToSortSeq({i \in DOMAIN text : text[i] \in delims}, <)
                    \o <<Len(text) + 1>>
  IN [i \in 1..(Len(cuts) - 1) |-> SubSeq(text, cuts[i] + 1, cuts[i + 1] - 1)]

\* The number a text begins with; 0 when it begins with none.
Leading(text) ==
  IF \E n \in DOMAIN Numeral : Numeral[n] = Head(text)
  THEN CHOOSE n \in DOMAIN Numeral : Numeral[n] = Head(text)
  ELSE 0

atoi(text) == Leading(text) \div One
=============================================================================
