-------------------------------- MODULE Expr -------------------------------
(***************************************************************************)
(* The conditions of scans and their evaluation on a record (expr.c).  An  *)
(* expression is a constant, a reference to an attribute, or an operator   *)
(* with its arguments.  An evaluation gives a set of outcomes: values, and *)
(* Exit when a check of a return code ends the process.                    *)
(***************************************************************************)
EXTENDS Records

CONSTANTS
  Exprs,   \* the expressions, with the arguments of each
  Height,  \* expression -> the height of its tree
  Rank,    \* symbol -> its place in the order of strcmp
  Exit     \* the end of the process

Const(v) == [type |-> "CONST", cons |-> v]
AttrRef(i) == [type |-> "ATTRREF", attrRef |-> i]
Op(op, args) == [type |-> "OP", op |-> op, args |-> args]

Binary == {"AND", "OR", "EQUAL", "SMALLER"}

\* An operator has its arguments, and none of them holds the whole.
ASSUME ExprsAssumption ==
  /\ Height \in [Exprs -> Nat]
  /\ \A e \in Exprs :
       \/ e.type = "CONST" /\ e.cons \in Values
       \/ e.type = "ATTRREF" /\ e.attrRef \in Nat \ {0}
       \/ /\ e.type = "OP"
          /\ e.op \in Binary \cup {"NOT"}
          /\ DOMAIN e.args = IF e.op = "NOT" THEN 1..1 ELSE 1..2
          /\ \A i \in DOMAIN e.args :
               e.args[i] \in Exprs /\ Height[e.args[i]] < Height[e]

ASSUME ExitAssumption == Exit \notin Values

\* An error that CHECK turns into the end of the process.
Throws == {Exit}

\* strcmp(s, t) < 0
Before(s, t) ==
  \E i \in DOMAIN t :
    /\ i <= Len(s) + 1
    /\ SubSeq(s, 1, i - 1) = SubSeq(t, 1, i - 1)
    /\ i <= Len(s) => Rank[s[i]] < Rank[t[i]]

valueEquals(left, right) ==
  IF left.dt # right.dt THEN Throws ELSE {BoolV(left = right)}

\* The case of Booleans has no break: they are compared as strings, at
\* addresses of which two bytes are the Boolean.
valueSmaller(left, right) ==
  CASE left.dt # right.dt -> Throws
    [] left.dt \in {"INT", "FLOAT"} -> {BoolV(left.num < right.num)}
    [] left.dt = "BOOL" -> {BoolV(TRUE), BoolV(FALSE), Exit}
    [] OTHER -> {BoolV(Before(left.str, right.str))}

\* Mutation: like boolAnd, it leaves the type of the result alone.
boolNot_Untyped(input) ==
  IF input.dt # "BOOL" THEN Throws ELSE {IntV(-65536 + 1 - input.num)}

boolNot(input) ==
  IF input.dt # "BOOL" THEN Throws ELSE {BoolV(input.num = 0)}

\* boolAnd and boolOr set the Boolean and not the type of the result.  It
\* stays the INT of evalExpr, -1, whose low 16 bits are now the Boolean.
Untyped(b) == IntV(-65536 + BoolV(b).num)

boolAnd(left, right) ==
  IF "BOOL" \notin {left.dt} \cap {right.dt} THEN Throws
  ELSE {Untyped(left.num = 1 /\ right.num = 1)}

boolOr(left, right) ==
  IF "BOOL" \notin {left.dt} \cap {right.dt} THEN Throws
  ELSE {Untyped(left.num = 1 \/ right.num = 1)}

Apply(op, values) ==
  CASE op = "NOT" -> boolNot(values[1])
    [] op = "AND" -> boolAnd(values[1], values[2])
    [] op = "OR" -> boolOr(values[1], values[2])
    [] op = "EQUAL" -> valueEquals(values[1], values[2])
    [] op = "SMALLER" -> valueSmaller(values[1], values[2])

\* All arguments are evaluated before the operator, whatever they give.
Results(op, args) ==
  LET left == args[1]
      right == IF op = "NOT" THEN left ELSE args[2]
  IN ({Exit} \cap (left \cup right))
     \cup UNION {Apply(op, values) : values \in (left \ {Exit}) \X (right \ {Exit})}

evalExpr(record, attrs, expr) ==
  LET eval[e \in Exprs] ==
        IF e.type = "OP" THEN Results(e.op, [i \in DOMAIN e.args |-> eval[e.args[i]]])
        ELSE IF e.type = "CONST" THEN {e.cons}
        ELSE getAttr(attrs[e.attrRef], record[e.attrRef])
  IN eval[expr]

\* The expression, its arguments, theirs, and so on.
Parts(expr) ==
  LET parts[e \in Exprs] ==
        {e} \cup IF e.type = "OP" THEN UNION {parts[e.args[i]] : i \in DOMAIN e.args} ELSE {}
  IN parts[expr]

-----------------------------------------------------------------------------
(***************************************************************************)
(* What conditions mean: Booleans under the usual connectives, FALSE       *)
(* before TRUE, and the types that go together.                            *)
(***************************************************************************)

\* The type of an expression, or "NONE" when its parts do not fit.
Operands(op) == IF op \in {"EQUAL", "SMALLER"} THEN DataTypes ELSE {"BOOL"}

TypeOf(attrs, expr) ==
  LET type[e \in Exprs] ==
        IF e.type = "OP"
        THEN IF {type[e.args[i]] : i \in DOMAIN e.args} \in {{t} : t \in Operands(e.op)}
             THEN "BOOL" ELSE "NONE"
        ELSE IF e.type = "CONST" THEN e.cons.dt
        ELSE attrs[e.attrRef].dataType
  IN type[expr]

Holds(op, args) ==
  CASE op = "NOT" -> args[1].num = 0
    [] op = "AND" -> args[1].num = 1 /\ args[2].num = 1
    [] op = "OR" -> args[1].num = 1 \/ args[2].num = 1
    [] op = "EQUAL" -> args[1] = args[2]
    [] op = "SMALLER" -> args[1].num < args[2].num \/ Before(args[1].str, args[2].str)

Meaning(record, expr) ==
  LET mean[e \in Exprs] ==
        IF e.type = "OP" THEN BoolV(Holds(e.op, [i \in DOMAIN e.args |-> mean[e.args[i]]]))
        ELSE IF e.type = "CONST" THEN e.cons
        ELSE record[e.attrRef]
  IN mean[expr]

\* Whether every operator in an expression is one of `ops', and `<' compares no
\* Booleans.
Uses(attrs, expr, ops) ==
  \A e \in Parts(expr) :
    e.type = "OP" =>
      /\ e.op \in ops
      /\ e.op = "SMALLER" => TypeOf(attrs, e.args[1]) # "BOOL"
=============================================================================
