---------------------------- MODULE QueryProofs ----------------------------
(***************************************************************************)
(* Proofs about Query: what the text of a record gives back, and which     *)
(* records a condition selects.                                            *)
(***************************************************************************)
EXTENDS Query, SequenceTheorems, WellFoundedInduction, TLAPS

-----------------------------------------------------------------------------
(***************************************************************************)
(* Induction over numbers with a set in the place of the predicate.        *)
(***************************************************************************)
LEMMA LeastNat ==
  ASSUME NEW T \in SUBSET Nat, T # {}
  PROVE  \E x \in T : \A y \in T : x <= y
<1> DEFINE less == OpToRel(<, Nat)
<1>1. \A x, y \in Nat : x < y => <<x, y>> \in less
  BY DEF OpToRel
<1>2. IsWellFoundedOn(less, Nat)
  BY NatLessThanWellFounded
<1> HIDE DEF less
<1>3. PICK x \in T : \A y \in T : <<y, x>> \notin less
  BY <1>2, WFMin
<1>4. \A y \in T : ~(y < x)
  BY <1>1, <1>3
<1>5. \A y \in T : x <= y
  BY <1>4, SMT
<1> QED
  BY <1>5

LEMMA SetInduction ==
  ASSUME NEW S, 0 \in S, \A k \in Nat : k \in S => k + 1 \in S
  PROVE  \A k \in Nat : k \in S
<1> DEFINE T == Nat \ S
<1> SUFFICES ASSUME T # {} PROVE FALSE
  OBVIOUS
<1>1. PICK x \in T : \A y \in T : x <= y
  BY LeastNat
<1>2. x # 0 /\ x - 1 \in Nat /\ x - 1 \notin T
  BY <1>1
<1>3. (x - 1) + 1 \in S
  BY <1>2
<1> QED
  BY <1>1, <1>3

-----------------------------------------------------------------------------
(***************************************************************************)
(* Expressions.  The functions on them are recursive in the arguments of   *)
(* an operator, which are lower trees.                                     *)
(***************************************************************************)
ArgsOf(e) == IF e.type = "OP" THEN {e.args[i] : i \in DOMAIN e.args} ELSE {}

LEMMA ArgsLower ==
  ASSUME NEW e \in Exprs
  PROVE  /\ Height[e] \in Nat
         /\ \A a \in ArgsOf(e) : a \in Exprs /\ Height[a] \in Nat /\ Height[a] < Height[e]
BY ExprsAssumption DEF ArgsOf

LEMMA ExprCases ==
  ASSUME NEW e \in Exprs
  PROVE  \/ e.type = "CONST" /\ e.cons \in Values /\ ArgsOf(e) = {}
         \/ e.type = "ATTRREF" /\ e.attrRef \in Nat \ {0} /\ ArgsOf(e) = {}
         \/ /\ e.type = "OP" /\ e.op = "NOT" /\ DOMAIN e.args = {1}
            /\ e.args[1] \in Exprs /\ ArgsOf(e) = {e.args[1]}
         \/ /\ e.type = "OP" /\ e.op \in Binary /\ DOMAIN e.args = {1, 2}
            /\ e.args[1] \in Exprs /\ e.args[2] \in Exprs
            /\ ArgsOf(e) = {e.args[1], e.args[2]}
<1>1. CASE e.type = "CONST" /\ e.cons \in Values
  BY <1>1 DEF ArgsOf
<1>2. CASE e.type = "ATTRREF" /\ e.attrRef \in Nat \ {0}
  BY <1>2 DEF ArgsOf
<1>3. CASE /\ e.type = "OP"
           /\ e.op \in Binary \cup {"NOT"}
           /\ DOMAIN e.args = IF e.op = "NOT" THEN 1..1 ELSE 1..2
           /\ \A i \in DOMAIN e.args : e.args[i] \in Exprs
  <2>1. CASE e.op = "NOT"
    <3>1. DOMAIN e.args = {1}
      BY <1>3, <2>1
    <3> QED
      BY <1>3, <2>1, <3>1 DEF ArgsOf
  <2>2. CASE e.op \in Binary
    <3>1. DOMAIN e.args = {1, 2}
      BY <1>3, <2>2 DEF Binary
    <3> QED
      BY <1>3, <2>2, <3>1 DEF ArgsOf
  <2> QED
    BY <1>3, <2>1, <2>2
<1> QED
  BY <1>1, <1>2, <1>3, ExprsAssumption

\* What holds of an expression if it holds of its arguments holds of all.
LEMMA ExprInduction ==
  ASSUME NEW S,
         \A e \in Exprs : ArgsOf(e) \subseteq S => e \in S
  PROVE  Exprs \subseteq S
<1> DEFINE N == {k \in Nat : \A e \in Exprs : Height[e] < k => e \in S}
<1>1. 0 \in N
  BY ArgsLower
<1>2. ASSUME NEW k \in Nat, k \in N PROVE k + 1 \in N
  <2> SUFFICES ASSUME NEW e \in Exprs, Height[e] < k + 1 PROVE e \in S
    OBVIOUS
  <2>1. \A a \in ArgsOf(e) : a \in Exprs /\ Height[a] < k
    BY ArgsLower
  <2> QED
    BY <1>2, <2>1
<1> HIDE DEF N
<1>3. \A k \in Nat : k \in N
  BY <1>1, <1>2, SetInduction
<1>4. ASSUME NEW e \in Exprs PROVE e \in S
  <2>1. Height[e] \in Nat /\ Height[e] + 1 \in N
    BY <1>3, ArgsLower
  <2> QED
    BY <2>1 DEF N
<1> QED
  BY <1>4

\* There is a function that gives each expression what Step makes of what it
\* gives the arguments: first up to any height, then for all expressions.
Recursive(f, Step, k) == \A e \in Exprs : Height[e] < k => f[e] = Step[e][f]

Local(T, Step) ==
  /\ Step \in [Exprs -> [[Exprs -> T] -> T]]
  /\ \A e \in Exprs : \A f, g \in [Exprs -> T] :
       (\A a \in ArgsOf(e) : f[a] = g[a]) => Step[e][f] = Step[e][g]

LEMMA RecursiveExists ==
  ASSUME NEW T, T # {}, NEW Step, Local(T, Step)
  PROVE  \A k \in Nat : \E f \in [Exprs -> T] : Recursive(f, Step, k)
<1> DEFINE N == {k \in Nat : \E f \in [Exprs -> T] : Recursive(f, Step, k)}
<1>1. 0 \in N
  <2>1. PICK t \in T : TRUE
    OBVIOUS
  <2>2. [e \in Exprs |-> t] \in [Exprs -> T]
    OBVIOUS
  <2>3. Recursive([e \in Exprs |-> t], Step, 0)
    BY ArgsLower DEF Recursive
  <2> QED
    BY <2>2, <2>3
<1>2. ASSUME NEW k \in Nat, k \in N PROVE k + 1 \in N
  <2>1. PICK f \in [Exprs -> T] : Recursive(f, Step, k)
    BY <1>2
  <2> DEFINE g == [e \in Exprs |-> IF Height[e] < k THEN f[e] ELSE Step[e][f]]
  <2>2. g \in [Exprs -> T]
    BY DEF Local
  <2>3. ASSUME NEW e \in Exprs, Height[e] < k + 1 PROVE g[e] = Step[e][g]
    <3>1. \A a \in ArgsOf(e) : a \in Exprs /\ Height[a] < k
      BY <2>3, ArgsLower
    <3>2. \A a \in ArgsOf(e) : g[a] = f[a]
      BY <3>1
    <3>3. Step[e][g] = Step[e][f]
      <4> HIDE DEF g
      <4> QED
        BY <2>2, <3>2 DEF Local
    <3>4. g[e] = Step[e][f]
      BY <2>1 DEF Recursive
    <3> QED
      BY <3>3, <3>4
  <2>4. Recursive(g, Step, k + 1)
    BY <2>3 DEF Recursive
  <2> QED
    BY <2>2, <2>4
<1> HIDE DEF N
<1>3. \A k \in Nat : k \in N
  BY <1>1, <1>2, SetInduction
<1> QED
  BY <1>3 DEF N

LEMMA RecursiveAgree ==
  ASSUME NEW T, NEW Step, Local(T, Step),
         NEW j \in Nat, NEW f \in [Exprs -> T], Recursive(f, Step, j),
         NEW k \in Nat, NEW g \in [Exprs -> T], Recursive(g, Step, k)
  PROVE  \A e \in Exprs : Height[e] < j /\ Height[e] < k => f[e] = g[e]
<1> DEFINE S == {e \in Exprs : Height[e] < j /\ Height[e] < k => f[e] = g[e]}
<1>1. ASSUME NEW e \in Exprs, ArgsOf(e) \subseteq S PROVE e \in S
  <2> SUFFICES ASSUME Height[e] < j, Height[e] < k PROVE f[e] = g[e]
    OBVIOUS
  <2>1. \A a \in ArgsOf(e) : f[a] = g[a]
    BY <1>1, ArgsLower
  <2>2. Step[e][f] = Step[e][g]
    BY <2>1 DEF Local
  <2> QED
    BY <2>2 DEF Recursive
<1> HIDE DEF S
<1>2. Exprs \subseteq S
  BY <1>1, ExprInduction
<1> QED
  BY <1>2 DEF S

LEMMA ExprRecursion ==
  ASSUME NEW T, T # {}, NEW Step, Local(T, Step)
  PROVE  \E f \in [Exprs -> T] : \A e \in Exprs : f[e] = Step[e][f]
<1> DEFINE upTo(k) == CHOOSE f : f \in [Exprs -> T] /\ Recursive(f, Step, k)
           g == [e \in Exprs |-> upTo(Height[e] + 1)[e]]
<1>1. \A k \in Nat : upTo(k) \in [Exprs -> T] /\ Recursive(upTo(k), Step, k)
  BY RecursiveExists
<1> HIDE DEF upTo
<1>2. \A e \in Exprs : Height[e] \in Nat /\ Height[e] + 1 \in Nat
  BY ArgsLower
<1>3. g \in [Exprs -> T]
  BY <1>1, <1>2
<1>4. ASSUME NEW e \in Exprs PROVE g[e] = Step[e][g]
  <2> DEFINE f == upTo(Height[e] + 1)
  <2>1. f \in [Exprs -> T] /\ Recursive(f, Step, Height[e] + 1)
    BY <1>1, <1>2
  <2>2. g[e] = Step[e][f]
    BY <1>2, <2>1 DEF Recursive
  <2>3. ASSUME NEW a \in ArgsOf(e) PROVE g[a] = f[a]
    <3>1. a \in Exprs /\ Height[a] < Height[a] + 1 /\ Height[a] < Height[e] + 1
      BY ArgsLower, <1>2
    <3>2. /\ upTo(Height[a] + 1) \in [Exprs -> T]
          /\ Recursive(upTo(Height[a] + 1), Step, Height[a] + 1)
      BY <1>1, <1>2, <3>1
    <3>3. upTo(Height[a] + 1)[a] = f[a]
      <4> HIDE DEF f
      <4> QED
        BY <1>2, <2>1, <3>1, <3>2, RecursiveAgree
    <3> QED
      BY <3>1, <3>3
  <2>4. Step[e][g] = Step[e][f]
    <3> HIDE DEF f, g
    <3> QED
      BY <1>3, <2>1, <2>3 DEF Local
  <2> QED
    BY <2>2, <2>4
<1> HIDE DEF g
<1> QED
  BY <1>3, <1>4

\* A function that satisfies the equation of a recursive definition is what
\* the definition stands for.
UnionOf(f, e) == UNION {f[a] : a \in ArgsOf(e)}

LEMMA UnionOfArgs ==
  ASSUME NEW e, NEW f
  PROVE  /\ UnionOf(f, e)
              = IF e.type = "OP" THEN UNION {f[e.args[i]] : i \in DOMAIN e.args} ELSE {}
         /\ \A g : (\A a \in ArgsOf(e) : f[a] = g[a]) => UnionOf(f, e) = UnionOf(g, e)
         /\ \A x : x \in UnionOf(f, e) <=> \E a \in ArgsOf(e) : x \in f[a]
<1>1. {f[a] : a \in ArgsOf(e)}
        = IF e.type = "OP" THEN {f[e.args[i]] : i \in DOMAIN e.args} ELSE {}
  BY DEF ArgsOf
<1>2. ASSUME NEW g, \A a \in ArgsOf(e) : f[a] = g[a]
      PROVE  {f[a] : a \in ArgsOf(e)} = {g[a] : a \in ArgsOf(e)}
  BY <1>2
<1>3. \A g : (\A a \in ArgsOf(e) : f[a] = g[a]) => UnionOf(f, e) = UnionOf(g, e)
  BY <1>2, Zenon DEF UnionOf
<1>4. UNION {} = {}
  OBVIOUS
<1>5. UnionOf(f, e)
        = IF e.type = "OP" THEN UNION {f[e.args[i]] : i \in DOMAIN e.args} ELSE {}
  BY <1>1, <1>4, Zenon DEF UnionOf
<1>6. \A x : x \in UnionOf(f, e) <=> \E a \in ArgsOf(e) : x \in f[a]
  BY DEF UnionOf
<1> QED
  BY <1>3, <1>5, <1>6

LEMMA PartsAre ==
  ASSUME NEW e \in Exprs
  PROVE  /\ \A x : x \in Parts(e) <=> x = e \/ \E a \in ArgsOf(e) : x \in Parts(a)
         /\ Parts(e) \subseteq Exprs
<1> DEFINE T == SUBSET Exprs
           Step == [x \in Exprs |-> [f \in [Exprs -> T] |-> {x} \cup UnionOf(f, x)]]
           IsParts(f) ==
             f = [x \in Exprs |->
                    {x} \cup IF x.type = "OP" THEN UNION {f[x.args[i]] : i \in DOMAIN x.args}
                                              ELSE {}]
           parts == CHOOSE f : IsParts(f)
<1>1. T # {} /\ Local(T, Step)
  <2>1. ASSUME NEW x \in Exprs, NEW f \in [Exprs -> T]
        PROVE  {x} \cup UnionOf(f, x) \in T
    BY ArgsLower, UnionOfArgs
  <2>2. Step \in [Exprs -> [[Exprs -> T] -> T]]
    BY <2>1
  <2>3. ASSUME NEW x \in Exprs, NEW f \in [Exprs -> T], NEW g \in [Exprs -> T],
               \A a \in ArgsOf(x) : f[a] = g[a]
        PROVE  Step[x][f] = Step[x][g]
    BY <2>3, UnionOfArgs
  <2> HIDE DEF Step
  <2>4. Local(T, Step)
    BY <2>2, <2>3 DEF Local
  <2> QED
    BY <2>4
<1>2. PICK f \in [Exprs -> T] : \A x \in Exprs : f[x] = Step[x][f]
  <2> HIDE DEF T, Step
  <2> QED
    BY <1>1, ExprRecursion
<1>3. \A g : IsParts(g) <=> g = [x \in Exprs |-> {x} \cup UnionOf(g, x)]
  BY UnionOfArgs, Zenon
<1>4. IsParts(f)
  <2>1. f = [x \in Exprs |-> {x} \cup UnionOf(f, x)]
    BY <1>2
  <2> QED
    BY <1>3, <2>1
<1>5. \A x : Parts(x) = parts[x]
  BY DEF Parts
<1> HIDE DEF IsParts
<1>6. IsParts(parts)
  BY <1>4
<1> HIDE DEF parts
<1>7. \A x \in Exprs : parts[x] = {x} \cup UnionOf(parts, x)
  BY <1>3, <1>6
<1>8. \A x \in Exprs : parts[x] \subseteq Exprs
  <2> DEFINE S == {x \in Exprs : parts[x] \subseteq Exprs}
  <2>1. \A x \in Exprs : ArgsOf(x) \subseteq S => x \in S
    BY <1>7, UnionOfArgs
  <2> HIDE DEF S
  <2>2. Exprs \subseteq S
    BY <2>1, ExprInduction
  <2> QED
    BY <2>2 DEF S
<1> QED
  BY <1>5, <1>7, <1>8, UnionOfArgs

\* What is said of all parts of an expression is said of it, and of all parts
\* of its arguments.
LEMMA PartsOfArgs ==
  ASSUME NEW e \in Exprs
  PROVE  e \in Parts(e) /\ \A a \in ArgsOf(e) : Parts(a) \subseteq Parts(e)
BY PartsAre

ImageOf(f, e) == {f[a] : a \in ArgsOf(e)}

LEMMA ImageOfArgs ==
  ASSUME NEW e, e.type = "OP", NEW f
  PROVE  /\ ImageOf(f, e) = {f[e.args[i]] : i \in DOMAIN e.args}
         /\ \A g : (\A a \in ArgsOf(e) : f[a] = g[a]) => ImageOf(f, e) = ImageOf(g, e)
BY DEF ImageOf, ArgsOf

\* The type of an expression from those of its arguments.
TypeStep(attrs, f, e) ==
  IF e.type = "OP"
  THEN IF ImageOf(f, e) \in {{t} : t \in Operands(e.op)} THEN "BOOL" ELSE "NONE"
  ELSE IF e.type = "CONST" THEN e.cons.dt
  ELSE attrs[e.attrRef].dataType

LEMMA TypeStepIs ==
  ASSUME NEW e \in Exprs, NEW attrs, NEW f
  PROVE  /\ e.type = "CONST" => TypeStep(attrs, f, e) = e.cons.dt
         /\ e.type = "ATTRREF" => TypeStep(attrs, f, e) = attrs[e.attrRef].dataType
         /\ e.type = "OP" /\ e.op = "NOT"
            => TypeStep(attrs, f, e) = IF f[e.args[1]] = "BOOL" THEN "BOOL" ELSE "NONE"
         /\ e.type = "OP" /\ e.op \in {"AND", "OR"}
            => TypeStep(attrs, f, e) = IF f[e.args[1]] = "BOOL" /\ f[e.args[2]] = "BOOL"
                                       THEN "BOOL" ELSE "NONE"
         /\ e.type = "OP" /\ e.op \in {"EQUAL", "SMALLER"}
            => TypeStep(attrs, f, e) = IF /\ f[e.args[1]] = f[e.args[2]]
                                          /\ f[e.args[1]] \in DataTypes
                                       THEN "BOOL" ELSE "NONE"
<1>1. CASE e.type # "OP"
  BY <1>1 DEF TypeStep
<1>2. CASE e.type = "OP" /\ e.op = "NOT"
  <2>1. ImageOf(f, e) = {f[e.args[1]]}
    BY <1>2, ExprCases DEF ImageOf, Binary
  <2> QED
    BY <1>2, <2>1 DEF TypeStep, Operands
<1>3. CASE e.type = "OP" /\ e.op \in Binary
  <2>1. ImageOf(f, e) = {f[e.args[1]], f[e.args[2]]}
    BY <1>3, ExprCases DEF ImageOf, Binary
  <2>2. CASE e.op \in {"AND", "OR"}
    BY <1>3, <2>1, <2>2 DEF TypeStep, Operands
  <2>3. CASE e.op \in {"EQUAL", "SMALLER"}
    BY <1>3, <2>1, <2>3 DEF TypeStep, Operands
  <2> QED
    BY <1>3, <2>2, <2>3 DEF Binary
<1> QED
  BY <1>1, <1>2, <1>3, ExprCases

LEMMA TypeIsStep ==
  ASSUME NEW attrs
  PROVE  \E types : \A e \in Exprs : /\ TypeOf(attrs, e) = types[e]
                                     /\ types[e] = TypeStep(attrs, types, e)
<1> DEFINE T == {"BOOL", "NONE"} \cup {x.cons.dt : x \in Exprs}
                  \cup {attrs[x.attrRef].dataType : x \in Exprs}
           Step == [x \in Exprs |-> [f \in [Exprs -> T] |-> TypeStep(attrs, f, x)]]
           IsType(f) ==
             f = [e \in Exprs |->
                    IF e.type = "OP"
                    THEN IF {f[e.args[i]] : i \in DOMAIN e.args}
                              \in {{t} : t \in Operands(e.op)}
                         THEN "BOOL" ELSE "NONE"
                    ELSE IF e.type = "CONST" THEN e.cons.dt
                    ELSE attrs[e.attrRef].dataType]
           types == CHOOSE f : IsType(f)
<1>1. T # {} /\ Local(T, Step)
  <2>1. ASSUME NEW x \in Exprs, NEW f \in [Exprs -> T]
        PROVE  TypeStep(attrs, f, x) \in T
    BY ExprCases DEF TypeStep
  <2>2. Step \in [Exprs -> [[Exprs -> T] -> T]]
    BY <2>1
  <2>3. ASSUME NEW x \in Exprs, NEW f \in [Exprs -> T], NEW g \in [Exprs -> T],
               \A a \in ArgsOf(x) : f[a] = g[a]
        PROVE  Step[x][f] = Step[x][g]
    <3>1. x.type = "OP" => ImageOf(f, x) = ImageOf(g, x)
      BY <2>3, ImageOfArgs
    <3>2. TypeStep(attrs, f, x) = TypeStep(attrs, g, x)
      BY <3>1, ExprCases DEF TypeStep
    <3> QED
      BY <3>2
  <2> HIDE DEF Step
  <2>4. Local(T, Step)
    BY <2>2, <2>3 DEF Local
  <2> QED
    BY <2>4
<1>2. PICK f \in [Exprs -> T] : \A x \in Exprs : f[x] = Step[x][f]
  <2> HIDE DEF T, Step
  <2> QED
    BY <1>1, ExprRecursion
<1>3. \A g : IsType(g) <=> g = [x \in Exprs |-> TypeStep(attrs, g, x)]
  <2> SUFFICES ASSUME NEW g PROVE IsType(g) <=> g = [x \in Exprs |-> TypeStep(attrs, g, x)]
    OBVIOUS
  <2> DEFINE body(e) ==
               IF e.type = "OP"
               THEN IF {g[e.args[i]] : i \in DOMAIN e.args}
                         \in {{t} : t \in Operands(e.op)}
                    THEN "BOOL" ELSE "NONE"
               ELSE IF e.type = "CONST" THEN e.cons.dt
               ELSE attrs[e.attrRef].dataType
  <2>1. ASSUME NEW e \in Exprs PROVE body(e) = TypeStep(attrs, g, e)
    <3>1. CASE e.type = "OP"
      BY <3>1, ImageOfArgs DEF TypeStep
    <3>2. CASE e.type \in {"CONST", "ATTRREF"}
      BY <3>2 DEF TypeStep
    <3> QED
      BY <3>1, <3>2, ExprCases
  <2>2. IsType(g) <=> g = [e \in Exprs |-> body(e)]
    OBVIOUS
  <2> HIDE DEF body, IsType
  <2> QED
    BY <2>1, <2>2
<1>4. IsType(f)
  <2>1. f = [x \in Exprs |-> TypeStep(attrs, f, x)]
    BY <1>2
  <2> QED
    BY <1>3, <2>1
<1>5. \A x : TypeOf(attrs, x) = types[x]
  BY DEF TypeOf
<1> HIDE DEF IsType
<1>6. IsType(types)
  BY <1>4
<1>7. \A x \in Exprs : types[x] = TypeStep(attrs, types, x)
  <2> HIDE DEF types
  <2> QED
    BY <1>3, <1>6
<1> QED
  BY <1>5, <1>7, Zenon

-----------------------------------------------------------------------------
\* What the arguments of an operator give.
ArgsIn(f, e) == [i \in DOMAIN e.args |-> f[e.args[i]]]

LEMMA ArgsInIs ==
  ASSUME NEW e \in Exprs, e.type = "OP", NEW f
  PROVE  /\ ArgsIn(f, e)[1] = f[e.args[1]]
         /\ e.op \in Binary => ArgsIn(f, e)[2] = f[e.args[2]]
         /\ \A g : (\A a \in ArgsOf(e) : f[a] = g[a]) => ArgsIn(f, e) = ArgsIn(g, e)
<1>1. \A i \in DOMAIN e.args : ArgsIn(f, e)[i] = f[e.args[i]]
  BY DEF ArgsIn
<1>2. 1 \in DOMAIN e.args /\ (e.op \in Binary => 2 \in DOMAIN e.args)
  BY ExprCases DEF Binary
<1>3. ASSUME NEW g, \A a \in ArgsOf(e) : f[a] = g[a] PROVE ArgsIn(f, e) = ArgsIn(g, e)
  <2>1. \A i \in DOMAIN e.args : f[e.args[i]] = g[e.args[i]]
    BY <1>3 DEF ArgsOf
  <2> QED
    BY <2>1 DEF ArgsIn
<1> QED
  BY <1>1, <1>2, <1>3

LEMMA BoolValues ==
  ASSUME NEW b
  PROVE  /\ b => BoolV(b) = BoolV(TRUE) /\ Untyped(b) = Untyped(TRUE)
         /\ ~b => BoolV(b) = BoolV(FALSE) /\ Untyped(b) = Untyped(FALSE)
BY DEF BoolV, Untyped, IntV

\* All an operator can give.
Answers == {Exit, BoolV(TRUE), BoolV(FALSE), Untyped(TRUE), Untyped(FALSE)}

LEMMA ApplyAnswers ==
  ASSUME NEW op \in Binary \cup {"NOT"}, NEW l, NEW r
  PROVE  Apply(op, <<l, r>>) \subseteq Answers
<1>1. /\ <<l, r>>[1] = l /\ <<l, r>>[2] = r
      /\ Throws \subseteq Answers
      /\ \A b : {BoolV(b)} \subseteq Answers /\ {Untyped(b)} \subseteq Answers
  BY BoolValues DEF Answers, Throws
<1>2. op = "NOT" => boolNot(l) \subseteq Answers
  BY <1>1 DEF boolNot
<1>3. op = "AND" => boolAnd(l, r) \subseteq Answers
  BY <1>1 DEF boolAnd
<1>4. op = "OR" => boolOr(l, r) \subseteq Answers
  BY <1>1 DEF boolOr
<1>5. op = "EQUAL" => valueEquals(l, r) \subseteq Answers
  BY <1>1 DEF valueEquals
<1>6. op = "SMALLER" => valueSmaller(l, r) \subseteq Answers
  <2>1. {BoolV(TRUE), BoolV(FALSE), Exit} \subseteq Answers
    BY DEF Answers
  <2> QED
    BY <1>1, <2>1 DEF valueSmaller
<1> QED
  BY <1>1, <1>2, <1>3, <1>4, <1>5, <1>6 DEF Apply, Binary

\* What an operator gives when its arguments give left and right.
Combines(results, op, left, right) ==
  /\ \A v \in results :
       \/ v = Exit /\ Exit \in left \cup right
       \/ \E l \in left \ {Exit}, r \in right \ {Exit} : v \in Apply(op, <<l, r>>)
  /\ \A l \in left \ {Exit}, r \in right \ {Exit} : Apply(op, <<l, r>>) \subseteq results

LEMMA ResultsAre ==
  ASSUME NEW e \in Exprs, e.type = "OP", NEW f
  PROVE  Combines(Results(e.op, ArgsIn(f, e)), e.op, f[e.args[1]],
                  IF e.op = "NOT" THEN f[e.args[1]] ELSE f[e.args[2]])
<1>1. e.op = "NOT" \/ e.op \in Binary
  BY ExprCases
<1> DEFINE left == f[e.args[1]]
           right == IF e.op = "NOT" THEN f[e.args[1]] ELSE f[e.args[2]]
           pairs == (left \ {Exit}) \X (right \ {Exit})
           S == UNION {Apply(e.op, values) : values \in pairs}
<1>2. Results(e.op, ArgsIn(f, e)) = ({Exit} \cap (left \cup right)) \cup S
  <2>1. /\ ArgsIn(f, e)[1] = left
        /\ (IF e.op = "NOT" THEN ArgsIn(f, e)[1] ELSE ArgsIn(f, e)[2]) = right
    BY <1>1, ArgsInIs
  <2> HIDE DEF left, right
  <2> QED
    BY <2>1 DEF Results
<1> HIDE DEF left, right
<1>3. ASSUME NEW v \in S
      PROVE  \E l \in left \ {Exit}, r \in right \ {Exit} : v \in Apply(e.op, <<l, r>>)
  <2>1. PICK values \in pairs : v \in Apply(e.op, values)
    <3> HIDE DEF pairs
    <3> QED
      OBVIOUS
  <2>2. PICK l \in left \ {Exit}, r \in right \ {Exit} : values = <<l, r>>
    OBVIOUS
  <2> QED
    BY <2>1, <2>2
<1>4. ASSUME NEW l \in left \ {Exit}, NEW r \in right \ {Exit}, NEW v \in Apply(e.op, <<l, r>>)
      PROVE  v \in S
  <2>1. <<l, r>> \in pairs
    OBVIOUS
  <2> HIDE DEF pairs
  <2> QED
    BY <2>1
<1> HIDE DEF S
<1>5. Combines(Results(e.op, ArgsIn(f, e)), e.op, left, right)
  BY <1>2, <1>3, <1>4 DEF Combines
<1> QED
  BY <1>5 DEF left, right

-----------------------------------------------------------------------------
\* The outcomes of an evaluation, and what an expression means.
EvalStep(values, attrs, f, e) ==
  IF e.type = "OP" THEN Results(e.op, ArgsIn(f, e))
  ELSE IF e.type = "CONST" THEN {e.cons}
  ELSE getAttr(attrs[e.attrRef], values[e.attrRef])

LEMMA EvalIsStep ==
  ASSUME NEW values, NEW attrs
  PROVE  \E eval : \A e \in Exprs : /\ evalExpr(values, attrs, e) = eval[e]
                                    /\ eval[e] = EvalStep(values, attrs, eval, e)
<1> DEFINE V == Answers \cup {x.cons : x \in Exprs}
                  \cup UNION {getAttr(attrs[x.attrRef], values[x.attrRef]) : x \in Exprs}
           T == SUBSET V
           Step == [x \in Exprs |-> [f \in [Exprs -> T] |-> EvalStep(values, attrs, f, x)]]
           IsEval(f) ==
             f = [e \in Exprs |->
                    IF e.type = "OP" THEN Results(e.op, [i \in DOMAIN e.args |-> f[e.args[i]]])
                    ELSE IF e.type = "CONST" THEN {e.cons}
                    ELSE getAttr(attrs[e.attrRef], values[e.attrRef])]
           eval == CHOOSE f : IsEval(f)
<1>1. T # {} /\ Local(T, Step)
  <2>1. ASSUME NEW x \in Exprs, NEW f \in [Exprs -> T]
        PROVE  EvalStep(values, attrs, f, x) \in T
    <3>1. CASE x.type = "OP"
      <4>1. \A l, r : Apply(x.op, <<l, r>>) \subseteq Answers
        BY <3>1, ApplyAnswers, ExprCases
      <4>2. Results(x.op, ArgsIn(f, x)) \subseteq Answers
        BY <3>1, <4>1, ResultsAre DEF Answers, Combines
      <4> QED
        BY <3>1, <4>2 DEF EvalStep
    <3>2. CASE x.type = "CONST"
      BY <3>2 DEF EvalStep
    <3>3. CASE x.type = "ATTRREF"
      <4>1. getAttr(attrs[x.attrRef], values[x.attrRef]) \subseteq V
        <5>1. getAttr(attrs[x.attrRef], values[x.attrRef])
                \in {getAttr(attrs[y.attrRef], values[y.attrRef]) : y \in Exprs}
          OBVIOUS
        <5>2. \A S, W : S \in W => S \subseteq UNION W
          OBVIOUS
        <5> QED
          BY <5>1, <5>2
      <4> QED
        BY <3>3, <4>1 DEF EvalStep
    <3> QED
      BY <3>1, <3>2, <3>3, ExprCases
  <2> HIDE DEF T
  <2>2. Step \in [Exprs -> [[Exprs -> T] -> T]]
    BY <2>1
  <2>3. ASSUME NEW x \in Exprs, NEW f \in [Exprs -> T], NEW g \in [Exprs -> T],
               \A a \in ArgsOf(x) : f[a] = g[a]
        PROVE  Step[x][f] = Step[x][g]
    <3>1. x.type = "OP" => ArgsIn(f, x) = ArgsIn(g, x)
      BY <2>3, ArgsInIs
    <3>2. EvalStep(values, attrs, f, x) = EvalStep(values, attrs, g, x)
      BY <3>1 DEF EvalStep
    <3> QED
      BY <3>2
  <2> HIDE DEF Step
  <2>4. Local(T, Step)
    BY <2>2, <2>3 DEF Local
  <2>5. {} \in T
    BY DEF T
  <2> QED
    BY <2>4, <2>5
<1>2. PICK f \in [Exprs -> T] : \A x \in Exprs : f[x] = Step[x][f]
  <2> HIDE DEF T, Step
  <2> QED
    BY <1>1, ExprRecursion
<1>3. \A g : IsEval(g) <=> g = [x \in Exprs |-> EvalStep(values, attrs, g, x)]
  BY DEF EvalStep, ArgsIn
<1>4. IsEval(f)
  <2>1. f = [x \in Exprs |-> EvalStep(values, attrs, f, x)]
    <3> HIDE DEF T
    <3> QED
      BY <1>2
  <2> HIDE DEF IsEval
  <2> QED
    BY <1>3, <2>1
<1>5. \A x : evalExpr(values, attrs, x) = eval[x]
  BY DEF evalExpr
<1> HIDE DEF IsEval
<1>6. IsEval(eval)
  BY <1>4
<1>7. \A x \in Exprs : eval[x] = EvalStep(values, attrs, eval, x)
  <2> HIDE DEF eval
  <2> QED
    BY <1>3, <1>6
<1> QED
  BY <1>5, <1>7, Zenon

MeanStep(values, f, e) ==
  IF e.type = "OP" THEN BoolV(Holds(e.op, ArgsIn(f, e)))
  ELSE IF e.type = "CONST" THEN e.cons
  ELSE values[e.attrRef]

LEMMA MeanIsStep ==
  ASSUME NEW values
  PROVE  \E mean : \A e \in Exprs : /\ Meaning(values, e) = mean[e]
                                    /\ mean[e] = MeanStep(values, mean, e)
<1> DEFINE T == {BoolV(TRUE), BoolV(FALSE)} \cup {x.cons : x \in Exprs}
                  \cup {values[x.attrRef] : x \in Exprs}
           Step == [x \in Exprs |-> [f \in [Exprs -> T] |-> MeanStep(values, f, x)]]
           IsMean(f) ==
             f = [e \in Exprs |->
                    IF e.type = "OP"
                    THEN BoolV(Holds(e.op, [i \in DOMAIN e.args |-> f[e.args[i]]]))
                    ELSE IF e.type = "CONST" THEN e.cons
                    ELSE values[e.attrRef]]
           mean == CHOOSE f : IsMean(f)
<1>1. T # {} /\ Local(T, Step)
  <2>1. ASSUME NEW x \in Exprs, NEW f \in [Exprs -> T]
        PROVE  MeanStep(values, f, x) \in T
    <3>1. BoolV(Holds(x.op, ArgsIn(f, x))) \in T
      BY BoolValues
    <3> QED
      BY <3>1, ExprCases DEF MeanStep
  <2>2. Step \in [Exprs -> [[Exprs -> T] -> T]]
    BY <2>1
  <2>3. ASSUME NEW x \in Exprs, NEW f \in [Exprs -> T], NEW g \in [Exprs -> T],
               \A a \in ArgsOf(x) : f[a] = g[a]
        PROVE  Step[x][f] = Step[x][g]
    <3>1. x.type = "OP" => ArgsIn(f, x) = ArgsIn(g, x)
      BY <2>3, ArgsInIs
    <3>2. MeanStep(values, f, x) = MeanStep(values, g, x)
      BY <3>1 DEF MeanStep
    <3> QED
      BY <3>2
  <2> HIDE DEF Step
  <2>4. Local(T, Step)
    BY <2>2, <2>3 DEF Local
  <2> QED
    BY <2>4
<1>2. PICK f \in [Exprs -> T] : \A x \in Exprs : f[x] = Step[x][f]
  <2> HIDE DEF T, Step
  <2> QED
    BY <1>1, ExprRecursion
<1>3. \A g : IsMean(g) <=> g = [x \in Exprs |-> MeanStep(values, g, x)]
  BY DEF MeanStep, ArgsIn
<1>4. IsMean(f)
  <2>1. f = [x \in Exprs |-> MeanStep(values, f, x)]
    <3> HIDE DEF T
    <3> QED
      BY <1>2
  <2> HIDE DEF IsMean
  <2> QED
    BY <1>3, <2>1
<1>5. \A x : Meaning(values, x) = mean[x]
  BY DEF Meaning
<1> HIDE DEF IsMean
<1>6. IsMean(mean)
  BY <1>4
<1>7. \A x \in Exprs : mean[x] = MeanStep(values, mean, x)
  <2> HIDE DEF mean
  <2> QED
    BY <1>3, <1>6
<1> QED
  BY <1>5, <1>7, Zenon

-----------------------------------------------------------------------------
(***************************************************************************)
(* What evalExpr gives for a well-typed expression: what it means; or, of  *)
(* Boolean type, also that Boolean without its type, or the end of the     *)
(* process.                                                                *)
(***************************************************************************)
LEMMA ValueForms ==
  /\ \A v \in Values :
       /\ v.dt \in DataTypes
       /\ v # Exit
       /\ v.dt = "BOOL" => v = BoolV(v.num = 1)
       /\ v.dt \in {"INT", "FLOAT"} => v.num \in Int /\ v.str = <<>>
       /\ v.dt = "STRING" => v.num = 0 /\ v.str \in Seq(Symbols)
  /\ \A b : /\ BoolV(b) \in Values
            /\ Untyped(b) \in Values
            /\ BoolV(b).dt = "BOOL"
            /\ Untyped(b).dt = "INT"
            /\ b => BoolV(b).num = 1
            /\ ~b => BoolV(b).num = 0
  /\ BoolV(TRUE) # BoolV(FALSE)
  /\ Untyped(TRUE) # Untyped(FALSE)
<1>1. \A v \in Values :
        /\ v.dt \in DataTypes
        /\ v.dt = "BOOL" => v = BoolV(v.num = 1)
        /\ v.dt \in {"INT", "FLOAT"} => v.num \in Int /\ v.str = <<>>
        /\ v.dt = "STRING" => v.num = 0 /\ v.str \in Seq(Symbols)
  BY DEF Values, DataTypes, BoolV
<1>2. \A b : /\ BoolV(b) \in Values
             /\ Untyped(b) \in Values
             /\ BoolV(b).dt = "BOOL"
             /\ Untyped(b).dt = "INT"
             /\ b => BoolV(b).num = 1
             /\ ~b => BoolV(b).num = 0
  BY DEF Values, BoolV, Untyped, IntV
<1>3. BoolV(TRUE) # BoolV(FALSE) /\ Untyped(TRUE) # Untyped(FALSE)
  BY DEF BoolV, Untyped, IntV
<1> QED
  BY <1>1, <1>2, <1>3, ExitAssumption

\* What an expression of Boolean type may give when it means m.
Loosely(m) == {Exit, m, Untyped(m.num = 1)}

LEMMA NotLoosely ==
  ASSUME NEW m \in Values, m.dt = "BOOL", NEW l \in Loosely(m) \ {Exit},
         NEW args, args[1] = m
  PROVE  /\ boolNot(l) \subseteq Loosely(BoolV(Holds("NOT", args)))
         /\ l = m => boolNot(l) = {BoolV(Holds("NOT", args))}
<1>1. Holds("NOT", args) <=> m.num = 0
  BY DEF Holds
<1>2. BoolV(Holds("NOT", args)) = BoolV(m.num = 0)
  BY <1>1, BoolValues
<1>3. boolNot(m) = {BoolV(m.num = 0)}
  BY DEF boolNot
<1>4. boolNot(Untyped(m.num = 1)) = {Exit}
  BY ValueForms DEF boolNot, Throws
<1> QED
  BY <1>2, <1>3, <1>4 DEF Loosely

LEMMA ConnectLoosely ==
  ASSUME NEW op \in {"AND", "OR"},
         NEW m \in Values, m.dt = "BOOL", NEW l \in Loosely(m) \ {Exit},
         NEW n \in Values, n.dt = "BOOL", NEW r \in Loosely(n) \ {Exit},
         NEW args, args[1] = m, args[2] = n
  PROVE  Apply(op, <<l, r>>) \subseteq Loosely(BoolV(Holds(op, args)))
<1>1. Apply(op, <<l, r>>) = IF op = "AND" THEN boolAnd(l, r) ELSE boolOr(l, r)
  BY DEF Apply
<1>2. CASE l = m /\ r = n
  <2> DEFINE b == IF op = "AND" THEN l.num = 1 /\ r.num = 1 ELSE l.num = 1 \/ r.num = 1
  <2>1. Apply(op, <<l, r>>) = {Untyped(b)}
    BY <1>1, <1>2 DEF boolAnd, boolOr
  <2>2. Holds(op, args) <=> b
    BY <1>2 DEF Holds
  <2> HIDE DEF b
  <2>3. BoolV(Holds(op, args)) = BoolV(b) /\ (BoolV(b).num = 1 <=> b)
    BY <2>2, BoolValues, ValueForms
  <2>4. Untyped(BoolV(b).num = 1) = Untyped(b)
    BY <2>3, BoolValues
  <2> QED
    BY <2>1, <2>3, <2>4 DEF Loosely
<1>3. CASE l # m \/ r # n
  <2>1. l.dt # "BOOL" \/ r.dt # "BOOL"
    BY <1>3, ValueForms DEF Loosely
  <2>2. boolAnd(l, r) = {Exit} /\ boolOr(l, r) = {Exit}
    BY <2>1 DEF boolAnd, boolOr, Throws
  <2> QED
    BY <1>1, <2>2 DEF Loosely
<1> QED
  BY <1>2, <1>3

LEMMA EqualLoosely ==
  ASSUME NEW m \in Values, NEW l \in Loosely(m) \ {Exit},
         NEW n \in Values, NEW r \in Loosely(n) \ {Exit},
         m.dt = n.dt, m.dt # "BOOL" => l = m /\ r = n,
         NEW args, args[1] = m, args[2] = n
  PROVE  /\ valueEquals(l, r) \subseteq Loosely(BoolV(Holds("EQUAL", args)))
         /\ l = m /\ r = n => valueEquals(l, r) = {BoolV(Holds("EQUAL", args))}
<1>1. Holds("EQUAL", args) <=> m = n
  BY DEF Holds
<1>2. BoolV(Holds("EQUAL", args)) = BoolV(m = n)
  BY <1>1, BoolValues
<1>3. CASE l = m /\ r = n
  BY <1>2, <1>3 DEF valueEquals, Loosely
<1>4. CASE ~(l = m /\ r = n)
  <2>1. m.dt = "BOOL" /\ n.dt = "BOOL"
    BY <1>4
  <2>2. CASE l.dt # r.dt
    BY <1>4, <2>2 DEF valueEquals, Loosely, Throws
  <2>3. CASE l.dt = r.dt
    <3>1. l = Untyped(m.num = 1) /\ r = Untyped(n.num = 1)
      BY <1>4, <2>1, <2>3, ValueForms DEF Loosely
    <3>2. l = r <=> (m.num = 1 <=> n.num = 1)
      BY <3>1, ValueForms, BoolValues
    <3>3. m = n <=> (m.num = 1 <=> n.num = 1)
      BY <2>1, ValueForms, BoolValues
    <3>4. BoolV(l = r) = BoolV(m = n)
      BY <3>2, <3>3, BoolValues
    <3> QED
      BY <1>2, <1>4, <2>3, <3>4 DEF valueEquals, Loosely
  <2> QED
    BY <2>2, <2>3
<1> QED
  BY <1>3, <1>4

LEMMA SmallerExactly ==
  ASSUME NEW m \in Values, NEW n \in Values, m.dt = n.dt, m.dt # "BOOL",
         NEW args, args[1] = m, args[2] = n
  PROVE  valueSmaller(m, n) = {BoolV(Holds("SMALLER", args))}
<1>1. Holds("SMALLER", args) <=> m.num < n.num \/ Before(m.str, n.str)
  BY DEF Holds
<1>2. CASE m.dt \in {"INT", "FLOAT"}
  <2>1. ~Before(m.str, n.str)
    BY <1>2, ValueForms DEF Before
  <2>2. BoolV(Holds("SMALLER", args)) = BoolV(m.num < n.num)
    BY <1>1, <2>1, BoolValues
  <2> QED
    BY <1>2, <2>2 DEF valueSmaller
<1>3. CASE m.dt = "STRING"
  <2>1. ~(m.num < n.num)
    <3>1. m.num = 0 /\ n.num = 0
      BY <1>3, ValueForms
    <3> QED
      BY <3>1
  <2>2. BoolV(Holds("SMALLER", args)) = BoolV(Before(m.str, n.str))
    BY <1>1, <2>1, BoolValues
  <2> QED
    BY <1>3, <2>2 DEF valueSmaller
<1> QED
  BY <1>2, <1>3, ValueForms DEF DataTypes
-----------------------------------------------------------------------------
\* The values of a record that fits its attributes, and of which no string
\* runs on behind its end.
Fitting(attrs, values, n) ==
  \A i \in 1..n : /\ values[i] \in Values
                  /\ values[i].dt = attrs[i].dataType
                  /\ getAttr(attrs[i], values[i]) = {values[i]}

\* A well-typed expression on attributes there are.
WellFormed(attrs, n, e) ==
  /\ \A p \in Parts(e) : p.type = "ATTRREF" => p.attrRef <= n
  /\ Uses(attrs, e, Binary \cup {"NOT"})
  /\ TypeOf(attrs, e) # "NONE"

Comparing(attrs, e) == Uses(attrs, e, {"NOT", "EQUAL", "SMALLER"})

\* What evalExpr gives for e, next to what e means.
Evaluated(attrs, values, e) ==
  LET m == Meaning(values, e)
      results == evalExpr(values, attrs, e)
  IN /\ m \in Values
     /\ m.dt = TypeOf(attrs, e)
     /\ results \subseteq Loosely(m)
     /\ m.dt # "BOOL" \/ Comparing(attrs, e) => results = {m}

LEMMA WellFormedArgs ==
  ASSUME NEW attrs, NEW n, NEW e \in Exprs, WellFormed(attrs, n, e)
  PROVE  /\ e.type = "OP" /\ e.op = "NOT" =>
              /\ e.args[1] \in ArgsOf(e)
              /\ WellFormed(attrs, n, e.args[1])
              /\ TypeOf(attrs, e.args[1]) = "BOOL"
              /\ TypeOf(attrs, e) = "BOOL"
         /\ e.type = "OP" /\ e.op \in Binary =>
              /\ e.args[1] \in ArgsOf(e) /\ e.args[2] \in ArgsOf(e)
              /\ WellFormed(attrs, n, e.args[1])
              /\ WellFormed(attrs, n, e.args[2])
              /\ TypeOf(attrs, e.args[1]) = TypeOf(attrs, e.args[2])
              /\ e.op \in {"AND", "OR"} => TypeOf(attrs, e.args[1]) = "BOOL"
              /\ e.op = "SMALLER" => TypeOf(attrs, e.args[1]) # "BOOL"
              /\ TypeOf(attrs, e) = "BOOL"
         /\ Comparing(attrs, e) => /\ e.type = "OP" => e.op \notin {"AND", "OR"}
                                   /\ \A a \in ArgsOf(e) : Comparing(attrs, a)
<1>1. e \in Parts(e) /\ \A a \in ArgsOf(e) : a \in Exprs /\ Parts(a) \subseteq Parts(e)
  BY PartsOfArgs, ArgsLower
<1>2. \A a \in ArgsOf(e) : /\ \A p \in Parts(a) : p.type = "ATTRREF" => p.attrRef <= n
                           /\ Uses(attrs, a, Binary \cup {"NOT"})
                           /\ Comparing(attrs, e) => Comparing(attrs, a)
  BY <1>1 DEF WellFormed, Uses, Comparing
<1>3. Comparing(attrs, e) /\ e.type = "OP" => e.op \notin {"AND", "OR"}
  BY <1>1 DEF Comparing, Uses
<1>4. e.type = "OP" /\ e.op = "SMALLER" => TypeOf(attrs, e.args[1]) # "BOOL"
  BY <1>1 DEF WellFormed, Uses
<1>5. PICK types : \A x \in Exprs : /\ TypeOf(attrs, x) = types[x]
                                    /\ types[x] = TypeStep(attrs, types, x)
  BY TypeIsStep
<1>6. CASE e.type = "OP" /\ e.op = "NOT"
  <2>1. e.args[1] \in ArgsOf(e) /\ e.args[1] \in Exprs
    BY <1>6, ExprCases DEF Binary
  <2>2. TypeOf(attrs, e) = IF TypeOf(attrs, e.args[1]) = "BOOL" THEN "BOOL" ELSE "NONE"
    BY <1>5, <1>6, <2>1, TypeStepIs
  <2>3. TypeOf(attrs, e.args[1]) = "BOOL" /\ TypeOf(attrs, e) = "BOOL"
    BY <2>2 DEF WellFormed
  <2> QED
    BY <1>2, <1>3, <1>6, <2>1, <2>3 DEF WellFormed, Binary
<1>7. CASE e.type = "OP" /\ e.op \in Binary
  <2>1. /\ e.args[1] \in ArgsOf(e) /\ e.args[1] \in Exprs
        /\ e.args[2] \in ArgsOf(e) /\ e.args[2] \in Exprs
    BY <1>7, ExprCases DEF Binary
  <2>2. CASE e.op \in {"AND", "OR"}
    <3>1. TypeOf(attrs, e) = IF /\ TypeOf(attrs, e.args[1]) = "BOOL"
                                /\ TypeOf(attrs, e.args[2]) = "BOOL"
                             THEN "BOOL" ELSE "NONE"
      BY <1>5, <1>7, <2>1, <2>2, TypeStepIs
    <3>2. /\ TypeOf(attrs, e.args[1]) = "BOOL"
          /\ TypeOf(attrs, e.args[2]) = "BOOL"
          /\ TypeOf(attrs, e) = "BOOL"
      BY <3>1 DEF WellFormed
    <3> QED
      BY <1>2, <1>3, <1>7, <2>1, <2>2, <3>2 DEF WellFormed, Binary
  <2>3. CASE e.op \in {"EQUAL", "SMALLER"}
    <3>1. TypeOf(attrs, e) = IF /\ TypeOf(attrs, e.args[1]) = TypeOf(attrs, e.args[2])
                                /\ TypeOf(attrs, e.args[1]) \in DataTypes
                             THEN "BOOL" ELSE "NONE"
      BY <1>5, <1>7, <2>1, <2>3, TypeStepIs
    <3>2. /\ TypeOf(attrs, e.args[1]) = TypeOf(attrs, e.args[2])
          /\ TypeOf(attrs, e.args[1]) \in DataTypes
          /\ TypeOf(attrs, e) = "BOOL"
      BY <3>1 DEF WellFormed
    <3>3. TypeOf(attrs, e.args[1]) # "NONE" /\ TypeOf(attrs, e.args[2]) # "NONE"
      BY <3>2 DEF DataTypes
    <3> QED
      BY <1>2, <1>3, <1>4, <1>7, <2>1, <2>3, <3>2, <3>3 DEF WellFormed, Binary
  <2> QED
    BY <1>7, <2>2, <2>3 DEF Binary
<1>8. CASE e.type # "OP"
  BY <1>2, <1>3, <1>8
<1> QED
  BY <1>6, <1>7, <1>8, ExprCases

\* evalExpr and Meaning of an expression from those of its arguments.
LEMMA LeafGives ==
  ASSUME NEW attrs, NEW values, NEW e \in Exprs
  PROVE  /\ e.type = "CONST" => /\ evalExpr(values, attrs, e) = {e.cons}
                                /\ Meaning(values, e) = e.cons
                                /\ TypeOf(attrs, e) = e.cons.dt
         /\ e.type = "ATTRREF" =>
              /\ evalExpr(values, attrs, e) = getAttr(attrs[e.attrRef], values[e.attrRef])
              /\ Meaning(values, e) = values[e.attrRef]
              /\ TypeOf(attrs, e) = attrs[e.attrRef].dataType
<1>1. PICK types : \A x \in Exprs : /\ TypeOf(attrs, x) = types[x]
                                    /\ types[x] = TypeStep(attrs, types, x)
  BY TypeIsStep
<1>2. PICK mean : \A x \in Exprs : /\ Meaning(values, x) = mean[x]
                                   /\ mean[x] = MeanStep(values, mean, x)
  BY MeanIsStep
<1>3. PICK eval : \A x \in Exprs : /\ evalExpr(values, attrs, x) = eval[x]
                                   /\ eval[x] = EvalStep(values, attrs, eval, x)
  BY EvalIsStep
<1> QED
  BY <1>1, <1>2, <1>3 DEF TypeStep, MeanStep, EvalStep

LEMMA OpMeans ==
  ASSUME NEW values, NEW e \in Exprs, e.type = "OP"
  PROVE  \E args : /\ args[1] = Meaning(values, e.args[1])
                   /\ e.op \in Binary => args[2] = Meaning(values, e.args[2])
                   /\ Meaning(values, e) = BoolV(Holds(e.op, args))
<1>1. PICK mean : \A x \in Exprs : /\ Meaning(values, x) = mean[x]
                                   /\ mean[x] = MeanStep(values, mean, x)
  BY MeanIsStep
<1>2. e.args[1] \in Exprs /\ (e.op \in Binary => e.args[2] \in Exprs)
  BY ExprCases DEF Binary
<1>3. /\ ArgsIn(mean, e)[1] = Meaning(values, e.args[1])
      /\ e.op \in Binary => ArgsIn(mean, e)[2] = Meaning(values, e.args[2])
      /\ Meaning(values, e) = BoolV(Holds(e.op, ArgsIn(mean, e)))
  BY <1>1, <1>2, ArgsInIs DEF MeanStep
<1> QED
  BY <1>3

LEMMA OpGives ==
  ASSUME NEW attrs, NEW values, NEW e \in Exprs, e.type = "OP"
  PROVE  Combines(evalExpr(values, attrs, e), e.op, evalExpr(values, attrs, e.args[1]),
                  IF e.op = "NOT" THEN evalExpr(values, attrs, e.args[1])
                                  ELSE evalExpr(values, attrs, e.args[2]))
<1>1. PICK eval : \A x \in Exprs : /\ evalExpr(values, attrs, x) = eval[x]
                                   /\ eval[x] = EvalStep(values, attrs, eval, x)
  BY EvalIsStep
<1>2. e.args[1] \in Exprs /\ (e.op # "NOT" => e.args[2] \in Exprs)
  BY ExprCases DEF Binary
<1>3. evalExpr(values, attrs, e) = Results(e.op, ArgsIn(eval, e))
  BY <1>1 DEF EvalStep
<1> QED
  BY <1>1, <1>2, <1>3, ResultsAre

LEMMA EvaluatedLeaf ==
  ASSUME NEW attrs, NEW values, NEW n \in Nat, Fitting(attrs, values, n),
         NEW e \in Exprs, e.type # "OP", WellFormed(attrs, n, e)
  PROVE  Evaluated(attrs, values, e)
<1>1. /\ Meaning(values, e) \in Values
      /\ Meaning(values, e).dt = TypeOf(attrs, e)
      /\ evalExpr(values, attrs, e) = {Meaning(values, e)}
  <2>1. CASE e.type = "CONST"
    BY <2>1, LeafGives, ExprCases
  <2>2. CASE e.type = "ATTRREF"
    <3>1. e.attrRef \in 1..n
      BY <2>2, ExprCases, PartsOfArgs DEF WellFormed
    <3> QED
      BY <2>2, <3>1, LeafGives DEF Fitting
  <2> QED
    BY <2>1, <2>2, ExprCases
<1> QED
  BY <1>1 DEF Evaluated, Loosely

LEMMA EvaluatedNot ==
  ASSUME NEW attrs, NEW values, NEW n \in Nat,
         NEW e \in Exprs, e.type = "OP", e.op = "NOT", WellFormed(attrs, n, e),
         Evaluated(attrs, values, e.args[1])
  PROVE  Evaluated(attrs, values, e)
<1> DEFINE a == e.args[1]
           m == Meaning(values, a)
           left == evalExpr(values, attrs, a)
<1>1. /\ TypeOf(attrs, a) = "BOOL" /\ TypeOf(attrs, e) = "BOOL"
      /\ Comparing(attrs, e) => Comparing(attrs, a)
  BY WellFormedArgs
<1>2. m \in Values /\ m.dt = "BOOL" /\ left \subseteq Loosely(m)
      /\ (Comparing(attrs, e) => left = {m})
  BY <1>1 DEF Evaluated
<1>3. PICK args : args[1] = m /\ Meaning(values, e) = BoolV(Holds("NOT", args))
  BY OpMeans
<1>4. Combines(evalExpr(values, attrs, e), e.op, left, left)
  BY OpGives
<1>5. \A l, r : Apply(e.op, <<l, r>>) = boolNot(l)
  BY DEF Apply
<1> HIDE DEF m, left, a
<1>6. \A l \in left \ {Exit} : /\ boolNot(l) \subseteq Loosely(Meaning(values, e))
                               /\ l = m => boolNot(l) = {Meaning(values, e)}
  BY <1>2, <1>3, NotLoosely
<1>7. evalExpr(values, attrs, e) \subseteq Loosely(Meaning(values, e))
  <2>1. Exit \in Loosely(Meaning(values, e))
    BY DEF Loosely
  <2> QED
    <3> SUFFICES ASSUME NEW v \in evalExpr(values, attrs, e), v # Exit
                 PROVE  v \in Loosely(Meaning(values, e))
      BY <2>1
    <3>1. PICK l \in left \ {Exit}, r \in left \ {Exit} : v \in Apply(e.op, <<l, r>>)
      BY <1>4 DEF Combines
    <3> QED
      BY <1>5, <1>6, <3>1
<1>8. ASSUME Comparing(attrs, e) PROVE evalExpr(values, attrs, e) = {Meaning(values, e)}
  <2>1. left = {m} /\ m # Exit
    BY <1>2, <1>8, ValueForms
  <2>2. boolNot(m) = {Meaning(values, e)} /\ m \in left \ {Exit}
    BY <1>6, <2>1
  <2>3. Meaning(values, e) # Exit
    BY <1>3, ValueForms
  <2>4. Apply(e.op, <<m, m>>) = {Meaning(values, e)}
    BY <1>5, <2>2
  <2> QED
    BY <1>4, <2>1, <2>2, <2>3, <2>4 DEF Combines
<1> QED
  BY <1>1, <1>3, <1>7, <1>8, ValueForms DEF Evaluated

LEMMA EvaluatedBinary ==
  ASSUME NEW attrs, NEW values, NEW n \in Nat,
         NEW e \in Exprs, e.type = "OP", e.op \in Binary, WellFormed(attrs, n, e),
         Evaluated(attrs, values, e.args[1]), Evaluated(attrs, values, e.args[2])
  PROVE  Evaluated(attrs, values, e)
<1> DEFINE a == e.args[1]
           b == e.args[2]
           ma == Meaning(values, a)
           mb == Meaning(values, b)
           left == evalExpr(values, attrs, a)
           right == evalExpr(values, attrs, b)
           mean == Meaning(values, e)
<1>1. /\ TypeOf(attrs, a) = TypeOf(attrs, b) /\ TypeOf(attrs, e) = "BOOL"
      /\ e.op \in {"AND", "OR"} => TypeOf(attrs, a) = "BOOL"
      /\ e.op = "SMALLER" => TypeOf(attrs, a) # "BOOL"
      /\ Comparing(attrs, e) => /\ Comparing(attrs, a) /\ Comparing(attrs, b)
                                /\ e.op \notin {"AND", "OR"}
  BY WellFormedArgs
<1>2. /\ ma \in Values /\ mb \in Values /\ ma.dt = mb.dt
      /\ left \subseteq Loosely(ma) /\ right \subseteq Loosely(mb)
      /\ Comparing(attrs, e) \/ ma.dt # "BOOL" => left = {ma} /\ right = {mb}
      /\ e.op \in {"AND", "OR"} => ma.dt = "BOOL"
      /\ e.op = "SMALLER" => ma.dt # "BOOL"
  BY <1>1 DEF Evaluated
<1>3. PICK args : args[1] = ma /\ args[2] = mb /\ mean = BoolV(Holds(e.op, args))
  BY OpMeans
<1>4. Combines(evalExpr(values, attrs, e), e.op, left, right)
  <2>1. e.op # "NOT"
    BY DEF Binary
  <2> QED
    BY <2>1, OpGives
<1> HIDE DEF a, b, ma, mb, left, right, mean
<1>5. ASSUME NEW l \in left \ {Exit}, NEW r \in right \ {Exit}
      PROVE  /\ Apply(e.op, <<l, r>>) \subseteq Loosely(mean)
             /\ Comparing(attrs, e) => Apply(e.op, <<l, r>>) = {mean}
  <2>1. l \in Loosely(ma) \ {Exit} /\ r \in Loosely(mb) \ {Exit}
    BY <1>2
  <2>2. mean \in Loosely(mean)
    BY DEF Loosely
  <2>3. CASE e.op \in {"AND", "OR"}
    BY <1>1, <1>2, <1>3, <2>1, <2>3, ConnectLoosely
  <2>4. CASE e.op = "EQUAL"
    <3>1. Apply(e.op, <<l, r>>) = valueEquals(l, r)
      BY <2>4 DEF Apply
    <3>2. Comparing(attrs, e) \/ ma.dt # "BOOL" => l = ma /\ r = mb
      BY <1>2
    <3> QED
      BY <1>2, <1>3, <2>1, <2>4, <3>1, <3>2, EqualLoosely
  <2>5. CASE e.op = "SMALLER"
    <3>1. Apply(e.op, <<l, r>>) = valueSmaller(l, r)
      BY <2>5 DEF Apply
    <3>2. l = ma /\ r = mb
      BY <1>2, <2>5
    <3>3. valueSmaller(ma, mb) = {mean}
      BY <1>2, <1>3, <2>5, SmallerExactly
    <3> QED
      BY <2>2, <3>1, <3>2, <3>3
  <2> QED
    BY <2>3, <2>4, <2>5 DEF Binary
<1>6. evalExpr(values, attrs, e) \subseteq Loosely(mean)
  <2>1. Exit \in Loosely(mean)
    BY DEF Loosely
  <2> QED
    BY <1>4, <1>5, <2>1 DEF Combines
<1>7. ASSUME Comparing(attrs, e) PROVE evalExpr(values, attrs, e) = {mean}
  <2>1. left = {ma} /\ right = {mb} /\ ma # Exit /\ mb # Exit
    BY <1>2, <1>7, ValueForms
  <2>2. Apply(e.op, <<ma, mb>>) = {mean} /\ mean # Exit
    BY <1>3, <1>5, <1>7, <2>1, ValueForms
  <2> QED
    BY <1>4, <2>1, <2>2 DEF Combines
<1>8. mean \in Values /\ mean.dt = "BOOL"
  BY <1>3, ValueForms
<1> QED
  BY <1>1, <1>6, <1>7, <1>8 DEF Evaluated, mean

LEMMA Evaluates ==
  ASSUME NEW attrs, NEW values, NEW n \in Nat, Fitting(attrs, values, n)
  PROVE  \A e \in Exprs : WellFormed(attrs, n, e) => Evaluated(attrs, values, e)
<1> DEFINE S == {e \in Exprs : WellFormed(attrs, n, e) => Evaluated(attrs, values, e)}
<1>1. ASSUME NEW e \in Exprs, ArgsOf(e) \subseteq S PROVE e \in S
  <2> SUFFICES ASSUME WellFormed(attrs, n, e) PROVE Evaluated(attrs, values, e)
    OBVIOUS
  <2>1. CASE e.type # "OP"
    BY <2>1, EvaluatedLeaf
  <2>2. CASE e.type = "OP" /\ e.op = "NOT"
    <3>1. Evaluated(attrs, values, e.args[1])
      BY <1>1, <2>2, WellFormedArgs
    <3> QED
      BY <2>2, <3>1, EvaluatedNot
  <2>3. CASE e.type = "OP" /\ e.op \in Binary
    <3>1. Evaluated(attrs, values, e.args[1]) /\ Evaluated(attrs, values, e.args[2])
      BY <1>1, <2>3, WellFormedArgs
    <3> QED
      BY <2>3, <3>1, EvaluatedBinary
  <2> QED
    BY <2>1, <2>2, <2>3, ExprCases
<1> HIDE DEF S
<1>2. Exprs \subseteq S
  BY <1>1, ExprInduction
<1> QED
  BY <1>2 DEF S

-----------------------------------------------------------------------------
(***************************************************************************)
(* strtok on a text: where a token begins and where it ends.               *)
(***************************************************************************)
LEMMA MinOf ==
  ASSUME NEW S \in SUBSET Nat, S # {}
  PROVE  Min(S) \in S /\ \A y \in S : Min(S) <= y
<1> DEFINE IsMin(z) == z \in S /\ \A y \in S : z <= y
<1>1. PICK x : IsMin(x)
  BY LeastNat
<1>2. Min(S) = CHOOSE z : IsMin(z)
  BY DEF Min
<1> HIDE DEF IsMin
<1>3. IsMin(Min(S))
  BY <1>1, <1>2
<1> QED
  BY <1>3 DEF IsMin

LEMMA NextAtIs ==
  ASSUME NEW t \in Seq(Symbols), NEW from \in Nat \ {0}, NEW symbols
  PROVE  LET i == NextAt(t, from, symbols) IN
         /\ i \in Nat \ {0}
         /\ i <= Len(t) + 1
         /\ i <= Len(t) => from <= i /\ t[i] \in symbols
         /\ \A j \in from..(i - 1) : t[j] \notin symbols
<1> DEFINE S == {i \in from..Len(t) : t[i] \in symbols} \cup {Len(t) + 1}
<1>1. S \in SUBSET Nat /\ S # {} /\ Len(t) \in Nat
  OBVIOUS
<1>2. NextAt(t, from, symbols) = Min(S)
  BY DEF NextAt
<1>3. /\ Min(S) \in S
      /\ \A y \in S : Min(S) <= y
  <2> HIDE DEF S
  <2> QED
    BY <1>1, MinOf
<1>4. \A j \in from..(Min(S) - 1) : j \in Nat /\ j <= Len(t) /\ j \notin S
  BY <1>1, <1>3
<1> QED
  BY <1>1, <1>2, <1>3, <1>4

\* A position is the next one when one of the symbols stands there, or the
\* text ends, and none before.
LEMMA NextAtUnique ==
  ASSUME NEW t \in Seq(Symbols), NEW from \in Nat \ {0}, NEW symbols,
         NEW i \in from..(Len(t) + 1), i <= Len(t) => t[i] \in symbols,
         \A j \in from..(i - 1) : t[j] \notin symbols
  PROVE  NextAt(t, from, symbols) = i
<1> DEFINE n == NextAt(t, from, symbols)
<1>1. /\ n \in Nat \ {0} /\ n <= Len(t) + 1
      /\ n <= Len(t) => from <= n /\ t[n] \in symbols
      /\ \A j \in from..(n - 1) : t[j] \notin symbols
  BY NextAtIs
<1> HIDE DEF n
<1>2. Len(t) \in Nat /\ i \in Nat
  OBVIOUS
<1>3. ~(n < i)
  BY <1>1, <1>2
<1>4. ~(i < n)
  BY <1>1, <1>2
<1>5. n = i
  BY <1>1, <1>2, <1>3, <1>4
<1> QED
  BY <1>5 DEF n

\* A token begins at the next symbol that is no delimiter and ends in front of
\* the next delimiter.
LEMMA StrtokIs ==
  ASSUME NEW t \in Seq(Symbols), NEW delims, NEW from \in Nat \ {0}
  PROVE  \E first, end \in Nat \ {0} :
           /\ strtok(t, from, delims) = [token |-> SubSeq(t, first, end - 1), saved |-> end + 1]
           /\ first = NextAt(t, from, Symbols \ delims)
           /\ end = NextAt(t, first, delims)
           /\ first <= end /\ end <= Len(t) + 1
           /\ \A i \in from..(first - 1) : t[i] \in delims
           /\ \A i \in first..(end - 1) : t[i] \notin delims
           /\ end <= Len(t) => t[end] \in delims
           /\ first <= Len(t) => from <= first /\ first < end
<1> DEFINE first == NextAt(t, from, Symbols \ delims)
           end == NextAt(t, first, delims)
<1>1. /\ first \in Nat \ {0} /\ first <= Len(t) + 1
      /\ first <= Len(t) => from <= first /\ t[first] \in Symbols \ delims
      /\ \A j \in from..(first - 1) : t[j] \notin Symbols \ delims
  BY NextAtIs
<1>2. /\ end \in Nat \ {0} /\ end <= Len(t) + 1
      /\ end <= Len(t) => first <= end /\ t[end] \in delims
      /\ \A j \in first..(end - 1) : t[j] \notin delims
  <2> HIDE DEF first
  <2> QED
    BY <1>1, NextAtIs
<1>3. strtok(t, from, delims) = [token |-> SubSeq(t, first, end - 1), saved |-> end + 1]
  BY DEF strtok
<1> HIDE DEF first, end
<1>4. Len(t) \in Nat /\ \A i \in 1..Len(t) : t[i] \in Symbols
  OBVIOUS
<1>5. first <= end
  BY <1>1, <1>2, <1>4
<1>6. first <= Len(t) => first < end
  BY <1>1, <1>2, <1>4, <1>5
<1>7. \A i \in from..(first - 1) : t[i] \in delims
  BY <1>1, <1>4
<1> QED
  BY <1>1, <1>2, <1>3, <1>5, <1>6, <1>7 DEF first, end

LEMMA StrtokTyped ==
  ASSUME NEW t \in Seq(Symbols), NEW delims, NEW from \in Nat \ {0}
  PROVE  /\ strtok(t, from, delims).token \in Seq(Symbols)
         /\ strtok(t, from, delims).saved \in Nat \ {0}
         /\ strtok(t, from, delims).saved <= Len(t) + 2
         /\ Len(strtok(t, from, delims).token) <= Len(t)
         /\ \A i \in DOMAIN strtok(t, from, delims).token :
              strtok(t, from, delims).token[i] \notin delims
         /\ strtok(t, from, delims).token = <<>>
              <=> \A i \in from..Len(t) : t[i] \in delims
<1> DEFINE r == strtok(t, from, delims)
<1>1. PICK first \in Nat \ {0}, end \in Nat \ {0} :
        /\ r = [token |-> SubSeq(t, first, end - 1), saved |-> end + 1]
        /\ first <= end /\ end <= Len(t) + 1
        /\ \A i \in from..(first - 1) : t[i] \in delims
        /\ \A i \in first..(end - 1) : t[i] \notin delims
        /\ first <= Len(t) => from <= first /\ first < end
  BY StrtokIs
<1> HIDE DEF r
<1> DEFINE token == SubSeq(t, first, end - 1)
<1>a. r.token = token /\ r.saved = end + 1
  BY <1>1
<1>2. /\ token \in Seq(Symbols)
      /\ Len(token) = end - first
      /\ \A k \in 1..(end - first) : token[k] = t[first + k - 1]
      /\ DOMAIN token = 1..Len(token)
      /\ Len(t) \in Nat
  BY <1>1
<1> HIDE DEF token
<1>3. \A k \in 1..(end - first) : first + k - 1 \in first..(end - 1)
  BY <1>1
<1>4. \A i \in DOMAIN token : token[i] \notin delims
  BY <1>1, <1>2, <1>3
<1>5. ASSUME first <= Len(t) PROVE token # <<>> /\ \E i \in from..Len(t) : t[i] \notin delims
  BY <1>1, <1>2, <1>5
<1>6. ASSUME ~(first <= Len(t)) PROVE token = <<>> /\ \A i \in from..Len(t) : t[i] \in delims
  BY <1>1, <1>2, <1>6
<1>7. token = <<>> <=> \A i \in from..Len(t) : t[i] \in delims
  BY <1>5, <1>6
<1>8. /\ r.token \in Seq(Symbols)
      /\ r.saved \in Nat \ {0}
      /\ r.saved <= Len(t) + 2
      /\ Len(r.token) <= Len(t)
      /\ \A i \in DOMAIN r.token : r.token[i] \notin delims
      /\ r.token = <<>> <=> \A i \in from..Len(t) : t[i] \in delims
  BY <1>a, <1>1, <1>2, <1>4, <1>7
<1> QED
  BY <1>8 DEF r

\* A token that begins at the latest at m ends at the latest in front of p.
LEMMA StrtokBound ==
  ASSUME NEW t \in Seq(Symbols), NEW delims, NEW from \in Nat \ {0},
         NEW m \in from..Len(t), t[m] \notin delims,
         NEW p \in m..Len(t), t[p] \in delims
  PROVE  /\ strtok(t, from, delims).token # <<>>
         /\ strtok(t, from, delims).saved \in Nat \ {0}
         /\ strtok(t, from, delims).saved <= p + 1
<1> DEFINE r == strtok(t, from, delims)
<1>1. PICK first \in Nat \ {0}, end \in Nat \ {0} :
        /\ r = [token |-> SubSeq(t, first, end - 1), saved |-> end + 1]
        /\ first <= end /\ end <= Len(t) + 1
        /\ \A i \in from..(first - 1) : t[i] \in delims
        /\ \A i \in first..(end - 1) : t[i] \notin delims
        /\ end <= Len(t) => t[end] \in delims
        /\ first <= Len(t) => from <= first /\ first < end
  BY StrtokIs
<1> HIDE DEF r
<1>2. Len(t) \in Nat /\ m \in Nat /\ p \in Nat /\ m <= Len(t) /\ p <= Len(t)
  OBVIOUS
<1>3. first <= m
  BY <1>1, <1>2
<1>4. end <= p
  <2> SUFFICES ASSUME p < end PROVE FALSE
    BY <1>1, <1>2
  <2>1. p \in first..(end - 1)
    BY <1>1, <1>2, <1>3
  <2> QED
    BY <1>1, <2>1
<1>5. r.saved = end + 1
  BY <1>1
<1>6. strtok(t, from, delims).token # <<>>
  BY <1>2, StrtokTyped
<1> QED
  BY <1>1, <1>2, <1>4, <1>5, <1>6 DEF r

\* A token that begins right away and ends in front of p.
LEMMA StrtokExact ==
  ASSUME NEW t \in Seq(Symbols), NEW delims, NEW from \in Nat \ {0},
         NEW p \in (from + 1)..Len(t), t[p] \in delims,
         \A i \in from..(p - 1) : t[i] \notin delims
  PROVE  /\ strtok(t, from, delims).token = SubSeq(t, from, p - 1)
         /\ strtok(t, from, delims).saved = p + 1
<1>1. Len(t) \in Nat /\ p \in Nat /\ from < p /\ p <= Len(t)
  OBVIOUS
<1>2. NextAt(t, from, Symbols \ delims) = from
  <2>1. from \in from..(Len(t) + 1) /\ from \in from..(p - 1) /\ t[from] \in Symbols
    BY <1>1
  <2>2. \A j \in from..(from - 1) : t[j] \notin Symbols \ delims
    BY <1>1
  <2> QED
    BY <2>1, <2>2, NextAtUnique
<1>3. NextAt(t, from, delims) = p
  <2>1. p \in from..(Len(t) + 1)
    BY <1>1
  <2> QED
    BY <2>1, NextAtUnique
<1> QED
  BY <1>2, <1>3 DEF strtok

\* A token of a text is one of any text that has a delimiter behind it.
LEMMA StrtokInside ==
  ASSUME NEW t \in Seq(Symbols), NEW u \in Seq(Symbols), NEW delims, NEW v \in Nat \ {0},
         v + Len(u) <= Len(t), t[v + Len(u)] \in delims,
         \A k \in 1..Len(u) : t[v + k - 1] = u[k],
         strtok(u, 1, delims).token # <<>>
  PROVE  LET inner == strtok(u, 1, delims)
             whole == strtok(t, v, delims)
         IN /\ whole.token = inner.token
            /\ whole.saved = v + inner.saved - 1
            /\ inner.saved \in Nat \ {0}
            /\ inner.saved <= Len(u) + 2
            /\ inner.saved < Len(u) + 2 => \E k \in 1..Len(u) : u[k] \in delims
            /\ Len(inner.token) <= Len(u)
            /\ (\A k \in 1..Len(u) : u[k] \notin delims) => inner.token = u
<1> DEFINE inner == strtok(u, 1, delims)
           whole == strtok(t, v, delims)
           one == 1
<1>0. one \in Nat \ {0} /\ inner = strtok(u, one, delims)
  OBVIOUS
<1> HIDE DEF inner, one
<1>1. PICK first \in Nat \ {0}, end \in Nat \ {0} :
        /\ inner = [token |-> SubSeq(u, first, end - 1), saved |-> end + 1]
        /\ first <= end /\ end <= Len(u) + 1
        /\ \A i \in one..(first - 1) : u[i] \in delims
        /\ \A i \in first..(end - 1) : u[i] \notin delims
        /\ end <= Len(u) => u[end] \in delims
        /\ first <= Len(u) => one <= first /\ first < end
  BY <1>0, StrtokIs
<1> USE DEF one
<1>2. \E i \in 1..Len(u) : u[i] \notin delims
  BY StrtokTyped
<1>3. Len(u) \in Nat /\ Len(t) \in Nat
  OBVIOUS
<1>4. first <= Len(u) /\ first < end
  BY <1>1, <1>2, <1>3
<1>5. \A i \in Nat : v <= i /\ i < v + Len(u) => t[i] = u[i - v + 1]
  <2> SUFFICES ASSUME NEW i \in Nat, v <= i, i < v + Len(u) PROVE t[i] = u[i - v + 1]
    OBVIOUS
  <2>1. i - v + 1 \in 1..Len(u) /\ v + (i - v + 1) - 1 = i
    BY <1>3
  <2> QED
    BY <2>1
<1> DEFINE f == v + first - 1
           e == v + end - 1
<1>b. f \in Nat \ {0} /\ f = v + first - 1 /\ e \in Nat \ {0} /\ e = v + end - 1
  BY <1>1, <1>3, <1>4
<1> HIDE DEF f, e
<1>6. NextAt(t, v, Symbols \ delims) = f
  <2>1. f \in v..(Len(t) + 1)
    BY <1>1, <1>3, <1>4, <1>b
  <2>2. u[first] \in Symbols \ delims
    BY <1>1, <1>3, <1>4
  <2>3. t[f] \in Symbols \ delims
    BY <1>1, <1>3, <1>4, <1>b, <2>2
  <2>4. \A j \in v..(f - 1) : t[j] \notin Symbols \ delims
    <3> SUFFICES ASSUME NEW j \in v..(f - 1) PROVE t[j] \in delims
      OBVIOUS
    <3>1. j \in Nat /\ v <= j /\ j < v + Len(u) /\ j - v + 1 \in 1..(first - 1)
      BY <1>1, <1>3, <1>4, <1>b
    <3> QED
      BY <1>1, <1>5, <3>1
  <2> QED
    BY <2>1, <2>3, <2>4, NextAtUnique
<1>7. NextAt(t, f, delims) = e
  <2>1. e \in f..(Len(t) + 1)
    BY <1>1, <1>3, <1>4, <1>b
  <2>2. t[e] \in delims
    <3>1. CASE end <= Len(u)
      BY <1>1, <1>3, <1>4, <1>b, <3>1
    <3>2. CASE end = Len(u) + 1
      BY <1>3, <1>b, <3>2
    <3> QED
      BY <1>1, <1>3, <3>1, <3>2
  <2>3. \A j \in f..(e - 1) : t[j] \notin delims
    <3> SUFFICES ASSUME NEW j \in f..(e - 1) PROVE t[j] \notin delims
      OBVIOUS
    <3>1. j \in Nat /\ v <= j /\ j < v + Len(u) /\ j - v + 1 \in first..(end - 1)
      BY <1>1, <1>3, <1>4, <1>b
    <3> QED
      BY <1>1, <1>5, <3>1
  <2> QED
    BY <1>b, <2>1, <2>2, <2>3, NextAtUnique
<1>8. whole = [token |-> SubSeq(t, f, e - 1), saved |-> e + 1]
  BY <1>6, <1>7 DEF strtok
<1> HIDE DEF whole
<1>9. SubSeq(t, f, e - 1) = SubSeq(u, first, end - 1)
  <2> DEFINE a == SubSeq(t, f, e - 1)
             b == SubSeq(u, first, end - 1)
  <2>1. /\ a \in Seq(Symbols) /\ Len(a) = end - first
        /\ \A k \in 1..(end - first) : a[k] = t[f + k - 1]
    <3>1. 1 <= f /\ f <= e /\ e - 1 <= Len(t) /\ (e - 1) - f + 1 = end - first
      BY <1>1, <1>3, <1>4, <1>b
    <3>2. \A i \in f..(e - 1) : t[i] \in Symbols
      BY <1>1, <1>3, <3>1, <1>b
    <3> QED
      BY <1>b, <1>3, <3>1, <3>2
  <2>2. /\ b \in Seq(Symbols) /\ Len(b) = end - first
        /\ \A k \in 1..(end - first) : b[k] = u[first + k - 1]
    BY <1>1, <1>3, <1>4
  <2>3. \A k \in 1..(end - first) : t[f + k - 1] = u[first + k - 1]
    <3> SUFFICES ASSUME NEW k \in 1..(end - first)
                 PROVE  t[f + k - 1] = u[first + k - 1]
      OBVIOUS
    <3>1. /\ f + k - 1 \in Nat
          /\ v <= f + k - 1 /\ f + k - 1 < v + Len(u)
          /\ (f + k - 1) - v + 1 = first + k - 1
      BY <1>1, <1>3, <1>4, <1>b
    <3> QED
      BY <1>5, <3>1
  <2> HIDE DEF a, b
  <2>4. \A k \in 1..Len(a) : a[k] = b[k]
    BY <2>1, <2>2, <2>3
  <2>5. a = b
    BY <2>1, <2>2, <2>4
  <2> QED
    BY <2>5 DEF a, b
<1>10. (\A k \in 1..Len(u) : u[k] \notin delims) => inner.token = u
  <2> SUFFICES ASSUME \A k \in 1..Len(u) : u[k] \notin delims PROVE inner.token = u
    OBVIOUS
  <2>1. first = 1
    <3> SUFFICES ASSUME 1 < first PROVE FALSE
      BY <1>1
    <3>1. 1 \in 1..(first - 1) /\ 1 \in 1..Len(u)
      BY <1>3, <1>4
    <3>2. u[1] \in delims
      BY <1>1, <3>1
    <3>3. u[1] \notin delims
      BY <3>1
    <3> QED
      BY <3>2, <3>3
  <2>2. end = Len(u) + 1
    <3>1. end <= Len(u) => end \in 1..Len(u)
      BY <1>1, <1>3, <1>4
    <3> QED
      BY <1>1, <1>3, <3>1
  <2>3. inner.token = SubSeq(u, 1, Len(u))
    BY <1>1, <1>3, <2>1, <2>2
  <2> QED
    BY <2>3, SubSeqFull
<1>11. /\ inner.token = SubSeq(u, first, end - 1)
       /\ inner.saved = end + 1
       /\ whole.token = SubSeq(u, first, end - 1)
       /\ whole.saved = v + end
  BY <1>1, <1>3, <1>8, <1>9, <1>b
<1>12. Len(SubSeq(u, first, end - 1)) = end - first
  BY <1>1, <1>3, <1>4
<1>13. /\ whole.token = inner.token
       /\ whole.saved = v + inner.saved - 1
       /\ inner.saved \in Nat \ {0}
       /\ inner.saved <= Len(u) + 2
       /\ inner.saved < Len(u) + 2 => \E k \in 1..Len(u) : u[k] \in delims
       /\ Len(inner.token) <= Len(u)
  BY <1>1, <1>3, <1>4, <1>11, <1>12
<1> QED
  BY <1>10, <1>13 DEF inner, whole

-----------------------------------------------------------------------------
(***************************************************************************)
(* Values and their texts.                                                 *)
(***************************************************************************)
\* Whole units of a number.
LEMMA DivTimes ==
  ASSUME NEW n \in Nat
  PROVE  /\ n \div One \in Nat
         /\ (n \div One) * One \in Nat
         /\ (n \div One) * One <= n
         /\ n * One \in Nat
         /\ (n * One) \div One = n
<1>1. n \div One \in Nat
  BY OneAssumption
<1>2. (n \div One) * One <= n /\ (n \div One) * One \in Nat
  BY OneAssumption, <1>1
<1>3. n * One \in Nat
  BY OneAssumption
<1>4. (n * One) \div One = n
  BY OneAssumption, <1>3
<1> QED
  BY <1>1, <1>2, <1>3, <1>4

\* What every attribute of a schema is, and a value at its place.
AttrTypes ==
  [name : Seq(Symbols \ Delimiters) \ {<<>>}, dataType : DataTypes, typeLength : Nat]

Storable(v, a) == v \in Values /\ Writable(v) /\ Fits(v, a)

\* setAttr makes a value that fits its attribute and can be written.
LEMMA SetAttrStorable ==
  ASSUME NEW a, a.dataType \in DataTypes, a.typeLength \in Nat,
         NEW v \in Values, Writable(v), v.dt = a.dataType
  PROVE  Storable(setAttr(a, v), a)
<1>1. CASE a.dataType # "STRING"
  BY <1>1 DEF setAttr, Storable, Fits
<1>2. CASE a.dataType = "STRING"
  <2> DEFINE n == IF Len(v.str) < a.typeLength THEN Len(v.str) ELSE a.typeLength
             s == SubSeq(v.str, 1, n)
  <2>1. v.str \in Seq(Symbols)
    BY <1>2, ValueForms
  <2>2. n \in Nat /\ n <= Len(v.str) /\ n <= a.typeLength
    BY <2>1
  <2> HIDE DEF n
  <2>3. s \in Seq(Symbols) /\ Len(s) = n
    BY <2>1, <2>2
  <2> HIDE DEF s
  <2>4. setAttr(a, v) = StringV(s)
    BY <1>2 DEF setAttr, s, n
  <2>5. StringV(s) \in Values /\ StringV(s).dt = "STRING" /\ StringV(s).str = s
    BY <2>3 DEF Values, StringV
  <2> QED
    BY <1>2, <2>2, <2>3, <2>4, <2>5 DEF Storable, Fits, Writable
<1> QED
  BY <1>1, <1>2

\* The number a numeral stands for.
LEMMA LeadingIs ==
  /\ \A t : Leading(t) \in DOMAIN Numeral /\ Leading(t) \in Nat
  /\ \A n \in DOMAIN Numeral : Leading(<<Numeral[n]>>) = n
<1>1. \A t : Leading(t) \in DOMAIN Numeral
  BY NumeralAssumption DEF Leading
<1>2. \A n \in DOMAIN Numeral : Leading(<<Numeral[n]>>) = n
  <2> SUFFICES ASSUME NEW n \in DOMAIN Numeral PROVE Leading(<<Numeral[n]>>) = n
    OBVIOUS
  <2>1. Head(<<Numeral[n]>>) = Numeral[n]
    OBVIOUS
  <2> QED
    BY <2>1, NumeralAssumption DEF Leading
<1> QED
  BY <1>1, <1>2, NumeralAssumption

\* The text of a number, read again.
LEMMA NumberTextIs ==
  ASSUME NEW v \in Values, Writable(v), v.dt \in {"INT", "FLOAT"}
  PROVE  \E n \in DOMAIN Numeral :
           /\ NumberText(v) = <<Numeral[n]>>
           /\ v.dt = "INT" => n = v.num * One
           /\ v.dt = "FLOAT" => n = (v.num + 5) \div 10
BY DEF NumberText, Writable

\* The text of a number or a Boolean is one symbol, at which nothing cuts.
LEMMA AttrTextIs ==
  ASSUME NEW v \in Values, Writable(v)
  PROVE  /\ AttrText(v) \in Seq(Symbols)
         /\ v.dt = "STRING" => AttrText(v) = v.str
         /\ v.dt # "STRING" => \E s \in Symbols \ Delimiters : AttrText(v) = <<s>>
<1>1. v.dt \in DataTypes
  BY ValueForms
<1>2. CASE v.dt = "STRING"
  BY <1>2, ValueForms DEF AttrText
<1>3. CASE v.dt = "BOOL"
  <2>1. \E s \in {"TRUE", "FALSE"} : AttrText(v) = <<s>>
    BY <1>3 DEF AttrText
  <2>2. {"TRUE", "FALSE"} \subseteq Symbols \ Delimiters
    BY TextAssumption DEF Delimiters
  <2> QED
    BY <1>3, <2>1, <2>2
<1>4. CASE v.dt \in {"INT", "FLOAT"}
  <2>1. AttrText(v) = NumberText(v)
    BY <1>4 DEF AttrText
  <2>2. PICK n \in DOMAIN Numeral : NumberText(v) = <<Numeral[n]>>
    BY <1>4, NumberTextIs
  <2>3. Numeral[n] \in Symbols \ Delimiters
    BY NumeralAssumption
  <2> QED
    BY <1>4, <2>1, <2>2, <2>3
<1> QED
  BY <1>1, <1>2, <1>3, <1>4 DEF DataTypes

\* What parseNext puts into the record can be written again.
LEMMA ParsedStorable ==
  ASSUME NEW type \in DataTypes, NEW token \in Seq(Symbols), token # <<>>
  PROVE  /\ ParsedValue(type, token) \in Values
         /\ Writable(ParsedValue(type, token))
         /\ ParsedValue(type, token).dt = type
<1> DEFINE n == Leading(token)
           v == ParsedValue(type, token)
<1>1. n \in DOMAIN Numeral /\ n \in Nat /\ 0..n \subseteq DOMAIN Numeral
  BY LeadingIs, NumeralAssumption
<1> HIDE DEF n
<1>2. CASE type = "INT"
  <2>1. v = IntV(n \div One)
    BY <1>2 DEF ParsedValue, n
  <2>2. n \div One \in Nat /\ (n \div One) * One \in 0..n
    BY <1>1, DivTimes
  <2> DEFINE m == n \div One
  <2> HIDE DEF m, v
  <2>3. v = IntV(m) /\ m \in Nat /\ m * One \in DOMAIN Numeral
    BY <1>1, <2>1, <2>2 DEF m
  <2>4. v \in Values /\ Writable(v) /\ v.dt = "INT"
    BY <2>3 DEF Values, IntV, Writable
  <2> QED
    BY <1>2, <2>4 DEF v
<1>3. CASE type = "FLOAT"
  <2>1. v = FloatV(10 * n)
    BY <1>3 DEF ParsedValue, n
  <2> HIDE DEF v
  <2>2. 10 * n \in Nat /\ (10 * n + 5) \div 10 = n
    BY <1>1
  <2>3. v \in Values /\ v.dt = "FLOAT" /\ v.num = 10 * n
    BY <2>1, <2>2 DEF Values, FloatV
  <2>4. Writable(v)
    BY <1>1, <2>2, <2>3 DEF Writable
  <2> QED
    BY <1>3, <2>3, <2>4 DEF v
<1>4. CASE type = "BOOL"
  <2>1. v = BoolV(Head(token) \in {"t", "true"})
    BY <1>4 DEF ParsedValue
  <2> HIDE DEF v
  <2>2. v \in Values /\ v.dt = "BOOL"
    BY <2>1, ValueForms
  <2> QED
    BY <1>4, <2>2 DEF v, Writable
<1>5. CASE type = "STRING"
  <2>1. v = StringV(token)
    BY <1>5 DEF ParsedValue
  <2> HIDE DEF v
  <2>2. v \in Values /\ v.dt = "STRING"
    BY <2>1 DEF Values, StringV
  <2> QED
    BY <1>5, <2>2 DEF v, Writable
<1> QED
  BY <1>2, <1>3, <1>4, <1>5 DEF DataTypes

\* What the text of a value that is no string gives back.
LEMMA ParsedText ==
  ASSUME NEW v \in Values, Writable(v), v.dt # "STRING"
  PROVE  ParsedValue(v.dt, AttrText(v))
           = CASE v.dt = "INT" -> v
               [] v.dt = "FLOAT" -> FloatV(10 * ((v.num + 5) \div 10))
               [] v.dt = "BOOL" -> BoolV(FALSE)
<1>1. v.dt \in DataTypes
  BY ValueForms
<1>2. CASE v.dt = "BOOL"
  <2>1. PICK s \in {"TRUE", "FALSE"} : AttrText(v) = <<s>>
    BY <1>2 DEF AttrText
  <2>a. Head(<<s>>) = s
    OBVIOUS
  <2>2. ~(Head(AttrText(v)) \in {"t", "true"})
    BY <2>1, <2>a
  <2> QED
    BY <1>2, <2>2 DEF ParsedValue, BoolV
<1>3. CASE v.dt \in {"INT", "FLOAT"}
  <2>1. AttrText(v) = NumberText(v)
    BY <1>3 DEF AttrText
  <2>2. PICK n \in DOMAIN Numeral : /\ NumberText(v) = <<Numeral[n]>>
                                    /\ v.dt = "INT" => n = v.num * One
                                    /\ v.dt = "FLOAT" => n = (v.num + 5) \div 10
    BY <1>3, NumberTextIs
  <2>3. Leading(AttrText(v)) = n
    BY <2>1, <2>2, LeadingIs
  <2>4. CASE v.dt = "INT"
    <3>1. v.num \in Nat
      BY <2>4 DEF Writable
    <3>2. n \div One = v.num
      BY <2>2, <2>4, <3>1, DivTimes
    <3>3. v = IntV(v.num)
      BY <2>4 DEF Values, IntV
    <3> QED
      BY <2>3, <2>4, <3>2, <3>3 DEF ParsedValue
  <2>5. CASE v.dt = "FLOAT"
    BY <2>2, <2>3, <2>5 DEF ParsedValue
  <2> QED
    BY <1>3, <2>4, <2>5
<1> QED
  BY <1>1, <1>2, <1>3 DEF DataTypes

\* The letter in front of a text, and the text.
LEMMA HeadTailOf ==
  ASSUME NEW x, NEW S, NEW s \in Seq(S)
  PROVE  /\ Head(<<x>> \o s) = x
         /\ Tail(<<x>> \o s) = s
         /\ Len(s) > 0 => (<<x>> \o s)[2] = s[1]
<1> DEFINE T == S \cup {x}
<1>1. s \in Seq(T) /\ <<x>> \in Seq(T)
  BY SeqMonotonic
<1> HIDE DEF T
<1> DEFINE t == <<x>> \o s
<1>2. t \in Seq(T) /\ Len(t) = 1 + Len(s) /\ t[1] = x /\ \A k \in 1..Len(s) : t[k + 1] = s[k]
  BY <1>1
<1> HIDE DEF t
<1>3. Tail(t) \in Seq(T) /\ Len(Tail(t)) = Len(s) /\ \A k \in 1..Len(s) : Tail(t)[k] = t[k + 1]
  BY <1>1, <1>2
<1>4. Tail(t) = s
  BY <1>1, <1>2, <1>3, SeqEqual
<1>5. Head(t) = x /\ (Len(s) > 0 => t[2] = s[1])
  BY <1>1, <1>2
<1> QED
  BY <1>4, <1>5 DEF t

\* serializeValue and then stringToValue, for one value.
LEMMA ReadBack ==
  ASSUME NEW v \in Values, Writable(v)
  PROVE  stringToValue(<<Letter(v)>> \o serializeValue(v))
           = IF v.dt = "FLOAT" THEN FloatV(10 * ((v.num + 5) \div 10)) ELSE v
<1> DEFINE t == <<Letter(v)>> \o serializeValue(v)
<1>1. v.dt \in DataTypes
  BY ValueForms
<1>2. CASE v.dt = "STRING"
  <2>1. v.str \in Seq(Symbols) /\ v = StringV(v.str)
    BY <1>2 DEF Values, StringV
  <2>2. serializeValue(v) = v.str /\ Letter(v) = "s"
    BY <1>2 DEF serializeValue, Letter
  <2>3. Head(t) = "s" /\ Tail(t) = v.str
    BY <2>1, <2>2, HeadTailOf
  <2> QED
    BY <1>2, <2>1, <2>3 DEF stringToValue
<1>3. CASE v.dt = "BOOL"
  <2> DEFINE s == IF v.num = 1 THEN "true" ELSE "false"
  <2>1. serializeValue(v) = <<s>> /\ Letter(v) = "b"
    BY <1>3 DEF serializeValue, Letter
  <2>4. (s \in {"t", "true"}) <=> v.num = 1
    OBVIOUS
  <2> HIDE DEF s
  <2>2. <<s>> \in Seq({s}) /\ Len(<<s>>) = 1 /\ <<s>>[1] = s
    OBVIOUS
  <2>3. Head(t) = "b" /\ t[2] = s
    BY <2>1, <2>2, HeadTailOf
  <2>5. stringToValue(t) = BoolV(v.num = 1)
    BY <2>3, <2>4 DEF stringToValue, BoolV
  <2> QED
    BY <1>3, <2>5, ValueForms
<1>4. CASE v.dt \in {"INT", "FLOAT"}
  <2>2. PICK n \in DOMAIN Numeral : /\ NumberText(v) = <<Numeral[n]>>
                                    /\ v.dt = "INT" => n = v.num * One
                                    /\ v.dt = "FLOAT" => n = (v.num + 5) \div 10
    BY <1>4, NumberTextIs
  <2>1. serializeValue(v) = <<Numeral[n]>> /\ Letter(v) = IF v.dt = "INT" THEN "i" ELSE "f"
    BY <1>4, <2>2 DEF serializeValue, Letter
  <2>3. Head(t) = Letter(v) /\ Tail(t) = <<Numeral[n]>>
    <3>1. <<Numeral[n]>> \in Seq(Symbols)
      BY NumeralAssumption
    <3> QED
      BY <2>1, <3>1, HeadTailOf
  <2>4. Leading(Tail(t)) = n
    BY <2>3, LeadingIs
  <2>5. CASE v.dt = "INT"
    <3>1. v.num \in Nat
      BY <2>5 DEF Writable
    <3>2. n \div One = v.num
      BY <2>2, <2>5, <3>1, DivTimes
    <3>3. v = IntV(v.num)
      BY <2>5 DEF Values, IntV
    <3> QED
      BY <2>1, <2>3, <2>4, <2>5, <3>2, <3>3 DEF stringToValue, atoi
  <2>6. CASE v.dt = "FLOAT"
    BY <2>1, <2>2, <2>3, <2>4, <2>6 DEF stringToValue
  <2> QED
    BY <1>4, <2>5, <2>6
<1> QED
  BY <1>1, <1>2, <1>3, <1>4 DEF DataTypes

-----------------------------------------------------------------------------
(***************************************************************************)
(* The inductive invariant: where the process is, what the record and the  *)
(* values read hold, how far the loops are, and where the last answer is   *)
(* from.                                                                   *)
(***************************************************************************)
\* A record has been begun on this table.
Begun == page # NULL \/ pc \in {"filling", "writing"}

Phase ==
  /\ pc \in Phases
  /\ pc # "start" => schema \in Schemas
  /\ pc \in {"start", "closed", "filling"} => page = NULL
  /\ pc \in {"reading", "read"} => page # NULL
  /\ Begun => SameAttrs
  /\ ~Begun => record = <<>> /\ out = <<>> /\ answer = NULL

Held(values, attrs) ==
  /\ values \in Seq(Values)
  /\ \A i \in 1..Len(values) : Storable(values[i], attrs[i])

Contents ==
  Begun =>
    /\ Held(record, rel.attrs) /\ Len(record) <= NumAttr
    /\ pc # "filling" => Len(record) = NumAttr
    /\ Held(out, rel.attrs) /\ Len(out) <= NumAttr
    /\ pc = "read" => Len(out) = NumAttr

Place ==
  /\ page # NULL => page \in Seq(Symbols)
  /\ text \in Seq(Symbols)
  /\ pc \in {"writing", "reading"} => attr \in 1..(NumAttr + 1)
  /\ pc = "reading" => saved \in 1..(Len(page) + 2) /\ Len(out) = attr - 1

Answered ==
  answer # NULL =>
    /\ pc \in {"open", "ended"}
    /\ page # NULL
    /\ Len(out) = NumAttr
    /\ answer.cond \in Conditions
    /\ \A e \in Parts(answer.cond) : e.type = "ATTRREF" => e.attrRef <= NumAttr
    /\ \E v \in evalExpr(out, rel.attrs, answer.cond) :
         answer.result = IF v = Exit THEN "ended"
                         ELSE IF Selects(v) THEN "returned" ELSE "skipped"

\* The attributes of an open table.
LEMMA AttrsTyped ==
  ASSUME schema \in Schemas, SameAttrs
  PROVE  /\ NumAttr = Len(schema.attrs)
         /\ NumAttr \in Nat
         /\ DOMAIN schema.attrs = 1..NumAttr
         /\ \A i \in 1..NumAttr :
              /\ rel.attrs[i] \in AttrTypes
              /\ schema.attrs[i] \in AttrTypes
              /\ rel.attrs[i].name = schema.attrs[i].name
              /\ rel.attrs[i].dataType = schema.attrs[i].dataType
              /\ rel.attrs[i].dataType = "STRING"
                   => rel.attrs[i].typeLength = schema.attrs[i].typeLength
<1> DEFINE s == schema.attrs
           r == rel.attrs
<1>1. s \in Seq(AttrTypes)
  BY SchemasAssumption DEF AttrTypes
<1>2. r = [i \in DOMAIN s |-> Opened(s[i])]
  BY DEF SameAttrs
<1> HIDE DEF s, r
<1>3. Len(s) \in Nat /\ DOMAIN s = 1..Len(s) /\ \A i \in 1..Len(s) : s[i] \in AttrTypes
  BY <1>1
<1>4. DOMAIN r = 1..Len(s) /\ \A i \in 1..Len(s) : r[i] = Opened(s[i])
  BY <1>2, <1>3
<1>5. Len(r) = Len(s)
  BY <1>2, <1>3
<1>6. ASSUME NEW a \in AttrTypes
      PROVE  /\ Opened(a) \in AttrTypes
             /\ Opened(a).name = a.name /\ Opened(a).dataType = a.dataType
             /\ a.dataType = "STRING" => Opened(a).typeLength = a.typeLength
  BY <1>6 DEF Opened, AttrTypes
<1>7. NumAttr = Len(r)
  BY DEF NumAttr, r
<1>8. \A i \in 1..Len(s) :
        /\ r[i] \in AttrTypes /\ s[i] \in AttrTypes
        /\ r[i].name = s[i].name /\ r[i].dataType = s[i].dataType
        /\ r[i].dataType = "STRING" => r[i].typeLength = s[i].typeLength
  BY <1>3, <1>4, <1>6
<1> QED
  BY <1>3, <1>5, <1>7, <1>8 DEF s, r

\* What fits an attribute fits the one it was opened as.
LEMMA StorableIn ==
  ASSUME NEW v, NEW a, NEW b, a.dataType = b.dataType,
         a.dataType = "STRING" => a.typeLength = b.typeLength, Storable(v, a)
  PROVE  Storable(v, b)
BY DEF Storable, Fits

\* One more value ...
LEMMA AppendHeld ==
  ASSUME NEW values, NEW attrs, NEW v, Held(values, attrs),
         Storable(v, attrs[Len(values) + 1])
  PROVE  Held(Append(values, v), attrs) /\ Len(Append(values, v)) = Len(values) + 1
<1>1. v \in Values /\ values \in Seq(Values)
  BY DEF Held, Storable
<1>2. /\ Append(values, v) \in Seq(Values)
      /\ Len(Append(values, v)) = Len(values) + 1
      /\ Append(values, v)[Len(values) + 1] = v
      /\ \A i \in 1..Len(values) : Append(values, v)[i] = values[i]
  BY <1>1, AppendProperties
<1>3. Len(values) \in Nat
  BY <1>1
<1> QED
  BY <1>2, <1>3 DEF Held

\* ... or another one.
LEMMA ExceptHeld ==
  ASSUME NEW values, NEW attrs, NEW v, Held(values, attrs), NEW i \in 1..Len(values),
         Storable(v, attrs[i])
  PROVE  Held([values EXCEPT ![i] = v], attrs) /\ Len([values EXCEPT ![i] = v]) = Len(values)
<1>1. v \in Values /\ values \in Seq(Values)
  BY DEF Held, Storable
<1>2. /\ [values EXCEPT ![i] = v] \in Seq(Values)
      /\ Len([values EXCEPT ![i] = v]) = Len(values)
      /\ \A j \in 1..Len(values) : [values EXCEPT ![i] = v][j] = IF j = i THEN v ELSE values[j]
  BY <1>1
<1> QED
  BY <1>2 DEF Held

-----------------------------------------------------------------------------
(*****************************************************************************)
(* The steps of the invariant that are about types and loops.                *)
(*****************************************************************************)
\* The symbols the serializer itself writes.
LEMMA DelimitersIn ==
  /\ " " \in Symbols /\ "(" \in Symbols /\ ")" \in Symbols /\ "," \in Symbols /\ ":" \in Symbols
  /\ Symbols \ Delimiters \subseteq Symbols
BY SymbolsAssumption DEF Delimiters

\* Texts of a few symbols.
LEMMA ShortTexts ==
  /\ <<>> \in Seq(Symbols)
  /\ \A x \in Symbols : <<x>> \in Seq(Symbols)
  /\ \A x, y, z \in Symbols : <<x, y, z>> \in Seq(Symbols)
OBVIOUS

\* The text of an attribute.
LEMMA SerializeAttrTyped ==
  ASSUME NEW a \in AttrTypes, NEW v \in Values, Writable(v)
  PROVE  serializeAttr(a, v) \in Seq(Symbols)
<1>1. a.name \in Seq(Symbols)
  BY DelimitersIn, SeqMonotonic DEF AttrTypes
<1>2. <<":">> \in Seq(Symbols)
  BY DelimitersIn, ShortTexts
<1>3. AttrText(v) \in Seq(Symbols)
  BY AttrTextIs
<1> QED
  BY <1>1, <1>2, <1>3 DEF serializeAttr

\* The beginning of a record.
LEMMA StartTyped == <<RID, " ", "(">> \in Seq(Symbols) /\ <<>> \in Seq(Symbols)
<1>1. RID \in Symbols /\ " " \in Symbols /\ "(" \in Symbols
  BY DelimitersIn, TextAssumption
<1> QED
  BY <1>1, ShortTexts

\* What a loop over the attributes has at hand.
LEMMA AtAttr ==
  ASSUME Phase, Contents, Begun, pc # "filling", NEW i \in 1..NumAttr
  PROVE  /\ NumAttr \in Nat
         /\ rel.attrs[i] \in AttrTypes
         /\ rel.attrs[i].dataType \in DataTypes
         /\ rel.attrs[i].typeLength \in Nat
         /\ record[i] \in Values /\ Writable(record[i]) /\ Fits(record[i], rel.attrs[i])
<1>1. NumAttr \in Nat /\ rel.attrs[i] \in AttrTypes
  BY AttrsTyped DEF Phase, Begun
<1>2. Storable(record[i], rel.attrs[i])
  BY DEF Contents, Held
<1> QED
  BY <1>1, <1>2 DEF AttrTypes, Storable

\* Every step leaves the texts, and the loops at an attribute of the record.
LEMMA PlaceStep ==
  ASSUME Phase, Contents, Place, Next
  PROVE  Place'
<1> USE DEF Place
<1>1. ASSUME NEW s \in Schemas, createTable(s) PROVE Place'
  BY <1>1 DEF createTable
<1>2. ASSUME NEW behind \in Heaps, openTable(behind) PROVE Place'
  BY <1>2 DEF openTable
<1>3. CASE createRecord
  BY <1>3 DEF createRecord
<1>4. ASSUME NEW v \in Literals, setNextAttr(v) PROVE Place'
  BY <1>4 DEF setNextAttr
<1>5. CASE insertRecord
  <2>1. NumAttr \in Nat
    BY <1>5, AttrsTyped DEF Phase, Begun, insertRecord
  <2>2. text' \in Seq(Symbols) /\ attr' = 1 /\ UNCHANGED <<rel, page>> /\ pc' = "writing"
    BY <1>5, StartTyped DEF insertRecord, StartWriting
  <2> QED
    BY <2>1, <2>2 DEF NumAttr
<1>6. ASSUME NEW v \in Literals, NEW i \in DOMAIN out, updateRecord(i, v) PROVE Place'
  <2>1. NumAttr \in Nat
    BY <1>6, AttrsTyped DEF Phase, Begun, updateRecord
  <2>2. text' \in Seq(Symbols) /\ attr' = 1 /\ UNCHANGED <<rel, page>> /\ pc' = "writing"
    BY <1>6, StartTyped DEF updateRecord, StartWriting
  <2> QED
    BY <2>1, <2>2 DEF NumAttr
<1>7. CASE serializeNext
  <2>0. Begun /\ pc = "writing" /\ NumAttr \in Nat
    BY <1>7, AttrsTyped DEF serializeNext, Begun, Phase
  <2>1. Begun /\ pc = "writing" /\ attr \in 1..NumAttr
    <3>1. attr <= NumAttr
      BY <1>7 DEF serializeNext
    <3>2. attr \in 1..(NumAttr + 1)
      BY <2>0
    <3> QED
      BY <2>0, <3>1, <3>2
  <2>2. NumAttr \in Nat /\ serializeAttr(rel.attrs[attr], record[attr]) \in Seq(Symbols)
    BY <2>1, AtAttr, SerializeAttrTyped
  <2>3. (IF attr = NumAttr THEN <<>> ELSE <<",">>) \in Seq(Symbols)
    BY DelimitersIn, ShortTexts
  <2>4. text' \in Seq(Symbols)
    <3> DEFINE one == serializeAttr(rel.attrs[attr], record[attr])
               two == IF attr = NumAttr THEN <<>> ELSE <<",">>
    <3>1. text' = text \o one \o two
      BY <1>7 DEF serializeNext
    <3>2. one \in Seq(Symbols) /\ two \in Seq(Symbols)
      BY <2>2, <2>3
    <3> HIDE DEF one, two
    <3> QED
      BY <3>1, <3>2
  <2>5. attr' = attr + 1 /\ UNCHANGED <<rel, page, pc>>
    BY <1>7 DEF serializeNext
  <2> QED
    BY <2>1, <2>2, <2>4, <2>5 DEF NumAttr
<1>8. CASE recordWritten
  <2>1. <<")">> \in Seq(Symbols)
    BY DelimitersIn, ShortTexts
  <2>2. page' \in Seq(Symbols)
    BY <1>8, <2>1 DEF recordWritten
  <2> QED
    BY <1>8, <2>2, StartTyped DEF recordWritten
<1>9. ASSUME NEW garbage \in Garbage, deleteRecord(garbage) PROVE Place'
  <2>1. <<"TOMBESTONED">> \in Seq(Symbols) /\ garbage \in Seq(Symbols)
    BY TextAssumption
  <2>2. page' \in Seq(Symbols)
    BY <1>9, <2>1 DEF deleteRecord
  <2> QED
    BY <1>9, <2>2 DEF deleteRecord
<1>10. CASE getRecord
  <2>1. page \in Seq(Symbols)
    BY <1>10 DEF getRecord
  <2>2. strtok(page, 1, {"("}).saved \in 1..(Len(page) + 2)
    BY <2>1, StrtokTyped
  <2>3. NumAttr \in Nat
    BY <1>10, AttrsTyped DEF Phase, Begun, getRecord
  <2>4. out' = <<>> /\ Len(<<>>) = 0
    BY <1>10 DEF getRecord, Forget
  <2> QED
    BY <1>10, <2>1, <2>2, <2>3, <2>4 DEF getRecord, NumAttr
<1>11. CASE parseNext
  <2>1. /\ page \in Seq(Symbols) /\ page # NULL /\ Begun /\ pc = "reading"
        /\ attr \in 1..NumAttr
        /\ saved \in 1..(Len(page) + 2)
    BY <1>11 DEF parseNext, Phase, Begun
  <2>2. NameToken(attr).saved \in Nat \ {0}
    BY <2>1, StrtokTyped DEF NameToken
  <2> DEFINE value == ValueToken(attr)
             a == rel.attrs[attr]
             v == setAttr(a, ParsedValue(a.dataType, value.token))
  <2>3. value.saved \in 1..(Len(page) + 2)
    BY <2>1, <2>2, StrtokTyped DEF ValueToken
  <2>4. Len(Append(out, v)) = Len(out) + 1
    <3>1. out \in Seq(Values)
      BY <2>1 DEF Contents, Held
    <3> HIDE DEF v
    <3> DEFINE S == Values \cup {v}
    <3>2. out \in Seq(S) /\ v \in S
      BY <3>1, SeqMonotonic
    <3> HIDE DEF S
    <3> QED
      BY <3>2
  <2>5. NumAttr \in Nat
    BY <2>1, AttrsTyped DEF Phase
  <2>6. CASE value.token # <<>>
    <3>1. /\ out' = Append(out, v) /\ saved' = value.saved /\ attr' = attr + 1
          /\ UNCHANGED <<pc, page, text, rel>>
      BY <1>11, <2>6 DEF parseNext
    <3> HIDE DEF v, value
    <3> QED
      BY <2>1, <2>3, <2>4, <2>5, <3>1 DEF NumAttr
  <2>7. CASE value.token = <<>>
    BY <1>11, <2>7 DEF parseNext
  <2> QED
    BY <2>6, <2>7
<1>12. CASE recordParsed
  BY <1>12 DEF recordParsed
<1>13. ASSUME NEW cond \in Conditions, next(cond) PROVE Place'
  BY <1>13 DEF next
<1> QED
  BY <1>1, <1>2, <1>3, <1>4, <1>5, <1>6, <1>7, <1>8, <1>9, <1>10, <1>11, <1>12, <1>13 DEF Next

\* Every step leads to a phase the process may be in.
LEMMA PhaseStep ==
  ASSUME Phase, Place, Place', Answered, Next
  PROVE  Phase'
<1> USE DEF Phase, Begun, Phases
<1>1. ASSUME NEW s \in Schemas, createTable(s) PROVE Phase'
  BY <1>1 DEF createTable
<1>2. ASSUME NEW behind \in Heaps, openTable(behind) PROVE Phase'
  BY <1>2 DEF openTable
<1>3. CASE createRecord
  BY <1>3 DEF createRecord, SameAttrs
<1>4. ASSUME NEW v \in Literals, setNextAttr(v) PROVE Phase'
  BY <1>4 DEF setNextAttr, SameAttrs
<1>5. CASE insertRecord
  BY <1>5 DEF insertRecord, StartWriting, SameAttrs
<1>6. ASSUME NEW v \in Literals, NEW i \in DOMAIN out, updateRecord(i, v) PROVE Phase'
  BY <1>6 DEF updateRecord, StartWriting, SameAttrs
<1>7. CASE serializeNext
  BY <1>7 DEF serializeNext, SameAttrs
<1>8. CASE recordWritten
  <2>1. page' # NULL
    <3>1. <<")">> \in Seq(Symbols)
      BY DelimitersIn, ShortTexts
    <3>2. page' \in Seq(Symbols)
      BY <1>8, <3>1 DEF recordWritten, Place
    <3> QED
      BY <3>2, NullAssumption
  <2> QED
    BY <1>8, <2>1 DEF recordWritten, SameAttrs
<1>9. ASSUME NEW garbage \in Garbage, deleteRecord(garbage) PROVE Phase'
  <2>1. page' # NULL
    <3>1. <<"TOMBESTONED">> \in Seq(Symbols) /\ garbage \in Seq(Symbols)
      BY TextAssumption
    <3>2. page' \in Seq(Symbols)
      BY <1>9, <3>1 DEF deleteRecord, Place
    <3> QED
      BY <3>2, NullAssumption
  <2> QED
    BY <1>9, <2>1 DEF deleteRecord, SameAttrs
<1>10. CASE getRecord
  BY <1>10 DEF getRecord, SameAttrs
<1>11. CASE parseNext
  BY <1>11 DEF parseNext, SameAttrs
<1>12. CASE recordParsed
  BY <1>12 DEF recordParsed, SameAttrs
<1>13. ASSUME NEW cond \in Conditions, next(cond) PROVE Phase'
  BY <1>13 DEF next, SameAttrs
<1> QED
  BY <1>1, <1>2, <1>3, <1>4, <1>5, <1>6, <1>7, <1>8, <1>9, <1>10, <1>11, <1>12, <1>13 DEF Next

\* No value.
LEMMA NothingHeld == \A attrs : Held(<<>>, attrs) /\ Len(<<>>) = 0
BY DEF Held

\* The token of a value and the value it is read as.
LEMMA ParsedAt ==
  ASSUME Phase, Contents, Place, pc = "reading", NEW i \in 1..NumAttr
  PROVE  /\ page \in Seq(Symbols)
         /\ NameToken(i).saved \in Nat \ {0}
         /\ ValueToken(i).token \in Seq(Symbols)
         /\ ValueToken(i).token # <<>>
              => Storable(setAttr(rel.attrs[i], ParsedValue(rel.attrs[i].dataType, ValueToken(i).token)),
                          rel.attrs[i])
<1>1. /\ page \in Seq(Symbols) /\ page # NULL /\ Begun
      /\ saved \in Nat \ {0}
  BY DEF Phase, Begun, Place
<1>2. NameToken(i).saved \in Nat \ {0}
  BY <1>1, StrtokTyped DEF NameToken
<1>3. ValueToken(i).token \in Seq(Symbols)
  BY <1>1, <1>2, StrtokTyped DEF ValueToken
<1>4. rel.attrs[i].dataType \in DataTypes /\ rel.attrs[i].typeLength \in Nat
  BY <1>1, AtAttr
<1>5. ASSUME ValueToken(i).token # <<>>
      PROVE  Storable(setAttr(rel.attrs[i],
                              ParsedValue(rel.attrs[i].dataType, ValueToken(i).token)), rel.attrs[i])
  <2> DEFINE v == ParsedValue(rel.attrs[i].dataType, ValueToken(i).token)
  <2>1. v \in Values /\ Writable(v) /\ v.dt = rel.attrs[i].dataType
    BY <1>3, <1>4, <1>5, ParsedStorable
  <2> HIDE DEF v
  <2>2. Storable(setAttr(rel.attrs[i], v), rel.attrs[i])
    BY <1>4, <2>1, SetAttrStorable
  <2> QED
    BY <2>2 DEF v
<1> QED
  BY <1>1, <1>2, <1>3, <1>5

\* Every step keeps the values within their attributes.
LEMMA ContentsStep ==
  ASSUME Phase, Phase', Contents, Place, Next
  PROVE  Contents'
<1>1. ASSUME NEW s \in Schemas, createTable(s) PROVE Contents'
  BY <1>1 DEF createTable, Contents, Phase, Begun
<1>2. ASSUME NEW behind \in Heaps, openTable(behind) PROVE Contents'
  BY <1>2 DEF openTable, Contents, Phase, Begun
<1>3. CASE createRecord
  <2>1. /\ record' = <<>> /\ out' = <<>> /\ pc' = "filling" /\ rel' = rel
        /\ schema \in Schemas /\ SameAttrs
    BY <1>3 DEF createRecord, Phase, Begun
  <2>2. NumAttr \in Nat
    BY <2>1, AttrsTyped
  <2>3. NumAttr' = NumAttr
    BY <2>1 DEF NumAttr
  <2> QED
    BY <2>1, <2>2, <2>3, NothingHeld DEF Contents
<1>4. ASSUME NEW v \in Literals, setNextAttr(v) PROVE Contents'
  <2> DEFINE k == Len(record) + 1
             w == setAttr(schema.attrs[k], v)
  <2>1. /\ pc = "filling" /\ pc' = "filling" /\ rel' = rel /\ out' = out
        /\ Len(record) < Len(schema.attrs)
        /\ v.dt = schema.attrs[k].dataType
        /\ record' = Append(record, w)
        /\ schema \in Schemas /\ SameAttrs /\ Begun
    BY <1>4 DEF setNextAttr, Phase, Begun
  <2>2. /\ Held(record, rel.attrs) /\ Len(record) <= NumAttr
        /\ Held(out, rel.attrs) /\ Len(out) <= NumAttr
    BY <2>1 DEF Contents
  <2>3. Len(record) \in Nat
    BY <2>2 DEF Held
  <2>4. NumAttr \in Nat /\ NumAttr = Len(schema.attrs) /\ k \in 1..NumAttr /\ NumAttr' = NumAttr
    BY <2>1, <2>3, AttrsTyped DEF NumAttr
  <2>5. /\ schema.attrs[k].dataType \in DataTypes /\ schema.attrs[k].typeLength \in Nat
        /\ rel.attrs[k].dataType = schema.attrs[k].dataType
        /\ schema.attrs[k].dataType = "STRING"
             => schema.attrs[k].typeLength = rel.attrs[k].typeLength
    BY <2>1, <2>4, AttrsTyped DEF AttrTypes
  <2>6. v \in Values /\ Writable(v)
    BY LiteralsAssumption
  <2>7. Storable(w, schema.attrs[k])
    BY <2>1, <2>5, <2>6, SetAttrStorable
  <2> HIDE DEF w
  <2>8. Storable(w, rel.attrs[k])
    BY <2>5, <2>7, StorableIn
  <2>9. Held(Append(record, w), rel.attrs) /\ Len(Append(record, w)) = Len(record) + 1
    BY <2>2, <2>8, AppendHeld
  <2> QED
    BY <2>1, <2>2, <2>3, <2>4, <2>9 DEF Contents
<1>5. CASE insertRecord
  <2>1. /\ pc = "filling" /\ pc' = "writing" /\ UNCHANGED <<record, rel, out>> /\ Begun
        /\ Len(record) = Len(schema.attrs)
        /\ schema \in Schemas /\ SameAttrs
    BY <1>5 DEF insertRecord, StartWriting, Phase, Begun
  <2>2. NumAttr = Len(schema.attrs) /\ NumAttr' = NumAttr
    BY <2>1, AttrsTyped DEF NumAttr
  <2> QED
    BY <2>1, <2>2 DEF Contents
<1>6. ASSUME NEW v \in Literals, NEW i \in DOMAIN out, updateRecord(i, v) PROVE Contents'
  <2> DEFINE w == setAttr(rel.attrs[i], v)
  <2>1. /\ pc = "read" /\ pc' = "writing" /\ rel' = rel /\ out' = <<>>
        /\ v.dt = rel.attrs[i].dataType
        /\ record' = [out EXCEPT ![i] = w]
        /\ Begun
    BY <1>6 DEF updateRecord, StartWriting, Forget, Phase, Begun
  <2>2. /\ Held(out, rel.attrs) /\ Len(out) = NumAttr
    BY <2>1 DEF Contents
  <2>3. out \in Seq(Values) /\ Len(out) \in Nat
    BY <2>2 DEF Held
  <2>4. i \in 1..Len(out) /\ i \in 1..NumAttr /\ NumAttr' = NumAttr /\ NumAttr \in Nat
    BY <2>1, <2>2, <2>3 DEF NumAttr
  <2>5. rel.attrs[i].dataType \in DataTypes /\ rel.attrs[i].typeLength \in Nat
    BY <2>1, <2>4, AtAttr
  <2>6. v \in Values /\ Writable(v)
    BY LiteralsAssumption
  <2>7. Storable(w, rel.attrs[i])
    BY <2>1, <2>5, <2>6, SetAttrStorable
  <2> HIDE DEF w
  <2>8. Held([out EXCEPT ![i] = w], rel.attrs) /\ Len([out EXCEPT ![i] = w]) = Len(out)
    BY <2>2, <2>4, <2>7, ExceptHeld
  <2> QED
    BY <2>1, <2>2, <2>4, <2>8, NothingHeld DEF Contents
<1>7. CASE serializeNext
  BY <1>7 DEF serializeNext, Contents, Begun, NumAttr
<1>8. CASE recordWritten
  BY <1>8 DEF recordWritten, Contents, Begun, NumAttr
<1>9. ASSUME NEW garbage \in Garbage, deleteRecord(garbage) PROVE Contents'
  <2>1. Begun /\ pc # "filling" /\ pc' = "open" /\ UNCHANGED <<rel, record>> /\ out' = <<>>
    BY <1>9 DEF deleteRecord, Ready, Forget, Begun
  <2>2. NumAttr' = NumAttr /\ NumAttr \in Nat
    BY <2>1, AttrsTyped DEF NumAttr, Phase, Begun
  <2> QED
    BY <2>1, <2>2, NothingHeld DEF Contents
<1>10. CASE getRecord
  <2>1. Begun /\ pc # "filling" /\ pc' = "reading" /\ UNCHANGED <<rel, record>> /\ out' = <<>>
    BY <1>10 DEF getRecord, Forget, Begun
  <2>2. NumAttr' = NumAttr /\ NumAttr \in Nat
    BY <2>1, AttrsTyped DEF NumAttr, Phase, Begun
  <2> QED
    BY <2>1, <2>2, NothingHeld DEF Contents
<1>11. CASE parseNext
  <2>1. /\ Begun /\ pc = "reading" /\ UNCHANGED <<rel, record, page>>
        /\ attr <= NumAttr /\ attr \in 1..(NumAttr + 1) /\ Len(out) = attr - 1
    BY <1>11 DEF parseNext, Phase, Begun, Place
  <2>2. NumAttr' = NumAttr /\ NumAttr \in Nat
    BY <2>1, AttrsTyped DEF NumAttr, Phase
  <2>3. attr \in 1..NumAttr
    BY <2>1, <2>2
  <2>4. /\ Held(record, rel.attrs) /\ Len(record) = NumAttr
        /\ Held(out, rel.attrs)
    BY <2>1 DEF Contents
  <2> DEFINE a == rel.attrs[attr]
             v == setAttr(a, ParsedValue(a.dataType, ValueToken(attr).token))
  <2>5. CASE ValueToken(attr).token # <<>>
    <3>1. Storable(v, rel.attrs[attr])
      BY <2>1, <2>3, <2>5, ParsedAt
    <3>2. out' = Append(out, v) /\ pc' = "reading"
      BY <1>11, <2>1, <2>5 DEF parseNext
    <3> HIDE DEF v
    <3>3. attr = Len(out) + 1
      BY <2>1, <2>3
    <3>4. Held(Append(out, v), rel.attrs) /\ Len(Append(out, v)) = Len(out) + 1
      BY <2>4, <3>1, <3>3, AppendHeld
    <3> QED
      BY <2>1, <2>2, <2>3, <2>4, <3>2, <3>3, <3>4 DEF Contents
  <2>6. CASE ValueToken(attr).token = <<>>
    <3>1. out' = out /\ pc' = "ended"
      BY <1>11, <2>6 DEF parseNext
    <3> QED
      BY <2>1, <2>2, <2>3, <2>4, <3>1 DEF Contents
  <2> QED
    BY <2>5, <2>6
<1>12. CASE recordParsed
  <2>1. /\ Begun /\ pc = "reading" /\ pc' = "read" /\ UNCHANGED <<rel, record, page, out>>
        /\ attr > NumAttr /\ attr \in 1..(NumAttr + 1) /\ Len(out) = attr - 1
    BY <1>12 DEF recordParsed, Phase, Begun, Place
  <2>2. NumAttr' = NumAttr /\ NumAttr \in Nat
    BY <2>1, AttrsTyped DEF NumAttr, Phase
  <2> QED
    BY <2>1, <2>2 DEF Contents
<1>13. ASSUME NEW cond \in Conditions, next(cond) PROVE Contents'
  <2>1. Begun /\ pc' \in {"open", "ended"} /\ UNCHANGED <<rel, record, page, out>> /\ pc # "filling"
    BY <1>13 DEF next, Phase, Begun
  <2> QED
    BY <2>1 DEF Contents, NumAttr
<1> QED
  BY <1>1, <1>2, <1>3, <1>4, <1>5, <1>6, <1>7, <1>8, <1>9, <1>10, <1>11, <1>12, <1>13 DEF Next

\* An answer comes from evalExpr on the values read, and is forgotten with them.
LEMMA AnsweredStep ==
  ASSUME Phase, Contents, Place, Answered, Next
  PROVE  Answered'
<1>1. CASE answer' = NULL
  BY <1>1 DEF Answered
<1>2. ASSUME NEW s \in Schemas, createTable(s) PROVE Answered'
  BY <1>2 DEF createTable, Phase, Begun, Answered
<1>3. ASSUME NEW behind \in Heaps, openTable(behind) PROVE Answered'
  BY <1>3 DEF openTable, Phase, Begun, Answered
<1>4. CASE createRecord
  BY <1>4 DEF createRecord, Phase, Begun, Answered
<1>5. ASSUME NEW v \in Literals, setNextAttr(v) PROVE Answered'
  BY <1>5 DEF setNextAttr, Phase, Answered
<1>6. CASE insertRecord
  BY <1>6 DEF insertRecord, StartWriting, Phase, Answered
<1>7. ASSUME NEW v \in Literals, NEW i \in DOMAIN out, updateRecord(i, v) PROVE Answered'
  BY <1>7, <1>1 DEF updateRecord, Forget
<1>8. CASE serializeNext
  BY <1>8 DEF serializeNext, Answered
<1>9. CASE recordWritten
  BY <1>9 DEF recordWritten, Answered
<1>10. ASSUME NEW garbage \in Garbage, deleteRecord(garbage) PROVE Answered'
  BY <1>10, <1>1 DEF deleteRecord, Forget
<1>11. CASE getRecord
  BY <1>11, <1>1 DEF getRecord, Forget
<1>12. CASE parseNext
  BY <1>12 DEF parseNext, Answered
<1>13. CASE recordParsed
  BY <1>13 DEF recordParsed, Answered
<1>14. ASSUME NEW cond \in Conditions, next(cond) PROVE Answered'
  <2>1. /\ pc = "read" /\ page # NULL /\ Begun
        /\ \A e \in Parts(cond) : e.type = "ATTRREF" => e.attrRef <= NumAttr
        /\ UNCHANGED <<rel, page, out>>
    BY <1>14 DEF next, Phase, Begun
  <2>2. Len(out) = NumAttr
    BY <2>1 DEF Contents
  <2>3. NumAttr' = NumAttr
    BY <2>1 DEF NumAttr
  <2>4. PICK v \in evalExpr(out, rel.attrs, cond) :
          \/ /\ v = Exit
             /\ pc' = "ended"
             /\ answer' = [cond |-> cond, result |-> "ended"]
          \/ /\ v # Exit
             /\ pc' = "open"
             /\ answer' = [cond |-> cond,
                           result |-> IF Selects(v) THEN "returned" ELSE "skipped"]
    BY <1>14 DEF next
  <2>5. /\ answer'.cond = cond
        /\ answer'.result = IF v = Exit THEN "ended"
                            ELSE IF Selects(v) THEN "returned" ELSE "skipped"
        /\ pc' \in {"open", "ended"}
    BY <2>4
  <2>6. evalExpr(out', rel'.attrs, answer'.cond) = evalExpr(out, rel.attrs, cond)
    BY <2>1, <2>5
  <2>7. Parts(answer'.cond) = Parts(cond)
    BY <2>5
  <2>8. \E w \in evalExpr(out', rel'.attrs, answer'.cond) :
          answer'.result = IF w = Exit THEN "ended"
                           ELSE IF Selects(w) THEN "returned" ELSE "skipped"
    BY <2>5, <2>6
  <2> QED
    BY <2>1, <2>2, <2>3, <2>5, <2>7, <2>8 DEF Answered
<1> QED
  BY <1>2, <1>3, <1>4, <1>5, <1>6, <1>7, <1>8, <1>9, <1>10, <1>11, <1>12, <1>13, <1>14 DEF Next

-----------------------------------------------------------------------------
(*****************************************************************************)
(* What the invariant says of the answers and of the values.                 *)
(*****************************************************************************)
\* What the last answer rests on.
LEMMA AnswerEvaluated ==
  ASSUME Phase, Contents, Answered, answer # NULL, Terminated,
         TypeOf(rel.attrs, answer.cond) = "BOOL",
         Uses(rel.attrs, answer.cond, Binary \cup {"NOT"})
  PROVE  /\ Evaluated(rel.attrs, out, answer.cond)
         /\ \E v \in evalExpr(out, rel.attrs, answer.cond) :
              answer.result = IF v = Exit THEN "ended"
                              ELSE IF Selects(v) THEN "returned" ELSE "skipped"
<1>1. /\ Begun
      /\ Len(out) = NumAttr
      /\ answer.cond \in Exprs
      /\ \A e \in Parts(answer.cond) : e.type = "ATTRREF" => e.attrRef <= NumAttr
      /\ \E v \in evalExpr(out, rel.attrs, answer.cond) :
           answer.result = IF v = Exit THEN "ended"
                           ELSE IF Selects(v) THEN "returned" ELSE "skipped"
  BY ConditionsAssumption DEF Answered, Begun
<1>2. Held(out, rel.attrs) /\ NumAttr \in Nat
  BY <1>1, AttrsTyped DEF Contents, Phase, Begun
<1>3. Fitting(rel.attrs, out, NumAttr)
  BY <1>1, <1>2 DEF Held, Storable, Fits, Fitting, Terminated, getAttr
<1>4. WellFormed(rel.attrs, NumAttr, answer.cond)
  BY <1>1 DEF WellFormed
<1>5. Evaluated(rel.attrs, out, answer.cond)
  BY <1>1, <1>2, <1>3, <1>4, Evaluates
<1> QED
  BY <1>1, <1>5

\* The values that select a record.
LEMMA SelectsTrue ==
  ASSUME NEW m \in Values, m.dt = "BOOL"
  PROVE  m # Exit /\ (Selects(m) <=> m = BoolV(TRUE))
<1>1. m # Exit /\ m = BoolV(m.num = 1)
  BY ValueForms
<1>2. BoolV(TRUE).num = 1
  BY DEF BoolV
<1> QED
  BY <1>1, <1>2 DEF Selects, BoolV

\* A condition of comparisons is decided by what it means.
LEMMA Decides ==
  ASSUME Phase, Contents, Answered
  PROVE  DecidesComparisons
<1> SUFFICES ASSUME answer # NULL, Terminated, TypeOf(rel.attrs, answer.cond) = "BOOL",
                    Uses(rel.attrs, answer.cond, {"NOT", "EQUAL", "SMALLER"})
             PROVE  answer.result = IF IsTrue(answer.cond) THEN "returned" ELSE "skipped"
  BY DEF DecidesComparisons
<1> DEFINE m == Meaning(out, answer.cond)
<1>1. Uses(rel.attrs, answer.cond, Binary \cup {"NOT"})
  BY DEF Uses, Binary
<1>2. PICK v \in evalExpr(out, rel.attrs, answer.cond) :
        answer.result = IF v = Exit THEN "ended"
                        ELSE IF Selects(v) THEN "returned" ELSE "skipped"
  BY <1>1, AnswerEvaluated
<1>3. Evaluated(rel.attrs, out, answer.cond)
  BY <1>1, AnswerEvaluated
<1>4. m \in Values /\ m.dt = "BOOL" /\ evalExpr(out, rel.attrs, answer.cond) = {m}
  BY <1>3 DEF Evaluated, Comparing
<1>5. v = m
  BY <1>2, <1>4
<1>6. IsTrue(answer.cond) <=> m = BoolV(TRUE)
  BY DEF IsTrue
<1> HIDE DEF m
<1> QED
  BY <1>2, <1>4, <1>5, <1>6, SelectsTrue

\* A record that is returned satisfies its condition.
LEMMA Satisfies ==
  ASSUME Phase, Contents, Answered
  PROVE  ReturnedSatisfies
<1> SUFFICES ASSUME answer # NULL, answer.result = "returned", Terminated,
                    TypeOf(rel.attrs, answer.cond) = "BOOL",
                    Uses(rel.attrs, answer.cond, Binary \cup {"NOT"})
             PROVE  IsTrue(answer.cond)
  BY DEF ReturnedSatisfies
<1> DEFINE m == Meaning(out, answer.cond)
<1>2. PICK v \in evalExpr(out, rel.attrs, answer.cond) :
        answer.result = IF v = Exit THEN "ended"
                        ELSE IF Selects(v) THEN "returned" ELSE "skipped"
  BY AnswerEvaluated
<1>3. Evaluated(rel.attrs, out, answer.cond)
  BY AnswerEvaluated
<1>4. m \in Values /\ m.dt = "BOOL" /\ v \in Loosely(m)
  BY <1>2, <1>3 DEF Evaluated
<1>5. v # Exit /\ Selects(v)
  BY <1>2
<1>6. Untyped(m.num = 1).dt = "INT"
  BY ValueForms
<1> HIDE DEF m
<1>7. v = m
  BY <1>4, <1>5, <1>6 DEF Loosely, Selects
<1>8. m = BoolV(TRUE)
  BY <1>4, <1>5, <1>7, SelectsTrue
<1> QED
  BY <1>8 DEF IsTrue, m

\* Every value of the record survives serializeValue and stringToValue.
LEMMA ValuesReadBack ==
  ASSUME Phase, Contents
  PROVE  ValueReadBack
<1> SUFFICES ASSUME NEW i \in DOMAIN record
             PROVE  stringToValue(<<Letter(record[i])>> \o serializeValue(record[i]))
                      = IF record[i].dt = "FLOAT"
                        THEN FloatV(10 * ((record[i].num + 5) \div 10)) ELSE record[i]
  BY DEF ValueReadBack, Stored
<1>1. Begun
  BY DEF Phase
<1>2. Held(record, rel.attrs)
  BY <1>1 DEF Contents
<1>3. i \in 1..Len(record)
  BY <1>2 DEF Held
<1>4. record[i] \in Values /\ Writable(record[i])
  BY <1>2, <1>3 DEF Held, Storable
<1> QED
  BY <1>4, ReadBack

-----------------------------------------------------------------------------
(***************************************************************************)
(* The text of a record: where each attribute begins in it.                *)
(***************************************************************************)
Name(i) == rel.attrs[i].name
Text(i) == AttrText(record[i])

\* Attribute i of the record stands at position `at'.
Written(t, at, i) ==
  /\ at + Len(Name(i)) + Len(Text(i)) <= Len(t)
  /\ \A k \in 1..Len(Name(i)) : t[at + k - 1] = Name(i)[k]
  /\ t[at + Len(Name(i))] = ":"
  /\ \A k \in 1..Len(Text(i)) : t[at + Len(Name(i)) + k] = Text(i)[k]

\* The first n attributes of the record begin at these positions.
LaidOut(t, starts, n) ==
  /\ starts \in [1..(n + 1) -> Nat \ {0}]
  /\ 3 < starts[1] /\ starts[1] <= Len(t) + 1
  /\ t[starts[1] - 3] = RID /\ t[starts[1] - 2] = " " /\ t[starts[1] - 1] = "("
  /\ \A i \in 1..n :
       /\ Written(t, starts[i], i)
       /\ starts[i + 1] = starts[i] + Len(Name(i)) + Len(Text(i)) + 2

\* What stands behind the attributes.
Separator(i) == IF i = NumAttr THEN ")" ELSE ","

Separated(t, starts, n) ==
  \A i \in 1..n : starts[i + 1] <= Len(t) + 1 /\ t[starts[i + 1] - 1] = Separator(i)

\* What serializeRecord has written so far.
TextLayout ==
  pc = "writing" =>
    \E starts :
      /\ LaidOut(text, starts, attr - 1)
      /\ Separated(text, starts, IF attr > NumAttr THEN attr - 2 ELSE attr - 1)
      /\ Len(text) = starts[attr] - (IF attr > NumAttr /\ NumAttr > 0 THEN 2 ELSE 1)

\* The parser is not past the beginning of the attribute it is to read next,
\* and meets no colon in front of it.
Following(starts) ==
  pc = "reading" =>
    /\ (\A i \in 1..NumAttr : ~Blank(i)) => saved <= starts[attr]
    /\ Legible /\ attr <= NumAttr => \A j \in saved..(starts[attr] - 1) : page[j] # ":"

PageLayout ==
  page # NULL /\ pc # "writing" =>
    \E starts : /\ LaidOut(page, starts, NumAttr)
                /\ Separated(page, starts, NumAttr)
                /\ Following(starts)

\* What the record parser makes of the text of a value: a Boolean it does not
\* know, a string it cuts.
AsRead(i) ==
  LET v == record[i] IN
  CASE v.dt = "INT" -> v
    [] v.dt = "FLOAT" -> FloatV(10 * ((v.num + 5) \div 10))
    [] v.dt = "BOOL" -> BoolV(FALSE)
    [] v.dt = "STRING" -> StringV(Cut(i))

Gathered ==
  pc = "reading" /\ Legible => \A i \in 1..(attr - 1) : out[i] = AsRead(i)

ReadsText ==
  pc = "read" /\ Legible => out = [i \in 1..NumAttr |-> AsRead(i)]

IInv ==
  /\ Phase /\ Contents /\ Place /\ Answered
  /\ TextLayout /\ PageLayout /\ Gathered
  /\ ReadsText /\ EndsOnlyOnBlank
-----------------------------------------------------------------------------
\* The name and the text of an attribute.
LEMMA TextsTyped ==
  ASSUME Phase, Contents, Begun, pc # "filling", NEW i \in 1..NumAttr
  PROVE  /\ NumAttr \in Nat
         /\ Name(i) \in Seq(Symbols) /\ Len(Name(i)) \in Nat \ {0}
         /\ \A k \in 1..Len(Name(i)) : Name(i)[k] \notin Delimiters
         /\ Text(i) \in Seq(Symbols) /\ Len(Text(i)) \in Nat
<1>1. rel.attrs[i] \in AttrTypes /\ NumAttr \in Nat /\ record[i] \in Values /\ Writable(record[i])
  BY AtAttr
<1>2. Name(i) \in Seq(Symbols \ Delimiters) /\ Name(i) # <<>>
  BY <1>1 DEF Name, AttrTypes
<1>3. Name(i) \in Seq(Symbols)
  BY <1>2, DelimitersIn, SeqMonotonic
<1>4. Len(Name(i)) \in Nat \ {0} /\ \A k \in 1..Len(Name(i)) : Name(i)[k] \notin Delimiters
  BY <1>2
<1>5. Text(i) \in Seq(Symbols)
  BY <1>1, AttrTextIs DEF Text
<1> QED
  BY <1>1, <1>3, <1>4, <1>5

\* What is written in a text is written in any text that holds it.
LEMMA WrittenShift ==
  ASSUME NEW t \in Seq(Symbols), NEW u \in Seq(Symbols), NEW d \in Nat,
         d + Len(t) <= Len(u), \A k \in 1..Len(t) : u[d + k] = t[k],
         NEW i, Len(Name(i)) \in Nat \ {0}, Len(Text(i)) \in Nat,
         NEW at \in Nat \ {0}, Written(t, at, i)
  PROVE  Written(u, d + at, i)
<1> DEFINE N == Len(Name(i))
           T == Len(Text(i))
<1>1. N \in Nat \ {0} /\ T \in Nat /\ Len(t) \in Nat /\ Len(u) \in Nat
  OBVIOUS
<1>2. /\ at + N + T <= Len(t)
      /\ \A k \in 1..N : t[at + k - 1] = Name(i)[k]
      /\ t[at + N] = ":"
      /\ \A k \in 1..T : t[at + N + k] = Text(i)[k]
  BY DEF Written
<1> HIDE DEF N, T
<1>3. \A p, q \in Nat : 1 <= p /\ p <= Len(t) /\ q = d + p => u[q] = t[p]
  BY <1>1
<1>4. (d + at) + N + T <= Len(u)
  BY <1>1, <1>2
<1>5. \A k \in 1..N : u[(d + at) + k - 1] = Name(i)[k]
  <2> SUFFICES ASSUME NEW k \in 1..N PROVE u[(d + at) + k - 1] = Name(i)[k]
    OBVIOUS
  <2>1. /\ at + k - 1 \in Nat /\ 1 <= at + k - 1 /\ at + k - 1 <= Len(t)
        /\ (d + at) + k - 1 \in Nat /\ (d + at) + k - 1 = d + (at + k - 1)
    BY <1>1, <1>2
  <2> QED
    BY <1>2, <1>3, <2>1
<1>6. u[(d + at) + N] = ":"
  <2>1. /\ at + N \in Nat /\ 1 <= at + N /\ at + N <= Len(t)
        /\ (d + at) + N \in Nat /\ (d + at) + N = d + (at + N)
    BY <1>1, <1>2
  <2> QED
    BY <1>2, <1>3, <2>1
<1>7. \A k \in 1..T : u[(d + at) + N + k] = Text(i)[k]
  <2> SUFFICES ASSUME NEW k \in 1..T PROVE u[(d + at) + N + k] = Text(i)[k]
    OBVIOUS
  <2>1. /\ at + N + k \in Nat /\ 1 <= at + N + k /\ at + N + k <= Len(t)
        /\ (d + at) + N + k \in Nat /\ (d + at) + N + k = d + (at + N + k)
    BY <1>1, <1>2
  <2> QED
    BY <1>2, <1>3, <2>1
<1> QED
  BY <1>4, <1>5, <1>6, <1>7 DEF Written, N, T

\* A record is laid out in any text that holds its text.
LEMMA Shifted ==
  ASSUME NEW t \in Seq(Symbols), NEW u \in Seq(Symbols), NEW d \in Nat,
         d + Len(t) <= Len(u), \A k \in 1..Len(t) : u[d + k] = t[k],
         NEW n \in Nat, NEW m \in Int, m <= n,
         \A i \in 1..n : Len(Name(i)) \in Nat \ {0} /\ Len(Text(i)) \in Nat,
         NEW starts, LaidOut(t, starts, n), Separated(t, starts, m)
  PROVE  LET moved == [i \in 1..(n + 1) |-> d + starts[i]] IN
         /\ LaidOut(u, moved, n)
         /\ Separated(u, moved, m)
<1> DEFINE moved == [i \in 1..(n + 1) |-> d + starts[i]]
<1>1. /\ starts \in [1..(n + 1) -> Nat \ {0}]
      /\ 3 < starts[1] /\ starts[1] <= Len(t) + 1
      /\ t[starts[1] - 3] = RID /\ t[starts[1] - 2] = " " /\ t[starts[1] - 1] = "("
      /\ \A i \in 1..n :
           /\ Written(t, starts[i], i)
           /\ starts[i + 1] = starts[i] + Len(Name(i)) + Len(Text(i)) + 2
  BY DEF LaidOut
<1>2. Len(t) \in Nat /\ Len(u) \in Nat
  OBVIOUS
<1>3. \A i \in 1..(n + 1) : moved[i] = d + starts[i] /\ starts[i] \in Nat \ {0}
  BY <1>1
<1>4. moved \in [1..(n + 1) -> Nat \ {0}]
  <2>1. \A i \in 1..(n + 1) : d + starts[i] \in Nat \ {0}
    BY <1>3
  <2> QED
    BY <2>1
<1> HIDE DEF moved
<1>5. \A p, q \in Nat : 1 <= p /\ p <= Len(t) /\ q = d + p => u[q] = t[p]
  BY <1>2
<1>6. 1 \in 1..(n + 1) /\ starts[1] \in Nat /\ moved[1] = d + starts[1]
  BY <1>3
<1> DEFINE p == starts[1]
           q == moved[1]
<1>7. p \in Nat /\ q = d + p /\ 3 < p /\ p <= Len(t) + 1
  BY <1>1, <1>6
<1>a. t[p - 3] = RID /\ t[p - 2] = " " /\ t[p - 1] = "("
  BY <1>1
<1>8. 3 < q /\ q <= Len(u) + 1 /\ u[q - 3] = RID /\ u[q - 2] = " " /\ u[q - 1] = "("
  <2> HIDE DEF p, q
  <2>1. /\ p - 3 \in Nat /\ 1 <= p - 3 /\ p - 3 <= Len(t)
        /\ q - 3 \in Nat /\ q - 3 = d + (p - 3)
    BY <1>2, <1>7
  <2>2. /\ p - 2 \in Nat /\ 1 <= p - 2 /\ p - 2 <= Len(t)
        /\ q - 2 \in Nat /\ q - 2 = d + (p - 2)
    BY <1>2, <1>7
  <2>3. /\ p - 1 \in Nat /\ 1 <= p - 1 /\ p - 1 <= Len(t)
        /\ q - 1 \in Nat /\ q - 1 = d + (p - 1)
    BY <1>2, <1>7
  <2>4. 3 < q /\ q <= Len(u) + 1
    BY <1>2, <1>7
  <2> QED
    BY <1>5, <1>a, <2>1, <2>2, <2>3, <2>4
<1>9. ASSUME NEW i \in 1..n
      PROVE  /\ Written(u, moved[i], i)
             /\ moved[i + 1] = moved[i] + Len(Name(i)) + Len(Text(i)) + 2
  <2>1. i \in 1..(n + 1) /\ i + 1 \in 1..(n + 1)
    OBVIOUS
  <2>2. Written(u, d + starts[i], i)
    BY <1>1, <1>3, <2>1, WrittenShift
  <2>3. moved[i] = d + starts[i] /\ moved[i + 1] = d + starts[i + 1] /\ starts[i] \in Nat
    BY <1>3, <2>1
  <2>4. starts[i + 1] = starts[i] + Len(Name(i)) + Len(Text(i)) + 2
    BY <1>1
  <2>5. Len(Name(i)) \in Nat /\ Len(Text(i)) \in Nat
    OBVIOUS
  <2> QED
    BY <2>2, <2>3, <2>4, <2>5
<1>10. LaidOut(u, moved, n)
  BY <1>4, <1>8, <1>9 DEF LaidOut
<1>11. ASSUME NEW i \in 1..m
       PROVE  moved[i + 1] <= Len(u) + 1 /\ u[moved[i + 1] - 1] = Separator(i)
  <2>1. i \in 1..n /\ i \in 1..(n + 1) /\ i + 1 \in 1..(n + 1)
    OBVIOUS
  <2>2. starts[i + 1] <= Len(t) + 1
    BY DEF Separated
  <2>a. t[starts[i + 1] - 1] = Separator(i)
    BY DEF Separated
  <2>3. starts[i + 1] = starts[i] + Len(Name(i)) + Len(Text(i)) + 2
    BY <1>1, <2>1
  <2>4. starts[i] \in Nat \ {0} /\ starts[i + 1] \in Nat /\ moved[i + 1] = d + starts[i + 1]
    BY <1>3, <2>1
  <2>5. Len(Name(i)) \in Nat \ {0} /\ Len(Text(i)) \in Nat
    BY <2>1
  <2> DEFINE x == starts[i]
             y == starts[i + 1]
             z == moved[i + 1]
             N == Len(Name(i))
             T == Len(Text(i))
  <2>b. /\ x \in Nat \ {0} /\ y \in Nat /\ z = d + y /\ N \in Nat /\ T \in Nat
        /\ y = x + N + T + 2 /\ y <= Len(t) + 1
    BY <2>2, <2>3, <2>4, <2>5
  <2> HIDE DEF x, y, z, N, T
  <2>c. /\ y - 1 \in Nat /\ 1 <= y - 1 /\ y - 1 <= Len(t)
        /\ z - 1 \in Nat /\ z - 1 = d + (y - 1)
        /\ z <= Len(u) + 1
    BY <1>2, <2>b
  <2>6. /\ starts[i + 1] - 1 \in Nat /\ 1 <= starts[i + 1] - 1 /\ starts[i + 1] - 1 <= Len(t)
        /\ moved[i + 1] - 1 \in Nat /\ moved[i + 1] - 1 = d + (starts[i + 1] - 1)
        /\ moved[i + 1] <= Len(u) + 1
    BY <2>c DEF y, z
  <2> QED
    BY <1>5, <2>a, <2>6
<1>12. Separated(u, moved, m)
  BY <1>11 DEF Separated
<1> QED
  BY <1>10, <1>12 DEF moved

\* Two texts, one behind the other.
LEMMA ConcatIs ==
  ASSUME NEW s \in Seq(Symbols), NEW t \in Seq(Symbols)
  PROVE  /\ s \o t \in Seq(Symbols)
         /\ Len(s \o t) = Len(s) + Len(t)
         /\ \A k \in 1..Len(s) : (s \o t)[k] = s[k]
         /\ \A k \in 1..Len(t) : (s \o t)[Len(s) + k] = t[k]
<1> DEFINE u == s \o t
<1>1. /\ u \in Seq(Symbols)
      /\ Len(u) = Len(s) + Len(t)
      /\ \A i \in 1..(Len(s) + Len(t)) : u[i] = IF i <= Len(s) THEN s[i] ELSE t[i - Len(s)]
  BY ConcatProperties
<1> HIDE DEF u
<1>2. Len(s) \in Nat /\ Len(t) \in Nat
  OBVIOUS
<1>3. \A k \in 1..Len(s) : u[k] = s[k]
  BY <1>1, <1>2
<1>4. ASSUME NEW k \in 1..Len(t) PROVE u[Len(s) + k] = t[k]
  <2>1. Len(s) + k \in 1..(Len(s) + Len(t)) /\ ~(Len(s) + k <= Len(s)) /\ (Len(s) + k) - Len(s) = k
    BY <1>2
  <2> QED
    BY <1>1, <2>1
<1> QED
  BY <1>1, <1>3, <1>4 DEF u

\* A text that goes on with the attribute and what separates it from the next.
Grown(u, t, i, sep) ==
  /\ u \in Seq(Symbols)
  /\ Len(u) = Len(t) + Len(Name(i)) + 1 + Len(Text(i)) + Len(sep)
  /\ \A k \in 1..Len(t) : u[k] = t[k]
  /\ Written(u, Len(t) + 1, i)
  /\ \A k \in 1..Len(sep) : u[Len(t) + Len(Name(i)) + 1 + Len(Text(i)) + k] = sep[k]

\* serializeAttr writes the attribute at the end of the text.
LEMMA WrittenAtEnd ==
  ASSUME NEW t \in Seq(Symbols), NEW i, Name(i) \in Seq(Symbols), Text(i) \in Seq(Symbols),
         NEW sep \in Seq(Symbols), NEW a, a = serializeAttr(rel.attrs[i], record[i]),
         NEW u, u = t \o a \o sep
  PROVE  Grown(u, t, i, sep)
<1> DEFINE name == Name(i)
           val == Text(i)
<1>1. a = name \o <<":">> \o val
  BY DEF serializeAttr, Name, Text
<1>2. name \in Seq(Symbols) /\ val \in Seq(Symbols) /\ <<":">> \in Seq(Symbols)
  BY DelimitersIn, ShortTexts
<1>c. Len(<<":">>) = 1 /\ <<":">>[1] = ":"
  OBVIOUS
<1> DEFINE colon == <<":">>
<1> HIDE DEF name, val, colon
<1>3. /\ a \in Seq(Symbols) /\ Len(a) = Len(name) + 1 + Len(val)
      /\ \A k \in 1..Len(name) : a[k] = name[k]
      /\ a[Len(name) + 1] = ":"
      /\ \A k \in 1..Len(val) : a[Len(name) + 1 + k] = val[k]
  <2> DEFINE b == name \o colon
  <2>a. a = b \o val /\ colon \in Seq(Symbols)
    BY <1>1, <1>2 DEF colon
  <2>b. Len(colon) = 1 /\ 1 \in 1..Len(colon) /\ colon[1] = ":"
    BY <1>c DEF colon
  <2>0. /\ b \in Seq(Symbols) /\ Len(b) = Len(name) + Len(colon)
        /\ \A k \in 1..Len(name) : b[k] = name[k]
        /\ \A k \in 1..Len(colon) : b[Len(name) + k] = colon[k]
    BY <1>2, <2>a, ConcatIs
  <2> HIDE DEF b
  <2>1. Len(b) = Len(name) + 1 /\ b[Len(name) + 1] = ":"
    BY <2>0, <2>b
  <2>c. b \in Seq(Symbols) /\ val \in Seq(Symbols)
    BY <1>2, <2>0
  <2> HIDE DEF b
  <2>2. /\ a \in Seq(Symbols) /\ Len(a) = Len(b) + Len(val)
        /\ \A k \in 1..Len(b) : a[k] = b[k]
        /\ \A k \in 1..Len(val) : a[Len(b) + k] = val[k]
    BY <2>a, <2>c, ConcatIs
  <2>3. Len(name) \in Nat /\ Len(val) \in Nat
    BY <1>2
  <2>4. \A k \in 1..Len(name) : a[k] = name[k]
    BY <2>0, <2>1, <2>2, <2>3
  <2>5. a[Len(name) + 1] = ":"
    BY <2>1, <2>2, <2>3
  <2> QED
    BY <2>1, <2>2, <2>3, <2>4, <2>5
<1>4. /\ u \in Seq(Symbols) /\ Len(u) = Len(t) + Len(a) + Len(sep)
      /\ \A k \in 1..Len(t) : u[k] = t[k]
      /\ \A k \in 1..Len(a) : u[Len(t) + k] = a[k]
      /\ \A k \in 1..Len(sep) : u[Len(t) + Len(a) + k] = sep[k]
  <2> DEFINE b == t \o a
  <2>1. /\ b \in Seq(Symbols) /\ Len(b) = Len(t) + Len(a)
        /\ \A k \in 1..Len(t) : b[k] = t[k]
        /\ \A k \in 1..Len(a) : b[Len(t) + k] = a[k]
    BY <1>3, ConcatIs
  <2>0. u = b \o sep
    OBVIOUS
  <2>a. b \in Seq(Symbols) /\ sep \in Seq(Symbols)
    BY <2>1
  <2> HIDE DEF b
  <2>2. /\ u \in Seq(Symbols) /\ Len(u) = Len(b) + Len(sep)
        /\ \A k \in 1..Len(b) : u[k] = b[k]
        /\ \A k \in 1..Len(sep) : u[Len(b) + k] = sep[k]
    BY <2>0, <2>a, ConcatIs
  <2>3. Len(t) \in Nat /\ Len(a) \in Nat /\ Len(sep) \in Nat
    BY <1>3
  <2>4. \A k \in 1..Len(t) : k \in 1..Len(b)
    BY <2>1, <2>3
  <2>5. \A k \in 1..Len(a) : Len(t) + k \in 1..Len(b)
    BY <2>1, <2>3
  <2> QED
    BY <2>1, <2>2, <2>4, <2>5
<1>5. Len(t) \in Nat /\ Len(name) \in Nat /\ Len(val) \in Nat /\ Len(sep) \in Nat
  BY <1>2
<1>6. \A q, k \in Nat : 1 <= k /\ k <= Len(a) /\ q = Len(t) + k => u[q] = a[k]
  BY <1>3, <1>4, <1>5
<1>7. \A k \in 1..Len(name) : u[(Len(t) + 1) + k - 1] = name[k]
  <2> SUFFICES ASSUME NEW k \in 1..Len(name) PROVE u[(Len(t) + 1) + k - 1] = name[k]
    OBVIOUS
  <2>1. k \in Nat /\ 1 <= k /\ k <= Len(a) /\ (Len(t) + 1) + k - 1 \in Nat
        /\ (Len(t) + 1) + k - 1 = Len(t) + k
    BY <1>3, <1>5
  <2> QED
    BY <1>3, <1>6, <2>1
<1>8. u[(Len(t) + 1) + Len(name)] = ":"
  <2>1. /\ Len(name) + 1 \in Nat /\ 1 <= Len(name) + 1 /\ Len(name) + 1 <= Len(a)
        /\ (Len(t) + 1) + Len(name) \in Nat
        /\ (Len(t) + 1) + Len(name) = Len(t) + (Len(name) + 1)
    BY <1>3, <1>5
  <2> QED
    BY <1>3, <1>6, <2>1
<1>9. \A k \in 1..Len(val) : u[(Len(t) + 1) + Len(name) + k] = val[k]
  <2> SUFFICES ASSUME NEW k \in 1..Len(val) PROVE u[(Len(t) + 1) + Len(name) + k] = val[k]
    OBVIOUS
  <2>1. /\ Len(name) + 1 + k \in Nat /\ 1 <= Len(name) + 1 + k /\ Len(name) + 1 + k <= Len(a)
        /\ (Len(t) + 1) + Len(name) + k \in Nat
        /\ (Len(t) + 1) + Len(name) + k = Len(t) + (Len(name) + 1 + k)
    BY <1>3, <1>5
  <2> QED
    BY <1>3, <1>6, <2>1
<1>10. Len(u) = Len(t) + Len(name) + 1 + Len(val) + Len(sep)
  BY <1>3, <1>4, <1>5
<1>11. (Len(t) + 1) + Len(name) + Len(val) <= Len(u)
  BY <1>5, <1>10
<1>12. Written(u, Len(t) + 1, i)
  BY <1>7, <1>8, <1>9, <1>11 DEF Written, name, val
<1>13. Len(a) = Len(name) + 1 + Len(val)
  BY <1>3
<1>14. \A k \in 1..Len(sep) : u[Len(t) + Len(name) + 1 + Len(val) + k] = sep[k]
  <2> SUFFICES ASSUME NEW k \in 1..Len(sep)
               PROVE  u[Len(t) + Len(name) + 1 + Len(val) + k] = sep[k]
    OBVIOUS
  <2>1. Len(t) + Len(a) + k = Len(t) + Len(name) + 1 + Len(val) + k
    BY <1>5, <1>13
  <2>2. u[Len(t) + Len(a) + k] = sep[k]
    BY <1>4
  <2> QED
    BY <2>1, <2>2
<1> QED
  BY <1>4, <1>10, <1>12, <1>14 DEF Grown, name, val

-----------------------------------------------------------------------------
(*****************************************************************************)
(* The parser on the text of a record: it starts in front of the first       *)
(* attribute, and goes from each attribute to the next.                      *)
(*****************************************************************************)
\* The places of an attribute in the text of its record, and what stands there.
LEMMA AttrPlaces ==
  ASSUME NEW t \in Seq(Symbols), NEW starts, NEW n \in Nat, NEW i \in 1..n,
         LaidOut(t, starts, n), Separated(t, starts, n),
         Len(Name(i)) \in Nat \ {0}, Len(Text(i)) \in Nat
  PROVE  LET at == starts[i]
             colon == at + Len(Name(i))
             end == colon + Len(Text(i)) + 1
         IN /\ at \in Nat \ {0}
            /\ at < colon /\ colon < end /\ end <= Len(t)
            /\ \A j \in at..(colon - 1) : t[j] = Name(i)[j - at + 1]
            /\ t[colon] = ":"
            /\ \A k \in 1..Len(Text(i)) : t[colon + 1 + k - 1] = Text(i)[k]
            /\ t[end] = Separator(i)
            /\ starts[i + 1] = end + 1
<1> DEFINE at == starts[i]
           N == Len(Name(i))
           T == Len(Text(i))
           nxt == starts[i + 1]
<1>1. /\ Written(t, at, i) /\ nxt = at + N + T + 2
      /\ at \in Nat \ {0}
  <2>1. starts \in [1..(n + 1) -> Nat \ {0}]
    BY DEF LaidOut
  <2>2. i \in 1..(n + 1)
    OBVIOUS
  <2>3. Written(t, starts[i], i) /\ starts[i + 1] = starts[i] + Len(Name(i)) + Len(Text(i)) + 2
    BY DEF LaidOut
  <2> QED
    BY <2>1, <2>2, <2>3
<1>2. N \in Nat \ {0} /\ T \in Nat /\ Len(t) \in Nat
  OBVIOUS
<1>3. nxt <= Len(t) + 1 /\ t[nxt - 1] = Separator(i)
  BY DEF Separated
<1>4. /\ \A k \in 1..N : t[at + k - 1] = Name(i)[k]
      /\ t[at + N] = ":"
      /\ \A k \in 1..T : t[at + N + k] = Text(i)[k]
  BY <1>1 DEF Written
<1>n. nxt = at + N + T + 2 /\ at \in Nat \ {0}
  BY <1>1
<1>m. nxt <= Len(t) + 1
  BY <1>3
<1> HIDE DEF at, N, T, nxt
<1>5. /\ at < at + N /\ at + N < at + N + T + 1 /\ at + N + T + 1 <= Len(t)
      /\ nxt = at + N + T + 1 + 1 /\ nxt - 1 = at + N + T + 1
  BY <1>n, <1>m, <1>2
<1>6. \A j \in at..(at + N - 1) : t[j] = Name(i)[j - at + 1]
  <2> SUFFICES ASSUME NEW j \in at..(at + N - 1) PROVE t[j] = Name(i)[j - at + 1]
    OBVIOUS
  <2>1. j - at + 1 \in 1..N /\ at + (j - at + 1) - 1 = j
    BY <1>n, <1>2
  <2> QED
    BY <1>4, <2>1
<1>7. \A k \in 1..T : t[at + N + 1 + k - 1] = Text(i)[k]
  <2> SUFFICES ASSUME NEW k \in 1..T PROVE t[at + N + 1 + k - 1] = Text(i)[k]
    OBVIOUS
  <2>1. at + N + 1 + k - 1 = at + N + k
    BY <1>n, <1>2
  <2> QED
    BY <1>4, <2>1
<1>8. t[at + N + T + 1] = Separator(i)
  BY <1>3, <1>5
<1>9. t[at + N] = ":"
  BY <1>4
<1> QED
  BY <1>n, <1>5, <1>6, <1>7, <1>8, <1>9 DEF at, N, T, nxt

\* The parser stops at what the serializer writes behind a value.
LEMMA SeparatorEnds ==
  \A i : /\ Separator(i) \in ValueEnd(i)
         /\ ValueEnd(i) \subseteq Delimiters
         /\ Separator(i) # ":"
BY DEF Separator, ValueEnd, Delimiters

\* A value that is not blank leaves the parser a token.
LEMMA NotBlank ==
  ASSUME NEW i, record[i] \in Values, Writable(record[i]), ~Blank(i)
  PROVE  strtok(Text(i), 1, ValueEnd(i)).token # <<>>
<1> DEFINE v == record[i]
<1>1. CASE v.dt = "STRING"
  <2>1. Text(i) = v.str
    BY <1>1, AttrTextIs DEF Text
  <2> QED
    BY <1>1, <2>1 DEF Blank, Cut
<1>2. CASE v.dt # "STRING"
  <2>1. PICK s \in Symbols \ Delimiters : Text(i) = <<s>>
    BY <1>2, AttrTextIs DEF Text
  <2>2. /\ Text(i) \in Seq(Symbols) /\ 1 \in 1..Len(Text(i)) /\ Text(i)[1] = s
    BY <2>1
  <2>3. Text(i)[1] \notin ValueEnd(i)
    BY <2>2, SeparatorEnds
  <2>4. 1 \in Nat \ {0}
    OBVIOUS
  <2>5. strtok(Text(i), 1, ValueEnd(i)).token = <<>>
          <=> \A k \in 1..Len(Text(i)) : Text(i)[k] \in ValueEnd(i)
    BY <2>2, <2>4, StrtokTyped
  <2> QED
    BY <2>2, <2>3, <2>5
<1> QED
  BY <1>1, <1>2

\* What parseNext makes of the token of a value.
LEMMA ParsedAsRead ==
  ASSUME NEW i, record[i] \in Values, Writable(record[i]), Fits(record[i], rel.attrs[i]),
         rel.attrs[i].typeLength \in Nat, ~Blank(i)
  PROVE  setAttr(rel.attrs[i],
                 ParsedValue(rel.attrs[i].dataType, strtok(Text(i), 1, ValueEnd(i)).token))
           = AsRead(i)
<1> DEFINE v == record[i]
           a == rel.attrs[i]
           token == strtok(Text(i), 1, ValueEnd(i)).token
<1>0. v.dt = a.dataType /\ v.dt \in DataTypes /\ (v.dt = "STRING" => Len(v.str) <= a.typeLength)
  BY ValueForms DEF Fits
<1>1. CASE v.dt = "STRING"
  <2>1. Text(i) = v.str /\ v.str \in Seq(Symbols)
    BY <1>1, AttrTextIs, ValueForms DEF Text
  <2>2. token = Cut(i)
    BY <2>1 DEF Cut
  <2> HIDE DEF token
  <2>3. Cut(i) \in Seq(Symbols) /\ Len(Cut(i)) <= Len(v.str)
    <3>1. 1 \in Nat \ {0}
      OBVIOUS
    <3> QED
      BY <2>1, <3>1, StrtokTyped DEF Cut
  <2> DEFINE c == Cut(i)
             n == IF Len(c) < a.typeLength THEN Len(c) ELSE a.typeLength
  <2>4. n = Len(c)
    BY <1>0, <1>1, <2>1, <2>3
  <2>5. SubSeq(c, 1, Len(c)) = c
    BY <2>3, SubSeqFull
  <2>6. setAttr(a, StringV(c)) = StringV(SubSeq(c, 1, n))
    BY <1>0, <1>1 DEF setAttr, StringV
  <2> HIDE DEF n
  <2>7. setAttr(a, StringV(c)) = StringV(c)
    BY <2>4, <2>5, <2>6
  <2>8. ParsedValue(a.dataType, token) = StringV(c)
    BY <1>0, <1>1, <2>2 DEF ParsedValue
  <2>9. AsRead(i) = StringV(c)
    BY <1>1 DEF AsRead
  <2> QED
    BY <2>7, <2>8, <2>9 DEF token
<1>2. CASE v.dt # "STRING"
  <2>1. PICK s \in Symbols \ Delimiters : Text(i) = <<s>>
    BY <1>2, AttrTextIs DEF Text
  <2>2. token = Text(i)
    <3> DEFINE t == Text(i)
    <3>1. /\ t \in Seq(Symbols) /\ Len(t) = 1 /\ t[1] = s /\ s \notin ValueEnd(i) /\ s \in Symbols
      BY <2>1, SeparatorEnds
    <3> HIDE DEF t
    <3>a. 1 \in Nat \ {0} /\ 1 \in 1..(Len(t) + 1) /\ 2 \in 1..(Len(t) + 1)
      BY <3>1
    <3>2. NextAt(t, 1, Symbols \ ValueEnd(i)) = 1
      <4>1. \A j \in 1..(1 - 1) : t[j] \notin Symbols \ ValueEnd(i)
        OBVIOUS
      <4> QED
        BY <3>1, <3>a, <4>1, NextAtUnique
    <3>3. NextAt(t, 1, ValueEnd(i)) = 2
      <4>1. \A j \in 1..(2 - 1) : t[j] \notin ValueEnd(i)
        BY <3>1
      <4>2. ~(2 <= Len(t))
        BY <3>1
      <4> QED
        BY <3>1, <3>a, <4>1, <4>2, NextAtUnique
    <3>4. strtok(t, 1, ValueEnd(i)).token = SubSeq(t, 1, 2 - 1)
      BY <3>2, <3>3 DEF strtok
    <3>5. SubSeq(t, 1, Len(t)) = t
      BY <3>1, SubSeqFull
    <3> QED
      BY <3>1, <3>4, <3>5 DEF t
  <2>3. ParsedValue(v.dt, token)
          = CASE v.dt = "INT" -> v
              [] v.dt = "FLOAT" -> FloatV(10 * ((v.num + 5) \div 10))
              [] v.dt = "BOOL" -> BoolV(FALSE)
    BY <1>2, <2>2, ParsedText DEF Text
  <2> HIDE DEF token
  <2>4. AsRead(i) = ParsedValue(v.dt, token)
    BY <1>0, <1>2, <2>3 DEF AsRead, DataTypes
  <2>5. setAttr(a, ParsedValue(a.dataType, token)) = ParsedValue(a.dataType, token)
    BY <1>0, <1>2 DEF setAttr
  <2> QED
    BY <1>0, <2>4, <2>5 DEF token
<1> QED
  BY <1>1, <1>2

Laid(starts) == LaidOut(page, starts, NumAttr) /\ Separated(page, starts, NumAttr)

\* Where getRecord begins.
LEMMA StartsAtFront ==
  ASSUME page \in Seq(Symbols), NEW starts, NumAttr \in Nat, Laid(starts)
  PROVE  LET from == strtok(page, 1, {"("}).saved IN
         /\ from \in Nat \ {0}
         /\ from <= starts[1]
         /\ CleanFront => \A j \in from..(starts[1] - 1) : page[j] # ":"
<1> DEFINE s == starts[1]
           from == strtok(page, 1, {"("}).saved
           one == 1
<1>l. LaidOut(page, starts, NumAttr)
  BY DEF Laid
<1>d. starts \in [1..(NumAttr + 1) -> Nat \ {0}]
  BY <1>l DEF LaidOut
<1>0. starts \in [1..(NumAttr + 1) -> Nat \ {0}] /\ 1 \in 1..(NumAttr + 1)
  BY <1>d
<1>c. 3 < s /\ s <= Len(page) + 1
  BY <1>l DEF LaidOut
<1>1. s \in Nat /\ 3 < s /\ s <= Len(page) + 1 /\ Len(page) \in Nat
  BY <1>0, <1>c
<1>2. page[s - 3] = RID /\ page[s - 2] = " " /\ page[s - 1] = "("
  BY <1>l DEF LaidOut
<1>a. one \in Nat \ {0} /\ from = strtok(page, one, {"("}).saved
  OBVIOUS
<1>b. one = 1
  OBVIOUS
<1> HIDE DEF s, from, one
<1>3. s - 3 \in one..Len(page) /\ s - 1 \in (s - 3)..Len(page) /\ (s - 1) + 1 = s
  BY <1>1, <1>b
<1>4. page[s - 3] \notin {"("} /\ page[s - 1] \in {"("}
  BY <1>2 DEF RID
<1>5. from \in Nat \ {0} /\ from <= s
  BY <1>a, <1>3, <1>4, StrtokBound
<1>6. ASSUME CleanFront, NEW j \in from..(s - 1) PROVE page[j] # ":"
  <2>1. j \in Nat /\ 1 <= j
    BY <1>1, <1>5
  <2>2. CASE j <= s - 3
    <3> DEFINE front == SubSeq(page, 1, s - 3)
    <3>1. s - 3 \in DOMAIN page
      BY <1>1
    <3>2. ":" \notin Range(front)
      BY <1>2, <1>6, <3>1 DEF CleanFront
    <3>3. j \in DOMAIN front /\ front[j] = page[j]
      BY <1>1, <2>1, <2>2
    <3> QED
      BY <3>2, <3>3 DEF Range
  <2>3. CASE j = s - 2
    BY <1>2, <2>3
  <2>4. CASE j = s - 1
    BY <1>2, <2>4
  <2> QED
    BY <1>1, <2>1, <2>2, <2>3, <2>4
<1> QED
  BY <1>5, <1>6 DEF s, from

\* What the loop of the parser is at: the attribute and its place in the page.
LEMMA AtPlace ==
  ASSUME Phase, Contents, Place, pc = "reading", attr <= NumAttr, NEW starts, Laid(starts)
  PROVE  LET at == starts[attr]
             colon == at + Len(Name(attr))
             end == colon + Len(Text(attr)) + 1
         IN /\ attr \in 1..NumAttr /\ NumAttr \in Nat
            /\ page \in Seq(Symbols) /\ Text(attr) \in Seq(Symbols)
            /\ saved \in Nat \ {0}
            /\ Len(page) \in Nat /\ Len(Text(attr)) \in Nat
            /\ at \in Nat \ {0} /\ colon \in Nat \ {0} /\ end \in Nat \ {0}
            /\ at < colon /\ colon < end /\ end <= Len(page)
            /\ \A j \in at..(colon - 1) : page[j] # ":"
            /\ page[colon] = ":"
            /\ \A k \in 1..Len(Text(attr)) : page[colon + 1 + k - 1] = Text(attr)[k]
            /\ page[end] = Separator(attr)
            /\ starts[attr + 1] = end + 1
<1> DEFINE at == starts[attr]
           colon == at + Len(Name(attr))
           end == colon + Len(Text(attr)) + 1
<1>1. Begun /\ page \in Seq(Symbols) /\ saved \in Nat \ {0} /\ attr \in 1..(NumAttr + 1)
  BY DEF Phase, Begun, Place
<1>2. NumAttr \in Nat
  BY <1>1, AttrsTyped DEF Phase
<1>3. attr \in 1..NumAttr
  BY <1>1, <1>2
<1>4. /\ Name(attr) \in Seq(Symbols) /\ Len(Name(attr)) \in Nat \ {0}
      /\ \A k \in 1..Len(Name(attr)) : Name(attr)[k] \notin Delimiters
      /\ Text(attr) \in Seq(Symbols) /\ Len(Text(attr)) \in Nat
  BY <1>1, <1>3, TextsTyped
<1>5. /\ at \in Nat \ {0}
      /\ at < colon /\ colon < end /\ end <= Len(page)
      /\ \A j \in at..(colon - 1) : page[j] = Name(attr)[j - at + 1]
      /\ page[colon] = ":"
      /\ \A k \in 1..Len(Text(attr)) : page[colon + 1 + k - 1] = Text(attr)[k]
      /\ page[end] = Separator(attr)
      /\ starts[attr + 1] = end + 1
  BY <1>1, <1>2, <1>3, <1>4, AttrPlaces DEF Laid
<1> DEFINE N == Len(Name(attr))
           T == Len(Text(attr))
<1>6. N \in Nat \ {0} /\ T \in Nat /\ at \in Nat \ {0} /\ colon = at + N /\ end = colon + T + 1
  BY <1>4, <1>5
<1>7. ASSUME NEW j \in at..(colon - 1) PROVE page[j] # ":"
  <2>1. page[j] = Name(attr)[j - at + 1]
    BY <1>5
  <2>2. j - at + 1 \in 1..N
    <3> HIDE DEF at, N, T
    <3> QED
      BY <1>6
  <2>3. Name(attr)[j - at + 1] \notin Delimiters
    BY <1>4, <2>2
  <2>4. ":" \in Delimiters
    BY DEF Delimiters
  <2> QED
    BY <2>1, <2>3, <2>4
<1>8. colon \in Nat \ {0} /\ end \in Nat \ {0} /\ Len(page) \in Nat
  <2>1. Len(page) \in Nat
    BY <1>1
  <2> HIDE DEF at, N, T
  <2> QED
    BY <1>6, <2>1
<1> HIDE DEF at, colon, end, N, T
<1>9. /\ attr \in 1..NumAttr /\ NumAttr \in Nat
      /\ page \in Seq(Symbols) /\ Text(attr) \in Seq(Symbols)
      /\ saved \in Nat \ {0}
      /\ Len(page) \in Nat /\ Len(Text(attr)) \in Nat
      /\ at \in Nat \ {0} /\ colon \in Nat \ {0} /\ end \in Nat \ {0}
      /\ at < colon /\ colon < end /\ end <= Len(page)
      /\ \A j \in at..(colon - 1) : page[j] # ":"
      /\ page[colon] = ":"
      /\ \A k \in 1..Len(Text(attr)) : page[colon + 1 + k - 1] = Text(attr)[k]
      /\ page[end] = Separator(attr)
      /\ starts[attr + 1] = end + 1
  BY <1>1, <1>2, <1>3, <1>4, <1>5, <1>7, <1>8
<1> QED
  BY <1>9 DEF at, colon, end

\* The parser does not run past the next attribute, unless a value is blank.
LEMMA NotPast ==
  ASSUME Phase, Contents, Place, pc = "reading", attr <= NumAttr, NEW starts, Laid(starts),
         saved <= starts[attr], ~Blank(attr)
  PROVE  /\ ValueToken(attr).token # <<>>
         /\ ValueToken(attr).saved <= starts[attr + 1]
<1> DEFINE at == starts[attr]
           colon == at + Len(Name(attr))
           end == colon + Len(Text(attr)) + 1
           u == Text(attr)
           from == NameToken(attr).saved
<1>1. /\ attr \in 1..NumAttr /\ NumAttr \in Nat
      /\ page \in Seq(Symbols) /\ u \in Seq(Symbols)
      /\ saved \in Nat \ {0}
      /\ Len(page) \in Nat /\ Len(u) \in Nat
      /\ at \in Nat \ {0} /\ colon \in Nat \ {0} /\ end \in Nat \ {0}
      /\ at < colon /\ colon < end /\ end <= Len(page)
  BY AtPlace
<1>2. /\ \A j \in at..(colon - 1) : page[j] # ":"
      /\ page[colon] = ":"
      /\ \A k \in 1..Len(u) : page[colon + 1 + k - 1] = u[k]
      /\ page[end] = Separator(attr)
      /\ starts[attr + 1] = end + 1
  BY AtPlace
<1>e. end = colon + Len(u) + 1 /\ saved <= at
  OBVIOUS
<1>f. Begun /\ pc # "filling"
  BY DEF Phase, Begun
<1>3. strtok(u, 1, ValueEnd(attr)).token # <<>>
  BY <1>1, <1>f, AtAttr, NotBlank
<1>4. PICK k \in 1..Len(u) : u[k] \notin ValueEnd(attr)
  <2>1. 1 \in Nat \ {0}
    OBVIOUS
  <2>2. strtok(u, 1, ValueEnd(attr)).token = <<>>
          <=> \A k \in 1..Len(u) : u[k] \in ValueEnd(attr)
    BY <1>1, <2>1, StrtokTyped
  <2> QED
    BY <1>3, <2>2
<1> HIDE DEF at, colon, end, u
<1>5. /\ from \in Nat \ {0} /\ from <= colon + 1
  <2>1. at \in saved..Len(page) /\ colon \in at..Len(page) /\ at \in at..(colon - 1)
    BY <1>1, <1>e
  <2>2. page[at] \notin {":"} /\ page[colon] \in {":"}
    BY <1>2, <2>1
  <2> QED
    BY <1>1, <2>1, <2>2, StrtokBound DEF NameToken
<1>6. ValueToken(attr) = strtok(page, from, ValueEnd(attr))
  BY DEF ValueToken
<1> HIDE DEF from
<1> DEFINE m == colon + 1 + k - 1
<1>7. m \in from..Len(page) /\ end \in m..Len(page)
  BY <1>1, <1>e, <1>5
<1>8. page[m] = u[k]
  BY <1>2
<1> HIDE DEF m
<1>9. page[m] \notin ValueEnd(attr) /\ page[end] \in ValueEnd(attr)
  BY <1>2, <1>4, <1>8, SeparatorEnds
<1>10. /\ strtok(page, from, ValueEnd(attr)).token # <<>>
       /\ strtok(page, from, ValueEnd(attr)).saved <= end + 1
  BY <1>1, <1>5, <1>7, <1>9, StrtokBound
<1> QED
  BY <1>2, <1>6, <1>10

\* A parser that is right in front of the attribute reads its value, and is in
\* front of the next one if the value keeps no colon back.
LEMMA ReadsValue ==
  ASSUME Phase, Contents, Place, pc = "reading", attr <= NumAttr, NEW starts, Laid(starts),
         saved <= starts[attr], ~Blank(attr),
         \A j \in saved..(starts[attr] - 1) : page[j] # ":"
  PROVE  /\ ValueToken(attr).token = strtok(Text(attr), 1, ValueEnd(attr)).token
         /\ ~Strays(attr) /\ attr + 1 <= NumAttr
              => \A j \in ValueToken(attr).saved..(starts[attr + 1] - 1) : page[j] # ":"
<1> DEFINE at == starts[attr]
           colon == at + Len(Name(attr))
           end == colon + Len(Text(attr)) + 1
           u == Text(attr)
           inner == strtok(u, 1, ValueEnd(attr))
           whole == ValueToken(attr)
<1>1. /\ attr \in 1..NumAttr /\ NumAttr \in Nat
      /\ page \in Seq(Symbols) /\ u \in Seq(Symbols)
      /\ saved \in Nat \ {0}
      /\ Len(page) \in Nat /\ Len(u) \in Nat
      /\ at \in Nat \ {0} /\ colon \in Nat \ {0} /\ end \in Nat \ {0}
      /\ at < colon /\ colon < end /\ end <= Len(page)
  BY AtPlace
<1>2. /\ \A j \in at..(colon - 1) : page[j] # ":"
      /\ page[colon] = ":"
      /\ \A k \in 1..Len(u) : page[colon + 1 + k - 1] = u[k]
      /\ page[end] = Separator(attr)
      /\ starts[attr + 1] = end + 1
  BY AtPlace
<1>e. end = colon + Len(u) + 1 /\ saved <= at
  OBVIOUS
<1>f. Begun /\ pc # "filling"
  BY DEF Phase, Begun
<1>g. record[attr] \in Values /\ Writable(record[attr])
  BY <1>1, <1>f, AtAttr
<1>3. inner.token # <<>>
  BY <1>g, NotBlank
<1>4. \A j \in saved..(at - 1) : page[j] # ":"
  OBVIOUS
<1> HIDE DEF at, colon, end
<1>5. NameToken(attr).saved = colon + 1
  <2>1. colon \in (saved + 1)..Len(page)
    BY <1>1, <1>e
  <2>2. \A j \in saved..(colon - 1) : page[j] \notin {":"}
    <3> SUFFICES ASSUME NEW j \in saved..(colon - 1) PROVE page[j] # ":"
      OBVIOUS
    <3>1. j \in saved..(at - 1) \/ j \in at..(colon - 1)
      BY <1>1, <1>e
    <3> QED
      BY <1>2, <1>4, <3>1
  <2>3. page[colon] \in {":"}
    BY <1>2
  <2> QED
    BY <1>1, <2>1, <2>2, <2>3, StrtokExact DEF NameToken
<1>6. whole = strtok(page, colon + 1, ValueEnd(attr))
  BY <1>5 DEF ValueToken
<1> DEFINE v == colon + 1
<1>7. /\ v \in Nat \ {0} /\ v + Len(u) <= Len(page) /\ v + Len(u) = end
  BY <1>1, <1>e
<1>8. page[v + Len(u)] \in ValueEnd(attr) /\ \A k \in 1..Len(u) : page[v + k - 1] = u[k]
  BY <1>2, <1>7, SeparatorEnds
<1> HIDE DEF v, u
<1>9. /\ strtok(page, v, ValueEnd(attr)).token = inner.token
      /\ strtok(page, v, ValueEnd(attr)).saved = v + inner.saved - 1
      /\ inner.saved \in Nat \ {0}
      /\ inner.saved <= Len(u) + 2
      /\ inner.saved < Len(u) + 2 => \E k \in 1..Len(u) : u[k] \in ValueEnd(attr)
  BY <1>1, <1>3, <1>7, <1>8, StrtokInside
<1>10. /\ whole.token = inner.token /\ whole.saved = v + inner.saved - 1
  BY <1>6, <1>9 DEF v
<1> HIDE DEF inner, whole
<1>11. ASSUME ~Strays(attr), attr + 1 <= NumAttr, NEW j \in whole.saved..(end + 1 - 1)
       PROVE  page[j] # ":"
  <2>1. CASE inner.saved = Len(u) + 2
    BY <1>1, <1>7, <1>10, <2>1
  <2>2. CASE inner.saved < Len(u) + 2
    <3>1. PICK k \in 1..Len(u) : u[k] \in ValueEnd(attr)
      BY <1>9, <2>2
    <3>2. attr < NumAttr /\ attr # NumAttr
      BY <1>1, <1>11
    <3>3. u[k] = ","
      BY <3>1, <3>2 DEF ValueEnd
    <3>4. record[attr].dt = "STRING" /\ u = record[attr].str
      <4>1. u[k] \in Delimiters
        BY <3>1, SeparatorEnds
      <4>2. ASSUME record[attr].dt # "STRING" PROVE FALSE
        <5>1. PICK s \in Symbols \ Delimiters : u = <<s>>
          BY <1>g, <4>2, AttrTextIs DEF u, Text
        <5>2. Len(u) = 1 /\ u[1] = s
          BY <5>1
        <5>3. k = 1
          BY <5>2
        <5> QED
          BY <4>1, <5>2, <5>3
      <4> QED
        BY <1>g, <4>2, AttrTextIs DEF u, Text
    <3>5. DOMAIN u = 1..Len(u)
      BY <1>1
    <3>6. "," \in Range(record[attr].str)
      BY <3>3, <3>4, <3>5 DEF Range
    <3>7. ":" \notin Range(record[attr].str)
      BY <1>11, <3>2, <3>6 DEF Strays
    <3>8. CASE j = end
      BY <1>2, <3>8, SeparatorEnds
    <3>9. CASE j # end
      <4> DEFINE i == j - v + 1
      <4>1. i \in 1..Len(u) /\ v + i - 1 = j
        BY <1>1, <1>7, <1>9, <1>10, <3>9
      <4> HIDE DEF i
      <4>2. page[j] = u[i]
        BY <1>8, <4>1
      <4>3. u[i] \in Range(record[attr].str)
        BY <3>4, <3>5, <4>1 DEF Range
      <4> QED
        BY <3>7, <4>2, <4>3
    <3> QED
      BY <3>8, <3>9
  <2> QED
    BY <1>1, <1>9, <2>1, <2>2
<1>12. ~Strays(attr) /\ attr + 1 <= NumAttr
         => \A j \in whole.saved..(starts[attr + 1] - 1) : page[j] # ":"
  <2> SUFFICES ASSUME ~Strays(attr), attr + 1 <= NumAttr,
                      NEW j \in whole.saved..(starts[attr + 1] - 1)
               PROVE  page[j] # ":"
    OBVIOUS
  <2>0. starts[attr + 1] = end + 1
    BY <1>2
  <2>1. starts[attr + 1] - 1 = end + 1 - 1
    BY <1>1, <2>0
  <2>2. j \in whole.saved..(end + 1 - 1)
    BY <2>1
  <2> QED
    BY <1>11, <2>2
<1> QED
  BY <1>10, <1>12 DEF whole, inner, u

-----------------------------------------------------------------------------
(*****************************************************************************)
(* The steps of the invariant that are about the text.                       *)
(*****************************************************************************)
\* The layout is one of the record and the schema.
LEMMA TextLayoutPrimed ==
  ASSUME UNCHANGED <<rel, record>>, NEW starts, NEW n, NEW m
  PROVE  /\ LaidOut(text', starts, n) => LaidOut(text, starts, n)'
         /\ Separated(text', starts, m) => Separated(text, starts, m)'
BY DEF LaidOut, Separated, Written, Separator, Name, Text, NumAttr

LEMMA PageLayoutPrimed ==
  ASSUME UNCHANGED <<rel, record>>, NEW starts
  PROVE  LaidOut(page', starts, NumAttr) /\ Separated(page', starts, NumAttr)
           => LaidOut(page, starts, NumAttr)' /\ Separated(page, starts, NumAttr)'
BY DEF LaidOut, Separated, Written, Separator, Name, Text, NumAttr

LEMMA LegiblePrimed ==
  ASSUME UNCHANGED <<rel, record, page>>
  PROVE  /\ NumAttr' = NumAttr
         /\ Legible' <=> Legible
         /\ CleanFront' <=> CleanFront
         /\ \A i : /\ Blank(i)' <=> Blank(i)
                   /\ AsRead(i)' = AsRead(i)
BY DEF Legible, CleanFront, Blank, Strays, AsRead, Cut, ValueEnd, NumAttr

\* A layout with one more attribute.
LEMMA Extended ==
  ASSUME NEW t, NEW n \in Nat, NEW starts, LaidOut(t, starts, n),
         Separated(t, starts, n),
         Len(Name(n + 1)) \in Nat, Len(Text(n + 1)) \in Nat,
         Written(t, starts[n + 1], n + 1)
  PROVE  LET longer == [i \in 1..(n + 2) |->
                          IF i <= n + 1 THEN starts[i]
                          ELSE starts[n + 1] + Len(Name(n + 1)) + Len(Text(n + 1)) + 2]
         IN /\ longer[n + 1] = starts[n + 1]
            /\ longer[n + 2] = starts[n + 1] + Len(Name(n + 1)) + Len(Text(n + 1)) + 2
            /\ starts[n + 1] \in Nat \ {0}
            /\ LaidOut(t, longer, n + 1)
            /\ Separated(t, longer, n)
<1> DEFINE last == starts[n + 1] + Len(Name(n + 1)) + Len(Text(n + 1)) + 2
           longer == [i \in 1..(n + 2) |-> IF i <= n + 1 THEN starts[i] ELSE last]
<1>1. starts \in [1..(n + 1) -> Nat \ {0}]
  BY DEF LaidOut
<1>2. starts[n + 1] \in Nat \ {0} /\ last \in Nat \ {0}
  <2>1. n + 1 \in 1..(n + 1)
    OBVIOUS
  <2>2. starts[n + 1] \in Nat \ {0}
    BY <1>1, <2>1
  <2> QED
    BY <2>2
<1>l. last = starts[n + 1] + Len(Name(n + 1)) + Len(Text(n + 1)) + 2
  OBVIOUS
<1> HIDE DEF last
<1>3. /\ \A i \in 1..(n + 1) : longer[i] = starts[i]
      /\ longer[n + 2] = last
      /\ longer \in [1..((n + 1) + 1) -> Nat \ {0}]
  <2>1. \A i \in 1..(n + 1) : i \in 1..(n + 2) /\ i <= n + 1 /\ starts[i] \in Nat \ {0}
    BY <1>1
  <2>2. n + 2 \in 1..(n + 2) /\ ~(n + 2 <= n + 1) /\ (n + 1) + 1 = n + 2
    OBVIOUS
  <2>3. \A i \in 1..(n + 2) : i \in 1..(n + 1) \/ i = n + 2
    OBVIOUS
  <2>4. \A i \in 1..(n + 2) : (IF i <= n + 1 THEN starts[i] ELSE last) \in Nat \ {0}
    BY <1>2, <2>1, <2>2, <2>3
  <2>5. longer \in [1..(n + 2) -> Nat \ {0}]
    BY <2>4
  <2> QED
    BY <2>1, <2>2, <2>5
<1> HIDE DEF longer
<1>4. longer[1] = starts[1] /\ longer[n + 1] = starts[n + 1] /\ longer[(n + 1) + 1] = last
  <2>1. 1 \in 1..(n + 1) /\ n + 1 \in 1..(n + 1) /\ (n + 1) + 1 = n + 2
    OBVIOUS
  <2> QED
    BY <1>3, <2>1
<1>5. ASSUME NEW i \in 1..(n + 1)
      PROVE  /\ Written(t, longer[i], i)
             /\ longer[i + 1] = longer[i] + Len(Name(i)) + Len(Text(i)) + 2
  <2>1. CASE i \in 1..n
    <3>1. i \in 1..(n + 1) /\ i + 1 \in 1..(n + 1)
      BY <2>1
    <3>2. Written(t, starts[i], i) /\ starts[i + 1] = starts[i] + Len(Name(i)) + Len(Text(i)) + 2
      BY <2>1 DEF LaidOut
    <3> QED
      BY <1>3, <3>1, <3>2
  <2>2. CASE i = n + 1
    BY <1>4, <1>l, <2>2
  <2> QED
    BY <2>1, <2>2
<1>6. /\ 3 < starts[1] /\ starts[1] <= Len(t) + 1
      /\ t[starts[1] - 3] = RID /\ t[starts[1] - 2] = " " /\ t[starts[1] - 1] = "("
  BY DEF LaidOut
<1>7. LaidOut(t, longer, n + 1)
  BY <1>3, <1>4, <1>5, <1>6 DEF LaidOut
<1>8. Separated(t, longer, n)
  <2>1. \A i \in 1..n : i + 1 \in 1..(n + 1)
    OBVIOUS
  <2>2. \A i \in 1..n : longer[i + 1] = starts[i + 1]
    BY <1>3, <2>1
  <2> QED
    BY <2>2 DEF Separated
<1> QED
  BY <1>2, <1>3, <1>4, <1>7, <1>8, <1>l DEF longer, last

\* A layout stays where it is when something is appended.
LEMMA StaysLaidOut ==
  ASSUME NEW t \in Seq(Symbols), NEW u \in Seq(Symbols),
         Len(t) <= Len(u), \A k \in 1..Len(t) : u[k] = t[k],
         NEW n \in Nat, NEW m \in Int, m <= n,
         \A i \in 1..n : Len(Name(i)) \in Nat \ {0} /\ Len(Text(i)) \in Nat,
         NEW starts, LaidOut(t, starts, n), Separated(t, starts, m)
  PROVE  LaidOut(u, starts, n) /\ Separated(u, starts, m)
<1> DEFINE moved == [i \in 1..(n + 1) |-> 0 + starts[i]]
           d == 0
<1>1. d \in Nat /\ d + Len(t) <= Len(u) /\ \A k \in 1..Len(t) : u[d + k] = t[k]
  OBVIOUS
<1>2. starts \in [1..(n + 1) -> Nat \ {0}]
  BY DEF LaidOut
<1>3. moved = starts
  <2>1. \A i \in 1..(n + 1) : 0 + starts[i] = starts[i]
    BY <1>2
  <2> QED
    BY <1>2, <2>1
<1>4. [i \in 1..(n + 1) |-> d + starts[i]] = starts
  BY <1>3
<1> HIDE DEF d
<1>5. /\ LaidOut(u, [i \in 1..(n + 1) |-> d + starts[i]], n)
      /\ Separated(u, [i \in 1..(n + 1) |-> d + starts[i]], m)
  BY <1>1, Shifted
<1> QED
  BY <1>4, <1>5

\* The beginning of a record, before its first attribute.
LEMMA StartLaidOut ==
  ASSUME Phase, Place', StartWriting, UNCHANGED rel, NumAttr \in Nat
  PROVE  TextLayout'
<1> DEFINE t == <<RID, " ", "(">>
           starts == [i \in 1..(0 + 1) |-> 4]
<1>1. text' = t /\ attr' = 1 /\ NumAttr' = NumAttr
  BY DEF StartWriting, NumAttr
<1>2. Len(t) = 3 /\ t[1] = RID /\ t[2] = " " /\ t[3] = "("
  OBVIOUS
<1>3. starts[1] = 4 /\ starts \in [1..(0 + 1) -> Nat \ {0}]
  OBVIOUS
<1> HIDE DEF t, starts
<1>a. Len(text') = 3
  BY <1>1, <1>2
<1>4. text'[1] = RID /\ text'[2] = " " /\ text'[3] = "("
  BY <1>1, <1>2
<1>5. LaidOut(text, starts, 0)'
  <2>1. 3 < starts[1] /\ starts[1] <= Len(text') + 1
    BY <1>3, <1>a
  <2>2. text'[starts[1] - 3] = RID /\ text'[starts[1] - 2] = " " /\ text'[starts[1] - 1] = "("
    <3>1. starts[1] - 3 = 1 /\ starts[1] - 2 = 2 /\ starts[1] - 1 = 3
      BY <1>3
    <3> QED
      BY <3>1, <1>4
  <2>3. \A i \in 1..0 : FALSE
    OBVIOUS
  <2> QED
    BY <1>3, <2>1, <2>2, <2>3 DEF LaidOut
<1> DEFINE m == IF 1 > NumAttr THEN 1 - 2 ELSE 1 - 1
<1>6. Separated(text, starts, m)'
  <2>1. \A i \in 1..m' : FALSE
    BY <1>1
  <2> QED
    BY <2>1 DEF Separated
<1>7. Len(text') = starts[1] - (IF 1 > NumAttr /\ NumAttr > 0 THEN 2 ELSE 1)
  BY <1>3, <1>a
<1>8. attr' - 1 = 0 /\ (IF attr' > NumAttr' THEN attr' - 2 ELSE attr' - 1) = m'
  BY <1>1
<1>9. LaidOut(text, starts, attr - 1)'
  BY <1>5, <1>8
<1>10. Separated(text, starts, IF attr > NumAttr THEN attr - 2 ELSE attr - 1)'
  BY <1>6, <1>8
<1> HIDE DEF m
<1>11. Len(text') = starts[attr'] - (IF attr' > NumAttr' /\ NumAttr' > 0 THEN 2 ELSE 1)
  BY <1>1, <1>7
<1> QED
  BY <1>9, <1>10, <1>11 DEF TextLayout

\* serializeNext lays out one more attribute.
LEMMA SerializeLaidOut ==
  ASSUME Phase, Contents, Place, TextLayout, serializeNext
  PROVE  TextLayout'
<1> DEFINE n == attr - 1
           name == Len(Name(attr))
           val == Len(Text(attr))
           sep == IF attr = NumAttr THEN <<>> ELSE <<",">>
           u == text \o serializeAttr(rel.attrs[attr], record[attr]) \o sep
<1>1. /\ pc = "writing" /\ Begun /\ attr <= NumAttr
      /\ text' = u /\ attr' = attr + 1 /\ UNCHANGED <<rel, record, pc>>
      /\ text \in Seq(Symbols)
  BY DEF serializeNext, Begun, Place
<1>2. NumAttr \in Nat /\ NumAttr' = NumAttr
  BY <1>1, AttrsTyped DEF Phase, NumAttr
<1>3. attr \in 1..NumAttr /\ n \in Nat /\ n + 1 = attr
  <2>1. attr \in 1..(NumAttr + 1)
    BY <1>1 DEF Place
  <2>2. attr <= NumAttr
    BY <1>1
  <2>3. NumAttr \in Nat
    BY <1>2
  <2> QED
    BY <2>1, <2>2, <2>3
<1>4. PICK starts : /\ LaidOut(text, starts, n)
                    /\ Separated(text, starts, n)
                    /\ Len(text) = starts[attr] - 1
  <2>1. ~(attr > NumAttr)
    BY <1>2, <1>3
  <2> QED
    BY <1>1, <2>1 DEF TextLayout
<1>5. ASSUME NEW i \in 1..NumAttr
      PROVE  /\ Name(i) \in Seq(Symbols) /\ Len(Name(i)) \in Nat \ {0}
             /\ Text(i) \in Seq(Symbols) /\ Len(Text(i)) \in Nat
  BY <1>1, TextsTyped
<1>6. /\ sep \in Seq(Symbols)
      /\ attr = NumAttr => Len(sep) = 0
      /\ attr # NumAttr => Len(sep) = 1 /\ sep[1] = ","
  BY DelimitersIn, ShortTexts
<1> HIDE DEF sep
<1>7. /\ u \in Seq(Symbols)
      /\ Len(u) = Len(text) + name + 1 + val + Len(sep)
      /\ \A k \in 1..Len(text) : u[k] = text[k]
      /\ Written(u, Len(text) + 1, attr)
      /\ \A k \in 1..Len(sep) : u[Len(text) + name + 1 + val + k] = sep[k]
  <2>1. text \in Seq(Symbols) /\ Name(attr) \in Seq(Symbols) /\ Text(attr) \in Seq(Symbols)
    BY <1>1, <1>3, <1>5
  <2>2. sep \in Seq(Symbols)
    BY <1>6
  <2> HIDE DEF name, val, u
  <2>5. PICK w : w = serializeAttr(rel.attrs[attr], record[attr])
    OBVIOUS
  <2>3. u = text \o w \o sep
    BY <2>5 DEF u
  <2>4. name = Len(Name(attr)) /\ val = Len(Text(attr))
    BY DEF name, val
  <2>6. Grown(u, text, attr, sep)
    BY <2>1, <2>2, <2>3, <2>5, WrittenAtEnd, Zenon
  <2> QED
    BY <2>4, <2>6 DEF Grown
<1> HIDE DEF u
<1>8. /\ name \in Nat \ {0} /\ val \in Nat /\ Len(text) \in Nat /\ Len(sep) \in Nat
  <2>1. text \in Seq(Symbols) /\ sep \in Seq(Symbols)
    BY <1>1, <1>6
  <2>2. Len(text) \in Nat /\ Len(sep) \in Nat
    BY <2>1
  <2> QED
    BY <1>3, <1>5, <2>2
<1>9. LaidOut(u, starts, n) /\ Separated(u, starts, n)
  <2>1. Len(text) <= Len(u)
    BY <1>7, <1>8
  <2>2. \A i \in 1..n : i \in 1..NumAttr
    BY <1>2, <1>3
  <2>3. \A i \in 1..n : Len(Name(i)) \in Nat \ {0} /\ Len(Text(i)) \in Nat
    BY <1>5, <2>2
  <2>4. n \in Int /\ n <= n
    BY <1>3
  <2> HIDE DEF n
  <2> QED
    BY <1>1, <1>3, <1>4, <1>7, <2>1, <2>3, <2>4, StaysLaidOut
<1>10. Written(u, starts[n + 1], n + 1)
  <2>1. LaidOut(text, starts, n) /\ n + 1 \in 1..(n + 1)
    BY <1>3, <1>4
  <2>2. starts[n + 1] \in Nat
    BY <2>1 DEF LaidOut
  <2>3. starts[attr] = Len(text) + 1
    BY <1>3, <1>4, <1>8, <2>2
  <2> QED
    BY <1>3, <1>7, <2>3
<1> DEFINE longer == [i \in 1..(n + 2) |->
                        IF i <= n + 1 THEN starts[i]
                        ELSE starts[n + 1] + Len(Name(n + 1)) + Len(Text(n + 1)) + 2]
<1>11. /\ longer[n + 2] = starts[n + 1] + Len(Name(n + 1)) + Len(Text(n + 1)) + 2
       /\ starts[n + 1] \in Nat \ {0}
       /\ LaidOut(u, longer, n + 1)
       /\ Separated(u, longer, n)
  <2>1. Len(Name(n + 1)) \in Nat /\ Len(Text(n + 1)) \in Nat
    BY <1>3, <1>8
  <2> HIDE DEF n
  <2> QED
    BY <1>3, <1>9, <1>10, <2>1, Extended
<1> HIDE DEF longer
<1>12. n + 2 = attr + 1 /\ n + 1 = attr
  BY <1>3
<1>13. longer[attr + 1] = starts[attr] + name + val + 2 /\ starts[attr] \in Nat \ {0}
  BY <1>11, <1>12
<1>14. LaidOut(u, longer, attr)
  BY <1>11, <1>12
<1>s. Len(text) + 1 = starts[attr]
  BY <1>4, <1>8, <1>13
<1> HIDE DEF name, val
<1>k. Len(u) = Len(text) + name + 1 + val + Len(sep)
  BY <1>7
<1>i. PICK lo : lo = longer
  OBVIOUS
<1>j. PICK z : z = attr + 1
  OBVIOUS
<1>c. PICK a : a = attr
  OBVIOUS
<1>d. lo[z] = starts[attr] + name + val + 2 /\ lo[z] \in Nat /\ z = a + 1 /\ a \in Nat /\ a = attr
  BY <1>3, <1>8, <1>13, <1>i, <1>j, <1>c
<1>e. LaidOut(u, lo, a) /\ Separated(u, lo, a - 1)
  BY <1>11, <1>14, <1>i, <1>c
<1>f. text' = u /\ attr' = z /\ attr' - 1 = a
  BY <1>1, <1>3, <1>j, <1>c
<1>15. CASE attr = NumAttr
  <2>1. /\ attr' > NumAttr' /\ NumAttr' > 0 /\ attr' - 2 = a - 1
    BY <1>d, <1>f, <1>2, <1>3, <1>15
  <2>2. Len(u) = lo[z] - 2
    <3>1. Len(sep) = 0
      BY <1>6, <1>15
    <3>2. lo[z] = starts[attr] + name + val + 2
      BY <1>d
    <3>3. Len(u) = Len(text) + name + 1 + val
      BY <1>8, <1>k, <3>1
    <3>4. lo[z] = (Len(text) + 1) + name + val + 2
      BY <1>s, <3>2
    <3> QED
      BY <1>8, <3>3, <3>4
  <2>3. LaidOut(text, lo, a)' /\ Separated(text, lo, a - 1)'
    BY <1>1, <1>e, <1>f, TextLayoutPrimed
  <2>4. LaidOut(text, lo, attr - 1)' /\ Separated(text, lo, attr - 2)'
    BY <1>f, <2>1, <2>3
  <2>5. Len(text') = lo[attr'] - 2
    BY <1>f, <2>2
  <2> QED
    BY <2>1, <2>4, <2>5 DEF TextLayout
<1>16. CASE attr # NumAttr
  <2>1. ~(attr' > NumAttr')
    BY <1>d, <1>f, <1>2, <1>3, <1>16
  <2>a. Len(sep) = 1 /\ sep[1] = ","
    BY <1>6, <1>16
  <2>b. Len(sep) = 1
    BY <2>a
  <2>l. 1 \in 1..Len(sep)
    BY <2>b
  <2>2. Len(u) = lo[z] - 1
    <3>2. lo[z] = starts[attr] + name + val + 2
      BY <1>d
    <3>3. Len(u) = Len(text) + name + 1 + val + 1
      BY <1>8, <1>k, <2>b
    <3> QED
      BY <1>8, <1>s, <3>2, <3>3
  <2>3. u[lo[z] - 1] = Separator(a) /\ lo[z] <= Len(u) + 1
    <3>1. Len(text) + name + 1 + val + 1 = lo[z] - 1
      BY <1>8, <1>d, <1>s
    <3>2. u[Len(text) + name + 1 + val + 1] = sep[1]
      BY <1>7, <2>l
    <3>3. u[lo[z] - 1] = Separator(a)
      BY <1>d, <1>16, <2>a, <3>1, <3>2 DEF Separator
    <3>5. lo[z] <= Len(u) + 1
      BY <1>d, <2>2
    <3> QED
      BY <3>3, <3>5
  <2>4. Separated(u, lo, a)
    <3>1. \A i \in 1..a : i \in 1..(a - 1) \/ i = a
      BY <1>d
    <3> QED
      BY <1>d, <1>e, <2>3, <3>1 DEF Separated
  <2>5. LaidOut(text, lo, a)' /\ Separated(text, lo, a)'
    BY <1>1, <1>e, <1>f, <2>4, TextLayoutPrimed
  <2>6. LaidOut(text, lo, attr - 1)' /\ Separated(text, lo, attr - 1)'
    BY <1>f, <2>5
  <2>7. Len(text') = lo[attr'] - 1
    BY <1>f, <2>2
  <2> QED
    BY <2>1, <2>6, <2>7 DEF TextLayout
<1> QED
  BY <1>15, <1>16

\* Every step keeps the layout of what serializeRecord has written.
LEMMA TextLayoutStep ==
  ASSUME Phase, Contents, Place, Place', TextLayout, Next
  PROVE  TextLayout'
<1>1. CASE insertRecord
  <2>1. NumAttr \in Nat
    BY <1>1, AttrsTyped DEF Phase, Begun, insertRecord
  <2> QED
    BY <1>1, <2>1, StartLaidOut DEF insertRecord
<1>2. ASSUME NEW v \in Literals, NEW i \in DOMAIN out, updateRecord(i, v) PROVE TextLayout'
  <2>1. NumAttr \in Nat
    BY <1>2, AttrsTyped DEF Phase, Begun, updateRecord
  <2> QED
    BY <1>2, <2>1, StartLaidOut DEF updateRecord
<1>3. CASE serializeNext
  BY <1>3, SerializeLaidOut
<1>4. CASE pc' # "writing"
  BY <1>4 DEF TextLayout
<1> QED
  BY <1>1, <1>2, <1>3, <1>4
  DEF Next, createTable, openTable, createRecord, setNextAttr, recordWritten, deleteRecord,
      getRecord, parseNext, recordParsed, next

\* recordWritten closes the record.
LEMMA WriteLaidOut ==
  ASSUME Phase, Contents, Place, TextLayout, recordWritten
  PROVE  PageLayout'
<1> DEFINE close == <<")">>
           u == text \o close
<1>1. /\ pc = "writing" /\ Begun /\ attr > NumAttr
      /\ page' = u /\ pc' = "open" /\ UNCHANGED <<rel, record>>
      /\ text \in Seq(Symbols) /\ attr \in 1..(NumAttr + 1)
  BY DEF recordWritten, Begun, Place
<1>2. NumAttr \in Nat /\ NumAttr' = NumAttr
  BY <1>1, AttrsTyped DEF Phase, NumAttr
<1>3. attr = NumAttr + 1 /\ attr - 1 = NumAttr /\ attr - 2 = NumAttr - 1
  BY <1>1, <1>2
<1>4. PICK starts : /\ LaidOut(text, starts, NumAttr)
                    /\ Separated(text, starts, NumAttr - 1)
                    /\ Len(text) = starts[NumAttr + 1] - (IF NumAttr > 0 THEN 2 ELSE 1)
  BY <1>1, <1>3 DEF TextLayout
<1>5. ASSUME NEW i \in 1..NumAttr
      PROVE  Len(Name(i)) \in Nat \ {0} /\ Len(Text(i)) \in Nat
  BY <1>1, TextsTyped
<1>6. close \in Seq(Symbols) /\ Len(close) = 1 /\ close[1] = ")"
  BY DelimitersIn, ShortTexts
<1> HIDE DEF close
<1>7. /\ u \in Seq(Symbols)
      /\ Len(u) = Len(text) + Len(close)
      /\ \A k \in 1..Len(text) : u[k] = text[k]
      /\ \A k \in 1..Len(close) : u[Len(text) + k] = close[k]
  BY <1>1, <1>6, ConcatIs
<1> HIDE DEF u
<1>8. Len(text) \in Nat /\ Len(u) = Len(text) + 1
  BY <1>1, <1>6, <1>7
<1>9. u[Len(text) + 1] = ")"
  <2>1. 1 \in 1..Len(close)
    BY <1>6
  <2> QED
    BY <1>6, <1>7, <2>1
<1>10. LaidOut(u, starts, NumAttr) /\ Separated(u, starts, NumAttr - 1)
  <2> DEFINE n == NumAttr
             m == NumAttr - 1
  <2>1. Len(text) <= Len(u) /\ n \in Nat /\ m \in Int /\ m <= n
    BY <1>2, <1>8
  <2>2. LaidOut(text, starts, n) /\ Separated(text, starts, m)
    BY <1>4
  <2>3. \A i \in 1..n : Len(Name(i)) \in Nat \ {0} /\ Len(Text(i)) \in Nat
    BY <1>5
  <2> HIDE DEF n, m
  <2>4. LaidOut(u, starts, n) /\ Separated(u, starts, m)
    BY <1>1, <1>7, <2>1, <2>2, <2>3, StaysLaidOut
  <2> QED
    BY <2>4 DEF n, m
<1>11. Separated(u, starts, NumAttr)
  <2>1. CASE NumAttr = 0
    BY <2>1 DEF Separated
  <2>2. CASE NumAttr # 0
    <3>0. starts \in [1..(NumAttr + 1) -> Nat \ {0}]
      BY <1>4 DEF LaidOut
    <3>1. starts \in [1..(NumAttr + 1) -> Nat \ {0}] /\ NumAttr + 1 \in 1..(NumAttr + 1)
      BY <1>2, <3>0
    <3>2. starts[NumAttr + 1] \in Nat
      BY <3>1
    <3>3. Len(text) = starts[NumAttr + 1] - 2
      BY <1>2, <1>4, <2>2
    <3>4. starts[NumAttr + 1] - 1 = Len(text) + 1 /\ starts[NumAttr + 1] <= Len(u) + 1
      BY <1>8, <3>2, <3>3
    <3>5. u[starts[NumAttr + 1] - 1] = Separator(NumAttr)
      BY <1>9, <3>4 DEF Separator
    <3>6. \A i \in 1..NumAttr : i \in 1..(NumAttr - 1) \/ i = NumAttr
      BY <1>2
    <3> QED
      BY <1>10, <3>4, <3>5, <3>6 DEF Separated
  <2> QED
    BY <2>1, <2>2
<1>12. LaidOut(page, starts, NumAttr)' /\ Separated(page, starts, NumAttr)'
  BY <1>1, <1>10, <1>11, PageLayoutPrimed
<1>13. Following(starts)'
  BY <1>1 DEF Following
<1> QED
  BY <1>12, <1>13 DEF PageLayout

\* deleteRecord moves it.
LEMMA DeleteLaidOut ==
  ASSUME Phase, Contents, Place, PageLayout, NEW garbage \in Garbage, deleteRecord(garbage)
  PROVE  PageLayout'
<1> DEFINE mark == <<"TOMBESTONED">>
           front == garbage \o mark
           u == front \o page
<1>1. /\ page # NULL /\ Begun /\ pc \in {"open", "read"}
      /\ page' = u /\ pc' = "open" /\ UNCHANGED <<rel, record>>
      /\ page \in Seq(Symbols)
  BY DEF deleteRecord, Ready, Begun, Place
<1>2. NumAttr \in Nat
  BY <1>1, AttrsTyped DEF Phase
<1>3. PICK starts : LaidOut(page, starts, NumAttr) /\ Separated(page, starts, NumAttr)
  BY <1>1 DEF PageLayout
<1>4. \A i \in 1..NumAttr : Len(Name(i)) \in Nat \ {0} /\ Len(Text(i)) \in Nat
  <2>1. pc # "filling"
    BY <1>1
  <2> QED
    BY <1>1, <2>1, TextsTyped
<1>5. mark \in Seq(Symbols) /\ garbage \in Seq(Symbols)
  BY TextAssumption, ShortTexts
<1> HIDE DEF mark
<1>6. front \in Seq(Symbols)
  BY <1>5, ConcatIs
<1> HIDE DEF front
<1>7. /\ u \in Seq(Symbols) /\ Len(u) = Len(front) + Len(page)
      /\ \A k \in 1..Len(page) : u[Len(front) + k] = page[k]
  BY <1>1, <1>6, ConcatIs
<1> HIDE DEF u
<1> DEFINE d == Len(front)
           n == NumAttr
           moved == [i \in 1..(n + 1) |-> d + starts[i]]
<1>8. /\ d \in Nat /\ d + Len(page) <= Len(u)
      /\ \A k \in 1..Len(page) : u[d + k] = page[k]
      /\ n \in Nat /\ n \in Int /\ n <= n
      /\ \A i \in 1..n : Len(Name(i)) \in Nat \ {0} /\ Len(Text(i)) \in Nat
      /\ LaidOut(page, starts, n) /\ Separated(page, starts, n)
  <2>1. Len(front) \in Nat /\ Len(page) \in Nat
    BY <1>1, <1>6
  <2> QED
    BY <1>2, <1>3, <1>4, <1>7, <2>1
<1> HIDE DEF d, n
<1>9. LaidOut(u, moved, n) /\ Separated(u, moved, n)
  BY <1>1, <1>7, <1>8, Shifted
<1> HIDE DEF moved
<1>10. PICK places : places = moved
  OBVIOUS
<1>11. LaidOut(page', places, NumAttr) /\ Separated(page', places, NumAttr)
  BY <1>1, <1>9, <1>10 DEF n
<1>12. LaidOut(page, places, NumAttr)' /\ Separated(page, places, NumAttr)'
  BY <1>1, <1>11, PageLayoutPrimed
<1>13. Following(places)'
  BY <1>1 DEF Following
<1> QED
  BY <1>12, <1>13 DEF PageLayout

\* The parser follows a record that stays as it is.
LEMMA FollowingPrimed ==
  ASSUME UNCHANGED <<rel, record, page>>, NEW starts,
         (\A i \in 1..NumAttr : ~Blank(i)) => saved' <= starts[attr'],
         Legible /\ attr' <= NumAttr
           => \A j \in saved'..(starts[attr'] - 1) : page[j] # ":"
  PROVE  Following(starts)'
<1>1. /\ NumAttr' = NumAttr
      /\ Legible' <=> Legible
      /\ \A i : Blank(i)' <=> Blank(i)
  BY LegiblePrimed
<1>2. (\A i \in 1..NumAttr' : ~Blank(i)') => saved' <= starts[attr']
  BY <1>1
<1>3. Legible' /\ attr' <= NumAttr'
        => \A j \in saved'..(starts[attr'] - 1) : page'[j] # ":"
  BY <1>1
<1> QED
  BY <1>2, <1>3 DEF Following

\* getRecord brings the parser in front of the first attribute.
LEMMA GetLaidOut ==
  ASSUME Phase, Place, PageLayout, getRecord
  PROVE  PageLayout'
<1>1. /\ page # NULL /\ Begun /\ pc = "open"
      /\ saved' = strtok(page, 1, {"("}).saved /\ attr' = 1
      /\ UNCHANGED <<rel, record, page>>
      /\ page \in Seq(Symbols)
  BY DEF getRecord, Begun, Place
<1>2. NumAttr \in Nat
  BY <1>1, AttrsTyped DEF Phase
<1>3. PICK starts : LaidOut(page, starts, NumAttr) /\ Separated(page, starts, NumAttr)
  BY <1>1 DEF PageLayout
<1>4. /\ saved' <= starts[attr']
      /\ CleanFront => \A j \in saved'..(starts[attr'] - 1) : page[j] # ":"
  <2>1. Laid(starts)
    BY <1>3 DEF Laid
  <2> QED
    BY <1>1, <1>2, <2>1, StartsAtFront
<1>5. Legible => CleanFront
  BY DEF Legible
<1>6. Following(starts)'
  BY <1>1, <1>4, <1>5, FollowingPrimed
<1>7. LaidOut(page, starts, NumAttr)' /\ Separated(page, starts, NumAttr)'
  BY <1>1, <1>3, PageLayoutPrimed
<1> QED
  BY <1>6, <1>7 DEF PageLayout

\* What a step of the parser's loop starts from.
LEMMA AtStep ==
  ASSUME Phase, Place, PageLayout, parseNext
  PROVE  /\ pc = "reading" /\ page # NULL /\ attr \in 1..NumAttr /\ NumAttr \in Nat
         /\ UNCHANGED <<rel, record, page, answer>>
         /\ Len(out) = attr - 1
         /\ \E starts : Laid(starts) /\ Following(starts)
<1>1. /\ pc = "reading" /\ attr <= NumAttr /\ page # NULL /\ Begun
      /\ UNCHANGED <<rel, record, page, answer>>
      /\ attr \in 1..(NumAttr + 1) /\ Len(out) = attr - 1
  BY DEF parseNext, Phase, Begun, Place
<1>2. NumAttr \in Nat
  BY <1>1, AttrsTyped DEF Phase
<1>3. attr \in 1..NumAttr
  BY <1>1, <1>2
<1>4. \E starts : Laid(starts) /\ Following(starts)
  BY <1>1 DEF PageLayout, Laid
<1> QED
  BY <1>1, <1>2, <1>3, <1>4

\* parseNext brings it in front of the next one.
LEMMA ParseLaidOut ==
  ASSUME Phase, Contents, Place, PageLayout, parseNext
  PROVE  PageLayout'
<1>1. /\ pc = "reading" /\ page # NULL /\ attr \in 1..NumAttr /\ NumAttr \in Nat
      /\ UNCHANGED <<rel, record, page>>
  BY AtStep
<1>2. PICK starts : Laid(starts) /\ Following(starts)
  BY AtStep
<1>3. LaidOut(page, starts, NumAttr)' /\ Separated(page, starts, NumAttr)'
  BY <1>1, <1>2, PageLayoutPrimed DEF Laid
<1>a. attr <= NumAttr
  BY <1>1
<1>4. CASE pc' # "reading"
  BY <1>3, <1>4 DEF PageLayout, Following
<1>5. CASE pc' = "reading"
  <2>1. saved' = ValueToken(attr).saved /\ attr' = attr + 1
    BY <1>5 DEF parseNext
  <2>2. ASSUME \A i \in 1..NumAttr : ~Blank(i)
        PROVE  saved' <= starts[attr']
    <3>1. saved <= starts[attr] /\ ~Blank(attr)
      BY <1>1, <1>2, <2>2 DEF Following
    <3> QED
      BY <1>1, <1>2, <1>a, <2>1, <3>1, NotPast
  <2>3. ASSUME Legible, attr' <= NumAttr
        PROVE  \A j \in saved'..(starts[attr'] - 1) : page[j] # ":"
    <3>1. (\A i \in 1..NumAttr : ~Blank(i)) /\ ~Blank(attr) /\ ~Strays(attr)
      BY <1>1, <2>3 DEF Legible
    <3>2. /\ saved <= starts[attr]
          /\ \A j \in saved..(starts[attr] - 1) : page[j] # ":"
      BY <1>1, <1>2, <1>a, <2>3, <3>1 DEF Following
    <3>3. attr + 1 <= NumAttr
      BY <2>1, <2>3
    <3>4. \A j \in ValueToken(attr).saved..(starts[attr + 1] - 1) : page[j] # ":"
      BY <1>1, <1>2, <1>a, <3>1, <3>2, <3>3, ReadsValue
    <3> QED
      BY <2>1, <3>4
  <2>4. Following(starts)'
    BY <1>1, <2>2, <2>3, FollowingPrimed
  <2> QED
    BY <1>3, <2>4 DEF PageLayout
<1> QED
  BY <1>4, <1>5

\* Every step keeps the layout of the page, and the parser in its place.
LEMMA PageLayoutStep ==
  ASSUME Phase, Contents, Place, TextLayout, PageLayout, Next
  PROVE  PageLayout'
<1>1. CASE recordWritten
  BY <1>1, WriteLaidOut
<1>2. ASSUME NEW garbage \in Garbage, deleteRecord(garbage) PROVE PageLayout'
  BY <1>2, DeleteLaidOut
<1>3. CASE getRecord
  BY <1>3, GetLaidOut
<1>4. CASE parseNext
  BY <1>4, ParseLaidOut
<1>5. CASE pc \in {"reading", "read"} /\ pc' # "reading" /\ UNCHANGED <<rel, record, page>>
  <2>1. page # NULL /\ pc # "writing"
    BY <1>5 DEF Phase
  <2>2. PICK starts : LaidOut(page, starts, NumAttr) /\ Separated(page, starts, NumAttr)
    BY <2>1 DEF PageLayout
  <2>3. LaidOut(page, starts, NumAttr)' /\ Separated(page, starts, NumAttr)'
    BY <1>5, <2>2, PageLayoutPrimed
  <2> QED
    BY <1>5, <2>3 DEF PageLayout, Following
<1>6. CASE pc' = "writing" \/ page' = NULL
  BY <1>6 DEF PageLayout
<1> QED
  BY <1>1, <1>2, <1>3, <1>4, <1>5, <1>6
  DEF Next, createTable, openTable, createRecord, setNextAttr, insertRecord, updateRecord,
      StartWriting, serializeNext, recordParsed, next, Phase

-----------------------------------------------------------------------------
(*****************************************************************************)
(* The values read, and the end of the process in getRecord.                 *)
(*****************************************************************************)
\* parseNext reads an attribute as the text keeps it.
LEMMA ParseGathers ==
  ASSUME Phase, Contents, Place, PageLayout, Gathered, parseNext
  PROVE  Gathered'
<1>1. /\ pc = "reading" /\ page # NULL /\ attr \in 1..NumAttr /\ NumAttr \in Nat
      /\ UNCHANGED <<rel, record, page>> /\ Len(out) = attr - 1
  BY AtStep
<1>2. PICK starts : Laid(starts) /\ Following(starts)
  BY AtStep
<1>3. /\ Legible' <=> Legible
      /\ \A i : AsRead(i)' = AsRead(i)
  BY <1>1, LegiblePrimed
<1> SUFFICES ASSUME pc' = "reading", Legible
             PROVE  \A i \in 1..(attr' - 1) : out'[i] = AsRead(i)
  BY <1>3 DEF Gathered
<1> DEFINE value == setAttr(rel.attrs[attr], ParsedValue(rel.attrs[attr].dataType, ValueToken(attr).token))
<1>4. attr' = attr + 1 /\ out' = Append(out, value) /\ ValueToken(attr).token # <<>>
  BY DEF parseNext
<1>5. (\A i \in 1..NumAttr : ~Blank(i)) /\ ~Blank(attr)
  BY <1>1 DEF Legible
<1>6. ValueToken(attr).token = strtok(Text(attr), 1, ValueEnd(attr)).token
  <2>1. attr <= NumAttr
    BY <1>1
  <2>2. /\ saved <= starts[attr]
        /\ \A j \in saved..(starts[attr] - 1) : page[j] # ":"
    BY <1>1, <1>2, <1>5, <2>1 DEF Following
  <2> QED
    BY <1>1, <1>2, <1>5, <2>1, <2>2, ReadsValue
<1>7. /\ record[attr] \in Values /\ Writable(record[attr]) /\ Fits(record[attr], rel.attrs[attr])
      /\ rel.attrs[attr].typeLength \in Nat
  <2>1. Begun /\ pc # "filling"
    BY <1>1 DEF Begun
  <2> QED
    BY <1>1, <2>1, AtAttr
<1>8. value = AsRead(attr)
  BY <1>5, <1>6, <1>7, ParsedAsRead
<1>9. out \in Seq(Values) /\ value \in Values
  <2>1. out \in Seq(Values)
    BY <1>1 DEF Contents, Begun, Held
  <2>2. Storable(value, rel.attrs[attr])
    BY <1>1, <1>4, ParsedAt
  <2> QED
    BY <2>1, <2>2 DEF Storable
<1> HIDE DEF value
<1>10. /\ Append(out, value)[Len(out) + 1] = value
       /\ \A i \in 1..Len(out) : Append(out, value)[i] = out[i]
  BY <1>9, AppendProperties
<1>11. \A i \in 1..(attr - 1) : out[i] = AsRead(i)
  BY <1>1 DEF Gathered
<1>12. \A i \in 1..(attr - 1) : out'[i] = AsRead(i)
  BY <1>1, <1>4, <1>10, <1>11
<1>13. out'[attr] = AsRead(attr)
  <2>1. Len(out) + 1 = attr
    BY <1>1
  <2> QED
    BY <1>4, <1>8, <1>10, <2>1
<1>14. \A i \in 1..(attr' - 1) : i \in 1..(attr - 1) \/ i = attr
  BY <1>1, <1>4
<1> QED
  BY <1>12, <1>13, <1>14

\* Every step keeps what has been read.
LEMMA GatheredStep ==
  ASSUME Phase, Contents, Place, PageLayout, Gathered, Next
  PROVE  Gathered'
<1>1. CASE parseNext
  BY <1>1, ParseGathers
<1>2. CASE getRecord
  <2>1. \A i \in 1..(attr' - 1) : FALSE
    BY <1>2 DEF getRecord
  <2> QED
    BY <2>1 DEF Gathered
<1>3. CASE pc' # "reading"
  BY <1>3 DEF Gathered
<1> QED
  BY <1>1, <1>2, <1>3
  DEF Next, createTable, openTable, createRecord, setNextAttr, insertRecord, updateRecord,
      StartWriting, serializeNext, recordWritten, deleteRecord, recordParsed, next

\* strtok gives back a text that begins behind the delimiters and holds none.
LEMMA StrtokWhole ==
  ASSUME NEW t \in Seq(Symbols), t # <<>>, NEW delims, delims \cap Range(t) = {}
  PROVE  strtok(t, 1, delims).token = t
<1>1. Len(t) \in Nat /\ Len(t) >= 1
  OBVIOUS
<1>2. \A k \in 1..Len(t) : t[k] \in Symbols /\ t[k] \notin delims
  <2>1. \A k \in 1..Len(t) : t[k] \in Range(t)
    BY DEF Range
  <2> QED
    BY <2>1
<1>a. 1 \in Nat \ {0} /\ 1 \in 1..(Len(t) + 1) /\ Len(t) + 1 \in 1..(Len(t) + 1)
  BY <1>1
<1>3. NextAt(t, 1, Symbols \ delims) = 1
  <2>1. \A j \in 1..(1 - 1) : t[j] \notin Symbols \ delims
    OBVIOUS
  <2>2. t[1] \in Symbols \ delims
    BY <1>1, <1>2
  <2> QED
    BY <1>a, <2>1, <2>2, NextAtUnique
<1>4. NextAt(t, 1, delims) = Len(t) + 1
  <2>1. \A j \in 1..((Len(t) + 1) - 1) : t[j] \notin delims
    BY <1>1, <1>2
  <2>2. ~(Len(t) + 1 <= Len(t))
    BY <1>1
  <2> QED
    BY <1>a, <2>1, <2>2, NextAtUnique
<1>5. strtok(t, 1, delims).token = SubSeq(t, 1, (Len(t) + 1) - 1)
  BY <1>3, <1>4 DEF strtok
<1>6. SubSeq(t, 1, Len(t)) = t
  BY SubSeqFull
<1>7. (Len(t) + 1) - 1 = Len(t)
  BY <1>1
<1> QED
  BY <1>5, <1>6, <1>7

\* A value whose text is one token is read as it was stored, unless it is a
\* Boolean.
LEMMA AsReadIsStored ==
  ASSUME NEW i, record[i] \in Values, record[i].dt # "BOOL", OneToken(i)
  PROVE  AsRead(i) = Stored(record[i])
<1> DEFINE v == record[i]
<1>1. v.dt \in DataTypes
  BY ValueForms
<1>2. CASE v.dt \in {"INT", "FLOAT"}
  BY <1>2 DEF AsRead, Stored
<1>3. CASE v.dt = "STRING"
  <2>1. v.str \in Seq(Symbols) /\ v.str # <<>> /\ ValueEnd(i) \cap Range(v.str) = {}
    BY <1>3, ValueForms DEF OneToken
  <2>2. Cut(i) = v.str
    BY <2>1, StrtokWhole DEF Cut
  <2>3. StringV(v.str) = v
    BY <1>3 DEF StringV, Values
  <2> QED
    BY <1>3, <2>2, <2>3 DEF AsRead, Stored
<1> QED
  BY <1>1, <1>2, <1>3 DEF DataTypes

LEMMA ReadAsStored ==
  ASSUME Phase, Contents, ReadsText
  PROVE  RecordReadBack
<1> SUFFICES ASSUME pc = "read", Legible, NEW i \in 1..NumAttr,
                    record[i].dt # "BOOL", OneToken(i)
             PROVE  out[i] = Stored(record[i])
  BY DEF RecordReadBack
<1>1. Begun
  BY DEF Phase, Begun
<1>2. Held(record, rel.attrs) /\ Len(record) = NumAttr
  BY <1>1 DEF Contents
<1>3. record[i] \in Values
  BY <1>2 DEF Held, Storable
<1>4. out[i] = AsRead(i)
  BY DEF ReadsText
<1> QED
  BY <1>3, <1>4, AsReadIsStored

\* When the loop is over, all attributes have been read.
LEMMA ReadsTextStep ==
  ASSUME Phase, Contents, Place, Gathered, Next
  PROVE  ReadsText'
<1>1. CASE recordParsed
  <2>1. /\ pc = "reading" /\ attr > NumAttr /\ page # NULL /\ Begun
        /\ UNCHANGED <<rel, record, page, out>>
        /\ attr \in 1..(NumAttr + 1) /\ Len(out) = attr - 1
    BY <1>1 DEF recordParsed, Phase, Begun, Place
  <2>2. NumAttr \in Nat
    BY <2>1, AttrsTyped DEF Phase
  <2>3. attr - 1 = NumAttr
    BY <2>1, <2>2
  <2>4. out \in Seq(Values)
    BY <2>1 DEF Contents, Held
  <2>5. /\ NumAttr' = NumAttr
        /\ Legible' <=> Legible
        /\ \A i : AsRead(i)' = AsRead(i)
    BY <2>1, LegiblePrimed
  <2> SUFFICES ASSUME Legible
               PROVE  out = [i \in 1..NumAttr |-> AsRead(i)]
    BY <2>1, <2>5 DEF ReadsText
  <2>6. \A i \in 1..NumAttr : out[i] = AsRead(i)
    BY <2>1, <2>3 DEF Gathered
  <2>7. out = [i \in 1..NumAttr |-> out[i]]
    BY <2>1, <2>3, <2>4
  <2> QED
    BY <2>6, <2>7
<1>2. CASE pc' # "read"
  BY <1>2 DEF ReadsText
<1> QED
  BY <1>1, <1>2
  DEF Next, createTable, openTable, createRecord, setNextAttr, insertRecord, updateRecord,
      StartWriting, serializeNext, recordWritten, deleteRecord, getRecord, parseNext, next

\* Only a blank value leaves the parser no token.
LEMMA EndsOnlyOnBlankStep ==
  ASSUME Phase, Contents, Place, PageLayout, Next
  PROVE  EndsOnlyOnBlank'
<1>1. CASE parseNext
  <2>1. /\ pc = "reading" /\ page # NULL /\ attr \in 1..NumAttr /\ NumAttr \in Nat
        /\ UNCHANGED <<rel, record, page>> /\ Len(out) = attr - 1
    BY <1>1, AtStep
  <2>2. PICK starts : Laid(starts) /\ Following(starts)
    BY <1>1, AtStep
  <2>3. NumAttr' = NumAttr /\ \A i : Blank(i)' <=> Blank(i)
    BY <2>1, LegiblePrimed
  <2> SUFFICES ASSUME pc' = "ended", \A i \in 1..NumAttr : ~Blank(i)
               PROVE  FALSE
    BY <2>3 DEF EndsOnlyOnBlank
  <2>4. ValueToken(attr).token = <<>>
    BY <1>1, <2>1 DEF parseNext
  <2>5. saved <= starts[attr] /\ ~Blank(attr) /\ attr <= NumAttr
    BY <2>1, <2>2 DEF Following
  <2> QED
    BY <2>1, <2>2, <2>4, <2>5, NotPast
<1>2. ASSUME NEW cond \in Conditions, next(cond) PROVE EndsOnlyOnBlank'
  <2>1. \E r \in {"returned", "skipped", "ended"} : answer' = [cond |-> cond, result |-> r]
    BY <1>2 DEF next
  <2>2. answer' \in [cond : Conditions, result : {"returned", "skipped", "ended"}]
    BY <2>1
  <2>3. answer' # NULL
    BY <2>2, NullAssumption
  <2> QED
    BY <2>3 DEF EndsOnlyOnBlank
<1>3. CASE pc' # "ended" \/ page' = NULL
  BY <1>3 DEF EndsOnlyOnBlank
<1> QED
  BY <1>1, <1>2, <1>3
  DEF Next, createTable, openTable, createRecord, setNextAttr, insertRecord, updateRecord,
      StartWriting, serializeNext, recordWritten, deleteRecord, getRecord, recordParsed, Phase
-----------------------------------------------------------------------------
\* The invariant holds at the start ...
LEMMA IInvInit == Init => IInv
<1> SUFFICES ASSUME Init PROVE IInv
  OBVIOUS
<1>1. /\ pc = "start" /\ page = NULL /\ answer = NULL
      /\ record = <<>> /\ text = <<>> /\ out = <<>>
  BY DEF Init
<1>2. ~Begun
  BY <1>1 DEF Begun
<1>3. Phase
  BY <1>1, <1>2 DEF Phase, Phases
<1>4. Place
  BY <1>1, ShortTexts DEF Place
<1>5. Contents /\ Answered
  BY <1>1, <1>2 DEF Contents, Answered
<1>6. TextLayout /\ PageLayout /\ Gathered /\ ReadsText /\ EndsOnlyOnBlank
  BY <1>1 DEF TextLayout, PageLayout, Gathered, ReadsText, EndsOnlyOnBlank
<1> QED
  BY <1>3, <1>4, <1>5, <1>6 DEF IInv

\* ... when nothing changes ...
LEMMA IInvUnchanged == IInv /\ UNCHANGED vars => IInv'
<1> SUFFICES ASSUME IInv, UNCHANGED vars PROVE IInv'
  OBVIOUS
<1>1. UNCHANGED <<pc, schema, page0, rel, heap, record, page, text, attr, saved, out, answer>>
  BY DEF vars
<1>2. Phase' /\ Contents' /\ Place'
  BY <1>1 DEF IInv, Phase, Contents, Place, Begun, SameAttrs, NumAttr, Held
<1>3. Answered'
  BY <1>1 DEF IInv, Answered, NumAttr
<1>4. TextLayout'
  BY <1>1 DEF IInv, TextLayout, LaidOut, Separated, Written, Separator, Name, Text, NumAttr
<1>5. NumAttr' = NumAttr /\ (Legible' <=> Legible) /\ \A i : (Blank(i)' <=> Blank(i)) /\ AsRead(i)' = AsRead(i)
  BY <1>1, LegiblePrimed
<1>6. PageLayout'
  <2> SUFFICES ASSUME page # NULL, pc # "writing" PROVE PageLayout'
    BY <1>1 DEF PageLayout
  <2>1. PICK starts : /\ LaidOut(page, starts, NumAttr)
                      /\ Separated(page, starts, NumAttr)
                      /\ Following(starts)
    BY DEF IInv, PageLayout
  <2>2. LaidOut(page, starts, NumAttr)' /\ Separated(page, starts, NumAttr)'
    BY <1>1, <2>1, PageLayoutPrimed
  <2>3. Following(starts)'
    BY <1>1, <1>5, <2>1 DEF Following
  <2> QED
    BY <2>2, <2>3 DEF PageLayout
<1>7. Gathered' /\ ReadsText' /\ EndsOnlyOnBlank'
  BY <1>1, <1>5 DEF IInv, Gathered, ReadsText, EndsOnlyOnBlank
<1> QED
  BY <1>2, <1>3, <1>4, <1>6, <1>7 DEF IInv

\* ... and after every step.
LEMMA IInvStep == IInv /\ [Next]_vars => IInv'
<1>1. ASSUME IInv, Next PROVE IInv'
  <2>1. Phase /\ Contents /\ Place /\ Answered /\ TextLayout /\ PageLayout /\ Gathered
    BY <1>1 DEF IInv
  <2>2. Place'
    BY <1>1, <2>1, PlaceStep
  <2>3. Phase'
    BY <1>1, <2>1, <2>2, PhaseStep
  <2>4. Contents'
    BY <1>1, <2>1, <2>3, ContentsStep
  <2>5. Answered'
    BY <1>1, <2>1, AnsweredStep
  <2>6. TextLayout'
    BY <1>1, <2>1, <2>2, TextLayoutStep
  <2>7. PageLayout'
    BY <1>1, <2>1, PageLayoutStep
  <2>8. Gathered'
    BY <1>1, <2>1, GatheredStep
  <2>9. ReadsText' /\ EndsOnlyOnBlank'
    BY <1>1, <2>1, ReadsTextStep, EndsOnlyOnBlankStep
  <2> QED
    BY <2>2, <2>3, <2>4, <2>5, <2>6, <2>7, <2>8, <2>9 DEF IInv
<1> QED
  BY <1>1, IInvUnchanged

\* The invariant of one record of one table: the values, the texts and the
\* loops of createRecord, serializeRecord, the record parser and next.
THEOREM QueryInvariant == Spec => []IInv
BY IInvInit, IInvStep, PTL DEF Spec

\* Values stay inside their attributes, those read from a text included, and
\* the loops inside the record: the part of TypeOK that does not rest on the
\* text of the schema (setAttr in rm_serializer.c, object_parser.c).
THEOREM RecordTyped == Spec => []RecordOK
<1>1. ASSUME IInv PROVE RecordOK
  <2>1. Phase /\ Contents /\ Place /\ Answered
    BY <1>1 DEF IInv
  <2>2. ASSUME NEW values, Held(values, rel.attrs), NEW i \in DOMAIN values
        PROVE  Fits(values[i], rel.attrs[i])
    <3>1. i \in 1..Len(values)
      BY <2>2 DEF Held
    <3> QED
      BY <2>2, <3>1 DEF Held, Storable
  <2>3. CASE Begun
    <3>1. Held(record, rel.attrs) /\ Held(out, rel.attrs)
      BY <2>1, <2>3 DEF Contents
    <3>2. /\ \A i \in DOMAIN record : Fits(record[i], rel.attrs[i])
          /\ \A i \in DOMAIN out : Fits(out[i], rel.attrs[i])
      BY <2>2, <3>1
    <3> QED
      BY <2>1, <2>3, <3>2 DEF RecordOK, Phase, Contents, Place, Answered
  <2>4. CASE ~Begun
    <3>1. /\ record = <<>> /\ out = <<>> /\ answer = NULL
          /\ pc \notin {"filling", "writing", "reading", "read"}
      BY <2>1, <2>4 DEF Phase, Begun
    <3>2. DOMAIN record = {} /\ DOMAIN out = {}
      BY <3>1
    <3> QED
      BY <2>1, <3>1, <3>2 DEF RecordOK, Phase
  <2> QED
    BY <2>3, <2>4
<1> QED
  BY <1>1, QueryInvariant, PTL

\* getRecord gives back the numbers of a record, and the strings that do not
\* hold the end of their values, as they were stored (object_parser.c).
THEOREM RecordIsReadBack == Spec => []RecordReadBack
<1>1. IInv => RecordReadBack
  BY ReadAsStored DEF IInv
<1> QED
  BY <1>1, QueryInvariant, PTL

\* The process ends in getRecord only on a string that leaves the parser no
\* token (object_parser.c).
THEOREM EndsOnBlankOnly == Spec => []EndsOnlyOnBlank
<1>1. IInv => EndsOnlyOnBlank
  BY DEF IInv
<1> QED
  BY <1>1, QueryInvariant, PTL

\* serializeValue and stringToValue give back every value a caller has set,
\* but for the digits %f does not write (rm_serializer.c).
THEOREM ValueIsReadBack == Spec => []ValueReadBack
<1>1. IInv => ValueReadBack
  BY ValuesReadBack DEF IInv
<1> QED
  BY <1>1, QueryInvariant, PTL

\* next decides a well-typed condition of comparisons and NOT as it should, and
\* evalExpr does not end the process on it (record_mgr.c, expr.c).
THEOREM ComparisonsDecided == Spec => []DecidesComparisons
<1>1. IInv => DecidesComparisons
  BY Decides DEF IInv
<1> QED
  BY <1>1, QueryInvariant, PTL

\* A record that next returns satisfies a well-typed condition, AND and OR
\* included (record_mgr.c, expr.c).
THEOREM ReturnedIsSatisfied == Spec => []ReturnedSatisfies
<1>1. IInv => ReturnedSatisfies
  BY Satisfies DEF IInv
<1> QED
  BY <1>1, QueryInvariant, PTL
=============================================================================
