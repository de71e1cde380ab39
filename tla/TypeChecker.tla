----------------------------- MODULE TypeChecker ----------------------------
(* What the analyzer reports about the types of a program before it is         *)
(* compiled.  A type that cannot be worked out is unknown and fits everywhere. *)
(* Programs here have no type hints, so what a parameter, a field or a call of *)
(* one of their functions is stays unknown; of the hints of the prelude, the   *)
(* one of panic's message is left.                                             *)
EXTENDS Resolver, Values

(* --------------------------------- types --------------------------------- *)
\* of: the element of an array or the result of a function, where it is known.
Unknown == [kind |-> "unknown", name |-> "", of |-> <<>>, params |-> <<>>, attrs |-> {}]
IsKnown(t) == t.kind # "unknown"
BuiltinType(name) == [Unknown EXCEPT !.kind = "builtin", !.name = name]
ArrayType(elem) == [Unknown EXCEPT !.kind = "array", !.of = elem]
FunctionType(name, params, result) ==
  [Unknown EXCEPT !.kind = "func", !.name = name, !.params = params, !.of = <<result>>]
DataType(T) == [Unknown EXCEPT !.kind = "data", !.name = T]

\* What is written on the declarations of the types.
DeclaredAttributes ==
  [Int |-> {"Numeric"}, String |-> {"Printable", "Countable", "Iterable"}, Array |-> {"Countable", "Iterable"}]
  @@ [T \in {"Option", "Some", "None"} |-> {"AnyOption"}]
  @@ [Result |-> {"AnyResult"}, Ok |-> {"AnyResult"}, Err |-> {"AnyResult", "Error"}]
  @@ [T \in DOMAIN Conversions |-> DOMAIN Conversions[T]]

\* The type a name stands for as a type, or the attributes that are asked for.
ResolveHint(types) ==
  CASE types[1] \in Attributes        -> [Unknown EXCEPT !.kind = "attrs", !.attrs = ToSet(types)]
    [] types[1] \in DOMAIN Unions     -> [Unknown EXCEPT !.kind = "union", !.name = types[1]]
    [] types[1] \in DOMAIN DataFields -> DataType(types[1])
    [] OTHER                          -> BuiltinType(types[1])

\* The type of the value a name of the prelude is bound to: the constructor.
PreludeValue(x) ==
  IF x = "panic" THEN FunctionType("", <<BuiltinType("String")>>, BuiltinType("Void"))
  ELSE FunctionType(x, [i \in DOMAIN DataFields[x] |-> Unknown], DataType(x))

IsBuiltin(t, name) == t.kind = "builtin" /\ t.name = name
SameType(s, t) == s.kind = t.kind /\ s.name = t.name
MightBeAnything(t) == t.kind \in {"unknown", "union", "attrs"}

\* The type all of them have, or unknown when they disagree.
Common(types) ==
  IF types # <<>> /\ \A i \in DOMAIN types : IsKnown(types[i]) /\ SameType(types[1], types[i])
  THEN types[1] ELSE Unknown

(* ---------------------------------- fits --------------------------------- *)
BuiltinNameForKind(kind) == CASE kind = "array" -> "Array" [] kind = "func" -> "Func" [] OTHER -> ""

\* A type that says nothing about attributes is left alone.
CarriesAttributes(t, required) ==
  t.kind \in {"builtin", "data", "union"} /\ t.name \in DOMAIN DeclaredAttributes
    => required \subseteq DeclaredAttributes[t.name]

\* Not certainly wrong where target is expected.
RECURSIVE Fits(_, _)
Fits(value, target) ==
  CASE ~IsKnown(value) \/ ~IsKnown(target) -> TRUE
    [] value.kind = "union" /\ SameType(value, target) -> TRUE
    [] target.kind = "union" -> \E T \in Unions[target.name] : Fits(value, DataType(T))
    [] value.kind = "union" -> \E T \in Unions[value.name] : Fits(DataType(T), target)
    [] target.kind = "attrs" -> CarriesAttributes(value, target.attrs)
    [] value.kind = "attrs" -> TRUE
    [] IsBuiltin(target, BuiltinNameForKind(value.kind)) -> TRUE
    [] IsBuiltin(value, BuiltinNameForKind(target.kind)) -> TRUE
    [] value.kind # target.kind -> FALSE
    [] value.kind = "array" -> value.of = <<>> \/ target.of = <<>> \/ Fits(value.of[1], target.of[1])
    [] value.kind = "func" -> Len(value.params) = Len(target.params)
    [] OTHER -> value.name = target.name

(* ------------------------------- operators ------------------------------- *)
ArithmeticOperators == {"+", "-", "*", "/", "%", "<", "<=", ">", ">="}
IsNumeric(t) == IsBuiltin(t, "Int")
HasTextualForm(t) == t.kind = "builtin" /\ t.name \in {"String", "Int", "Byte", "Bool", "Void"}
Concatenates(l, r) == IsBuiltin(l, "String") \/ IsBuiltin(r, "String")

ArithmeticApplies(o, l, r) ==
  \/ MightBeAnything(l) \/ MightBeAnything(r)
  \/ o = "+" /\ Concatenates(l, r) /\ HasTextualForm(l) /\ HasTextualForm(r)
  \/ IsNumeric(l) /\ IsNumeric(r)

InferArithmetic(o, l, r) ==
  CASE MightBeAnything(l) \/ MightBeAnything(r) -> Unknown
    [] o = "+" /\ Concatenates(l, r)            -> BuiltinType("String")
    [] IsNumeric(l) /\ IsNumeric(r)             -> BuiltinType("Int")
    [] OTHER                                    -> Unknown

\* A fallback's left side holds something known only where a hint says so.
InferBinaryOperator(o, l, r) ==
  CASE o \in {"==", "!=", "&&", "||", "<", "<=", ">", ">="} -> BuiltinType("Bool")
    [] o \in {"??", "!!"} -> Unknown
    [] OTHER -> InferArithmetic(o, l, r)

(* ------------------------------- inference ------------------------------- *)
\* cx: decls     the constants, variables and functions, by name
\*     assigned  the expressions a plain assignment gives a variable
\*     busy      the names whose type is being worked out
\*     scope     the names that can be seen
\*     narrowed  what a branch proves of the name that is switched on
LiteralTypes == [Int |-> "Int", Bool |-> "Bool", Void |-> "Void", String |-> "String", Interpolation |-> "String", Is |-> "Bool"]

RECURSIVE Infer(_, _)
InferAll(cx, ns) == [i \in DOMAIN ns |-> Infer(cx, ns[i])]

InferArray(cx, n) ==
  LET elem == Common(InferAll(cx, Children(n))) IN ArrayType(IF IsKnown(elem) THEN <<elem>> ELSE <<>>)

InferFunc(fn) == FunctionType("", [i \in DOMAIN Params(fn) |-> Unknown], Unknown)

\* A variable holds what it was declared with and all that is assigned to it.
InferIdentifier(cx, x) ==
  LET inner == [cx EXCEPT !.busy = @ \cup {x}] IN
  CASE x \in DOMAIN cx.decls /\ Kind(cx.decls[x]) = "DeclFunc" -> InferFunc(Child(cx.decls[x], 1))
    [] x \in DOMAIN cx.decls /\ x \in cx.busy -> Unknown
    [] x \in DOMAIN cx.decls -> Common(InferAll(inner, Children(cx.decls[x]) \o cx.assigned[x]))
    [] x \in DOMAIN Prelude -> PreludeValue(x)
    [] OTHER -> Unknown

InferInvocation(callee) == IF callee.kind = "func" THEN callee.of[1] ELSE Unknown

InferIf(cx, n) == Common(InferAll(cx, [i \in DOMAIN Arms(n) |-> Arms(n)[i][2]] \o ElseOf(n)))

InferSwitch(cx, n) ==
  IF \E c \in ToSet(Cases(n)) : CaseKind(c) = "default"
  THEN Common(InferAll(cx, [i \in DOMAIN Cases(n) |-> LastChild(Cases(n)[i])])) ELSE Unknown

InferIndexAccess(target) ==
  CASE target.kind = "array" /\ target.of # <<>> -> target.of[1]
    [] IsBuiltin(target, "String") -> BuiltinType("Byte")
    [] OTHER -> Unknown

Infer(cx, n) ==
  CASE Kind(n) \in DOMAIN LiteralTypes -> BuiltinType(LiteralTypes[Kind(n)])
    [] Kind(n) = "Array"      -> InferArray(cx, n)
    [] Kind(n) = "Func"       -> InferFunc(n)
    [] Kind(n) = "Identifier" -> InferIdentifier(cx, Label(n))
    [] Kind(n) = "Invocation" -> InferInvocation(Infer(cx, Child(n, 1)))
    [] Kind(n) = "Binary"     -> InferBinaryOperator(Label(n), Infer(cx, Child(n, 1)), Infer(cx, Child(n, 2)))
    [] Kind(n) = "ExprIf"     -> InferIf(cx, n)
    [] Kind(n) = "ExprSwitch" -> InferSwitch(cx, n)
    [] Kind(n) = "Index"      -> InferIndexAccess(Infer(cx, Child(n, 1)))
    [] OTHER -> Unknown

\* What the branch being checked proves of a plain name goes first.
InferHere(cx, n) ==
  IF Kind(n) = "Identifier" /\ Label(n) \in DOMAIN cx.narrowed THEN cx.narrowed[Label(n)] ELSE Infer(cx, n)

(* --------------------------------- checks -------------------------------- *)
\* Each gives what it reports about one node.
When(wrong, summary) == IF wrong THEN {summary} ELSE {}

CheckInvocation(cx, n) ==
  LET callee == InferHere(cx, Child(n, 1))
      args   == Tail(Children(n))
  IN  CASE ~IsKnown(callee) -> {}
        [] callee.kind # "func" -> {"not callable"}
        [] Len(args) # Len(callee.params) -> {"wrong number of arguments"}
        [] OTHER -> When(\E i \in DOMAIN args : ~Fits(InferHere(cx, args[i]), callee.params[i]), "wrong argument type")

CheckBinaryOperator(cx, n) ==
  When(/\ Label(n) \in ArithmeticOperators
       /\ ~ArithmeticApplies(Label(n), InferHere(cx, Child(n, 1)), InferHere(cx, Child(n, 2))),
       "unsupported operator")

CheckUnaryOperator(cx, n) ==
  LET operand == InferHere(cx, Child(n, 1))
  IN  When(/\ ~MightBeAnything(operand)
           /\ CASE Label(n) = "-" -> ~IsNumeric(operand) [] Label(n) = "!" -> ~IsBuiltin(operand, "Bool") [] OTHER -> FALSE,
           "unsupported operator")

\* What a guarded access reads from is known only where a hint says so.
CheckMemberAccess(cx, n) ==
  LET target == InferHere(cx, Child(n, 1))
  IN  When(Access(n) = "." /\ target.kind = "data" /\ ~Contains(DataFields[target.name], Label(n)[2]), "unknown field")

IsIndexable(t) == t.kind = "array" \/ IsBuiltin(t, "Array") \/ IsBuiltin(t, "String")
CheckIndexAccess(cx, n) ==
  LET target == InferHere(cx, Child(n, 1))
  IN  When(~MightBeAnything(target) /\ ~IsIndexable(target), "not indexable")

CheckIterated(cx, n) ==
  LET value == InferHere(cx, Child(n, 1))
  IN  When(/\ Form(n) = "in"
           /\ ~MightBeAnything(value) /\ value.kind # "array" /\ ~IsBuiltin(value, "Array")
           /\ ~CarriesAttributes(value, {"Iterable"}), "not iterable")

CheckAssignment(cx, n) ==
  When(Label(n) = "" /\ ~Fits(InferHere(cx, Child(n, 2)), InferHere(cx, Child(n, 1))), "wrong type")

CheckIdentifier(cx, n) == When(Label(n) \notin cx.scope, "undefined")

CheckNode(cx, n) ==
  CASE Kind(n) = "Invocation" -> CheckInvocation(cx, n)
    [] Kind(n) = "Binary"     -> CheckBinaryOperator(cx, n)
    [] Kind(n) = "Unary"      -> CheckUnaryOperator(cx, n)
    [] Kind(n) = "Member"     -> CheckMemberAccess(cx, n)
    [] Kind(n) = "Index"      -> CheckIndexAccess(cx, n)
    [] Kind(n) \in {"For", "ExprFor"} -> CheckIterated(cx, n)
    [] Kind(n) = "Assign"     -> CheckAssignment(cx, n)
    [] Kind(n) = "Identifier" -> CheckIdentifier(cx, n)
    [] OTHER -> {}

(* ---------------------------------- walk --------------------------------- *)
\* A switch on a plain name tells an `is` branch what the name is.
Narrow(cx, value, c) ==
  IF Kind(value) = "Identifier" /\ CaseKind(c) = "is"
  THEN [cx EXCEPT !.narrowed = (Label(value) :> ResolveHint(Label(c)[2])) @@ @] ELSE cx

\* A loop's node is held by value, so it cannot be remembered as visited: every
\* node around it reaches it again, with what is known there.
RECURSIVE LoopsIn(_)
LoopsIn(n) ==
  (IF Kind(n) \in {"For", "ExprFor"} THEN {n} ELSE {}) \cup UNION {LoopsIn(c) : c \in ToSet(Children(n))}

RECURSIVE Walk(_, _)
WalkAll(cx, ns) == UNION {Walk(cx, n) : n \in ToSet(ns)}
Inside(cx, n) == [cx EXCEPT !.scope = @ \cup Symbols(n)]

WalkSwitch(cx, n) ==
  Walk(cx, Child(n, 1)) \cup UNION {WalkAll(Narrow(cx, Child(n, 1), c), Children(c)) : c \in ToSet(Cases(n))}

LoopsAgain(cx, n) == UNION {CheckIterated(cx, l) : l \in LoopsIn(n) \ {n}}

Walk(cx, n) ==
  CASE Kind(n) = "Func" -> WalkAll(Inside(cx, n), Children(n))
    [] Kind(n) \in {"Switch", "ExprSwitch"} -> WalkSwitch(cx, n)
    [] Kind(n) = "ExprFor" -> CheckNode(cx, n) \cup WalkAll(cx, HeadParts(n)) \cup WalkAll(Inside(cx, n), TableParts(n)) \cup LoopsAgain(cx, n)
    [] OTHER -> CheckNode(cx, n) \cup WalkAll(cx, Children(n)) \cup LoopsAgain(cx, n)

(* -------------------------------- programs ------------------------------- *)
RECURSIVE DeclsIn(_), AssignsIn(_)
DeclsIn(n) ==
  (IF Kind(n) \in {"Constant", "Variable", "DeclFunc"} THEN {n} ELSE {}) \cup UNION {DeclsIn(c) : c \in ToSet(Children(n))}
AssignsIn(n) ==
  (IF Kind(n) = "Assign" THEN <<n>> ELSE <<>>) \o Concat(AssignsIn, Children(n))

\* A compound assignment is not among those that tell what a variable holds.
CollectVariableAssignments(program, x) ==
  LET to == SelectSeq(Concat(AssignsIn, program), LAMBDA n : Label(n) = "" /\ Kind(Child(n, 1)) = "Identifier" /\ Label(Child(n, 1)) = x)
  IN  [i \in DOMAIN to |-> Child(to[i], 2)]

\* Everything the analyzer says of the types of a program.
CheckTypes(program) ==
  LET decls == UNION {DeclsIn(d) : d \in ToSet(program)}
      names == {Label(d) : d \in decls}
  IN  WalkAll([decls    |-> [x \in names |-> CHOOSE d \in decls : Label(d) = x],
               assigned |-> [x \in names |-> CollectVariableAssignments(program, x)],
               busy |-> {}, narrowed |-> <<>>,
               scope |-> {Label(d) : d \in ToSet(program)} \cup DOMAIN Prelude], program)
=============================================================================
