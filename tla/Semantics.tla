----------------------------- MODULE Semantics ------------------------------
(* What a program means, said without code, frames or stack: an evaluator over *)
(* the syntax tree that the compiled program has to agree with.  A result has  *)
(* a kind k, a value v, the heap h it leaves and, for a statement, the          *)
(* environment e in which the next one runs:                                   *)
(*   ok        it went on              fail      the program stopped            *)
(*   return    the function returns    break, continue   of the nearest loop    *)
(*   none      a `?.` chain is None    exit      a loop body run by an iterator *)
(*                                               returns from its function      *)
(* Every name is bound to a cell of its own, made when it is declared.          *)
EXTENDS Resolver, Values

Ok(v, h) == [k |-> "ok", v |-> v, h |-> h]
Done(h, e) == [k |-> "ok", v |-> Void, h |-> h, e |-> e]
FailWith(h) == [k |-> "fail", v |-> Void, h |-> h]
Outcome(k, v, h) == [k |-> k, v |-> v, h |-> h]
Then(r, F(_)) == IF r.k = "ok" THEN F(r) ELSE r

Ops == [o \in {"+", "-", "*", "/", "%", "<", "<=", ">", ">="} |->
  CASE o = "+" -> "Add" [] o = "-" -> "Sub" [] o = "*" -> "Mul" [] o = "/" -> "Div" [] o = "%" -> "Mod"
    [] o = "<" -> "LessThan" [] o = "<=" -> "LessThanOrEqual" [] o = ">" -> "GreaterThan" [] OTHER -> "GreaterThanOrEqual"]

Bind(e, x, h) == (x :> Len(h) + 1) @@ e
New(h, object) == Ok(<<"ref", Len(h) + 1>>, Append(h, object))

RECURSIVE Ev(_, _, _, _), EvList(_, _, _, _), Apply(_, _, _, _), Exec(_, _, _, _), ExecAll(_, _, _, _), EvBody(_, _, _, _),
          Arm(_, _, _, _, _, _), Chain(_, _, _, _), Each(_, _, _, _, _), While(_, _, _, _),
          Collect(_, _, _, _), CaseOf(_, _, _, _, _, _)

\* fs: the functions of the program, by name.
EvList(fs, ns, e, h) ==
  IF ns = <<>> THEN Ok(<<>>, h)
  ELSE Then(Ev(fs, Head(ns), e, h), LAMBDA r :
       Then(EvList(fs, Tail(ns), e, r.h), LAMBDA q : Ok(<<r.v>> \o q.v, q.h)))

(* ------------------------------ functions -------------------------------- *)
\* A function's value is that of a return, or that of its last statement.
Apply(fs, f, args, h) ==
  CASE IsA(f, "closure") ->
         LET ps == Params(f[2])
             e  == Fold(LAMBDA a, i : (ps[i] :> Len(h) + i) @@ a, f[3], [i \in DOMAIN ps |-> i])
             h1 == h \o [i \in DOMAIN ps |-> <<"cell", args[i]>>]
             r  == EvBody(fs, Children(Child(f[2], 1)), e, h1)
         IN  IF Len(ps) # Len(args) THEN FailWith(h)
             ELSE IF r.k = "return" THEN Ok(r.v, r.h) ELSE r
    [] IsA(f, "type") ->
         IF Len(args) = Len(DataFields[f[2]]) THEN New(h, <<"data", args, f[2]>>) ELSE FailWith(h)
    [] IsA(f, "host") ->
         \* The body of a loop, run with the value the iterator gave.
         LET n == f[2]
             r == Exec(fs, LastChild(n), Bind(f[3], Binding(n), h), Append(h, <<"cell", args[1]>>))
             c == Collect(fs, n, Bind(f[3], Binding(n), h), Append(h, <<"cell", args[1]>>))
             b == IF Kind(n) = "For" THEN r ELSE c
         IN  IF Len(args) # 1 \/ ~h[f[4]][2] THEN FailWith(h)
             ELSE CASE b.k \in {"ok", "continue"} -> Ok(Bool(TRUE), b.h)
                    [] b.k = "break"  -> Ok(Bool(FALSE), b.h)
                    [] b.k = "return" -> Outcome("exit", <<f[4], b.v>>, b.h)
                    [] OTHER -> b
    [] OTHER -> FailWith(h)

EvBody(fs, stmts, e, h) ==
  IF stmts = <<>> THEN Ok(Void, h)
  ELSE Then(ExecAll(fs, Front(stmts), e, h), LAMBDA r :
       LET n == Last(stmts) IN
       CASE Kind(n) = "Expr" -> Ev(fs, Child(n, 1), r.e, r.h)
         [] Kind(n) = "If" /\ Label(n) -> Arm(fs, Arms(n) , ElseOf(n), "body", r.e, r.h)
         [] Kind(n) = "Switch" ->
              Then(Ev(fs, Child(n, 1), r.e, r.h), LAMBDA v : CaseOf(fs, Cases(n), v.v, "body", r.e, v.h))
         [] OTHER -> Then(Exec(fs, n, r.e, r.h), LAMBDA q : Ok(Void, q.h)))

(* ------------------------------ branches --------------------------------- *)
\* A branch is an expression, a function body, a block or a block whose
\* expressions are collected.
Branch(fs, n, as, e, h) ==
  CASE as = "value" -> Ev(fs, n, e, h)
    [] as = "body"  -> EvBody(fs, Children(n), e, h)
    [] as = "block" -> Exec(fs, n, e, h)
    [] as = "collect" -> ExecAll(fs, Children(n), e, h)

\* A condition holds unless it is false.
Arm(fs, arms, els, as, e, h) ==
  IF arms = <<>> THEN IF els = <<>> THEN Done(h, e) ELSE Branch(fs, els[1], as, e, h)
  ELSE Then(Ev(fs, arms[1][1], e, h), LAMBDA r :
       IF r.v = Bool(FALSE) THEN Arm(fs, Tail(arms), els, as, e, r.h) ELSE Branch(fs, arms[1][2], as, e, r.h))

CaseOf(fs, cases, v, as, e, h) ==
  IF cases = <<>> THEN Done(h, e)
  ELSE LET c == Head(cases) IN
       CASE CaseKind(c) = "default" -> Branch(fs, LastChild(c), as, e, h)
         [] CaseKind(c) = "is" ->
              IF \A i \in DOMAIN Label(c)[2] : IsType(h, v, Label(c)[2][i]) THEN Branch(fs, LastChild(c), as, e, h)
              ELSE CaseOf(fs, Tail(cases), v, as, e, h)
         [] CaseKind(c) = "value" ->
              Then(Ev(fs, Child(c, 1), e, h), LAMBDA r :
                IF ValuesEqual(r.h, v, r.v) THEN Branch(fs, LastChild(c), as, e, r.h)
                ELSE CaseOf(fs, Tail(cases), v, as, e, r.h))

(* -------------------------------- loops ---------------------------------- *)
\* One turn of a loop; a `for` expression declares first and collects.
Collect(fs, n, e, h) ==
  LET decls == Children(n)[Len(Children(n)) - 1]
  IN  Then(ExecAll(fs, Children(decls), e, h), LAMBDA r :
           ExecAll(fs, Children(LastChild(n)), ("collecting" :> TRUE) @@ r.e, r.h))
Turn(fs, n, e, h) == IF Kind(n) = "For" THEN Exec(fs, LastChild(n), e, h) ELSE Collect(fs, n, e, h)

While(fs, n, e, h) ==
  LET c == IF Form(n) = "while" THEN Ev(fs, Child(n, 1), e, h) ELSE Ok(Bool(TRUE), h)
  IN  Then(c, LAMBDA r :
      IF r.v = Bool(FALSE) THEN Done(r.h, e)
      ELSE LET t == Turn(fs, n, e, r.h)
           IN  CASE t.k \in {"ok", "continue"} -> While(fs, n, e, t.h)
                 [] t.k = "break" -> Done(t.h, e)
                 [] OTHER -> t)

Each(fs, n, i, e, h) ==
  LET a == e["iterated"] IN
  IF i > Len(h[a][2]) THEN Done(h, e)
  ELSE LET t == Turn(fs, n, Bind(e, Binding(n), h), Append(h, <<"cell", h[a][2][i]>>))
       IN  CASE t.k \in {"ok", "continue"} -> Each(fs, n, i + 1, e, t.h)
             [] t.k = "break" -> Done(t.h, e)
             [] OTHER -> t

\* An iterator is called with the value and with the loop's body as yield.
Iterate(fs, n, v, e, h) ==
  LET flag == Len(h) + 1
      f == <<"closure", fs[AttributesOf(h, v)["Iterable"][2]], <<>>>>
      r == Apply(fs, f, <<v, <<"host", n, e, flag>>>>, Append(h, <<"flag", TRUE>>))
      after == [r.h EXCEPT ![flag] = <<"flag", FALSE>>]
  IN  CASE r.k = "ok" -> Done(after, e)
        [] r.k = "exit" /\ r.v[1] = flag -> Outcome("return", r.v[2], after)
        [] r.k = "exit" -> Outcome("exit", r.v, after)
        [] OTHER -> r

ForLoop(fs, n, e, h) ==
  IF Form(n) # "in" THEN While(fs, n, e, h)
  ELSE Then(Ev(fs, Child(n, 1), e, h), LAMBDA r :
       CASE IsArray(r.h, r.v) -> Each(fs, n, 1, ("iterated" :> r.v[2]) @@ e, r.h)
         [] IsType(r.h, r.v, "Iterable") -> Iterate(fs, n, r.v, e, r.h)
         [] OTHER -> FailWith(r.h))

(* ------------------------------ statements ------------------------------- *)
ExecAll(fs, ns, e, h) ==
  IF ns = <<>> THEN Done(h, e)
  ELSE Then(Exec(fs, Head(ns), e, h), LAMBDA r : ExecAll(fs, Tail(ns), r.e, r.h))

Collecting(e) == "collecting" \in DOMAIN e
\* What a statement declares in a block is out of sight after it.
Leaves(r, e) == IF r.k = "ok" THEN Done(r.h, e) ELSE r

Assign(fs, n, e, h) ==
  LET t == Child(n, 1)
      combine(old, v) == IF Label(n) = "" THEN <<v>> ELSE NumericBinary(Ops[Label(n)], old, v)
      \* The value comes first for a plain assignment, the target for the others.
      parts == IF Kind(t) = "Member" THEN <<Child(t, 1)>> ELSE Children(t)
      plain == Label(n) = "" \/ Kind(t) = "Identifier"
      first == IF plain THEN <<Child(n, 2)>> \o parts ELSE parts \o <<Child(n, 2)>>
      old   == IF Label(n) # "" /\ Kind(t) = "Identifier" THEN h[e[Label(t)]][2] ELSE Void
  IN  Then(EvList(fs, first, e, h), LAMBDA r :
      LET v == IF plain THEN r.v[1] ELSE Last(r.v)
          p == IF plain THEN Tail(r.v) ELSE Front(r.v)
      IN  CASE Kind(t) = "Identifier" ->
                 LET c == combine(old, v) IN IF c = <<>> THEN FailWith(r.h) ELSE Done([r.h EXCEPT ![e[Label(t)]][2] = c[1]], e)
            [] Kind(t) = "Member" ->
                 IF ~IsData(r.h, p[1]) \/ DataFields[TypeOf(r.h, p[1])] # <<Label(t)[2]>> THEN FailWith(r.h)
                 ELSE LET c == combine(Elements(r.h, p[1])[1], v)
                      IN  IF c = <<>> THEN FailWith(r.h) ELSE Done([r.h EXCEPT ![p[1][2]][2][1] = c[1]], e)
            [] Kind(t) = "Index" ->
                 IF ~IsArray(r.h, p[1]) \/ ~IsA(p[2], "int") \/ p[2][2] \notin 0..Len(Elements(r.h, p[1])) - 1 THEN FailWith(r.h)
                 ELSE LET c == combine(Elements(r.h, p[1])[p[2][2] + 1], v)
                      IN  IF c = <<>> THEN FailWith(r.h) ELSE Done([r.h EXCEPT ![p[1][2]][2][p[2][2] + 1] = c[1]], e))

Exec(fs, n, e, h) ==
  CASE Kind(n) = "Block" -> Leaves(ExecAll(fs, Children(n), e, h), e)
    [] Kind(n) = "Expr"  ->
         Then(Ev(fs, Child(n, 1), e, h), LAMBDA r :
           IF Collecting(e) THEN Done([r.h EXCEPT ![e["result"]][2] = Append(@, r.v)], e) ELSE Done(r.h, e))
    [] Kind(n) = "Return" ->
         IF Children(n) = <<>> THEN Outcome("return", Void, h)
         ELSE Then(Ev(fs, Child(n, 1), e, h), LAMBDA r : Outcome("return", r.v, r.h))
    [] Kind(n) = "Break"    -> Outcome("break", Void, h)
    [] Kind(n) = "Continue" -> Outcome("continue", Void, h)
    [] Kind(n) = "If"     -> Leaves(Arm(fs, Arms(n), ElseOf(n), IF Collecting(e) THEN "collect" ELSE "block", e, h), e)
    [] Kind(n) = "Switch" ->
         Then(Ev(fs, Child(n, 1), e, h), LAMBDA r :
           Leaves(CaseOf(fs, Cases(n), r.v, IF Collecting(e) THEN "collect" ELSE "block", e, r.h), e))
    [] Kind(n) = "For"    -> Leaves(ForLoop(fs, n, e, h), e)
    [] Kind(n) \in {"Variable", "Constant"} ->
         Then(Ev(fs, Child(n, 1), e, h), LAMBDA r : Done(Append(r.h, <<"cell", r.v>>), Bind(e, Label(n), r.h)))
    [] Kind(n) = "DeclFunc" ->
         LET e1 == Bind(e, Label(n), h) IN Done(Append(h, <<"cell", <<"closure", Child(n, 1), e1>>>>), e1)
    [] Kind(n) = "Assign" -> Assign(fs, n, e, h)

(* ----------------------------- expressions ------------------------------- *)
\* A value as an Option or a Result, by its type's own conversion if it has one.
AsWrapper(fs, v, h, union, A) ==
  CASE IsType(h, v, union) -> Ok(v, h)
    [] ~IsType(h, v, union) /\ IsType(h, v, A) ->
         Then(Apply(fs, <<"closure", fs[AttributesOf(h, v)[A][2]], <<>>>>, <<v>>, h), LAMBDA r :
           IF IsType(r.h, r.v, union) THEN r ELSE FailWith(r.h))
    [] OTHER -> FailWith(h)

Field(r, name) ==
  IF IsData(r.h, r.v) /\ \E i \in DOMAIN DataFields[TypeOf(r.h, r.v)] : DataFields[TypeOf(r.h, r.v)][i] = name
  THEN Ok(Elements(r.h, r.v)[1], r.h) ELSE FailWith(r.h)

\* The links of a chain; "none" ends all of it, a missing Result the function.
Chain(fs, n, e, h) ==
  CASE Kind(n) = "Member" ->
         Then(Chain(fs, Child(n, 1), e, h), LAMBDA r :
         CASE Access(n) = "." -> Field(r, Label(n)[2])
           [] Access(n) = "?." ->
                Then(AsWrapper(fs, r.v, r.h, "Option", "AnyOption"), LAMBDA w :
                  IF TypeOf(w.h, w.v) = "None" THEN Outcome("none", w.v, w.h)
                  ELSE Then(Field(w, "value"), LAMBDA u : Field(u, Label(n)[2])))
           [] Access(n) = "!." ->
                Then(AsWrapper(fs, r.v, r.h, "Result", "AnyResult"), LAMBDA w :
                  IF TypeOf(w.h, w.v) = "Err" THEN Outcome("return", w.v, w.h)
                  ELSE Then(Field(w, "value"), LAMBDA u : Field(u, Label(n)[2]))))
    [] Kind(n) = "Index" ->
         Then(Chain(fs, Child(n, 1), e, h), LAMBDA r :
         Then(Ev(fs, Child(n, 2), e, r.h), LAMBDA i :
           IF IsArray(i.h, r.v) /\ IsA(i.v, "int") /\ i.v[2] \in 0..Len(Elements(i.h, r.v)) - 1
           THEN Ok(Elements(i.h, r.v)[i.v[2] + 1], i.h) ELSE FailWith(i.h)))
    [] OTHER -> Ev(fs, n, e, h)

RECURSIVE HasOption(_)
HasOption(n) == Kind(n) \in {"Member", "Index"} /\ ((Kind(n) = "Member" /\ Access(n) = "?.") \/ HasOption(Child(n, 1)))

Fallback(fs, n, e, h, union, A, missing) ==
  Then(Ev(fs, Child(n, 1), e, h), LAMBDA r :
  Then(AsWrapper(fs, r.v, r.h, union, A), LAMBDA w :
    IF TypeOf(w.h, w.v) = missing THEN Ev(fs, Child(n, 2), e, w.h) ELSE Field(w, "value")))

Binary(fs, n, e, h) ==
  Then(EvList(fs, Children(n), e, h), LAMBDA r :
  CASE Label(n) = "==" -> Ok(Bool(ValuesEqual(r.h, r.v[1], r.v[2])), r.h)
    [] Label(n) = "!=" -> Ok(Bool(~ValuesEqual(r.h, r.v[1], r.v[2])), r.h)
    [] OTHER -> LET c == NumericBinary(Ops[Label(n)], r.v[1], r.v[2]) IN IF c = <<>> THEN FailWith(r.h) ELSE Ok(c[1], r.h))

Logical(fs, n, e, h) ==
  Then(Ev(fs, Child(n, 1), e, h), LAMBDA r :
    IF (r.v # Bool(FALSE)) = (Label(n) = "||") THEN Ok(Bool(Label(n) = "||"), r.h)
    ELSE Then(Ev(fs, Child(n, 2), e, r.h), LAMBDA q : IF IsA(q.v, "bool") THEN q ELSE FailWith(q.h)))

Name(fs, x, e, h) ==
  CASE x \in DOMAIN e -> Ok(h[e[x]][2], h)
    [] x \in DOMAIN fs -> Ok(<<"closure", fs[x], <<>>>>, h)
    [] x \in DOMAIN Prelude -> Ok(Prelude[x], h)
    [] OTHER -> FailWith(h)

Ev(fs, n, e0, h) ==
  LET e == [x \in DOMAIN e0 \ {"collecting"} |-> e0[x]] IN
  CASE Kind(n) = "Int"    -> Ok(<<"int", Label(n)>>, h)
    [] Kind(n) = "Bool"   -> Ok(Bool(Label(n)), h)
    [] Kind(n) = "String" -> Ok(<<"str", Label(n)>>, h)
    [] Kind(n) = "Void"   -> Ok(Void, h)
    [] Kind(n) = "Identifier" -> Name(fs, Label(n), e, h)
    [] Kind(n) = "Interpolation" ->
         Then(EvList(fs, Children(n), e, h), LAMBDA r : Ok(<<"str", Concat(TrivialString, r.v)>>, r.h))
    [] Kind(n) = "Array"  -> Then(EvList(fs, Children(n), e, h), LAMBDA r : New(r.h, <<"arr", r.v>>))
    [] Kind(n) = "Unary"  ->
         Then(Ev(fs, Child(n, 1), e, h), LAMBDA r :
         CASE Label(n) = "+" -> r
           [] Label(n) = "!" -> IF IsA(r.v, "bool") THEN Ok(Bool(~r.v[2]), r.h) ELSE FailWith(r.h)
           [] Label(n) = "-" -> IF IsA(r.v, "int") THEN Ok(<<"int", -r.v[2]>>, r.h) ELSE FailWith(r.h))
    [] Kind(n) = "Binary" ->
         CASE Label(n) \in {"&&", "||"} -> Logical(fs, n, e, h)
           [] Label(n) = "??" -> Fallback(fs, n, e, h, "Option", "AnyOption", "None")
           [] Label(n) = "!!" -> Fallback(fs, n, e, h, "Result", "AnyResult", "Err")
           [] OTHER -> Binary(fs, n, e, h)
    [] Kind(n) = "Is" ->
         Then(Ev(fs, Child(n, 1), e, h), LAMBDA r :
           Ok(Bool(\A i \in DOMAIN Label(n) : IsType(r.h, r.v, Label(n)[i])), r.h))
    [] Kind(n) = "Invocation" ->
         Then(EvList(fs, Tail(Children(n)) \o <<Child(n, 1)>>, e, h), LAMBDA r : Apply(fs, Last(r.v), Front(r.v), r.h))
    [] Kind(n) \in {"Member", "Index"} ->
         LET c == Chain(fs, n, e, h)
         IN  CASE c.k = "none" -> Ok(c.v, c.h)
               [] c.k = "ok" /\ HasOption(n) /\ ~IsType(c.h, c.v, "Option") -> New(c.h, <<"data", <<c.v>>, "Some">>)
               [] OTHER -> c
    [] Kind(n) = "ExprIf" -> Arm(fs, Arms(n), ElseOf(n), "value", e, h)
    [] Kind(n) = "ExprSwitch" ->
         Then(Ev(fs, Child(n, 1), e, h), LAMBDA r : CaseOf(fs, Cases(n), r.v, "value", e, r.h))
    [] Kind(n) = "Func"   -> Ok(<<"closure", n, e>>, h)
    [] Kind(n) = "ExprFor" ->
         LET r == ForLoop(fs, n, ("result" :> Len(h) + 1) @@ e, Append(h, <<"arr", <<>>>>))
         IN  IF r.k = "ok" THEN Ok(<<"ref", Len(h) + 1>>, r.h) ELSE r

(* ------------------------------ programs --------------------------------- *)
\* A value with everything it holds; functions all look alike.
RECURSIVE Show(_, _)
Show(h, v) ==
  CASE IsArray(h, v) -> <<"arr", [i \in DOMAIN Elements(h, v) |-> Show(h, Elements(h, v)[i])]>>
    [] IsData(h, v)  -> <<"data", [i \in DOMAIN Elements(h, v) |-> Show(h, Elements(h, v)[i])], TypeOf(h, v)>>
    [] v[1] \in {"int", "bool", "str", "void", "nil"} -> v
    [] OTHER -> <<"function">>

Functions(program) == [x \in {Label(program[i]) : i \in DOMAIN program} |->
                         Child(program[CHOOSE i \in DOMAIN program : Label(program[i]) = x], 1)]

\* What a program comes to: nothing when it stops early.
Meaning(program) ==
  LET fs == Functions(program)
      r  == Apply(fs, <<"closure", fs[Label(program[1])], <<>>>>, <<>>, <<>>)
  IN  IF r.k = "ok" THEN <<Show(r.h, r.v)>> ELSE <<>>
=============================================================================
