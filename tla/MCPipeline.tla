----------------------------- MODULE MCPipeline -----------------------------
(* Small programs, most of them a construct set into each place it may stand. *)
EXTENDS Pipeline

MCConversions == [Iter |-> [Iterable |-> <<"iterate", "each">>], Box |-> [AnyOption |-> <<"toOption", "unbox">>],
                  Try |-> [AnyResult |-> <<"toResult", "untry">>], Pass |-> [Iterable |-> <<"iterate", "forward">>]]

V(x) == ExprIdentifier(x)
I(v) == ExprInt(v)
Call(f, args) == ExprInvocation(V(f), args)
Op(o, l, r) == ExprOperatorBinary(o, l, r)
Do(e) == StmtExpr(e)
Give(e) == StmtReturn(<<e>>)
Add(x, e) == StmtAssign(V(x), "+", e)
If(c, then) == StmtIf(c, then, <<>>, <<>>)
IfElse(c, then, els) == StmtIf(c, then, <<>>, <<els>>)
Field1(e, f) == ExprMemberAccess(e, ".", f)
Fn(id, body) == ExprFunc(id, <<>>, body)
Value(e) == Field1(e, "value")
Default(body) == SwitchCase("default", <<>>, body)
On(e, body) == SwitchCase("value", e, body)
OnType(types, body) == SwitchCase("is", types, body)
Numbers == ExprArray(<<I(1), I(2), I(3)>>)

\* fn each(values, yield) { for item <- values.value { if !yield(item) { return } } }
Each1 == DeclFunc("each", <<"values", "yield">>,
  <<StmtFor("in", "item", <<Value(V("values"))>>, <<If(ExprOperatorUnary("!", Call("yield", <<V("item")>>)), <<StmtReturn(<<>>)>>)>>)>>)
Unbox == DeclFunc("unbox", <<"box">>, <<Give(Value(V("box")))>>)
Untry == DeclFunc("untry", <<"attempt">>, <<Give(Value(V("attempt")))>>)
Program(body) == <<DeclFunc("start", <<>>, body), Each1, Unbox, Untry>>
AsPrograms(bodies) == [i \in DOMAIN bodies |-> Program(bodies[i])]

(* --------------------------------- loops --------------------------------- *)
\* A loop over 1, 2, 3 in each of its forms.
Heads == <<"array", "iterable", "while", "ever">>
Head1(kind, x, i, body) ==
  LET step == <<Add(i, I(1)), DeclConstant(x, V(i))>> IN
  CASE kind = "array"    -> <<StmtFor("in", x, <<Numbers>>, body)>>
    [] kind = "iterable" -> <<StmtFor("in", x, <<Call("Iter", <<Numbers>>)>>, body)>>
    [] kind = "while"    -> <<DeclVariable(i, I(0)), StmtFor("while", "", <<Op("<", V(i), I(3))>>, step \o body)>>
    [] kind = "ever"     -> <<DeclVariable(i, I(0)),
                              StmtFor("ever", "", <<>>, <<If(Op("==", V(i), I(3)), <<StmtBreak>>)>> \o step \o body)>>

Two == Op("==", V("x"), I(2))
Sum == Add("total", V("x"))
Collected == <<DeclConstant("q", ExprFor("in", "z", <<Numbers>>, <<>>, <<Do(Op("*", V("z"), V("x")))>>)),
               Add("total", ExprIndexAccess(V("q"), I(2)))>>
Bodies ==
  <<<<Sum>>,
    <<If(Two, <<StmtBreak>>), Sum>>,
    <<If(Two, <<StmtContinue>>), Sum>>,
    <<If(Two, <<Give(V("total"))>>), Sum>>,
    <<StmtIf(Two, <<Add("total", I(10))>>, <<StmtElseIf(Op("<", V("x"), I(2)), <<StmtContinue>>)>>,
             <<<<DeclVariable("d", V("x")), Add("d", I(5)), Add("total", V("d"))>>>>)>>,
    <<StmtSwitch(V("x"), <<On(I(1), Block(<<StmtContinue>>)), OnType(<<"Void">>, Block(<<StmtBreak>>)),
                           On(I(3), Block(<<StmtBreak>>)), Default(Block(<<Sum>>))>>), Add("total", I(100))>>,
    <<DeclConstant("g", Fn("g1", <<Add("total", Op("*", V("x"), I(2))), Do(V("total"))>>)), Do(Call("g", <<>>)), Sum>>>>
NestedBodies ==
  [k \in 1..4 |-> Head1(Heads[k], "y", "j", <<If(Op("==", V("y"), I(3)), <<StmtContinue>>),
                                        If(Op("==", V("y"), V("x")), <<StmtBreak>>), Add("total", Op("*", V("x"), V("y")))>>)
                   \o <<If(Two, <<StmtContinue>>), Sum>>]
ReturningBodies ==
  [k \in 1..4 |-> Head1(Heads[k], "y", "j", <<If(Op(">", Op("*", V("x"), V("y")), I(3)), <<Give(V("total"))>>), Add("total", V("y"))>>)]

\* The loop runs in its function, or in a closure that changes its total.
Direct(loop) == <<DeclVariable("total", I(0))>> \o loop \o <<Do(V("total"))>>
InClosure(loop) == <<DeclVariable("total", I(0)), DeclConstant("run", Fn("r1", loop \o <<Do(V("total"))>>)),
                     DeclConstant("first", Call("run", <<>>)), Give(ExprArray(<<V("first"), V("total")>>))>>
Placed(loops1) == [i \in DOMAIN loops1 |-> Program(Direct(loops1[i]))] \o [i \in DOMAIN loops1 |-> Program(InClosure(loops1[i]))]
Loops(bodies, heads) == Concat(LAMBDA b : Concat(LAMBDA k : <<Head1(k, "x", "i", b)>>, heads), bodies)
\* A collected loop inside a loop over a collection is left to CollidingPrograms.
LoopPrograms ==
  Placed(Loops(Bodies \o NestedBodies \o ReturningBodies, Heads) \o Loops(<<Collected>>, <<"while", "ever">>))
CollidingPrograms == Placed(Loops(<<Collected>>, <<"array", "iterable">>))

(* ---------------------------- for expressions ---------------------------- *)
\* A collected loop over 1, 2, 3 in each of its forms; the counter of the last
\* two lives in a cell that the condition changes.
Counter == <<DeclVariable("i", I(0)), DeclConstant("next", Fn("n1", <<Add("i", I(1)), Do(V("i"))>>))>>
CollectHeads ==
  <<[before |-> <<>>, form |-> "in", head |-> <<Numbers>>],
    [before |-> <<>>, form |-> "in", head |-> <<Call("Iter", <<Numbers>>)>>],
    [before |-> Counter, form |-> "while", head |-> <<Op("<", Call("next", <<>>), I(4))>>],
    [before |-> Counter, form |-> "ever", head |-> <<>>]>>
\* What the body calls x is the binding or the counter.
Collection(h, body(_), decls(_)) ==
  LET x    == IF h.form = "in" THEN "x" ELSE "i"
      stop == IF h.form = "ever" THEN <<If(Op("==", Call("next", <<>>), I(4)), <<StmtBreak>>)>> ELSE <<>>
  IN  h.before \o <<DeclConstant("q", ExprFor(h.form, IF h.form = "in" THEN "x" ELSE "", h.head, decls(x), stop \o body(x)))>>
NoDecls(x) == <<>>
IsTwo(x) == Op("==", V(x), I(2))
Squares(x) == <<Do(Op("*", V(x), V(x)))>>
Twice(x) == <<Do(V(x)), Do(Op("+", V(x), I(10)))>>
UntilTwo(x) == <<If(IsTwo(x), <<StmtBreak>>), Do(V(x))>>
ButTwo(x) == <<If(IsTwo(x), <<StmtContinue>>), Do(V(x))>>
Chosen(x) == <<StmtIf(IsTwo(x), <<Do(I(20)), Do(I(21))>>, <<StmtElseIf(Op(">", V(x), I(2)), <<StmtContinue>>)>>, <<<<Do(V(x))>>>>)>>
Switched(x) == <<StmtSwitch(V(x), <<On(I(1), Block(<<StmtContinue>>)), OnType(<<"Void">>, Block(<<Do(I(0))>>)),
                                    Default(Block(<<Do(V(x)), If(IsTwo(x), <<StmtContinue>>), StmtBreak>>))>>)>>
Declared(x) == <<DeclConstant("d", Op("*", V(x), I(2))), DeclVariable("e", Op("+", V("d"), I(1)))>>
OfDeclared(x) == <<Do(Op("+", Op("*", V("d"), I(10)), V("e")))>>
Closures(x) == <<Do(Fn("c1", <<Give(Op("*", V(x), I(3)))>>))>>
Elements2 == <<Give(V("q"))>>
Called == <<Give(ExprArray(<<ExprInvocation(ExprIndexAccess(V("q"), I(0)), <<>>), ExprInvocation(ExprIndexAccess(V("q"), I(2)), <<>>)>>))>>
ForExpressions(h) ==
  <<Collection(h, Squares, NoDecls) \o Elements2, Collection(h, Twice, NoDecls) \o Elements2,
    Collection(h, UntilTwo, NoDecls) \o Elements2, Collection(h, ButTwo, NoDecls) \o Elements2,
    Collection(h, Chosen, NoDecls) \o Elements2, Collection(h, Switched, NoDecls) \o Elements2,
    Collection(h, OfDeclared, Declared) \o Elements2, Collection(h, Closures, NoDecls) \o Called>>
CollectPrograms == Concat(LAMBDA h : Concat(LAMBDA b : <<Program(b), Program(<<Give(ExprInvocation(Fn("r1", b), <<>>))>>)>>,
                                            ForExpressions(h)), CollectHeads)

(* ------------------------- branches and tails ---------------------------- *)
\* What is chosen for each of three values, in each place a choice may stand.
Choose3(choice(_)) == Concat(LAMBDA v : <<<<DeclConstant("x", v)>> \o choice(V("x"))>>, <<I(1), I(2), Call("Some", <<I(7)>>)>>)
IsOption(x) == ExprIs(x, <<"Option">>)
TailIf(x) == <<StmtIf(Op("==", x, I(1)), <<Do(I(10))>>, <<StmtElseIf(IsOption(x), <<DeclVariable("y", Value(x)), Add("y", I(1)), Do(V("y"))>>)>>,
                      <<<<StmtIf(Op("==", x, I(2)), <<Do(I(20)), Do(I(21))>>, <<>>, <<<<Do(I(30))>>>>)>>>>)>>
TailSwitch(x) == <<StmtSwitch(x, <<On(I(1), Block(<<Do(I(10))>>)), OnType(<<"Some">>, Block(<<Do(Value(x))>>)),
                                   Default(Block(<<If(Op("==", x, I(2)), <<Give(I(20))>>), Do(I(30))>>))>>)>>
NoMatch(x) == <<StmtSwitch(x, <<On(I(1), Block(<<Do(I(10))>>)), OnType(<<"None">>, Block(<<Do(I(20))>>))>>)>>
StmtBranches(x) == <<DeclVariable("y", I(0)), StmtIf(Op("==", x, I(1)), <<Add("y", I(1))>>, <<StmtElseIf(IsOption(x), <<Add("y", I(2))>>)>>, <<>>),
                     StmtSwitch(x, <<On(I(2), Block(<<Add("y", I(10))>>)), OnType(<<"Int">>, Block(<<Add("y", I(20))>>)), Default(Block(<<Add("y", I(30))>>))>>), Do(V("y"))>>
ValueIf(x) == <<Give(Op("+", ExprIf(Op("==", x, I(1)), I(10), <<ElseIf(IsOption(x), Value(x))>>, I(30)), I(1)))>>
ValueSwitch(x) == <<Give(Op("*", ExprSwitch(x, <<On(I(1), I(10)), OnType(<<"Some">>, ExprSwitch(Value(x), <<On(I(7), I(70)), Default(I(71))>>)), Default(I(30))>>), I(2)))>>
OfAttributes(x) == <<DeclConstant("b", Call("Box", <<x>>)), DeclConstant("s", Call("Iter", <<x>>)),
                     Give(ExprArray(<<ExprIs(V("b"), <<"AnyOption">>), ExprIs(V("b"), <<"AnyOption", "Iterable">>), ExprIs(x, <<"Int">>),
                       ExprSwitch(V("s"), <<OnType(<<"AnyOption", "Iterable">>, I(1)), OnType(<<"Iterable">>, I(2)), Default(I(3))>>)>>))>>
BranchPrograms == AsPrograms(
  Choose3(TailIf) \o Choose3(TailSwitch) \o Choose3(NoMatch) \o Choose3(StmtBranches)
  \o Choose3(ValueIf) \o Choose3(ValueSwitch) \o Choose3(OfAttributes))

(* -------------------------------- chains --------------------------------- *)
Some(v) == Call("Some", <<v>>)
None1 == Call("None", <<>>)
OkV(v) == Call("Ok", <<v>>)
ErrV(v) == Call("Err", <<v>>)
Box(v) == Call("Box", <<v>>)
Try(v) == Call("Try", <<v>>)
Opt(e, f) == ExprMemberAccess(e, "?.", f)
Res(e, f) == ExprMemberAccess(e, "!.", f)
\* Each value a chain may start from: there, missing, converted, unfit.
Options == <<Some(Some(I(5))), Some(None1), None1, Box(Some(Some(I(5)))), Box(None1), Box(I(1)), I(1)>>
Results == <<OkV(OkV(I(5))), OkV(ErrV(I(6))), ErrV(I(6)), Try(OkV(Some(I(5)))), Try(ErrV(I(6))), Try(I(1)), I(1)>>
OptionChains(v) ==
  <<<<Give(Opt(v, "value"))>>, <<Give(Opt(Opt(v, "value"), "value"))>>, <<Give(Value(Opt(v, "value")))>>,
    <<Give(Op("??", Opt(v, "value"), I(9)))>>, <<Give(Op("??", v, Op("??", None1, I(8))))>>,
    <<Give(ExprIndexAccess(Opt(Some(ExprArray(<<v, I(2)>>)), "value"), I(1)))>>, <<Give(Op("+", I(1), Op("??", v, I(9))))>>>>
\* An error leaves the function that reads the chain, here from inside an array.
ResultChains(v) ==
  <<<<Give(ExprArray(<<I(1), Res(v, "value")>>))>>, <<Give(Op("!!", v, I(9)))>>,
    <<DeclConstant("f", Fn("f1", <<Give(OkV(Op("+", I(1), Res(v, "value"))))>>)), Give(ExprArray(<<Call("f", <<>>), I(2)>>))>>,
    <<Give(Op("!!", Opt(v, "value"), Op("??", Some(I(3)), I(4))))>>>>
\* An error found while a loop's body runs leaves the function around the loop.
ErrInLoop == Concat(LAMBDA k : <<<<DeclVariable("total", I(0))>>
  \o Head1(k, "x", "i", <<Add("total", ExprMemberAccess(OkV(Some(V("x"))), "!.", "value")),
                          DeclConstant("r", ExprIf(Two, ErrV(V("total")), <<>>, OkV(Some(V("x"))))), Add("total", Res(V("r"), "value"))>>)
  \o <<Do(V("total"))>>>>, Heads)
ChainPrograms == AsPrograms(
  Concat(OptionChains, Options) \o Concat(ResultChains, Results) \o ErrInLoop)

(* ------------------------- closures, assignments ------------------------- *)
Closing ==
  <<\* Two closures share a variable, and a third call sees both changes.
    <<DeclVariable("n", I(1)), DeclConstant("inc", Fn("f1", <<Add("n", I(1)), Do(V("n"))>>)),
      DeclConstant("dbl", Fn("f2", <<StmtAssign(V("n"), "*", I(2)), Do(V("n"))>>)),
      Give(ExprArray(<<Call("inc", <<>>), Call("dbl", <<>>), Call("inc", <<>>), V("n")>>))>>,
    \* A closure in a closure changes what the outermost function holds.
    <<DeclVariable("n", I(1)), DeclConstant("f", Fn("f1", <<DeclVariable("m", V("n")),
        DeclConstant("g", Fn("f2", <<Add("n", V("m")), Add("m", I(1)), Do(V("m"))>>)), Do(Call("g", <<>>)), Do(Call("g", <<>>))>>)),
      DeclConstant("r", Call("f", <<>>)), Give(ExprArray(<<V("r"), V("n")>>))>>,
    \* A parameter and a constant are carried along by value.
    <<DeclConstant("c", I(4)), DeclConstant("mk", ExprFunc("f1", <<"p">>, <<Give(ExprFunc("f2", <<"q">>, <<Give(Op("+", Op("*", V("p"), V("c")), V("q")))>>))>>)),
      DeclConstant("h", Call("mk", <<I(2)>>)), DeclConstant("k", Call("mk", <<I(3)>>)),
      Give(ExprArray(<<Call("h", <<I(1)>>), Call("k", <<I(1)>>)>>))>>,
    \* A local function that captures, used where it is declared and as a value.
    <<DeclVariable("n", I(1)), DeclFunc("bump", <<"by">>, <<Add("n", V("by")), Do(V("n"))>>),
      DeclConstant("also", V("bump")), Give(ExprArray(<<Call("bump", <<I(2)>>), Call("also", <<I(3)>>), V("n")>>))>>,
    \* A local function that captures nothing calls itself.
    <<DeclFunc("fact", <<"m">>, <<StmtIf(Op("<", V("m"), I(2)), <<Do(I(1))>>, <<>>, <<<<Do(Op("*", V("m"), Call("fact", <<Op("-", V("m"), I(1))>>)))>>>>)>>),
      Give(Call("fact", <<I(4)>>))>>,
    \* A captured parameter's own function is gone when it is read.
    <<DeclConstant("pair", ExprFunc("f1", <<"p">>, <<DeclVariable("v", V("p")),
        Give(ExprArray(<<Fn("f2", <<Give(V("v"))>>), ExprFunc("f3", <<"w">>, <<StmtAssign(V("v"), "", V("w"))>>)>>))>>)),
      DeclConstant("a", Call("pair", <<I(1)>>)), DeclConstant("b", Call("pair", <<I(2)>>)),
      Do(ExprInvocation(ExprIndexAccess(V("a"), I(1)), <<I(9)>>)),
      Give(ExprArray(<<ExprInvocation(ExprIndexAccess(V("a"), I(0)), <<>>), ExprInvocation(ExprIndexAccess(V("b"), I(0)), <<>>)>>))>>>>
Assigned(o) ==
  <<\* The target is read once however it is written to.
    <<DeclVariable("n", I(0)), DeclConstant("at", Fn("f1", <<Add("n", I(1)), Do(V("n"))>>)), DeclVariable("a", Numbers),
      StmtAssign(ExprIndexAccess(V("a"), Call("at", <<>>)), o, Op("+", Call("at", <<>>), I(5))), Give(ExprArray(<<V("a"), V("n")>>))>>,
    <<DeclVariable("n", I(0)), DeclConstant("s", Some(I(3))), DeclConstant("get", Fn("f1", <<Add("n", I(1)), Do(V("s"))>>)),
      StmtAssign(Value(Call("get", <<>>)), o, Op("+", V("n"), I(5))), Give(ExprArray(<<V("s"), V("n")>>))>>,
    <<DeclVariable("n", I(3)), StmtAssign(V("n"), o, I(2)), Give(V("n"))>>,
    \* Two names of one array, and arrays in arrays.
    <<DeclVariable("a", ExprArray(<<Numbers, I(4)>>)), DeclConstant("b", ExprIndexAccess(V("a"), I(0))),
      StmtAssign(ExprIndexAccess(ExprIndexAccess(V("a"), I(0)), I(2)), o, I(7)), Give(ExprArray(<<V("a"), V("b")>>))>>>>
ClosurePrograms == AsPrograms(Closing \o Concat(Assigned, <<"", "+", "-", "*">>))

(* ------------------------------- operators ------------------------------- *)
Binaries == <<"||", "&&", "==", "!=", "<", "<=", ">", ">=", "??", "!!", "+", "-", "*", "/", "%">>
\* Each pair of operators grouped either way; most mean nothing and stop early.
Pairs == Concat(LAMBDA o : Concat(LAMBDA p :
    <<<<Give(Op(p, Op(o, I(7), I(2)), I(3)))>>, <<Give(Op(o, I(7), Op(p, I(2), I(3))))>>>>, Binaries), Binaries)
Text(s) == ExprString(<<s>>)
Singles ==
  <<<<Give(ExprOperatorUnary("-", Op("+", I(1), I(2))))>>, <<Give(Op("+", ExprOperatorUnary("-", I(1)), I(2)))>>,
    <<Give(ExprOperatorUnary("!", Op("==", I(1), I(2))))>>, <<Give(Op("==", ExprOperatorUnary("!", ExprBool(TRUE)), ExprBool(FALSE)))>>,
    <<Give(ExprOperatorUnary("+", I(1)))>>, <<Give(ExprOperatorUnary("-", ExprBool(TRUE)))>>, <<Give(ExprOperatorUnary("!", I(1)))>>,
    <<Give(ExprOperatorUnary("-", Value(Some(I(1)))))>>, <<Give(Op("/", I(7), I(0)))>>,
    <<Give(Op("/", ExprOperatorUnary("-", I(7)), I(2)))>>, <<Give(Op("%", ExprOperatorUnary("-", I(7)), I(2)))>>,
    <<Give(Op("+", Text("a"), I(1)))>>, <<Give(Op("+", ExprArray(<<>>), Text("a")))>>, <<Give(ExprVoid)>>,
    <<Give(ExprStringInterpolation(<<ExprString(<<>>), I(1), Text("-"), Op("+", I(1), I(2)), ExprString(<<>>)>>))>>,
    <<Give(ExprStringInterpolation(<<Text("a"), ExprIf(ExprBool(TRUE), Text("b"), <<>>, I(1)), Text("c")>>))>>,
    <<Give(ExprIs(Op("==", I(1), I(1)), <<"Bool">>))>>, <<Give(Op("==", ExprArray(<<Some(I(1))>>), ExprArray(<<Some(I(1))>>)))>>,
    <<Do(Call("panic", <<Text("a")>>)), Give(I(1))>>, <<Give(ExprIndexAccess(Numbers, I(3)))>>, <<Give(Value(I(1)))>>,
    <<Give(Call("start", <<I(1)>>))>>, <<Give(Call("Some", <<>>))>>, <<Give(Op("&&", ExprBool(TRUE), I(1)))>>,
    <<StmtFor("in", "x", <<I(1)>>, <<Give(V("x"))>>), Give(I(2))>>, <<StmtReturn(<<>>)>>, <<>>>>
\* Which operands an operator evaluates, told by an array they all append to.
Logged == Concat(LAMBDA o : Concat(LAMBDA l : <<<<DeclVariable("log", I(0)),
    DeclConstant("say", ExprFunc("f1", <<"p", "q">>, <<Add("log", V("p")), Give(V("q"))>>)),
    DeclConstant("r", Op(o, Call("say", <<I(1), l>>), Call("say", <<I(10), ExprBool(FALSE)>>))), Give(ExprArray(<<V("log"), V("r")>>))>>>>,
    <<ExprBool(TRUE), ExprBool(FALSE), None1, Some(I(1)), ErrV(I(1)), OkV(I(2))>>), <<"||", "&&", "??", "!!">>)
\* The same pairs of values the analyzer knows nothing about.
Hidden(o, p) == <<Op(p, Op(o, V("p"), V("q")), V("r")), Op(o, V("p"), Op(p, V("q"), V("r")))>>
HiddenPairs == Concat(LAMBDA o : Concat(LAMBDA p : Concat(LAMBDA e :
    <<<<DeclConstant("f", ExprFunc("f1", <<"p", "q", "r">>, <<Give(e)>>)), Give(Call("f", <<I(7), I(2), I(3)>>))>>>>,
    Hidden(o, p)), Binaries), Binaries)
OperatorPrograms == AsPrograms(Pairs \o HiddenPairs \o Singles \o Logged)

(* --------------------------------- types --------------------------------- *)
\* Programs whose types the analyzer may not guess: what it says of them stops
\* them, whether it follows a name, a branch, an array or a call.
Const(e, rest) == <<DeclConstant("c", e)>> \o rest
Taking(params, e, args) == Const(ExprFunc("t1", params, <<Give(e)>>), <<Give(Call("c", args))>>)
Yes == ExprBool(TRUE)
Typed ==
  <<Const(I(5), <<Give(Call("c", <<>>))>>), Const(I(5), <<DeclConstant("d", V("c")), Give(Op("+", V("d"), Yes))>>),
    Taking(<<>>, I(1), <<I(1)>>), Taking(<<"p">>, Op("+", V("p"), Yes), <<Text("a")>>),
    Taking(<<"p">>, ExprInvocation(V("p"), <<I(1)>>), <<ExprFunc("u1", <<"w">>, <<Give(V("w"))>>)>>),
    Taking(<<"p">>, ExprInvocation(V("p"), <<>>), <<V("Some")>>),
    Taking(<<"p">>, ExprInvocation(V("p"), <<I(1), I(2)>>), <<ExprFunc("u2", <<"w">>, <<Give(V("w"))>>)>>),
    Const(Some(I(1)), <<Give(Op("+", V("c"), I(3)))>>), <<Give(Op("-", Text("a"), Text("b")))>>, <<Give(Field1(Some(I(1)), "nope"))>>,
    <<Give(ExprOperatorUnary("-", Text("a")))>>, <<Give(ExprIndexAccess(Some(I(1)), I(0)))>>, <<Give(ExprIndexAccess(I(1), I(0)))>>,
    <<Give(Call("panic", <<I(1)>>))>>, <<Give(Call("panic", <<>>))>>, <<Give(V("nowhere"))>>, <<Give(Call("nowhere", <<I(1)>>))>>,
    <<Give(Op("+", ExprIf(Yes, I(1), <<>>, Text("a")), I(1)))>>, <<Give(Op("+", ExprIf(Yes, Text("b"), <<>>, Text("a")), Yes))>>,
    <<Give(Op("-", ExprIf(Yes, Text("b"), <<>>, Text("a")), I(1)))>>, <<Give(Op("+", ExprIndexAccess(ExprArray(<<I(1), Text("a")>>), I(1)), Yes))>>,
    <<Give(Op("+", ExprIndexAccess(Numbers, I(1)), Yes))>>, <<Give(ExprInvocation(ExprIf(Yes, V("Some"), <<>>, V("Err")), <<I(1)>>))>>,
    <<DeclVariable("v", I(1)), StmtAssign(V("v"), "", Text("a")), Give(Op("+", V("v"), Yes))>>,
    <<DeclVariable("v", I(1)), DeclConstant("c", Fn("t1", <<StmtAssign(V("v"), "", Text("a")), Do(I(0))>>)), Do(Call("c", <<>>)), Give(Op("+", V("v"), Yes))>>,
    <<DeclVariable("v", I(1)), StmtAssign(V("v"), "", Op("+", V("v"), I(2))), Give(Op("+", V("v"), I(1)))>>,
    <<DeclVariable("v", I(1)), StmtAssign(V("v"), "", I(2)), Give(Op("+", V("v"), Yes))>>,
    <<DeclVariable("v", Call("Box", <<Some(I(1))>>)), StmtAssign(V("v"), "", Numbers), StmtFor("in", "x", <<V("v")>>, <<Give(V("x"))>>), Give(I(0))>>,
    <<StmtFor("in", "x", <<Call("Box", <<I(1)>>)>>, <<Give(V("x"))>>), Give(I(0))>>, <<Give(ExprFor("in", "x", <<Text("a")>>, <<>>, <<Do(V("x"))>>))>>>>
\* What a branch proves of the value that is switched on.
Proven(v, types, body) == Const(v, <<StmtSwitch(V("c"), <<OnType(types, Block(body)), Default(Block(<<Do(I(0))>>))>>)>>)
Unseen(v) == ExprIndexAccess(ExprArray(<<v, I(1)>>), I(0))
Looped == <<StmtFor("in", "x", <<V("c")>>, <<Give(V("x"))>>), Give(I(0))>>
Narrowed ==
  Concat(LAMBDA v : <<Proven(v, <<"Some">>, <<Give(Value(V("c")))>>), Proven(v, <<"Option">>, <<Give(Value(V("c")))>>),
                      Proven(v, <<"Array">>, <<Give(ExprIndexAccess(V("c"), I(0)))>>)>>,
         <<Some(I(1)), Unseen(Some(I(1))), Call("Iter", <<Numbers>>), Unseen(Numbers)>>)
  \o Concat(LAMBDA v : <<Proven(v, <<"Some">>, <<Give(Op("+", V("c"), I(1)))>>), Proven(v, <<"Some">>, <<Give(Field1(V("c"), "nope"))>>)>>,
            <<Some(I(1)), Unseen(Some(I(1)))>>)
  \o Concat(LAMBDA v : <<Proven(v, <<"Iterable">>, Looped)>>, <<Unseen(Some(I(1))), Call("Iter", <<Numbers>>), Unseen(Call("Iter", <<Numbers>>))>>)
TypedPrograms == AsPrograms(Typed \o Narrowed)
\* Programs that end although the analyzer refuses them are left to these: a
\* compound assignment changes the type, arrays or functions that differ inside
\* count as one type, an element or a narrowed name is given something else, a
\* loop in a branch is checked once more as if it stood outside.
SuspectedPrograms == AsPrograms(
  <<<<DeclVariable("v", I(1)), Add("v", Text("a")), Give(Op("+", V("v"), Yes))>>,
    <<Give(Op("+", ExprIndexAccess(ExprIndexAccess(ExprArray(<<ExprArray(<<I(1)>>), ExprArray(<<Text("a")>>)>>), I(1)), I(0)), Yes))>>,
    <<Give(ExprInvocation(ExprIndexAccess(ExprArray(<<Fn("t1", <<Give(I(1))>>), ExprFunc("t2", <<"p">>, <<Give(V("p"))>>)>>), I(1)), <<I(5)>>))>>,
    <<DeclVariable("v", Numbers), StmtAssign(ExprIndexAccess(V("v"), I(0)), "", Text("a")), Give(V("v"))>>,
    <<DeclVariable("v", Some(I(1))), StmtSwitch(V("v"), <<OnType(<<"Some">>, Block(<<StmtAssign(V("v"), "", I(2)), Give(Op("+", V("v"), I(1)))>>))>>), Give(I(0))>>,
    Proven(Some(I(1)), <<"Iterable">>, Looped)>>)

(* ---------------------- iterators of other kinds ------------------------- *)
\* An iterator that leaves it to a conversion to call the loop's body; one that
\* goes on after it was told to stop; one that never calls it; one that hands
\* its body to a closure.
IteratorBodies ==
  <<<<Give(Op("??", Box(V("yield")), I(0)))>>,
    <<Do(Call("yield", <<I(4)>>)), Do(Call("yield", <<I(5)>>)), Give(Call("yield", <<I(6)>>))>>,
    <<Give(V("values"))>>,
    <<DeclConstant("go", ExprFunc("g1", <<"p">>, <<If(Call("yield", <<V("p")>>), <<Do(Call("yield", <<Op("+", V("p"), I(1))>>))>>)>>)),
      Do(Call("go", <<I(4)>>))>>>>
Calling == DeclFunc("unbox", <<"box">>, <<DeclConstant("said", ExprInvocation(Value(V("box")), <<I(5)>>)), Give(Call("Some", <<V("said")>>))>>)
LoopBodies == <<<<Sum>>, <<Sum, Give(V("total"))>>, <<Sum, StmtBreak>>, <<If(Op("==", V("x"), I(5)), <<Give(V("total"))>>), Sum>>>>
IteratorPrograms == Concat(LAMBDA each : Concat(LAMBDA body :
  <<<<DeclFunc("start", <<>>, Direct(Head1("iterable", "x", "i", body))), DeclFunc("each", <<"values", "yield">>, each), Calling, Untry>>>>,
  LoopBodies), IteratorBodies)

\* An iterator that loops over another @Iterable and hands its values on; the
\* loop's body returns what it finds.  The caller holds a 7 on the stack.
Forwarding == DeclFunc("forward", <<"outer", "hand">>,
  <<StmtFor("in", "part", <<Call("Iter", <<Value(V("outer"))>>)>>,
            <<If(ExprOperatorUnary("!", Call("hand", <<V("part")>>)), <<StmtReturn(<<>>)>>)>>)>>)
Find == DeclFunc("find", <<>>, <<StmtFor("in", "x", <<Call("Pass", <<Numbers>>)>>, <<If(Two, <<Give(V("x"))>>)>>), Give(I(0))>>)
ForwardingProgram == <<DeclFunc("start", <<>>, <<Give(ExprArray(<<I(7), Call("wrap", <<>>)>>))>>),
                       DeclFunc("wrap", <<>>, <<Give(Call("find", <<>>))>>), Find, Forwarding, Each1, Unbox, Untry>>

MCPrograms == LoopPrograms \o CollectPrograms \o BranchPrograms \o ChainPrograms \o ClosurePrograms \o OperatorPrograms
  \o IteratorPrograms \o TypedPrograms

MCParsed == LET all == TreesOf(MCPrograms) IN all
MCReported == LET all == ReportsOf(MCParsed) IN all
MCCompiled == LET all == CodeOf(MCParsed) IN all
MCExpected == LET all == MeaningsOf(MCPrograms) IN all

ReturningProgram == <<ForwardingProgram>>
ReturningParsed == LET all == TreesOf(ReturningProgram) IN all
ReturningReported == LET all == ReportsOf(ReturningParsed) IN all
ReturningCompiled == LET all == CodeOf(ReturningParsed) IN all
ReturningExpected == LET all == MeaningsOf(ReturningProgram) IN all
=============================================================================
