------------------------------- MODULE Syntax -------------------------------
(* The syntax tree of pkg/ast.  A node is a tuple of its kind, what it says    *)
(* about itself (an operator, a name) and its children in the order in which   *)
(* EnumerateChildNodes visits them, so a walk over the tree is a walk over     *)
(* the third component.  Source positions, docs and type hints are left out.   *)
EXTENDS Naturals, SequencesExt

\* FoldLeft with every intermediate result computed before the next step: the
\* states of a compilation would else pile up as unevaluated expressions.
Fold(f(_, _), base, seq) ==
  LET after[i \in 0..Len(seq)] ==
        IF i = 0 THEN base ELSE CHOOSE r \in {f(acc, seq[i]) : acc \in {after[i - 1]}} : TRUE
  IN  after[Len(seq)]

\* What f makes of each element, joined.
Concat(f(_), seq) == Fold(LAMBDA acc, x : acc \o f(x), <<>>, seq)

Node(kind, label, children) == <<kind, label, children>>
Kind(n)     == n[1]
Label(n)    == n[2]
Children(n) == n[3]
Child(n, i) == n[3][i]
LastChild(n) == n[3][Len(n[3])]

(* ------------------------------ expressions ------------------------------ *)
ExprInt(v)            == Node("Int", v, <<>>)
ExprBool(v)           == Node("Bool", v, <<>>)
ExprVoid              == Node("Void", "", <<>>)
\* A string is the sequence of its runs.
ExprString(v)         == Node("String", v, <<>>)
\* The parts are literal runs (ExprString) and embedded expressions.
ExprStringInterpolation(parts) == Node("Interpolation", "", parts)
ExprIdentifier(x)     == Node("Identifier", x, <<>>)
ExprArray(elements)   == Node("Array", "", elements)
ExprOperatorUnary(o, e)     == Node("Unary", o, <<e>>)
ExprOperatorBinary(o, l, r) == Node("Binary", o, <<l, r>>)
\* types is the sequence of the attributes of a check, or its one type.
ExprIs(e, types)      == Node("Is", types, <<e>>)
ExprInvocation(f, args) == Node("Invocation", "", <<f>> \o args)
ExprMemberAccess(e, access, name) == Node("Member", <<access, name>>, <<e>>)
ExprIndexAccess(e, i) == Node("Index", "", <<e, i>>)
ElseIf(c, then)       == Node("ElseIf", "", <<c, then>>)
ExprIf(c, then, elseIfs, els) == Node("ExprIf", "", <<c, then>> \o elseIfs \o <<els>>)
\* pattern is an expression for a value case, a sequence of types for an `is`
\* case and empty for the default; body is an expression or a block.
SwitchCase(kind, pattern, body) ==
  IF kind = "value" THEN Node("Case", <<kind>>, <<pattern, body>>)
                    ELSE Node("Case", <<kind, pattern>>, <<body>>)
ExprSwitch(value, cases) == Node("ExprSwitch", "", <<value>> \o cases)
Block(stmts)          == Node("Block", "", stmts)
\* id stands for the node's own token, which tells one function from another.
ExprFunc(id, params, body) == Node("Func", <<id, params>>, <<Block(body)>>)
\* form is "in" (head is the collection, x the binding), "while" (head is the
\* condition) or "ever" (no head).
ExprFor(form, x, head, decls, stmts) ==
  Node("ExprFor", <<form, x>>, head \o <<Block(decls), Block(stmts)>>)

(* ------------------------- statements, declarations ---------------------- *)
StmtExpr(e)           == Node("Expr", "", <<e>>)
StmtReturn(e)         == Node("Return", "", e)
StmtBreak             == Node("Break", "", <<>>)
StmtContinue          == Node("Continue", "", <<>>)
\* els is empty, or holds the one else block.
StmtIf(c, then, elseIfs, els) ==
  Node("If", els # <<>>, <<c, Block(then)>> \o elseIfs \o [i \in DOMAIN els |-> Block(els[i])])
StmtElseIf(c, then)   == ElseIf(c, Block(then))
StmtSwitch(value, cases) == Node("Switch", "", <<value>> \o cases)
StmtFor(form, x, head, body) == Node("For", <<form, x>>, head \o <<Block(body)>>)
\* op is empty for a plain assignment.
StmtAssign(target, o, value) == Node("Assign", o, <<target, value>>)
DeclVariable(x, e)    == Node("Variable", x, <<e>>)
DeclConstant(x, e)    == Node("Constant", x, <<e>>)
DeclFunc(x, params, body) == Node("DeclFunc", x, <<ExprFunc(x, params, body)>>)

\* The access of a member: a plain dot, `?.` or `!.`.
Access(n) == Label(n)[1]

ElseIfs(n)   == SelectSeq(Children(n), LAMBDA c : Kind(c) = "ElseIf")
\* The arms and the else of an if, as sequences.
Arms(n) == <<<<Child(n, 1), Child(n, 2)>>>> \o
  [i \in DOMAIN ElseIfs(n) |-> <<Child(ElseIfs(n)[i], 1), Child(ElseIfs(n)[i], 2)>>]
ElseOf(n) == IF Kind(n) = "ExprIf" \/ Label(n) THEN <<LastChild(n)>> ELSE <<>>
Cases(n)     == Tail(Children(n))
CaseKind(n)  == Label(n)[1]
FuncName(n)  == Label(n)[1]
Params(n)    == Label(n)[2]
Form(n)      == Label(n)[1]
Binding(n)   == Label(n)[2]
=============================================================================
