------------------------------- MODULE Writer --------------------------------
(* How a program is written, after the grammar of                              *)
(* docs/specification/syntax.md: the text a tree stands for, with no more      *)
(* parentheses than the table of operators asks for.  The parser has to read   *)
(* the tree back from it.                                                      *)
EXTENDS Parser

T(type) == <<Token(type, "", FALSE)>>
Lit(type, v) == <<Token(type, v, FALSE)>>
Ident(x) == Lit("ident", x)
\* A text on a line of its own.
OnNewLine(ts) == <<Token(ts[1][1], ts[1][2], TRUE)>> \o Tail(ts)
Joined(f(_), seq, separator) ==
  Fold(LAMBDA acc, x : IF acc = <<>> THEN f(x) ELSE acc \o separator \o f(x), <<>>, seq)

\* The table, loosest first; what is in no row is written as it is.
Table == <<{"||"}, {"&&"}, {"==", "!=", "<", "<=", ">", ">="}, {"??", "!!"}, {"+", "-"}, {"*", "/", "%"}>>
Row(o) == CHOOSE i \in DOMAIN Table : o \in Table[i]
Strength(n) ==
  CASE Kind(n) = "Binary" -> Row(Label(n))
    [] Kind(n) = "Is"     -> 3
    [] Kind(n) = "Unary"  -> 7
    [] Kind(n) \in {"Member", "Index", "Invocation"} -> 8
    [] Kind(n) \in {"ExprIf", "ExprSwitch", "ExprFor", "Func"} -> 0
    [] OTHER -> 9

RECURSIVE WriteExpr(_, _), WriteStmt(_)

Plain(n) == WriteExpr(n, 0)
WriteStmts(stmts) == Concat(LAMBDA n : OnNewLine(WriteStmt(n)), stmts)
WriteBlock(b) == T("{") \o WriteStmts(Children(b)) \o T("}")
Names(xs) == Joined(Ident, xs, T(","))

\* The value of a function of one expression needs no return, unless it would
\* then be read as a statement.
WriteBody(b) ==
  LET stmts == Children(b)
  IN  IF Len(stmts) = 1 /\ Kind(stmts[1]) = "Return" /\ Children(stmts[1]) # <<>>
         /\ Kind(Child(stmts[1], 1)) \notin {"ExprIf", "ExprSwitch", "ExprFor"}
      THEN T("{") \o Plain(Child(stmts[1], 1)) \o T("}") ELSE WriteBlock(b)
WriteFunction(fn) == T("(") \o Names(Params(fn)) \o T(")") \o WriteBody(Child(fn, 1))

\* An attribute is written with its sign, a type by its name.
WriteTypes(types, attributes) ==
  IF types[1] \in attributes THEN Concat(LAMBDA x : T("@") \o Ident(x), types) ELSE Ident(types[1])
AttributeNames == {"Iterable", "AnyOption", "AnyResult"}

WriteElseIf(c, Body(_)) == T("else") \o T("if") \o Plain(Child(c, 1)) \o Body(Child(c, 2))
WriteBranch(e) == T("{") \o Plain(e) \o T("}")
WriteIf(n, Body(_)) ==
  T("if") \o Plain(Child(n, 1)) \o Body(Child(n, 2))
  \o Concat(LAMBDA c : WriteElseIf(c, Body), ElseIfs(n))
  \o (IF ElseOf(n) = <<>> THEN <<>> ELSE T("else") \o Body(ElseOf(n)[1]))

WriteCase(c, Body(_)) ==
  T("case") \o (CASE CaseKind(c) = "value" -> Plain(Child(c, 1))
                  [] CaseKind(c) = "is" -> T("is") \o WriteTypes(Label(c)[2], AttributeNames)
                  [] CaseKind(c) = "default" -> T("_")) \o T(":") \o Body(LastChild(c))
WriteSwitch(n, Body(_)) ==
  T("switch") \o Plain(Child(n, 1)) \o T("{")
  \o Concat(LAMBDA c : WriteCase(c, Body), Cases(n)) \o T("}")

WriteHead(n, heads) ==
  T("for") \o (IF Form(n) = "in" THEN Ident(Binding(n)) \o T("<-") ELSE <<>>)
  \o (IF heads = <<>> THEN <<>> ELSE Plain(heads[1]))

Bare(n) ==
  CASE Kind(n) = "Int"    -> Lit("int", Label(n))
    [] Kind(n) = "Bool"   -> T(IF Label(n) THEN "true" ELSE "false")
    [] Kind(n) = "Void"   -> T("void")
    [] Kind(n) = "String" -> Lit("string", IF Label(n) = <<>> THEN <<>> ELSE <<<<"text", Label(n)>>>>)
    [] Kind(n) = "Interpolation" ->
         Lit("string", [i \in DOMAIN Children(n) |->
               IF Kind(Child(n, i)) = "String" THEN <<"text", Label(Child(n, i))>>
               ELSE <<"expr", Append(Plain(Child(n, i)), Token("EOF", "", FALSE))>>])
    [] Kind(n) = "Identifier" -> Ident(Label(n))
    [] Kind(n) = "Array"  -> T("[") \o Joined(Plain, Children(n), T(",")) \o T("]")
    [] Kind(n) = "Unary"  -> T(Label(n)) \o WriteExpr(Child(n, 1), 7)
    [] Kind(n) = "Binary" ->
         LET s == Strength(n)
             right == Label(n) \in {"??", "!!"}
         IN  WriteExpr(Child(n, 1), IF right THEN s + 1 ELSE s) \o T(Label(n))
             \o WriteExpr(Child(n, 2), IF right THEN s ELSE s + 1)
    [] Kind(n) = "Is"     -> WriteExpr(Child(n, 1), 3) \o T("is") \o WriteTypes(Label(n), AttributeNames)
    [] Kind(n) = "Invocation" ->
         WriteExpr(Child(n, 1), 8) \o T("(") \o Joined(Plain, Tail(Children(n)), T(",")) \o T(")")
    [] Kind(n) = "Member" -> WriteExpr(Child(n, 1), 8) \o T(Access(n)) \o Ident(Label(n)[2])
    [] Kind(n) = "Index"  -> WriteExpr(Child(n, 1), 8) \o T("[") \o Plain(Child(n, 2)) \o T("]")
    [] Kind(n) = "ExprIf" -> WriteIf(n, WriteBranch)
    [] Kind(n) = "ExprSwitch" -> WriteSwitch(n, Plain)
    [] Kind(n) = "ExprFor" ->
         WriteHead(n, SubSeq(Children(n), 1, Len(Children(n)) - 2)) \o T("{")
         \o WriteStmts(Children(Child(n, Len(Children(n)) - 1)) \o Children(LastChild(n))) \o T("}")
    [] Kind(n) = "Func"   -> Lit("fn", FuncName(n)) \o WriteFunction(n)
WriteExpr(n, level) == IF Strength(n) < level THEN T("(") \o Bare(n) \o T(")") ELSE Bare(n)

CaseStmts(b) == WriteStmts(Children(b))
WriteStmt(n) ==
  CASE Kind(n) = "Expr"     -> Plain(Child(n, 1))
    [] Kind(n) = "Return"   -> T("return") \o (IF Children(n) = <<>> THEN <<>> ELSE Plain(Child(n, 1)))
    [] Kind(n) = "Break"    -> T("break")
    [] Kind(n) = "Continue" -> T("continue")
    [] Kind(n) = "If"       -> WriteIf(n, WriteBlock)
    [] Kind(n) = "Switch"   -> WriteSwitch(n, CaseStmts)
    [] Kind(n) = "For"      -> WriteHead(n, Front(Children(n))) \o WriteBlock(LastChild(n))
    [] Kind(n) = "Assign"   -> Plain(Child(n, 1)) \o T(Label(n) \o "=") \o Plain(Child(n, 2))
    [] Kind(n) = "Variable" -> T("var") \o Ident(Label(n)) \o T("=") \o Plain(Child(n, 1))
    [] Kind(n) = "Constant" -> T("const") \o Ident(Label(n)) \o T("=") \o Plain(Child(n, 1))
    [] Kind(n) = "DeclFunc" -> T("fn") \o Ident(Label(n)) \o WriteFunction(Child(n, 1))

Write(program) == Append(WriteStmts(program), Token("EOF", "", TRUE))
=============================================================================
