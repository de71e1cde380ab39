------------------------------- MODULE Parser -------------------------------
(* pkg/parser: a recursive descent over statements and a precedence climb over *)
(* expressions.  A parser takes the tokens that are left and gives what it read *)
(* and what is left after it; where the code records an error nothing is left,  *)
(* and no parser reads anything from there.  A token is its type, its literal   *)
(* and whether a line break stands before it; the text always ends in "EOF".    *)
EXTENDS Syntax, SequencesExt, TLC

Token(type, literal, newline) == <<type, literal, newline>>
Read(n, ts) == [n |-> n, ts |-> ts]
Nothing == <<>>
Rejected == Read(Nothing, <<>>)

Cur(ts) == IF ts = <<>> THEN "none" ELSE ts[1][1]
Peek2(ts) == IF Len(ts) < 2 THEN "none" ELSE ts[2][1]
Literal(ts) == ts[1][2]
Expect(type, ts) == IF Cur(ts) = type THEN Tail(ts) ELSE <<>>
\* What was read, with the token that has to follow it taken.
Closed(r, type) == Read(r.n, Expect(type, r.ts))
\* What is read next, as a function of what was.
Bind2(r, F(_, _)) == IF r.ts = <<>> THEN Rejected ELSE F(r.n, r.ts)

(* ------------------------------ precedences ------------------------------ *)
LOWEST == 1
PREFIX == 10
Precedences ==
  [o \in {"||"} |-> 2] @@ [o \in {"&&"} |-> 3] @@ [o \in {"==", "!=", "<=", ">=", "<", ">", "is"} |-> 4]
  @@ [o \in {"??", "!!"} |-> 5] @@ [o \in {"+", "-"} |-> 7] @@ [o \in {"*", "/", "%"} |-> 8]
  @@ [o \in {"(", "["} |-> 11] @@ [o \in {".", "?.", "!."} |-> 12]
CurPrecedence(ts) == IF Cur(ts) \in DOMAIN Precedences THEN Precedences[Cur(ts)] ELSE LOWEST
\* Mutant: every operator groups to the left.
NoneRightAssociative == {}

\* A fallback groups to the right: its right side may hold another.
RightAssociative == {"??", "!!"}

AssignOps == "=" :> "" @@ "+=" :> "+" @@ "-=" :> "-" @@ "*=" :> "*" @@ "/=" :> "/" @@ "%=" :> "%"

RECURSIVE GuardedAccessIn(_)
GuardedAccessIn(e) ==
  Kind(e) \in {"Member", "Index"} /\ ((Kind(e) = "Member" /\ Access(e) # ".") \/ GuardedAccessIn(Child(e, 1)))
IsValidLValue(e) == Kind(e) \in {"Identifier", "Member", "Index"} /\ ~GuardedAccessIn(e)

RECURSIVE ParsePrattExpr(_, _), ParseInfixes(_, _), ParseArguments(_, _, _), ParseElseIfs(_, _), ParseStatement(_, _),
          ParseStmtBlock(_, _, _, _), ParseSwitchCases(_, _, _), ParseExprForBlock(_, _, _), ParseAttrs(_, _),
          ParseParameters(_, _), ParseStmtElseIfs(_, _, _), ParseStringParts(_, _)

ParseExpr(ts) == ParsePrattExpr(LOWEST, ts)
\* An expression, then the token that has to follow it.
ExprThen(type, ts) == Closed(ParseExpr(ts), type)

(* ------------------------------- lists ----------------------------------- *)
\* Expressions separated by commas up to the closing token, a comma before it
\* allowed; so are an array's elements and a call's arguments.
ParseArguments(close, acc, ts) ==
  IF Cur(ts) = close THEN Read(acc, Tail(ts))
  ELSE Bind2(ParseExpr(ts), LAMBDA e, rest :
         IF Cur(rest) = "," THEN ParseArguments(close, Append(acc, e), Tail(rest))
         ELSE Read(Append(acc, e), Expect(close, rest)))

ParseParameters(acc, ts) ==
  CASE Cur(ts) # "ident" -> Read(acc, ts)
    [] Cur(ts) = "ident" /\ Peek2(ts) = "," -> ParseParameters(Append(acc, Literal(ts)), Tail(Tail(ts)))
    [] OTHER -> Read(Append(acc, Literal(ts)), Tail(ts))

(* ------------------------------ functions -------------------------------- *)
\* A body of one expression returns it.
ImplicitReturn(stmts) ==
  IF Len(stmts) = 1 /\ Kind(stmts[1]) = "Expr" THEN <<StmtReturn(Children(stmts[1]))>> ELSE stmts

\* From the parameters on.  The body of a function is never inside a loop.
ParseFunction(id, ts) ==
  Bind2(ParseParameters(<<>>, Expect("(", ts)), LAMBDA params, rest :
  Bind2(ParseStmtBlock("func", {"}", "]", ")"}, <<>>, Expect("{", Expect(")", rest))), LAMBDA stmts, end :
    Read(ExprFunc(id, params, ImplicitReturn(stmts)), Expect("}", end))))

ParsePrattExprFnClosure(ts) == ParseFunction(Literal(ts), Tail(ts))

ParseFunctionDecl(ts) ==
  IF Peek2(ts) # "ident" THEN Rejected
  ELSE Bind2(ParseFunction(Literal(Tail(ts)), Tail(Tail(ts))), LAMBDA fn, rest :
         Read(DeclFunc(FuncName(fn), Params(fn), Children(Child(fn, 1))), rest))

\* A block is inside a loop when the statement it belongs to is.
Inner(pos) == IF pos = "for" THEN "for" ELSE "func"

(* --------------------------- if and switch ------------------------------- *)
\* A branch of an if expression is one expression, and there is always an else.
ParseBranch(ts) == ExprThen("}", Expect("{", ts))
ParseElseIfs(acc, ts) ==
  IF Cur(ts) # "if" THEN Bind2(ParseBranch(ts), LAMBDA els, rest : Read(<<acc, els>>, rest))
  ELSE Bind2(ParseExpr(Tail(ts)), LAMBDA c, rest :
       Bind2(ParseBranch(rest), LAMBDA then, end : ParseElseIfs(Append(acc, ElseIf(c, then)), Expect("else", end))))
ParsePrattExprIfElse(ts) ==
  Bind2(ParseExpr(Tail(ts)), LAMBDA c, rest :
  Bind2(ParseBranch(rest), LAMBDA then, end :
  Bind2(ParseElseIfs(<<>>, Expect("else", end)), LAMBDA tail, last : Read(ExprIf(c, then, tail[1], tail[2]), last))))

\* A type, or the attributes a value has to have.
ParseAttrs(acc, ts) ==
  IF Cur(ts) = "@" /\ Peek2(ts) = "ident" THEN ParseAttrs(Append(acc, Literal(Tail(ts))), Tail(Tail(ts))) ELSE Read(acc, ts)
ParseTypeHintExpr(ts) ==
  CASE Cur(ts) = "@"     -> ParseAttrs(<<>>, ts)
    [] Cur(ts) = "ident" -> Read(<<Literal(ts)>>, Tail(ts))
    [] OTHER -> Rejected

ParseSwitchCasePattern(ts) ==
  CASE Cur(ts) = "is" -> Bind2(ParseTypeHintExpr(Tail(ts)), LAMBDA types, rest : Read(<<"is", types>>, rest))
    [] Cur(ts) = "_"  -> Read(<<"default", <<>>>>, Tail(ts))
    [] OTHER          -> Bind2(ParseExpr(ts), LAMBDA e, rest : Read(<<"value", e>>, rest))

\* pos is "expr" for the cases of an expression, and else where the statement is.
ParseCaseBody(pos, ts) ==
  IF pos = "expr" THEN ParseExpr(ts)
  ELSE Bind2(ParseStmtBlock(Inner(pos), {"}", "case", "EOF"}, <<>>, ts), LAMBDA stmts, rest : Read(Block(stmts), rest))
ParseSwitchCases(pos, acc, ts) ==
  IF Cur(ts) # "case" THEN Read(acc, Expect("}", ts))
  ELSE Bind2(ParseSwitchCasePattern(Tail(ts)), LAMBDA pattern, rest :
       Bind2(ParseCaseBody(pos, Expect(":", rest)), LAMBDA body, end :
         ParseSwitchCases(pos, Append(acc, SwitchCase(pattern[1], pattern[2], body)), end)))
ParseSwitch(pos, ts) ==
  Bind2(ExprThen("{", Tail(ts)), LAMBDA value, rest :
  Bind2(ParseSwitchCases(pos, <<>>, rest), LAMBDA cases, end :
    Read(IF pos = "expr" THEN ExprSwitch(value, cases) ELSE StmtSwitch(value, cases), end)))

ParsePrattExprSwitch(ts) == ParseSwitch("expr", ts)
ParseStatementSwitch(pos, ts) == ParseSwitch(pos, ts)

(* -------------------------------- loops ---------------------------------- *)
\* What stands between `for` and the body, up to the opening brace.
ParseForHead(ts) ==
  CASE Cur(ts) = "{" -> Read(<<"ever", "", <<>>>>, Tail(ts))
    [] Cur(ts) = "ident" /\ Peek2(ts) = "<-" ->
         Bind2(ExprThen("{", Tail(Tail(ts))), LAMBDA e, rest : Read(<<"in", Literal(ts), <<e>>>>, rest))
    [] OTHER -> Bind2(ExprThen("{", ts), LAMBDA e, rest : Read(<<"while", "", <<e>>>>, rest))

ParseVariableDecl(ts) ==
  IF Peek2(ts) # "ident" THEN Rejected
  ELSE Bind2(ParseExpr(Expect("=", Tail(Tail(ts)))), LAMBDA e, rest :
         Read(IF Cur(ts) = "const" THEN DeclConstant(Literal(Tail(ts)), e) ELSE DeclVariable(Literal(Tail(ts)), e), rest))

\* The body of a `for` expression: declarations, then statements that collect.
ParseExprForStatement(ts) ==
  IF Cur(ts) \in {"if", "switch", "break", "continue"} THEN ParseStatement("for", ts)
  ELSE Bind2(ParseExpr(ts), LAMBDA e, rest : Read(StmtExpr(e), rest))
ParseExprForBlock(decls, stmts, ts) ==
  CASE Cur(ts) \in {"}", "]", ")", "EOF"} -> Read(<<decls, stmts>>, ts)
    [] Cur(ts) \in {"const", "var"} ->
         IF stmts # <<>> THEN Rejected
         ELSE Bind2(ParseVariableDecl(ts), LAMBDA d, rest : ParseExprForBlock(Append(decls, d), stmts, rest))
    [] OTHER -> Bind2(ParseExprForStatement(ts), LAMBDA n, rest : ParseExprForBlock(decls, Append(stmts, n), rest))

ParsePrattExprFor(ts) ==
  Bind2(ParseForHead(Tail(ts)), LAMBDA head, rest :
  Bind2(ParseExprForBlock(<<>>, <<>>, rest), LAMBDA body, end :
    Read(ExprFor(head[1], head[2], head[3], body[1], body[2]), Expect("}", end))))

ParseBlock(pos, ts) == Closed(ParseStmtBlock(Inner(pos), {"}", "]", ")"}, <<>>, ts), "}")

ParseStatementFor(ts) ==
  Bind2(ParseForHead(Tail(ts)), LAMBDA head, rest :
  Bind2(ParseBlock("for", rest), LAMBDA body, end : Read(StmtFor(head[1], head[2], head[3], body), end)))

(* ---------------------------- expressions -------------------------------- *)
ParsePrattExprPrefix(ts) ==
  Bind2(ParsePrattExpr(PREFIX, Tail(ts)), LAMBDA e, rest : Read(ExprOperatorUnary(Cur(ts), e), rest))

\* An embedded expression is read on its own, and nothing may follow it.
ParseStringParts(acc, segments) ==
  IF segments = <<>> THEN Read(acc, <<Token("EOF", "", FALSE)>>)
  ELSE LET s == Head(segments) IN
       IF s[1] = "text" THEN ParseStringParts(Append(acc, ExprString(s[2])), Tail(segments))
       ELSE Bind2(ParseExpr(s[2]), LAMBDA e, rest :
              IF Cur(rest) # "EOF" THEN Rejected ELSE ParseStringParts(Append(acc, e), Tail(segments)))
ParsePrattExprString(ts) ==
  LET segments == Literal(ts)
  IN  IF \A i \in DOMAIN segments : segments[i][1] = "text"
      THEN Read(ExprString(IF segments = <<>> THEN <<>> ELSE segments[1][2]), Tail(ts))
      ELSE Bind2(ParseStringParts(<<>>, segments), LAMBDA parts, rest : Read(ExprStringInterpolation(parts), Tail(ts)))

ParsePrefix(ts) ==
  CASE Cur(ts) = "ident"  -> Read(ExprIdentifier(Literal(ts)), Tail(ts))
    [] Cur(ts) = "true"   -> Read(ExprBool(TRUE), Tail(ts))
    [] Cur(ts) = "false"  -> Read(ExprBool(FALSE), Tail(ts))
    [] Cur(ts) = "void"   -> Read(ExprVoid, Tail(ts))
    [] Cur(ts) = "int"    -> Read(ExprInt(Literal(ts)), Tail(ts))
    [] Cur(ts) = "string" -> ParsePrattExprString(ts)
    [] Cur(ts) \in {"!", "-", "+"} -> ParsePrattExprPrefix(ts)
    [] Cur(ts) = "("      -> ExprThen(")", Tail(ts))
    [] Cur(ts) = "["      -> Bind2(ParseArguments("]", <<>>, Tail(ts)), LAMBDA es, rest : Read(ExprArray(es), rest))
    [] Cur(ts) = "if"     -> ParsePrattExprIfElse(ts)
    [] Cur(ts) = "switch" -> ParsePrattExprSwitch(ts)
    [] Cur(ts) = "for"    -> ParsePrattExprFor(ts)
    [] Cur(ts) = "fn"     -> ParsePrattExprFnClosure(ts)
    [] OTHER -> Rejected

ParsePrattExprInfix(lhs, ts) ==
  LET prec == CurPrecedence(ts) - (IF Cur(ts) \in RightAssociative THEN 1 ELSE 0)
  IN  Bind2(ParsePrattExpr(prec, Tail(ts)), LAMBDA rhs, rest : Read(ExprOperatorBinary(Cur(ts), lhs, rhs), rest))

ParseInfix(lhs, ts) ==
  CASE Cur(ts) = "(" -> Bind2(ParseArguments(")", <<>>, Tail(ts)), LAMBDA args, rest : Read(ExprInvocation(lhs, args), rest))
    [] Cur(ts) = "[" -> Bind2(ExprThen("]", Tail(ts)), LAMBDA i, rest : Read(ExprIndexAccess(lhs, i), rest))
    [] Cur(ts) \in {".", "?.", "!."} ->
         IF Peek2(ts) # "ident" THEN Rejected
         ELSE Read(ExprMemberAccess(lhs, Cur(ts), Literal(Tail(ts))), Tail(Tail(ts)))
    [] Cur(ts) = "is" -> Bind2(ParseTypeHintExpr(Tail(ts)), LAMBDA types, rest : Read(ExprIs(lhs, types), rest))
    [] OTHER -> ParsePrattExprInfix(lhs, ts)

\* As long as the operator that follows binds tighter than the one before.
ParseInfixes(prec, r) == IF prec < CurPrecedence(r.ts) THEN ParseInfixes(prec, ParseInfix(r.n, r.ts)) ELSE r
ParsePrattExpr(prec, ts) == ParseInfixes(prec, ParsePrefix(ts))

(* ----------------------------- statements -------------------------------- *)
ParseStmtElseIfs(pos, acc, ts) ==
  CASE Cur(ts) = "else" /\ Peek2(ts) = "if" ->
         Bind2(ExprThen("{", Tail(Tail(ts))), LAMBDA c, rest :
         Bind2(ParseBlock(pos, rest), LAMBDA stmts, end : ParseStmtElseIfs(pos, Append(acc, StmtElseIf(c, stmts)), end)))
    [] Cur(ts) = "else" /\ Peek2(ts) # "if" ->
         Bind2(ParseBlock(pos, Expect("{", Tail(ts))), LAMBDA els, rest : Read(<<acc, <<els>>>>, rest))
    [] OTHER -> Read(<<acc, <<>>>>, ts)
ParseStatementIf(pos, ts) ==
  Bind2(ExprThen("{", Tail(ts)), LAMBDA c, rest :
  Bind2(ParseBlock(pos, rest), LAMBDA then, end :
  Bind2(ParseStmtElseIfs(pos, <<>>, end), LAMBDA tail, last : Read(StmtIf(c, then, tail[1], tail[2]), last))))

\* A return takes no value from the next line.
ParseStatementReturn(pos, ts) ==
  LET rest == Tail(ts)
  IN  IF pos = "global" THEN Rejected
      ELSE IF rest[1][3] \/ Cur(rest) \in {"}", "case"} THEN Read(StmtReturn(<<>>), rest)
      ELSE Bind2(ParseExpr(rest), LAMBDA e, end : Read(StmtReturn(<<e>>), end))

ParseExprStmt(ts) ==
  Bind2(ParseExpr(ts), LAMBDA e, rest :
    IF Cur(rest) \notin DOMAIN AssignOps THEN Read(StmtExpr(e), rest)
    ELSE IF ~IsValidLValue(e) THEN Rejected
    ELSE Bind2(ParseExpr(Tail(rest)), LAMBDA value, end : Read(StmtAssign(e, AssignOps[Cur(rest)], value), end)))

ParseStatement(pos, ts) ==
  CASE Cur(ts) = "fn" /\ Peek2(ts) # "(" -> ParseFunctionDecl(ts)
    [] Cur(ts) \in {"const", "var"} -> ParseVariableDecl(ts)
    [] Cur(ts) = "if"       -> ParseStatementIf(pos, ts)
    [] Cur(ts) = "for"      -> ParseStatementFor(ts)
    [] Cur(ts) = "switch"   -> ParseStatementSwitch(pos, ts)
    [] Cur(ts) = "return"   -> ParseStatementReturn(pos, ts)
    [] Cur(ts) = "break"    -> IF pos = "for" THEN Read(StmtBreak, Tail(ts)) ELSE Rejected
    [] Cur(ts) = "continue" -> IF pos = "for" THEN Read(StmtContinue, Tail(ts)) ELSE Rejected
    [] OTHER -> ParseExprStmt(ts)

ParseStmtBlock(pos, ends, acc, ts) ==
  IF Cur(ts) \in ends \cup {"EOF"} THEN Read(acc, ts)
  ELSE Bind2(ParseStatement(pos, ts), LAMBDA n, rest : ParseStmtBlock(pos, ends, Append(acc, n), rest))

\* The tree of a text, or nothing where the parser has an error to report.
ParseSourceFile(ts) ==
  LET r == ParseStmtBlock("global", {"EOF"}, <<>>, ts) IN IF r.ts = <<>> THEN Nothing ELSE r.n
=============================================================================
