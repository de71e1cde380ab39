------------------------------ MODULE Compiler ------------------------------
(* pkg/compiler: a syntax tree to the instructions the machine runs.  Every     *)
(* operator takes the frame it compiles for (cx), a node and the state of the   *)
(* compilation (s), and gives the state with the node's instructions emitted.   *)
(* An instruction is a tuple; the target of a jump is its second component and  *)
(* counts instructions from 0, as the program counter does.                     *)
EXTENDS Resolver, Integers

(* cx:  names    the local names of the frame, in the order of their slots      *)
(*      funcs    the functions declared in the table being compiled            *)
(*      free     the names its closure carries, in the order of its captures   *)
(*      vars, captured, readonly, consts   what the resolver knows of the      *)
(*               program: its variables, the names some inner table reads, the *)
(*               names that may not be assigned, the declarations              *)
(* s:   code     the instructions of the function being compiled               *)
(*      locals   how many slots its frame has so far                           *)
(*      brk, cont  the jumps of the loop being compiled that leave or repeat it *)
(*      opt      the short-circuits of the optional chain being compiled       *)
(*      slots    the slots of the local functions that became closures         *)
(*      funcs    the function constants                                        *)
(*      err      whether the compiler gave the program up                      *)

Addr(s) == Len(s.code)
Emit(s, ins) == [s EXCEPT !.code = Append(@, ins)]
EmitAll(s, seq) == [s EXCEPT !.code = @ \o seq]
ChangeOperand(s, pos, target) == [s EXCEPT !.code[pos + 1][2] = target]
ChangeOperands(s, positions, target) ==
  Fold(LAMBDA a, pos : ChangeOperand(a, pos, target), s, positions)
IsLastInstruction(s, opcode) == s.code # <<>> /\ Last(s.code)[1] = opcode
Fail(s) == [s EXCEPT !.err = TRUE]
Placeholder == -1

\* A temporary is the next slot of the frame.
AllocateTempLocal(s) == [s EXCEPT !.locals = @ + 1]
LastTemp(s) == s.locals - 1
EnsureLocalSlotsForTable(cx, names, s) ==
  [s EXCEPT !.locals = Max({@} \cup {SlotOf(cx.names, x) + 1 : x \in names \cap ToSet(cx.names)})]

(* ------------------------------ names ------------------------------------ *)
\* A variable that an inner table reads lives in a cell.
InCell(cx, x) == x \in cx.vars /\ x \in cx.captured

\* A free name is in the closure, or in a slot of this very frame: a `for`
\* expression has a table of its own and runs in the frame around it.
ResolveFreeAccess(cx, x) ==
  CASE Contains(cx.free, x) -> <<"free", (CHOOSE i \in DOMAIN cx.free : cx.free[i] = x) - 1>>
    [] Contains(cx.names, x) -> <<"local", SlotOf(cx.names, x)>>
    [] OTHER -> <<"none">>

\* A declaration is reached as the constant it is, a local function that became
\* a closure included.
NeedsCapture(cx, x) == x \notin DOMAIN cx.consts

EmitPushCapture(cx, x, s) ==
  LET at == ResolveFreeAccess(cx, x)
  IN  CASE at[1] = "free"  -> Emit(s, <<"GetFree", at[2]>>)
        [] at[1] = "local" -> Emit(s, <<"GetLocal", at[2]>>)
        [] OTHER -> Fail(s)

CompileFreeIdentifier(cx, x, s) ==
  LET at == ResolveFreeAccess(cx, x)
  IN  CASE at[1] = "free"  -> Emit(s, <<IF x \in cx.vars THEN "GetFreeCell" ELSE "GetFree", at[2]>>)
        [] at[1] = "local" -> Emit(s, <<IF InCell(cx, x) THEN "GetLocalCell" ELSE "GetLocal", at[2]>>)
        [] OTHER -> Fail(s)

CompileFreeAssign(cx, x, s) ==
  LET at == ResolveFreeAccess(cx, x)
  IN  CASE at[1] = "free"  -> Emit(s, <<"SetFreeCell", at[2]>>)
        [] at[1] = "local" -> Emit(s, <<IF InCell(cx, x) THEN "SetLocalCell" ELSE "SetLocal", at[2]>>)
        [] OTHER -> Fail(s)

\* A local function that carries something has a slot from where it is declared
\* on, and only the table that declares it knows the slot.
CompileIdentifier(cx, x, s) ==
  CASE x \in cx.funcs \cap DOMAIN s.slots -> Emit(s, <<"GetLocal", s.slots[x]>>)
    [] x \in DOMAIN cx.consts -> Emit(s, <<"Const", cx.consts[x]>>)
    [] OTHER -> CompileFreeIdentifier(cx, x, s)

(* ------------------------------ operators -------------------------------- *)
BinaryOps == "+" :> "Add" @@ "-" :> "Sub" @@ "*" :> "Mul" @@ "/" :> "Div" @@ "%" :> "Mod" @@ "==" :> "Equal"
  @@ "!=" :> "NotEqual" @@ "<" :> "LessThan" @@ "<=" :> "LessThanOrEqual" @@ ">" :> "GreaterThan"
  @@ ">=" :> "GreaterThanOrEqual"

EmitBinaryOp(o, s) == Emit(s, <<BinaryOps[o]>>)

CompileUnary(o, s) ==
  CASE o = "+" -> s
    [] o = "!" -> Emit(s, <<"Invert">>)
    [] o = "-" -> Emit(s, <<"Negate">>)

(* -------------------------- type checks ---------------------------------- *)
\* One type is one check; several attributes stop at the first that is missing.
CompileTypeExprCheck(types, s) ==
  IF Len(types) = 1 THEN Emit(s, <<"IsType", types[1]>>)
  ELSE LET s1 == AllocateTempLocal(s)
           t  == LastTemp(s1)
           s2 == Emit(s1, <<"SetLocal", t>>)
           s3 == Fold(LAMBDA a, ty : EmitAll(a, <<<<"GetLocal", t>>, <<"IsType", ty>>, <<"JumpFalse", Placeholder>>>>),
                          s2, types)
           s4 == EmitAll(s3, <<<<"ConstTrue">>, <<"Jump", Placeholder>>>>)
           s5 == ChangeOperands(s4, [i \in DOMAIN types |-> Addr(s2) + 3 * i - 1], Addr(s4))
           s6 == Emit(s5, <<"ConstFalse">>)
       IN  ChangeOperand(s6, Addr(s4) - 1, Addr(s6))

\* The checks of a switch case: every JumpFalse goes to the next case.
CompileSwitchIsTypeCheck(temp, types, s) ==
  [s |-> Fold(LAMBDA a, ty : EmitAll(a, <<<<"GetLocal", temp>>, <<"IsType", ty>>, <<"JumpFalse", Placeholder>>>>), s, types),
   jumps |-> [i \in DOMAIN types |-> Addr(s) + 3 * i - 1]]

(* ------------------------------ the walk --------------------------------- *)
\* CompileAs is what a branch, a case or the body of a loop is compiled as: the
\* compiler has a function for each kind of block.
RECURSIVE Compile(_, _, _), CompileAs(_, _, _, _), CompileChainLink(_, _, _)

CompileBlock(cx, nodes, s) == Fold(LAMBDA a, n : Compile(cx, n, a), s, nodes)

(* ------------------------ branches and cases ----------------------------- *)
\* Every arm of an if jumps over the arms after it, those of a tail statement,
\* which all return, excepted.
Skips(as) == as[1] # "tail"

CompileArms(cx, as, arms, s) ==
  LET arm(acc, a) ==
        LET s1 == Emit(Compile(cx, a[1], acc.s), <<"JumpFalse", Placeholder>>)
            s2 == CompileAs(cx, as, a[2], s1)
            s3 == IF Skips(as) THEN Emit(s2, <<"Jump", Placeholder>>) ELSE s2
        IN  [s |-> ChangeOperand(s3, Addr(s1) - 1, Addr(s3)),
             ends |-> IF Skips(as) THEN Append(acc.ends, Addr(s2)) ELSE acc.ends]
  IN  Fold(arm, [s |-> s, ends |-> <<>>], arms)

CompileIf(cx, as, n, s) ==
  LET acc  == CompileArms(cx, as, Arms(n), s)
      last == Fold(LAMBDA a, b : CompileAs(cx, as, b, a), acc.s, ElseOf(n))
  IN  ChangeOperands(last, acc.ends, Addr(last))

CompileSwitchValue(cx, n, s) ==
  LET s1 == AllocateTempLocal(Compile(cx, Child(n, 1), s)) IN Emit(s1, <<"SetLocal", LastTemp(s1)>>)

\* The check of one case, and the jumps to the next case.
CompileCaseCheck(cx, temp, c, s) ==
  CASE CaseKind(c) = "default" -> [s |-> s, jumps |-> <<>>]
    [] CaseKind(c) = "is" -> CompileSwitchIsTypeCheck(temp, Label(c)[2], s)
    [] CaseKind(c) = "value" ->
         LET s1 == Compile(cx, Child(c, 1), Emit(s, <<"GetLocal", temp>>))
             s2 == EmitAll(s1, <<<<"Equal">>, <<"JumpFalse", Placeholder>>>>)
         IN  [s |-> s2, jumps |-> <<Addr(s2) - 1>>]

\* The cases of a switch, its value in a temporary.
CompileSwitch(cx, as, n, s) ==
  LET s0    == CompileSwitchValue(cx, n, s)
      cases == Cases(n)
      one(acc, i) ==
        LET check == CompileCaseCheck(cx, LastTemp(s0), cases[i], acc.s)
            s1    == CompileAs(cx, as, LastChild(cases[i]), check.s)
            skips == Skips(as) /\ CaseKind(cases[i]) # "default" /\ i < Len(cases)
            s2    == IF skips THEN Emit(s1, <<"Jump", Placeholder>>) ELSE s1
        IN  [s |-> ChangeOperands(s2, check.jumps, Addr(s2)),
             ends |-> IF skips THEN Append(acc.ends, Addr(s1)) ELSE acc.ends]
      acc == Fold(one, [s |-> s0, ends |-> <<>>], [i \in DOMAIN cases |-> i])
  IN  ChangeOperands(acc.s, acc.ends, Addr(acc.s))

(* ------------------------------- loops ----------------------------------- *)
\* A loop's own breaks and continues are kept from those of the loop around it.
EnterLoop(s) == [s EXCEPT !.brk = <<>>, !.cont = <<>>]
\* Mutant: the jumps of a loop are patched once more with those of the loop around it.
StayInLoop(outer, s) == [s EXCEPT !.brk = outer.brk \o @, !.cont = outer.cont \o @]
LeaveLoop(outer, s) == [s EXCEPT !.brk = outer.brk, !.cont = outer.cont]

\* A loop with a condition or none; every `continue` goes back to the condition.
CompileConditionFor(cx, as, head, body, s) ==
  LET start == Addr(s)
      s1 == Fold(LAMBDA a, c : Emit(Compile(cx, c, a), <<"JumpFalse", Placeholder>>), s, head)
      s2 == CompileAs(cx, as, body, EnterLoop(s1))
      s3 == Emit(ChangeOperands(s2, s2.cont, start), <<"Jump", start>>)
      s4 == IF head = <<>> THEN s3 ELSE ChangeOperand(s3, Addr(s1) - 1, Addr(s3))
  IN  LeaveLoop(s, ChangeOperands(s4, s4.brk, Addr(s4)))

\* A `continue` goes to the increment of the index.
CompileArrayNext(index, start, s) ==
  EmitAll(ChangeOperands(s, s.cont, Addr(s)),
          <<<<"GetLocal", index>>, <<"Const", <<"int", 1>>>>, <<"Add">>, <<"SetLocal", index>>, <<"Jump", start>>>>)

\* Mutant: the end of the array is patched to lead to the jump back.
LeaveArrayEarly(outer, start, s) ==
  LeaveLoop(outer, ChangeOperand(ChangeOperands(s, s.brk, Addr(s)), start + 4, Addr(s) - 1))

\* Every `break` and the end of the array lead behind the jump back.
LeaveArray(outer, start, s) == LeaveLoop(outer, ChangeOperands(s, Append(s.brk, start + 4), Addr(s)))

\* The loop over an array counts an index up to the array's length.
CompileArrayForLoop(cx, as, body, collection, binding, s) ==
  LET s1 == AllocateTempLocal(s)
      index == LastTemp(s1)
      s2 == EmitAll(s1, <<<<"Const", <<"int", 0>>>>, <<"SetLocal", index>>>>)
      start == Addr(s2)
      s3 == EmitAll(s2, <<<<"GetLocal", index>>, <<"GetLocal", collection>>, <<"Len">>, <<"LessThan">>,
                          <<"JumpFalse", Placeholder>>,
                          <<"GetLocal", collection>>, <<"GetLocal", index>>, <<"GetIndex">>, <<"SetLocal", binding>>>>)
      s4 == CompileArrayNext(index, start, CompileAs(cx, as, body, EnterLoop(s3)))
  IN  LeaveArray(s, start, s4)

\* The loop over an @Iterable: the body stands behind a jump and is entered only
\* by the yield function, which gets its bounds; the body's last word is whether
\* the iterator may go on.
CompileIterableForLoop(cx, as, body, collection, binding, s) ==
  LET s1 == EmitAll(s, <<<<"GetLocal", collection>>, <<"IsType", "Iterable">>, <<"JumpTrue", Addr(s) + 6>>,
                         <<"Const", <<"str", <<"for <- requires a value with @Iterable">>>>>>,
                         <<"Const", <<"extern", "panic">>>>, <<"Call", 1>>, <<"Jump", Placeholder>>>>)
      start == Addr(s1)
      s2 == CompileAs(cx, as, body, EnterLoop(s1))
      s3 == EmitAll(ChangeOperands(s2, s2.cont, Addr(s2)), <<<<"ConstTrue">>, <<"Jump", Placeholder>>>>)
      s4 == Emit(ChangeOperands(s3, s3.brk, Addr(s3)), <<"ConstFalse">>)
      end == Addr(s4)
      s5 == ChangeOperands(s4, <<Addr(s3) - 1, start - 1>>, end)
  IN  LeaveLoop(s, EmitAll(s5,
        <<<<"GetLocal", collection>>, <<"MakeIterYield", binding, start, end>>, <<"GetLocal", collection>>,
          <<"Const", <<"type", "Iterable">>>>, <<"Call", 1>>, <<"GetField", "iterate">>, <<"CallIterate", 2>>>>))

\* A loop over a collection is compiled twice: for an array and for the rest.
CompileCollectionFor(cx, as, n, body, s) ==
  LET binding == SlotOf(cx.names, Binding(n))
      s1 == AllocateTempLocal(s)
      collection == LastTemp(s1)
      s2 == EmitAll(Compile(cx, Child(n, 1), s1), <<<<"SetLocal", collection>>, <<"GetLocal", collection>>,
                                                    <<"IsType", "Array">>, <<"JumpFalse", Placeholder>>>>)
      s3 == Emit(CompileArrayForLoop(cx, as, body, collection, binding, s2), <<"Jump", Placeholder>>)
      s4 == CompileIterableForLoop(cx, as, body, collection, binding, ChangeOperand(s3, Addr(s2) - 1, Addr(s3)))
  IN  IF Contains(cx.names, Binding(n)) THEN ChangeOperand(s4, Addr(s3) - 1, Addr(s4)) ELSE Fail(s)

(* ------------------------------ functions -------------------------------- *)
HasTailValue(stmt) == Kind(stmt) \in {"Expr", "Switch"} \/ (Kind(stmt) = "If" /\ Label(stmt))
ReturnVoid(s) == EmitAll(s, <<<<"ConstVoid">>, <<"Return">>>>)

\* A branch of a tail statement is a function body of its own.
CompileTailStmtIf(cx, n, s) == CompileIf(cx, <<"tail">>, n, s)

\* Mutant: no return for the value that matches no case.
CompileTailStmtSwitchOpen(cx, n, s) == CompileSwitch(cx, <<"tail">>, n, s)

CompileTailStmtSwitch(cx, n, s) == ReturnVoid(CompileSwitch(cx, <<"tail">>, n, s))

CompileTailStmt(cx, n, s) ==
  CASE Kind(n) = "Expr"   -> Emit(Compile(cx, Child(n, 1), s), <<"Return">>)
    [] Kind(n) = "If"     -> CompileTailStmtIf(cx, n, s)
    [] Kind(n) = "Switch" -> CompileTailStmtSwitch(cx, n, s)

\* The value of the last statement is the value of the function; a body that
\* does not end with a return gets one.
CompileFuncBody(cx, block, s) ==
  LET stmts == Children(block)
      s1    == CompileBlock(cx, stmts, s)
  IN  IF stmts # <<>> /\ HasTailValue(Last(stmts))
      THEN CompileTailStmt(cx, Last(stmts), CompileBlock(cx, Front(stmts), s))
      ELSE IF IsLastInstruction(s1, "Return") THEN s1 ELSE ReturnVoid(s1)

EnterScope(cx, fn) ==
  [cx EXCEPT !.names = LocalIds(fn),
             !.funcs = UNION {LocalFuncs(c) : c \in ToSet(Children(fn))},
             !.free = SelectSeq(FreeSymbols(fn), LAMBDA x : NeedsCapture(cx, x))]

\* A function constant; what its closure carries is pushed by the frame around
\* it.  Compiling a function a second time gives the same instructions.
CompileFunction(cx, fn, s) ==
  LET inner == CompileFuncBody(EnterScope(cx, fn), Child(fn, 1),
                 [s EXCEPT !.code = <<>>, !.locals = OwnSlots(fn), !.opt = <<>>])
      const == [code |-> inner.code, arity |-> Len(Params(fn)), locals |-> inner.locals]
  IN  [s EXCEPT !.funcs = (FuncName(fn) :> const) @@ inner.funcs, !.err = inner.err]

PushCaptures(cx, fn, s) ==
  Fold(LAMBDA a, x : EmitPushCapture(cx, x, a), s, EnterScope(cx, fn).free)

MakeClosure(cx, fn, s) == Emit(PushCaptures(cx, fn, s), <<"MakeClosure", FuncName(fn), Len(EnterScope(cx, fn).free)>>)

CompileExprFunc(cx, fn, s) ==
  LET s1 == CompileFunction(cx, fn, s)
  IN  IF EnterScope(cx, fn).free = <<>> THEN Emit(s1, <<"Const", <<"fn", FuncName(fn)>>>>) ELSE MakeClosure(cx, fn, s1)

CompileDeclFunc(cx, fn, s) ==
  LET s1 == CompileFunction(cx, fn, s)
      s2 == AllocateTempLocal(MakeClosure(cx, fn, s1))
  IN  IF EnterScope(cx, fn).free = <<>> THEN s1
      ELSE [Emit(s2, <<"SetLocal", LastTemp(s2)>>) EXCEPT !.slots = (FuncName(fn) :> LastTemp(s2)) @@ @]

(* ------------------------------ statements ------------------------------- *)
CompileStmtIf(cx, n, s) == CompileIf(cx, <<"block">>, n, s)
CompileStmtSwitch(cx, n, s) == CompileSwitch(cx, <<"block">>, n, s)
CompileStmtForCollection(cx, n, s) == CompileCollectionFor(cx, <<"loop">>, n, LastChild(n), s)

CompileStmtFor(cx, n, s) ==
  IF Form(n) = "in" THEN CompileStmtForCollection(cx, n, s)
  ELSE CompileConditionFor(cx, <<"loop">>, Front(Children(n)), LastChild(n), s)

JumpOut(s)   == [Emit(s, <<"Jump", Placeholder>>) EXCEPT !.brk = Append(@, Addr(s))]
JumpAgain(s) == [Emit(s, <<"Jump", Placeholder>>) EXCEPT !.cont = Append(@, Addr(s))]

CompileStmtIfInLoop(cx, n, s) == CompileIf(cx, <<"loop">>, n, s)
CompileStmtSwitchInLoop(cx, n, s) == CompileSwitch(cx, <<"loop">>, n, s)

CompileLoopStmt(cx, n, s) ==
  CASE Kind(n) = "Break"    -> JumpOut(s)
    [] Kind(n) = "Continue" -> JumpAgain(s)
    [] Kind(n) = "If"       -> CompileStmtIfInLoop(cx, n, s)
    [] Kind(n) = "Switch"   -> CompileStmtSwitchInLoop(cx, n, s)
    [] OTHER                -> Compile(cx, n, s)

CompileLoopBlock(cx, block, s) == Fold(LAMBDA a, n : CompileLoopStmt(cx, n, a), s, Children(block))

\* A declaration gives its slot a value; a variable that is captured then moves
\* into a cell.
CompileLocal(cx, n, s) ==
  LET slot == SlotOf(cx.names, Label(n))
      s1   == Emit(Compile(cx, Child(n, 1), s), <<"SetLocal", slot>>)
  IN  IF Kind(n) = "Variable" /\ InCell(cx, Label(n)) THEN Emit(s1, <<"WrapLocal", slot>>) ELSE s1

(* ------------------------------ assignments ------------------------------ *)
CompileIdentAssign(cx, n, s) ==
  LET x  == Label(Child(n, 1))
      s1 == IF Label(n) = "" THEN Compile(cx, Child(n, 2), s)
            ELSE EmitBinaryOp(Label(n), Compile(cx, Child(n, 2), Compile(cx, Child(n, 1), s)))
  IN  IF x \in cx.readonly \cup DOMAIN cx.consts THEN Fail(s) ELSE CompileFreeAssign(cx, x, s1)

\* A target read and written by one statement is evaluated once, into temporaries.
CompileMemberAssign(cx, n, s) ==
  LET target == Child(Child(n, 1), 1)
      field  == Label(Child(n, 1))[2]
      s1 == Compile(cx, target, AllocateTempLocal(s))
      t  == LastTemp(AllocateTempLocal(s))
      s2 == EmitAll(s1, <<<<"SetLocal", t>>, <<"GetLocal", t>>, <<"GetField", field>>>>)
      s3 == Emit(EmitBinaryOp(Label(n), Compile(cx, Child(n, 2), s2)), <<"GetLocal", t>>)
      plain == Compile(cx, target, Compile(cx, Child(n, 2), s))
  IN  Emit(IF Label(n) = "" THEN plain ELSE s3, <<"SetField", field>>)

CompileIndexAssign(cx, n, s) ==
  LET target == Child(Child(n, 1), 1)
      index  == Child(Child(n, 1), 2)
      s0 == AllocateTempLocal(AllocateTempLocal(s))
      t  == LastTemp(s0) - 1
      s1 == Emit(Compile(cx, target, s0), <<"SetLocal", t>>)
      s2 == EmitAll(Compile(cx, index, s1), <<<<"SetLocal", t + 1>>, <<"GetLocal", t>>, <<"GetLocal", t + 1>>, <<"GetIndex">>>>)
      s3 == EmitAll(EmitBinaryOp(Label(n), Compile(cx, Child(n, 2), s2)), <<<<"GetLocal", t>>, <<"GetLocal", t + 1>>>>)
      plain == Compile(cx, index, Compile(cx, target, Compile(cx, Child(n, 2), s)))
  IN  Emit(IF Label(n) = "" THEN plain ELSE s3, <<"SetIndex">>)

CompileStmtAssign(cx, n, s) ==
  CASE Kind(Child(n, 1)) = "Identifier" -> CompileIdentAssign(cx, n, s)
    [] Kind(Child(n, 1)) = "Member"     -> CompileMemberAssign(cx, n, s)
    [] Kind(Child(n, 1)) = "Index"      -> CompileIndexAssign(cx, n, s)
    [] OTHER -> Fail(s)

(* --------------------------- for expressions ----------------------------- *)
\* What the body may declare comes first and never moves into a cell.
CompileExprForDecl(cx, n, s) ==
  IF ~Contains(cx.names, Label(n)) THEN Fail(s)
  ELSE Emit(Compile(cx, Child(n, 1), s), <<"SetLocal", SlotOf(cx.names, Label(n))>>)

CompileExprForIfInLoop(cx, result, n, s) == CompileIf(cx, <<"elements", result>>, n, s)
CompileExprForSwitchInLoop(cx, result, n, s) == CompileSwitch(cx, <<"elements", result>>, n, s)

\* An expression in the body is one more element of the result.
CompileExprForStatement(cx, result, n, s) ==
  CASE Kind(n) = "Expr" ->
         EmitAll(Compile(cx, Child(n, 1), Emit(s, <<"GetLocal", result>>)), <<<<"ArrayAppend">>, <<"SetLocal", result>>>>)
    [] Kind(n) = "Break"    -> JumpOut(s)
    [] Kind(n) = "Continue" -> JumpAgain(s)
    [] Kind(n) = "If"       -> CompileExprForIfInLoop(cx, result, n, s)
    [] Kind(n) = "Switch"   -> CompileExprForSwitchInLoop(cx, result, n, s)
    [] OTHER -> Fail(s)

CompileExprForStatementBlock(cx, result, block, s) ==
  Fold(LAMBDA a, n : CompileExprForStatement(cx, result, n, a), s, Children(block))

CompileExprForBlock(cx, result, n, s) ==
  LET decls == Children(n)[Len(Children(n)) - 1]
  IN  CompileExprForStatementBlock(cx, result, LastChild(n),
        Fold(LAMBDA a, d : CompileExprForDecl(cx, d, a), s, Children(decls)))

CompileExprForCollection(cx, result, n, s) == CompileCollectionFor(cx, <<"for", result>>, n, n, s)

\* The table of the expression is its own, so it knows no local function.
CompileExprFor(cx, n, s) ==
  LET s1 == AllocateTempLocal(EnsureLocalSlotsForTable(cx, Symbols(n), s))
      result == LastTemp(s1)
      s2 == EmitAll(s1, <<<<"Const", <<"int", 0>>>>, <<"Array">>, <<"SetLocal", result>>>>)
      s3 == IF Form(n) = "in" THEN CompileExprForCollection(cx, result, n, s2)
            ELSE CompileConditionFor(cx, <<"for", result>>, HeadParts(n), n, s2)
  IN  Emit(s3, <<"GetLocal", result>>)

(* ------------------------------ expressions ------------------------------ *)
CompileExprIf(cx, n, s) == CompileIf(cx, <<"value">>, n, s)
CompileExprSwitch(cx, n, s) == CompileSwitch(cx, <<"value">>, n, s)

\* A value read as the prelude union, and the value in its wrapper.
EmitNormalize(access, s) == Emit(s, <<IF access = "?." THEN "AsOption" ELSE "AsResult">>)
EmitUnwrap(s) == Emit(s, <<"GetField", "value">>)

\* The right side stands behind the jump and runs only when the left is missing.
CompileFallbackOperator(cx, n, access, missing, s) ==
  LET s1 == EmitNormalize(access, Compile(cx, Child(n, 1), s))
      s2 == Emit(EmitUnwrap(Emit(s1, <<"JumpIsType", Placeholder, missing>>)), <<"Jump", Placeholder>>)
      s3 == Compile(cx, Child(n, 2), Emit(ChangeOperand(s2, Addr(s1), Addr(s2)), <<"Pop">>))
  IN  ChangeOperand(s3, Addr(s2) - 1, Addr(s3))

\* The right side of `&&` and `||` is not reached when the left one decides.
CompileLogical(cx, n, jump, quick, s) ==
  LET s1 == Emit(Compile(cx, Child(n, 1), s), <<jump, Placeholder>>)
      s2 == EmitAll(Compile(cx, Child(n, 2), s1), <<<<"AssertType", "Bool">>, <<"Jump", Placeholder>>>>)
      s3 == Emit(ChangeOperand(s2, Addr(s1) - 1, Addr(s2)), <<quick>>)
  IN  ChangeOperand(s3, Addr(s2) - 1, Addr(s3))

CompileBinary(cx, n, s) ==
  CASE Label(n) = "??" -> CompileFallbackOperator(cx, n, "?.", "None", s)
    [] Label(n) = "!!" -> CompileFallbackOperator(cx, n, "!.", "Err", s)
    [] Label(n) = "&&" -> CompileLogical(cx, n, "JumpFalse", "ConstFalse", s)
    [] Label(n) = "||" -> CompileLogical(cx, n, "JumpTrue", "ConstTrue", s)
    [] OTHER -> EmitBinaryOp(Label(n), Compile(cx, Child(n, 2), Compile(cx, Child(n, 1), s)))

\* Whether reading this chain can end early: only its spine counts.
RECURSIVE ChainShortCircuits(_)
ChainShortCircuits(n) ==
  \/ Kind(n) = "Member" /\ (Access(n) = "?." \/ ChainShortCircuits(Child(n, 1)))
  \/ Kind(n) = "Index" /\ ChainShortCircuits(Child(n, 1))

EmitAccessGuard(n, s) ==
  CASE Access(n) = "."  -> s
    [] Access(n) = "?." ->
         LET s1 == EmitNormalize("?.", s)
         IN  EmitUnwrap([Emit(s1, <<"JumpIsType", Placeholder, "None">>) EXCEPT !.opt = Append(@, Addr(s1))])
    [] Access(n) = "!." -> EmitUnwrap(Emit(EmitNormalize("!.", s), <<"ReturnIsType", "Err">>))

CompileChainLink(cx, n, s) ==
  LET target == IF Kind(Child(n, 1)) \in {"Member", "Index"} THEN CompileChainLink(cx, Child(n, 1), s)
                ELSE Compile(cx, Child(n, 1), s)
  IN  IF Kind(n) = "Member" THEN Emit(EmitAccessGuard(n, target), <<"GetField", Label(n)[2]>>)
      ELSE Emit(Compile(cx, Child(n, 2), target), <<"GetIndex">>)

\* A `?.` ends the whole chain, where the result becomes an Option again.
CompilePostfixChain(cx, n, s) ==
  LET s1 == Emit(CompileChainLink(cx, n, [s EXCEPT !.opt = <<>>]), <<"WrapOption">>)
  IN  IF ChainShortCircuits(n) THEN [ChangeOperands(s1, s1.opt, Addr(s1)) EXCEPT !.opt = s.opt]
      ELSE CompileChainLink(cx, n, s)

CompileInvocation(cx, n, s) ==
  LET args == Tail(Children(n))
      s1   == Compile(cx, Child(n, 1), CompileBlock(cx, args, s))
  IN  IF ChainShortCircuits(Child(n, 1)) THEN Fail(s) ELSE Emit(s1, <<"Call", Len(args)>>)

\* An empty run between two embedded expressions is no part of the string.
CompileInterpolation(cx, n, s) ==
  LET parts == SelectSeq(Children(n), LAMBDA p : ~(Kind(p) = "String" /\ Label(p) = <<>>))
  IN  Emit(CompileBlock(cx, parts, s), <<"Interpolate", Len(parts)>>)

Compile(cx, n, s) ==
  CASE Kind(n) = "Int"    -> Emit(s, <<"Const", <<"int", Label(n)>>>>)
    [] Kind(n) = "String" -> Emit(s, <<"Const", <<"str", Label(n)>>>>)
    [] Kind(n) = "Bool"   -> Emit(s, <<IF Label(n) THEN "ConstTrue" ELSE "ConstFalse">>)
    [] Kind(n) = "Void"   -> Emit(s, <<"ConstVoid">>)
    [] Kind(n) = "Interpolation" -> CompileInterpolation(cx, n, s)
    [] Kind(n) = "Identifier" -> CompileIdentifier(cx, Label(n), s)
    [] Kind(n) = "Array" -> EmitAll(CompileBlock(cx, Children(n), s), <<<<"Const", <<"int", Len(Children(n))>>>>, <<"Array">>>>)
    [] Kind(n) = "Unary"  -> CompileUnary(Label(n), Compile(cx, Child(n, 1), s))
    [] Kind(n) = "Binary" -> CompileBinary(cx, n, s)
    [] Kind(n) = "Is"     -> CompileTypeExprCheck(Label(n), Compile(cx, Child(n, 1), s))
    [] Kind(n) = "Invocation" -> CompileInvocation(cx, n, s)
    [] Kind(n) \in {"Member", "Index"} -> CompilePostfixChain(cx, n, s)
    [] Kind(n) = "ExprIf" -> CompileExprIf(cx, n, s)
    [] Kind(n) = "ExprSwitch" -> CompileExprSwitch(cx, n, s)
    [] Kind(n) = "ExprFor" -> CompileExprFor(cx, n, s)
    [] Kind(n) = "Func"   -> CompileExprFunc(cx, n, s)
    [] Kind(n) = "Expr"   -> Emit(Compile(cx, Child(n, 1), s), <<"Pop">>)
    [] Kind(n) = "Return" ->
         Emit(IF Children(n) = <<>> THEN Emit(s, <<"ConstVoid">>) ELSE Compile(cx, Child(n, 1), s), <<"Return">>)
    [] Kind(n) = "If"     -> CompileStmtIf(cx, n, s)
    [] Kind(n) = "Switch" -> CompileStmtSwitch(cx, n, s)
    [] Kind(n) = "For"    -> CompileStmtFor(cx, n, s)
    [] Kind(n) \in {"Break", "Continue"} -> Fail(s)
    [] Kind(n) = "Assign" -> CompileStmtAssign(cx, n, s)
    [] Kind(n) \in {"Variable", "Constant"} -> CompileLocal(cx, n, s)
    [] Kind(n) = "DeclFunc" -> CompileDeclFunc(cx, Child(n, 1), s)

CompileAs(cx, as, n, s) ==
  CASE as[1] = "value"    -> Compile(cx, n, s)
    [] as[1] = "block"    -> CompileBlock(cx, Children(n), s)
    [] as[1] = "tail"     -> CompileFuncBody(cx, n, s)
    [] as[1] = "loop"     -> CompileLoopBlock(cx, n, s)
    [] as[1] = "elements" -> CompileExprForStatementBlock(cx, as[2], n, s)
    [] as[1] = "for"      -> CompileExprForBlock([cx EXCEPT !.funcs = {}], as[2], n, s)

\* A program is a sequence of functions; the main code calls the first.
CompileProgram(program, prelude) ==
  LET names == UNION {{FuncName(t) : t \in {u \in Tables(d) : Kind(u) = "Func"}} : d \in ToSet(program)}
      cx == [names |-> <<>>, funcs |-> {}, free |-> <<>>,
             vars |-> UNION {VariablesIn(d) : d \in ToSet(program)},
             captured |-> IsCaptured(program),
             readonly |-> UNION {ConstantsIn(d) : d \in ToSet(program)},
             consts |-> [x \in names |-> <<"fn", x>>] @@ prelude]
      start == [code |-> <<>>, locals |-> 0, brk |-> <<>>, cont |-> <<>>, opt |-> <<>>,
                slots |-> <<>>, funcs |-> <<>>, err |-> FALSE]
      s == Fold(LAMBDA a, d : CompileFunction(cx, Child(d, 1), a), start, program)
      main == <<<<"Const", <<"fn", Label(program[1])>>>>, <<"Call", 0>>, <<"Pop">>>>
  IN  [funcs |-> ("main" :> [code |-> main, arity |-> 0, locals |-> 0]) @@ s.funcs, err |-> s.err]
=============================================================================
