------------------------------ MODULE Machine -------------------------------
(* pkg/vm: the frames, the stack and the dispatch loop.  The Go activations of *)
(* runLoop, nested by an iterator, a loop body run by its yield function or a  *)
(* conversion called from an instruction, are the sequence loops; a Go panic   *)
(* that carries a `return` out of a loop body is signal.                       *)
EXTENDS Compiler, Values

CONSTANT Programs        \* a sequence of programs, each a sequence of functions

VARIABLES prog,      \* the program, a place in Programs
          phase,     \* parse, analyze, compile, run; then done, failed or rejected
          code,      \* the function constants
          frames,    \* every frame made so far
          calls,     \* the frames being run, the same frame twice while its loop body runs
          stack,     \* the operands
          loops,     \* the activations of the dispatch loop
          heap,      \* arrays, data values, cells and the flags of iterations
          signal,    \* empty, or the depth that returns and what it returns
          result     \* what the main code popped
machine == <<frames, calls, stack, loops, heap, signal, result>>
vars == <<prog, phase, code, frames, calls, stack, loops, heap, signal, result>>

(* --------------------------- frames and stack ---------------------------- *)
Sp == Len(stack)
FramesIdx == Len(calls)
Fr == frames[Last(calls)]
Instructions == code[Fr.fn].code
Ins == Instructions[Fr.ip + 1]
Peek(n) == stack[Sp - n]
Below(n) == SubSeq(stack, 1, Sp - n)
Advance == frames' = [frames EXCEPT ![Last(calls)].ip = @ + 1]
JumpTo(ip) == frames' = [frames EXCEPT ![Last(calls)].ip = ip]
\* An instruction takes n operands and leaves seq.
Leave(n, seq) == stack' = Below(n) \o seq

NewFrame(fn, free, args, basep) ==
  [fn |-> fn, ip |-> 0, free |-> free, basep |-> basep, home |-> FramesIdx,
   locals |-> [i \in 1..code[fn].locals |-> IF i <= Len(args) THEN args[i] ELSE Nil]]
PushFrame(frame) == calls' = Append(calls, Len(frames) + 1) /\ frames' = Append(frames, frame)
\* The call goes on after this instruction, which the caller's frame remembers.
EnterFrame(frame) ==
  /\ calls' = Append(calls, Len(frames) + 1)
  /\ frames' = Append([frames EXCEPT ![Last(calls)].ip = @ + 1], frame)

Loop == Last(loops)
InBody == Loop.kind = "resume"
\* The innermost loop has nothing left to run: its frames are gone, or the body
\* it resumed has reached its end, or its frame's instructions have.
BodyGone == InBody /\ FramesIdx < Loop.depth
LoopOver ==
  \/ Loop.kind \in {"iterate", "convert"} /\ FramesIdx <= Loop.stop
  \/ ~BodyGone /\ ((InBody /\ FramesIdx = Loop.depth /\ Fr.ip = Loop.end) \/ Fr.ip >= Len(Instructions))

Running == phase = "run" /\ signal = <<>>
Executes(opcodes) == Running /\ ~BodyGone /\ ~LoopOver /\ Ins[1] \in opcodes

Stop == phase' = "failed" /\ UNCHANGED <<prog, code, machine>>
Go == UNCHANGED <<prog, phase, code>>
Same(vs) == Go /\ UNCHANGED vs

(* ----------------------------- instructions ------------------------------ *)
ExecConst ==
  /\ Executes({"Const", "ConstTrue", "ConstFalse", "ConstVoid"})
  /\ Leave(0, <<CASE Ins[1] = "Const" -> Ins[2] [] Ins[1] = "ConstTrue" -> Bool(TRUE)
                  [] Ins[1] = "ConstFalse" -> Bool(FALSE) [] OTHER -> Void>>)
  /\ Advance /\ Same(<<calls, loops, heap, signal, result>>)

ExecPop ==
  /\ Executes({"Pop"})
  /\ Leave(1, <<>>) /\ Advance
  /\ result' = IF Fr.fn = "main" THEN <<Peek(0)>> ELSE result
  /\ Same(<<calls, loops, heap, signal>>)

\* Only false is false: JumpTrue jumps on everything else.
Jumps == CASE Ins[1] = "Jump" -> TRUE
           [] Ins[1] = "JumpFalse" -> Peek(0) = Bool(FALSE)
           [] Ins[1] = "JumpTrue" -> Peek(0) # Bool(FALSE)
ExecJump ==
  /\ Executes({"Jump", "JumpFalse", "JumpTrue"})
  /\ Leave(IF Ins[1] = "Jump" THEN 0 ELSE 1, <<>>)
  /\ IF Jumps THEN JumpTo(Ins[2]) ELSE Advance
  /\ Same(<<calls, loops, heap, signal, result>>)

\* The value stays where it is, whether or not the jump is taken.
ExecJumpIsType ==
  /\ Executes({"JumpIsType"})
  /\ IF IsType(heap, Peek(0), Ins[3]) THEN JumpTo(Ins[2]) ELSE Advance
  /\ Same(<<calls, stack, loops, heap, signal, result>>)

ExecAssertType ==
  /\ Executes({"AssertType"})
  /\ IF TypeOf(heap, Peek(0)) = Ins[2] THEN Advance /\ Same(<<calls, stack, loops, heap, signal, result>>) ELSE Stop

\* What an instruction makes of the values on top of the stack: how many it
\* takes and, when they fit it, what it leaves.
Operation ==
  CASE Ins[1] = "IsType"  -> [takes |-> 1, leaves |-> <<Bool(IsType(heap, Peek(0), Ins[2]))>>]
    [] Ins[1] = "Invert"  -> [takes |-> 1, leaves |-> IF IsA(Peek(0), "bool") THEN <<Bool(~Peek(0)[2])>> ELSE <<>>]
    [] Ins[1] = "Negate"  -> [takes |-> 1, leaves |-> IF IsA(Peek(0), "int") THEN <<<<"int", -Peek(0)[2]>>>> ELSE <<>>]
    [] Ins[1] = "Equal"    -> [takes |-> 2, leaves |-> <<Bool(ValuesEqual(heap, Peek(1), Peek(0)))>>]
    [] Ins[1] = "NotEqual" -> [takes |-> 2, leaves |-> <<Bool(~ValuesEqual(heap, Peek(1), Peek(0)))>>]
    [] Ins[1] = "Len"      -> [takes |-> 1, leaves |-> IF IsArray(heap, Peek(0)) THEN <<<<"int", Len(Elements(heap, Peek(0)))>>>> ELSE <<>>]
    [] Ins[1] = "Interpolate" ->
         LET parts == SubSeq(stack, Sp - Ins[2] + 1, Sp)
         IN  [takes |-> Ins[2], leaves |-> <<<<"str", Concat(TrivialString, parts)>>>>]
    [] OTHER -> [takes |-> 2, leaves |-> NumericBinary(Ins[1], Peek(1), Peek(0))]

ExecOperator ==
  /\ Executes({"IsType", "Invert", "Negate", "Equal", "NotEqual", "Len", "Interpolate"} \cup Range(BinaryOps))
  /\ IF Operation.leaves = <<>> THEN Stop
     ELSE Leave(Operation.takes, Operation.leaves) /\ Advance /\ Same(<<calls, loops, heap, signal, result>>)

\* A new object on the heap, in place of n operands.
Allocate(n, object) ==
  /\ heap' = Append(heap, object)
  /\ Leave(n, <<<<"ref", Len(heap) + 1>>>>)
  /\ Advance /\ Same(<<calls, loops, signal, result>>)

ExecArray ==
  /\ Executes({"Array"})
  /\ LET n == Peek(0)[2] IN Allocate(n + 1, <<"arr", SubSeq(stack, Sp - n, Sp - 1)>>)

\* Appending makes a new array: the compiler stores it over the old one.
ExecArrayAppend ==
  /\ Executes({"ArrayAppend"})
  /\ IF IsArray(heap, Peek(1)) THEN Allocate(2, <<"arr", Append(Elements(heap, Peek(1)), Peek(0))>>) ELSE Stop

ExecWrapOption ==
  /\ Executes({"WrapOption"})
  /\ IF IsType(heap, Peek(0), "Option") THEN Advance /\ Same(<<calls, stack, loops, heap, signal, result>>)
     ELSE Allocate(1, <<"data", <<Peek(0)>>, "Some">>)

ExecGetLocal ==
  /\ Executes({"GetLocal"})
  /\ Leave(0, <<Fr.locals[Ins[2] + 1]>>) /\ Advance /\ Same(<<calls, loops, heap, signal, result>>)

SetSlot(slot, v) == frames' = [frames EXCEPT ![Last(calls)].locals[slot + 1] = v, ![Last(calls)].ip = @ + 1]
ExecSetLocal ==
  /\ Executes({"SetLocal"})
  /\ Leave(1, <<>>) /\ SetSlot(Ins[2], Peek(0)) /\ Same(<<calls, loops, heap, signal, result>>)

ExecWrapLocal ==
  /\ Executes({"WrapLocal"})
  /\ heap' = Append(heap, <<"cell", Fr.locals[Ins[2] + 1]>>)
  /\ SetSlot(Ins[2], <<"cell", Len(heap) + 1>>) /\ Same(<<calls, stack, loops, signal, result>>)

\* A cell in a slot or in the closure; anything else there stops the program.
Held == IF Ins[1] \in {"GetLocalCell", "SetLocalCell"} THEN Fr.locals[Ins[2] + 1]
        ELSE IF Ins[2] < Len(Fr.free) THEN Fr.free[Ins[2] + 1] ELSE Nil
ExecGetCell ==
  /\ Executes({"GetLocalCell", "GetFreeCell"})
  /\ IF IsA(Held, "cell") THEN Leave(0, <<heap[Held[2]][2]>>) /\ Advance /\ Same(<<calls, loops, heap, signal, result>>)
     ELSE Stop
ExecSetCell ==
  /\ Executes({"SetLocalCell", "SetFreeCell"})
  /\ IF IsA(Held, "cell")
     THEN Leave(1, <<>>) /\ heap' = [heap EXCEPT ![Held[2]][2] = Peek(0)] /\ Advance /\ Same(<<calls, loops, signal, result>>)
     ELSE Stop

ExecGetFree ==
  /\ Executes({"GetFree"})
  /\ IF Ins[2] < Len(Fr.free) THEN Leave(0, <<Fr.free[Ins[2] + 1]>>) /\ Advance /\ Same(<<calls, loops, heap, signal, result>>)
     ELSE Stop

ExecMakeClosure ==
  /\ Executes({"MakeClosure"})
  /\ Leave(Ins[3], <<<<"closure", Ins[2], SubSeq(stack, Sp - Ins[3] + 1, Sp)>>>>)
  /\ Advance /\ Same(<<calls, loops, heap, signal, result>>)

(* ---------------------------- fields, indexes ---------------------------- *)
FieldOf(T, name) == SelectSeq([i \in DOMAIN DataFields[T] |-> i], LAMBDA i : DataFields[T][i] = name)
Lookup(v, name) ==
  CASE IsData(heap, v) -> LET at == FieldOf(TypeOf(heap, v), name) IN [k \in DOMAIN at |-> Elements(heap, v)[at[k]]]
    [] IsA(v, "attr") /\ v[2] = name -> <<v[3]>>
    [] OTHER -> <<>>

ExecGetField ==
  /\ Executes({"GetField"})
  /\ IF Lookup(Peek(0), Ins[2]) = <<>> THEN Stop
     ELSE Leave(1, Lookup(Peek(0), Ins[2])) /\ Advance /\ Same(<<calls, loops, heap, signal, result>>)

ExecSetField ==
  /\ Executes({"SetField"})
  /\ IF IsData(heap, Peek(0)) /\ Lookup(Peek(0), Ins[2]) # <<>>
     THEN /\ heap' = [heap EXCEPT ![Peek(0)[2]][2][FieldOf(TypeOf(heap, Peek(0)), Ins[2])[1]] = Peek(1)]
          /\ Leave(2, <<>>) /\ Advance /\ Same(<<calls, loops, signal, result>>)
     ELSE Stop

InBounds(array, index) == IsArray(heap, array) /\ IsA(index, "int") /\ index[2] \in 0..Len(Elements(heap, array)) - 1
ExecGetIndex ==
  /\ Executes({"GetIndex"})
  /\ IF InBounds(Peek(1), Peek(0))
     THEN Leave(2, <<Elements(heap, Peek(1))[Peek(0)[2] + 1]>>) /\ Advance /\ Same(<<calls, loops, heap, signal, result>>)
     ELSE Stop

ExecSetIndex ==
  /\ Executes({"SetIndex"})
  /\ IF InBounds(Peek(1), Peek(0))
     THEN /\ heap' = [heap EXCEPT ![Peek(1)[2]][2][Peek(0)[2] + 1] = Peek(2)]
          /\ Leave(3, <<>>) /\ Advance /\ Same(<<calls, loops, signal, result>>)
     ELSE Stop

(* ------------------------------- calls ----------------------------------- *)
IsFunction(v) == IsA(v, "fn") \/ IsA(v, "closure")
FreeOf(v) == IF IsA(v, "closure") THEN v[3] ELSE <<>>
ArityOf(v) == code[v[2]].arity

\* The frame of a called function takes its arguments off the stack.
ExecCallFunction ==
  /\ Executes({"Call"}) /\ IsFunction(Peek(0))
  /\ IF ArityOf(Peek(0)) # Ins[2] THEN Stop
     ELSE /\ EnterFrame(NewFrame(Peek(0)[2], FreeOf(Peek(0)), SubSeq(stack, Sp - Ins[2], Sp - 1), Sp - 1 - Ins[2]))
          /\ Leave(1 + Ins[2], <<>>) /\ Same(<<loops, heap, signal, result>>)

ExecCallData ==
  /\ Executes({"Call"}) /\ IsA(Peek(0), "type") /\ Peek(0)[2] \in DOMAIN DataFields
  /\ IF Len(DataFields[Peek(0)[2]]) # Ins[2] THEN Stop
     ELSE Allocate(1 + Ins[2], <<"data", SubSeq(stack, Sp - Ins[2], Sp - 1), Peek(0)[2]>>)

\* An attribute called with a value reads the value's own instance of it.
Instance(v, A) == LET c == AttributesOf(heap, v)[A] IN <<"attr", c[1], <<"fn", c[2]>>>>
ExecCallAttribute ==
  /\ Executes({"Call"}) /\ IsA(Peek(0), "type") /\ Peek(0)[2] \in Attributes
  /\ Leave(2, <<IF IsType(heap, Peek(1), Peek(0)[2]) THEN Instance(Peek(1), Peek(0)[2]) ELSE Void>>)
  /\ Advance /\ Same(<<calls, loops, heap, signal, result>>)

ExecCallPanic == Executes({"Call"}) /\ Peek(0) = <<"extern", "panic">> /\ Stop

\* The yield function of a loop runs the loop's body: its frame is entered a
\* second time, at the start of the body, inside a dispatch loop of its own.
\* floor is the height of the stack it starts from.
ExecCallYield ==
  /\ Executes({"Call"}) /\ IsA(Peek(0), "yield")
  /\ LET y == Peek(0)
         active == heap[y[6]][2]
     IN  IF ~active \/ Ins[2] # 1 THEN Stop
         ELSE /\ calls' = Append(calls, y[2])
              /\ frames' = [frames EXCEPT ![Last(calls)].ip = @ + 1, ![y[2]].locals[y[3] + 1] = Peek(1), ![y[2]].ip = y[4]]
              /\ loops' = Append(loops, [kind |-> "resume", depth |-> FramesIdx + 1, end |-> y[5], frame |-> y[2],
                                         saved |-> IF y[2] = Last(calls) THEN Fr.ip + 1 ELSE frames[y[2]].ip, floor |-> Sp - 2])
              /\ Leave(2, <<>>) /\ Same(<<heap, signal, result>>)

ExecMakeIterYield ==
  /\ Executes({"MakeIterYield"})
  /\ Leave(0, <<<<"yield", Last(calls), Ins[2], Ins[3], Ins[4]>>>>) /\ Advance
  /\ Same(<<calls, loops, heap, signal, result>>)

\* The iterator gets the value and a yield function that works until it returns.
ExecCallIterate ==
  /\ Executes({"CallIterate"})
  /\ LET callee == Peek(0)
         frame  == NewFrame(callee[2], FreeOf(callee), <<Peek(2), Append(Peek(1), Len(heap) + 1)>>, Sp - 3)
     IN  IF ~IsFunction(callee) \/ ArityOf(callee) # 2 THEN Stop
         ELSE /\ EnterFrame(frame)
              /\ heap' = Append(heap, <<"flag", TRUE>>)
              /\ loops' = Append(loops, [kind |-> "iterate", stop |-> FramesIdx, flag |-> Len(heap) + 1, floor |-> Sp - 3])
              /\ Leave(3, <<>>) /\ Same(<<signal, result>>)

\* A value that is no Option is asked to become one, by a call from inside the
\* instruction; the same for a Result.
WrapperOf == IF Ins[1] = "AsOption" THEN <<"Option", "AnyOption">> ELSE <<"Result", "AnyResult">>
ExecAsWrapper ==
  /\ Executes({"AsOption", "AsResult"})
  /\ LET v == Peek(0)
     IN  CASE IsType(heap, v, WrapperOf[1]) -> Advance /\ Same(<<calls, stack, loops, heap, signal, result>>)
           [] ~IsType(heap, v, WrapperOf[1]) /\ IsType(heap, v, WrapperOf[2]) ->
                /\ EnterFrame(NewFrame(Instance(v, WrapperOf[2])[3][2], <<>>, <<v>>, Sp - 1))
                /\ loops' = Append(loops, [kind |-> "convert", stop |-> FramesIdx, union |-> WrapperOf[1], floor |-> Sp - 1])
                /\ Leave(1, <<>>) /\ Same(<<heap, signal, result>>)
           [] OTHER -> Stop

(* --------------------------- returning ----------------------------------- *)
\* Mutant: the operands of the function stay on the stack.
ReturnFromLeaving(v) ==
  /\ calls' = Front(calls)
  /\ IF InBody /\ FramesIdx - 1 < Loop.depth
     THEN stack' = SubSeq(stack, 1, Fr.basep) /\ signal' = <<Fr.home, v>>
     ELSE stack' = Append(Below(1), v) /\ UNCHANGED signal
  /\ Same(<<loops, heap, result>>)

\* The frame is gone; below the frame whose body this loop resumed, the return
\* has to unwind the Go stack as well.
ReturnFrom(v) ==
  /\ calls' = Front(calls)
  /\ IF InBody /\ FramesIdx - 1 < Loop.depth
     THEN stack' = SubSeq(stack, 1, Fr.basep) /\ signal' = <<Fr.home, v>>
     ELSE stack' = Append(SubSeq(stack, 1, Fr.basep), v) /\ UNCHANGED signal
  /\ Same(<<loops, heap, result>>)

ExecReturn == Executes({"Return"}) /\ ReturnFrom(Peek(0)) /\ Advance

ExecReturnIsType ==
  /\ Executes({"ReturnIsType"})
  /\ Advance
  /\ IF IsType(heap, Peek(0), Ins[2]) THEN ReturnFrom(Peek(0)) ELSE Same(<<calls, stack, loops, heap, signal, result>>)

(* --------------------- the end of a dispatch loop ------------------------ *)
Inactive(h) == [h EXCEPT ![Loop.flag] = <<"flag", FALSE>>]

\* The iterator has returned; what it returned is dropped.
IterateEnds ==
  /\ Running /\ LoopOver /\ Loop.kind = "iterate"
  /\ loops' = Front(loops) /\ heap' = Inactive(heap) /\ Leave(1, <<>>)
  /\ Same(<<frames, calls, signal, result>>)

ConvertEnds ==
  /\ Running /\ LoopOver /\ Loop.kind = "convert"
  /\ IF IsType(heap, Peek(0), Loop.union) THEN loops' = Front(loops) /\ Same(<<frames, calls, stack, heap, signal, result>>)
     ELSE Stop

\* The body has reached its end: the frame goes back to where it was, and the
\* body's last word stays on the stack as what yield answers.
BodyEnds ==
  /\ Running /\ LoopOver /\ InBody
  /\ calls' = Front(calls)
  /\ frames' = [frames EXCEPT ![Loop.frame].ip = Loop.saved]
  /\ loops' = Front(loops)
  /\ Same(<<stack, heap, signal, result>>)

\* A signal absorbed inside this body took the frames below it along.
BodyIsGone ==
  /\ Running /\ BodyGone
  /\ signal' = <<FramesIdx, Peek(0)>>
  /\ Same(<<frames, calls, stack, loops, heap, result>>)

\* A signal leaves one activation after the other.  The body whose frame returns
\* applies the return and passes the signal on; the iterator run by that frame
\* or by one below it stops the signal.
UnwindBody ==
  /\ phase = "run" /\ signal # <<>> /\ InBody
  /\ LET fr == frames[Loop.frame]
     IN  IF signal[1] = fr.home
         THEN calls' = SubSeq(calls, 1, fr.home) /\ stack' = Append(SubSeq(stack, 1, fr.basep), signal[2])
         ELSE UNCHANGED <<calls, stack>>
  /\ loops' = Front(loops)
  /\ Same(<<frames, heap, signal, result>>)

UnwindIterate ==
  /\ phase = "run" /\ signal # <<>> /\ Loop.kind = "iterate"
  /\ signal' = IF signal[1] > Loop.stop THEN signal ELSE <<>>
  /\ loops' = Front(loops) /\ heap' = Inactive(heap)
  /\ Same(<<frames, calls, stack, result>>)

\* The conversion of an operand knows nothing of signals.
UnwindConvert ==
  /\ phase = "run" /\ signal # <<>> /\ Loop.kind = "convert"
  /\ loops' = Front(loops) /\ Same(<<frames, calls, stack, heap, signal, result>>)

\* The program is over when its outermost loop is, wherever that happens.
ProgramEnds ==
  /\ Running /\ LoopOver /\ Loop.kind = "top"
  /\ phase' = "done" /\ UNCHANGED <<prog, code, machine>>

Execute ==
  \/ ExecConst \/ ExecPop \/ ExecJump \/ ExecJumpIsType \/ ExecAssertType \/ ExecOperator
  \/ ExecArray \/ ExecArrayAppend \/ ExecWrapOption \/ ExecGetIndex \/ ExecSetIndex
  \/ ExecGetLocal \/ ExecSetLocal \/ ExecWrapLocal \/ ExecGetCell \/ ExecSetCell \/ ExecGetFree
  \/ ExecMakeClosure \/ ExecGetField \/ ExecSetField
  \/ ExecCallFunction \/ ExecCallData \/ ExecCallAttribute \/ ExecCallPanic \/ ExecCallYield
  \/ ExecMakeIterYield \/ ExecCallIterate \/ ExecAsWrapper \/ ExecReturn \/ ExecReturnIsType
  \/ IterateEnds \/ ConvertEnds \/ BodyEnds \/ BodyIsGone \/ UnwindBody \/ UnwindIterate \/ UnwindConvert
  \/ ProgramEnds
=============================================================================
