------------------------------ MODULE Pipeline -------------------------------
(* What becomes of a program: its text is parsed, the tree is analyzed and     *)
(* compiled and the instructions are run.  Programs are given as trees and     *)
(* written down first, so the parser has a text to read; Meaning says what     *)
(* each should come to.  What the parser, the analyzer and the compiler make   *)
(* of a program is a constant, given the values TreesOf, ReportsOf, CodeOf and *)
(* MeaningsOf describe.                                                        *)
EXTENDS Machine, Writer, Semantics, TypeChecker

CONSTANTS Parsed, Reported, Compiled, Expected  \* of each program: its tree, what is wrong with it, its code, what it comes to

TreesOf(programs) == [p \in DOMAIN programs |-> ParseSourceFile(Write(programs[p]))]
ReportsOf(trees) == [p \in DOMAIN trees |-> IF trees[p] = Nothing THEN {} ELSE CheckTypes(trees[p])]
CodeOf(trees) == [p \in DOMAIN trees |-> IF trees[p] = Nothing THEN Nothing ELSE CompileProgram(trees[p], Prelude)]
MeaningsOf(programs) == [p \in DOMAIN programs |-> Meaning(programs[p])]

Init ==
  /\ prog \in DOMAIN Programs /\ phase = "parse" /\ code = <<>>
  /\ frames = <<>> /\ calls = <<>> /\ stack = <<>> /\ loops = <<>> /\ heap = <<>>
  /\ signal = <<>> /\ result = <<>>

ParseModule ==
  /\ phase = "parse"
  /\ phase' = IF Parsed[prog] = Nothing THEN "rejected" ELSE "analyze"
  /\ UNCHANGED <<prog, code, machine>>

\* Nothing is compiled of a program that the analyzer reports something about.
AnalyzeModule ==
  /\ phase = "analyze"
  /\ phase' = IF Reported[prog] # {} THEN "rejected" ELSE "compile"
  /\ UNCHANGED <<prog, code, machine>>

\* A program with a compile error is not run.
CompileModule ==
  /\ phase = "compile"
  /\ code' = Compiled[prog].funcs
  /\ IF Compiled[prog].err THEN phase' = "rejected" /\ UNCHANGED <<prog, machine>>
     ELSE /\ phase' = "run"
          /\ frames' = <<[fn |-> "main", ip |-> 0, free |-> <<>>, basep |-> 0, home |-> 0, locals |-> <<>>]>>
          /\ calls' = <<1>> /\ loops' = <<[kind |-> "top"]>>
          /\ UNCHANGED <<prog, stack, heap, signal, result>>

Next == ParseModule \/ AnalyzeModule \/ CompileModule \/ Execute
Spec == Init /\ [][Next]_vars
FairSpec == Spec /\ WF_vars(Execute)

(* ------------------------------ properties ------------------------------- *)
\* The parser reads back the very tree that was written: the table of
\* precedences, the grouping of operators of one row and the places where a
\* statement ends are those of the grammar.
ParsesAsWritten == phase = "analyze" => Parsed[prog] = Programs[prog]

\* A program that ends has the value the reference evaluator gives it, and it
\* stops early, or is refused, only when the evaluator stops too: jumps, slots,
\* cells, frames and the unwinding out of loop bodies do not show, and what the
\* type checker reports is a certainty, never a suspicion.
RunsToReference ==
  /\ phase = "done" => /\ result # <<>>
                       /\ <<Show(heap, result[1])>> = Expected[prog]
  /\ phase \in {"failed", "rejected"} => Expected[prog] = <<>>

\* No function's instructions run out: only the main code has no return at its
\* end, and to run out of instructions ends the whole program.
NeverRunsOff == Running /\ LoopOver /\ Loop.kind = "top" => Fr.fn = "main"

\* Whatever way loops, conversions and functions were left, a program that is
\* done has the main frame, no operand and no nested dispatch loop.
NothingLeftBehind == phase = "done" => stack = <<>> /\ Len(calls) = 1 /\ Len(loops) = 1

\* Every program that is run comes to an end, its loops with `continue` included:
\* none of these programs runs for ever by its own meaning.
Finishes == phase = "run" ~> phase \in {"done", "failed"}
=============================================================================
