------------------------------- MODULE Globals -------------------------------
(***************************************************************************)
(* The lazily initialized globals of pkg/vm: the slots of global.go and    *)
(* what the virtual machines of vm.go and run.go do to them.               *)
(*                                                                         *)
(* Whoever reads a slot first runs its initializer, and New binds every    *)
(* initializer to the machine of the main program: its frames lie on that  *)
(* machine's stack whichever routine runs it.  A routine that steps on a   *)
(* frame it did not push executes another's code, and an initializer run   *)
(* from a host call races with the lock's holder; from there anything may  *)
(* happen, and the model stops at that step (variable astray).             *)
(***************************************************************************)
EXTENDS Crew

CONSTANTS
  Globals,          \* slots of vm.globals
  Reads,            \* pairs << g, h >>: the initializer of g may read h
  MaxCalls,         \* bound on initializers and callbacks nested in a routine
  MaxSwitches       \* bound on the switch points an initializer or callback meets

ASSUME GlobalsAssumption ==
  /\ Reads \subseteq Globals \X Globals
  /\ MaxCalls \in Nat \ {0} /\ MaxSwitches \in Nat

NoGlobal == "none"
ASSUME NoGlobalAssumption == NoGlobal \notin Globals

VARIABLES
  slot,             \* Global.state of each
  owner,            \* Global.owner, the task that claimed it
  value,            \* Global.value: "nil", what the initializer made, or what Set wrote
  doing,            \* initializers and callbacks in progress in each routine, innermost last
  frames,           \* who pushed each frame above the base of the main machine's stack
  want,             \* the slot a routine waits for, and the task it reads or writes as
  astray            \* a routine has run on a frame or a machine that is not its own to run

globalVars == << slot, owner, value, doing, frames, want, astray >>
vars == << crewVars, globalVars >>

\* Task ids are random: CallFunction draws one for every callback.  Here a
\* routine's are told apart by how deep they began; -1 is the id of a fork.
Tasks == Routines \X (-1 .. MaxCalls)
NoTask == << Root, -1 >>
Idle == [g |-> NoGlobal, task |-> NoTask]

Init ==
  /\ CrewInit
  /\ slot = [g \in Globals |-> "uninitialized"]
  /\ owner = [g \in Globals |-> NoTask]
  /\ value = [g \in Globals |-> "nil"]
  /\ doing = [r \in Routines |-> << >>]
  /\ frames = << >>
  /\ want = [r \in Routines |-> Idle]
  /\ astray = "no"

-----------------------------------------------------------------------------
Top(r) == doing[r][Len(doing[r])]
Busy(r) == doing[r] # << >>
Initializes(r, g) == \E i \in DOMAIN doing[r] : doing[r][i].g = g

\* The machine that runs r's code: main for the program and in an initializer.
OnMain(r) == r = Root \/ \E g \in Globals : Initializes(r, g)
OwnFrame(r) ==
  OnMain(r) => IF frames = << >> THEN r = Root ELSE frames[Len(frames)] = r

\* The taskId of the loop that runs r's code, and the one of its machine,
\* which an extern function resolves globals with.
TaskOf(r) == IF Busy(r) THEN Top(r).task ELSE << r, 0 >>
MachineTask(r) == IF OnMain(r) THEN << Root, 0 >> ELSE << r, -1 >>

Code(r) == InUserCode(r) /\ OwnFrame(r) /\ astray = "no"
MayRead(r, g) == (Busy(r) /\ Top(r).g # NoGlobal) => << Top(r).g, g >> \in Reads
MaySwitch(r) == Busy(r) => Top(r).left > 0
Spent(r) == IF Busy(r) THEN [doing[r] EXCEPT ![Len(doing[r])].left = @ - 1] ELSE << >>
SpendSwitch(r) == doing' = [doing EXCEPT ![r] = Spent(r)]

Push(r, g, task) ==
  /\ Len(doing[r]) < MaxCalls
  /\ doing' = [doing EXCEPT ![r] = Append(@, [g |-> g, task |-> task, left |-> MaxSwitches])]
  /\ frames' = IF g # NoGlobal \/ OnMain(r) THEN Append(frames, r) ELSE frames
Pop(r) == doing' = [doing EXCEPT ![r] = SubSeq(@, 1, Len(@) - 1)]

Answer(r, reason) ==
  /\ Return(r, reason)
  /\ want' = [want EXCEPT ![r] = Idle]
  /\ UNCHANGED s

\* Mutant: waits with Gosched, keeping the run lock.
StandAsideSpinning(r) == UNCHANGED s

\* yieldToRoutines of the running routine: Yield's error is dropped.
StandAside(r) ==
  s' = IF StopReason(r) = "no" /\ s.ready # << >> THEN GiveWayLocked(s, r) ELSE s

\* Mutant: whoever finds the slot not initialized runs its initializer.
GetWithoutClaim(r, g, task) ==
  /\ UNCHANGED value
  /\ IF slot[g] = "initialized"
     THEN Answer(r, "no") /\ UNCHANGED << slot, owner, doing, frames >>
     ELSE /\ slot' = [slot EXCEPT ![g] = "initializing"]
          /\ owner' = [owner EXCEPT ![g] = task]
          /\ Push(r, g, task) /\ Answer(r, "no")

\* Mutant: a slot in the making is taken for recursion whoever makes it.
GetWithAnyOwner(r, g, task) ==
  /\ UNCHANGED value
  /\ \/ /\ slot[g] = "initialized"
        /\ Answer(r, "no") /\ UNCHANGED << slot, owner, doing, frames >>
     \/ /\ slot[g] = "uninitialized"
        /\ slot' = [slot EXCEPT ![g] = "initializing"]
        /\ owner' = [owner EXCEPT ![g] = task]
        /\ Push(r, g, task) /\ Answer(r, "no")
     \/ /\ slot[g] = "initializing"
        /\ Answer(r, "panic") /\ UNCHANGED << slot, owner, doing, frames >>

\* One pass of GetWith's loop for a routine that holds the run lock: its
\* spinning in between changes nothing.
GetWith(r, g, task) ==
  /\ UNCHANGED value
  /\ \/ /\ slot[g] = "initialized"
        /\ Answer(r, "no") /\ UNCHANGED << slot, owner, doing, frames >>
     \/ /\ slot[g] = "uninitialized"
        /\ slot' = [slot EXCEPT ![g] = "initializing"]
        /\ owner' = [owner EXCEPT ![g] = task]
        /\ Push(r, g, task) /\ Answer(r, "no")
     \/ /\ slot[g] = "initializing"
        /\ IF owner[g] = task
           THEN Answer(r, "panic")
           ELSE /\ StandAside(r) /\ Enter(r, "spin")
                /\ want' = [want EXCEPT ![r] = [g |-> g, task |-> task]]
        /\ UNCHANGED << slot, owner, doing, frames >>

\* GetGlobal reads as the loop's task, an extern as its machine's.
Read(r, g) ==
  /\ Code(r) /\ MayRead(r, g)
  /\ \E task \in {TaskOf(r), MachineTask(r)} : GetWith(r, g, task)
  /\ UNCHANGED << cancelled, scopeOpen, astray >>

SpinRead(r) ==
  /\ Running(r) /\ at[r] = "spin" /\ astray = "no"
  /\ GetWith(r, want[r].g, want[r].task)
  /\ UNCHANGED << cancelled, scopeOpen, astray >>

\* One pass of Set's loop.  It waits with Gosched: the run lock stays taken.
SetPass(r, g, task) ==
  /\ IF slot[g] = "initializing"
     THEN /\ UNCHANGED << slot, value >>
          /\ IF owner[g] = task
             THEN Answer(r, "panic")
             ELSE /\ Enter(r, "set") /\ UNCHANGED s
                  /\ want' = [want EXCEPT ![r] = [g |-> g, task |-> task]]
     ELSE /\ slot' = [slot EXCEPT ![g] = "initialized"]
          /\ value' = [value EXCEPT ![g] = "written"]
          /\ Answer(r, "no")
  /\ UNCHANGED << owner, doing, frames >>

Set(r, g) ==
  /\ Code(r) /\ MayRead(r, g)
  /\ SetPass(r, g, TaskOf(r))
  /\ UNCHANGED << cancelled, scopeOpen, astray >>

SpinSet(r) ==
  /\ Running(r) /\ at[r] = "set" /\ astray = "no"
  /\ SetPass(r, want[r].g, want[r].task)
  /\ UNCHANGED << cancelled, scopeOpen, astray >>

\* An extern calls back into Zirric code: CallFunction, as a task of its own.
CallFunction(r) ==
  /\ Code(r) /\ MaySwitch(r)
  /\ Len(doing[r]) < MaxCalls
  /\ doing' = [doing EXCEPT ![r] = Append(Spent(r),
                 [g |-> NoGlobal, task |-> << r, Len(doing[r]) + 1 >>, left |-> MaxSwitches])]
  /\ frames' = IF OnMain(r) THEN Append(frames, r) ELSE frames
  /\ UNCHANGED << crewVars, slot, owner, value, want, astray >>

\* Mutant: the value does not reach the slot.
FinishForgetting(r) ==
  /\ Code(r) /\ Busy(r)
  /\ slot' = [g \in Globals |-> IF g = Top(r).g THEN "initialized" ELSE slot[g]]
  /\ frames' = IF OnMain(r) THEN SubSeq(frames, 1, Len(frames) - 1) ELSE frames
  /\ Pop(r)
  /\ UNCHANGED << crewVars, value, owner, want, astray >>

\* The innermost initializer or callback ends: initGlobal hands GetWith the
\* value, CallFunction its caller; the frame is popped.
Finish(r) ==
  /\ Code(r) /\ Busy(r)
  /\ LET g == Top(r).g
     IN  IF g = NoGlobal THEN UNCHANGED << slot, value >>
         ELSE /\ slot' = [slot EXCEPT ![g] = "initialized"]
              /\ value' = [value EXCEPT ![g] = "made"]
  /\ frames' = IF OnMain(r) THEN SubSeq(frames, 1, Len(frames) - 1) ELSE frames
  /\ Pop(r)
  /\ UNCHANGED << crewVars, owner, want, astray >>

Fail(r) ==
  /\ Code(r)
  /\ Return(r, "panic")
  /\ UNCHANGED << s, cancelled, scopeOpen, globalVars >>

\* An error passes through the innermost initializer or callback: GetWith still
\* marks the slot initialized, with no value, and neither pops the frame.
Unwind(r) ==
  /\ Running(r) /\ at[r] = "user" /\ unwind[r] # "no" /\ Busy(r) /\ astray = "no"
  /\ LET g == Top(r).g
     IN  IF g = NoGlobal THEN UNCHANGED << slot, value >>
         ELSE /\ slot' = [slot EXCEPT ![g] = "initialized"]
              /\ value' = [value EXCEPT ![g] = "nil"]
  /\ Pop(r)
  /\ UNCHANGED << crewVars, owner, frames, want, astray >>

-----------------------------------------------------------------------------
(* Host calls, which run outside the run lock.                              *)

\* callExtern of a function that blocks; the turn it gives the others first is
\* Crew's Yield.
HostCall(r) ==
  /\ Code(r) /\ MaySwitch(r) /\ StopReason(r) = "no"
  /\ SpendSwitch(r)
  /\ s' = BeginHostCall(s, r)
  /\ Enter(r, "host")
  /\ UNCHANGED << cancelled, scopeOpen, slot, owner, value, frames, want, astray >>

\* The call builds its Result of the prelude's types.  A slot that is not
\* initialized has the caller run an initializer beside whoever holds the lock;
\* one in the making has it give way on behalf of that routine.
HostResolve(r, g) ==
  /\ s.state[r] = "inHost" /\ at[r] = "host" /\ ProgramRuns
  /\ \/ slot[g] = "uninitialized"
     \/ /\ slot[g] = "initializing" /\ owner[g] # MachineTask(r)
        /\ s.running # Nobody /\ StopReason(s.running) = "no" /\ s.ready # << >>
  /\ astray' = "host"
  /\ UNCHANGED << crewVars, slot, owner, value, doing, frames, want >>

HostReturns(r) ==
  /\ s.state[r] = "inHost" /\ astray = "no" /\ ProgramRuns
  /\ s' = EndHostCall(s, r)
  /\ UNCHANGED << flowVars, globalVars >>

AfterHostCall(r) ==
  /\ Running(r) /\ at[r] = "host" /\ astray = "no"
  /\ Return(r, StopReason(r))
  /\ UNCHANGED << s, cancelled, scopeOpen, globalVars >>

\* The loop of r takes the top frame for its own.
StepOnAnothersFrame(r) ==
  /\ InUserCode(r) /\ ~OwnFrame(r) /\ astray = "no"
  /\ astray' = "frame"
  /\ UNCHANGED << crewVars, slot, owner, value, doing, frames, want >>

\* What routines do besides: the loop must be back at the routine's own body
\* to end it or its scope.
Otherwise(r) ==
  /\ astray = "no" /\ (at[r] = "user" /\ unwind[r] = "no" => OwnFrame(r))
  /\ \/ MaySwitch(r) /\ SpendSwitch(r) /\ Yield(r)
     \/ UNCHANGED doing /\ StartOrResumeYield(r)
     \/ UNCHANGED doing /\ \E x \in Routines : CancelRoutine(r, x)
     \/ /\ ~Busy(r) /\ UNCHANGED doing
        /\ \/ EndRoutine(r)
           \/ r = Root /\ (CloseScope \/ ResumeClose \/ EndProgram)
  /\ UNCHANGED << slot, owner, value, frames, want, astray >>

Stopped == (astray # "no" \/ ~ProgramRuns) /\ UNCHANGED vars

RoutineStep(r) ==
  \/ \E g \in Globals : Read(r, g) \/ Set(r, g)
  \/ SpinRead(r) \/ SpinSet(r)
  \/ CallFunction(r) \/ Finish(r) \/ Fail(r) \/ Unwind(r)
  \/ HostCall(r) \/ AfterHostCall(r)
  \/ StepOnAnothersFrame(r)
  \/ Otherwise(r)

Next ==
  \/ \E r \in Routines : RoutineStep(r) \/ HostReturns(r)
  \/ \E r \in Routines, g \in Globals : HostResolve(r, g)
  \/ Stopped

Spec == Init /\ [][Next]_vars

\* User code comes to a switch point or an end, a spinning reader goes through
\* its loop again, and host calls return.
UserCodeLetsGo(r) == []<>(~Running(r) \/ at[r] \in {"spin", "set"} \/ astray # "no")

FairSpec ==
  /\ Spec
  /\ \A r \in Routines :
       UserCodeLetsGo(r) /\ WF_vars(SpinRead(r)) /\ WF_vars(HostReturns(r))

-----------------------------------------------------------------------------
(* Safety *)

\* A slot is initialized by one routine at a time, and is marked as being
\* initialized exactly while some routine is in its initializer (the compare
\* and swap of GetWith, and the store after a failed initializer).
OneInitializer ==
  \A g \in Globals :
    LET runs == {x \in Routines \X (1 .. MaxCalls) :
                   x[2] \in DOMAIN doing[x[1]] /\ doing[x[1]][x[2]].g = g}
    IN  Cardinality(runs) = (IF slot[g] = "initializing" THEN 1 ELSE 0)

\* A reader is handed no value only in a program that was told to stop: a
\* routine has failed or was cancelled inside the initializer (partial failure).
NilOnlyAfterAStop ==
  \A g \in Globals :
    slot[g] = "initialized" /\ value[g] = "nil" =>
      s.fatal # "none" \/ cancelled # {} \/ \E r \in Routines : unwind[r] # "no"

\* errRecursiveVariableInitialization is true: who gets it is inside the
\* initializer of that very global.  The one exception is an extern called in an
\* initializer that a spawned routine runs: it resolves as the main program, and
\* meets what another such extern, or the program itself, claimed under that id.
RecursionIsReal ==
  [][\A r \in Routines, g \in Globals :
       /\ Read(r, g) \/ (SpinRead(r) /\ want[r].g = g)
       /\ unwind[r] = "no" /\ unwind'[r] = "panic"
       => Initializes(r, g) \/ (r # Root /\ OnMain(r) /\ owner[g] = << Root, 0 >>)]_vars

-----------------------------------------------------------------------------
(* Liveness *)

\* What can keep a reader waiting for good: a spinner that cannot give way, for
\* it has been stopped, waits for itself behind a callback's task id, or is in Set.
SpinsForGood(x) ==
  \/ at[x] = "set"
  \/ at[x] = "spin" /\ (StopReason(x) # "no" \/ Initializes(x, want[x].g))

\* Otherwise a routine that waits for a global another one initializes gives way
\* to it and gets its answer (GetWith's comment: spinning with Gosched would hold
\* the run lock the other routine needs to finish).
ReadsEnd ==
  \A r \in Routines :
    at[r] = "spin" ~> \/ at[r] # "spin" \/ astray # "no" \/ ~ProgramRuns
                      \/ \E x \in Routines : SpinsForGood(x)

=============================================================================
