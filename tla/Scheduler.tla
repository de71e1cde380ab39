----------------------------- MODULE Scheduler -----------------------------
(***************************************************************************)
(* Routines and scopes of pkg/runtime/scheduler.go, driven through the     *)
(* externs of pkg/runtime/plugin-co.go and callExtern of pkg/vm/run.go.    *)
(*                                                                         *)
(* An action is one critical section of Scheduler.mu together with the     *)
(* code its routine runs up to the next one.  A routine that waits on its  *)
(* resume channel inside an operation has that operation in at, and        *)
(* continues with the matching Resume action once it holds the run lock.   *)
(* Operations that change nothing (a Yield with an empty queue, waiting    *)
(* for a routine that has ended, cancelling twice) are left out.           *)
(*                                                                         *)
(* Channels are module Channels; here Block and Unblock stand for them: a  *)
(* routine parks, and any running routine may wake it.                     *)
(***************************************************************************)
EXTENDS RunLock

CONSTANT MaxScopes        \* bound on the scopes one program ever opens

ASSUME MaxScopesAssumption == MaxScopes \in Nat

Scopes == 1 .. MaxScopes

VARIABLES
  s,                \* the Scheduler: run lock, ready queue, counters, fatal
  cancelled,        \* Routine.cancelled
  result,           \* Routine.result: "value", or "nil" when none was stored
  waiters,          \* Routine.waiters
  open,             \* Routine.scopes
  owner,            \* RoutineScope.owner, Nobody before OpenScope
  spawnedIn,        \* the scope whose routines list holds the routine, or 0
  cancelledScopes,  \* RoutineScope.cancelled
  finished,         \* RoutineScope.finished
  inside,           \* the co.scope calls on the routine's stack, inner last
  at,               \* where the routine is: user code or inside an operation
  on,               \* the routine a co.wait is waiting for
  unwind            \* why user code is returning an error, or "no"

scopeVars == << open, owner, spawnedIn, cancelledScopes, finished, inside >>
routineVars == << cancelled, result, waiters >>
flowVars == << at, on, unwind >>
vars == << s, routineVars, scopeVars, flowVars >>

Places == {"start", "user", "turn", "hostTurn", "host", "blocked", "wait",
           "close", "ended"}

TypeOK ==
  /\ s \in SchedulerType
  /\ cancelled \subseteq Routines
  /\ result \in [Routines -> {"value", "nil"}]
  /\ waiters \in [Routines -> Seq(Routines)]
  /\ open \in [Routines -> SUBSET Scopes]
  /\ owner \in [Scopes -> Routines \cup {Nobody}]
  /\ spawnedIn \in [Routines -> Scopes \cup {0}]
  /\ cancelledScopes \subseteq Scopes
  /\ finished \subseteq Scopes
  /\ inside \in [Routines -> Seq(Scopes)]
  /\ at \in [Routines -> Places]
  /\ on \in [Routines -> Routines \cup {Nobody}]
  /\ unwind \in [Routines -> {"no", "cancelled", "panic"}]

Init ==
  /\ s = NewScheduler({})
  /\ cancelled = {}
  /\ result = [r \in Routines |-> "nil"]
  /\ waiters = [r \in Routines |-> << >>]
  /\ open = [r \in Routines |-> {}]
  /\ owner = [c \in Scopes |-> Nobody]
  /\ spawnedIn = [r \in Routines |-> 0]
  /\ cancelledScopes = {}
  /\ finished = {}
  /\ inside = [r \in Routines |-> << >>]
  /\ at = [r \in Routines |-> IF r = Root THEN "user" ELSE "start"]
  /\ on = [r \in Routines |-> Nobody]
  /\ unwind = [r \in Routines |-> "no"]

-----------------------------------------------------------------------------
Members(q) == {q[i] : i \in DOMAIN q}

Running(r) == s.running = r /\ at[Root] # "ended"
InUserCode(r) == Running(r) /\ at[r] = "user" /\ unwind[r] = "no"

StopReason(r) == StopReasonLocked(s, cancelled, r)

\* The routine is back in user code, with an error if reason is not "no".
Return(r, reason) ==
  /\ at' = [at EXCEPT ![r] = "user"]
  /\ on' = [on EXCEPT ![r] = Nobody]
  /\ unwind' = [unwind EXCEPT ![r] = IF @ = "no" THEN reason ELSE @]

Enter(r, place) ==
  /\ at' = [at EXCEPT ![r] = place]
  /\ UNCHANGED unwind

\* pendingLocked: the first routine spawned into c that has not ended.
Unended(c) == {r \in Live(s) : spawnedIn[r] = c}
Pending(c) == CHOOSE r \in Unended(c) : \A x \in Unended(c) : r <= x

\* What cancelRoutineLocked and cancelScopeLocked reach from the routines R
\* and the scopes C: the least set of live, uncancelled routines closed under
\* the open, uncancelled scopes of its members.
Reaches(R, C, T) ==
  \A r \in Live(s) \ cancelled :
    (\/ r \in R
     \/ spawnedIn[r] \in C \ cancelledScopes
     \/ \E p \in T : spawnedIn[r] \in open[p] \ cancelledScopes)
    => r \in T

Stopped(R, C) ==
  {r \in Live(s) \ cancelled : \A T \in SUBSET Live(s) : Reaches(R, C, T) => r \in T}

\* Marks everything reached, leaving lock wakes on the record the caller built.
Mark(T, C) ==
  /\ cancelled' = cancelled \cup T
  /\ cancelledScopes' = cancelledScopes \cup C \cup UNION {open[r] : r \in T}

\* Mutant: cancelling marks routines but wakes none.
NoneParked(l, T) == {}

ParkedIn(l, T) == {r \in T : l.state[r] = "parked"}

-----------------------------------------------------------------------------
(* Scopes and routines *)

\* coScope up to the call of the body.
OpenScope(r) ==
  /\ InUserCode(r)
  /\ \E c \in Scopes :
       /\ owner[c] = Nobody /\ \A d \in Scopes : d < c => owner[d] # Nobody
       /\ owner' = [owner EXCEPT ![c] = r]
       /\ open' = [open EXCEPT ![r] = @ \cup {c}]
       /\ inside' = [inside EXCEPT ![r] = Append(@, c)]
  /\ UNCHANGED << s, routineVars, spawnedIn, cancelledScopes, finished, flowVars >>

\* Mutant: a scope whose body has returned still takes routines.
RefusesIfCancelled(c) == c \in cancelledScopes

Refuses(c) == c \in finished \cup cancelledScopes

\* Anyone holding the Scope may spawn into it; an ended one refuses.
Spawn(r, c) ==
  /\ InUserCode(r)
  /\ owner[c] # Nobody
  /\ IF Refuses(c)
     THEN /\ Return(r, "panic")
          /\ UNCHANGED << s, spawnedIn >>
     ELSE \E n \in Routines :
            /\ s.state[n] = "unborn" /\ \A m \in Routines : m < n => s.state[m] # "unborn"
            /\ s' = EnqueueNew(s, n)
            /\ spawnedIn' = [spawnedIn EXCEPT ![n] = c]
            /\ UNCHANGED flowVars
  /\ UNCHANGED << routineVars, open, owner, cancelledScopes, finished, inside >>

Cancel(r, c) ==
  /\ InUserCode(r)
  /\ owner[c] # Nobody /\ c \notin cancelledScopes
  /\ LET reached == Stopped({}, {c})
     IN  /\ Mark(reached, {c})
         /\ \E q \in Orders(ParkedIn(s, reached)) : s' = WakeLocked(s, q)
  /\ UNCHANGED << result, waiters, open, owner, spawnedIn, finished, inside, flowVars >>

\* Mutant: a failure of the program is not a reason to stop a scope.
UnwindingIfCancelled(r) == r \in cancelled

Unwinding(r) == r \in cancelled \/ s.fatal # "none"

\* One turn of CloseScope's loop, reason being the stop it carries: an
\* unwinding owner cancels the scope, then waits for the first unended routine.
CloseLoop(r, c, reason) ==
  LET first   == Unwinding(r) /\ c \notin cancelledScopes
      reached == IF first THEN Stopped({}, {c}) ELSE {}
  IN  /\ Mark(reached, IF first THEN {c} ELSE {})
      /\ \E q \in Orders(ParkedIn(s, reached)) :
           LET woken == WakeLocked(s, q)
           IN  IF Unended(c) = {}
               THEN /\ s' = woken
                    /\ open' = [open EXCEPT ![r] = @ \ {c}]
                    /\ inside' = [inside EXCEPT ![r] = SubSeq(@, 1, Len(@) - 1)]
                    /\ Return(r, reason)
                    /\ UNCHANGED waiters
               ELSE /\ s' = ParkLocked(woken, r)
                    /\ waiters' = [waiters EXCEPT ![Pending(c)] = Append(@, r)]
                    /\ at' = [at EXCEPT ![r] = "close"]
                    /\ unwind' = [unwind EXCEPT ![r] = IF @ = "no" THEN reason ELSE @]
                    /\ UNCHANGED << open, inside, on >>
      /\ UNCHANGED << result, owner, spawnedIn >>

Innermost(r) == inside[r][Len(inside[r])]

\* The scope's body has returned or failed: coScope closes the scope either way.
CloseScope(r) ==
  /\ Running(r) /\ at[r] = "user" /\ inside[r] # << >>
  /\ finished' = finished \cup {Innermost(r)}
  /\ CloseLoop(r, Innermost(r), "no")

ResumeClose(r) ==
  /\ Running(r) /\ at[r] = "close"
  /\ CloseLoop(r, Innermost(r), StopReason(r))
  /\ UNCHANGED finished

\* An iterReturnSignal panics past coScope: the body is gone, CloseScope never ran.
EscapeScope(r) ==
  /\ InUserCode(r) /\ inside[r] # << >>
  /\ inside' = [inside EXCEPT ![r] = SubSeq(@, 1, Len(@) - 1)]
  /\ UNCHANGED << s, routineVars, open, owner, spawnedIn, cancelledScopes, finished, flowVars >>

Wait(r, t) ==
  /\ InUserCode(r)
  /\ t \in Live(s)
  /\ IF StopReason(r) # "no"
     THEN /\ Return(r, StopReason(r))
          /\ UNCHANGED << s, waiters >>
     ELSE /\ s' = ParkLocked(s, r)
          /\ waiters' = [waiters EXCEPT ![t] = Append(@, r)]
          /\ on' = [on EXCEPT ![r] = t]
          /\ Enter(r, "wait")
  /\ UNCHANGED << cancelled, result, scopeVars >>

\* The loop of Wait: an error first, then the answer, else wait again.
ResumeWait(r) ==
  /\ Running(r) /\ at[r] = "wait"
  /\ IF StopReason(r) # "no" \/ s.state[on[r]] = "done"
     THEN /\ Return(r, StopReason(r))
          /\ UNCHANGED << s, waiters >>
     ELSE /\ s' = ParkLocked(s, r)
          /\ waiters' = [waiters EXCEPT ![on[r]] = Append(@, r)]
          /\ UNCHANGED flowVars
  /\ UNCHANGED << cancelled, result, scopeVars >>

-----------------------------------------------------------------------------
(* Switch points *)

\* callExtern of a function that Switches: Yield, then the host if it Blocks.
CallExtern(r, blocks) ==
  /\ InUserCode(r)
  /\ \/ /\ StopReason(r) # "no"
        /\ Return(r, StopReason(r))
        /\ UNCHANGED s
     \/ /\ StopReason(r) = "no" /\ s.ready # << >>
        /\ s' = GiveWayLocked(s, r)
        /\ Enter(r, IF blocks THEN "hostTurn" ELSE "turn")
        /\ UNCHANGED on
     \/ /\ StopReason(r) = "no" /\ s.ready = << >> /\ blocks
        /\ s' = BeginHostCall(s, r)
        /\ Enter(r, "host")
        /\ UNCHANGED on
  /\ UNCHANGED << routineVars, scopeVars >>

ResumeYield(r) ==
  /\ Running(r) /\ at[r] \in {"turn", "hostTurn"}
  /\ IF StopReason(r) = "no" /\ at[r] = "hostTurn"
     THEN /\ s' = BeginHostCall(s, r)
          /\ Enter(r, "host")
          /\ UNCHANGED on
     ELSE /\ Return(r, StopReason(r))
          /\ UNCHANGED s
  /\ UNCHANGED << routineVars, scopeVars >>

\* The host answers: the goroutine queues for the run lock.
HostReturns(r) ==
  /\ s.state[r] = "inHost" /\ at[Root] # "ended"
  /\ s' = EndHostCall(s, r)
  /\ UNCHANGED << routineVars, scopeVars, flowVars >>

\* Back from the host, or from a channel operation another routine completed.
ResumeCall(r) ==
  /\ Running(r) /\ at[r] \in {"host", "blocked"}
  /\ Return(r, StopReason(r))
  /\ UNCHANGED << s, routineVars, scopeVars >>

Block(r) ==
  /\ InUserCode(r)
  /\ IF StopReason(r) # "no"
     THEN /\ Return(r, StopReason(r))
          /\ UNCHANGED s
     ELSE /\ s' = ParkLocked(s, r)
          /\ Enter(r, "blocked")
          /\ UNCHANGED on
  /\ UNCHANGED << routineVars, scopeVars >>

Unblock(r, x) ==
  /\ InUserCode(r)
  /\ s.state[x] = "parked" /\ at[x] = "blocked"
  /\ s' = WakeLocked(s, << x >>)
  /\ UNCHANGED << routineVars, scopeVars, flowVars >>

-----------------------------------------------------------------------------
(* Beginning and end *)

\* Mutant: the body runs although the routine was stopped before its turn.
StartRegardless(r) ==
  /\ Running(r) /\ at[r] = "start"
  /\ Return(r, "no")
  /\ UNCHANGED << s, routineVars, scopeVars >>

\* loop, before the body: a routine stopped before its turn never runs it.
Start(r) ==
  /\ Running(r) /\ at[r] = "start"
  /\ Return(r, StopReason(r))
  /\ UNCHANGED << s, routineVars, scopeVars >>

\* User code fails: panic, a bug such as a send on a closed channel.
Panic(r) ==
  /\ InUserCode(r)
  /\ Return(r, "panic")
  /\ UNCHANGED << s, routineVars, scopeVars >>

\* Mutant: the failure of a routine is dropped.
FailsSilently(r) == FALSE

\* The routine ends in a failure nobody has reported yet.
Fails(r) == unwind[r] = "panic" /\ s.fatal = "none"

\* Mutant: a routine that ends leaves its scopes alone.
NothingLeftOpen(r) == {}

\* The scopes a routine leaves behind when it ends.
LeftOpen(r) == open[r]

\* loop, after the body.
EndRoutine(r) ==
  /\ Running(r) /\ r # Root /\ at[r] = "user" /\ inside[r] = << >>
  /\ LET aborted == IF Fails(r) THEN AbortAllLocked([s EXCEPT !.fatal = "panic"]) ELSE s
         woken   == WakeWaiters([aborted EXCEPT !.state[r] = "done"], waiters[r])
         reached == Stopped({}, LeftOpen(r))
     IN  /\ Mark(reached, LeftOpen(r))
         /\ \E q \in Orders(ParkedIn(woken, reached)) :
              s' = ReleaseLocked(WakeLocked(woken, q))
  /\ result' = [result EXCEPT ![r] = IF unwind[r] = "no" THEN "value" ELSE "nil"]
  /\ waiters' = [waiters EXCEPT ![r] = << >>]
  /\ open' = [open EXCEPT ![r] = {}]
  /\ at' = [at EXCEPT ![r] = "ended"]
  /\ UNCHANGED << owner, spawnedIn, finished, inside, on, unwind >>

\* VM.Run returns; a failure shuts the scheduler down first.
EndProgram ==
  /\ Running(Root) /\ at[Root] = "user" /\ inside[Root] = << >>
  /\ at' = [at EXCEPT ![Root] = "ended"]
  /\ IF unwind[Root] = "no"
     THEN UNCHANGED << s, cancelled, cancelledScopes >>
     ELSE /\ Mark(Stopped(Live(s), {}), {})
          /\ \E q \in Orders(InState(s, "parked")) :
               s' = WakeLocked([s EXCEPT !.fatal = IF @ = "none" THEN "panic" ELSE @], q)
  /\ UNCHANGED << result, waiters, open, owner, spawnedIn, finished, inside, on, unwind >>

Terminated == at[Root] = "ended" /\ UNCHANGED vars

-----------------------------------------------------------------------------
UserStep(r) ==
  \/ OpenScope(r)
  \/ \E c \in Scopes : Spawn(r, c) \/ Cancel(r, c)
  \/ EscapeScope(r)
  \/ \E t \in Routines : Wait(r, t) \/ Unblock(r, t)
  \/ \E blocks \in BOOLEAN : CallExtern(r, blocks)
  \/ Block(r)
  \/ Panic(r)

RoutineStep(r) ==
  \/ UserStep(r)
  \/ Start(r)
  \/ CloseScope(r) \/ ResumeClose(r)
  \/ ResumeWait(r)
  \/ ResumeYield(r)
  \/ ResumeCall(r)
  \/ EndRoutine(r)
  \/ (r = Root /\ EndProgram)

Next ==
  \/ \E r \in Routines : RoutineStep(r) \/ HostReturns(r)
  \/ Terminated

Spec == Init /\ [][Next]_vars

\* Weak fairness of whoever holds the run lock, its steps being enabled until
\* the program ends: the deadlock check of every run shows that they are.
HolderRunsOn ==
  \/ []<>(s.running = Nobody \/ at[Root] = "ended")
  \/ []<><<\E r \in Routines : RoutineStep(r)>>_vars

\* Beyond that the host answers every call.
FairSpec ==
  /\ Spec
  /\ HolderRunsOn
  /\ \A r \in Routines : WF_vars(HostReturns(r))

-----------------------------------------------------------------------------
(* Safety *)

\* One routine executes Zirric code at a time, and it is the one the lock
\* names (ZE-025): state and running never disagree, whoever handed the lock on.
OneRunner == \A r \in Routines : s.state[r] = "running" <=> s.running = r

\* The ready queue holds exactly the ready routines, each once, and the lock
\* is never left lying while somebody queues for it.
ReadyExact ==
  /\ Members(s.ready) = InState(s, "ready")
  /\ \A i, j \in DOMAIN s.ready : s.ready[i] = s.ready[j] => i = j
  /\ s.running = Nobody => s.ready = << >>

\* The counters deadlock detection trusts agree with the routines they count.
CountersExact ==
  /\ s.parked = Cardinality(InState(s, "parked"))
  /\ s.external = Cardinality(InState(s, "inHost"))

\* Holder, queue and counters of the run lock agree with the routines' states,
\* though five places hand the lock on and each keeps them by hand.
LockExact == OneRunner /\ ReadyExact /\ CountersExact

\* An idle lock means somebody is in the host and will bring it back: routines
\* that only wait for each other are always found by the deadlock check.
NeverStalls == s.running = Nobody => InState(s, "inHost") # {}

\* A routine told to stop parks no more, but at the end of its own scope, and
\* there only for routines that have been cancelled as well: nobody waits for
\* routines nobody will feed.
StoppedWaitForStopped ==
  \A r \in InState(s, "parked") :
    StopReason(r) # "no" =>
      /\ at[r] = "close"
      /\ Innermost(r) \in cancelledScopes /\ Unended(Innermost(r)) \subseteq cancelled

\* Where CloseScope does run, nothing outlives the block: a scope whose body is
\* over has live routines only as long as its owner waits for them.
ClosedScopesAreEmpty ==
  at[Root] # "ended" =>
    \A r \in Live(s) \ {Root} :
      LET c == spawnedIn[r]
      IN  c \in finished => c \in Members(inside[owner[c]])

\* Even when CloseScope was skipped, a routine whose owner has ended is stopped.
OrphansAreCancelled ==
  \A r \in Live(s) \ {Root} : owner[spawnedIn[r]] \notin Live(s) => r \in cancelled

\* After the first failure no routine carries on: each one the lock reaches is unwinding.
FailureStopsUserCode == s.fatal # "none" => \A r \in Routines : ~InUserCode(r)

\* Wait may report a missing result as Cancelled: in a program that has not
\* failed only a cancelled routine ends without one.
NilMeansCancelled ==
  s.fatal = "none" =>
    \A r \in InState(s, "done") : result[r] = "nil" => r \in cancelled

\* The deadlock report is never premature: at that moment every routine but
\* the one giving up the lock is parked.
DeadlockIsReal ==
  [][~s.deadlocked /\ s'.deadlocked => Live(s) \subseteq InState(s, "parked") \cup {s.running}]_vars

-----------------------------------------------------------------------------
(* Liveness *)

\* First in, first out leaves nobody behind: a ready routine gets its turn.
ReadyRuns ==
  \A r \in Routines : s.state[r] = "ready" ~> (s.state[r] = "running" \/ at[Root] = "ended")

\* A cancelled routine ends, whatever it was waiting for and owns.
CancelledEnds ==
  \A r \in Routines \ {Root} : r \in cancelled ~> (s.state[r] = "done" \/ at[Root] = "ended")

\* Once a failure has left its routine, or a deadlock is found, the program ends.
FailureEndsProgram == s.fatal # "none" ~> at[Root] = "ended"

=============================================================================
