-------------------------------- MODULE Crew --------------------------------
(***************************************************************************)
(* The routines of one scope, as the modules of channels, host streams and *)
(* globals need them: all spawned before the first step, each cancellable  *)
(* at any time by whoever runs.  Root owns the scope; it works beside the  *)
(* others, closes the scope, may go on alone, and ends the program.        *)
(*                                                                         *)
(* Module Scheduler has scopes and routines in full.  A module EXTENDing   *)
(* this one adds operations: places of at that are its own, and variables  *)
(* that the actions below leave unchanged.                                 *)
(***************************************************************************)
EXTENDS RunLock

VARIABLES
  s,                \* the Scheduler
  cancelled,        \* Routine.cancelled
  at,               \* the operation a routine is in, "user" or "ended"
  unwind,           \* why user code is returning an error, or "no"
  scopeOpen         \* Root has not yet left its scope

flowVars == << cancelled, at, unwind, scopeOpen >>
crewVars == << s, flowVars >>

Others == Routines \ {Root}

CrewInit ==
  /\ s = NewScheduler(Others)
  /\ cancelled = {}
  /\ at = [r \in Routines |-> IF r = Root THEN "user" ELSE "start"]
  /\ unwind = [r \in Routines |-> "no"]
  /\ scopeOpen = TRUE

Members(q) == {q[i] : i \in DOMAIN q}

ProgramRuns == at[Root] # "ended"
Running(r) == s.running = r /\ ProgramRuns
InUserCode(r) == Running(r) /\ at[r] = "user" /\ unwind[r] = "no"
Parked(r, place) == s.state[r] = "parked" /\ at[r] = place
StopReason(r) == StopReasonLocked(s, cancelled, r)

\* The routine is back in user code, with an error if reason is not "no".
Return(r, reason) ==
  /\ at' = [at EXCEPT ![r] = "user"]
  /\ unwind' = [unwind EXCEPT ![r] = IF @ = "no" THEN reason ELSE @]

Enter(r, place) ==
  /\ at' = [at EXCEPT ![r] = place]
  /\ UNCHANGED unwind

-----------------------------------------------------------------------------
\* A call that switches: an error for who must stop, else a turn for the others.
Yield(r) ==
  /\ InUserCode(r)
  /\ \/ /\ StopReason(r) # "no"
        /\ Return(r, StopReason(r))
        /\ UNCHANGED s
     \/ /\ StopReason(r) = "no" /\ s.ready # << >>
        /\ s' = GiveWayLocked(s, r)
        /\ Enter(r, "turn")
  /\ UNCHANGED << cancelled, scopeOpen >>

StartOrResumeYield(r) ==
  /\ Running(r) /\ at[r] \in {"start", "turn"}
  /\ Return(r, StopReason(r))
  /\ UNCHANGED << s, cancelled, scopeOpen >>

\* co.cancel reaches x: marked, and woken if parked.
CancelRoutine(r, x) ==
  /\ InUserCode(r)
  /\ x \in Live(s) \ (cancelled \cup {Root})
  /\ cancelled' = cancelled \cup {x}
  /\ s' = WakeLocked(s, IF s.state[x] = "parked" THEN << x >> ELSE << >>)
  /\ UNCHANGED << at, unwind, scopeOpen >>

Unended == {x \in Others : s.state[x] # "done"}

\* loop, after the body: a failure stops the program, and Root, waiting at
\* the end of the scope for the first unended routine, learns of the end.
EndRoutine(r) ==
  /\ Running(r) /\ r # Root /\ at[r] = "user"
  /\ Enter(r, "ended")
  /\ LET fails   == unwind[r] = "panic" /\ s.fatal = "none"
         aborted == IF fails THEN AbortAllLocked([s EXCEPT !.fatal = "panic"]) ELSE s
         ended   == [aborted EXCEPT !.state[r] = "done"]
         waiting == at[Root] = "close" /\ \A x \in Unended : r <= x
     IN  s' = ReleaseLocked(IF waiting THEN WakeWaiters(ended, << Root >>) ELSE ended)
  /\ UNCHANGED << cancelled, scopeOpen >>

\* One turn of CloseScope's loop by Root, which is never cancelled itself:
\* after a failure it stops the others, then it waits until all have ended.
CloseLoop(reason) ==
  LET stops == s.fatal # "none" /\ ~(Unended \subseteq cancelled)
      woken == IF stops THEN AbortAllLocked(s) ELSE s
  IN  /\ cancelled' = IF stops THEN cancelled \cup Unended ELSE cancelled
      /\ unwind' = [unwind EXCEPT ![Root] = IF @ = "no" THEN reason ELSE @]
      /\ IF Unended = {}
         THEN /\ s' = woken
              /\ scopeOpen' = FALSE
              /\ at' = [at EXCEPT ![Root] = "user"]
         ELSE /\ s' = ParkLocked(woken, Root)
              /\ at' = [at EXCEPT ![Root] = "close"]
              /\ UNCHANGED scopeOpen

CloseScope ==
  /\ Running(Root) /\ at[Root] = "user" /\ scopeOpen
  /\ CloseLoop("no")

ResumeClose ==
  /\ Running(Root) /\ at[Root] = "close"
  /\ CloseLoop(StopReason(Root))

EndProgram ==
  /\ Running(Root) /\ at[Root] = "user" /\ ~scopeOpen
  /\ Enter(Root, "ended")
  /\ UNCHANGED << s, cancelled, scopeOpen >>

CrewStep(r) ==
  \/ Yield(r)
  \/ StartOrResumeYield(r)
  \/ \E x \in Routines : CancelRoutine(r, x)
  \/ EndRoutine(r)
  \/ r = Root /\ (CloseScope \/ ResumeClose \/ EndProgram)

=============================================================================
