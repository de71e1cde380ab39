-------------------------- MODULE Scheduler_proof --------------------------
(***************************************************************************)
(* Theorems about module Scheduler, for every number of routines and of    *)
(* scopes.                                                                 *)
(*                                                                         *)
(* The run lock is sound between two critical sections (Sound, proved for  *)
(* each operator in RunLock_proof).  What the lock's operators ask of      *)
(* their callers is that the caller holds the lock, which is UserRuns.     *)
(*                                                                         *)
(* On top of it stand two invariants.  Tree says how routines, scopes and  *)
(* their owners hang together: a routine is spawned after the owner of its *)
(* scope, a scope is open or it is over, and a cancelled scope has         *)
(* cancelled routines.  Waits says who is parked and why that is safe: a   *)
(* stopped routine waits only at the end of a cancelled scope, in the      *)
(* waiter list of a routine that has not ended.                            *)
(***************************************************************************)
EXTENDS Scheduler, RunLock_proof

\* Only the routine that holds the lock is in user code.
UserRuns == \A x \in Routines : at[x] = "user" => s.state[x] = "running"

\* Who waits at the end of a scope is still inside one.
CloseInside == \A x \in Routines : at[x] = "close" => inside[x] # << >>

IInv ==
  /\ TypeOK
  /\ Sound(s)
  /\ UserRuns
  /\ FailureStopsUserCode
  /\ CloseInside

-----------------------------------------------------------------------------
(* Frames *)

\* Who holds the lock runs, and nobody else does.
LEMMA RunnerIsHolder ==
  ASSUME Sound(s), NEW r \in Routines, s.running = r
  PROVE  /\ s.state[r] = "running"
         /\ \A x \in Routines : x # r => s.state[x] # "running"
BY RoutinesFinite DEF Sound, Mid

\* Cancelling reaches live routines only.
LEMMA StoppedAreLive ==
  ASSUME NEW R, NEW C
  PROVE  Stopped(R, C) \in SUBSET Routines /\ Stopped(R, C) \in SUBSET Live(s)
BY DEF Stopped, Live

\* Marking what a cancellation reaches keeps the types.
LEMMA MarkType ==
  ASSUME TypeOK, NEW T \in SUBSET Routines, NEW C \in SUBSET Scopes, Mark(T, C)
  PROVE  cancelled' \subseteq Routines /\ cancelledScopes' \subseteq Scopes
<1>1. \A r \in T : open[r] \in SUBSET Scopes
  BY DEF TypeOK
<1>2. UNION {open[r] : r \in T} \subseteq Scopes
  BY <1>1
<1> QED
  BY <1>2 DEF TypeOK, Mark

\* Whatever order the routines a cancellation reached are woken in, they may be.
LEMMA ParkedInWakeable ==
  ASSUME NEW l, NEW T \in SUBSET Routines, NEW q \in Orders(ParkedIn(l, T))
  PROVE  Wakeable(l, q)
<1>1. ParkedIn(l, T) \in SUBSET Routines /\ \A r \in ParkedIn(l, T) : l.state[r] = "parked"
  BY DEF ParkedIn
<1> QED
  BY <1>1, OrdersWakeable

\* A step of the holder of the lock, in two cases: it goes on in user code and
\* keeps the lock, with an error if the program has failed, or it is elsewhere.
LEMMA HolderStep ==
  ASSUME IInv, NEW r \in Routines, s.running = r,
         Sound(s'),
         \A x \in Routines \ {r} : at'[x] = at[x],
         at'[r] = "user" => /\ s'.running = r
                            /\ s'.fatal # "none" => unwind'[r] # "no"
  PROVE  UserRuns' /\ FailureStopsUserCode'
<1>1. \A x \in Routines : at'[x] = "user" => x = r
  BY RunnerIsHolder DEF IInv, UserRuns
<1>2. UserRuns'
  <2> SUFFICES ASSUME NEW x \in Routines, at'[x] = "user"
               PROVE  s'.state[x] = "running"
    BY DEF UserRuns
  <2>1. x = r /\ s'.running = r
    BY <1>1
  <2> QED
    BY <2>1, RoutinesFinite DEF Sound
<1>3. FailureStopsUserCode'
  BY <1>1 DEF FailureStopsUserCode, InUserCode, Running
<1> QED
  BY <1>2, <1>3

\* Returning to user code with the stop reason the lock gives.
LEMMA ReturnFrame ==
  ASSUME TypeOK, NEW r \in Routines, NEW reason \in {"no", "cancelled", "panic"},
         Return(r, reason)
  PROVE  /\ at' \in [Routines -> Places] /\ on' \in [Routines -> Routines \cup {Nobody}]
         /\ unwind' \in [Routines -> {"no", "cancelled", "panic"}]
         /\ at'[r] = "user" /\ \A x \in Routines \ {r} : at'[x] = at[x]
         /\ reason # "no" \/ unwind[r] # "no" => unwind'[r] # "no"
BY DEF TypeOK, Return, Places

LEMMA EnterFrame ==
  ASSUME TypeOK, NEW r \in Routines, NEW p \in Places, Enter(r, p)
  PROVE  /\ at' \in [Routines -> Places] /\ at'[r] = p
         /\ \A x \in Routines \ {r} : at'[x] = at[x]
         /\ unwind' = unwind
BY DEF TypeOK, Enter

\* The stop reason is an error as soon as the program has failed.
LEMMA StopReasonType ==
  ASSUME NEW r
  PROVE  /\ StopReason(r) \in {"no", "cancelled", "panic"}
         /\ s.fatal # "none" => StopReason(r) # "no"
BY DEF StopReason, StopReasonLocked

\* A routine in user code has seen no failure.
LEMMA UserCodeNoFailure ==
  ASSUME IInv, NEW r \in Routines, InUserCode(r)
  PROVE  s.fatal = "none" /\ s.running = r /\ at[r] = "user"
BY DEF IInv, FailureStopsUserCode, InUserCode, Running

\* A sequence of scopes without its last element is one.
LEMMA FrontType ==
  ASSUME NEW q \in Seq(Scopes), q # << >>
  PROVE  SubSeq(q, 1, Len(q) - 1) \in Seq(Scopes) /\ q[Len(q)] \in Scopes
<1>1. Len(q) \in Nat \ {0}
  BY EmptySeq, LenProperties
<1> QED
  BY <1>1, ElementOfSeq, SubSeqProperties

\* Scopes waited for at their end stay on the stack as long as the wait.
LEMMA CloseInsideKept ==
  ASSUME CloseInside,
         \A x \in Routines : at'[x] = "close" => at[x] = "close" /\ inside'[x] = inside[x]
  PROVE  CloseInside'
BY DEF CloseInside

-----------------------------------------------------------------------------
(* The steps *)

\* What a step leaves of TypeOK when it touches only lock and flow.
LEMMA FlowStepType ==
  ASSUME TypeOK, Sound(s'), UNCHANGED << routineVars, scopeVars >>,
         at' \in [Routines -> Places], on' \in [Routines -> Routines \cup {Nobody}],
         unwind' \in [Routines -> {"no", "cancelled", "panic"}]
  PROVE  TypeOK'
BY DEF TypeOK, Sound, Mid, routineVars, scopeVars

\* Nothing has happened: the root routine runs, the lock is its own.
LEMMA InitIInv == Init => IInv
<1> SUFFICES ASSUME Init PROVE IInv
  OBVIOUS
<1>1. Sound(s) /\ s.fatal = "none" /\ s.state[Root] = "running"
  <2>1. Sound(s) /\ s.fatal = "none"
    BY NewSchedulerSound DEF Init
  <2>2. s.state[Root] = "running"
    BY RoutinesFinite DEF Init, NewScheduler
  <2> QED
    BY <2>1, <2>2
<1>2. TypeOK
  <2>1. << >> \in Seq(Routines) /\ << >> \in Seq(Scopes)
    OBVIOUS
  <2>2. s \in SchedulerType
    BY <1>1 DEF Sound, Mid
  <2> QED
    BY <2>1, <2>2 DEF Init, TypeOK, Places
<1>3. UserRuns
  BY <1>1 DEF Init, UserRuns
<1>4. FailureStopsUserCode /\ CloseInside
  BY <1>1 DEF Init, FailureStopsUserCode, CloseInside
<1> QED
  BY <1>1, <1>2, <1>3, <1>4 DEF IInv

LEMMA OpenScopeIInv ==
  ASSUME IInv, NEW r \in Routines, OpenScope(r)
  PROVE  IInv'
<1>1. s.fatal = "none" /\ s.running = r /\ at[r] = "user"
  BY UserCodeNoFailure DEF OpenScope
<1>2. s' = s /\ at' = at /\ unwind' = unwind /\ on' = on
  BY DEF OpenScope, flowVars
<1>3. PICK c \in Scopes :
        /\ owner' = [owner EXCEPT ![c] = r]
        /\ open' = [open EXCEPT ![r] = @ \cup {c}]
        /\ inside' = [inside EXCEPT ![r] = Append(@, c)]
  BY DEF OpenScope
<1>4. TypeOK
  BY DEF IInv
<1>5. Append(inside[r], c) \in Seq(Scopes)
  BY <1>4, AppendProperties DEF TypeOK
<1>6. TypeOK'
  BY <1>2, <1>3, <1>4, <1>5 DEF TypeOK, OpenScope, routineVars
<1>7. CloseInside'
  <2>1. \A x \in Routines : at'[x] = "close" => at[x] = "close" /\ inside'[x] = inside[x]
    BY <1>1, <1>2, <1>3, <1>4 DEF TypeOK
  <2> QED
    BY <2>1, CloseInsideKept DEF IInv
<1>8. Sound(s') /\ UserRuns' /\ FailureStopsUserCode'
  BY <1>1, <1>2 DEF IInv, UserRuns, FailureStopsUserCode
<1> QED
  BY <1>6, <1>7, <1>8 DEF IInv

LEMMA SpawnIInv ==
  ASSUME IInv, NEW r \in Routines, NEW c \in Scopes, Spawn(r, c)
  PROVE  IInv'
<1>1. s.fatal = "none" /\ s.running = r /\ at[r] = "user"
  BY UserCodeNoFailure DEF Spawn
<1>2. TypeOK /\ Sound(s) /\ r # Nobody
  BY RoutinesFinite DEF IInv
<1>3. UNCHANGED << routineVars, open, owner, cancelledScopes, finished, inside >>
  BY DEF Spawn
<1>4. CASE Refuses(c)
  <2>1. Return(r, "panic") /\ s' = s /\ spawnedIn' = spawnedIn
    BY <1>4 DEF Spawn
  <2>2. /\ at' \in [Routines -> Places] /\ on' \in [Routines -> Routines \cup {Nobody}]
        /\ unwind' \in [Routines -> {"no", "cancelled", "panic"}]
        /\ at'[r] = "user" /\ \A x \in Routines \ {r} : at'[x] = at[x]
    BY <1>2, <2>1, ReturnFrame
  <2>3. UserRuns' /\ FailureStopsUserCode'
    BY <1>1, <1>2, <2>1, <2>2, HolderStep
  <2>4. TypeOK'
    BY <1>2, <1>3, <2>1, <2>2 DEF TypeOK, routineVars
  <2>5. CloseInside'
    BY <1>3, <2>2, CloseInsideKept DEF IInv
  <2> QED
    BY <1>2, <2>1, <2>3, <2>4, <2>5 DEF IInv
<1>5. CASE ~Refuses(c)
  <2>1. PICK n \in Routines :
          /\ s.state[n] = "unborn"
          /\ s' = EnqueueNew(s, n)
          /\ spawnedIn' = [spawnedIn EXCEPT ![n] = c]
          /\ UNCHANGED flowVars
    BY <1>5 DEF Spawn
  <2>2. Sound(s') /\ s'.running = r /\ s'.fatal = "none"
    BY <1>1, <1>2, <2>1, EnqueueNewSound
  <2>3. at' = at /\ on' = on /\ unwind' = unwind
    BY <2>1 DEF flowVars
  <2>4. UserRuns' /\ FailureStopsUserCode'
    BY <1>1, <2>2, <2>3, HolderStep
  <2>5. s' \in SchedulerType
    BY <2>2 DEF Sound, Mid
  <2>6. TypeOK'
    BY <1>2, <1>3, <2>1, <2>3, <2>5 DEF TypeOK, routineVars
  <2>7. CloseInside'
    BY <1>3, <2>3, CloseInsideKept DEF IInv
  <2> QED
    BY <2>2, <2>4, <2>6, <2>7 DEF IInv
<1> QED
  BY <1>4, <1>5

LEMMA CancelIInv ==
  ASSUME IInv, NEW r \in Routines, NEW c \in Scopes, Cancel(r, c)
  PROVE  IInv'
<1> DEFINE T == Stopped({}, {c})
<1>1. s.fatal = "none" /\ s.running = r /\ at[r] = "user"
  BY UserCodeNoFailure DEF Cancel
<1>2. TypeOK /\ Sound(s) /\ Mid(s) /\ r # Nobody
  BY RoutinesFinite DEF IInv, Sound
<1>3. Mark(T, {c}) /\ UNCHANGED << result, waiters, open, owner, spawnedIn, finished, inside, flowVars >>
  BY DEF Cancel
<1>4. PICK q \in Orders(ParkedIn(s, T)) : s' = WakeLocked(s, q)
  BY DEF Cancel
<1>5. T \in SUBSET Routines
  BY StoppedAreLive
<1>6. Wakeable(s, q)
  BY <1>4, <1>5, ParkedInWakeable
<1>7. Sound(s') /\ s'.running = r /\ s'.fatal = "none"
  BY <1>1, <1>2, <1>4, <1>6, WakeLockedSound
<1>8. at' = at /\ on' = on /\ unwind' = unwind
  BY <1>3 DEF flowVars
<1>9. UserRuns' /\ FailureStopsUserCode'
  BY <1>1, <1>7, <1>8, HolderStep
<1>10. TypeOK'
  <2>1. cancelled' \subseteq Routines /\ cancelledScopes' \subseteq Scopes
    BY <1>2, <1>3, <1>5, MarkType
  <2>2. s' \in SchedulerType
    BY <1>7 DEF Sound, Mid
  <2> QED
    BY <1>2, <1>3, <1>8, <2>1, <2>2 DEF TypeOK
<1>11. CloseInside'
  BY <1>3, <1>8, CloseInsideKept DEF IInv
<1> QED
  BY <1>7, <1>9, <1>10, <1>11 DEF IInv

\* One turn of the loop at the end of a scope, with the reason it carries.
LEMMA CloseLoopIInv ==
  ASSUME IInv, NEW r \in Routines, s.running = r, inside[r] # << >>,
         NEW reason \in {"no", "cancelled", "panic"},
         s.fatal # "none" => reason # "no" \/ unwind[r] # "no",
         CloseLoop(r, Innermost(r), reason),
         finished' \subseteq Scopes
  PROVE  IInv'
<1> DEFINE c == Innermost(r)
           first == Unwinding(r) /\ c \notin cancelledScopes
           T == IF first THEN Stopped({}, {c}) ELSE {}
           C == IF first THEN {c} ELSE {}
<1>1. TypeOK /\ Sound(s) /\ Mid(s) /\ r # Nobody
  BY RoutinesFinite DEF IInv, Sound
<1>2. /\ inside[r] \in Seq(Scopes) /\ c \in Scopes
      /\ SubSeq(inside[r], 1, Len(inside[r]) - 1) \in Seq(Scopes)
  BY <1>1, FrontType DEF TypeOK, Innermost
<1>3. T \in SUBSET Routines /\ C \in SUBSET Scopes
  BY <1>2, StoppedAreLive
<1>4. Mark(T, C) /\ UNCHANGED << result, owner, spawnedIn >>
  BY DEF CloseLoop
<1>5. PICK q \in Orders(ParkedIn(s, T)) :
        LET woken == WakeLocked(s, q)
        IN  IF Unended(c) = {}
            THEN /\ s' = woken
                 /\ open' = [open EXCEPT ![r] = @ \ {c}]
                 /\ inside' = [inside EXCEPT ![r] = SubSeq(@, 1, Len(@) - 1)]
                 /\ Return(r, reason)
                 /\ UNCHANGED waiters
            ELSE /\ s' = ParkLocked(woken, r)
                 /\ waiters' = [waiters EXCEPT ![Pending(c)] = Append(@, r)]
                 /\ at' = [at EXCEPT ![r] = "close"]
                 /\ unwind' = [unwind EXCEPT ![r] = IF @ = "no" THEN reason ELSE @]
                 /\ UNCHANGED << open, inside, on >>
  BY DEF CloseLoop
<1> DEFINE woken == WakeLocked(s, q)
<1>6. Sound(woken) /\ woken.running = r /\ woken.fatal = s.fatal
  <2>1. Wakeable(s, q)
    BY <1>3, <1>5, ParkedInWakeable
  <2> QED
    BY <1>1, <2>1, WakeLockedSound
<1>7. cancelled' \subseteq Routines /\ cancelledScopes' \subseteq Scopes
  BY <1>1, <1>3, <1>4, MarkType
<1> HIDE DEF c, first, T, C, woken
<1>8. CASE Unended(c) = {}
  <2>1. /\ s' = woken /\ waiters' = waiters
        /\ open' = [open EXCEPT ![r] = @ \ {c}]
        /\ inside' = [inside EXCEPT ![r] = SubSeq(@, 1, Len(@) - 1)]
        /\ Return(r, reason)
    BY <1>5, <1>8 DEF woken
  <2>2. /\ at' \in [Routines -> Places] /\ on' \in [Routines -> Routines \cup {Nobody}]
        /\ unwind' \in [Routines -> {"no", "cancelled", "panic"}]
        /\ at'[r] = "user" /\ \A x \in Routines \ {r} : at'[x] = at[x]
        /\ reason # "no" \/ unwind[r] # "no" => unwind'[r] # "no"
    BY <1>1, <2>1, ReturnFrame
  <2>3. UserRuns' /\ FailureStopsUserCode'
    BY <1>6, <2>1, <2>2, HolderStep
  <2>4. TypeOK'
    <3>1. s' \in SchedulerType
      BY <1>6, <2>1 DEF Sound, Mid
    <3>2. inside' \in [Routines -> Seq(Scopes)] /\ open' \in [Routines -> SUBSET Scopes]
      BY <1>1, <1>2, <2>1 DEF TypeOK
    <3> QED
      BY <1>1, <1>4, <1>7, <2>1, <2>2, <3>1, <3>2 DEF TypeOK
  <2>5. CloseInside'
    <3>1. \A x \in Routines : at'[x] = "close" => at[x] = "close" /\ inside'[x] = inside[x]
      BY <1>1, <2>1, <2>2 DEF TypeOK
    <3> QED
      BY <3>1, CloseInsideKept DEF IInv
  <2> QED
    BY <1>6, <2>1, <2>3, <2>4, <2>5 DEF IInv
<1>9. CASE Unended(c) # {}
  <2>1. /\ s' = ParkLocked(woken, r)
        /\ waiters' = [waiters EXCEPT ![Pending(c)] = Append(@, r)]
        /\ at' = [at EXCEPT ![r] = "close"]
        /\ unwind' = [unwind EXCEPT ![r] = IF @ = "no" THEN reason ELSE @]
        /\ UNCHANGED << open, inside, on >>
    BY <1>5, <1>9 DEF woken
  <2>2. Sound(s')
    BY <1>6, <2>1, ParkLockedSound
  <2>3. at'[r] = "close" /\ \A x \in Routines \ {r} : at'[x] = at[x]
    BY <1>1, <2>1 DEF TypeOK
  <2>4. UserRuns' /\ FailureStopsUserCode'
    BY <2>2, <2>3, HolderStep
  <2>5. TypeOK'
    <3>1. s' \in SchedulerType
      BY <2>2 DEF Sound, Mid
    <3>2. at' \in [Routines -> Places] /\ unwind' \in [Routines -> {"no", "cancelled", "panic"}]
      BY <1>1, <2>1 DEF TypeOK, Places
    <3>3. waiters' \in [Routines -> Seq(Routines)]
      <4>1. \A x \in Routines : Append(waiters[x], r) \in Seq(Routines)
        BY <1>1, AppendProperties DEF TypeOK
      <4> QED
        BY <1>1, <2>1, <4>1 DEF TypeOK
    <3> QED
      BY <1>1, <1>4, <1>7, <2>1, <3>1, <3>2, <3>3 DEF TypeOK
  <2>6. CloseInside'
    <3>1. \A x \in Routines : at'[x] = "close" => x = r \/ at[x] = "close"
      BY <2>3
    <3> QED
      BY <2>1, <3>1 DEF IInv, CloseInside
  <2> QED
    BY <2>2, <2>4, <2>5, <2>6 DEF IInv
<1> QED
  BY <1>8, <1>9

LEMMA CloseScopeIInv ==
  ASSUME IInv, NEW r \in Routines, CloseScope(r)
  PROVE  IInv'
<1>1. s.running = r /\ inside[r] # << >> /\ CloseLoop(r, Innermost(r), "no")
  BY DEF CloseScope, Running
<1>2. s.fatal # "none" => unwind[r] # "no"
  BY DEF CloseScope, IInv, FailureStopsUserCode, InUserCode
<1>3. finished' \subseteq Scopes
  <2>1. Innermost(r) \in Scopes
    BY <1>1, FrontType DEF IInv, TypeOK, Innermost
  <2> QED
    BY <2>1 DEF CloseScope, IInv, TypeOK
<1> QED
  BY <1>1, <1>2, <1>3, CloseLoopIInv

LEMMA ResumeCloseIInv ==
  ASSUME IInv, NEW r \in Routines, ResumeClose(r)
  PROVE  IInv'
<1>1. s.running = r /\ CloseLoop(r, Innermost(r), StopReason(r))
  BY DEF ResumeClose, Running
<1>2. inside[r] # << >> /\ finished' \subseteq Scopes
  BY DEF ResumeClose, IInv, CloseInside, TypeOK
<1>3. /\ StopReason(r) \in {"no", "cancelled", "panic"}
      /\ s.fatal # "none" => StopReason(r) # "no"
  BY StopReasonType
<1> QED
  BY <1>1, <1>2, <1>3, CloseLoopIInv

LEMMA EscapeScopeIInv ==
  ASSUME IInv, NEW r \in Routines, EscapeScope(r)
  PROVE  IInv'
<1>1. s.fatal = "none" /\ s.running = r /\ at[r] = "user"
  BY UserCodeNoFailure DEF EscapeScope
<1>2. /\ TypeOK /\ s' = s /\ at' = at /\ on' = on /\ unwind' = unwind
      /\ inside' = [inside EXCEPT ![r] = SubSeq(@, 1, Len(@) - 1)]
      /\ UNCHANGED << routineVars, open, owner, spawnedIn, cancelledScopes, finished >>
  BY DEF EscapeScope, IInv, flowVars
<1>3. inside' \in [Routines -> Seq(Scopes)]
  <2>1. SubSeq(inside[r], 1, Len(inside[r]) - 1) \in Seq(Scopes)
    BY <1>2, FrontType DEF TypeOK, EscapeScope
  <2> QED
    BY <1>2, <2>1 DEF TypeOK
<1>4. TypeOK'
  BY <1>2, <1>3 DEF TypeOK, routineVars
<1>5. CloseInside'
  <2>1. \A x \in Routines : at'[x] = "close" => at[x] = "close" /\ inside'[x] = inside[x]
    BY <1>1, <1>2 DEF TypeOK
  <2> QED
    BY <2>1, CloseInsideKept DEF IInv
<1> QED
  BY <1>1, <1>2, <1>4, <1>5 DEF IInv, UserRuns, FailureStopsUserCode

\* Steps that touch lock and flow only, ending in user code or elsewhere.
LEMMA FlowStepIInv ==
  ASSUME IInv, NEW r \in Routines, s.running = r, Sound(s'),
         UNCHANGED << routineVars, scopeVars >>,
         on' \in [Routines -> Routines \cup {Nobody}],
         \/ \E reason \in {"no", "cancelled", "panic"} :
              /\ Return(r, reason)
              /\ s'.running = r
              /\ s'.fatal # "none" => reason # "no"
         \/ \E p \in Places \ {"user", "close"} : Enter(r, p)
  PROVE  IInv'
<1>1. TypeOK
  BY DEF IInv
<1>2. /\ at' \in [Routines -> Places]
      /\ unwind' \in [Routines -> {"no", "cancelled", "panic"}]
      /\ \A x \in Routines \ {r} : at'[x] = at[x]
      /\ at'[r] # "close"
      /\ at'[r] = "user" => s'.running = r /\ (s'.fatal # "none" => unwind'[r] # "no")
  <2>1. CASE \E reason \in {"no", "cancelled", "panic"} :
               /\ Return(r, reason)
               /\ s'.running = r
               /\ s'.fatal # "none" => reason # "no"
    BY <1>1, <2>1, ReturnFrame
  <2>2. CASE \E p \in Places \ {"user", "close"} : Enter(r, p)
    <3>1. unwind' = unwind /\ unwind \in [Routines -> {"no", "cancelled", "panic"}]
      BY <1>1, <2>2 DEF Enter, TypeOK
    <3> QED
      BY <1>1, <2>2, <3>1, EnterFrame
  <2> QED
    BY <2>1, <2>2
<1>3. UserRuns' /\ FailureStopsUserCode'
  BY <1>2, HolderStep
<1>4. TypeOK'
  BY <1>1, <1>2, FlowStepType
<1>5. CloseInside'
  <2>1. \A x \in Routines : at'[x] = "close" => at[x] = "close" /\ inside'[x] = inside[x]
    BY <1>2 DEF scopeVars
  <2> QED
    BY <2>1, CloseInsideKept DEF IInv
<1> QED
  BY <1>3, <1>4, <1>5 DEF IInv

\* Parking on the waiter list of routine t.
LEMMA WaitParksIInv ==
  ASSUME IInv, NEW r \in Routines, s.running = r, NEW t \in Routines,
         s' = ParkLocked(s, r),
         waiters' = [waiters EXCEPT ![t] = Append(@, r)],
         on' = [on EXCEPT ![r] = t],
         at' = [at EXCEPT ![r] = "wait"],
         UNCHANGED << unwind, cancelled, result, scopeVars >>
  PROVE  IInv'
<1>1. TypeOK /\ Sound(s)
  BY DEF IInv
<1>2. Sound(s')
  BY <1>1, ParkLockedSound
<1>3. at'[r] = "wait" /\ \A x \in Routines \ {r} : at'[x] = at[x]
  BY <1>1 DEF TypeOK
<1>4. UserRuns' /\ FailureStopsUserCode'
  BY <1>2, <1>3, HolderStep
<1>5. TypeOK'
  <2>1. s' \in SchedulerType
    BY <1>2 DEF Sound, Mid
  <2>2. at' \in [Routines -> Places] /\ on' \in [Routines -> Routines \cup {Nobody}]
    BY <1>1 DEF TypeOK, Places
  <2>3. waiters' \in [Routines -> Seq(Routines)]
    <3>1. Append(waiters[t], r) \in Seq(Routines)
      BY <1>1, AppendProperties DEF TypeOK
    <3> QED
      BY <1>1, <3>1 DEF TypeOK
  <2> QED
    BY <1>1, <2>1, <2>2, <2>3 DEF TypeOK, scopeVars
<1>6. CloseInside'
  <2>1. \A x \in Routines : at'[x] = "close" => at[x] = "close" /\ inside'[x] = inside[x]
    BY <1>3 DEF scopeVars
  <2> QED
    BY <2>1, CloseInsideKept DEF IInv
<1> QED
  BY <1>2, <1>4, <1>5, <1>6 DEF IInv

LEMMA OnType ==
  ASSUME TypeOK, NEW r \in Routines
  PROVE  /\ on' = on => on' \in [Routines -> Routines \cup {Nobody}]
         /\ \A reason : Return(r, reason) => on' \in [Routines -> Routines \cup {Nobody}]
BY DEF TypeOK, Return

\* Returning to user code without touching the lock.
LEMMA ReturnIInv ==
  ASSUME IInv, NEW r \in Routines, s.running = r, s' = s,
         NEW reason \in {"no", "cancelled", "panic"},
         Return(r, reason), s.fatal # "none" => reason # "no",
         UNCHANGED << routineVars, scopeVars >>
  PROVE  IInv'
<1>1. Sound(s') /\ on' \in [Routines -> Routines \cup {Nobody}]
  BY OnType DEF IInv
<1> QED
  BY <1>1, FlowStepIInv

\* Leaving user code for an operation, at a place that is not the end of a scope.
LEMMA EnterIInv ==
  ASSUME IInv, NEW r \in Routines, s.running = r, Sound(s'),
         NEW p \in Places \ {"user", "close"}, Enter(r, p),
         UNCHANGED << on, routineVars, scopeVars >>
  PROVE  IInv'
<1>1. on' \in [Routines -> Routines \cup {Nobody}]
  BY OnType DEF IInv
<1> QED
  BY <1>1, FlowStepIInv

LEMMA WaitIInv ==
  ASSUME IInv, NEW r \in Routines, NEW t \in Routines, Wait(r, t)
  PROVE  IInv'
<1>1. s.fatal = "none" /\ s.running = r
  BY UserCodeNoFailure DEF Wait
<1>2. CASE StopReason(r) # "no"
  <2>1. Return(r, StopReason(r)) /\ s' = s /\ UNCHANGED << routineVars, scopeVars >>
    BY <1>2 DEF Wait, routineVars
  <2> QED
    BY <1>1, <2>1, StopReasonType, ReturnIInv
<1>3. CASE StopReason(r) = "no"
  <2>1. /\ s' = ParkLocked(s, r)
        /\ waiters' = [waiters EXCEPT ![t] = Append(@, r)]
        /\ on' = [on EXCEPT ![r] = t]
        /\ at' = [at EXCEPT ![r] = "wait"]
        /\ UNCHANGED << unwind, cancelled, result, scopeVars >>
    BY <1>3 DEF Wait, Enter
  <2> QED
    BY <1>1, <2>1, WaitParksIInv
<1> QED
  BY <1>2, <1>3

LEMMA ResumeWaitIInv ==
  ASSUME IInv, NEW r \in Routines, ResumeWait(r)
  PROVE  IInv'
<1>1. s.running = r /\ at[r] = "wait" /\ TypeOK
  BY DEF ResumeWait, Running, IInv
<1>2. CASE StopReason(r) # "no" \/ s.state[on[r]] = "done"
  <2>1. Return(r, StopReason(r)) /\ s' = s /\ UNCHANGED << routineVars, scopeVars >>
    BY <1>2 DEF ResumeWait, routineVars
  <2> QED
    BY <1>1, <2>1, StopReasonType, ReturnIInv
<1>3. CASE ~(StopReason(r) # "no" \/ s.state[on[r]] = "done")
  <2>1. /\ s' = ParkLocked(s, r)
        /\ waiters' = [waiters EXCEPT ![on[r]] = Append(@, r)]
        /\ UNCHANGED << flowVars, cancelled, result, scopeVars >>
    BY <1>3 DEF ResumeWait
  <2>2. Sound(s')
    BY <1>1, <2>1, ParkLockedSound DEF IInv
  <2>3. UserRuns' /\ FailureStopsUserCode'
    BY <1>1, <2>1, <2>2, HolderStep DEF flowVars
  <2>4. TypeOK'
    <3>1. s' \in SchedulerType
      BY <2>2 DEF Sound, Mid
    <3>2. waiters' \in [Routines -> Seq(Routines)]
      <4>1. \A x \in Routines : Append(waiters[x], r) \in Seq(Routines)
        BY <1>1, AppendProperties DEF TypeOK
      <4> QED
        BY <1>1, <2>1, <4>1 DEF TypeOK
    <3> QED
      BY <1>1, <2>1, <3>1, <3>2 DEF TypeOK, flowVars, scopeVars
  <2>5. CloseInside'
    BY <2>1, CloseInsideKept DEF IInv, flowVars, scopeVars
  <2> QED
    BY <2>2, <2>3, <2>4, <2>5 DEF IInv
<1> QED
  BY <1>2, <1>3

LEMMA CallExternIInv ==
  ASSUME IInv, NEW r \in Routines, NEW blocks \in BOOLEAN, CallExtern(r, blocks)
  PROVE  IInv'
<1>1. s.fatal = "none" /\ s.running = r /\ Sound(s)
  BY UserCodeNoFailure DEF CallExtern, IInv
<1>2. UNCHANGED << routineVars, scopeVars >>
  BY DEF CallExtern
<1>3. CASE Return(r, StopReason(r)) /\ s' = s
  BY <1>1, <1>2, <1>3, StopReasonType, ReturnIInv
<1>4. CASE /\ s' = GiveWayLocked(s, r)
           /\ Enter(r, IF blocks THEN "hostTurn" ELSE "turn")
           /\ UNCHANGED on
  <2>1. Sound(s')
    BY <1>1, <1>4, GiveWayLockedSound
  <2>2. (IF blocks THEN "hostTurn" ELSE "turn") \in Places \ {"user", "close"}
    BY DEF Places
  <2> QED
    BY <1>1, <1>2, <1>4, <2>1, <2>2, EnterIInv
<1>5. CASE s' = BeginHostCall(s, r) /\ Enter(r, "host") /\ UNCHANGED on
  <2>1. Sound(s')
    BY <1>1, <1>5, BeginHostCallSound
  <2>2. "host" \in Places \ {"user", "close"}
    BY DEF Places
  <2> QED
    BY <1>1, <1>2, <1>5, <2>1, <2>2, EnterIInv
<1> QED
  BY <1>3, <1>4, <1>5 DEF CallExtern

LEMMA ResumeYieldIInv ==
  ASSUME IInv, NEW r \in Routines, ResumeYield(r)
  PROVE  IInv'
<1>1. s.running = r /\ Sound(s) /\ UNCHANGED << routineVars, scopeVars >>
  BY DEF ResumeYield, Running, IInv
<1>2. CASE s' = BeginHostCall(s, r) /\ Enter(r, "host") /\ UNCHANGED on
  <2>1. Sound(s')
    BY <1>1, <1>2, BeginHostCallSound
  <2>2. "host" \in Places \ {"user", "close"}
    BY DEF Places
  <2> QED
    BY <1>1, <1>2, <2>1, <2>2, EnterIInv
<1>3. CASE Return(r, StopReason(r)) /\ s' = s
  BY <1>1, <1>3, StopReasonType, ReturnIInv
<1> QED
  BY <1>2, <1>3 DEF ResumeYield

\* The host answers while another routine runs, or none: nobody's code moves.
LEMMA HostReturnsIInv ==
  ASSUME IInv, NEW r \in Routines, HostReturns(r)
  PROVE  IInv'
<1>1. s.state[r] = "inHost" /\ s' = EndHostCall(s, r) /\ TypeOK /\ Sound(s)
  BY DEF HostReturns, IInv
<1>2. at' = at /\ on' = on /\ unwind' = unwind /\ UNCHANGED << routineVars, scopeVars >>
  BY DEF HostReturns, flowVars
<1>3. /\ Sound(s') /\ s'.fatal = s.fatal
      /\ s.running # Nobody => s'.running = s.running
  BY <1>1, EndHostCallSound
<1>4. \A x \in Routines : at[x] = "user" => s.running = x /\ s'.running = x
  <2> SUFFICES ASSUME NEW x \in Routines, at[x] = "user"
               PROVE  s.running = x /\ s'.running = x
    OBVIOUS
  <2>1. s.state[x] = "running"
    BY DEF IInv, UserRuns
  <2>2. s.running = x /\ x # Nobody
    BY <1>1, <2>1, RoutinesFinite DEF Sound, Mid
  <2> QED
    BY <1>3, <2>2
<1>5. UserRuns'
  <2> SUFFICES ASSUME NEW x \in Routines, at[x] = "user"
               PROVE  s'.state[x] = "running"
    BY <1>2 DEF UserRuns
  <2>1. s'.running = x /\ x # Nobody
    BY <1>4, RoutinesFinite
  <2> QED
    BY <1>3, <2>1 DEF Sound
<1>6. FailureStopsUserCode'
  BY <1>2, <1>3, <1>4 DEF IInv, FailureStopsUserCode, InUserCode, Running
<1>7. TypeOK'
  BY <1>1, <1>2, <1>3, FlowStepType DEF TypeOK
<1>8. CloseInside'
  BY <1>2, CloseInsideKept DEF IInv, scopeVars
<1> QED
  BY <1>3, <1>5, <1>6, <1>7, <1>8 DEF IInv

LEMMA ResumeCallIInv ==
  ASSUME IInv, NEW r \in Routines, ResumeCall(r)
  PROVE  IInv'
<1>1. /\ s.running = r /\ Return(r, StopReason(r)) /\ s' = s
      /\ UNCHANGED << routineVars, scopeVars >>
  BY DEF ResumeCall, Running
<1> QED
  BY <1>1, StopReasonType, ReturnIInv

LEMMA BlockIInv ==
  ASSUME IInv, NEW r \in Routines, Block(r)
  PROVE  IInv'
<1>1. s.fatal = "none" /\ s.running = r /\ Sound(s)
  BY UserCodeNoFailure DEF Block, IInv
<1>2. UNCHANGED << routineVars, scopeVars >>
  BY DEF Block
<1>3. CASE Return(r, StopReason(r)) /\ s' = s
  BY <1>1, <1>2, <1>3, StopReasonType, ReturnIInv
<1>4. CASE s' = ParkLocked(s, r) /\ Enter(r, "blocked") /\ UNCHANGED on
  <2>1. Sound(s')
    BY <1>1, <1>4, ParkLockedSound
  <2>2. "blocked" \in Places \ {"user", "close"}
    BY DEF Places
  <2> QED
    BY <1>1, <1>2, <1>4, <2>1, <2>2, EnterIInv
<1> QED
  BY <1>3, <1>4 DEF Block

LEMMA UnblockIInv ==
  ASSUME IInv, NEW r \in Routines, NEW x \in Routines, Unblock(r, x)
  PROVE  IInv'
<1>1. s.fatal = "none" /\ s.running = r /\ Sound(s) /\ Mid(s) /\ TypeOK /\ r # Nobody
  BY UserCodeNoFailure, RoutinesFinite DEF Unblock, IInv, Sound
<1>2. /\ s' = WakeLocked(s, << x >>) /\ s.state[x] = "parked"
      /\ at' = at /\ on' = on /\ unwind' = unwind /\ UNCHANGED << routineVars, scopeVars >>
  BY DEF Unblock, flowVars
<1>3. Wakeable(s, << x >>)
  BY <1>2 DEF Wakeable
<1>4. Sound(s') /\ s'.running = r /\ s'.fatal = "none"
  BY <1>1, <1>2, <1>3, WakeLockedSound
<1>5. UserRuns' /\ FailureStopsUserCode'
  BY <1>1, <1>2, <1>4, HolderStep
<1>6. TypeOK'
  BY <1>1, <1>2, <1>4, FlowStepType DEF TypeOK
<1>7. CloseInside'
  BY <1>2, CloseInsideKept DEF IInv, scopeVars
<1> QED
  BY <1>4, <1>5, <1>6, <1>7 DEF IInv

LEMMA StartIInv ==
  ASSUME IInv, NEW r \in Routines, Start(r)
  PROVE  IInv'
<1>1. /\ s.running = r /\ Return(r, StopReason(r)) /\ s' = s
      /\ UNCHANGED << routineVars, scopeVars >>
  BY DEF Start, Running
<1> QED
  BY <1>1, StopReasonType, ReturnIInv

LEMMA PanicIInv ==
  ASSUME IInv, NEW r \in Routines, Panic(r)
  PROVE  IInv'
<1>1. /\ s.running = r /\ Return(r, "panic") /\ s' = s
      /\ UNCHANGED << routineVars, scopeVars >>
  BY DEF Panic, InUserCode, Running
<1> QED
  BY <1>1, ReturnIInv

\* The lock on its way through the end of a routine: a after a failure has been
\* reported, d with the routine done, k with its waiters woken, u with the
\* cancelled ones.
Ending(r, w, T, a, d, k, q, u) ==
  /\ a = IF Fails(r) THEN AbortAllLocked([s EXCEPT !.fatal = "panic"]) ELSE s
  /\ Ended(a, d, r)
  /\ k = WakeWaiters(d, w)
  /\ q \in Orders(ParkedIn(k, T))
  /\ u = WakeLocked(k, q)

\* On the way the lock stays exact, and is let go in the end.
LEMMA EndingSound ==
  ASSUME Sound(s), NEW r \in Routines, s.running = r, NEW w \in Seq(Routines),
         NEW T \in SUBSET Routines,
         NEW a, NEW d, NEW k, NEW q, NEW u, Ending(r, w, T, a, d, k, q, u)
  PROVE  /\ Sound(a) /\ Mid(d) /\ Mid(k) /\ Mid(u)
         /\ \A x \in Routines : u.state[x] # "running"
         /\ Sound(ReleaseLocked(u))
<1> DEFINE f == [s EXCEPT !.fatal = "panic"]
<1>1. s \in SchedulerType /\ Mid(s) /\ r # Nobody
  BY RoutinesFinite DEF Sound, Mid
<1>2. Sound(a) /\ a.running = r
  <2>1. CASE Fails(r)
    <3>1. OnlyMarks(s, f) /\ f.running = r
      BY <1>1 DEF OnlyMarks, SchedulerType
    <3>2. a = AbortAllLocked(f)
      BY <2>1 DEF Ending
    <3> HIDE DEF f
    <3>3. Mid(f) /\ Sound(f)
      BY <1>1, <3>1, MarksKeep
    <3> QED
      BY <1>1, <3>1, <3>2, <3>3, AbortAllSound
  <2>2. CASE ~Fails(r)
    BY <2>2 DEF Ending
  <2> QED
    BY <2>1, <2>2
<1>3. Mid(d) /\ d.running = r /\ d.state[r] = "done"
  BY <1>2, EndedMid DEF Ending
<1> HIDE DEF f
<1>4. Mid(k) /\ k.running = r /\ k.state[r] = "done"
  <2>1. d.running # Nobody /\ d.state[r] # "parked"
    BY <1>1, <1>3
  <2>2. /\ Mid(WakeWaiters(d, w)) /\ WakeWaiters(d, w).running = d.running
        /\ \A x \in Routines : d.state[x] # "parked" => WakeWaiters(d, w).state[x] = d.state[x]
    BY <1>3, <2>1, WakeWaitersSound
  <2> QED
    BY <1>3, <2>1, <2>2 DEF Ending
<1>5. Wakeable(k, q)
  BY ParkedInWakeable DEF Ending
<1>6. Mid(u) /\ u.running = r /\ u.state[r] = "done"
  BY <1>1, <1>4, <1>5, WakeLockedSound DEF Ending
<1>7. \A x \in Routines : u.state[x] # "running"
  BY <1>6 DEF Mid
<1> QED
  BY <1>2, <1>3, <1>4, <1>6, <1>7, ReleaseSound

LEMMA EndRoutineIInv ==
  ASSUME IInv, NEW r \in Routines, EndRoutine(r)
  PROVE  IInv'
<1> DEFINE a == IF Fails(r) THEN AbortAllLocked([s EXCEPT !.fatal = "panic"]) ELSE s
           d == [a EXCEPT !.state[r] = "done"]
           T == Stopped({}, LeftOpen(r))
<1>1. TypeOK /\ Sound(s) /\ s.running = r
  BY DEF IInv, EndRoutine, Running
<1>2. PICK q \in Orders(ParkedIn(WakeWaiters(d, waiters[r]), T)) :
        s' = ReleaseLocked(WakeLocked(WakeWaiters(d, waiters[r]), q))
  BY DEF EndRoutine
<1>3. /\ Mark(T, LeftOpen(r))
      /\ result' = [result EXCEPT ![r] = IF unwind[r] = "no" THEN "value" ELSE "nil"]
      /\ waiters' = [waiters EXCEPT ![r] = << >>]
      /\ open' = [open EXCEPT ![r] = {}]
      /\ at' = [at EXCEPT ![r] = "ended"]
      /\ UNCHANGED << owner, spawnedIn, finished, inside, on, unwind >>
  BY DEF EndRoutine
<1>4. T \in SUBSET Routines /\ LeftOpen(r) \in SUBSET Scopes /\ waiters[r] \in Seq(Routines)
  BY <1>1, StoppedAreLive DEF TypeOK, LeftOpen
<1> HIDE DEF T
<1>5. Sound(s')
  <2> DEFINE k == WakeWaiters(d, waiters[r])
             u == WakeLocked(k, q)
  <2>1. Ending(r, waiters[r], T, a, d, k, q, u)
    BY <1>2 DEF Ending, Ended
  <2>2. s' = ReleaseLocked(u)
    BY <1>2
  <2> HIDE DEF a, d, k, u
  <2> QED
    BY <1>1, <1>4, <2>1, <2>2, EndingSound
<1>6. at'[r] = "ended" /\ \A x \in Routines \ {r} : at'[x] = at[x]
  BY <1>1, <1>3 DEF TypeOK
<1>7. UserRuns' /\ FailureStopsUserCode'
  BY <1>1, <1>5, <1>6, HolderStep
<1>8. TypeOK'
  <2>1. s' \in SchedulerType
    BY <1>5 DEF Sound, Mid
  <2>2. cancelled' \subseteq Routines /\ cancelledScopes' \subseteq Scopes
    BY <1>1, <1>3, <1>4, MarkType
  <2>3. /\ at' \in [Routines -> Places] /\ result' \in [Routines -> {"value", "nil"}]
        /\ open' \in [Routines -> SUBSET Scopes]
    BY <1>1, <1>3 DEF TypeOK, Places
  <2>4. waiters' \in [Routines -> Seq(Routines)]
    <3>1. << >> \in Seq(Routines)
      OBVIOUS
    <3> QED
      BY <1>1, <1>3, <3>1 DEF TypeOK
  <2> QED
    BY <1>1, <1>3, <2>1, <2>2, <2>3, <2>4 DEF TypeOK
<1>9. CloseInside'
  <2>1. \A x \in Routines : at'[x] = "close" => at[x] = "close" /\ inside'[x] = inside[x]
    BY <1>3, <1>6
  <2> QED
    BY <2>1, CloseInsideKept DEF IInv
<1> QED
  BY <1>5, <1>7, <1>8, <1>9 DEF IInv

LEMMA EndProgramIInv ==
  ASSUME IInv, EndProgram
  PROVE  IInv'
<1>1. /\ TypeOK /\ Sound(s) /\ Mid(s) /\ s.running = Root
      /\ Root \in Routines /\ s \in SchedulerType
  BY RoutinesFinite DEF IInv, EndProgram, Running, Sound, Mid
<1>2. /\ at' = [at EXCEPT ![Root] = "ended"]
      /\ UNCHANGED << result, waiters, open, owner, spawnedIn, finished, inside, on, unwind >>
  BY DEF EndProgram
<1>3. Sound(s') /\ cancelled' \subseteq Routines /\ cancelledScopes' \subseteq Scopes
  <2>1. CASE unwind[Root] = "no"
    BY <1>1, <2>1 DEF EndProgram, TypeOK
  <2>2. CASE unwind[Root] # "no"
    <3> DEFINE f == [s EXCEPT !.fatal = IF @ = "none" THEN "panic" ELSE @]
               T == Stopped(Live(s), {})
    <3>1. PICK q \in Orders(InState(s, "parked")) : s' = WakeLocked(f, q)
      BY <2>2 DEF EndProgram
    <3>2. OnlyMarks(s, f)
      BY <1>1 DEF OnlyMarks, SchedulerType
    <3>3. Mark(T, {}) /\ T \in SUBSET Routines
      BY <2>2, StoppedAreLive DEF EndProgram
    <3> HIDE DEF f, T
    <3>4. Mid(f) /\ Sound(f)
      BY <1>1, <3>2, MarksKeep
    <3>5. Wakeable(f, q)
      <4>1. /\ InState(s, "parked") \in SUBSET Routines
            /\ \A r \in InState(s, "parked") : f.state[r] = "parked"
        BY <3>2 DEF InState, OnlyMarks
      <4> QED
        BY <4>1, OrdersWakeable
    <3>6. Sound(s')
      BY <3>1, <3>4, <3>5, WakeLockedSound
    <3>7. cancelled' \subseteq Routines /\ cancelledScopes' \subseteq Scopes
      BY <1>1, <3>3, MarkType
    <3> QED
      BY <3>6, <3>7
  <2> QED
    BY <2>1, <2>2
<1>4. at'[Root] = "ended" /\ \A x \in Routines \ {Root} : at'[x] = at[x]
  BY <1>1, <1>2 DEF TypeOK
<1>5. UserRuns' /\ FailureStopsUserCode'
  BY <1>1, <1>3, <1>4, HolderStep
<1>6. TypeOK'
  <2>1. s' \in SchedulerType
    BY <1>3 DEF Sound, Mid
  <2>2. at' \in [Routines -> Places]
    BY <1>1, <1>2 DEF TypeOK, Places
  <2> QED
    BY <1>1, <1>2, <1>3, <2>1, <2>2 DEF TypeOK
<1>7. CloseInside'
  <2>1. \A x \in Routines : at'[x] = "close" => at[x] = "close" /\ inside'[x] = inside[x]
    BY <1>2, <1>4
  <2> QED
    BY <2>1, CloseInsideKept DEF IInv
<1> QED
  BY <1>3, <1>5, <1>6, <1>7 DEF IInv

-----------------------------------------------------------------------------
(* The invariant and what follows from it *)

\* A step of user code keeps the invariant.
LEMMA UserStepIInv ==
  ASSUME IInv, NEW r \in Routines, UserStep(r)
  PROVE  IInv'
<1>1. CASE OpenScope(r)
  BY <1>1, OpenScopeIInv
<1>2. CASE \E c \in Scopes : Spawn(r, c) \/ Cancel(r, c)
  BY <1>2, SpawnIInv, CancelIInv
<1>3. CASE EscapeScope(r)
  BY <1>3, EscapeScopeIInv
<1>4. CASE \E t \in Routines : Wait(r, t) \/ Unblock(r, t)
  BY <1>4, WaitIInv, UnblockIInv
<1>5. CASE \E blocks \in BOOLEAN : CallExtern(r, blocks)
  BY <1>5, CallExternIInv
<1>6. CASE Block(r)
  BY <1>6, BlockIInv
<1>7. CASE Panic(r)
  BY <1>7, PanicIInv
<1> QED
  BY <1>1, <1>2, <1>3, <1>4, <1>5, <1>6, <1>7 DEF UserStep

\* A step of the holder of the lock keeps the invariant.
LEMMA RoutineStepIInv ==
  ASSUME IInv, NEW r \in Routines, RoutineStep(r)
  PROVE  IInv'
<1>1. CASE UserStep(r)
  BY <1>1, UserStepIInv
<1>2. CASE Start(r)
  BY <1>2, StartIInv
<1>3. CASE CloseScope(r)
  BY <1>3, CloseScopeIInv
<1>4. CASE ResumeClose(r)
  BY <1>4, ResumeCloseIInv
<1>5. CASE ResumeWait(r)
  BY <1>5, ResumeWaitIInv
<1>6. CASE ResumeYield(r)
  BY <1>6, ResumeYieldIInv
<1>7. CASE ResumeCall(r)
  BY <1>7, ResumeCallIInv
<1>8. CASE EndRoutine(r)
  BY <1>8, EndRoutineIInv
<1>9. CASE EndProgram
  BY <1>9, EndProgramIInv
<1> QED
  BY <1>1, <1>2, <1>3, <1>4, <1>5, <1>6, <1>7, <1>8, <1>9 DEF RoutineStep

\* So does a step of the specification, and one that changes nothing.
LEMMA NextIInv ==
  ASSUME IInv, [Next]_vars
  PROVE  IInv'
<1>1. CASE UNCHANGED vars
  <2>1. /\ s' = s /\ cancelled' = cancelled /\ result' = result /\ waiters' = waiters
        /\ open' = open /\ owner' = owner /\ spawnedIn' = spawnedIn
        /\ cancelledScopes' = cancelledScopes /\ finished' = finished /\ inside' = inside
        /\ at' = at /\ on' = on /\ unwind' = unwind
    BY <1>1 DEF vars, routineVars, scopeVars, flowVars
  <2>2. TypeOK'
    BY <2>1 DEF IInv, TypeOK
  <2>3. Sound(s') /\ UserRuns' /\ FailureStopsUserCode' /\ CloseInside'
    BY <2>1 DEF IInv, UserRuns, FailureStopsUserCode, InUserCode, Running, CloseInside
  <2> QED
    BY <2>2, <2>3 DEF IInv
<1>2. CASE \E r \in Routines : RoutineStep(r) \/ HostReturns(r)
  BY <1>2, RoutineStepIInv, HostReturnsIInv
<1>3. CASE Terminated
  BY <1>1, <1>3 DEF Terminated
<1> QED
  BY <1>1, <1>2, <1>3 DEF Next

\* The invariant holds throughout.
THEOREM Invariance == Spec => []IInv
<1>1. IInv /\ [Next]_vars => IInv'
  BY NextIInv
<1> QED
  BY InitIInv, <1>1, PTL DEF Spec

\* Every variable keeps its type: in particular the counters parked and
\* external of the scheduler never fall below zero.
THEOREM TypeCorrectness == Spec => []TypeOK
<1>1. IInv => TypeOK
  BY DEF IInv
<1> QED
  BY Invariance, <1>1, PTL

\* One routine at a time executes Zirric code, however many there are, and it
\* is the one the run lock names.
THEOREM OneRunnerHolds == Spec => []OneRunner
<1>1. IInv => OneRunner
  BY RoutinesFinite DEF IInv, Sound, Mid, OneRunner
<1> QED
  BY Invariance, <1>1, PTL

\* The ready queue holds each ready routine once and no other, and a lock that
\* is free has an empty queue: nobody queues for a lock that nobody holds.
THEOREM ReadyExactHolds == Spec => []ReadyExact
<1>1. IInv => ReadyExact
  <2> SUFFICES ASSUME IInv PROVE ReadyExact
    OBVIOUS
  <2>1. /\ Mid(s) /\ s.ready \in Seq(Routines)
        /\ s.running = Nobody => s.ready = << >>
    BY DEF IInv, Sound, Mid, SchedulerType
  <2>2. DOMAIN s.ready = 1 .. Len(s.ready) /\ \A i \in 1 .. Len(s.ready) : s.ready[i] \in Routines
    BY <2>1, LenProperties, ElementOfSeq
  <2>3. Members(s.ready) = InState(s, "ready")
    <3>1. \A r \in Routines : s.state[r] = "ready" <=> \E i \in 1 .. Len(s.ready) : s.ready[i] = r
      BY <2>1 DEF Mid
    <3> QED
      BY <2>2, <3>1 DEF Members, InState
  <2>4. \A i, j \in DOMAIN s.ready : s.ready[i] = s.ready[j] => i = j
    BY <2>1, <2>2 DEF Mid
  <2> QED
    BY <2>1, <2>3, <2>4 DEF ReadyExact
<1> QED
  BY Invariance, <1>1, PTL

\* What deadlock detection counts is what there is: parked routines and host
\* calls under way, never one too many or too few.
THEOREM CountersExactHold == Spec => []CountersExact
<1>1. IInv => CountersExact
  BY DEF IInv, Sound, Mid, CountersExact
<1> QED
  BY Invariance, <1>1, PTL

\* Holder, queue and counters agree with the routines' states at once, in every
\* state of a program of any size.
THEOREM LockExactHolds == Spec => []LockExact
<1>1. OneRunner /\ ReadyExact /\ CountersExact => LockExact
  BY DEF LockExact
<1> QED
  BY OneRunnerHolds, ReadyExactHolds, CountersExactHold, <1>1, PTL

\* Once the program has failed, no routine executes another step of user code
\* without an error on its way up.
THEOREM FailureStops == Spec => []FailureStopsUserCode
<1>1. IInv => FailureStopsUserCode
  BY DEF IInv
<1> QED
  BY Invariance, <1>1, PTL

-----------------------------------------------------------------------------
(* The tree of scopes                                                       *)

\* Ids are handed out in order, and the root routine never ends.
BornInOrder ==
  /\ \A m, n \in Routines : m < n /\ s.state[m] = "unborn" => s.state[n] = "unborn"
  /\ s.state[Root] \notin {"unborn", "done"}

\* A scope belongs to a routine that exists; a routine comes after the owner of
\* the scope it is in.
OwnersComeFirst ==
  /\ \A c \in Scopes : owner[c] # Nobody => s.state[owner[c]] # "unborn"
  /\ \A r \in Routines : r # Root /\ s.state[r] # "unborn" => spawnedIn[r] # 0
  /\ \A r \in Routines :
       spawnedIn[r] # 0 => owner[spawnedIn[r]] # Nobody /\ owner[spawnedIn[r]] < r

\* The scopes a routine has open are its own, and it has not ended.
OpenIsOwned ==
  /\ \A p \in Routines : \A c \in open[p] : owner[c] = p /\ p \in Live(s)
  /\ \A c \in finished : owner[c] # Nobody

\* The stack holds scopes of the routine, each once, and the only one whose body
\* is over is the innermost, while its end is being waited for.
InsideIsOwned ==
  \A p \in Routines :
    /\ \A i \in 1 .. Len(inside[p]) :
         /\ owner[inside[p][i]] = p
         /\ inside[p][i] \in finished <=> at[p] = "close" /\ i = Len(inside[p])
    /\ \A i, j \in 1 .. Len(inside[p]) : inside[p][i] = inside[p][j] => i = j

\* A scope that is no longer open takes no more routines.
OpenUntilOver ==
  \A c \in Scopes :
    owner[c] # Nobody => c \in open[owner[c]] \cup finished \cup cancelledScopes

\* A live routine is in a scope that is open, or cancelled.
LiveInOpen ==
  \A r \in Live(s) :
    spawnedIn[r] # 0 => spawnedIn[r] \in open[owner[spawnedIn[r]]] \cup cancelledScopes

\* The routines of a cancelled scope are cancelled.
CancelledStop == \A c \in cancelledScopes : Unended(c) \subseteq cancelled

\* A scope whose body is over has routines only while its owner is at its end.
FinishedAreWaitedFor ==
  \A r \in Live(s) :
    spawnedIn[r] \in finished =>
      \E i \in 1 .. Len(inside[owner[spawnedIn[r]]]) :
        inside[owner[spawnedIn[r]]][i] = spawnedIn[r]

Tree ==
  /\ BornInOrder /\ OwnersComeFirst
  /\ OpenIsOwned /\ InsideIsOwned /\ OpenUntilOver
  /\ LiveInOpen /\ CancelledStop /\ FinishedAreWaitedFor

\* Who waits at the end of a scope is in the list of one of its routines.
WaitsAtClose ==
  \A x \in Routines :
    s.state[x] = "parked" /\ at[x] = "close" =>
      \E t \in Unended(Innermost(x)) : \E i \in 1 .. Len(waiters[t]) : waiters[t][i] = x

\* A stopped routine is parked at the end of a cancelled scope or not at all.
StopsAtClose ==
  \A x \in Routines :
    s.state[x] = "parked" /\ (s.fatal # "none" \/ x \in cancelled) =>
      at[x] = "close" /\ Innermost(x) \in cancelledScopes

\* Why a routine unwinds, and what becomes of one without a result.
UnwindsForReason ==
  /\ \A r \in Routines : unwind[r] = "cancelled" => r \in cancelled
  /\ s.fatal = "none" =>
       \A r \in Routines : s.state[r] = "done" /\ result[r] = "nil" => r \in cancelled

Waits ==
  /\ s.deadlocked => s.fatal # "none"
  /\ IdleIsChecked(s)
  /\ WaitsAtClose /\ StopsAtClose /\ UnwindsForReason

\* What a step may do that finds a deadlock.
DeadlockStep ==
  ~s.deadlocked /\ s'.deadlocked => Live(s) \subseteq InState(s, "parked") \cup {s.running}

-----------------------------------------------------------------------------
(* Frames *)

\* Beside routine r, a step of the lock leaves everybody alive who was, and
\* nobody is newly parked.
LEMMA LockStepLives ==
  ASSUME NEW r, LockStep(s, s', {r})
  PROVE  \A x \in Routines \ {r} :
           /\ s'.state[x] = "unborn" <=> s.state[x] = "unborn"
           /\ s'.state[x] = "done" <=> s.state[x] = "done"
           /\ s'.state[x] = "parked" => s.state[x] = "parked" /\ s'.fatal = s.fatal
BY DEF LockStep

\* The routine is alive before and after, and so is everybody else.
SameLives(r) ==
  /\ s.state[r] \notin {"unborn", "done"} /\ s'.state[r] \notin {"unborn", "done"}
  /\ LockStep(s, s', {r})

LEMMA SameLivesLive ==
  ASSUME NEW r \in Routines, SameLives(r)
  PROVE  /\ Live(s)' = Live(s)
         /\ \A x \in Routines : s'.state[x] = "unborn" <=> s.state[x] = "unborn"
         /\ \A x \in Routines : s'.state[x] = "done" <=> s.state[x] = "done"
<1>1. \A x \in Routines \ {r} :
        /\ s'.state[x] = "unborn" <=> s.state[x] = "unborn"
        /\ s'.state[x] = "done" <=> s.state[x] = "done"
  BY LockStepLives DEF SameLives
<1>2. \A x \in Routines :
        /\ s'.state[x] = "unborn" <=> s.state[x] = "unborn"
        /\ s'.state[x] = "done" <=> s.state[x] = "done"
  BY <1>1 DEF SameLives
<1>3. Live(s)' = Live(s)
  BY <1>2 DEF Live
<1> QED
  BY <1>2, <1>3

\* A step of the lock finds a deadlock only if the others were all parked.
LEMMA LockStepDeadlock ==
  ASSUME NEW r \in Routines, s.running = r, LockStep(s, s', {r})
  PROVE  DeadlockStep
<1> SUFFICES ASSUME ~s.deadlocked, s'.deadlocked, NEW x \in Live(s)
             PROVE  x \in InState(s, "parked") \cup {s.running}
  BY DEF DeadlockStep
<1>1. x \in Routines /\ s.state[x] \notin {"unborn", "done"}
  BY DEF Live
<1> QED
  BY <1>1 DEF LockStep, InState

\* Nobody comes to the end of a scope or leaves it, and nothing is stopped.
LEMMA TreeFrame ==
  ASSUME IInv, Tree, NEW r \in Routines, SameLives(r),
         cancelled' = cancelled, UNCHANGED scopeVars,
         \A x \in Routines : at'[x] = "close" <=> at[x] = "close"
  PROVE  Tree'
<1>1. /\ Live(s)' = Live(s)
      /\ \A x \in Routines : s'.state[x] = "unborn" <=> s.state[x] = "unborn"
      /\ \A x \in Routines : s'.state[x] = "done" <=> s.state[x] = "done"
  BY SameLivesLive
<1>2. /\ open' = open /\ owner' = owner /\ spawnedIn' = spawnedIn
      /\ cancelledScopes' = cancelledScopes /\ finished' = finished /\ inside' = inside
  BY DEF scopeVars
<1>3. BornInOrder'
  BY <1>1, RoutinesFinite DEF Tree, BornInOrder
<1>4. OwnersComeFirst'
  BY <1>1, <1>2, ZenonT(60) DEF Tree, OwnersComeFirst, IInv, TypeOK
<1>5. OpenIsOwned' /\ OpenUntilOver'
  BY <1>1, <1>2 DEF Tree, OpenIsOwned, OpenUntilOver
<1>6. InsideIsOwned'
  BY <1>1, <1>2 DEF Tree, InsideIsOwned
<1>7. LiveInOpen' /\ FinishedAreWaitedFor'
  BY <1>1, <1>2 DEF Tree, LiveInOpen, FinishedAreWaitedFor
<1>8. CancelledStop'
  BY <1>1, <1>2 DEF Tree, CancelledStop, Unended
<1> QED
  BY <1>3, <1>4, <1>5, <1>6, <1>7, <1>8 DEF Tree

SInv == Tree /\ Waits

\* Nobody is taken off a waiter list.
ListsGrow ==
  \A x \in Routines : \A i \in 1 .. Len(waiters[x]) :
    \E j \in 1 .. Len(waiters'[x]) : waiters'[x][j] = waiters[x][i]

\* A step of r that stops nobody and touches no scope; r parks only unstopped.
Quiet(r) ==
  /\ cancelled' = cancelled /\ result' = result /\ UNCHANGED scopeVars /\ ListsGrow
  /\ \A x \in Routines \ {r} : at'[x] = at[x] /\ unwind'[x] = unwind[x]
  /\ at'[r] = "close" <=> at[r] = "close"
  /\ unwind'[r] = "cancelled" => r \in cancelled
  /\ IdleIsChecked(s')
  /\ s'.state[r] = "parked" =>
       at'[r] # "close" /\ r \notin cancelled /\ s'.fatal = "none"

LEMMA QuietKeeps ==
  ASSUME IInv, SInv, NEW r \in Routines, SameLives(r), Quiet(r)
  PROVE  SInv'
<1>1. /\ Live(s)' = Live(s)
      /\ \A x \in Routines : s'.state[x] = "done" <=> s.state[x] = "done"
  BY SameLivesLive
<1>2. /\ open' = open /\ owner' = owner /\ spawnedIn' = spawnedIn
      /\ cancelledScopes' = cancelledScopes /\ finished' = finished /\ inside' = inside
      /\ cancelled' = cancelled /\ result' = result
  BY DEF Quiet, scopeVars
<1>3. \A x \in Routines : at'[x] = "close" <=> at[x] = "close"
  BY DEF Quiet
<1>4. Tree'
  BY <1>2, <1>3, TreeFrame DEF SInv, Quiet
<1>5. \A x \in Routines \ {r} :
        s'.state[x] = "parked" => s.state[x] = "parked" /\ s'.fatal = s.fatal
  BY LockStepLives DEF SameLives
<1>6. s.fatal # "none" => s'.fatal = s.fatal
  BY DEF SameLives, LockStep
<1>7. s'.deadlocked => s'.fatal # "none"
  BY <1>6 DEF SameLives, LockStep, SInv, Waits
<1>8. WaitsAtClose'
  <2> SUFFICES ASSUME NEW x \in Routines, s'.state[x] = "parked", at'[x] = "close"
               PROVE  \E t \in Unended(Innermost(x))' :
                        \E i \in 1 .. Len(waiters'[t]) : waiters'[t][i] = x
    BY DEF WaitsAtClose
  <2>1. x # r /\ s.state[x] = "parked" /\ at[x] = "close"
    BY <1>5 DEF Quiet
  <2>2. PICK t \in Unended(Innermost(x)) : \E i \in 1 .. Len(waiters[t]) : waiters[t][i] = x
    BY <2>1 DEF SInv, Waits, WaitsAtClose
  <2>3. t \in Routines /\ t \in Unended(Innermost(x))'
    BY <1>1, <1>2, <2>2 DEF Unended, Innermost, Live
  <2>4. \E i \in 1 .. Len(waiters'[t]) : waiters'[t][i] = x
    BY <2>2, <2>3 DEF Quiet, ListsGrow
  <2> QED
    BY <2>3, <2>4
<1>9. StopsAtClose'
  <2> SUFFICES ASSUME NEW x \in Routines, s'.state[x] = "parked",
                      s'.fatal # "none" \/ x \in cancelled
               PROVE  at'[x] = "close" /\ Innermost(x)' \in cancelledScopes
    BY <1>2 DEF StopsAtClose
  <2>1. x # r /\ s.state[x] = "parked" /\ s'.fatal = s.fatal
    BY <1>5 DEF Quiet
  <2> QED
    BY <1>2, <2>1 DEF SInv, Waits, StopsAtClose, Quiet, Innermost
<1>10. UnwindsForReason'
  BY <1>1, <1>2, <1>6 DEF SInv, Waits, UnwindsForReason, Quiet
<1> QED
  BY <1>4, <1>7, <1>8, <1>9, <1>10 DEF SInv, Waits, Quiet

-----------------------------------------------------------------------------
(* The steps that stop nobody *)

\* Back in user code, the lock untouched.
LEMMA ReturnKeeps ==
  ASSUME IInv, SInv, NEW r \in Routines, s.running = r, at[r] # "close",
         NEW reason \in {"no", "cancelled", "panic"}, Return(r, reason),
         reason = "cancelled" => r \in cancelled,
         s' = s, UNCHANGED << routineVars, scopeVars >>
  PROVE  SInv' /\ DeadlockStep
<1>1. TypeOK /\ Sound(s) /\ s.state[r] = "running"
  BY RunnerIsHolder DEF IInv
<1>2. cancelled' = cancelled /\ result' = result /\ waiters' = waiters /\ UNCHANGED scopeVars
  BY DEF routineVars
<1>3. LockStep(s, s', {r}) /\ SameLives(r)
  BY <1>1 DEF LockStep, SameLives
<1>4. /\ at'[r] = "user" /\ unwind'[r] \in {unwind[r], reason}
      /\ \A x \in Routines \ {r} : at'[x] = at[x] /\ unwind'[x] = unwind[x]
  BY <1>1 DEF Return, TypeOK
<1>5. ListsGrow
  BY <1>2 DEF ListsGrow
<1>6. unwind'[r] = "cancelled" => r \in cancelled
  BY <1>4 DEF SInv, Waits, UnwindsForReason
<1>7. Quiet(r)
  BY <1>1, <1>2, <1>4, <1>5, <1>6 DEF Quiet, SInv, Waits
<1> QED
  BY <1>3, <1>7, QuietKeeps, LockStepDeadlock

\* Into an operation, letting the lock go.
LEMMA EnterKeeps ==
  ASSUME IInv, SInv, NEW r \in Routines, s.running = r, at[r] # "close",
         NEW p \in Places \ {"close"}, Enter(r, p),
         NEW y \in {"parked", "ready", "inHost"}, LetGo(s, s', r, y),
         y = "parked" => r \notin cancelled /\ s.fatal = "none",
         cancelled' = cancelled, result' = result, ListsGrow, UNCHANGED scopeVars
  PROVE  SInv' /\ DeadlockStep
<1>1. TypeOK /\ Sound(s) /\ s.state[r] = "running"
  BY RunnerIsHolder DEF IInv
<1>2. LockStep(s, s', {r}) /\ SameLives(r)
  BY <1>1 DEF LetGo, SameLives
<1>3. /\ at'[r] = p /\ unwind' = unwind
      /\ \A x \in Routines \ {r} : at'[x] = at[x]
  BY <1>1 DEF Enter, TypeOK
<1>4. unwind'[r] = "cancelled" => r \in cancelled
  BY <1>3 DEF SInv, Waits, UnwindsForReason
<1>5. s'.state[r] = "parked" => r \notin cancelled /\ s'.fatal = "none"
  BY DEF LetGo
<1>6. Quiet(r)
  BY <1>3, <1>4, <1>5 DEF Quiet, LetGo
<1> QED
  BY <1>2, <1>6, QuietKeeps, LockStepDeadlock

\* What the stop reason says.
LEMMA StopReasonMeans ==
  ASSUME NEW r
  PROVE  /\ StopReason(r) \in {"no", "cancelled", "panic"}
         /\ StopReason(r) = "cancelled" => r \in cancelled
         /\ StopReason(r) = "no" => r \notin cancelled /\ s.fatal = "none"
BY DEF StopReason, StopReasonLocked

LEMMA StartKeeps ==
  ASSUME IInv, SInv, NEW r \in Routines, Start(r)
  PROVE  SInv' /\ DeadlockStep
BY StopReasonMeans, ReturnKeeps DEF Start, Running

LEMMA PanicKeeps ==
  ASSUME IInv, SInv, NEW r \in Routines, Panic(r)
  PROVE  SInv' /\ DeadlockStep
BY ReturnKeeps DEF Panic, InUserCode, Running

LEMMA ResumeCallKeeps ==
  ASSUME IInv, SInv, NEW r \in Routines, ResumeCall(r)
  PROVE  SInv' /\ DeadlockStep
BY StopReasonMeans, ReturnKeeps DEF ResumeCall, Running

\* Lists that stay the same have grown by nothing.
LEMMA SameListsGrow == waiters' = waiters => ListsGrow
BY DEF ListsGrow

LEMMA ResumeYieldKeeps ==
  ASSUME IInv, SInv, NEW r \in Routines, ResumeYield(r)
  PROVE  SInv' /\ DeadlockStep
<1>1. /\ s.running = r /\ at[r] \in {"turn", "hostTurn"} /\ Sound(s)
      /\ UNCHANGED << routineVars, scopeVars >>
  BY DEF ResumeYield, Running, IInv
<1>2. CASE s' = BeginHostCall(s, r) /\ Enter(r, "host")
  <2>1. LetGo(s, s', r, "inHost")
    BY <1>1, <1>2, BeginHostCallStep
  <2>2. "host" \in Places \ {"close"} /\ cancelled' = cancelled /\ result' = result /\ ListsGrow
    BY <1>1, SameListsGrow DEF Places, routineVars
  <2> QED
    BY <1>1, <1>2, <2>1, <2>2, EnterKeeps
<1>3. CASE Return(r, StopReason(r)) /\ s' = s
  BY <1>1, <1>3, StopReasonMeans, ReturnKeeps
<1> QED
  BY <1>2, <1>3 DEF ResumeYield

LEMMA CallExternKeeps ==
  ASSUME IInv, SInv, NEW r \in Routines, NEW blocks \in BOOLEAN, CallExtern(r, blocks)
  PROVE  SInv' /\ DeadlockStep
<1>1. /\ s.running = r /\ at[r] = "user" /\ Sound(s)
      /\ UNCHANGED << routineVars, scopeVars >>
  BY DEF CallExtern, InUserCode, Running, IInv
<1>2. cancelled' = cancelled /\ result' = result /\ ListsGrow
  BY <1>1, SameListsGrow DEF routineVars
<1>3. CASE Return(r, StopReason(r)) /\ s' = s
  BY <1>1, <1>3, StopReasonMeans, ReturnKeeps
<1>4. CASE s' = GiveWayLocked(s, r) /\ Enter(r, IF blocks THEN "hostTurn" ELSE "turn")
  <2> DEFINE p == IF blocks THEN "hostTurn" ELSE "turn"
  <2>1. LetGo(s, s', r, "ready")
    BY <1>1, <1>4, GiveWayLockedStep
  <2>2. p \in Places \ {"close"} /\ Enter(r, p)
    BY <1>4 DEF Places
  <2> HIDE DEF p
  <2> QED
    BY <1>1, <1>2, <2>1, <2>2, EnterKeeps
<1>5. CASE s' = BeginHostCall(s, r) /\ Enter(r, "host")
  <2>1. LetGo(s, s', r, "inHost")
    BY <1>1, <1>5, BeginHostCallStep
  <2>2. "host" \in Places \ {"close"}
    BY DEF Places
  <2> QED
    BY <1>1, <1>2, <1>5, <2>1, <2>2, EnterKeeps
<1> QED
  BY <1>3, <1>4, <1>5 DEF CallExtern

LEMMA BlockKeeps ==
  ASSUME IInv, SInv, NEW r \in Routines, Block(r)
  PROVE  SInv' /\ DeadlockStep
<1>1. /\ s.running = r /\ at[r] = "user" /\ Sound(s)
      /\ UNCHANGED << routineVars, scopeVars >>
  BY DEF Block, InUserCode, Running, IInv
<1>2. CASE Return(r, StopReason(r)) /\ s' = s
  BY <1>1, <1>2, StopReasonMeans, ReturnKeeps
<1>3. CASE StopReason(r) = "no" /\ s' = ParkLocked(s, r) /\ Enter(r, "blocked")
  <2>1. LetGo(s, s', r, "parked") /\ r \notin cancelled /\ s.fatal = "none"
    BY <1>1, <1>3, ParkLockedStep, StopReasonMeans
  <2>2. /\ "blocked" \in Places \ {"close"}
        /\ cancelled' = cancelled /\ result' = result /\ ListsGrow
    BY <1>1, SameListsGrow DEF Places, routineVars
  <2> QED
    BY <1>1, <1>3, <2>1, <2>2, EnterKeeps
<1> QED
  BY <1>2, <1>3 DEF Block

\* A routine joins the waiter list of t.
LEMMA JoinGrows ==
  ASSUME TypeOK, NEW r \in Routines, NEW t \in Routines,
         waiters' = [waiters EXCEPT ![t] = Append(@, r)]
  PROVE  /\ ListsGrow
         /\ \E j \in 1 .. Len(waiters'[t]) : waiters'[t][j] = r
<1>1. /\ waiters[t] \in Seq(Routines) /\ waiters'[t] = Append(waiters[t], r)
      /\ \A x \in Routines \ {t} : waiters'[x] = waiters[x]
  BY DEF TypeOK
<1>2. /\ Len(waiters[t]) \in Nat /\ Len(waiters'[t]) = Len(waiters[t]) + 1
      /\ \A i \in 1 .. Len(waiters[t]) : waiters'[t][i] = waiters[t][i]
      /\ waiters'[t][Len(waiters[t]) + 1] = r
  BY <1>1, AppendProperties, LenProperties
<1>3. \A i \in 1 .. Len(waiters[t]) : i \in 1 .. Len(waiters'[t])
  BY <1>2
<1>4. ListsGrow
  BY <1>1, <1>2, <1>3 DEF ListsGrow
<1>5. Len(waiters[t]) + 1 \in 1 .. Len(waiters'[t])
  BY <1>2
<1> QED
  BY <1>2, <1>4, <1>5

LEMMA WaitKeeps ==
  ASSUME IInv, SInv, NEW r \in Routines, NEW t \in Routines, Wait(r, t)
  PROVE  SInv' /\ DeadlockStep
<1>1. /\ s.running = r /\ at[r] = "user" /\ Sound(s) /\ TypeOK
      /\ cancelled' = cancelled /\ result' = result /\ UNCHANGED scopeVars
  BY DEF Wait, InUserCode, Running, IInv
<1>2. CASE Return(r, StopReason(r)) /\ UNCHANGED << s, waiters >>
  BY <1>1, <1>2, StopReasonMeans, ReturnKeeps DEF routineVars
<1>3. CASE /\ StopReason(r) = "no" /\ s' = ParkLocked(s, r) /\ Enter(r, "wait")
           /\ waiters' = [waiters EXCEPT ![t] = Append(@, r)]
  <2>1. LetGo(s, s', r, "parked") /\ r \notin cancelled /\ s.fatal = "none"
    BY <1>1, <1>3, ParkLockedStep, StopReasonMeans
  <2>2. "wait" \in Places \ {"close"} /\ ListsGrow
    BY <1>1, <1>3, JoinGrows DEF Places
  <2> QED
    BY <1>1, <1>3, <2>1, <2>2, EnterKeeps
<1> QED
  BY <1>2, <1>3 DEF Wait

LEMMA ResumeWaitKeeps ==
  ASSUME IInv, SInv, NEW r \in Routines, ResumeWait(r)
  PROVE  SInv' /\ DeadlockStep
<1>1. /\ s.running = r /\ at[r] = "wait" /\ Sound(s) /\ TypeOK
      /\ cancelled' = cancelled /\ result' = result /\ UNCHANGED scopeVars
  BY DEF ResumeWait, Running, IInv
<1>2. CASE Return(r, StopReason(r)) /\ UNCHANGED << s, waiters >>
  BY <1>1, <1>2, StopReasonMeans, ReturnKeeps DEF routineVars
<1>3. CASE /\ StopReason(r) = "no" /\ s' = ParkLocked(s, r) /\ UNCHANGED flowVars
           /\ waiters' = [waiters EXCEPT ![on[r]] = Append(@, r)]
  <2>1. LetGo(s, s', r, "parked") /\ r \notin cancelled /\ s.fatal = "none"
    BY <1>1, <1>3, ParkLockedStep, StopReasonMeans
  <2>2. "wait" \in Places \ {"close"} /\ Enter(r, "wait")
    BY <1>1, <1>3 DEF Places, Enter, flowVars, TypeOK
  <2>3. ListsGrow
    <3>1. CASE on[r] \in Routines
      BY <1>1, <1>3, <3>1, JoinGrows
    <3>2. CASE on[r] \notin Routines
      <4>1. waiters' = waiters
        BY <1>1, <1>3, <3>2 DEF TypeOK
      <4> QED
        BY <4>1, SameListsGrow
    <3> QED
      BY <3>1, <3>2
  <2> QED
    BY <1>1, <2>1, <2>2, <2>3, EnterKeeps
<1> QED
  BY <1>2, <1>3 DEF ResumeWait

\* Another routine, parked in a channel operation, is woken.
LEMMA UnblockKeeps ==
  ASSUME IInv, SInv, NEW r \in Routines, NEW x \in Routines, Unblock(r, x)
  PROVE  SInv' /\ DeadlockStep
<1>1. /\ s.running = r /\ at[r] = "user" /\ Mid(s) /\ r # Nobody /\ s.state[r] = "running"
  BY RunnerIsHolder, RoutinesFinite DEF Unblock, InUserCode, Running, IInv, Sound
<1>2. /\ s' = WakeLocked(s, << x >>) /\ s.state[x] = "parked"
      /\ at' = at /\ unwind' = unwind /\ UNCHANGED << routineVars, scopeVars >>
  BY DEF Unblock, flowVars
<1>3. Wakeable(s, << x >>)
  BY <1>2 DEF Wakeable
<1>4. LockStep(s, s', {})
  BY <1>1, <1>2, <1>3, WakeLockedStep
<1>5. s'.running = r /\ s'.state[r] = "running"
  BY <1>1, <1>2, <1>3, WakeLockedSound
<1>6. LockStep(s, s', {r}) /\ SameLives(r)
  BY <1>1, <1>4, <1>5 DEF LockStep, SameLives
<1>7. cancelled' = cancelled /\ result' = result /\ ListsGrow
  BY <1>2, SameListsGrow DEF routineVars
<1>8. Quiet(r)
  BY <1>1, <1>2, <1>5, <1>7 DEF Quiet, IdleIsChecked, SInv, Waits, UnwindsForReason
<1> QED
  BY <1>1, <1>6, <1>8, QuietKeeps, LockStepDeadlock

LEMMA HostReturnsKeeps ==
  ASSUME IInv, SInv, NEW r \in Routines, HostReturns(r)
  PROVE  SInv' /\ DeadlockStep
<1>1. /\ Sound(s) /\ s.state[r] = "inHost" /\ s' = EndHostCall(s, r)
      /\ at' = at /\ unwind' = unwind /\ UNCHANGED << routineVars, scopeVars >>
  BY DEF HostReturns, IInv, flowVars
<1>2. /\ LockStep(s, s', {r}) /\ s'.running # Nobody
      /\ s'.state[r] \in {"ready", "running"} /\ s'.deadlocked = s.deadlocked
  BY <1>1, EndHostCallStep
<1>3. SameLives(r)
  BY <1>1, <1>2 DEF SameLives
<1>4. cancelled' = cancelled /\ result' = result /\ ListsGrow
  BY <1>1, SameListsGrow DEF routineVars
<1>5. Quiet(r)
  BY <1>1, <1>2, <1>4 DEF Quiet, IdleIsChecked, SInv, Waits, UnwindsForReason
<1> QED
  BY <1>2, <1>3, <1>5, QuietKeeps DEF DeadlockStep

-----------------------------------------------------------------------------
(* Scopes and routines come, stacks change *)

\* The holder of the lock changes scopes or starts a routine: nobody parks.
NobodyParks ==
  /\ \A x \in Routines :
       /\ s'.state[x] = "parked" => /\ s.state[x] = "parked"
                                    /\ at'[x] = at[x] /\ inside'[x] = inside[x]
       /\ s'.state[x] = "done" => s.state[x] = "done"
  /\ \A t \in Live(s) : t \in Live(s)' /\ spawnedIn'[t] = spawnedIn[t]
  /\ s'.fatal = s.fatal /\ s'.deadlocked = s.deadlocked
  /\ UNCHANGED << routineVars, cancelledScopes, unwind >>

LEMMA WaitsFrame ==
  ASSUME SInv, NobodyParks, IdleIsChecked(s')
  PROVE  Waits' /\ DeadlockStep
<1>1. cancelled' = cancelled /\ result' = result /\ waiters' = waiters
      /\ cancelledScopes' = cancelledScopes /\ unwind' = unwind
  BY DEF NobodyParks, routineVars
<1>2. WaitsAtClose'
  <2> SUFFICES ASSUME NEW x \in Routines, s'.state[x] = "parked", at'[x] = "close"
               PROVE  \E t \in Unended(Innermost(x))' :
                        \E i \in 1 .. Len(waiters[t]) : waiters[t][i] = x
    BY <1>1 DEF WaitsAtClose
  <2>1. s.state[x] = "parked" /\ at[x] = "close" /\ inside'[x] = inside[x]
    BY DEF NobodyParks
  <2>2. PICK t \in Unended(Innermost(x)) : \E i \in 1 .. Len(waiters[t]) : waiters[t][i] = x
    BY <2>1 DEF SInv, Waits, WaitsAtClose
  <2>3. t \in Unended(Innermost(x))'
    BY <2>1, <2>2 DEF Unended, Innermost, NobodyParks
  <2> QED
    BY <2>2, <2>3
<1>3. StopsAtClose'
  BY <1>1 DEF SInv, Waits, StopsAtClose, NobodyParks, Innermost
<1>4. UnwindsForReason'
  BY <1>1 DEF SInv, Waits, UnwindsForReason, NobodyParks
<1> QED
  BY <1>2, <1>3, <1>4 DEF SInv, Waits, NobodyParks, DeadlockStep

LEMMA OpenScopeKeeps ==
  ASSUME IInv, SInv, NEW r \in Routines, OpenScope(r)
  PROVE  SInv' /\ DeadlockStep
<1>1. /\ TypeOK /\ s.state[r] = "running" /\ at[r] = "user" /\ r # Nobody
      /\ Live(s)' = Live(s)
  BY RunnerIsHolder, RoutinesFinite DEF OpenScope, InUserCode, Running, IInv, Live
<1>2. PICK c \in Scopes :
        /\ owner[c] = Nobody
        /\ owner' = [owner EXCEPT ![c] = r]
        /\ open' = [open EXCEPT ![r] = @ \cup {c}]
        /\ inside' = [inside EXCEPT ![r] = Append(@, c)]
  BY DEF OpenScope
<1>3. /\ s' = s /\ at' = at /\ unwind' = unwind
      /\ cancelled' = cancelled /\ result' = result /\ waiters' = waiters
      /\ spawnedIn' = spawnedIn /\ cancelledScopes' = cancelledScopes /\ finished' = finished
  BY DEF OpenScope, routineVars, flowVars
<1>4. /\ owner'[c] = r /\ \A d \in Scopes \ {c} : owner'[d] = owner[d]
      /\ \A p \in Routines \ {r} : open'[p] = open[p] /\ inside'[p] = inside[p]
      /\ open'[r] = open[r] \cup {c} /\ inside'[r] = Append(inside[r], c)
  BY <1>1, <1>2 DEF TypeOK
<1>5. /\ inside[r] \in Seq(Scopes) /\ Len(inside[r]) \in Nat
      /\ Len(inside'[r]) = Len(inside[r]) + 1
      /\ \A i \in 1 .. Len(inside[r]) : inside'[r][i] = inside[r][i]
      /\ inside'[r][Len(inside[r]) + 1] = c
  BY <1>1, <1>4, AppendProperties, LenProperties DEF TypeOK
<1>6. BornInOrder'
  BY <1>3 DEF SInv, Tree, BornInOrder
<1>7. OwnersComeFirst'
  BY <1>1, <1>2, <1>3, <1>4 DEF SInv, Tree, OwnersComeFirst, TypeOK
<1>8. OpenIsOwned' /\ OpenUntilOver'
  <2>1. \A p \in Routines : \A d \in open'[p] : owner'[d] = p /\ p \in Live(s)
    <3> SUFFICES ASSUME NEW p \in Routines, NEW d \in open'[p]
                 PROVE  owner'[d] = p /\ p \in Live(s)
      OBVIOUS
    <3>1. CASE d \in open[p]
      <4>1. owner[d] = p /\ p \in Live(s) /\ d \in Scopes /\ p # Nobody
        BY <1>1, <3>1, RoutinesFinite DEF SInv, Tree, OpenIsOwned, TypeOK
      <4> QED
        BY <1>2, <1>4, <4>1
    <3>2. CASE d \notin open[p]
      BY <1>1, <1>4, <3>2 DEF Live
    <3> QED
      BY <3>1, <3>2
  <2>2. \A d \in finished : owner'[d] # Nobody
    BY <1>1, <1>4 DEF SInv, Tree, OpenIsOwned, TypeOK
  <2>3. OpenIsOwned'
    BY <1>1, <1>3, <2>1, <2>2 DEF OpenIsOwned
  <2>4. OpenUntilOver'
    <3> SUFFICES ASSUME NEW d \in Scopes, owner'[d] # Nobody
                 PROVE  d \in open'[owner'[d]] \cup finished \cup cancelledScopes
      BY <1>3 DEF OpenUntilOver
    <3>1. CASE d = c
      BY <1>4, <3>1
    <3>2. CASE d # c
      <4>1. owner'[d] = owner[d] /\ owner[d] \in Routines
        BY <1>1, <1>4, <3>2 DEF TypeOK
      <4>2. d \in open[owner[d]] \cup finished \cup cancelledScopes
        BY <4>1 DEF SInv, Tree, OpenUntilOver
      <4>3. open[owner[d]] \subseteq open'[owner[d]]
        BY <1>4, <4>1
      <4> QED
        BY <4>1, <4>2, <4>3
    <3> QED
      BY <3>1, <3>2
  <2> QED
    BY <2>3, <2>4
<1>9. InsideIsOwned'
  <2>1. c \notin finished
    BY <1>2 DEF SInv, Tree, OpenIsOwned
  <2> SUFFICES ASSUME NEW p \in Routines
               PROVE  /\ \A i \in 1 .. Len(inside'[p]) :
                           /\ owner'[inside'[p][i]] = p
                           /\ inside'[p][i] \in finished <=> at[p] = "close" /\ i = Len(inside'[p])
                      /\ \A i, j \in 1 .. Len(inside'[p]) :
                           inside'[p][i] = inside'[p][j] => i = j
    BY <1>3 DEF InsideIsOwned
  <2>2. /\ inside[p] \in Seq(Scopes)
        /\ \A i \in 1 .. Len(inside[p]) :
             /\ inside[p][i] \in Scopes /\ owner[inside[p][i]] = p /\ inside[p][i] # c
             /\ inside[p][i] \in finished <=> at[p] = "close" /\ i = Len(inside[p])
        /\ \A i, j \in 1 .. Len(inside[p]) : inside[p][i] = inside[p][j] => i = j
    BY <1>1, <1>2, RoutinesFinite, ElementOfSeq DEF SInv, Tree, InsideIsOwned, TypeOK
  <2>3. CASE p # r
    BY <1>4, <2>2, <2>3
  <2>4. CASE p = r
    <3>1. \A i \in 1 .. Len(inside'[r]) : i \in 1 .. Len(inside[r]) \/ i = Len(inside[r]) + 1
      BY <1>5
    <3>2. ASSUME NEW i \in 1 .. Len(inside'[r])
          PROVE  /\ owner'[inside'[r][i]] = r
                 /\ inside'[r][i] \in finished <=> at[r] = "close" /\ i = Len(inside'[r])
      <4>1. CASE i \in 1 .. Len(inside[r])
        BY <1>1, <1>4, <1>5, <2>2, <2>4, <4>1
      <4>2. CASE i = Len(inside[r]) + 1
        BY <1>1, <1>4, <1>5, <2>1, <4>2
      <4> QED
        BY <3>1, <4>1, <4>2
    <3>3. ASSUME NEW i \in 1 .. Len(inside'[r]), NEW j \in 1 .. Len(inside'[r]),
                 inside'[r][i] = inside'[r][j]
          PROVE  i = j
      BY <1>5, <2>2, <2>4, <3>1, <3>3, SMTT(60)
    <3> QED
      BY <2>4, <3>2, <3>3
  <2> QED
    BY <2>3, <2>4
<1>10. LiveInOpen'
  BY <1>1, <1>2, <1>3, <1>4 DEF SInv, Tree, LiveInOpen, OwnersComeFirst, TypeOK, Live
<1>11. CancelledStop'
  BY <1>1, <1>3 DEF SInv, Tree, CancelledStop, Unended
<1>12. FinishedAreWaitedFor'
  <2> SUFFICES ASSUME NEW x \in Live(s), spawnedIn[x] \in finished
               PROVE  \E i \in 1 .. Len(inside'[owner'[spawnedIn[x]]]) :
                        inside'[owner'[spawnedIn[x]]][i] = spawnedIn[x]
    BY <1>1, <1>3 DEF FinishedAreWaitedFor
  <2> DEFINE d == spawnedIn[x]
             p == owner[d]
  <2>1. d \in Scopes /\ p \in Routines /\ owner'[d] = p
    BY <1>1, <1>2, <1>4 DEF TypeOK, SInv, Tree, OpenIsOwned
  <2>2. PICK i \in 1 .. Len(inside[p]) : inside[p][i] = d
    BY DEF SInv, Tree, FinishedAreWaitedFor
  <2>3. i \in 1 .. Len(inside'[p]) /\ inside'[p][i] = d
    BY <1>4, <1>5, <2>1, <2>2
  <2> QED
    BY <2>1, <2>3
<1>13. NobodyParks
  BY <1>1, <1>3, <1>4 DEF NobodyParks, routineVars
<1>14. Waits' /\ DeadlockStep
  BY <1>3, <1>13, WaitsFrame DEF SInv, Waits
<1> QED
  BY <1>6, <1>7, <1>8, <1>9, <1>10, <1>11, <1>12, <1>14 DEF SInv, Tree

\* A stack without its top.
LEMMA FrontKeeps ==
  ASSUME NEW q \in Seq(Scopes), q # << >>
  PROVE  /\ Len(q) \in Nat \ {0} /\ q[Len(q)] \in Scopes
         /\ Len(SubSeq(q, 1, Len(q) - 1)) = Len(q) - 1
         /\ \A i \in 1 .. Len(q) - 1 : SubSeq(q, 1, Len(q) - 1)[i] = q[i]
<1>1. Len(q) \in Nat \ {0}
  BY EmptySeq, LenProperties
<1> DEFINE n == Len(q) - 1
<1>2. 1 \in 1 .. Len(q) + 1 /\ n \in 1 - 1 .. Len(q) /\ n \in Nat
  BY <1>1
<1> HIDE DEF n
<1>3. /\ Len(SubSeq(q, 1, n)) = IF 1 <= n THEN n - 1 + 1 ELSE 0
      /\ \A i \in 1 .. n - 1 + 1 : SubSeq(q, 1, n)[i] = q[1 + i - 1]
  BY <1>2, SubSeqProperties
<1>4. Len(SubSeq(q, 1, n)) = n /\ \A i \in 1 .. n : SubSeq(q, 1, n)[i] = q[i]
  BY <1>2, <1>3
<1>5. q[Len(q)] \in Scopes
  BY <1>1, ElementOfSeq
<1> QED
  BY <1>1, <1>4, <1>5 DEF n

\* The innermost scope of r leaves the stack, its body over or escaped.
Pops(r) ==
  /\ inside' = [inside EXCEPT ![r] = SubSeq(@, 1, Len(@) - 1)]
  /\ \A x \in Routines \ {r} : at'[x] = at[x]
  /\ at'[r] = "user" /\ owner' = owner
  /\ \/ finished' = finished \cup {Innermost(r)}
     \/ finished' = finished /\ at[r] # "close"

LEMMA PopKeepsInside ==
  ASSUME TypeOK, InsideIsOwned, NEW r \in Routines, inside[r] # << >>, Pops(r)
  PROVE  /\ InsideIsOwned'
         /\ Innermost(r) \in Scopes /\ owner[Innermost(r)] = r
         /\ \A p \in Routines : \A i \in 1 .. Len(inside[p]) :
              inside[p][i] # Innermost(r) =>
                \E j \in 1 .. Len(inside'[p]) : inside'[p][j] = inside[p][i]
<1> DEFINE c == Innermost(r)
<1>1. /\ inside[r] \in Seq(Scopes)
      /\ inside'[r] = SubSeq(inside[r], 1, Len(inside[r]) - 1)
      /\ \A p \in Routines \ {r} : inside'[p] = inside[p]
  BY DEF TypeOK, Pops
<1>2. /\ Len(inside[r]) \in Nat \ {0} /\ c = inside[r][Len(inside[r])] /\ c \in Scopes
      /\ Len(inside'[r]) = Len(inside[r]) - 1
      /\ \A i \in 1 .. Len(inside[r]) - 1 : inside'[r][i] = inside[r][i]
  BY <1>1, FrontKeeps DEF Innermost
<1>3. owner[c] = r
  BY <1>2 DEF InsideIsOwned
<1> HIDE DEF c
<1>4. \A p \in Routines :
        /\ \A i \in 1 .. Len(inside[p]) :
             /\ owner[inside[p][i]] = p
             /\ inside[p][i] \in finished <=> at[p] = "close" /\ i = Len(inside[p])
        /\ \A i, j \in 1 .. Len(inside[p]) : inside[p][i] = inside[p][j] => i = j
  BY DEF InsideIsOwned
<1>5. /\ \A x \in Routines \ {r} : at'[x] = at[x]
      /\ at'[r] = "user" /\ owner' = owner
      /\ (finished' = finished \cup {c} \/ (finished' = finished /\ at[r] # "close"))
  BY DEF Pops, c
<1>6. InsideIsOwned'
  <2> SUFFICES ASSUME NEW p \in Routines
               PROVE  /\ \A i \in 1 .. Len(inside'[p]) :
                           /\ owner[inside'[p][i]] = p
                           /\ inside'[p][i] \in finished'
                                <=> at'[p] = "close" /\ i = Len(inside'[p])
                      /\ \A i, j \in 1 .. Len(inside'[p]) :
                           inside'[p][i] = inside'[p][j] => i = j
    BY <1>5 DEF InsideIsOwned
  <2>1. CASE p # r
    <3>1. inside'[p] = inside[p] /\ at'[p] = at[p]
      BY <1>1, <1>5, <2>1
    <3>2. \A i \in 1 .. Len(inside[p]) : inside[p][i] # c
      BY <1>3, <1>4, <2>1
    <3> QED
      BY <1>4, <1>5, <3>1, <3>2
  <2>2. CASE p = r
    <3>1. ASSUME NEW i \in 1 .. Len(inside'[r])
          PROVE  owner[inside'[r][i]] = r /\ inside'[r][i] \notin finished'
      <4>1. i \in 1 .. Len(inside[r]) /\ i # Len(inside[r]) /\ inside'[r][i] = inside[r][i]
        BY <1>2
      <4>2. inside[r][i] # c /\ Len(inside[r]) \in 1 .. Len(inside[r])
        BY <1>2, <1>4, <4>1
      <4> QED
        BY <1>4, <1>5, <4>1, <4>2
    <3>2. ASSUME NEW i \in 1 .. Len(inside'[r]), NEW j \in 1 .. Len(inside'[r]),
                 inside'[r][i] = inside'[r][j]
          PROVE  i = j
      BY <1>2, <1>4, <3>2
    <3> QED
      BY <1>5, <2>2, <3>1, <3>2
  <2> QED
    BY <2>1, <2>2
<1>7. ASSUME NEW p \in Routines, NEW i \in 1 .. Len(inside[p]), inside[p][i] # c
      PROVE  \E j \in 1 .. Len(inside'[p]) : inside'[p][j] = inside[p][i]
  <2>1. CASE p # r
    BY <1>1, <2>1
  <2>2. CASE p = r
    <3>1. i \in 1 .. Len(inside'[r]) /\ inside'[r][i] = inside[r][i]
      BY <1>2, <1>7, <2>2
    <3> QED
      BY <2>2, <3>1
  <2> QED
    BY <2>1, <2>2
<1> QED
  BY <1>2, <1>3, <1>6, <1>7 DEF c

LEMMA EscapeScopeKeeps ==
  ASSUME IInv, SInv, NEW r \in Routines, EscapeScope(r)
  PROVE  SInv' /\ DeadlockStep
<1>1. /\ TypeOK /\ s.state[r] = "running" /\ at[r] = "user"
      /\ inside[r] # << >> /\ Live(s)' = Live(s)
  BY RunnerIsHolder DEF EscapeScope, InUserCode, Running, IInv, Live
<1>2. /\ inside' = [inside EXCEPT ![r] = SubSeq(@, 1, Len(@) - 1)]
      /\ s' = s /\ at' = at /\ unwind' = unwind
      /\ cancelled' = cancelled /\ result' = result /\ waiters' = waiters
      /\ open' = open /\ owner' = owner /\ spawnedIn' = spawnedIn
      /\ cancelledScopes' = cancelledScopes /\ finished' = finished
  BY DEF EscapeScope, routineVars, flowVars
<1>3. Pops(r)
  BY <1>1, <1>2 DEF Pops
<1>4. /\ InsideIsOwned'
      /\ \A p \in Routines : \A i \in 1 .. Len(inside[p]) :
           inside[p][i] # Innermost(r) =>
             \E j \in 1 .. Len(inside'[p]) : inside'[p][j] = inside[p][i]
  BY <1>1, <1>3, PopKeepsInside DEF SInv, Tree
<1>5. Innermost(r) \notin finished
  <2>1. Len(inside[r]) \in 1 .. Len(inside[r])
    BY <1>1, FrontKeeps DEF TypeOK
  <2> QED
    BY <1>1, <2>1 DEF SInv, Tree, InsideIsOwned, Innermost
<1>6. BornInOrder' /\ OwnersComeFirst'
  BY <1>2 DEF SInv, Tree, BornInOrder, OwnersComeFirst
<1>7. OpenIsOwned' /\ OpenUntilOver'
  BY <1>1, <1>2 DEF SInv, Tree, OpenIsOwned, OpenUntilOver
<1>8. LiveInOpen' /\ CancelledStop'
  BY <1>1, <1>2 DEF SInv, Tree, LiveInOpen, CancelledStop, Unended
<1>9. FinishedAreWaitedFor'
  <2> SUFFICES ASSUME NEW x \in Live(s), spawnedIn[x] \in finished
               PROVE  \E i \in 1 .. Len(inside'[owner[spawnedIn[x]]]) :
                        inside'[owner[spawnedIn[x]]][i] = spawnedIn[x]
    BY <1>1, <1>2 DEF FinishedAreWaitedFor
  <2>1. owner[spawnedIn[x]] \in Routines
    BY <1>1 DEF TypeOK, SInv, Tree, OpenIsOwned
  <2>2. PICK i \in 1 .. Len(inside[owner[spawnedIn[x]]]) :
          inside[owner[spawnedIn[x]]][i] = spawnedIn[x]
    BY DEF SInv, Tree, FinishedAreWaitedFor
  <2> QED
    BY <1>4, <1>5, <2>1, <2>2, SMTT(60)
<1>10. NobodyParks
  BY <1>1, <1>2 DEF NobodyParks, routineVars, TypeOK
<1>11. Waits' /\ DeadlockStep
  BY <1>2, <1>10, WaitsFrame DEF SInv, Waits
<1> QED
  BY <1>4, <1>6, <1>7, <1>8, <1>9, <1>11 DEF SInv, Tree

LEMMA SpawnKeeps ==
  ASSUME IInv, SInv, NEW r \in Routines, NEW c \in Scopes, Spawn(r, c)
  PROVE  SInv' /\ DeadlockStep
<1>1. /\ TypeOK /\ Sound(s) /\ s.state[r] = "running" /\ at[r] = "user" /\ s.running = r
      /\ r # Nobody /\ owner[c] # Nobody
      /\ UNCHANGED << routineVars, open, owner, cancelledScopes, finished, inside >>
  BY RunnerIsHolder, RoutinesFinite DEF Spawn, InUserCode, Running, IInv
<1>2. CASE Refuses(c)
  <2>1. Return(r, "panic") /\ UNCHANGED << s, routineVars, scopeVars >>
    BY <1>1, <1>2 DEF Spawn, scopeVars
  <2> QED
    BY <1>1, <2>1, ReturnKeeps
<1>3. CASE ~Refuses(c)
  <2>1. PICK n \in Routines :
          /\ s.state[n] = "unborn" /\ \A m \in Routines : m < n => s.state[m] # "unborn"
          /\ s' = EnqueueNew(s, n)
          /\ spawnedIn' = [spawnedIn EXCEPT ![n] = c]
          /\ UNCHANGED flowVars
    BY <1>3 DEF Spawn
  <2>2. /\ s'.state = [s.state EXCEPT ![n] = "ready"] /\ s'.running = r
        /\ s'.fatal = s.fatal /\ s'.deadlocked = s.deadlocked
    BY <1>1, <2>1, EnqueueNewStep, EnqueueNewSound
  <2>3. /\ s'.state[n] = "ready" /\ \A x \in Routines \ {n} : s'.state[x] = s.state[x]
        /\ spawnedIn'[n] = c /\ \A x \in Routines \ {n} : spawnedIn'[x] = spawnedIn[x]
        /\ Live(s)' = Live(s) \cup {n} /\ n \notin Live(s) /\ n \in Nat /\ Routines \subseteq Nat
    BY <1>1, <2>1, <2>2, RoutinesFinite DEF TypeOK, SchedulerType, Live
  <2>4. /\ cancelled' = cancelled /\ result' = result /\ waiters' = waiters
        /\ open' = open /\ owner' = owner /\ inside' = inside
        /\ cancelledScopes' = cancelledScopes /\ finished' = finished
        /\ at' = at /\ unwind' = unwind
    BY <1>1, <2>1 DEF routineVars, flowVars
  <2>5. BornInOrder'
    <3> SUFFICES ASSUME NEW m \in Routines, NEW k \in Routines, m < k,
                        s'.state[m] = "unborn", s'.state[k] # "unborn"
                 PROVE  FALSE
      BY <2>1, <2>3, RoutinesFinite DEF SInv, Tree, BornInOrder
    <3>1. m # n /\ s.state[m] = "unborn"
      BY <2>3
    <3>2. k = n
      BY <2>3, <3>1 DEF SInv, Tree, BornInOrder
    <3> QED
      BY <2>1, <3>1, <3>2
  <2>6. OwnersComeFirst'
    <3>1. ASSUME NEW d \in Scopes, owner[d] # Nobody
          PROVE  s'.state[owner[d]] # "unborn"
      <4> DEFINE p == owner[d]
      <4>1. p \in Routines /\ s.state[p] # "unborn"
        BY <1>1, <3>1 DEF SInv, Tree, OwnersComeFirst, TypeOK
      <4> HIDE DEF p
      <4>2. s'.state[p] # "unborn"
        BY <2>3, <4>1
      <4> QED
        BY <4>2 DEF p
    <3>2. owner[c] \in Routines /\ owner[c] < n
      <4> DEFINE p == owner[c]
      <4>1. p \in Routines /\ s.state[p] # "unborn"
        BY <1>1 DEF SInv, Tree, OwnersComeFirst, TypeOK
      <4> HIDE DEF p
      <4>2. ~(n < p) /\ p # n
        BY <2>1, <4>1 DEF SInv, Tree, BornInOrder
      <4>3. p \in Nat /\ n \in Nat
        BY <2>3, <4>1
      <4>4. p \in Routines /\ p < n
        BY <4>1, <4>2, <4>3
      <4> QED
        BY <4>4 DEF p
    <3>3. c # 0 /\ n # Root
      BY <2>1, MaxScopesAssumption DEF Scopes, SInv, Tree, BornInOrder
    <3>4. \A x \in Routines : x # Root /\ s'.state[x] # "unborn" => spawnedIn'[x] # 0
      BY <2>3, <3>3 DEF SInv, Tree, OwnersComeFirst
    <3>5. \A x \in Routines :
            spawnedIn'[x] # 0 => owner[spawnedIn'[x]] # Nobody /\ owner[spawnedIn'[x]] < x
      BY <1>1, <2>3, <3>2 DEF SInv, Tree, OwnersComeFirst
    <3> QED
      BY <2>4, <3>1, <3>4, <3>5 DEF OwnersComeFirst
  <2>7. OpenIsOwned' /\ OpenUntilOver' /\ InsideIsOwned'
    BY <2>3, <2>4, SMTT(60) DEF SInv, Tree, OpenIsOwned, OpenUntilOver, InsideIsOwned
  <2>8. LiveInOpen'
    <3>1. c \in open[owner[c]]
      BY <1>1, <1>3 DEF Refuses, SInv, Tree, OpenUntilOver
    <3> QED
      BY <2>3, <2>4, <3>1 DEF SInv, Tree, LiveInOpen, Live
  <2>9. CancelledStop'
    <3> SUFFICES ASSUME NEW d \in cancelledScopes, NEW x \in Live(s)', spawnedIn'[x] = d
                 PROVE  x \in cancelled
      BY <2>4 DEF CancelledStop, Unended
    <3>1. c \notin cancelledScopes
      BY <1>3 DEF Refuses
    <3>2. x # n
      BY <2>3, <3>1
    <3>3. x \in Unended(d)
      BY <2>3, <3>2 DEF Unended, Live
    <3> QED
      BY <3>3 DEF SInv, Tree, CancelledStop
  <2>10. FinishedAreWaitedFor'
    <3>1. c \notin finished
      BY <1>3 DEF Refuses
    <3>2. \A x \in Live(s) : x # n /\ spawnedIn'[x] = spawnedIn[x]
      BY <2>3 DEF Live
    <3> QED
      BY <2>3, <2>4, <3>1, <3>2 DEF SInv, Tree, FinishedAreWaitedFor
  <2>11. NobodyParks
    <3>1. \A x \in Live(s) : x \in Live(s)' /\ spawnedIn'[x] = spawnedIn[x]
      BY <2>3 DEF Live
    <3> QED
      BY <2>2, <2>3, <2>4, <3>1 DEF NobodyParks, routineVars
  <2>12. IdleIsChecked(s')
    BY <1>1, <2>2 DEF IdleIsChecked
  <2>13. Waits' /\ DeadlockStep
    BY <2>11, <2>12, WaitsFrame
  <2> QED
    BY <2>5, <2>6, <2>7, <2>8, <2>9, <2>10, <2>13 DEF SInv, Tree
<1> QED
  BY <1>2, <1>3

-----------------------------------------------------------------------------
(* The steps that stop routines *)

\* Cancelling is closed: who lives in a scope that is now cancelled is cancelled.
LEMMA MarkCloses ==
  ASSUME Tree, NEW R, NEW C, Mark(Stopped(R, C), C)
  PROVE  /\ cancelled \subseteq cancelled' /\ cancelledScopes \cup C \subseteq cancelledScopes'
         /\ cancelled' = cancelled \cup Stopped(R, C)
         /\ \A x \in Live(s) : spawnedIn[x] \in cancelledScopes' => x \in cancelled'
<1>1. /\ cancelled' = cancelled \cup Stopped(R, C)
      /\ cancelledScopes' = cancelledScopes \cup C \cup UNION {open[p] : p \in Stopped(R, C)}
  BY DEF Mark
<1>2. ASSUME NEW x \in Live(s), spawnedIn[x] \in cancelledScopes'
      PROVE  x \in cancelled'
  <2>1. CASE spawnedIn[x] \in cancelledScopes
    <3>1. x \in Unended(spawnedIn[x])
      BY DEF Unended
    <3> QED
      BY <1>1, <2>1, <3>1 DEF Tree, CancelledStop
  <2>2. CASE spawnedIn[x] \notin cancelledScopes /\ x \notin cancelled
    <3> SUFFICES ASSUME NEW T \in SUBSET Live(s), Reaches(R, C, T)
                 PROVE  x \in T
      BY <1>1, <2>2 DEF Stopped
    <3>1. CASE spawnedIn[x] \in C
      BY <2>2, <3>1 DEF Reaches
    <3>2. CASE \E p \in Stopped(R, C) : spawnedIn[x] \in open[p]
      <4>1. PICK p \in Stopped(R, C) : spawnedIn[x] \in open[p]
        BY <3>2
      <4>2. p \in T
        BY DEF Stopped
      <4> QED
        BY <2>2, <4>1, <4>2 DEF Reaches
    <3> QED
      BY <1>1, <1>2, <2>2, <3>1, <3>2
  <2> QED
    BY <1>1, <2>1, <2>2
<1> QED
  BY <1>1, <1>2

\* Scopes close and routines end; what is no longer open is empty or cancelled.
Shrinks ==
  /\ owner' = owner /\ spawnedIn' = spawnedIn
  /\ \A x \in Routines : s'.state[x] = "unborn" <=> s.state[x] = "unborn"
  /\ s'.state[Root] # "done"
  /\ \A x \in Live(s)' : x \in Live(s)
  /\ \A c \in finished' : owner[c] # Nobody
  /\ finished \subseteq finished' /\ cancelledScopes \subseteq cancelledScopes'
  /\ \A x \in Live(s) : spawnedIn[x] \in cancelledScopes' => x \in cancelled'
  /\ \A p \in Routines : /\ open'[p] \subseteq open[p]
                         /\ open'[p] # {} /\ p \in Live(s) => p \in Live(s)'
  /\ \A p \in Routines : \A c \in open[p] :
       \/ c \in open'[p] \cup cancelledScopes'
       \/ c \in finished' /\ Unended(c) = {}

LEMMA ShrinksKeeps ==
  ASSUME TypeOK, Tree, Shrinks, InsideIsOwned', FinishedAreWaitedFor'
  PROVE  Tree'
<1>1. owner' = owner /\ spawnedIn' = spawnedIn
  BY DEF Shrinks
<1>2. BornInOrder'
  BY RoutinesFinite DEF Shrinks, Tree, BornInOrder
<1>3. OwnersComeFirst'
  <2>1. ASSUME NEW c \in Scopes, owner[c] # Nobody
        PROVE  s'.state[owner[c]] # "unborn"
    <3>1. owner[c] \in Routines /\ s.state[owner[c]] # "unborn"
      BY <2>1 DEF Tree, OwnersComeFirst, TypeOK
    <3> QED
      BY <3>1 DEF Shrinks
  <2>2. \A r \in Routines : r # Root /\ s'.state[r] # "unborn" => spawnedIn[r] # 0
    BY DEF Shrinks, Tree, OwnersComeFirst
  <2> QED
    BY <1>1, <2>1, <2>2 DEF Tree, OwnersComeFirst
<1>4. OpenIsOwned'
  BY <1>1 DEF Shrinks, Tree, OpenIsOwned
<1>5. OpenUntilOver'
  <2> SUFFICES ASSUME NEW c \in Scopes, owner[c] # Nobody
               PROVE  c \in open'[owner[c]] \cup finished' \cup cancelledScopes'
    BY <1>1 DEF OpenUntilOver
  <2>1. owner[c] \in Routines /\ c \in open[owner[c]] \cup finished \cup cancelledScopes
    BY DEF Tree, OpenUntilOver, TypeOK
  <2> QED
    BY <2>1 DEF Shrinks
<1>6. LiveInOpen'
  <2> SUFFICES ASSUME NEW x \in Live(s)', spawnedIn[x] # 0
               PROVE  spawnedIn[x] \in open'[owner[spawnedIn[x]]] \cup cancelledScopes'
    BY <1>1 DEF LiveInOpen
  <2> DEFINE c == spawnedIn[x]
             p == owner[c]
  <2>1. x \in Routines /\ x \in Live(s)
    BY DEF Shrinks, Live
  <2>2. c \in Scopes /\ p \in Routines
    BY <2>1 DEF TypeOK, Tree, OwnersComeFirst
  <2>3. c \in open[p] \cup cancelledScopes
    BY <2>1 DEF Tree, LiveInOpen
  <2>4. Unended(c) # {}
    BY <2>1 DEF Unended
  <2> HIDE DEF c, p
  <2>5. c \in open'[p] \cup cancelledScopes'
    BY <2>2, <2>3, <2>4 DEF Shrinks
  <2> QED
    BY <2>5 DEF c, p
<1>7. CancelledStop'
  BY <1>1 DEF Shrinks, CancelledStop, Unended
<1> QED
  BY <1>2, <1>3, <1>4, <1>5, <1>6, <1>7 DEF Tree

\* Routine r stops others, which are woken; whoever still waits at the end of a
\* scope stays in a waiter list that is not forgotten.
Stopping(r) ==
  /\ LockStep(s, s', {r}) /\ IdleIsChecked(s')
  /\ spawnedIn' = spawnedIn
  /\ cancelled \subseteq cancelled' /\ cancelledScopes \subseteq cancelledScopes'
  /\ \A x \in Routines \ {r} :
       /\ at'[x] = at[x] /\ inside'[x] = inside[x]
       /\ unwind'[x] = unwind[x] /\ result'[x] = result[x]
       /\ s'.state[x] = "parked" => x \notin cancelled' \ cancelled
  /\ \A x \in Routines \ {r} : \A t \in Live(s) :
       s'.state[x] = "parked" /\ (\E i \in 1 .. Len(waiters[t]) : waiters[t][i] = x)
         => t \in Live(s)' /\ \E i \in 1 .. Len(waiters'[t]) : waiters'[t][i] = x

\* What r itself leaves behind.
Leaving(r) ==
  /\ unwind'[r] = "cancelled" => r \in cancelled'
  /\ s'.fatal = "none" /\ s'.state[r] = "done" /\ result'[r] = "nil" => r \in cancelled'
  /\ s'.state[r] = "parked" =>
       /\ \E t \in Unended(Innermost(r))' :
            \E i \in 1 .. Len(waiters'[t]) : waiters'[t][i] = r
       /\ s'.fatal # "none" \/ r \in cancelled' =>
            at'[r] = "close" /\ Innermost(r)' \in cancelledScopes'

LEMMA StoppingKeeps ==
  ASSUME SInv, NEW r \in Routines, s.running = r, Stopping(r), Leaving(r)
  PROVE  Waits' /\ DeadlockStep
<1>1. \A x \in Routines \ {r} :
        /\ s'.state[x] = "done" <=> s.state[x] = "done"
        /\ s'.state[x] = "parked" => s.state[x] = "parked" /\ s'.fatal = s.fatal
  BY LockStepLives DEF Stopping
<1>2. s.fatal # "none" => s'.fatal = s.fatal
  BY DEF Stopping, LockStep
<1>3. s'.deadlocked => s'.fatal # "none"
  BY <1>2 DEF Stopping, LockStep, SInv, Waits
<1>4. WaitsAtClose'
  <2> SUFFICES ASSUME NEW x \in Routines, s'.state[x] = "parked", at'[x] = "close"
               PROVE  \E t \in Unended(Innermost(x))' :
                        \E i \in 1 .. Len(waiters'[t]) : waiters'[t][i] = x
    BY DEF WaitsAtClose
  <2>1. CASE x = r
    BY <2>1 DEF Leaving
  <2>2. CASE x # r
    <3>1. s.state[x] = "parked" /\ at[x] = "close" /\ inside'[x] = inside[x]
      BY <1>1, <2>2 DEF Stopping
    <3>2. PICK t \in Unended(Innermost(x)) : \E i \in 1 .. Len(waiters[t]) : waiters[t][i] = x
      BY <3>1 DEF SInv, Waits, WaitsAtClose
    <3>3. t \in Live(s) /\ spawnedIn[t] = Innermost(x)
      BY DEF Unended
    <3>4. t \in Live(s)' /\ \E i \in 1 .. Len(waiters'[t]) : waiters'[t][i] = x
      BY <2>2, <3>2, <3>3 DEF Stopping
    <3>5. t \in Unended(Innermost(x))'
      BY <3>1, <3>3, <3>4 DEF Unended, Innermost, Stopping
    <3> QED
      BY <3>4, <3>5
  <2> QED
    BY <2>1, <2>2
<1>5. StopsAtClose'
  <2> SUFFICES ASSUME NEW x \in Routines, s'.state[x] = "parked",
                      s'.fatal # "none" \/ x \in cancelled'
               PROVE  at'[x] = "close" /\ Innermost(x)' \in cancelledScopes'
    BY DEF StopsAtClose
  <2>1. CASE x = r
    BY <2>1 DEF Leaving
  <2>2. CASE x # r
    <3>1. s.state[x] = "parked" /\ s'.fatal = s.fatal /\ x \notin cancelled' \ cancelled
      BY <1>1, <2>2 DEF Stopping
    <3>2. at[x] = "close" /\ Innermost(x) \in cancelledScopes
      BY <3>1 DEF SInv, Waits, StopsAtClose
    <3> QED
      BY <2>2, <3>2 DEF Stopping, Innermost
  <2> QED
    BY <2>1, <2>2
<1>6. UnwindsForReason'
  <2>1. \A x \in Routines : unwind'[x] = "cancelled" => x \in cancelled'
    BY DEF Stopping, Leaving, SInv, Waits, UnwindsForReason
  <2>2. ASSUME s'.fatal = "none", NEW x \in Routines, s'.state[x] = "done", result'[x] = "nil"
        PROVE  x \in cancelled'
    BY <1>1, <1>2, <2>2 DEF Stopping, Leaving, SInv, Waits, UnwindsForReason
  <2> QED
    BY <2>1, <2>2 DEF UnwindsForReason
<1> QED
  BY <1>3, <1>4, <1>5, <1>6, LockStepDeadlock DEF Waits, Stopping

LEMMA CancelKeeps ==
  ASSUME IInv, SInv, NEW r \in Routines, NEW c \in Scopes, Cancel(r, c)
  PROVE  SInv' /\ DeadlockStep
<1> DEFINE T == Stopped({}, {c})
<1>1. /\ s.running = r /\ at[r] = "user" /\ TypeOK /\ Sound(s) /\ Mid(s)
      /\ r # Nobody /\ s.state[r] = "running" /\ owner[c] # Nobody
  BY RunnerIsHolder, RoutinesFinite DEF Cancel, InUserCode, Running, IInv, Sound
<1>2. /\ Mark(T, {c}) /\ at' = at /\ unwind' = unwind
      /\ result' = result /\ waiters' = waiters
      /\ open' = open /\ owner' = owner /\ spawnedIn' = spawnedIn
      /\ finished' = finished /\ inside' = inside
  BY DEF Cancel, flowVars
<1>3. PICK q \in Orders(ParkedIn(s, T)) : s' = WakeLocked(s, q)
  BY DEF Cancel
<1>4. /\ T \in SUBSET Routines /\ T \in SUBSET Live(s)
      /\ cancelled \subseteq cancelled' /\ cancelledScopes \cup {c} \subseteq cancelledScopes'
      /\ cancelled' = cancelled \cup T
      /\ \A x \in Live(s) : spawnedIn[x] \in cancelledScopes' => x \in cancelled'
  BY <1>2, StoppedAreLive, MarkCloses DEF SInv
<1> HIDE DEF T
<1>5. LockStep(s, s', {}) /\ \A x \in ParkedIn(s, T) : s'.state[x] # "parked"
  <2>1. ParkedIn(s, T) \in SUBSET Routines /\ \A x \in ParkedIn(s, T) : s.state[x] = "parked"
    BY <1>4 DEF ParkedIn
  <2> QED
    BY <1>1, <1>3, <2>1, OrdersStep
<1>6. s'.running = r /\ s'.state[r] = "running"
  BY <1>1, <1>3, <1>4, ParkedInWakeable, WakeLockedSound
<1>7. LockStep(s, s', {r}) /\ SameLives(r)
  BY <1>1, <1>5, <1>6 DEF LockStep, SameLives
<1>8. /\ Live(s)' = Live(s)
      /\ \A x \in Routines : s'.state[x] = "unborn" <=> s.state[x] = "unborn"
      /\ \A x \in Routines : s'.state[x] = "done" <=> s.state[x] = "done"
  BY <1>7, SameLivesLive
<1>9. Tree'
  <2>1. Shrinks
    BY <1>2, <1>4, <1>8, RoutinesFinite DEF Shrinks, SInv, Tree, BornInOrder, OpenIsOwned
  <2>2. InsideIsOwned' /\ FinishedAreWaitedFor'
    BY <1>2, <1>8 DEF SInv, Tree, InsideIsOwned, FinishedAreWaitedFor
  <2> QED
    BY <1>1, <2>1, <2>2, ShrinksKeeps DEF SInv
<1>10. Waits' /\ DeadlockStep
  <2>1. \A x \in Routines \ {r} : s'.state[x] = "parked" => x \notin cancelled' \ cancelled
    <3> SUFFICES ASSUME NEW x \in Routines \ {r}, s'.state[x] = "parked", x \in T
                 PROVE  FALSE
      BY <1>4
    <3>1. s.state[x] = "parked"
      BY <1>7, LockStepLives
    <3> QED
      BY <1>5, <3>1 DEF ParkedIn
  <2>2. IdleIsChecked(s')
    BY <1>1, <1>6 DEF IdleIsChecked
  <2>3. Stopping(r)
    BY <1>2, <1>4, <1>7, <1>8, <2>1, <2>2 DEF Stopping
  <2>4. Leaving(r)
    BY <1>2, <1>4, <1>6 DEF Leaving, SInv, Waits, UnwindsForReason
  <2> QED
    BY <1>1, <2>3, <2>4, StoppingKeeps
<1> QED
  BY <1>9, <1>10 DEF SInv

LEMMA EndProgramKeeps ==
  ASSUME IInv, SInv, EndProgram
  PROVE  SInv' /\ DeadlockStep
<1>1. /\ s.running = Root /\ at[Root] = "user" /\ TypeOK /\ Sound(s) /\ Mid(s)
      /\ Root \in Routines /\ Root # Nobody /\ s.state[Root] = "running"
      /\ s \in SchedulerType
  BY RunnerIsHolder, RoutinesFinite DEF EndProgram, Running, IInv, Sound, Mid
<1>2. /\ at' = [at EXCEPT ![Root] = "ended"] /\ unwind' = unwind
      /\ result' = result /\ waiters' = waiters
      /\ open' = open /\ owner' = owner /\ spawnedIn' = spawnedIn
      /\ finished' = finished /\ inside' = inside
  BY DEF EndProgram
<1>3. at'[Root] = "ended" /\ \A x \in Routines \ {Root} : at'[x] = at[x]
  BY <1>1, <1>2 DEF TypeOK
<1>4. /\ LockStep(s, s', {Root}) /\ s'.running = Root /\ s'.state[Root] = "running"
      /\ cancelled \subseteq cancelled' /\ cancelledScopes \subseteq cancelledScopes'
      /\ \A x \in Live(s) : spawnedIn[x] \in cancelledScopes' => x \in cancelled'
      /\ \A x \in Routines \ {Root} : s'.state[x] = "parked" => x \notin cancelled' \ cancelled
  <2>1. CASE unwind[Root] = "no"
    <3>1. s' = s /\ cancelled' = cancelled /\ cancelledScopes' = cancelledScopes
      BY <2>1 DEF EndProgram
    <3>2. LockStep(s, s', {Root})
      BY <3>1 DEF LockStep
    <3>3. \A x \in Live(s) : spawnedIn[x] \in cancelledScopes => x \in cancelled
      BY DEF SInv, Tree, CancelledStop, Unended
    <3> QED
      BY <1>1, <3>1, <3>2, <3>3
  <2>2. CASE unwind[Root] # "no"
    <3> DEFINE f == [s EXCEPT !.fatal = IF @ = "none" THEN "panic" ELSE @]
    <3>1. PICK q \in Orders(InState(s, "parked")) : s' = WakeLocked(f, q)
      BY <2>2 DEF EndProgram
    <3>2. Mark(Stopped(Live(s), {}), {})
      BY <2>2 DEF EndProgram
    <3>3. /\ OnlyMarks(s, f) /\ f.state = s.state /\ f.running = Root
          /\ f.deadlocked = s.deadlocked
          /\ f.fatal = IF s.fatal = "none" THEN "panic" ELSE s.fatal
      BY <1>1 DEF OnlyMarks, SchedulerType
    <3> HIDE DEF f
    <3>4. /\ InState(s, "parked") \in SUBSET Routines
          /\ \A x \in InState(s, "parked") : f.state[x] = "parked"
      BY <3>3 DEF InState
    <3>5. Mid(f) /\ Wakeable(f, q)
      BY <1>1, <3>3, <3>4, MarksKeep, OrdersWakeable
    <3>6. /\ LockStep(f, s', {}) /\ \A x \in InState(s, "parked") : s'.state[x] # "parked"
          /\ s'.fatal = f.fatal /\ s'.deadlocked = s.deadlocked
      BY <3>1, <3>3, <3>4, <3>5, OrdersStep
    <3>7. s'.running = Root /\ s'.state[Root] = "running"
      BY <1>1, <3>1, <3>3, <3>5, WakeLockedSound
    <3>8. \A x \in Routines : s'.state[x] # "parked"
      BY <3>3, <3>6 DEF LockStep, InState
    <3>9. LockStep(s, s', {Root})
      BY <3>3, <3>6, <3>8 DEF LockStep
    <3> QED
      BY <3>2, <3>7, <3>8, <3>9, MarkCloses DEF SInv
  <2> QED
    BY <2>1, <2>2
<1>5. /\ Live(s)' = Live(s)
      /\ \A x \in Routines : s'.state[x] = "unborn" <=> s.state[x] = "unborn"
  BY <1>1, <1>4, SameLivesLive DEF SameLives
<1>6. Tree'
  <2>1. Shrinks
    BY <1>1, <1>2, <1>4, <1>5 DEF Shrinks, SInv, Tree, OpenIsOwned
  <2>2. InsideIsOwned' /\ FinishedAreWaitedFor'
    BY <1>1, <1>2, <1>3, <1>5 DEF SInv, Tree, InsideIsOwned, FinishedAreWaitedFor
  <2> QED
    BY <1>1, <2>1, <2>2, ShrinksKeeps DEF SInv
<1>7. Waits' /\ DeadlockStep
  <2>1. IdleIsChecked(s')
    BY <1>1, <1>4 DEF IdleIsChecked
  <2>2. Stopping(Root)
    BY <1>2, <1>3, <1>4, <1>5, <2>1 DEF Stopping
  <2>3. Leaving(Root)
    BY <1>1, <1>2, <1>4 DEF Leaving, SInv, Waits, UnwindsForReason
  <2> QED
    BY <1>1, <2>2, <2>3, StoppingKeeps
<1> QED
  BY <1>6, <1>7 DEF SInv

\* One turn of the loop at the end of a scope.
LEMMA CloseLoopKeeps ==
  ASSUME IInv, SInv, NEW r \in Routines, s.running = r, inside[r] # << >>,
         NEW reason \in {"no", "cancelled", "panic"}, reason = "cancelled" => r \in cancelled,
         CloseLoop(r, Innermost(r), reason),
         finished' = finished \cup {Innermost(r)}
  PROVE  SInv' /\ DeadlockStep
<1> DEFINE c == Innermost(r)
           first == Unwinding(r) /\ c \notin cancelledScopes
           T == IF first THEN Stopped({}, {c}) ELSE {}
           C == IF first THEN {c} ELSE {}
<1>1. /\ TypeOK /\ Sound(s) /\ Mid(s) /\ r # Nobody /\ s.state[r] = "running"
      /\ InsideIsOwned
  BY RunnerIsHolder, RoutinesFinite DEF IInv, Sound, SInv, Tree
<1>2. /\ inside[r] \in Seq(Scopes) /\ Len(inside[r]) \in Nat \ {0}
      /\ c = inside[r][Len(inside[r])] /\ c \in Scopes
  BY <1>1, FrontKeeps DEF TypeOK, Innermost
<1>3. Mark(T, C) /\ result' = result /\ owner' = owner /\ spawnedIn' = spawnedIn
  BY DEF CloseLoop
<1>4. PICK q \in Orders(ParkedIn(s, T)) :
        LET woken == WakeLocked(s, q)
        IN  IF Unended(c) = {}
            THEN /\ s' = woken
                 /\ open' = [open EXCEPT ![r] = @ \ {c}]
                 /\ inside' = [inside EXCEPT ![r] = SubSeq(@, 1, Len(@) - 1)]
                 /\ Return(r, reason)
                 /\ UNCHANGED waiters
            ELSE /\ s' = ParkLocked(woken, r)
                 /\ waiters' = [waiters EXCEPT ![Pending(c)] = Append(@, r)]
                 /\ at' = [at EXCEPT ![r] = "close"]
                 /\ unwind' = [unwind EXCEPT ![r] = IF @ = "no" THEN reason ELSE @]
                 /\ UNCHANGED << open, inside, on >>
  BY DEF CloseLoop
<1> DEFINE woken == WakeLocked(s, q)
<1>5. /\ T \in SUBSET Routines /\ T \in SUBSET Live(s)
      /\ cancelled \subseteq cancelled' /\ cancelledScopes \subseteq cancelledScopes'
      /\ cancelled' = cancelled \cup T
      /\ \A x \in Live(s) : spawnedIn[x] \in cancelledScopes' => x \in cancelled'
  <2>1. CASE first
    BY <1>3, <2>1, StoppedAreLive, MarkCloses DEF SInv
  <2>2. CASE ~first
    BY <1>3, <2>2 DEF Mark, SInv, Tree, CancelledStop, Unended
  <2> QED
    BY <2>1, <2>2
<1>6. r \in cancelled' \/ s.fatal # "none" => c \in cancelledScopes'
  BY <1>3, <1>5 DEF Unwinding, Mark
<1>7. owner[c] = r /\ r \in Live(s)
  BY <1>1, <1>2 DEF InsideIsOwned, Live
<1> HIDE DEF T
<1>8. /\ LockStep(s, woken, {}) /\ \A x \in ParkedIn(s, T) : woken.state[x] # "parked"
      /\ woken.fatal = s.fatal
  <2>1. ParkedIn(s, T) \in SUBSET Routines /\ \A x \in ParkedIn(s, T) : s.state[x] = "parked"
    BY <1>5 DEF ParkedIn
  <2> QED
    BY <1>1, <1>4, <2>1, OrdersStep
<1>9. Sound(woken) /\ woken.running = r /\ woken.state[r] = "running"
  BY <1>1, <1>4, <1>5, ParkedInWakeable, WakeLockedSound
<1>10. \A x \in Routines \ {r} : woken.state[x] = "parked" => x \notin cancelled' \ cancelled
  <2> SUFFICES ASSUME NEW x \in Routines \ {r}, woken.state[x] = "parked", x \in T
               PROVE  FALSE
    BY <1>5
  <2>1. s.state[x] = "parked"
    BY <1>8 DEF LockStep
  <2> QED
    BY <1>8, <2>1 DEF ParkedIn
<1> HIDE DEF c, first, C, woken
<1>11. CASE Unended(c) = {}
  <2>1. /\ s' = woken /\ waiters' = waiters
        /\ open' = [open EXCEPT ![r] = @ \ {c}]
        /\ inside' = [inside EXCEPT ![r] = SubSeq(@, 1, Len(@) - 1)]
        /\ Return(r, reason)
    BY <1>4, <1>11 DEF woken
  <2>2. /\ at'[r] = "user" /\ unwind'[r] \in {unwind[r], reason}
        /\ \A x \in Routines \ {r} : /\ at'[x] = at[x] /\ unwind'[x] = unwind[x]
                                     /\ open'[x] = open[x] /\ inside'[x] = inside[x]
        /\ open'[r] = open[r] \ {c}
    BY <1>1, <2>1 DEF Return, TypeOK
  <2>3. LockStep(s, s', {r}) /\ SameLives(r)
    BY <1>1, <1>8, <1>9, <2>1 DEF LockStep, SameLives
  <2>4. /\ Live(s)' = Live(s)
        /\ \A x \in Routines : s'.state[x] = "unborn" <=> s.state[x] = "unborn"
        /\ \A x \in Routines : s'.state[x] = "done" <=> s.state[x] = "done"
    BY <2>3, SameLivesLive
  <2>5. Pops(r)
    BY <1>3, <2>1, <2>2 DEF Pops
  <2>6. /\ InsideIsOwned'
        /\ \A p \in Routines : \A i \in 1 .. Len(inside[p]) :
             inside[p][i] # c => \E j \in 1 .. Len(inside'[p]) : inside'[p][j] = inside[p][i]
    BY <1>1, <2>5, PopKeepsInside DEF c
  <2>7. FinishedAreWaitedFor'
    <3> SUFFICES ASSUME NEW x \in Live(s), spawnedIn[x] \in finished'
                 PROVE  \E i \in 1 .. Len(inside'[owner[spawnedIn[x]]]) :
                          inside'[owner[spawnedIn[x]]][i] = spawnedIn[x]
      BY <1>3, <2>4 DEF FinishedAreWaitedFor
    <3>1. spawnedIn[x] # c /\ spawnedIn[x] \in finished
      BY <1>11 DEF Unended, c
    <3>2. owner[spawnedIn[x]] \in Routines
      BY <1>1, <3>1 DEF TypeOK, SInv, Tree, OpenIsOwned
    <3>3. PICK i \in 1 .. Len(inside[owner[spawnedIn[x]]]) :
            inside[owner[spawnedIn[x]]][i] = spawnedIn[x]
      BY <3>1 DEF SInv, Tree, FinishedAreWaitedFor
    <3> QED
      BY <2>6, <3>1, <3>2, <3>3
  <2>8. Shrinks
    <3>1. \A d \in finished' : owner[d] # Nobody
      BY <1>1, <1>7 DEF c, SInv, Tree, OpenIsOwned
    <3>2. /\ s'.state[Root] # "done" /\ finished \subseteq finished' /\ c \in finished'
      BY <2>4, RoutinesFinite DEF SInv, Tree, BornInOrder, c
    <3>3. \A p \in Routines : /\ open'[p] \subseteq open[p]
                              /\ open'[p] # {} /\ p \in Live(s) => p \in Live(s)'
      BY <2>2, <2>4
    <3>4. \A p \in Routines : \A d \in open[p] :
            d \in open'[p] \cup cancelledScopes' \/ (d \in finished' /\ Unended(d) = {})
      BY <1>11, <2>2, <3>2
    <3> QED
      BY <1>3, <1>5, <2>4, <3>1, <3>2, <3>3, <3>4 DEF Shrinks
  <2>9. Tree'
    BY <1>1, <2>6, <2>7, <2>8, ShrinksKeeps DEF SInv
  <2>10. Stopping(r)
    <3>1. IdleIsChecked(s')
      BY <1>1, <1>9, <2>1 DEF IdleIsChecked
    <3> QED
      BY <1>3, <1>5, <1>10, <2>1, <2>2, <2>3, <2>4, <3>1 DEF Stopping
  <2>11. Leaving(r)
    BY <1>5, <1>9, <2>1, <2>2 DEF Leaving, SInv, Waits, UnwindsForReason
  <2> QED
    BY <2>9, <2>10, <2>11, StoppingKeeps DEF SInv
<1>12. CASE Unended(c) # {}
  <2>1. /\ s' = ParkLocked(woken, r)
        /\ waiters' = [waiters EXCEPT ![Pending(c)] = Append(@, r)]
        /\ at' = [at EXCEPT ![r] = "close"]
        /\ unwind' = [unwind EXCEPT ![r] = IF @ = "no" THEN reason ELSE @]
        /\ open' = open /\ inside' = inside
    BY <1>4, <1>12 DEF woken
  <2>2. /\ at'[r] = "close" /\ unwind'[r] \in {unwind[r], reason}
        /\ \A x \in Routines \ {r} : at'[x] = at[x] /\ unwind'[x] = unwind[x]
    BY <1>1, <2>1 DEF TypeOK
  <2>3. LetGo(woken, s', r, "parked")
    BY <1>9, <2>1, ParkLockedStep
  <2>4. LockStep(s, s', {r}) /\ SameLives(r)
    <3>1. LockStep(woken, s', {r})
      BY <2>3 DEF LetGo
    <3>2. LockStep(s, s', {r})
      BY <1>8, <3>1, LockStepTrans
    <3> QED
      BY <1>1, <2>3, <3>2 DEF SameLives, LetGo
  <2>5. /\ Live(s)' = Live(s)
        /\ \A x \in Routines : s'.state[x] = "unborn" <=> s.state[x] = "unborn"
        /\ \A x \in Routines : s'.state[x] = "done" <=> s.state[x] = "done"
    BY <2>4, SameLivesLive
  <2>6. Pending(c) \in Unended(c) /\ Pending(c) \in Routines
    <3> DEFINE U == Unended(c)
    <3>1. U \in SUBSET Int /\ IsFiniteSet(U) /\ U \in SUBSET Routines
      BY RoutinesFinite, FS_Subset DEF Unended, Live
    <3>2. U # {}
      BY <1>12
    <3>3. Pending(c) = CHOOSE x \in U : \A y \in U : x <= y
      BY DEF Pending
    <3> HIDE DEF U
    <3>4. \E x \in U : \A y \in U : x <= y
      BY <3>1, <3>2, EndsExist
    <3>5. Pending(c) \in U
      BY <3>3, <3>4
    <3> QED
      BY <3>1, <3>5 DEF U
  <2>7. ListsGrow /\ \E j \in 1 .. Len(waiters'[Pending(c)]) : waiters'[Pending(c)][j] = r
    BY <1>1, <2>1, <2>6, JoinGrows, ZenonT(60)
  <2>8. InsideIsOwned'
    <3> SUFFICES ASSUME NEW p \in Routines, NEW i \in 1 .. Len(inside[p])
                 PROVE  inside[p][i] \in finished' <=> at'[p] = "close" /\ i = Len(inside[p])
      BY <1>1, <1>3, <2>1 DEF InsideIsOwned
    <3>1. /\ owner[inside[p][i]] = p
          /\ inside[p][i] \in finished <=> at[p] = "close" /\ i = Len(inside[p])
          /\ \A j \in 1 .. Len(inside[p]) : inside[p][i] = inside[p][j] => i = j
      BY <1>1 DEF InsideIsOwned
    <3>2. finished' = finished \cup {c}
      BY DEF c
    <3>3. CASE p # r
      BY <1>7, <2>2, <3>1, <3>2, <3>3
    <3>4. CASE p = r
      BY <1>2, <2>2, <3>1, <3>2, <3>4
    <3> QED
      BY <3>3, <3>4
  <2>9. FinishedAreWaitedFor'
    <3> SUFFICES ASSUME NEW x \in Live(s), spawnedIn[x] \in finished'
                 PROVE  \E i \in 1 .. Len(inside[owner[spawnedIn[x]]]) :
                          inside[owner[spawnedIn[x]]][i] = spawnedIn[x]
      BY <1>3, <2>1, <2>5 DEF FinishedAreWaitedFor
    <3>1. CASE spawnedIn[x] = c
      BY <1>2, <1>7, <3>1
    <3>2. CASE spawnedIn[x] # c
      BY <3>2 DEF c, SInv, Tree, FinishedAreWaitedFor
    <3> QED
      BY <3>1, <3>2
  <2>10. Shrinks
    <3>1. \A d \in finished' : owner[d] # Nobody
      BY <1>1, <1>7 DEF c, SInv, Tree, OpenIsOwned
    <3>2. s'.state[Root] # "done" /\ finished \subseteq finished'
      BY <2>5, RoutinesFinite DEF SInv, Tree, BornInOrder
    <3> QED
      BY <1>3, <1>5, <2>1, <2>5, <3>1, <3>2 DEF Shrinks
  <2>11. Tree'
    BY <1>1, <2>8, <2>9, <2>10, ShrinksKeeps DEF SInv
  <2>12. Stopping(r)
    <3>1. \A x \in Routines \ {r} : s'.state[x] = "parked" => x \notin cancelled' \ cancelled
      BY <1>10, <2>3 DEF LetGo, LockStep
    <3>2. \A t \in Live(s) : t \in Routines
      BY DEF Live
    <3> QED
      BY <1>3, <1>5, <2>1, <2>2, <2>3, <2>4, <2>5, <2>7, <3>1, <3>2
         DEF Stopping, ListsGrow, LetGo
  <2>13. Leaving(r)
    <3>1. unwind'[r] = "cancelled" => r \in cancelled'
      BY <1>5, <2>2 DEF SInv, Waits, UnwindsForReason
    <3>2. Innermost(r)' = c /\ Unended(c)' = Unended(c)
      BY <1>3, <2>1, <2>5 DEF Innermost, Unended, c
    <3>3. ASSUME s'.state[r] = "parked"
          PROVE  s'.fatal = s.fatal
      BY <1>8, <2>3, <3>3 DEF LetGo
    <3>4. \E t \in Unended(Innermost(r))' :
            \E i \in 1 .. Len(waiters'[t]) : waiters'[t][i] = r
      <4> DEFINE t == Pending(c)
      <4>1. t \in Unended(Innermost(r))' /\ \E i \in 1 .. Len(waiters'[t]) : waiters'[t][i] = r
        BY <2>6, <2>7, <3>2 DEF c
      <4> QED
        BY <4>1
    <3>5. s'.state[r] # "done"
      BY <2>3 DEF LetGo
    <3>6. s'.state[r] = "parked" /\ (s'.fatal # "none" \/ r \in cancelled')
            => at'[r] = "close" /\ Innermost(r)' \in cancelledScopes'
      BY <1>6, <2>2, <3>2, <3>3
    <3> QED
      BY <3>1, <3>4, <3>5, <3>6 DEF Leaving
  <2> QED
    BY <2>11, <2>12, <2>13, StoppingKeeps DEF SInv
<1> QED
  BY <1>11, <1>12

LEMMA CloseScopeKeeps ==
  ASSUME IInv, SInv, NEW r \in Routines, CloseScope(r)
  PROVE  SInv' /\ DeadlockStep
BY CloseLoopKeeps DEF CloseScope, Running

LEMMA ResumeCloseKeeps ==
  ASSUME IInv, SInv, NEW r \in Routines, ResumeClose(r)
  PROVE  SInv' /\ DeadlockStep
<1>1. /\ s.running = r /\ at[r] = "close" /\ inside[r] # << >> /\ TypeOK
      /\ CloseLoop(r, Innermost(r), StopReason(r)) /\ finished' = finished
  BY DEF ResumeClose, Running, IInv, CloseInside
<1>2. Innermost(r) \in finished
  <2>1. Len(inside[r]) \in 1 .. Len(inside[r])
    BY <1>1, FrontKeeps DEF TypeOK
  <2> QED
    BY <1>1, <2>1 DEF SInv, Tree, InsideIsOwned, Innermost
<1>3. finished' = finished \cup {Innermost(r)}
  BY <1>1, <1>2
<1> QED
  BY <1>1, <1>3, StopReasonMeans, CloseLoopKeeps

\* Routine r has ended: nobody it was to wake stays parked, and a failure of its
\* own is reported.
HasEnded(r, w, T, z) ==
  /\ LockStep(s, z, {r}) /\ IdleIsChecked(z) /\ z.state[r] = "done"
  /\ \A i \in 1 .. Len(w) : z.state[w[i]] # "parked"
  /\ \A x \in T : z.state[x] # "parked"
  /\ Fails(r) => z.fatal # "none"

\* From the end of a routine to the lock let go.
LEMMA EndingStep ==
  ASSUME Sound(s), NEW r \in Routines, s.running = r, NEW w \in Seq(Routines),
         NEW T \in SUBSET Routines,
         NEW a, NEW d, NEW k, NEW q, NEW u, Ending(r, w, T, a, d, k, q, u)
  PROVE  HasEnded(r, w, T, ReleaseLocked(u))
<1> DEFINE f == [s EXCEPT !.fatal = "panic"]
           z == ReleaseLocked(u)
<1>0. /\ Sound(a) /\ Mid(d) /\ Mid(k) /\ Mid(u)
      /\ \A x \in Routines : u.state[x] # "running"
  BY EndingSound
<1>1. /\ s \in SchedulerType /\ Mid(s) /\ s.state[r] = "running"
      /\ a \in SchedulerType /\ Mid(a) /\ Mid(d) /\ Mid(k) /\ Mid(u)
      /\ \A x \in Routines : u.state[x] # "running"
  BY <1>0, RunnerIsHolder DEF Sound, Mid
<1>2. LockStep(s, a, {r}) /\ (Fails(r) => a.fatal # "none")
  <2>1. CASE Fails(r)
    <3>1. /\ OnlyMarks(s, f) /\ f.state = s.state /\ f.fatal = "panic"
          /\ f.deadlocked = s.deadlocked
      BY <1>1 DEF OnlyMarks, SchedulerType
    <3>2. a = AbortAllLocked(f)
      BY <2>1 DEF Ending
    <3> HIDE DEF f
    <3>3. /\ LockStep(f, a, {}) /\ \A x \in Routines : a.state[x] # "parked"
          /\ a.fatal = "panic" /\ a.deadlocked = s.deadlocked
      BY <1>1, <3>1, <3>2, MarksKeep, AbortAllStep
    <3>4. s.fatal = "none"
      BY <2>1 DEF Fails
    <3> QED
      BY <3>1, <3>3, <3>4 DEF LockStep
  <2>2. CASE ~Fails(r)
    <3>1. a = s
      BY <2>2 DEF Ending
    <3> QED
      BY <2>2, <3>1 DEF LockStep
  <2> QED
    BY <2>1, <2>2
<1>3. LockStep(a, d, {r}) /\ d.state[r] = "done"
  <2>1. /\ a \in SchedulerType /\ d.state = [a.state EXCEPT ![r] = "done"]
        /\ d.fatal = a.fatal /\ d.deadlocked = a.deadlocked
    BY <1>1 DEF Ending, Ended, SchedulerType
  <2> QED
    BY <2>1, OwnStep DEF SchedulerType
<1>4. LockStep(d, k, {}) /\ \A i \in 1 .. Len(w) : k.state[w[i]] # "parked"
  BY <1>1, WakeWaitersStep DEF Ending
<1>5. LockStep(k, u, {}) /\ \A x \in ParkedIn(k, T) : u.state[x] # "parked"
  <2>1. ParkedIn(k, T) \in SUBSET Routines /\ \A x \in ParkedIn(k, T) : k.state[x] = "parked"
    BY DEF ParkedIn
  <2>2. q \in Orders(ParkedIn(k, T)) /\ u = WakeLocked(k, q)
    BY DEF Ending
  <2> QED
    BY <1>1, <2>1, <2>2, OrdersStep
<1>6. LockStep(u, z, {}) /\ IdleIsChecked(z)
  BY <1>1, ReleaseStep
<1> HIDE DEF z
<1>7. LockStep(a, z, {r})
  <2>1. LockStep(a, k, {r})
    BY <1>3, <1>4, LockStepTrans
  <2>2. LockStep(a, u, {r})
    BY <1>5, <2>1, LockStepTrans
  <2> QED
    BY <1>6, <2>2, LockStepTrans
<1>8. LockStep(s, z, {r})
  BY <1>2, <1>7, LockStepTrans
<1>9. z.state[r] = "done"
  BY <1>3, <1>4, <1>5, <1>6 DEF LockStep
<1>10. \A x \in Routines : z.state[x] = "parked" => u.state[x] = "parked" /\ k.state[x] = "parked"
  BY <1>5, <1>6 DEF LockStep
<1>11. \A i \in 1 .. Len(w) : z.state[w[i]] # "parked"
  <2>1. \A i \in 1 .. Len(w) : w[i] \in Routines
    BY ElementOfSeq
  <2> QED
    BY <1>4, <1>10, <2>1
<1>12. \A x \in T : z.state[x] # "parked"
  BY <1>5, <1>10 DEF ParkedIn
<1>13. Fails(r) => z.fatal # "none"
  BY <1>2, <1>7 DEF LockStep
<1>14. HasEnded(r, w, T, z)
  BY <1>6, <1>8, <1>9, <1>11, <1>12, <1>13 DEF HasEnded
<1> QED
  BY <1>14 DEF z

LEMMA EndRoutineKeeps ==
  ASSUME IInv, SInv, NEW r \in Routines, EndRoutine(r)
  PROVE  SInv' /\ DeadlockStep
<1> DEFINE a == IF Fails(r) THEN AbortAllLocked([s EXCEPT !.fatal = "panic"]) ELSE s
           d == [a EXCEPT !.state[r] = "done"]
           k == WakeWaiters(d, waiters[r])
           T == Stopped({}, open[r])
<1>1. /\ TypeOK /\ Sound(s) /\ s.running = r /\ s.state[r] = "running"
      /\ r # Root /\ at[r] = "user"
  BY RunnerIsHolder DEF IInv, EndRoutine, Running
<1>2. PICK q \in Orders(ParkedIn(k, T)) : s' = ReleaseLocked(WakeLocked(k, q))
  BY DEF EndRoutine, LeftOpen
<1>3. /\ Mark(T, open[r])
      /\ result' = [result EXCEPT ![r] = IF unwind[r] = "no" THEN "value" ELSE "nil"]
      /\ waiters' = [waiters EXCEPT ![r] = << >>]
      /\ open' = [open EXCEPT ![r] = {}]
      /\ at' = [at EXCEPT ![r] = "ended"]
      /\ owner' = owner /\ spawnedIn' = spawnedIn /\ finished' = finished
      /\ inside' = inside /\ unwind' = unwind
  BY DEF EndRoutine, LeftOpen
<1>4. /\ T \in SUBSET Routines /\ waiters[r] \in Seq(Routines)
      /\ cancelled \subseteq cancelled' /\ cancelledScopes \cup open[r] \subseteq cancelledScopes'
      /\ cancelled' = cancelled \cup T
      /\ \A x \in Live(s) : spawnedIn[x] \in cancelledScopes' => x \in cancelled'
  BY <1>1, <1>3, StoppedAreLive, MarkCloses DEF SInv, TypeOK
<1> HIDE DEF T
<1>5. /\ LockStep(s, s', {r}) /\ IdleIsChecked(s') /\ s'.state[r] = "done"
      /\ \A i \in 1 .. Len(waiters[r]) : s'.state[waiters[r][i]] # "parked"
      /\ \A x \in T : s'.state[x] # "parked"
      /\ Fails(r) => s'.fatal # "none"
  <2> DEFINE u == WakeLocked(k, q)
  <2>1. Ending(r, waiters[r], T, a, d, k, q, u)
    BY <1>2 DEF Ending, Ended
  <2>2. s' = ReleaseLocked(u)
    BY <1>2
  <2> HIDE DEF a, d, k, u
  <2> DEFINE w == waiters[r]
  <2>3. w \in Seq(Routines) /\ Ending(r, w, T, a, d, k, q, u)
    BY <1>4, <2>1
  <2> HIDE DEF w
  <2>4. HasEnded(r, w, T, ReleaseLocked(u))
    BY <1>1, <1>4, <2>3, EndingStep
  <2> QED
    BY <2>2, <2>4 DEF w, HasEnded
<1> HIDE DEF a, d, k
<1>6. /\ at'[r] = "ended" /\ \A x \in Routines \ {r} : at'[x] = at[x]
      /\ open'[r] = {} /\ \A x \in Routines \ {r} : open'[x] = open[x]
      /\ \A x \in Routines \ {r} : waiters'[x] = waiters[x]
      /\ \A x \in Routines \ {r} : result'[x] = result[x]
      /\ result'[r] = IF unwind[r] = "no" THEN "value" ELSE "nil"
  BY <1>1, <1>3 DEF TypeOK
<1>7. /\ \A x \in Routines : s'.state[x] = "unborn" <=> s.state[x] = "unborn"
      /\ \A x \in Routines \ {r} : s'.state[x] = "done" <=> s.state[x] = "done"
      /\ Live(s)' = Live(s) \ {r}
  <2>1. \A x \in Routines \ {r} : /\ s'.state[x] = "unborn" <=> s.state[x] = "unborn"
                                  /\ s'.state[x] = "done" <=> s.state[x] = "done"
    BY <1>5, LockStepLives
  <2> QED
    BY <1>1, <1>5, <2>1 DEF Live
<1>8. Tree'
  <2>1. Shrinks
    <3>1. s'.state[Root] # "done"
      BY <1>1, <1>7, RoutinesFinite DEF SInv, Tree, BornInOrder
    <3>2. \A p \in Routines : \A c \in open[p] : c \in open'[p] \cup cancelledScopes'
      BY <1>4, <1>6
    <3>3. \A p \in Routines : /\ open'[p] \subseteq open[p]
                              /\ open'[p] # {} /\ p \in Live(s) => p \in Live(s)'
      BY <1>6, <1>7
    <3>4. \A c \in finished' : owner[c] # Nobody
      BY <1>3 DEF SInv, Tree, OpenIsOwned
    <3> QED
      BY <1>3, <1>4, <1>7, <3>1, <3>2, <3>3, <3>4 DEF Shrinks
  <2>2. InsideIsOwned'
    <3>1. \A x \in Routines : at'[x] = "close" <=> at[x] = "close"
      BY <1>1, <1>6
    <3> QED
      BY <1>3, <3>1 DEF SInv, Tree, InsideIsOwned
  <2>3. FinishedAreWaitedFor'
    BY <1>3, <1>7 DEF SInv, Tree, FinishedAreWaitedFor
  <2> QED
    BY <1>1, <2>1, <2>2, <2>3, ShrinksKeeps DEF SInv
<1>9. Stopping(r)
  <2>1. \A x \in Routines \ {r} : s'.state[x] = "parked" => x \notin cancelled' \ cancelled
    BY <1>4, <1>5
  <2>2. ASSUME NEW x \in Routines \ {r}, NEW t \in Live(s), s'.state[x] = "parked",
               \E i \in 1 .. Len(waiters[t]) : waiters[t][i] = x
        PROVE  t \in Live(s)' /\ \E i \in 1 .. Len(waiters'[t]) : waiters'[t][i] = x
    <3>1. t # r /\ t \in Routines
      BY <1>5, <2>2 DEF Live
    <3> QED
      BY <1>6, <1>7, <2>2, <3>1
  <2> QED
    BY <1>3, <1>4, <1>5, <1>6, <2>1, <2>2 DEF Stopping
<1>10. Leaving(r)
  <2>1. unwind'[r] = "cancelled" => r \in cancelled'
    BY <1>3, <1>4 DEF SInv, Waits, UnwindsForReason
  <2>2. ASSUME s'.fatal = "none", result'[r] = "nil"
        PROVE  r \in cancelled'
    <3>1. s.fatal = "none" /\ unwind[r] # "panic"
      BY <1>5, <2>2 DEF LockStep, Fails
    <3>2. unwind[r] = "cancelled"
      BY <1>1, <1>6, <2>2, <3>1 DEF TypeOK
    <3> QED
      BY <1>3, <2>1, <3>2
  <2> QED
    BY <1>5, <2>1, <2>2 DEF Leaving
<1> QED
  BY <1>1, <1>8, <1>9, <1>10, StoppingKeeps DEF SInv

-----------------------------------------------------------------------------
(* The invariant and what follows from it *)

LEMMA InitSInv == Init => SInv
<1> SUFFICES ASSUME Init PROVE SInv
  OBVIOUS
<1>1. /\ s.running = Root /\ s.fatal = "none" /\ s.deadlocked = FALSE
      /\ \A r \in Routines : s.state[r] = IF r = Root THEN "running" ELSE "unborn"
  BY DEF Init, NewScheduler
<1>2. /\ cancelled = {} /\ open = [r \in Routines |-> {}] /\ owner = [c \in Scopes |-> Nobody]
      /\ spawnedIn = [r \in Routines |-> 0] /\ cancelledScopes = {} /\ finished = {}
      /\ inside = [r \in Routines |-> << >>]
      /\ unwind = [r \in Routines |-> "no"]
  BY DEF Init
<1>3. BornInOrder
  <2>1. \A m, n \in Routines : m < n => n # Root
    BY DEF Routines, Root
  <2> QED
    BY <1>1, <2>1, RoutinesFinite DEF BornInOrder
<1>4. OwnersComeFirst /\ OpenIsOwned /\ OpenUntilOver
  BY <1>1, <1>2 DEF OwnersComeFirst, OpenIsOwned, OpenUntilOver
<1>5. InsideIsOwned
  <2>1. \A p \in Routines : inside[p] = << >> /\ Len(inside[p]) = 0
    BY <1>2
  <2>2. \A p \in Routines : \A i \in 1 .. Len(inside[p]) : FALSE
    BY <2>1
  <2> QED
    BY <2>2 DEF InsideIsOwned
<1>6. LiveInOpen /\ CancelledStop /\ FinishedAreWaitedFor
  BY <1>2 DEF LiveInOpen, CancelledStop, FinishedAreWaitedFor, Live
<1>7. Waits
  <2>1. Root # Nobody
    BY RoutinesFinite
  <2> QED
    BY <1>1, <1>2, <2>1 DEF Waits, IdleIsChecked, WaitsAtClose, StopsAtClose, UnwindsForReason
<1> QED
  BY <1>3, <1>4, <1>5, <1>6, <1>7 DEF SInv, Tree

\* A stuttering step keeps everything.
LEMMA StutterKeeps ==
  ASSUME SInv, UNCHANGED vars
  PROVE  SInv' /\ DeadlockStep
<1>1. /\ s' = s /\ cancelled' = cancelled /\ result' = result /\ waiters' = waiters
      /\ open' = open /\ owner' = owner /\ spawnedIn' = spawnedIn
      /\ cancelledScopes' = cancelledScopes /\ finished' = finished /\ inside' = inside
      /\ at' = at /\ unwind' = unwind
  BY DEF vars, routineVars, scopeVars, flowVars
<1>2. Tree'
  BY <1>1 DEF SInv, Tree, BornInOrder, OwnersComeFirst, OpenIsOwned, InsideIsOwned,
              OpenUntilOver, LiveInOpen, CancelledStop, FinishedAreWaitedFor, Unended, Live
<1>3. Waits'
  BY <1>1 DEF SInv, Waits, IdleIsChecked, WaitsAtClose, StopsAtClose, UnwindsForReason,
              Unended, Live, Innermost
<1> QED
  BY <1>1, <1>2, <1>3 DEF SInv, DeadlockStep

LEMMA NextSInv ==
  ASSUME IInv, SInv, [Next]_vars
  PROVE  SInv' /\ DeadlockStep
<1>1. CASE \E r \in Routines : RoutineStep(r) \/ HostReturns(r)
  <2>1. PICK r \in Routines : RoutineStep(r) \/ HostReturns(r)
    BY <1>1
  <2>2. CASE UserStep(r)
    <3>1. CASE OpenScope(r)
      BY <3>1, OpenScopeKeeps
    <3>2. CASE \E c \in Scopes : Spawn(r, c) \/ Cancel(r, c)
      BY <3>2, SpawnKeeps, CancelKeeps
    <3>3. CASE EscapeScope(r)
      BY <3>3, EscapeScopeKeeps
    <3>4. CASE \E t \in Routines : Wait(r, t) \/ Unblock(r, t)
      BY <3>4, WaitKeeps, UnblockKeeps
    <3>5. CASE \E blocks \in BOOLEAN : CallExtern(r, blocks)
      BY <3>5, CallExternKeeps
    <3>6. CASE Block(r)
      BY <3>6, BlockKeeps
    <3>7. CASE Panic(r)
      BY <3>7, PanicKeeps
    <3> QED
      BY <2>2, <3>1, <3>2, <3>3, <3>4, <3>5, <3>6, <3>7 DEF UserStep
  <2>3. CASE Start(r)
    BY <2>3, StartKeeps
  <2>4. CASE CloseScope(r)
    BY <2>4, CloseScopeKeeps
  <2>5. CASE ResumeClose(r)
    BY <2>5, ResumeCloseKeeps
  <2>6. CASE ResumeWait(r)
    BY <2>6, ResumeWaitKeeps
  <2>7. CASE ResumeYield(r)
    BY <2>7, ResumeYieldKeeps
  <2>8. CASE ResumeCall(r)
    BY <2>8, ResumeCallKeeps
  <2>9. CASE EndRoutine(r)
    BY <2>9, EndRoutineKeeps
  <2>10. CASE EndProgram
    BY <2>10, EndProgramKeeps
  <2>11. CASE HostReturns(r)
    BY <2>11, HostReturnsKeeps
  <2> QED
    BY <2>1, <2>2, <2>3, <2>4, <2>5, <2>6, <2>7, <2>8, <2>9, <2>10, <2>11 DEF RoutineStep
<1>2. CASE Terminated
  BY <1>2, StutterKeeps DEF Terminated
<1>3. CASE UNCHANGED vars
  BY <1>3, StutterKeeps
<1> QED
  BY <1>1, <1>2, <1>3 DEF Next

\* The tree of routines and scopes, and who waits for whom in it, hold in every
\* reachable state, on top of the sound lock.
THEOREM ScopesInvariance == Spec => [](IInv /\ SInv)
<1>1. Init => IInv /\ SInv
  BY InitIInv, InitSInv
<1>2. IInv /\ SInv /\ [Next]_vars => (IInv /\ SInv)'
  BY NextIInv, NextSInv
<1> QED
  BY <1>1, <1>2, PTL DEF Spec

\* An idle lock means somebody is in the host: where everybody is parked, the
\* deadlock check of Scheduler.mu has found it, and after a failure the routine
\* with the greatest id would have to wait for one with a greater.
THEOREM NeverStallsHolds == Spec => []NeverStalls
<1>1. IInv /\ SInv => NeverStalls
  <2> SUFFICES ASSUME IInv, SInv, s.running = Nobody, InState(s, "inHost") = {}
               PROVE  FALSE
    BY DEF NeverStalls
  <2>1. /\ TypeOK /\ Sound(s) /\ Mid(s) /\ s \in SchedulerType
        /\ s.external = 0 /\ s.parked = Cardinality(InState(s, "parked"))
    BY FS_EmptySet DEF IInv, Sound, Mid
  <2>2. \A x \in Live(s) : x \in Routines /\ s.state[x] = "parked"
    <3> SUFFICES ASSUME NEW x \in Live(s)
                 PROVE  x \in Routines /\ s.state[x] = "parked"
      OBVIOUS
    <3>1. x \in Routines /\ s.state[x] \in {"ready", "running", "parked", "inHost"}
      BY <2>1 DEF Live, SchedulerType, RoutineStates
    <3>2. s.state[x] # "running"
      BY <2>1, <3>1, RoutinesFinite DEF Mid
    <3>3. s.state[x] # "ready"
      <4>1. s.ready = << >>
        BY <2>1 DEF Sound
      <4>2. \A i \in 1 .. Len(s.ready) : FALSE
        BY <4>1
      <4> QED
        BY <2>1, <3>1, <4>2 DEF Mid
    <3>4. s.state[x] # "inHost"
      BY <3>1 DEF InState
    <3> QED
      BY <3>1, <3>2, <3>3, <3>4
  <2>3. Root \in Live(s)
    BY RoutinesFinite DEF SInv, Tree, BornInOrder, Live
  <2>4. s.deadlocked
    <3>1. Root \in InState(s, "parked")
      BY <2>2, <2>3 DEF InState
    <3>2. s.parked # 0
      <4>1. IsFiniteSet(InState(s, "parked"))
        BY RoutinesFinite, FS_Subset DEF InState
      <4> QED
        BY <2>1, <3>1, <4>1, FS_EmptySet
    <3> QED
      BY <2>1, <3>2 DEF SInv, Waits, IdleIsChecked
  <2>5. ASSUME NEW x \in Live(s)
        PROVE  \E t \in Live(s) : x < t
    <3>1. x \in Routines /\ s.state[x] = "parked" /\ at[x] = "close"
      BY <2>2, <2>4 DEF SInv, Waits, StopsAtClose
    <3>2. PICK t \in Unended(Innermost(x)) : TRUE
      BY <3>1 DEF SInv, Waits, WaitsAtClose
    <3>3. t \in Routines /\ t \in Live(s) /\ spawnedIn[t] = Innermost(x)
      BY DEF Unended, Live
    <3>4. /\ inside[x] \in Seq(Scopes) /\ inside[x] # << >>
          /\ Len(inside[x]) \in Nat \ {0} /\ Innermost(x) \in Scopes
      BY <2>1, <3>1, FrontKeeps DEF TypeOK, IInv, CloseInside, Innermost
    <3>5. owner[Innermost(x)] = x
      BY <3>1, <3>4 DEF SInv, Tree, InsideIsOwned, Innermost
    <3>6. Innermost(x) # 0
      BY <3>4, MaxScopesAssumption DEF Scopes
    <3>7. x < t
      BY <3>3, <3>5, <3>6 DEF SInv, Tree, OwnersComeFirst
    <3> QED
      BY <3>3, <3>7
  <2>6. PICK x \in Live(s) : \A y \in Live(s) : y <= x
    <3> DEFINE L == Live(s)
    <3>0. L \in SUBSET Routines /\ L # {}
      BY <2>3 DEF Live
    <3> HIDE DEF L
    <3>1. L \in SUBSET Int /\ IsFiniteSet(L) /\ L # {}
      <4>1. Routines \subseteq Int /\ IsFiniteSet(Routines)
        BY RoutinesFinite
      <4>2. IsFiniteSet(L)
        BY <3>0, <4>1, FS_Subset
      <4> QED
        BY <3>0, <4>1, <4>2
    <3>2. \E x \in L : \A y \in L : y <= x
      BY <3>1, EndsExist
    <3> QED
      BY <3>2 DEF L
  <2>7. PICK t \in Live(s) : x < t
    BY <2>5
  <2>8. x \in Routines /\ t \in Routines /\ t <= x
    BY <2>6, <2>7 DEF Live
  <2> QED
    BY <2>7, <2>8, RoutinesFinite
<1> QED
  BY <1>1, ScopesInvariance, PTL

\* A routine told to stop waits only at the end of its own cancelled scope, for
\* routines that are cancelled too.
THEOREM StoppedWaitForStoppedHolds == Spec => []StoppedWaitForStopped
<1>1. SInv => StoppedWaitForStopped
  <2> SUFFICES ASSUME SInv, NEW r \in InState(s, "parked"), StopReason(r) # "no"
               PROVE  /\ at[r] = "close"
                      /\ Innermost(r) \in cancelledScopes
                      /\ Unended(Innermost(r)) \subseteq cancelled
    BY DEF StoppedWaitForStopped
  <2>1. s.fatal # "none" \/ r \in cancelled
    BY DEF StopReason, StopReasonLocked
  <2>2. at[r] = "close" /\ Innermost(r) \in cancelledScopes
    BY <2>1 DEF SInv, Waits, StopsAtClose, InState
  <2> QED
    BY <2>2 DEF SInv, Tree, CancelledStop
<1> QED
  BY <1>1, ScopesInvariance, PTL

\* A scope whose body is over has live routines only while its owner is still in
\* CloseScope's loop for it.
THEOREM ClosedScopesAreEmptyHolds == Spec => []ClosedScopesAreEmpty
<1>1. IInv /\ SInv => ClosedScopesAreEmpty
  <2> SUFFICES ASSUME IInv, SInv, NEW r \in Live(s), spawnedIn[r] \in finished
               PROVE  spawnedIn[r] \in Members(inside[owner[spawnedIn[r]]])
    BY DEF ClosedScopesAreEmpty
  <2>1. owner[spawnedIn[r]] \in Routines
    BY DEF IInv, TypeOK, SInv, Tree, OpenIsOwned
  <2>2. inside[owner[spawnedIn[r]]] \in Seq(Scopes)
    BY <2>1 DEF IInv, TypeOK
  <2> QED
    BY <2>2 DEF SInv, Tree, FinishedAreWaitedFor, Members
<1> QED
  BY <1>1, ScopesInvariance, PTL

\* A routine whose owner has ended is cancelled, even where CloseScope was skipped.
THEOREM OrphansAreCancelledHolds == Spec => []OrphansAreCancelled
<1>1. IInv /\ SInv => OrphansAreCancelled
  <2> SUFFICES ASSUME IInv, SInv, NEW r \in Live(s), r # Root,
                      owner[spawnedIn[r]] \notin Live(s)
               PROVE  r \in cancelled
    BY DEF OrphansAreCancelled
  <2>1. r \in Routines /\ s.state[r] # "unborn"
    BY DEF Live
  <2>2. spawnedIn[r] # 0 /\ spawnedIn[r] \in Scopes
    BY <2>1 DEF SInv, Tree, OwnersComeFirst, IInv, TypeOK
  <2>3. owner[spawnedIn[r]] \in Routines
    BY <2>1, <2>2 DEF SInv, Tree, OwnersComeFirst, IInv, TypeOK
  <2>4. spawnedIn[r] \in cancelledScopes
    BY <2>2, <2>3 DEF SInv, Tree, LiveInOpen, OpenIsOwned
  <2>5. r \in Unended(spawnedIn[r])
    BY DEF Unended
  <2> QED
    BY <2>4, <2>5 DEF SInv, Tree, CancelledStop
<1> QED
  BY <1>1, ScopesInvariance, PTL

\* While the program has not failed, only a cancelled routine ends without a
\* result: what Wait reports as Cancelled was.
THEOREM NilMeansCancelledHolds == Spec => []NilMeansCancelled
<1>1. SInv => NilMeansCancelled
  BY DEF SInv, Waits, UnwindsForReason, NilMeansCancelled, InState
<1> QED
  BY <1>1, ScopesInvariance, PTL

\* The deadlock report is never premature: when it comes up, every live routine
\* but the one letting the lock go was parked.
THEOREM DeadlockIsRealHolds == Spec => DeadlockIsReal
<1>1. IInv /\ SInv /\ [Next]_vars =>
        [~s.deadlocked /\ s'.deadlocked => Live(s) \subseteq InState(s, "parked") \cup {s.running}]_vars
  BY NextSInv DEF DeadlockStep
<1> QED
  BY <1>1, ScopesInvariance, PTL DEF Spec, DeadlockIsReal

=============================================================================
