------------------------------ MODULE RunLock ------------------------------
(***************************************************************************)
(* The run lock of pkg/runtime/scheduler.go as pure operators.             *)
(*                                                                         *)
(* Scheduler.mu makes every method of the Go scheduler one critical        *)
(* section, so what a method does to the lock is a function from a         *)
(* scheduler to a scheduler: each operator below takes the record s and    *)
(* returns what the ...Locked helper of the same name leaves behind.  The  *)
(* modules with state (Scheduler, Channels, HostStream, Globals) hold one  *)
(* such record in a variable and compose their critical sections of them.  *)
(*                                                                         *)
(* Routines carry the ids Spawn hands out, in spawn order, so the live     *)
(* list known of the code is the set of live ids in increasing order.      *)
(***************************************************************************)
EXTENDS Integers, Sequences, FiniteSets

CONSTANT MaxRoutines      \* bound on the routines one program ever starts

ASSUME MaxRoutinesAssumption == MaxRoutines \in Nat \ {0}

Routines == 0 .. MaxRoutines - 1
Root == 0                 \* the routine the program itself runs in
Nobody == -1

RoutineStates == {"unborn", "ready", "running", "parked", "inHost", "done"}

SchedulerType ==
  [ state      : [Routines -> RoutineStates],
    ready      : Seq(Routines),
    running    : Routines \cup {Nobody},
    parked     : Nat,
    external   : Nat,
    fatal      : {"none", "deadlock", "panic"},
    deadlocked : BOOLEAN ]

\* Root holds the lock; the routines of set R exist and are ready to go.
NewScheduler(R) ==
  [ state      |-> [r \in Routines |-> IF r = Root THEN "running"
                                       ELSE IF r \in R THEN "ready" ELSE "unborn"],
    ready      |-> [i \in 1 .. Cardinality(R) |-> i],
    running    |-> Root,
    parked     |-> 0,
    external   |-> 0,
    fatal      |-> "none",
    deadlocked |-> FALSE ]

InState(s, x) == {r \in Routines : s.state[r] = x}
Live(s) == {r \in Routines : s.state[r] \notin {"unborn", "done"}}

-----------------------------------------------------------------------------
(* Orders in which routines are woken.                                      *)

\* The elements of a finite set of numbers in increasing order.
Ascending(S) ==
  [k \in 1 .. Cardinality(S) |->
     CHOOSE x \in S : Cardinality({y \in S : y <= x}) = k]

\* parkedLocked walks known, which is in spawn order.
ParkedLocked(s) == Ascending(InState(s, "parked"))

\* Waking the entries of a waiter list one by one wakes each parked routine
\* at its first entry; the later entries find it ready and do nothing.
FirstParkedEntries(s, q) ==
  {i \in DOMAIN q : /\ s.state[q[i]] = "parked"
                    /\ \A j \in 1 .. i - 1 : q[j] # q[i]}

\* The entries of a list q at the places S, in their order.
Entries(q, S) ==
  LET places == Ascending(S)
  IN  [k \in DOMAIN places |-> q[places[k]]]

ParkedAmong(s, q) == Entries(q, FirstParkedEntries(s, q))

\* Every order of a set: what a caller uses that leaves the order open.
Orders(S) ==
  {q \in [1 .. Cardinality(S) -> S] : \A x \in S : \E i \in DOMAIN q : q[i] = x}

-----------------------------------------------------------------------------
(* The ...Locked helpers.                                                   *)

DispatchLocked(s) ==
  IF s.running # Nobody \/ s.ready = << >>
  THEN s
  ELSE [s EXCEPT !.running = Head(s.ready),
                 !.ready = Tail(s.ready),
                 !.state[Head(s.ready)] = "running"]

\* wakeLocked over q, a sequence of distinct parked routines.  Dispatching
\* once at the end is dispatching after each: the first dispatch hands the
\* lock to the head of the queue and every later one finds it taken.
WakeLocked(s, q) ==
  DispatchLocked(
    [s EXCEPT !.state = [r \in Routines |->
                           IF \E i \in DOMAIN q : q[i] = r THEN "ready"
                                                           ELSE s.state[r]],
              !.ready = @ \o q,
              !.parked = @ - Len(q)])

\* The loops over waiters, receivers and senders.
WakeWaiters(s, q) == WakeLocked(s, ParkedAmong(s, q))

\* abortAllLocked
AbortAllLocked(s) == WakeLocked(s, ParkedLocked(s))

\* Mutant: host calls and armed timers are not counted as able to wake anyone.
CheckDeadlockDespiteHost(s) ==
  IF s.running # Nobody \/ s.ready # << >> \/ s.parked = 0 \/ s.deadlocked THEN s
  ELSE AbortAllLocked([s EXCEPT !.deadlocked = TRUE,
                                !.fatal = IF @ = "none" THEN "deadlock" ELSE @])

CheckDeadlockLocked(s) ==
  IF s.running # Nobody \/ s.ready # << >> \/ s.external > 0 \/ s.parked = 0
  THEN s
  ELSE IF s.deadlocked
  THEN s
  ELSE AbortAllLocked([s EXCEPT !.deadlocked = TRUE,
                                !.fatal = IF @ = "none" THEN "deadlock" ELSE @])

\* Mutant: the lock is let go without looking for a deadlock.
ReleaseUnchecked(s) == DispatchLocked([s EXCEPT !.running = Nobody])

ReleaseLocked(s) ==
  CheckDeadlockLocked(DispatchLocked([s EXCEPT !.running = Nobody]))

\* Mutant: who gives way queues at the front.
GiveWayAtFront(s, r) ==
  ReleaseLocked([s EXCEPT !.state[r] = "ready", !.ready = << r >> \o @])

\* parkLocked up to the wait on r.resume: requeue gives way, the rest block.
GiveWayLocked(s, r) ==
  ReleaseLocked([s EXCEPT !.state[r] = "ready", !.ready = Append(@, r)])

ParkLocked(s, r) ==
  ReleaseLocked([s EXCEPT !.state[r] = "parked", !.parked = @ + 1])

\* Mutant: the call is not counted.
BeginHostCallUncounted(s, r) == ReleaseLocked([s EXCEPT !.state[r] = "inHost"])

BeginHostCall(s, r) ==
  ReleaseLocked([s EXCEPT !.external = @ + 1, !.state[r] = "inHost"])

\* Mutant: the routine queues without taking a lock that is free.
EndHostCallQueues(s, r) ==
  [s EXCEPT !.external = @ - 1, !.state[r] = "ready", !.ready = Append(@, r)]

\* EndHostCall up to the wait on r.resume.
EndHostCall(s, r) ==
  DispatchLocked([s EXCEPT !.external = @ - 1,
                           !.state[r] = "ready",
                           !.ready = Append(@, r)])

ArmExternal(s) == [s EXCEPT !.external = @ + 1]

DisarmExternal(s) == CheckDeadlockLocked([s EXCEPT !.external = @ - 1])

\* Spawn's part of the lock: the new routine joins the end of the queue.
EnqueueNew(s, r) ==
  DispatchLocked([s EXCEPT !.state[r] = "ready", !.ready = Append(@, r)])

\* Mutant: a failed program carries on.
StopReasonDespiteFailure(s, cancelled, r) == IF r \in cancelled THEN "cancelled" ELSE "no"

\* stopReasonLocked: why r must unwind rather than carry on.
StopReasonLocked(s, cancelled, r) ==
  IF s.fatal # "none" THEN "panic"
  ELSE IF r \in cancelled THEN "cancelled"
  ELSE "no"

=============================================================================
