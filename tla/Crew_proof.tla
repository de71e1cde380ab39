----------------------------- MODULE Crew_proof -----------------------------
(***************************************************************************)
(* What the steps of a crew, and the run lock with reads and timers in     *)
(* flight, preserve for every number of routines: the ground the proofs    *)
(* about channels and about host streams share.                            *)
(*                                                                         *)
(* What is in flight counts as external, which the lemmas of RunLock_proof *)
(* tie to the calls of the host.  No routine of a crew is in the host, so  *)
(* they are used on the bare lock: the lock without what is in flight.     *)
(***************************************************************************)
EXTENDS Crew, RunLock_proof

-----------------------------------------------------------------------------
(* Lists                                                                    *)

\* The entries of a sequence at some places are entries of it, each once.
LEMMA EntriesOfSeq ==
  ASSUME NEW T, NEW q \in Seq(T), NEW S \in SUBSET (1 .. Len(q))
  PROVE  /\ Entries(q, S) \in Seq(T)
         /\ S = {} => Entries(q, S) = << >>
         /\ \E place \in [1 .. Len(Entries(q, S)) -> S] :
              /\ \A k \in 1 .. Len(Entries(q, S)) : Entries(q, S)[k] = q[place[k]]
              /\ \A i, j \in 1 .. Len(Entries(q, S)) : place[i] = place[j] => i = j
<1> DEFINE places == Ascending(S)
           e == Entries(q, S)
<1>1. /\ Len(q) \in Nat /\ DOMAIN q = 1 .. Len(q)
      /\ \A i \in 1 .. Len(q) : q[i] \in T
  BY LenProperties, ElementOfSeq
<1>2. S \in SUBSET Int /\ IsFiniteSet(S)
  <2>1. IsFiniteSet(1 .. Len(q)) /\ 1 .. Len(q) \subseteq Int
    BY PlacesFinite
  <2> QED
    BY <2>1, FS_Subset
<1>3. /\ places \in Seq(S)
      /\ Len(places) = Cardinality(S)
      /\ \A i, j \in 1 .. Cardinality(S) : places[i] = places[j] => i = j
  BY <1>2, AscendingEnumerates
<1>4. /\ Len(places) \in Nat /\ DOMAIN places = 1 .. Len(places)
      /\ places \in [1 .. Len(places) -> S]
  BY <1>3, LenProperties
<1>5. e = [k \in 1 .. Len(places) |-> q[places[k]]]
  BY <1>4 DEF Entries
<1> HIDE DEF places, e
<1>6. \A k \in 1 .. Len(places) : places[k] \in 1 .. Len(q) /\ q[places[k]] \in T
  BY <1>1, <1>4
<1>7. e \in Seq(T) /\ Len(e) = Len(places)
  BY <1>4, <1>5, <1>6
<1>8. S = {} => e = << >>
  <2>1. S = {} => Len(places) = 0
    BY <1>3, FS_EmptySet
  <2> QED
    BY <1>7, <2>1, EmptySeq, SeqEqual
<1>9. /\ places \in [1 .. Len(e) -> S]
      /\ \A k \in 1 .. Len(e) : e[k] = q[places[k]]
      /\ \A i, j \in 1 .. Len(e) : places[i] = places[j] => i = j
  BY <1>3, <1>4, <1>5, <1>7
<1> QED
  BY <1>7, <1>8, <1>9 DEF e

LEMMA MembersOfAppend ==
  ASSUME NEW T, NEW q \in Seq(T), NEW x \in T
  PROVE  Members(Append(q, x)) = Members(q) \cup {x}
<1>1. /\ Len(q) \in Nat /\ DOMAIN q = 1 .. Len(q)
      /\ DOMAIN Append(q, x) = 1 .. Len(q) + 1
      /\ \A i \in 1 .. Len(q) : Append(q, x)[i] = q[i]
      /\ Append(q, x)[Len(q) + 1] = x
  OBVIOUS
<1>2. \A i : i \in 1 .. Len(q) + 1 <=> i \in 1 .. Len(q) \/ i = Len(q) + 1
  BY <1>1
<1> QED
  BY <1>1, <1>2 DEF Members

LEMMA MembersOfTail ==
  ASSUME NEW T, NEW q \in Seq(T), q # << >>
  PROVE  Members(q) = {Head(q)} \cup Members(Tail(q))
<1>1. /\ Len(q) \in Nat \ {0} /\ DOMAIN q = 1 .. Len(q)
      /\ Tail(q) \in Seq(T) /\ DOMAIN Tail(q) = 1 .. Len(q) - 1
      /\ \A i \in 1 .. Len(q) - 1 : Tail(q)[i] = q[i + 1]
      /\ Head(q) = q[1]
  BY EmptySeq, LenProperties, HeadTailProperties
<1>2. ASSUME NEW x \in Members(q), x # Head(q) PROVE x \in Members(Tail(q))
  <2>1. PICK i \in 1 .. Len(q) : q[i] = x
    BY <1>1 DEF Members
  <2>2. i - 1 \in 1 .. Len(q) - 1 /\ Tail(q)[i - 1] = x
    BY <1>1, <1>2, <2>1
  <2> QED
    BY <1>1, <2>2 DEF Members
<1>3. ASSUME NEW i \in 1 .. Len(q) - 1 PROVE Tail(q)[i] \in Members(q)
  BY <1>1 DEF Members
<1>4. Head(q) \in Members(q)
  BY <1>1 DEF Members
<1>5. Members(Tail(q)) \subseteq Members(q)
  BY <1>1, <1>3 DEF Members
<1> QED
  BY <1>2, <1>4, <1>5

\* Entries keeps the entries at its places and no others.
LEMMA EntriesMembers ==
  ASSUME NEW T, NEW q \in Seq(T), NEW S \in SUBSET (1 .. Len(q))
  PROVE  Members(Entries(q, S)) = {q[i] : i \in S}
<1>1. S \in SUBSET Int /\ IsFiniteSet(S)
  <2>1. IsFiniteSet(1 .. Len(q)) /\ 1 .. Len(q) \subseteq Int
    BY PlacesFinite
  <2> QED
    BY <2>1, FS_Subset
<1>2. /\ Ascending(S) \in Seq(S) /\ Len(Ascending(S)) = Cardinality(S)
      /\ DOMAIN Ascending(S) = 1 .. Cardinality(S)
  BY <1>1, AscendingEnumerates, LenProperties
<1>3. Entries(q, S) = [k \in 1 .. Cardinality(S) |-> q[Ascending(S)[k]]]
  BY <1>2 DEF Entries
<1>4. \A k \in 1 .. Cardinality(S) : Ascending(S)[k] \in S
  BY <1>2, ElementOfSeq
<1>5. \A i \in S : \E k \in 1 .. Cardinality(S) : Ascending(S)[k] = i
  BY <1>1, AscendingCovers
<1> DEFINE e == Entries(q, S)
           a == Ascending(S)
           n == Cardinality(S)
<1>6. /\ DOMAIN e = 1 .. n /\ \A k \in 1 .. n : e[k] = q[a[k]]
      /\ \A k \in 1 .. n : a[k] \in S
      /\ \A i \in S : \E k \in 1 .. n : a[k] = i
  BY <1>3, <1>4, <1>5
<1> HIDE DEF e, a, n
<1>7. ASSUME NEW k \in 1 .. n PROVE e[k] \in {q[i] : i \in S}
  <2>1. e[k] = q[a[k]] /\ a[k] \in S
    BY <1>6
  <2> QED
    BY <2>1
<1>8. {q[i] : i \in S} \subseteq Members(e)
  BY <1>6 DEF Members
<1>9. Members(e) = {e[k] : k \in 1 .. n}
  BY <1>6 DEF Members
<1> QED
  BY <1>7, <1>8, <1>9 DEF e

-----------------------------------------------------------------------------
(* The lock                                                                 *)

LockType ==
  [ state : [Routines -> RoutineStates], ready : Seq(Routines),
    running : Routines \cup {Nobody}, parked : Nat, external : Int,
    fatal : {"none", "deadlock", "panic"}, deadlocked : BOOLEAN ]

Bare(x) == [x EXCEPT !.external = 0]

Lock(x) == x \in LockType /\ Sound(Bare(x))

\* Halfway through a critical section.
MidLock(x) == x \in LockType /\ Mid(Bare(x))

\* From lock x to lock y the routines of W are woken and no others, but all of
\* them once the program has failed; those of N act by themselves.
Wakes(x, y, W, N) ==
  /\ \A r \in Routines \ N :
       /\ y.state[r] = "parked" => x.state[r] = "parked"
       /\ x.state[r] = "parked" /\ y.state[r] # "parked" => r \in W \/ y.fatal # "none"
  /\ x.fatal # "none" => y.fatal # "none"

\* From lock x to lock y nobody but N moves except towards the lock, and what is
\* in flight stays counted; a deadlock is found with nothing in flight and
\* nobody about to run.
Turns(x, y, N) ==
  /\ y.external = x.external
  /\ \A r \in Routines \ N :
       \/ y.state[r] = x.state[r]
       \/ x.state[r] \in {"parked", "ready"} /\ y.state[r] \in {"ready", "running"}
  /\ ~x.deadlocked /\ y.deadlocked =>
       x.external <= 0 /\ \A r \in Routines \ N : x.state[r] \notin {"ready", "running"}

-----------------------------------------------------------------------------
(* The bare lock                                                            *)

LEMMA BareType ==
  ASSUME NEW x \in LockType
  PROVE  /\ Bare(x) \in SchedulerType
         /\ Bare(x).state = x.state /\ Bare(x).ready = x.ready /\ Bare(x).running = x.running
         /\ Bare(x).parked = x.parked /\ Bare(x).fatal = x.fatal /\ Bare(x).deadlocked = x.deadlocked
         /\ Bare(x).external = 0
BY DEF LockType, Bare, SchedulerType

\* What is typed without its timers is typed with them.
LEMMA BareTyped ==
  ASSUME NEW x, NEW y \in LockType, NEW z \in SchedulerType,
         x = [z EXCEPT !.external = y.external]
  PROVE  x \in LockType
BY DEF LockType, SchedulerType

LEMMA BareDispatch ==
  ASSUME NEW x \in LockType
  PROVE  /\ Bare(DispatchLocked(x)) = DispatchLocked(Bare(x))
         /\ DispatchLocked(x) = [DispatchLocked(Bare(x)) EXCEPT !.external = x.external]
<1>1. CASE x.running # Nobody \/ x.ready = << >>
  <2>1. DispatchLocked(x) = x /\ DispatchLocked(Bare(x)) = Bare(x)
    BY <1>1, BareType DEF DispatchLocked
  <2> QED
    BY <2>1 DEF Bare, LockType
<1>2. CASE ~ (x.running # Nobody \/ x.ready = << >>)
  <2> DEFINE h == Head(x.ready)
             q == Tail(x.ready)
             st == [x.state EXCEPT ![h] = "running"]
  <2>1. DispatchLocked(x) = [x EXCEPT !.running = h, !.ready = q, !.state = st]
    BY <1>2 DEF DispatchLocked
  <2>2. DispatchLocked(Bare(x)) = [Bare(x) EXCEPT !.running = h, !.ready = q, !.state = st]
    BY <1>2, BareType DEF DispatchLocked
  <2> HIDE DEF h, q, st
  <2>3. QED BY <2>1, <2>2 DEF Bare, LockType
<1>3. QED BY <1>1, <1>2

LEMMA BareWoken ==
  ASSUME NEW x \in LockType, NEW q
  PROVE  /\ Bare(Woken(x, q)) = Woken(Bare(x), q)
         /\ Woken(x, q) = [Woken(Bare(x), q) EXCEPT !.external = x.external]
<1> DEFINE st == [r \in Routines |-> IF \E i \in DOMAIN q : q[i] = r THEN "ready" ELSE x.state[r]]
           rd == x.ready \o q
           n == x.parked - Len(q)
<1>1. Woken(x, q) = [x EXCEPT !.state = st, !.ready = rd, !.parked = n]
  BY DEF Woken
<1>2. Woken(Bare(x), q) = [Bare(x) EXCEPT !.state = st, !.ready = rd, !.parked = n]
  BY BareType DEF Woken
<1> HIDE DEF st, rd, n
<1> QED
  BY <1>1, <1>2 DEF Bare, LockType

LEMMA BareKeeps ==
  ASSUME NEW x \in LockType, NEW y, NEW z \in SchedulerType,
         y = [z EXCEPT !.external = x.external]
  PROVE  /\ y \in LockType
         /\ y.state = z.state /\ y.running = z.running /\ y.fatal = z.fatal
BY DEF LockType, SchedulerType

-----------------------------------------------------------------------------
(* Who is woken                                                             *)

LEMMA WakesTrans ==
  ASSUME NEW x, NEW y, NEW z, NEW V, NEW W, NEW N,
         Wakes(x, y, V, N), Wakes(y, z, W, N)
  PROVE  Wakes(x, z, V \cup W, N)
BY DEF Wakes

\* The head of the ready queue was not parked.
LEMMA DispatchWakes ==
  ASSUME NEW x, Mid(x)
  PROVE  Wakes(x, DispatchLocked(x), {}, {})
<1>1. x \in SchedulerType
  BY DEF Mid
<1>2. CASE x.running # Nobody \/ x.ready = << >>
  BY <1>2 DEF DispatchLocked, Wakes
<1>3. CASE x.running = Nobody /\ x.ready # << >>
  <2> DEFINE h == Head(x.ready)
             t == [x EXCEPT !.running = h, !.ready = Tail(x.ready), !.state[h] = "running"]
  <2>1. DispatchLocked(x) = t
    BY <1>3 DEF DispatchLocked
  <2>2. h \in Routines /\ h = x.ready[1] /\ Len(x.ready) \in Nat \ {0}
    BY <1>1, <1>3, HeadTailProperties, EmptySeq DEF SchedulerType
  <2>3. x.state[h] = "ready"
    BY <2>2 DEF Mid
  <2>4. /\ \A r \in Routines : t.state[r] = IF r = h THEN "running" ELSE x.state[r]
        /\ t.fatal = x.fatal
    BY <1>1 DEF SchedulerType
  <2> HIDE DEF h, t
  <2> QED
    BY <2>1, <2>3, <2>4 DEF Wakes
<1> QED
  BY <1>2, <1>3

LEMMA WakeLockedWakes ==
  ASSUME NEW x, Mid(x), NEW q, Wakeable(x, q)
  PROVE  Wakes(x, WakeLocked(x, q), Members(q), {})
<1> DEFINE w == Woken(x, q)
<1>1. WakeLocked(x, q) = DispatchLocked(w)
  BY DEF WakeLocked, Woken
<1>2. x \in SchedulerType /\ Mid(w)
  BY WokenMid DEF Mid
<1>3. /\ \A r \in Routines : w.state[r] = IF \E i \in DOMAIN q : q[i] = r THEN "ready"
                                                                    ELSE x.state[r]
      /\ w.fatal = x.fatal
  BY <1>2 DEF Woken, SchedulerType
<1> HIDE DEF w
<1>4. Wakes(x, w, Members(q), {})
  BY <1>3 DEF Wakes, Members
<1>5. Wakes(w, DispatchLocked(w), {}, {})
  BY <1>2, DispatchWakes
<1> QED
  BY <1>1, <1>4, <1>5 DEF Wakes

\* Of a waiter list those are woken that are parked.
LEMMA ParkedAmongMembers ==
  ASSUME NEW x, NEW q \in Seq(Routines)
  PROVE  Members(ParkedAmong(x, q)) \subseteq Members(q)
<1> DEFINE F == FirstParkedEntries(x, q)
<1>1. F \in SUBSET (1 .. Len(q)) /\ DOMAIN q = 1 .. Len(q)
  BY LenProperties DEF FirstParkedEntries
<1> HIDE DEF F
<1>2. \E place \in [1 .. Len(Entries(q, F)) -> F] :
         \A k \in 1 .. Len(Entries(q, F)) : Entries(q, F)[k] = q[place[k]]
  BY <1>1, EntriesOfSeq, SMTT(60)
<1>3. DOMAIN Entries(q, F) = 1 .. Len(Entries(q, F))
  BY <1>1, EntriesOfSeq, LenProperties
<1> QED
  BY <1>1, <1>2, <1>3 DEF ParkedAmong, Members, F

\* Whom a check of the deadlock wakes, it has failed.
LEMMA CheckDeadlockWakes ==
  ASSUME NEW x, Sound(x)
  PROVE  Wakes(x, CheckDeadlockLocked(x), {}, {})
<1> DEFINE t == [x EXCEPT !.deadlocked = TRUE,
                          !.fatal = IF x.fatal = "none" THEN "deadlock" ELSE x.fatal]
<1>1. x \in SchedulerType
  BY DEF Sound, Mid
<1>2. CheckDeadlockLocked(x) = x \/ CheckDeadlockLocked(x) = AbortAllLocked(t)
  BY <1>1 DEF CheckDeadlockLocked, SchedulerType
<1>3. CASE CheckDeadlockLocked(x) = AbortAllLocked(t)
  <2>1. OnlyMarks(x, t) /\ t.fatal # "none"
    BY <1>1 DEF OnlyMarks, SchedulerType
  <2> HIDE DEF t
  <2>2. Mid(t)
    BY <2>1, MarksKeep DEF Sound
  <2>3. AbortAllLocked(t).fatal # "none"
    BY <2>1, <2>2, AbortAllStep
  <2> QED
    BY <1>3, <2>2, <2>3, AbortAllStep DEF Wakes
<1>4. CASE CheckDeadlockLocked(x) = x
  BY <1>4 DEF Wakes
<1> QED
  BY <1>2, <1>3, <1>4

LEMMA DispatchTyped ==
  ASSUME NEW x, Mid(x)
  PROVE  DispatchLocked(x) \in SchedulerType
<1>1. x \in SchedulerType
  BY DEF Mid
<1>2. CASE x.running = Nobody /\ x.ready # << >>
  <2>1. Head(x.ready) \in Routines /\ Tail(x.ready) \in Seq(Routines)
    BY <1>1, <1>2, HeadTailProperties DEF SchedulerType
  <2> QED
    BY <1>1, <1>2, <2>1 DEF DispatchLocked, SchedulerType, RoutineStates
<1>3. CASE ~(x.running = Nobody /\ x.ready # << >>)
  BY <1>1, <1>3 DEF DispatchLocked
<1> QED
  BY <1>2, <1>3

\* Every parked routine of a waiter list is among those woken.
LEMMA ParkedAmongAll ==
  ASSUME NEW x, NEW q \in Seq(Routines), NEW r \in Members(q), x.state[r] = "parked"
  PROVE  r \in Members(ParkedAmong(x, q))
<1> DEFINE F == FirstParkedEntries(x, q)
           p == ParkedAmong(x, q)
           J == {j \in 1 .. Len(q) : q[j] = r}
<1>1. DOMAIN q = 1 .. Len(q) /\ Len(q) \in Nat /\ J # {}
  BY LenProperties DEF Members
<1>2. IsFiniteSet(1 .. Len(q)) /\ 1 .. Len(q) \subseteq Int
  BY PlacesFinite
<1>3. J \in SUBSET Int /\ IsFiniteSet(J)
  BY <1>2, FS_Subset
<1>4. PICK f \in J : \A j \in J : f <= j
  BY <1>1, <1>3, EndsExist
<1>5. f \in F
  BY <1>1, <1>4 DEF FirstParkedEntries
<1>6. F \in SUBSET Int /\ IsFiniteSet(F)
  BY <1>1, <1>2, FS_Subset DEF FirstParkedEntries
<1>7. PICK k \in 1 .. Cardinality(F) : Ascending(F)[k] = f
  BY <1>5, <1>6, AscendingCovers
<1>8. /\ Ascending(F) \in Seq(F) /\ Len(Ascending(F)) = Cardinality(F)
      /\ DOMAIN Ascending(F) = 1 .. Cardinality(F)
  BY <1>6, AscendingEnumerates, LenProperties
<1>9. p = [n \in 1 .. Cardinality(F) |-> q[Ascending(F)[n]]]
  BY <1>8 DEF ParkedAmong, Entries
<1> QED
  BY <1>4, <1>7, <1>9 DEF Members

-----------------------------------------------------------------------------
(* Whose turn it is                                                         *)

LEMMA TurnsTrans ==
  ASSUME NEW x, NEW y, NEW z, NEW N, NEW M \in SUBSET N, NEW L \in SUBSET N,
         Turns(x, y, M), Turns(y, z, L)
  PROVE  Turns(x, z, N)
<1>1. z.external = x.external
  BY DEF Turns
<1>2. ASSUME NEW r \in Routines \ N
      PROVE  /\ \/ z.state[r] = x.state[r]
                \/ x.state[r] \in {"parked", "ready"} /\ z.state[r] \in {"ready", "running"}
             /\ x.state[r] \in {"ready", "running"} => y.state[r] \in {"ready", "running"}
  <2>1. /\ \/ y.state[r] = x.state[r]
           \/ x.state[r] \in {"parked", "ready"} /\ y.state[r] \in {"ready", "running"}
        /\ \/ z.state[r] = y.state[r]
           \/ y.state[r] \in {"parked", "ready"} /\ z.state[r] \in {"ready", "running"}
    BY DEF Turns
  <2> QED
    BY <2>1
<1>3. ASSUME ~x.deadlocked, z.deadlocked
      PROVE  x.external <= 0 /\ \A r \in Routines \ N : x.state[r] \notin {"ready", "running"}
  <2>1. CASE y.deadlocked
    BY <1>3, <2>1 DEF Turns
  <2>2. CASE ~y.deadlocked
    <3>1. x.external <= 0 /\ \A r \in Routines \ N : y.state[r] \notin {"ready", "running"}
      BY <1>3, <2>2 DEF Turns
    <3> QED
      BY <1>2, <3>1
  <2> QED
    BY <2>1, <2>2
<1> QED
  BY <1>1, <1>2, <1>3 DEF Turns

\* What the bare lock does without a deadlock, the lock does.
LEMMA BareTurns ==
  ASSUME NEW x \in LockType, NEW y, NEW z \in SchedulerType,
         y = [z EXCEPT !.external = x.external],
         LockStep(Bare(x), z, {}), z.deadlocked = x.deadlocked
  PROVE  Turns(x, y, {}) /\ y.deadlocked = x.deadlocked
<1>1. y.state = z.state /\ y.external = x.external /\ y.deadlocked = x.deadlocked
  BY DEF LockType, SchedulerType
<1> QED
  BY <1>1, BareType DEF Turns, LockStep

LEMMA DispatchTurns ==
  ASSUME NEW x, MidLock(x)
  PROVE  Turns(x, DispatchLocked(x), {}) /\ DispatchLocked(x).deadlocked = x.deadlocked
<1> DEFINE z == DispatchLocked(Bare(x))
<1>1. x \in LockType /\ Mid(Bare(x)) /\ Bare(x).deadlocked = x.deadlocked
  BY BareType DEF MidLock
<1>2. DispatchLocked(x) = [z EXCEPT !.external = x.external]
  BY <1>1, BareDispatch
<1>3. z \in SchedulerType /\ LockStep(Bare(x), z, {}) /\ z.deadlocked = x.deadlocked
  BY <1>1, DispatchTyped, DispatchStep
<1> HIDE DEF z
<1> QED
  BY <1>1, <1>2, <1>3, BareTurns

LEMMA BareWake ==
  ASSUME NEW x, MidLock(x), NEW q, Wakeable(x, q)
  PROVE  LET y == WakeLocked(x, q)
             z == WakeLocked(Bare(x), q)
         IN  /\ Bare(y) = z /\ y = [z EXCEPT !.external = x.external]
             /\ z \in SchedulerType
<1> DEFINE b == Bare(x)
           y == WakeLocked(x, q)
           z == WakeLocked(b, q)
           v == Woken(x, q)
           w == Woken(b, q)
<1>1. x \in LockType /\ Mid(b) /\ b.state = x.state /\ b \in SchedulerType
  BY BareType DEF MidLock
<1>2. Wakeable(b, q)
  BY <1>1 DEF Wakeable
<1>3. Bare(v) = w /\ v = [w EXCEPT !.external = x.external]
  BY <1>1, BareWoken
<1>4. y = DispatchLocked(v) /\ z = DispatchLocked(w)
  BY DEF WakeLocked, Woken
<1>5. Mid(w) /\ w \in SchedulerType
  BY <1>1, <1>2, WokenMid DEF Mid
<1> HIDE DEF v, w, y, z, b
<1>6. v \in LockType /\ v.external = x.external
  BY <1>1, <1>3, <1>5 DEF LockType, SchedulerType
<1>7. DispatchLocked(w) \in SchedulerType
  BY <1>5, DispatchTyped
<1>8. Bare(y) = z /\ y = [z EXCEPT !.external = x.external] /\ z \in SchedulerType
  BY <1>3, <1>4, <1>6, <1>7, BareDispatch
<1> QED
  BY <1>8 DEF y, z, b

LEMMA WakeLockedTurns ==
  ASSUME NEW x, MidLock(x), NEW q, Wakeable(x, q)
  PROVE  Turns(x, WakeLocked(x, q), {}) /\ WakeLocked(x, q).deadlocked = x.deadlocked
<1> DEFINE z == WakeLocked(Bare(x), q)
           y == WakeLocked(x, q)
<1>1. /\ x \in LockType /\ Mid(Bare(x)) /\ Bare(x).deadlocked = x.deadlocked
      /\ Wakeable(Bare(x), q)
  BY BareType DEF MidLock, Wakeable
<1>2. y = [z EXCEPT !.external = x.external] /\ z \in SchedulerType
  BY BareWake
<1>3. LockStep(Bare(x), z, {}) /\ z.deadlocked = x.deadlocked
  BY <1>1, WakeLockedStep
<1> HIDE DEF y, z
<1>4. Turns(x, y, {}) /\ y.deadlocked = x.deadlocked
  BY <1>1, <1>2, <1>3, BareTurns
<1> QED
  BY <1>4 DEF y

LEMMA WakeWaitersTurns ==
  ASSUME NEW x, MidLock(x), NEW q \in Seq(Routines)
  PROVE  Turns(x, WakeWaiters(x, q), {}) /\ WakeWaiters(x, q).deadlocked = x.deadlocked
<1>1. Wakeable(x, ParkedAmong(x, q))
  BY ParkedAmongWakeable
<1> QED
  BY <1>1, WakeLockedTurns DEF WakeWaiters

LEMMA AbortAllTurns ==
  ASSUME NEW x, MidLock(x)
  PROVE  Turns(x, AbortAllLocked(x), {}) /\ AbortAllLocked(x).deadlocked = x.deadlocked
<1>1. /\ x \in LockType /\ Mid(Bare(x)) /\ Bare(x).state = x.state
      /\ Bare(x) \in SchedulerType
  BY BareType DEF MidLock
<1>2. InState(Bare(x), "parked") = InState(x, "parked")
  BY <1>1 DEF InState
<1>3. Wakeable(Bare(x), ParkedLocked(Bare(x)))
  BY <1>1, ParkedLockedWakeable
<1>4. Wakeable(x, ParkedLocked(x))
  BY <1>1, <1>2, <1>3 DEF ParkedLocked, Wakeable
<1> QED
  BY <1>4, WakeLockedTurns DEF AbortAllLocked

-----------------------------------------------------------------------------
(* The lock with what is in flight                                          *)

\* From x to y the routines of W are woken, and the lock stays exact.
Woke(x, y, W) ==
  /\ Wakes(x, y, W, {})
  /\ \A r \in Routines \cap W : y.state[r] # "parked"
  /\ y.fatal = x.fatal
  /\ Lock(x) => Lock(y)
  /\ x.running # Nobody =>
       /\ MidLock(y) /\ y.running = x.running
       /\ \A r \in Routines : x.state[r] # "parked" => y.state[r] = x.state[r]

\* The same of the bare lock z of x, and of what it becomes.
LEMMA WokeBare ==
  ASSUME NEW x \in LockType, NEW y, NEW z, NEW W,
         Bare(y) = z, y = [z EXCEPT !.external = x.external],
         z \in SchedulerType,
         Wakes(Bare(x), z, W, {}),
         \A r \in Routines \cap W : z.state[r] # "parked",
         z.fatal = x.fatal,
         Sound(Bare(x)) => Sound(z),
         x.running # Nobody =>
           /\ Mid(z) /\ z.running = x.running
           /\ \A r \in Routines : x.state[r] # "parked" => z.state[r] = x.state[r]
  PROVE  Woke(x, y, W)
<1>1. y \in LockType /\ y.state = z.state /\ y.running = z.running /\ y.fatal = z.fatal
  BY BareKeeps
<1>2. Wakes(x, y, W, {})
  BY <1>1, BareType DEF Wakes
<1> QED
  BY <1>1, <1>2 DEF Woke, Lock, MidLock

LEMMA WakeLockedLock ==
  ASSUME NEW x, MidLock(x), NEW q, Wakeable(x, q)
  PROVE  Woke(x, WakeLocked(x, q), Members(q))
<1> DEFINE b == Bare(x)
           z == WakeLocked(b, q)
           y == WakeLocked(x, q)
<1>1. /\ x \in LockType /\ Mid(b) /\ b.state = x.state /\ b.running = x.running
      /\ b.fatal = x.fatal /\ b \in SchedulerType
  BY BareType DEF MidLock
<1>2. Wakeable(b, q) /\ DOMAIN q = 1 .. Len(q)
  BY <1>1, LenProperties DEF Wakeable
<1>3. Bare(y) = z /\ y = [z EXCEPT !.external = x.external] /\ z \in SchedulerType
  BY BareWake
<1> HIDE DEF b
<1>4. Wakes(b, z, Members(q), {})
  BY <1>1, <1>2, WakeLockedWakes
<1>5. /\ \A i \in 1 .. Len(q) : z.state[q[i]] # "parked"
      /\ z.fatal = x.fatal
  BY <1>1, <1>2, WakeLockedStep
<1>6. /\ b.running # Nobody =>
              /\ Mid(z)
              /\ \A r \in Routines : b.state[r] # "parked" => z.state[r] = b.state[r]
              /\ z.running = b.running
      /\ Sound(b) => Sound(z)
  BY <1>1, <1>2, WakeLockedSound
<1> HIDE DEF z, y
<1>7. \A r \in Routines \cap Members(q) : z.state[r] # "parked"
  BY <1>2, <1>5 DEF Members
<1> QED
  BY <1>1, <1>3, <1>4, <1>5, <1>6, <1>7, WokeBare DEF b, y

LEMMA WakeWaitersLock ==
  ASSUME NEW x, MidLock(x), NEW q \in Seq(Routines)
  PROVE  Woke(x, WakeWaiters(x, q), Members(q))
<1> DEFINE p == ParkedAmong(x, q)
           y == WakeWaiters(x, q)
<1>1. y = WakeLocked(x, p) /\ Wakeable(x, p) /\ Members(p) \subseteq Members(q)
  BY ParkedAmongWakeable, ParkedAmongMembers DEF WakeWaiters
<1> HIDE DEF p
<1>2. Woke(x, y, Members(p))
  BY <1>1, WakeLockedLock
<1>3. \A r \in Routines \cap Members(q) : y.state[r] # "parked"
  <2>1. ASSUME NEW r \in Routines \cap Members(q), x.state[r] = "parked"
        PROVE  r \in Members(p)
    BY <2>1, ParkedAmongAll DEF p
  <2> QED
    BY <1>2, <2>1 DEF Woke, Wakes
<1> HIDE DEF y
<1>4. Wakes(x, y, Members(q), {})
  BY <1>1, <1>2 DEF Woke, Wakes
<1> QED
  BY <1>2, <1>3, <1>4 DEF Woke, y

LEMMA AbortAllLock ==
  ASSUME NEW x, MidLock(x)
  PROVE  Woke(x, AbortAllLocked(x), Routines)
<1> DEFINE q == ParkedLocked(x)
           y == AbortAllLocked(x)
<1>1. /\ x \in LockType /\ Mid(Bare(x)) /\ Bare(x).state = x.state
      /\ Bare(x) \in SchedulerType
  BY BareType DEF MidLock
<1>2. InState(Bare(x), "parked") = InState(x, "parked")
  BY <1>1 DEF InState
<1>3. y = WakeLocked(x, q) /\ Wakeable(x, q)
  <2>1. Wakeable(Bare(x), ParkedLocked(Bare(x)))
    BY <1>1, ParkedLockedWakeable
  <2> QED
    BY <1>1, <1>2, <2>1 DEF AbortAllLocked, ParkedLocked, Wakeable
<1>4. Woke(x, y, Members(q))
  BY <1>3, WakeLockedLock
<1>5. \A r \in Routines : y.state[r] # "parked"
  <2> DEFINE P == InState(x, "parked")
  <2>1. P \in SUBSET Int /\ IsFiniteSet(P)
    <3>1. P \in SUBSET Routines /\ Routines \subseteq Int
      BY RoutinesFinite DEF InState
    <3> QED
      BY <3>1, RoutinesFinite, FS_Subset
  <2>2. Len(q) = Cardinality(P) /\ \A r \in P : \E i \in 1 .. Cardinality(P) : q[i] = r
    BY <2>1, AscendingEnumerates, AscendingCovers DEF ParkedLocked
  <2>3. DOMAIN q = 1 .. Len(q)
    BY <1>3, LenProperties DEF Wakeable
  <2>4. P \subseteq Members(q)
    BY <2>2, <2>3 DEF Members
  <2> QED
    BY <1>4, <2>4 DEF Woke, Wakes, InState
<1> HIDE DEF y
<1>6. Wakes(x, y, Routines, {})
  BY <1>4 DEF Woke, Wakes
<1> QED
  BY <1>4, <1>5, <1>6 DEF Woke, y

\* Whom the check for a deadlock wakes, it has failed.
LEMMA CheckDeadlockLock ==
  ASSUME NEW x, Lock(x)
  PROVE  /\ Lock(CheckDeadlockLocked(x)) /\ Wakes(x, CheckDeadlockLocked(x), {}, {})
         /\ Turns(x, CheckDeadlockLocked(x), {})
<1> DEFINE f == IF x.fatal = "none" THEN "deadlock" ELSE x.fatal
           t == [x EXCEPT !.deadlocked = TRUE, !.fatal = f]
           b == Bare(x)
<1>1. /\ x \in LockType /\ b \in SchedulerType /\ Sound(b) /\ f # "none"
      /\ b = [x EXCEPT !.external = 0]
  BY BareType DEF Lock, Bare
<1>2. CheckDeadlockLocked(x) = x \/ CheckDeadlockLocked(x) = AbortAllLocked(t)
  BY <1>1 DEF CheckDeadlockLocked, LockType
<1>3. CASE CheckDeadlockLocked(x) = AbortAllLocked(t)
  <2>1. f \in {"deadlock", "panic"}
    BY <1>1 DEF LockType
  <2> HIDE DEF f, b
  <2>2. t \in LockType /\ t.fatal = f
    BY <1>1, <2>1 DEF LockType
  <2>3. OnlyMarks(b, Bare(t))
    BY <1>1, <2>1 DEF OnlyMarks, Bare, LockType, SchedulerType
  <2>4. Lock(t) /\ MidLock(t)
    <3> DEFINE u == Bare(t)
    <3>1. Mid(b)
      BY <1>1 DEF Sound
    <3>2. OnlyMarks(b, u)
      BY <2>3
    <3> HIDE DEF u, t
    <3>3. Mid(u) /\ Sound(u)
      BY <1>1, <3>1, <3>2, MarksKeep
    <3> QED
      BY <2>2, <3>3 DEF Lock, MidLock, u
  <2> HIDE DEF t
  <2>5. Woke(t, AbortAllLocked(t), Routines) /\ Turns(t, AbortAllLocked(t), {})
    BY <2>4, AbortAllLock, AbortAllTurns
  <2>6. CASE CheckDeadlockLocked(x) = x
    BY <2>6 DEF Wakes, Turns
  <2>7. CASE CheckDeadlockLocked(x) # x
    <3>1. /\ x.running = Nobody /\ x.ready = << >> /\ ~(x.external > 0) /\ x.external \in Int
          /\ \A r \in Routines : x.state[r] \notin {"ready", "running"}
      <4>1. x.running = Nobody /\ x.ready = << >> /\ ~(x.external > 0)
        BY <2>7 DEF CheckDeadlockLocked
      <4>2. Mid(b) /\ b.running = Nobody /\ b.ready = << >> /\ b.state = x.state
        BY <1>1, <4>1, BareType DEF Sound
      <4> QED
        BY <1>1, <4>1, <4>2, RoutinesFinite DEF Mid, LockType
    <3>2. t.external = x.external /\ t.state = x.state
      BY <1>1 DEF t, LockType
    <3>3. Turns(x, AbortAllLocked(t), {})
      BY <2>5, <3>1, <3>2 DEF Turns
    <3> QED
      BY <1>3, <2>1, <2>2, <2>4, <2>5, <3>3 DEF Woke, Wakes
  <2> QED
    BY <2>6, <2>7
<1>4. CASE CheckDeadlockLocked(x) = x
  BY <1>4 DEF Wakes, Turns
<1> QED
  BY <1>2, <1>3, <1>4

LEMMA ReleaseLock ==
  ASSUME NEW x, MidLock(x), \A r \in Routines : x.state[r] # "running"
  PROVE  /\ Lock(ReleaseLocked(x)) /\ Wakes(x, ReleaseLocked(x), {}, {})
         /\ Turns(x, ReleaseLocked(x), {})
<1> DEFINE t == [x EXCEPT !.running = Nobody]
           d == DispatchLocked(t)
           b == Bare(t)
<1>1. x \in LockType /\ Bare(x) \in SchedulerType /\ Mid(Bare(x))
  BY BareType DEF MidLock
<1>2. /\ t \in LockType /\ t.running = Nobody /\ t.state = x.state /\ t.ready = x.ready
      /\ t.parked = x.parked /\ t.fatal = x.fatal
      /\ t.external = x.external /\ t.deadlocked = x.deadlocked
  BY <1>1 DEF LockType
<1> HIDE DEF t
<1>3. /\ b \in SchedulerType /\ b.running = Nobody
      /\ b.state = x.state /\ b.ready = x.ready /\ b.parked = x.parked /\ b.external = 0
      /\ b.fatal = x.fatal
      /\ Bare(x).state = x.state /\ Bare(x).ready = x.ready /\ Bare(x).parked = x.parked
      /\ Bare(x).external = 0
  BY <1>1, <1>2, BareType
<1>4. Mid(b)
  <2>1. \A z : InState(b, z) = InState(Bare(x), z)
    BY <1>3 DEF InState
  <2> QED
    BY <1>1, <1>3, <2>1 DEF Mid
<1>5. Bare(d) = DispatchLocked(b) /\ d = [DispatchLocked(b) EXCEPT !.external = t.external]
  BY <1>2, BareDispatch
<1> HIDE DEF b, d
<1>6. Sound(DispatchLocked(b)) /\ DispatchLocked(b) \in SchedulerType
  BY <1>3, <1>4, DispatchSound, DispatchTyped
<1>7. Wakes(b, DispatchLocked(b), {}, {})
  BY <1>4, DispatchWakes
<1>8. d \in LockType /\ d.state = DispatchLocked(b).state /\ d.fatal = DispatchLocked(b).fatal
  BY <1>2, <1>5, <1>6, BareKeeps
<1>9. Lock(d) /\ Wakes(x, d, {}, {})
  BY <1>3, <1>5, <1>6, <1>7, <1>8 DEF Lock, Wakes
<1>10. /\ Lock(CheckDeadlockLocked(d)) /\ Wakes(d, CheckDeadlockLocked(d), {}, {})
       /\ Turns(d, CheckDeadlockLocked(d), {})
  BY <1>9, CheckDeadlockLock
<1>11. ReleaseLocked(x) = CheckDeadlockLocked(d)
  BY DEF ReleaseLocked, d, t
<1>12. Turns(x, ReleaseLocked(x), {})
  <2>1. MidLock(t)
    BY <1>2, <1>4 DEF MidLock, b
  <2>2. Turns(t, d, {})
    BY <2>1, DispatchTurns DEF d
  <2>3. Turns(x, d, {})
    BY <1>2, <2>2 DEF Turns
  <2> QED
    BY <1>10, <1>11, <2>3, TurnsTrans
<1> QED
  BY <1>9, <1>10, <1>11, <1>12, WakesTrans DEF Wakes

\* The holder r leaves for a state in which it does not count as running.
LeavesBare(x, y, r) ==
  /\ y \in LockType /\ Mid(Bare(y)) /\ y.fatal = x.fatal
  /\ y.external = x.external /\ y.deadlocked = x.deadlocked
  /\ \A z \in Routines \ {r} : y.state[z] = x.state[z]
  /\ \A z \in Routines : y.state[z] # "running"

LEMMA LeavingLock ==
  ASSUME NEW x, NEW y, NEW r \in Routines, LeavesBare(x, y, r)
  PROVE  /\ Lock(ReleaseLocked(y)) /\ Wakes(x, ReleaseLocked(y), {}, {r})
         /\ Turns(x, ReleaseLocked(y), {r})
<1>1. /\ Lock(ReleaseLocked(y)) /\ Wakes(y, ReleaseLocked(y), {}, {})
      /\ Turns(y, ReleaseLocked(y), {})
  BY ReleaseLock DEF LeavesBare, MidLock
<1>2. Turns(x, ReleaseLocked(y), {r})
  BY <1>1 DEF LeavesBare, Turns
<1> QED
  BY <1>1, <1>2 DEF LeavesBare, Wakes

LEMMA ParkLock ==
  ASSUME NEW x, Lock(x), NEW r \in Routines, x.running = r
  PROVE  /\ Lock(ParkLocked(x, r)) /\ Wakes(x, ParkLocked(x, r), {}, {r})
         /\ Turns(x, ParkLocked(x, r), {r})
         /\ ParkLocked(x, r).state[r] = "parked" \/ ParkLocked(x, r).fatal # "none"
         /\ ParkLocked(x, r).state[r] \in {"parked", "ready", "running"}
<1> DEFINE b == Bare(x)
           y == Parking(x, r)
           z == Parking(b, r)
           st == [x.state EXCEPT ![r] = "parked"]
           n == x.parked + 1
<1>1. /\ x \in LockType /\ b \in SchedulerType /\ Sound(b) /\ b.state = x.state
      /\ b.running = r /\ b.parked = x.parked /\ b.fatal = x.fatal
  BY BareType DEF Lock
<1>2. Moves(b, z, r, "parked") /\ \A q \in Routines : z.state[q] # "running"
  BY <1>1, ParkingMid
<1>3. y = [x EXCEPT !.state = st, !.parked = n] /\ z = [b EXCEPT !.state = st, !.parked = n]
  BY <1>1 DEF Parking
<1>4. z \in SchedulerType
  BY <1>2 DEF Moves, Mid
<1>5. Bare(y) = z /\ y = [z EXCEPT !.external = x.external]
  <2> HIDE DEF st, n, y, z
  <2> QED
    BY <1>1, <1>3 DEF Bare, LockType
<1>6. /\ y \in LockType /\ y.state = z.state /\ y.fatal = z.fatal
      /\ y.external = x.external /\ y.deadlocked = x.deadlocked
  <2>1. y.external = x.external /\ y.deadlocked = x.deadlocked
    BY <1>1, <1>3 DEF LockType
  <2> HIDE DEF y, z
  <2> QED
    BY <1>1, <1>4, <1>5, <2>1, BareKeeps
<1>7. LeavesBare(x, y, r)
  <2> HIDE DEF y, z, b
  <2>1. \A q \in Routines \ {r} : z.state[q] = b.state[q]
    BY <1>1, <1>2 DEF Moves, SchedulerType
  <2> QED
    BY <1>1, <1>2, <1>5, <1>6, <2>1 DEF LeavesBare, Moves
<1>8. ParkLocked(x, r) = ReleaseLocked(y)
  BY DEF ParkLocked, Parking
<1>9. y.state[r] = "parked"
  <2> HIDE DEF y, z, b
  <2> QED
    BY <1>1, <1>2, <1>6 DEF Moves, SchedulerType
<1> HIDE DEF y
<1>10. Wakes(y, ReleaseLocked(y), {}, {}) /\ Turns(y, ReleaseLocked(y), {})
  BY <1>7, ReleaseLock DEF LeavesBare, MidLock
<1>11. ReleaseLocked(y).state[r] \in {"parked", "ready", "running"}
  BY <1>9, <1>10 DEF Turns
<1> QED
  BY <1>7, <1>8, <1>9, <1>10, <1>11, LeavingLock DEF Wakes

LEMMA GiveWayLock ==
  ASSUME NEW x, Lock(x), NEW r \in Routines, x.running = r
  PROVE  /\ Lock(GiveWayLocked(x, r)) /\ Wakes(x, GiveWayLocked(x, r), {}, {r})
         /\ Turns(x, GiveWayLocked(x, r), {r})
         /\ GiveWayLocked(x, r).state[r] \in {"ready", "running"}
<1> DEFINE b == Bare(x)
           y == Queueing(x, r)
           z == Queueing(b, r)
           st == [x.state EXCEPT ![r] = "ready"]
           q == Append(x.ready, r)
<1>1. /\ x \in LockType /\ b \in SchedulerType /\ Sound(b) /\ b.state = x.state
      /\ b.running = r /\ b.ready = x.ready /\ b.fatal = x.fatal
  BY BareType DEF Lock
<1>2. Moves(b, z, r, "ready") /\ \A w \in Routines : z.state[w] # "running"
  BY <1>1, YieldingMid
<1>3. y = [x EXCEPT !.state = st, !.ready = q] /\ z = [b EXCEPT !.state = st, !.ready = q]
  BY <1>1 DEF Queueing
<1>4. z \in SchedulerType
  BY <1>2 DEF Moves, Mid
<1>5. Bare(y) = z /\ y = [z EXCEPT !.external = x.external]
  <2> HIDE DEF st, q, y, z
  <2> QED
    BY <1>1, <1>3 DEF Bare, LockType
<1>6. /\ y \in LockType /\ y.state = z.state /\ y.fatal = z.fatal
      /\ y.external = x.external /\ y.deadlocked = x.deadlocked
  <2>1. y.external = x.external /\ y.deadlocked = x.deadlocked
    BY <1>1, <1>3 DEF LockType
  <2> HIDE DEF y, z
  <2> QED
    BY <1>1, <1>4, <1>5, <2>1, BareKeeps
<1>7. LeavesBare(x, y, r)
  <2> HIDE DEF y, z, b
  <2>1. \A w \in Routines \ {r} : z.state[w] = b.state[w]
    BY <1>1, <1>2 DEF Moves, SchedulerType
  <2> QED
    BY <1>1, <1>2, <1>5, <1>6, <2>1 DEF LeavesBare, Moves
<1>8. GiveWayLocked(x, r) = ReleaseLocked(y)
  BY DEF GiveWayLocked, Queueing
<1>9. y.state[r] = "ready"
  <2> HIDE DEF y, z, b
  <2> QED
    BY <1>1, <1>2, <1>6 DEF Moves, SchedulerType
<1> HIDE DEF y
<1>10. Turns(y, ReleaseLocked(y), {})
  BY <1>7, ReleaseLock DEF LeavesBare, MidLock
<1>11. ReleaseLocked(y).state[r] \in {"ready", "running"}
  BY <1>9, <1>10 DEF Turns
<1> QED
  BY <1>7, <1>8, <1>11, LeavingLock

\* Arming and disarming a timer only counts, and then looks for a deadlock.
LEMMA CountLock ==
  ASSUME NEW x, Lock(x), NEW n \in Int
  PROVE  LET y == [x EXCEPT !.external = n] IN Lock(y) /\ Wakes(x, y, {}, {})
<1> DEFINE y == [x EXCEPT !.external = n]
<1>1. y \in LockType /\ Bare(y) = Bare(x) /\ y.state = x.state /\ y.fatal = x.fatal
  BY DEF Lock, LockType, Bare
<1> QED
  BY <1>1 DEF Lock, Wakes

LEMMA ArmLock ==
  ASSUME NEW x, Lock(x)
  PROVE  Lock(ArmExternal(x)) /\ Wakes(x, ArmExternal(x), {}, {})
<1>1. x.external + 1 \in Int
  BY DEF Lock, LockType
<1> QED
  BY <1>1, CountLock DEF ArmExternal

LEMMA DisarmLock ==
  ASSUME NEW x, Lock(x)
  PROVE  Lock(DisarmExternal(x)) /\ Wakes(x, DisarmExternal(x), {}, {})
<1> DEFINE n == x.external - 1
           y == [x EXCEPT !.external = n]
<1>1. n \in Int /\ DisarmExternal(x) = CheckDeadlockLocked(y)
  BY DEF Lock, LockType, DisarmExternal
<1> HIDE DEF n
<1>2. Lock(y) /\ Wakes(x, y, {}, {})
  BY <1>1, CountLock
<1> HIDE DEF y
<1>3. Lock(CheckDeadlockLocked(y)) /\ Wakes(y, CheckDeadlockLocked(y), {}, {})
  BY <1>2, CheckDeadlockLock
<1> QED
  BY <1>1, <1>2, <1>3 DEF Wakes

\* The program starts with the lock in Root's hands.
LEMMA NewLock == Lock(NewScheduler(Others))
<1> DEFINE x == NewScheduler(Others)
           n == MaxRoutines - 1
           st == [r \in Routines |-> IF r = Root THEN "running"
                                     ELSE IF r \in Others THEN "ready" ELSE "unborn"]
           q == [i \in 1 .. n |-> i]
<1>1. n \in Nat /\ Routines = 0 .. n /\ Others = 1 .. n /\ Root = 0 /\ Nobody = -1
  BY MaxRoutinesAssumption DEF Routines, Others, Root, Nobody
<1>2. Cardinality(Others) = n
  BY <1>1, FS_Interval
<1>3. x = [state |-> st, ready |-> q, running |-> Root, parked |-> 0, external |-> 0,
           fatal |-> "none", deadlocked |-> FALSE]
  BY <1>2 DEF NewScheduler
<1>4. st \in [Routines -> RoutineStates] /\ q \in Seq(Routines) /\ Len(q) = n
  <2>1. st \in [Routines -> RoutineStates]
    BY DEF RoutineStates
  <2>2. q \in Seq(Routines) /\ Len(q) = n
    BY <1>1
  <2> QED
    BY <2>1, <2>2
<1>5. \A r \in Routines : st[r] = IF r = 0 THEN "running" ELSE "ready"
  BY <1>1
<1>6. \A i \in 1 .. n : q[i] = i
  OBVIOUS
<1> HIDE DEF x, st, q, n
<1>7. /\ x \in LockType /\ x \in SchedulerType /\ Bare(x) = x
      /\ x.state = st /\ x.ready = q /\ x.running = Root /\ x.parked = 0 /\ x.external = 0
  BY <1>1, <1>3, <1>4 DEF LockType, SchedulerType, Bare
<1>8. InState(x, "parked") = {} /\ InState(x, "inHost") = {}
  BY <1>5, <1>7 DEF InState
<1>9. \A r \in Routines : st[r] = "ready" <=> \E i \in 1 .. n : q[i] = r
  BY <1>1, <1>5, <1>6
<1>10. Mid(x)
  BY <1>1, <1>4, <1>5, <1>6, <1>7, <1>8, <1>9, FS_EmptySet DEF Mid
<1> QED
  BY <1>1, <1>5, <1>7, <1>10 DEF Lock, Sound, x

\* The lock on its way through the end of a routine: a after a failure has been
\* reported, d with the routine done, k with Root woken, if it waits.
EndingLock(x, r, a, d, k, W) ==
  /\ a = x \/ a = AbortAllLocked([x EXCEPT !.fatal = "panic"])
  /\ Ended(a, d, r)
  /\ (k = d /\ W = {}) \/ (k = WakeWaiters(d, << Root >>) /\ W = {Root})

LEMMA EndLock ==
  ASSUME NEW x, Lock(x), NEW r \in Routines, x.running = r,
         NEW a, NEW d, NEW k, NEW W, EndingLock(x, r, a, d, k, W)
  PROVE  /\ Lock(ReleaseLocked(k)) /\ Wakes(x, ReleaseLocked(k), W, {r})
         /\ Turns(x, ReleaseLocked(k), {r})
<1>1. /\ Lock(a) /\ a.running = r
      /\ Wakes(x, a, {}, {}) /\ Turns(x, a, {})
  <2>1. CASE a = x
    BY <2>1 DEF Wakes, Turns
  <2>2. CASE a = AbortAllLocked([x EXCEPT !.fatal = "panic"])
    <3> DEFINE t == [x EXCEPT !.fatal = "panic"]
               u == Bare(t)
               b == Bare(x)
    <3>1. /\ x \in LockType /\ Sound(b) /\ Mid(b) /\ b \in SchedulerType
          /\ b = [x EXCEPT !.external = 0]
      BY BareType DEF Lock, Sound, Bare
    <3>2. /\ t \in LockType /\ t.fatal = "panic" /\ t.running = r
          /\ t.state = x.state /\ t.external = x.external /\ t.deadlocked = x.deadlocked
      BY <3>1 DEF LockType
    <3>3. OnlyMarks(b, u)
      BY <3>1 DEF OnlyMarks, Bare, LockType, SchedulerType
    <3> HIDE DEF u, t, b
    <3>4. Mid(u) /\ Sound(u)
      BY <3>1, <3>3, MarksKeep
    <3>5. Lock(t) /\ MidLock(t)
      BY <3>2, <3>4 DEF Lock, MidLock, u
    <3>6. Woke(t, AbortAllLocked(t), Routines) /\ Turns(t, AbortAllLocked(t), {})
      BY <3>5, AbortAllLock, AbortAllTurns
    <3>7. a = AbortAllLocked(t)
      BY <2>2 DEF t
    <3>8. Turns(x, a, {})
      BY <3>2, <3>6, <3>7 DEF Turns
    <3> QED
      BY <3>2, <3>5, <3>6, <3>7, <3>8, RoutinesFinite DEF Woke, Wakes
  <2> QED
    BY <2>1, <2>2 DEF EndingLock
<1>2. d = [a EXCEPT !.state[r] = "done"] /\ a \in LockType
  BY <1>1 DEF EndingLock, Ended, Lock
<1>3. /\ d \in LockType /\ d.fatal = a.fatal /\ d.running = r
      /\ d.external = a.external /\ d.deadlocked = a.deadlocked
      /\ d.state = [a.state EXCEPT ![r] = "done"]
      /\ Bare(d) = [Bare(a) EXCEPT !.state[r] = "done"]
  <2> DEFINE st == [a.state EXCEPT ![r] = "done"]
  <2>1. st \in [Routines -> RoutineStates] /\ d = [a EXCEPT !.state = st]
    BY <1>2 DEF LockType, RoutineStates
  <2>2. [Bare(a) EXCEPT !.state[r] = "done"] = [Bare(a) EXCEPT !.state = st]
    BY <1>2, BareType
  <2>3. d.state = st
    BY <1>2, <2>1 DEF LockType
  <2> HIDE DEF st
  <2>4. /\ d \in LockType /\ d.fatal = a.fatal /\ d.running = r
        /\ d.external = a.external /\ d.deadlocked = a.deadlocked
    BY <1>1, <1>2, <2>1 DEF LockType
  <2>5. Bare(d) = [Bare(a) EXCEPT !.state = st]
    BY <1>2, <2>1 DEF Bare, LockType
  <2> QED
    BY <2>2, <2>3, <2>4, <2>5 DEF st
<1>4. MidLock(d) /\ d.state[r] = "done"
  <2> DEFINE b == Bare(a)
             e == Bare(d)
  <2>1. Sound(b) /\ b.running = r /\ Ended(b, e, r)
    BY <1>1, <1>2, <1>3, BareType DEF Lock, Ended
  <2> HIDE DEF b, e
  <2>2. Mid(e)
    BY <2>1, EndedMid
  <2> QED
    BY <1>2, <1>3, <2>2 DEF MidLock, e, LockType
<1>5. Wakes(x, d, {}, {r}) /\ Turns(x, d, {r})
  <2>1. \A z \in Routines \ {r} : d.state[z] = a.state[z]
    BY <1>2, <1>3 DEF LockType
  <2>2. Wakes(x, d, {}, {r})
    BY <1>1, <1>3, <2>1 DEF Wakes
  <2>3. Turns(x, d, {r})
    BY <1>1, <1>3, <2>1 DEF Turns
  <2> QED
    BY <2>2, <2>3
<1>6. /\ MidLock(k) /\ k.running = r /\ k.state[r] = "done" /\ Wakes(d, k, W, {})
      /\ Turns(d, k, {})
  <2>1. CASE k = d /\ W = {}
    BY <1>3, <1>4, <2>1 DEF Wakes, Turns
  <2>2. CASE k = WakeWaiters(d, << Root >>) /\ W = {Root}
    <3>1. << Root >> \in Seq(Routines) /\ Members(<< Root >>) = {Root}
      BY RoutinesFinite DEF Members
    <3>2. Woke(d, k, {Root}) /\ Turns(d, k, {})
      BY <1>4, <2>2, <3>1, WakeWaitersLock, WakeWaitersTurns
    <3> QED
      BY <1>3, <1>4, <2>2, <3>2, RoutinesFinite DEF Woke
  <2> QED
    BY <2>1, <2>2 DEF EndingLock
<1>7. \A z \in Routines : k.state[z] # "running"
  <2>1. k \in LockType /\ Mid(Bare(k)) /\ Bare(k).state = k.state /\ Bare(k).running = r
    BY <1>6, BareType DEF MidLock
  <2> QED
    BY <1>6, <2>1 DEF Mid
<1>8. /\ Lock(ReleaseLocked(k)) /\ Wakes(k, ReleaseLocked(k), {}, {})
      /\ Turns(k, ReleaseLocked(k), {})
  BY <1>6, <1>7, ReleaseLock
<1>9. Turns(d, ReleaseLocked(k), {})
  BY <1>6, <1>8, TurnsTrans
<1>10. Turns(x, ReleaseLocked(k), {r})
  BY <1>5, <1>9, TurnsTrans
<1> QED
  BY <1>5, <1>6, <1>8, <1>10 DEF Wakes

-----------------------------------------------------------------------------
(* The steps of the crew                                                    *)

\* Where a routine is between the operations of the modules that have a crew.
CrewPlaces == {"start", "user", "turn", "close", "ended"}

\* Whoever takes a step of its own wakes whom it cancels, or Root at the end of
\* its scope.
LEMMA CrewLock ==
  ASSUME Lock(s), NEW P, at \in [Routines -> P], NEW r \in Routines, CrewStep(r)
  PROVE  /\ Lock(s')
         /\ \E W : Wakes(s, s', W, {r}) /\ \A x \in W : x \in cancelled' \/ at[x] = "close"
         /\ cancelled \subseteq cancelled'
         /\ \A x \in Routines \ {r} : at'[x] = at[x]
         /\ at[r] \in CrewPlaces \ {"ended"} /\ at'[r] \in CrewPlaces
         /\ Turns(s, s', {r})
         /\ s'.state[r] \in {"done", "unborn"} => r # Root /\ at'[r] = "ended"
<1> USE DEF CrewPlaces
<1>0. s.running = r => s.state[r] = "running"
  <2>1. /\ s \in LockType /\ Mid(Bare(s)) /\ Bare(s).state = s.state
        /\ Bare(s).running = s.running
        /\ Bare(s).running = r => Bare(s).state[r] = "running"
    BY BareType, RoutinesFinite DEF Lock, Sound
  <2> QED
    BY <2>1
<1>1. Wakes(s, s, {}, {r}) /\ Root \in Routines /\ Turns(s, s, {r})
  BY RoutinesFinite DEF Wakes, Turns
<1>2. CASE Yield(r)
  <2>1. /\ s.running = r /\ at[r] = "user" /\ cancelled' = cancelled
        /\ \E place \in {"user", "turn"} : at' = [at EXCEPT ![r] = place]
        /\ s' = s \/ s' = GiveWayLocked(s, r)
    BY <1>2 DEF Yield, InUserCode, Running, Return, Enter
  <2>2. /\ Lock(s') /\ Wakes(s, s', {}, {r}) /\ Turns(s, s', {r})
        /\ s'.state[r] \in {"ready", "running"}
    BY <1>0, <1>1, <2>1, GiveWayLock
  <2> QED
    BY <2>1, <2>2
<1>3. CASE StartOrResumeYield(r)
  <2>1. /\ at[r] \in {"start", "turn"} /\ cancelled' = cancelled /\ s' = s
        /\ at' = [at EXCEPT ![r] = "user"] /\ s.running = r
    BY <1>3 DEF StartOrResumeYield, Return, Running
  <2> QED
    BY <1>0, <1>1, <2>1
<1>4. CASE \E x \in Routines : CancelRoutine(r, x)
  <2>1. PICK x \in Routines : CancelRoutine(r, x)
    BY <1>4
  <2> DEFINE q == IF s.state[x] = "parked" THEN << x >> ELSE << >>
  <2>2. /\ at[r] = "user" /\ at' = at /\ cancelled' = cancelled \cup {x}
        /\ s' = WakeLocked(s, q) /\ s.running = r
    BY <2>1 DEF CancelRoutine, InUserCode, Running
  <2>3. Wakeable(s, q) /\ Members(q) \subseteq {x}
    <3>1. /\ << x >> \in Seq(Routines) /\ Len(<< x >>) = 1 /\ << x >>[1] = x
          /\ << >> \in Seq(Routines) /\ Len(<< >>) = 0
          /\ DOMAIN << x >> = {1} /\ DOMAIN << >> = {}
      OBVIOUS
    <3> QED
      BY <3>1 DEF Wakeable, Members
  <2> HIDE DEF q
  <2>4. MidLock(s)
    BY DEF Lock, MidLock, Sound
  <2>5. Woke(s, s', Members(q)) /\ Turns(s, s', {})
    BY <2>2, <2>3, <2>4, WakeLockedLock, WakeLockedTurns
  <2>6. /\ Lock(s') /\ Wakes(s, s', {x}, {r}) /\ Turns(s, s', {r})
        /\ s'.state[r] \in {"ready", "running"}
    <3>1. Turns(s, s', {r}) /\ s'.state[r] \in {"ready", "running"}
      BY <1>0, <2>2, <2>5 DEF Turns
    <3> QED
      BY <2>3, <2>5, <3>1 DEF Woke, Wakes
  <2> QED
    BY <2>2, <2>6
<1>5. CASE EndRoutine(r)
  <2> DEFINE fails   == unwind[r] = "panic" /\ s.fatal = "none"
             a == IF fails THEN AbortAllLocked([s EXCEPT !.fatal = "panic"]) ELSE s
             d   == [a EXCEPT !.state[r] = "done"]
             waiting == at[Root] = "close" /\ \A x \in Unended : r <= x
             k == IF waiting THEN WakeWaiters(d, << Root >>) ELSE d
             W == IF waiting THEN {Root} ELSE {}
  <2>1. /\ s.running = r /\ at[r] = "user" /\ at' = [at EXCEPT ![r] = "ended"]
        /\ cancelled' = cancelled /\ s' = ReleaseLocked(k) /\ r # Root
    BY <1>5 DEF EndRoutine, Running, Enter
  <2>2. EndingLock(s, r, a, d, k, W)
    BY DEF EndingLock, Ended
  <2>3. \A x \in W : at[x] = "close"
    OBVIOUS
  <2> HIDE DEF a, d, k, W
  <2>4. Lock(s') /\ Wakes(s, s', W, {r}) /\ Turns(s, s', {r})
    BY <2>1, <2>2, EndLock
  <2> QED
    BY <2>1, <2>3, <2>4
<1>6. CASE r = Root /\ (CloseScope \/ ResumeClose)
  <2> DEFINE stops == s.fatal # "none" /\ ~(Unended \subseteq cancelled)
             woken == IF stops THEN AbortAllLocked(s) ELSE s
  <2>1. s.running = Root /\ at[Root] \in {"user", "close"} /\ \E reason : CloseLoop(reason)
    BY <1>6 DEF CloseScope, ResumeClose, Running
  <2>2. /\ cancelled' = IF stops THEN cancelled \cup Unended ELSE cancelled
        /\ s' = woken \/ s' = ParkLocked(woken, Root)
        /\ \E place \in {"user", "close"} : at' = [at EXCEPT ![Root] = place]
    BY <2>1 DEF CloseLoop
  <2>3. /\ Lock(woken) /\ Wakes(s, woken, {}, {r}) /\ woken.running = Root
        /\ Turns(s, woken, {r}) /\ woken.state[r] \in {"ready", "running"}
    <3>1. CASE stops
      <4>1. MidLock(s)
        BY DEF Lock, MidLock, Sound
      <4>2. Woke(s, AbortAllLocked(s), Routines) /\ Turns(s, AbortAllLocked(s), {})
        BY <4>1, AbortAllLock, AbortAllTurns
      <4>3. /\ Turns(s, AbortAllLocked(s), {r})
            /\ AbortAllLocked(s).state[r] \in {"ready", "running"}
        BY <1>0, <1>6, <2>1, <4>2 DEF Turns
      <4> QED
        BY <2>1, <3>1, <4>2, <4>3, RoutinesFinite DEF Woke, Wakes
    <3>2. CASE ~stops
      BY <1>0, <1>1, <1>6, <2>1, <3>2
    <3> QED
      BY <3>1, <3>2
  <2> HIDE DEF woken, stops
  <2>4. /\ Lock(s') /\ Wakes(s, s', {}, {r}) /\ Turns(s, s', {r})
        /\ s'.state[r] \in {"parked", "ready", "running"}
    <3>1. CASE s' = woken
      BY <2>3, <3>1
    <3>2. CASE s' = ParkLocked(woken, Root)
      <4>1. /\ Lock(s') /\ Wakes(woken, s', {}, {r}) /\ Turns(woken, s', {r})
            /\ s'.state[r] \in {"parked", "ready", "running"}
        BY <1>1, <1>6, <2>3, <3>2, ParkLock
      <4>2. Turns(s, s', {r})
        BY <2>3, <4>1, TurnsTrans
      <4> QED
        BY <2>3, <4>1, <4>2 DEF Wakes
    <3> QED
      BY <2>2, <3>1, <3>2
  <2> QED
    BY <1>6, <2>1, <2>2, <2>4
<1>7. CASE r = Root /\ EndProgram
  <2>1. /\ at[r] = "user" /\ cancelled' = cancelled /\ s' = s
        /\ at' = [at EXCEPT ![r] = "ended"] /\ s.running = r
    BY <1>7 DEF EndProgram, Enter, Running
  <2> QED
    BY <1>0, <1>1, <2>1
<1> QED
  BY <1>2, <1>3, <1>4, <1>5, <1>6, <1>7 DEF CrewStep

\* Why user code returns an error: it goes on until the routine has ended.
Reasons == {"no", "cancelled", "panic"}

LEMMA CrewUnwinds ==
  ASSUME NEW r \in Routines, CrewStep(r), unwind \in [Routines -> Reasons]
  PROVE  /\ unwind' \in [Routines -> Reasons]
         /\ \A x \in Routines \ {r} : unwind'[x] = unwind[x]
         /\ unwind[r] # "no" => unwind'[r] # "no"
<1>1. \A x : StopReason(x) \in Reasons
  BY DEF StopReason, StopReasonLocked, Reasons
<1>2. unwind' = unwind \/ \E reason \in Reasons :
        unwind' = [unwind EXCEPT ![r] = IF @ = "no" THEN reason ELSE @]
  <2>1. CASE Yield(r)
    BY <1>1, <2>1 DEF Yield, Return, Enter
  <2>2. CASE StartOrResumeYield(r)
    BY <1>1, <2>2 DEF StartOrResumeYield, Return
  <2>3. CASE \E x \in Routines : CancelRoutine(r, x)
    BY <2>3 DEF CancelRoutine
  <2>4. CASE EndRoutine(r)
    BY <2>4 DEF EndRoutine, Enter
  <2>5. CASE r = Root /\ (CloseScope \/ ResumeClose)
    <3>1. \E reason \in Reasons : CloseLoop(reason)
      BY <1>1, <2>5 DEF CloseScope, ResumeClose, Reasons
    <3> QED
      BY <2>5, <3>1 DEF CloseLoop
  <2>6. CASE r = Root /\ EndProgram
    BY <2>6 DEF EndProgram, Enter
  <2> QED
    BY <2>1, <2>2, <2>3, <2>4, <2>5, <2>6 DEF CrewStep
<1> QED
  BY <1>2 DEF Reasons

\* Whoever holds the lock is neither parked nor gone, and nobody is in the host.
LEMMA HolderRuns ==
  ASSUME Lock(s), NEW r \in Routines
  PROVE  /\ s.running = r => s.state[r] = "running"
         /\ s.state[r] # "inHost"
         /\ s.state[r] \in RoutineStates /\ s.external \in Int
<1>1. /\ s \in LockType /\ Mid(Bare(s)) /\ Bare(s).state = s.state
      /\ Bare(s).running = s.running /\ Bare(s).external = 0
      /\ Bare(s).running = r => Bare(s).state[r] = "running"
  BY BareType, RoutinesFinite DEF Lock, Sound
<1>2. InState(Bare(s), "inHost") = {}
  <2>1. /\ InState(Bare(s), "inHost") \subseteq Routines
        /\ Cardinality(InState(Bare(s), "inHost")) = 0
    BY <1>1 DEF Mid, InState
  <2> QED
    BY <2>1, RoutinesFinite, FS_Subset, FS_EmptySet
<1> QED
  BY <1>1, <1>2 DEF InState, LockType

=============================================================================
