--------------------------- MODULE RunLock_proof ---------------------------
(***************************************************************************)
(* What the operators of RunLock preserve, for every number of routines.   *)
(*                                                                         *)
(* Sound is the state of the lock between two critical sections.  Inside   *)
(* one, Mid holds: the routine that runs may already be marked as parked,  *)
(* ready, in the host or ended while running still names it.               *)
(***************************************************************************)
EXTENDS RunLock, FiniteSetTheorems, FunctionTheorems, SequenceTheorems, TLAPS

Mid(s) ==
  /\ s \in SchedulerType
  /\ \A r \in Routines : s.state[r] = "running" => s.running = r
  /\ \A r \in Routines : s.state[r] = "ready" <=> \E i \in 1 .. Len(s.ready) : s.ready[i] = r
  /\ \A i, j \in 1 .. Len(s.ready) : s.ready[i] = s.ready[j] => i = j
  /\ s.parked = Cardinality(InState(s, "parked"))
  /\ s.external = Cardinality(InState(s, "inHost"))

Sound(s) ==
  /\ Mid(s)
  /\ s.running # Nobody => s.state[s.running] = "running"
  /\ s.running = Nobody => s.ready = << >>

\* A sequence wakeLocked may be run over: distinct parked routines.
Wakeable(s, q) ==
  /\ q \in Seq(Routines)
  /\ \A i \in 1 .. Len(q) : s.state[q[i]] = "parked"
  /\ \A i, j \in 1 .. Len(q) : q[i] = q[j] => i = j

\* From scheduler s to scheduler t, routine r goes from state y to state x.
Moved(s, t, r, y, x) ==
  s.state[r] = y /\ x # y /\ t.state = [s.state EXCEPT ![r] = x]

\* Routine r goes to the end of the ready queue.
Queued(s, t, r) ==
  t.state = [s.state EXCEPT ![r] = "ready"] /\ t.ready = Append(s.ready, r)

\* Only the marks of a failure differ.
OnlyMarks(s, t) ==
  /\ t \in SchedulerType
  /\ t.state = s.state /\ t.ready = s.ready /\ t.running = s.running
  /\ t.parked = s.parked /\ t.external = s.external

-----------------------------------------------------------------------------
(* Orders *)

\* There are finitely many routines, and Nobody is none of them.
LEMMA RoutinesFinite ==
  /\ IsFiniteSet(Routines)
  /\ Routines \subseteq Nat
  /\ Nobody \notin Routines
  /\ Root \in Routines
BY MaxRoutinesAssumption, FS_Interval DEF Routines, Nobody, Root

\* Ascending enumerates a finite set of integers, each element once, in order.
LEMMA AscendingEnumerates ==
  ASSUME NEW S \in SUBSET Int, IsFiniteSet(S)
  PROVE  /\ Ascending(S) \in Seq(S)
         /\ Len(Ascending(S)) = Cardinality(S)
         /\ \A i, j \in 1 .. Cardinality(S) : Ascending(S)[i] = Ascending(S)[j] => i = j
         /\ \A k \in 1 .. Cardinality(S) : Cardinality({y \in S : y <= Ascending(S)[k]}) = k
<1> DEFINE n == Cardinality(S)
           Below(x) == {y \in S : y <= x}
           rank == [x \in S |-> Cardinality(Below(x))]
<1>1. n \in Nat
  BY FS_CardinalityType
<1>2. \A x \in S : /\ IsFiniteSet(Below(x))
                   /\ Cardinality(Below(x)) \in 1 .. n
  <2> TAKE x \in S
  <2>1. Below(x) \in SUBSET S /\ x \in Below(x)
    OBVIOUS
  <2>2. IsFiniteSet(Below(x)) /\ Cardinality(Below(x)) <= n
    BY <2>1, FS_Subset
  <2>3. Cardinality(Below(x)) \in Nat /\ Cardinality(Below(x)) # 0
    BY <2>1, <2>2, FS_CardinalityType, FS_EmptySet
  <2> QED
    BY <1>1, <2>2, <2>3
<1>3. \A x, y \in S : x < y => Cardinality(Below(x)) # Cardinality(Below(y))
  <2> SUFFICES ASSUME NEW x \in S, NEW y \in S, x < y,
                      Cardinality(Below(x)) = Cardinality(Below(y))
               PROVE  FALSE
    OBVIOUS
  <2>1. Below(x) \in SUBSET Below(y)
    <3> \A z \in S : z <= x => z <= y
      OBVIOUS
    <3> QED
      OBVIOUS
  <2>2. Below(y) = Below(x)
    BY <1>2, <2>1, FS_Subset
  <2> QED
    BY <2>2
<1>4. rank \in Injection(S, 1 .. n)
  <2>1. rank \in [S -> 1 .. n]
    BY <1>2
  <2>2. \A x, y \in S : rank[x] = rank[y] => x = y
    BY <1>3
  <2> QED
    BY <2>1, <2>2, Fun_IsInj
<1>5. rank \in Surjection(S, 1 .. n)
  <2>1. IsFiniteSet(1 .. n) /\ Cardinality(1 .. n) = n
    BY <1>1, FS_Interval
  <2> QED
    BY <1>4, <2>1, FS_Injection
<1>6. \A k \in 1 .. n : \E x \in S : Cardinality(Below(x)) = k
  BY <1>5 DEF Surjection
<1>7. \A k \in 1 .. n : /\ Ascending(S)[k] \in S
                        /\ Cardinality(Below(Ascending(S)[k])) = k
  BY <1>6 DEF Ascending
<1>8. Ascending(S) \in [1 .. n -> S]
  BY <1>7 DEF Ascending
<1>9. Ascending(S) \in Seq(S) /\ Len(Ascending(S)) = n
  BY <1>1, <1>8
<1> QED
  BY <1>7, <1>9

\* What ParkedLocked returns may be woken.
LEMMA ParkedLockedWakeable ==
  ASSUME NEW s, Mid(s)
  PROVE  Wakeable(s, ParkedLocked(s))
<1> DEFINE S == InState(s, "parked")
<1>1. S \in SUBSET Routines /\ S \in SUBSET Int
  BY RoutinesFinite DEF InState
<1>2. IsFiniteSet(S)
  BY <1>1, RoutinesFinite, FS_Subset
<1>3. /\ Ascending(S) \in Seq(S)
      /\ Len(Ascending(S)) = Cardinality(S)
      /\ \A i, j \in 1 .. Cardinality(S) : Ascending(S)[i] = Ascending(S)[j] => i = j
  BY <1>1, <1>2, AscendingEnumerates
<1>4. Ascending(S) \in Seq(Routines)
  BY <1>1, <1>3, SeqMonotonic
<1>5. \A i \in 1 .. Len(Ascending(S)) : Ascending(S)[i] \in S
  BY <1>3, ElementOfSeq
<1>6. \A i \in 1 .. Len(Ascending(S)) : s.state[Ascending(S)[i]] = "parked"
  BY <1>5 DEF InState
<1> QED
  BY <1>3, <1>4, <1>6 DEF Wakeable, ParkedLocked

\* Of a waiter list, those that are parked may be woken, each once.
LEMMA ParkedAmongWakeable ==
  ASSUME NEW s, NEW q \in Seq(Routines)
  PROVE  Wakeable(s, ParkedAmong(s, q))
<1> DEFINE F == FirstParkedEntries(s, q)
           first == Ascending(F)
           p == ParkedAmong(s, q)
<1>1. q \in [1 .. Len(q) -> Routines] /\ DOMAIN q = 1 .. Len(q) /\ Len(q) \in Nat
  BY LenProperties
<1>2. F \in SUBSET (1 .. Len(q)) /\ F \in SUBSET Int
  BY <1>1 DEF FirstParkedEntries
<1>3. IsFiniteSet(F)
  <2>1. IsFiniteSet(1 .. Len(q))
    BY <1>1, FS_Interval
  <2> QED
    BY <1>2, <2>1, FS_Subset
<1>4. /\ first \in Seq(F)
      /\ Len(first) = Cardinality(F)
      /\ \A i, j \in 1 .. Cardinality(F) : first[i] = first[j] => i = j
  BY <1>2, <1>3, AscendingEnumerates
<1>5. /\ Len(first) \in Nat /\ DOMAIN first = 1 .. Len(first)
      /\ \A k \in 1 .. Len(first) : first[k] \in F
  BY <1>4, LenProperties, ElementOfSeq
<1>6. p = [k \in 1 .. Len(first) |-> q[first[k]]]
  BY <1>5 DEF ParkedAmong, Entries
<1>7. \A k \in 1 .. Len(first) : q[first[k]] \in Routines
  BY <1>1, <1>2, <1>5
<1>8. p \in Seq(Routines) /\ Len(p) = Len(first)
  BY <1>5, <1>6, <1>7
<1>9. \A i \in 1 .. Len(p) : s.state[p[i]] = "parked"
  <2>1. \A k \in F : s.state[q[k]] = "parked"
    BY DEF FirstParkedEntries
  <2> QED
    BY <1>5, <1>6, <1>8, <2>1
<1>10. \A a, b \in F : q[a] = q[b] => a = b
  <2> SUFFICES ASSUME NEW a \in F, NEW b \in F, q[a] = q[b], a # b
               PROVE  FALSE
    OBVIOUS
  <2>1. CASE a < b
    <3>1. a \in 1 .. b - 1
      BY <1>1, <1>2, <2>1
    <3> QED
      BY <3>1 DEF FirstParkedEntries
  <2>2. CASE b < a
    <3>1. b \in 1 .. a - 1
      BY <1>1, <1>2, <2>2
    <3> QED
      BY <3>1 DEF FirstParkedEntries
  <2> QED
    BY <1>2, <2>1, <2>2
<1>11. \A i, j \in 1 .. Len(p) : p[i] = p[j] => i = j
  BY <1>4, <1>5, <1>6, <1>8, <1>10
<1> QED
  BY <1>8, <1>9, <1>11 DEF Wakeable

\* Whatever order a caller picks, a set of parked routines may be woken in it.
LEMMA OrdersWakeable ==
  ASSUME NEW s, NEW S \in SUBSET Routines, NEW q \in Orders(S),
         \A r \in S : s.state[r] = "parked"
  PROVE  Wakeable(s, q)
<1> DEFINE n == Cardinality(S)
<1>1. IsFiniteSet(S) /\ n \in Nat
  BY RoutinesFinite, FS_Subset, FS_CardinalityType
<1>2. q \in [1 .. n -> S] /\ \A x \in S : \E i \in 1 .. n : q[i] = x
  BY DEF Orders
<1>3. IsFiniteSet(1 .. n) /\ Cardinality(1 .. n) = n
  BY <1>1, FS_Interval
<1>4. q \in Surjection(1 .. n, S)
  BY <1>2, Fun_IsSurj
<1>5. q \in Injection(1 .. n, S)
  BY <1>3, <1>4, FS_SurjSameCardinalityImpliesInj
<1>6. q \in Seq(Routines) /\ Len(q) = n
  BY <1>1, <1>2
<1>7. \A i, j \in 1 .. n : q[i] = q[j] => i = j
  BY <1>5 DEF Injection, IsInjective
<1>8. \A i \in 1 .. n : s.state[q[i]] = "parked"
  BY <1>2
<1> QED
  BY <1>6, <1>7, <1>8 DEF Wakeable

-----------------------------------------------------------------------------
(* Counters and queue under one change of state *)

\* One routine changes state: it leaves one set and joins another.
LEMMA InStateMoves ==
  ASSUME NEW s, s.state \in [Routines -> RoutineStates],
         NEW r \in Routines, NEW y, NEW x,
         NEW t, Moved(s, t, r, y, x)
  PROVE  /\ Cardinality(InState(t, x)) = Cardinality(InState(s, x)) + 1
         /\ Cardinality(InState(t, y)) = Cardinality(InState(s, y)) - 1
<1>1. s.state[r] = y /\ x # y /\ t.state = [s.state EXCEPT ![r] = x]
  BY DEF Moved
<1>2. /\ IsFiniteSet(InState(s, x)) /\ Cardinality(InState(s, x)) \in Nat
      /\ IsFiniteSet(InState(s, y)) /\ Cardinality(InState(s, y)) \in Nat
  <2>1. InState(s, x) \in SUBSET Routines /\ InState(s, y) \in SUBSET Routines
    BY DEF InState
  <2> QED
    BY <2>1, RoutinesFinite, FS_Subset, FS_CardinalityType
<1>3. InState(t, x) = InState(s, x) \cup {r} /\ r \notin InState(s, x)
  BY <1>1 DEF InState
<1>4. InState(t, y) = InState(s, y) \ {r} /\ r \in InState(s, y)
  BY <1>1 DEF InState
<1>5. Cardinality(InState(t, x)) = Cardinality(InState(s, x)) + 1
  BY <1>2, <1>3, FS_AddElement
<1>6. Cardinality(InState(s, y) \ {r}) = Cardinality(InState(s, y)) - 1
  BY <1>2, <1>4, FS_RemoveElement
<1> QED
  BY <1>4, <1>5, <1>6

\* The counters are never negative.
LEMMA CountsAreNat ==
  ASSUME NEW s, NEW x
  PROVE  IsFiniteSet(InState(s, x)) /\ Cardinality(InState(s, x)) \in Nat
<1>1. InState(s, x) \in SUBSET Routines
  BY DEF InState
<1> QED
  BY <1>1, RoutinesFinite, FS_Subset, FS_CardinalityType

\* An idle lock goes to the head of the queue; a lock that is held stays.
LEMMA DispatchSound ==
  ASSUME NEW s, Mid(s), s.running # Nobody => s.state[s.running] = "running"
  PROVE  /\ Sound(DispatchLocked(s))
         /\ s.running # Nobody => DispatchLocked(s) = s
         /\ DispatchLocked(s).fatal = s.fatal
<1>1. CASE s.running # Nobody \/ s.ready = << >>
  BY <1>1 DEF DispatchLocked, Sound
<1>2. CASE s.running = Nobody /\ s.ready # << >>
  <2> DEFINE h == Head(s.ready)
             t == [s EXCEPT !.running = h, !.ready = Tail(s.ready), !.state[h] = "running"]
  <2>1. DispatchLocked(s) = t
    BY <1>2 DEF DispatchLocked
  <2>2. s \in SchedulerType
    BY DEF Mid
  <2>3. /\ h \in Routines /\ Tail(s.ready) \in Seq(Routines)
        /\ Len(s.ready) \in Nat \ {0} /\ Len(Tail(s.ready)) = Len(s.ready) - 1
        /\ \A i \in 1 .. Len(Tail(s.ready)) : Tail(s.ready)[i] = s.ready[i + 1]
        /\ h = s.ready[1]
    BY <1>2, <2>2, HeadTailProperties, EmptySeq DEF SchedulerType
  <2>4. /\ t \in SchedulerType
        /\ t.running = h /\ t.ready = Tail(s.ready)
        /\ t.state = [s.state EXCEPT ![h] = "running"]
        /\ t.parked = s.parked /\ t.external = s.external /\ t.fatal = s.fatal
    BY <2>2, <2>3 DEF SchedulerType, RoutineStates
  <2>5. s.state[h] = "ready"
    BY <2>3 DEF Mid
  <2>6. \A r \in Routines : t.state[r] = "running" => r = h
    BY <1>2, <2>2, <2>4, RoutinesFinite DEF Mid, SchedulerType
  <2>7. \A r \in Routines : t.state[r] = "ready" <=> \E i \in 1 .. Len(t.ready) : t.ready[i] = r
    <3> TAKE r \in Routines
    <3>1. CASE r = h
      <4>1. t.state[r] # "ready"
        BY <2>2, <2>3, <2>4, <3>1 DEF SchedulerType
      <4>2. \A i \in 1 .. Len(t.ready) : t.ready[i] # r
        BY <2>3, <2>4, <3>1 DEF Mid
      <4> QED
        BY <4>1, <4>2
    <3>2. CASE r # h
      <4>1. t.state[r] = s.state[r]
        BY <2>2, <2>4, <3>2 DEF SchedulerType
      <4>2. (\E i \in 1 .. Len(s.ready) : s.ready[i] = r)
              <=> \E i \in 1 .. Len(t.ready) : t.ready[i] = r
        <5>1. ASSUME NEW i \in 1 .. Len(s.ready), s.ready[i] = r
              PROVE  \E j \in 1 .. Len(t.ready) : t.ready[j] = r
          <6>1. i - 1 \in 1 .. Len(t.ready) /\ t.ready[i - 1] = r
            BY <2>3, <2>4, <3>2, <5>1
          <6> QED
            BY <6>1
        <5>2. ASSUME NEW i \in 1 .. Len(t.ready), t.ready[i] = r
              PROVE  \E j \in 1 .. Len(s.ready) : s.ready[j] = r
          <6>1. i + 1 \in 1 .. Len(s.ready) /\ s.ready[i + 1] = r
            BY <2>3, <2>4, <5>2
          <6> QED
            BY <6>1
        <5> QED
          BY <5>1, <5>2
      <4> QED
        BY <4>1, <4>2 DEF Mid
    <3> QED
      BY <3>1, <3>2
  <2>8. \A i, j \in 1 .. Len(t.ready) : t.ready[i] = t.ready[j] => i = j
    <3> SUFFICES ASSUME NEW i \in 1 .. Len(t.ready), NEW j \in 1 .. Len(t.ready),
                        t.ready[i] = t.ready[j]
                 PROVE  i = j
      OBVIOUS
    <3>1. i + 1 \in 1 .. Len(s.ready) /\ j + 1 \in 1 .. Len(s.ready)
          /\ s.ready[i + 1] = s.ready[j + 1]
      BY <2>3, <2>4
    <3>2. i + 1 = j + 1
      BY <3>1 DEF Mid
    <3> QED
      BY <3>2
  <2>9. InState(t, "parked") = InState(s, "parked") /\ InState(t, "inHost") = InState(s, "inHost")
    BY <2>2, <2>3, <2>4, <2>5 DEF SchedulerType, InState
  <2>10. Mid(t)
    BY <2>4, <2>6, <2>7, <2>8, <2>9 DEF Mid
  <2>11. t.running # Nobody /\ t.state[t.running] = "running"
    BY <2>2, <2>3, <2>4, RoutinesFinite DEF SchedulerType
  <2> QED
    BY <1>2, <2>1, <2>4, <2>10, <2>11 DEF Sound
<1> QED
  BY <1>1, <1>2

-----------------------------------------------------------------------------
(* Waking *)

\* What wakeLocked leaves before it dispatches.
Woken(s, q) ==
  [s EXCEPT !.state = [r \in Routines |->
                         IF \E i \in DOMAIN q : q[i] = r THEN "ready" ELSE s.state[r]],
            !.ready = @ \o q,
            !.parked = @ - Len(q)]

\* Waking keeps queue and counters exact and leaves the holder of the lock alone.
LEMMA WokenMid ==
  ASSUME NEW s, Mid(s), NEW q, Wakeable(s, q)
  PROVE  /\ Mid(Woken(s, q))
         /\ Woken(s, q).running = s.running
         /\ Woken(s, q).fatal = s.fatal
         /\ \A r \in Routines : s.state[r] # "parked" => Woken(s, q).state[r] = s.state[r]
<1> DEFINE w == Woken(s, q)
           R == {q[i] : i \in 1 .. Len(q)}
           P == InState(s, "parked")
<1>1. s \in SchedulerType
  BY DEF Mid
<1>2. /\ q \in Seq(Routines) /\ Len(q) \in Nat /\ DOMAIN q = 1 .. Len(q)
      /\ q \in [1 .. Len(q) -> Routines]
  BY LenProperties DEF Wakeable
<1>3. /\ s.ready \in Seq(Routines) /\ Len(s.ready) \in Nat
      /\ s.ready \o q \in Seq(Routines)
      /\ Len(s.ready \o q) = Len(s.ready) + Len(q)
      /\ \A i \in 1 .. Len(s.ready) + Len(q) :
           (s.ready \o q)[i] = IF i <= Len(s.ready) THEN s.ready[i] ELSE q[i - Len(s.ready)]
  BY <1>1, <1>2, ConcatProperties, LenProperties DEF SchedulerType
<1>4. /\ w.state = [r \in Routines |-> IF r \in R THEN "ready" ELSE s.state[r]]
      /\ w.ready = s.ready \o q
      /\ w.parked = s.parked - Len(q)
      /\ w.running = s.running /\ w.external = s.external
      /\ w.fatal = s.fatal /\ w.deadlocked = s.deadlocked
  BY <1>1, <1>2 DEF Woken, SchedulerType
<1>5. R \in SUBSET P
  BY <1>2 DEF Wakeable, InState
<1>6. IsFiniteSet(R) /\ Cardinality(R) = Len(q)
  <2>1. IsFiniteSet(1 .. Len(q)) /\ Cardinality(1 .. Len(q)) = Len(q)
    BY <1>2, FS_Interval
  <2>2. q \in [1 .. Len(q) -> R]
    BY <1>2
  <2>3. q \in Surjection(1 .. Len(q), R)
    BY <2>2, Fun_IsSurj
  <2>4. q \in Injection(1 .. Len(q), R)
    BY <2>2, Fun_IsInj DEF Wakeable
  <2> QED
    BY <2>1, <2>3, <2>4, FS_Surjection
<1>7. Cardinality(P \ R) = Cardinality(P) - Len(q) /\ Cardinality(P \ R) \in Nat
  <2>1. IsFiniteSet(P) /\ P \cap R = R
    BY <1>5, CountsAreNat
  <2>2. Cardinality(P \ R) = Cardinality(P) - Cardinality(P \cap R) /\ IsFiniteSet(P \ R)
    BY <2>1, FS_Difference
  <2> QED
    BY <1>6, <2>1, <2>2, FS_CardinalityType
<1>8. InState(w, "parked") = P \ R /\ InState(w, "inHost") = InState(s, "inHost")
  BY <1>4, <1>5 DEF InState
<1>9. w.parked = Cardinality(InState(w, "parked")) /\ w.parked \in Nat
  <2>1. s.parked = Cardinality(P)
    BY DEF Mid
  <2> QED
    BY <1>4, <1>7, <1>8, <2>1
<1>10. w \in SchedulerType
  <2>1. w.state \in [Routines -> RoutineStates]
    BY <1>1, <1>4 DEF SchedulerType, RoutineStates
  <2> QED
    BY <1>1, <1>3, <1>4, <1>9, <2>1 DEF Woken, SchedulerType
<1>11. \A r \in Routines : w.state[r] = "running" => w.running = r
  BY <1>4 DEF Mid
<1>12. \A r \in Routines : w.state[r] = "ready" <=> \E i \in 1 .. Len(w.ready) : w.ready[i] = r
  <2> TAKE r \in Routines
  <2>1. ASSUME NEW i \in 1 .. Len(s.ready), s.ready[i] = r
        PROVE  \E j \in 1 .. Len(w.ready) : w.ready[j] = r
    BY <1>2, <1>3, <1>4, <2>1
  <2>2. ASSUME NEW i \in 1 .. Len(q), q[i] = r
        PROVE  \E j \in 1 .. Len(w.ready) : w.ready[j] = r
    <3>1. Len(s.ready) + i \in 1 .. Len(w.ready) /\ w.ready[Len(s.ready) + i] = r
      BY <1>2, <1>3, <1>4, <2>2
    <3> QED
      BY <3>1
  <2>3. ASSUME NEW i \in 1 .. Len(w.ready), w.ready[i] = r
        PROVE  \/ \E j \in 1 .. Len(s.ready) : s.ready[j] = r
               \/ \E j \in 1 .. Len(q) : q[j] = r
    <3>1. CASE i <= Len(s.ready)
      BY <1>3, <1>4, <2>3, <3>1
    <3>2. CASE i > Len(s.ready)
      <4>1. i - Len(s.ready) \in 1 .. Len(q) /\ q[i - Len(s.ready)] = r
        BY <1>2, <1>3, <1>4, <2>3, <3>2
      <4> QED
        BY <4>1
    <3> QED
      BY <1>3, <3>1, <3>2
  <2>4. w.state[r] = "ready" <=> r \in R \/ s.state[r] = "ready"
    BY <1>4
  <2>5. s.state[r] = "ready" <=> \E i \in 1 .. Len(s.ready) : s.ready[i] = r
    BY DEF Mid
  <2> QED
    BY <2>1, <2>2, <2>3, <2>4, <2>5
<1>13. \A i, j \in 1 .. Len(w.ready) : w.ready[i] = w.ready[j] => i = j
  <2>1. \A i \in 1 .. Len(s.ready), j \in 1 .. Len(q) : s.ready[i] # q[j]
    <3>1. \A i \in 1 .. Len(s.ready) : s.ready[i] \in Routines
      BY <1>3, ElementOfSeq
    <3>2. \A i \in 1 .. Len(s.ready) : s.state[s.ready[i]] = "ready"
      BY <3>1 DEF Mid
    <3>3. \A j \in 1 .. Len(q) : s.state[q[j]] = "parked"
      BY DEF Wakeable
    <3> QED
      BY <3>2, <3>3
  <2>2. \A i, j \in 1 .. Len(s.ready) : s.ready[i] = s.ready[j] => i = j
    BY DEF Mid
  <2>3. \A i, j \in 1 .. Len(q) : q[i] = q[j] => i = j
    BY DEF Wakeable
  <2> SUFFICES ASSUME NEW i \in 1 .. Len(w.ready), NEW j \in 1 .. Len(w.ready),
                      w.ready[i] = w.ready[j]
               PROVE  i = j
    OBVIOUS
  <2>4. \A k \in 1 .. Len(w.ready) :
          \/ k \in 1 .. Len(s.ready) /\ w.ready[k] = s.ready[k]
          \/ k - Len(s.ready) \in 1 .. Len(q) /\ w.ready[k] = q[k - Len(s.ready)]
             /\ k > Len(s.ready)
    BY <1>2, <1>3, <1>4
  <2>5. CASE i \in 1 .. Len(s.ready) /\ w.ready[i] = s.ready[i]
    <3>1. j \in 1 .. Len(s.ready) /\ w.ready[j] = s.ready[j]
      BY <2>1, <2>4, <2>5
    <3> QED
      BY <2>2, <2>5, <3>1
  <2>6. CASE i - Len(s.ready) \in 1 .. Len(q) /\ w.ready[i] = q[i - Len(s.ready)]
    <3>1. j - Len(s.ready) \in 1 .. Len(q) /\ w.ready[j] = q[j - Len(s.ready)]
      BY <2>1, <2>4, <2>6
    <3>2. i - Len(s.ready) = j - Len(s.ready)
      BY <2>3, <2>6, <3>1
    <3> QED
      BY <1>3, <3>2
  <2> QED
    BY <2>4, <2>5, <2>6
<1>14. w.external = Cardinality(InState(w, "inHost"))
  BY <1>4, <1>8 DEF Mid
<1>15. Mid(w)
  BY <1>9, <1>10, <1>11, <1>12, <1>13, <1>14 DEF Mid
<1>16. \A r \in Routines : s.state[r] # "parked" => w.state[r] = s.state[r]
  BY <1>4, <1>5 DEF InState
<1> QED
  BY <1>4, <1>15, <1>16

\* Waking within a critical section, and as a critical section of its own.
LEMMA WakeLockedSound ==
  ASSUME NEW s, Mid(s), NEW q, Wakeable(s, q)
  PROVE  /\ s.running # Nobody =>
              /\ Mid(WakeLocked(s, q))
              /\ \A r \in Routines : s.state[r] # "parked" => WakeLocked(s, q).state[r] = s.state[r]
              /\ WakeLocked(s, q).running = s.running
         /\ WakeLocked(s, q).fatal = s.fatal
         /\ Sound(s) => Sound(WakeLocked(s, q))
<1> DEFINE w == Woken(s, q)
<1>1. WakeLocked(s, q) = DispatchLocked(w)
  BY DEF WakeLocked, Woken
<1>2. /\ Mid(w) /\ w.running = s.running /\ w.fatal = s.fatal
      /\ \A r \in Routines : s.state[r] # "parked" => w.state[r] = s.state[r]
  BY WokenMid
<1>3. s.running # Nobody => DispatchLocked(w) = w
  BY <1>2 DEF DispatchLocked
<1>4. DispatchLocked(w).fatal = w.fatal
  <2>1. w \in SchedulerType
    BY <1>2 DEF Mid
  <2> QED
    BY <2>1 DEF DispatchLocked, SchedulerType
<1>5. ASSUME Sound(s) PROVE Sound(DispatchLocked(w))
  <2>1. w.running # Nobody => w.state[w.running] = "running"
    <3>1. s.running # Nobody => s.running \in Routines /\ s.state[s.running] = "running"
      BY <1>5 DEF Sound, Mid, SchedulerType
    <3> QED
      BY <1>2, <3>1
  <2> QED
    BY <1>2, <2>1, DispatchSound
<1> QED
  BY <1>1, <1>2, <1>3, <1>4, <1>5

\* The same for the waiter lists and for everybody parked.
LEMMA WakeWaitersSound ==
  ASSUME NEW s, Mid(s), NEW q \in Seq(Routines)
  PROVE  /\ s.running # Nobody =>
              /\ Mid(WakeWaiters(s, q))
              /\ \A r \in Routines : s.state[r] # "parked" => WakeWaiters(s, q).state[r] = s.state[r]
              /\ WakeWaiters(s, q).running = s.running
         /\ WakeWaiters(s, q).fatal = s.fatal
         /\ Sound(s) => Sound(WakeWaiters(s, q))
BY ParkedAmongWakeable, WakeLockedSound DEF WakeWaiters

LEMMA AbortAllSound ==
  ASSUME NEW s, Mid(s)
  PROVE  /\ s.running # Nobody =>
              /\ Mid(AbortAllLocked(s))
              /\ \A r \in Routines : s.state[r] # "parked" => AbortAllLocked(s).state[r] = s.state[r]
              /\ AbortAllLocked(s).running = s.running
         /\ AbortAllLocked(s).fatal = s.fatal
         /\ Sound(s) => Sound(AbortAllLocked(s))
BY ParkedLockedWakeable, WakeLockedSound DEF AbortAllLocked

\* A failure is only a mark: the lock is as exact with it as without.
LEMMA MarksKeep ==
  ASSUME NEW s, Mid(s), NEW t, OnlyMarks(s, t)
  PROVE  Mid(t) /\ (Sound(s) => Sound(t))
<1>1. \A x : InState(t, x) = InState(s, x)
  BY DEF OnlyMarks, InState
<1>2. Mid(t)
  BY <1>1 DEF Mid, OnlyMarks
<1> QED
  BY <1>2 DEF Sound, OnlyMarks

LEMMA CheckDeadlockSound ==
  ASSUME NEW s, Sound(s)
  PROVE  Sound(CheckDeadlockLocked(s))
<1> DEFINE f == IF s.fatal = "none" THEN "deadlock" ELSE s.fatal
           t == [s EXCEPT !.fatal = f, !.deadlocked = TRUE]
<1>1. s \in SchedulerType /\ Mid(s)
  BY DEF Sound, Mid
<1>2. f \in {"none", "deadlock", "panic"}
  BY <1>1 DEF SchedulerType
<1>3. Mid(t) /\ Sound(t)
  <2>1. OnlyMarks(s, t)
    BY <1>1, <1>2 DEF OnlyMarks, SchedulerType
  <2> HIDE DEF t
  <2> QED
    BY <1>1, <2>1, MarksKeep
<1>4. Sound(AbortAllLocked(t))
  BY <1>3, AbortAllSound
<1>5. CheckDeadlockLocked(s) \in {s, AbortAllLocked(t)}
  BY <1>1 DEF CheckDeadlockLocked, SchedulerType
<1> QED
  BY <1>4, <1>5

\* Letting the lock go, once its holder no longer counts as running.
LEMMA ReleaseSound ==
  ASSUME NEW s, Mid(s), \A r \in Routines : s.state[r] # "running"
  PROVE  Sound(ReleaseLocked(s))
<1> DEFINE t == [s EXCEPT !.running = Nobody]
<1>1. s \in SchedulerType
  BY DEF Mid
<1>2. /\ t \in SchedulerType /\ t.running = Nobody
      /\ t.state = s.state /\ t.ready = s.ready
      /\ t.parked = s.parked /\ t.external = s.external
  BY <1>1 DEF SchedulerType
<1>3. \A x : InState(t, x) = InState(s, x)
  BY <1>2 DEF InState
<1>4. Mid(t)
  BY <1>2, <1>3 DEF Mid
<1>5. Sound(DispatchLocked(t))
  BY <1>2, <1>4, DispatchSound
<1> QED
  BY <1>5, CheckDeadlockSound DEF ReleaseLocked

-----------------------------------------------------------------------------
(* Giving the lock up and taking it back *)

\* A routine that was in no queue joins the end of the ready queue.
LEMMA AppendExact ==
  ASSUME NEW s, Mid(s), NEW r \in Routines, s.state[r] # "ready",
         NEW t, Queued(s, t, r)
  PROVE  /\ t.ready \in Seq(Routines)
         /\ \A x \in Routines : t.state[x] = "ready" <=> \E i \in 1 .. Len(t.ready) : t.ready[i] = x
         /\ \A i, j \in 1 .. Len(t.ready) : t.ready[i] = t.ready[j] => i = j
<1>0. t.state = [s.state EXCEPT ![r] = "ready"] /\ t.ready = Append(s.ready, r)
  BY DEF Queued
<1>1. s \in SchedulerType
  BY DEF Mid
<1>2. /\ s.ready \in Seq(Routines) /\ Len(s.ready) \in Nat
      /\ t.ready \in Seq(Routines) /\ Len(t.ready) = Len(s.ready) + 1
      /\ \A i \in 1 .. Len(s.ready) : t.ready[i] = s.ready[i]
      /\ t.ready[Len(s.ready) + 1] = r
  BY <1>0, <1>1, AppendProperties, LenProperties DEF SchedulerType
<1>3. \A i \in 1 .. Len(t.ready) : i \in 1 .. Len(s.ready) \/ i = Len(s.ready) + 1
  BY <1>2
<1>4. \A i \in 1 .. Len(s.ready) : s.ready[i] # r
  BY DEF Mid
<1>5. \A x \in Routines : t.state[x] = "ready" <=> x = r \/ s.state[x] = "ready"
  BY <1>0, <1>1 DEF SchedulerType
<1>6. \A x \in Routines : (\E i \in 1 .. Len(t.ready) : t.ready[i] = x)
                            <=> x = r \/ \E i \in 1 .. Len(s.ready) : s.ready[i] = x
  <2> TAKE x \in Routines
  <2>1. ASSUME NEW i \in 1 .. Len(t.ready), t.ready[i] = x
        PROVE  x = r \/ \E j \in 1 .. Len(s.ready) : s.ready[j] = x
    BY <1>2, <1>3, <2>1
  <2>2. ASSUME NEW i \in 1 .. Len(s.ready), s.ready[i] = x
        PROVE  \E j \in 1 .. Len(t.ready) : t.ready[j] = x
    <3>1. i \in 1 .. Len(t.ready) /\ t.ready[i] = x
      BY <1>2, <2>2
    <3> QED
      BY <3>1
  <2>3. \E j \in 1 .. Len(t.ready) : t.ready[j] = r
    <3>1. Len(s.ready) + 1 \in 1 .. Len(t.ready)
      BY <1>2
    <3> QED
      BY <1>2, <3>1
  <2> QED
    BY <2>1, <2>2, <2>3
<1>7. \A x \in Routines : s.state[x] = "ready" <=> \E i \in 1 .. Len(s.ready) : s.ready[i] = x
  BY DEF Mid
<1>8. \A i, j \in 1 .. Len(s.ready) : s.ready[i] = s.ready[j] => i = j
  BY DEF Mid
<1>9. \A i, j \in 1 .. Len(t.ready) : t.ready[i] = t.ready[j] => i = j
  BY <1>2, <1>3, <1>4, <1>8
<1> QED
  BY <1>2, <1>5, <1>6, <1>7, <1>9

\* What an operator does before it hands the lock on.
Parking(s, r) == [s EXCEPT !.state[r] = "parked", !.parked = @ + 1]
Calling(s, r) == [s EXCEPT !.external = @ + 1, !.state[r] = "inHost"]
Queueing(s, r) == [s EXCEPT !.state[r] = "ready", !.ready = Append(@, r)]
Returning(s, r) == [s EXCEPT !.external = @ - 1, !.state[r] = "ready", !.ready = Append(@, r)]

\* Routine r goes to state x, and queue and counters follow.
Moves(s, t, r, x) ==
  /\ s \in SchedulerType /\ Mid(t)
  /\ t.state = [s.state EXCEPT ![r] = x]
  /\ t.running = s.running /\ t.fatal = s.fatal /\ t.deadlocked = s.deadlocked

\* Parking, whichever routine the lock goes to.
LEMMA ParkingMid ==
  ASSUME NEW s, Sound(s), NEW r \in Routines, s.running = r
  PROVE  /\ Moves(s, Parking(s, r), r, "parked")
         /\ \A x \in Routines : Parking(s, r).state[x] # "running"
<1> DEFINE t == [s EXCEPT !.state[r] = "parked", !.parked = @ + 1]
<1>1. s \in SchedulerType /\ Mid(s) /\ s.state[r] = "running"
  BY RoutinesFinite DEF Sound, Mid
<1>2. /\ t.state = [s.state EXCEPT ![r] = "parked"] /\ t.ready = s.ready
      /\ t.running = r /\ t.parked = s.parked + 1
      /\ t.external = s.external
  BY <1>1 DEF SchedulerType
<1>3. /\ Cardinality(InState(t, "parked")) = Cardinality(InState(s, "parked")) + 1
      /\ InState(t, "inHost") = InState(s, "inHost")
  <2>1. s.state \in [Routines -> RoutineStates]
    BY <1>1 DEF SchedulerType
  <2>2. Cardinality(InState(t, "parked")) = Cardinality(InState(s, "parked")) + 1
    <3>1. Moved(s, t, r, "running", "parked")
      BY <1>1, <1>2 DEF Moved
    <3> HIDE DEF t
    <3> QED
      BY <2>1, <3>1, InStateMoves
  <2>3. InState(t, "inHost") = InState(s, "inHost")
    BY <1>1, <1>2, <2>1 DEF InState
  <2> QED
    BY <2>2, <2>3
<1>4. \A x \in Routines : t.state[x] # "running"
  BY <1>1, <1>2 DEF SchedulerType, Mid
<1>5. \A x \in Routines : t.state[x] = "ready" <=> s.state[x] = "ready"
  BY <1>1, <1>2 DEF SchedulerType
<1>6. t \in SchedulerType
  <2>1. t.state \in [Routines -> RoutineStates]
    BY <1>1, <1>2 DEF SchedulerType, RoutineStates
  <2>2. t.parked \in Nat /\ t.external \in Nat
    BY <1>1, <1>2 DEF SchedulerType
  <2> QED
    BY <1>1, <1>2, <2>1, <2>2 DEF SchedulerType
<1>7. Mid(t)
  BY <1>1, <1>2, <1>3, <1>4, <1>5, <1>6 DEF Mid
<1>10. t.fatal = s.fatal /\ t.deadlocked = s.deadlocked
  BY <1>1 DEF SchedulerType
<1>11. t = Parking(s, r)
  BY DEF Parking
<1> QED
  BY <1>1, <1>10, <1>11, <1>2, <1>4, <1>7 DEF Moves

LEMMA ParkLockedSound ==
  ASSUME NEW s, Sound(s), NEW r \in Routines, s.running = r
  PROVE  Sound(ParkLocked(s, r))
<1> DEFINE t == Parking(s, r)
<1>1. ParkLocked(s, r) = ReleaseLocked(t)
  BY DEF ParkLocked, Parking
<1>2. /\ Moves(s, t, r, "parked")
      /\ \A x \in Routines : t.state[x] # "running"
  BY ParkingMid
<1> HIDE DEF t
<1> QED
  BY <1>1, <1>2, ReleaseSound DEF Moves

LEMMA CallingMid ==
  ASSUME NEW s, Sound(s), NEW r \in Routines, s.running = r
  PROVE  /\ Moves(s, Calling(s, r), r, "inHost")
         /\ \A x \in Routines : Calling(s, r).state[x] # "running"
<1> DEFINE t == [s EXCEPT !.external = @ + 1, !.state[r] = "inHost"]
<1>1. s \in SchedulerType /\ Mid(s) /\ s.state[r] = "running"
  BY RoutinesFinite DEF Sound, Mid
<1>2. /\ t.state = [s.state EXCEPT ![r] = "inHost"] /\ t.ready = s.ready
      /\ t.running = r /\ t.parked = s.parked
      /\ t.external = s.external + 1
  BY <1>1 DEF SchedulerType
<1>3. /\ Cardinality(InState(t, "inHost")) = Cardinality(InState(s, "inHost")) + 1
      /\ InState(t, "parked") = InState(s, "parked")
  <2>1. s.state \in [Routines -> RoutineStates]
    BY <1>1 DEF SchedulerType
  <2>2. Cardinality(InState(t, "inHost")) = Cardinality(InState(s, "inHost")) + 1
    <3>1. Moved(s, t, r, "running", "inHost")
      BY <1>1, <1>2 DEF Moved
    <3> HIDE DEF t
    <3> QED
      BY <2>1, <3>1, InStateMoves
  <2>3. InState(t, "parked") = InState(s, "parked")
    BY <1>1, <1>2, <2>1 DEF InState
  <2> QED
    BY <2>2, <2>3
<1>4. \A x \in Routines : t.state[x] # "running"
  BY <1>1, <1>2 DEF SchedulerType, Mid
<1>5. \A x \in Routines : t.state[x] = "ready" <=> s.state[x] = "ready"
  BY <1>1, <1>2 DEF SchedulerType
<1>6. t \in SchedulerType
  <2>1. t.state \in [Routines -> RoutineStates]
    BY <1>1, <1>2 DEF SchedulerType, RoutineStates
  <2>2. t.parked \in Nat /\ t.external \in Nat
    BY <1>1, <1>2 DEF SchedulerType
  <2> QED
    BY <1>1, <1>2, <2>1, <2>2 DEF SchedulerType
<1>7. Mid(t)
  BY <1>1, <1>2, <1>3, <1>4, <1>5, <1>6 DEF Mid
<1>10. t.fatal = s.fatal /\ t.deadlocked = s.deadlocked
  BY <1>1 DEF SchedulerType
<1>11. t = Calling(s, r)
  BY DEF Calling
<1> QED
  BY <1>1, <1>10, <1>11, <1>2, <1>4, <1>7 DEF Moves

LEMMA BeginHostCallSound ==
  ASSUME NEW s, Sound(s), NEW r \in Routines, s.running = r
  PROVE  Sound(BeginHostCall(s, r))
<1> DEFINE t == Calling(s, r)
<1>1. BeginHostCall(s, r) = ReleaseLocked(t)
  BY DEF BeginHostCall, Calling
<1>2. /\ Moves(s, t, r, "inHost")
      /\ \A x \in Routines : t.state[x] # "running"
  BY CallingMid
<1> HIDE DEF t
<1> QED
  BY <1>1, <1>2, ReleaseSound DEF Moves

LEMMA YieldingMid ==
  ASSUME NEW s, Sound(s), NEW r \in Routines, s.running = r
  PROVE  /\ Moves(s, Queueing(s, r), r, "ready")
         /\ \A x \in Routines : Queueing(s, r).state[x] # "running"
<1> DEFINE t == [s EXCEPT !.state[r] = "ready", !.ready = Append(@, r)]
<1>1. s \in SchedulerType /\ Mid(s) /\ s.state[r] = "running"
  BY RoutinesFinite DEF Sound, Mid
<1>2. /\ t.state = [s.state EXCEPT ![r] = "ready"] /\ t.ready = Append(s.ready, r)
      /\ t.running = r /\ t.parked = s.parked /\ t.external = s.external
  BY <1>1 DEF SchedulerType
<1>3. /\ t.ready \in Seq(Routines)
      /\ \A x \in Routines : t.state[x] = "ready" <=> \E i \in 1 .. Len(t.ready) : t.ready[i] = x
      /\ \A i, j \in 1 .. Len(t.ready) : t.ready[i] = t.ready[j] => i = j
  <2>1. s.state[r] # "ready"
    BY <1>1
  <2>2. Queued(s, t, r)
    BY <1>2 DEF Queued
  <2> HIDE DEF t
  <2> QED
    BY <1>1, <2>1, <2>2, AppendExact
<1>4. t \in SchedulerType
  BY <1>1, <1>2, <1>3 DEF SchedulerType, RoutineStates
<1>5. InState(t, "inHost") = InState(s, "inHost") /\ InState(t, "parked") = InState(s, "parked")
  BY <1>1, <1>2 DEF SchedulerType, InState
<1>6. \A x \in Routines : t.state[x] # "running"
  BY <1>1, <1>2 DEF SchedulerType, Mid
<1>7. t.parked = Cardinality(InState(t, "parked")) /\ t.external = Cardinality(InState(t, "inHost"))
  BY <1>1, <1>2, <1>5 DEF Mid
<1>8. Mid(t)
  BY <1>3, <1>4, <1>6, <1>7 DEF Mid
<1>10. t.fatal = s.fatal /\ t.deadlocked = s.deadlocked
  BY <1>1 DEF SchedulerType
<1>11. t = Queueing(s, r)
  BY DEF Queueing
<1> QED
  BY <1>1, <1>10, <1>11, <1>2, <1>6, <1>8 DEF Moves

LEMMA GiveWayLockedSound ==
  ASSUME NEW s, Sound(s), NEW r \in Routines, s.running = r
  PROVE  Sound(GiveWayLocked(s, r))
<1> DEFINE t == Queueing(s, r)
<1>1. GiveWayLocked(s, r) = ReleaseLocked(t)
  BY DEF GiveWayLocked, Queueing
<1>2. /\ Moves(s, t, r, "ready")
      /\ \A x \in Routines : t.state[x] # "running"
  BY YieldingMid
<1> HIDE DEF t
<1> QED
  BY <1>1, <1>2, ReleaseSound DEF Moves

\* The host answers while anybody runs, or nobody does.
LEMMA ReturningMid ==
  ASSUME NEW s, Sound(s), NEW r \in Routines, s.state[r] = "inHost"
  PROVE  /\ Moves(s, Returning(s, r), r, "ready")
         /\ Returning(s, r).running # Nobody => Returning(s, r).state[Returning(s, r).running] = "running"
<1> DEFINE t == [s EXCEPT !.external = @ - 1, !.state[r] = "ready", !.ready = Append(@, r)]
<1>1. s \in SchedulerType /\ Mid(s)
  BY DEF Sound, Mid
<1>2. /\ t.state = [s.state EXCEPT ![r] = "ready"] /\ t.ready = Append(s.ready, r)
      /\ t.running = s.running /\ t.parked = s.parked /\ t.external = s.external - 1
      /\ t.fatal = s.fatal
  BY <1>1 DEF SchedulerType
<1>3. /\ t.ready \in Seq(Routines)
      /\ \A x \in Routines : t.state[x] = "ready" <=> \E i \in 1 .. Len(t.ready) : t.ready[i] = x
      /\ \A i, j \in 1 .. Len(t.ready) : t.ready[i] = t.ready[j] => i = j
  <2>1. s.state[r] # "ready"
    BY <1>1
  <2>2. Queued(s, t, r)
    BY <1>2 DEF Queued
  <2> HIDE DEF t
  <2> QED
    BY <1>1, <2>1, <2>2, AppendExact
<1>4. /\ Cardinality(InState(t, "inHost")) = Cardinality(InState(s, "inHost")) - 1
      /\ InState(t, "parked") = InState(s, "parked")
  <2>1. s.state \in [Routines -> RoutineStates]
    BY <1>1 DEF SchedulerType
  <2>2. Cardinality(InState(t, "inHost")) = Cardinality(InState(s, "inHost")) - 1
    <3>1. Moved(s, t, r, "inHost", "ready")
      BY <1>1, <1>2 DEF Moved
    <3> HIDE DEF t
    <3> QED
      BY <2>1, <3>1, InStateMoves
  <2>3. InState(t, "parked") = InState(s, "parked")
    BY <1>1, <1>2, <2>1 DEF InState
  <2> QED
    BY <2>2, <2>3
<1>5. /\ t.parked = Cardinality(InState(t, "parked"))
      /\ t.external = Cardinality(InState(t, "inHost"))
      /\ t.external \in Nat
  BY <1>1, <1>2, <1>4, CountsAreNat DEF Mid
<1>6. t \in SchedulerType
  BY <1>1, <1>2, <1>3, <1>5 DEF SchedulerType, RoutineStates
<1>7. \A x \in Routines : t.state[x] = "running" <=> s.state[x] = "running"
  BY <1>1, <1>2 DEF SchedulerType
<1>8. Mid(t)
  <2>1. \A x \in Routines : t.state[x] = "running" => t.running = x
    BY <1>1, <1>2, <1>7 DEF Mid
  <2> QED
    BY <1>3, <1>5, <1>6, <2>1 DEF Mid
<1>9. t.running # Nobody => t.state[t.running] = "running"
  BY <1>1, <1>2, <1>7 DEF Sound, SchedulerType
<1>10. t.fatal = s.fatal /\ t.deadlocked = s.deadlocked
  BY <1>1 DEF SchedulerType
<1>11. t = Returning(s, r)
  BY DEF Returning
<1> QED
  BY <1>1, <1>10, <1>11, <1>2, <1>8, <1>9 DEF Moves

LEMMA EndHostCallSound ==
  ASSUME NEW s, Sound(s), NEW r \in Routines, s.state[r] = "inHost"
  PROVE  /\ Sound(EndHostCall(s, r))
         /\ s.running # Nobody => EndHostCall(s, r).running = s.running
         /\ EndHostCall(s, r).fatal = s.fatal
<1> DEFINE t == Returning(s, r)
<1>1. EndHostCall(s, r) = DispatchLocked(t)
  BY DEF EndHostCall, Returning
<1>2. /\ Moves(s, t, r, "ready")
      /\ t.running # Nobody => t.state[t.running] = "running"
  BY ReturningMid
<1> HIDE DEF t
<1> QED
  BY <1>1, <1>2, DispatchSound, ZenonT(60) DEF Moves

\* A new routine queues behind the others; its spawner keeps the lock.
LEMMA QueueingMid ==
  ASSUME NEW s, Sound(s), NEW r \in Routines, s.state[r] = "unborn", s.running # Nobody
  PROVE  /\ Moves(s, Queueing(s, r), r, "ready")
         /\ Queueing(s, r).running # Nobody => Queueing(s, r).state[Queueing(s, r).running] = "running"
<1> DEFINE t == [s EXCEPT !.state[r] = "ready", !.ready = Append(@, r)]
<1>1. s \in SchedulerType /\ Mid(s)
  BY DEF Sound, Mid
<1>2. /\ t.state = [s.state EXCEPT ![r] = "ready"] /\ t.ready = Append(s.ready, r)
      /\ t.running = s.running /\ t.parked = s.parked /\ t.external = s.external
      /\ t.fatal = s.fatal
  BY <1>1 DEF SchedulerType
<1>3. /\ t.ready \in Seq(Routines)
      /\ \A x \in Routines : t.state[x] = "ready" <=> \E i \in 1 .. Len(t.ready) : t.ready[i] = x
      /\ \A i, j \in 1 .. Len(t.ready) : t.ready[i] = t.ready[j] => i = j
  <2>1. s.state[r] # "ready"
    BY <1>1
  <2>2. Queued(s, t, r)
    BY <1>2 DEF Queued
  <2> HIDE DEF t
  <2> QED
    BY <1>1, <2>1, <2>2, AppendExact
<1>4. InState(t, "inHost") = InState(s, "inHost") /\ InState(t, "parked") = InState(s, "parked")
  BY <1>1, <1>2 DEF SchedulerType, InState
<1>5. t \in SchedulerType
  BY <1>1, <1>2, <1>3 DEF SchedulerType, RoutineStates
<1>6. t.parked = Cardinality(InState(t, "parked")) /\ t.external = Cardinality(InState(t, "inHost"))
  BY <1>1, <1>2, <1>4 DEF Mid
<1>7. \A x \in Routines : t.state[x] = "running" <=> s.state[x] = "running"
  BY <1>1, <1>2 DEF SchedulerType
<1>8. Mid(t)
  <2>1. \A x \in Routines : t.state[x] = "running" => t.running = x
    BY <1>1, <1>2, <1>7 DEF Mid
  <2> QED
    BY <1>3, <1>5, <1>6, <2>1 DEF Mid
<1>9. t.running # Nobody => t.state[t.running] = "running"
  BY <1>1, <1>2, <1>7 DEF Sound, SchedulerType
<1>10. t.fatal = s.fatal /\ t.deadlocked = s.deadlocked
  BY <1>1 DEF SchedulerType
<1>11. t = Queueing(s, r)
  BY DEF Queueing
<1> QED
  BY <1>1, <1>10, <1>11, <1>2, <1>8, <1>9 DEF Moves

LEMMA EnqueueNewSound ==
  ASSUME NEW s, Sound(s), NEW r \in Routines, s.state[r] = "unborn", s.running # Nobody
  PROVE  /\ Sound(EnqueueNew(s, r))
         /\ EnqueueNew(s, r).running = s.running
         /\ EnqueueNew(s, r).fatal = s.fatal
<1> DEFINE t == Queueing(s, r)
<1>1. EnqueueNew(s, r) = DispatchLocked(t)
  BY DEF EnqueueNew, Queueing
<1>2. /\ Moves(s, t, r, "ready")
      /\ t.running # Nobody => t.state[t.running] = "running"
  BY QueueingMid
<1> HIDE DEF t
<1> QED
  BY <1>1, <1>2, DispatchSound DEF Moves

\* A scheduler starts with its lock held and everything at zero.
LEMMA NewSchedulerSound == Sound(NewScheduler({})) /\ NewScheduler({}).fatal = "none"
<1> DEFINE s == NewScheduler({})
<1>1. /\ s.state = [r \in Routines |-> IF r = Root THEN "running" ELSE "unborn"]
      /\ s.running = Root /\ s.parked = 0 /\ s.external = 0
      /\ s.fatal = "none" /\ s.deadlocked = FALSE
  BY DEF NewScheduler
<1>2. s.ready = << >>
  <2>1. 1 .. Cardinality({}) = {}
    BY FS_EmptySet
  <2> QED
    BY <2>1 DEF NewScheduler
<1>3. s \in SchedulerType
  <2>1. s.state \in [Routines -> RoutineStates]
    BY <1>1 DEF RoutineStates
  <2>2. s = [state |-> s.state, ready |-> << >>, running |-> Root, parked |-> 0,
             external |-> 0, fatal |-> "none", deadlocked |-> FALSE]
    BY <1>2 DEF NewScheduler
  <2>3. << >> \in Seq(Routines)
    OBVIOUS
  <2> DEFINE f == s.state
  <2>4. s = [state |-> f, ready |-> << >>, running |-> Root, parked |-> 0,
             external |-> 0, fatal |-> "none", deadlocked |-> FALSE]
    BY <2>2
  <2>5. f \in [Routines -> RoutineStates]
    BY <2>1
  <2> HIDE DEF f, s
  <2> QED
    BY <2>3, <2>4, <2>5, RoutinesFinite DEF SchedulerType
<1>4. InState(s, "parked") = {} /\ InState(s, "inHost") = {}
  BY <1>1 DEF InState
<1>5. s.parked = Cardinality(InState(s, "parked")) /\ s.external = Cardinality(InState(s, "inHost"))
  BY <1>1, <1>4, FS_EmptySet
<1>6. Len(s.ready) = 0
  BY <1>2
<1>7. Mid(s)
  BY <1>1, <1>3, <1>5, <1>6 DEF Mid
<1> QED
  BY <1>1, <1>7, RoutinesFinite DEF Sound

-----------------------------------------------------------------------------
(* First and last of a set of numbers *)

\* The places of a sequence are finitely many numbers.
LEMMA PlacesFinite ==
  ASSUME NEW T, NEW q \in Seq(T)
  PROVE  IsFiniteSet(1 .. Len(q)) /\ 1 .. Len(q) \subseteq Int
<1> DEFINE n == Len(q)
<1>1. n \in Int
  BY LenProperties
<1> HIDE DEF n
<1>2. IsFiniteSet(1 .. n) /\ 1 .. n \subseteq Int
  BY <1>1, FS_Interval
<1> QED
  BY <1>2 DEF n

\* Ascending leaves no element out.
LEMMA AscendingCovers ==
  ASSUME NEW S \in SUBSET Int, IsFiniteSet(S)
  PROVE  \A x \in S : \E k \in 1 .. Cardinality(S) : Ascending(S)[k] = x
<1> DEFINE n == Cardinality(S)
           a == Ascending(S)
<1>1. n \in Nat
  BY FS_CardinalityType
<1>2. /\ a \in Seq(S) /\ Len(a) = n
      /\ \A i, j \in 1 .. n : a[i] = a[j] => i = j
  BY AscendingEnumerates
<1>3. IsFiniteSet(1 .. n) /\ Cardinality(1 .. n) = n
  BY <1>1, FS_Interval
<1> HIDE DEF a
<1>4. a \in [1 .. n -> S]
  BY <1>2
<1>5. a \in Injection(1 .. n, S)
  BY <1>2, <1>4, Fun_IsInj
<1>6. a \in Surjection(1 .. n, S)
  BY <1>3, <1>5, FS_Injection
<1> QED
  BY <1>6 DEF Surjection, a

\* A finite set of numbers that is not empty has a least and a greatest element.
LEMMA EndsExist ==
  ASSUME NEW S \in SUBSET Int, IsFiniteSet(S), S # {}
  PROVE  /\ \E x \in S : \A y \in S : x <= y
         /\ \E x \in S : \A y \in S : y <= x
<1> DEFINE n == Cardinality(S)
           first == Ascending(S)[1]
           last == Ascending(S)[n]
<1>1. n \in Nat \ {0}
  BY FS_CardinalityType, FS_EmptySet
<1>2. /\ Ascending(S) \in Seq(S) /\ Len(Ascending(S)) = n
      /\ \A k \in 1 .. n : Cardinality({y \in S : y <= Ascending(S)[k]}) = k
  BY AscendingEnumerates
<1>3. /\ first \in S /\ Cardinality({y \in S : y <= first}) = 1
      /\ last \in S /\ Cardinality({y \in S : y <= last}) = n
  BY <1>1, <1>2, ElementOfSeq
<1> HIDE DEF first, last
<1>4. \A y \in S : first <= y
  <2> DEFINE below == {y \in S : y <= first}
  <2>1. IsFiniteSet(below) /\ first \in below
    BY <1>3, FS_Subset
  <2>2. below = {first}
    <3>1. Cardinality({first}) = 1
      BY FS_Singleton
    <3>2. {first} \in SUBSET below
      BY <2>1
    <3> QED
      BY <1>3, <2>1, <3>1, <3>2, FS_Subset
  <2>3. \A y \in S : y <= first => y = first
    BY <2>2
  <2> QED
    BY <1>3, <2>3
<1>5. \A y \in S : y <= last
  <2> DEFINE below == {y \in S : y <= last}
  <2>1. below \in SUBSET S
    OBVIOUS
  <2>2. below = S
    BY <1>3, <2>1, FS_Subset
  <2> QED
    BY <2>2
<1> QED
  BY <1>3, <1>4, <1>5

-----------------------------------------------------------------------------
(* What a critical section may do to routines that have no part in it *)

\* But for the routines N, whose own doing it is, nobody moves except towards
\* the lock.  A failure stays, and a new one leaves nobody parked; a deadlock
\* is a failure, found when none of them could have gone on.
LockStep(s, t, N) ==
  /\ \A x \in Routines \ N :
       \/ t.state[x] = s.state[x]
       \/ s.state[x] = "parked" /\ t.state[x] \in {"ready", "running"}
       \/ s.state[x] = "ready" /\ t.state[x] = "running"
  /\ s.fatal # "none" => t.fatal = s.fatal
  /\ t.fatal # s.fatal => \A x \in Routines \ N : t.state[x] # "parked"
  /\ s.deadlocked => t.deadlocked
  /\ ~s.deadlocked /\ t.deadlocked =>
       /\ t.fatal # "none"
       /\ \A x \in Routines \ N : s.state[x] \in {"parked", "unborn", "done"}

\* Nobody is left waiting on a lock that is free, unless a host call or a
\* deadlock already reported will bring somebody back.
IdleIsChecked(s) == s.running = Nobody => s.external > 0 \/ s.parked = 0 \/ s.deadlocked

\* Steps of the same routines compose.
LEMMA LockStepTrans ==
  ASSUME NEW s, NEW t, NEW u, NEW N, NEW M \in SUBSET N, NEW L \in SUBSET N,
         LockStep(s, t, M), LockStep(t, u, L)
  PROVE  LockStep(s, u, N)
<1>1. \A x \in Routines \ N :
        \/ u.state[x] = s.state[x]
        \/ s.state[x] = "parked" /\ u.state[x] \in {"ready", "running"}
        \/ s.state[x] = "ready" /\ u.state[x] = "running"
  BY DEF LockStep
<1>2. u.fatal # s.fatal => \A x \in Routines \ N : u.state[x] # "parked"
  <2>1. CASE u.fatal # t.fatal
    BY <2>1 DEF LockStep
  <2>2. CASE u.fatal = t.fatal
    BY <2>2 DEF LockStep
  <2> QED
    BY <2>1, <2>2
<1>3. ~s.deadlocked /\ u.deadlocked =>
        /\ u.fatal # "none"
        /\ \A x \in Routines \ N : s.state[x] \in {"parked", "unborn", "done"}
  <2>1. CASE t.deadlocked
    BY <2>1 DEF LockStep
  <2>2. CASE ~t.deadlocked
    BY <2>2 DEF LockStep
  <2> QED
    BY <2>1, <2>2
<1> QED
  BY <1>1, <1>2, <1>3 DEF LockStep

\* A routine changes its own state, no failure coming up.
LEMMA OwnStep ==
  ASSUME NEW s, s.state \in [Routines -> RoutineStates], NEW t, NEW r \in Routines, NEW x,
         t.state = [s.state EXCEPT ![r] = x],
         t.fatal = s.fatal, t.deadlocked = s.deadlocked
  PROVE  LockStep(s, t, {r})
BY DEF LockStep

\* Handing the lock on moves the head of the queue alone.
LEMMA DispatchStep ==
  ASSUME NEW s, Mid(s)
  PROVE  /\ LockStep(s, DispatchLocked(s), {})
         /\ \A x \in Routines : DispatchLocked(s).state[x] = "parked" => s.state[x] = "parked"
         /\ DispatchLocked(s).fatal = s.fatal
         /\ DispatchLocked(s).deadlocked = s.deadlocked
         /\ s.ready # << >> => DispatchLocked(s).running # Nobody
<1>1. s \in SchedulerType
  BY DEF Mid
<1>2. CASE s.running # Nobody \/ s.ready = << >>
  BY <1>2 DEF DispatchLocked, LockStep
<1>3. CASE s.running = Nobody /\ s.ready # << >>
  <2> DEFINE h == Head(s.ready)
             t == [s EXCEPT !.running = h, !.ready = Tail(s.ready), !.state[h] = "running"]
  <2>1. DispatchLocked(s) = t
    BY <1>3 DEF DispatchLocked
  <2>2. h \in Routines /\ h = s.ready[1] /\ Len(s.ready) \in Nat \ {0}
    BY <1>1, <1>3, HeadTailProperties, EmptySeq DEF SchedulerType
  <2>3. s.state[h] = "ready"
    BY <2>2 DEF Mid
  <2>4. /\ t.state = [s.state EXCEPT ![h] = "running"] /\ t.running = h
        /\ t.fatal = s.fatal /\ t.deadlocked = s.deadlocked
    BY <1>1 DEF SchedulerType
  <2>5. \A x \in Routines : t.state[x] = IF x = h THEN "running" ELSE s.state[x]
    BY <1>1, <2>4 DEF SchedulerType
  <2> HIDE DEF h, t
  <2>6. LockStep(s, t, {})
    BY <2>3, <2>4, <2>5 DEF LockStep
  <2> QED
    BY <2>1, <2>2, <2>4, <2>5, <2>6, RoutinesFinite
<1> QED
  BY <1>2, <1>3

\* Waking moves those it names, and none of them stays parked.
LEMMA WakeLockedStep ==
  ASSUME NEW s, Mid(s), NEW q, Wakeable(s, q)
  PROVE  /\ LockStep(s, WakeLocked(s, q), {})
         /\ \A i \in 1 .. Len(q) : WakeLocked(s, q).state[q[i]] # "parked"
         /\ WakeLocked(s, q).fatal = s.fatal
         /\ WakeLocked(s, q).deadlocked = s.deadlocked
         /\ q # << >> => WakeLocked(s, q).running # Nobody
<1> DEFINE w == Woken(s, q)
<1>1. WakeLocked(s, q) = DispatchLocked(w)
  BY DEF WakeLocked, Woken
<1>2. s \in SchedulerType /\ Mid(w)
  BY WokenMid DEF Mid
<1>3. /\ q \in Seq(Routines) /\ DOMAIN q = 1 .. Len(q)
      /\ \A i \in 1 .. Len(q) : q[i] \in Routines /\ s.state[q[i]] = "parked"
  BY LenProperties, ElementOfSeq DEF Wakeable
<1>4. /\ \A x \in Routines : w.state[x] = IF \E i \in 1 .. Len(q) : q[i] = x THEN "ready"
                                                                        ELSE s.state[x]
      /\ w.fatal = s.fatal /\ w.deadlocked = s.deadlocked
      /\ w.ready = s.ready \o q
  BY <1>2, <1>3 DEF Woken, SchedulerType
<1> HIDE DEF w
<1>5. LockStep(s, w, {})
  BY <1>3, <1>4 DEF LockStep
<1>6. LockStep(s, DispatchLocked(w), {})
  BY <1>2, <1>5, DispatchStep, LockStepTrans
<1>7. \A i \in 1 .. Len(q) : DispatchLocked(w).state[q[i]] # "parked"
  <2>1. \A i \in 1 .. Len(q) : w.state[q[i]] = "ready"
    BY <1>3, <1>4
  <2> QED
    BY <1>2, <1>3, <2>1, DispatchStep
<1>8. q # << >> => w.ready # << >>
  <2> SUFFICES ASSUME q # << >> PROVE w.ready # << >>
    OBVIOUS
  <2>1. Len(q) \in Nat \ {0}
    BY <1>3, EmptySeq, LenProperties
  <2>2. s.ready \in Seq(Routines) /\ Len(s.ready) \in Nat
    BY <1>2, LenProperties DEF SchedulerType
  <2>3. Len(w.ready) = Len(s.ready) + Len(q)
    BY <1>3, <1>4, <2>2, ConcatProperties
  <2> QED
    BY <2>1, <2>2, <2>3
<1> QED
  BY <1>1, <1>2, <1>4, <1>6, <1>7, <1>8, DispatchStep

\* Of a waiter list nobody stays parked.
LEMMA WakeWaitersStep ==
  ASSUME NEW s, Mid(s), NEW q \in Seq(Routines)
  PROVE  /\ LockStep(s, WakeWaiters(s, q), {})
         /\ \A i \in 1 .. Len(q) : WakeWaiters(s, q).state[q[i]] # "parked"
         /\ WakeWaiters(s, q).fatal = s.fatal
         /\ WakeWaiters(s, q).deadlocked = s.deadlocked
<1> DEFINE F == FirstParkedEntries(s, q)
           p == ParkedAmong(s, q)
           w == WakeWaiters(s, q)
<1>1. w = WakeLocked(s, p) /\ Wakeable(s, p)
  BY ParkedAmongWakeable DEF WakeWaiters
<1>2. /\ LockStep(s, w, {})
      /\ \A i \in 1 .. Len(p) : w.state[p[i]] # "parked"
      /\ w.fatal = s.fatal /\ w.deadlocked = s.deadlocked
  BY <1>1, WakeLockedStep
<1>3. ASSUME NEW i \in 1 .. Len(q)
      PROVE  w.state[q[i]] # "parked"
  <2>1. DOMAIN q = 1 .. Len(q) /\ Len(q) \in Nat /\ q[i] \in Routines
    BY LenProperties, ElementOfSeq
  <2>2. CASE s.state[q[i]] # "parked"
    BY <1>2, <2>1, <2>2 DEF LockStep
  <2>3. CASE s.state[q[i]] = "parked"
    <3> DEFINE J == {j \in 1 .. Len(q) : q[j] = q[i]}
    <3>1. IsFiniteSet(1 .. Len(q)) /\ 1 .. Len(q) \subseteq Int
      BY PlacesFinite
    <3>2. J \in SUBSET Int /\ IsFiniteSet(J) /\ J # {}
      BY <3>1, FS_Subset
    <3>3. PICK f \in J : \A j \in J : f <= j
      BY <3>2, EndsExist
    <3>4. f \in 1 .. Len(q) /\ q[f] = q[i] /\ \A j \in 1 .. f - 1 : q[j] # q[i]
      BY <2>1, <3>3
    <3>5. f \in F
      BY <2>1, <2>3, <3>4 DEF FirstParkedEntries
    <3>6. F \in SUBSET Int /\ IsFiniteSet(F)
      BY <2>1, <3>1, FS_Subset DEF FirstParkedEntries
    <3>7. PICK k \in 1 .. Cardinality(F) : Ascending(F)[k] = f
      BY <3>5, <3>6, AscendingCovers
    <3>8. /\ Ascending(F) \in Seq(F) /\ Len(Ascending(F)) = Cardinality(F)
          /\ DOMAIN Ascending(F) = 1 .. Cardinality(F)
      BY <3>6, AscendingEnumerates, LenProperties
    <3>9. p = [n \in 1 .. Cardinality(F) |-> q[Ascending(F)[n]]] /\ Cardinality(F) \in Nat
      BY <3>6, <3>8, FS_CardinalityType DEF ParkedAmong, Entries
    <3>10. p[k] = q[i] /\ k \in 1 .. Len(p)
      BY <3>4, <3>7, <3>9
    <3> QED
      BY <1>2, <3>10
  <2> QED
    BY <2>2, <2>3
<1> QED
  BY <1>2, <1>3

\* Whatever the order a caller picks, the whole set is woken.
LEMMA OrdersStep ==
  ASSUME NEW s, Mid(s), NEW S \in SUBSET Routines, NEW q \in Orders(S),
         \A x \in S : s.state[x] = "parked"
  PROVE  /\ LockStep(s, WakeLocked(s, q), {})
         /\ \A x \in S : WakeLocked(s, q).state[x] # "parked"
         /\ WakeLocked(s, q).fatal = s.fatal
         /\ WakeLocked(s, q).deadlocked = s.deadlocked
<1>1. Wakeable(s, q)
  BY OrdersWakeable
<1>2. \A x \in S : \E i \in 1 .. Len(q) : q[i] = x
  <2>1. \A x \in S : \E i \in DOMAIN q : q[i] = x
    BY DEF Orders
  <2>2. DOMAIN q = 1 .. Len(q)
    BY <1>1, LenProperties DEF Wakeable
  <2> QED
    BY <2>1, <2>2
<1> QED
  BY <1>1, <1>2, WakeLockedStep

\* After abortAllLocked nobody is parked, and if somebody was the lock is held.
LEMMA AbortAllStep ==
  ASSUME NEW s, Mid(s)
  PROVE  /\ LockStep(s, AbortAllLocked(s), {})
         /\ \A x \in Routines : AbortAllLocked(s).state[x] # "parked"
         /\ AbortAllLocked(s).fatal = s.fatal
         /\ AbortAllLocked(s).deadlocked = s.deadlocked
         /\ s.parked # 0 => AbortAllLocked(s).running # Nobody
<1> DEFINE P == InState(s, "parked")
           q == ParkedLocked(s)
           w == AbortAllLocked(s)
<1>1. w = WakeLocked(s, q) /\ Wakeable(s, q)
  BY ParkedLockedWakeable DEF AbortAllLocked
<1>2. /\ LockStep(s, w, {})
      /\ \A i \in 1 .. Len(q) : w.state[q[i]] # "parked"
      /\ w.fatal = s.fatal /\ w.deadlocked = s.deadlocked
      /\ q # << >> => w.running # Nobody
  BY <1>1, WakeLockedStep
<1>3. P \in SUBSET Int /\ IsFiniteSet(P)
  <2>1. P \in SUBSET Routines /\ Routines \subseteq Int
    BY RoutinesFinite DEF InState
  <2> QED
    BY <2>1, RoutinesFinite, FS_Subset
<1>4. Len(q) = Cardinality(P) /\ \A x \in P : \E i \in 1 .. Len(q) : q[i] = x
  BY <1>3, AscendingEnumerates, AscendingCovers DEF ParkedLocked
<1>5. \A x \in Routines : w.state[x] # "parked"
  <2> SUFFICES ASSUME NEW x \in Routines, w.state[x] = "parked"
               PROVE  FALSE
    OBVIOUS
  <2>1. x \in P
    BY <1>2 DEF LockStep, InState
  <2> QED
    BY <1>2, <1>4, <2>1
<1>6. s.parked # 0 => q # << >>
  <2>1. s.parked = Cardinality(P)
    BY DEF Mid
  <2>2. Len(<< >>) = 0
    OBVIOUS
  <2> QED
    BY <1>4, <2>1, <2>2
<1> QED
  BY <1>2, <1>5, <1>6

\* The check reports a deadlock only if nobody could go on, and then wakes all.
LEMMA CheckDeadlockStep ==
  ASSUME NEW s, Sound(s)
  PROVE  /\ LockStep(s, CheckDeadlockLocked(s), {})
         /\ IdleIsChecked(CheckDeadlockLocked(s))
         /\ CheckDeadlockLocked(s).fatal # s.fatal =>
              \A x \in Routines : CheckDeadlockLocked(s).state[x] # "parked"
<1> DEFINE f == IF s.fatal = "none" THEN "deadlock" ELSE s.fatal
           t == [s EXCEPT !.fatal = f, !.deadlocked = TRUE]
           u == AbortAllLocked(t)
           idle == s.running = Nobody /\ s.ready = << >> /\ ~(s.external > 0) /\ s.parked # 0
<1>1. s \in SchedulerType /\ Mid(s)
  BY DEF Sound, Mid
<1>2. CASE ~idle \/ s.deadlocked
  <2>1. CheckDeadlockLocked(s) = s
    BY <1>2 DEF CheckDeadlockLocked
  <2>2. s.running = Nobody => s.ready = << >>
    BY DEF Sound
  <2> QED
    BY <1>2, <2>1, <2>2 DEF LockStep, IdleIsChecked
<1>3. CASE idle /\ ~s.deadlocked
  <2>1. CheckDeadlockLocked(s) = u
    BY <1>1, <1>3 DEF CheckDeadlockLocked, SchedulerType
  <2>2. /\ f \in {"deadlock", "panic"}
        /\ s.fatal # "none" => f = s.fatal
    BY <1>1 DEF SchedulerType
  <2>3. /\ OnlyMarks(s, t) /\ t.fatal = f /\ t.deadlocked
    BY <1>1, <2>2 DEF OnlyMarks, SchedulerType
  <2> HIDE DEF f, t
  <2>4. Mid(t) /\ t.parked # 0
    BY <1>1, <1>3, <2>3, MarksKeep DEF OnlyMarks
  <2>5. /\ LockStep(t, u, {})
        /\ \A x \in Routines : u.state[x] # "parked"
        /\ u.fatal = f /\ u.deadlocked = t.deadlocked
        /\ u.running # Nobody
    BY <2>3, <2>4, AbortAllStep
  <2>6. \A x \in Routines : s.state[x] \in {"parked", "unborn", "done"}
    <3> SUFFICES ASSUME NEW x \in Routines
                 PROVE  s.state[x] \in {"parked", "unborn", "done"}
      OBVIOUS
    <3>1. s.state[x] # "running"
      BY <1>1, <1>3, RoutinesFinite DEF Mid
    <3>2. s.state[x] # "ready"
      <4>1. Len(s.ready) = 0
        BY <1>3
      <4> QED
        BY <1>1, <4>1 DEF Mid
    <3>3. s.state[x] # "inHost"
      <4>1. s.external = Cardinality(InState(s, "inHost")) /\ s.external \in Nat
        BY <1>1 DEF Mid, SchedulerType
      <4>2. InState(s, "inHost") = {}
        BY <1>3, <4>1, CountsAreNat, FS_EmptySet
      <4> QED
        BY <4>2 DEF InState
    <3> QED
      BY <1>1, <3>1, <3>2, <3>3 DEF SchedulerType, RoutineStates
  <2>7. LockStep(s, u, {})
    BY <1>3, <2>2, <2>3, <2>5, <2>6 DEF LockStep, OnlyMarks
  <2> QED
    BY <2>1, <2>5, <2>7 DEF IdleIsChecked
<1> QED
  BY <1>2, <1>3

\* Letting the lock go.
LEMMA ReleaseStep ==
  ASSUME NEW s, Mid(s), \A r \in Routines : s.state[r] # "running"
  PROVE  /\ LockStep(s, ReleaseLocked(s), {})
         /\ IdleIsChecked(ReleaseLocked(s))
         /\ ReleaseLocked(s).fatal # s.fatal =>
              \A x \in Routines : ReleaseLocked(s).state[x] # "parked"
<1> DEFINE t == [s EXCEPT !.running = Nobody]
           d == DispatchLocked(t)
<1>1. s \in SchedulerType
  BY DEF Mid
<1>2. /\ t \in SchedulerType /\ t.running = Nobody
      /\ t.state = s.state /\ t.ready = s.ready
      /\ t.parked = s.parked /\ t.external = s.external
      /\ t.fatal = s.fatal /\ t.deadlocked = s.deadlocked
  BY <1>1 DEF SchedulerType
<1>3. \A x : InState(t, x) = InState(s, x)
  BY <1>2 DEF InState
<1> HIDE DEF t
<1>4. Mid(t)
  BY <1>2, <1>3 DEF Mid
<1>5. LockStep(s, t, {})
  BY <1>2 DEF LockStep
<1>6. Sound(d) /\ LockStep(t, d, {}) /\ d.fatal = s.fatal
  BY <1>2, <1>4, DispatchSound, DispatchStep
<1>7. ReleaseLocked(s) = CheckDeadlockLocked(d)
  BY DEF ReleaseLocked, t
<1> HIDE DEF d
<1>8. LockStep(s, d, {})
  BY <1>5, <1>6, LockStepTrans
<1>9. LockStep(s, CheckDeadlockLocked(d), {})
  BY <1>6, <1>8, CheckDeadlockStep, LockStepTrans
<1> QED
  BY <1>6, <1>7, <1>9, CheckDeadlockStep

\* Routine r has left for state x, letting the lock go.
LetGo(s, t, r, x) ==
  /\ LockStep(s, t, {r})
  /\ IdleIsChecked(t)
  /\ t.state[r] \in {x, "ready", "running"}
  /\ t.fatal # s.fatal => \A y \in Routines : t.state[y] # "parked"

\* It holds the lock, but is already counted where it goes.
Leaves(s, t, r, x) == Moves(s, t, r, x) /\ \A y \in Routines : t.state[y] # "running"

LEMMA ReleaseLetsGo ==
  ASSUME NEW s, NEW t, NEW r \in Routines, NEW x, Leaves(s, t, r, x)
  PROVE  LetGo(s, ReleaseLocked(t), r, x)
<1>1. LockStep(s, t, {r}) /\ t.state[r] = x /\ Mid(t) /\ t.fatal = s.fatal
  BY OwnStep DEF Leaves, Moves, SchedulerType
<1>2. /\ LockStep(t, ReleaseLocked(t), {})
      /\ IdleIsChecked(ReleaseLocked(t))
      /\ ReleaseLocked(t).fatal # t.fatal =>
           \A y \in Routines : ReleaseLocked(t).state[y] # "parked"
  BY <1>1, ReleaseStep DEF Leaves
<1>3. LockStep(s, ReleaseLocked(t), {r})
  BY <1>1, <1>2, LockStepTrans
<1>4. ReleaseLocked(t).state[r] \in {x, "ready", "running"}
  BY <1>1, <1>2 DEF LockStep
<1> QED
  BY <1>1, <1>2, <1>3, <1>4 DEF LetGo

\* Parking, calling the host and giving way let the lock go.
LEMMA ParkLockedStep ==
  ASSUME NEW s, Sound(s), NEW r \in Routines, s.running = r
  PROVE  LetGo(s, ParkLocked(s, r), r, "parked")
<1> DEFINE t == Parking(s, r)
<1>1. ParkLocked(s, r) = ReleaseLocked(t)
  BY DEF ParkLocked, Parking
<1>2. Leaves(s, t, r, "parked")
  BY ParkingMid DEF Leaves
<1> HIDE DEF t
<1> QED
  BY <1>1, <1>2, ReleaseLetsGo

LEMMA BeginHostCallStep ==
  ASSUME NEW s, Sound(s), NEW r \in Routines, s.running = r
  PROVE  LetGo(s, BeginHostCall(s, r), r, "inHost")
<1> DEFINE t == Calling(s, r)
<1>1. BeginHostCall(s, r) = ReleaseLocked(t)
  BY DEF BeginHostCall, Calling
<1>2. Leaves(s, t, r, "inHost")
  BY CallingMid DEF Leaves
<1> HIDE DEF t
<1> QED
  BY <1>1, <1>2, ReleaseLetsGo

LEMMA GiveWayLockedStep ==
  ASSUME NEW s, Sound(s), NEW r \in Routines, s.running = r
  PROVE  LetGo(s, GiveWayLocked(s, r), r, "ready")
<1> DEFINE t == Queueing(s, r)
<1>1. GiveWayLocked(s, r) = ReleaseLocked(t)
  BY DEF GiveWayLocked, Queueing
<1>2. Leaves(s, t, r, "ready")
  BY YieldingMid DEF Leaves
<1> HIDE DEF t
<1> QED
  BY <1>1, <1>2, ReleaseLetsGo

\* The routine that comes back from the host, or is new, takes a free lock.
LEMMA EndHostCallStep ==
  ASSUME NEW s, Sound(s), NEW r \in Routines, s.state[r] = "inHost"
  PROVE  /\ LockStep(s, EndHostCall(s, r), {r})
         /\ EndHostCall(s, r).running # Nobody
         /\ EndHostCall(s, r).state[r] \in {"ready", "running"}
         /\ EndHostCall(s, r).fatal = s.fatal
         /\ EndHostCall(s, r).deadlocked = s.deadlocked
<1> DEFINE t == Returning(s, r)
<1>1. EndHostCall(s, r) = DispatchLocked(t)
  BY DEF EndHostCall, Returning
<1>2. Moves(s, t, r, "ready")
  BY ReturningMid
<1>3. t.ready # << >>
  <2>1. t.ready = Append(s.ready, r) /\ s.ready \in Seq(Routines)
    BY <1>2 DEF Returning, Moves, SchedulerType
  <2> QED
    BY <2>1, AppendProperties
<1> HIDE DEF t
<1>4. LockStep(s, t, {r}) /\ t.state[r] = "ready" /\ Mid(t)
  BY <1>2, OwnStep DEF Moves, SchedulerType
<1>5. /\ LockStep(t, DispatchLocked(t), {}) /\ DispatchLocked(t).running # Nobody
      /\ DispatchLocked(t).fatal = t.fatal /\ DispatchLocked(t).deadlocked = t.deadlocked
  <2>1. t.running # Nobody => DispatchLocked(t) = t
    BY DEF DispatchLocked
  <2> QED
    BY <1>3, <1>4, <2>1, DispatchStep
<1>6. LockStep(s, DispatchLocked(t), {r})
  BY <1>4, <1>5, LockStepTrans
<1>7. DispatchLocked(t).state[r] \in {"ready", "running"}
  BY <1>4, <1>5 DEF LockStep
<1> QED
  BY <1>1, <1>2, <1>5, <1>6, <1>7 DEF Moves

LEMMA EnqueueNewStep ==
  ASSUME NEW s, Sound(s), NEW r \in Routines, s.state[r] = "unborn", s.running # Nobody
  PROVE  /\ EnqueueNew(s, r).state = [s.state EXCEPT ![r] = "ready"]
         /\ EnqueueNew(s, r).fatal = s.fatal
         /\ EnqueueNew(s, r).deadlocked = s.deadlocked
<1> DEFINE t == Queueing(s, r)
<1>1. EnqueueNew(s, r) = DispatchLocked(t)
  BY DEF EnqueueNew, Queueing
<1>2. Moves(s, t, r, "ready")
  BY QueueingMid
<1> HIDE DEF t
<1>3. DispatchLocked(t) = t
  BY <1>2 DEF DispatchLocked, Moves
<1> QED
  BY <1>1, <1>2, <1>3 DEF Moves

-----------------------------------------------------------------------------
(* The end of a routine *)

Ended(l, d, r) == d = [l EXCEPT !.state[r] = "done"]

\* A routine that ends stops running but still holds the lock.
LEMMA EndedMid ==
  ASSUME NEW l, Sound(l), NEW r \in Routines, l.running = r,
         NEW d, Ended(l, d, r)
  PROVE  /\ Mid(d) /\ d.running = r /\ d.state[r] = "done"
<1>1. l \in SchedulerType /\ Mid(l) /\ l.state[r] = "running"
  BY RoutinesFinite DEF Sound, Mid
<1>2. /\ d.state = [l.state EXCEPT ![r] = "done"] /\ d.ready = l.ready
      /\ d.running = r /\ d.parked = l.parked /\ d.external = l.external
  BY <1>1 DEF SchedulerType, Ended
<1>3. d \in SchedulerType
  <2>1. d.state \in [Routines -> RoutineStates]
    BY <1>1, <1>2 DEF SchedulerType, RoutineStates
  <2> QED
    BY <1>1, <1>2, <2>1 DEF SchedulerType, Ended
<1>4. \A x \in Routines : d.state[x] = IF x = r THEN "done" ELSE l.state[x]
  BY <1>1, <1>2 DEF SchedulerType
<1>5. InState(d, "parked") = InState(l, "parked") /\ InState(d, "inHost") = InState(l, "inHost")
  BY <1>1, <1>4 DEF InState
<1>6. \A x \in Routines : d.state[x] = "ready" <=> l.state[x] = "ready"
  BY <1>1, <1>4
<1>7. \A x \in Routines : d.state[x] = "running" => d.running = x
  BY <1>1, <1>2, <1>4 DEF Mid
<1>8. Mid(d)
  BY <1>1, <1>2, <1>3, <1>5, <1>6, <1>7 DEF Mid
<1> QED
  BY <1>2, <1>4, <1>8

=============================================================================
