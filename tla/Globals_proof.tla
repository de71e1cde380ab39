----------------------------- MODULE Globals_proof -----------------------------
(***************************************************************************)
(* For any globals, however their initializers read each other, and for    *)
(* any number of routines: a global is initialized by one of them at a     *)
(* time and marked so exactly as long, it is left without a value only by  *)
(* an error on its way up, and who is told of a recursive initialization   *)
(* is inside the initializer itself.                                       *)
(*                                                                         *)
(* The proof needs nothing of the run lock: the claim of GetWith alone     *)
(* keeps the others out, wherever a routine gives way.                     *)
(***************************************************************************)
EXTENDS Globals, FiniteSetTheorems, TLAPS

Activity == [ g : Globals \cup {NoGlobal}, task : Tasks, left : Int ]

DoingType ==
  /\ doing \in [ Routines -> Seq(Activity) ]
  /\ \A r \in Routines : Len(doing[r]) <= MaxCalls
SlotType == slot \in [ Globals -> { "uninitialized", "initializing", "initialized" } ]
WantType == want \in [ Routines -> [ g : Globals \cup {NoGlobal}, task : Tasks ] ]

\* Where, of the activities d of every routine, g is being initialized.
Inside(d, g) ==
  { x \in Routines \X (1 .. MaxCalls) : x[2] \in DOMAIN d[x[1]] /\ d[x[1]][x[2]].g = g }

Claimed ==
  \A g \in Globals :
    /\ slot[g] = "initializing" <=> Inside(doing, g) # {}
    /\ \A x, y \in Inside(doing, g) : x = y

IInv == DoingType /\ SlotType /\ WantType /\ Claimed

-----------------------------------------------------------------------------
(* Activities that begin and end.                                          *)

\* A new activity of a routine is one more place of its global.
Begun(d, r, e) == [ d EXCEPT ![r] = Append(d[r], e) ]

LEMMA BegunType ==
  ASSUME NEW d \in [ Routines -> Seq(Activity) ], NEW r \in Routines, NEW e \in Activity
  PROVE  /\ Begun(d, r, e) \in [ Routines -> Seq(Activity) ]
         /\ Begun(d, r, e)[r] = Append(d[r], e)
         /\ Len(Begun(d, r, e)[r]) = Len(d[r]) + 1
         /\ \A x \in Routines \ {r} : Begun(d, r, e)[x] = d[x]
BY DEF Begun

LEMMA BegunInside ==
  ASSUME NEW d \in [ Routines -> Seq(Activity) ], NEW r \in Routines, NEW e \in Activity,
         Len(d[r]) < MaxCalls, NEW g
  PROVE  /\ e.g = g => Inside(Begun(d, r, e), g) = Inside(d, g) \cup { << r, Len(d[r]) + 1 >> }
         /\ e.g # g => Inside(Begun(d, r, e), g) = Inside(d, g)
<1> DEFINE q == d[r]
           d1 == Begun(d, r, e)
<1>1. /\ q \in Seq(Activity) /\ Len(q) \in Nat /\ DOMAIN q = 1 .. Len(q)
      /\ Append(q, e) \in Seq(Activity) /\ Len(Append(q, e)) = Len(q) + 1
      /\ DOMAIN Append(q, e) = 1 .. Len(q) + 1
      /\ \A i \in 1 .. Len(q) : Append(q, e)[i] = q[i]
      /\ Append(q, e)[Len(q) + 1] = e
  OBVIOUS
<1>2. d1[r] = Append(q, e) /\ \A x \in Routines \ {r} : d1[x] = d[x]
  BY BegunType
<1>3. MaxCalls \in Nat /\ Len(q) + 1 \in 1 .. MaxCalls
  BY <1>1, GlobalsAssumption
<1> HIDE DEF q, d1
<1>4. ASSUME NEW x \in Routines, NEW i \in 1 .. MaxCalls
      PROVE  << x, i >> \in Inside(d1, g) <=>
               << x, i >> \in Inside(d, g) \/ (e.g = g /\ x = r /\ i = Len(q) + 1)
  <2>1. CASE x # r
    BY <1>2, <2>1 DEF Inside
  <2>2. CASE x = r
    <3>1. << x, i >> \in Inside(d1, g) <=> i \in 1 .. Len(q) + 1 /\ Append(q, e)[i].g = g
      BY <1>1, <1>2, <2>2 DEF Inside
    <3>2. << x, i >> \in Inside(d, g) <=> i \in 1 .. Len(q) /\ q[i].g = g
      BY <1>1, <2>2 DEF Inside, q
    <3>3. i \in 1 .. Len(q) + 1 <=> i \in 1 .. Len(q) \/ i = Len(q) + 1
      <4> DEFINE n == Len(q)
      <4>1. n \in Nat /\ MaxCalls \in Nat
        BY <1>1, <1>3
      <4> HIDE DEF n
      <4>2. i \in 1 .. n + 1 <=> i \in 1 .. n \/ i = n + 1
        BY <4>1
      <4>3. QED BY <4>2 DEF n
    <3>4. /\ i \in 1 .. Len(q) => Append(q, e)[i] = q[i]
          /\ i = Len(q) + 1 => Append(q, e)[i] = e /\ ~(i \in 1 .. Len(q))
      <4> DEFINE n == Len(q)
      <4>1. n \in Nat
        BY <1>1
      <4> HIDE DEF n
      <4>2. i = n + 1 => ~(i \in 1 .. n)
        BY <4>1
      <4>3. QED BY <1>1, <4>2 DEF n
    <3>5. QED BY <2>2, <3>1, <3>2, <3>3, <3>4
  <2>3. QED BY <2>1, <2>2
<1>5. << r, Len(q) + 1 >> \in Routines \X (1 .. MaxCalls)
  BY <1>3
<1>6. QED BY <1>4, <1>5 DEF Inside, q, d1

\* When one ends its place is the last.
LEMMA EndedInside ==
  ASSUME NEW d \in [ Routines -> Seq(Activity) ], NEW r \in Routines, d[r] # << >>
  PROVE  LET d1 == [ d EXCEPT ![r] = SubSeq(d[r], 1, Len(d[r]) - 1) ]
         IN  /\ d1 \in [ Routines -> Seq(Activity) ]
             /\ \A x \in Routines : Len(d1[x]) <= Len(d[x])
             /\ \A g : Inside(d1, g) = Inside(d, g) \ { << r, Len(d[r]) >> }
<1> DEFINE q == d[r]
           p == SubSeq(q, 1, Len(q) - 1)
           d1 == [ d EXCEPT ![r] = p ]
<1>1. q \in Seq(Activity) /\ Len(q) \in Nat \ {0} /\ DOMAIN q = 1 .. Len(q)
  OBVIOUS
<1> HIDE DEF q
<1>2. /\ p \in Seq(Activity) /\ Len(p) = Len(q) - 1 /\ DOMAIN p = 1 .. Len(q) - 1
      /\ \A i \in 1 .. Len(q) - 1 : p[i] = q[i]
  BY <1>1
<1> HIDE DEF p
<1>3. /\ d1 \in [ Routines -> Seq(Activity) ]
      /\ d1[r] = p /\ \A x \in Routines \ {r} : d1[x] = d[x]
  BY <1>2
<1>4. \A x \in Routines : Len(d1[x]) <= Len(d[x])
  BY <1>1, <1>2, <1>3 DEF q
<1>5. ASSUME NEW g PROVE Inside(d1, g) = Inside(d, g) \ { << r, Len(q) >> }
  <2>1. ASSUME NEW x \in Routines, NEW i \in 1 .. MaxCalls
        PROVE  << x, i >> \in Inside(d1, g) <=> << x, i >> \in Inside(d, g) /\ ~(x = r /\ i = Len(q))
    <3>1. CASE x # r
      BY <1>3, <3>1 DEF Inside
    <3>2. CASE x = r
      <4>1. << x, i >> \in Inside(d1, g) <=> i \in 1 .. Len(q) - 1 /\ p[i].g = g
        BY <1>2, <1>3, <3>2 DEF Inside
      <4>2. << x, i >> \in Inside(d, g) <=> i \in 1 .. Len(q) /\ q[i].g = g
        BY <1>1, <3>2 DEF Inside, q
      <4>3. i \in 1 .. Len(q) - 1 <=> i \in 1 .. Len(q) /\ i # Len(q)
        <5> DEFINE n == Len(q)
        <5>1. n \in Nat /\ MaxCalls \in Nat
          BY <1>1, GlobalsAssumption
        <5> HIDE DEF n
        <5>2. i \in 1 .. n - 1 <=> i \in 1 .. n /\ i # n
          BY <5>1
        <5>3. QED BY <5>2 DEF n
      <4>4. i \in 1 .. Len(q) - 1 => p[i] = q[i]
        BY <1>2
      <4>5. QED BY <3>2, <4>1, <4>2, <4>3, <4>4
    <3>3. QED BY <3>1, <3>2
  <2>2. QED BY <2>1 DEF Inside
<1>6. QED BY <1>3, <1>4, <1>5 DEF q, p

\* What counts down the switch points of an activity leaves it where it is.
LEMMA SpentInside ==
  ASSUME DoingType, NEW r \in Routines
  PROVE  LET d1 == [ doing EXCEPT ![r] = Spent(r) ]
         IN  /\ d1 \in [ Routines -> Seq(Activity) ]
             /\ \A x \in Routines : Len(d1[x]) = Len(doing[x])
             /\ \A g : Inside(d1, g) = Inside(doing, g)
<1> DEFINE q == doing[r]
           d1 == [ doing EXCEPT ![r] = Spent(r) ]
<1>1. q \in Seq(Activity) /\ Len(q) \in Nat /\ DOMAIN q = 1 .. Len(q)
  BY DEF DoingType
<1>2. /\ Spent(r) \in Seq(Activity) /\ Len(Spent(r)) = Len(q) /\ DOMAIN Spent(r) = 1 .. Len(q)
      /\ \A i \in 1 .. Len(q) : Spent(r)[i].g = q[i].g
  <2>1. CASE q = << >>
    BY <2>1 DEF Spent, Busy
  <2>2. CASE q # << >>
    <3> DEFINE n == Len(q)
               e == [ q[n] EXCEPT !.left = q[n].left - 1 ]
    <3>1. Spent(r) = [ q EXCEPT ![n] = e ] /\ n \in 1 .. Len(q) /\ q[n] \in Activity
      BY <1>1, <2>2 DEF Spent, Busy
    <3>2. e \in Activity /\ e.g = q[n].g
      BY <3>1 DEF Activity
    <3> HIDE DEF e
    <3>3. QED BY <1>1, <3>1, <3>2
  <2>3. QED BY <2>1, <2>2
<1>3. /\ d1 \in [ Routines -> Seq(Activity) ]
      /\ d1[r] = Spent(r) /\ \A x \in Routines \ {r} : d1[x] = doing[x]
  BY <1>2 DEF DoingType
<1>4. \A x \in Routines : Len(d1[x]) = Len(doing[x])
  BY <1>2, <1>3
<1>5. ASSUME NEW g PROVE Inside(d1, g) = Inside(doing, g)
  BY <1>1, <1>2, <1>3 DEF Inside
<1>6. QED BY <1>3, <1>4, <1>5

-----------------------------------------------------------------------------
(* The steps.                                                              *)

\* What touches neither the activities nor the slots.
LEMMA NothingBegun ==
  ASSUME IInv, WantType', UNCHANGED << slot, doing >>
  PROVE  IInv'
BY DEF IInv, DoingType, SlotType, Claimed, Inside

\* The tasks code reads globals as.
LEMMA TasksAreTasks ==
  ASSUME DoingType, NEW r \in Routines
  PROVE  TaskOf(r) \in Tasks /\ MachineTask(r) \in Tasks
<1>1. MaxCalls \in Nat /\ -1 \in -1 .. MaxCalls /\ 0 \in -1 .. MaxCalls
  BY GlobalsAssumption
<1>2. Root \in Routines
  BY MaxRoutinesAssumption DEF Root, Routines
<1>3. MachineTask(r) \in Tasks
  BY <1>1, <1>2 DEF MachineTask, Tasks
<1>4. Busy(r) => Top(r).task \in Tasks
  <2>1. SUFFICES ASSUME doing[r] # << >> PROVE doing[r][Len(doing[r])] \in Activity
    BY DEF Busy, Top, Activity
  <2>2. doing[r] \in Seq(Activity) /\ Len(doing[r]) \in 1 .. Len(doing[r])
    BY <2>1 DEF DoingType
  <2>3. QED BY <2>2
<1>5. << r, 0 >> \in Tasks
  BY <1>1 DEF Tasks
<1>6. QED BY <1>3, <1>4, <1>5 DEF TaskOf

\* A routine waits for a slot as a task.
LEMMA WantStays ==
  ASSUME WantType, NEW r \in Routines, NEW g \in Globals \cup {NoGlobal}, NEW task \in Tasks,
         \/ want' = [ want EXCEPT ![r] = Idle ]
         \/ want' = [ want EXCEPT ![r] = [ g |-> g, task |-> task ] ]
         \/ want' = want
  PROVE  WantType'
<1>1. Idle \in [ g : Globals \cup {NoGlobal}, task : Tasks ]
  BY MaxRoutinesAssumption, GlobalsAssumption DEF Idle, NoTask, Tasks, Root, Routines
<1>2. [ g |-> g, task |-> task ] \in [ g : Globals \cup {NoGlobal}, task : Tasks ]
  OBVIOUS
<1>3. QED BY <1>1, <1>2 DEF WantType

\* Whoever claims a slot is the only one in its initializer.
LEMMA PushPreserves ==
  ASSUME IInv, NEW r \in Routines, NEW g \in Globals \cup {NoGlobal}, NEW task \in Tasks,
         Push(r, g, task), slot[g] = "uninitialized",
         slot' = [ slot EXCEPT ![g] = "initializing" ], WantType'
  PROVE  IInv'
<1> DEFINE new == << r, Len(doing[r]) + 1 >>
<1>1. doing \in [ Routines -> Seq(Activity) ] /\ Len(doing[r]) < MaxCalls
  BY DEF IInv, DoingType, Push
<1>2. PICK e \in Activity : e.g = g /\ doing' = Begun(doing, r, e)
  <2> DEFINE e == [ g |-> g, task |-> task, left |-> MaxSwitches ]
  <2>1. e \in Activity /\ e.g = g
    BY GlobalsAssumption DEF Activity
  <2>2. doing' = Begun(doing, r, e)
    BY DEF Push, Begun
  <2>3. QED BY <2>1, <2>2
<1>3. /\ doing' \in [ Routines -> Seq(Activity) ] /\ Len(doing'[r]) = Len(doing[r]) + 1
      /\ \A x \in Routines \ {r} : doing'[x] = doing[x]
  BY <1>1, <1>2, BegunType
<1>4. /\ Inside(doing', g) = Inside(doing, g) \cup { new }
      /\ \A h : h # g => Inside(doing', h) = Inside(doing, h)
  <2>1. Inside(Begun(doing, r, e), e.g) = Inside(doing, e.g) \cup { << r, Len(doing[r]) + 1 >> }
    BY <1>1, BegunInside
  <2>2. Inside(doing', g) = Inside(doing, g) \cup { new }
    BY <1>2, <2>1
  <2>3. ASSUME NEW h, h # g PROVE Inside(doing', h) = Inside(doing, h)
    BY <1>1, <1>2, <2>3, BegunInside
  <2>4. QED BY <2>2, <2>3
<1>5. DoingType'
  <2>1. \A x \in Routines : Len(doing[x]) \in Nat /\ Len(doing[x]) <= MaxCalls
    BY DEF IInv, DoingType
  <2>2. ASSUME NEW x \in Routines PROVE Len(doing'[x]) <= MaxCalls
    <3>1. CASE x # r
      BY <1>3, <2>1, <3>1
    <3>2. CASE x = r
      <4> DEFINE n == Len(doing[r])
      <4>1. n \in Nat /\ n < MaxCalls /\ MaxCalls \in Nat
        BY <1>1, <2>1, GlobalsAssumption
      <4> HIDE DEF n
      <4>2. n + 1 <= MaxCalls
        BY <4>1
      <4>3. QED BY <1>3, <3>2, <4>2 DEF n
    <3>3. QED BY <3>1, <3>2
  <2>3. QED BY <1>3, <2>2 DEF DoingType
<1>6. SlotType'
  BY DEF IInv, SlotType
<1>7. Claimed'
  <2>1. SUFFICES ASSUME NEW h \in Globals
                 PROVE  /\ slot'[h] = "initializing" <=> Inside(doing', h) # {}
                        /\ \A x, y \in Inside(doing', h) : x = y
    BY DEF Claimed, Inside
  <2>2. CASE h = g
    BY <1>4, <2>2 DEF IInv, Claimed, SlotType
  <2>3. CASE h # g
    BY <1>4, <2>3 DEF IInv, Claimed, SlotType
  <2>4. QED BY <2>2, <2>3
<1>8. QED BY <1>5, <1>6, <1>7 DEF IInv

LEMMA GetWithPreserves ==
  ASSUME IInv, NEW r \in Routines, NEW g \in Globals \cup {NoGlobal}, NEW task \in Tasks,
         GetWith(r, g, task)
  PROVE  IInv'
<1>1. WantType'
  BY WantStays DEF GetWith, Answer, IInv
<1>2. CASE UNCHANGED << slot, doing >>
  BY <1>1, <1>2, NothingBegun
<1>3. CASE slot[g] = "uninitialized" /\ slot' = [ slot EXCEPT ![g] = "initializing" ] /\ Push(r, g, task)
  BY <1>1, <1>3, PushPreserves
<1>4. QED BY <1>2, <1>3 DEF GetWith

\* No slot is written while it is being initialized.
LEMMA SetPassPreserves ==
  ASSUME IInv, NEW r \in Routines, NEW g \in Globals \cup {NoGlobal}, NEW task \in Tasks,
         SetPass(r, g, task)
  PROVE  IInv'
<1>1. WantType' /\ doing' = doing
  BY WantStays DEF SetPass, Answer, IInv
<1>2. CASE slot' = slot
  BY <1>1, <1>2, NothingBegun
<1>3. CASE slot[g] # "initializing" /\ slot' = [ slot EXCEPT ![g] = "initialized" ]
  <2>1. DoingType' /\ SlotType'
    BY <1>1, <1>3 DEF IInv, DoingType, SlotType
  <2>2. Claimed'
    BY <1>1, <1>3 DEF IInv, SlotType, Claimed, Inside
  <2>3. QED BY <1>1, <2>1, <2>2 DEF IInv
<1>4. QED BY <1>2, <1>3 DEF SetPass

\* Whoever ends an initializer, with a value or with an error, was the only one
\* in it.
LEMMA PopPreserves ==
  ASSUME IInv, NEW r \in Routines, Busy(r), Pop(r), want' = want,
         IF Top(r).g = NoGlobal THEN slot' = slot ELSE slot' = [ slot EXCEPT ![Top(r).g] = "initialized" ]
  PROVE  IInv'
<1> DEFINE last == << r, Len(doing[r]) >>
<1>1. /\ doing \in [ Routines -> Seq(Activity) ] /\ doing[r] # << >>
      /\ Len(doing[r]) \in 1 .. MaxCalls /\ Len(doing[r]) \in DOMAIN doing[r]
      /\ doing' = [ doing EXCEPT ![r] = SubSeq(doing[r], 1, Len(doing[r]) - 1) ]
  <2>1. doing \in [ Routines -> Seq(Activity) ] /\ doing[r] # << >> /\ Len(doing[r]) <= MaxCalls
    BY DEF IInv, DoingType, Busy
  <2>2. Len(doing[r]) \in Nat \ {0} /\ DOMAIN doing[r] = 1 .. Len(doing[r])
    BY <2>1
  <2>3. QED BY <2>1, <2>2, GlobalsAssumption DEF Pop
<1>2. /\ doing' \in [ Routines -> Seq(Activity) ]
      /\ \A x \in Routines : Len(doing'[x]) <= Len(doing[x])
      /\ \A h : Inside(doing', h) = Inside(doing, h) \ { last }
  BY <1>1, EndedInside
<1>3. Top(r).g \in Globals \cup {NoGlobal}
  <2>1. doing[r] \in Seq(Activity)
    BY <1>1
  <2>2. doing[r][Len(doing[r])] \in Activity
    BY <1>1, <2>1
  <2>3. QED BY <2>2 DEF Top, Activity
<1>4. \A h : last \in Inside(doing, h) <=> h = Top(r).g
  BY <1>1 DEF Inside, Top
<1>5. DoingType'
  <2>1. \A x \in Routines : Len(doing[x]) \in Nat /\ Len(doing'[x]) \in Nat /\ Len(doing[x]) <= MaxCalls
    BY <1>1, <1>2 DEF IInv, DoingType
  <2>2. QED BY <1>2, <2>1, GlobalsAssumption DEF DoingType
<1>6. SlotType'
  BY DEF IInv, SlotType
<1>7. WantType'
  BY DEF IInv, WantType
<1>8. Claimed'
  <2>1. SUFFICES ASSUME NEW h \in Globals
                 PROVE  /\ slot'[h] = "initializing" <=> Inside(doing', h) # {}
                        /\ \A x, y \in Inside(doing', h) : x = y
    BY DEF Claimed, Inside
  <2>2. h # NoGlobal /\ slot[h] \in { "uninitialized", "initializing", "initialized" }
    BY NoGlobalAssumption DEF IInv, SlotType
  <2>3. CASE h = Top(r).g
    <3>1. slot'[h] = "initialized"
      BY <2>2, <2>3 DEF IInv, SlotType
    <3>2. Inside(doing', h) = {}
      BY <1>2, <1>4, <2>3 DEF IInv, Claimed
    <3>3. QED BY <3>1, <3>2
  <2>4. CASE h # Top(r).g
    <3>1. slot'[h] = slot[h]
      BY <2>4 DEF IInv, SlotType
    <3>2. Inside(doing', h) = Inside(doing, h)
      BY <1>2, <1>4, <2>4
    <3>3. QED BY <3>1, <3>2 DEF IInv, Claimed
  <2>5. QED BY <2>3, <2>4
<1>9. QED BY <1>5, <1>6, <1>7, <1>8 DEF IInv

\* A switch point is spent.
LEMMA SpendPreserves ==
  ASSUME IInv, NEW r \in Routines, SpendSwitch(r), UNCHANGED << slot, want >>
  PROVE  IInv'
<1>1. /\ doing' \in [ Routines -> Seq(Activity) ]
      /\ \A x \in Routines : Len(doing'[x]) = Len(doing[x])
      /\ \A h : Inside(doing', h) = Inside(doing, h)
  BY SpentInside DEF IInv, SpendSwitch
<1>2. DoingType'
  BY <1>1 DEF IInv, DoingType
<1>3. SlotType' /\ WantType'
  BY DEF IInv, SlotType, WantType
<1>4. Claimed'
  <2>1. SUFFICES ASSUME NEW h \in Globals
                 PROVE  /\ slot'[h] = "initializing" <=> Inside(doing', h) # {}
                        /\ \A x, y \in Inside(doing', h) : x = y
    BY DEF Claimed, Inside
  <2>2. QED BY <1>1 DEF IInv, Claimed
<1>5. QED BY <1>2, <1>3, <1>4 DEF IInv

\* A callback is an activity of no global.
LEMMA CallFunctionPreserves ==
  ASSUME IInv, NEW r \in Routines, CallFunction(r)
  PROVE  IInv'
<1> DEFINE d1 == [ doing EXCEPT ![r] = Spent(r) ]
           e == [ g |-> NoGlobal, task |-> << r, Len(doing[r]) + 1 >>, left |-> MaxSwitches ]
<1>1. /\ slot' = slot /\ want' = want /\ Len(doing[r]) < MaxCalls
      /\ doing' = [ doing EXCEPT ![r] = Append(Spent(r), e) ]
      /\ doing \in [ Routines -> Seq(Activity) ]
  BY DEF CallFunction, IInv, DoingType
<1>2. /\ d1 \in [ Routines -> Seq(Activity) ]
      /\ \A x \in Routines : Len(d1[x]) = Len(doing[x])
      /\ \A h : Inside(d1, h) = Inside(doing, h)
  BY SpentInside DEF IInv
<1>3. e \in Activity /\ e.g = NoGlobal
  <2>1. Len(doing[r]) \in Nat /\ MaxCalls \in Nat
    BY <1>1, GlobalsAssumption
  <2>2. << r, Len(doing[r]) + 1 >> \in Tasks
    BY <1>1, <2>1 DEF Tasks
  <2>3. QED BY <2>2, GlobalsAssumption DEF Activity
<1>4. doing' = Begun(d1, r, e) /\ Len(d1[r]) < MaxCalls
  BY <1>1, <1>2 DEF Begun
<1> HIDE DEF d1, e
<1>5. /\ doing' \in [ Routines -> Seq(Activity) ] /\ Len(doing'[r]) = Len(d1[r]) + 1
      /\ \A x \in Routines \ {r} : doing'[x] = d1[x]
  BY <1>2, <1>3, <1>4, BegunType
<1>6. ASSUME NEW h \in Globals PROVE Inside(doing', h) = Inside(d1, h)
  <2>1. e.g # h
    BY <1>3, NoGlobalAssumption
  <2>2. QED BY <1>2, <1>3, <1>4, <2>1, BegunInside
<1>7. DoingType'
  <2>1. \A x \in Routines : Len(doing[x]) \in Nat /\ Len(doing[x]) <= MaxCalls
    BY DEF IInv, DoingType
  <2>2. QED BY <1>1, <1>2, <1>5, <2>1, GlobalsAssumption DEF DoingType
<1>8. SlotType' /\ WantType'
  BY <1>1 DEF IInv, SlotType, WantType
<1>9. Claimed'
  <2>1. SUFFICES ASSUME NEW h \in Globals
                 PROVE  /\ slot'[h] = "initializing" <=> Inside(doing', h) # {}
                        /\ \A x, y \in Inside(doing', h) : x = y
    BY DEF Claimed, Inside
  <2>2. QED BY <1>1, <1>2, <1>6 DEF IInv, Claimed
<1>10. QED BY <1>7, <1>8, <1>9 DEF IInv

-----------------------------------------------------------------------------
(* The whole.                                                              *)

LEMMA InitIsClaimed == Init => IInv
<1>1. SUFFICES ASSUME Init PROVE IInv
  OBVIOUS
<1>2. DoingType
  BY <1>1, GlobalsAssumption DEF Init, DoingType
<1>3. SlotType
  BY <1>1 DEF Init, SlotType
<1>4. WantType
  BY <1>1, MaxRoutinesAssumption, GlobalsAssumption DEF Init, WantType, Idle, NoTask, Tasks, Root, Routines
<1>5. Claimed
  BY <1>1 DEF Init, Claimed, Inside
<1>6. QED BY <1>2, <1>3, <1>4, <1>5 DEF IInv

LEMMA StepIsClaimed == IInv /\ [Next]_vars => IInv'
<1>1. SUFFICES ASSUME IInv, [Next]_vars PROVE IInv'
  OBVIOUS
<1>2. CASE UNCHANGED vars
  BY <1>1, <1>2, NothingBegun DEF vars, globalVars, IInv, WantType
<1>3. ASSUME NEW r \in Routines, NEW g \in Globals, Read(r, g) \/ Set(r, g) PROVE IInv'
  BY <1>1, <1>3, TasksAreTasks, GetWithPreserves, SetPassPreserves DEF Read, Set, IInv
<1>4. ASSUME NEW r \in Routines, SpinRead(r) \/ SpinSet(r) PROVE IInv'
  <2>1. want[r].g \in Globals \cup {NoGlobal} /\ want[r].task \in Tasks
    BY <1>1 DEF IInv, WantType
  <2>2. QED BY <1>1, <1>4, <2>1, GetWithPreserves, SetPassPreserves DEF SpinRead, SpinSet
<1>5. ASSUME NEW r \in Routines, Finish(r) PROVE IInv'
  BY <1>1, <1>5, PopPreserves DEF Finish
<1>6. ASSUME NEW r \in Routines, Unwind(r) PROVE IInv'
  BY <1>1, <1>6, PopPreserves DEF Unwind
<1>7. ASSUME NEW r \in Routines, HostCall(r) PROVE IInv'
  BY <1>1, <1>7, SpendPreserves DEF HostCall
<1>8. ASSUME NEW r \in Routines, Otherwise(r) PROVE IInv'
  <2>1. UNCHANGED << slot, want >> /\ (SpendSwitch(r) \/ doing' = doing)
    BY <1>8 DEF Otherwise
  <2>2. CASE SpendSwitch(r)
    BY <1>1, <2>1, <2>2, SpendPreserves
  <2>3. CASE doing' = doing
    BY <1>1, <2>1, <2>3, NothingBegun DEF IInv, WantType
  <2>4. QED BY <2>1, <2>2, <2>3
<1>9. ASSUME NEW r \in Routines, \/ Fail(r) \/ AfterHostCall(r) \/ HostReturns(r)
                                 \/ StepOnAnothersFrame(r) \/ \E g \in Globals : HostResolve(r, g)
      PROVE IInv'
  <2>1. UNCHANGED << slot, doing, want >>
    BY <1>9 DEF Fail, AfterHostCall, HostReturns, StepOnAnothersFrame, HostResolve, globalVars
  <2>2. QED BY <1>1, <2>1, NothingBegun DEF IInv, WantType
<1>10. ASSUME NEW r \in Routines, RoutineStep(r) PROVE IInv'
  BY <1>1, <1>3, <1>4, <1>5, <1>6, <1>7, <1>8, <1>9, <1>10, CallFunctionPreserves DEF RoutineStep
<1>11. QED BY <1>1, <1>2, <1>9, <1>10 DEF Next, Stopped

\* A slot is initialized by one routine at a time, and marked as long as one is
\* in its initializer: the compare and swap of GetWith and the store that ends
\* it, whatever the initializers read, however they end and whoever gives way.
THEOREM OneInitializerHolds == Spec => []OneInitializer
<1>1. IInv => OneInitializer
  <2>1. SUFFICES ASSUME IInv, NEW g \in Globals
                 PROVE  Cardinality(Inside(doing, g)) = (IF slot[g] = "initializing" THEN 1 ELSE 0)
    BY DEF OneInitializer, Inside
  <2>2. CASE slot[g] = "initializing"
    <3>1. PICK x : Inside(doing, g) = { x }
      BY <2>1, <2>2 DEF IInv, Claimed
    <3>2. QED BY <2>2, <3>1, FS_Singleton
  <2>3. CASE slot[g] # "initializing"
    BY <2>1, <2>3, FS_EmptySet DEF IInv, Claimed
  <2>4. QED BY <2>2, <2>3
<1>2. QED BY <1>1, InitIsClaimed, StepIsClaimed, PTL DEF Spec

-----------------------------------------------------------------------------
(* Who waits, and who has failed.                                          *)

Places == { "start", "user", "turn", "host", "spin", "set", "close", "ended" }
Reasons == { "no", "cancelled", "panic" }

FlowType ==
  /\ at \in [ Routines -> Places ] /\ unwind \in [ Routines -> Reasons ]
  /\ owner \in [ Globals -> Tasks ]
  /\ value \in [ Globals -> { "nil", "made", "written" } ]

\* A routine that waits for a slot has found it claimed, by another task than the
\* one it reads as.
Waiting(x) ==
  /\ want[x].g \in Globals /\ slot[want[x].g] # "uninitialized"
  /\ slot[want[x].g] = "initializing" => owner[want[x].g] # want[x].task

WaitersAreNotOwners == \A x \in Routines : at[x] = "spin" => Waiting(x)

\* Only the error of a routine leaves a slot without a value.
NilIsAFailure ==
  \A g \in Globals :
    slot[g] = "initialized" /\ value[g] = "nil" => \E r \in Routines : unwind[r] # "no"

\* A slot once claimed keeps its owner and is never up for grabs again.
SlotsAge ==
  \A g \in Globals :
    slot[g] # "uninitialized" =>
      /\ slot'[g] # "uninitialized" /\ owner'[g] = owner[g]
      /\ slot[g] = "initialized" => slot'[g] = "initialized"

\* What a step of r may do to the flow of the routines.
Flows(r) ==
  /\ at' \in [ Routines -> Places ] /\ unwind' \in [ Routines -> Reasons ]
  /\ \A x \in Routines \ {r} : at'[x] = at[x] /\ unwind'[x] = unwind[x] /\ want'[x] = want[x]
  /\ unwind[r] # "no" => unwind'[r] # "no"

\* What a step of r may do to the slots and their values.
Fills(r) ==
  /\ SlotType' /\ SlotsAge
  /\ owner' \in [ Globals -> Tasks ] /\ value' \in [ Globals -> { "nil", "made", "written" } ]
  /\ \A g \in Globals : slot'[g] = "initialized" /\ value'[g] = "nil" =>
       \/ slot[g] = "initialized" /\ value[g] = "nil"
       \/ unwind[r] # "no"

FInv == FlowType /\ WaitersAreNotOwners /\ NilIsAFailure

LEMMA FlowKeeps ==
  ASSUME SlotType, FInv, NEW r \in Routines, Flows(r), Fills(r),
         at'[r] = "spin" => Waiting(r)'
  PROVE  FInv'
<1>1. FlowType'
  BY DEF Flows, Fills, FlowType
<1>2. WaitersAreNotOwners'
  <2>1. SUFFICES ASSUME NEW x \in Routines, x # r, at'[x] = "spin" PROVE Waiting(x)'
    BY DEF WaitersAreNotOwners
  <2>2. Waiting(x) /\ want'[x] = want[x]
    BY <2>1 DEF Flows, FInv, WaitersAreNotOwners
  <2>3. QED BY <2>2 DEF Waiting, Fills, SlotsAge, SlotType
<1>3. NilIsAFailure'
  <2>1. SUFFICES ASSUME NEW g \in Globals, slot'[g] = "initialized", value'[g] = "nil"
                 PROVE  \E x \in Routines : unwind'[x] # "no"
    BY DEF NilIsAFailure
  <2>2. CASE unwind[r] # "no"
    BY <2>2 DEF Flows
  <2>3. CASE slot[g] = "initialized" /\ value[g] = "nil"
    <3>1. PICK x \in Routines : unwind[x] # "no"
      BY <2>3 DEF FInv, NilIsAFailure
    <3>2. QED BY <3>1 DEF Flows
  <2>4. QED BY <2>1, <2>2, <2>3 DEF Fills
<1>4. QED BY <1>1, <1>2, <1>3 DEF FInv

LEMMA ReturnFlows ==
  ASSUME FlowType, NEW r \in Routines, NEW reason \in Reasons, Return(r, reason),
         \A x \in Routines \ {r} : want'[x] = want[x]
  PROVE  Flows(r) /\ at'[r] = "user"
BY DEF FlowType, Return, Flows, Places, Reasons

LEMMA EnterFlows ==
  ASSUME FlowType, NEW r \in Routines, NEW p \in Places, Enter(r, p),
         \A x \in Routines \ {r} : want'[x] = want[x]
  PROVE  Flows(r) /\ at'[r] = p
BY DEF FlowType, Enter, Flows, Places, Reasons

LEMMA StayFlows ==
  ASSUME FlowType, NEW r \in Routines, UNCHANGED << at, unwind, want >>
  PROVE  Flows(r)
BY DEF FlowType, Flows

LEMMA StopReasonIsReason ==
  ASSUME NEW r PROVE StopReason(r) \in Reasons
BY DEF StopReason, StopReasonLocked, Reasons

\* Slots that nobody touches.
LEMMA SlotsStay ==
  ASSUME SlotType, FlowType, NEW r \in Routines, UNCHANGED << slot, owner, value >>
  PROVE  Fills(r)
BY DEF Fills, SlotsAge, SlotType, FlowType

LEMMA GetWithFlows ==
  ASSUME IInv, FInv, NEW r \in Routines, NEW g \in Globals, NEW task \in Tasks,
         GetWith(r, g, task)
  PROVE  FInv'
<1>1. FlowType /\ SlotType /\ WantType
  BY DEF FInv, IInv
<1>2. ASSUME NEW reason \in Reasons, Answer(r, reason), Fills(r) PROVE FInv'
  BY <1>1, <1>2, ReturnFlows, FlowKeeps DEF Answer, WantType
<1>3. CASE slot[g] = "uninitialized" /\ Answer(r, "no")
           /\ slot' = [ slot EXCEPT ![g] = "initializing" ] /\ owner' = [ owner EXCEPT ![g] = task ]
  <2>1. Fills(r)
    BY <1>1, <1>3 DEF GetWith, Fills, SlotsAge, SlotType, FlowType
  <2>2. QED BY <1>2, <1>3, <2>1 DEF Reasons
<1>4. CASE Answer(r, "no") /\ UNCHANGED << slot, owner >>
  BY <1>1, <1>2, <1>4, SlotsStay DEF Reasons, GetWith
<1>5. CASE Answer(r, "panic") /\ UNCHANGED << slot, owner >>
  BY <1>1, <1>2, <1>5, SlotsStay DEF Reasons, GetWith
<1>6. CASE /\ slot[g] = "initializing" /\ owner[g] # task /\ Enter(r, "spin")
           /\ want' = [ want EXCEPT ![r] = [ g |-> g, task |-> task ] ]
           /\ UNCHANGED << slot, owner >>
  <2>1. Flows(r) /\ Fills(r)
    BY <1>1, <1>6, EnterFlows, SlotsStay DEF Places, GetWith, WantType
  <2>2. Waiting(r)'
    BY <1>1, <1>6 DEF Waiting, WantType
  <2>3. QED BY <1>1, <2>1, <2>2, FlowKeeps
<1>7. QED BY <1>3, <1>4, <1>5, <1>6 DEF GetWith

LEMMA SetPassFlows ==
  ASSUME IInv, FInv, NEW r \in Routines, NEW g \in Globals \cup {NoGlobal}, NEW task \in Tasks,
         SetPass(r, g, task)
  PROVE  FInv'
<1>1. FlowType /\ SlotType /\ WantType
  BY DEF FInv, IInv
<1>2. CASE Answer(r, "panic") /\ UNCHANGED << slot, value >>
  <2>1. Flows(r) /\ at'[r] = "user" /\ Fills(r)
    BY <1>1, <1>2, ReturnFlows, SlotsStay DEF Answer, WantType, Reasons, SetPass
  <2>2. QED BY <1>1, <2>1, FlowKeeps
<1>3. CASE /\ Enter(r, "set") /\ UNCHANGED << slot, value >>
           /\ want' = [ want EXCEPT ![r] = [ g |-> g, task |-> task ] ]
  <2>1. Flows(r) /\ at'[r] = "set" /\ Fills(r)
    BY <1>1, <1>3, EnterFlows, SlotsStay DEF Places, WantType, SetPass
  <2>2. QED BY <1>1, <2>1, FlowKeeps
<1>4. CASE /\ slot[g] # "initializing" /\ Answer(r, "no")
           /\ slot' = [ slot EXCEPT ![g] = "initialized" ]
           /\ value' = [ value EXCEPT ![g] = "written" ]
  <2>1. Flows(r) /\ at'[r] = "user"
    BY <1>1, <1>4, ReturnFlows DEF Answer, WantType, Reasons
  <2>2. Fills(r)
    BY <1>1, <1>4 DEF SetPass, Fills, SlotsAge, SlotType, FlowType
  <2>3. QED BY <1>1, <2>1, <2>2, FlowKeeps
<1>5. QED BY <1>2, <1>3, <1>4 DEF SetPass

\* The innermost initializer ends, with what it made or, if it failed, without.
LEMMA EndFlows ==
  ASSUME IInv, FInv, NEW r \in Routines, Busy(r), UNCHANGED << at, unwind, want, owner >>,
         IF Top(r).g = NoGlobal THEN UNCHANGED << slot, value >>
         ELSE /\ slot' = [ slot EXCEPT ![Top(r).g] = "initialized" ]
              /\ \/ value' = [ value EXCEPT ![Top(r).g] = "made" ]
                 \/ unwind[r] # "no" /\ value' = [ value EXCEPT ![Top(r).g] = "nil" ]
  PROVE  FInv'
<1>1. FlowType /\ SlotType
  BY DEF FInv, IInv
<1>2. Flows(r) /\ (at'[r] = "spin" => at[r] = "spin")
  BY <1>1, StayFlows
<1>3. Fills(r)
  BY <1>1 DEF Fills, SlotsAge, SlotType, FlowType
<1>4. Waiting(r) => Waiting(r)'
  BY <1>1, <1>3 DEF Waiting, Fills, SlotsAge, SlotType
<1>5. QED BY <1>1, <1>2, <1>3, <1>4, FlowKeeps DEF FInv, WaitersAreNotOwners

\* No slot is touched, and the routine does not begin to wait for one.
LEMMA NoSlotFlows ==
  ASSUME IInv, FInv, NEW r \in Routines, Flows(r), UNCHANGED << slot, owner, value, want >>,
         at'[r] = "spin" => at[r] = "spin"
  PROVE  FInv'
<1>1. FlowType /\ SlotType
  BY DEF FInv, IInv
<1>2. Fills(r)
  BY <1>1, SlotsStay
<1>3. Waiting(r) => Waiting(r)'
  BY DEF Waiting
<1>4. QED BY <1>1, <1>2, <1>3, FlowKeeps DEF FInv, WaitersAreNotOwners

\* The routines' other steps.
LEMMA OtherwiseFlows ==
  ASSUME IInv, FInv, NEW r \in Routines, Otherwise(r)
  PROVE  FInv'
<1>1. FlowType /\ UNCHANGED << slot, owner, value, want >>
  BY DEF FInv, Otherwise
<1>2. Root \in Routines
  BY MaxRoutinesAssumption DEF Root, Routines
<1>3. ASSUME NEW x \in Routines, NEW reason \in Reasons, Return(x, reason) PROVE FInv'
  BY <1>1, <1>3, ReturnFlows, NoSlotFlows
<1>4. ASSUME NEW x \in Routines, NEW p \in Places \ { "spin" }, Enter(x, p) PROVE FInv'
  BY <1>1, <1>4, EnterFlows, NoSlotFlows
<1>5. ASSUME UNCHANGED << at, unwind >> PROVE FInv'
  BY <1>1, <1>5, StayFlows, NoSlotFlows
<1>6. ASSUME NEW reason \in Reasons, CloseLoop(reason) PROVE FInv'
  <2>1. unwind' = [ unwind EXCEPT ![Root] = IF @ = "no" THEN reason ELSE @ ]
    BY <1>6 DEF CloseLoop
  <2>2. \/ at' = [ at EXCEPT ![Root] = "user" ]
        \/ at' = [ at EXCEPT ![Root] = "close" ]
    BY <1>6 DEF CloseLoop
  <2>3. Flows(Root) /\ at'[Root] # "spin"
    BY <1>1, <1>2, <2>1, <2>2 DEF FlowType, Flows, Places, Reasons
  <2>4. QED BY <1>1, <1>2, <2>3, NoSlotFlows
<1>7. CASE Yield(r)
  BY <1>3, <1>4, <1>7, StopReasonIsReason DEF Yield, Places
<1>8. CASE StartOrResumeYield(r)
  BY <1>3, <1>8, StopReasonIsReason DEF StartOrResumeYield
<1>9. CASE \E x \in Routines : CancelRoutine(r, x)
  BY <1>5, <1>9 DEF CancelRoutine
<1>10. CASE EndRoutine(r)
  BY <1>4, <1>10 DEF EndRoutine, Places
<1>11. CASE CloseScope \/ ResumeClose
  BY <1>6, <1>11, StopReasonIsReason DEF CloseScope, ResumeClose, Reasons
<1>12. CASE EndProgram
  BY <1>2, <1>4, <1>12 DEF EndProgram, Places
<1>13. QED BY <1>7, <1>8, <1>9, <1>10, <1>11, <1>12 DEF Otherwise

LEMMA InitFInv == Init => FInv
<1>1. SUFFICES ASSUME Init PROVE FInv
  OBVIOUS
<1>2. NoTask \in Tasks
  BY MaxRoutinesAssumption, GlobalsAssumption DEF NoTask, Tasks, Root, Routines
<1>3. FlowType
  BY <1>1, <1>2 DEF Init, CrewInit, FlowType, Places, Reasons
<1>4. WaitersAreNotOwners /\ NilIsAFailure
  BY <1>1 DEF Init, CrewInit, WaitersAreNotOwners, NilIsAFailure
<1>5. QED BY <1>3, <1>4 DEF FInv

LEMMA StepFInv == IInv /\ FInv /\ [Next]_vars => FInv'
<1>1. SUFFICES ASSUME IInv, FInv, [Next]_vars PROVE FInv'
  OBVIOUS
<1>2. FlowType /\ DoingType /\ Root \in Routines
  BY <1>1, MaxRoutinesAssumption DEF FInv, IInv, Root, Routines
<1>3. ASSUME UNCHANGED << at, unwind, slot, owner, value, want >> PROVE FInv'
  BY <1>1, <1>2, <1>3, StayFlows, NoSlotFlows
<1>4. CASE UNCHANGED vars
  BY <1>3, <1>4 DEF vars, crewVars, flowVars, globalVars
<1>5. ASSUME NEW r \in Routines, NEW g \in Globals, Read(r, g) \/ Set(r, g) PROVE FInv'
  BY <1>1, <1>2, <1>5, TasksAreTasks, GetWithFlows, SetPassFlows DEF Read, Set
<1>6. ASSUME NEW r \in Routines, SpinRead(r) PROVE FInv'
  <2>1. want[r].g \in Globals /\ want[r].task \in Tasks
    BY <1>1, <1>6 DEF SpinRead, FInv, WaitersAreNotOwners, Waiting, IInv, WantType
  <2>2. QED BY <1>1, <1>6, <2>1, GetWithFlows DEF SpinRead
<1>7. ASSUME NEW r \in Routines, SpinSet(r) PROVE FInv'
  <2>1. want[r].g \in Globals \cup {NoGlobal} /\ want[r].task \in Tasks
    BY <1>1 DEF IInv, WantType
  <2>2. QED BY <1>1, <1>7, <2>1, SetPassFlows DEF SpinSet
<1>8. ASSUME NEW r \in Routines, Finish(r) \/ Unwind(r) PROVE FInv'
  BY <1>1, <1>8, EndFlows DEF Finish, Unwind, crewVars, flowVars
<1>9. ASSUME NEW r \in Routines, NEW reason \in Reasons, Return(r, reason),
             UNCHANGED << slot, owner, value, want >>
      PROVE  FInv'
  BY <1>1, <1>2, <1>9, ReturnFlows, NoSlotFlows
<1>10. ASSUME NEW r \in Routines, Fail(r) \/ AfterHostCall(r) PROVE FInv'
  BY <1>9, <1>10, StopReasonIsReason DEF Fail, AfterHostCall, globalVars, Reasons
<1>11. ASSUME NEW r \in Routines, HostCall(r) PROVE FInv'
  <2>1. Enter(r, "host") /\ UNCHANGED << slot, owner, value, want >>
    BY <1>11 DEF HostCall
  <2>2. QED BY <1>1, <1>2, <2>1, EnterFlows, NoSlotFlows DEF Places
<1>12. ASSUME NEW r \in Routines, \/ CallFunction(r) \/ HostReturns(r) \/ StepOnAnothersFrame(r)
                                  \/ \E g \in Globals : HostResolve(r, g)
       PROVE  FInv'
  BY <1>3, <1>12 DEF CallFunction, HostReturns, StepOnAnothersFrame, HostResolve,
                     crewVars, flowVars, globalVars
<1>13. ASSUME NEW r \in Routines, RoutineStep(r) PROVE FInv'
  BY <1>1, <1>5, <1>6, <1>7, <1>8, <1>10, <1>11, <1>12, <1>13, OtherwiseFlows DEF RoutineStep
<1>14. QED BY <1>1, <1>4, <1>12, <1>13 DEF Next, Stopped

\* A slot without a value is what a stop left behind: some routine was told to
\* stop, or failed, inside the initializer, and the error is still on its way.
THEOREM NilOnlyAfterAStopHolds == Spec => []NilOnlyAfterAStop
<1>1. FInv => NilOnlyAfterAStop
  BY DEF FInv, NilIsAFailure, NilOnlyAfterAStop
<1>2. IInv /\ FInv /\ [Next]_vars => (IInv /\ FInv)'
  BY StepIsClaimed, StepFInv
<1>3. QED BY <1>1, <1>2, InitIsClaimed, InitFInv, PTL DEF Spec

-----------------------------------------------------------------------------
(* Whose task claims a slot, and whose frames lie on the main machine.     *)

\* The i-th activity of q began in an initializer, or is one.
Covered(q, i) == \E k \in 1 .. i : q[k].g \in Globals

\* The routine x has a frame of its own in fr for every covered activity, in
\* their order; f says where.
Lies(q, x, fr, f) ==
  \A i \in 1 .. Len(q) : Covered(q, i) =>
    /\ f[i] \in 1 .. Len(fr) /\ fr[f[i]] = x
    /\ \A j \in 1 .. Len(q) : i < j => f[i] < f[j]

\* A spawned routine's frames outlast its activities.
Held(d, fr) ==
  \A x \in Routines \ {Root} : \E f \in [ 1 .. MaxCalls -> Nat ] : Lies(d[x], x, fr, f)

\* The program's frames lie below all others.
RootFirst(fr) == \A i, j \in 1 .. Len(fr) : i < j /\ fr[j] = Root => fr[i] = Root

\* A slot in the making is owned by the task that runs its initializer, and a
\* task is a routine's own or, in an initializer, the main program's first.
Known(d, o) ==
  \A x \in Routines : \A i \in 1 .. Len(d[x]) :
    /\ d[x][i].g \in Globals => d[x][i].task = o[d[x][i].g]
    /\ d[x][i].task[1] = x \/ (d[x][i].task = << Root, 0 >> /\ d[x][i].g \in Globals)

RInv ==
  /\ frames \in Seq(Routines) /\ RootFirst(frames) /\ Held(doing, frames)
  /\ Known(doing, owner)

\* In its own code on the main machine a routine is the last to have pushed.
LEMMA RootIsAlone ==
  ASSUME RInv, OwnFrame(Root), NEW i \in 1 .. Len(frames)
  PROVE  frames[i] = Root
<1>1. frames \in Seq(Routines) /\ Len(frames) \in Nat /\ OnMain(Root)
  BY DEF RInv, OnMain
<1>2. frames # << >>
  BY <1>1
<1>3. frames[Len(frames)] = Root
  BY <1>1, <1>2 DEF OwnFrame
<1>4. CASE i = Len(frames)
  BY <1>3, <1>4
<1>5. CASE i < Len(frames)
  <2>1. Len(frames) \in 1 .. Len(frames)
    BY <1>1, <1>2
  <2>2. QED BY <1>3, <1>5, <2>1 DEF RInv, RootFirst
<1>6. QED BY <1>1, <1>4, <1>5

\* A routine pushes a frame of its own: only the program's above the program's.
LEMMA PushRootFirst ==
  ASSUME NEW fr \in Seq(Routines), NEW r \in Routines, RootFirst(fr),
         r = Root => \A i \in 1 .. Len(fr) : fr[i] = Root
  PROVE  Append(fr, r) \in Seq(Routines) /\ RootFirst(Append(fr, r))
<1> DEFINE n == Len(fr)
           f1 == Append(fr, r)
<1>1. /\ n \in Nat /\ f1 \in Seq(Routines) /\ Len(f1) = n + 1
      /\ \A i \in 1 .. n : f1[i] = fr[i]
      /\ f1[n + 1] = r
  OBVIOUS
<1> HIDE DEF f1
<1>2. ASSUME NEW i \in 1 .. n + 1, NEW j \in 1 .. n + 1, i < j, f1[j] = Root
      PROVE  f1[i] = Root
  <2>1. i \in 1 .. n
    BY <1>1, <1>2
  <2>2. CASE j = n + 1
    BY <1>1, <1>2, <2>1, <2>2
  <2>3. CASE j \in 1 .. n
    BY <1>1, <1>2, <2>1, <2>3 DEF RootFirst
  <2>4. QED BY <1>1, <2>2, <2>3
<1>3. RootFirst(f1)
  BY <1>1, <1>2 DEF RootFirst
<1>4. QED BY <1>1, <1>3 DEF f1

\* What is left of a sequence without its last element.
LEMMA FrontOf ==
  ASSUME NEW S, NEW q \in Seq(S), q # << >>
  PROVE  LET p == SubSeq(q, 1, Len(q) - 1)
         IN  /\ p \in Seq(S) /\ Len(p) = Len(q) - 1
             /\ \A i \in 1 .. Len(q) - 1 : p[i] = q[i]
<1> DEFINE p == SubSeq(q, 1, Len(q) - 1)
<1>1. Len(q) \in Nat \ {0} /\ DOMAIN q = 1 .. Len(q)
  OBVIOUS
<1>2. /\ p \in Seq(S) /\ Len(p) = Len(q) - 1
      /\ \A i \in 1 .. Len(q) - 1 : p[i] = q[i]
  BY <1>1
<1>3. QED BY <1>2

\* Popping keeps the order.
LEMMA PopRootFirst ==
  ASSUME NEW fr \in Seq(Routines), RootFirst(fr)
  PROVE  LET f1 == SubSeq(fr, 1, Len(fr) - 1)
         IN  f1 \in Seq(Routines) /\ RootFirst(f1)
<1> DEFINE f1 == SubSeq(fr, 1, Len(fr) - 1)
<1>1. CASE fr = << >>
  BY <1>1 DEF RootFirst
<1>2. CASE fr # << >>
  <2>1. Len(fr) \in Nat \ {0}
    BY <1>2
  <2>2. /\ f1 \in Seq(Routines) /\ Len(f1) = Len(fr) - 1
        /\ \A i \in 1 .. Len(fr) - 1 : f1[i] = fr[i]
    BY <1>2, FrontOf
  <2> HIDE DEF f1
  <2>3. RootFirst(f1)
    BY <2>1, <2>2 DEF RootFirst
  <2>4. QED BY <2>2, <2>3 DEF f1
<1>3. QED BY <1>1, <1>2

\* An activity that begins covers what it covers by itself.
LEMMA CoveredBefore ==
  ASSUME NEW q \in Seq(Activity), NEW e \in Activity, NEW i \in 1 .. Len(q)
  PROVE  Covered(Append(q, e), i) <=> Covered(q, i)
<1>1. Len(q) \in Nat /\ \A k \in 1 .. Len(q) : Append(q, e)[k] = q[k]
  OBVIOUS
<1> DEFINE n == Len(q)
           p == Append(q, e)
<1> HIDE DEF n, p
<1>2. n \in Nat /\ i \in 1 .. n /\ \A k \in 1 .. n : p[k] = q[k]
  BY <1>1 DEF n, p
<1>3. \A k \in 1 .. i : k \in 1 .. n
  BY <1>2
<1>4. Covered(p, i) <=> Covered(q, i)
  BY <1>2, <1>3 DEF Covered
<1>5. QED BY <1>4 DEF p

\* It gets the frame on top.
LEMMA LieMore ==
  ASSUME NEW q \in Seq(Activity), NEW e \in Activity, NEW x \in Routines, NEW fr \in Seq(Routines),
         Len(q) < MaxCalls, NEW f \in [ 1 .. MaxCalls -> Nat ], Lies(q, x, fr, f)
  PROVE  \E h \in [ 1 .. MaxCalls -> Nat ] : Lies(Append(q, e), x, Append(fr, x), h)
<1> DEFINE n == Len(q)
           m == Len(fr)
           p == Append(q, e)
           f1 == Append(fr, x)
           h == [ i \in 1 .. MaxCalls |-> IF i = n + 1 THEN m + 1 ELSE f[i] ]
<1>1. /\ n \in Nat /\ Len(p) = n + 1 /\ m \in Nat /\ Len(f1) = m + 1 /\ f1[m + 1] = x
      /\ \A i \in 1 .. m : f1[i] = fr[i]
      /\ MaxCalls \in Nat /\ n < MaxCalls
  BY GlobalsAssumption
<1>2. \A i \in 1 .. n : Covered(p, i) <=> Covered(q, i)
  BY CoveredBefore
<1>3. \A i \in 1 .. n : Covered(q, i) =>
        /\ f[i] \in 1 .. m /\ fr[f[i]] = x
        /\ \A j \in 1 .. n : i < j => f[i] < f[j]
  BY DEF Lies
<1> HIDE DEF n, m, p, f1
<1>4. h \in [ 1 .. MaxCalls -> Nat ]
  BY <1>1
<1>5. /\ \A i \in 1 .. n : i \in 1 .. MaxCalls /\ h[i] = f[i]
      /\ n + 1 \in 1 .. MaxCalls /\ h[n + 1] = m + 1
  BY <1>1
<1> HIDE DEF h
<1>6. ASSUME NEW i \in 1 .. n + 1, Covered(p, i)
      PROVE  /\ h[i] \in 1 .. m + 1 /\ f1[h[i]] = x
             /\ \A j \in 1 .. n + 1 : i < j => h[i] < h[j]
  <2>1. CASE i = n + 1
    BY <1>1, <1>5, <2>1
  <2>2. CASE i \in 1 .. n
    <3>1. /\ f[i] \in 1 .. m /\ fr[f[i]] = x
          /\ \A j \in 1 .. n : i < j => f[i] < f[j]
      BY <1>2, <1>3, <1>6, <2>2
    <3>2. h[i] = f[i]
      BY <1>5, <2>2
    <3>3. h[i] \in 1 .. m + 1 /\ f1[h[i]] = x
      BY <1>1, <3>1, <3>2
    <3>4. ASSUME NEW j \in 1 .. n + 1, i < j PROVE h[i] < h[j]
      <4>1. CASE j = n + 1
        BY <1>1, <1>5, <3>1, <3>2, <4>1
      <4>2. CASE j \in 1 .. n
        BY <1>5, <3>1, <3>2, <3>4, <4>2
      <4>3. n \in Nat
        BY <1>1
      <4>4. j = n + 1 \/ j \in 1 .. n
        BY <4>3
      <4>5. QED BY <4>1, <4>2, <4>4
    <3>5. QED BY <3>3, <3>4
  <2>3. QED BY <1>1, <2>1, <2>2
<1>7. Lies(p, x, f1, h)
  BY <1>1, <1>6 DEF Lies
<1>8. QED BY <1>4, <1>7 DEF p, f1

\* One that is covered by nothing needs none.
LEMMA LieUncovered ==
  ASSUME NEW q, NEW x, NEW fr, NEW f, Len(q) \in Nat, ~ Covered(q, Len(q))
  PROVE  Lies(q, x, fr, f)
<1> DEFINE n == Len(q)
<1>1. n \in Nat /\ \A k \in 1 .. n : q[k].g \notin Globals
  BY DEF Covered
<1> HIDE DEF n
<1>2. \A i \in 1 .. n : ~ Covered(q, i)
  BY <1>1 DEF Covered
<1>3. QED BY <1>2 DEF Lies, n

\* A frame more disturbs no other.
LEMMA LieLonger ==
  ASSUME NEW q, NEW x, NEW fr \in Seq(Routines), NEW r \in Routines, NEW f, Lies(q, x, fr, f)
  PROVE  Lies(q, x, Append(fr, r), f)
<1> DEFINE m == Len(fr)
           f1 == Append(fr, r)
<1>1. m \in Nat /\ Len(f1) = m + 1 /\ \A i \in 1 .. m : f1[i] = fr[i]
  OBVIOUS
<1> HIDE DEF f1
<1>2. \A i \in 1 .. m : i \in 1 .. m + 1
  BY <1>1
<1>3. QED BY <1>1, <1>2 DEF Lies, f1

\* Nor does the end of another routine's frame on top.
LEMMA LieBelow ==
  ASSUME NEW q, NEW x, NEW fr \in Seq(Routines), NEW f, Lies(q, x, fr, f),
         fr # << >>, fr[Len(fr)] # x
  PROVE  Lies(q, x, SubSeq(fr, 1, Len(fr) - 1), f)
<1> DEFINE m == Len(fr)
           f1 == SubSeq(fr, 1, m - 1)
<1>1. m \in Nat /\ Len(f1) = m - 1 /\ \A i \in 1 .. m - 1 : f1[i] = fr[i]
  BY FrontOf
<1> HIDE DEF f1
<1>2. ASSUME NEW i, i \in 1 .. m, fr[i] = x PROVE i \in 1 .. m - 1 /\ f1[i] = x
  <2>1. i # m
    BY <1>2
  <2>2. i \in 1 .. m - 1
    BY <1>1, <1>2, <2>1
  <2>3. QED BY <1>1, <1>2, <2>2
<1>3. Lies(q, x, f1, f)
  BY <1>1, <1>2 DEF Lies
<1>4. QED BY <1>3 DEF f1

\* The innermost activity ends, and with it the frame above the others' or none.
LEMMA LieLess ==
  ASSUME NEW q \in Seq(Activity), q # << >>, NEW x, NEW fr \in Seq(Routines),
         Len(q) <= MaxCalls, NEW f \in [ 1 .. MaxCalls -> Nat ], Lies(q, x, fr, f)
  PROVE  LET p == SubSeq(q, 1, Len(q) - 1)
         IN  /\ Lies(p, x, fr, f)
             /\ fr # << >> => Lies(p, x, SubSeq(fr, 1, Len(fr) - 1), f)
<1> DEFINE n == Len(q)
           p == SubSeq(q, 1, n - 1)
           m == Len(fr)
           f1 == SubSeq(fr, 1, m - 1)
<1>1. /\ n \in Nat \ {0} /\ Len(p) = n - 1 /\ m \in Nat
      /\ \A i \in 1 .. n - 1 : p[i] = q[i]
      /\ MaxCalls \in Nat /\ n <= MaxCalls
  <2>1. n \in Nat \ {0}
    OBVIOUS
  <2>2. QED BY <2>1, FrontOf, GlobalsAssumption
<1>2. fr # << >> => Len(f1) = m - 1 /\ \A i \in 1 .. m - 1 : f1[i] = fr[i]
  BY FrontOf
<1>3. \A i \in 1 .. n : Covered(q, i) =>
        /\ f[i] \in 1 .. m /\ fr[f[i]] = x
        /\ \A j \in 1 .. n : i < j => f[i] < f[j]
  BY DEF Lies
<1> HIDE DEF n, p, m, f1
<1>4. ASSUME NEW i \in 1 .. n - 1, Covered(p, i)
      PROVE  /\ f[i] \in 1 .. m /\ f[i] \in 1 .. m - 1 /\ fr[f[i]] = x
             /\ \A j \in 1 .. n - 1 : i < j => f[i] < f[j]
  <2>1. Covered(q, i) /\ i \in 1 .. n
    <3>1. i \in 1 .. n /\ \A k \in 1 .. i : k \in 1 .. n - 1
      BY <1>1
    <3>2. PICK k \in 1 .. i : p[k].g \in Globals
      BY <1>4 DEF Covered
    <3>3. q[k].g \in Globals
      BY <1>1, <3>1, <3>2
    <3>4. QED BY <3>1, <3>3 DEF Covered
  <2>2. /\ f[i] \in 1 .. m /\ fr[f[i]] = x
        /\ \A j \in 1 .. n : i < j => f[i] < f[j]
    BY <1>3, <2>1
  <2>3. Covered(q, n) /\ n \in 1 .. n
    BY <1>1, <2>1 DEF Covered
  <2>4. f[n] \in 1 .. m /\ f[i] < f[n]
    BY <1>1, <1>3, <2>2, <2>3
  <2>5. f[i] \in 1 .. m - 1
    BY <1>1, <2>2, <2>4
  <2>6. \A j \in 1 .. n - 1 : j \in 1 .. n
    BY <1>1
  <2>7. QED BY <2>2, <2>5, <2>6
<1>5. Lies(p, x, fr, f)
  BY <1>1, <1>4 DEF Lies, m
<1>6. fr # << >> => Lies(p, x, f1, f)
  BY <1>1, <1>2, <1>4 DEF Lies
<1>7. QED BY <1>5, <1>6 DEF n, p, m, f1

\* The frame that e takes when it begins in r, where it needs one.
Framed(d, r, e, fr, fr1) ==
  /\ Len(d[r]) < MaxCalls /\ Held(d, fr)
  /\ fr1 = fr \/ fr1 = Append(fr, r)
  /\ r # Root /\ Covered(Append(d[r], e), Len(d[r]) + 1) => fr1 = Append(fr, r)

LEMMA BeginHeld ==
  ASSUME NEW d \in [ Routines -> Seq(Activity) ], NEW fr \in Seq(Routines), NEW r \in Routines,
         NEW e \in Activity, NEW fr1, Framed(d, r, e, fr, fr1)
  PROVE  Held(Begun(d, r, e), fr1)
<1> USE DEF Framed
<1>1. SUFFICES ASSUME NEW x \in Routines \ {Root}
               PROVE  \E f \in [ 1 .. MaxCalls -> Nat ] : Lies(Begun(d, r, e)[x], x, fr1, f)
  BY DEF Held
<1>2. PICK f \in [ 1 .. MaxCalls -> Nat ] : Lies(d[x], x, fr, f)
  BY DEF Held
<1>3. CASE x # r
  <2>1. Begun(d, r, e)[x] = d[x]
    BY <1>3 DEF Begun
  <2>2. Lies(d[x], x, fr1, f)
    BY <1>2, LieLonger
  <2>3. QED BY <2>1, <2>2
<1>4. CASE x = r
  <2> DEFINE q == d[r]
  <2>1. Begun(d, r, e)[x] = Append(q, e) /\ q \in Seq(Activity)
    BY <1>4 DEF Begun
  <2>2. CASE fr1 = Append(fr, r)
    <3>1. Lies(q, r, fr, f) /\ Len(q) < MaxCalls
      BY <1>2, <1>4
    <3> HIDE DEF q
    <3>2. \E h \in [ 1 .. MaxCalls -> Nat ] : Lies(Append(q, e), r, Append(fr, r), h)
      BY <2>1, <3>1, LieMore
    <3>3. QED BY <1>4, <2>1, <2>2, <3>2
  <2>3. CASE fr1 # Append(fr, r)
    <3> DEFINE p == Append(q, e)
    <3>1. Len(p) = Len(q) + 1 /\ Len(q) \in Nat
      BY <2>1
    <3>2. ~ Covered(p, Len(q) + 1)
      BY <1>4, <2>3
    <3> HIDE DEF q, p
    <3>3. Len(p) \in Nat /\ ~ Covered(p, Len(p))
      BY <3>1, <3>2
    <3>4. Lies(p, x, fr1, f)
      BY <3>3, LieUncovered
    <3>5. QED BY <2>1, <3>4 DEF p
  <2>4. QED BY <2>2, <2>3
<1>5. QED BY <1>3, <1>4

\* One that ends pops its own frame, or leaves it.
LEMMA EndHeld ==
  ASSUME NEW d \in [ Routines -> Seq(Activity) ], NEW fr \in Seq(Routines), NEW r \in Routines,
         d[r] # << >>, \A x \in Routines : Len(d[x]) <= MaxCalls, Held(d, fr), NEW fr1,
         \/ fr1 = fr
         \/ fr1 = SubSeq(fr, 1, Len(fr) - 1) /\ (fr = << >> \/ fr[Len(fr)] = r)
  PROVE  Held([ d EXCEPT ![r] = SubSeq(d[r], 1, Len(d[r]) - 1) ], fr1)
<1> DEFINE p == SubSeq(d[r], 1, Len(d[r]) - 1)
           d1 == [ d EXCEPT ![r] = p ]
<1>1. SUFFICES ASSUME NEW x \in Routines \ {Root}
               PROVE  \E f \in [ 1 .. MaxCalls -> Nat ] : Lies(d1[x], x, fr1, f)
  BY DEF Held
<1>2. PICK f \in [ 1 .. MaxCalls -> Nat ] : Lies(d[x], x, fr, f)
  BY DEF Held
<1>3. fr = << >> => SubSeq(fr, 1, Len(fr) - 1) = fr
  OBVIOUS
<1>4. CASE x # r
  <2>1. d1[x] = d[x]
    BY <1>4
  <2>2. Lies(d[x], x, fr1, f)
    BY <1>2, <1>3, <1>4, LieBelow
  <2>3. QED BY <2>1, <2>2
<1>5. CASE x = r
  <2>1. d1[x] = p /\ d[r] \in Seq(Activity) /\ Len(d[r]) <= MaxCalls
    BY <1>5
  <2>2. Lies(d[r], x, fr, f)
    BY <1>2, <1>5
  <2>3. /\ Lies(p, x, fr, f)
        /\ fr # << >> => Lies(p, x, SubSeq(fr, 1, Len(fr) - 1), f)
    BY <2>1, <2>2, LieLess
  <2> HIDE DEF p
  <2>4. Lies(p, x, fr1, f)
    BY <1>3, <2>3
  <2>5. QED BY <2>1, <2>4
<1>6. QED BY <1>4, <1>5

\* The same activities but for the switch points they have left.
Alike(d, d1) ==
  \A x \in Routines :
    /\ Len(d1[x]) = Len(d[x])
    /\ \A i \in 1 .. Len(d[x]) : d1[x][i].g = d[x][i].g /\ d1[x][i].task = d[x][i].task

LEMMA AlikeKeeps ==
  ASSUME NEW d \in [ Routines -> Seq(Activity) ], NEW d1, NEW fr, NEW o,
         Held(d, fr), Known(d, o), Alike(d, d1)
  PROVE  Held(d1, fr) /\ Known(d1, o)
<1>1. ASSUME NEW x \in Routines, NEW f, Lies(d[x], x, fr, f)
      PROVE  Lies(d1[x], x, fr, f)
  <2> DEFINE n == Len(d[x])
  <2>1. n \in Nat /\ Len(d1[x]) = n /\ \A i \in 1 .. n : d1[x][i].g = d[x][i].g
    BY DEF Alike
  <2> HIDE DEF n
  <2>2. ASSUME NEW i \in 1 .. n PROVE Covered(d1[x], i) <=> Covered(d[x], i)
    <3>1. \A k \in 1 .. i : k \in 1 .. n
      BY <2>1
    <3>2. QED BY <2>1, <3>1 DEF Covered
  <2>3. \A i \in 1 .. n : Covered(d[x], i) =>
        /\ f[i] \in 1 .. Len(fr) /\ fr[f[i]] = x
        /\ \A j \in 1 .. n : i < j => f[i] < f[j]
    BY <1>1 DEF Lies, n
  <2>4. QED BY <2>1, <2>2, <2>3 DEF Lies
<1>2. Held(d1, fr)
  BY <1>1 DEF Held
<1>3. Known(d1, o)
  BY SMTT(60) DEF Known, Alike
<1>4. QED BY <1>2, <1>3

\* The task that e runs as when it begins in r, and what becomes of the owners.
Tasked(d, r, e, o, o1) ==
  /\ \A x \in Routines : Len(d[x]) <= MaxCalls
  /\ Known(d, o)
  /\ \A h \in Globals : o1[h] = o[h] \/ Inside(d, h) = {}
  /\ e.g \in Globals => e.task = o1[e.g]
  /\ e.task[1] = r \/ (e.task = << Root, 0 >> /\ e.g \in Globals)

LEMMA BeginKnown ==
  ASSUME NEW d \in [ Routines -> Seq(Activity) ], NEW r \in Routines, NEW e \in Activity,
         NEW o, NEW o1, Tasked(d, r, e, o, o1)
  PROVE  Known(Begun(d, r, e), o1)
<1> USE DEF Tasked
<1> DEFINE d1 == Begun(d, r, e)
           Right(x, a) == /\ a.g \in Globals => a.task = o1[a.g]
                          /\ a.task[1] = x \/ (a.task = << Root, 0 >> /\ a.g \in Globals)
<1>1. ASSUME NEW x \in Routines, NEW i \in 1 .. Len(d[x]) PROVE Right(x, d[x][i])
  <2>1. i \in DOMAIN d[x] /\ i \in 1 .. MaxCalls
    <3> DEFINE n == Len(d[x])
    <3>1. n \in Nat /\ n <= MaxCalls /\ MaxCalls \in Nat /\ DOMAIN d[x] = 1 .. n
      BY GlobalsAssumption
    <3> HIDE DEF n
    <3>2. i \in 1 .. n
      BY DEF n
    <3>3. QED BY <3>1, <3>2
  <2>2. \A h : d[x][i].g = h => << x, i >> \in Inside(d, h)
    BY <2>1 DEF Inside
  <2>3. QED BY <2>2 DEF Known
<1>2. Right(r, e)
  OBVIOUS
<1> HIDE DEF Right
<1>3. ASSUME NEW x \in Routines, NEW i \in 1 .. Len(d1[x]) PROVE Right(x, d1[x][i])
  <2>1. CASE x # r
    <3>1. d1[x] = d[x]
      BY <2>1, BegunType
    <3> HIDE DEF d1
    <3>2. i \in 1 .. Len(d[x])
      BY <3>1
    <3>3. QED BY <1>1, <3>1, <3>2
  <2>2. CASE x = r
    <3>1. d1[r] = Append(d[r], e) /\ d[r] \in Seq(Activity)
      BY BegunType
    <3> DEFINE n == Len(d[r])
    <3>2. /\ n \in Nat /\ Len(d1[r]) = n + 1 /\ d1[r][n + 1] = e
          /\ \A k \in 1 .. n : d1[r][k] = d[r][k]
      BY <3>1
    <3>3. \A k \in 1 .. n : Right(r, d[r][k])
      BY <1>1
    <3> HIDE DEF n, d1
    <3>4. i = n + 1 \/ i \in 1 .. n
      BY <2>2, <3>2
    <3>5. QED BY <1>2, <2>2, <3>2, <3>3, <3>4
  <2>3. QED BY <2>1, <2>2
<1>4. QED BY <1>3 DEF Known, Right

LEMMA EndKnown ==
  ASSUME NEW d \in [ Routines -> Seq(Activity) ], NEW r \in Routines, d[r] # << >>,
         NEW o, Known(d, o)
  PROVE  Known([ d EXCEPT ![r] = SubSeq(d[r], 1, Len(d[r]) - 1) ], o)
<1> DEFINE n == Len(d[r])
           p == SubSeq(d[r], 1, n - 1)
           d1 == [ d EXCEPT ![r] = p ]
<1>1. n \in Nat /\ Len(p) = n - 1 /\ \A i \in 1 .. n - 1 : p[i] = d[r][i]
  BY FrontOf
<1> HIDE DEF p, n
<1>2. \A i \in 1 .. n - 1 : i \in 1 .. n
  BY <1>1
<1>3. /\ d1[r] = p /\ \A x \in Routines \ {r} : d1[x] = d[x]
  OBVIOUS
<1>4. ASSUME NEW x \in Routines, NEW i \in 1 .. Len(d1[x])
      PROVE  i \in 1 .. Len(d[x]) /\ d1[x][i] = d[x][i]
  <2>1. CASE x = r
    BY <1>1, <1>2, <1>3, <2>1 DEF n
  <2>2. CASE x # r
    BY <1>3, <2>2
  <2>3. QED BY <2>1, <2>2
<1> HIDE DEF d1
<1>5. Known(d1, o)
  <2>1. SUFFICES ASSUME NEW x \in Routines, NEW i \in 1 .. Len(d1[x])
                 PROVE  /\ d1[x][i].g \in Globals => d1[x][i].task = o[d1[x][i].g]
                        /\ \/ d1[x][i].task[1] = x
                           \/ d1[x][i].task = << Root, 0 >> /\ d1[x][i].g \in Globals
    BY DEF Known
  <2>2. i \in 1 .. Len(d[x]) /\ d1[x][i] = d[x][i]
    BY <1>4
  <2>3. QED BY <2>2 DEF Known
<1>6. QED BY <1>5 DEF d1, p, n

LEMMA SpentAlike ==
  ASSUME DoingType, NEW r \in Routines
  PROVE  Alike(doing, [ doing EXCEPT ![r] = Spent(r) ])
<1> DEFINE q == doing[r]
           d1 == [ doing EXCEPT ![r] = Spent(r) ]
<1>1. doing \in [ Routines -> Seq(Activity) ]
  BY DEF DoingType
<1>2. q \in Seq(Activity) /\ Len(q) \in Nat /\ DOMAIN q = 1 .. Len(q)
  BY <1>1
<1>3. /\ Len(Spent(r)) = Len(q)
      /\ \A i \in 1 .. Len(q) : Spent(r)[i].g = q[i].g /\ Spent(r)[i].task = q[i].task
  <2>1. CASE q = << >>
    BY <2>1 DEF Spent, Busy
  <2>2. CASE q # << >>
    <3> DEFINE n == Len(q)
               e == [ q[n] EXCEPT !.left = q[n].left - 1 ]
    <3>1. Spent(r) = [ q EXCEPT ![n] = e ] /\ n \in 1 .. Len(q) /\ q[n] \in Activity
      BY <1>2, <2>2 DEF Spent, Busy
    <3>2. e \in Activity /\ e.g = q[n].g /\ e.task = q[n].task
      BY <3>1 DEF Activity
    <3> HIDE DEF e
    <3>3. QED BY <1>2, <3>1, <3>2
  <2>3. QED BY <2>1, <2>2
<1>4. d1[r] = Spent(r) /\ \A x \in Routines \ {r} : d1[x] = doing[x]
  BY <1>1
<1>5. QED BY <1>3, <1>4 DEF Alike

LEMMA OnMainIsCovered ==
  ASSUME DoingType, NEW r \in Routines
  PROVE  OnMain(r) <=> r = Root \/ Covered(doing[r], Len(doing[r]))
<1>1. doing[r] \in Seq(Activity) /\ DOMAIN doing[r] = 1 .. Len(doing[r])
  BY DEF DoingType
<1>2. QED BY <1>1 DEF OnMain, Initializes, Covered

\* Code reads as a task of its routine's, or of the program's on its machine.
LEMMA TasksAreOwn ==
  ASSUME DoingType, RInv, NEW r \in Routines, NEW task \in { TaskOf(r), MachineTask(r) }
  PROVE  task[1] = r \/ (task = << Root, 0 >> /\ OnMain(r))
<1>1. CASE task = MachineTask(r)
  BY <1>1 DEF MachineTask
<1>2. CASE task = TaskOf(r) /\ ~ Busy(r)
  BY <1>2 DEF TaskOf
<1>3. CASE task = TaskOf(r) /\ Busy(r)
  <2>1. doing[r] \in Seq(Activity) /\ doing[r] # << >>
    BY <1>3 DEF DoingType, Busy
  <2>2. Len(doing[r]) \in 1 .. Len(doing[r]) /\ Len(doing[r]) \in DOMAIN doing[r]
    BY <2>1
  <2>3. \/ Top(r).task[1] = r
        \/ Top(r).task = << Root, 0 >> /\ Top(r).g \in Globals
    BY <2>2 DEF RInv, Known, Top
  <2>4. Top(r).g \in Globals => OnMain(r)
    BY <2>2 DEF OnMain, Initializes, Top
  <2>5. QED BY <1>3, <2>3, <2>4 DEF TaskOf
<1>4. QED BY <1>1, <1>2, <1>3

\* Whoever claims a slot pushes the initializer's frame.
LEMMA ClaimKeeps ==
  ASSUME IInv, RInv, NEW r \in Routines, NEW g \in Globals, OwnFrame(r),
         NEW task \in { TaskOf(r), MachineTask(r) }, slot[g] = "uninitialized",
         owner \in [ Globals -> Tasks ], owner' = [ owner EXCEPT ![g] = task ], Push(r, g, task)
  PROVE  RInv'
<1> DEFINE e == [ g |-> g, task |-> task, left |-> MaxSwitches ]
<1>1. /\ DoingType /\ doing \in [ Routines -> Seq(Activity) ] /\ Len(doing[r]) < MaxCalls
      /\ \A x \in Routines : Len(doing[x]) <= MaxCalls
      /\ frames \in Seq(Routines) /\ RootFirst(frames) /\ Held(doing, frames) /\ Known(doing, owner)
  BY DEF IInv, DoingType, Push, RInv
<1>2. e \in Activity /\ e.g = g /\ e.task = task
  BY <1>1, TasksAreTasks, GlobalsAssumption DEF Activity
<1>3. doing' = Begun(doing, r, e) /\ frames' = Append(frames, r)
  BY NoGlobalAssumption DEF Push, Begun
<1> HIDE DEF e
<1>4. frames' \in Seq(Routines) /\ RootFirst(frames')
  <2>1. r = Root => \A i \in 1 .. Len(frames) : frames[i] = Root
    BY RootIsAlone
  <2>2. QED BY <1>1, <1>3, <2>1, PushRootFirst
<1>5. Held(doing', frames')
  <2>1. Framed(doing, r, e, frames, frames')
    BY <1>1, <1>3 DEF Framed
  <2>2. QED BY <1>1, <1>2, <1>3, <2>1, BeginHeld
<1>6. Known(doing', owner')
  <2>1. \A h \in Globals : owner'[h] = owner[h] \/ Inside(doing, h) = {}
    BY DEF IInv, Claimed
  <2>2. e.g \in Globals => e.task = owner'[e.g]
    BY <1>2
  <2>3. e.task[1] = r \/ (e.task = << Root, 0 >> /\ e.g \in Globals)
    BY <1>1, <1>2, TasksAreOwn
  <2>4. Tasked(doing, r, e, owner, owner')
    BY <1>1, <2>1, <2>2, <2>3 DEF Tasked
  <2>5. QED BY <1>1, <1>2, <1>3, <2>4, BeginKnown
<1>7. QED BY <1>4, <1>5, <1>6 DEF RInv

\* A callback's frame lies on the machine its caller runs on.
LEMMA CallbackKeeps ==
  ASSUME IInv, RInv, NEW r \in Routines, CallFunction(r)
  PROVE  RInv'
<1> DEFINE d1 == [ doing EXCEPT ![r] = Spent(r) ]
           e == [ g |-> NoGlobal, task |-> << r, Len(doing[r]) + 1 >>, left |-> MaxSwitches ]
<1>1. /\ DoingType /\ Len(doing[r]) < MaxCalls /\ owner' = owner /\ OwnFrame(r)
      /\ doing \in [ Routines -> Seq(Activity) ]
      /\ \A x \in Routines : Len(doing[x]) <= MaxCalls
      /\ frames \in Seq(Routines) /\ RootFirst(frames) /\ Held(doing, frames) /\ Known(doing, owner)
      /\ doing' = [ doing EXCEPT ![r] = Append(Spent(r), e) ]
      /\ frames' = IF OnMain(r) THEN Append(frames, r) ELSE frames
  BY DEF IInv, DoingType, RInv, CallFunction, Code
<1>2. /\ d1 \in [ Routines -> Seq(Activity) ] /\ Alike(doing, d1)
      /\ \A x \in Routines : Len(d1[x]) = Len(doing[x])
  BY <1>1, SpentInside, SpentAlike
<1>3. e \in Activity /\ e.g = NoGlobal /\ e.g \notin Globals /\ e.task[1] = r
  <2>1. Len(doing[r]) \in Nat /\ MaxCalls \in Nat
    BY <1>1, GlobalsAssumption
  <2>2. << r, Len(doing[r]) + 1 >> \in Tasks
    BY <1>1, <2>1 DEF Tasks
  <2>3. QED BY <2>2, GlobalsAssumption, NoGlobalAssumption DEF Activity
<1>4. doing' = Begun(d1, r, e) /\ Len(d1[r]) < MaxCalls /\ d1[r] = Spent(r)
  BY <1>1, <1>2 DEF Begun
<1> HIDE DEF d1, e
<1>5. Held(d1, frames) /\ Known(d1, owner)
  BY <1>1, <1>2, AlikeKeeps
<1>6. frames' \in Seq(Routines) /\ RootFirst(frames')
  <2>1. r = Root => \A i \in 1 .. Len(frames) : frames[i] = Root
    BY <1>1, RootIsAlone
  <2>2. QED BY <1>1, <2>1, PushRootFirst
<1>7. r # Root /\ Covered(Append(d1[r], e), Len(d1[r]) + 1) => OnMain(r)
  <2>1. SUFFICES ASSUME Covered(Append(d1[r], e), Len(d1[r]) + 1) PROVE OnMain(r)
    OBVIOUS
  <2> DEFINE n == Len(d1[r])
             p == Append(d1[r], e)
  <2>2. /\ n \in Nat /\ n = Len(doing[r]) /\ p[n + 1] = e
        /\ \A k \in 1 .. n : p[k].g = doing[r][k].g
    BY <1>2 DEF Alike
  <2> HIDE DEF n, p
  <2>3. PICK k \in 1 .. n + 1 : p[k].g \in Globals
    BY <2>1 DEF Covered, n, p
  <2>4. k \in 1 .. n
    BY <1>3, <2>2, <2>3
  <2>5. Covered(doing[r], Len(doing[r]))
    BY <2>2, <2>3, <2>4 DEF Covered
  <2>6. QED BY <1>1, <2>5, OnMainIsCovered
<1>8. Held(doing', frames')
  <2>1. frames' = frames \/ frames' = Append(frames, r)
    BY <1>1
  <2>2. r # Root /\ Covered(Append(d1[r], e), Len(d1[r]) + 1) => frames' = Append(frames, r)
    BY <1>1, <1>7
  <2>3. Framed(d1, r, e, frames, frames')
    BY <1>4, <1>5, <2>1, <2>2 DEF Framed
  <2>4. /\ d1 \in [ Routines -> Seq(Activity) ] /\ e \in Activity
        /\ frames \in Seq(Routines)
    BY <1>1, <1>2, <1>3
  <2>5. Held(Begun(d1, r, e), frames')
    BY <2>3, <2>4, BeginHeld
  <2>6. QED BY <1>4, <2>5
<1>9. Known(doing', owner')
  <2>1. \A x \in Routines : Len(d1[x]) <= MaxCalls
    BY <1>1, <1>2
  <2>2. \A h \in Globals : owner'[h] = owner[h] \/ Inside(d1, h) = {}
    BY <1>1
  <2>3. Known(d1, owner) /\ (e.g \in Globals => e.task = owner'[e.g])
    BY <1>3, <1>5
  <2>4. e.task[1] = r \/ (e.task = << Root, 0 >> /\ e.g \in Globals)
    BY <1>3
  <2>5. Tasked(d1, r, e, owner, owner')
    BY <2>1, <2>2, <2>3, <2>4 DEF Tasked
  <2>6. QED BY <1>2, <1>3, <1>4, <2>5, BeginKnown
<1>10. QED BY <1>6, <1>8, <1>9 DEF RInv

\* The innermost initializer or callback ends.
LEMMA PopKeeps ==
  ASSUME IInv, RInv, NEW r \in Routines, Busy(r), OwnFrame(r) \/ frames' = frames, Pop(r),
         owner' = owner,
         \/ frames' = frames
         \/ OnMain(r) /\ frames' = SubSeq(frames, 1, Len(frames) - 1)
  PROVE  RInv'
<1>1. /\ doing \in [ Routines -> Seq(Activity) ] /\ doing[r] # << >>
      /\ \A x \in Routines : Len(doing[x]) <= MaxCalls
      /\ frames \in Seq(Routines) /\ RootFirst(frames) /\ Held(doing, frames) /\ Known(doing, owner)
      /\ doing' = [ doing EXCEPT ![r] = SubSeq(doing[r], 1, Len(doing[r]) - 1) ]
  BY DEF IInv, DoingType, RInv, Busy, Pop
<1>2. \/ frames' = frames
      \/ /\ frames' = SubSeq(frames, 1, Len(frames) - 1)
         /\ frames = << >> \/ frames[Len(frames)] = r
  BY DEF OwnFrame
<1>3. frames' \in Seq(Routines) /\ RootFirst(frames')
  BY <1>1, <1>2, PopRootFirst
<1>4. Held(doing', frames')
  BY <1>1, <1>2, EndHeld
<1>5. Known(doing', owner')
  BY <1>1, EndKnown
<1>6. QED BY <1>3, <1>4, <1>5 DEF RInv

LEMMA SpendKeeps ==
  ASSUME IInv, RInv, NEW r \in Routines, SpendSwitch(r), frames' = frames, owner' = owner
  PROVE  RInv'
<1>1. DoingType /\ doing \in [ Routines -> Seq(Activity) ] /\ Held(doing, frames) /\ Known(doing, owner)
  BY DEF IInv, DoingType, RInv
<1>2. Alike(doing, doing')
  BY <1>1, SpentAlike DEF SpendSwitch
<1>3. Held(doing', frames') /\ Known(doing', owner')
  BY <1>1, <1>2, AlikeKeeps
<1>4. QED BY <1>3 DEF RInv

\* What touches neither the activities nor the frames nor the owners.
LEMMA NothingPushed ==
  ASSUME RInv, UNCHANGED << doing, frames, owner >>
  PROVE  RInv'
BY DEF RInv

LEMMA InitRInv == Init => RInv
<1>1. SUFFICES ASSUME Init PROVE RInv
  OBVIOUS
<1>2. frames = << >> /\ doing = [ r \in Routines |-> << >> ]
  BY <1>1 DEF Init
<1>3. frames \in Seq(Routines) /\ RootFirst(frames) /\ Known(doing, owner)
  BY <1>2 DEF RootFirst, Known
<1>4. Held(doing, frames)
  <2>1. \E f : f \in [ 1 .. MaxCalls -> Nat ]
    <3>1. [ i \in 1 .. MaxCalls |-> 0 ] \in [ 1 .. MaxCalls -> Nat ]
      OBVIOUS
    <3>2. QED BY <3>1
  <2>2. \A x \in Routines : \A f : Lies(doing[x], x, frames, f)
    BY <1>2 DEF Lies
  <2>3. QED BY <2>1, <2>2 DEF Held
<1>5. QED BY <1>3, <1>4 DEF RInv

LEMMA ReadKeeps ==
  ASSUME IInv, FInv, RInv, NEW r \in Routines, NEW g \in Globals, Read(r, g)
  PROVE  RInv'
<1>1. PICK task \in { TaskOf(r), MachineTask(r) } : GetWith(r, g, task)
  BY DEF Read
<1>2. OwnFrame(r) /\ owner \in [ Globals -> Tasks ]
  BY DEF Read, Code, FInv, FlowType
<1>3. CASE UNCHANGED << doing, frames, owner >>
  BY <1>3, NothingPushed
<1>4. CASE slot[g] = "uninitialized" /\ owner' = [ owner EXCEPT ![g] = task ] /\ Push(r, g, task)
  BY <1>2, <1>4, ClaimKeeps
<1>5. QED BY <1>1, <1>3, <1>4 DEF GetWith

\* A waiter's slot is claimed: it claims none when it tries again.
LEMMA SpinReadKeeps ==
  ASSUME FInv, RInv, NEW r \in Routines, SpinRead(r)
  PROVE  RInv'
<1>1. slot[want[r].g] # "uninitialized" /\ GetWith(r, want[r].g, want[r].task)
  BY DEF SpinRead, FInv, WaitersAreNotOwners, Waiting
<1>2. UNCHANGED << doing, frames, owner >>
  BY <1>1 DEF GetWith
<1>3. QED BY <1>2, NothingPushed

LEMMA StepRInv == IInv /\ FInv /\ RInv /\ [Next]_vars => RInv'
<1>1. SUFFICES ASSUME IInv, FInv, RInv, [Next]_vars PROVE RInv'
  OBVIOUS
<1>2. CASE UNCHANGED vars
  BY <1>1, <1>2, NothingPushed DEF vars, globalVars
<1>3. ASSUME NEW r \in Routines, NEW g \in Globals, Read(r, g) PROVE RInv'
  BY <1>1, <1>3, ReadKeeps
<1>4. ASSUME NEW r \in Routines, SpinRead(r) PROVE RInv'
  BY <1>1, <1>4, SpinReadKeeps
<1>5. ASSUME NEW r \in Routines, SpinSet(r) \/ \E g \in Globals : Set(r, g) PROVE RInv'
  BY <1>1, <1>5, NothingPushed DEF SpinSet, Set, SetPass
<1>6. ASSUME NEW r \in Routines, CallFunction(r) PROVE RInv'
  BY <1>1, <1>6, CallbackKeeps
<1>7. ASSUME NEW r \in Routines, Finish(r) PROVE RInv'
  <2>1. /\ Busy(r) /\ OwnFrame(r) /\ Pop(r) /\ owner' = owner
        /\ frames' = IF OnMain(r) THEN SubSeq(frames, 1, Len(frames) - 1) ELSE frames
    BY <1>7 DEF Finish, Code
  <2>2. QED BY <1>1, <2>1, PopKeeps
<1>8. ASSUME NEW r \in Routines, Unwind(r) PROVE RInv'
  BY <1>1, <1>8, PopKeeps DEF Unwind
<1>9. ASSUME NEW r \in Routines, HostCall(r) PROVE RInv'
  BY <1>1, <1>9, SpendKeeps DEF HostCall
<1>10. ASSUME NEW r \in Routines, Otherwise(r) PROVE RInv'
  <2>1. UNCHANGED << frames, owner >> /\ (SpendSwitch(r) \/ doing' = doing)
    BY <1>10 DEF Otherwise
  <2>2. QED BY <1>1, <2>1, SpendKeeps, NothingPushed
<1>11. ASSUME NEW r \in Routines, \/ Fail(r) \/ AfterHostCall(r) \/ HostReturns(r)
                                  \/ StepOnAnothersFrame(r) \/ \E g \in Globals : HostResolve(r, g)
       PROVE  RInv'
  BY <1>1, <1>11, NothingPushed
     DEF Fail, AfterHostCall, HostReturns, StepOnAnothersFrame, HostResolve, globalVars
<1>12. ASSUME NEW r \in Routines, RoutineStep(r) PROVE RInv'
  BY <1>3, <1>4, <1>5, <1>6, <1>7, <1>8, <1>9, <1>10, <1>11, <1>12 DEF RoutineStep
<1>13. QED BY <1>1, <1>2, <1>11, <1>12 DEF Next, Stopped

-----------------------------------------------------------------------------
(* Recursion.                                                              *)

\* Who finds that its own task owns a slot in the making is inside its
\* initializer, or reads with the program's id on the program's machine.
LEMMA OwnersAreInside ==
  ASSUME IInv, RInv, NEW r \in Routines, NEW g \in Globals, OwnFrame(r),
         NEW task \in { TaskOf(r), MachineTask(r) }, slot[g] = "initializing", owner[g] = task
  PROVE  Initializes(r, g) \/ (r # Root /\ OnMain(r) /\ owner[g] = << Root, 0 >>)
<1>1. DoingType /\ doing \in [ Routines -> Seq(Activity) ]
  BY DEF IInv, DoingType
<1>2. PICK x \in Routines, i \in 1 .. MaxCalls : << x, i >> \in Inside(doing, g)
  BY DEF IInv, Claimed, Inside
<1>3. i \in DOMAIN doing[x] /\ doing[x][i].g = g /\ i \in 1 .. Len(doing[x])
  BY <1>1, <1>2 DEF Inside
<1>4. Initializes(x, g)
  BY <1>3 DEF Initializes
<1>5. doing[x][i].task = task /\ (task[1] = x \/ task = << Root, 0 >>)
  BY <1>3 DEF RInv, Known
<1>6. CASE x = r
  BY <1>4, <1>6
<1>7. CASE x # r /\ r = Root
  <2>1. PICK f \in [ 1 .. MaxCalls -> Nat ] : Lies(doing[x], x, frames, f)
    BY <1>7 DEF RInv, Held
  <2>2. Covered(doing[x], i)
    BY <1>3 DEF Covered
  <2>3. f[i] \in 1 .. Len(frames) /\ frames[f[i]] = x
    BY <1>3, <2>1, <2>2 DEF Lies
  <2>4. frames[f[i]] = Root
    BY <1>7, <2>3, RootIsAlone
  <2>5. QED BY <1>7, <2>3, <2>4
<1>8. CASE x # r /\ r # Root
  <2>1. task[1] = r \/ (task = << Root, 0 >> /\ OnMain(r))
    BY <1>1, TasksAreOwn
  <2>2. task = << Root, 0 >> => task[1] = Root
    OBVIOUS
  <2>3. task = << Root, 0 >> /\ OnMain(r)
    BY <1>5, <1>8, <2>1, <2>2
  <2>4. QED BY <1>8, <2>3
<1>9. QED BY <1>6, <1>7, <1>8

\* Only the owner is told of a recursion, when it reads or tries again.
LEMMA ToldIsOwner ==
  ASSUME NEW r \in Routines, NEW g, NEW task, FlowType, GetWith(r, g, task),
         unwind[r] = "no", unwind'[r] = "panic"
  PROVE  slot[g] = "initializing" /\ owner[g] = task
<1>1. ~ Answer(r, "no")
  BY DEF Answer, Return, FlowType
<1>2. ~ \E p : Enter(r, p)
  BY DEF Enter
<1>3. QED BY <1>1, <1>2 DEF GetWith

\* A reader that is told of a recursive initialization has recursed: for any
\* globals and routines it is in the initializer of that very global, except
\* for externs of an initializer that a spawned routine runs.
THEOREM RecursionIsRealHolds == Spec => RecursionIsReal
<1> DEFINE Real(r, g) ==
             /\ Read(r, g) \/ (SpinRead(r) /\ want[r].g = g)
             /\ unwind[r] = "no" /\ unwind'[r] = "panic"
             => Initializes(r, g) \/ (r # Root /\ OnMain(r) /\ owner[g] = << Root, 0 >>)
<1>1. ASSUME IInv, FInv, RInv, NEW r \in Routines, NEW g \in Globals PROVE Real(r, g)
  <2>1. SUFFICES ASSUME Read(r, g) \/ (SpinRead(r) /\ want[r].g = g),
                        unwind[r] = "no", unwind'[r] = "panic"
                 PROVE  Initializes(r, g) \/ (r # Root /\ OnMain(r) /\ owner[g] = << Root, 0 >>)
    OBVIOUS
  <2>2. FlowType
    BY <1>1 DEF FInv
  <2>3. CASE Read(r, g)
    <3>1. PICK task \in { TaskOf(r), MachineTask(r) } : GetWith(r, g, task)
      BY <2>3 DEF Read
    <3>2. slot[g] = "initializing" /\ owner[g] = task
      BY <2>1, <2>2, <3>1, ToldIsOwner
    <3>3. OwnFrame(r)
      BY <2>3 DEF Read, Code
    <3>4. QED BY <1>1, <3>2, <3>3, OwnersAreInside
  <2>4. CASE SpinRead(r) /\ want[r].g = g
    <3>1. GetWith(r, g, want[r].task) /\ at[r] = "spin"
      BY <2>4 DEF SpinRead
    <3>2. slot[g] = "initializing" /\ owner[g] = want[r].task
      BY <2>1, <2>2, <3>1, ToldIsOwner
    <3>3. QED BY <1>1, <2>4, <3>1, <3>2 DEF FInv, WaitersAreNotOwners, Waiting
  <2>5. QED BY <2>1, <2>3, <2>4
<1>2. IInv /\ FInv /\ RInv =>
        [\A r \in Routines, g \in Globals :
           /\ Read(r, g) \/ (SpinRead(r) /\ want[r].g = g)
           /\ unwind[r] = "no" /\ unwind'[r] = "panic"
           => Initializes(r, g) \/ (r # Root /\ OnMain(r) /\ owner[g] = << Root, 0 >>)]_vars
  BY <1>1
<1>3. IInv /\ FInv /\ RInv /\ [Next]_vars => (IInv /\ FInv /\ RInv)'
  BY StepIsClaimed, StepFInv, StepRInv
<1>4. Init => IInv /\ FInv /\ RInv
  BY InitIsClaimed, InitFInv, InitRInv
<1>5. QED BY <1>2, <1>3, <1>4, PTL DEF Spec, RecursionIsReal

=============================================================================
