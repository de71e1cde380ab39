-------------------------- MODULE HostStream_proof --------------------------
(***************************************************************************)
(* For any number of routines, bytes and lengths asked for: what the host  *)
(* delivers reaches the readers whole and in order, and a lone reader that *)
(* waits is never taken for a deadlock.                                    *)
(***************************************************************************)
EXTENDS HostStream, Crew_proof

-----------------------------------------------------------------------------
(* The invariant                                                            *)

Asking == {"arm", "receive", "wait"}
ReadPlaces == {"take", "look", "here", "issue"} \cup Asking
Places == CrewPlaces \cup ReadPlaces

\* ready never closes and takes no senders; what it holds are announcements.
TokenChannel ==
  [ capacity : {1}, buf : Seq({0}), closed : {FALSE}, senders : {<< >>},
    receivers : Seq(Routines) ]

TypeInv ==
  /\ Lock(s)
  /\ at \in [Routines -> Places] /\ unwind \in [Routines -> Reasons]
  /\ want \in [Routines -> Nat] /\ readers \in SUBSET Routines
  /\ next \in 1 .. MaxBytes + 1 /\ pending \in Seq(Int) /\ got \in Seq(Int)
  /\ over \in {"no", "ended", "failed"} /\ overtaken \in BOOLEAN
  /\ inflight \in Nat /\ arming \in BOOLEAN /\ delivering \in Nat /\ disarming \in Nat
  /\ ready \in TokenChannel

OthersEnded == \A x \in Others : at[x] = "ended"

\* Only a reader is inside a read, with a length; who is gone has ended in
\* view of all; who reads in place is Root, the only one left.
Belongs(r) ==
  /\ at[r] \in ReadPlaces => r \in readers /\ want[r] # 0 /\ unwind[r] = "no"
  /\ s.state[r] \in {"done", "unborn"} => r # Root /\ at[r] = "ended"
  /\ at[r] = "here" => r = Root /\ inflight = 0 /\ OthersEnded

\* Who waits is on the list, and parked only while nothing is announced.
Listed(r) ==
  at[r] = "wait" =>
    /\ r \in Members(ready.receivers)
    /\ s.state[r] = "parked" => ready.buf = << >>

RoutinesInv == \A r \in Routines : Belongs(r) /\ Listed(r)

\* One routine at a time registers the read in flight.
OneArms ==
  /\ arming => inflight # 0 /\ \E r \in Routines : at[r] = "arm"
  /\ \A r, x \in Routines : at[r] = "arm" /\ at[x] = "arm" => arming /\ r = x

\* A read in flight is counted as external until its goroutine disarms it.
Armed == IF inflight # 0 /\ ~arming THEN 1 ELSE 0
Counted == s.external = Armed + delivering + disarming

\* A failure that came together with bytes has reached Root, and nobody reads on.
Dropped ==
  /\ over = "failed" /\ Root \in readers /\ unwind[Root] # "no" /\ inflight = 0
  /\ OthersEnded

SoFar == got \o pending
UpTo(n) == [i \in 1 .. n |-> i]

\* What was handed out and what is kept is all the host delivered, in order.
InOrder ==
  IF overtaken THEN Root \in readers /\ ~Alone
  ELSE /\ SoFar = UpTo(Len(SoFar))
       /\ Len(SoFar) <= next - 1
       /\ Len(SoFar) = next - 1 \/ Dropped

\* For a lone reader exactly one read is in flight or announced while it asks.
Outstanding == (IF inflight # 0 THEN 1 ELSE 0) + delivering + Len(ready.buf)

LoneIsExact ==
  \A l \in readers : readers = {l} =>
    /\ unwind[l] = "no" => Outstanding = IF at[l] \in Asking THEN 1 ELSE 0
    /\ at[l] \in {"look", "here"} => pending = << >>

HInv == TypeInv /\ RoutinesInv /\ OneArms /\ Counted /\ InOrder /\ LoneIsExact

-----------------------------------------------------------------------------
(* The channel ready                                                        *)

LEMMA TokensDropped ==
  ASSUME NEW ch \in TokenChannel, NEW r \in Routines
  PROVE  LET d == DropReceiverLocked(ch, r)
         IN  /\ d \in TokenChannel /\ d.buf = ch.buf
             /\ Members(d.receivers) = Members(ch.receivers) \ {r}
<1> DEFINE q == ch.receivers
           S == {i \in DOMAIN q : q[i] # r}
           d == DropReceiverLocked(ch, r)
<1>1. q \in Seq(Routines) /\ DOMAIN q = 1 .. Len(q)
  BY LenProperties DEF TokenChannel
<1>2. d = [ch EXCEPT !.receivers = Entries(q, S)]
  BY DEF DropReceiverLocked, TokenChannel
<1>3. S \in SUBSET (1 .. Len(q)) /\ {q[i] : i \in S} = Members(q) \ {r}
  BY <1>1 DEF Members
<1> HIDE DEF q, S, d
<1>4. Entries(q, S) \in Seq(Routines) /\ Members(Entries(q, S)) = {q[i] : i \in S}
  BY <1>1, <1>3, EntriesOfSeq, EntriesMembers
<1>5. d \in TokenChannel /\ d.buf = ch.buf /\ d.receivers = Entries(q, S)
  BY <1>2, <1>4 DEF TokenChannel
<1> QED
  BY <1>3, <1>4, <1>5 DEF d, q

LEMMA TokensListed ==
  ASSUME NEW ch \in TokenChannel, NEW r \in Routines
  PROVE  LET d == AddReceiver(ch, r)
         IN  /\ d \in TokenChannel /\ d.buf = ch.buf
             /\ Members(d.receivers) = Members(ch.receivers) \cup {r}
<1> DEFINE q == Append(ch.receivers, r)
<1>1. /\ ch.receivers \in Seq(Routines) /\ q \in Seq(Routines)
      /\ AddReceiver(ch, r) = [ch EXCEPT !.receivers = q]
  BY DEF AddReceiver, TokenChannel
<1>2. Members(q) = Members(ch.receivers) \cup {r}
  BY <1>1, MembersOfAppend
<1> HIDE DEF q
<1> QED
  BY <1>1, <1>2 DEF TokenChannel

LEMMA TokenTaken ==
  ASSUME NEW ch \in TokenChannel, ReadyLocked(ch)
  PROVE  LET d == AfterTake(ch)
         IN  /\ d \in TokenChannel /\ d.receivers = ch.receivers
             /\ Len(ch.buf) \in Nat /\ Len(d.buf) = Len(ch.buf) - 1
<1> DEFINE b == Tail(ch.buf)
<1>1. ch.buf \in Seq({0}) /\ ch.buf # << >> /\ ch.senders = << >>
  BY DEF ReadyLocked, TokenChannel
<1>2. b \in Seq({0}) /\ Len(ch.buf) \in Nat /\ Len(b) = Len(ch.buf) - 1
  BY <1>1, EmptySeq, LenProperties, HeadTailProperties
<1>3. AfterTake(ch) = [ch EXCEPT !.buf = b]
  BY <1>1 DEF AfterTake, Refills
<1> HIDE DEF b
<1> QED
  BY <1>2, <1>3 DEF TokenChannel

LEMMA TokenDelivered ==
  ASSUME NEW ch \in TokenChannel
  PROVE  LET d == Delivered(ch, 0)
         IN  /\ d \in TokenChannel /\ d.receivers = ch.receivers
             /\ Len(ch.buf) \in Nat /\ Len(d.buf) = Len(ch.buf) + 1
<1> DEFINE b == Append(ch.buf, 0)
<1>1. ch.buf \in Seq({0}) /\ ~ch.closed
  BY DEF TokenChannel
<1>2. b \in Seq({0}) /\ Len(ch.buf) \in Nat /\ Len(b) = Len(ch.buf) + 1
  BY <1>1, LenProperties
<1>3. Delivered(ch, 0) = [ch EXCEPT !.buf = b]
  BY <1>1 DEF Delivered, Put
<1> HIDE DEF b
<1> QED
  BY <1>2, <1>3 DEF TokenChannel

-----------------------------------------------------------------------------
(* The bytes                                                                *)

LEMMA KeptJoins ==
  ASSUME NEW g \in Seq(Int), NEW p \in Seq(Int), NEW b \in Seq(Int)
  PROVE  g \o (p \o b) = (g \o p) \o b
BY ConcatAssociative, SMTT(60)

\* What moves from the front of one list to the end of another stays in order.
LEMMA KeptMoves ==
  ASSUME NEW g \in Seq(Int), NEW p \in Seq(Int), NEW c \in 1 .. Len(p)
  PROVE  /\ g \o SubSeq(p, 1, c) \in Seq(Int)
         /\ SubSeq(p, c + 1, Len(p)) \in Seq(Int)
         /\ (g \o SubSeq(p, 1, c)) \o SubSeq(p, c + 1, Len(p)) = g \o p
<1> DEFINE a == SubSeq(p, 1, c)
           b == SubSeq(p, c + 1, Len(p))
<1>1. Len(p) \in Nat
  BY LenProperties
<1>2. a \in Seq(Int) /\ b \in Seq(Int)
  BY <1>1, SubSeqProperties, ElementOfSeq
<1>3. a \o b = p
  <2>1. a \o b = SubSeq(p, 1, Len(p))
    BY <1>1, ConcatAdjacentSubSeq
  <2> QED
    BY <2>1, SubSeqFull
<1> HIDE DEF a, b
<1>4. g \o a \in Seq(Int)
  BY <1>2, ConcatProperties
<1>5. (g \o a) \o b = g \o (a \o b)
  BY <1>2, KeptJoins
<1> QED
  BY <1>2, <1>3, <1>4, <1>5 DEF a, b

\* The bytes from next on follow the bytes before it.
LEMMA BytesFollow ==
  ASSUME next \in Nat \ {0}, NEW last \in Int, next - 1 <= last
  PROVE  /\ BytesUpTo(last) \in Seq(Int)
         /\ UpTo(next - 1) \o BytesUpTo(last) = UpTo(last) /\ Len(UpTo(last)) = last
<1> DEFINE n == next - 1
           m == last - n
           b == BytesUpTo(last)
           u == UpTo(n)
           v == UpTo(last)
<1>1. /\ n \in Nat /\ m \in Nat /\ last \in Nat /\ last - next + 1 = m /\ next = n + 1
      /\ n + m = last
  OBVIOUS
<1> HIDE DEF n, m
<1>2. /\ b \in Seq(Int) /\ Len(b) = m
      /\ \A i \in 1 .. m : b[i] = n + i
  BY <1>1 DEF BytesUpTo
<1>3. /\ u \in Seq(Int) /\ Len(u) = n /\ \A i \in 1 .. n : u[i] = i
      /\ v \in Seq(Int) /\ Len(v) = last /\ \A i \in 1 .. last : v[i] = i
  BY <1>1 DEF UpTo
<1> HIDE DEF b, u, v
<1>4. /\ u \o b \in Seq(Int) /\ Len(u \o b) = Len(u) + Len(b)
      /\ \A i \in 1 .. Len(u) + Len(b) :
           (u \o b)[i] = IF i <= Len(u) THEN u[i] ELSE b[i - Len(u)]
  BY <1>2, <1>3, ConcatProperties, ZenonT(60)
<1>5. Len(u \o b) = last /\ Len(u) + Len(b) = last
  BY <1>1, <1>2, <1>3, <1>4
<1>6. ASSUME NEW i \in 1 .. last PROVE (u \o b)[i] = v[i]
  <2>1. v[i] = i /\ (u \o b)[i] = IF i <= n THEN u[i] ELSE b[i - n]
    BY <1>3, <1>4, <1>5
  <2>2. CASE i <= n
    BY <1>3, <2>1, <2>2
  <2>3. CASE ~(i <= n)
    <3>1. i - n \in 1 .. m
      BY <1>1, <2>3
    <3>2. b[i - n] = n + (i - n) /\ n + (i - n) = i
      BY <1>1, <1>2, <3>1
    <3> QED
      BY <2>1, <2>3, <3>2
  <2> QED
    BY <2>2, <2>3
<1>7. u \o b = v
  BY <1>3, <1>4, <1>5, <1>6, SeqEqual
<1> QED
  BY <1>2, <1>3, <1>7 DEF b, u, v, n

-----------------------------------------------------------------------------
(* What a step leaves alone                                                 *)

\* What a routine's step owes the others: they stay where they are, keep their
\* reasons, and the lock only moves them towards their turn.
LeavesOthers(r) ==
  /\ Lock(s') /\ Turns(s, s', {r})
  /\ \A x \in Routines \ {r} :
       at'[x] = at[x] /\ unwind'[x] = unwind[x] /\ want'[x] = want[x]
  /\ readers' = readers
  /\ OthersEnded => OthersEnded'

\* Others keep what the invariant says of them.
LEMMA OthersBelong ==
  ASSUME NEW r \in Routines, LeavesOthers(r), NEW x \in Routines \ {r}, Belongs(x),
         at[x] = "here" => inflight' = inflight
  PROVE  Belongs(x)'
<1>1. \/ s'.state[x] = s.state[x]
      \/ s'.state[x] \in {"ready", "running"}
  BY DEF LeavesOthers, Turns
<1> QED
  BY <1>1 DEF LeavesOthers, Belongs

LEMMA OthersListed ==
  ASSUME NEW r \in Routines, LeavesOthers(r), NEW x \in Routines \ {r}, Listed(x),
         Members(ready.receivers) \ {r} \subseteq Members(ready'.receivers),
         ready.buf = << >> => ready'.buf = << >>
  PROVE  Listed(x)'
<1>1. \/ s'.state[x] = s.state[x]
      \/ s'.state[x] \in {"ready", "running"}
  BY DEF LeavesOthers, Turns
<1> QED
  BY <1>1 DEF LeavesOthers, Listed

\* Nobody reads on after a failure has dropped bytes.
LEMMA ReadingDropsNothing ==
  ASSUME HInv, NEW r \in Routines, at[r] \in ReadPlaces
  PROVE  ~Dropped
<1>1. r # Root => r \in Others
  BY DEF Others
<1>2. Belongs(r) /\ "ended" \notin ReadPlaces
  BY DEF HInv, RoutinesInv, ReadPlaces, Asking
<1> QED
  BY <1>1, <1>2 DEF Dropped, OthersEnded, Belongs

\* The order of the bytes, where they and the way of delivery stay.
LEMMA OrderStays ==
  ASSUME InOrder, SoFar' = SoFar, UNCHANGED << next, overtaken, readers >>,
         Dropped => Dropped'
  PROVE  InOrder'
BY DEF InOrder, Alone

\* The routine r moves and nobody else.
StepsAlone(r) ==
  /\ \E place \in Places : at' = [at EXCEPT ![r] = place]
  /\ unwind' = unwind \/ \E reason \in Reasons :
       unwind' = [unwind EXCEPT ![r] = IF @ = "no" THEN reason ELSE @]
  /\ want' = want \/ \E n \in Nat : want' = [want EXCEPT ![r] = n]
  /\ at[r] # "ended" /\ readers' = readers

LEMMA MovesLeave ==
  ASSUME TypeInv, NEW r \in Routines, StepsAlone(r), Lock(s'), Turns(s, s', {r})
  PROVE  /\ LeavesOthers(r)
         /\ at' \in [Routines -> Places] /\ unwind' \in [Routines -> Reasons]
         /\ want' \in [Routines -> Nat] /\ readers' \in SUBSET Routines
         /\ unwind'[r] = "no" => unwind[r] = "no"
<1>1. /\ at' \in [Routines -> Places] /\ \A x \in Routines \ {r} : at'[x] = at[x]
  BY DEF StepsAlone, TypeInv
<1>2. /\ unwind' \in [Routines -> Reasons] /\ \A x \in Routines \ {r} : unwind'[x] = unwind[x]
      /\ unwind'[r] = "no" => unwind[r] = "no"
  BY DEF StepsAlone, TypeInv, Reasons
<1>3. want' \in [Routines -> Nat] /\ \A x \in Routines \ {r} : want'[x] = want[x]
  BY DEF StepsAlone, TypeInv
<1>4. OthersEnded => OthersEnded'
  BY <1>1 DEF OthersEnded, Others, StepsAlone
<1> QED
  BY <1>1, <1>2, <1>3, <1>4 DEF LeavesOthers, StepsAlone, TypeInv

LEMMA LocalTurns ==
  ASSUME NEW r, s' = s
  PROVE  Turns(s, s', {r})
BY DEF Turns

-----------------------------------------------------------------------------
(* Steps that neither ask nor answer                                        *)

Quiet(r) ==
  /\ LeavesOthers(r)
  /\ at[r] \notin Asking /\ at'[r] \notin Asking
  /\ unwind'[r] = "no" => unwind[r] = "no"
  /\ UNCHANGED << ready, inflight, arming, delivering, disarming >>
  /\ TypeInv' /\ Belongs(r)' /\ InOrder'
  /\ pending' = pending \/ r \in readers
  /\ readers = {r} /\ at'[r] \in {"look", "here"} => pending' = << >>

LEMMA QuietHolds ==
  ASSUME HInv, NEW r \in Routines, Quiet(r)
  PROVE  HInv'
<1>1. LeavesOthers(r) /\ TypeInv' /\ TypeInv
  BY DEF Quiet, HInv
<1>2. RoutinesInv'
  <2> SUFFICES ASSUME NEW x \in Routines PROVE Belongs(x)' /\ Listed(x)'
    BY DEF RoutinesInv
  <2>1. CASE x = r
    BY <2>1 DEF Quiet, Listed, Asking
  <2>2. CASE x # r
    <3>1. Belongs(x) /\ Listed(x)
      BY DEF HInv, RoutinesInv
    <3>2. Belongs(x)'
      BY <2>2, <3>1, OthersBelong DEF Quiet
    <3>3. Listed(x)'
      BY <2>2, <3>1, OthersListed DEF Quiet
    <3> QED
      BY <3>2, <3>3
  <2> QED
    BY <2>1, <2>2
<1>3. OneArms'
  <2>1. \A x \in Routines : at'[x] = "arm" <=> at[x] = "arm"
    BY DEF Quiet, LeavesOthers, Asking
  <2> QED
    BY <2>1 DEF HInv, OneArms, Quiet
<1>4. Counted'
  BY DEF HInv, Counted, Armed, Quiet, LeavesOthers, Turns
<1>5. LoneIsExact'
  <2> SUFFICES ASSUME NEW l \in readers, readers = {l}
               PROVE  /\ unwind'[l] = "no" => Outstanding' = IF at'[l] \in Asking THEN 1 ELSE 0
                      /\ at'[l] \in {"look", "here"} => pending' = << >>
    BY <1>1 DEF LoneIsExact, LeavesOthers
  <2>1. l \in Routines /\ Outstanding' = Outstanding
    BY <1>1 DEF TypeInv, Quiet, Outstanding
  <2>2. /\ unwind[l] = "no" => Outstanding = IF at[l] \in Asking THEN 1 ELSE 0
        /\ at[l] \in {"look", "here"} => pending = << >>
    BY DEF HInv, LoneIsExact
  <2>3. CASE l = r
    BY <2>1, <2>2, <2>3 DEF Quiet
  <2>4. CASE l # r
    BY <2>1, <2>2, <2>4 DEF Quiet, LeavesOthers
  <2> QED
    BY <2>3, <2>4
<1> QED
  BY <1>1, <1>2, <1>3, <1>4, <1>5 DEF HInv, Quiet

\* What holds of the routine that is about to take a step of its own.
LEMMA Holder ==
  ASSUME HInv, NEW r \in Routines, Running(r)
  PROVE  /\ TypeInv /\ Lock(s) /\ s.state[r] = "running"
         /\ at[r] \in Places /\ unwind[r] \in Reasons /\ want[r] \in Nat
         /\ Belongs(r) /\ Listed(r)
         /\ \A reason \in Reasons : StopReason(r) \in Reasons
<1>1. TypeInv /\ Lock(s) /\ Belongs(r) /\ Listed(r)
  BY DEF HInv, TypeInv, RoutinesInv
<1>2. s.state[r] = "running"
  BY <1>1, HolderRuns DEF Running
<1> QED
  BY <1>1, <1>2 DEF TypeInv, StopReason, StopReasonLocked, Reasons

LEMMA ReadHolds ==
  ASSUME HInv, NEW r \in Routines, NEW n \in Sizes, Read(r, n)
  PROVE  HInv'
<1>1. /\ TypeInv /\ Lock(s) /\ s.state[r] = "running"
      /\ at[r] = "user" /\ unwind[r] = "no" /\ r \in readers
  BY Holder DEF Read, InUserCode
<1>2. /\ at' = [at EXCEPT ![r] = "take"] /\ unwind' = unwind /\ want' = [want EXCEPT ![r] = n]
      /\ s' = s /\ UNCHANGED << readers, overtaken, next, pending, inflight, over, ready,
                                arming, delivering, disarming, got >>
      /\ n \in Nat /\ n # 0
  BY HostStreamAssumption DEF Read, Enter
<1>3. StepsAlone(r)
  BY <1>1, <1>2 DEF StepsAlone, Places, ReadPlaces
<1>4. /\ LeavesOthers(r) /\ at' \in [Routines -> Places] /\ unwind' \in [Routines -> Reasons]
      /\ want' \in [Routines -> Nat] /\ readers' \in SUBSET Routines
      /\ unwind'[r] = "no" => unwind[r] = "no"
  BY <1>1, <1>2, <1>3, LocalTurns, MovesLeave DEF Lock
<1>5. TypeInv'
  BY <1>1, <1>2, <1>4 DEF TypeInv, Lock
<1>6. at'[r] = "take" /\ want'[r] = n /\ unwind'[r] = "no"
  BY <1>1, <1>2 DEF TypeInv
<1>7. Belongs(r)'
  BY <1>1, <1>2, <1>6 DEF Belongs
<1>8. InOrder'
  <2>1. InOrder /\ SoFar' = SoFar
    BY <1>2 DEF HInv, SoFar
  <2>2. Dropped => Dropped'
    BY <1>2, <1>4 DEF Dropped, LeavesOthers
  <2> QED
    BY <1>2, <2>1, <2>2, OrderStays
<1> QED
  BY <1>1, <1>2, <1>4, <1>5, <1>6, <1>7, <1>8, QuietHolds DEF Quiet, Asking

LEMMA LookHolds ==
  ASSUME HInv, NEW r \in Routines, Look(r)
  PROVE  HInv'
<1>1. /\ TypeInv /\ Lock(s) /\ s.state[r] = "running" /\ at[r] = "look"
      /\ r \in readers /\ want[r] # 0 /\ unwind[r] = "no" /\ s.running = r
  BY Holder DEF Look, Reading, Belongs, ReadPlaces, Running
<1>2. PICK place \in {"here", "issue"} :
        /\ at' = [at EXCEPT ![r] = place]
        /\ place = "here" => inflight = 0 /\ Cardinality(Live(s)) = 1
  BY DEF Look, Enter
<1>3. unwind' = unwind /\ s' = s /\ UNCHANGED streamVars
  BY DEF Look, Enter
<1>4. StepsAlone(r)
  BY <1>1, <1>2, <1>3 DEF StepsAlone, Places, ReadPlaces, streamVars
<1>5. /\ LeavesOthers(r) /\ at' \in [Routines -> Places] /\ unwind' \in [Routines -> Reasons]
      /\ want' \in [Routines -> Nat] /\ readers' \in SUBSET Routines
      /\ unwind'[r] = "no" => unwind[r] = "no"
  BY <1>1, <1>3, <1>4, LocalTurns, MovesLeave DEF Lock
<1>6. TypeInv'
  BY <1>1, <1>3, <1>5 DEF TypeInv, Lock, streamVars
<1>7. at'[r] = place
  BY <1>1, <1>2 DEF TypeInv
<1>8. Belongs(r)'
  <2>1. ASSUME place = "here" PROVE r = Root /\ inflight = 0 /\ OthersEnded'
    <3>1. Live(s) \in SUBSET Routines /\ r \in Live(s) /\ Cardinality(Live(s)) = 1
      BY <1>1, <1>2, <2>1 DEF Live
    <3>2. Live(s) = {r}
      <4>1. IsFiniteSet(Live(s))
        BY <3>1, RoutinesFinite, FS_Subset
      <4>2. PICK q : Live(s) = {q}
        BY <3>1, <4>1, FS_Singleton
      <4> QED
        BY <3>1, <4>2
    <3>3. \A x \in Routines \ {r} : x # Root /\ at[x] = "ended"
      <4> TAKE x \in Routines \ {r}
      <4>1. s.state[x] \in {"done", "unborn"}
        BY <3>2 DEF Live
      <4> QED
        BY <4>1 DEF HInv, RoutinesInv, Belongs
    <3>4. r = Root
      BY <3>3, RoutinesFinite
    <3> QED
      BY <1>2, <1>5, <2>1, <3>3, <3>4 DEF OthersEnded, Others, LeavesOthers
  <2> QED
    BY <1>1, <1>3, <1>7, <2>1 DEF Belongs, streamVars
<1>9. InOrder'
  <2>1. InOrder /\ SoFar' = SoFar
    BY <1>3 DEF HInv, SoFar, streamVars
  <2>2. Dropped => Dropped'
    BY <1>3, <1>5 DEF Dropped, LeavesOthers, streamVars
  <2> QED
    BY <1>3, <2>1, <2>2, OrderStays DEF streamVars
<1>10. readers = {r} => pending' = << >>
  BY <1>1, <1>3 DEF HInv, LoneIsExact, streamVars
<1> QED
  BY <1>1, <1>3, <1>5, <1>6, <1>7, <1>8, <1>9, <1>10, QuietHolds
     DEF Quiet, Asking, streamVars

LEMMA TakeLocallyHolds ==
  ASSUME HInv, NEW r \in Routines, TakeLocally(r)
  PROVE  HInv'
<1> DEFINE count == IF want[r] < Len(pending) THEN want[r] ELSE Len(pending)
<1>1. /\ TypeInv /\ Lock(s) /\ s.state[r] = "running" /\ at[r] = "take"
      /\ r \in readers /\ want[r] # 0 /\ unwind[r] = "no"
  BY Holder DEF TakeLocally, Reading, Belongs, ReadPlaces
<1>2. /\ s' = s /\ UNCHANGED << readers, overtaken, next, inflight, over, ready,
                                arming, delivering, disarming >>
  BY DEF TakeLocally
<1>3. /\ \/ \E reason \in {"no", "panic"} : Finish(r, reason)
         \/ Enter(r, "look") /\ want' = want /\ pending = << >>
      /\ \/ pending' = pending /\ got' = got
         \/ /\ pending # << >>
            /\ got' = got \o SubSeq(pending, 1, count)
            /\ pending' = SubSeq(pending, count + 1, Len(pending))
  BY DEF TakeLocally
<1>4. \/ /\ at' = [at EXCEPT ![r] = "user"] /\ want' = [want EXCEPT ![r] = 0]
         /\ \E reason \in Reasons : unwind' = [unwind EXCEPT ![r] = IF @ = "no" THEN reason ELSE @]
      \/ /\ at' = [at EXCEPT ![r] = "look"] /\ want' = want /\ unwind' = unwind
         /\ pending = << >> /\ pending' = << >>
  BY <1>3 DEF Finish, Return, Enter, Reasons
<1>5. StepsAlone(r)
  BY <1>1, <1>2, <1>4 DEF StepsAlone, Places, ReadPlaces, CrewPlaces
<1>6. /\ LeavesOthers(r) /\ at' \in [Routines -> Places] /\ unwind' \in [Routines -> Reasons]
      /\ want' \in [Routines -> Nat] /\ readers' \in SUBSET Routines
      /\ unwind'[r] = "no" => unwind[r] = "no"
  BY <1>1, <1>2, <1>5, LocalTurns, MovesLeave DEF Lock
<1>7. pending' \in Seq(Int) /\ got' \in Seq(Int) /\ SoFar' = SoFar
  <2>1. CASE pending' = pending /\ got' = got
    BY <1>1, <2>1 DEF TypeInv, SoFar
  <2>2. CASE ~(pending' = pending /\ got' = got)
    <3>1. pending \in Seq(Int) /\ got \in Seq(Int) /\ want[r] \in Nat /\ pending # << >>
      BY <1>1, <1>3, <2>2 DEF TypeInv
    <3>2. count \in 1 .. Len(pending)
      <4>1. Len(pending) \in Nat \ {0}
        BY <3>1, EmptySeq
      <4> QED
        BY <1>1, <3>1, <4>1
    <3> HIDE DEF count
    <3> QED
      BY <1>3, <2>2, <3>1, <3>2, KeptMoves, ZenonT(60) DEF SoFar
  <2> QED
    BY <2>1, <2>2
<1> HIDE DEF count
<1>8. TypeInv'
  BY <1>1, <1>2, <1>6, <1>7 DEF TypeInv, Lock
<1>9. at'[r] \in {"user", "look"}
  BY <1>1, <1>4 DEF TypeInv
<1>10. Belongs(r)'
  BY <1>1, <1>2, <1>4, <1>9 DEF Belongs, TypeInv, ReadPlaces, Asking
<1>11. InOrder'
  <2>1. Dropped => Dropped'
    BY <1>1, ReadingDropsNothing DEF ReadPlaces
  <2> QED
    BY <1>2, <1>7, <2>1, OrderStays DEF HInv
<1>12. at'[r] \in {"look", "here"} => pending' = << >>
  BY <1>1, <1>4 DEF TypeInv
<1> QED
  BY <1>1, <1>2, <1>6, <1>8, <1>9, <1>10, <1>11, <1>12, QuietHolds DEF Quiet, Asking

LEMMA ReadHereHolds ==
  ASSUME HInv, NEW r \in Routines, ReadHere(r)
  PROVE  HInv'
<1>1. /\ TypeInv /\ Lock(s) /\ s.state[r] = "running" /\ at[r] = "here"
      /\ r \in readers /\ want[r] # 0 /\ unwind[r] = "no" /\ r = Root
      /\ inflight = 0 /\ OthersEnded
  BY Holder DEF ReadHere, Reading, Belongs, ReadPlaces
<1>2. /\ s' = s /\ UNCHANGED << readers, pending, inflight, ready, arming,
                                delivering, disarming >>
  BY DEF ReadHere
<1>3. PICK a \in ReadAnswers(want[r]) :
        /\ next' = a.last + 1 /\ Note(a)
        /\ got' = IF a.over = "failed" THEN got ELSE got \o BytesUpTo(a.last)
        /\ overtaken' = (overtaken \/ pending # << >>)
        /\ Finish(r, IF a.over = "failed" THEN "panic" ELSE "no")
  BY DEF ReadHere
<1>4. /\ a.last \in Int /\ next - 1 <= a.last /\ a.last <= MaxBytes
      /\ a.over \in {"no", "ended", "failed"} /\ next \in Nat \ {0}
  BY <1>1, HostStreamAssumption DEF ReadAnswers, TypeInv
<1>5. /\ at' = [at EXCEPT ![r] = "user"] /\ want' = [want EXCEPT ![r] = 0]
      /\ \E reason \in Reasons : unwind' = [unwind EXCEPT ![r] = IF @ = "no" THEN reason ELSE @]
      /\ a.over = "failed" => unwind'[r] = "panic"
  BY <1>1, <1>3 DEF Finish, Return, Reasons, TypeInv
<1>6. StepsAlone(r)
  BY <1>1, <1>2, <1>5 DEF StepsAlone, Places, ReadPlaces, CrewPlaces
<1>7. /\ LeavesOthers(r) /\ at' \in [Routines -> Places] /\ unwind' \in [Routines -> Reasons]
      /\ want' \in [Routines -> Nat] /\ readers' \in SUBSET Routines
      /\ unwind'[r] = "no" => unwind[r] = "no"
  BY <1>1, <1>2, <1>6, LocalTurns, MovesLeave DEF Lock
<1>8. /\ next' \in 1 .. MaxBytes + 1 /\ got' \in Seq(Int)
      /\ over' \in {"no", "ended", "failed"} /\ overtaken' \in BOOLEAN
  <2>1. next' \in 1 .. MaxBytes + 1 /\ over' \in {"no", "ended", "failed"} /\ overtaken' \in BOOLEAN
    BY <1>1, <1>3, <1>4, HostStreamAssumption DEF Note, TypeInv
  <2>2. got \in Seq(Int)
    BY <1>1 DEF TypeInv
  <2>3. BytesUpTo(a.last) \in Seq(Int)
    BY <1>4, BytesFollow
  <2>4. got \o BytesUpTo(a.last) \in Seq(Int)
    BY <2>2, <2>3, ConcatProperties
  <2> QED
    BY <1>3, <2>1, <2>2, <2>4
<1>9. TypeInv'
  BY <1>1, <1>2, <1>7, <1>8 DEF TypeInv, Lock
<1>10. at'[r] = "user"
  BY <1>1, <1>5 DEF TypeInv
<1>11. Belongs(r)'
  BY <1>1, <1>2, <1>10 DEF Belongs, ReadPlaces, Asking
<1>12. InOrder'
  <2>1. CASE overtaken'
    <3>1. Root \in readers /\ ~Alone
      <4>1. CASE overtaken
        BY <4>1 DEF HInv, InOrder
      <4>2. CASE pending # << >>
        <5>1. readers # {r}
          BY <1>1, <4>2 DEF HInv, LoneIsExact
        <5>2. ASSUME Alone PROVE FALSE
          <6>1. IsFiniteSet(readers)
            BY <1>1, RoutinesFinite, FS_Subset DEF TypeInv
          <6>2. PICK q : readers = {q}
            BY <5>2, <6>1, FS_Singleton DEF Alone
          <6> QED
            BY <1>1, <5>1, <6>2
        <5> QED
          BY <1>1, <5>2
      <4> QED
        BY <1>3, <2>1, <4>1, <4>2
    <3> QED
      BY <1>2, <2>1, <3>1 DEF InOrder, Alone
  <2>2. CASE ~overtaken'
    <3>1. ~overtaken /\ pending = << >> /\ pending' = << >>
      BY <1>1, <1>2, <1>3, <2>2 DEF TypeInv
    <3>2. ~Dropped
      BY <1>1, ReadingDropsNothing DEF ReadPlaces
    <3>3. SoFar = got /\ SoFar' = got'
      <4>1. got \o << >> = got /\ got' \o << >> = got'
        BY <1>1, <1>8, ConcatEmptySeq DEF TypeInv
      <4> QED
        BY <3>1, <4>1 DEF SoFar
    <3>4. got = UpTo(next - 1) /\ Len(got) = next - 1
      BY <3>1, <3>2, <3>3 DEF HInv, InOrder
    <3>5. CASE a.over = "failed"
      <4>1. got' = got /\ over' = "failed" /\ next' = a.last + 1
        BY <1>3, <3>5 DEF Note
      <4>2. Dropped'
        BY <1>1, <1>2, <1>5, <1>7, <3>5, <4>1 DEF Dropped, LeavesOthers
      <4> QED
        BY <1>4, <2>2, <3>3, <3>4, <4>1, <4>2 DEF InOrder
    <3>6. CASE a.over # "failed"
      <4>1. got' = got \o BytesUpTo(a.last) /\ next' = a.last + 1
        BY <1>3, <3>6
      <4>2. got' = UpTo(a.last) /\ Len(got') = a.last
        BY <1>4, <3>4, <4>1, BytesFollow
      <4> QED
        BY <1>4, <2>2, <3>3, <4>1, <4>2 DEF InOrder
    <3> QED
      BY <3>5, <3>6
  <2> QED
    BY <2>1, <2>2
<1> QED
  BY <1>1, <1>2, <1>7, <1>9, <1>10, <1>11, <1>12, QuietHolds DEF Quiet, Asking

LEMMA CrewHolds ==
  ASSUME HInv, NEW r \in Routines, CrewStep(r), UNCHANGED streamVars
  PROVE  HInv'
<1>1. TypeInv /\ Lock(s) /\ Belongs(r)
  BY DEF HInv, TypeInv, RoutinesInv
<1>2. /\ Lock(s') /\ Turns(s, s', {r})
      /\ at[r] \in CrewPlaces \ {"ended"} /\ at'[r] \in CrewPlaces
      /\ \A x \in Routines \ {r} : at'[x] = at[x]
      /\ s'.state[r] \in {"done", "unborn"} => r # Root /\ at'[r] = "ended"
  BY <1>1, CrewLock DEF TypeInv
<1>3. /\ unwind' \in [Routines -> Reasons]
      /\ \A x \in Routines \ {r} : unwind'[x] = unwind[x]
      /\ unwind[r] # "no" => unwind'[r] # "no"
  BY <1>1, CrewUnwinds DEF TypeInv
<1>4. /\ readers' = readers /\ next' = next /\ pending' = pending /\ inflight' = inflight
      /\ over' = over /\ ready' = ready /\ arming' = arming /\ delivering' = delivering
      /\ disarming' = disarming /\ want' = want /\ got' = got /\ overtaken' = overtaken
  BY DEF streamVars
<1>5. at' \in [Routines -> Places]
  <2>1. \E place \in CrewPlaces : at' = [at EXCEPT ![r] = place]
    <3>1. Yield(r) => \E place \in CrewPlaces : at' = [at EXCEPT ![r] = place]
      BY DEF Yield, Return, Enter, CrewPlaces
    <3>2. StartOrResumeYield(r) => \E place \in CrewPlaces : at' = [at EXCEPT ![r] = place]
      BY DEF StartOrResumeYield, Return, CrewPlaces
    <3>3. (\E x \in Routines : CancelRoutine(r, x)) =>
            \E place \in CrewPlaces : at' = [at EXCEPT ![r] = place]
      BY <1>1, <1>2 DEF CancelRoutine, TypeInv
    <3>4. EndRoutine(r) => \E place \in CrewPlaces : at' = [at EXCEPT ![r] = place]
      BY DEF EndRoutine, Enter, CrewPlaces
    <3>5. r = Root /\ (CloseScope \/ ResumeClose) =>
            \E place \in CrewPlaces : at' = [at EXCEPT ![r] = place]
      BY DEF CloseScope, ResumeClose, CloseLoop, CrewPlaces
    <3>6. r = Root /\ EndProgram => \E place \in CrewPlaces : at' = [at EXCEPT ![r] = place]
      BY DEF EndProgram, Enter, CrewPlaces
    <3> QED
      BY <3>1, <3>2, <3>3, <3>4, <3>5, <3>6 DEF CrewStep
  <2> QED
    BY <1>1, <2>1 DEF TypeInv, Places
<1>6. OthersEnded => OthersEnded'
  BY <1>2 DEF OthersEnded, Others
<1>7. LeavesOthers(r)
  BY <1>2, <1>3, <1>4, <1>6 DEF LeavesOthers
<1>8. TypeInv'
  BY <1>1, <1>2, <1>3, <1>4, <1>5 DEF TypeInv
<1>9. Belongs(r)'
  BY <1>2 DEF Belongs, CrewPlaces, ReadPlaces, Asking
<1>10. InOrder'
  <2>1. Dropped => Dropped'
    <3>1. unwind[Root] # "no" => unwind'[Root] # "no"
      BY <1>3, RoutinesFinite
    <3> QED
      BY <1>4, <1>6, <3>1 DEF Dropped
  <2>2. SoFar' = SoFar
    BY <1>4 DEF SoFar
  <2> QED
    BY <1>4, <2>1, <2>2, OrderStays DEF HInv
<1> QED
  BY <1>2, <1>3, <1>4, <1>7, <1>8, <1>9, <1>10, QuietHolds DEF Quiet, CrewPlaces, Asking

-----------------------------------------------------------------------------
(* Asking                                                                   *)

\* A step of a reader r that asks or stops asking: the rest of the invariant,
\* given what the step does to the counts.
Asks(r) ==
  /\ LeavesOthers(r) /\ TypeInv' /\ Belongs(r)' /\ Listed(r)'
  /\ at[r] \in {"issue"} \cup Asking /\ r \in readers
  /\ unwind[r] = "no"
  /\ UNCHANGED << next, pending, over, got, overtaken >>
  /\ Members(ready.receivers) \ {r} \subseteq Members(ready'.receivers)
  /\ ready.buf = << >> => ready'.buf = << >>
  /\ inflight' = inflight \/ at[r] = "issue"
  /\ OneArms' /\ Counted'
  /\ at'[r] \notin {"look", "here"}
  /\ unwind'[r] = "no" /\ Outstanding = (IF at[r] \in Asking THEN 1 ELSE 0) =>
       Outstanding' = IF at'[r] \in Asking THEN 1 ELSE 0

LEMMA AskingHolds ==
  ASSUME HInv, NEW r \in Routines, Asks(r)
  PROVE  HInv'
<1>1. LeavesOthers(r) /\ TypeInv' /\ TypeInv
  BY DEF Asks, HInv
<1>2. RoutinesInv'
  <2> SUFFICES ASSUME NEW x \in Routines PROVE Belongs(x)' /\ Listed(x)'
    BY DEF RoutinesInv
  <2>1. CASE x = r
    BY <2>1 DEF Asks
  <2>2. CASE x # r
    <3>1. Belongs(x) /\ Listed(x)
      BY DEF HInv, RoutinesInv
    <3>2. at[x] # "here"
      <4> SUFFICES ASSUME at[x] = "here" PROVE FALSE
        OBVIOUS
      <4>1. x = Root /\ OthersEnded
        BY <3>1 DEF Belongs
      <4>2. r \in Others
        BY <2>2, <4>1 DEF Others
      <4> QED
        BY <4>1, <4>2 DEF OthersEnded, Asks, Asking
    <3>3. Belongs(x)'
      BY <1>1, <2>2, <3>1, <3>2, OthersBelong
    <3>4. Listed(x)'
      BY <2>2, <3>1, OthersListed DEF Asks
    <3> QED
      BY <3>3, <3>4
  <2> QED
    BY <2>1, <2>2
<1>3. InOrder'
  <2>1. ~Dropped
    BY ReadingDropsNothing DEF Asks, ReadPlaces
  <2>2. SoFar' = SoFar
    BY DEF Asks, SoFar
  <2> QED
    BY <1>1, <2>1, <2>2, OrderStays DEF HInv, Asks, LeavesOthers
<1>4. LoneIsExact'
  <2> SUFFICES ASSUME NEW l \in readers, readers = {l}
               PROVE  /\ unwind'[l] = "no" => Outstanding' = IF at'[l] \in Asking THEN 1 ELSE 0
                      /\ at'[l] \in {"look", "here"} => pending' = << >>
    BY <1>1 DEF LoneIsExact, LeavesOthers
  <2>1. l = r
    BY DEF Asks
  <2>2. unwind[r] = "no" => Outstanding = IF at[r] \in Asking THEN 1 ELSE 0
    BY <2>1 DEF HInv, LoneIsExact
  <2> QED
    BY <2>1, <2>2 DEF Asks
<1> QED
  BY <1>1, <1>2, <1>3, <1>4 DEF HInv, Asks

LEMMA StartReadHolds ==
  ASSUME HInv, NEW r \in Routines, StartRead(r)
  PROVE  HInv'
<1>1. /\ TypeInv /\ Lock(s) /\ s.state[r] = "running" /\ at[r] = "issue"
      /\ r \in readers /\ want[r] # 0 /\ unwind[r] = "no" /\ want[r] \in Nat
  BY Holder DEF StartRead, Reading, Belongs, ReadPlaces
<1>2. /\ s' = s /\ unwind' = unwind
      /\ UNCHANGED << readers, overtaken, next, pending, over, ready, delivering,
                      disarming, want, got >>
  BY DEF StartRead, Enter
<1>3. \/ /\ inflight # 0 /\ inflight' = inflight /\ arming' = arming
         /\ at' = [at EXCEPT ![r] = "receive"]
      \/ /\ inflight = 0 /\ inflight' = want[r] /\ arming' = TRUE
         /\ at' = [at EXCEPT ![r] = "arm"]
  BY DEF StartRead, Enter
<1>4. StepsAlone(r)
  BY <1>1, <1>2, <1>3 DEF StepsAlone, Places, ReadPlaces, Asking
<1>5. /\ LeavesOthers(r) /\ at' \in [Routines -> Places] /\ unwind' \in [Routines -> Reasons]
      /\ want' \in [Routines -> Nat] /\ readers' \in SUBSET Routines
  BY <1>1, <1>2, <1>4, LocalTurns, MovesLeave DEF Lock
<1>6. TypeInv'
  BY <1>1, <1>2, <1>3, <1>5 DEF TypeInv, Lock
<1>7. /\ at'[r] \in {"receive", "arm"}
      /\ at'[r] = "arm" <=> inflight = 0
  BY <1>1, <1>3 DEF TypeInv
<1>8. Belongs(r)' /\ Listed(r)'
  BY <1>1, <1>2, <1>7 DEF Belongs, Listed
<1>9. OneArms' /\ Counted'
  <2>1. OneArms /\ Counted /\ \A x \in Routines \ {r} : at'[x] = at[x]
    BY <1>5 DEF HInv, LeavesOthers
  <2>2. CASE inflight = 0
    <3>1. \A x \in Routines : at[x] # "arm"
      BY <2>1, <2>2 DEF OneArms
    <3>2. OneArms'
      BY <1>1, <1>3, <1>7, <2>1, <2>2, <3>1 DEF OneArms
    <3>3. Counted'
      BY <1>2, <1>3, <2>1, <2>2 DEF Counted, Armed
    <3> QED
      BY <3>2, <3>3
  <2>3. CASE inflight # 0
    <3>1. \A x \in Routines : at'[x] = "arm" <=> at[x] = "arm"
      BY <1>1, <1>7, <2>1, <2>3
    <3>2. OneArms'
      BY <1>3, <2>1, <2>3, <3>1 DEF OneArms
    <3>3. Counted'
      BY <1>2, <1>3, <2>1, <2>3 DEF Counted, Armed
    <3> QED
      BY <3>2, <3>3
  <2> QED
    BY <2>2, <2>3
<1>10. Outstanding = 0 => Outstanding' = 1
  <2>1. Len(ready.buf) \in Nat /\ delivering \in Nat /\ inflight \in Nat
    BY <1>1, LenProperties DEF TypeInv, TokenChannel
  <2>2. Outstanding = 0 => inflight = 0 /\ delivering = 0 /\ Len(ready.buf) = 0
    <3> DEFINE i == IF inflight # 0 THEN 1 ELSE 0
               n == Len(ready.buf)
    <3>1. /\ i \in Nat /\ n \in Nat
          /\ i = 0 => inflight = 0
          /\ Outstanding = i + delivering + n
      BY <2>1 DEF Outstanding
    <3> HIDE DEF i, n
    <3>2. Outstanding = 0 => inflight = 0 /\ delivering = 0 /\ n = 0
      BY <2>1, <3>1
    <3> QED
      BY <3>2 DEF n
  <2>3. inflight = 0 => inflight' # 0
    BY <1>1, <1>3
  <2>4. delivering' = delivering /\ Len(ready'.buf) = Len(ready.buf)
    BY <1>2
  <2> QED
    BY <2>2, <2>3, <2>4 DEF Outstanding
<1>11. Outstanding = (IF at[r] \in Asking THEN 1 ELSE 0) =>
         Outstanding' = IF at'[r] \in Asking THEN 1 ELSE 0
  BY <1>1, <1>7, <1>10 DEF Asking
<1> QED
  BY <1>1, <1>2, <1>5, <1>6, <1>7, <1>8, <1>9, <1>11, AskingHolds DEF Asks

LEMMA ArmHolds ==
  ASSUME HInv, NEW r \in Routines, Arm(r)
  PROVE  HInv'
<1>1. /\ TypeInv /\ Lock(s) /\ s.state[r] = "running" /\ at[r] = "arm"
      /\ r \in readers /\ want[r] # 0 /\ unwind[r] = "no"
  BY Holder DEF Arm, Reading, Belongs, ReadPlaces, Asking
<1>2. /\ s' = ArmExternal(s) /\ unwind' = unwind /\ arming' = FALSE
      /\ at' = [at EXCEPT ![r] = "receive"]
      /\ UNCHANGED << readers, overtaken, next, pending, inflight, over, ready,
                      delivering, disarming, want, got >>
  BY DEF Arm, Enter
<1>3. s'.state = s.state /\ s'.external = s.external + 1
  BY <1>1, <1>2 DEF ArmExternal, Lock, LockType
<1>4. Lock(s')
  BY <1>1, <1>2, ArmLock
<1>5. /\ at' \in [Routines -> Places] /\ \A x \in Routines \ {r} : at'[x] = at[x]
      /\ at'[r] = "receive"
  BY <1>1, <1>2 DEF TypeInv, Places, ReadPlaces, Asking
<1>6. TypeInv'
  BY <1>1, <1>2, <1>4, <1>5 DEF TypeInv
<1>7. OneArms /\ Counted /\ arming /\ inflight # 0
      /\ \A x \in Routines : at[x] = "arm" => x = r
  BY <1>1 DEF HInv, OneArms
<1>8. OneArms' /\ Counted'
  <2>1. \A x \in Routines : at'[x] # "arm"
    BY <1>5, <1>7
  <2>2. OneArms'
    BY <1>2, <2>1 DEF OneArms
  <2>3. Counted'
    <3>1. s.external = delivering + disarming /\ delivering \in Nat /\ disarming \in Nat
      BY <1>1, <1>7 DEF Counted, Armed, TypeInv
    <3> QED
      BY <1>2, <1>3, <1>7, <3>1 DEF Counted, Armed
  <2> QED
    BY <2>2, <2>3
<1>9. RoutinesInv'
  <2> SUFFICES ASSUME NEW x \in Routines PROVE Belongs(x)' /\ Listed(x)'
    BY DEF RoutinesInv
  <2>1. Belongs(x) /\ Listed(x) /\ Belongs(r)
    BY DEF HInv, RoutinesInv
  <2>2. OthersEnded => OthersEnded'
    BY <1>1, <1>5 DEF OthersEnded, Others
  <2>3. Belongs(x)'
    BY <1>1, <1>2, <1>3, <1>5, <2>1, <2>2 DEF Belongs
  <2>4. Listed(x)'
    BY <1>2, <1>3, <1>5, <2>1 DEF Listed
  <2> QED
    BY <2>3, <2>4
<1>10. InOrder'
  <2>1. ~Dropped
    BY <1>1, ReadingDropsNothing DEF ReadPlaces, Asking
  <2>2. SoFar' = SoFar
    BY <1>2 DEF SoFar
  <2> QED
    BY <1>2, <2>1, <2>2, OrderStays DEF HInv
<1>11. LoneIsExact'
  <2> SUFFICES ASSUME NEW l \in readers, readers = {l}
               PROVE  /\ unwind'[l] = "no" => Outstanding' = IF at'[l] \in Asking THEN 1 ELSE 0
                      /\ at'[l] \in {"look", "here"} => pending' = << >>
    BY <1>2 DEF LoneIsExact
  <2>1. l = r /\ Outstanding' = Outstanding
    BY <1>1, <1>2 DEF Outstanding
  <2> QED
    BY <1>1, <1>5, <2>1 DEF HInv, LoneIsExact, Asking
<1> QED
  BY <1>6, <1>8, <1>9, <1>10, <1>11 DEF HInv

LEMMA GiveUpHolds ==
  ASSUME HInv, NEW r \in Routines, Receive(r), StopReason(r) # "no"
  PROVE  HInv'
<1>1. /\ TypeInv /\ Lock(s) /\ s.state[r] = "running" /\ at[r] \in {"receive", "wait"}
      /\ r \in readers /\ unwind[r] = "no" /\ StopReason(r) \in Reasons
  BY Holder DEF Receive, Belongs, ReadPlaces, Asking, Reasons
<1>2. /\ s' = s /\ ready' = DropReceiverLocked(ready, r) /\ want' = [want EXCEPT ![r] = 0]
      /\ at' = [at EXCEPT ![r] = "user"]
      /\ unwind' = [unwind EXCEPT ![r] = IF @ = "no" THEN StopReason(r) ELSE @]
      /\ UNCHANGED << readers, overtaken, next, pending, inflight, over, arming,
                      delivering, disarming, got >>
  BY DEF Receive, GiveUp, Finish, Return
<1>3. StepsAlone(r)
  BY <1>1, <1>2 DEF StepsAlone, Places, CrewPlaces
<1>4. /\ LeavesOthers(r) /\ at' \in [Routines -> Places] /\ unwind' \in [Routines -> Reasons]
      /\ want' \in [Routines -> Nat] /\ readers' \in SUBSET Routines
  BY <1>1, <1>2, <1>3, LocalTurns, MovesLeave DEF Lock
<1>5. /\ ready' \in TokenChannel /\ ready'.buf = ready.buf
      /\ Members(ready'.receivers) = Members(ready.receivers) \ {r}
  BY <1>1, <1>2, TokensDropped DEF TypeInv
<1>6. TypeInv'
  BY <1>1, <1>2, <1>4, <1>5 DEF TypeInv, Lock
<1>7. at'[r] = "user" /\ unwind'[r] # "no"
  BY <1>1, <1>2 DEF TypeInv
<1>8. Belongs(r)' /\ Listed(r)'
  BY <1>1, <1>2, <1>7 DEF Belongs, Listed, ReadPlaces, Asking
<1>9. OneArms' /\ Counted'
  <2>1. \A x \in Routines : at'[x] = "arm" <=> at[x] = "arm"
    BY <1>1, <1>4, <1>7 DEF LeavesOthers
  <2> QED
    BY <1>2, <2>1 DEF HInv, OneArms, Counted, Armed
<1> QED
  BY <1>1, <1>2, <1>4, <1>5, <1>6, <1>7, <1>8, <1>9, AskingHolds DEF Asks, Asking

LEMMA TakeTokenHolds ==
  ASSUME HInv, NEW r \in Routines, Receive(r), StopReason(r) = "no", ReadyLocked(ready)
  PROVE  HInv'
<1> DEFINE d == DropReceiverLocked(ready, r)
<1>1. /\ TypeInv /\ Lock(s) /\ s.state[r] = "running" /\ at[r] \in {"receive", "wait"}
      /\ r \in readers /\ want[r] # 0 /\ unwind[r] = "no"
  BY Holder DEF Receive, Belongs, ReadPlaces, Asking
<1>2. /\ s' = s /\ ready' = AfterTake(d)
      /\ at' = [at EXCEPT ![r] = "take"] /\ unwind' = unwind
      /\ UNCHANGED << readers, overtaken, next, pending, inflight, over, arming,
                      delivering, disarming, want, got >>
  BY DEF Receive, ReceiveLoop, Enter
<1>3. StepsAlone(r)
  BY <1>1, <1>2 DEF StepsAlone, Places, ReadPlaces
<1>4. /\ LeavesOthers(r) /\ at' \in [Routines -> Places] /\ unwind' \in [Routines -> Reasons]
      /\ want' \in [Routines -> Nat] /\ readers' \in SUBSET Routines
  BY <1>1, <1>2, <1>3, LocalTurns, MovesLeave DEF Lock
<1>5. /\ d \in TokenChannel /\ d.buf = ready.buf
      /\ Members(d.receivers) = Members(ready.receivers) \ {r}
  BY <1>1, TokensDropped DEF TypeInv
<1>6. ReadyLocked(d)
  BY <1>1, <1>5 DEF ReadyLocked, TypeInv, TokenChannel
<1> HIDE DEF d
<1>7. /\ ready' \in TokenChannel /\ ready'.receivers = d.receivers
      /\ Len(ready.buf) \in Nat /\ Len(ready'.buf) = Len(ready.buf) - 1
  BY <1>2, <1>5, <1>6, TokenTaken
<1>8. TypeInv'
  BY <1>1, <1>2, <1>4, <1>7 DEF TypeInv, Lock
<1>9. at'[r] = "take" /\ unwind'[r] = "no"
  BY <1>1, <1>2 DEF TypeInv
<1>10. Belongs(r)' /\ Listed(r)'
  BY <1>1, <1>2, <1>9 DEF Belongs, Listed
<1>11. OneArms' /\ Counted'
  <2>1. \A x \in Routines : at'[x] = "arm" <=> at[x] = "arm"
    BY <1>1, <1>4, <1>9 DEF LeavesOthers
  <2> QED
    BY <1>2, <2>1 DEF HInv, OneArms, Counted, Armed
<1>12. ready.buf # << >>
  BY <1>1 DEF ReadyLocked, TypeInv, TokenChannel
<1>13. Outstanding = 1 => Outstanding' = 0
  <2>1. Outstanding' = Outstanding - 1
    <3> DEFINE i == IF inflight # 0 THEN 1 ELSE 0
    <3>1. /\ delivering \in Nat /\ i \in Nat /\ Outstanding = i + delivering + Len(ready.buf)
          /\ Outstanding' = i + delivering + Len(ready'.buf)
      BY <1>1, <1>2 DEF TypeInv, Outstanding
    <3> HIDE DEF i
    <3> QED
      BY <1>7, <3>1
  <2> QED
    BY <2>1
<1>14. /\ Members(ready.receivers) \ {r} \subseteq Members(ready'.receivers)
       /\ at'[r] \notin Asking /\ at[r] \in Asking
  BY <1>1, <1>5, <1>7, <1>9 DEF Asking
<1> QED
  BY <1>1, <1>2, <1>4, <1>8, <1>9, <1>10, <1>11, <1>12, <1>13, <1>14, AskingHolds
     DEF Asks

LEMMA ParkHolds ==
  ASSUME HInv, NEW r \in Routines, Receive(r), StopReason(r) = "no", ~ReadyLocked(ready)
  PROVE  HInv' /\ Turns(s, s', {r}) /\ ready.buf = << >>
<1> DEFINE d == DropReceiverLocked(ready, r)
<1>1. /\ TypeInv /\ Lock(s) /\ s.running = r /\ at[r] \in {"receive", "wait"}
      /\ r \in readers /\ want[r] # 0 /\ unwind[r] = "no"
  BY Holder DEF Receive, Belongs, ReadPlaces, Asking, Running
<1>2. /\ s' = ParkLocked(s, r) /\ ready' = AddReceiver(d, r)
      /\ at' = [at EXCEPT ![r] = "wait"] /\ unwind' = unwind
      /\ UNCHANGED << readers, overtaken, next, pending, inflight, over, arming,
                      delivering, disarming, want, got >>
  BY DEF Receive, ReceiveLoop, Enter
<1>3. /\ Lock(s') /\ Turns(s, s', {r}) /\ s'.state[r] \in {"parked", "ready", "running"}
  BY <1>1, <1>2, ParkLock
<1>4. StepsAlone(r)
  BY <1>1, <1>2 DEF StepsAlone, Places, ReadPlaces, Asking
<1>5. /\ LeavesOthers(r) /\ at' \in [Routines -> Places] /\ unwind' \in [Routines -> Reasons]
      /\ want' \in [Routines -> Nat] /\ readers' \in SUBSET Routines
  BY <1>1, <1>3, <1>4, MovesLeave
<1>6. /\ d \in TokenChannel /\ d.buf = ready.buf
      /\ Members(d.receivers) = Members(ready.receivers) \ {r}
  BY <1>1, TokensDropped DEF TypeInv
<1> HIDE DEF d
<1>7. /\ ready' \in TokenChannel /\ ready'.buf = ready.buf
      /\ Members(ready'.receivers) = Members(ready.receivers) \cup {r}
  BY <1>2, <1>6, TokensListed
<1>8. TypeInv'
  BY <1>1, <1>2, <1>3, <1>5, <1>7 DEF TypeInv
<1>9. at'[r] = "wait" /\ unwind'[r] = "no"
  BY <1>1, <1>2 DEF TypeInv
<1>10. ready.buf = << >>
  BY <1>1 DEF ReadyLocked, TypeInv, TokenChannel
<1>11. Belongs(r)' /\ Listed(r)'
  BY <1>1, <1>2, <1>3, <1>7, <1>9, <1>10 DEF Belongs, Listed
<1>12. OneArms' /\ Counted'
  <2>1. \A x \in Routines : at'[x] = "arm" <=> at[x] = "arm"
    BY <1>1, <1>5, <1>9 DEF LeavesOthers
  <2> QED
    BY <1>2, <1>3, <2>1 DEF HInv, OneArms, Counted, Armed, Turns
<1>13. Outstanding' = Outstanding
  BY <1>2, <1>7 DEF Outstanding
<1> QED
  BY <1>1, <1>2, <1>3, <1>5, <1>7, <1>8, <1>9, <1>10, <1>11, <1>12, <1>13, AskingHolds
     DEF Asks, Asking

-----------------------------------------------------------------------------
(* The goroutine of a read in flight                                        *)

\* A step of a goroutine: nobody moves but towards its turn, and who waits is
\* woken for an announcement.
Outside ==
  /\ Lock(s') /\ UNCHANGED << at, unwind, want, readers, got, overtaken, arming >>
  /\ \A x \in Routines : \/ s'.state[x] = s.state[x]
                         \/ s'.state[x] \in {"ready", "running"}
  /\ inflight' = inflight \/ (inflight # 0 /\ ~arming)
  /\ ready'.receivers = ready.receivers
  /\ \/ ready'.buf = ready.buf
     \/ \A r \in Routines : at[r] = "wait" => s'.state[r] # "parked"

LEMMA OutsideHolds ==
  ASSUME HInv, Outside, TypeInv', Counted', InOrder', LoneIsExact'
  PROVE  HInv'
<1>1. RoutinesInv'
  <2> SUFFICES ASSUME NEW r \in Routines PROVE Belongs(r)' /\ Listed(r)'
    BY DEF RoutinesInv
  <2>1. Belongs(r) /\ Listed(r)
    BY DEF HInv, RoutinesInv
  <2>2. Belongs(r)'
    BY <2>1 DEF Belongs, Outside, OthersEnded
  <2>3. Listed(r)'
    BY <2>1 DEF Listed, Outside
  <2> QED
    BY <2>2, <2>3
<1>2. OneArms'
  BY DEF HInv, OneArms, Outside
<1> QED
  BY <1>1, <1>2 DEF HInv

LEMMA HostAnswersHolds ==
  ASSUME HInv, HostAnswers
  PROVE  HInv'
<1>1. TypeInv /\ inflight # 0 /\ ~arming /\ Counted
  BY DEF HInv, HostAnswers
<1>2. PICK a \in ReadAnswers(inflight) :
        next' = a.last + 1 /\ pending' = pending \o BytesUpTo(a.last) /\ Note(a)
  BY DEF HostAnswers, Kept
<1>3. /\ inflight' = 0 /\ delivering' = delivering + 1
      /\ UNCHANGED << s, at, unwind, readers, overtaken, ready, arming, disarming, want, got >>
  BY DEF HostAnswers, crewVars, flowVars
<1>4. /\ a.last \in Int /\ next - 1 <= a.last /\ a.last <= MaxBytes
      /\ a.over \in {"no", "ended", "failed"} /\ next \in Nat \ {0}
  BY <1>1, HostStreamAssumption DEF ReadAnswers, TypeInv
<1>5. /\ BytesUpTo(a.last) \in Seq(Int) /\ UpTo(next - 1) \o BytesUpTo(a.last) = UpTo(a.last)
      /\ Len(UpTo(a.last)) = a.last
  BY <1>4, BytesFollow
<1>6. pending \in Seq(Int) /\ got \in Seq(Int)
  BY <1>1 DEF TypeInv
<1>7. pending' \in Seq(Int)
  BY <1>2, <1>5, <1>6, ConcatProperties
<1>8. TypeInv'
  <2>1. next' \in 1 .. MaxBytes + 1 /\ over' \in {"no", "ended", "failed"}
    BY <1>1, <1>2, <1>4, HostStreamAssumption DEF Note, TypeInv
  <2> QED
    BY <1>1, <1>3, <1>7, <2>1 DEF TypeInv, Lock
<1>9. Counted'
  <2>1. s.external = 1 + delivering + disarming /\ Armed' = 0
    BY <1>1, <1>3 DEF Counted, Armed
  <2> QED
    BY <1>1, <1>3, <2>1 DEF Counted, TypeInv
<1>10. InOrder'
  <2>1. CASE overtaken
    BY <1>3, <2>1 DEF HInv, InOrder, Alone
  <2>2. CASE ~overtaken
    <3>1. ~Dropped
      BY <1>1 DEF Dropped
    <3>2. SoFar = UpTo(next - 1)
      BY <2>2, <3>1 DEF HInv, InOrder
    <3>3. SoFar' = UpTo(a.last)
      <4>1. SoFar' = got \o (pending \o BytesUpTo(a.last))
        BY <1>2, <1>3 DEF SoFar
      <4>2. got \o (pending \o BytesUpTo(a.last)) = (got \o pending) \o BytesUpTo(a.last)
        BY <1>5, <1>6, KeptJoins
      <4> QED
        BY <1>5, <3>2, <4>1, <4>2 DEF SoFar
    <3>4. Len(SoFar') = a.last /\ next' - 1 = a.last
      BY <1>2, <1>4, <1>5, <3>3
    <3> QED
      BY <1>3, <1>4, <2>2, <3>3, <3>4 DEF InOrder
  <2> QED
    BY <2>1, <2>2
<1>11. LoneIsExact'
  <2> SUFFICES ASSUME NEW l \in readers, readers = {l}
               PROVE  /\ unwind[l] = "no" => Outstanding' = IF at[l] \in Asking THEN 1 ELSE 0
                      /\ at[l] \in {"look", "here"} => pending' = << >>
    BY <1>3 DEF LoneIsExact
  <2>1. /\ l \in Routines
        /\ unwind[l] = "no" => Outstanding = IF at[l] \in Asking THEN 1 ELSE 0
    BY <1>1 DEF HInv, LoneIsExact, TypeInv
  <2>2. Len(ready.buf) \in Nat /\ delivering \in Nat
    BY <1>1, LenProperties DEF TypeInv, TokenChannel
  <2>3. Outstanding' = Outstanding /\ Outstanding # 0
    <3> DEFINE n == Len(ready.buf)
    <3>1. Outstanding = 1 + delivering + n /\ Outstanding' = 0 + (delivering + 1) + n /\ n \in Nat
      BY <1>1, <1>3, <2>2 DEF Outstanding
    <3> HIDE DEF n
    <3> QED
      BY <2>2, <3>1
  <2>4. at[l] \notin {"look", "here"}
    <3>1. Belongs(l)
      BY <2>1 DEF HInv, RoutinesInv
    <3> QED
      BY <2>1, <2>3, <3>1 DEF Belongs, ReadPlaces, Asking
  <2> QED
    BY <2>1, <2>3, <2>4
<1>12. Outside
  BY <1>1, <1>3 DEF Outside, TypeInv, Lock
<1> QED
  BY <1>8, <1>9, <1>10, <1>11, <1>12, OutsideHolds

\* What neither bytes nor routines notice.
LEMMA UnnoticedHolds ==
  ASSUME HInv, UNCHANGED << at, unwind, want, readers, next, pending, got, over, overtaken,
                            inflight, arming >>,
         Outstanding' = Outstanding
  PROVE  InOrder' /\ LoneIsExact'
<1>1. InOrder'
  BY DEF HInv, InOrder, SoFar, Alone, Dropped, OthersEnded
<1>2. LoneIsExact'
  BY DEF HInv, LoneIsExact
<1> QED
  BY <1>1, <1>2

LEMMA DeliverTokenHolds ==
  ASSUME HInv, DeliverToken
  PROVE  HInv' /\ s'.deadlocked = s.deadlocked
<1>1. /\ TypeInv /\ Lock(s) /\ MidLock(s) /\ Counted /\ delivering > 0
      /\ ready \in TokenChannel /\ ready.receivers \in Seq(Routines) /\ ~ready.closed
  BY DEF HInv, TypeInv, DeliverToken, Lock, MidLock, Sound, TokenChannel
<1>2. /\ ready' = Delivered(ready, 0) /\ s' = WakeWaiters(s, ready.receivers)
      /\ delivering' = delivering - 1 /\ disarming' = disarming + 1
      /\ UNCHANGED << at, unwind, readers, overtaken, next, pending, inflight, over,
                      arming, want, got >>
  BY <1>1 DEF DeliverToken, WakeForDeliver, NotifyLocked, flowVars
<1>3. Woke(s, s', Members(ready.receivers)) /\ Turns(s, s', {}) /\ s'.deadlocked = s.deadlocked
  BY <1>1, <1>2, WakeWaitersLock, WakeWaitersTurns
<1>4. /\ ready' \in TokenChannel /\ ready'.receivers = ready.receivers
      /\ Len(ready.buf) \in Nat /\ Len(ready'.buf) = Len(ready.buf) + 1
  BY <1>1, <1>2, TokenDelivered
<1>5. Lock(s') /\ delivering' \in Nat /\ disarming' \in Nat
  BY <1>1, <1>2, <1>3 DEF Woke, TypeInv
<1>6. TypeInv'
  BY <1>1, <1>2, <1>4, <1>5 DEF TypeInv
<1>7. Counted'
  <2>1. Armed' = Armed /\ Armed \in Nat /\ s'.external = s.external
    BY <1>2, <1>3 DEF Armed, Turns
  <2> QED
    BY <1>1, <1>2, <2>1 DEF Counted, TypeInv
<1>8. Outstanding' = Outstanding
  <2> DEFINE i == IF inflight # 0 THEN 1 ELSE 0
             n == Len(ready.buf)
  <2>1. /\ i \in Nat /\ n \in Nat /\ delivering \in Nat
        /\ Outstanding = i + delivering + n /\ Outstanding' = i + (delivering - 1) + (n + 1)
    BY <1>1, <1>2, <1>4 DEF Outstanding, TypeInv
  <2> HIDE DEF i, n
  <2> QED
    BY <2>1
<1>9. InOrder' /\ LoneIsExact'
  BY <1>2, <1>8, UnnoticedHolds
<1>10. \A r \in Routines : at[r] = "wait" => s'.state[r] # "parked"
  BY <1>3 DEF HInv, RoutinesInv, Listed, Woke
<1>11. Outside
  BY <1>2, <1>3, <1>4, <1>5, <1>10 DEF Outside, Turns
<1> QED
  BY <1>3, <1>6, <1>7, <1>9, <1>11, OutsideHolds

LEMMA DisarmHolds ==
  ASSUME HInv, Disarm
  PROVE  HInv' /\ Turns([s EXCEPT !.external = s.external - 1], s', {})
<1> DEFINE x == [s EXCEPT !.external = s.external - 1]
<1>1. TypeInv /\ Lock(s) /\ Counted /\ disarming > 0 /\ s.external \in Int
  BY DEF HInv, TypeInv, Disarm, Lock, LockType
<1>2. /\ s' = CheckDeadlockLocked(x) /\ disarming' = disarming - 1
      /\ UNCHANGED << at, unwind, readers, overtaken, next, pending, inflight, over,
                      ready, arming, delivering, want, got >>
  BY DEF Disarm, DisarmExternal, flowVars
<1>3. Lock(x) /\ x.state = s.state /\ x.external = s.external - 1
  <2>1. s.external - 1 \in Int
    BY <1>1
  <2>2. Lock(x)
    BY <1>1, <2>1, CountLock
  <2> QED
    BY <1>1, <2>2 DEF Lock, LockType
<1> HIDE DEF x
<1>4. Lock(s') /\ Turns(x, s', {})
  BY <1>2, <1>3, CheckDeadlockLock
<1>5. TypeInv'
  BY <1>1, <1>2, <1>4 DEF TypeInv
<1>6. Counted'
  <2>1. Armed' = Armed /\ Armed \in Nat /\ s'.external = s.external - 1
    BY <1>2, <1>3, <1>4 DEF Armed, Turns
  <2> QED
    BY <1>1, <1>2, <2>1 DEF Counted, TypeInv
<1>7. Outstanding' = Outstanding
  BY <1>2 DEF Outstanding
<1>8. InOrder' /\ LoneIsExact'
  BY <1>2, <1>7, UnnoticedHolds
<1>9. Outside
  BY <1>2, <1>3, <1>4 DEF Outside, Turns
<1>10. HInv'
  BY <1>5, <1>6, <1>8, <1>9, OutsideHolds
<1> QED
  BY <1>4, <1>10 DEF x

-----------------------------------------------------------------------------
(* The theorems                                                             *)

LEMMA InitHolds == Init => HInv
<1> SUFFICES ASSUME Init PROVE HInv
  OBVIOUS
<1> DEFINE n == NewScheduler(Others)
<1>1. /\ s = n /\ at = [r \in Routines |-> IF r = Root THEN "user" ELSE "start"]
      /\ unwind = [r \in Routines |-> "no"] /\ want = [r \in Routines |-> 0]
      /\ readers \in ReaderSets /\ next = 1 /\ pending = << >> /\ got = << >>
      /\ inflight = 0 /\ over = "no" /\ ready = NewChannel(1) /\ arming = FALSE
      /\ delivering = 0 /\ disarming = 0 /\ overtaken = FALSE
  BY DEF Init, CrewInit
<1>2. /\ s.external = 0
      /\ \A r \in Routines : s.state[r] \in {"running", "ready"}
  BY <1>1 DEF NewScheduler, Others
<1>3. Lock(s)
  BY <1>1, NewLock
<1>4. ready \in TokenChannel /\ Len(ready.buf) = 0
  <2>1. << >> \in Seq({0}) /\ << >> \in Seq(Routines) /\ Len(<< >>) = 0
    BY EmptySeq
  <2> QED
    BY <1>1, <2>1 DEF NewChannel, TokenChannel
<1>5. TypeInv
  <2>1. << >> \in Seq(Int) /\ readers \in SUBSET Routines /\ 1 \in 1 .. MaxBytes + 1
    BY <1>1, HostStreamAssumption, EmptySeq
  <2> HIDE DEF n
  <2>2. /\ at \in [Routines -> Places] /\ unwind \in [Routines -> Reasons]
        /\ want \in [Routines -> Nat]
    BY <1>1 DEF Places, CrewPlaces, Reasons
  <2> QED
    BY <1>1, <1>3, <1>4, <2>1, <2>2 DEF TypeInv
<1>6. \A r \in Routines : at[r] \in {"user", "start"} /\ unwind[r] = "no"
  BY <1>1
<1>7. RoutinesInv
  BY <1>2, <1>6 DEF RoutinesInv, Belongs, Listed, ReadPlaces, Asking
<1>8. OneArms /\ Counted
  BY <1>1, <1>2, <1>6 DEF OneArms, Counted, Armed
<1>9. InOrder
  <2>1. UpTo(0) = << >> /\ << >> \o << >> = << >> /\ Len(<< >>) = 0
    BY ConcatEmptySeq, EmptySeq DEF UpTo
  <2>2. SoFar = << >>
    BY <1>1, <2>1 DEF SoFar
  <2> QED
    BY <1>1, <2>1, <2>2 DEF InOrder
<1>10. LoneIsExact
  <2>1. Outstanding = 0
    BY <1>1, <1>4 DEF Outstanding
  <2> QED
    BY <1>1, <1>5, <1>6, <2>1 DEF LoneIsExact, TypeInv, Asking
<1> QED
  BY <1>5, <1>7, <1>8, <1>9, <1>10 DEF HInv

LEMMA ReceiveHolds ==
  ASSUME HInv, NEW r \in Routines, Receive(r)
  PROVE  HInv'
BY GiveUpHolds, TakeTokenHolds, ParkHolds

LEMMA NextHolds == HInv /\ [Next]_vars => HInv'
<1> SUFFICES ASSUME HInv, [Next]_vars PROVE HInv'
  OBVIOUS
<1>1. ASSUME NEW r \in Routines, RoutineStep(r) PROVE HInv'
  BY <1>1, ReadHolds, TakeLocallyHolds, LookHolds, ReadHereHolds, StartReadHolds, ArmHolds,
     ReceiveHolds, CrewHolds DEF RoutineStep
<1>2. ASSUME GoroutineStep PROVE HInv'
  BY <1>2, HostAnswersHolds, DeliverTokenHolds, DisarmHolds DEF GoroutineStep
<1>3. ASSUME UNCHANGED vars PROVE HInv'
  BY <1>3 DEF vars, crewVars, flowVars, streamVars, HInv, TypeInv, Lock, RoutinesInv, Belongs,
              Listed, OthersEnded, OneArms, Counted, Armed, InOrder, SoFar, Dropped, Alone,
              LoneIsExact, Outstanding
<1> QED
  BY <1>1, <1>2, <1>3 DEF Next, Terminated

LEMMA Inductive == Spec => []HInv
<1>1. HInv /\ [Next]_vars => HInv'
  BY NextHolds
<1> QED
  BY InitHolds, <1>1, PTL DEF Spec

\* For any number of routines and readers, whatever the host delivers and whoever
\* is cancelled: the bytes handed out and those kept are what the host delivered,
\* each once and in order, but for the exceptions NothingLost states.
THEOREM NothingIsLost == Spec => []NothingLost
<1>1. HInv => NothingLost
  <2> SUFFICES ASSUME HInv PROVE NothingLost
    OBVIOUS
  <2>1. InOrder
    BY DEF HInv
  <2>2. Dropped => over = "failed" /\ Root \in readers
    BY DEF Dropped
  <2>3. SoFar = got \o pending
    BY DEF SoFar
  <2> QED
    BY <2>1, <2>2, <2>3 DEF NothingLost, InOrder, UpTo
<1> QED
  BY <1>1, Inductive, PTL

\* A lone reader asks for something that is counted as external, or has been
\* announced; so whoever finds a deadlock does not find it waiting.
LEMMA WaitingIsNoDeadlock ==
  ASSUME HInv, HInv', [Next]_vars, ~s.deadlocked, s'.deadlocked, Alone,
         NEW l \in Routines
  PROVE  at'[l] # "wait"
<1> SUFFICES ASSUME at'[l] = "wait" PROVE FALSE
  OBVIOUS
<1>1. /\ TypeInv /\ Lock(s) /\ Counted /\ s.external \in Int
      /\ inflight \in Nat /\ delivering \in Nat /\ disarming \in Nat
      /\ Len(ready.buf) \in Nat
  BY LenProperties DEF HInv, TypeInv, TokenChannel, Lock, LockType
<1>2. readers = {l} /\ readers' = readers /\ unwind'[l] = "no"
  <2>1. l \in readers' /\ unwind'[l] = "no"
    BY DEF HInv, RoutinesInv, Belongs, ReadPlaces, Asking
  <2>2. readers' = readers
    BY DEF Next, RoutineStep, GoroutineStep, Terminated, Read, TakeLocally, Look, ReadHere,
           StartRead, Arm, Receive, HostAnswers, DeliverToken, Disarm, streamVars, vars
  <2>3. PICK q : readers = {q}
    <3>1. IsFiniteSet(readers)
      BY <1>1, RoutinesFinite, FS_Subset DEF TypeInv
    <3> QED
      BY <3>1, FS_Singleton DEF Alone
  <2> QED
    BY <2>1, <2>2, <2>3
\* With nothing counted as external, the read is announced.
<1>3. ASSUME Armed + delivering <= 0, at[l] \in {"receive", "wait"}
      PROVE  ready.buf # << >>
  <2>1. unwind[l] = "no"
    BY <1>3 DEF HInv, RoutinesInv, Belongs, ReadPlaces, Asking
  <2>2. Outstanding = 1
    BY <1>2, <1>3, <2>1 DEF HInv, LoneIsExact, Asking
  <2>3. \A r \in Routines : at[r] = "arm" => r = l
    BY <1>2 DEF HInv, RoutinesInv, Belongs, ReadPlaces, Asking
  <2>4. ~arming
    BY <1>3, <2>3 DEF HInv, OneArms
  <2>5. inflight = 0 /\ delivering = 0
    BY <1>1, <1>3, <2>4 DEF Armed
  <2>6. Len(ready.buf) = 1
    BY <1>1, <2>2, <2>5 DEF Outstanding
  <2>7. Len(<< >>) = 0
    OBVIOUS
  <2> QED
    BY <2>6, <2>7
\* Whoever finds the deadlock, it is not there.
<1>4. ASSUME at[l] = "wait", s.external - disarming <= 0,
             s.state[l] \notin {"ready", "running"}
      PROVE  FALSE
  <2>1. Belongs(l) /\ Listed(l)
    BY DEF HInv, RoutinesInv
  <2>2. s.state[l] = "parked"
    <3>1. s.state[l] \in RoutineStates /\ s.state[l] # "inHost"
      BY <1>1, HolderRuns
    <3> QED
      BY <1>4, <2>1, <3>1 DEF Belongs, RoutineStates
  <2>3. Armed + delivering <= 0
    BY <1>1, <1>4 DEF Counted, Armed
  <2> QED
    BY <1>3, <1>4, <2>1, <2>2, <2>3 DEF Listed
<1>5. ASSUME NEW r \in Routines, CrewStep(r), UNCHANGED streamVars PROVE FALSE
  <2>1. Turns(s, s', {r}) /\ at'[r] \in CrewPlaces /\ \A x \in Routines \ {r} : at'[x] = at[x]
    BY <1>1, <1>5, CrewLock DEF TypeInv
  <2>2. l # r /\ at[l] = "wait"
    BY <2>1 DEF CrewPlaces
  <2>3. s.external <= 0 /\ s.state[l] \notin {"ready", "running"}
    BY <2>1, <2>2 DEF Turns
  <2> QED
    BY <1>1, <1>4, <2>2, <2>3
<1>6. ASSUME NEW r \in Routines, Receive(r) PROVE FALSE
  <2>1. s' # s
    OBVIOUS
  <2>2. StopReason(r) = "no" /\ ~ReadyLocked(ready)
    BY <1>6, <2>1 DEF Receive, GiveUp, ReceiveLoop
  <2>3. Turns(s, s', {r}) /\ ready.buf = << >>
    BY <1>6, <2>2, ParkHolds
  <2>4. r = l
    BY <1>2, <1>6 DEF Receive, HInv, RoutinesInv, Belongs, ReadPlaces, Asking
  <2>5. s.external <= 0 /\ at[l] \in {"receive", "wait"}
    BY <1>6, <2>3, <2>4 DEF Turns, Receive
  <2>6. Armed + delivering <= 0
    BY <1>1, <2>5 DEF Counted, Armed
  <2> QED
    BY <1>3, <2>3, <2>5, <2>6
<1>7. ASSUME Disarm PROVE FALSE
  <2> DEFINE x == [s EXCEPT !.external = s.external - 1]
  <2>1. x.external = s.external - 1 /\ x.state = s.state /\ x.deadlocked = s.deadlocked
    BY <1>1 DEF Lock, LockType
  <2> HIDE DEF x
  <2>2. Turns(x, s', {})
    BY <1>7, DisarmHolds DEF x
  <2>3. s.external - 1 <= 0 /\ s.state[l] \notin {"ready", "running"}
    BY <2>1, <2>2 DEF Turns
  <2>4. at[l] = "wait" /\ disarming > 0
    BY <1>7 DEF Disarm, flowVars
  <2> QED
    BY <1>1, <1>4, <2>3, <2>4
<1>8. ASSUME s' = s PROVE FALSE
  BY <1>8
<1>9. ASSUME DeliverToken PROVE FALSE
  BY <1>9, DeliverTokenHolds
<1>10. ASSUME NEW r \in Routines, Arm(r) PROVE FALSE
  BY <1>1, <1>10 DEF Arm, ArmExternal, Lock, LockType
<1>11. ASSUME NEW r \in Routines, RoutineStep(r) PROVE FALSE
  BY <1>5, <1>6, <1>8, <1>10, <1>11
     DEF RoutineStep, Read, TakeLocally, Look, ReadHere, StartRead
<1>12. ASSUME GoroutineStep PROVE FALSE
  BY <1>7, <1>8, <1>9, <1>12 DEF GoroutineStep, HostAnswers, crewVars
<1>13. ASSUME UNCHANGED vars PROVE FALSE
  BY <1>8, <1>13 DEF vars, crewVars
<1> QED
  BY <1>11, <1>12, <1>13 DEF Next, Terminated

\* For any number of routines: while one routine reads, a deadlock is never
\* found with that routine waiting for the host.
THEOREM OneReaderIsNoDeadlockHolds == Spec => OneReaderIsNoDeadlock
<1>1. HInv /\ HInv' /\ [Next]_vars =>
        [~s.deadlocked /\ s'.deadlocked /\ Alone => \A r \in Routines : at'[r] # "wait"]_vars
  BY WaitingIsNoDeadlock
<1>2. HInv /\ [Next]_vars => HInv'
  BY NextHolds
<1> QED
  BY <1>1, <1>2, Inductive, PTL DEF Spec, OneReaderIsNoDeadlock

=============================================================================
