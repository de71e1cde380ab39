----------------------------- MODULE HostStream -----------------------------
(***************************************************************************)
(* The hostReader of pkg/runtime/host-stream.go: the one owner of the      *)
(* reads of a host stream such as standard input.                          *)
(*                                                                         *)
(* hr.mu and Scheduler.mu never nest, so an action is a section of one of  *)
(* them (or the call of src.Read), and the goroutine of a read in flight   *)
(* runs beside the routine holding the run lock.  The bytes of the stream  *)
(* are numbered in the order the host delivers them.                       *)
(***************************************************************************)
EXTENDS Crew, ChannelOps

CONSTANTS
  MaxBytes,         \* bound on the bytes the host ever delivers
  Sizes,            \* lengths routines ask for
  ReaderSets        \* the sets of routines that may be the readers

ASSUME HostStreamAssumption ==
  /\ MaxBytes \in Nat
  /\ Sizes \subseteq Nat \ {0}
  /\ ReaderSets \subseteq SUBSET Routines

Bytes == 1 .. MaxBytes

VARIABLES
  readers,          \* the routines that read, given once
  next,             \* first byte the host has not delivered yet
  pending,          \* hostReader.pending
  inflight,         \* hostReader.inflight, with the length asked for, or 0
  over,             \* hostReader.ended or .failure: "no", "ended", "failed"
  ready,            \* hostReader.ready, the channel routines wait on
  arming,           \* the read in flight is not yet registered
  delivering,       \* goroutines that have yet to Deliver
  disarming,        \* goroutines that have yet to DisarmExternal
  want,             \* the length each routine asked for, 0 outside read
  got,              \* the bytes handed to routines, in order
  overtaken         \* whether readHere has gone past bytes kept in pending

streamVars == << readers, next, pending, inflight, over, ready, arming,
                 delivering, disarming, want, got, overtaken >>
vars == << crewVars, streamVars >>

Init ==
  /\ CrewInit
  /\ readers \in ReaderSets
  /\ next = 1 /\ pending = << >> /\ inflight = 0 /\ over = "no"
  /\ ready = NewChannel(1)
  /\ arming = FALSE /\ delivering = 0 /\ disarming = 0
  /\ want = [r \in Routines |-> 0]
  /\ got = << >>
  /\ overtaken = FALSE

-----------------------------------------------------------------------------
\* What one src.Read of length n can answer: the bytes up to last, and how the
\* stream stands then.  Bytes may come together with its end or its failure.
ReadAnswers(n) ==
  {a \in [last : next - 1 .. MaxBytes, over : {"no", "ended", "failed"}] :
     /\ a.last < next + n
     /\ a.over = "no" => a.last >= next
     /\ a.over # "no" => a.last = MaxBytes}

BytesUpTo(last) == [i \in 1 .. last - next + 1 |-> next + i - 1]

\* Mutant: a failure is not noted.
NoteEndOnly(a) == over' = IF a.over = "ended" THEN "ended" ELSE over

\* An end and a failure both stay; takeLocally looks at the failure first.
Note(a) == over' = IF a.over = "no" \/ over = "failed" THEN over ELSE a.over

Reading(r, step) == Running(r) /\ at[r] = step

Finish(r, reason) ==
  /\ Return(r, reason)
  /\ want' = [want EXCEPT ![r] = 0]

\* ReadStream.read: readFrom is a switching function, so the routine may give
\* way first (Crew's Yield) before it enters hostReader.read.
Read(r, n) ==
  /\ InUserCode(r) /\ r \in readers /\ StopReason(r) = "no"
  /\ want' = [want EXCEPT ![r] = n]
  /\ Enter(r, "take")
  /\ UNCHANGED << s, cancelled, scopeOpen, readers, overtaken, next, pending,
                  inflight, over, ready, arming, delivering, disarming, got >>

\* takeLocally, under hr.mu: pending bytes, else the failure, else the end.
TakeLocally(r) ==
  /\ Reading(r, "take")
  /\ IF pending # << >>
     THEN LET count == IF want[r] < Len(pending) THEN want[r] ELSE Len(pending)
          IN  /\ got' = got \o SubSeq(pending, 1, count)
              /\ pending' = SubSeq(pending, count + 1, Len(pending))
              /\ Finish(r, "no")
     ELSE /\ UNCHANGED << pending, got >>
          /\ IF over = "no"
             THEN Enter(r, "look") /\ UNCHANGED want
             ELSE Finish(r, IF over = "failed" THEN "panic" ELSE "no")
  /\ UNCHANGED << s, cancelled, scopeOpen, readers, overtaken, next, inflight, over,
                  ready, arming, delivering, disarming >>

\* A second hr.mu section reads inflight; sched.Concurrent decides the rest.
Look(r) ==
  /\ Reading(r, "look")
  /\ Enter(r, IF inflight = 0 /\ Cardinality(Live(s)) = 1 THEN "here" ELSE "issue")
  /\ UNCHANGED << s, cancelled, scopeOpen, streamVars >>

\* readHere: the answer goes to the routine, past pending; a failure drops it.
ReadHere(r) ==
  /\ Reading(r, "here")
  /\ \E a \in ReadAnswers(want[r]) :
       /\ next' = a.last + 1
       /\ Note(a)
       /\ got' = IF a.over = "failed" THEN got ELSE got \o BytesUpTo(a.last)
       /\ overtaken' = (overtaken \/ pending # << >>)
       /\ Finish(r, IF a.over = "failed" THEN "panic" ELSE "no")
  /\ UNCHANGED << s, cancelled, scopeOpen, readers, pending, inflight, ready, arming,
                  delivering, disarming >>

\* start, under hr.mu: nothing to do while a read is in flight.
StartRead(r) ==
  /\ Reading(r, "issue")
  /\ IF inflight # 0
     THEN /\ Enter(r, "receive")
          /\ UNCHANGED << inflight, arming >>
     ELSE /\ inflight' = want[r]
          /\ arming' = TRUE
          /\ Enter(r, "arm")
  /\ UNCHANGED << s, cancelled, scopeOpen, readers, overtaken, next, pending, over,
                  ready, delivering, disarming, want, got >>

\* start, under Scheduler.mu, then the goroutine begins.
Arm(r) ==
  /\ Reading(r, "arm")
  /\ s' = ArmExternal(s)
  /\ arming' = FALSE
  /\ Enter(r, "receive")
  /\ UNCHANGED << cancelled, scopeOpen, readers, overtaken, next, pending, inflight,
                  over, ready, delivering, disarming, want, got >>

\* Receive on ready: take the token of a completed read, or park.
ReceiveLoop(r) ==
  IF ReadyLocked(ready)
  THEN /\ ready' = AfterTake(DropReceiverLocked(ready, r))
       /\ Enter(r, "take")
       /\ UNCHANGED << s, want >>
  ELSE /\ ready' = AddReceiver(DropReceiverLocked(ready, r), r)
       /\ s' = ParkLocked(s, r)
       /\ Enter(r, "wait")
       /\ UNCHANGED want

GiveUp(r) ==
  /\ ready' = DropReceiverLocked(ready, r)
  /\ Finish(r, StopReason(r))
  /\ UNCHANGED s

Receive(r) ==
  /\ Running(r) /\ at[r] \in {"receive", "wait"}
  /\ IF StopReason(r) # "no" THEN GiveUp(r) ELSE ReceiveLoop(r)
  /\ UNCHANGED << cancelled, scopeOpen, readers, overtaken, next, pending, inflight,
                  over, arming, delivering, disarming, got >>

-----------------------------------------------------------------------------
(* The goroutine of a read in flight *)

\* Mutant: what arrives replaces what nobody has fetched yet.
KeptAlone(a) == BytesUpTo(a.last)

\* What arrives is kept behind what nobody has fetched yet.
Kept(a) == pending \o BytesUpTo(a.last)

HostAnswers ==
  /\ inflight # 0 /\ ~arming /\ ProgramRuns
  /\ \E a \in ReadAnswers(inflight) :
       /\ next' = a.last + 1
       /\ pending' = Kept(a)
       /\ Note(a)
  /\ inflight' = 0
  /\ delivering' = delivering + 1
  /\ UNCHANGED << crewVars, readers, overtaken, ready, arming, disarming, want,
                  got >>

DeliverToken ==
  /\ delivering > 0 /\ ProgramRuns
  /\ ready' = Delivered(ready, 0)
  /\ s' = WakeForDeliver(s, ready)
  /\ delivering' = delivering - 1
  /\ disarming' = disarming + 1
  /\ UNCHANGED << flowVars, readers, overtaken, next, pending, inflight, over,
                  arming, want, got >>

Disarm ==
  /\ disarming > 0 /\ ProgramRuns
  /\ s' = DisarmExternal(s)
  /\ disarming' = disarming - 1
  /\ UNCHANGED << flowVars, readers, overtaken, next, pending, inflight, over,
                  ready, arming, delivering, want, got >>

Terminated == ~ProgramRuns /\ UNCHANGED vars

RoutineStep(r) ==
  \/ \E n \in Sizes : Read(r, n)
  \/ TakeLocally(r) \/ Look(r) \/ ReadHere(r) \/ StartRead(r) \/ Arm(r) \/ Receive(r)
  \/ CrewStep(r) /\ UNCHANGED streamVars

GoroutineStep == HostAnswers \/ DeliverToken \/ Disarm

Next ==
  \/ \E r \in Routines : RoutineStep(r)
  \/ GoroutineStep
  \/ Terminated

Spec == Init /\ [][Next]_vars

\* Weak fairness of whoever holds the run lock, its steps being enabled until
\* the program ends: the deadlock check of every run shows that they are.
HolderRunsOn ==
  \/ []<>(s.running = Nobody \/ ~ProgramRuns)
  \/ []<><<\E r \in Routines : RoutineStep(r)>>_vars

\* Beyond that the host answers a read in flight, and its goroutine runs on.
FairSpec ==
  /\ Spec
  /\ HolderRunsOn
  /\ WF_vars(HostAnswers) /\ WF_vars(DeliverToken) /\ WF_vars(Disarm)

-----------------------------------------------------------------------------
(* Safety *)

Alone == Cardinality(readers) = 1

\* Cancelling a routine that waits for input loses nothing (ZE-025): the bytes
\* handed out and those kept for the next reader are the stream, in order.  Only
\* readHere may drop what the host hands over together with a failure, or go past
\* bytes that came in between two sections of hr.mu: for Root alone in the
\* program, after a read that another routine has left behind.
NothingLost ==
  LET kept == got \o pending
  IN  IF overtaken THEN Root \in readers /\ ~Alone
      ELSE /\ kept = [i \in 1 .. Len(kept) |-> i]
           /\ over # "failed" \/ Root \notin readers => Len(kept) = next - 1

\* With one reader it never is: a read in flight, or its announcement, is
\* counted until the reader has been woken.
OneReaderIsNoDeadlock ==
  [][~s.deadlocked /\ s'.deadlocked /\ Alone => \A r \in Routines : at'[r] # "wait"]_vars

-----------------------------------------------------------------------------
(* Liveness *)

\* A routine that alone reads gets an answer, as long as the host gives one.
ReadsAnswered ==
  \A r \in Routines : (Alone /\ want[r] # 0) ~> (want[r] = 0 \/ ~ProgramRuns)

=============================================================================
