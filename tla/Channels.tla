------------------------------ MODULE Channels ------------------------------
(***************************************************************************)
(* The channels of pkg/runtime/channel.go between the routines of one      *)
(* scope, with the timers of pkg/runtime/plugin-os.go.                     *)
(*                                                                         *)
(* The values sent into a channel are numbered in the order of the calls.  *)
(***************************************************************************)
EXTENDS Crew, ChannelOps

CONSTANTS
  Chans,            \* the channels of co.channel and co.after
  Timers,           \* those of co.after on os.timer()
  Capacities,       \* those of the channels that are no timers
  Selects,          \* the channel lists routines select over
  MaxValues         \* bound on the sends into one channel

ASSUME ChannelsAssumption ==
  /\ Timers \subseteq Chans
  /\ Capacities \subseteq Nat
  /\ Selects \subseteq Seq(Chans) \ {<< >>}
  /\ MaxValues \in Nat

Values == 1 .. MaxValues

VARIABLES
  chan,             \* the Channel records
  timer,            \* how far the AfterFunc of each timer has come
  on,               \* its channels: the list of a select, or the channel of a send
  value,            \* the value of the send it is in
  taken,            \* routines whose sendWaiter has been taken
  sent,             \* number of sends into each channel so far
  out,              \* values received from each channel, in order
  outcome           \* what each finished Send returned to its caller

callVars == << on, value, taken >>
historyVars == << sent, out, outcome >>
channelVars == << chan, timer, callVars, historyVars >>
vars == << crewVars, channelVars >>

Nowhere == << >>

Init ==
  /\ CrewInit
  /\ \E capacity \in [Chans \ Timers -> Capacities] :
       chan = [c \in Chans |-> NewChannel(IF c \in Timers THEN 1 ELSE capacity[c])]
  /\ timer = [c \in Timers |-> "new"]
  /\ on = [r \in Routines |-> Nowhere]
  /\ value = [r \in Routines |-> 0]
  /\ taken = {}
  /\ sent = [c \in Chans |-> 0]
  /\ out = [c \in Chans |-> << >>]
  /\ outcome = [c \in Chans |-> [v \in Values |-> "none"]]

-----------------------------------------------------------------------------
Leave(r, reason) ==
  /\ Return(r, reason)
  /\ on' = [on EXCEPT ![r] = Nowhere]
  /\ value' = [value EXCEPT ![r] = 0]
  /\ taken' = taken \ {r}

\* A send of v into c ends: an error that is a stop reason, a panic, or none.
Answer(r, c, v, reason, panics) ==
  /\ Leave(r, IF panics THEN "panic" ELSE reason)
  /\ outcome' = [outcome EXCEPT ![c][v] = IF panics THEN "panic"
                                          ELSE IF reason = "no" THEN "sent" ELSE "stopped"]

Usable(c) == c \in Timers => timer[c] # "new"

-----------------------------------------------------------------------------
(* Send *)

\* Channel.Send up to its first park.
Send(r, c) ==
  LET v == sent[c] + 1
      ch == chan[c]
  IN  /\ InUserCode(r) /\ Usable(c) /\ v \in Values
      /\ sent' = [sent EXCEPT ![c] = v]
      /\ IF StopReason(r) # "no" \/ ch.closed
         THEN /\ Answer(r, c, v, StopReason(r), StopReason(r) = "no")
              /\ UNCHANGED << s, chan >>
         ELSE IF HasRoom(ch)
         THEN /\ chan' = [chan EXCEPT ![c] = Put(@, v)]
              /\ s' = NotifyLocked(s, ch)
              /\ Answer(r, c, v, "no", FALSE)
         ELSE /\ chan' = [chan EXCEPT ![c] = AddSender(@, r, v)]
              /\ s' = ParkLocked(NotifyLocked(s, ch), r)
              /\ at' = [at EXCEPT ![r] = "send"]
              /\ on' = [on EXCEPT ![r] = << c >>]
              /\ value' = [value EXCEPT ![r] = v]
              /\ UNCHANGED << taken, unwind, outcome >>
      /\ UNCHANGED << timer, cancelled, scopeOpen, out >>

\* One turn of Send's loop: taken first, then the stop reason, then a closed
\* channel, then room; otherwise the sender queues again.
ResumeSend(r) ==
  LET c == on[r][1]
      v == value[r]
      dropped == DropSenderLocked(chan[c], r)
  IN  /\ Running(r) /\ at[r] = "send"
      /\ IF r \in taken
         THEN /\ Answer(r, c, v, StopReason(r), FALSE)
              /\ UNCHANGED << s, chan >>
         ELSE IF StopReason(r) # "no" \/ dropped.closed
         THEN /\ chan' = [chan EXCEPT ![c] = dropped]
              /\ Answer(r, c, v, StopReason(r), StopReason(r) = "no")
              /\ UNCHANGED s
         ELSE IF HasRoom(dropped)
         THEN /\ chan' = [chan EXCEPT ![c] = Put(dropped, v)]
              /\ s' = NotifyLocked(s, dropped)
              /\ Answer(r, c, v, "no", FALSE)
         ELSE /\ chan' = [chan EXCEPT ![c] = AddSender(dropped, r, v)]
              /\ s' = ParkLocked(s, r)
              /\ UNCHANGED << at, unwind, callVars, outcome >>
      /\ UNCHANGED << timer, cancelled, scopeOpen, sent, out >>

-----------------------------------------------------------------------------
(* Receive and select *)

\* The first channel of the list that is ready.
FirstReady(q) ==
  LET ready == {i \in DOMAIN q : ReadyLocked(chan[q[i]])}
  IN  q[CHOOSE i \in ready : \A j \in ready : i <= j]

\* One turn of Select's loop on the channels q.
SelectLoop(r, q) ==
  IF \E i \in DOMAIN q : ReadyLocked(chan[q[i]])
  THEN LET c == FirstReady(q)
           released == ReleasedSender(chan[c])
       IN  IF Drained(chan[c])
           THEN /\ Leave(r, "no")
                /\ UNCHANGED << s, out >>
                /\ chan' = [d \in Chans |-> DropReceiverLocked(chan[d], r)]
           ELSE /\ at' = [at EXCEPT ![r] = "user"]
                /\ on' = [on EXCEPT ![r] = Nowhere]
                /\ taken' = taken \cup Members(released)
                /\ UNCHANGED << value, unwind >>
                /\ chan' = [d \in Chans |->
                     DropReceiverLocked(IF d = c THEN AfterTake(chan[c])
                                                 ELSE chan[d], r)]
                /\ out' = [out EXCEPT ![c] = Append(@, TakenValue(chan[c]))]
                /\ s' = WakeWaiters(s, released)
  ELSE /\ chan' = [d \in Chans |->
            [DropReceiverLocked(chan[d], r) EXCEPT
               !.receivers = @ \o [i \in 1 .. Cardinality({i \in DOMAIN q : q[i] = d}) |-> r]]]
       /\ s' = ParkLocked(s, r)
       /\ at' = [at EXCEPT ![r] = "select"]
       /\ on' = [on EXCEPT ![r] = q]
       /\ UNCHANGED << value, taken, unwind, out >>

\* Scheduler.Select, and Channel.Receive on a list of one.
Select(r, q) ==
  /\ InUserCode(r) /\ \A i \in DOMAIN q : Usable(q[i])
  /\ IF StopReason(r) # "no"
     THEN /\ Leave(r, StopReason(r))
          /\ UNCHANGED << s, chan, out >>
     ELSE SelectLoop(r, q)
  /\ UNCHANGED << timer, cancelled, scopeOpen, sent, outcome >>

ResumeSelect(r) ==
  /\ Running(r) /\ at[r] = "select"
  /\ IF StopReason(r) # "no"
     THEN /\ Leave(r, StopReason(r))
          /\ chan' = [d \in Chans |-> DropReceiverLocked(chan[d], r)]
          /\ UNCHANGED << s, out >>
     ELSE SelectLoop(r, on[r])
  /\ UNCHANGED << timer, cancelled, scopeOpen, sent, outcome >>

-----------------------------------------------------------------------------
(* Close and timers *)

\* coClose does not look at the stop reason; closing twice is the caller's bug.
Close(r, c) ==
  /\ InUserCode(r) /\ Usable(c)
  /\ IF chan[c].closed
     THEN /\ Leave(r, "panic")
          /\ UNCHANGED << s, chan >>
     ELSE /\ chan' = [chan EXCEPT ![c].closed = TRUE]
          /\ s' = WakeForClose(s, chan[c])
          /\ UNCHANGED << at, unwind, callVars >>
  /\ UNCHANGED << timer, cancelled, scopeOpen, historyVars >>

\* Timer.after of os.timer(): a new channel, armed before it is handed out.
After(r, t) ==
  /\ InUserCode(r) /\ timer[t] = "new"
  /\ timer' = [timer EXCEPT ![t] = "armed"]
  /\ s' = ArmExternal(s)
  /\ UNCHANGED << chan, flowVars, callVars, historyVars >>

\* The AfterFunc: Deliver, Close and DisarmExternal are three critical sections.
TimerDelivers(t) ==
  /\ timer[t] = "armed" /\ ProgramRuns
  /\ timer' = [timer EXCEPT ![t] = "delivered"]
  /\ chan' = [chan EXCEPT ![t] = Delivered(@, 0)]
  /\ s' = WakeForDeliver(s, chan[t])
  /\ UNCHANGED << flowVars, callVars, historyVars >>

TimerCloses(t) ==
  /\ timer[t] = "delivered" /\ ProgramRuns
  /\ timer' = [timer EXCEPT ![t] = "closed"]
  /\ chan' = [chan EXCEPT ![t].closed = TRUE]
  /\ s' = IF chan[t].closed THEN s ELSE WakeForClose(s, chan[t])
  /\ UNCHANGED << flowVars, callVars, historyVars >>

TimerDisarms(t) ==
  /\ timer[t] = "closed" /\ ProgramRuns
  /\ timer' = [timer EXCEPT ![t] = "disarmed"]
  /\ s' = DisarmExternal(s)
  /\ UNCHANGED << chan, flowVars, callVars, historyVars >>

Terminated == ~ProgramRuns /\ UNCHANGED vars

RoutineStep(r) ==
  \/ \E c \in Chans : Send(r, c) \/ Close(r, c)
  \/ \E q \in Selects : Select(r, q)
  \/ \E t \in Timers : After(r, t)
  \/ ResumeSend(r) \/ ResumeSelect(r)
  \/ CrewStep(r) /\ UNCHANGED channelVars

TimerStep(t) == TimerDelivers(t) \/ TimerCloses(t) \/ TimerDisarms(t)

Next ==
  \/ \E r \in Routines : RoutineStep(r)
  \/ \E t \in Timers : TimerStep(t)
  \/ Terminated

Spec == Init /\ [][Next]_vars

\* Weak fairness of whoever holds the run lock, its steps being enabled until
\* the program ends: the deadlock check of every run shows that they are.
HolderRunsOn ==
  \/ []<>(s.running = Nobody \/ ~ProgramRuns)
  \/ []<><<\E r \in Routines : RoutineStep(r)>>_vars

\* Beyond that an armed timer fires.
FairSpec ==
  /\ Spec
  /\ HolderRunsOn
  /\ \A t \in Timers : WF_vars(TimerStep(t))

-----------------------------------------------------------------------------
(* Safety *)

Queue(c) == chan[c].buf \o SenderValues(chan[c])

\* No lost wake-up: a routine parked in a select has nothing to take on any of
\* its channels, though several routines share the wake-ups; a parked sender is
\* still queued, its value not taken, its channel open and full.
NoLostWakeup ==
  \A r \in Routines :
    /\ Parked(r, "select") => \A c \in Members(on[r]) : ~ReadyLocked(chan[c])
    /\ Parked(r, "send") =>
         \A c \in Members(on[r]) :
           /\ r \notin taken
           /\ r \in Members(SenderRoutines(chan[c]))
           /\ ~chan[c].closed /\ ~HasRoom(chan[c])

\* What a send reports is true, whatever was cancelled or closed meanwhile: once
\* it has returned, its value was received or is in the channel; once it has
\* failed because the channel was closed, its value never reaches a receiver.
OutcomesAreTrue ==
  \A c \in Chans, v \in Values :
    /\ outcome[c][v] = "sent" => v \in Members(out[c]) \cup Members(chan[c].buf)
    /\ outcome[c][v] = "panic" => v \notin Members(out[c]) \cup Members(Queue(c))

\* receive on a closed channel returns the buffered values first, then None
\* forever: nothing enters a channel that is closed and drained.
DrainedForever ==
  [][\A c \in Chans : chan[c].closed /\ Drained(chan[c])
       => chan'[c].closed /\ Drained(chan'[c])]_vars

\* Receivers see the values of a channel that is no timer in the order of the
\* sends, each once, whatever was cancelled in between (FifoChannel).
Plain == CHOOSE c \in Chans : c \notin Timers

Fifo == INSTANCE FifoChannel WITH
  queue <- Queue(Plain), held <- Len(chan[Plain].buf), received <- out[Plain],
  closed <- chan[Plain].closed, bound <- chan[Plain].capacity

KeepsFifoPromise == Fifo!Spec

-----------------------------------------------------------------------------
(* Liveness *)

\* A routine waiting for an armed timer gets up again, and not because a
\* deadlock was found.
TimerWakes ==
  \A r \in Routines, t \in Timers :
    (Parked(r, "select") /\ t \in Members(on[r]) /\ timer[t] = "armed")
      ~> (~s.deadlocked /\ (~Parked(r, "select") \/ ~ProgramRuns))

=============================================================================
