---------------------------- MODULE ChannelOps ----------------------------
(***************************************************************************)
(* The helpers of pkg/runtime/channel.go that run under the scheduler's    *)
(* lock, as operators on one channel record.  Where a helper also wakes    *)
(* routines there is an operator of the same name that takes the scheduler *)
(* record and returns it.                                                  *)
(*                                                                         *)
(* A routine is inside at most one operation, so a send waiter is the      *)
(* routine with its value and a receive waiter is the routine alone; the   *)
(* taken flags are kept by the caller as the set of routines whose current *)
(* send has been taken.                                                    *)
(***************************************************************************)
EXTENDS RunLock

NewChannel(capacity) ==
  [ capacity |-> capacity, buf |-> << >>, closed |-> FALSE,
    senders |-> << >>, receivers |-> << >> ]

SenderRoutines(ch) == [i \in DOMAIN ch.senders |-> ch.senders[i].routine]
SenderValues(ch) == [i \in DOMAIN ch.senders |-> ch.senders[i].value]

\* Mutant: off by one.
HasRoomForOneMore(ch) == Len(ch.buf) <= ch.capacity

HasRoom(ch) == ch.capacity > 0 /\ Len(ch.buf) < ch.capacity

Put(ch, v) == [ch EXCEPT !.buf = Append(@, v)]

AddSender(ch, r, v) == [ch EXCEPT !.senders = Append(@, [routine |-> r, value |-> v])]
AddReceiver(ch, r) == [ch EXCEPT !.receivers = Append(@, r)]

DropSenderLocked(ch, r) ==
  [ch EXCEPT !.senders = Entries(@, {i \in DOMAIN @ : @[i].routine # r})]
DropReceiverLocked(ch, r) ==
  [ch EXCEPT !.receivers = Entries(@, {i \in DOMAIN @ : @[i] # r})]

\* A closed, drained channel is always ready.
ReadyLocked(ch) == ch.buf # << >> \/ ch.senders # << >> \/ ch.closed

Drained(ch) == ch.buf = << >> /\ ch.senders = << >>

\* refillLocked has a waiting sender to move into the slot a take has freed.
Refills(ch) == ch.senders # << >> /\ Len(ch.buf) - 1 < ch.capacity

\* takeLocked on a channel that is not drained: the value it returns, the
\* channel it leaves, and the sender it releases (none, or one).
TakenValue(ch) == IF ch.buf # << >> THEN Head(ch.buf) ELSE Head(ch.senders).value

\* Mutant: the sender moved up is released, its value forgotten.
AfterTakeLosing(ch) ==
  IF ch.buf = << >> THEN [ch EXCEPT !.senders = Tail(@)]
  ELSE IF Refills(ch) THEN [ch EXCEPT !.buf = Tail(@), !.senders = Tail(@)]
  ELSE [ch EXCEPT !.buf = Tail(@)]

AfterTake(ch) ==
  IF ch.buf = << >> THEN [ch EXCEPT !.senders = Tail(@)]
  ELSE IF Refills(ch)
  THEN [ch EXCEPT !.buf = Append(Tail(@), Head(ch.senders).value), !.senders = Tail(@)]
  ELSE [ch EXCEPT !.buf = Tail(@)]

ReleasedSender(ch) ==
  IF ch.senders # << >> /\ (ch.buf = << >> \/ Refills(ch))
  THEN << Head(ch.senders).routine >>
  ELSE << >>

\* Mutants: one receiver is woken; nobody is woken.
NotifyFirst(s, ch) ==
  WakeWaiters(s, IF ch.receivers = << >> THEN << >> ELSE << Head(ch.receivers) >>)
NotifyNobody(s, ch) == s

\* notifyLocked
NotifyLocked(s, ch) == WakeWaiters(s, ch.receivers)

\* Close's wakes: the receivers look again, then every blocked sender fails.
WakeForClose(s, ch) == WakeWaiters(NotifyLocked(s, ch), SenderRoutines(ch))

\* Mutant: delivers into a closed channel.
DeliveredAnyway(ch, v) == Put(ch, v)

\* Deliver: a value from outside any routine, whatever the capacity.
Delivered(ch, v) == IF ch.closed THEN ch ELSE Put(ch, v)
\* Mutant: the value is put down, but nobody is told.
DeliverSilently(s, ch) == s

WakeForDeliver(s, ch) == IF ch.closed THEN s ELSE NotifyLocked(s, ch)

=============================================================================
