---------------------------- MODULE FifoChannel ----------------------------
(***************************************************************************)
(* What a channel promises its users (docs/proposals/ZE-025, Channels): a  *)
(* bounded queue.  A send puts its value into the channel, or offers it    *)
(* while the channel is full; a receive takes the oldest value; nothing    *)
(* but a stopped or failed sender ever withdraws one, and never one that   *)
(* is already in the channel; a closed channel accepts nothing.            *)
(***************************************************************************)
EXTENDS Naturals, Sequences

CONSTANT Values

VARIABLES
  queue,     \* every value sent and not yet received, oldest first
  held,      \* how many of them, at the front, are in the channel
  received,  \* the values taken out
  closed,
  bound      \* its capacity, given once

fifoVars == << queue, held, received, closed, bound >>

Init ==
  /\ queue = << >> /\ held = 0 /\ received = << >> /\ closed = FALSE
  /\ bound \in Nat

\* A send with room: the value is in the channel at once.
Put ==
  /\ ~closed /\ held < bound /\ held = Len(queue)
  /\ \E v \in Values : queue' = Append(queue, v)
  /\ held' = held + 1
  /\ UNCHANGED << received, closed, bound >>

\* A send without room: the value waits behind the others.
Offer ==
  /\ ~closed /\ held = bound
  /\ \E v \in Values : queue' = Append(queue, v)
  /\ UNCHANGED << held, received, closed, bound >>

\* A receive: the oldest value leaves, the oldest offer moves up.
Take ==
  /\ queue # << >>
  /\ received' = Append(received, Head(queue))
  /\ queue' = Tail(queue)
  /\ held' = IF held < Len(queue) THEN held ELSE held - 1
  /\ UNCHANGED << closed, bound >>

\* A sender stops waiting: its offer is gone, the order of the rest is kept.
Withdraw ==
  /\ \E i \in held + 1 .. Len(queue) :
       queue' = SubSeq(queue, 1, i - 1) \o SubSeq(queue, i + 1, Len(queue))
  /\ UNCHANGED << held, received, closed, bound >>

Close ==
  /\ ~closed /\ closed' = TRUE
  /\ UNCHANGED << queue, held, received, bound >>

Next == Put \/ Offer \/ Take \/ Withdraw \/ Close

Spec == Init /\ [][Next]_fifoVars

=============================================================================
