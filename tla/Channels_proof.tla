--------------------------- MODULE Channels_proof ---------------------------
(***************************************************************************)
(* For any number of routines, channels and timers: a channel that is      *)
(* closed and drained stays so, and what a send reports is true; nobody    *)
(* sleeps through what it waits for, and a channel keeps the promise of    *)
(* FifoChannel.                                                            *)
(*                                                                         *)
(* The first two do not rest on the run lock: whoever is woken when, a     *)
(* send looks at its taken flag before it gives up its value.              *)
(***************************************************************************)
EXTENDS Channels, Crew_proof

Numbers == Values \cup {0}       \* a timer delivers 0

Places == {"start", "user", "turn", "close", "ended", "send", "select"}

SendWaiter == [routine : Routines, value : Values]

Channel ==
  [ capacity : Nat, buf : Seq(Numbers), closed : BOOLEAN,
    senders : Seq(SendWaiter), receivers : Seq(Routines) ]

ChannelTypes ==
  /\ chan \in [Chans -> Channel]
  /\ at \in [Routines -> Places]
  /\ on \in [Routines -> Seq(Chans)]
  /\ value \in [Routines -> Numbers]
  /\ taken \subseteq Routines
  /\ sent \in [Chans -> 0 .. MaxValues]
  /\ out \in [Chans -> Seq(Numbers)]
  /\ outcome \in [Chans -> [Values -> {"none", "sent", "stopped", "panic"}]]

\* Who calls Send waits with one channel and one of its values.
SendsAreCalls ==
  \A r \in Routines : at[r] = "send" => Len(on[r]) = 1 /\ value[r] \in Values

TypeInv == ChannelTypes /\ SendsAreCalls

\* A routine queues once in a channel.
Distinct(ch) ==
  \A i, j \in 1 .. Len(ch.senders) : ch.senders[i].routine = ch.senders[j].routine => i = j

-----------------------------------------------------------------------------
(* The operators on one channel.                                           *)

\* Dropping a sender loses its entries and no others.
LEMMA DropSender ==
  ASSUME NEW ch \in Channel, NEW r
  PROVE  LET d == DropSenderLocked(ch, r)
         IN  /\ d \in Channel
             /\ d.buf = ch.buf /\ d.closed = ch.closed /\ d.capacity = ch.capacity
             /\ ch.senders = << >> => d.senders = << >>
             /\ Members(d.senders) \subseteq {w \in Members(ch.senders) : w.routine # r}
             /\ Distinct(ch) => Distinct(d)
<1> DEFINE q == ch.senders
           S == {i \in DOMAIN q : q[i].routine # r}
           e == Entries(q, S)
           d == DropSenderLocked(ch, r)
<1>1. q \in Seq(SendWaiter) /\ Len(q) \in Nat /\ DOMAIN q = 1 .. Len(q)
  BY LenProperties DEF Channel
<1>2. d = [ch EXCEPT !.senders = e]
  BY DEF DropSenderLocked
<1> HIDE DEF d, e, q
<1>3. /\ e \in Seq(SendWaiter)
      /\ S = {} => e = << >>
      /\ \E place \in [1 .. Len(e) -> S] :
           /\ \A k \in 1 .. Len(e) : e[k] = q[place[k]]
           /\ \A i, j \in 1 .. Len(e) : place[i] = place[j] => i = j
  <2>1. S \in SUBSET (1 .. Len(q))
    BY <1>1
  <2> HIDE DEF S
  <2> QED
    BY <1>1, <2>1, EntriesOfSeq, SMTT(60) DEF e
<1>4. PICK place \in [1 .. Len(e) -> S] :
           /\ \A k \in 1 .. Len(e) : e[k] = q[place[k]]
           /\ \A i, j \in 1 .. Len(e) : place[i] = place[j] => i = j
  BY <1>3
<1>5. /\ d \in Channel /\ d.senders = e
      /\ d.buf = ch.buf /\ d.closed = ch.closed /\ d.capacity = ch.capacity
  BY <1>2, <1>3 DEF Channel
<1>6. q = << >> => e = << >>
  BY <1>1, <1>3
<1>7. Members(e) \subseteq {w \in Members(q) : w.routine # r}
  <2>1. DOMAIN e = 1 .. Len(e)
    BY <1>3, LenProperties
  <2> QED
    BY <1>4, <2>1 DEF Members
<1>8. ASSUME Distinct(ch) PROVE Distinct(d)
  BY <1>1, <1>4, <1>5, <1>8, SMTT(60) DEF Distinct, q
<1> QED
  BY <1>5, <1>6, <1>7, <1>8 DEF d, q

\* Dropping a receiver leaves the rest of the channel alone.
LEMMA DropReceiver ==
  ASSUME NEW ch \in Channel, NEW r
  PROVE  LET d == DropReceiverLocked(ch, r)
         IN  d \in Channel /\ d = [ch EXCEPT !.receivers = d.receivers]
<1> DEFINE q == ch.receivers
           S == {i \in DOMAIN q : q[i] # r}
<1>1. q \in Seq(Routines) /\ DOMAIN q = 1 .. Len(q)
  BY LenProperties DEF Channel
<1>2. Entries(q, S) \in Seq(Routines)
  BY <1>1, EntriesOfSeq
<1> QED
  BY <1>2 DEF DropReceiverLocked, Channel

\* Putting a value down adds it to the buffer and changes nothing else.
LEMMA PutAdds ==
  ASSUME NEW ch \in Channel, NEW v \in Numbers
  PROVE  LET d == Put(ch, v)
         IN  /\ d \in Channel
             /\ d.senders = ch.senders /\ d.closed = ch.closed
             /\ Members(d.buf) = Members(ch.buf) \cup {v}
<1>1. ch.buf \in Seq(Numbers) /\ Append(ch.buf, v) \in Seq(Numbers)
  BY DEF Channel
<1>2. Members(Append(ch.buf, v)) = Members(ch.buf) \cup {v}
  BY <1>1, MembersOfAppend
<1>3. Put(ch, v) = [ch EXCEPT !.buf = Append(ch.buf, v)]
  BY DEF Put
<1> QED
  BY <1>1, <1>2, <1>3 DEF Channel

\* Queueing a routine that is not queued adds it to the senders.
LEMMA AddSenderAdds ==
  ASSUME NEW ch \in Channel, NEW r \in Routines, NEW v \in Values
  PROVE  LET d == AddSender(ch, r, v)
         IN  /\ d \in Channel
             /\ d.buf = ch.buf /\ d.closed = ch.closed
             /\ Members(d.senders) = Members(ch.senders) \cup {[routine |-> r, value |-> v]}
             /\ Distinct(ch) /\ (\A w \in Members(ch.senders) : w.routine # r) => Distinct(d)
<1> DEFINE q == ch.senders
           w == [routine |-> r, value |-> v]
           d == AddSender(ch, r, v)
<1>1. q \in Seq(SendWaiter) /\ w \in SendWaiter /\ w.routine = r
  BY DEF Channel, SendWaiter
<1>2. d = [ch EXCEPT !.senders = Append(q, w)]
  BY DEF AddSender
<1> HIDE DEF w, d
<1>3. Append(q, w) \in Seq(SendWaiter) /\ Members(Append(q, w)) = Members(q) \cup {w}
  BY <1>1, MembersOfAppend
<1>4. d \in Channel /\ d.senders = Append(q, w) /\ d.buf = ch.buf /\ d.closed = ch.closed
  BY <1>2, <1>3 DEF Channel
<1>5. ASSUME Distinct(ch), \A x \in Members(q) : x.routine # r
      PROVE  Distinct(d)
  <2>1. /\ Len(q) \in Nat /\ Len(Append(q, w)) = Len(q) + 1 /\ DOMAIN q = 1 .. Len(q)
        /\ \A i \in 1 .. Len(q) : Append(q, w)[i] = q[i]
        /\ Append(q, w)[Len(q) + 1] = w
    BY <1>1
  <2>2. \A i \in 1 .. Len(q) : q[i].routine # r
    BY <1>5, <2>1 DEF Members
  <2>3. \A i, j \in 1 .. Len(q) : q[i].routine = q[j].routine => i = j
    BY <1>5 DEF Distinct
  <2>4. \A i \in 1 .. Len(q) + 1 : i \in 1 .. Len(q) \/ i = Len(q) + 1
    BY <2>1
  <2> HIDE DEF q
  <2>5. \A i, j \in 1 .. Len(q) + 1 :
          Append(q, w)[i].routine = Append(q, w)[j].routine => i = j
    BY <1>1, <2>1, <2>2, <2>3, <2>4
  <2> QED
    BY <1>4, <2>1, <2>5 DEF Distinct
<1> QED
  BY <1>3, <1>4, <1>5 DEF d, w

\* The first sender leaves the queue, all its entries gone.
LEMMA FirstSenderLeaves ==
  ASSUME NEW ch \in Channel, ch.senders # << >>
  PROVE  LET w == Head(ch.senders)
             q == Tail(ch.senders)
         IN  /\ w \in SendWaiter /\ w \in Members(ch.senders)
             /\ q \in Seq(SendWaiter)
             /\ Distinct(ch) =>
                  /\ Members(q) \subseteq {x \in Members(ch.senders) : x.routine # w.routine}
                  /\ \A i, j \in 1 .. Len(q) : q[i].routine = q[j].routine => i = j
<1> DEFINE p == ch.senders
           w == Head(p)
           q == Tail(p)
<1>1. p \in Seq(SendWaiter) /\ p # << >>
  BY DEF Channel
<1> HIDE DEF p
<1>2. /\ Len(p) \in Nat \ {0} /\ DOMAIN p = 1 .. Len(p)
      /\ q \in Seq(SendWaiter) /\ Len(q) = Len(p) - 1 /\ DOMAIN q = 1 .. Len(p) - 1
      /\ \A i \in 1 .. Len(p) - 1 : q[i] = p[i + 1]
      /\ w = p[1] /\ w \in SendWaiter
  BY <1>1, EmptySeq, LenProperties, HeadTailProperties
<1>3. Members(p) = {w} \cup Members(q)
  BY <1>1, MembersOfTail
<1> HIDE DEF q, w
<1>4. ASSUME \A i, j \in 1 .. Len(p) : p[i].routine = p[j].routine => i = j
      PROVE  /\ Members(q) \subseteq {x \in Members(p) : x.routine # w.routine}
             /\ \A i, j \in 1 .. Len(q) : q[i].routine = q[j].routine => i = j
  <2>1. ASSUME NEW i \in 1 .. Len(p) - 1
        PROVE  i + 1 \in 1 .. Len(p) /\ i + 1 # 1 /\ 1 \in 1 .. Len(p) /\ q[i] = p[i + 1]
    BY <1>2
  <2>2. \A i \in 1 .. Len(p) - 1 : q[i].routine # w.routine
    BY <1>2, <1>4, <2>1
  <2>3. \A i, j \in 1 .. Len(p) - 1 : q[i].routine = q[j].routine => i = j
    <3> SUFFICES ASSUME NEW i \in 1 .. Len(p) - 1, NEW j \in 1 .. Len(p) - 1,
                        q[i].routine = q[j].routine
                 PROVE  i = j
      OBVIOUS
    <3>1. i + 1 = j + 1
      BY <1>4, <2>1
    <3> QED
      BY <1>2, <3>1
  <2>4. \A x \in Members(q) : x.routine # w.routine
    BY <1>2, <2>2 DEF Members
  <2> QED
    BY <1>2, <1>3, <2>3, <2>4
<1> QED
  BY <1>2, <1>3, <1>4 DEF Distinct, p, q, w

\* A take hands out one value; with it, nobody or the first sender passes its
\* value on, into the buffer or to the receiver, and leaves the queue.
LEMMA TakeMoves ==
  ASSUME NEW ch \in Channel, ~Drained(ch)
  PROVE  LET d == AfterTake(ch)
         IN  /\ d \in Channel /\ d.closed = ch.closed
             /\ TakenValue(ch) \in Numbers
             /\ \/ /\ ReleasedSender(ch) = << >>
                   /\ d.senders = ch.senders
                   /\ Members(d.buf) \cup {TakenValue(ch)} = Members(ch.buf)
                \/ \E w \in Members(ch.senders) :
                     /\ ReleasedSender(ch) = << w.routine >>
                     /\ Members(d.buf) \cup {TakenValue(ch)} = Members(ch.buf) \cup {w.value}
                     /\ Distinct(ch) =>
                          /\ Members(d.senders) \subseteq
                               {x \in Members(ch.senders) : x.routine # w.routine}
                          /\ Distinct(d)
<1> DEFINE w == Head(ch.senders)
           q == Tail(ch.senders)
           d == AfterTake(ch)
<1>1. /\ ch.buf \in Seq(Numbers) /\ << >> \in Seq(Numbers)
      /\ SendWaiter = [routine : Routines, value : Values] /\ Values \subseteq Numbers
  BY DEF Channel, SendWaiter, Numbers
<1>2. ch.senders # << >> =>
        /\ w \in SendWaiter /\ w.value \in Numbers /\ w \in Members(ch.senders)
        /\ q \in Seq(SendWaiter)
        /\ Distinct(ch) =>
             /\ Members(q) \subseteq {x \in Members(ch.senders) : x.routine # w.routine}
             /\ \A i, j \in 1 .. Len(q) : q[i].routine = q[j].routine => i = j
  BY <1>1, FirstSenderLeaves
<1>3. ch.buf # << >> =>
        /\ Head(ch.buf) \in Numbers /\ Tail(ch.buf) \in Seq(Numbers)
        /\ Members(ch.buf) = {Head(ch.buf)} \cup Members(Tail(ch.buf))
  BY <1>1, HeadTailProperties, MembersOfTail
<1>4. CASE ch.buf = << >>
  <2>1. ch.senders # << >>
    BY <1>4 DEF Drained
  <2>2. /\ d = [ch EXCEPT !.senders = q]
        /\ ReleasedSender(ch) = << w.routine >>
        /\ TakenValue(ch) = w.value
    BY <1>4, <2>1 DEF AfterTake, ReleasedSender, TakenValue
  <2> HIDE DEF w, q, d
  <2>3. /\ d \in Channel /\ d.closed = ch.closed /\ d.buf = ch.buf /\ d.senders = q
    BY <1>2, <2>1, <2>2 DEF Channel
  <2> QED
    BY <1>2, <2>1, <2>2, <2>3 DEF Distinct, d
<1>5. CASE ch.buf # << >> /\ Refills(ch)
  <2> DEFINE b == Append(Tail(ch.buf), w.value)
  <2>1. ch.senders # << >>
    BY <1>5 DEF Refills
  <2>2. b \in Seq(Numbers) /\ Members(b) = Members(Tail(ch.buf)) \cup {w.value}
    <3> DEFINE rest == Tail(ch.buf)
               v == w.value
    <3>1. v \in Numbers /\ rest \in Seq(Numbers)
      BY <1>2, <1>3, <1>5, <2>1
    <3> HIDE DEF rest, v
    <3>2. /\ Append(rest, v) \in Seq(Numbers)
          /\ Members(Append(rest, v)) = Members(rest) \cup {v}
      BY <3>1, MembersOfAppend
    <3> QED
      BY <3>2 DEF rest, v
  <2>3. /\ d = [ch EXCEPT !.buf = b, !.senders = q]
        /\ ReleasedSender(ch) = << w.routine >>
        /\ TakenValue(ch) = Head(ch.buf)
    BY <1>5, <2>1 DEF AfterTake, ReleasedSender, TakenValue
  <2> HIDE DEF w, q, d, b
  <2>4. /\ d \in Channel /\ d.closed = ch.closed /\ d.buf = b /\ d.senders = q
    BY <1>2, <2>1, <2>2, <2>3 DEF Channel
  <2> QED
    BY <1>2, <1>3, <1>5, <2>1, <2>2, <2>3, <2>4 DEF Distinct, d
<1>6. CASE ch.buf # << >> /\ ~Refills(ch)
  <2>1. /\ d = [ch EXCEPT !.buf = Tail(ch.buf)]
        /\ ReleasedSender(ch) = << >>
        /\ TakenValue(ch) = Head(ch.buf)
    BY <1>6 DEF AfterTake, ReleasedSender, TakenValue
  <2> HIDE DEF d
  <2>2. d \in Channel /\ d.closed = ch.closed /\ d.buf = Tail(ch.buf) /\ d.senders = ch.senders
    BY <1>3, <1>6, <2>1 DEF Channel
  <2> QED
    BY <1>3, <1>6, <2>1, <2>2 DEF d
<1> QED
  BY <1>4, <1>5, <1>6

-----------------------------------------------------------------------------
(* What a send that has not returned relies on.                            *)

Sending == {r \in Routines : at[r] = "send"}

\* The channel a routine is sending into.
Target(r) == on[r][1]

\* The values that have come into c and not been lost.
Inside(c) == (Members(out[c]) \cup Members(chan[c].buf)) \cap Values

\* A queued sender is in its send, its value not taken.
QueuedWait ==
  \A c \in Chans :
    /\ Distinct(chan[c])
    /\ \A w \in Members(chan[c].senders) :
         /\ w.routine \in Sending \ taken
         /\ Target(w.routine) = c /\ value[w.routine] = w.value

\* The value of a send has come in exactly if the send was told.
SendsAreTold ==
  \A r \in Sending :
    /\ value[r] <= sent[Target(r)]
    /\ outcome[Target(r)][value[r]] = "none"
    /\ r \in taken <=> value[r] \in Inside(Target(r))

SendsDiffer ==
  \A r, x \in Sending : Target(r) = Target(x) /\ value[r] = value[x] => r = x

\* No number is used before it is given out.
NumbersAreNew ==
  \A c \in Chans, v \in Values :
    v > sent[c] => outcome[c][v] = "none" /\ v \notin Inside(c)

AnswersAreTrue ==
  \A c \in Chans, v \in Values :
    /\ outcome[c][v] = "sent" => v \in Inside(c)
    /\ outcome[c][v] = "panic" => v \notin Inside(c)

CallInv ==
  /\ QueuedWait /\ SendsAreTold /\ SendsDiffer
  /\ taken \subseteq Sending
  /\ NumbersAreNew /\ AnswersAreTrue

IInv == TypeInv /\ CallInv

\* A closed and drained channel stays so.
StaysDrained ==
  \A c \in Chans : chan[c].closed /\ Drained(chan[c]) => chan'[c].closed /\ Drained(chan'[c])

\* Routine x is in the same send as before, or in none.
SameCall(x) ==
  /\ at'[x] = "send" <=> at[x] = "send"
  /\ x \in taken' => x \in taken
  /\ at[x] = "send" => on'[x] = on[x] /\ value'[x] = value[x] /\ (x \in taken => x \in taken')

\* Senders only leave the queue of c, and nothing comes in.
SendersKept(c) ==
  /\ Members(chan'[c].senders) \subseteq Members(chan[c].senders)
  /\ Distinct(chan[c]) => Distinct(chan'[c])

LEMMA TargetIsChannel ==
  ASSUME TypeInv, NEW r \in Sending
  PROVE  r \in Routines /\ Target(r) \in Chans /\ value[r] \in Values /\ on[r] = << Target(r) >>
<1>1. on[r] \in Seq(Chans) /\ Len(on[r]) = 1 /\ value[r] \in Values /\ r \in Routines
  BY DEF TypeInv, ChannelTypes, SendsAreCalls, Sending
<1> QED
  BY <1>1 DEF Target

\* No send begins, ends or is told.
LEMMA NoSendMoves ==
  ASSUME TypeInv, TypeInv', CallInv,
         \A x \in Routines : SameCall(x),
         \A c \in Chans : SendersKept(c) /\ Inside(c)' = Inside(c),
         UNCHANGED << sent, outcome >>
  PROVE  CallInv'
<1>1. Sending' = Sending /\ taken' \subseteq taken
  BY DEF SameCall, Sending, TypeInv, ChannelTypes
<1>2. \A x \in Sending : /\ x \in Routines /\ Target(x) \in Chans /\ value[x] \in Values
                         /\ Target(x)' = Target(x) /\ value'[x] = value[x]
                         /\ x \in taken <=> x \in taken'
  BY TargetIsChannel DEF SameCall, Sending, Target
<1>3. QueuedWait'
  BY <1>1, <1>2 DEF CallInv, QueuedWait, SendersKept
<1>4. SendsAreTold'
  BY <1>1, <1>2 DEF CallInv, SendsAreTold
<1>5. SendsDiffer'
  BY <1>1, <1>2 DEF CallInv, SendsDiffer
<1>6. taken' \subseteq Sending'
  BY <1>1 DEF CallInv
<1>7. NumbersAreNew' /\ AnswersAreTrue'
  BY DEF CallInv, NumbersAreNew, AnswersAreTrue
<1> QED
  BY <1>3, <1>4, <1>5, <1>6, <1>7 DEF CallInv

\* The send of v into c ends with the answer o, whether r was queued or not.
LEMMA SendEnds ==
  ASSUME TypeInv, TypeInv', CallInv,
         NEW r \in Routines, NEW c \in Chans, NEW v \in Values,
         NEW o \in {"sent", "stopped", "panic"},
         \A x \in Routines \ {r} : SameCall(x),
         r \notin Sending', r \notin taken',
         \A d \in Chans : /\ SendersKept(d)
                          /\ \A w \in Members(chan'[d].senders) : w.routine # r,
         \A d \in Chans : Inside(d)' = IF d = c /\ o = "sent" THEN Inside(d) \cup {v} ELSE Inside(d),
         outcome' = [outcome EXCEPT ![c][v] = o],
         outcome[c][v] = "none",
         o = "panic" => v \notin Inside(c),
         \A x \in Sending \ {r} : ~(Target(x) = c /\ value[x] = v),
         \A d \in Chans : sent[d] <= sent'[d],
         v <= sent'[c]
  PROVE  CallInv'
<1>1. Sending' = Sending \ {r} /\ taken' \subseteq taken \ {r}
  BY DEF SameCall, Sending, TypeInv, ChannelTypes
<1>2. \A x \in Sending \ {r} :
        /\ x \in Routines /\ Target(x) \in Chans /\ value[x] \in Values
        /\ Target(x)' = Target(x) /\ value'[x] = value[x]
        /\ x \in taken <=> x \in taken'
  BY TargetIsChannel DEF SameCall, Sending, Target
<1>3. \A d \in Chans, y \in Values :
        outcome'[d][y] = IF d = c /\ y = v THEN o ELSE outcome[d][y]
  BY DEF TypeInv, ChannelTypes
<1>4. /\ \A d \in Chans : sent[d] \in 0 .. MaxValues /\ sent'[d] \in 0 .. MaxValues
      /\ MaxValues \in Nat /\ Values = 1 .. MaxValues
  BY ChannelsAssumption DEF TypeInv, ChannelTypes, Values
<1>5. QueuedWait'
  <2>1. ASSUME NEW d \in Chans, NEW w \in Members(chan'[d].senders)
        PROVE  /\ w.routine \in Sending' \ taken'
               /\ Target(w.routine)' = d /\ value'[w.routine] = w.value
    <3>1. w \in Members(chan[d].senders) /\ w.routine # r
      BY DEF SendersKept
    <3>2. /\ w.routine \in Sending \ taken
          /\ Target(w.routine) = d /\ value[w.routine] = w.value
      BY <3>1 DEF CallInv, QueuedWait
    <3> QED
      BY <1>1, <1>2, <3>1, <3>2
  <2>2. \A d \in Chans : Distinct(chan'[d])
    BY DEF CallInv, QueuedWait, SendersKept
  <2> QED
    BY <2>1, <2>2 DEF QueuedWait
<1>6. SendsAreTold'
  <2> SUFFICES ASSUME NEW x \in Sending \ {r}
               PROVE  /\ value[x] <= sent'[Target(x)]
                      /\ outcome'[Target(x)][value[x]] = "none"
                      /\ x \in taken <=> value[x] \in Inside(Target(x))'
    BY <1>1, <1>2 DEF SendsAreTold
  <2>1. /\ value[x] <= sent[Target(x)]
        /\ outcome[Target(x)][value[x]] = "none"
        /\ x \in taken <=> value[x] \in Inside(Target(x))
    BY DEF CallInv, SendsAreTold
  <2> QED
    BY <1>2, <1>3, <1>4, <2>1
<1>7. SendsDiffer'
  BY <1>1, <1>2 DEF CallInv, SendsDiffer
<1>8. taken' \subseteq Sending'
  BY <1>1 DEF CallInv
<1>9. NumbersAreNew'
  BY <1>3, <1>4 DEF CallInv, NumbersAreNew
<1>10. AnswersAreTrue'
  BY <1>3 DEF CallInv, AnswersAreTrue
<1> QED
  BY <1>5, <1>6, <1>7, <1>8, <1>9, <1>10 DEF CallInv

\* The send of v into c by r joins the queue, for the first time or again.
LEMMA SendQueues ==
  ASSUME TypeInv, TypeInv', CallInv,
         NEW r \in Routines, NEW c \in Chans, NEW v \in Values,
         \A x \in Routines \ {r} : SameCall(x),
         r \in Sending', r \notin taken', on'[r] = << c >>, value'[r] = v,
         \A d \in Chans \ {c} : SendersKept(d),
         Members(chan'[c].senders) \subseteq
           Members(chan[c].senders) \cup {[routine |-> r, value |-> v]},
         Distinct(chan'[c]),
         \A d \in Chans : \A w \in Members(chan[d].senders) : w.routine = r => d = c /\ w.value = v,
         \A d \in Chans : Inside(d)' = Inside(d),
         UNCHANGED outcome,
         outcome[c][v] = "none", v \notin Inside(c),
         \A x \in Sending \ {r} : ~(Target(x) = c /\ value[x] = v),
         \A d \in Chans : sent[d] <= sent'[d],
         v <= sent'[c]
  PROVE  CallInv'
<1>1. Sending' = Sending \cup {r} /\ taken' \subseteq taken \ {r}
  BY DEF SameCall, Sending, TypeInv, ChannelTypes
<1>2. \A x \in Sending \ {r} :
        /\ x \in Routines /\ Target(x) \in Chans /\ value[x] \in Values
        /\ Target(x)' = Target(x) /\ value'[x] = value[x]
        /\ x \in taken <=> x \in taken'
  BY TargetIsChannel DEF SameCall, Sending, Target
<1>3. Target(r)' = c
  BY DEF Target
<1>4. /\ \A d \in Chans : sent[d] \in 0 .. MaxValues /\ sent'[d] \in 0 .. MaxValues
      /\ MaxValues \in Nat /\ Values = 1 .. MaxValues
  BY ChannelsAssumption DEF TypeInv, ChannelTypes, Values
<1>5. QueuedWait'
  <2>1. \A d \in Chans : Distinct(chan'[d])
    BY DEF CallInv, QueuedWait, SendersKept
  <2>2. ASSUME NEW d \in Chans, NEW w \in Members(chan'[d].senders)
        PROVE  w \in Members(chan[d].senders) \/ (d = c /\ w = [routine |-> r, value |-> v])
    BY DEF SendersKept
  <2>3. ASSUME NEW d \in Chans, NEW w \in Members(chan[d].senders)
        PROVE  /\ w.routine \in Sending' \ taken'
               /\ Target(w.routine)' = d /\ value'[w.routine] = w.value
    BY <1>1, <1>2, <1>3 DEF CallInv, QueuedWait
  <2> QED
    BY <1>1, <1>3, <2>1, <2>2, <2>3 DEF QueuedWait
<1>6. SendsAreTold'
  <2>1. ASSUME NEW x \in Sending \ {r}
        PROVE  /\ value[x] <= sent'[Target(x)]
               /\ outcome[Target(x)][value[x]] = "none"
               /\ x \in taken <=> value[x] \in Inside(Target(x))'
    <3>1. /\ value[x] <= sent[Target(x)]
          /\ outcome[Target(x)][value[x]] = "none"
          /\ x \in taken <=> value[x] \in Inside(Target(x))
      BY DEF CallInv, SendsAreTold
    <3> QED
      BY <1>2, <1>4, <3>1
  <2> QED
    BY <1>1, <1>2, <1>3, <2>1 DEF SendsAreTold
<1>7. SendsDiffer'
  BY <1>1, <1>2, <1>3 DEF CallInv, SendsDiffer
<1>8. taken' \subseteq Sending'
  BY <1>1 DEF CallInv
<1>9. NumbersAreNew'
  BY <1>4 DEF CallInv, NumbersAreNew
<1>10. AnswersAreTrue'
  BY DEF CallInv, AnswersAreTrue
<1> QED
  BY <1>5, <1>6, <1>7, <1>8, <1>9, <1>10 DEF CallInv

\* A receiver takes from c: the sender of w is told, and its value comes in.
LEMMA SenderIsTold ==
  ASSUME TypeInv, TypeInv', CallInv,
         NEW c \in Chans, NEW w \in Members(chan[c].senders),
         \A x \in Routines \ {w.routine} : SameCall(x),
         LET y == w.routine
         IN  y \in Sending' \cap taken' /\ on'[y] = on[y] /\ value'[y] = value[y],
         \A d \in Chans \ {c} : SendersKept(d),
         Distinct(chan'[c]),
         Members(chan'[c].senders) \subseteq
           {x \in Members(chan[c].senders) : x.routine # w.routine},
         \A d \in Chans : Inside(d)' = IF d = c THEN Inside(d) \cup {w.value} ELSE Inside(d),
         UNCHANGED << sent, outcome >>
  PROVE  CallInv'
<1> DEFINE y == w.routine
<1>1. y \in Sending \ taken /\ Target(y) = c /\ value[y] = w.value
  BY DEF CallInv, QueuedWait
<1>2. \A x \in Sending : x \in Routines /\ Target(x) \in Chans /\ value[x] \in Values
  BY TargetIsChannel
<1> HIDE DEF y
<1>3. Sending' = Sending /\ taken' = taken \cup {y}
  <2>1. \A x \in Routines : x # y => /\ x \in Sending' <=> x \in Sending
                                     /\ x \in taken' => x \in taken
                                     /\ x \in Sending /\ x \in taken => x \in taken'
    BY DEF SameCall, Sending, y
  <2>2. taken \subseteq Sending /\ taken' \subseteq Routines /\ Sending' \subseteq Routines
    BY DEF CallInv, TypeInv, ChannelTypes, Sending
  <2>3. y \in Sending' /\ y \in taken' /\ y \in Sending /\ Sending \subseteq Routines
    BY <1>1 DEF y, Sending
  <2>4. ASSUME NEW x \in Routines
        PROVE  (x \in Sending' <=> x \in Sending) /\ (x \in taken' <=> x \in taken \/ x = y)
    BY <2>1, <2>2, <2>3
  <2> QED
    BY <2>2, <2>3, <2>4
<1>4. \A x \in Sending : Target(x)' = Target(x) /\ value'[x] = value[x]
  <2>1. on'[y] = on[y] /\ value'[y] = value[y]
    BY DEF y
  <2>2. \A x \in Sending : x # y => on'[x] = on[x] /\ value'[x] = value[x]
    BY DEF SameCall, Sending, y
  <2> QED
    BY <2>1, <2>2 DEF Target
<1>5. QueuedWait'
  <2>1. ASSUME NEW d \in Chans, NEW x \in Members(chan'[d].senders)
        PROVE  x \in Members(chan[d].senders) /\ x.routine # y
    <3>1. CASE d = c
      BY <3>1 DEF y
    <3>2. CASE d # c
      BY <1>1, <3>2 DEF CallInv, QueuedWait, SendersKept
    <3> QED
      BY <3>1, <3>2
  <2>2. \A d \in Chans : Distinct(chan'[d])
    BY DEF CallInv, QueuedWait, SendersKept
  <2> QED
    BY <1>3, <1>4, <2>1, <2>2 DEF CallInv, QueuedWait
<1>6. SendsAreTold'
  <2> SUFFICES ASSUME NEW x \in Sending
               PROVE  /\ value[x] <= sent[Target(x)]
                      /\ outcome[Target(x)][value[x]] = "none"
                      /\ x \in taken' <=> value[x] \in Inside(Target(x))'
    BY <1>3, <1>4 DEF SendsAreTold
  <2>1. /\ value[x] <= sent[Target(x)]
        /\ outcome[Target(x)][value[x]] = "none"
        /\ x \in taken <=> value[x] \in Inside(Target(x))
    BY DEF CallInv, SendsAreTold
  <2>2. x # y => ~(Target(x) = c /\ value[x] = w.value)
    BY <1>1 DEF CallInv, SendsDiffer
  <2>3. Inside(Target(x))' =
          IF Target(x) = c THEN Inside(c) \cup {w.value} ELSE Inside(Target(x))
    <3>1. /\ \A d \in Chans : d = Target(x) => Inside(Target(x))' = Inside(d)'
          /\ Target(x) \in Chans
      BY <1>2, <1>4 DEF Inside
    <3> QED
      BY <3>1
  <2>4. x \in taken' <=> value[x] \in Inside(Target(x))'
    <3>1. CASE x = y
      BY <1>1, <1>3, <2>3, <3>1
    <3>2. CASE x # y
      BY <1>3, <2>1, <2>2, <2>3, <3>2
    <3> QED
      BY <3>1, <3>2
  <2> QED
    BY <2>1, <2>4
<1>7. SendsDiffer'
  BY <1>3, <1>4 DEF CallInv, SendsDiffer
<1>8. taken' \subseteq Sending'
  BY <1>1, <1>3 DEF CallInv
<1>9. outcome[c][w.value] = "none" /\ w.value <= sent[c]
  BY <1>1 DEF CallInv, SendsAreTold
<1>10. NumbersAreNew'
  <2>1. w.value \in Values /\ sent[c] \in Nat
    BY <1>1, <1>2 DEF TypeInv, ChannelTypes
  <2> QED
    BY <1>9, <2>1 DEF CallInv, NumbersAreNew, Values
<1>11. AnswersAreTrue'
  BY <1>9 DEF CallInv, AnswersAreTrue
<1> QED
  BY <1>5, <1>6, <1>7, <1>8, <1>10, <1>11 DEF CallInv

-----------------------------------------------------------------------------
(* The steps.                                                              *)

\* From one place that is no send to another.
LEMMA MoveKeepsSends ==
  ASSUME at \in [Routines -> Places], NEW r \in Routines, at[r] # "send",
         NEW place \in Places \ {"send"}, at' = [at EXCEPT ![r] = place]
  PROVE  at' \in [Routines -> Places] /\ \A x \in Routines : at'[x] = "send" <=> at[x] = "send"
OBVIOUS

\* What a routine does outside its sends begins and ends none.
LEMMA CrewKeepsSends ==
  ASSUME at \in [Routines -> Places], NEW r \in Routines, CrewStep(r)
  PROVE  at' \in [Routines -> Places] /\ \A x \in Routines : at'[x] = "send" <=> at[x] = "send"
<1>2. CASE Yield(r)
  <2>1. at[r] # "send" /\ \E place \in {"user", "turn"} : at' = [at EXCEPT ![r] = place]
    BY <1>2 DEF Yield, InUserCode, Return, Enter
  <2> QED
    BY <2>1, MoveKeepsSends DEF Places
<1>3. CASE StartOrResumeYield(r)
  <2>1. at[r] # "send" /\ at' = [at EXCEPT ![r] = "user"]
    BY <1>3 DEF StartOrResumeYield, Return
  <2> QED
    BY <2>1, MoveKeepsSends DEF Places
<1>4. CASE \E x \in Routines : CancelRoutine(r, x)
  BY <1>4 DEF CancelRoutine
<1>5. CASE EndRoutine(r)
  <2>1. at[r] # "send" /\ at' = [at EXCEPT ![r] = "ended"]
    BY <1>5 DEF EndRoutine, Enter
  <2> QED
    BY <2>1, MoveKeepsSends DEF Places
<1>6. CASE CloseScope \/ ResumeClose \/ EndProgram
  <2>1. \A reason : CloseLoop(reason) =>
          \E place \in {"user", "close"} : at' = [at EXCEPT ![Root] = place]
    BY DEF CloseLoop
  <2>2. at[Root] # "send" /\ \E place \in {"user", "close", "ended"} : at' = [at EXCEPT ![Root] = place]
    BY <1>6, <2>1 DEF CloseScope, ResumeClose, EndProgram, Enter
  <2> QED
    BY <2>2, MoveKeepsSends, RoutinesFinite DEF Places
<1> QED
  BY <1>2, <1>3, <1>4, <1>5, <1>6 DEF CrewStep

\* Steps in which no send is told and no value comes in: TypeInv' is left to show.
LEMMA QuietStep ==
  ASSUME IInv, TypeInv',
         \A x \in Routines : /\ at'[x] = "send" <=> at[x] = "send"
                             /\ at[x] = "send" => on'[x] = on[x] /\ value'[x] = value[x],
         taken' = taken \/ \E r \in Routines \ Sending : taken' = taken \ {r},
         \A c \in Chans :
           /\ chan'[c].senders = chan[c].senders
           /\ Members(chan'[c].buf) \subseteq Members(chan[c].buf) \cup {0}
           /\ Members(chan[c].buf) \subseteq Members(chan'[c].buf),
         UNCHANGED historyVars
  PROVE  IInv'
<1>1. \A x \in Routines : SameCall(x)
  <2>1. taken \subseteq Sending
    BY DEF IInv, CallInv
  <2> QED
    BY <2>1 DEF SameCall, Sending
<1>2. 0 \notin Values
  BY ChannelsAssumption DEF Values
<1>3. \A c \in Chans : SendersKept(c) /\ Inside(c)' = Inside(c)
  BY <1>2 DEF SendersKept, Inside, Distinct, historyVars
<1> QED
  BY <1>1, <1>3, NoSendMoves DEF IInv, historyVars

LEMMA CrewStepHolds ==
  ASSUME IInv, NEW r \in Routines, CrewStep(r), UNCHANGED channelVars
  PROVE  IInv' /\ StaysDrained
<1>1. at' \in [Routines -> Places] /\ \A x \in Routines : at'[x] = "send" <=> at[x] = "send"
  BY CrewKeepsSends DEF IInv, TypeInv, ChannelTypes
<1>2. TypeInv'
  BY <1>1 DEF IInv, TypeInv, ChannelTypes, SendsAreCalls, channelVars, callVars, historyVars
<1>3. IInv'
  BY <1>1, <1>2, QuietStep DEF channelVars, callVars, historyVars
<1> QED
  BY <1>3 DEF StaysDrained, channelVars

\* A step that changes one channel only, leaving its senders queued.
LEMMA OneChannelStep ==
  ASSUME IInv, NEW c \in Chans, NEW d \in Channel,
         chan' = [chan EXCEPT ![c] = d],
         d.senders = chan[c].senders,
         Members(d.buf) \subseteq Members(chan[c].buf) \cup {0},
         Members(chan[c].buf) \subseteq Members(d.buf),
         chan[c].closed => d.closed /\ d.buf = chan[c].buf,
         UNCHANGED << at, callVars, historyVars >>
  PROVE  IInv' /\ StaysDrained
<1>1. \A x \in Chans : chan'[x] = IF x = c THEN d ELSE chan[x]
  BY DEF IInv, TypeInv, ChannelTypes
<1>2. TypeInv'
  BY DEF IInv, TypeInv, ChannelTypes, SendsAreCalls, callVars, historyVars
<1>3. IInv'
  BY <1>1, <1>2, QuietStep DEF callVars
<1> QED
  BY <1>1, <1>3 DEF StaysDrained, Drained

LEMMA TimerStepHolds ==
  ASSUME IInv, NEW t \in Timers, TimerStep(t)
  PROVE  IInv' /\ StaysDrained
<1>1. t \in Chans /\ chan[t] \in Channel /\ 0 \in Numbers
  BY ChannelsAssumption DEF IInv, TypeInv, ChannelTypes, Numbers
<1>2. CASE TimerDelivers(t)
  <2> DEFINE d == Delivered(chan[t], 0)
  <2>1. /\ d \in Channel /\ d.senders = chan[t].senders
        /\ chan[t].closed => d.closed /\ d.buf = chan[t].buf
        /\ Members(d.buf) \subseteq Members(chan[t].buf) \cup {0}
        /\ Members(chan[t].buf) \subseteq Members(d.buf)
    BY <1>1, PutAdds DEF Delivered
  <2>2. chan' = [chan EXCEPT ![t] = d] /\ UNCHANGED << at, callVars, historyVars >>
    BY <1>2 DEF TimerDelivers, flowVars
  <2> HIDE DEF d
  <2> QED
    BY <1>1, <2>1, <2>2, OneChannelStep
<1>3. CASE TimerCloses(t)
  <2> DEFINE d == [chan[t] EXCEPT !.closed = TRUE]
  <2>1. /\ d \in Channel /\ d.senders = chan[t].senders
        /\ d.closed /\ d.buf = chan[t].buf
    BY <1>1 DEF Channel
  <2>2. chan' = [chan EXCEPT ![t] = d] /\ UNCHANGED << at, callVars, historyVars >>
    BY <1>3 DEF TimerCloses, flowVars
  <2> HIDE DEF d
  <2> QED
    BY <1>1, <2>1, <2>2, OneChannelStep
<1>4. CASE TimerDisarms(t)
  <2>1. chan' = chan /\ UNCHANGED << at, callVars, historyVars >>
    BY <1>4 DEF TimerDisarms, flowVars
  <2>2. chan' = [chan EXCEPT ![t] = chan[t]]
    BY <1>1, <2>1 DEF IInv, TypeInv, ChannelTypes
  <2> QED
    BY <1>1, <2>1, <2>2, OneChannelStep
<1> QED
  BY <1>2, <1>3, <1>4 DEF TimerStep

\* co.after only arms a timer.
LEMMA AfterHolds ==
  ASSUME IInv, NEW r \in Routines, NEW t \in Timers, After(r, t)
  PROVE  IInv' /\ StaysDrained
<1>1. t \in Chans /\ chan[t] \in Channel
  BY ChannelsAssumption DEF IInv, TypeInv, ChannelTypes
<1>2. chan' = chan /\ UNCHANGED << at, callVars, historyVars >>
  BY DEF After, flowVars
<1>3. chan' = [chan EXCEPT ![t] = chan[t]]
  BY <1>2 DEF IInv, TypeInv, ChannelTypes
<1> QED
  BY <1>1, <1>2, <1>3, OneChannelStep

\* A routine that is in no send comes back to user code.
LEMMA LeaveIsQuiet ==
  ASSUME IInv, NEW r \in Routines \ Sending, NEW reason, Leave(r, reason),
         chan' \in [Chans -> Channel],
         \A c \in Chans : chan'[c].senders = chan[c].senders /\ chan'[c].buf = chan[c].buf,
         UNCHANGED historyVars
  PROVE  IInv'
<1>1. /\ at' = [at EXCEPT ![r] = "user"] /\ on' = [on EXCEPT ![r] = << >>]
      /\ value' = [value EXCEPT ![r] = 0] /\ taken' = taken \ {r}
  BY DEF Leave, Return, Nowhere
<1>2. /\ at \in [Routines -> Places] /\ on \in [Routines -> Seq(Chans)]
      /\ value \in [Routines -> Numbers] /\ taken \subseteq Routines
      /\ 0 \in Numbers /\ << >> \in Seq(Chans) /\ at[r] # "send" /\ "user" \in Places
  BY DEF Places, IInv, TypeInv, ChannelTypes, Numbers, Sending
<1>3. ChannelTypes'
  <2>1. /\ at' \in [Routines -> Places] /\ on' \in [Routines -> Seq(Chans)]
        /\ value' \in [Routines -> Numbers] /\ taken' \subseteq Routines
    BY <1>1, <1>2
  <2> QED
    BY <2>1 DEF IInv, TypeInv, ChannelTypes, historyVars
<1>4. \A x \in Routines :
        /\ at'[x] = "send" <=> at[x] = "send"
        /\ at[x] = "send" => on'[x] = on[x] /\ value'[x] = value[x]
  BY <1>1, <1>2
<1>5. TypeInv'
  BY <1>3, <1>4 DEF IInv, TypeInv, SendsAreCalls
<1> QED
  BY <1>1, <1>4, <1>5, QuietStep

LEMMA CloseHolds ==
  ASSUME IInv, NEW r \in Routines, NEW c \in Chans, Close(r, c)
  PROVE  IInv' /\ StaysDrained
<1>1. chan \in [Chans -> Channel]
  BY DEF IInv, TypeInv, ChannelTypes
<1>2. CASE chan[c].closed
  <2>1. Leave(r, "panic") /\ UNCHANGED << chan, historyVars >> /\ r \in Routines \ Sending
    BY <1>2 DEF Close, InUserCode, Sending
  <2>2. IInv'
    BY <1>1, <2>1, LeaveIsQuiet
  <2> QED
    BY <2>1, <2>2 DEF StaysDrained
<1>3. CASE ~chan[c].closed
  <2> DEFINE d == [chan[c] EXCEPT !.closed = TRUE]
  <2>1. /\ d \in Channel /\ d.senders = chan[c].senders
        /\ d.closed /\ d.buf = chan[c].buf
    BY <1>1 DEF Channel
  <2>2. chan' = [chan EXCEPT ![c] = d] /\ UNCHANGED << at, callVars, historyVars >>
    BY <1>3 DEF Close
  <2> HIDE DEF d
  <2> QED
    BY <2>1, <2>2, OneChannelStep
<1> QED
  BY <1>2, <1>3

\* Select's first ready channel is one of its list.
LEMMA FirstReadyIsReady ==
  ASSUME NEW q \in Seq(Chans), \E i \in DOMAIN q : ReadyLocked(chan[q[i]])
  PROVE  FirstReady(q) \in Chans /\ ReadyLocked(chan[FirstReady(q)])
<1> DEFINE ready == {i \in DOMAIN q : ReadyLocked(chan[q[i]])}
<1>1. DOMAIN q = 1 .. Len(q) /\ Len(q) \in Nat
  BY LenProperties
<1>2. ready \in SUBSET Int /\ IsFiniteSet(ready) /\ ready # {}
  <2>1. ready \subseteq 1 .. Len(q) /\ ready # {}
    BY <1>1
  <2>2. IsFiniteSet(1 .. Len(q)) /\ 1 .. Len(q) \subseteq Int
    BY PlacesFinite
  <2> QED
    BY <2>1, <2>2, FS_Subset
<1>3. \A i \in ready : q[i] \in Chans /\ ReadyLocked(chan[q[i]])
  BY <1>1, ElementOfSeq
<1> HIDE DEF ready
<1>4. \E i \in ready : \A j \in ready : i <= j
  BY <1>2, EndsExist
<1>5. (CHOOSE i \in ready : \A j \in ready : i <= j) \in ready
  BY <1>4
<1>6. FirstReady(q) = q[CHOOSE i \in ready : \A j \in ready : i <= j]
  BY DEF FirstReady, ready
<1> QED
  BY <1>3, <1>5, <1>6

\* Dropping r from the receivers of every channel changes nothing else.
LEMMA ReceiversDropped ==
  ASSUME NEW f \in [Chans -> Channel], NEW r
  PROVE  LET g == [d \in Chans |-> DropReceiverLocked(f[d], r)]
         IN  /\ g \in [Chans -> Channel]
             /\ \A d \in Chans : /\ g[d].senders = f[d].senders /\ g[d].buf = f[d].buf
                                 /\ g[d].closed = f[d].closed
<1>1. \A d \in Chans :
        LET g == DropReceiverLocked(f[d], r)
        IN  g \in Channel /\ g.senders = f[d].senders /\ g.buf = f[d].buf /\ g.closed = f[d].closed
  <2> TAKE d \in Chans
  <2> DEFINE g == DropReceiverLocked(f[d], r)
  <2>1. g \in Channel /\ g = [f[d] EXCEPT !.receivers = g.receivers]
    BY DropReceiver
  <2> HIDE DEF g
  <2>2. g.senders = f[d].senders /\ g.buf = f[d].buf /\ g.closed = f[d].closed
    <3>1. f[d] \in Channel
      OBVIOUS
    <3> QED
      BY <2>1, <3>1 DEF Channel
  <2> QED
    BY <2>1, <2>2 DEF g
<1> QED
  BY <1>1

\* A taker leaves Select with a value, and a sender may be told.
LEMMA TakeHolds ==
  ASSUME IInv, NEW r \in Routines \ Sending, NEW c \in Chans, ~Drained(chan[c]),
         at' = [at EXCEPT ![r] = "user"], on' = [on EXCEPT ![r] = Nowhere],
         taken' = taken \cup Members(ReleasedSender(chan[c])),
         chan' = [d \in Chans |->
                   DropReceiverLocked(IF d = c THEN AfterTake(chan[c]) ELSE chan[d], r)],
         out' = [out EXCEPT ![c] = Append(@, TakenValue(chan[c]))],
         UNCHANGED << value, sent, outcome >>
  PROVE  IInv' /\ StaysDrained
<1> DEFINE e == AfterTake(chan[c])
           v == TakenValue(chan[c])
           released == ReleasedSender(chan[c])
<1>1. /\ chan \in [Chans -> Channel] /\ out \in [Chans -> Seq(Numbers)]
      /\ at \in [Routines -> Places] /\ on \in [Routines -> Seq(Chans)]
      /\ taken \subseteq Routines /\ chan[c] \in Channel /\ Distinct(chan[c])
      /\ \A d \in Chans : \A w \in Members(chan[d].senders) : w.routine \in Routines \ {r}
  BY DEF IInv, TypeInv, CallInv, QueuedWait, ChannelTypes, Sending
<1>2. /\ e \in Channel /\ e.closed = chan[c].closed /\ v \in Numbers
      /\ \/ /\ released = << >> /\ e.senders = chan[c].senders
            /\ Members(e.buf) \cup {v} = Members(chan[c].buf)
         \/ \E w \in Members(chan[c].senders) :
              /\ released = << w.routine >>
              /\ Members(e.buf) \cup {v} = Members(chan[c].buf) \cup {w.value}
              /\ Members(e.senders) \subseteq
                   {x \in Members(chan[c].senders) : x.routine # w.routine}
              /\ Distinct(e)
  BY <1>1, TakeMoves
<1> HIDE DEF e, v, released
<1>3. /\ chan' \in [Chans -> Channel]
      /\ \A d \in Chans : LET x == IF d = c THEN e ELSE chan[d]
                          IN  /\ chan'[d].senders = x.senders /\ chan'[d].buf = x.buf
                              /\ chan'[d].closed = x.closed
  <2> DEFINE f == [d \in Chans |-> IF d = c THEN e ELSE chan[d]]
  <2>1. f \in [Chans -> Channel]
    BY <1>1, <1>2
  <2>2. chan' = [d \in Chans |-> DropReceiverLocked(f[d], r)]
    BY DEF e
  <2>3. \A d \in Chans : f[d] = IF d = c THEN e ELSE chan[d]
    OBVIOUS
  <2> HIDE DEF f
  <2>4. /\ chan' \in [Chans -> Channel]
        /\ \A d \in Chans : /\ chan'[d].senders = f[d].senders /\ chan'[d].buf = f[d].buf
                            /\ chan'[d].closed = f[d].closed
    <3> DEFINE g == [d \in Chans |-> DropReceiverLocked(f[d], r)]
    <3>1. /\ g \in [Chans -> Channel]
          /\ \A d \in Chans : /\ g[d].senders = f[d].senders /\ g[d].buf = f[d].buf
                              /\ g[d].closed = f[d].closed
      BY <2>1, ReceiversDropped
    <3>2. chan' = g
      BY <2>2
    <3> HIDE DEF g
    <3> QED
      BY <3>1, <3>2
  <2> QED
    BY <2>3, <2>4
<1>4. /\ out' \in [Chans -> Seq(Numbers)]
      /\ \A d \in Chans : Members(out'[d]) = IF d = c THEN Members(out[d]) \cup {v}
                                             ELSE Members(out[d])
  <2>1. Append(out[c], v) \in Seq(Numbers) /\ Members(Append(out[c], v)) = Members(out[c]) \cup {v}
    BY <1>1, <1>2, MembersOfAppend
  <2>2. out' = [out EXCEPT ![c] = Append(out[c], v)]
    BY DEF v
  <2> QED
    BY <1>1, <2>1, <2>2
<1>5. /\ at' \in [Routines -> Places] /\ on' \in [Routines -> Seq(Chans)]
      /\ at'[r] # "send" /\ at[r] # "send"
      /\ \A x \in Routines : x # r => at'[x] = at[x] /\ on'[x] = on[x]
  <2>1. "user" \in Places /\ Nowhere \in Seq(Chans) /\ at[r] # "send"
    BY DEF Places, Nowhere, Sending
  <2> QED
    BY <1>1, <2>1
<1>6. taken' = taken \cup Members(released) /\ taken' \subseteq Routines
  <2>1. \A x : Members(<< x >>) = {x}
    BY DEF Members
  <2>2. Members(<< >>) = {}
    BY DEF Members
  <2> QED
    BY <1>1, <1>2, <2>1, <2>2 DEF released
<1>7. TypeInv'
  <2>1. ChannelTypes'
    BY <1>3, <1>4, <1>5, <1>6 DEF IInv, TypeInv, ChannelTypes
  <2>2. SendsAreCalls'
    BY <1>5 DEF IInv, TypeInv, SendsAreCalls
  <2> QED
    BY <2>1, <2>2 DEF TypeInv
<1>8. StaysDrained
  BY <1>3 DEF StaysDrained, Drained
<1>9. \A d \in Chans \ {c} : SendersKept(d) /\ Inside(d)' = Inside(d)
  BY <1>3, <1>4 DEF SendersKept, Inside, Distinct
<1>10. Inside(c)' = (Members(out[c]) \cup (Members(e.buf) \cup {v})) \cap Values
  BY <1>3, <1>4 DEF Inside
<1>11. \A x \in Routines :
         /\ at'[x] = "send" <=> at[x] = "send"
         /\ at[x] = "send" => on'[x] = on[x] /\ value'[x] = value[x]
  BY <1>5
<1>12. CASE released = << >> /\ e.senders = chan[c].senders
            /\ Members(e.buf) \cup {v} = Members(chan[c].buf)
  <2>1. Members(<< >>) = {}
    BY DEF Members
  <2>2. taken' = taken
    BY <1>6, <1>12, <2>1
  <2>3. \A x \in Routines : SameCall(x)
    BY <1>11, <2>2 DEF SameCall
  <2>4. SendersKept(c) /\ Inside(c)' = Inside(c)
    BY <1>3, <1>10, <1>12 DEF SendersKept, Inside, Distinct
  <2> QED
    BY <1>7, <1>8, <1>9, <2>3, <2>4, NoSendMoves DEF IInv
<1>13. ASSUME NEW w \in Members(chan[c].senders),
              released = << w.routine >>,
              Members(e.buf) \cup {v} = Members(chan[c].buf) \cup {w.value},
              Members(e.senders) \subseteq
                {x \in Members(chan[c].senders) : x.routine # w.routine},
              Distinct(e)
       PROVE  IInv' /\ StaysDrained
  <2>1. \A x : Members(<< x >>) = {x}
    BY DEF Members
  <2>2. taken' = taken \cup {w.routine}
    BY <1>6, <1>13, <2>1
  <2>3. /\ w.routine \in Sending /\ Target(w.routine) = c /\ value[w.routine] = w.value
    BY DEF IInv, CallInv, QueuedWait
  <2>4. w.routine \in Routines /\ w.value \in Values /\ at[w.routine] = "send"
    BY <2>3, TargetIsChannel DEF IInv, Sending
  <2>5. \A x \in Routines \ {w.routine} : SameCall(x)
    BY <1>11, <2>2 DEF SameCall
  <2>6. LET y == w.routine
        IN  y \in Sending' \cap taken' /\ on'[y] = on[y] /\ value'[y] = value[y]
    BY <1>11, <2>2, <2>4 DEF Sending
  <2>7. /\ Distinct(chan'[c])
        /\ Members(chan'[c].senders) \subseteq
             {x \in Members(chan[c].senders) : x.routine # w.routine}
    BY <1>3, <1>13 DEF Distinct
  <2>8. Inside(c)' = Inside(c) \cup {w.value}
    BY <1>10, <1>13, <2>4 DEF Inside
  <2>9. CallInv'
    BY <1>7, <1>9, <2>5, <2>6, <2>7, <2>8, SenderIsTold DEF IInv
  <2> QED
    BY <1>7, <1>8, <2>9 DEF IInv
<1> QED
  BY <1>2, <1>12, <1>13

\* The routine queues as a receiver.
LEMMA ParkInSelectHolds ==
  ASSUME IInv, NEW r \in Routines \ Sending, NEW q \in Seq(Chans),
         chan' = [d \in Chans |->
            [DropReceiverLocked(chan[d], r) EXCEPT
               !.receivers = @ \o [i \in 1 .. Cardinality({i \in DOMAIN q : q[i] = d}) |-> r]]],
         at' = [at EXCEPT ![r] = "select"], on' = [on EXCEPT ![r] = q],
         UNCHANGED << value, taken, historyVars >>
  PROVE  IInv' /\ StaysDrained
<1>1. /\ chan \in [Chans -> Channel] /\ at \in [Routines -> Places]
      /\ on \in [Routines -> Seq(Chans)] /\ at[r] # "send" /\ "select" \in Places
  BY DEF IInv, TypeInv, ChannelTypes, Sending, Places
<1>2. \A d \in Chans : Cardinality({i \in DOMAIN q : q[i] = d}) \in Nat
  <2> TAKE d \in Chans
  <2>1. DOMAIN q = 1 .. Len(q) /\ Len(q) \in Nat
    BY LenProperties
  <2>2. IsFiniteSet(1 .. Len(q))
    BY PlacesFinite
  <2>3. {i \in DOMAIN q : q[i] = d} \subseteq 1 .. Len(q)
    BY <2>1
  <2> QED
    BY <2>2, <2>3, FS_Subset, FS_CardinalityType
<1>3. ASSUME NEW d \in Chans
      PROVE  /\ chan'[d] \in Channel
             /\ chan'[d].senders = chan[d].senders /\ chan'[d].buf = chan[d].buf
             /\ chan'[d].closed = chan[d].closed
  <2> DEFINE n == Cardinality({i \in DOMAIN q : q[i] = d})
             more == [i \in 1 .. n |-> r]
             e == DropReceiverLocked(chan[d], r)
  <2>1. /\ e \in Channel /\ e = [chan[d] EXCEPT !.receivers = e.receivers]
    BY <1>1, DropReceiver
  <2>2. more \in Seq(Routines)
    <3>1. n \in Nat
      BY <1>2
    <3> HIDE DEF n
    <3> QED
      BY <3>1
  <2>3. chan'[d] = [e EXCEPT !.receivers = e.receivers \o more]
    OBVIOUS
  <2> HIDE DEF e, more
  <2>4. e.receivers \o more \in Seq(Routines)
    BY <2>1, <2>2 DEF Channel
  <2>5. /\ chan'[d] \in Channel
        /\ chan'[d].senders = e.senders /\ chan'[d].buf = e.buf /\ chan'[d].closed = e.closed
    BY <2>1, <2>3, <2>4 DEF Channel
  <2>6. e.senders = chan[d].senders /\ e.buf = chan[d].buf /\ e.closed = chan[d].closed
    BY <1>1, <2>1 DEF Channel
  <2> QED
    BY <2>5, <2>6
<1>4. chan' \in [Chans -> Channel]
  <2>1. chan' = [d \in Chans |-> chan'[d]]
    OBVIOUS
  <2> QED
    BY <1>3, <2>1
<1>5. /\ at' \in [Routines -> Places] /\ on' \in [Routines -> Seq(Chans)]
      /\ \A x \in Routines : /\ at'[x] = "send" <=> at[x] = "send"
                             /\ at[x] = "send" => on'[x] = on[x]
  BY <1>1
<1>6. TypeInv'
  <2>1. ChannelTypes'
    BY <1>4, <1>5 DEF IInv, TypeInv, ChannelTypes, historyVars
  <2>2. SendsAreCalls'
    BY <1>5 DEF IInv, TypeInv, SendsAreCalls
  <2> QED
    BY <2>1, <2>2 DEF TypeInv
<1>7. IInv'
  BY <1>3, <1>5, <1>6, QuietStep
<1> QED
  BY <1>3, <1>7 DEF StaysDrained, Drained

LEMMA SelectLoopHolds ==
  ASSUME IInv, NEW r \in Routines \ Sending, NEW q \in Seq(Chans), SelectLoop(r, q),
         UNCHANGED << sent, outcome >>
  PROVE  IInv' /\ StaysDrained
<1>1. CASE \E i \in DOMAIN q : ReadyLocked(chan[q[i]])
  <2> DEFINE c == FirstReady(q)
  <2>1. c \in Chans
    BY <1>1, FirstReadyIsReady
  <2> HIDE DEF c
  <2>2. CASE Drained(chan[c])
    <3>1. /\ Leave(r, "no") /\ UNCHANGED historyVars
          /\ chan' = [d \in Chans |-> DropReceiverLocked(chan[d], r)]
      BY <1>1, <2>2 DEF SelectLoop, c, historyVars
    <3>2. chan \in [Chans -> Channel]
      BY DEF IInv, TypeInv, ChannelTypes
    <3>3. /\ chan' \in [Chans -> Channel]
          /\ \A d \in Chans : /\ chan'[d].senders = chan[d].senders
                              /\ chan'[d].buf = chan[d].buf
                              /\ chan'[d].closed = chan[d].closed
      BY <3>1, <3>2, ReceiversDropped, ZenonT(60)
    <3>4. IInv'
      BY <3>1, <3>3, LeaveIsQuiet
    <3> QED
      BY <3>3, <3>4 DEF StaysDrained, Drained
  <2>3. CASE ~Drained(chan[c])
    <3>1. /\ at' = [at EXCEPT ![r] = "user"] /\ on' = [on EXCEPT ![r] = Nowhere]
          /\ taken' = taken \cup Members(ReleasedSender(chan[c]))
          /\ chan' = [d \in Chans |->
               DropReceiverLocked(IF d = c THEN AfterTake(chan[c]) ELSE chan[d], r)]
          /\ out' = [out EXCEPT ![c] = Append(@, TakenValue(chan[c]))]
          /\ UNCHANGED << value, sent, outcome >>
      BY <1>1, <2>3 DEF SelectLoop, c
    <3> QED
      BY <2>1, <2>3, <3>1, TakeHolds
  <2> QED
    BY <2>2, <2>3
<1>2. CASE ~ \E i \in DOMAIN q : ReadyLocked(chan[q[i]])
  <2>1. /\ chan' = [d \in Chans |->
            [DropReceiverLocked(chan[d], r) EXCEPT
               !.receivers = @ \o [i \in 1 .. Cardinality({i \in DOMAIN q : q[i] = d}) |-> r]]]
        /\ at' = [at EXCEPT ![r] = "select"] /\ on' = [on EXCEPT ![r] = q]
        /\ UNCHANGED << value, taken, historyVars >>
    BY <1>2 DEF SelectLoop, historyVars
  <2> QED
    BY <2>1, ParkInSelectHolds
<1> QED
  BY <1>1, <1>2

LEMMA SelectHolds ==
  ASSUME IInv, NEW r \in Routines, NEW q \in Selects, Select(r, q)
  PROVE  IInv' /\ StaysDrained
<1>1. /\ r \in Routines \ Sending /\ q \in Seq(Chans) /\ UNCHANGED << sent, outcome >>
      /\ chan \in [Chans -> Channel]
  BY ChannelsAssumption DEF Select, InUserCode, Sending, IInv, TypeInv, ChannelTypes
<1>2. CASE StopReason(r) # "no"
  <2>1. Leave(r, StopReason(r)) /\ UNCHANGED << chan, historyVars >>
    BY <1>2 DEF Select, historyVars
  <2>2. IInv'
    BY <1>1, <2>1, LeaveIsQuiet
  <2> QED
    BY <2>1, <2>2 DEF StaysDrained
<1>3. CASE StopReason(r) = "no"
  <2>1. SelectLoop(r, q)
    BY <1>3 DEF Select
  <2> QED
    BY <1>1, <2>1, SelectLoopHolds
<1> QED
  BY <1>2, <1>3

LEMMA ResumeSelectHolds ==
  ASSUME IInv, NEW r \in Routines, ResumeSelect(r)
  PROVE  IInv' /\ StaysDrained
<1>1. /\ r \in Routines \ Sending /\ on[r] \in Seq(Chans) /\ UNCHANGED << sent, outcome >>
      /\ chan \in [Chans -> Channel]
  BY DEF ResumeSelect, Sending, IInv, TypeInv, ChannelTypes
<1>2. CASE StopReason(r) # "no"
  <2>1. /\ Leave(r, StopReason(r)) /\ UNCHANGED historyVars
        /\ chan' = [d \in Chans |-> DropReceiverLocked(chan[d], r)]
    BY <1>2 DEF ResumeSelect, historyVars
  <2>2. /\ chan' \in [Chans -> Channel]
        /\ \A d \in Chans : /\ chan'[d].senders = chan[d].senders
                            /\ chan'[d].buf = chan[d].buf
                            /\ chan'[d].closed = chan[d].closed
    BY <1>1, <2>1, ReceiversDropped, ZenonT(60)
  <2>3. IInv'
    BY <1>1, <2>1, <2>2, LeaveIsQuiet
  <2> QED
    BY <2>2, <2>3 DEF StaysDrained, Drained
<1>3. CASE StopReason(r) = "no"
  <2>1. SelectLoop(r, on[r])
    BY <1>3 DEF ResumeSelect
  <2> QED
    BY <1>1, <2>1, SelectLoopHolds
<1> QED
  BY <1>2, <1>3

\* A send of v into c is answered with o: the call is over, the channel is d.
Answered(r, c, v, d, o) ==
  /\ \E reason : Leave(r, reason)
  /\ outcome' = [outcome EXCEPT ![c][v] = o]
  /\ chan' = [chan EXCEPT ![c] = d]
  /\ Members(d.senders) \subseteq {w \in Members(chan[c].senders) : w.routine # r}
  /\ Distinct(chan[c]) => Distinct(d)
  /\ (Members(out[c]) \cup Members(d.buf)) \cap Values
       = IF o = "sent" THEN Inside(c) \cup {v} ELSE Inside(c)
  /\ o = "panic" => v \notin Inside(c)
  /\ chan[c].closed /\ Drained(chan[c]) => d.closed /\ Drained(d)
  /\ UNCHANGED out

\* v is the number of the send r is about to end or to wait in, and of no other.
OwnNumber(r, c, v) ==
  /\ outcome[c][v] = "none"
  /\ \A x \in Sending \ {r} : ~(Target(x) = c /\ value[x] = v)
  /\ \A x \in Chans : \A w \in Members(chan[x].senders) : w.routine = r => x = c /\ w.value = v
  /\ sent' \in [Chans -> 0 .. MaxValues]
  /\ \A x \in Chans : sent[x] <= sent'[x]
  /\ v <= sent'[c]

LEMMA AnswerHolds ==
  ASSUME IInv, NEW r \in Routines, NEW c \in Chans, NEW v \in Values, NEW d \in Channel,
         NEW o \in {"sent", "stopped", "panic"},
         OwnNumber(r, c, v), Answered(r, c, v, d, o)
  PROVE  IInv' /\ StaysDrained
<1>1. /\ at' = [at EXCEPT ![r] = "user"] /\ on' = [on EXCEPT ![r] = << >>]
      /\ value' = [value EXCEPT ![r] = 0] /\ taken' = taken \ {r}
  BY DEF Answered, Leave, Return, Nowhere
<1>2. /\ chan \in [Chans -> Channel] /\ at \in [Routines -> Places]
      /\ on \in [Routines -> Seq(Chans)] /\ value \in [Routines -> Numbers]
      /\ taken \subseteq Routines
      /\ outcome \in [Chans -> [Values -> {"none", "sent", "stopped", "panic"}]]
      /\ 0 \in Numbers /\ << >> \in Seq(Chans) /\ "user" \in Places
  BY DEF IInv, TypeInv, ChannelTypes, Numbers, Places
<1>3. chan' \in [Chans -> Channel] /\ \A x \in Chans : chan'[x] = IF x = c THEN d ELSE chan[x]
  BY <1>2 DEF Answered
<1>4. /\ at' \in [Routines -> Places] /\ on' \in [Routines -> Seq(Chans)]
      /\ value' \in [Routines -> Numbers] /\ taken' \subseteq Routines
      /\ at'[r] = "user" /\ r \notin taken'
      /\ \A x \in Routines \ {r} :
           at'[x] = at[x] /\ on'[x] = on[x] /\ value'[x] = value[x]
           /\ (x \in taken' <=> x \in taken)
  BY <1>1, <1>2
<1>5. outcome' \in [Chans -> [Values -> {"none", "sent", "stopped", "panic"}]]
  BY <1>2 DEF Answered
<1>6. TypeInv'
  <2>1. ChannelTypes'
    BY <1>3, <1>4, <1>5 DEF IInv, TypeInv, ChannelTypes, Answered, OwnNumber
  <2>2. ASSUME NEW x \in Routines, at'[x] = "send"
        PROVE  Len(on'[x]) = 1 /\ value'[x] \in Values
    <3>1. x # r
      BY <1>4, <2>2
    <3>2. at[x] = "send" /\ on'[x] = on[x] /\ value'[x] = value[x]
      BY <1>4, <2>2, <3>1
    <3> QED
      BY <3>2 DEF IInv, TypeInv, SendsAreCalls
  <2> QED
    BY <2>1, <2>2 DEF TypeInv, SendsAreCalls
<1>7. StaysDrained
  BY <1>3 DEF StaysDrained, Answered
<1>8. \A x \in Routines \ {r} : SameCall(x)
  BY <1>4 DEF SameCall
<1>9. ASSUME NEW x \in Chans
       PROVE  SendersKept(x) /\ \A w \in Members(chan'[x].senders) : w.routine # r
  BY <1>3 DEF SendersKept, Distinct, Answered, OwnNumber
<1>10. ASSUME NEW x \in Chans
       PROVE  Inside(x)' = IF x = c /\ o = "sent" THEN Inside(x) \cup {v} ELSE Inside(x)
  <2>1. CASE x = c
    BY <1>3, <2>1 DEF Inside, Answered
  <2>2. CASE x # c
    BY <1>3, <2>2 DEF Inside, Answered
  <2> QED
    BY <2>1, <2>2
<1>11. r \notin Sending'
  BY <1>4 DEF Sending
<1>12. TypeInv /\ CallInv /\ r \notin taken'
  BY <1>4 DEF IInv
<1>13. CallInv'
  BY <1>6, <1>8, <1>9, <1>10, <1>11, <1>12, SendEnds DEF Answered, OwnNumber
<1> QED
  BY <1>6, <1>7, <1>13 DEF IInv

\* The send of v into c waits, its routine the last of the senders.
LEMMA QueueHolds ==
  ASSUME IInv, NEW r \in Routines, NEW c \in Chans, NEW v \in Values, NEW e \in Channel,
         chan' = [chan EXCEPT ![c] = AddSender(e, r, v)],
         e.buf = chan[c].buf,
         Members(e.senders) \subseteq {w \in Members(chan[c].senders) : w.routine # r},
         Distinct(chan[c]) => Distinct(e),
         OwnNumber(r, c, v),
         at' = [at EXCEPT ![r] = "send"],
         on' = [on EXCEPT ![r] = << c >>],
         value' = [value EXCEPT ![r] = v],
         UNCHANGED << taken, out, outcome >>,
         ~chan[c].closed, r \notin taken, v \notin Inside(c)
  PROVE  IInv' /\ StaysDrained
<1> DEFINE d == AddSender(e, r, v)
<1>1. /\ chan \in [Chans -> Channel] /\ at \in [Routines -> Places]
      /\ on \in [Routines -> Seq(Chans)] /\ value \in [Routines -> Numbers]
      /\ << c >> \in Seq(Chans) /\ Len(<< c >>) = 1 /\ "send" \in Places /\ v \in Numbers
  BY DEF IInv, TypeInv, ChannelTypes, Numbers, Places
<1>2. Distinct(chan[c])
  BY DEF IInv, CallInv, QueuedWait
<1>3. /\ d \in Channel /\ d.buf = e.buf /\ d.closed = e.closed
      /\ Members(d.senders) = Members(e.senders) \cup {[routine |-> r, value |-> v]}
      /\ Distinct(d)
  <2>1. \A w \in Members(e.senders) : w.routine # r
    OBVIOUS
  <2> QED
    BY <1>2, <2>1, AddSenderAdds
<1>4. chan' = [chan EXCEPT ![c] = d]
  OBVIOUS
<1> HIDE DEF d
<1>5. chan' \in [Chans -> Channel] /\ \A x \in Chans : chan'[x] = IF x = c THEN d ELSE chan[x]
  BY <1>1, <1>3, <1>4
<1>6. /\ at' \in [Routines -> Places] /\ on' \in [Routines -> Seq(Chans)]
      /\ value' \in [Routines -> Numbers]
      /\ at'[r] = "send" /\ on'[r] = << c >> /\ value'[r] = v
      /\ \A x \in Routines \ {r} :
           at'[x] = at[x] /\ on'[x] = on[x] /\ value'[x] = value[x]
  BY <1>1
<1>7. TypeInv'
  <2>1. ChannelTypes'
    BY <1>5, <1>6 DEF IInv, TypeInv, ChannelTypes, OwnNumber
  <2>2. SendsAreCalls'
    BY <1>1, <1>6 DEF IInv, TypeInv, SendsAreCalls
  <2> QED
    BY <2>1, <2>2 DEF TypeInv
<1>8. StaysDrained
  BY <1>5 DEF StaysDrained
<1>9. \A x \in Routines \ {r} : SameCall(x)
  BY <1>6 DEF SameCall
<1>10. \A x \in Chans : Inside(x)' = Inside(x)
  BY <1>3, <1>5 DEF Inside
<1>11. \A x \in Chans \ {c} : SendersKept(x)
  BY <1>5 DEF SendersKept, Distinct
<1>12. r \in Sending'
  BY <1>6 DEF Sending
<1>13. /\ Distinct(chan'[c])
       /\ Members(chan'[c].senders) \subseteq
            Members(chan[c].senders) \cup {[routine |-> r, value |-> v]}
  BY <1>3, <1>5 DEF Distinct
<1>14. CallInv'
  BY <1>6, <1>7, <1>9, <1>10, <1>11, <1>12, <1>13, SendQueues DEF IInv, OwnNumber
<1> QED
  BY <1>7, <1>8, <1>14 DEF IInv

LEMMA SendHolds ==
  ASSUME IInv, NEW r \in Routines, NEW c \in Chans, Send(r, c)
  PROVE  IInv' /\ StaysDrained
<1> DEFINE v == sent[c] + 1
           p == StopReason(r) = "no"
<1>1. /\ chan \in [Chans -> Channel] /\ chan[c] \in Channel
      /\ sent \in [Chans -> 0 .. MaxValues]
      /\ MaxValues \in Nat /\ sent[c] \in Nat /\ out \in [Chans -> Seq(Numbers)]
  BY ChannelsAssumption DEF IInv, TypeInv, ChannelTypes
<1>2. /\ v \in Values /\ v > sent[c] /\ sent' = [sent EXCEPT ![c] = v]
      /\ r \notin Sending /\ r \notin taken /\ UNCHANGED out
  BY <1>1 DEF Send, InUserCode, Sending, IInv, CallInv
<1>3. outcome[c][v] = "none" /\ v \notin Inside(c)
  BY <1>2 DEF IInv, CallInv, NumbersAreNew
<1>4. \A x \in Sending : ~(Target(x) = c /\ value[x] = v)
  <2> SUFFICES ASSUME NEW x \in Sending, Target(x) = c, value[x] = v PROVE FALSE
    OBVIOUS
  <2>1. v <= sent[c]
    BY DEF IInv, CallInv, SendsAreTold
  <2> QED
    BY <1>1, <2>1
<1>5. \A x \in Chans : \A w \in Members(chan[x].senders) : w.routine # r
  BY <1>2 DEF IInv, CallInv, QueuedWait
<1>6. /\ sent' \in [Chans -> 0 .. MaxValues] /\ v <= sent'[c]
      /\ \A x \in Chans : sent[x] <= sent'[x]
  BY <1>1, <1>2 DEF Values
<1>7. OwnNumber(r, c, v)
  BY <1>3, <1>4, <1>5, <1>6 DEF OwnNumber
<1>8. CASE ~p \/ chan[c].closed
  <2>1. PICK o \in {"stopped", "panic"} :
          /\ \E reason : Leave(r, reason)
          /\ outcome' = [outcome EXCEPT ![c][v] = o]
          /\ chan' = chan
    BY <1>8 DEF Send, Answer
  <2>2. chan' = [chan EXCEPT ![c] = chan[c]]
    BY <1>1, <2>1
  <2> HIDE DEF v, p
  <2>3. Answered(r, c, v, chan[c], o)
    BY <1>2, <1>3, <1>5, <2>1, <2>2 DEF Answered, Inside
  <2> QED
    BY <1>1, <1>2, <1>7, <2>3, AnswerHolds
<1>9. CASE p /\ ~chan[c].closed /\ HasRoom(chan[c])
  <2> DEFINE d == Put(chan[c], v)
  <2>1. /\ chan' = [chan EXCEPT ![c] = d] /\ Leave(r, "no")
        /\ outcome' = [outcome EXCEPT ![c][v] = "sent"]
    BY <1>9 DEF Send, Answer
  <2> HIDE DEF v, p
  <2>2. /\ d \in Channel /\ d.senders = chan[c].senders
        /\ Members(d.buf) = Members(chan[c].buf) \cup {v}
    BY <1>1, <1>2, PutAdds DEF Numbers
  <2> HIDE DEF d
  <2>3. Answered(r, c, v, d, "sent")
    BY <1>2, <1>5, <1>9, <2>1, <2>2 DEF Answered, Inside, Distinct
  <2> QED
    BY <1>2, <1>7, <2>2, <2>3, AnswerHolds
<1>10. CASE p /\ ~chan[c].closed /\ ~HasRoom(chan[c])
  <2>1. /\ chan' = [chan EXCEPT ![c] = AddSender(chan[c], r, v)]
        /\ at' = [at EXCEPT ![r] = "send"] /\ on' = [on EXCEPT ![r] = << c >>]
        /\ value' = [value EXCEPT ![r] = v] /\ UNCHANGED << taken, out, outcome >>
    BY <1>10 DEF Send
  <2> HIDE DEF v, p
  <2> QED
    BY <1>1, <1>2, <1>3, <1>5, <1>7, <1>10, <2>1, QueueHolds
<1> QED
  BY <1>8, <1>9, <1>10

LEMMA ResumeSendHolds ==
  ASSUME IInv, NEW r \in Routines, ResumeSend(r)
  PROVE  IInv' /\ StaysDrained
<1> DEFINE c == Target(r)
           v == value[r]
           p == StopReason(r) = "no"
           dropped == DropSenderLocked(chan[c], r)
<1>1. r \in Sending /\ UNCHANGED << sent, out >>
  BY DEF ResumeSend, Sending
<1>2. c \in Chans /\ v \in Values /\ on[r] = << c >>
  BY <1>1, TargetIsChannel DEF IInv
<1>3. /\ chan \in [Chans -> Channel] /\ chan[c] \in Channel
      /\ sent \in [Chans -> 0 .. MaxValues]
      /\ MaxValues \in Nat /\ out \in [Chans -> Seq(Numbers)]
      /\ at \in [Routines -> Places] /\ on \in [Routines -> Seq(Chans)]
      /\ value \in [Routines -> Numbers]
  BY <1>2, ChannelsAssumption DEF IInv, TypeInv, ChannelTypes
<1>4. outcome[c][v] = "none" /\ (r \in taken <=> v \in Inside(c)) /\ v <= sent[c]
  BY <1>1 DEF IInv, CallInv, SendsAreTold
<1>5. \A x \in Sending \ {r} : ~(Target(x) = c /\ value[x] = v)
  BY <1>1 DEF IInv, CallInv, SendsDiffer
<1>6. \A x \in Chans : \A w \in Members(chan[x].senders) :
        /\ w.routine = r => x = c /\ w.value = v
        /\ w.routine \notin taken
  BY DEF IInv, CallInv, QueuedWait
<1>7. OwnNumber(r, c, v)
  <2>1. /\ sent' \in [Chans -> 0 .. MaxValues] /\ v <= sent'[c]
        /\ \A x \in Chans : sent[x] <= sent'[x]
    BY <1>1, <1>3, <1>4
  <2> HIDE DEF c, v
  <2> QED
    BY <1>4, <1>5, <1>6, <2>1 DEF OwnNumber
<1>8. /\ dropped \in Channel
      /\ dropped.buf = chan[c].buf /\ dropped.closed = chan[c].closed
      /\ chan[c].senders = << >> => dropped.senders = << >>
      /\ Members(dropped.senders) \subseteq {w \in Members(chan[c].senders) : w.routine # r}
      /\ Distinct(chan[c]) => Distinct(dropped)
  <2> DEFINE ch == chan[c]
             d == DropSenderLocked(ch, r)
  <2>1. ch \in Channel
    BY <1>3
  <2> HIDE DEF ch
  <2>2. /\ d \in Channel
        /\ d.buf = ch.buf /\ d.closed = ch.closed
        /\ ch.senders = << >> => d.senders = << >>
        /\ Members(d.senders) \subseteq {w \in Members(ch.senders) : w.routine # r}
        /\ Distinct(ch) => Distinct(d)
    BY <2>1, DropSender
  <2> QED
    BY <2>2 DEF ch
<1>9. CASE r \in taken
  <2>1. PICK o \in {"sent", "stopped"} :
          /\ \E reason : Leave(r, reason)
          /\ outcome' = [outcome EXCEPT ![c][v] = o]
          /\ chan' = chan
    BY <1>9 DEF ResumeSend, Target, Answer
  <2>2. chan' = [chan EXCEPT ![c] = chan[c]]
    BY <1>2, <1>3, <2>1
  <2> HIDE DEF c, v, p, dropped
  <2>3. \A w \in Members(chan[c].senders) : w.routine # r
    BY <1>2, <1>6, <1>9
  <2>4. Answered(r, c, v, chan[c], o)
    BY <1>1, <1>2, <1>4, <1>9, <2>1, <2>2, <2>3 DEF Answered, Inside
  <2> QED
    BY <1>2, <1>3, <1>7, <2>4, AnswerHolds
<1>10. CASE r \notin taken /\ (~p \/ dropped.closed)
  <2>1. PICK o \in {"stopped", "panic"} :
          /\ \E reason : Leave(r, reason)
          /\ outcome' = [outcome EXCEPT ![c][v] = o]
          /\ chan' = [chan EXCEPT ![c] = dropped]
    BY <1>10 DEF ResumeSend, Target, Answer
  <2> HIDE DEF c, v, p, dropped
  <2>2. Answered(r, c, v, dropped, o)
    BY <1>1, <1>2, <1>4, <1>8, <1>10, <2>1 DEF Answered, Inside, Drained
  <2> QED
    BY <1>2, <1>7, <1>8, <2>2, AnswerHolds
<1>11. CASE r \notin taken /\ p /\ ~dropped.closed /\ HasRoom(dropped)
  <2> DEFINE d == Put(dropped, v)
  <2>1. /\ chan' = [chan EXCEPT ![c] = d] /\ Leave(r, "no")
        /\ outcome' = [outcome EXCEPT ![c][v] = "sent"]
    BY <1>11 DEF ResumeSend, Target, Answer
  <2> HIDE DEF c, v, p, dropped
  <2>2. /\ d \in Channel /\ d.senders = dropped.senders
        /\ Members(d.buf) = Members(dropped.buf) \cup {v}
    BY <1>2, <1>8, PutAdds DEF Numbers
  <2> HIDE DEF d
  <2>3. Answered(r, c, v, d, "sent")
    BY <1>1, <1>2, <1>8, <1>11, <2>1, <2>2 DEF Answered, Inside, Distinct
  <2> QED
    BY <1>2, <1>7, <2>2, <2>3, AnswerHolds
<1>12. CASE r \notin taken /\ p /\ ~dropped.closed /\ ~HasRoom(dropped)
  <2>1. /\ chan' = [chan EXCEPT ![c] = AddSender(dropped, r, v)]
        /\ UNCHANGED << at, on, value, taken, outcome >>
    BY <1>12 DEF ResumeSend, Target, callVars
  <2>2. at[r] = "send"
    BY <1>1 DEF Sending
  <2>3. /\ at' = [at EXCEPT ![r] = "send"] /\ on' = [on EXCEPT ![r] = << c >>]
        /\ value' = [value EXCEPT ![r] = v]
    BY <1>2, <1>3, <2>1, <2>2
  <2> HIDE DEF c, v, dropped, p
  <2> QED
    BY <1>1, <1>2, <1>4, <1>7, <1>8, <1>12, <2>1, <2>3, QueueHolds
<1> QED
  BY <1>9, <1>10, <1>11, <1>12

-----------------------------------------------------------------------------
(* The theorems.                                                           *)

LEMMA InitHolds == Init => IInv
<1> SUFFICES ASSUME Init PROVE IInv
  OBVIOUS
<1>1. PICK capacity \in [Chans \ Timers -> Capacities] :
        chan = [c \in Chans |-> NewChannel(IF c \in Timers THEN 1 ELSE capacity[c])]
  BY DEF Init
<1>2. ASSUME NEW n \in Nat
      PROVE  /\ NewChannel(n) \in Channel
             /\ NewChannel(n).buf = << >> /\ NewChannel(n).senders = << >>
  BY DEF NewChannel, Channel
<1>3. \A c \in Chans : (IF c \in Timers THEN 1 ELSE capacity[c]) \in Nat
  BY <1>1, ChannelsAssumption
<1>4. /\ chan \in [Chans -> Channel]
      /\ \A c \in Chans : chan[c].buf = << >> /\ chan[c].senders = << >>
  BY <1>1, <1>2, <1>3
<1>5. Members(<< >>) = {}
  BY DEF Members
<1>6. /\ at = [r \in Routines |-> IF r = Root THEN "user" ELSE "start"]
      /\ on = [r \in Routines |-> << >>] /\ value = [r \in Routines |-> 0] /\ taken = {}
      /\ sent = [c \in Chans |-> 0] /\ out = [c \in Chans |-> << >>]
      /\ outcome = [c \in Chans |-> [v \in Values |-> "none"]]
  BY DEF Init, CrewInit, Nowhere
<1>7. Sending = {}
  BY <1>6 DEF Sending
<1>8. TypeInv
  <2>1. 0 \in 0 .. MaxValues /\ 0 \in Numbers /\ "user" \in Places /\ "start" \in Places
    BY ChannelsAssumption DEF Numbers, Places
  <2>2. ChannelTypes
    BY <1>4, <1>6, <2>1 DEF ChannelTypes
  <2>3. SendsAreCalls
    BY <1>6 DEF SendsAreCalls
  <2> QED
    BY <2>2, <2>3 DEF TypeInv
<1>9. \A c \in Chans : Inside(c) = {}
  BY <1>4, <1>5, <1>6 DEF Inside
<1>10. QueuedWait
  BY <1>4, <1>5 DEF QueuedWait, Distinct
<1>11. SendsAreTold /\ SendsDiffer /\ taken \subseteq Sending
  BY <1>6, <1>7 DEF SendsAreTold, SendsDiffer
<1>12. NumbersAreNew /\ AnswersAreTrue
  BY <1>6, <1>9 DEF NumbersAreNew, AnswersAreTrue
<1> QED
  BY <1>8, <1>10, <1>11, <1>12 DEF IInv, CallInv

LEMMA NextHolds == IInv /\ [Next]_vars => IInv' /\ StaysDrained
<1> SUFFICES ASSUME IInv, [Next]_vars PROVE IInv' /\ StaysDrained
  OBVIOUS
<1>1. ASSUME NEW r \in Routines, RoutineStep(r) PROVE IInv' /\ StaysDrained
  <2>1. CASE \E c \in Chans : Send(r, c) \/ Close(r, c)
    BY <2>1, SendHolds, CloseHolds
  <2>2. CASE \E q \in Selects : Select(r, q)
    BY <2>2, SelectHolds
  <2>3. CASE \E t \in Timers : After(r, t)
    BY <2>3, AfterHolds
  <2>4. CASE ResumeSend(r)
    BY <2>4, ResumeSendHolds
  <2>5. CASE ResumeSelect(r)
    BY <2>5, ResumeSelectHolds
  <2>6. CASE CrewStep(r) /\ UNCHANGED channelVars
    BY <2>6, CrewStepHolds
  <2> QED
    BY <1>1, <2>1, <2>2, <2>3, <2>4, <2>5, <2>6 DEF RoutineStep
<1>2. ASSUME UNCHANGED vars PROVE IInv' /\ StaysDrained
  <2>1. UNCHANGED << at, channelVars >>
    BY <1>2 DEF vars, crewVars, flowVars
  <2>2. TypeInv'
    BY <2>1 DEF IInv, TypeInv, ChannelTypes, SendsAreCalls, channelVars, callVars, historyVars
  <2>3. IInv'
    BY <2>1, <2>2, QuietStep DEF channelVars, callVars, historyVars
  <2> QED
    BY <2>1, <2>3 DEF StaysDrained, channelVars
<1> QED
  BY <1>1, <1>2, TimerStepHolds DEF Next, Terminated

LEMMA Inductive == Spec => []IInv
<1>1. IInv /\ [Next]_vars => IInv'
  BY NextHolds
<1> QED
  BY InitHolds, <1>1, PTL DEF Spec

\* Once a channel is closed and drained nothing enters it again, neither by a
\* send that was waiting nor by a timer.
THEOREM DrainedForeverHolds == Spec => DrainedForever
<1>1. IInv /\ [Next]_vars =>
        [\A c \in Chans : chan[c].closed /\ Drained(chan[c])
           => chan'[c].closed /\ Drained(chan'[c])]_vars
  BY NextHolds DEF StaysDrained
<1> QED
  BY <1>1, Inductive, PTL DEF Spec, DrainedForever

\* What Send answers is true in every later state, whoever is cancelled, closes
\* the channel or takes the value in between.
THEOREM OutcomesHold == Spec => []OutcomesAreTrue
<1>1. IInv => OutcomesAreTrue
  <2> SUFFICES ASSUME IInv, NEW c \in Chans, NEW v \in Values
               PROVE  /\ outcome[c][v] = "sent" => v \in Members(out[c]) \cup Members(chan[c].buf)
                      /\ outcome[c][v] = "panic" => v \notin Members(out[c]) \cup Members(Queue(c))
    BY DEF OutcomesAreTrue
  <2>1. /\ outcome[c][v] = "sent" => v \in Inside(c)
        /\ outcome[c][v] = "panic" => v \notin Inside(c)
    BY DEF IInv, CallInv, AnswersAreTrue
  <2>2. ASSUME NEW w \in Members(chan[c].senders) PROVE outcome[c][w.value] = "none"
    BY DEF IInv, CallInv, QueuedWait, SendsAreTold
  <2>3. ASSUME v \in Members(Queue(c))
        PROVE  v \in Members(chan[c].buf) \/ \E w \in Members(chan[c].senders) : w.value = v
    <3> DEFINE buf == chan[c].buf
               senders == chan[c].senders
               values == SenderValues(chan[c])
    <3>1. buf \in Seq(Numbers) /\ senders \in Seq(SendWaiter)
      BY DEF IInv, TypeInv, ChannelTypes, Channel
    <3>2. values = [i \in DOMAIN senders |-> senders[i].value]
      BY DEF SenderValues
    <3>3. Queue(c) = buf \o values
      BY DEF Queue
    <3> HIDE DEF buf, senders, values
    <3>4. /\ DOMAIN senders = 1 .. Len(senders) /\ Len(senders) \in Nat
          /\ \A i \in 1 .. Len(senders) : senders[i] \in SendWaiter
      BY <3>1, LenProperties, ElementOfSeq
    <3>5. values \in Seq(Values) /\ DOMAIN values = DOMAIN senders
      BY <3>2, <3>4 DEF SendWaiter
    <3>6. values \in Seq(Numbers)
      BY <3>5, SeqMonotonic DEF Numbers
    <3>7. PICK i \in DOMAIN (buf \o values) : (buf \o values)[i] = v
      BY <2>3, <3>3 DEF Members
    <3>8. i \in 1 .. Len(buf) + Len(values) /\ Len(buf) \in Nat /\ Len(values) \in Nat
      BY <3>1, <3>6, <3>7, ConcatProperties, LenProperties
    <3>9. CASE i <= Len(buf)
      <4>1. i \in DOMAIN buf /\ buf[i] = v
        BY <3>1, <3>6, <3>7, <3>8, <3>9, ConcatProperties, LenProperties
      <4> QED
        BY <4>1 DEF Members, buf
    <3>10. CASE i > Len(buf)
      <4>1. i - Len(buf) \in DOMAIN values /\ values[i - Len(buf)] = v
        BY <3>1, <3>6, <3>7, <3>8, <3>10, ConcatProperties, LenProperties
      <4>2. senders[i - Len(buf)] \in Members(senders) /\ senders[i - Len(buf)].value = v
        BY <3>2, <3>5, <4>1 DEF Members
      <4> QED
        BY <4>2 DEF senders
    <3> QED
      BY <3>8, <3>9, <3>10
  <2> QED
    BY <2>1, <2>2, <2>3 DEF Inside
<1> QED
  BY <1>1, Inductive, PTL

-----------------------------------------------------------------------------
(* The invariant                                                            *)

\* The routines with an entry in the list of senders.
QueuedIn(ch) == {w.routine : w \in Members(ch.senders)}

\* Who selects is in the list of each of its channels, and parked only while
\* there is nothing to take.
SelectWaits(r) ==
  at[r] = "select" =>
    /\ \A c \in Members(on[r]) : r \in Members(chan[c].receivers)
    /\ s.state[r] = "parked" => \A c \in Members(on[r]) : ~ReadyLocked(chan[c])

\* Who sends is queued until its value is taken; it is parked only while it has
\* a reason to wait, and runs only for a reason to stop waiting.
SendWaits(r) ==
  at[r] = "send" =>
    /\ r \notin taken => r \in QueuedIn(chan[Target(r)])
    /\ s.state[r] = "parked" => r \notin taken /\ ~chan[Target(r)].closed
    /\ s.state[r] # "parked" =>
         \/ r \in taken \/ r \in cancelled \/ s.fatal # "none"
         \/ chan[Target(r)].closed

\* The list of receivers is of routines in a select, senders wait only while
\* there is no room, and no more than the capacity is ever buffered.
OnlyWaiters(c) == \A r \in Members(chan[c].receivers) : at[r] = "select"
SendersWaitForRoom(c) == chan[c].senders # << >> => ~HasRoom(chan[c])
Fits(c) == c \notin Timers => Len(chan[c].buf) <= chan[c].capacity

ChannelWaits(c) == OnlyWaiters(c) /\ SendersWaitForRoom(c) /\ Fits(c)

WInv ==
  /\ Lock(s)
  /\ \A r \in Routines : SelectWaits(r) /\ SendWaits(r)
  /\ \A c \in Chans : ChannelWaits(c)

\* What a step owes the routines that do not take it: they are left where they
\* are and woken for a reason alone, and whenever one of their waits is over.
LeavesAlone(N) ==
  /\ cancelled \subseteq cancelled'
  /\ s.fatal # "none" => s'.fatal # "none"
  /\ \A x \in Routines \ N :
       /\ at'[x] = at[x]
       /\ at[x] \in {"send", "select"} => on'[x] = on[x]
       /\ x \in taken => x \in taken'
       /\ x \in taken' /\ x \notin taken => s'.state[x] # "parked"
       /\ s'.state[x] = "parked" => s.state[x] = "parked"
       /\ at[x] = "send" /\ s.state[x] = "parked" /\ s'.state[x] # "parked" =>
            x \in taken' \/ x \in cancelled' \/ s'.fatal # "none" \/ chan'[Target(x)].closed

Attends(N, c) ==
  /\ chan[c].closed => chan'[c].closed
  /\ Members(chan[c].receivers) \ N \subseteq Members(chan'[c].receivers)
  /\ ReadyLocked(chan'[c]) /\ ~ReadyLocked(chan[c]) =>
       \A x \in Members(chan[c].receivers) \ N : s'.state[x] # "parked"
  /\ QueuedIn(chan[c]) \ N \subseteq QueuedIn(chan'[c]) \cup taken'
  /\ chan'[c].closed /\ ~chan[c].closed =>
       \A x \in QueuedIn(chan[c]) \ N : s'.state[x] # "parked"

Heeds(N) == LeavesAlone(N) /\ \A c \in Chans : Attends(N, c)

LEMMA OthersWait ==
  ASSUME IInv, WInv, NEW N, Heeds(N), NEW x \in Routines \ N
  PROVE  SelectWaits(x)' /\ SendWaits(x)'
<1>1. SelectWaits(x) /\ SendWaits(x)
  BY DEF WInv
<1>2. /\ at'[x] = at[x]
      /\ at[x] \in {"send", "select"} => on'[x] = on[x]
      /\ x \in taken => x \in taken'
      /\ x \in taken' /\ x \notin taken => s'.state[x] # "parked"
      /\ s'.state[x] = "parked" => s.state[x] = "parked"
      /\ at[x] = "send" /\ s.state[x] = "parked" /\ s'.state[x] # "parked" =>
            x \in taken' \/ x \in cancelled' \/ s'.fatal # "none" \/ chan'[Target(x)].closed
      /\ cancelled \subseteq cancelled'
      /\ s.fatal # "none" => s'.fatal # "none"
  BY DEF Heeds, LeavesAlone
<1>3. ASSUME at'[x] = "select" PROVE SelectWaits(x)'
  <2>1. at[x] = "select" /\ on'[x] = on[x]
    BY <1>2, <1>3
  <2>2. \A c \in Members(on[x]) : c \in Chans
    BY ElementOfSeq, LenProperties DEF Members, IInv, TypeInv, ChannelTypes
  <2>3. ASSUME NEW c \in Members(on[x])
        PROVE  /\ x \in Members(chan'[c].receivers)
               /\ s'.state[x] = "parked" => ~ReadyLocked(chan'[c])
    <3>1. Attends(N, c)
      BY <2>2 DEF Heeds
    <3>2. x \in Members(chan[c].receivers)
      BY <1>1, <2>1 DEF SelectWaits
    <3>3. s.state[x] = "parked" => ~ReadyLocked(chan[c])
      BY <1>1, <2>1 DEF SelectWaits
    <3> QED
      BY <1>2, <3>1, <3>2, <3>3 DEF Attends
  <2> QED
    BY <2>1, <2>3 DEF SelectWaits
<1>4. ASSUME at'[x] = "send" PROVE SendWaits(x)'
  <2> DEFINE c == Target(x)
  <2>1. at[x] = "send" /\ on'[x] = on[x] /\ x \in Sending
    BY <1>2, <1>4 DEF Sending
  <2>2. c \in Chans /\ Target(x)' = c
    BY <2>1, TargetIsChannel DEF IInv, Target
  <2>3. Attends(N, c)
    BY <2>2 DEF Heeds
  <2>4. /\ x \notin taken => x \in QueuedIn(chan[c])
        /\ s.state[x] = "parked" => x \notin taken /\ ~chan[c].closed
        /\ s.state[x] # "parked" =>
             x \in taken \/ x \in cancelled \/ s.fatal # "none" \/ chan[c].closed
    BY <1>1, <2>1 DEF SendWaits
  <2> HIDE DEF c
  <2>5. x \notin taken' => x \in QueuedIn(chan'[c])
    BY <1>2, <2>3, <2>4 DEF Attends
  <2>6. s'.state[x] = "parked" => x \notin taken' /\ ~chan'[c].closed
    BY <1>2, <2>3, <2>4 DEF Attends
  <2>7. s'.state[x] # "parked" =>
          x \in taken' \/ x \in cancelled' \/ s'.fatal # "none" \/ chan'[c].closed
    BY <1>2, <2>1, <2>3, <2>4 DEF Attends, c
  <2> QED
    BY <2>2, <2>5, <2>6, <2>7 DEF SendWaits
<1> QED
  BY <1>3, <1>4 DEF SelectWaits, SendWaits

LEMMA StepWaits ==
  ASSUME IInv, WInv, NEW N, Heeds(N), Lock(s'),
         \A x \in N : SelectWaits(x)' /\ SendWaits(x)',
         \A c \in Chans : ChannelWaits(c)'
  PROVE  WInv'
BY OthersWait DEF WInv

\* A routine that is in neither waits for nothing.
LEMMA NoWait ==
  ASSUME NEW r, at'[r] \notin {"send", "select"}
  PROVE  SelectWaits(r)' /\ SendWaits(r)'
BY DEF SelectWaits, SendWaits

-----------------------------------------------------------------------------
(* The steps of the crew                                                    *)

LEMMA CrewWaits ==
  ASSUME IInv, WInv, NEW r \in Routines, CrewStep(r), UNCHANGED channelVars
  PROVE  WInv'
<1>1. /\ at \in [Routines -> Places] /\ Lock(s)
      /\ UNCHANGED << chan, on, taken >>
  BY DEF IInv, TypeInv, ChannelTypes, WInv, channelVars, callVars
<1>2. /\ Lock(s')
      /\ cancelled \subseteq cancelled'
      /\ \A x \in Routines \ {r} : at'[x] = at[x]
      /\ at[r] \notin {"send", "select"} /\ at'[r] \notin {"send", "select"}
      /\ \E W : Wakes(s, s', W, {r}) /\ \A x \in W : x \in cancelled' \/ at[x] = "close"
  BY <1>1, CrewLock DEF CrewPlaces
<1>3. PICK W : Wakes(s, s', W, {r}) /\ \A x \in W : x \in cancelled' \/ at[x] = "close"
  BY <1>2
<1>4. LeavesAlone({r})
  BY <1>1, <1>2, <1>3 DEF LeavesAlone, Wakes
<1>5. \A c \in Chans : Attends({r}, c)
  BY <1>1 DEF Attends
<1>6. \A c \in Chans : ChannelWaits(c)'
  <2> TAKE c \in Chans
  <2>1. ChannelWaits(c)
    BY DEF WInv
  <2>2. ASSUME NEW x \in Members(chan[c].receivers) PROVE at'[x] = "select"
    <3>1. at[x] = "select" /\ x \in Routines
      <4>1. chan[c].receivers \in Seq(Routines)
        BY DEF IInv, TypeInv, ChannelTypes, Channel
      <4> QED
        BY <2>1, <4>1, LenProperties, ElementOfSeq DEF ChannelWaits, OnlyWaiters, Members
    <3> QED
      BY <1>2, <3>1
  <2> QED
    BY <1>1, <2>1, <2>2 DEF ChannelWaits, OnlyWaiters, SendersWaitForRoom, Fits
<1>7. SelectWaits(r)' /\ SendWaits(r)'
  BY <1>2, NoWait
<1> QED
  BY <1>2, <1>4, <1>5, <1>6, <1>7, StepWaits DEF Heeds

-----------------------------------------------------------------------------
(* The lists of a channel                                                   *)

LEMMA ReceiversAfterDrop ==
  ASSUME NEW ch \in Channel, NEW r
  PROVE  Members(DropReceiverLocked(ch, r).receivers) = Members(ch.receivers) \ {r}
<1> DEFINE q == ch.receivers
           S == {i \in DOMAIN q : q[i] # r}
<1>1. q \in Seq(Routines) /\ DOMAIN q = 1 .. Len(q)
  BY LenProperties DEF Channel
<1>2. DropReceiverLocked(ch, r).receivers = Entries(q, S)
  BY DEF DropReceiverLocked, Channel
<1> HIDE DEF q
<1>3. Members(Entries(q, S)) = {q[i] : i \in S}
  BY <1>1, EntriesMembers
<1>4. {q[i] : i \in S} = Members(q) \ {r}
  BY DEF Members
<1> QED
  BY <1>2, <1>3, <1>4 DEF q

LEMMA QueuedAfterDrop ==
  ASSUME NEW ch \in Channel, NEW r
  PROVE  QueuedIn(DropSenderLocked(ch, r)) = QueuedIn(ch) \ {r}
<1> DEFINE q == ch.senders
           S == {i \in DOMAIN q : q[i].routine # r}
           d == DropSenderLocked(ch, r)
<1>1. q \in Seq(SendWaiter) /\ DOMAIN q = 1 .. Len(q)
  BY LenProperties DEF Channel
<1>2. d.senders = Entries(q, S)
  BY DEF DropSenderLocked, Channel
<1> HIDE DEF q, d
<1>3. Members(Entries(q, S)) = {q[i] : i \in S}
  BY <1>1, EntriesMembers
<1>4. Members(d.senders) = {w \in Members(q) : w.routine # r}
  BY <1>2, <1>3 DEF Members
<1> QED
  BY <1>4 DEF QueuedIn, q, d

LEMMA SenderRoutinesQueued ==
  ASSUME NEW ch \in Channel
  PROVE  /\ SenderRoutines(ch) \in Seq(Routines)
         /\ Members(SenderRoutines(ch)) = QueuedIn(ch)
         /\ ch.receivers \in Seq(Routines)
         /\ QueuedIn(ch) \subseteq Routines /\ Members(ch.receivers) \subseteq Routines
<1> DEFINE q == ch.senders
<1>1. q \in Seq(SendWaiter) /\ DOMAIN q = 1 .. Len(q) /\ Len(q) \in Nat
  BY LenProperties DEF Channel
<1>2. \A i \in 1 .. Len(q) : q[i].routine \in Routines
  <2>1. \A i \in 1 .. Len(q) : q[i] \in SendWaiter
    BY <1>1, ElementOfSeq
  <2> QED
    BY <2>1 DEF SendWaiter
<1>3. SenderRoutines(ch) = [i \in 1 .. Len(q) |-> q[i].routine]
  BY <1>1 DEF SenderRoutines
<1>4. ch.receivers \in Seq(Routines)
  BY DEF Channel
<1>5. Members(ch.receivers) \subseteq Routines
  BY <1>4, LenProperties, ElementOfSeq DEF Members
<1>6. Members(SenderRoutines(ch)) = QueuedIn(ch)
  BY <1>1, <1>3 DEF Members, QueuedIn
<1>7. SenderRoutines(ch) \in Seq(Routines)
  BY <1>1, <1>2, <1>3
<1>8. QueuedIn(ch) \subseteq Routines
  BY <1>1, <1>2 DEF Members, QueuedIn
<1> QED
  BY <1>4, <1>5, <1>6, <1>7, <1>8

\* Notifying wakes who waits to receive, closing who waits for anything.
LEMMA NotifyLock ==
  ASSUME NEW x, Lock(x), NEW ch \in Channel
  PROVE  Lock(NotifyLocked(x, ch)) /\ Woke(x, NotifyLocked(x, ch), Members(ch.receivers))
<1>1. MidLock(x) /\ ch.receivers \in Seq(Routines)
  BY DEF Lock, MidLock, Sound, Channel
<1>2. Woke(x, WakeWaiters(x, ch.receivers), Members(ch.receivers))
  BY <1>1, WakeWaitersLock
<1> QED
  BY <1>2 DEF NotifyLocked, Woke

LEMMA WakeForCloseLock ==
  ASSUME NEW x, Lock(x), NEW ch \in Channel
  PROVE  LET y == WakeForClose(x, ch)
             W == Members(ch.receivers) \cup QueuedIn(ch)
         IN  Lock(y) /\ Wakes(x, y, W, {}) /\ \A r \in W : y.state[r] # "parked"
<1> DEFINE z == NotifyLocked(x, ch)
           q == SenderRoutines(ch)
           y == WakeForClose(x, ch)
<1>1. Lock(z) /\ Woke(x, z, Members(ch.receivers))
  BY NotifyLock
<1>2. /\ q \in Seq(Routines) /\ Members(q) = QueuedIn(ch)
      /\ QueuedIn(ch) \subseteq Routines /\ Members(ch.receivers) \subseteq Routines
  BY SenderRoutinesQueued
<1>3. y = WakeWaiters(z, q)
  BY DEF WakeForClose
<1> HIDE DEF q, z, y
<1>4. MidLock(z)
  BY <1>1 DEF Lock, MidLock, Sound
<1>5. Woke(z, y, QueuedIn(ch))
  BY <1>2, <1>3, <1>4, WakeWaitersLock
<1>6. Lock(y) /\ Wakes(x, y, Members(ch.receivers) \cup QueuedIn(ch), {})
  BY <1>1, <1>5, WakesTrans DEF Woke
<1>7. \A r \in Members(ch.receivers) \cup QueuedIn(ch) : y.state[r] # "parked"
  BY <1>1, <1>2, <1>5 DEF Woke, Wakes
<1> QED
  BY <1>6, <1>7 DEF y

-----------------------------------------------------------------------------
(* Steps that leave the lists alone                                         *)

\* Routines in the lists of a channel exist.
LEMMA ListTypes ==
  ASSUME IInv, NEW c \in Chans
  PROVE  /\ chan \in [Chans -> Channel] /\ chan[c] \in Channel
         /\ Members(chan[c].receivers) \subseteq Routines
         /\ QueuedIn(chan[c]) \subseteq Routines
<1>1. chan \in [Chans -> Channel] /\ chan[c] \in Channel
  BY DEF IInv, TypeInv, ChannelTypes
<1> QED
  BY <1>1, SenderRoutinesQueued

\* Who selects nowhere is in no list of receivers, and whose value is not waiting
\* is in no list of senders.
LEMMA InNoList ==
  ASSUME IInv, WInv, NEW r \in Routines, NEW c \in Chans
  PROVE  /\ at[r] # "select" => r \notin Members(chan[c].receivers)
         /\ at[r] # "send" \/ r \in taken => r \notin QueuedIn(chan[c])
         /\ r \in QueuedIn(chan[c]) => Target(r) = c
<1>1. ChannelWaits(c)
  BY DEF WInv
<1>2. \A w \in Members(chan[c].senders) :
        w.routine \in Sending \ taken /\ Target(w.routine) = c
  BY DEF IInv, CallInv, QueuedWait
<1> QED
  BY <1>1, <1>2 DEF ChannelWaits, OnlyWaiters, QueuedIn, Sending

\* The lock alone moves, and wakes nobody unless the program has failed.
LEMMA LockWaits ==
  ASSUME IInv, WInv, Lock(s'), Wakes(s, s', {}, {}),
         UNCHANGED << at, on, taken, cancelled, chan >>
  PROVE  WInv'
<1>1. LeavesAlone({})
  BY DEF LeavesAlone, Wakes
<1>2. \A c \in Chans : Attends({}, c)
  BY DEF Attends
<1>3. \A c \in Chans : ChannelWaits(c)'
  BY DEF WInv, ChannelWaits, OnlyWaiters, SendersWaitForRoom, Fits
<1> QED
  BY <1>1, <1>2, <1>3, StepWaits DEF Heeds

\* In channel c, which becomes d, values and the closing may come up, and those
\* who wait for them are woken.  The routines of N are in user code.
OneChannel(N, c, d) ==
  /\ chan' = [chan EXCEPT ![c] = d] /\ d \in Channel
  /\ d.receivers = chan[c].receivers /\ d.senders = chan[c].senders
  /\ chan[c].closed => d.closed
  /\ ReadyLocked(d) /\ ~ReadyLocked(chan[c]) =>
       \A x \in Members(chan[c].receivers) \ N : s'.state[x] # "parked"
  /\ d.closed /\ ~chan[c].closed =>
       \A x \in QueuedIn(chan[c]) \ N : s'.state[x] # "parked"
  /\ d.senders # << >> => ~HasRoom(d)
  /\ c \notin Timers => Len(d.buf) <= d.capacity
  /\ \A x \in N : at[x] = "user" /\ at'[x] = "user"

LEMMA OneChannelWaits ==
  ASSUME IInv, WInv, Lock(s'), NEW N \in SUBSET Routines, LeavesAlone(N),
         NEW c \in Chans, NEW d, OneChannel(N, c, d)
  PROVE  WInv'
<1>1. /\ chan \in [Chans -> Channel]
      /\ \A x \in Chans : chan'[x] = IF x = c THEN d ELSE chan[x]
  BY DEF OneChannel, IInv, TypeInv, ChannelTypes
<1>2. \A x \in Chans : Attends(N, x)
  <2>1. Attends(N, c)
    BY <1>1 DEF OneChannel, Attends, QueuedIn
  <2>2. \A x \in Chans \ {c} : Attends(N, x)
    BY <1>1 DEF Attends
  <2> QED
    BY <2>1, <2>2
<1>3. \A x \in Chans : ChannelWaits(x)'
  <2> TAKE x \in Chans
  <2>1. ChannelWaits(x) /\ Members(chan[x].receivers) \subseteq Routines
    BY ListTypes DEF WInv
  <2>2. ASSUME NEW r \in Members(chan[x].receivers) PROVE at'[r] = "select"
    <3>1. r \in Routines /\ at[r] = "select"
      BY <2>1 DEF ChannelWaits, OnlyWaiters
    <3> QED
      BY <3>1 DEF OneChannel, LeavesAlone
  <2>3. chan'[x].receivers = chan[x].receivers
    BY <1>1 DEF OneChannel
  <2>4. SendersWaitForRoom(x)' /\ Fits(x)'
    BY <1>1, <2>1 DEF OneChannel, ChannelWaits, SendersWaitForRoom, Fits
  <2> QED
    BY <2>2, <2>3, <2>4 DEF ChannelWaits, OnlyWaiters
<1>4. \A x \in N : SelectWaits(x)' /\ SendWaits(x)'
  BY NoWait DEF OneChannel
<1> QED
  BY <1>2, <1>3, <1>4, StepWaits DEF Heeds

\* Closing a channel wakes everybody who waits for it.
LEMMA CloseWaits ==
  ASSUME IInv, WInv, NEW c \in Chans, ~chan[c].closed,
         chan' = [chan EXCEPT ![c].closed = TRUE],
         s' = WakeForClose(s, chan[c]),
         UNCHANGED << at, on, taken, cancelled >>
  PROVE  WInv'
<1> DEFINE ch == chan[c]
           d == [ch EXCEPT !.closed = TRUE]
           W == Members(ch.receivers) \cup QueuedIn(ch)
<1>1. ch \in Channel /\ chan \in [Chans -> Channel] /\ Lock(s) /\ ChannelWaits(c)
  BY ListTypes DEF WInv
<1>2. Lock(s') /\ Wakes(s, s', W, {}) /\ \A r \in W : s'.state[r] # "parked"
  BY <1>1, WakeForCloseLock
<1>3. /\ d \in Channel /\ d.closed /\ d.receivers = ch.receivers /\ d.senders = ch.senders
      /\ d.buf = ch.buf /\ d.capacity = ch.capacity
  BY <1>1 DEF Channel
<1>4. chan' = [chan EXCEPT ![c] = d]
  OBVIOUS
<1>5. ASSUME NEW x \in Routines, at[x] = "send", s.state[x] = "parked", s'.state[x] # "parked"
      PROVE  s'.fatal # "none" \/ chan'[Target(x)].closed
  <2>1. x \in W \/ s'.fatal # "none"
    BY <1>2, <1>5 DEF Wakes
  <2>2. CASE x \in QueuedIn(ch)
    <3>1. Target(x) = c
      BY <2>2, InNoList
    <3>2. chan'[c] = d
      BY <1>1, <1>4
    <3> QED
      BY <1>3, <3>1, <3>2
  <2>3. CASE x \in Members(ch.receivers)
    BY <1>5, <2>3, InNoList
  <2> QED
    BY <2>1, <2>2, <2>3
<1>6. LeavesAlone({})
  BY <1>2, <1>5 DEF LeavesAlone, Wakes
<1>7. OneChannel({}, c, d)
  BY <1>1, <1>2, <1>3, <1>4 DEF OneChannel, ChannelWaits, SendersWaitForRoom, Fits, HasRoom
<1> HIDE DEF d
<1> QED
  BY <1>2, <1>6, <1>7, OneChannelWaits

\* Putting a value into a channel wakes its receivers, who look again.
LEMMA PutWaits ==
  ASSUME IInv, WInv, NEW N \in SUBSET Routines, NEW c \in Chans, NEW v \in Numbers,
         chan' = [chan EXCEPT ![c] = Put(@, v)],
         s' = NotifyLocked(s, chan[c]),
         c \in Timers \/ HasRoom(chan[c]),
         \A x \in N : at[x] = "user" /\ at'[x] = "user",
         \A x \in Routines \ N :
           at'[x] = at[x] /\ on'[x] = on[x] /\ (x \in taken <=> x \in taken'),
         UNCHANGED cancelled
  PROVE  WInv'
<1> DEFINE ch == chan[c]
           b == Append(ch.buf, v)
           d == [ch EXCEPT !.buf = b]
           W == Members(ch.receivers)
<1>1. /\ ch \in Channel /\ chan \in [Chans -> Channel] /\ Lock(s) /\ ChannelWaits(c)
      /\ W \subseteq Routines
  BY ListTypes DEF WInv
<1>2. Lock(s') /\ Woke(s, s', W)
  BY <1>1, NotifyLock
<1>3. /\ b \in Seq(Numbers) /\ Len(ch.buf) \in Nat /\ Len(b) = Len(ch.buf) + 1
      /\ ch.capacity \in Nat
  BY <1>1, LenProperties DEF Channel
<1>4. /\ d \in Channel /\ d.buf = b /\ d.receivers = ch.receivers /\ d.senders = ch.senders
      /\ d.closed = ch.closed /\ d.capacity = ch.capacity
  <2> HIDE DEF b
  <2> QED
    BY <1>1, <1>3 DEF Channel
<1>5. chan' = [chan EXCEPT ![c] = d]
  BY DEF Put
<1>6. LeavesAlone(N)
  <2>1. \A x \in Routines : at[x] = "send" => x \notin W
    BY InNoList
  <2> QED
    BY <1>2, <2>1 DEF LeavesAlone, Woke, Wakes
<1>7. /\ d.senders # << >> => ~HasRoom(d)
      /\ c \notin Timers => Len(d.buf) <= d.capacity
  <2> HIDE DEF b, d
  <2> QED
    BY <1>1, <1>3, <1>4 DEF ChannelWaits, SendersWaitForRoom, Fits, HasRoom
<1>8. \A x \in W : s'.state[x] # "parked"
  BY <1>1, <1>2 DEF Woke
<1> HIDE DEF d
<1>9. OneChannel(N, c, d)
  BY <1>4, <1>5, <1>7, <1>8 DEF OneChannel
<1> QED
  BY <1>2, <1>6, <1>9, OneChannelWaits

LEMMA TimerWaits ==
  ASSUME IInv, WInv, NEW t \in Timers, TimerStep(t)
  PROVE  WInv'
<1>1. t \in Chans /\ chan[t] \in Channel /\ Lock(s) /\ chan \in [Chans -> Channel]
  BY ChannelsAssumption, ListTypes DEF WInv
<1>2. UNCHANGED << at, on, taken, cancelled >>
  BY DEF TimerStep, TimerDelivers, TimerCloses, TimerDisarms, flowVars, callVars
<1>3. CASE TimerDelivers(t)
  <2>1. CASE chan[t].closed
    <3>1. chan' = chan /\ s' = s
      BY <1>1, <1>3, <2>1 DEF TimerDelivers, Delivered, WakeForDeliver
    <3> QED
      BY <1>1, <1>2, <3>1, LockWaits DEF Wakes
  <2>2. CASE ~chan[t].closed
    <3>1. chan' = [chan EXCEPT ![t] = Put(@, 0)] /\ s' = NotifyLocked(s, chan[t])
      BY <1>3, <2>2 DEF TimerDelivers, Delivered, WakeForDeliver
    <3>2. 0 \in Numbers
      BY DEF Numbers
    <3> DEFINE N == {}
    <3>3. /\ N \in SUBSET Routines /\ \A x \in N : at[x] = "user" /\ at'[x] = "user"
          /\ \A x \in Routines \ N :
               at'[x] = at[x] /\ on'[x] = on[x] /\ (x \in taken <=> x \in taken')
      BY <1>2
    <3>4. t \in Chans /\ cancelled' = cancelled
      BY <1>1, <1>2
    <3> HIDE DEF N
    <3> QED
      BY <3>1, <3>2, <3>3, <3>4, PutWaits
  <2> QED
    BY <2>1, <2>2
<1>4. CASE TimerCloses(t)
  <2>1. CASE chan[t].closed
    <3>1. chan' = chan /\ s' = s
      <4> DEFINE ch == chan[t]
      <4>1. [ch EXCEPT !.closed = TRUE] = ch
        BY <1>1, <2>1 DEF Channel
      <4>2. chan' = [chan EXCEPT ![t] = [ch EXCEPT !.closed = TRUE]] /\ s' = s
        BY <1>4, <2>1 DEF TimerCloses
      <4> QED
        BY <1>1, <4>1, <4>2
    <3> QED
      BY <1>1, <1>2, <3>1, LockWaits DEF Wakes
  <2>2. CASE ~chan[t].closed
    BY <1>1, <1>2, <1>4, <2>2, CloseWaits DEF TimerCloses
  <2> QED
    BY <2>1, <2>2
<1>5. CASE TimerDisarms(t)
  <2>1. s' = DisarmExternal(s) /\ chan' = chan
    BY <1>5 DEF TimerDisarms
  <2> QED
    BY <1>1, <1>2, <2>1, DisarmLock, LockWaits
<1> QED
  BY <1>3, <1>4, <1>5 DEF TimerStep

LEMMA AfterWaits ==
  ASSUME IInv, WInv, NEW r \in Routines, NEW t \in Timers, After(r, t)
  PROVE  WInv'
<1>1. s' = ArmExternal(s) /\ UNCHANGED << at, on, taken, cancelled, chan >>
  BY DEF After, flowVars, callVars
<1> QED
  BY <1>1, ArmLock, LockWaits DEF WInv

-----------------------------------------------------------------------------
(* Ends of calls, and sends                                                 *)

\* Routine r is in no list of c any more; the rest of c is as it was.
Dropped(r, c) ==
  /\ Members(chan'[c].receivers) = Members(chan[c].receivers) \ {r}
  /\ QueuedIn(chan'[c]) = QueuedIn(chan[c]) \ {r}
  /\ chan[c].senders = << >> => chan'[c].senders = << >>
  /\ chan'[c].buf = chan[c].buf /\ chan'[c].closed = chan[c].closed
  /\ chan'[c].capacity = chan[c].capacity

LEMMA NotQueuedDrops ==
  ASSUME IInv, WInv, NEW r \in Routines, at[r] # "select",
         at[r] # "send" \/ r \in taken, chan' = chan
  PROVE  \A c \in Chans : Dropped(r, c)
BY InNoList DEF Dropped

\* A call ends without the others: r leaves the lists.
LEMMA LeaveWaits ==
  ASSUME IInv, WInv, NEW r \in Routines, \E reason : Leave(r, reason),
         \A c \in Chans : Dropped(r, c), UNCHANGED << s, cancelled >>
  PROVE  WInv'
<1>1. /\ at' = [at EXCEPT ![r] = "user"] /\ on' = [on EXCEPT ![r] = << >>]
      /\ taken' = taken \ {r}
      /\ at \in [Routines -> Places] /\ on \in [Routines -> Seq(Chans)]
  BY DEF Leave, Return, Nowhere, IInv, TypeInv, ChannelTypes
<1>2. LeavesAlone({r})
  BY <1>1 DEF LeavesAlone
<1>3. \A c \in Chans : Attends({r}, c)
  BY DEF Dropped, Attends, ReadyLocked
<1>4. \A c \in Chans : ChannelWaits(c)'
  <2> TAKE c \in Chans
  <2>1. ChannelWaits(c) /\ Dropped(r, c) /\ Members(chan[c].receivers) \subseteq Routines
    BY ListTypes DEF WInv
  <2>2. OnlyWaiters(c)'
    BY <1>1, <2>1 DEF ChannelWaits, OnlyWaiters, Dropped
  <2> QED
    BY <2>1, <2>2 DEF ChannelWaits, SendersWaitForRoom, Fits, HasRoom, Dropped
<1>5. at'[r] = "user"
  BY <1>1
<1> QED
  BY <1>2, <1>3, <1>4, <1>5, NoWait, StepWaits DEF Heeds, WInv

LEMMA CloseStepWaits ==
  ASSUME IInv, WInv, NEW r \in Routines, NEW c \in Chans, Close(r, c)
  PROVE  WInv'
<1>1. cancelled' = cancelled /\ at[r] = "user"
  BY DEF Close, InUserCode
<1>2. CASE chan[c].closed
  <2>1. Leave(r, "panic") /\ s' = s /\ chan' = chan
    BY <1>2 DEF Close
  <2> QED
    BY <1>1, <2>1, NotQueuedDrops, LeaveWaits
<1>3. CASE ~chan[c].closed
  BY <1>1, <1>3, CloseWaits DEF Close, callVars
<1> QED
  BY <1>2, <1>3

\* A sender that finds no room queues and parks, its receivers awake.
LEMMA QueueWaits ==
  ASSUME IInv, WInv, NEW r \in Routines, NEW c \in Chans, NEW v \in Values,
         s.running = r, at[r] = "user", ~chan[c].closed, ~HasRoom(chan[c]),
         chan' = [chan EXCEPT ![c] = AddSender(@, r, v)],
         s' = ParkLocked(NotifyLocked(s, chan[c]), r),
         at' = [at EXCEPT ![r] = "send"], on' = [on EXCEPT ![r] = << c >>],
         UNCHANGED << taken, cancelled >>
  PROVE  WInv'
<1> DEFINE ch == chan[c]
           d == AddSender(ch, r, v)
           n == NotifyLocked(s, ch)
           W == Members(ch.receivers)
<1>1. /\ ch \in Channel /\ chan \in [Chans -> Channel] /\ Lock(s) /\ ChannelWaits(c)
      /\ W \subseteq Routines
      /\ at \in [Routines -> Places] /\ on \in [Routines -> Seq(Chans)]
  BY ListTypes DEF WInv, IInv, TypeInv, ChannelTypes
<1>2. Lock(n) /\ Woke(s, n, W) /\ n.running = r
  BY <1>1, NotifyLock, RoutinesFinite DEF Woke
<1> HIDE DEF n
<1>3. /\ Lock(s') /\ Wakes(n, s', {}, {r})
      /\ s'.state[r] = "parked" \/ s'.fatal # "none"
  BY <1>2, ParkLock DEF n
<1>4. /\ Members(d.senders) = Members(ch.senders) \cup {[routine |-> r, value |-> v]}
      /\ d = [ch EXCEPT !.senders = d.senders]
      /\ d.buf = ch.buf /\ d.closed = ch.closed /\ d.receivers = ch.receivers
      /\ d.capacity = ch.capacity
  <2>1. Members(d.senders) = Members(ch.senders) \cup {[routine |-> r, value |-> v]}
    BY <1>1, AddSenderAdds
  <2> DEFINE q == Append(ch.senders, [routine |-> r, value |-> v])
  <2>2. d = [ch EXCEPT !.senders = q]
    BY DEF AddSender
  <2> HIDE DEF q, d
  <2> QED
    BY <1>1, <2>1, <2>2 DEF Channel
<1>5. QueuedIn(d) = QueuedIn(ch) \cup {r}
  <2> DEFINE w == [routine |-> r, value |-> v]
  <2>1. Members(d.senders) = Members(ch.senders) \cup {w} /\ w.routine = r
    BY <1>4
  <2> HIDE DEF w, d
  <2> QED
    BY <2>1 DEF QueuedIn
<1>6. \A x \in Chans : chan'[x] = IF x = c THEN d ELSE chan[x]
  BY <1>1
<1>7. r \notin taken
  BY DEF IInv, CallInv, Sending
<1>8. /\ \A x \in Routines \ {r} : at'[x] = at[x] /\ on'[x] = on[x]
      /\ at'[r] = "send" /\ on'[r] = << c >>
  BY <1>1
<1> HIDE DEF d
<1>9. LeavesAlone({r})
  <2>1. \A x \in Routines : at[x] = "send" => x \notin W
    BY InNoList
  <2> QED
    BY <1>2, <1>3, <1>8, <2>1 DEF LeavesAlone, Woke, Wakes
<1>10. \A x \in Chans : Attends({r}, x)
  <2>1. \A x \in W \ {r} : s'.state[x] # "parked"
    BY <1>1, <1>2, <1>3 DEF Woke, Wakes
  <2>2. Attends({r}, c)
    BY <1>4, <1>5, <1>6, <2>1 DEF Attends
  <2>3. \A x \in Chans \ {c} : Attends({r}, x)
    BY <1>6 DEF Attends
  <2> QED
    BY <2>2, <2>3
<1>11. \A x \in Chans : ChannelWaits(x)'
  <2> TAKE x \in Chans
  <2>1. ChannelWaits(x) /\ Members(chan[x].receivers) \subseteq Routines
    BY ListTypes DEF WInv
  <2>2. \A y \in Members(chan[x].receivers) : at'[y] = "select"
    BY <1>8, <2>1 DEF ChannelWaits, OnlyWaiters
  <2> QED
    BY <1>4, <1>6, <2>1, <2>2 DEF ChannelWaits, OnlyWaiters, SendersWaitForRoom, Fits, HasRoom
<1>12. SendWaits(r)'
  <2>1. Target(r)' = c
    BY <1>8 DEF Target
  <2>2. r \in QueuedIn(chan'[c]) /\ ~chan'[c].closed
    BY <1>4, <1>5, <1>6
  <2> QED
    BY <1>3, <1>7, <2>1, <2>2 DEF SendWaits
<1>13. SelectWaits(r)'
  BY <1>8 DEF SelectWaits
<1> QED
  BY <1>3, <1>9, <1>10, <1>11, <1>12, <1>13, StepWaits DEF Heeds

LEMMA SendStepWaits ==
  ASSUME IInv, WInv, NEW r \in Routines, NEW c \in Chans, Send(r, c)
  PROVE  WInv'
<1> DEFINE v == sent[c] + 1
           p == StopReason(r) = "no"
<1>1. /\ s.running = r /\ at[r] = "user" /\ cancelled' = cancelled /\ v \in Values
  BY DEF Send, InUserCode, Running
<1>2. CASE ~p \/ chan[c].closed
  <2>1. (\E reason : Leave(r, reason)) /\ s' = s /\ chan' = chan
    BY <1>2 DEF Send, Answer
  <2> QED
    BY <1>1, <2>1, NotQueuedDrops, LeaveWaits
<1>3. CASE p /\ ~chan[c].closed /\ HasRoom(chan[c])
  <2>1. /\ chan' = [chan EXCEPT ![c] = Put(@, v)] /\ s' = NotifyLocked(s, chan[c])
        /\ Leave(r, "no")
    BY <1>3 DEF Send, Answer
  <2>2. /\ at' = [at EXCEPT ![r] = "user"] /\ on' = [on EXCEPT ![r] = << >>]
        /\ taken' = taken \ {r} /\ at \in [Routines -> Places]
        /\ on \in [Routines -> Seq(Chans)]
    BY <2>1 DEF Leave, Return, Nowhere, IInv, TypeInv, ChannelTypes
  <2> DEFINE N == {r}
  <2>3. /\ N \in SUBSET Routines /\ \A x \in N : at[x] = "user" /\ at'[x] = "user"
        /\ \A x \in Routines \ N :
             at'[x] = at[x] /\ on'[x] = on[x] /\ (x \in taken <=> x \in taken')
    BY <1>1, <2>2
  <2>4. v \in Numbers
    BY <1>1 DEF Numbers
  <2> HIDE DEF N, v
  <2> QED
    BY <1>1, <1>3, <2>1, <2>3, <2>4, PutWaits
<1>4. CASE p /\ ~chan[c].closed /\ ~HasRoom(chan[c])
  <2>1. /\ chan' = [chan EXCEPT ![c] = AddSender(@, r, v)]
        /\ s' = ParkLocked(NotifyLocked(s, chan[c]), r)
        /\ at' = [at EXCEPT ![r] = "send"] /\ on' = [on EXCEPT ![r] = << c >>]
        /\ taken' = taken
    BY <1>4 DEF Send
  <2> HIDE DEF v, p
  <2> QED
    BY <1>1, <1>4, <2>1, QueueWaits
<1> QED
  BY <1>2, <1>3, <1>4

\* Who wakes in a send ends it: it finds its value taken, or gives it up.
LEMMA ResumeSendEnds ==
  ASSUME IInv, WInv, NEW r \in Routines, ResumeSend(r)
  PROVE  /\ \E reason : Leave(r, reason)
         /\ UNCHANGED << s, cancelled, out, sent >>
         /\ \/ r \in taken /\ chan' = chan
            \/ /\ r \notin taken
               /\ chan' = [chan EXCEPT ![Target(r)] = DropSenderLocked(chan[Target(r)], r)]
<1> DEFINE c == Target(r)
           d == DropSenderLocked(chan[c], r)
<1>1. s.running = r /\ at[r] = "send" /\ UNCHANGED << cancelled, out, sent >>
  BY DEF ResumeSend, Running
<1>2. c \in Chans /\ chan[c] \in Channel
  BY <1>1, TargetIsChannel, ListTypes DEF IInv, Sending
<1>3. d.closed = chan[c].closed
  <2> DEFINE ch == chan[c]
  <2>1. ch \in Channel
    BY <1>2
  <2> HIDE DEF ch
  <2>2. DropSenderLocked(ch, r).closed = ch.closed
    BY <2>1, DropSender
  <2> QED
    BY <2>2 DEF ch
<1>4. s.state[r] = "running"
  BY <1>1, BareType, RoutinesFinite DEF WInv, Lock, Sound
<1>5. r \in taken \/ r \in cancelled \/ s.fatal # "none" \/ chan[c].closed
  BY <1>1, <1>4 DEF WInv, SendWaits
<1>6. r \in taken \/ StopReason(r) # "no" \/ d.closed
  BY <1>3, <1>5 DEF StopReason, StopReasonLocked
<1>7. CASE r \in taken
  BY <1>1, <1>7 DEF ResumeSend, Answer
<1>8. CASE r \notin taken
  <2>1. /\ chan' = [chan EXCEPT ![c] = d] /\ s' = s
        /\ \E reason : Leave(r, reason)
    BY <1>6, <1>8 DEF ResumeSend, Answer, Target
  <2> QED
    BY <1>1, <1>8, <2>1
<1> QED
  BY <1>7, <1>8

LEMMA ResumeSendWaits ==
  ASSUME IInv, WInv, NEW r \in Routines, ResumeSend(r)
  PROVE  WInv'
<1>1. at[r] = "send" /\ r \in Sending
  BY DEF ResumeSend, Sending
<1>2. /\ \E reason : Leave(r, reason)
      /\ UNCHANGED << s, cancelled >>
      /\ \/ r \in taken /\ chan' = chan
         \/ chan' = [chan EXCEPT ![Target(r)] = DropSenderLocked(chan[Target(r)], r)]
  BY ResumeSendEnds
<1>3. CASE r \in taken /\ chan' = chan
  BY <1>1, <1>2, <1>3, NotQueuedDrops, LeaveWaits
<1>4. CASE chan' = [chan EXCEPT ![Target(r)] = DropSenderLocked(chan[Target(r)], r)]
  <2> DEFINE c == Target(r)
             ch == chan[c]
             d == DropSenderLocked(ch, r)
  <2>1. c \in Chans /\ ch \in Channel /\ chan \in [Chans -> Channel]
    BY <1>1, TargetIsChannel, ListTypes DEF IInv
  <2>2. \A x \in Chans : chan'[x] = IF x = c THEN d ELSE chan[x]
    BY <1>4, <2>1
  <2>3. /\ d.buf = ch.buf /\ d.closed = ch.closed /\ d.capacity = ch.capacity
        /\ ch.senders = << >> => d.senders = << >>
        /\ QueuedIn(d) = QueuedIn(ch) \ {r}
        /\ d.receivers = ch.receivers
    <3> HIDE DEF c, ch
    <3>1. d.receivers = ch.receivers
      BY <2>1 DEF DropSenderLocked, Channel
    <3> QED
      BY <2>1, <3>1, DropSender, QueuedAfterDrop
  <2> HIDE DEF d
  <2>4. Dropped(r, c)
    BY <1>1, <2>1, <2>2, <2>3, InNoList DEF Dropped
  <2>5. ASSUME NEW x \in Chans \ {c} PROVE Dropped(r, x)
    <3>1. r \notin Members(chan[x].receivers) /\ r \notin QueuedIn(chan[x])
      BY <1>1, InNoList
    <3> QED
      BY <2>2, <3>1 DEF Dropped
  <2> HIDE DEF c
  <2> QED
    BY <1>2, <2>4, <2>5, LeaveWaits
<1> QED
  BY <1>2, <1>3, <1>4

-----------------------------------------------------------------------------
(* Select                                                                   *)

\* Channel e is ch but for r, which is in its list of receivers no more.
WithoutReceiver(ch, e, r) ==
  /\ e \in Channel
  /\ e.buf = ch.buf /\ e.senders = ch.senders
  /\ e.closed = ch.closed /\ e.capacity = ch.capacity
  /\ Members(e.receivers) = Members(ch.receivers) \ {r}

LEMMA DropsReceiver ==
  ASSUME NEW ch \in Channel, NEW r
  PROVE  WithoutReceiver(ch, DropReceiverLocked(ch, r), r)
<1> DEFINE e == DropReceiverLocked(ch, r)
<1>1. e \in Channel /\ e = [ch EXCEPT !.receivers = e.receivers]
  BY DropReceiver
<1>2. Members(e.receivers) = Members(ch.receivers) \ {r}
  BY ReceiversAfterDrop
<1> HIDE DEF e
<1>3. e.buf = ch.buf /\ e.senders = ch.senders /\ e.closed = ch.closed /\ e.capacity = ch.capacity
  BY <1>1 DEF Channel
<1> QED
  BY <1>1, <1>2, <1>3 DEF WithoutReceiver, e

\* A select ends without a value.
LEMMA DropAllWaits ==
  ASSUME IInv, WInv, NEW r \in Routines \ Sending, \E reason : Leave(r, reason),
         chan' = [d \in Chans |-> DropReceiverLocked(chan[d], r)],
         UNCHANGED << s, cancelled >>
  PROVE  WInv'
<1>1. ASSUME NEW d \in Chans PROVE Dropped(r, d)
  <2> DEFINE e == DropReceiverLocked(chan[d], r)
  <2>1. chan[d] \in Channel /\ r \notin QueuedIn(chan[d])
    BY ListTypes, InNoList DEF Sending
  <2>2. WithoutReceiver(chan[d], e, r)
    BY <2>1, DropsReceiver
  <2>3. chan'[d] = e
    OBVIOUS
  <2> HIDE DEF e
  <2> QED
    BY <2>1, <2>2, <2>3 DEF WithoutReceiver, Dropped, QueuedIn
<1> QED
  BY <1>1, LeaveWaits

\* What a take leaves behind: the sender it releases is gone from the list, the
\* others still wait for room.
TakenFrom(ch, d) ==
  /\ d \in Channel
  /\ d.receivers = ch.receivers /\ d.closed = ch.closed /\ d.capacity = ch.capacity
  /\ QueuedIn(ch) \subseteq QueuedIn(d) \cup Members(ReleasedSender(ch))
  /\ d.senders # << >> => ~HasRoom(d)
  /\ Len(ch.buf) <= ch.capacity => Len(d.buf) <= d.capacity

LEMMA TakeLeaves ==
  ASSUME NEW ch \in Channel, ~Drained(ch), ch.senders # << >> => ~HasRoom(ch)
  PROVE  /\ TakenFrom(ch, AfterTake(ch))
         /\ ReleasedSender(ch) \in Seq(Routines)
         /\ Members(ReleasedSender(ch)) \subseteq QueuedIn(ch)
<1> DEFINE p == ch.senders
           w == Head(p)
           q == Tail(p)
           tail == Tail(ch.buf)
           d == AfterTake(ch)
<1>1. /\ ch.buf \in Seq(Numbers) /\ Len(ch.buf) \in Nat /\ ch.capacity \in Nat
      /\ p \in Seq(SendWaiter)
  BY LenProperties DEF Channel
<1>2. p # << >> =>
        /\ w \in SendWaiter /\ w.routine \in Routines /\ w.value \in Numbers /\ w \in Members(p)
        /\ q \in Seq(SendWaiter) /\ Members(p) = {w} \cup Members(q)
  <2>1. p # << >> => w \in SendWaiter /\ w \in Members(p) /\ q \in Seq(SendWaiter)
    BY FirstSenderLeaves
  <2>2. p # << >> => Members(p) = {w} \cup Members(q)
    BY <1>1, MembersOfTail
  <2> HIDE DEF w, q
  <2> QED
    BY <2>1, <2>2 DEF SendWaiter, Numbers
<1>3. ch.buf # << >> =>
        /\ tail \in Seq(Numbers) /\ Len(tail) = Len(ch.buf) - 1 /\ Len(ch.buf) > 0
        /\ p # << >> => /\ Append(tail, w.value) \in Seq(Numbers)
                        /\ Len(Append(tail, w.value)) = Len(ch.buf)
  BY <1>1, <1>2, HeadTailProperties, EmptySeq
<1>4. /\ d \in Channel
      /\ ReleasedSender(ch) = << >> \/ (p # << >> /\ ReleasedSender(ch) = << w.routine >>)
  <2>1. d \in Channel
    BY TakeMoves
  <2>2. ReleasedSender(ch) = << >> \/ ReleasedSender(ch) = << w.routine >>
    BY DEF ReleasedSender
  <2>3. ReleasedSender(ch) # << >> => p # << >>
    BY DEF ReleasedSender, Refills, Drained
  <2> QED
    BY <2>1, <2>2, <2>3
<1>5. Members(<< >>) = {} /\ \A x : Members(<< x >>) = {x}
  BY DEF Members
<1>6. ASSUME ch.buf = << >>
      PROVE  TakenFrom(ch, d)
  <2>1. p # << >> /\ d = [ch EXCEPT !.senders = q] /\ ReleasedSender(ch) = << w.routine >>
    BY <1>6 DEF Drained, AfterTake, ReleasedSender
  <2>2. Len(ch.buf) = 0
    BY <1>6
  <2>3. /\ d.receivers = ch.receivers /\ d.closed = ch.closed /\ d.capacity = ch.capacity
        /\ d.buf = ch.buf /\ d.senders = q
    BY <2>1 DEF Channel
  <2> HIDE DEF d, w, q
  <2>4. QueuedIn(ch) \subseteq QueuedIn(d) \cup {w.routine}
    BY <1>2, <2>1, <2>3 DEF QueuedIn
  <2>5. ~HasRoom(d)
    BY <2>1, <2>3 DEF HasRoom
  <2> QED
    BY <1>4, <1>5, <2>1, <2>3, <2>4, <2>5 DEF TakenFrom
<1>7. ASSUME ch.buf # << >>, Refills(ch)
      PROVE  TakenFrom(ch, d)
  <2> DEFINE b == Append(tail, w.value)
  <2>1. /\ p # << >> /\ d = [ch EXCEPT !.buf = b, !.senders = q]
        /\ ReleasedSender(ch) = << w.routine >>
    BY <1>7 DEF Refills, AfterTake, ReleasedSender
  <2>2. Len(b) = Len(ch.buf)
    BY <1>3, <1>7, <2>1
  <2> HIDE DEF d, w, q, b
  <2>3. /\ d.receivers = ch.receivers /\ d.closed = ch.closed /\ d.capacity = ch.capacity
        /\ d.buf = b /\ d.senders = q
    BY <2>1 DEF Channel
  <2>4. QueuedIn(ch) \subseteq QueuedIn(d) \cup {w.routine}
    BY <1>2, <2>1, <2>3 DEF QueuedIn
  <2>5. ~HasRoom(d)
    BY <2>1, <2>2, <2>3 DEF HasRoom
  <2> QED
    BY <1>4, <1>5, <2>1, <2>2, <2>3, <2>4, <2>5 DEF TakenFrom
<1>8. ASSUME ch.buf # << >>, ~Refills(ch)
      PROVE  TakenFrom(ch, d)
  <2>1. /\ d = [ch EXCEPT !.buf = tail] /\ ReleasedSender(ch) = << >>
        /\ p = << >> \/ ~(Len(ch.buf) - 1 < ch.capacity)
    BY <1>1, <1>8 DEF Refills, AfterTake, ReleasedSender
  <2>2. Len(tail) = Len(ch.buf) - 1
    BY <1>3, <1>8
  <2> HIDE DEF d, tail
  <2>3. /\ d.receivers = ch.receivers /\ d.closed = ch.closed /\ d.capacity = ch.capacity
        /\ d.buf = tail /\ d.senders = p
    BY <2>1 DEF Channel
  <2>4. d.senders # << >> => ~HasRoom(d)
    BY <1>1, <2>1, <2>2, <2>3 DEF HasRoom
  <2>5. Len(ch.buf) <= ch.capacity => Len(d.buf) <= d.capacity
    BY <1>1, <2>2, <2>3
  <2> QED
    BY <1>4, <1>5, <2>1, <2>3, <2>4, <2>5 DEF TakenFrom, QueuedIn
<1>9. ReleasedSender(ch) \in Seq(Routines) /\ Members(ReleasedSender(ch)) \subseteq QueuedIn(ch)
  <2> DEFINE x == w.routine
             released == ReleasedSender(ch)
  <2>1. p # << >> => x \in QueuedIn(ch) /\ x \in Routines
    BY <1>2 DEF QueuedIn
  <2>2. released = << >> \/ (p # << >> /\ released = << x >>)
    BY <1>4
  <2> HIDE DEF x, released, d, w, q, p, tail
  <2>3. released = << >> => released \in Seq(Routines) /\ Members(released) = {}
    BY <1>5
  <2>4. released = << x >> => Members(released) = {x}
    BY <1>5
  <2>5. x \in Routines => << x >> \in Seq(Routines)
    OBVIOUS
  <2>6. released \in Seq(Routines) /\ Members(released) \subseteq QueuedIn(ch)
    BY <2>1, <2>2, <2>3, <2>4, <2>5
  <2> QED
    BY <2>6 DEF released
<1> HIDE DEF d
<1>10. TakenFrom(ch, d)
  BY <1>6, <1>7, <1>8
<1> QED
  BY <1>9, <1>10 DEF d

\* A take wakes the sender whose value has moved up, and that sender is told.
LEMMA TakeWaits ==
  ASSUME IInv, WInv, NEW r \in Routines \ Sending, NEW c \in Chans, ~Drained(chan[c]),
         at' = [at EXCEPT ![r] = "user"], on' = [on EXCEPT ![r] = Nowhere],
         taken' = taken \cup Members(ReleasedSender(chan[c])),
         chan' = [d \in Chans |->
                   DropReceiverLocked(IF d = c THEN AfterTake(chan[c]) ELSE chan[d], r)],
         s' = WakeWaiters(s, ReleasedSender(chan[c])),
         UNCHANGED cancelled
  PROVE  WInv'
<1> DEFINE ch == chan[c]
           e == AfterTake(ch)
           released == ReleasedSender(ch)
           R == Members(released)
<1>1. /\ ch \in Channel /\ chan \in [Chans -> Channel] /\ Lock(s) /\ ChannelWaits(c)
      /\ at \in [Routines -> Places] /\ on \in [Routines -> Seq(Chans)]
      /\ QueuedIn(ch) \subseteq Routines
  BY ListTypes DEF WInv, IInv, TypeInv, ChannelTypes
<1>2. TakenFrom(ch, e) /\ released \in Seq(Routines) /\ R \subseteq QueuedIn(ch)
  BY <1>1, TakeLeaves DEF ChannelWaits, SendersWaitForRoom
<1> HIDE DEF e, released, R
<1>3. /\ Woke(s, s', R) /\ Lock(s')
  <2>1. MidLock(s)
    BY <1>1 DEF Lock, MidLock, Sound
  <2>2. Woke(s, s', R)
    BY <1>2, <2>1, WakeWaitersLock DEF released, R
  <2> QED
    BY <1>1, <2>2 DEF Woke
<1>4. ASSUME NEW x \in Chans
      PROVE  WithoutReceiver(IF x = c THEN e ELSE chan[x], chan'[x], r)
  <2> DEFINE f == IF x = c THEN e ELSE chan[x]
  <2>1. f \in Channel
    BY <1>1, <1>2 DEF TakenFrom
  <2>2. chan'[x] = DropReceiverLocked(f, r)
    BY DEF e
  <2> HIDE DEF f
  <2>3. WithoutReceiver(f, chan'[x], r)
    BY <2>1, <2>2, DropsReceiver
  <2> QED
    BY <2>3 DEF f
<1>5. /\ \A x \in Routines \ {r} : at'[x] = at[x] /\ on'[x] = on[x]
      /\ at'[r] = "user" /\ at[r] # "send"
      /\ taken' = taken \cup R
  BY <1>1 DEF Sending, R, released
<1>6. LeavesAlone({r})
  BY <1>1, <1>2, <1>3, <1>5 DEF LeavesAlone, Woke, Wakes
<1>7. \A x \in Chans : Attends({r}, x)
  <2> TAKE x \in Chans
  <2>1. CASE x = c
    <3>1. WithoutReceiver(e, chan'[c], r)
      BY <1>4, <2>1
    <3>2. ReadyLocked(ch)
      BY DEF Drained, ReadyLocked
    <3> QED
      BY <1>2, <1>5, <2>1, <3>1, <3>2 DEF Attends, TakenFrom, WithoutReceiver, QueuedIn
  <2>2. CASE x # c
    <3>1. WithoutReceiver(chan[x], chan'[x], r)
      BY <1>4, <2>2
    <3> QED
      BY <3>1 DEF Attends, WithoutReceiver, QueuedIn, ReadyLocked
  <2> QED
    BY <2>1, <2>2
<1>8. \A x \in Chans : ChannelWaits(x)'
  <2> TAKE x \in Chans
  <2> DEFINE f == IF x = c THEN e ELSE chan[x]
  <2>1. WithoutReceiver(f, chan'[x], r) /\ f.receivers = chan[x].receivers
    BY <1>2, <1>4 DEF TakenFrom
  <2>2. ChannelWaits(x) /\ Members(chan[x].receivers) \subseteq Routines
    BY ListTypes DEF WInv
  <2>3. /\ f.senders # << >> => ~HasRoom(f)
        /\ x \notin Timers => Len(f.buf) <= f.capacity
    BY <1>2, <2>2 DEF TakenFrom, ChannelWaits, SendersWaitForRoom, Fits
  <2> HIDE DEF f
  <2>4. OnlyWaiters(x)'
    BY <1>5, <2>1, <2>2 DEF ChannelWaits, OnlyWaiters, WithoutReceiver
  <2> QED
    BY <2>1, <2>3, <2>4 DEF ChannelWaits, SendersWaitForRoom, Fits, HasRoom, WithoutReceiver
<1>9. SelectWaits(r)' /\ SendWaits(r)'
  BY <1>5, NoWait
<1> QED
  BY <1>3, <1>6, <1>7, <1>8, <1>9, StepWaits DEF Heeds

\* Channel e is ch but for r at the end of its receivers, if n is positive.
WithReceiver(ch, e, r, n) ==
  /\ e.buf = ch.buf /\ e.senders = ch.senders
  /\ e.closed = ch.closed /\ e.capacity = ch.capacity
  /\ Members(ch.receivers) \ {r} \subseteq Members(e.receivers)
  /\ Members(e.receivers) \subseteq Members(ch.receivers) \cup {r}
  /\ n > 0 => r \in Members(e.receivers)

LEMMA AddsReceiver ==
  ASSUME NEW ch \in Channel, NEW r \in Routines, NEW n \in Nat, NEW e,
         e = [DropReceiverLocked(ch, r) EXCEPT !.receivers = @ \o [i \in 1 .. n |-> r]]
  PROVE  WithReceiver(ch, e, r, n)
<1> DEFINE d == DropReceiverLocked(ch, r)
           more == [i \in 1 .. n |-> r]
           q == d.receivers \o more
<1>0. e = [d EXCEPT !.receivers = q]
  OBVIOUS
<1>1. WithoutReceiver(ch, d, r)
  BY DropsReceiver
<1>2. more \in Seq(Routines) /\ Len(more) = n /\ \A i \in 1 .. n : more[i] = r
  OBVIOUS
<1> DEFINE a == d.receivers
<1> HIDE DEF d, more
<1>3. d.receivers \in Seq(Routines) /\ Len(d.receivers) \in Nat
  BY <1>1, LenProperties DEF WithoutReceiver, Channel
<1>4. /\ q \in Seq(Routines) /\ Len(q) = Len(d.receivers) + n
      /\ \A i \in 1 .. Len(d.receivers) : q[i] = d.receivers[i]
      /\ \A i \in Len(d.receivers) + 1 .. Len(d.receivers) + n : q[i] = r
  <2>1. q = a \o more /\ a = d.receivers
    OBVIOUS
  <2> HIDE DEF a, q
  <2>2. /\ q \in Seq(Routines) /\ Len(q) = Len(a) + n
        /\ \A i \in 1 .. Len(q) : q[i] = IF i <= Len(a) THEN a[i] ELSE more[i - Len(a)]
    <3>1. a \in Seq(Routines) /\ more \in Seq(Routines)
      BY <1>2, <1>3, <2>1
    <3>2. /\ a \o more \in Seq(Routines) /\ Len(a \o more) = Len(a) + Len(more)
          /\ \A i \in 1 .. Len(a) + Len(more) :
               (a \o more)[i] = IF i <= Len(a) THEN a[i] ELSE more[i - Len(a)]
      BY <3>1, ConcatProperties
    <3> QED
      BY <1>2, <2>1, <3>2
  <2>3. \A i \in Len(a) + 1 .. Len(a) + n : i - Len(a) \in 1 .. n /\ i \in 1 .. Len(q) /\ ~(i <= Len(a))
    <3>1. Len(a) \in Nat /\ Len(q) = Len(a) + n
      BY <1>3, <2>1, <2>2
    <3> QED
      BY <3>1
  <2>4. \A i \in 1 .. Len(a) : i \in 1 .. Len(q) /\ i <= Len(a)
    BY <1>3, <2>1, <2>2
  <2>5. (\A i \in 1 .. Len(a) : q[i] = a[i]) /\ \A i \in Len(a) + 1 .. Len(a) + n : q[i] = r
    BY <1>2, <2>2, <2>3, <2>4
  <2> QED
    BY <2>1, <2>2, <2>5
<1>5. DOMAIN q = 1 .. Len(q) /\ DOMAIN d.receivers = 1 .. Len(d.receivers)
  BY <1>3, <1>4, LenProperties
<1> HIDE DEF q
<1>6. Members(d.receivers) \subseteq Members(q)
  <2>1. \A i \in 1 .. Len(d.receivers) : i \in 1 .. Len(q) /\ q[i] = d.receivers[i]
    BY <1>3, <1>4
  <2> QED
    BY <1>5, <2>1 DEF Members
<1>7. Members(q) \subseteq Members(d.receivers) \cup {r}
  <2>1. \A i \in 1 .. Len(q) :
          i \in 1 .. Len(d.receivers) \/ i \in Len(d.receivers) + 1 .. Len(d.receivers) + n
    BY <1>3, <1>4
  <2> QED
    BY <1>4, <1>5, <2>1 DEF Members
<1>8. n > 0 => r \in Members(q)
  <2>1. n > 0 => Len(d.receivers) + 1 \in 1 .. Len(q) /\ q[Len(d.receivers) + 1] = r
    BY <1>3, <1>4
  <2> QED
    BY <1>5, <2>1 DEF Members
<1>9. /\ e.buf = d.buf /\ e.senders = d.senders /\ e.closed = d.closed
      /\ e.capacity = d.capacity /\ e.receivers = q
  BY <1>0, <1>1 DEF WithoutReceiver, Channel
<1> QED
  BY <1>1, <1>6, <1>7, <1>8, <1>9 DEF WithReceiver, WithoutReceiver


\* A routine that finds none of its channels ready queues on all and parks.
LEMMA ParkInSelectWaits ==
  ASSUME IInv, WInv, NEW r \in Routines \ Sending, s.running = r, NEW q \in Seq(Chans),
         \A i \in DOMAIN q : ~ReadyLocked(chan[q[i]]),
         chan' = [d \in Chans |->
            [DropReceiverLocked(chan[d], r) EXCEPT
               !.receivers = @ \o [i \in 1 .. Cardinality({i \in DOMAIN q : q[i] = d}) |-> r]]],
         at' = [at EXCEPT ![r] = "select"], on' = [on EXCEPT ![r] = q],
         s' = ParkLocked(s, r), UNCHANGED << taken, cancelled >>
  PROVE  WInv'
<1>1. /\ \A c \in Chans : chan[c] \in Channel
      /\ at \in [Routines -> Places] /\ on \in [Routines -> Seq(Chans)]
      /\ Lock(s) /\ at[r] # "send"
  BY DEF WInv, IInv, TypeInv, ChannelTypes, Sending
<1>2. DOMAIN q = 1 .. Len(q) /\ Len(q) \in Nat /\ \A i \in DOMAIN q : q[i] \in Chans
  BY LenProperties, ElementOfSeq
<1>3. ASSUME NEW d \in Chans
      PROVE  /\ Cardinality({i \in DOMAIN q : q[i] = d}) \in Nat
             /\ d \in Members(q) => Cardinality({i \in DOMAIN q : q[i] = d}) > 0
  <2> DEFINE I == {i \in DOMAIN q : q[i] = d}
  <2>1. IsFiniteSet(1 .. Len(q))
    BY <1>2, PlacesFinite
  <2>2. I \subseteq 1 .. Len(q)
    BY <1>2
  <2>3. d \in Members(q) => I # {}
    BY DEF Members
  <2> HIDE DEF I
  <2>4. IsFiniteSet(I)
    BY <2>1, <2>2, FS_Subset
  <2>5. Cardinality(I) \in Nat /\ (Cardinality(I) = 0 <=> I = {})
    BY <2>4, FS_CardinalityType, FS_EmptySet
  <2>6. Cardinality(I) \in Nat /\ (d \in Members(q) => Cardinality(I) > 0)
    BY <2>3, <2>5
  <2> QED
    BY <2>6 DEF I
<1>4. ASSUME NEW d \in Chans
      PROVE  /\ chan'[d].buf = chan[d].buf /\ chan'[d].senders = chan[d].senders
             /\ chan'[d].closed = chan[d].closed /\ chan'[d].capacity = chan[d].capacity
             /\ Members(chan[d].receivers) \ {r} \subseteq Members(chan'[d].receivers)
             /\ Members(chan'[d].receivers) \subseteq Members(chan[d].receivers) \cup {r}
             /\ d \in Members(q) => r \in Members(chan'[d].receivers)
  <2> DEFINE n == Cardinality({i \in DOMAIN q : q[i] = d})
  <2>1. chan'[d] =
          [DropReceiverLocked(chan[d], r) EXCEPT !.receivers = @ \o [i \in 1 .. n |-> r]]
    OBVIOUS
  <2>2. n \in Nat /\ (d \in Members(q) => n > 0)
    BY <1>3
  <2> DEFINE ch == chan[d]
             e == chan'[d]
  <2>3. WithReceiver(ch, e, r, n)
    <3>1. ch \in Channel /\ r \in Routines
      BY <1>1
    <3> HIDE DEF n, ch, e
    <3> QED
      BY <2>1, <2>2, <3>1, AddsReceiver DEF ch, e
  <2> HIDE DEF n
  <2> QED
    BY <2>2, <2>3 DEF WithReceiver
<1>5. /\ Lock(s') /\ Wakes(s, s', {}, {r})
  BY <1>1, ParkLock
<1>6. /\ \A x \in Routines \ {r} : at'[x] = at[x] /\ on'[x] = on[x]
      /\ at'[r] = "select" /\ on'[r] = q
  BY <1>1
<1>7. LeavesAlone({r})
  BY <1>5, <1>6 DEF LeavesAlone, Wakes
<1>8. \A x \in Chans : Attends({r}, x)
  BY <1>4, ZenonT(60) DEF Attends, QueuedIn, ReadyLocked
<1>9. \A x \in Chans : ChannelWaits(x)'
  <2> TAKE x \in Chans
  <2>1. ChannelWaits(x) /\ Members(chan[x].receivers) \subseteq Routines
    BY ListTypes DEF WInv
  <2>2. \A y \in Members(chan'[x].receivers) : at'[y] = "select"
    <3> TAKE y \in Members(chan'[x].receivers)
    <3>1. y = r \/ (y \in Members(chan[x].receivers) /\ y \in Routines)
      BY <1>4, <2>1
    <3>2. y \in Members(chan[x].receivers) => at[y] = "select"
      BY <2>1 DEF ChannelWaits, OnlyWaiters
    <3> QED
      BY <1>6, <3>1, <3>2
  <2> QED
    BY <1>4, <2>1, <2>2 DEF ChannelWaits, OnlyWaiters, SendersWaitForRoom, Fits, HasRoom
<1>10. SelectWaits(r)'
  <2> SUFFICES ASSUME NEW c \in Members(q)
               PROVE  r \in Members(chan'[c].receivers) /\ ~ReadyLocked(chan'[c])
    BY <1>6 DEF SelectWaits
  <2>1. c \in Chans /\ ~ReadyLocked(chan[c])
    BY <1>2 DEF Members
  <2> QED
    BY <1>4, <2>1 DEF ReadyLocked
<1>11. SendWaits(r)'
  BY <1>6 DEF SendWaits
<1> QED
  BY <1>5, <1>7, <1>8, <1>9, <1>10, <1>11, StepWaits DEF Heeds

LEMMA SelectLoopWaits ==
  ASSUME IInv, WInv, NEW r \in Routines \ Sending, s.running = r, NEW q \in Seq(Chans),
         SelectLoop(r, q), UNCHANGED cancelled
  PROVE  WInv'
<1>1. CASE \E i \in DOMAIN q : ReadyLocked(chan[q[i]])
  <2> DEFINE c == FirstReady(q)
  <2>1. c \in Chans
    BY <1>1, FirstReadyIsReady
  <2> HIDE DEF c
  <2>2. CASE Drained(chan[c])
    <3>1. /\ Leave(r, "no") /\ s' = s
          /\ chan' = [d \in Chans |-> DropReceiverLocked(chan[d], r)]
      BY <1>1, <2>2 DEF SelectLoop, c
    <3> QED
      BY <3>1, DropAllWaits
  <2>3. CASE ~Drained(chan[c])
    <3>1. /\ at' = [at EXCEPT ![r] = "user"] /\ on' = [on EXCEPT ![r] = Nowhere]
          /\ taken' = taken \cup Members(ReleasedSender(chan[c]))
          /\ chan' = [d \in Chans |->
               DropReceiverLocked(IF d = c THEN AfterTake(chan[c]) ELSE chan[d], r)]
          /\ s' = WakeWaiters(s, ReleasedSender(chan[c]))
      BY <1>1, <2>3 DEF SelectLoop, c
    <3> QED
      BY <2>1, <2>3, <3>1, TakeWaits
  <2> QED
    BY <2>2, <2>3
<1>2. CASE ~ \E i \in DOMAIN q : ReadyLocked(chan[q[i]])
  <2>1. /\ chan' = [d \in Chans |->
            [DropReceiverLocked(chan[d], r) EXCEPT
               !.receivers = @ \o [i \in 1 .. Cardinality({i \in DOMAIN q : q[i] = d}) |-> r]]]
        /\ at' = [at EXCEPT ![r] = "select"] /\ on' = [on EXCEPT ![r] = q]
        /\ s' = ParkLocked(s, r) /\ taken' = taken
    BY <1>2 DEF SelectLoop
  <2> QED
    BY <1>2, <2>1, ParkInSelectWaits
<1> QED
  BY <1>1, <1>2

LEMMA SelectStepWaits ==
  ASSUME IInv, WInv, NEW r \in Routines, NEW q \in Selects, Select(r, q)
  PROVE  WInv'
<1>1. /\ at[r] = "user" /\ s.running = r /\ r \in Routines \ Sending
      /\ q \in Seq(Chans) /\ cancelled' = cancelled
  BY ChannelsAssumption DEF Select, InUserCode, Running, Sending
<1>2. CASE StopReason(r) # "no"
  <2>1. Leave(r, StopReason(r)) /\ s' = s /\ chan' = chan
    BY <1>2 DEF Select
  <2> QED
    BY <1>1, <2>1, NotQueuedDrops, LeaveWaits
<1>3. CASE StopReason(r) = "no"
  BY <1>1, <1>3, SelectLoopWaits DEF Select
<1> QED
  BY <1>2, <1>3

LEMMA ResumeSelectWaits ==
  ASSUME IInv, WInv, NEW r \in Routines, ResumeSelect(r)
  PROVE  WInv'
<1>1. /\ s.running = r /\ r \in Routines \ Sending /\ on[r] \in Seq(Chans)
      /\ cancelled' = cancelled
  BY DEF ResumeSelect, Running, Sending, IInv, TypeInv, ChannelTypes
<1>2. CASE StopReason(r) # "no"
  <2>1. /\ Leave(r, StopReason(r)) /\ s' = s
        /\ chan' = [d \in Chans |-> DropReceiverLocked(chan[d], r)]
    BY <1>2 DEF ResumeSelect
  <2> QED
    BY <1>1, <2>1, DropAllWaits
<1>3. CASE StopReason(r) = "no"
  BY <1>1, <1>3, SelectLoopWaits DEF ResumeSelect
<1> QED
  BY <1>2, <1>3


-----------------------------------------------------------------------------
(* Every step                                                               *)

LEMMA InitWaits == Init => WInv
<1> SUFFICES ASSUME Init PROVE WInv
  OBVIOUS
<1>1. Lock(s)
  BY NewLock DEF Init, CrewInit
<1>2. \A r \in Routines : at[r] \notin {"send", "select"}
  BY DEF Init, CrewInit
<1>3. ASSUME NEW c \in Chans
      PROVE  /\ chan[c].senders = << >> /\ chan[c].receivers = << >> /\ chan[c].buf = << >>
             /\ chan[c].capacity \in Nat
  <2>1. PICK capacity \in [Chans \ Timers -> Capacities] :
          chan = [d \in Chans |-> NewChannel(IF d \in Timers THEN 1 ELSE capacity[d])]
    BY DEF Init
  <2> DEFINE n == IF c \in Timers THEN 1 ELSE capacity[c]
  <2>2. n \in Nat
    BY ChannelsAssumption
  <2>3. chan[c] = NewChannel(n)
    BY <2>1
  <2> HIDE DEF n
  <2> QED
    BY <2>2, <2>3 DEF NewChannel
<1>4. \A c \in Chans : ChannelWaits(c)
  <2> TAKE c \in Chans
  <2>1. Members(<< >>) = {} /\ Len(<< >>) = 0
    BY DEF Members
  <2> QED
    BY <1>3, <2>1 DEF ChannelWaits, OnlyWaiters, SendersWaitForRoom, Fits
<1> QED
  BY <1>1, <1>2, <1>4 DEF WInv, SelectWaits, SendWaits

LEMMA NextWaits == IInv /\ WInv /\ [Next]_vars => WInv'
<1> SUFFICES ASSUME IInv, WInv, [Next]_vars PROVE WInv'
  OBVIOUS
<1>1. ASSUME NEW r \in Routines, RoutineStep(r) PROVE WInv'
  <2>1. CASE \E c \in Chans : Send(r, c) \/ Close(r, c)
    BY <2>1, SendStepWaits, CloseStepWaits
  <2>2. CASE \E q \in Selects : Select(r, q)
    BY <2>2, SelectStepWaits
  <2>3. CASE \E t \in Timers : After(r, t)
    BY <2>3, AfterWaits
  <2>4. CASE ResumeSend(r)
    BY <2>4, ResumeSendWaits
  <2>5. CASE ResumeSelect(r)
    BY <2>5, ResumeSelectWaits
  <2>6. CASE CrewStep(r) /\ UNCHANGED channelVars
    BY <2>6, CrewWaits
  <2> QED
    BY <1>1, <2>1, <2>2, <2>3, <2>4, <2>5, <2>6 DEF RoutineStep
<1>2. ASSUME UNCHANGED vars PROVE WInv'
  BY <1>2 DEF vars, crewVars, flowVars, channelVars, callVars, WInv, Lock, MidLock,
              SelectWaits, SendWaits, ChannelWaits, OnlyWaiters, SendersWaitForRoom, Fits,
              Target
<1> QED
  BY <1>1, <1>2, TimerWaits DEF Next, Terminated

LEMMA WaitsInductive == Spec => [](IInv /\ WInv)
<1>1. Init => IInv /\ WInv
  BY InitHolds, InitWaits
<1>2. IInv /\ WInv /\ [Next]_vars => IInv' /\ WInv'
  BY NextHolds, NextWaits
<1> QED
  BY <1>1, <1>2, PTL DEF Spec

-----------------------------------------------------------------------------
(* The promise                                                              *)

LEMMA WaitsAreReal == IInv /\ WInv => NoLostWakeup
<1> SUFFICES ASSUME IInv, WInv, NEW r \in Routines
             PROVE  /\ Parked(r, "select") => \A c \in Members(on[r]) : ~ReadyLocked(chan[c])
                    /\ Parked(r, "send") =>
                         \A c \in Members(on[r]) :
                           /\ r \notin taken
                           /\ r \in Members(SenderRoutines(chan[c]))
                           /\ ~chan[c].closed /\ ~HasRoom(chan[c])
  BY DEF NoLostWakeup
<1>1. SelectWaits(r) /\ SendWaits(r)
  BY DEF WInv
<1>2. Parked(r, "select") => \A c \in Members(on[r]) : ~ReadyLocked(chan[c])
  BY <1>1 DEF Parked, SelectWaits
<1>3. ASSUME Parked(r, "send"), NEW c \in Members(on[r])
      PROVE  /\ r \notin taken /\ r \in Members(SenderRoutines(chan[c]))
             /\ ~chan[c].closed /\ ~HasRoom(chan[c])
  <2>1. c = Target(r) /\ c \in Chans
    <3>1. r \in Sending
      BY <1>3 DEF Sending, Parked
    <3>2. on[r] = << Target(r) >> /\ Target(r) \in Chans
      BY <3>1, TargetIsChannel DEF IInv, TypeInv, SendsAreCalls, Sending, Target
    <3> QED
      BY <3>2 DEF Members
  <2>2. r \notin taken /\ r \in QueuedIn(chan[c]) /\ ~chan[c].closed
    BY <1>1, <1>3, <2>1 DEF SendWaits, Parked
  <2>3. chan[c] \in Channel /\ ChannelWaits(c)
    BY <2>1, ListTypes DEF WInv
  <2>4. chan[c].senders # << >>
    BY <2>2 DEF QueuedIn, Members
  <2> DEFINE ch == chan[c]
  <2>5. Members(SenderRoutines(ch)) = QueuedIn(ch)
    <3> HIDE DEF ch
    <3> QED
      BY <2>3, SenderRoutinesQueued DEF ch
  <2> QED
    BY <2>2, <2>3, <2>4, <2>5 DEF ChannelWaits, SendersWaitForRoom
<1> QED
  BY <1>2, <1>3

\* No lost wake-up (channel.go, the wait lists and notifyLocked): a routine
\* parked in a select has nothing to take on any of its channels, and a parked
\* sender is still queued on a channel that is open and full, its value not
\* taken; for any number of routines, channels, timers and selects.
THEOREM NoLostWakeupHolds == Spec => []NoLostWakeup
<1>1. Spec => [](IInv /\ WInv)
  BY WaitsInductive
<1>2. IInv /\ WInv => NoLostWakeup
  BY WaitsAreReal
<1> QED
  BY <1>1, <1>2, PTL


-----------------------------------------------------------------------------
(* The promise of FifoChannel                                               *)

\* Sequence q without its entry at place k.
Minus(q, k) == [i \in 1 .. Len(q) - 1 |-> IF i < k THEN q[i] ELSE q[i + 1]]

LEMMA MinusIsSeq ==
  ASSUME NEW T, NEW q \in Seq(T), NEW k \in 1 .. Len(q)
  PROVE  Minus(q, k) \in Seq(T) /\ Len(Minus(q, k)) = Len(q) - 1
<1> DEFINE n == Len(q)
           m == Minus(q, k)
<1>1. n \in Nat /\ n > 0 /\ \A i \in 1 .. n : q[i] \in T
  BY LenProperties, ElementOfSeq
<1>2. \A i \in 1 .. n - 1 : i \in 1 .. n /\ i + 1 \in 1 .. n
  BY <1>1
<1>3. n - 1 \in Nat /\ m \in [1 .. n - 1 -> T]
  BY <1>1, <1>2 DEF Minus
<1> HIDE DEF n, m
<1>4. m \in Seq(T) /\ Len(m) = n - 1
  BY <1>3
<1> QED
  BY <1>4 DEF m, n

LEMMA MinusIsSubSeqs ==
  ASSUME NEW T, NEW q \in Seq(T), NEW k \in 1 .. Len(q)
  PROVE  SubSeq(q, 1, k - 1) \o SubSeq(q, k + 1, Len(q)) = Minus(q, k)
<1> DEFINE n == Len(q)
           a == SubSeq(q, 1, k - 1)
           b == SubSeq(q, k + 1, n)
           m == Minus(q, k)
<1>1. n \in Nat /\ k \in 1 .. n /\ \A i \in 1 .. n : q[i] \in T
  BY LenProperties, ElementOfSeq
<1>2. m \in Seq(T) /\ Len(m) = n - 1 /\ \A i \in 1 .. n - 1 : m[i] = IF i < k THEN q[i] ELSE q[i + 1]
  BY MinusIsSeq DEF Minus
<1>3. a \in Seq(T) /\ Len(a) = k - 1 /\ \A i \in 1 .. k - 1 : a[i] = q[i]
  <2>1. \A i \in 1 .. k - 1 : q[i] \in T
    BY <1>1
  <2>2. 1 \in Int /\ k - 1 \in Int
    BY <1>1
  <2>3. /\ SubSeq(q, 1, k - 1) \in Seq(T)
        /\ Len(SubSeq(q, 1, k - 1)) = IF 1 <= k - 1 THEN k - 1 - 1 + 1 ELSE 0
        /\ \A i \in 1 .. k - 1 - 1 + 1 : SubSeq(q, 1, k - 1)[i] = q[1 + i - 1]
    BY <2>1, <2>2, SubSeqProperties
  <2> HIDE DEF n
  <2> QED
    BY <1>1, <2>3
<1>4. b \in Seq(T) /\ Len(b) = n - k /\ \A i \in 1 .. n - k : b[i] = q[k + i]
  <2>1. \A i \in k + 1 .. n : q[i] \in T
    BY <1>1
  <2>2. n \in Int /\ k + 1 \in Int
    BY <1>1
  <2> HIDE DEF n
  <2>3. /\ SubSeq(q, k + 1, n) \in Seq(T)
        /\ Len(SubSeq(q, k + 1, n)) = IF k + 1 <= n THEN n - (k + 1) + 1 ELSE 0
        /\ \A i \in 1 .. n - (k + 1) + 1 : SubSeq(q, k + 1, n)[i] = q[k + 1 + i - 1]
    BY <2>1, <2>2, SubSeqProperties
  <2> QED
    BY <1>1, <2>3
<1> DEFINE c == a \o b
<1> HIDE DEF n, a, b, m
<1>5. /\ c \in Seq(T) /\ Len(c) = n - 1
      /\ \A i \in 1 .. n - 1 : c[i] = IF i <= k - 1 THEN a[i] ELSE b[i - (k - 1)]
  <2>1. /\ c \in Seq(T) /\ Len(c) = Len(a) + Len(b)
        /\ \A i \in 1 .. Len(a) + Len(b) : c[i] = IF i <= Len(a) THEN a[i] ELSE b[i - Len(a)]
    BY <1>3, <1>4, ConcatProperties
  <2>2. Len(a) + Len(b) = n - 1
    BY <1>1, <1>3, <1>4
  <2> QED
    BY <1>3, <2>1, <2>2
<1> HIDE DEF c
<1>6. ASSUME NEW i \in 1 .. n - 1 PROVE c[i] = m[i]
  <2>1. CASE i < k
    BY <1>1, <1>2, <1>3, <1>5, <2>1
  <2>2. CASE ~(i < k)
    <3>1. i - (k - 1) \in 1 .. n - k /\ k + (i - (k - 1)) = i + 1 /\ ~(i <= k - 1)
      BY <1>1, <2>2
    <3> QED
      BY <1>2, <1>4, <1>5, <2>2, <3>1
  <2> QED
    BY <2>1, <2>2
<1>7. c = m
  BY <1>2, <1>5, <1>6, SeqEqual
<1> QED
  BY <1>7 DEF c, a, b, m, n

LEMMA MinusBehind ==
  ASSUME NEW T, NEW a \in Seq(T), NEW b \in Seq(T), NEW k \in 1 .. Len(b)
  PROVE  Minus(a \o b, Len(a) + k) = a \o Minus(b, k)
<1> DEFINE c == a \o b
           n == Len(a)
           j == n + k
           m == Minus(c, j)
           d == Minus(b, k)
           e == a \o d
<1>1. n \in Nat /\ Len(b) \in Nat /\ k \in 1 .. Len(b)
  BY LenProperties
<1>2. /\ c \in Seq(T) /\ Len(c) = n + Len(b)
      /\ \A i \in 1 .. n + Len(b) : c[i] = IF i <= n THEN a[i] ELSE b[i - n]
  BY ConcatProperties
<1> HIDE DEF c
<1>3. d \in Seq(T) /\ Len(d) = Len(b) - 1
  BY MinusIsSeq
<1>4. \A i \in 1 .. Len(b) - 1 : d[i] = IF i < k THEN b[i] ELSE b[i + 1]
  BY DEF Minus
<1>5. j \in 1 .. Len(c)
  BY <1>1, <1>2
<1>6. m \in Seq(T) /\ Len(m) = Len(c) - 1
  <2> HIDE DEF j
  <2> QED
    BY <1>2, <1>5, MinusIsSeq
<1>7. \A i \in 1 .. Len(c) - 1 : m[i] = IF i < j THEN c[i] ELSE c[i + 1]
  BY DEF Minus
<1> HIDE DEF d, m
<1>8. /\ e \in Seq(T) /\ Len(e) = n + Len(d)
      /\ \A i \in 1 .. n + Len(d) : e[i] = IF i <= n THEN a[i] ELSE d[i - n]
  BY <1>3, ConcatProperties
<1> HIDE DEF e, n
<1>9. Len(m) = n + Len(b) - 1 /\ Len(e) = n + Len(b) - 1
  BY <1>1, <1>2, <1>3, <1>6, <1>8
<1>10. ASSUME NEW i \in 1 .. n + Len(b) - 1 PROVE m[i] = e[i]
  <2>1. /\ m[i] = IF i < j THEN c[i] ELSE c[i + 1]
        /\ e[i] = IF i <= n THEN a[i] ELSE d[i - n]
        /\ i \in 1 .. n + Len(b) /\ i + 1 \in 1 .. n + Len(b)
    BY <1>1, <1>2, <1>3, <1>7, <1>8
  <2>2. CASE i <= n
    BY <1>1, <1>2, <2>1, <2>2
  <2>3. CASE ~(i <= n) /\ i < j
    <3>1. i - n \in 1 .. Len(b) - 1 /\ i - n < k
      BY <1>1, <2>3
    <3> QED
      BY <1>2, <1>4, <2>1, <2>3, <3>1
  <2>4. CASE ~(i <= n) /\ ~(i < j)
    <3>1. /\ i - n \in 1 .. Len(b) - 1 /\ ~(i - n < k) /\ (i + 1) - n = (i - n) + 1
          /\ ~(i + 1 <= n)
      BY <1>1, <2>4
    <3> QED
      BY <1>2, <1>4, <2>1, <2>4, <3>1
  <2> QED
    BY <2>2, <2>3, <2>4
<1>11. m = e
  BY <1>6, <1>8, <1>9, <1>10, SeqEqual
<1> QED
  BY <1>11 DEF m, e, c, d, n

\* The places in 1 .. n but k, counted from the first.
LEMMA AscendingMinus ==
  ASSUME NEW n \in Nat, NEW k \in 1 .. n
  PROVE  LET p == Ascending(1 .. n \ {k})
         IN  /\ p \in Seq(1 .. n \ {k}) /\ Len(p) = n - 1
             /\ \A j \in 1 .. n - 1 : p[j] = IF j < k THEN j ELSE j + 1
<1> DEFINE S == 1 .. n \ {k}
           p == Ascending(S)
<1>1. IsFiniteSet(1 .. n) /\ Cardinality(1 .. n) = n
  BY FS_Interval
<1>2. S \in SUBSET Int /\ IsFiniteSet(S) /\ Cardinality(S) = n - 1
  <2> DEFINE I == 1 .. n
  <2>1. S = I \ {k} /\ k \in I /\ S \in SUBSET Int /\ IsFiniteSet(I) /\ Cardinality(I) = n
    BY <1>1
  <2> HIDE DEF S, I
  <2>2. IsFiniteSet(I \ {k}) /\ Cardinality(I \ {k}) = Cardinality(I) - 1
    BY <2>1, FS_RemoveElement
  <2> QED
    BY <2>1, <2>2
<1>3. \A x \in 1 .. n : x < k => Cardinality({y \in S : y <= x}) = x
  <2> TAKE x \in 1 .. n
  <2>1. x < k => {y \in S : y <= x} = 1 .. x
    OBVIOUS
  <2>2. Cardinality(1 .. x) = x
    BY FS_Interval
  <2> QED
    BY <2>1, <2>2
<1>4. \A x \in 1 .. n : x > k => Cardinality({y \in S : y <= x}) = x - 1
  <2> TAKE x \in 1 .. n
  <2>1. x > k => {y \in S : y <= x} = (1 .. x) \ {k} /\ k \in 1 .. x
    OBVIOUS
  <2>2. Cardinality(1 .. x) = x /\ IsFiniteSet(1 .. x)
    BY FS_Interval
  <2>3. k \in 1 .. x => Cardinality((1 .. x) \ {k}) = x - 1
    BY <2>2, FS_RemoveElement
  <2> QED
    BY <2>1, <2>3
<1> HIDE DEF S
<1>5. /\ p \in Seq(S) /\ Len(p) = n - 1
      /\ \A j \in 1 .. n - 1 : Cardinality({y \in S : y <= p[j]}) = j
  BY <1>2, AscendingEnumerates
<1> HIDE DEF p
<1>6. ASSUME NEW j \in 1 .. n - 1 PROVE p[j] = IF j < k THEN j ELSE j + 1
  <2> DEFINE x == p[j]
  <2>1. x \in S
    BY <1>5, ElementOfSeq
  <2>2. x \in 1 .. n /\ x # k
    BY <2>1 DEF S
  <2>3. Cardinality({y \in S : y <= x}) = j
    BY <1>5
  <2> HIDE DEF x
  <2>4. x < k => x = j
    BY <1>3, <2>2, <2>3
  <2>5. x > k => x - 1 = j
    BY <1>4, <2>2, <2>3
  <2>6. x = IF j < k THEN j ELSE j + 1
    BY <2>2, <2>4, <2>5
  <2> QED
    BY <2>6 DEF x
<1> QED
  BY <1>5, <1>6 DEF p, S


\* What a send, a receive, a withdrawal and a close do to the queue of channel
\* ch, which becomes d; or nothing that its users could see.
QueueOf(ch) == ch.buf \o SenderValues(ch)

Puts(ch, d) ==
  /\ ~ch.closed /\ Len(ch.buf) < ch.capacity /\ Len(ch.buf) = Len(QueueOf(ch))
  /\ \E v \in Values : QueueOf(d) = Append(QueueOf(ch), v)
  /\ Len(d.buf) = Len(ch.buf) + 1
  /\ d.closed = ch.closed /\ d.capacity = ch.capacity

Offers(ch, d) ==
  /\ ~ch.closed /\ Len(ch.buf) = ch.capacity
  /\ \E v \in Values : QueueOf(d) = Append(QueueOf(ch), v)
  /\ Len(d.buf) = Len(ch.buf)
  /\ d.closed = ch.closed /\ d.capacity = ch.capacity

Takes(ch, d, v) ==
  /\ QueueOf(ch) # << >> /\ v = Head(QueueOf(ch)) /\ QueueOf(d) = Tail(QueueOf(ch))
  /\ Len(d.buf) = IF Len(ch.buf) < Len(QueueOf(ch)) THEN Len(ch.buf) ELSE Len(ch.buf) - 1
  /\ d.closed = ch.closed /\ d.capacity = ch.capacity

Withdraws(ch, d) ==
  /\ \E i \in Len(ch.buf) + 1 .. Len(QueueOf(ch)) : QueueOf(d) = Minus(QueueOf(ch), i)
  /\ Len(d.buf) = Len(ch.buf)
  /\ d.closed = ch.closed /\ d.capacity = ch.capacity

Closes(ch, d) ==
  /\ ~ch.closed /\ d.closed
  /\ QueueOf(d) = QueueOf(ch) /\ Len(d.buf) = Len(ch.buf) /\ d.capacity = ch.capacity

Stays(ch, d) ==
  /\ QueueOf(d) = QueueOf(ch) /\ Len(d.buf) = Len(ch.buf)
  /\ d.closed = ch.closed /\ d.capacity = ch.capacity

LEMMA QueueIsSeq ==
  ASSUME NEW ch \in Channel
  PROVE  /\ ch.buf \in Seq(Numbers) /\ SenderValues(ch) \in Seq(Numbers)
         /\ Len(SenderValues(ch)) = Len(ch.senders)
         /\ \A i \in 1 .. Len(ch.senders) : SenderValues(ch)[i] = ch.senders[i].value
         /\ QueueOf(ch) \in Seq(Numbers)
         /\ Len(QueueOf(ch)) = Len(ch.buf) + Len(ch.senders)
         /\ Len(ch.buf) \in Nat /\ Len(ch.senders) \in Nat
         /\ ch.senders = << >> => SenderValues(ch) = << >>
<1> DEFINE q == ch.senders
           e == SenderValues(ch)
           b == ch.buf
<1>1. /\ q \in Seq(SendWaiter) /\ DOMAIN q = 1 .. Len(q) /\ Len(q) \in Nat
      /\ \A i \in 1 .. Len(q) : q[i] \in SendWaiter
  <2>1. q \in Seq(SendWaiter)
    BY DEF Channel
  <2> HIDE DEF q
  <2> QED
    BY <2>1, LenProperties, ElementOfSeq
<1>2. b \in Seq(Numbers) /\ Len(b) \in Nat
  BY LenProperties DEF Channel
<1>3. e = [i \in DOMAIN q |-> q[i].value]
  BY DEF SenderValues
<1> HIDE DEF q, e, b
<1>4. \A i \in 1 .. Len(q) : q[i].value \in Numbers
  BY <1>1 DEF SendWaiter, Numbers
<1>5. e \in Seq(Numbers) /\ Len(e) = Len(q) /\ \A i \in 1 .. Len(q) : e[i] = q[i].value
  BY <1>1, <1>3, <1>4
<1>6. b \o e \in Seq(Numbers) /\ Len(b \o e) = Len(b) + Len(e)
  BY <1>2, <1>5, ConcatProperties
<1>7. q = << >> => e = << >>
  <2>1. q = << >> => Len(e) = 0
    BY <1>5
  <2> QED
    BY <1>5, <2>1, EmptySeq
<1> QED
  BY <1>1, <1>2, <1>5, <1>6, <1>7 DEF q, e, b, QueueOf

LEMMA PutPuts ==
  ASSUME NEW ch \in Channel, NEW v \in Values, HasRoom(ch), ~ch.closed, ch.senders = << >>
  PROVE  Puts(ch, Put(ch, v))
<1> DEFINE d == Put(ch, v)
           b == ch.buf
           f == Append(b, v)
<1>1. /\ b \in Seq(Numbers) /\ v \in Numbers /\ Len(b) \in Nat /\ SenderValues(ch) = << >>
  BY QueueIsSeq DEF Numbers
<1>2. d = [ch EXCEPT !.buf = f]
  BY DEF Put
<1> HIDE DEF d, f
<1>3. d.buf = f /\ d.senders = << >> /\ d.closed = ch.closed /\ d.capacity = ch.capacity
  BY <1>2 DEF Channel
<1>4. f \in Seq(Numbers) /\ Len(f) = Len(b) + 1
  BY <1>1, AppendProperties DEF f
<1>5. SenderValues(d) = << >>
  BY <1>3 DEF SenderValues
<1>6. QueueOf(ch) = b /\ QueueOf(d) = f
  BY <1>1, <1>3, <1>4, <1>5, ConcatEmptySeq DEF QueueOf
<1> HIDE DEF b
<1>7. QueueOf(d) = Append(QueueOf(ch), v)
  BY <1>6 DEF f
<1>8. Puts(ch, d)
  BY <1>3, <1>4, <1>6, <1>7 DEF Puts, HasRoom, b
<1> QED
  BY <1>8 DEF d

LEMMA AddOffers ==
  ASSUME NEW ch \in Channel, NEW r \in Routines, NEW v \in Values, ~HasRoom(ch), ~ch.closed,
         Len(ch.buf) <= ch.capacity
  PROVE  Offers(ch, AddSender(ch, r, v))
<1> DEFINE d == AddSender(ch, r, v)
           w == [routine |-> r, value |-> v]
           q == ch.senders
           p == Append(q, w)
           b == ch.buf
           e == SenderValues(ch)
           g == SenderValues(d)
<1>1. /\ b \in Seq(Numbers) /\ e \in Seq(Numbers) /\ Len(e) = Len(q)
      /\ \A i \in 1 .. Len(q) : e[i] = q[i].value
      /\ Len(b) \in Nat /\ Len(q) \in Nat /\ v \in Numbers /\ ch.capacity \in Nat
      /\ q \in Seq(SendWaiter) /\ w \in SendWaiter /\ w.value = v
  BY QueueIsSeq DEF Numbers, Channel, SendWaiter
<1>2. d = [ch EXCEPT !.senders = p]
  BY DEF AddSender
<1> HIDE DEF d, w, p
<1>3. /\ p \in Seq(SendWaiter) /\ Len(p) = Len(q) + 1 /\ p[Len(q) + 1] = w
      /\ \A i \in 1 .. Len(q) : p[i] = q[i]
  BY <1>1, AppendProperties DEF p
<1>4. /\ d \in Channel /\ d.buf = b /\ d.senders = p
      /\ d.closed = ch.closed /\ d.capacity = ch.capacity
  BY <1>2, <1>3 DEF Channel
<1>5. g \in Seq(Numbers) /\ Len(g) = Len(p) /\ \A i \in 1 .. Len(p) : g[i] = p[i].value
  BY <1>4, QueueIsSeq
<1> HIDE DEF e, g
<1>6. g = Append(e, v)
  <2> DEFINE f == Append(e, v)
  <2>1. /\ f \in Seq(Numbers) /\ Len(f) = Len(q) + 1 /\ f[Len(q) + 1] = v
        /\ \A i \in 1 .. Len(q) : f[i] = q[i].value
    BY <1>1, AppendProperties
  <2> HIDE DEF f, q
  <2>2. \A i \in 1 .. Len(q) + 1 : i \in 1 .. Len(q) \/ i = Len(q) + 1
    BY <1>1
  <2>3. \A i \in 1 .. Len(q) + 1 : g[i] = f[i]
    BY <1>1, <1>3, <1>5, <2>1, <2>2
  <2>4. g = f
    BY <1>3, <1>5, <2>1, <2>3, SeqEqual
  <2> QED
    BY <2>4 DEF f
<1>7. QueueOf(d) = Append(QueueOf(ch), v)
  <2> HIDE DEF b
  <2> DEFINE u == << v >>
  <2>1. u \in Seq(Numbers)
    BY <1>1
  <2>2. g = e \o u
    BY <1>1, <1>6, AppendIsConcat
  <2>3. b \o e \in Seq(Numbers)
    BY <1>1, ConcatProperties
  <2>4. Append(b \o e, v) = (b \o e) \o u
    BY <1>1, <2>3, AppendIsConcat
  <2> HIDE DEF u
  <2>5. (b \o e) \o u = b \o g
    BY <1>1, <2>1, <2>2, ConcatAssociative, SMTT(60)
  <2> QED
    BY <1>4, <2>4, <2>5 DEF QueueOf, e, g, b
<1>8. Len(ch.buf) = ch.capacity
  BY <1>1 DEF HasRoom
<1>9. Offers(ch, d)
  BY <1>4, <1>7, <1>8 DEF Offers
<1> QED
  BY <1>9 DEF d


\* The head of two sequences one after the other.
LEMMA TailOfConcat ==
  ASSUME NEW T, NEW a \in Seq(T), NEW b \in Seq(T), a # << >>
  PROVE  /\ a \o b # << >> /\ Head(a \o b) = Head(a)
         /\ Tail(a \o b) = Tail(a) \o b
<1> DEFINE c == a \o b
           t == Tail(a)
           u == Tail(c)
           e == t \o b
<1>1. Len(a) \in Nat /\ Len(a) > 0 /\ Len(b) \in Nat
  BY LenProperties, EmptySeq
<1>2. /\ c \in Seq(T) /\ Len(c) = Len(a) + Len(b)
      /\ \A i \in 1 .. Len(a) + Len(b) : c[i] = IF i <= Len(a) THEN a[i] ELSE b[i - Len(a)]
  BY ConcatProperties
<1>3. t \in Seq(T) /\ Len(t) = Len(a) - 1 /\ \A i \in 1 .. Len(a) - 1 : t[i] = a[i + 1]
  BY <1>1, HeadTailProperties
<1> HIDE DEF c, t
<1>4. c # << >>
  <2>1. Len(c) > 0
    BY <1>1, <1>2
  <2> QED
    BY <2>1, EmptySeq
<1>5. u \in Seq(T) /\ Len(u) = Len(c) - 1 /\ \A i \in 1 .. Len(c) - 1 : u[i] = c[i + 1]
  BY <1>2, <1>4, HeadTailProperties
<1>6. /\ e \in Seq(T) /\ Len(e) = Len(t) + Len(b)
      /\ \A i \in 1 .. Len(t) + Len(b) : e[i] = IF i <= Len(t) THEN t[i] ELSE b[i - Len(t)]
  BY <1>3, ConcatProperties
<1> HIDE DEF u, e
<1>7. Len(u) = Len(a) + Len(b) - 1 /\ Len(e) = Len(a) + Len(b) - 1
  BY <1>1, <1>2, <1>3, <1>5, <1>6
<1>8. ASSUME NEW i \in 1 .. Len(a) + Len(b) - 1 PROVE u[i] = e[i]
  <2>1. /\ u[i] = c[i + 1] /\ i + 1 \in 1 .. Len(a) + Len(b)
        /\ e[i] = IF i <= Len(t) THEN t[i] ELSE b[i - Len(t)]
    BY <1>1, <1>2, <1>3, <1>5, <1>6
  <2>2. CASE i <= Len(a) - 1
    <3>1. i \in 1 .. Len(a) - 1 /\ i + 1 <= Len(a) /\ i <= Len(t)
      BY <1>1, <1>3, <2>2
    <3> QED
      BY <1>2, <1>3, <2>1, <3>1
  <2>3. CASE ~(i <= Len(a) - 1)
    <3>1. ~(i + 1 <= Len(a)) /\ ~(i <= Len(t)) /\ (i + 1) - Len(a) = i - Len(t)
      BY <1>1, <1>3, <2>3
    <3> QED
      BY <1>2, <2>1, <3>1
  <2> QED
    BY <2>2, <2>3
<1>9. u = e
  BY <1>5, <1>6, <1>7, <1>8, SeqEqual
<1>10. Head(c) = Head(a)
  <2>1. c[1] = a[1]
    BY <1>1, <1>2
  <2> QED
    BY <2>1
<1> QED
  BY <1>4, <1>9, <1>10 DEF c, u, e, t

\* The values of the senders behind the first.
LEMMA SenderValuesOfTail ==
  ASSUME NEW ch \in Channel, NEW d \in Channel, ch.senders # << >>,
         d.senders = Tail(ch.senders)
  PROVE  /\ SenderValues(ch) # << >> /\ Head(SenderValues(ch)) = Head(ch.senders).value
         /\ SenderValues(d) = Tail(SenderValues(ch))
<1> DEFINE q == ch.senders
           p == d.senders
           e == SenderValues(ch)
           g == SenderValues(d)
           t == Tail(e)
<1>1. /\ e \in Seq(Numbers) /\ Len(e) = Len(q) /\ Len(q) \in Nat
      /\ \A i \in 1 .. Len(q) : e[i] = q[i].value
      /\ g \in Seq(Numbers) /\ Len(g) = Len(p)
      /\ \A i \in 1 .. Len(p) : g[i] = p[i].value
  BY QueueIsSeq
<1>2. q \in Seq(SendWaiter) /\ q # << >> /\ p = Tail(q)
  BY DEF Channel
<1> HIDE DEF q, p, e, g
<1>3. Len(q) > 0 /\ Len(p) = Len(q) - 1 /\ \A i \in 1 .. Len(q) - 1 : p[i] = q[i + 1]
  BY <1>2, HeadTailProperties, EmptySeq
<1>4. e # << >>
  BY <1>1, <1>3, EmptySeq
<1>5. t \in Seq(Numbers) /\ Len(t) = Len(e) - 1 /\ \A i \in 1 .. Len(e) - 1 : t[i] = e[i + 1]
  BY <1>1, <1>4, HeadTailProperties
<1> HIDE DEF t
<1>6. ASSUME NEW i \in 1 .. Len(q) - 1 PROVE g[i] = t[i]
  <2>1. i + 1 \in 1 .. Len(q)
    BY <1>1
  <2> QED
    BY <1>1, <1>3, <1>5, <2>1
<1>7. g = t
  BY <1>1, <1>3, <1>5, <1>6, SeqEqual
<1>8. Head(e) = Head(q).value
  <2>1. e[1] = q[1].value
    BY <1>1, <1>3
  <2> QED
    BY <2>1
<1> QED
  BY <1>4, <1>7, <1>8 DEF e, g, t, q

LEMMA TakeTakes ==
  ASSUME NEW ch \in Channel, ~Drained(ch), ch.senders # << >> => ~HasRoom(ch),
         Len(ch.buf) <= ch.capacity
  PROVE  Takes(ch, AfterTake(ch), TakenValue(ch))
<1> DEFINE b == ch.buf
           p == ch.senders
           w == Head(p)
           q == Tail(p)
           t == Tail(b)
           d == AfterTake(ch)
           e == SenderValues(ch)
           g == SenderValues(d)
           v == TakenValue(ch)
           all == QueueOf(ch)
<1>1. /\ b \in Seq(Numbers) /\ e \in Seq(Numbers) /\ Len(e) = Len(p)
      /\ Len(b) \in Nat /\ Len(p) \in Nat /\ ch.capacity \in Nat
      /\ all \in Seq(Numbers) /\ Len(all) = Len(b) + Len(p) /\ all = b \o e
      /\ p = << >> => e = << >>
  BY QueueIsSeq DEF Channel, QueueOf
<1>2. d \in Channel
  BY TakeMoves
<1>3. p \in Seq(SendWaiter) /\ (p # << >> => Len(p) > 0)
  <2>1. p \in Seq(SendWaiter)
    BY DEF Channel
  <2> HIDE DEF p
  <2> QED
    BY <2>1, EmptySeq
<1>4. b # << >> => Len(b) > 0 /\ t \in Seq(Numbers) /\ Len(t) = Len(b) - 1
  BY <1>1, HeadTailProperties, EmptySeq
<1>5. ASSUME b = << >>
      PROVE  Takes(ch, d, v)
  <2>1. p # << >> /\ d = [ch EXCEPT !.senders = q] /\ v = w.value
    BY <1>5 DEF Drained, AfterTake, TakenValue
  <2>2. d.buf = << >> /\ d.senders = q /\ d.closed = ch.closed /\ d.capacity = ch.capacity
    <3> HIDE DEF d, q
    <3> QED
      BY <1>5, <2>1 DEF Channel
  <2>3. e # << >> /\ Head(e) = w.value /\ g = Tail(e)
    <3> HIDE DEF d
    <3> QED
      BY <1>2, <2>1, <2>2, SenderValuesOfTail
  <2> HIDE DEF e, g, d, w, q, p, v
  <2>4. g \in Seq(Numbers)
    BY <1>1, <2>3, HeadTailProperties
  <2>5. all = e /\ QueueOf(d) = g
    BY <1>1, <1>5, <2>2, <2>4, ConcatEmptySeq DEF QueueOf, g
  <2>6. Len(d.buf) = 0 /\ Len(b) = 0
    BY <1>5, <2>2
  <2> HIDE DEF all, b
  <2>7. Len(b) < Len(all)
    BY <1>1, <1>3, <2>1, <2>6
  <2> QED
    BY <2>1, <2>2, <2>3, <2>5, <2>6, <2>7 DEF Takes, all, b
<1>6. ASSUME b # << >>, Refills(ch)
      PROVE  Takes(ch, d, v)
  <2> DEFINE x == w.value
             f == Append(t, x)
             u == << x >>
  <2>1. p # << >> /\ d = [ch EXCEPT !.buf = f, !.senders = q] /\ v = Head(b)
    BY <1>6 DEF Refills, AfterTake, TakenValue
  <2>2. x \in Numbers
    <3>1. w \in SendWaiter
      BY <2>1, FirstSenderLeaves
    <3> QED
      BY <3>1 DEF SendWaiter, Numbers
  <2>3. d.buf = f /\ d.senders = q /\ d.closed = ch.closed /\ d.capacity = ch.capacity
    <3> HIDE DEF d, q, f
    <3> QED
      BY <2>1 DEF Channel
  <2>4. e # << >> /\ Head(e) = x /\ g = Tail(e)
    <3> HIDE DEF d
    <3> QED
      BY <1>2, <2>1, <2>3, SenderValuesOfTail
  <2> HIDE DEF x
  <2>5. f \in Seq(Numbers) /\ Len(f) = Len(t) + 1 /\ f = t \o u /\ u \in Seq(Numbers)
    BY <1>4, <1>6, <2>2, AppendProperties, AppendIsConcat
  <2> HIDE DEF e, g, d, w, q, p, f, t, u
  <2>6. g \in Seq(Numbers) /\ e = u \o g
    <3>1. g \in Seq(Numbers) /\ Len(g) = Len(e) - 1 /\ \A i \in 1 .. Len(g) : g[i] = e[i + 1]
      BY <1>1, <2>4, HeadTailProperties
    <3>2. Len(u) = 1 /\ u[1] = e[1] /\ Len(e) > 0 /\ Len(e) \in Nat
      BY <1>1, <1>3, <2>1, <2>4 DEF u
    <3> DEFINE z == u \o g
    <3>3. /\ z \in Seq(Numbers) /\ Len(z) = Len(u) + Len(g)
          /\ \A i \in 1 .. Len(u) + Len(g) : z[i] = IF i <= Len(u) THEN u[i] ELSE g[i - Len(u)]
      BY <2>5, <3>1, ConcatProperties
    <3> HIDE DEF z
    <3>4. ASSUME NEW i \in 1 .. Len(e) PROVE e[i] = z[i]
      <4>1. CASE i = 1
        BY <3>1, <3>2, <3>3, <4>1
      <4>2. CASE i # 1
        <5>1. i - 1 \in 1 .. Len(g) /\ ~(i <= Len(u)) /\ i \in 1 .. Len(u) + Len(g)
          BY <3>1, <3>2, <4>2
        <5> QED
          BY <3>1, <3>2, <3>3, <5>1
      <4> QED
        BY <4>1, <4>2
    <3>5. e = z
      BY <1>1, <3>1, <3>2, <3>3, <3>4, SeqEqual
    <3> QED
      BY <3>1, <3>5 DEF z
  <2>7. all # << >> /\ Head(all) = Head(b) /\ Tail(all) = t \o e
    BY <1>1, <1>6, TailOfConcat, ZenonT(60) DEF t
  <2>8. QueueOf(d) = Tail(all)
    <3>1. (t \o u) \o g = t \o (u \o g)
      BY <1>4, <1>6, <2>5, <2>6, ConcatAssociative
    <3> QED
      BY <2>3, <2>5, <2>6, <2>7, <3>1 DEF QueueOf, g
  <2>9. Len(d.buf) = Len(b) /\ Len(b) < Len(all)
    <3> HIDE DEF b, all
    <3> QED
      BY <1>1, <1>3, <1>4, <1>6, <2>1, <2>3, <2>5
  <2> QED
    BY <2>1, <2>3, <2>7, <2>8, <2>9 DEF Takes
<1>7. ASSUME b # << >>, ~Refills(ch)
      PROVE  Takes(ch, d, v)
  <2>1. d = [ch EXCEPT !.buf = t] /\ v = Head(b)
    BY <1>7 DEF AfterTake, TakenValue
  <2>2. p = << >>
    BY <1>1, <1>4, <1>7 DEF Refills, HasRoom
  <2>3. d.buf = t /\ d.senders = p /\ d.closed = ch.closed /\ d.capacity = ch.capacity
    <3> HIDE DEF d, t
    <3> QED
      BY <2>1 DEF Channel
  <2>4. e = << >> /\ g = << >>
    BY <1>1, <1>2, <2>2, <2>3, QueueIsSeq
  <2> HIDE DEF e, g, d, p, t
  <2>5. all = b /\ QueueOf(d) = t
    BY <1>1, <1>4, <1>7, <2>3, <2>4, ConcatEmptySeq DEF QueueOf, g
  <2>6. Len(d.buf) = Len(b) - 1 /\ ~(Len(b) < Len(all))
    BY <1>1, <1>4, <1>7, <2>3, <2>5
  <2> QED
    BY <1>7, <2>1, <2>3, <2>5, <2>6 DEF Takes, t
<1> HIDE DEF d, v
<1>8. Takes(ch, d, v)
  BY <1>5, <1>6, <1>7
<1> QED
  BY <1>8 DEF d, v


\* A sender that is queued once and dropped withdraws its value.
LEMMA DropIsMinus ==
  ASSUME NEW ch \in Channel, Distinct(ch), NEW k \in 1 .. Len(ch.senders)
  PROVE  DropSenderLocked(ch, ch.senders[k].routine).senders = Minus(ch.senders, k)
<1> DEFINE q == ch.senders
           n == Len(q)
           r == q[k].routine
           S == {i \in DOMAIN q : q[i].routine # r}
           places == Ascending(S)
           e == Entries(q, S)
           m == Minus(q, k)
<1>1. q \in Seq(SendWaiter) /\ DOMAIN q = 1 .. n /\ n \in Nat /\ k \in 1 .. n
  BY LenProperties DEF Channel
<1>2. S = 1 .. n \ {k}
  BY <1>1 DEF Distinct
<1>3. DropSenderLocked(ch, r).senders = e
  BY DEF DropSenderLocked, Channel
<1>4. /\ places \in Seq(1 .. n \ {k}) /\ Len(places) = n - 1
      /\ \A j \in 1 .. n - 1 : places[j] = IF j < k THEN j ELSE j + 1
  <2> DEFINE A == Ascending(1 .. n \ {k})
  <2>1. places = A
    BY <1>2
  <2> HIDE DEF n, places
  <2>2. /\ A \in Seq(1 .. n \ {k}) /\ Len(A) = n - 1
        /\ \A j \in 1 .. n - 1 : A[j] = IF j < k THEN j ELSE j + 1
    BY <1>1, AscendingMinus
  <2> QED
    BY <2>1, <2>2
<1>5. DOMAIN places = 1 .. n - 1
  <2> HIDE DEF n, S, q, places
  <2> QED
    BY <1>4, LenProperties
<1>6. e = [j \in 1 .. n - 1 |-> q[places[j]]]
  <2>1. e = [j \in DOMAIN places |-> q[places[j]]]
    BY DEF Entries
  <2> HIDE DEF e, places
  <2> QED
    BY <1>5, <2>1
<1>7. m = [j \in 1 .. n - 1 |-> IF j < k THEN q[j] ELSE q[j + 1]]
  BY DEF Minus
<1>8. e = m
  <2> HIDE DEF e, m, places, S, q, n
  <2>1. \A j \in 1 .. n - 1 : q[places[j]] = IF j < k THEN q[j] ELSE q[j + 1]
    BY <1>4
  <2> QED
    BY <1>6, <1>7, <2>1
<1> QED
  BY <1>3, <1>8

LEMMA DropWithdraws ==
  ASSUME NEW ch \in Channel, Distinct(ch), NEW r \in QueuedIn(ch)
  PROVE  Withdraws(ch, DropSenderLocked(ch, r))
<1> DEFINE d == DropSenderLocked(ch, r)
           q == ch.senders
           p == d.senders
           e == SenderValues(ch)
           g == SenderValues(d)
           b == ch.buf
<1>1. PICK k \in 1 .. Len(q) : q[k].routine = r
  <2>1. DOMAIN q = 1 .. Len(q)
    BY LenProperties DEF Channel
  <2> QED
    BY <2>1 DEF QueuedIn, Members
<1>2. p = Minus(q, k)
  BY <1>1, DropIsMinus
<1>3. d \in Channel /\ d.buf = b /\ d.closed = ch.closed /\ d.capacity = ch.capacity
  BY DropSender
<1> HIDE DEF d
<1>4. /\ b \in Seq(Numbers) /\ e \in Seq(Numbers) /\ Len(e) = Len(q) /\ Len(q) \in Nat
      /\ \A i \in 1 .. Len(q) : e[i] = q[i].value
      /\ Len(b) \in Nat /\ Len(QueueOf(ch)) = Len(b) + Len(q) /\ QueueOf(ch) = b \o e
  BY QueueIsSeq DEF QueueOf
<1>5. g \in Seq(Numbers) /\ Len(g) = Len(p) /\ \A i \in 1 .. Len(p) : g[i] = p[i].value
  BY <1>3, QueueIsSeq
<1>6. QueueOf(d) = b \o g
  BY <1>3 DEF QueueOf
<1>7. q \in Seq(SendWaiter)
  BY DEF Channel
<1> HIDE DEF q, p, e, g, b
<1>8. Len(p) = Len(q) - 1 /\ \A i \in 1 .. Len(q) - 1 : p[i] = IF i < k THEN q[i] ELSE q[i + 1]
  <2>1. Len(Minus(q, k)) = Len(q) - 1
    BY <1>7, MinusIsSeq
  <2> QED
    BY <1>2, <2>1 DEF Minus
<1> DEFINE m == Minus(e, k)
<1>9. m \in Seq(Numbers) /\ Len(m) = Len(e) - 1
  BY <1>4, MinusIsSeq
<1>10. \A i \in 1 .. Len(e) - 1 : m[i] = IF i < k THEN e[i] ELSE e[i + 1]
  BY DEF Minus
<1> HIDE DEF m
<1>11. ASSUME NEW i \in 1 .. Len(q) - 1 PROVE g[i] = m[i]
  <2>1. i \in 1 .. Len(q) /\ i + 1 \in 1 .. Len(q) /\ i \in 1 .. Len(p) /\ i \in 1 .. Len(e) - 1
    BY <1>4, <1>8
  <2> QED
    BY <1>4, <1>5, <1>8, <1>10, <2>1
<1>12. g = m
  BY <1>4, <1>5, <1>8, <1>9, <1>11, SeqEqual
<1>13. Minus(b \o e, Len(b) + k) = b \o m
  BY <1>4, MinusBehind DEF m
<1>14. Len(b) + k \in Len(b) + 1 .. Len(b) + Len(q)
  BY <1>4
<1>15. QueueOf(d) = Minus(QueueOf(ch), Len(b) + k)
  BY <1>4, <1>6, <1>12, <1>13
<1>16. Withdraws(ch, d)
  BY <1>3, <1>4, <1>14, <1>15 DEF Withdraws, b
<1> QED
  BY <1>16 DEF d

-----------------------------------------------------------------------------
(* Every step keeps the promise                                             *)

Promise(c) ==
  \/ /\ out'[c] = out[c]
     /\ \/ Puts(chan[c], chan'[c]) \/ Offers(chan[c], chan'[c])
        \/ Withdraws(chan[c], chan'[c]) \/ Closes(chan[c], chan'[c])
        \/ Stays(chan[c], chan'[c])
  \/ \E v \in Numbers : out'[c] = Append(out[c], v) /\ Takes(chan[c], chan'[c], v)

\* Nothing but the receivers of a channel changes.
SameQueue(ch, d) ==
  /\ d.buf = ch.buf /\ d.senders = ch.senders
  /\ d.closed = ch.closed /\ d.capacity = ch.capacity

LEMMA SameStays ==
  ASSUME NEW ch, NEW d, SameQueue(ch, d)
  PROVE  Stays(ch, d)
BY DEF SameQueue, Stays, QueueOf, SenderValues

LEMMA SendPromise ==
  ASSUME IInv, WInv, NEW r \in Routines, NEW x \in Chans, Send(r, x), NEW c \in Chans \ Timers
  PROVE  Promise(c)
<1> DEFINE v == sent[x] + 1
           ch == chan[x]
<1>1. /\ v \in Values /\ out' = out /\ chan \in [Chans -> Channel]
      /\ ChannelWaits(x) /\ ch \in Channel
  BY DEF Send, WInv, IInv, TypeInv, ChannelTypes
<1>2. CASE x # c
  <2>1. chan'[c] = chan[c]
    BY <1>1, <1>2 DEF Send
  <2> QED
    BY <1>1, <2>1, SameStays DEF Promise, SameQueue
<1>3. CASE x = c
  <2>1. Len(ch.buf) <= ch.capacity /\ (HasRoom(ch) => ch.senders = << >>)
    BY <1>1, <1>3 DEF ChannelWaits, Fits, SendersWaitForRoom
  <2>2. CASE StopReason(r) # "no" \/ ch.closed
    <3>1. chan' = chan
      BY <2>2 DEF Send
    <3> QED
      BY <1>1, <3>1, SameStays DEF Promise, SameQueue
  <2>3. CASE ~(StopReason(r) # "no" \/ ch.closed) /\ HasRoom(ch)
    <3>1. chan' = [chan EXCEPT ![x] = Put(@, v)]
      BY <2>3 DEF Send
    <3>2. chan'[x] = Put(ch, v)
      BY <1>1, <3>1
    <3> HIDE DEF ch, v
    <3>3. Puts(ch, Put(ch, v))
      BY <1>1, <2>1, <2>3, PutPuts
    <3> QED
      BY <1>1, <1>3, <3>2, <3>3 DEF Promise, ch
  <2>4. CASE ~(StopReason(r) # "no" \/ ch.closed) /\ ~HasRoom(ch)
    <3>1. chan' = [chan EXCEPT ![x] = AddSender(@, r, v)]
      BY <2>4 DEF Send
    <3>2. chan'[x] = AddSender(ch, r, v)
      BY <1>1, <3>1
    <3> HIDE DEF ch, v
    <3>3. Offers(ch, AddSender(ch, r, v))
      BY <1>1, <2>1, <2>4, AddOffers
    <3> QED
      BY <1>1, <1>3, <3>2, <3>3 DEF Promise, ch
  <2> QED
    BY <2>2, <2>3, <2>4
<1> QED
  BY <1>2, <1>3

LEMMA ResumeSendPromise ==
  ASSUME IInv, WInv, NEW r \in Routines, ResumeSend(r), NEW c \in Chans \ Timers
  PROVE  Promise(c)
<1> DEFINE x == Target(r)
           ch == chan[x]
           d == DropSenderLocked(ch, r)
<1>1. at[r] = "send" /\ r \in Sending
  BY DEF ResumeSend, Sending
<1>2. x \in Chans /\ ch \in Channel /\ Distinct(ch) /\ chan \in [Chans -> Channel]
  BY <1>1, TargetIsChannel, ListTypes DEF IInv, CallInv, QueuedWait, TypeInv, ChannelTypes
<1>3. /\ out' = out
      /\ (r \in taken /\ chan' = chan) \/ (r \notin taken /\ chan' = [chan EXCEPT ![x] = d])
  BY ResumeSendEnds
<1>4. r \notin taken => r \in QueuedIn(ch)
  BY <1>1 DEF WInv, SendWaits
<1>5. CASE chan'[c] = chan[c]
  BY <1>3, <1>5, SameStays DEF Promise, SameQueue
<1>6. CASE chan'[c] # chan[c]
  <2>1. r \notin taken /\ c = x /\ chan'[c] = d
    BY <1>2, <1>3, <1>6
  <2> HIDE DEF ch
  <2>2. Withdraws(ch, d)
    BY <1>2, <1>4, <2>1, DropWithdraws
  <2> QED
    BY <1>3, <2>1, <2>2 DEF Promise, ch
<1> QED
  BY <1>5, <1>6


LEMMA TakePromise ==
  ASSUME IInv, WInv, NEW r \in Routines, NEW x \in Chans, ~Drained(chan[x]),
         chan' = [d \in Chans |->
                   DropReceiverLocked(IF d = x THEN AfterTake(chan[x]) ELSE chan[d], r)],
         out' = [out EXCEPT ![x] = Append(@, TakenValue(chan[x]))],
         NEW c \in Chans \ Timers
  PROVE  Promise(c)
<1> DEFINE f == IF c = x THEN AfterTake(chan[x]) ELSE chan[c]
           e == chan'[c]
           ch == chan[c]
           v == TakenValue(ch)
<1>1. /\ ch \in Channel /\ ChannelWaits(c) /\ out \in [Chans -> Seq(Numbers)]
      /\ c \in Chans /\ c \notin Timers
  BY DEF WInv, IInv, TypeInv, ChannelTypes
<1>2. f \in Channel
  BY <1>1, TakeMoves
<1>3. e = DropReceiverLocked(f, r)
  OBVIOUS
<1> HIDE DEF f, e
<1>4. SameQueue(f, e)
  BY <1>2, <1>3, DropsReceiver DEF WithoutReceiver, SameQueue
<1>5. CASE c # x
  <2>1. f = ch /\ out'[c] = out[c]
    BY <1>1, <1>5 DEF f
  <2>2. Stays(ch, e)
    <3> HIDE DEF ch
    <3> QED
      BY <1>4, <2>1, SameStays
  <2> QED
    BY <2>1, <2>2 DEF Promise, e
<1>6. CASE c = x
  <2>1. f = AfterTake(ch) /\ ~Drained(ch) /\ out'[c] = Append(out[c], v)
    BY <1>1, <1>6 DEF f
  <2>2. (ch.senders # << >> => ~HasRoom(ch)) /\ Len(ch.buf) <= ch.capacity
    BY <1>1 DEF ChannelWaits, SendersWaitForRoom, Fits
  <2> HIDE DEF ch
  <2>3. Takes(ch, f, v) /\ v \in Numbers
    <3>1. Takes(ch, AfterTake(ch), TakenValue(ch))
      BY <1>1, <2>1, <2>2, TakeTakes
    <3>2. TakenValue(ch) \in Numbers
      BY <1>1, <2>1, TakeMoves
    <3> QED
      BY <2>1, <3>1, <3>2
  <2> HIDE DEF v
  <2>4. Takes(ch, e, v)
    BY <1>4, <2>3 DEF Takes, SameQueue, QueueOf, SenderValues
  <2> QED
    BY <2>1, <2>3, <2>4 DEF Promise, e, ch
<1> QED
  BY <1>5, <1>6

\* A select that takes nothing leaves every queue as it is.
LEMMA DropAllPromise ==
  ASSUME IInv, NEW r \in Routines, chan' = [d \in Chans |-> DropReceiverLocked(chan[d], r)],
         out' = out, NEW c \in Chans
  PROVE  Promise(c)
<1> DEFINE ch == chan[c]
           e == chan'[c]
<1>1. ch \in Channel /\ e = DropReceiverLocked(ch, r)
  BY DEF IInv, TypeInv, ChannelTypes
<1> HIDE DEF ch, e
<1>2. Stays(ch, e)
  BY <1>1, DropsReceiver, SameStays DEF WithoutReceiver, SameQueue
<1> QED
  BY <1>2 DEF Promise, ch, e

LEMMA ParkPromise ==
  ASSUME IInv, NEW r \in Routines, NEW q \in Seq(Chans),
         chan' = [d \in Chans |->
            [DropReceiverLocked(chan[d], r) EXCEPT
               !.receivers = @ \o [i \in 1 .. Cardinality({i \in DOMAIN q : q[i] = d}) |-> r]]],
         out' = out, NEW c \in Chans
  PROVE  Promise(c)
<1> DEFINE ch == chan[c]
           more == [i \in 1 .. Cardinality({i \in DOMAIN q : q[i] = c}) |-> r]
           f == DropReceiverLocked(ch, r)
           e == chan'[c]
<1>1. ch \in Channel /\ e = [f EXCEPT !.receivers = @ \o more]
  BY DEF IInv, TypeInv, ChannelTypes
<1> HIDE DEF ch, e, more
<1>2. WithoutReceiver(ch, f, r)
  BY <1>1, DropsReceiver
<1> HIDE DEF f
<1>3. SameQueue(ch, e)
  BY <1>1, <1>2 DEF WithoutReceiver, SameQueue, Channel
<1>4. Stays(ch, e)
  BY <1>3, SameStays
<1> QED
  BY <1>4 DEF Promise, ch, e

LEMMA SelectPromise ==
  ASSUME IInv, WInv, NEW r \in Routines, NEW q \in Seq(Chans), SelectLoop(r, q),
         NEW c \in Chans \ Timers
  PROVE  Promise(c)
<1>1. CASE \E i \in DOMAIN q : ReadyLocked(chan[q[i]])
  <2> DEFINE x == FirstReady(q)
  <2>1. x \in Chans
    BY <1>1, FirstReadyIsReady
  <2> HIDE DEF x
  <2>2. CASE Drained(chan[x])
    <3>1. out' = out /\ chan' = [d \in Chans |-> DropReceiverLocked(chan[d], r)]
      BY <1>1, <2>2 DEF SelectLoop, x
    <3> QED
      BY <3>1, DropAllPromise
  <2>3. CASE ~Drained(chan[x])
    <3>1. /\ chan' = [d \in Chans |->
               DropReceiverLocked(IF d = x THEN AfterTake(chan[x]) ELSE chan[d], r)]
          /\ out' = [out EXCEPT ![x] = Append(@, TakenValue(chan[x]))]
      BY <1>1, <2>3 DEF SelectLoop, x
    <3> QED
      BY <2>1, <2>3, <3>1, TakePromise
  <2> QED
    BY <2>2, <2>3
<1>2. CASE ~ \E i \in DOMAIN q : ReadyLocked(chan[q[i]])
  <2>1. /\ chan' = [d \in Chans |->
            [DropReceiverLocked(chan[d], r) EXCEPT
               !.receivers = @ \o [i \in 1 .. Cardinality({i \in DOMAIN q : q[i] = d}) |-> r]]]
        /\ out' = out
    BY <1>2 DEF SelectLoop
  <2> QED
    BY <2>1, ParkPromise
<1> QED
  BY <1>1, <1>2

LEMMA UntouchedPromise ==
  ASSUME NEW c, out'[c] = out[c], chan'[c] = chan[c]
  PROVE  Promise(c)
BY SameStays DEF SameQueue, Promise

LEMMA ClosePromise ==
  ASSUME IInv, NEW r \in Routines, NEW x \in Chans, Close(r, x), NEW c \in Chans
  PROVE  Promise(c)
<1>1. out' = out /\ chan[x] \in Channel /\ chan \in [Chans -> Channel]
  BY DEF Close, historyVars, IInv, TypeInv, ChannelTypes
<1>2. CASE chan'[c] = chan[c]
  BY <1>1, <1>2, UntouchedPromise
<1>3. CASE chan'[c] # chan[c]
  <2> DEFINE ch == chan[c]
             e == chan'[c]
  <2>1. c = x /\ ~ch.closed /\ e = [ch EXCEPT !.closed = TRUE] /\ ch \in Channel
    BY <1>1, <1>3 DEF Close
  <2> HIDE DEF ch, e
  <2>2. /\ e.buf = ch.buf /\ e.senders = ch.senders /\ e.closed /\ e.capacity = ch.capacity
    BY <2>1 DEF Channel
  <2>3. Closes(ch, e)
    BY <2>1, <2>2 DEF Closes, QueueOf, SenderValues
  <2> QED
    BY <1>1, <2>3 DEF Promise, ch, e
<1> QED
  BY <1>2, <1>3

LEMMA StepPromise ==
  ASSUME IInv, WInv, [Next]_vars, NEW c \in Chans \ Timers
  PROVE  Promise(c)
<1>1. ASSUME NEW r \in Routines, RoutineStep(r) PROVE Promise(c)
  <2>1. CASE \E x \in Chans : Send(r, x) \/ Close(r, x)
    BY <2>1, SendPromise, ClosePromise
  <2>2. CASE \E q \in Selects : Select(r, q)
    <3>1. PICK q \in Selects : Select(r, q)
      BY <2>2
    <3>2. q \in Seq(Chans)
      BY ChannelsAssumption
    <3>3. CASE StopReason(r) # "no"
      BY <3>1, <3>3, UntouchedPromise DEF Select
    <3>4. CASE StopReason(r) = "no"
      BY <3>1, <3>2, <3>4, SelectPromise DEF Select
    <3> QED
      BY <3>3, <3>4
  <2>3. CASE \E t \in Timers : After(r, t)
    BY <2>3, UntouchedPromise DEF After, historyVars
  <2>4. CASE ResumeSend(r)
    BY <2>4, ResumeSendPromise
  <2>5. CASE ResumeSelect(r)
    <3>1. on[r] \in Seq(Chans)
      BY DEF IInv, TypeInv, ChannelTypes
    <3>2. CASE StopReason(r) # "no"
      BY <2>5, <3>2, DropAllPromise DEF ResumeSelect
    <3>3. CASE StopReason(r) = "no"
      BY <2>5, <3>1, <3>3, SelectPromise DEF ResumeSelect
    <3> QED
      BY <3>2, <3>3
  <2>6. CASE CrewStep(r) /\ UNCHANGED channelVars
    BY <2>6, UntouchedPromise DEF channelVars, historyVars
  <2> QED
    BY <1>1, <2>1, <2>2, <2>3, <2>4, <2>5, <2>6 DEF RoutineStep
<1>2. ASSUME NEW t \in Timers, TimerStep(t) PROVE Promise(c)
  <2>1. out' = out /\ c # t
    BY <1>2 DEF TimerStep, TimerDelivers, TimerCloses, TimerDisarms, historyVars
  <2>2. chan \in [Chans -> Channel]
    BY DEF IInv, TypeInv, ChannelTypes
  <2>3. chan'[c] = chan[c]
    BY <1>2, <2>1, <2>2 DEF TimerStep, TimerDelivers, TimerCloses, TimerDisarms
  <2> QED
    BY <2>1, <2>3, UntouchedPromise
<1>3. ASSUME UNCHANGED vars PROVE Promise(c)
  BY <1>3, UntouchedPromise DEF vars, channelVars, historyVars
<1> QED
  BY <1>1, <1>2, <1>3 DEF Next, Terminated

\* Channels implements FifoChannel (ZE-025, Channels): whatever is cancelled,
\* closed or selected, a channel that is no timer behaves as a bounded queue
\* whose values leave in the order of the sends, each once, and from which only
\* a sender that is still waiting can withdraw its own.
THEOREM PromiseKept ==
  ASSUME \E c \in Chans : c \notin Timers
  PROVE  Spec => KeepsFifoPromise
<1>1. Plain \in Chans \ Timers
  BY DEF Plain
<1>2. Init => Fifo!Init
  <2> SUFFICES ASSUME Init PROVE Fifo!Init
    OBVIOUS
  <2> DEFINE c == Plain
  <2>1. PICK capacity \in [Chans \ Timers -> Capacities] :
          chan = [d \in Chans |-> NewChannel(IF d \in Timers THEN 1 ELSE capacity[d])]
    BY DEF Init
  <2> DEFINE n == capacity[c]
  <2>2. n \in Nat /\ chan[c] = NewChannel(n) /\ out[c] = << >>
    BY <1>1, <2>1, ChannelsAssumption DEF Init
  <2> HIDE DEF n, c
  <2>3. /\ chan[c].buf = << >> /\ chan[c].senders = << >> /\ chan[c].closed = FALSE
        /\ chan[c].capacity \in Nat
    BY <2>2 DEF NewChannel
  <2>4. SenderValues(chan[c]) = << >>
    BY <2>3 DEF SenderValues
  <2>5. Queue(c) = << >> /\ Len(chan[c].buf) = 0
    BY <2>3, <2>4 DEF Queue
  <2> QED
    BY <2>2, <2>3, <2>5 DEF Fifo!Init, c
<1>3. IInv /\ WInv /\ [Next]_vars => [Fifo!Next]_(Fifo!fifoVars)
  <2> SUFFICES ASSUME IInv, WInv, [Next]_vars PROVE [Fifo!Next]_(Fifo!fifoVars)
    OBVIOUS
  <2> DEFINE c == Plain
             ch == chan[c]
             e == chan'[c]
  <2>1. Promise(c) /\ ch \in Channel
    BY <1>1, StepPromise DEF IInv, TypeInv, ChannelTypes
  <2>2. Queue(c) = QueueOf(ch) /\ Queue(c)' = QueueOf(e)
    BY DEF Queue, QueueOf, SenderValues
  <2> HIDE DEF c
  <2>3. CASE out'[c] = out[c] /\ Puts(ch, e)
    BY <2>2, <2>3 DEF Puts, Fifo!Put, Fifo!Next, c
  <2>4. CASE out'[c] = out[c] /\ Offers(ch, e)
    BY <2>2, <2>4 DEF Offers, Fifo!Offer, Fifo!Next, c
  <2>5. CASE out'[c] = out[c] /\ Withdraws(ch, e)
    <3>1. PICK i \in Len(ch.buf) + 1 .. Len(QueueOf(ch)) : QueueOf(e) = Minus(QueueOf(ch), i)
      BY <2>5 DEF Withdraws
    <3>2. QueueOf(ch) \in Seq(Numbers) /\ i \in 1 .. Len(QueueOf(ch))
      <4>1. QueueOf(ch) \in Seq(Numbers) /\ Len(ch.buf) \in Nat
        <5> HIDE DEF ch
        <5> QED
          BY <2>1, QueueIsSeq
      <4>2. Len(QueueOf(ch)) \in Nat
        BY <4>1, LenProperties
      <4> QED
        BY <4>1, <4>2
    <3>3. QueueOf(e) =
            SubSeq(QueueOf(ch), 1, i - 1) \o SubSeq(QueueOf(ch), i + 1, Len(QueueOf(ch)))
      BY <3>1, <3>2, MinusIsSubSeqs
    <3> QED
      BY <2>2, <2>5, <3>1, <3>3 DEF Withdraws, Fifo!Withdraw, Fifo!Next, c
  <2>6. CASE out'[c] = out[c] /\ Closes(ch, e)
    BY <2>1, <2>2, <2>6 DEF Closes, Fifo!Close, Fifo!Next, Channel, c
  <2>7. CASE out'[c] = out[c] /\ Stays(ch, e)
    BY <2>2, <2>7 DEF Stays, Fifo!fifoVars, c
  <2>8. CASE \E v \in Numbers : out'[c] = Append(out[c], v) /\ Takes(ch, e, v)
    BY <2>2, <2>8 DEF Takes, Fifo!Take, Fifo!Next, c
  <2> QED
    BY <2>1, <2>3, <2>4, <2>5, <2>6, <2>7, <2>8 DEF Promise
<1>4. Spec => [](IInv /\ WInv)
  BY WaitsInductive
<1> QED
  BY <1>2, <1>3, <1>4, PTL DEF Spec, KeepsFifoPromise, Fifo!Spec

=============================================================================
