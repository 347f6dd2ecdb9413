---------------------- MODULE SubscriptionSession_proofs ----------------------
(***************************************************************************)
(* The safety invariants of SubscriptionSession, for any set of subscribe    *)
(* and unsubscribe requests, any limit and any faults.                       *)
(***************************************************************************)
EXTENDS SubscriptionSession, FiniteSetTheorems, TLAPS

Kinds == {"ack", "note", "end", "unsubscribed"}
Messages == [kind : Kinds, sub : Subs]

\* The messages that have entered the outgoing queue, without their order.
Queued == {out[n] : n \in DOMAIN out}

\* Somebody unsubscribed r and found it.
Dropped(r) == \E u \in Unsubs : target[u] = r /\ unsub[u] \in {"waiting", "done"}

\* A subscription that has not been acknowledged is not in the queue; one whose task
\* still lives is not yet ended; one whose task was started is acknowledged.
QueueFollowsTask ==
    \A r \in Subs :
        /\ sub[r] \in {"idle", "admitted", "acking", "refused"} =>
              \A k \in Kinds : Message(k, r) \notin Queued
        /\ Live(r) => /\ Message("end", r) \notin Queued
                      /\ Message("unsubscribed", r) \notin Queued
        /\ ~tooSlow /\ sub[r] \notin {"idle", "admitted", "acking", "refused"} =>
              Message("ack", r) \in Queued

\* While the connection is served, a task is cancelled only by an unsubscribe, and a
\* task that was not cancelled finishes by its terminal message.
StopsHaveAReason ==
    endpoint = "serving" => \A r \in Subs :
        /\ sub[r] \in {"cancelled", "stopping"} => Dropped(r)
        /\ ~tooSlow /\ sub[r] \in {"finished", "gone"} =>
              Message("end", r) \in Queued \/ Dropped(r)

\* Where the drain and the close have got to says what is left in the session.
PhasesEmptySession ==
    /\ drain \in {"subscriptions", "done"} =>
          acking = {} /\ \A r \in Subs : sub[r] # "admitted"
    /\ drain = "done" /\ endpoint \in {"serving", "handlers"} =>
          \A r \in Subs : ~Live(r)
    /\ endpoint \in {"subscriptions", "closed"} => acking = {} /\ tasks = {}
    /\ endpoint = "closed" => \A r \in Subs : ~Live(r)

SessionInv ==
    /\ TypeOK /\ LimitHeld /\ StreamOrder
    /\ QueueFollowsTask /\ StopsHaveAReason /\ PhasesEmptySession

-----------------------------------------------------------------------------
(* Sets of subscriptions, and the queue *)

\* Sets of subscriptions are finite; adding or removing one changes the size by one
\* at most.
LEMMA SubSets ==
    ASSUME NEW S \in SUBSET Subs, NEW r \in Subs
    PROVE  /\ Cardinality(S) \in Nat
           /\ Cardinality(S \cup {r}) <= Cardinality(S) + 1
           /\ Cardinality(S \ {r}) <= Cardinality(S)
           /\ r \in S => Cardinality(S \ {r}) = Cardinality(S) - 1
<1>1. IsFiniteSet(S)
  BY SubscriptionAssumption, FS_Subset
<1>2. Cardinality(S) \in Nat
  BY <1>1, FS_CardinalityType
<1>3. Cardinality(S \cup {r}) = IF r \in S THEN Cardinality(S) ELSE Cardinality(S) + 1
  BY <1>1, FS_AddElement
<1>4. Cardinality(S \ {r}) = IF r \in S THEN Cardinality(S) - 1 ELSE Cardinality(S)
  BY <1>1, FS_RemoveElement
<1> QED
  BY <1>2, <1>3, <1>4

\* What is queued after a message was put in the queue.
LEMMA QueuedAppend ==
    ASSUME out \in Seq(Messages), NEW k \in Kinds, NEW r \in Subs,
           out' = Append(out, Message(k, r))
    PROVE  /\ out' \in Seq(Messages)
           /\ Queued' = Queued \cup {Message(k, r)}
<1>1. Message(k, r) \in Messages
  BY DEF Message, Messages
<1>2. out' \in Seq(Messages) /\ Len(out') = Len(out) + 1 /\ Len(out) \in Nat
  BY <1>1
<1>3. /\ DOMAIN out = 1..Len(out) /\ DOMAIN out' = 1..(Len(out) + 1)
      /\ \A n \in 1..Len(out) : out'[n] = out[n]
      /\ out'[Len(out) + 1] = Message(k, r)
  BY <1>1, <1>2
<1>4. Queued' \subseteq Queued \cup {Message(k, r)}
  <2> SUFFICES ASSUME NEW n \in 1..(Len(out) + 1)
               PROVE  out'[n] \in Queued \cup {Message(k, r)}
    BY <1>3 DEF Queued
  <2>1. n \in 1..Len(out) \/ n = Len(out) + 1
    BY <1>2
  <2> QED
    BY <2>1, <1>3 DEF Queued
<1>5. Queued \subseteq Queued'
  <2> SUFFICES ASSUME NEW n \in 1..Len(out)
               PROVE  out[n] \in Queued'
    BY <1>3 DEF Queued
  <2>1. n \in DOMAIN out' /\ out'[n] = out[n]
    BY <1>2, <1>3
  <2> QED
    BY <2>1 DEF Queued
<1>6. Message(k, r) \in Queued'
  <2>1. Len(out) + 1 \in DOMAIN out'
    BY <1>2, <1>3
  <2> QED
    BY <2>1, <1>3 DEF Queued
<1> QED
  BY <1>2, <1>4, <1>5, <1>6

\* When a message may be put in the queue: an acknowledgement only as the first of
\* its subscription, a notification or terminal message only before any end, and
\* neither, nor the answer to unsubscribe, ahead of the acknowledgement.
MayQueue(k, r) ==
    /\ k = "ack" => \A j \in Kinds : Message(j, r) \notin Queued
    /\ k \in {"note", "end"} => /\ Message("end", r) \notin Queued
                                /\ Message("unsubscribed", r) \notin Queued
    /\ k # "ack" /\ ~tooSlow => Message("ack", r) \in Queued

\* A message queued where it may be keeps the order of its stream.
LEMMA OrderAppend ==
    ASSUME out \in Seq(Messages), NEW k \in Kinds, NEW r \in Subs,
           out' = Append(out, Message(k, r)), UNCHANGED tooSlow,
           StreamOrder, MayQueue(k, r)
    PROVE  StreamOrder'
<1>1. Message(k, r) \in Messages /\ Len(out) \in Nat
  BY DEF Message, Messages
<1>2. /\ DOMAIN out = 1..Len(out) /\ DOMAIN out' = 1..(Len(out) + 1)
      /\ \A n \in 1..Len(out) : out'[n] = out[n] /\ out[n] \in Messages
      /\ out'[Len(out) + 1] = Message(k, r)
  BY <1>1
<1>3. \A n \in 1..Len(out) : out[n] \in Queued
  BY <1>2 DEF Queued
<1>4. \A n \in 1..Len(out) :
        out[n].kind \in Kinds /\ out[n] = Message(out[n].kind, out[n].sub)
  BY <1>2 DEF Messages, Message
<1>5. ASSUME NEW m \in DOMAIN out', NEW n \in DOMAIN out' PROVE WellOrdered(m, n)'
  <2>1. CASE n \in 1..Len(out) /\ m \in 1..Len(out)
    <3>1. WellOrdered(m, n)
      BY <2>1, <1>2 DEF StreamOrder
    <3> QED
      BY <3>1, <2>1, <1>2 DEF WellOrdered
  <2>2. CASE n \in 1..Len(out) /\ m = Len(out) + 1
    BY <2>2, <1>1 DEF WellOrdered
  <2>3. CASE n = Len(out) + 1 /\ m = Len(out) + 1
    BY <2>3, <1>1 DEF WellOrdered
  <2>4. CASE n = Len(out) + 1 /\ m \in 1..Len(out)
    <3> SUFFICES ASSUME out[m].sub = r
                 PROVE  /\ k # "ack"
                        /\ k \in {"note", "end"} => out[m].kind \in {"ack", "note"}
      BY <2>4, <1>2 DEF WellOrdered, Message
    <3>1. out[m].kind \in Kinds /\ Message(out[m].kind, r) \in Queued
      BY <2>4, <1>3, <1>4
    <3> QED
      BY <3>1 DEF MayQueue, Kinds
  <2> QED
    BY <1>1, <1>2, <2>1, <2>2, <2>3, <2>4
<1>6. ASSUME ~tooSlow, NEW n \in DOMAIN out', out'[n].kind # "ack"
      PROVE  \E m \in 1..(n - 1) : out'[m] = Message("ack", out'[n].sub)
  <2>1. CASE n \in 1..Len(out)
    <3>1. PICK m \in 1..(n - 1) : out[m] = Message("ack", out[n].sub)
      BY <1>6, <1>2, <2>1 DEF StreamOrder
    <3>2. m \in 1..Len(out)
      BY <2>1, <1>1
    <3> QED
      BY <3>1, <3>2, <2>1, <1>2
  <2>2. CASE n = Len(out) + 1
    <3>1. Message("ack", r) \in Queued /\ out'[n].sub = r
      BY <1>6, <2>2, <1>2 DEF MayQueue, Message
    <3>2. PICK m \in 1..Len(out) : out[m] = Message("ack", r)
      BY <3>1, <1>2 DEF Queued
    <3>3. m \in 1..(n - 1)
      BY <2>2, <1>1
    <3> QED
      BY <3>1, <3>2, <3>3, <1>2
  <2> QED
    BY <2>1, <2>2, <1>1, <1>2
<1> QED
  BY <1>5, <1>6 DEF StreamOrder

\* Order is kept when nothing is queued, also by a dropped message.
LEMMA OrderSame ==
    ASSUME StreamOrder, UNCHANGED out, tooSlow \in BOOLEAN, tooSlow' \in {tooSlow, TRUE}
    PROVE  StreamOrder'
  BY DEF StreamOrder, WellOrdered

-----------------------------------------------------------------------------
(* The steps *)

\* The sizes that the limit is about, when r enters or leaves a set.
SizesAround(r) ==
    /\ Cardinality(tasks) \in Nat /\ Cardinality(acking) \in Nat
    /\ Cardinality(tasks \cup {r}) \in Nat
    /\ Cardinality(tasks \cup {r}) <= Cardinality(tasks) + 1
    /\ Cardinality(tasks \ {r}) \in Nat
    /\ Cardinality(tasks \ {r}) <= Cardinality(tasks)
    /\ Cardinality(acking \cup {r}) \in Nat
    /\ Cardinality(acking \cup {r}) <= Cardinality(acking) + 1
    /\ Cardinality(acking \ {r}) \in Nat
    /\ Cardinality(acking \ {r}) <= Cardinality(acking)
    /\ sub[r] = "acking" => Cardinality(acking \ {r}) = Cardinality(acking) - 1

\* LimitHeld and the types give them.
LEMMA Sizes ==
    ASSUME TypeOK, LimitHeld, NEW r \in Subs
    PROVE  SizesAround(r)
<1>1. tasks \in SUBSET Subs /\ acking \in SUBSET Subs
  BY DEF TypeOK
<1>2. /\ tasks \cup {r} \in SUBSET Subs /\ tasks \ {r} \in SUBSET Subs
      /\ acking \cup {r} \in SUBSET Subs /\ acking \ {r} \in SUBSET Subs
  BY <1>1
<1>3. sub[r] = "acking" => r \in acking
  BY DEF LimitHeld
<1> QED
  BY <1>1, <1>2, <1>3, SubSets DEF SizesAround

\* Every step keeps the types and the bound on _tasks.
LEMMA TypeStep == SessionInv /\ [Next]_vars => TypeOK'
<1> SUFFICES ASSUME SessionInv, [Next]_vars PROVE TypeOK'
  OBVIOUS
<1>0. \A r \in Subs : SizesAround(r)
  BY Sizes DEF SessionInv
<1> USE DEF SessionInv, TypeOK, SubStates, UnsubStates
<1>1. CASE UNCHANGED vars
  BY <1>1 DEF vars
<1>2. ASSUME NEW r \in Subs, SubNext(r) PROVE TypeOK'
  <2>0. SizesAround(r)
    BY <1>0
  <2>1. CASE Subscribe(r)
    BY <2>1 DEF Subscribe
  <2>2. CASE Acknowledge(r)
    <3>1. Cardinality(tasks \cup {r}) <= Limit
      BY <2>2, <2>0, SubscriptionAssumption DEF Acknowledge, LimitHeld, SizesAround
    <3>2. out' \in Seq(Messages)
      BY <2>2, QueuedAppend DEF Acknowledge, Kinds, Messages
    <3> QED
      BY <2>2, <3>1, <3>2 DEF Messages, Kinds, Acknowledge, StartTask
  <2>3. CASE AcknowledgeTooSlow(r)
    <3>1. Cardinality(tasks \cup {r}) <= Limit
      BY <2>3, <2>0, SubscriptionAssumption DEF AcknowledgeTooSlow, LimitHeld, SizesAround
    <3> QED
      BY <2>3, <3>1 DEF AcknowledgeTooSlow, StartTask
  <2>4. CASE SubscribeInterrupted(r)
    BY <2>4 DEF SubscribeInterrupted, EndAcking
  <2>5. CASE Notify(r)
    <3>1. out' \in Seq(Messages)
      BY <2>5, QueuedAppend DEF Notify, Kinds, Messages
    <3>2. notes' \in [Subs -> 0..MaxNotes]
      BY <2>5, SubscriptionAssumption DEF Notify
    <3> QED
      BY <2>5, <3>1, <3>2 DEF Notify, Messages, Kinds
  <2>6. CASE GeneratorEnds(r)
    BY <2>6 DEF GeneratorEnds
  <2>7. CASE Terminal(r)
    <3>1. out' \in Seq(Messages)
      BY <2>7, QueuedAppend DEF Terminal, Kinds, Messages
    <3> QED
      BY <2>7, <3>1 DEF Terminal, Messages, Kinds
  <2>8. CASE GeneratorClosed(r)
    BY <2>8 DEF GeneratorClosed
  <2>9. CASE CancelSwallowed(r)
    BY <2>9 DEF CancelSwallowed
  <2>10. CASE TaskDone(r)
    <3>1. Cardinality(tasks \ {r}) <= Limit
      BY <2>0, SubscriptionAssumption DEF SizesAround
    <3> QED
      BY <2>10, <3>1 DEF TaskDone
  <2>11. CASE Admit(r)
    BY <2>11 DEF Admit
  <2> QED
    BY <1>2, <2>1, <2>2, <2>3, <2>4, <2>5, <2>6, <2>7, <2>8, <2>9, <2>10, <2>11 DEF SubNext
<1>3. ASSUME NEW u \in Unsubs, UnsubNext(u) PROVE TypeOK'
  <2>1. CASE Unsubscribe(u)
    BY <2>1 DEF Unsubscribe, CancelTasks
  <2>2. CASE Unsubscribed(u)
    <3>1. out' \in Seq(Messages)
      BY <2>2, QueuedAppend DEF Unsubscribed, Kinds, Messages
    <3> QED
      BY <2>2, <3>1 DEF Unsubscribed, Messages, Kinds
  <2>3. CASE UnsubscribeInterrupted(u)
    BY <2>3 DEF UnsubscribeInterrupted, Stopped
  <2>4. CASE AdmitUnsubscribe(u)
    BY <2>4 DEF AdmitUnsubscribe
  <2> QED
    BY <1>3, <2>1, <2>2, <2>3, <2>4 DEF UnsubNext
<1>4. CASE EndpointNext
  <2>1. CASE CloseRequested
    BY <2>1 DEF CloseRequested
  <2>2. CASE DrainBegins
    BY <2>2 DEF DrainBegins
  <2>3. CASE DrainWaitsSubscriptions
    BY <2>3 DEF DrainWaitsSubscriptions, HandshakesWaited, NoHandshake
  <2>4. CASE DrainCloses
    BY <2>4 DEF DrainCloses, WaitFinished
  <2>5. CASE EndpointCloses
    BY <2>5 DEF EndpointCloses
  <2>6. CASE SessionCloses
    BY <2>6, FS_EmptySet, SubscriptionAssumption
       DEF SessionCloses, CancelTasks, NoHandshake
  <2>7. CASE EndpointClosed
    BY <2>7 DEF EndpointClosed, TasksJoined
  <2> QED
    BY <1>4, <2>1, <2>2, <2>3, <2>4, <2>5, <2>6, <2>7 DEF EndpointNext
<1>5. CASE Terminated
  BY <1>1, <1>5 DEF Terminated
<1> QED
  BY <1>1, <1>2, <1>3, <1>4, <1>5 DEF Next

\* Every step keeps running and starting subscriptions within the limit, and both
\* sets in agreement with the handshakes and tasks they count.
LEMMA LimitStep == SessionInv /\ [Next]_vars => LimitHeld'
<1> SUFFICES ASSUME SessionInv, [Next]_vars PROVE LimitHeld'
  OBVIOUS
<1>0. \A r \in Subs : SizesAround(r)
  BY Sizes DEF SessionInv
<1> USE SubscriptionAssumption DEF SessionInv, TypeOK, LimitHeld, Live
<1>1. CASE UNCHANGED vars
  BY <1>1 DEF vars
<1>2. ASSUME NEW r \in Subs, SubNext(r) PROVE LimitHeld'
  <2>0. SizesAround(r)
    BY <1>0
  <2>1. CASE Subscribe(r)
    <3>1. CASE SessionFull
      BY <2>1, <3>1 DEF Subscribe
    <3>2. CASE ~SessionFull
      <4>1. ~(Cardinality(tasks) + Cardinality(acking) >= Limit)
        BY <3>2 DEF SessionFull
      <4>2. Cardinality(tasks) + Cardinality(acking \cup {r}) <= Limit
        BY <4>1, <2>0 DEF SizesAround
      <4>3. acking' = acking \cup {r} /\ tasks' = tasks
        BY <2>1, <3>2 DEF Subscribe
      <4>4. (Cardinality(tasks) + Cardinality(acking) <= Limit)'
        BY <4>2, <4>3
      <4> QED
        BY <2>1, <3>2, <4>4 DEF Subscribe
    <3> QED
      BY <3>1, <3>2
  <2>2. CASE Acknowledge(r)
    <3>1. (Cardinality(tasks) + Cardinality(acking) <= Limit)'
      BY <2>2, <2>0 DEF Acknowledge, StartTask, SizesAround
    <3> QED
      BY <2>2, <3>1 DEF Acknowledge, StartTask
  <2>3. CASE AcknowledgeTooSlow(r)
    <3>1. (Cardinality(tasks) + Cardinality(acking) <= Limit)'
      BY <2>3, <2>0 DEF AcknowledgeTooSlow, StartTask, SizesAround
    <3> QED
      BY <2>3, <3>1 DEF AcknowledgeTooSlow, StartTask
  <2>4. CASE SubscribeInterrupted(r)
    <3>1. (Cardinality(tasks) + Cardinality(acking) <= Limit)'
      BY <2>4, <2>0 DEF SubscribeInterrupted, EndAcking, SizesAround
    <3> QED
      BY <2>4, <3>1 DEF SubscribeInterrupted, EndAcking
  <2>5. CASE Notify(r)
    BY <2>5 DEF Notify
  <2>6. CASE GeneratorEnds(r)
    BY <2>6 DEF GeneratorEnds
  <2>7. CASE Terminal(r)
    BY <2>7 DEF Terminal
  <2>8. CASE GeneratorClosed(r)
    BY <2>8 DEF GeneratorClosed
  <2>9. CASE CancelSwallowed(r)
    BY <2>9 DEF CancelSwallowed
  <2>10. CASE TaskDone(r)
    <3>1. (Cardinality(tasks) + Cardinality(acking) <= Limit)'
      BY <2>10, <2>0 DEF TaskDone, SizesAround
    <3> QED
      BY <2>10, <3>1 DEF TaskDone
  <2>11. CASE Admit(r)
    BY <2>11 DEF Admit
  <2> QED
    BY <1>2, <2>1, <2>2, <2>3, <2>4, <2>5, <2>6, <2>7, <2>8, <2>9, <2>10, <2>11 DEF SubNext
<1>3. ASSUME NEW u \in Unsubs, UnsubNext(u) PROVE LimitHeld'
  <2>1. CASE Unsubscribe(u)
    BY <2>1 DEF Unsubscribe, CancelTasks
  <2>2. CASE Unsubscribed(u)
    BY <2>2 DEF Unsubscribed, Stopped
  <2>3. CASE UnsubscribeInterrupted(u)
    BY <2>3 DEF UnsubscribeInterrupted, Stopped
  <2>4. CASE AdmitUnsubscribe(u)
    BY <2>4 DEF AdmitUnsubscribe
  <2> QED
    BY <1>3, <2>1, <2>2, <2>3, <2>4 DEF UnsubNext
<1>4. CASE EndpointNext
  <2>1. CASE CloseRequested
    BY <2>1 DEF CloseRequested
  <2>2. CASE DrainBegins
    BY <2>2 DEF DrainBegins
  <2>3. CASE DrainWaitsSubscriptions
    BY <2>3 DEF DrainWaitsSubscriptions, HandshakesWaited, NoHandshake
  <2>4. CASE DrainCloses
    BY <2>4 DEF DrainCloses, WaitFinished
  <2>5. CASE EndpointCloses
    BY <2>5 DEF EndpointCloses
  <2>6. CASE SessionCloses
    <3>1. acking = {} /\ acking' = {} /\ tasks' = {}
      BY <2>6 DEF SessionCloses, NoHandshake
    <3>2. (Cardinality(tasks) + Cardinality(acking) <= Limit)'
      BY <3>1, FS_EmptySet
    <3> QED
      BY <2>6, <3>1, <3>2 DEF SessionCloses, CancelTasks, NoHandshake
  <2>7. CASE EndpointClosed
    BY <2>7 DEF EndpointClosed, TasksJoined
  <2> QED
    BY <1>4, <2>1, <2>2, <2>3, <2>4, <2>5, <2>6, <2>7 DEF EndpointNext
<1>5. CASE Terminated
  BY <1>1, <1>5 DEF Terminated
<1> QED
  BY <1>1, <1>2, <1>3, <1>4, <1>5 DEF Next

\* Every step keeps what the phases of the drain and of the close say.
LEMMA PhaseStep == SessionInv /\ [Next]_vars => PhasesEmptySession'
<1> SUFFICES ASSUME SessionInv, [Next]_vars PROVE PhasesEmptySession'
  OBVIOUS
<1> USE DEF SessionInv, TypeOK, LimitHeld, PhasesEmptySession, Live
<1>1. CASE UNCHANGED vars
  BY <1>1 DEF vars
<1>2. ASSUME NEW r \in Subs, SubNext(r) PROVE PhasesEmptySession'
  <2>1. CASE Subscribe(r)
    BY <2>1 DEF Subscribe
  <2>2. CASE Acknowledge(r)
    BY <2>2 DEF Acknowledge, StartTask
  <2>3. CASE AcknowledgeTooSlow(r)
    BY <2>3 DEF AcknowledgeTooSlow, StartTask
  <2>4. CASE SubscribeInterrupted(r)
    BY <2>4 DEF SubscribeInterrupted, EndAcking
  <2>5. CASE Notify(r)
    BY <2>5 DEF Notify
  <2>6. CASE GeneratorEnds(r)
    BY <2>6 DEF GeneratorEnds
  <2>7. CASE Terminal(r)
    BY <2>7 DEF Terminal
  <2>8. CASE GeneratorClosed(r)
    BY <2>8 DEF GeneratorClosed
  <2>9. CASE CancelSwallowed(r)
    BY <2>9 DEF CancelSwallowed
  <2>10. CASE TaskDone(r)
    BY <2>10 DEF TaskDone
  <2>11. CASE Admit(r)
    BY <2>11 DEF Admit
  <2> QED
    BY <1>2, <2>1, <2>2, <2>3, <2>4, <2>5, <2>6, <2>7, <2>8, <2>9, <2>10, <2>11 DEF SubNext
<1>3. ASSUME NEW u \in Unsubs, UnsubNext(u) PROVE PhasesEmptySession'
  <2>1. CASE Unsubscribe(u)
    BY <2>1 DEF Unsubscribe, CancelTasks
  <2>2. CASE Unsubscribed(u)
    BY <2>2 DEF Unsubscribed, Stopped
  <2>3. CASE UnsubscribeInterrupted(u)
    BY <2>3 DEF UnsubscribeInterrupted, Stopped
  <2>4. CASE AdmitUnsubscribe(u)
    BY <2>4 DEF AdmitUnsubscribe
  <2> QED
    BY <1>3, <2>1, <2>2, <2>3, <2>4 DEF UnsubNext
<1>4. CASE EndpointNext
  <2>1. CASE CloseRequested
    BY <2>1 DEF CloseRequested
  <2>2. CASE DrainBegins
    BY <2>2 DEF DrainBegins
  <2>3. CASE DrainWaitsSubscriptions
    BY <2>3 DEF DrainWaitsSubscriptions, HandshakesWaited, NoHandshake
  <2>4. CASE DrainCloses
    BY <2>4 DEF DrainCloses, WaitFinished
  <2>5. CASE EndpointCloses
    BY <2>5 DEF EndpointCloses
  <2>6. CASE SessionCloses
    BY <2>6 DEF SessionCloses, CancelTasks, NoHandshake
  <2>7. CASE EndpointClosed
    BY <2>7 DEF EndpointClosed, TasksJoined
  <2> QED
    BY <1>4, <2>1, <2>2, <2>3, <2>4, <2>5, <2>6, <2>7 DEF EndpointNext
<1>5. CASE Terminated
  BY <1>1, <1>5 DEF Terminated
<1> QED
  BY <1>1, <1>2, <1>3, <1>4, <1>5 DEF Next

\* Every step keeps each subscription's messages in order.
LEMMA OrderStep == SessionInv /\ [Next]_vars => StreamOrder'
<1> SUFFICES ASSUME SessionInv, [Next]_vars PROVE StreamOrder'
  OBVIOUS
<1> USE DEF SessionInv, TypeOK
<1>1. CASE UNCHANGED vars
  BY <1>1, OrderSame DEF vars
<1>2. ASSUME NEW r \in Subs, SubNext(r) PROVE StreamOrder'
  <2>1. CASE Subscribe(r)
    BY <2>1, OrderSame DEF Subscribe
  <2>2. CASE Acknowledge(r)
    <3>1. MayQueue("ack", r)
      BY <2>2 DEF Acknowledge, MayQueue, QueueFollowsTask, Live, SubStates
    <3> QED
      BY <2>2, <3>1, OrderAppend DEF Acknowledge, Kinds, Messages
  <2>3. CASE AcknowledgeTooSlow(r)
    BY <2>3, OrderSame DEF AcknowledgeTooSlow
  <2>4. CASE SubscribeInterrupted(r)
    BY <2>4, OrderSame DEF SubscribeInterrupted
  <2>5. CASE Notify(r)
    <3>1. MayQueue("note", r)
      BY <2>5 DEF Notify, MayQueue, QueueFollowsTask, Live, SubStates
    <3>2. CASE out' = Append(out, Message("note", r)) /\ UNCHANGED tooSlow
      BY <3>1, <3>2, OrderAppend DEF Kinds, Messages
    <3>3. CASE UNCHANGED out /\ tooSlow' = TRUE
      BY <3>3, OrderSame
    <3> QED
      BY <2>5, <3>2, <3>3 DEF Notify
  <2>6. CASE GeneratorEnds(r)
    BY <2>6, OrderSame DEF GeneratorEnds
  <2>7. CASE Terminal(r)
    <3>1. MayQueue("end", r)
      BY <2>7 DEF Terminal, MayQueue, QueueFollowsTask, Live, SubStates
    <3>2. CASE out' = Append(out, Message("end", r)) /\ UNCHANGED tooSlow
      BY <3>1, <3>2, OrderAppend DEF Kinds, Messages
    <3>3. CASE UNCHANGED out /\ tooSlow' = TRUE
      BY <3>3, OrderSame
    <3> QED
      BY <2>7, <3>2, <3>3 DEF Terminal
  <2>8. CASE GeneratorClosed(r)
    BY <2>8, OrderSame DEF GeneratorClosed
  <2>9. CASE CancelSwallowed(r)
    BY <2>9, OrderSame DEF CancelSwallowed
  <2>10. CASE TaskDone(r)
    BY <2>10, OrderSame DEF TaskDone
  <2>11. CASE Admit(r)
    BY <2>11, OrderSame DEF Admit
  <2> QED
    BY <1>2, <2>1, <2>2, <2>3, <2>4, <2>5, <2>6, <2>7, <2>8, <2>9, <2>10, <2>11 DEF SubNext
<1>3. ASSUME NEW u \in Unsubs, UnsubNext(u) PROVE StreamOrder'
  <2>1. CASE Unsubscribe(u)
    BY <2>1, OrderSame DEF Unsubscribe
  <2>2. CASE Unsubscribed(u)
    <3>1. target[u] \in Subs /\ MayQueue("unsubscribed", target[u])
      BY <2>2 DEF Unsubscribed, Stopped, MayQueue, QueueFollowsTask
    <3> QED
      BY <2>2, <3>1, OrderAppend DEF Unsubscribed, Kinds, Messages
  <2>3. CASE UnsubscribeInterrupted(u)
    BY <2>3, OrderSame DEF UnsubscribeInterrupted
  <2>4. CASE AdmitUnsubscribe(u)
    BY <2>4, OrderSame DEF AdmitUnsubscribe
  <2> QED
    BY <1>3, <2>1, <2>2, <2>3, <2>4 DEF UnsubNext
<1>4. CASE EndpointNext
  <2>1. CASE CloseRequested
    BY <2>1, OrderSame DEF CloseRequested
  <2>2. CASE DrainBegins
    BY <2>2, OrderSame DEF DrainBegins
  <2>3. CASE DrainWaitsSubscriptions
    BY <2>3, OrderSame DEF DrainWaitsSubscriptions
  <2>4. CASE DrainCloses
    BY <2>4, OrderSame DEF DrainCloses
  <2>5. CASE EndpointCloses
    BY <2>5, OrderSame DEF EndpointCloses
  <2>6. CASE SessionCloses
    BY <2>6, OrderSame DEF SessionCloses
  <2>7. CASE EndpointClosed
    BY <2>7, OrderSame DEF EndpointClosed
  <2> QED
    BY <1>4, <2>1, <2>2, <2>3, <2>4, <2>5, <2>6, <2>7 DEF EndpointNext
<1>5. CASE Terminated
  BY <1>1, <1>5 DEF Terminated
<1> QED
  BY <1>1, <1>2, <1>3, <1>4, <1>5 DEF Next

\* Every step keeps the queue in agreement with the life of each subscription.
LEMMA QueueStep == SessionInv /\ [Next]_vars => QueueFollowsTask'
<1> SUFFICES ASSUME SessionInv, [Next]_vars PROVE QueueFollowsTask'
  OBVIOUS
<1>0. UNCHANGED out => Queued' = Queued
  BY DEF Queued
<1> USE DEF SessionInv, TypeOK, SubStates, Kinds, QueueFollowsTask, Live
<1>1. CASE UNCHANGED vars
  BY <1>1 DEF vars, Queued
<1>2. ASSUME NEW r \in Subs, SubNext(r) PROVE QueueFollowsTask'
  <2>1. CASE Subscribe(r)
    BY <2>1, <1>0 DEF Subscribe
  <2>2. CASE Acknowledge(r)
    <3>1. Queued' = Queued \cup {Message("ack", r)}
      BY <2>2, QueuedAppend DEF Acknowledge, Kinds, Messages
    <3> QED
      BY <2>2, <3>1 DEF Acknowledge, StartTask, Message
  <2>3. CASE AcknowledgeTooSlow(r)
    BY <2>3, <1>0 DEF AcknowledgeTooSlow, StartTask
  <2>4. CASE SubscribeInterrupted(r)
    BY <2>4, <1>0 DEF SubscribeInterrupted, EndAcking
  <2>5. CASE Notify(r)
    <3>1. CASE out' = Append(out, Message("note", r)) /\ UNCHANGED tooSlow
      <4>1. Queued' = Queued \cup {Message("note", r)}
        BY <3>1, QueuedAppend DEF Kinds, Messages
      <4> QED
        BY <2>5, <3>1, <4>1 DEF Notify, Message
    <3>2. CASE UNCHANGED out /\ tooSlow' = TRUE
      BY <2>5, <3>2, <1>0 DEF Notify
    <3> QED
      BY <2>5, <3>1, <3>2 DEF Notify
  <2>6. CASE GeneratorEnds(r)
    BY <2>6, <1>0 DEF GeneratorEnds
  <2>7. CASE Terminal(r)
    <3>1. CASE out' = Append(out, Message("end", r)) /\ UNCHANGED tooSlow
      <4>1. Queued' = Queued \cup {Message("end", r)}
        BY <3>1, QueuedAppend DEF Kinds, Messages
      <4> QED
        BY <2>7, <3>1, <4>1 DEF Terminal, Message
    <3>2. CASE UNCHANGED out /\ tooSlow' = TRUE
      BY <2>7, <3>2, <1>0 DEF Terminal
    <3> QED
      BY <2>7, <3>1, <3>2 DEF Terminal
  <2>8. CASE GeneratorClosed(r)
    BY <2>8, <1>0 DEF GeneratorClosed
  <2>9. CASE CancelSwallowed(r)
    BY <2>9, <1>0 DEF CancelSwallowed
  <2>10. CASE TaskDone(r)
    BY <2>10, <1>0 DEF TaskDone
  <2>11. CASE Admit(r)
    BY <2>11, <1>0 DEF Admit
  <2> QED
    BY <1>2, <2>1, <2>2, <2>3, <2>4, <2>5, <2>6, <2>7, <2>8, <2>9, <2>10, <2>11 DEF SubNext
<1>3. ASSUME NEW u \in Unsubs, UnsubNext(u) PROVE QueueFollowsTask'
  <2>1. CASE Unsubscribe(u)
    BY <2>1, <1>0 DEF Unsubscribe, CancelTasks
  <2>2. CASE Unsubscribed(u)
    <3>1. Queued' = Queued \cup {Message("unsubscribed", target[u])}
      BY <2>2, QueuedAppend DEF Unsubscribed, Kinds, Messages
    <3> QED
      BY <2>2, <3>1 DEF Unsubscribed, Stopped, Message
  <2>3. CASE UnsubscribeInterrupted(u)
    BY <2>3, <1>0 DEF UnsubscribeInterrupted, Stopped
  <2>4. CASE AdmitUnsubscribe(u)
    BY <2>4, <1>0 DEF AdmitUnsubscribe
  <2> QED
    BY <1>3, <2>1, <2>2, <2>3, <2>4 DEF UnsubNext
<1>4. CASE EndpointNext
  <2>1. CASE CloseRequested
    BY <2>1, <1>0 DEF CloseRequested
  <2>2. CASE DrainBegins
    BY <2>2, <1>0 DEF DrainBegins
  <2>3. CASE DrainWaitsSubscriptions
    BY <2>3, <1>0 DEF DrainWaitsSubscriptions, HandshakesWaited, NoHandshake
  <2>4. CASE DrainCloses
    BY <2>4, <1>0 DEF DrainCloses, WaitFinished
  <2>5. CASE EndpointCloses
    BY <2>5, <1>0 DEF EndpointCloses
  <2>6. CASE SessionCloses
    BY <2>6, <1>0 DEF SessionCloses, CancelTasks, NoHandshake
  <2>7. CASE EndpointClosed
    BY <2>7, <1>0 DEF EndpointClosed, TasksJoined
  <2> QED
    BY <1>4, <2>1, <2>2, <2>3, <2>4, <2>5, <2>6, <2>7 DEF EndpointNext
<1>5. CASE Terminated
  BY <1>1, <1>5 DEF Terminated
<1> QED
  BY <1>1, <1>2, <1>3, <1>4, <1>5 DEF Next

\* Every step keeps a reason for each subscription that stopped on a served
\* connection.
LEMMA ReasonStep == SessionInv /\ [Next]_vars => StopsHaveAReason'
<1> SUFFICES ASSUME SessionInv, [Next]_vars PROVE StopsHaveAReason'
  OBVIOUS
<1>0. UNCHANGED out => Queued' = Queued
  BY DEF Queued
<1> USE DEF SessionInv, TypeOK, StopsHaveAReason, Dropped
<1>1. CASE UNCHANGED vars
  BY <1>1 DEF vars, Queued
<1>2. ASSUME NEW r \in Subs, SubNext(r) PROVE StopsHaveAReason'
  <2>1. CASE Subscribe(r)
    BY <2>1, <1>0 DEF Subscribe
  <2>2. CASE Acknowledge(r)
    <3>1. Queued' = Queued \cup {Message("ack", r)}
      BY <2>2, QueuedAppend DEF Acknowledge, Kinds, Messages
    <3> QED
      BY <2>2, <3>1 DEF Acknowledge, StartTask, Message
  <2>3. CASE AcknowledgeTooSlow(r)
    BY <2>3, <1>0 DEF AcknowledgeTooSlow, StartTask
  <2>4. CASE SubscribeInterrupted(r)
    BY <2>4, <1>0 DEF SubscribeInterrupted, EndAcking
  <2>5. CASE Notify(r)
    <3>1. CASE out' = Append(out, Message("note", r)) /\ UNCHANGED tooSlow
      <4>1. Queued' = Queued \cup {Message("note", r)}
        BY <3>1, QueuedAppend DEF Kinds, Messages
      <4> QED
        BY <2>5, <3>1, <4>1 DEF Notify, Message
    <3>2. CASE UNCHANGED out /\ tooSlow' = TRUE
      BY <2>5, <3>2, <1>0 DEF Notify
    <3> QED
      BY <2>5, <3>1, <3>2 DEF Notify
  <2>6. CASE GeneratorEnds(r)
    BY <2>6, <1>0 DEF GeneratorEnds
  <2>7. CASE Terminal(r)
    <3>1. CASE out' = Append(out, Message("end", r)) /\ UNCHANGED tooSlow
      <4>1. Queued' = Queued \cup {Message("end", r)}
        BY <3>1, QueuedAppend DEF Kinds, Messages
      <4> QED
        BY <2>7, <3>1, <4>1 DEF Terminal, Message
    <3>2. CASE UNCHANGED out /\ tooSlow' = TRUE
      BY <2>7, <3>2, <1>0 DEF Terminal
    <3> QED
      BY <2>7, <3>1, <3>2 DEF Terminal
  <2>8. CASE GeneratorClosed(r)
    BY <2>8, <1>0 DEF GeneratorClosed
  <2>9. CASE CancelSwallowed(r)
    BY <2>9, <1>0 DEF CancelSwallowed
  <2>10. CASE TaskDone(r)
    BY <2>10, <1>0 DEF TaskDone
  <2>11. CASE Admit(r)
    BY <2>11, <1>0 DEF Admit
  <2> QED
    BY <1>2, <2>1, <2>2, <2>3, <2>4, <2>5, <2>6, <2>7, <2>8, <2>9, <2>10, <2>11 DEF SubNext
<1>3. ASSUME NEW u \in Unsubs, UnsubNext(u) PROVE StopsHaveAReason'
  <2>1. CASE Unsubscribe(u)
    <3>1. CASE target[u] \in tasks
      <4>1. /\ unsub' = [unsub EXCEPT ![u] = "waiting"]
            /\ \A r \in Subs : r # target[u] => sub'[r] = sub[r]
        BY <2>1, <3>1 DEF Unsubscribe, CancelTasks
      <4>2. Dropped(target[u])' /\ \A r \in Subs : Dropped(r) => Dropped(r)'
        BY <2>1, <4>1 DEF Unsubscribe
      <4>3. UNCHANGED <<target, tooSlow, endpoint>> /\ Queued' = Queued
        BY <2>1, <1>0 DEF Unsubscribe
      <4> HIDE DEF Dropped
      <4> QED
        BY <4>1, <4>2, <4>3
    <3>2. CASE target[u] \notin tasks
      <4>1. unsub' = [unsub EXCEPT ![u] = "unknown"] /\ unsub[u] = "admitted"
        BY <2>1, <3>2 DEF Unsubscribe
      <4>2. UNCHANGED <<sub, target, tooSlow, endpoint>> /\ Queued' = Queued
        BY <2>1, <3>2, <1>0 DEF Unsubscribe
      <4>3. \A r \in Subs : Dropped(r) => Dropped(r)'
        BY <4>1, <4>2
      <4> HIDE DEF Dropped
      <4> QED
        BY <4>2, <4>3
    <3> QED
      BY <3>1, <3>2
  <2>2. CASE Unsubscribed(u)
    <3>1. Queued' = Queued \cup {Message("unsubscribed", target[u])}
      BY <2>2, QueuedAppend DEF Unsubscribed, Kinds, Messages
    <3> QED
      BY <2>2, <3>1 DEF Unsubscribed, Stopped, Message
  <2>3. CASE UnsubscribeInterrupted(u)
    BY <2>3, <1>0 DEF UnsubscribeInterrupted, Stopped
  <2>4. CASE AdmitUnsubscribe(u)
    BY <2>4, <1>0 DEF AdmitUnsubscribe
  <2> QED
    BY <1>3, <2>1, <2>2, <2>3, <2>4 DEF UnsubNext
<1>4. CASE EndpointNext
  <2>1. CASE CloseRequested
    BY <2>1, <1>0 DEF CloseRequested
  <2>2. CASE DrainBegins
    BY <2>2, <1>0 DEF DrainBegins
  <2>3. CASE DrainWaitsSubscriptions
    BY <2>3, <1>0 DEF DrainWaitsSubscriptions, HandshakesWaited, NoHandshake
  <2>4. CASE DrainCloses
    BY <2>4, <1>0 DEF DrainCloses, WaitFinished
  <2>5. CASE EndpointCloses
    BY <2>5, <1>0 DEF EndpointCloses
  <2>6. CASE SessionCloses
    BY <2>6, <1>0 DEF SessionCloses, CancelTasks, NoHandshake
  <2>7. CASE EndpointClosed
    BY <2>7, <1>0 DEF EndpointClosed, TasksJoined
  <2> QED
    BY <1>4, <2>1, <2>2, <2>3, <2>4, <2>5, <2>6, <2>7 DEF EndpointNext
<1>5. CASE Terminated
  BY <1>1, <1>5 DEF Terminated
<1> QED
  BY <1>1, <1>2, <1>3, <1>4, <1>5 DEF Next

-----------------------------------------------------------------------------
(* The theorems *)

\* The inductive invariant: what the session counts, what the queue holds, why a
\* subscription stopped and what each phase leaves behind, together.
THEOREM SessionInvariant == Spec => []SessionInv
<1>1. Init => SessionInv
  <2> SUFFICES ASSUME Init PROVE SessionInv
    OBVIOUS
  <2> USE SubscriptionAssumption DEF Init
  <2>1. Cardinality(tasks) = 0 /\ Cardinality(acking) = 0
    BY FS_EmptySet
  <2>2. TypeOK
    <3>1. notes \in [Subs -> 0..MaxNotes] /\ Cardinality(tasks) <= Limit
      BY <2>1
    <3>2. sub \in [Subs -> SubStates]
      BY DEF SubStates
    <3>3. out \in Seq([kind : {"ack", "note", "end", "unsubscribed"}, sub : Subs])
      OBVIOUS
    <3> QED
      BY <3>1, <3>2, <3>3 DEF TypeOK, UnsubStates
  <2>3. LimitHeld
    BY <2>1 DEF LimitHeld, Live
  <2>4. DOMAIN out = {} /\ Queued = {}
    BY DEF Queued
  <2>5. StreamOrder /\ QueueFollowsTask
    BY <2>4 DEF StreamOrder, QueueFollowsTask, Live
  <2>6. StopsHaveAReason /\ PhasesEmptySession
    BY DEF StopsHaveAReason, PhasesEmptySession, Live
  <2> QED
    BY <2>2, <2>3, <2>5, <2>6 DEF SessionInv
<1>2. SessionInv /\ [Next]_vars => SessionInv'
  BY TypeStep, LimitStep, OrderStep, QueueStep, ReasonStep, PhaseStep DEF SessionInv
<1> QED
  BY <1>1, <1>2, PTL DEF Spec

\* SubscriptionSession keeps its limit whatever handshakes are blocked, interrupted
\* or given up, and gives every unit of capacity back.
THEOREM SessionLimitHeld == Spec => []LimitHeld
<1>1. SessionInv => LimitHeld
  BY DEF SessionInv
<1> QED
  BY <1>1, SessionInvariant, PTL

\* The client reads each subscription's messages in order: _run queues nothing ahead
\* of the acknowledgement, and nothing follows the terminal message or the answer to
\* unsubscribe except further answers.
THEOREM SessionStreamOrder == Spec => []StreamOrder
<1>1. SessionInv => StreamOrder
  BY DEF SessionInv
<1> QED
  BY <1>1, SessionInvariant, PTL

\* graceful() closes only after every acknowledged subscription has ended or was
\* unsubscribed.
THEOREM DrainFinishes == Spec => []DrainFinishesSubscriptions
<1>1. SessionInv => DrainFinishesSubscriptions
  <2> SUFFICES ASSUME SessionInv, drain = "done", endpoint = "serving", ~tooSlow,
                      NEW r \in Subs, NEW n \in DOMAIN out, out[n] = Message("ack", r)
               PROVE  \/ \E m \in DOMAIN out : out[m] = Message("end", r)
                      \/ Dropped(r)
    BY DEF DrainFinishesSubscriptions, Dropped
  <2>1. Message("ack", r) \in Queued
    BY DEF Queued
  <2>2. sub[r] \notin {"idle", "admitted", "acking", "refused"}
    BY <2>1 DEF SessionInv, QueueFollowsTask, Kinds
  <2>3. ~Live(r)
    BY DEF SessionInv, PhasesEmptySession
  <2>4. sub[r] \in {"finished", "gone"}
    BY <2>2, <2>3 DEF SessionInv, TypeOK, SubStates, Live
  <2>5. Message("end", r) \in Queued \/ Dropped(r)
    BY <2>4 DEF SessionInv, StopsHaveAReason
  <2> QED
    BY <2>5 DEF Queued
<1> QED
  BY <1>1, SessionInvariant, PTL

\* close() leaves nothing behind: no handshake, no task, no running generator.
THEOREM ClosedIsSilent == Spec => []ClosedSessionIsSilent
<1>1. SessionInv => ClosedSessionIsSilent
  BY DEF SessionInv, PhasesEmptySession, ClosedSessionIsSilent
<1> QED
  BY <1>1, SessionInvariant, PTL

=============================================================================
