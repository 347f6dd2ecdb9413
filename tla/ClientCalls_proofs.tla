-------------------------- MODULE ClientCalls_proofs --------------------------
(***************************************************************************)
(* ClientCalls implements CallPromise and strands nobody, for any number of  *)
(* calls, attempts and connections and any faults.                           *)
(***************************************************************************)
EXTENDS ClientCalls, FiniteSetTheorems, TLAPS

OnWire == {"sending", "waiting"}

\* How often each call was or may still be executed.
used == [c \in Calls |-> executed[c] + Cardinality({f \in wire : f.call = c})]

\* What a call's state says of its response future and of its transport.
CallsConsistent ==
    \A c \in Calls :
        /\ call[c].st \in {"idle", "backoff", "connecting"} => call[c].reply = "none"
        /\ call[c].st = "got" =>
              /\ call[c].reply \in {"none", "unsent", "connect"}
              /\ call[c].reply = "none" => call[c].on \in 1..opened
        /\ call[c].st \in OnWire =>
              /\ call[c].reply \in {"none", "answer", "sent", "broken"}
              /\ call[c].on \in 1..opened
        /\ call[c].st = "done" => call[c].reply # "none"

\* A transport that is closing or closed takes no more requests, one that takes
\* requests has its reader, and the pool holds every such transport.
TransportsConsistent ==
    \A t \in Transport :
        /\ ws[t].ending # "none" => ws[t].shut
        /\ ws[t].done # "pending" => ws[t].shut
        /\ t <= opened /\ ~ws[t].shut => ws[t].reading /\ pool.cur = t

\* The pool has a connection or a connect task, never both, and neither after close.
PoolConsistent ==
    /\ pool.cur \in 0..opened
    /\ pool.task # "none" => pool.cur = NoTransport
    /\ pool.failure \in {"none", "unsent", "sent", "broken", "connect"}
    /\ pool.closing => closed
    /\ pool.released => pool.closing /\ pool.task = "none" /\ pool.cur = NoTransport

\* A call uses one execution per attempt that was sent, and a call that is not
\* idempotent goes on to another attempt, or is reported as unsent, only before it
\* has used one.
BudgetOf(c) ==
    /\ c \in Idempotent =>
          used[c] <= CASE call[c].st = "done" -> RetryAttempts + 1
                       [] call[c].st \in OnWire -> call[c].attempt
                       [] OTHER -> call[c].attempt - 1
    /\ c \notin Idempotent =>
          used[c] <= IF \/ call[c].st \in OnWire
                        \/ call[c].st = "done" /\ call[c].reply # "unsent"
                     THEN 1 ELSE 0

BudgetKept == \A c \in Calls : BudgetOf(c)

\* Only an executed call is answered.
AnswersExecuted ==
    /\ \A f \in replies : executed[f.call] > 0
    /\ \A c \in Calls : call[c].reply = "answer" => executed[c] > 0

ClientInv ==
    /\ TypeOK /\ IsFiniteSet(wire)
    /\ CallsConsistent /\ TransportsConsistent /\ PoolConsistent /\ NobodyStranded
    /\ BudgetKept /\ AnswersExecuted

-----------------------------------------------------------------------------
(* The steps of a call *)

\* An attempt ends without touching its transport. It is reported as unsent only
\* before its request was sent, and as answered only when it was.
AttemptEnds(c) ==
    /\ \E kind \in Kinds, retryable \in BOOLEAN :
          /\ kind = "unsent" => call[c].st \notin OnWire
          /\ kind = "answer" => call[c].reply = "answer"
          /\ Ends(c, kind, retryable)
    /\ call[c].st # "done"
    /\ UNCHANGED <<closed, ws, opened, pool, serverVars>>

\* The request of an attempt begins to be sent on an open transport.
AttemptTransmits(c) ==
    /\ call[c].st \in {"idle", "backoff", "got"} /\ call[c].reply = "none"
    /\ \E t \in 1..opened :
          /\ ~ws[t].shut
          /\ call' = [call EXCEPT ![c].st = "sending", ![c].on = t]
          /\ wire' = wire \cup {Frame(c, t)}
    /\ UNCHANGED <<closed, ws, opened, pool, replies, executed>>

\* A request that was sent is given up.
AttemptLeaves(c) ==
    /\ call[c].st \in OnWire
    /\ \E kind \in {"sent", "timeout", "abandoned"} : LeaveTransport(c, kind)

\* Every step of a call is one of these, or waits for the pool or for the answer.
CallStep(c) ==
    \/ AttemptEnds(c) \/ AttemptTransmits(c) \/ AttemptLeaves(c)
    \/ \E fatal \in BOOLEAN : AttemptFindsClosed(c, fatal)
    \/ AttemptWaits(c) \/ SendDone(c)

\* A transmission on a transport of the pool begins to send or ends the attempt.
LEMMA TransmitSteps ==
    ASSUME NEW c \in Calls, NEW t \in 1..opened,
           call[c].st \in {"idle", "backoff", "got"}, call[c].reply = "none",
           Transmit(c, t), UNCHANGED <<closed, ws, opened, pool, replies, executed>>
    PROVE  AttemptEnds(c) \/ AttemptTransmits(c)
<1>1. CASE ws[t].shut
  <2>1. Ends(c, "unsent", TRUE) /\ UNCHANGED serverVars
    BY <1>1 DEF Transmit, serverVars
  <2> QED
    BY <2>1 DEF AttemptEnds, Kinds, Lost, OnWire
<1>2. CASE ~ws[t].shut
  BY <1>2 DEF Transmit, AttemptTransmits
<1> QED
  BY <1>1, <1>2

\* The steps of CallNext, brought to that form.
LEMMA CallSteps ==
    ASSUME ClientInv, NEW c \in Calls, CallNext(c)
    PROVE  CallStep(c)
<1> USE DEF CallStep
<1>1. CASE AttemptClosed(c)
  BY <1>1 DEF AttemptClosed, AttemptEnds, Ready, Kinds, Lost, OnWire
<1>2. CASE AttemptRefused(c)
  BY <1>2 DEF AttemptRefused, AttemptEnds, Ready, Kinds, Lost, OnWire, ClientInv,
              PoolConsistent
<1>3. CASE AttemptSends(c)
  <2>1. pool.cur \in 1..opened
    BY <1>3 DEF AttemptSends, NoTransport, ClientInv, PoolConsistent, TypeOK
  <2>2. call[c].st \in {"idle", "backoff", "got"} /\ call[c].reply = "none"
    BY <1>3 DEF AttemptSends, Ready, ClientInv, CallsConsistent
  <2> QED
    BY <1>3, <2>1, <2>2, TransmitSteps DEF AttemptSends
<1>4. CASE AttemptResumes(c)
  <2>1. CASE call[c].reply = "none"
    <3>1. call[c].on \in 1..opened /\ Transmit(c, call[c].on)
      BY <1>4, <2>1 DEF AttemptResumes, ClientInv, CallsConsistent
    <3> QED
      BY <1>4, <2>1, <3>1, TransmitSteps DEF AttemptResumes
  <2>2. CASE call[c].reply # "none"
    <3>1. call[c].reply \in {"unsent", "connect"}
      BY <1>4, <2>2 DEF AttemptResumes, ClientInv, CallsConsistent
    <3> QED
      BY <1>4, <2>2, <3>1 DEF AttemptResumes, AttemptEnds, Kinds, Lost, OnWire, serverVars
  <2> QED
    BY <2>1, <2>2
<1>5. CASE SendFails(c) \/ TimesOut(c)
  BY <1>5 DEF SendFails, TimesOut, AttemptLeaves, AttemptEnds, OnWire, Kinds, Lost
<1>6. CASE Abandoned(c)
  BY <1>6 DEF Abandoned, AttemptLeaves, AttemptEnds, OnWire, Kinds, Lost
<1>7. CASE Answered(c)
  <2>1. call[c].reply \in {"answer", "sent", "broken"}
    BY <1>7 DEF Answered, ClientInv, CallsConsistent, OnWire
  <2> QED
    BY <1>7, <2>1 DEF Answered, AttemptEnds, Kinds, Lost
<1>8. CASE HookFails(c)
  <2>1. Ends(c, "hook", FALSE)
    BY <1>8 DEF HookFails, Ends, Failed, Retries, NewCall
  <2> QED
    BY <1>8, <2>1 DEF HookFails, AttemptEnds, Kinds, Lost
<1>9. CASE CallClosed(c)
  BY <1>9 DEF CallClosed, AttemptLeaves, AttemptEnds, OnWire, Kinds, Lost
<1> QED
  BY <1>1, <1>2, <1>3, <1>4, <1>5, <1>6, <1>7, <1>8, <1>9 DEF CallNext

-----------------------------------------------------------------------------
(* What the updates of a step do to the records *)

\* Failed: the next attempt, or the end of the call with the error.
LEMMA FailedFacts ==
    ASSUME TypeOK, NEW c \in Calls, NEW kind \in Kinds, NEW retryable \in BOOLEAN
    PROVE  /\ Failed(c, kind, retryable) \in CallRecord
           /\ Retries(c, kind, retryable) =>
                Failed(c, kind, retryable) = [st |-> "backoff", on |-> NoTransport,
                    attempt |-> call[c].attempt + 1, reply |-> "none"]
           /\ ~Retries(c, kind, retryable) =>
                Failed(c, kind, retryable) = [st |-> "done", on |-> NoTransport,
                    attempt |-> 1, reply |-> kind]
<1>1. call[c].attempt \in Attempt /\ RetryAttempts \in Nat
  BY ClientAssumption DEF TypeOK, CallRecord
<1>2. Retries(c, kind, retryable) => call[c].attempt + 1 \in Attempt
  BY <1>1 DEF Retries, Attempt
<1>3. 1 \in Attempt /\ NoTransport \in Transport \cup {NoTransport}
  BY <1>1 DEF Attempt
<1> QED
  BY <1>1, <1>2, <1>3 DEF Failed, NewCall, CallRecord, CallStates

\* FailPending resolves the response futures of one transport and nothing else.
LEMMA FailPendingFacts ==
    ASSUME TypeOK, NEW t, NEW how
    PROVE  LET failed == FailPending(t, how) IN
           /\ failed \in [Calls -> CallRecord]
           /\ \A c \in Calls :
                /\ failed[c].st = call[c].st /\ failed[c].attempt = call[c].attempt
                /\ failed[c].on = call[c].on
                /\ c \notin Pending(t) => failed[c] = call[c]
                /\ c \in Pending(t) => failed[c].reply \in {"sent", "broken"}
<1>1. \A c \in Calls : call[c] \in CallRecord
  BY DEF TypeOK
<1> DEFINE reply == IF how = "broken" THEN "broken" ELSE "sent"
           failed == FailPending(t, how)
<1>2. reply \in {"sent", "broken"}
  OBVIOUS
<1>3. /\ failed = [c \in Calls |-> failed[c]]
      /\ \A c \in Calls : failed[c] = IF c \in Pending(t)
                                      THEN [call[c] EXCEPT !.reply = reply] ELSE call[c]
  BY DEF FailPending
<1> HIDE DEF failed, reply
<1>4. ASSUME NEW c \in Calls
      PROVE  /\ failed[c] \in CallRecord
             /\ failed[c].st = call[c].st /\ failed[c].attempt = call[c].attempt
             /\ failed[c].on = call[c].on
             /\ c \notin Pending(t) => failed[c] = call[c]
             /\ c \in Pending(t) => failed[c].reply \in {"sent", "broken"}
  <2>1. CASE c \in Pending(t)
    <3>1. call[c] \in CallRecord /\ failed[c] = [call[c] EXCEPT !.reply = reply]
      BY <2>1, <1>1, <1>3
    <3> QED
      BY <3>1, <2>1, <1>2 DEF CallRecord, Kinds, Lost
  <2>2. CASE c \notin Pending(t)
    BY <2>2, <1>1, <1>3
  <2> QED
    BY <2>1, <2>2
<1>5. failed \in [Calls -> CallRecord]
  BY <1>3, <1>4
<1> QED
  BY <1>4, <1>5 DEF failed

\* Resolve wakes the waiters of the connect task and nobody else.
LEMMA ResolveFacts ==
    ASSUME TypeOK, NEW t \in Transport \cup {NoTransport},
           NEW kind \in {"none", "unsent", "connect"}, Resolve(t, kind)
    PROVE  /\ call' \in [Calls -> CallRecord]
           /\ \A c \in Calls :
                /\ call[c].st # "connecting" => call'[c] = call[c]
                /\ call'[c].attempt = call[c].attempt
                /\ call[c].st = "connecting" =>
                      call'[c].st = "got" /\ call'[c].on = t /\ call'[c].reply = kind
<1>1. \A c \in Calls : call[c] \in CallRecord
  BY DEF TypeOK
<1>2. ASSUME NEW q \in CallRecord
      PROVE  LET p == [q EXCEPT !.st = "got", !.on = t, !.reply = kind] IN
             /\ p \in CallRecord /\ p.st = "got" /\ p.attempt = q.attempt
             /\ p.on = t /\ p.reply = kind
  BY <1>2 DEF CallRecord, Kinds, Lost, CallStates
<1> QED
  BY <1>1, <1>2 DEF Resolve

\* Shut and Retired close a transport; CancelRequest only counts.
LEMMA WsFacts ==
    ASSUME NEW w \in WsRecord
    PROVE  /\ Shut(w) \in WsRecord /\ Shut(w).shut /\ Shut(w).reading = w.reading
           /\ Shut(w).done = w.done
           /\ w.shut => Shut(w) = w
           /\ ~w.shut => Shut(w).ending = "clean"
           /\ Retired(w) \in WsRecord /\ Retired(w).shut
           /\ Retired(w).reading = w.reading /\ Retired(w).ending = Shut(w).ending
           /\ CancelRequest(w) \in WsRecord /\ CancelRequest(w).shut = w.shut
           /\ CancelRequest(w).reading = w.reading /\ CancelRequest(w).ending = w.ending
           /\ CancelRequest(w).done = w.done
<1>1. /\ Shut(w) \in WsRecord /\ Shut(w).shut /\ Shut(w).reading = w.reading
      /\ Shut(w).done = w.done
      /\ w.shut => Shut(w) = w
      /\ ~w.shut => Shut(w).ending = "clean"
  <2>1. CASE w.shut
    BY <2>1 DEF Shut
  <2>2. CASE ~w.shut
    <3>1. Shut(w) = [w EXCEPT !.shut = TRUE, !.ending = "clean", !.cancels = 0]
      BY <2>2 DEF Shut
    <3>2. 0 \in 0..MaxCancelSends
      BY ClientAssumption
    <3> QED
      BY <2>2, <3>1, <3>2 DEF WsRecord
  <2> QED
    BY <2>1, <2>2
<1>2. /\ CancelRequest(w) \in WsRecord /\ CancelRequest(w).shut = w.shut
      /\ CancelRequest(w).reading = w.reading /\ CancelRequest(w).ending = w.ending
      /\ CancelRequest(w).done = w.done
  BY ClientAssumption DEF CancelRequest, WsRecord
<1>3. Retired(w) = [Shut(w) EXCEPT !.done = IF @ = "pending" THEN "sent" ELSE @]
  BY DEF Retired
<1>4. /\ Retired(w) \in WsRecord /\ Retired(w).shut
      /\ Retired(w).reading = w.reading /\ Retired(w).ending = Shut(w).ending
  BY <1>1, <1>3 DEF WsRecord, Lost
<1> QED
  BY <1>1, <1>2, <1>4

\* Dropped: the pool gives the transport up and fails for good, or connects again.
LEMMA DroppedFacts ==
    ASSUME TypeOK, NEW t \in Transport, NEW fatal \in BOOLEAN, ws[t].done # "pending"
    PROVE  LET q == Dropped(t, fatal) IN
           /\ q \in PoolRecord /\ q.cur = NoTransport
           /\ q.closing = pool.closing /\ q.released = pool.released
           /\ \/ q.failure \in {"unsent", "sent", "broken"} /\ q.task = pool.task
              \/ q.failure = pool.failure /\ q.task # "none"
<1>1. ws[t].done \in {"sent", "unsent", "clean", "broken"}
  BY DEF TypeOK, WsRecord, Lost
<1>2. pool \in PoolRecord
  BY DEF TypeOK
<1> QED
  BY <1>1, <1>2 DEF Dropped, StartConnect, PoolRecord, Kinds, Lost

\* LeaveTransport: the call goes on or ends, and a request that was not sent
\* completely takes its transport and the other requests on it with it.
LEMMA LeaveFacts ==
    ASSUME TypeOK, NEW c \in Calls, NEW kind \in Kinds, call[c].on \in Transport,
           LeaveTransport(c, kind)
    PROVE  /\ call' \in [Calls -> CallRecord] /\ call'[c] = Failed(c, kind, TRUE)
           /\ \A d \in Calls \ {c} :
                /\ call'[d].st = call[d].st /\ call'[d].attempt = call[d].attempt
                /\ call'[d].on = call[d].on
                /\ \/ call'[d].reply = call[d].reply
                   \/ d \in Pending(call[c].on) /\ call'[d].reply \in {"sent", "broken"}
           /\ ws' \in [Transport -> WsRecord]
           /\ \A t \in Transport :
                /\ ws[t].shut => ws'[t].shut
                /\ ws'[t].reading = ws[t].reading
                /\ ws'[t].ending = ws[t].ending \/ (ws'[t].ending = "clean" /\ ws'[t].shut)
                /\ ws'[t].done = ws[t].done \/ ws'[t].shut
<1> DEFINE t == call[c].on
           failed == FailPending(t, "lost")
<1>1. Failed(c, kind, TRUE) \in CallRecord
  BY FailedFacts
<1>2. /\ failed \in [Calls -> CallRecord]
      /\ \A d \in Calls :
            /\ failed[d].st = call[d].st /\ failed[d].attempt = call[d].attempt
            /\ failed[d].on = call[d].on
            /\ d \notin Pending(t) => failed[d] = call[d]
            /\ d \in Pending(t) => failed[d].reply \in {"sent", "broken"}
  BY FailPendingFacts
<1>3. call \in [Calls -> CallRecord] /\ ws \in [Transport -> WsRecord] /\ t \in Transport
  BY DEF TypeOK
<1>4. LET w == ws[t] IN
      /\ Retired(w) \in WsRecord /\ Retired(w).shut /\ Retired(w).reading = w.reading
      /\ Retired(w).ending = w.ending \/ Retired(w).ending = "clean"
      /\ CancelRequest(w) \in WsRecord /\ CancelRequest(w).shut = w.shut
      /\ CancelRequest(w).reading = w.reading /\ CancelRequest(w).ending = w.ending
      /\ CancelRequest(w).done = w.done
  BY <1>3, WsFacts
<1>5. \E w \in {Retired(ws[t]), CancelRequest(ws[t]), ws[t]} : ws' = [ws EXCEPT ![t] = w]
  <2>1. CASE call[c].st = "sending"
    BY <2>1 DEF LeaveTransport
  <2>2. CASE call[c].st # "sending" /\ call[c].reply = "none"
    BY <2>2 DEF LeaveTransport
  <2>3. CASE call[c].st # "sending" /\ call[c].reply # "none"
    BY <2>3 DEF LeaveTransport
  <2> QED
    BY <2>1, <2>2, <2>3
<1>6. \E g \in {failed, call} : call' = [g EXCEPT ![c] = Failed(c, kind, TRUE)]
  BY DEF LeaveTransport
<1> HIDE DEF failed
<1>7. /\ ws' \in [Transport -> WsRecord]
      /\ \A x \in Transport :
            /\ ws[x].shut => ws'[x].shut
            /\ ws'[x].reading = ws[x].reading
            /\ ws'[x].ending = ws[x].ending \/ (ws'[x].ending = "clean" /\ ws'[x].shut)
            /\ ws'[x].done = ws[x].done \/ ws'[x].shut
  <2>1. PICK w \in {Retired(ws[t]), CancelRequest(ws[t]), ws[t]} :
              ws' = [ws EXCEPT ![t] = w]
    BY <1>5
  <2>2. /\ w \in WsRecord /\ w.reading = ws[t].reading
        /\ ws[t].shut => w.shut
        /\ w.ending = ws[t].ending \/ (w.ending = "clean" /\ w.shut)
        /\ w.done = ws[t].done \/ w.shut
    BY <1>3, <1>4
  <2> HIDE DEF t
  <2>3. ws'[t] = w /\ \A x \in Transport \ {t} : ws'[x] = ws[x]
    BY <1>3, <2>1
  <2>4. ws' \in [Transport -> WsRecord]
    BY <1>3, <2>1, <2>2
  <2> QED
    BY <2>2, <2>3, <2>4
<1>8. /\ call' \in [Calls -> CallRecord] /\ call'[c] = Failed(c, kind, TRUE)
      /\ \A d \in Calls \ {c} :
            /\ call'[d].st = call[d].st /\ call'[d].attempt = call[d].attempt
            /\ call'[d].on = call[d].on
            /\ \/ call'[d].reply = call[d].reply
               \/ d \in Pending(t) /\ call'[d].reply \in {"sent", "broken"}
  <2>1. PICK g \in {failed, call} : call' = [g EXCEPT ![c] = Failed(c, kind, TRUE)]
    BY <1>6
  <2>2. /\ g \in [Calls -> CallRecord]
        /\ \A d \in Calls :
              /\ g[d].st = call[d].st /\ g[d].attempt = call[d].attempt
              /\ g[d].on = call[d].on
              /\ \/ g[d].reply = call[d].reply
                 \/ d \in Pending(t) /\ g[d].reply \in {"sent", "broken"}
    BY <1>2, <1>3
  <2>3. /\ call'[c] = Failed(c, kind, TRUE)
        /\ \A d \in Calls \ {c} : call'[d] = g[d]
    BY <2>1, <2>2
  <2>4. call' \in [Calls -> CallRecord]
    BY <1>1, <2>1, <2>2
  <2> QED
    BY <2>2, <2>3, <2>4
<1> QED
  BY <1>7, <1>8

\* The updates of a connect task keep the pool's type.
LEMMA PoolFields ==
    ASSUME NEW q \in PoolRecord, NEW n \in Nat,
           NEW task \in {"none", "opening", "sleeping", "cancelled"}
    PROVE  /\ [q EXCEPT !.task = task] \in PoolRecord
           /\ [q EXCEPT !.task = task, !.attempts = n] \in PoolRecord
           /\ [q EXCEPT !.task = task, !.attempts = n, !.failure = "connect"] \in PoolRecord
<1>1. "connect" \in Kinds
  BY DEF Kinds
<1> QED
  BY <1>1 DEF PoolRecord

-----------------------------------------------------------------------------
(* The steps keep the invariant *)

\* Every step keeps the types.
LEMMA TypeStep == ClientInv /\ [Next]_vars => TypeOK'
<1> SUFFICES ASSUME ClientInv, [Next]_vars PROVE TypeOK'
  OBVIOUS
<1>0. \A c \in Calls : CallNext(c) => CallStep(c)
  BY CallSteps
<1>a. TypeOK
  BY DEF ClientInv
<1> USE ClientAssumption DEF TypeOK, serverVars
<1>1. CASE UNCHANGED vars
  BY <1>1, <1>a DEF vars
<1>2. ASSUME NEW c \in Calls, CallStep(c) PROVE TypeOK'
  <2>1. CASE AttemptEnds(c)
    <3>1. PICK kind \in Kinds, retryable \in BOOLEAN : Ends(c, kind, retryable)
      BY <2>1 DEF AttemptEnds
    <3>2. Failed(c, kind, retryable) \in CallRecord
      BY <1>a, FailedFacts
    <3> QED
      BY <2>1, <3>1, <3>2, <1>a DEF AttemptEnds, Ends
  <2>2. CASE AttemptTransmits(c)
    <3>1. PICK x \in 1..opened : /\ call' = [call EXCEPT ![c].st = "sending", ![c].on = x]
                                 /\ wire' = wire \cup {Frame(c, x)}
      BY <2>2 DEF AttemptTransmits
    <3>2. x \in Transport
      BY <1>a DEF Transport
    <3>3. call[c] \in CallRecord
      BY <1>a
    <3>4. [call[c] EXCEPT !.st = "sending", !.on = x] \in CallRecord
      BY <3>2, <3>3 DEF CallRecord, CallStates
    <3>5. Frame(c, x) \in Frames
      BY <3>2, <3>3 DEF Frame, Frames, CallRecord
    <3> QED
      BY <2>2, <3>1, <3>4, <3>5, <1>a DEF AttemptTransmits
  <2>3. CASE AttemptLeaves(c)
    <3>1. PICK kind \in {"sent", "timeout", "abandoned"} : LeaveTransport(c, kind)
      BY <2>3 DEF AttemptLeaves
    <3>2. kind \in Kinds /\ call[c].on \in Transport
      BY <2>3, <1>a DEF Kinds, Lost, AttemptLeaves, ClientInv, CallsConsistent, Transport
    <3>3. call' \in [Calls -> CallRecord] /\ ws' \in [Transport -> WsRecord]
      BY <3>1, <3>2, <1>a, LeaveFacts
    <3> QED
      BY <3>1, <3>3, <1>a DEF LeaveTransport
  <2>4. ASSUME NEW fatal \in BOOLEAN, AttemptFindsClosed(c, fatal) PROVE TypeOK'
    <3>1. pool.cur \in Transport
      BY <2>4, <1>a DEF AttemptFindsClosed, PoolRecord
    <3>2. pool' \in PoolRecord
      BY <2>4, <1>a, <3>1, DroppedFacts DEF AttemptFindsClosed
    <3>3. CASE pool'.failure # "none"
      <4>1. pool'.failure \in Kinds
        BY <3>2, <3>3 DEF PoolRecord
      <4>2. Failed(c, pool'.failure, TRUE) \in CallRecord
        BY <4>1, <1>a, FailedFacts
      <4> QED
        BY <2>4, <3>2, <3>3, <4>2, <1>a DEF AttemptFindsClosed, Ends
    <3>4. CASE pool'.failure = "none"
      <4>1. [call[c] EXCEPT !.st = "connecting"] \in CallRecord
        BY <1>a DEF CallRecord, CallStates
      <4> QED
        BY <2>4, <3>2, <3>4, <4>1, <1>a DEF AttemptFindsClosed
    <3> QED
      BY <3>3, <3>4
  <2>5. CASE AttemptWaits(c)
    <3>1. [call[c] EXCEPT !.st = "connecting"] \in CallRecord
      BY <1>a DEF CallRecord, CallStates
    <3>2. StartConnect(pool) \in PoolRecord
      BY <1>a DEF StartConnect, PoolRecord
    <3> QED
      BY <2>5, <3>1, <3>2, <1>a DEF AttemptWaits
  <2>6. CASE SendDone(c)
    <3>1. [call[c] EXCEPT !.st = "waiting"] \in CallRecord
      BY <1>a DEF CallRecord, CallStates
    <3> QED
      BY <2>6, <3>1, <1>a DEF SendDone
  <2> QED
    BY <1>2, <2>1, <2>2, <2>3, <2>4, <2>5, <2>6 DEF CallStep
<1>3. ASSUME NEW t \in Transport, TransportNext(t) PROVE TypeOK'
  <2>1. ASSUME NEW fatal \in BOOLEAN, TransportClosed(t, fatal) PROVE TypeOK'
    BY <2>1, <1>a, DroppedFacts DEF TransportClosed
  <2>2. ASSUME NEW how \in {"lost", "broken"}, ReceiveFails(t, how) PROVE TypeOK'
    <3>1. call' \in [Calls -> CallRecord]
      BY <2>2, <1>a, FailPendingFacts DEF ReceiveFails
    <3>2. ws[t] \in WsRecord /\ 0 \in 0..MaxCancelSends
      BY <1>a
    <3>3. ws' \in [Transport -> WsRecord]
      <4>1. ASSUME NEW e \in {"broken", "sent", "unsent"}
            PROVE  [ws[t] EXCEPT !.shut = TRUE, !.reading = FALSE, !.cancels = 0,
                                 !.ending = e] \in WsRecord
        BY <3>2 DEF WsRecord, Lost
      <4>2. \E e \in {"broken", "sent", "unsent"} :
              ws' = [ws EXCEPT ![t] = [ws[t] EXCEPT !.shut = TRUE, !.reading = FALSE,
                                                   !.cancels = 0, !.ending = e]]
        BY <2>2 DEF ReceiveFails
      <4> QED
        BY <4>1, <4>2, <1>a
    <3> QED
      BY <2>2, <3>1, <3>3, <1>a DEF ReceiveFails, Unread
  <2>3. CASE CancellationSent(t)
    <3>1. ws[t] \in WsRecord
      BY <1>a
    <3>2. [ws[t] EXCEPT !.cancels = @ - 1] \in WsRecord
      BY <2>3, <3>1 DEF CancellationSent, WsRecord
    <3> QED
      BY <2>3, <3>2, <1>a DEF CancellationSent
  <2>4. CASE TransportEnds(t)
    <3>1. call' \in [Calls -> CallRecord]
      BY <2>4, <1>a, FailPendingFacts DEF TransportEnds
    <3>2. ws[t] \in WsRecord
      BY <1>a
    <3>3. [ws[t] EXCEPT !.reading = FALSE, !.ending = "none",
                        !.done = IF ws[t].done = "pending" THEN ws[t].ending ELSE ws[t].done]
          \in WsRecord
      BY <2>4, <3>2 DEF TransportEnds, WsRecord, Lost
    <3>4. ws' = [ws EXCEPT ![t] = [ws[t] EXCEPT !.reading = FALSE, !.ending = "none",
             !.done = IF ws[t].done = "pending" THEN ws[t].ending ELSE ws[t].done]]
      BY <2>4 DEF TransportEnds
    <3>5. ws' \in [Transport -> WsRecord]
      BY <3>3, <3>4, <1>a
    <3> QED
      BY <2>4, <3>1, <3>5, <1>a DEF TransportEnds, Unread
  <2> QED
    BY <1>3, <2>1, <2>2, <2>3, <2>4 DEF TransportNext
<1>4. CASE PoolNext
  <2>1. CASE ConnectOpens
    <3> DEFINE x == opened + 1
    <3>1. x \in Transport /\ opened' = x /\ opened' \in 0..MaxTransports
      BY <2>1, <1>a DEF ConnectOpens, Transport
    <3>2. call' \in [Calls -> CallRecord]
      BY <2>1, <1>a, <3>1, ResolveFacts DEF ConnectOpens
    <3>3. [ws[x] EXCEPT !.reading = TRUE] \in WsRecord
      BY <1>a, <3>1 DEF WsRecord
    <3>4. Shut([ws[x] EXCEPT !.reading = TRUE]) \in WsRecord
      BY <3>3, WsFacts
    <3>5. ws' \in [Transport -> WsRecord]
      BY <2>1, <3>3, <3>4, <1>a DEF ConnectOpens
    <3>6. pool' \in PoolRecord
      BY <2>1, <3>1, <1>a DEF ConnectOpens, PoolRecord
    <3> QED
      BY <2>1, <3>1, <3>2, <3>5, <3>6, <1>a DEF ConnectOpens
  <2>2. CASE ConnectAgain
    <3>1. pool \in PoolRecord
      BY <1>a
    <3>2. pool.attempts + 1 \in Nat
      BY <3>1 DEF PoolRecord
    <3>3. pool' = [pool EXCEPT !.task = "opening", !.attempts = pool.attempts + 1]
      BY <2>2, <3>1 DEF ConnectAgain, PoolRecord
    <3>4. pool' \in PoolRecord
      BY <3>1, <3>2, <3>3, PoolFields
    <3> QED
      BY <2>2, <3>4, <1>a DEF ConnectAgain
  <2>3. CASE ConnectCancelled
    <3>1. call' \in [Calls -> CallRecord]
      BY <2>3, <1>a, ResolveFacts DEF ConnectCancelled
    <3> QED
      BY <2>3, <3>1, <1>a DEF ConnectCancelled, PoolRecord
  <2>4. ASSUME NEW permanent \in BOOLEAN, ConnectFails(permanent) PROVE TypeOK'
    <3>1. call' \in [Calls -> CallRecord]
      BY <2>4, <1>a, ResolveFacts DEF ConnectFails
    <3>2. pool \in PoolRecord
      BY <1>a
    <3>3. pool' \in PoolRecord
      <4>1. CASE pool' = [pool EXCEPT !.task = "none", !.attempts = 0, !.failure = "connect"]
        BY <4>1, <3>2, PoolFields
      <4>2. CASE pool' = [pool EXCEPT !.task = "sleeping"]
        BY <4>2, <3>2, PoolFields
      <4> QED
        BY <2>4, <4>1, <4>2 DEF ConnectFails
    <3> QED
      BY <2>4, <3>1, <3>3, <1>a DEF ConnectFails
  <2>5. CASE PoolCloses
    BY <2>5, <1>a DEF PoolCloses, PoolRecord
  <2>6. CASE PoolReleases
    <3>1. \A x \in Transport : Shut(ws[x]) \in WsRecord
      BY <1>a, WsFacts
    <3>2. ws' \in [Transport -> WsRecord]
      BY <2>6, <3>1, <1>a DEF PoolReleases
    <3> QED
      BY <2>6, <3>2, <1>a DEF PoolReleases, PoolRecord
  <2> QED
    BY <1>4, <2>1, <2>2, <2>3, <2>4, <2>5, <2>6 DEF PoolNext
<1>5. CASE ClientCloses
  BY <1>5, <1>a DEF ClientCloses
<1>6. ASSUME NEW f \in wire, ServerExecutes(f) PROVE TypeOK'
  <2>1. f.call \in Calls
    BY <1>a DEF Frames
  <2> QED
    BY <1>6, <2>1, <1>a DEF ServerExecutes
<1>7. ASSUME NEW f \in replies, Receives(f) PROVE TypeOK'
  <2>1. f.call \in Calls
    BY <1>a DEF Frames
  <2>2. [call[f.call] EXCEPT !.reply = "answer"] \in CallRecord
    BY <2>1, <1>a DEF CallRecord, Kinds
  <2>3. call' \in [Calls -> CallRecord]
    BY <1>7, <2>1, <2>2, <1>a DEF Receives
  <2> QED
    BY <1>7, <2>3, <1>a DEF Receives
<1> QED
  BY <1>0, <1>1, <1>2, <1>3, <1>4, <1>5, <1>6, <1>7 DEF Next, Quiet

\* A request that was sent is on a transport that was opened.
LEMMA InUse ==
    ASSUME ClientInv, NEW c \in Calls, call[c].st \in OnWire
    PROVE  call[c].on \in Transport /\ call[c].on <= opened
<1>1. call[c].on \in 1..opened /\ opened \in 0..MaxTransports /\ MaxTransports \in Nat
  BY ClientAssumption DEF ClientInv, CallsConsistent, TypeOK
<1> QED
  BY <1>1 DEF Transport

\* Every step keeps what the pool and its transports know of each other.
LEMMA TransportStep == ClientInv /\ [Next]_vars => (TransportsConsistent /\ PoolConsistent)'
<1> SUFFICES ASSUME ClientInv, [Next]_vars PROVE (TransportsConsistent /\ PoolConsistent)'
  OBVIOUS
<1>0. \A c \in Calls : CallNext(c) => CallStep(c)
  BY CallSteps
<1>a. TypeOK
  BY DEF ClientInv
<1>b. TransportsConsistent /\ PoolConsistent /\ CallsConsistent
  BY DEF ClientInv
<1>c. /\ ws \in [Transport -> WsRecord] /\ pool \in PoolRecord
      /\ opened \in 0..MaxTransports /\ MaxTransports \in Nat
  BY <1>a, ClientAssumption DEF TypeOK
<1> USE <1>b DEF TransportsConsistent, PoolConsistent, serverVars, NoTransport
<1>1. CASE UNCHANGED vars
  BY <1>1 DEF vars, serverVars
<1>2. ASSUME NEW c \in Calls, CallStep(c) PROVE (TransportsConsistent /\ PoolConsistent)'
  <2>1. CASE AttemptEnds(c)
    BY <2>1 DEF AttemptEnds
  <2>2. CASE AttemptTransmits(c)
    BY <2>2 DEF AttemptTransmits
  <2>3. CASE AttemptLeaves(c)
    <3>1. PICK kind \in {"sent", "timeout", "abandoned"} : LeaveTransport(c, kind)
      BY <2>3 DEF AttemptLeaves
    <3>2. kind \in Kinds /\ call[c].on \in Transport
      BY <2>3, InUse DEF Kinds, Lost, AttemptLeaves
    <3>3. /\ UNCHANGED <<closed, opened, pool>>
          /\ \A t \in Transport :
                /\ ws[t].shut => ws'[t].shut
                /\ ws'[t].reading = ws[t].reading
                /\ ws'[t].ending = ws[t].ending \/ (ws'[t].ending = "clean" /\ ws'[t].shut)
                /\ ws'[t].done = ws[t].done \/ ws'[t].shut
      BY <3>1, <3>2, <1>a, LeaveFacts DEF LeaveTransport
    <3> QED
      BY <3>3
  <2>4. ASSUME NEW fatal \in BOOLEAN, AttemptFindsClosed(c, fatal)
        PROVE  (TransportsConsistent /\ PoolConsistent)'
    <3>1. pool.cur \in Transport /\ ws[pool.cur].done # "pending"
      BY <2>4, <1>c DEF AttemptFindsClosed, PoolRecord
    <3>2. /\ pool'.cur = NoTransport /\ pool'.closing = pool.closing
          /\ pool'.released = pool.released
          /\ pool'.failure \in {"none", "unsent", "sent", "broken", "connect"}
      BY <2>4, <1>a, <3>1, DroppedFacts DEF AttemptFindsClosed
    <3>3. UNCHANGED <<closed, ws, opened>> /\ ~closed
      BY <2>4 DEF AttemptFindsClosed
    <3> QED
      BY <3>1, <3>2, <3>3, <1>c
  <2>5. CASE AttemptWaits(c)
    <3>1. /\ pool'.cur = pool.cur /\ pool'.closing = pool.closing
          /\ pool'.released = pool.released /\ pool'.failure = pool.failure
      BY <2>5, <1>c DEF AttemptWaits, StartConnect, PoolRecord
    <3> QED
      BY <2>5, <3>1 DEF AttemptWaits
  <2>6. CASE SendDone(c)
    BY <2>6 DEF SendDone
  <2> QED
    BY <1>2, <2>1, <2>2, <2>3, <2>4, <2>5, <2>6 DEF CallStep
<1>3. ASSUME NEW t \in Transport, TransportNext(t)
      PROVE  (TransportsConsistent /\ PoolConsistent)'
  <2>1. ASSUME NEW fatal \in BOOLEAN, TransportClosed(t, fatal)
        PROVE  (TransportsConsistent /\ PoolConsistent)'
    <3>1. ws[t].done # "pending" /\ pool.cur = t
      BY <2>1 DEF TransportClosed, Current
    <3>2. /\ pool'.cur = NoTransport /\ pool'.closing = pool.closing
          /\ pool'.released = pool.released
          /\ pool'.failure \in {"none", "unsent", "sent", "broken", "connect"}
      BY <2>1, <1>a, <3>1, DroppedFacts DEF TransportClosed
    <3>3. UNCHANGED <<closed, ws, opened>> /\ ~pool.closing
      BY <2>1 DEF TransportClosed
    <3> QED
      BY <3>1, <3>2, <3>3, <1>c
  <2>2. ASSUME NEW how \in {"lost", "broken"}, ReceiveFails(t, how)
        PROVE  (TransportsConsistent /\ PoolConsistent)'
    <3>1. ws'[t].shut /\ \A x \in Transport \ {t} : ws'[x] = ws[x]
      BY <2>2, <1>c DEF ReceiveFails, WsRecord
    <3> QED
      BY <2>2, <3>1 DEF ReceiveFails
  <2>3. CASE CancellationSent(t)
    <3>1. /\ \A x \in Transport \ {t} : ws'[x] = ws[x]
          /\ ws'[t].shut = ws[t].shut /\ ws'[t].reading = ws[t].reading
          /\ ws'[t].ending = ws[t].ending /\ ws'[t].done = ws[t].done
      BY <2>3, <1>c DEF CancellationSent, WsRecord
    <3> QED
      BY <2>3, <3>1 DEF CancellationSent
  <2>4. CASE TransportEnds(t)
    <3>1. ws'[t].shut = ws[t].shut /\ \A x \in Transport \ {t} : ws'[x] = ws[x]
      BY <2>4, <1>c DEF TransportEnds, WsRecord
    <3> QED
      BY <2>4, <3>1 DEF TransportEnds
  <2> QED
    BY <1>3, <2>1, <2>2, <2>3, <2>4 DEF TransportNext
<1>4. CASE PoolNext
  <2>1. CASE ConnectOpens
    <3> DEFINE x == opened + 1
               w == [ws[x] EXCEPT !.reading = TRUE]
    <3>1. x \in Transport /\ opened' = x /\ x \in Nat /\ UNCHANGED closed
      BY <2>1, <1>c DEF ConnectOpens, Transport
    <3>2. w \in WsRecord /\ w.reading /\ w.ending = ws[x].ending /\ w.done = ws[x].done
          /\ w.shut = ws[x].shut
      BY <1>c, <3>1 DEF WsRecord
    <3>3. ws'[x] = (IF pool.closing THEN Shut(w) ELSE w)
          /\ \A y \in Transport \ {x} : ws'[y] = ws[y]
      BY <2>1, <3>1, <1>c DEF ConnectOpens
    <3>4. /\ pool'.failure = pool.failure /\ pool'.closing = pool.closing
          /\ pool'.released = pool.released /\ pool'.task = "none"
          /\ pool'.cur = IF pool.closing THEN pool.cur ELSE x
      BY <2>1, <1>c DEF ConnectOpens, PoolRecord
    <3>5. pool.task # "none" /\ pool.cur = NoTransport
      BY <2>1 DEF ConnectOpens
    <3>6. \A y \in Transport : y <= x => y <= opened \/ y = x
      BY <3>1, <1>c DEF Transport
    <3>7. \A y \in Transport : y <= opened => ws[y].shut
      BY <3>5 DEF Transport
    <3>8. ws'[x].ending # "none" => ws'[x].shut
      BY <3>1, <3>2, <3>3, WsFacts
    <3>9. ws'[x].done # "pending" => ws'[x].shut
      BY <3>1, <3>2, <3>3, WsFacts
    <3>10. ~ws'[x].shut => ws'[x].reading /\ pool'.cur = x
      BY <3>2, <3>3, <3>4, WsFacts
    <3> HIDE DEF w
    <3>11. TransportsConsistent'
      BY <3>1, <3>3, <3>6, <3>7, <3>8, <3>9, <3>10
    <3>12. PoolConsistent'
      BY <3>1, <3>4, <3>5, <1>c
    <3> QED
      BY <3>11, <3>12
  <2>2. CASE ConnectAgain
    BY <2>2, <1>c DEF ConnectAgain, PoolRecord
  <2>3. CASE ConnectCancelled
    BY <2>3, <1>c DEF ConnectCancelled, PoolRecord
  <2>4. ASSUME NEW permanent \in BOOLEAN, ConnectFails(permanent)
        PROVE  (TransportsConsistent /\ PoolConsistent)'
    <3>1. /\ pool'.cur = pool.cur /\ pool'.closing = pool.closing
          /\ pool'.released = pool.released /\ pool.task = "opening"
          /\ pool'.failure \in {pool.failure, "connect"}
      BY <2>4, <1>c DEF ConnectFails, PoolRecord
    <3> QED
      BY <2>4, <3>1 DEF ConnectFails
  <2>5. CASE PoolCloses
    <3>1. /\ pool'.cur = pool.cur /\ pool'.closing
          /\ pool'.released = pool.released /\ pool'.failure = pool.failure
          /\ pool.task = "none" => pool'.task = "none"
      BY <2>5, <1>c DEF PoolCloses, PoolRecord
    <3> QED
      BY <2>5, <3>1 DEF PoolCloses
  <2>6. CASE PoolReleases
    <3>1. /\ pool'.cur = NoTransport /\ pool'.closing /\ pool'.task = "none"
          /\ pool'.failure = pool.failure
      BY <2>6, <1>c DEF PoolReleases, PoolRecord
    <3>2. ASSUME NEW x \in Transport
          PROVE  ws'[x] = IF x = pool.cur THEN Shut(ws[x]) ELSE ws[x]
      BY <2>6 DEF PoolReleases, StillHeld, Transport
    <3>3. \A x \in Transport : ws[x] \in WsRecord
      BY <1>c
    <3>4. \A x \in Transport : x <= opened => ws'[x].shut
      BY <3>2, <3>3, WsFacts
    <3>5. \A x \in Transport : ws'[x] = ws[x] \/ ws'[x].shut
      BY <3>2, <3>3, WsFacts
    <3> QED
      BY <2>6, <3>1, <3>4, <3>5, <1>c DEF PoolReleases
  <2> QED
    BY <1>4, <2>1, <2>2, <2>3, <2>4, <2>5, <2>6 DEF PoolNext
<1>5. CASE ClientCloses
  BY <1>5 DEF ClientCloses
<1>6. ASSUME NEW f \in wire, ServerExecutes(f)
      PROVE  (TransportsConsistent /\ PoolConsistent)'
  BY <1>6 DEF ServerExecutes
<1>7. ASSUME NEW f \in replies, Receives(f)
      PROVE  (TransportsConsistent /\ PoolConsistent)'
  BY <1>7 DEF Receives
<1> QED
  BY <1>0, <1>1, <1>2, <1>3, <1>4, <1>5, <1>6, <1>7 DEF Next, Quiet

\* Every step keeps what each call's state says, and nobody is stranded.
LEMMA CallsStep == ClientInv /\ [Next]_vars => (CallsConsistent /\ NobodyStranded)'
<1> SUFFICES ASSUME ClientInv, [Next]_vars PROVE (CallsConsistent /\ NobodyStranded)'
  OBVIOUS
<1>0. \A c \in Calls : CallNext(c) => CallStep(c)
  BY CallSteps
<1>a. TypeOK
  BY DEF ClientInv
<1>b. CallsConsistent /\ NobodyStranded /\ TransportsConsistent /\ PoolConsistent
  BY DEF ClientInv
<1>c. /\ call \in [Calls -> CallRecord] /\ ws \in [Transport -> WsRecord]
      /\ pool \in PoolRecord /\ opened \in 0..MaxTransports /\ MaxTransports \in Nat
  BY <1>a, ClientAssumption DEF TypeOK
<1>d. \A c \in Calls : call[c].st \in OnWire =>
        call[c].on \in Transport /\ call[c].on <= opened
  BY InUse
<1> USE <1>b DEF CallsConsistent, NobodyStranded, serverVars, OnWire
<1>1. CASE UNCHANGED vars
  BY <1>1 DEF vars, serverVars
<1>2. ASSUME NEW c \in Calls, CallStep(c) PROVE (CallsConsistent /\ NobodyStranded)'
  <2>1. CASE AttemptEnds(c)
    <3>1. PICK kind \in Kinds, retryable \in BOOLEAN :
                 /\ kind = "unsent" => call[c].st \notin OnWire
                 /\ kind = "answer" => call[c].reply = "answer"
                 /\ Ends(c, kind, retryable)
      BY <2>1 DEF AttemptEnds
    <3>2. \/ call'[c].st = "backoff" /\ call'[c].reply = "none"
          \/ call'[c].st = "done" /\ call'[c].reply = kind
      BY <3>1, <1>a, <1>c, FailedFacts DEF Ends
    <3>3. \A d \in Calls \ {c} : call'[d] = call[d]
      BY <3>1, <1>c DEF Ends
    <3>4. kind # "none"
      BY DEF Kinds, Lost
    <3> QED
      BY <2>1, <3>2, <3>3, <3>4 DEF AttemptEnds
  <2>2. CASE AttemptTransmits(c)
    <3>1. PICK x \in 1..opened :
                 ~ws[x].shut /\ call' = [call EXCEPT ![c].st = "sending", ![c].on = x]
      BY <2>2 DEF AttemptTransmits
    <3>2. /\ call'[c].st = "sending" /\ call'[c].on = x
          /\ call'[c].reply = "none"
          /\ \A d \in Calls \ {c} : call'[d] = call[d]
      BY <2>2, <3>1, <1>c DEF AttemptTransmits, CallRecord
    <3>3. x \in Transport /\ x <= opened
      BY <1>c DEF Transport
    <3>4. ws[x].reading
      BY <3>1, <3>3 DEF TransportsConsistent
    <3>5. ws' = ws /\ pool' = pool /\ opened' = opened
      BY <2>2 DEF AttemptTransmits
    <3>6. CallsConsistent'
      BY <3>2, <3>3, <3>5
    <3>7. NobodyStranded'
      BY <3>2, <3>4, <3>5
    <3> QED
      BY <3>6, <3>7
  <2>3. CASE AttemptLeaves(c)
    <3>1. PICK kind \in {"sent", "timeout", "abandoned"} : LeaveTransport(c, kind)
      BY <2>3 DEF AttemptLeaves
    <3>2. kind \in Kinds /\ call[c].on \in Transport
      BY <2>3, InUse DEF Kinds, Lost, AttemptLeaves
    <3>3. \/ call'[c].st = "backoff" /\ call'[c].reply = "none"
          \/ call'[c].st = "done" /\ call'[c].reply = kind
      <4>1. call'[c] = Failed(c, kind, TRUE)
        BY <3>1, <3>2, <1>a, LeaveFacts
      <4> QED
        BY <4>1 DEF Failed, NewCall
    <3>4. /\ UNCHANGED <<opened, pool>>
          /\ \A d \in Calls \ {c} :
                /\ call'[d].st = call[d].st /\ call'[d].on = call[d].on
                /\ \/ call'[d].reply = call[d].reply
                   \/ d \in Pending(call[c].on) /\ call'[d].reply \in {"sent", "broken"}
          /\ \A t \in Transport :
                /\ ws'[t].reading = ws[t].reading
                /\ ws'[t].ending = ws[t].ending \/ (ws'[t].ending = "clean" /\ ws'[t].shut)
      BY <3>1, <3>2, <1>a, LeaveFacts DEF LeaveTransport
    <3>5. \A d \in Pending(call[c].on) : call[d].st \in OnWire
      BY DEF Pending
    <3> QED
      BY <3>3, <3>4, <3>5, <1>d
  <2>4. ASSUME NEW fatal \in BOOLEAN, AttemptFindsClosed(c, fatal)
        PROVE  (CallsConsistent /\ NobodyStranded)'
    <3>1. pool.cur \in Transport /\ ws[pool.cur].done # "pending"
      BY <2>4, <1>c DEF AttemptFindsClosed, PoolRecord
    <3>2. pool'.failure = "none" => pool'.task # "none"
      BY <2>4, <1>a, <3>1, DroppedFacts DEF AttemptFindsClosed
    <3>3. pool.task = "none"
      BY <2>4 DEF AttemptFindsClosed, PoolConsistent
    <3>4. pool' \in PoolRecord
      BY <2>4, <1>a, <3>1, DroppedFacts DEF AttemptFindsClosed
    <3>5. CASE pool'.failure # "none"
      <4>1. PICK kind \in Kinds : kind = pool'.failure
        BY <3>4, <3>5 DEF PoolRecord
      <4>2. \/ call'[c].st = "backoff" /\ call'[c].reply = "none"
            \/ call'[c].st = "done" /\ call'[c].reply = kind
        <5>1. call'[c] = Failed(c, kind, TRUE)
          BY <2>4, <3>5, <4>1, <1>c DEF AttemptFindsClosed, Ends
        <5> QED
          BY <5>1 DEF Failed, NewCall
      <4>3. \A d \in Calls \ {c} : call'[d] = call[d]
        BY <2>4, <3>5, <1>c DEF AttemptFindsClosed, Ends
      <4> QED
        BY <2>4, <3>3, <3>5, <4>1, <4>2, <4>3 DEF AttemptFindsClosed
    <3>6. CASE pool'.failure = "none"
      <4>1. /\ call'[c].st = "connecting" /\ call'[c].reply = call[c].reply
            /\ \A d \in Calls \ {c} : call'[d] = call[d]
        BY <2>4, <3>6, <1>c DEF AttemptFindsClosed, CallRecord
      <4> QED
        BY <2>4, <3>2, <3>6, <4>1 DEF AttemptFindsClosed, Ready
    <3> QED
      BY <3>5, <3>6
  <2>5. CASE AttemptWaits(c)
    <3>1. /\ call'[c].st = "connecting" /\ call'[c].reply = call[c].reply
          /\ \A d \in Calls \ {c} : call'[d] = call[d]
      BY <2>5, <1>c DEF AttemptWaits, CallRecord
    <3>2. pool'.task # "none"
      BY <2>5, <1>c DEF AttemptWaits, StartConnect, PoolRecord
    <3> QED
      BY <2>5, <3>1, <3>2 DEF AttemptWaits, Ready
  <2>6. CASE SendDone(c)
    <3>1. /\ call'[c].st = "waiting" /\ call'[c].reply = call[c].reply
          /\ call'[c].on = call[c].on /\ \A d \in Calls \ {c} : call'[d] = call[d]
      BY <2>6, <1>c DEF SendDone, CallRecord
    <3> QED
      BY <2>6, <3>1 DEF SendDone
  <2> QED
    BY <1>2, <2>1, <2>2, <2>3, <2>4, <2>5, <2>6 DEF CallStep
<1>3. ASSUME NEW t \in Transport, TransportNext(t)
      PROVE  (CallsConsistent /\ NobodyStranded)'
  <2>1. ASSUME NEW fatal \in BOOLEAN, TransportClosed(t, fatal)
        PROVE  (CallsConsistent /\ NobodyStranded)'
    <3>1. pool.task = "none"
      BY <2>1, <1>c DEF TransportClosed, Current, PoolConsistent, Transport, NoTransport
    <3> QED
      BY <2>1, <3>1 DEF TransportClosed
  <2>2. ASSUME NEW how \in {"lost", "broken"}, ReceiveFails(t, how)
        PROVE  (CallsConsistent /\ NobodyStranded)'
    <3>1. /\ \A x \in Transport \ {t} : ws'[x] = ws[x]
          /\ ws'[t].ending # "none"
      BY <2>2, <1>c DEF ReceiveFails, WsRecord
    <3>2. \A d \in Calls :
             /\ call'[d].st = call[d].st /\ call'[d].on = call[d].on
             /\ d \notin Pending(t) => call'[d] = call[d]
             /\ d \in Pending(t) => call'[d].reply \in {"sent", "broken"}
      BY <2>2, <1>a, FailPendingFacts DEF ReceiveFails
    <3>3. \A d \in Pending(t) : call[d].st \in OnWire
      BY DEF Pending
    <3> QED
      BY <2>2, <3>1, <3>2, <3>3, <1>d DEF ReceiveFails
  <2>3. CASE CancellationSent(t)
    <3>1. /\ \A x \in Transport \ {t} : ws'[x] = ws[x]
          /\ ws'[t].reading = ws[t].reading /\ ws'[t].ending = ws[t].ending
      BY <2>3, <1>c DEF CancellationSent, WsRecord
    <3> QED
      BY <2>3, <3>1, <1>d DEF CancellationSent
  <2>4. CASE TransportEnds(t)
    <3>1. \A x \in Transport \ {t} : ws'[x] = ws[x]
      BY <2>4, <1>c DEF TransportEnds
    <3>2. \A d \in Calls :
             /\ call'[d].st = call[d].st /\ call'[d].on = call[d].on
             /\ d \notin Pending(t) => call'[d] = call[d]
             /\ d \in Pending(t) => call'[d].reply \in {"sent", "broken"}
      BY <2>4, <1>a, FailPendingFacts DEF TransportEnds
    <3>3. /\ \A d \in Pending(t) : call[d].st \in OnWire
          /\ \A d \in Calls \ Pending(t) :
                call[d].st \in OnWire /\ call[d].on = t => call[d].reply # "none"
      BY DEF Pending
    <3> QED
      BY <2>4, <3>1, <3>2, <3>3, <1>d DEF TransportEnds
  <2> QED
    BY <1>3, <2>1, <2>2, <2>3, <2>4 DEF TransportNext
<1>4. CASE PoolNext
  <2>1. CASE ConnectOpens
    <3> DEFINE x == opened + 1
    <3>1. x \in Transport /\ opened' = x /\ ~(x <= opened)
      BY <2>1, <1>c DEF ConnectOpens, Transport
    <3>2. \A y \in Transport \ {x} : ws'[y] = ws[y]
      BY <2>1, <1>c DEF ConnectOpens
    <3>3. PICK u \in {x, NoTransport}, kind \in {"none", "unsent"} :
                 Resolve(u, kind) /\ (kind = "none" => u = x)
      BY <2>1 DEF ConnectOpens
    <3>4. \A d \in Calls :
             /\ call[d].st # "connecting" => call'[d] = call[d]
             /\ call[d].st = "connecting" =>
                   call'[d].st = "got" /\ call'[d].on = u /\ call'[d].reply = kind
      BY <3>1, <3>3, <1>a, ResolveFacts
    <3>5. 1..opened \subseteq 1..x /\ x \in 1..x
      BY <1>c
    <3>6. \A d \in Calls : call[d].st \in OnWire => call[d].on # x
      BY <3>1, <1>d
    <3> HIDE DEF x
    <3> QED
      BY <3>1, <3>2, <3>3, <3>4, <3>5, <3>6, <1>d
  <2>2. CASE ConnectAgain
    BY <2>2, <1>c DEF ConnectAgain, PoolRecord
  <2>3. CASE ConnectCancelled
    <3>1. \A d \in Calls :
             /\ call[d].st # "connecting" => call'[d] = call[d]
             /\ call[d].st = "connecting" =>
                   call'[d].st = "got" /\ call'[d].reply = "unsent"
      BY <2>3, <1>a, ResolveFacts DEF ConnectCancelled
    <3> QED
      BY <2>3, <3>1 DEF ConnectCancelled
  <2>4. ASSUME NEW permanent \in BOOLEAN, ConnectFails(permanent)
        PROVE  (CallsConsistent /\ NobodyStranded)'
    <3>1. CASE UNCHANGED call /\ pool' = [pool EXCEPT !.task = "sleeping"]
      <4>1. pool'.task = "sleeping"
        BY <3>1, <1>c DEF PoolRecord
      <4> QED
        BY <2>4, <3>1, <4>1 DEF ConnectFails
    <3>2. CASE Resolve(NoTransport, "connect")
      <4>1. \A d \in Calls :
               /\ call[d].st # "connecting" => call'[d] = call[d]
               /\ call[d].st = "connecting" =>
                     call'[d].st = "got" /\ call'[d].reply = "connect"
        BY <3>2, <1>a, ResolveFacts
      <4> QED
        BY <2>4, <4>1 DEF ConnectFails
    <3> QED
      BY <2>4, <3>1, <3>2 DEF ConnectFails
  <2>5. CASE PoolCloses
    BY <2>5, <1>c DEF PoolCloses, PoolRecord
  <2>6. CASE PoolReleases
    <3>1. \A x \in Transport : ws'[x] = ws[x] \/ ws'[x] = Shut(ws[x])
      BY <2>6 DEF PoolReleases
    <3>2. \A x \in Transport : ws'[x] = ws[x] \/
             (ws'[x].reading = ws[x].reading /\ ws'[x].ending = "clean")
      BY <3>1, <1>c, WsFacts
    <3>3. pool'.task = pool.task
      BY <2>6, <1>c DEF PoolReleases, PoolRecord
    <3> QED
      BY <2>6, <3>2, <3>3, <1>d DEF PoolReleases
  <2> QED
    BY <1>4, <2>1, <2>2, <2>3, <2>4, <2>5, <2>6 DEF PoolNext
<1>5. CASE ClientCloses
  BY <1>5 DEF ClientCloses
<1>6. ASSUME NEW f \in wire, ServerExecutes(f) PROVE (CallsConsistent /\ NobodyStranded)'
  BY <1>6 DEF ServerExecutes
<1>7. ASSUME NEW f \in replies, Receives(f) PROVE (CallsConsistent /\ NobodyStranded)'
  <2>1. f.call \in Calls
    BY <1>a DEF TypeOK, Frames
  <2>2. CASE f.call \in Pending(f.on)
    <3>1. call[f.call].st \in OnWire
      BY <2>2 DEF Pending
    <3>2. \A d \in Calls : /\ call'[d].st = call[d].st /\ call'[d].on = call[d].on
                            /\ d # f.call => call'[d] = call[d]
                            /\ call'[d].reply \in {call[d].reply, "answer"}
      BY <1>7, <2>1, <1>c DEF Receives, CallRecord
    <3> QED
      BY <1>7, <3>1, <3>2 DEF Receives
  <2>3. CASE f.call \notin Pending(f.on)
    BY <1>7, <2>3 DEF Receives
  <2> QED
    BY <2>2, <2>3
<1> QED
  BY <1>0, <1>1, <1>2, <1>3, <1>4, <1>5, <1>6, <1>7 DEF Next, Quiet

\* What a call has used is a number that its executions do not exceed.
LEMMA UsedType ==
    ASSUME TypeOK, IsFiniteSet(wire), NEW c \in Calls
    PROVE  used[c] \in Nat /\ executed[c] <= used[c]
<1>1. IsFiniteSet({f \in wire : f.call = c})
  BY FS_Subset
<1>2. Cardinality({f \in wire : f.call = c}) \in Nat /\ executed[c] \in Nat
  BY <1>1, FS_CardinalityType DEF TypeOK
<1>3. used[c] = executed[c] + Cardinality({f \in wire : f.call = c})
  BY DEF used
<1> QED
  BY <1>2, <1>3

\* A frame that enters the wire counts once, for its call.
LEMMA UsedSends ==
    ASSUME TypeOK, IsFiniteSet(wire), NEW c \in Calls, NEW f, f.call = c,
           wire' = wire \cup {f}, UNCHANGED executed
    PROVE  /\ used'[c] <= used[c] + 1
           /\ \A d \in Calls \ {c} : used'[d] = used[d]
<1> DEFINE mine == {g \in wire : g.call = c}
<1>1. IsFiniteSet(mine) /\ Cardinality(mine) \in Nat /\ executed[c] \in Nat
  BY FS_Subset, FS_CardinalityType DEF TypeOK
<1>2. {g \in wire' : g.call = c} = mine \cup {f}
  OBVIOUS
<1>3. Cardinality(mine \cup {f}) \in {Cardinality(mine), Cardinality(mine) + 1}
  BY <1>1, FS_AddElement
<1>4. /\ used[c] = executed[c] + Cardinality(mine)
      /\ used'[c] = executed[c] + Cardinality(mine \cup {f})
  BY <1>2 DEF used
<1> HIDE DEF mine
<1>5. used'[c] <= used[c] + 1
  BY <1>1, <1>3, <1>4
<1>6. \A d \in Calls \ {c} : {g \in wire' : g.call = d} = {g \in wire : g.call = d}
  OBVIOUS
<1>7. \A d \in Calls \ {c} : used'[d] = used[d]
  BY <1>6 DEF used
<1> QED
  BY <1>5, <1>7

\* An execution takes its frame off the wire: what the call has used stays.
LEMMA UsedExecutes ==
    ASSUME TypeOK, IsFiniteSet(wire), NEW f \in wire, ServerExecutes(f)
    PROVE  /\ \A d \in Calls : used'[d] = used[d]
           /\ f.call \in Calls /\ executed[f.call] < used[f.call]
<1> DEFINE c == f.call
           mine == {g \in wire : g.call = c}
<1>1. c \in Calls /\ wire' = wire \ {f}
  BY DEF TypeOK, Frames, ServerExecutes
<1>2. executed[c] \in Nat /\ executed'[c] = executed[c] + 1
      /\ \A d \in Calls \ {c} : executed'[d] = executed[d]
  BY <1>1 DEF TypeOK, ServerExecutes
<1>3. IsFiniteSet(mine) /\ Cardinality(mine) \in Nat /\ f \in mine
  BY FS_Subset, FS_CardinalityType
<1>4. Cardinality(mine \ {f}) = Cardinality(mine) - 1 /\ IsFiniteSet(mine \ {f})
  BY <1>3, FS_RemoveElement
<1>5. Cardinality(mine \ {f}) \in Nat
  BY <1>4, FS_CardinalityType
<1>6. {g \in wire' : g.call = c} = mine \ {f}
  BY <1>1
<1>7. /\ used[c] = executed[c] + Cardinality(mine)
      /\ used'[c] = executed'[c] + Cardinality(mine \ {f})
  BY <1>1, <1>6 DEF used
<1>8. \A d \in Calls \ {c} : {g \in wire' : g.call = d} = {g \in wire : g.call = d}
  BY <1>1
<1>9. \A d \in Calls \ {c} : used'[d] = used[d]
  BY <1>2, <1>8 DEF used
<1> HIDE DEF mine
<1>10. used'[c] = used[c] /\ executed[c] < used[c]
  BY <1>2, <1>3, <1>4, <1>5, <1>7
<1> QED
  BY <1>1, <1>9, <1>10

\* The end of an attempt stays within the budget: a retry pays for its own attempt.
LEMMA EndsBudget ==
    ASSUME ClientInv, NEW c \in Calls, NEW kind \in Kinds, NEW retryable \in BOOLEAN,
           call[c].st # "done", kind = "unsent" => call[c].st \notin OnWire,
           call'[c] = Failed(c, kind, retryable), used'[c] = used[c]
    PROVE  BudgetOf(c)'
<1>1. /\ call[c].attempt \in 1..(RetryAttempts + 1) /\ RetryAttempts \in Nat
      /\ used[c] \in Nat
  BY UsedType, ClientAssumption DEF ClientInv, TypeOK, CallRecord, Attempt
<1>2. BudgetOf(c)
  BY DEF ClientInv, BudgetKept
<1>3. CASE Retries(c, kind, retryable)
  <2>1. call'[c].st = "backoff" /\ call'[c].attempt = call[c].attempt + 1
    BY <1>3 DEF Failed, NewCall
  <2>2. c \notin Idempotent => call[c].st \notin OnWire
    BY <1>3 DEF Retries
  <2>3. c \in Idempotent => used[c] <= call[c].attempt
    BY <1>1, <1>2 DEF BudgetOf
  <2>4. c \notin Idempotent => used[c] <= 0
    BY <1>2, <2>2 DEF BudgetOf
  <2> QED
    BY <1>1, <2>1, <2>3, <2>4 DEF BudgetOf, OnWire
<1>4. CASE ~Retries(c, kind, retryable)
  <2>1. call'[c].st = "done" /\ call'[c].reply = kind
    BY <1>4 DEF Failed, NewCall
  <2>2. c \in Idempotent => used[c] <= RetryAttempts + 1
    BY <1>1, <1>2 DEF BudgetOf
  <2>3. c \notin Idempotent =>
           used[c] <= 1 /\ (call[c].st \notin OnWire => used[c] <= 0)
    BY <1>1, <1>2 DEF BudgetOf
  <2> QED
    BY <1>1, <2>1, <2>2, <2>3 DEF BudgetOf, OnWire
<1> QED
  BY <1>3, <1>4

\* A call whose place in the retry loop does not change keeps its budget.
LEMMA SameBudget ==
    ASSUME ClientInv, NEW d \in Calls, used'[d] = used[d],
           call'[d].st = call[d].st, call'[d].attempt = call[d].attempt,
           call[d].st = "done" => call'[d].reply = call[d].reply
    PROVE  BudgetOf(d)'
<1>1. BudgetOf(d)
  BY DEF ClientInv, BudgetKept
<1> QED
  BY <1>1 DEF BudgetOf, OnWire

\* Every step keeps every call within its budget of executions.
LEMMA BudgetStep == ClientInv /\ [Next]_vars => BudgetKept'
<1> SUFFICES ASSUME ClientInv, [Next]_vars PROVE BudgetKept'
  OBVIOUS
<1>0. \A c \in Calls : CallNext(c) => CallStep(c)
  BY CallSteps
<1>a. TypeOK /\ IsFiniteSet(wire)
  BY DEF ClientInv
<1>c. call \in [Calls -> CallRecord] /\ pool \in PoolRecord
  BY <1>a DEF TypeOK
<1>e. UNCHANGED <<wire, executed>> => \A d \in Calls : used'[d] = used[d]
  BY DEF used
<1> USE DEF serverVars
<1>1. CASE UNCHANGED vars
  BY <1>1, <1>e, SameBudget DEF vars, BudgetKept
<1>2. ASSUME NEW c \in Calls, CallStep(c) PROVE BudgetKept'
  <2>1. CASE AttemptEnds(c)
    <3>1. PICK kind \in Kinds, retryable \in BOOLEAN :
                 /\ kind = "unsent" => call[c].st \notin OnWire
                 /\ kind = "answer" => call[c].reply = "answer"
                 /\ Ends(c, kind, retryable)
      BY <2>1 DEF AttemptEnds
    <3>2. call'[c] = Failed(c, kind, retryable) /\ \A d \in Calls \ {c} : call'[d] = call[d]
      BY <3>1, <1>c DEF Ends
    <3>3. call[c].st # "done" /\ \A d \in Calls : used'[d] = used[d]
      BY <2>1, <1>e DEF AttemptEnds
    <3>4. BudgetOf(c)'
      BY <3>1, <3>2, <3>3, EndsBudget
    <3>5. \A d \in Calls \ {c} : BudgetOf(d)'
      BY <3>2, <3>3, SameBudget
    <3> QED
      BY <3>4, <3>5 DEF BudgetKept
  <2>2. CASE AttemptTransmits(c)
    <3>1. PICK x \in 1..opened : /\ call' = [call EXCEPT ![c].st = "sending", ![c].on = x]
                                 /\ wire' = wire \cup {Frame(c, x)}
      BY <2>2 DEF AttemptTransmits
    <3>2. /\ call'[c].st = "sending" /\ call'[c].attempt = call[c].attempt
          /\ \A d \in Calls \ {c} : call'[d] = call[d]
      BY <3>1, <1>c DEF CallRecord
    <3>3. Frame(c, x).call = c /\ UNCHANGED executed
      BY <2>2 DEF Frame, AttemptTransmits
    <3>4. used'[c] <= used[c] + 1 /\ \A d \in Calls \ {c} : used'[d] = used[d]
      BY <3>1, <3>3, <1>a, UsedSends
    <3>5. call[c].st \in {"idle", "backoff", "got"} /\ BudgetOf(c)
      BY <2>2 DEF AttemptTransmits, ClientInv, BudgetKept
    <3>6. used[c] \in Nat /\ call[c].attempt \in Nat
      BY <1>a, <1>c, UsedType, ClientAssumption DEF CallRecord, Attempt
    <3>7. used'[c] \in Nat
      <4>1. TypeOK' /\ IsFiniteSet(wire')
        BY <1>a, <3>1, TypeStep, FS_AddElement
      <4>2. IsFiniteSet({f \in wire' : f.call = c})
        BY <4>1, FS_Subset
      <4>3. Cardinality({f \in wire' : f.call = c}) \in Nat /\ executed'[c] \in Nat
        BY <4>1, <4>2, FS_CardinalityType DEF TypeOK
      <4> QED
        BY <4>3 DEF used
    <3>8. BudgetOf(c)'
      BY <3>2, <3>4, <3>5, <3>6, <3>7 DEF BudgetOf, OnWire
    <3>9. \A d \in Calls \ {c} : BudgetOf(d)'
      BY <3>2, <3>4, SameBudget
    <3> QED
      BY <3>8, <3>9 DEF BudgetKept
  <2>3. CASE AttemptLeaves(c)
    <3>1. PICK kind \in {"sent", "timeout", "abandoned"} : LeaveTransport(c, kind)
      BY <2>3 DEF AttemptLeaves
    <3>2. kind \in Kinds /\ call[c].on \in Transport
      BY <2>3, InUse DEF Kinds, Lost, AttemptLeaves
    <3>3. /\ call'[c] = Failed(c, kind, TRUE)
          /\ \A d \in Calls \ {c} :
                /\ call'[d].st = call[d].st /\ call'[d].attempt = call[d].attempt
                /\ call'[d].reply = call[d].reply \/ d \in Pending(call[c].on)
      BY <3>1, <3>2, <1>a, LeaveFacts
    <3>4. \A d \in Pending(call[c].on) : call[d].st # "done"
      BY DEF Pending
    <3>5. \A d \in Calls : used'[d] = used[d]
      BY <3>1, <1>e DEF LeaveTransport
    <3>6. call[c].st # "done" /\ kind # "unsent"
      BY <2>3 DEF AttemptLeaves, OnWire
    <3>7. BudgetOf(c)'
      BY <3>2, <3>3, <3>5, <3>6, EndsBudget
    <3>8. \A d \in Calls \ {c} : BudgetOf(d)'
      BY <3>3, <3>4, <3>5, SameBudget
    <3> QED
      BY <3>7, <3>8 DEF BudgetKept
  <2>4. ASSUME NEW fatal \in BOOLEAN, AttemptFindsClosed(c, fatal) PROVE BudgetKept'
    <3>1. /\ \A d \in Calls : used'[d] = used[d]
          /\ call[c].st \in {"idle", "backoff"}
      BY <2>4, <1>e DEF AttemptFindsClosed, Ready
    <3>2. pool' \in PoolRecord
      BY TypeStep DEF TypeOK
    <3>3. CASE pool'.failure # "none"
      <4>1. PICK kind \in Kinds : kind = pool'.failure
        BY <3>2, <3>3 DEF PoolRecord
      <4>2. call'[c] = Failed(c, kind, TRUE) /\ \A d \in Calls \ {c} : call'[d] = call[d]
        BY <2>4, <3>3, <4>1, <1>c DEF AttemptFindsClosed, Ends
      <4>3. BudgetOf(c)'
        BY <3>1, <4>2, EndsBudget DEF OnWire
      <4>4. \A d \in Calls \ {c} : BudgetOf(d)'
        BY <3>1, <4>2, SameBudget
      <4> QED
        BY <4>3, <4>4 DEF BudgetKept
    <3>4. CASE pool'.failure = "none"
      <4>1. /\ call'[c].st = "connecting" /\ call'[c].attempt = call[c].attempt
            /\ \A d \in Calls \ {c} : call'[d] = call[d]
        BY <2>4, <3>4, <1>c DEF AttemptFindsClosed, CallRecord
      <4>2. BudgetOf(c)'
        BY <3>1, <4>1 DEF ClientInv, BudgetKept, BudgetOf, OnWire
      <4>3. \A d \in Calls \ {c} : BudgetOf(d)'
        BY <3>1, <4>1, SameBudget
      <4> QED
        BY <4>2, <4>3 DEF BudgetKept
    <3> QED
      BY <3>3, <3>4
  <2>5. CASE AttemptWaits(c)
    <3>1. /\ \A d \in Calls : used'[d] = used[d]
          /\ call[c].st \in {"idle", "backoff"}
      BY <2>5, <1>e DEF AttemptWaits, Ready
    <3>2. /\ call'[c].st = "connecting" /\ call'[c].attempt = call[c].attempt
          /\ \A d \in Calls \ {c} : call'[d] = call[d]
      BY <2>5, <1>c DEF AttemptWaits, CallRecord
    <3>3. BudgetOf(c)'
      BY <3>1, <3>2 DEF ClientInv, BudgetKept, BudgetOf, OnWire
    <3>4. \A d \in Calls \ {c} : BudgetOf(d)'
      BY <3>1, <3>2, SameBudget
    <3> QED
      BY <3>3, <3>4 DEF BudgetKept
  <2>6. CASE SendDone(c)
    <3>1. (\A d \in Calls : used'[d] = used[d]) /\ call[c].st = "sending"
      BY <2>6, <1>e DEF SendDone
    <3>2. /\ call'[c].st = "waiting" /\ call'[c].attempt = call[c].attempt
          /\ \A d \in Calls \ {c} : call'[d] = call[d]
      BY <2>6, <1>c DEF SendDone, CallRecord
    <3>3. BudgetOf(c)'
      BY <3>1, <3>2 DEF ClientInv, BudgetKept, BudgetOf, OnWire
    <3>4. \A d \in Calls \ {c} : BudgetOf(d)'
      BY <3>1, <3>2, SameBudget
    <3> QED
      BY <3>3, <3>4 DEF BudgetKept
  <2> QED
    BY <1>2, <2>1, <2>2, <2>3, <2>4, <2>5, <2>6 DEF CallStep
<1>3. ASSUME NEW t \in Transport, TransportNext(t) PROVE BudgetKept'
  <2>1. ASSUME NEW fatal \in BOOLEAN, TransportClosed(t, fatal) PROVE BudgetKept'
    <3>1. \A d \in Calls : call'[d] = call[d] /\ used'[d] = used[d]
      BY <2>1, <1>e DEF TransportClosed
    <3> QED
      BY <3>1, SameBudget DEF BudgetKept
  <2>2. ASSUME NEW how \in {"lost", "broken"}, ReceiveFails(t, how) PROVE BudgetKept'
    <3>1. \A d \in Calls :
             /\ call'[d].st = call[d].st /\ call'[d].attempt = call[d].attempt
             /\ d \notin Pending(t) => call'[d] = call[d]
      BY <2>2, <1>a, FailPendingFacts DEF ReceiveFails
    <3>2. \A d \in Pending(t) : call[d].st # "done"
      BY DEF Pending
    <3>3. \A d \in Calls : used'[d] = used[d]
      BY <2>2, <1>e DEF ReceiveFails
    <3> QED
      BY <3>1, <3>2, <3>3, SameBudget DEF BudgetKept
  <2>3. CASE CancellationSent(t)
    <3>1. \A d \in Calls : call'[d] = call[d] /\ used'[d] = used[d]
      BY <2>3, <1>e DEF CancellationSent
    <3> QED
      BY <3>1, SameBudget DEF BudgetKept
  <2>4. CASE TransportEnds(t)
    <3>1. \A d \in Calls :
             /\ call'[d].st = call[d].st /\ call'[d].attempt = call[d].attempt
             /\ d \notin Pending(t) => call'[d] = call[d]
      BY <2>4, <1>a, FailPendingFacts DEF TransportEnds
    <3>2. \A d \in Pending(t) : call[d].st # "done"
      BY DEF Pending
    <3>3. \A d \in Calls : used'[d] = used[d]
      BY <2>4, <1>e DEF TransportEnds
    <3> QED
      BY <3>1, <3>2, <3>3, SameBudget DEF BudgetKept
  <2> QED
    BY <1>3, <2>1, <2>2, <2>3, <2>4 DEF TransportNext
<1>4. CASE PoolNext
  <2>1. CASE ConnectOpens
    <3>1. \A d \in Calls : used'[d] = used[d]
      BY <2>1, <1>e DEF ConnectOpens
    <3>2. CASE UNCHANGED call
      BY <3>1, <3>2, SameBudget DEF BudgetKept
    <3>3. ASSUME NEW x \in Transport \cup {NoTransport},
                 NEW kind \in {"none", "unsent", "connect"}, Resolve(x, kind)
          PROVE  BudgetKept'
      <4>1. \A d \in Calls :
               /\ call[d].st # "connecting" => call'[d] = call[d]
               /\ call'[d].attempt = call[d].attempt
               /\ call[d].st = "connecting" => call'[d].st = "got"
        BY <3>3, <1>a, ResolveFacts
      <4>2. ASSUME NEW d \in Calls, call[d].st = "connecting" PROVE BudgetOf(d)'
        BY <3>1, <4>1, <4>2 DEF ClientInv, BudgetKept, BudgetOf, OnWire
      <4>3. ASSUME NEW d \in Calls, call[d].st # "connecting" PROVE BudgetOf(d)'
        BY <3>1, <4>1, <4>3, SameBudget
      <4> QED
        BY <4>2, <4>3 DEF BudgetKept
    <3> QED
      BY <2>1, <3>2, <3>3 DEF ConnectOpens
  <2>2. CASE ConnectAgain
    <3>1. \A d \in Calls : call'[d] = call[d] /\ used'[d] = used[d]
      BY <2>2, <1>e DEF ConnectAgain
    <3> QED
      BY <3>1, SameBudget DEF BudgetKept
  <2>3. CASE ConnectCancelled
    <3>1. \A d \in Calls : used'[d] = used[d]
      BY <2>3, <1>e DEF ConnectCancelled
    <3>2. CASE UNCHANGED call
      BY <3>1, <3>2, SameBudget DEF BudgetKept
    <3>3. ASSUME NEW x \in Transport \cup {NoTransport},
                 NEW kind \in {"none", "unsent", "connect"}, Resolve(x, kind)
          PROVE  BudgetKept'
      <4>1. \A d \in Calls :
               /\ call[d].st # "connecting" => call'[d] = call[d]
               /\ call'[d].attempt = call[d].attempt
               /\ call[d].st = "connecting" => call'[d].st = "got"
        BY <3>3, <1>a, ResolveFacts
      <4>2. ASSUME NEW d \in Calls, call[d].st = "connecting" PROVE BudgetOf(d)'
        BY <3>1, <4>1, <4>2 DEF ClientInv, BudgetKept, BudgetOf, OnWire
      <4>3. ASSUME NEW d \in Calls, call[d].st # "connecting" PROVE BudgetOf(d)'
        BY <3>1, <4>1, <4>3, SameBudget
      <4> QED
        BY <4>2, <4>3 DEF BudgetKept
    <3> QED
      BY <2>3, <3>2, <3>3 DEF ConnectCancelled
  <2>4. ASSUME NEW permanent \in BOOLEAN, ConnectFails(permanent) PROVE BudgetKept'
    <3>1. \A d \in Calls : used'[d] = used[d]
      BY <2>4, <1>e DEF ConnectFails
    <3>2. CASE UNCHANGED call
      BY <3>1, <3>2, SameBudget DEF BudgetKept
    <3>3. ASSUME NEW x \in Transport \cup {NoTransport},
                 NEW kind \in {"none", "unsent", "connect"}, Resolve(x, kind)
          PROVE  BudgetKept'
      <4>1. \A d \in Calls :
               /\ call[d].st # "connecting" => call'[d] = call[d]
               /\ call'[d].attempt = call[d].attempt
               /\ call[d].st = "connecting" => call'[d].st = "got"
        BY <3>3, <1>a, ResolveFacts
      <4>2. ASSUME NEW d \in Calls, call[d].st = "connecting" PROVE BudgetOf(d)'
        BY <3>1, <4>1, <4>2 DEF ClientInv, BudgetKept, BudgetOf, OnWire
      <4>3. ASSUME NEW d \in Calls, call[d].st # "connecting" PROVE BudgetOf(d)'
        BY <3>1, <4>1, <4>3, SameBudget
      <4> QED
        BY <4>2, <4>3 DEF BudgetKept
    <3> QED
      BY <2>4, <3>2, <3>3 DEF ConnectFails
  <2>5. CASE PoolCloses
    <3>1. \A d \in Calls : call'[d] = call[d] /\ used'[d] = used[d]
      BY <2>5, <1>e DEF PoolCloses
    <3> QED
      BY <3>1, SameBudget DEF BudgetKept
  <2>6. CASE PoolReleases
    <3>1. \A d \in Calls : call'[d] = call[d] /\ used'[d] = used[d]
      BY <2>6, <1>e DEF PoolReleases
    <3> QED
      BY <3>1, SameBudget DEF BudgetKept
  <2> QED
    BY <1>4, <2>1, <2>2, <2>3, <2>4, <2>5, <2>6 DEF PoolNext
<1>5. CASE ClientCloses
  <2>1. \A d \in Calls : call'[d] = call[d] /\ used'[d] = used[d]
    BY <1>5, <1>e DEF ClientCloses
  <2> QED
    BY <2>1, SameBudget DEF BudgetKept
<1>6. ASSUME NEW f \in wire, ServerExecutes(f) PROVE BudgetKept'
  <2>1. \A d \in Calls : used'[d] = used[d] /\ call'[d] = call[d]
    BY <1>6, <1>a, UsedExecutes DEF ServerExecutes
  <2> QED
    BY <2>1, SameBudget DEF BudgetKept
<1>7. ASSUME NEW f \in replies, Receives(f) PROVE BudgetKept'
  <2>1. \A d \in Calls : used'[d] = used[d]
    BY <1>7, <1>e DEF Receives
  <2>2. \A d \in Calls :
           /\ call'[d].st = call[d].st /\ call'[d].attempt = call[d].attempt
           /\ d \notin Pending(f.on) => call'[d] = call[d]
    BY <1>7, <1>c DEF Receives, CallRecord
  <2>3. \A d \in Pending(f.on) : call[d].st # "done"
    BY DEF Pending
  <2> QED
    BY <2>1, <2>2, <2>3, SameBudget DEF BudgetKept
<1> QED
  BY <1>0, <1>1, <1>2, <1>3, <1>4, <1>5, <1>6, <1>7 DEF Next, Quiet

\* Every step keeps the wire finite and answers only what was executed.
LEMMA AnswersStep == ClientInv /\ [Next]_vars => (AnswersExecuted /\ IsFiniteSet(wire))'
<1> SUFFICES ASSUME ClientInv, [Next]_vars PROVE (AnswersExecuted /\ IsFiniteSet(wire))'
  OBVIOUS
<1>0. \A c \in Calls : CallNext(c) => CallStep(c)
  BY CallSteps
<1>a. TypeOK
  BY DEF ClientInv
<1>b. AnswersExecuted /\ IsFiniteSet(wire)
  BY DEF ClientInv
<1>c. call \in [Calls -> CallRecord] /\ pool \in PoolRecord
  BY <1>a DEF TypeOK
<1> USE <1>b DEF AnswersExecuted, serverVars
<1>1. CASE UNCHANGED vars
  BY <1>1 DEF vars, serverVars
<1>2. ASSUME NEW c \in Calls, CallStep(c) PROVE (AnswersExecuted /\ IsFiniteSet(wire))'
  <2>1. CASE AttemptEnds(c)
    <3>1. PICK kind \in Kinds, retryable \in BOOLEAN :
                 /\ kind = "unsent" => call[c].st \notin OnWire
                 /\ kind = "answer" => call[c].reply = "answer"
                 /\ Ends(c, kind, retryable)
      BY <2>1 DEF AttemptEnds
    <3>2. call'[c].reply \in {"none", kind} /\ \A d \in Calls \ {c} : call'[d] = call[d]
      BY <3>1, <1>c DEF Ends, Failed, NewCall
    <3> QED
      BY <2>1, <3>1, <3>2 DEF AttemptEnds
  <2>2. CASE AttemptTransmits(c)
    <3>1. PICK x \in 1..opened : /\ call' = [call EXCEPT ![c].st = "sending", ![c].on = x]
                                 /\ wire' = wire \cup {Frame(c, x)}
      BY <2>2 DEF AttemptTransmits
    <3>2. \A d \in Calls : call'[d].reply = call[d].reply
      BY <3>1, <1>c DEF CallRecord
    <3>3. IsFiniteSet(wire')
      BY <3>1, FS_AddElement
    <3> QED
      BY <2>2, <3>2, <3>3 DEF AttemptTransmits
  <2>3. CASE AttemptLeaves(c)
    <3>1. PICK kind \in {"sent", "timeout", "abandoned"} : LeaveTransport(c, kind)
      BY <2>3 DEF AttemptLeaves
    <3>2. kind \in Kinds /\ call[c].on \in Transport
      BY <2>3, InUse DEF Kinds, Lost, AttemptLeaves
    <3>3. /\ call'[c] = Failed(c, kind, TRUE)
          /\ \A d \in Calls \ {c} : call'[d].reply \in {call[d].reply, "sent", "broken"}
      BY <3>1, <3>2, <1>a, LeaveFacts
    <3>4. call'[c].reply \in {"none", kind}
      BY <3>3 DEF Failed, NewCall
    <3> QED
      BY <3>1, <3>3, <3>4 DEF LeaveTransport
  <2>4. ASSUME NEW fatal \in BOOLEAN, AttemptFindsClosed(c, fatal)
        PROVE  (AnswersExecuted /\ IsFiniteSet(wire))'
    <3>1. pool.cur \in Transport
      BY <2>4, <1>c DEF AttemptFindsClosed, PoolRecord
    <3>2. pool'.failure # "answer"
      BY <2>4, <1>a, <3>1, DroppedFacts DEF AttemptFindsClosed, ClientInv, PoolConsistent
    <3>3. CASE pool'.failure # "none"
      <4>1. /\ call'[c] = Failed(c, pool'.failure, TRUE)
            /\ \A d \in Calls \ {c} : call'[d] = call[d]
        BY <2>4, <3>3, <1>c DEF AttemptFindsClosed, Ends
      <4>2. call'[c].reply \in {"none", pool'.failure}
        BY <4>1 DEF Failed, NewCall
      <4> QED
        BY <2>4, <3>2, <4>1, <4>2 DEF AttemptFindsClosed
    <3>4. CASE pool'.failure = "none"
      <4>1. \A d \in Calls : call'[d].reply = call[d].reply
        BY <2>4, <3>4, <1>c DEF AttemptFindsClosed, CallRecord
      <4> QED
        BY <2>4, <4>1 DEF AttemptFindsClosed
    <3> QED
      BY <3>3, <3>4
  <2>5. CASE AttemptWaits(c)
    <3>1. \A d \in Calls : call'[d].reply = call[d].reply
      BY <2>5, <1>c DEF AttemptWaits, CallRecord
    <3> QED
      BY <2>5, <3>1 DEF AttemptWaits
  <2>6. CASE SendDone(c)
    <3>1. \A d \in Calls : call'[d].reply = call[d].reply
      BY <2>6, <1>c DEF SendDone, CallRecord
    <3> QED
      BY <2>6, <3>1 DEF SendDone
  <2> QED
    BY <1>2, <2>1, <2>2, <2>3, <2>4, <2>5, <2>6 DEF CallStep
<1>3. ASSUME NEW t \in Transport, TransportNext(t)
      PROVE  (AnswersExecuted /\ IsFiniteSet(wire))'
  <2>1. ASSUME NEW fatal \in BOOLEAN, TransportClosed(t, fatal)
        PROVE  (AnswersExecuted /\ IsFiniteSet(wire))'
    BY <2>1 DEF TransportClosed
  <2>2. ASSUME NEW how \in {"lost", "broken"}, ReceiveFails(t, how)
        PROVE  (AnswersExecuted /\ IsFiniteSet(wire))'
    <3>1. \A d \in Calls : call'[d].reply \in {call[d].reply, "sent", "broken"}
      BY <2>2, <1>a, FailPendingFacts DEF ReceiveFails
    <3> QED
      BY <2>2, <3>1 DEF ReceiveFails, Unread
  <2>3. CASE CancellationSent(t)
    BY <2>3 DEF CancellationSent
  <2>4. CASE TransportEnds(t)
    <3>1. \A d \in Calls : call'[d].reply \in {call[d].reply, "sent", "broken"}
      BY <2>4, <1>a, FailPendingFacts DEF TransportEnds
    <3> QED
      BY <2>4, <3>1 DEF TransportEnds, Unread
  <2> QED
    BY <1>3, <2>1, <2>2, <2>3, <2>4 DEF TransportNext
<1>4. CASE PoolNext
  <2>1. CASE ConnectOpens
    <3>1. UNCHANGED <<wire, replies, executed>>
      BY <2>1 DEF ConnectOpens
    <3>2. CASE UNCHANGED call
      BY <3>1, <3>2
    <3>3. ASSUME NEW x \in Transport \cup {NoTransport},
                 NEW kind \in {"none", "unsent", "connect"}, Resolve(x, kind)
          PROVE  (AnswersExecuted /\ IsFiniteSet(wire))'
      <4>1. \A d \in Calls : call'[d].reply \in {call[d].reply, "none", "unsent", "connect"}
        BY <3>3, <1>a, ResolveFacts
      <4> QED
        BY <3>1, <4>1
    <3> QED
      BY <2>1, <3>2, <3>3 DEF ConnectOpens
  <2>2. CASE ConnectAgain
    BY <2>2 DEF ConnectAgain
  <2>3. CASE ConnectCancelled
    <3>1. UNCHANGED <<wire, replies, executed>>
      BY <2>3 DEF ConnectCancelled
    <3>2. CASE UNCHANGED call
      BY <3>1, <3>2
    <3>3. ASSUME NEW x \in Transport \cup {NoTransport},
                 NEW kind \in {"none", "unsent", "connect"}, Resolve(x, kind)
          PROVE  (AnswersExecuted /\ IsFiniteSet(wire))'
      <4>1. \A d \in Calls : call'[d].reply \in {call[d].reply, "none", "unsent", "connect"}
        BY <3>3, <1>a, ResolveFacts
      <4> QED
        BY <3>1, <4>1
    <3> QED
      BY <2>3, <3>2, <3>3 DEF ConnectCancelled
  <2>4. ASSUME NEW permanent \in BOOLEAN, ConnectFails(permanent)
        PROVE  (AnswersExecuted /\ IsFiniteSet(wire))'
    <3>1. UNCHANGED <<wire, replies, executed>>
      BY <2>4 DEF ConnectFails
    <3>2. CASE UNCHANGED call
      BY <3>1, <3>2
    <3>3. ASSUME NEW x \in Transport \cup {NoTransport},
                 NEW kind \in {"none", "unsent", "connect"}, Resolve(x, kind)
          PROVE  (AnswersExecuted /\ IsFiniteSet(wire))'
      <4>1. \A d \in Calls : call'[d].reply \in {call[d].reply, "none", "unsent", "connect"}
        BY <3>3, <1>a, ResolveFacts
      <4> QED
        BY <3>1, <4>1
    <3> QED
      BY <2>4, <3>2, <3>3 DEF ConnectFails
  <2>5. CASE PoolCloses
    BY <2>5 DEF PoolCloses
  <2>6. CASE PoolReleases
    BY <2>6 DEF PoolReleases
  <2> QED
    BY <1>4, <2>1, <2>2, <2>3, <2>4, <2>5, <2>6 DEF PoolNext
<1>5. CASE ClientCloses
  BY <1>5 DEF ClientCloses
<1>6. ASSUME NEW f \in wire, ServerExecutes(f)
      PROVE  (AnswersExecuted /\ IsFiniteSet(wire))'
  <2>1. f.call \in Calls /\ \A g \in replies : g.call \in Calls
    BY <1>a DEF TypeOK, Frames
  <2>2. \A d \in Calls : /\ executed[d] \in Nat
                          /\ executed'[d] \in {executed[d], executed[d] + 1}
    BY <1>6, <1>a, <2>1 DEF ServerExecutes, TypeOK
  <2>3. executed'[f.call] > 0
    BY <1>6, <1>a, <2>1 DEF ServerExecutes, TypeOK
  <2>4. \A d \in Calls : executed[d] > 0 => executed'[d] > 0
    BY <2>2
  <2>5. IsFiniteSet(wire')
    BY <1>6, FS_RemoveElement DEF ServerExecutes
  <2>6. replies' \subseteq replies \cup {f} /\ UNCHANGED call
    BY <1>6 DEF ServerExecutes
  <2> QED
    BY <2>1, <2>3, <2>4, <2>5, <2>6
<1>7. ASSUME NEW f \in replies, Receives(f) PROVE (AnswersExecuted /\ IsFiniteSet(wire))'
  <2>1. f.call \in Calls
    BY <1>a DEF TypeOK, Frames
  <2>2. \A d \in Calls : call'[d].reply = call[d].reply \/ d = f.call
    BY <1>7, <1>c DEF Receives, CallRecord
  <2>3. executed[f.call] > 0
    OBVIOUS
  <2> QED
    BY <1>7, <2>2, <2>3 DEF Receives
<1> QED
  BY <1>0, <1>1, <1>2, <1>3, <1>4, <1>5, <1>6, <1>7 DEF Next, Quiet

-----------------------------------------------------------------------------
(* The theorems *)

\* The inductive invariant holds throughout.
THEOREM ClientInvariant == Spec => []ClientInv
<1>1. Init => ClientInv
  <2> SUFFICES ASSUME Init PROVE ClientInv
    OBVIOUS
  <2> USE ClientAssumption DEF Init
  <2>1. NewCall \in CallRecord
    BY DEF NewCall, CallRecord, CallStates, Attempt
  <2>2. NewWs \in WsRecord /\ NewPool \in PoolRecord
    BY DEF NewWs, WsRecord, NewPool, PoolRecord
  <2>3. TypeOK
    <3>1. call \in [Calls -> CallRecord] /\ ws \in [Transport -> WsRecord]
      BY <2>1, <2>2
    <3>2. opened \in 0..MaxTransports /\ executed \in [Calls -> Nat]
      OBVIOUS
    <3> QED
      BY <2>2, <3>1, <3>2 DEF TypeOK
  <2>4. IsFiniteSet(wire) /\ AnswersExecuted
    BY FS_EmptySet DEF AnswersExecuted, NewCall
  <2>5. CallsConsistent /\ NobodyStranded
    BY DEF CallsConsistent, NobodyStranded, NewCall, OnWire
  <2>6. TransportsConsistent /\ PoolConsistent
    BY DEF TransportsConsistent, PoolConsistent, NewWs, NewPool, NoTransport, Transport
  <2>7. \A c \in Calls : {f \in wire : f.call = c} = {}
    OBVIOUS
  <2>8. \A c \in Calls : used[c] = 0
    BY <2>7, FS_EmptySet DEF used
  <2>9. BudgetKept
    BY <2>8 DEF BudgetKept, BudgetOf, NewCall, OnWire
  <2> QED
    BY <2>3, <2>4, <2>5, <2>6, <2>9 DEF ClientInv
<1>2. ClientInv /\ [Next]_vars => ClientInv'
  BY TypeStep, TransportStep, CallsStep, BudgetStep, AnswersStep DEF ClientInv
<1> QED
  BY <1>1, <1>2, PTL DEF Spec

\* Every waiter of the pool has a connect task to wait for, and every request on a
\* transport that is gone has its answer or its error.
THEOREM ClientNobodyStranded == Spec => []NobodyStranded
<1>1. ClientInv => NobodyStranded
  BY DEF ClientInv
<1> QED
  BY <1>1, ClientInvariant, PTL

\* The pool never loses track of an open connection, whichever of the done callback
\* and a lookup notices first that a transport is closed.
THEOREM ClientForgetsNoConnection == Spec => []NoConnectionForgotten
<1>1. ClientInv => NoConnectionForgotten
  <2> SUFFICES ASSUME ClientInv, NEW t \in 1..opened, ~ws[t].shut PROVE pool.cur = t
    BY DEF NoConnectionForgotten
  <2>1. t \in Transport /\ t <= opened
    BY ClientAssumption DEF ClientInv, TypeOK, Transport
  <2> QED
    BY <2>1 DEF ClientInv, TransportsConsistent
<1> QED
  BY <1>1, ClientInvariant, PTL

\* RpcTransportPool.close leaves no connection open.
THEOREM ClientClosedReleases == Spec => []ClosedReleases
<1>1. ClientInv => ClosedReleases
  <2> SUFFICES ASSUME ClientInv, pool.released, NEW t \in 1..opened PROVE ws[t].shut
    BY DEF ClosedReleases
  <2>1. t \in Transport /\ t <= opened /\ t # NoTransport
    BY ClientAssumption DEF ClientInv, TypeOK, Transport, NoTransport
  <2>2. pool.cur = NoTransport
    BY DEF ClientInv, PoolConsistent
  <2> QED
    BY <2>1, <2>2 DEF ClientInv, TransportsConsistent
<1> QED
  BY <1>1, ClientInvariant, PTL

-----------------------------------------------------------------------------
(* The refinement *)

\* What the caller of each call has seen.
Seen == [c \in Calls |-> IF call[c].st = "done" THEN call[c].reply ELSE "open"]

\* A step settles at most the call that takes it, executes at most the call whose frame
\* it takes, and never both; what a caller has seen stays.
LEMMA OneSettles ==
    ASSUME ClientInv, [Next]_vars
    PROVE  \/ UNCHANGED executed /\ \E c \in Calls :
                 /\ \A d \in Calls \ {c} : Seen'[d] = Seen[d]
                 /\ Seen[c] = "open"
           \/ UNCHANGED executed /\ Seen' = Seen
           \/ UNCHANGED call /\ \E f \in wire : ServerExecutes(f)
<1>a. TypeOK
  BY DEF ClientInv
<1>c. call \in [Calls -> CallRecord]
  BY <1>a DEF TypeOK
<1>d. ASSUME \A d \in Calls : \/ call'[d] = call[d]
                              \/ call[d].st # "done" /\ call'[d].st # "done"
      PROVE  Seen' = Seen
  BY <1>d DEF Seen
<1>e. ASSUME NEW c \in Calls, call[c].st # "done",
             \A d \in Calls \ {c} : \/ call'[d] = call[d]
                                    \/ call[d].st # "done" /\ call'[d].st # "done"
      PROVE  Seen[c] = "open" /\ \A d \in Calls \ {c} : Seen'[d] = Seen[d]
  BY <1>e DEF Seen
<1>1. CASE UNCHANGED vars
  BY <1>1 DEF vars, serverVars, Seen
<1>2. ASSUME NEW c \in Calls, CallStep(c)
      PROVE  /\ UNCHANGED executed /\ call[c].st # "done"
             /\ \A d \in Calls \ {c} : \/ call'[d] = call[d]
                                       \/ call[d].st # "done" /\ call'[d].st # "done"
  <2>1. CASE AttemptLeaves(c)
    <3>1. PICK kind \in {"sent", "timeout", "abandoned"} : LeaveTransport(c, kind)
      BY <2>1 DEF AttemptLeaves
    <3>2. kind \in Kinds /\ call[c].on \in Transport
      BY <2>1, InUse DEF Kinds, Lost, AttemptLeaves
    <3>3. \A d \in Calls \ {c} : d \notin Pending(call[c].on) => call'[d] = call[d]
      BY <3>1, <1>c DEF LeaveTransport, FailPending
    <3>4. \A d \in Calls \ {c} : call'[d].st = call[d].st
      BY <3>1, <3>2, <1>a, LeaveFacts
    <3>5. \A d \in Pending(call[c].on) : call[d].st # "done"
      BY DEF Pending
    <3>6. UNCHANGED executed /\ call[c].st # "done"
      BY <2>1, <3>1 DEF LeaveTransport, serverVars, AttemptLeaves, OnWire
    <3> QED
      BY <3>3, <3>4, <3>5, <3>6
  <2>2. CASE AttemptEnds(c)
    BY <2>2, <1>c DEF AttemptEnds, Ends, serverVars
  <2>3. CASE AttemptTransmits(c)
    BY <2>3, <1>c DEF AttemptTransmits
  <2>4. ASSUME NEW fatal \in BOOLEAN, AttemptFindsClosed(c, fatal)
        PROVE  UNCHANGED executed /\ call[c].st # "done"
               /\ \A d \in Calls \ {c} : call'[d] = call[d]
    BY <2>4, <1>c DEF AttemptFindsClosed, Ends, Ready, serverVars
  <2>5. CASE AttemptWaits(c) \/ SendDone(c)
    BY <2>5, <1>c DEF AttemptWaits, SendDone, Ready, serverVars
  <2> QED
    BY <1>2, <2>1, <2>2, <2>3, <2>4, <2>5 DEF CallStep
<1>3. ASSUME NEW t \in Transport, TransportNext(t)
      PROVE  UNCHANGED executed /\ Seen' = Seen
  <2>1. UNCHANGED executed
    BY <1>3 DEF TransportNext, TransportClosed, ReceiveFails, CancellationSent, TransportEnds,
                serverVars
  <2>2. CASE UNCHANGED call
    BY <2>1, <2>2 DEF Seen
  <2>3. ASSUME NEW how, call' = FailPending(t, how) PROVE Seen' = Seen
    <3>1. \A d \in Calls : /\ call'[d].st = call[d].st
                           /\ d \notin Pending(t) => call'[d] = call[d]
      BY <2>3, <1>a, FailPendingFacts
    <3>2. \A d \in Pending(t) : call[d].st # "done"
      BY DEF Pending
    <3> QED
      BY <3>1, <3>2, <1>d
  <2> QED
    BY <1>3, <2>1, <2>2, <2>3 DEF TransportNext, TransportClosed, ReceiveFails,
                                  CancellationSent, TransportEnds
<1>4. CASE PoolNext
  <2>1. UNCHANGED executed
    BY <1>4 DEF PoolNext, ConnectOpens, ConnectAgain, ConnectCancelled, ConnectFails,
                PoolCloses, PoolReleases, serverVars
  <2>2. CASE UNCHANGED call
    BY <2>1, <2>2 DEF Seen
  <2>3. ASSUME NEW t \in Transport \cup {NoTransport},
               NEW kind \in {"none", "unsent", "connect"}, Resolve(t, kind)
        PROVE  Seen' = Seen
    <3>1. \A d \in Calls : /\ call[d].st # "connecting" => call'[d] = call[d]
                           /\ call[d].st = "connecting" => call'[d].st = "got"
      BY <2>3, <1>a, ResolveFacts
    <3> QED
      BY <3>1, <1>d
  <2> QED
    BY <1>4, <2>1, <2>2, <2>3
       DEF PoolNext, ConnectOpens, ConnectAgain, ConnectCancelled, ConnectFails,
           PoolCloses, PoolReleases
<1>5. CASE ClientCloses
  BY <1>5 DEF ClientCloses, serverVars, Seen
<1>6. ASSUME NEW f \in wire, ServerExecutes(f) PROVE UNCHANGED call
  BY <1>6 DEF ServerExecutes
<1>7. ASSUME NEW f \in replies, Receives(f) PROVE UNCHANGED executed /\ Seen' = Seen
  <2>1. \A d \in Calls : /\ call'[d].st = call[d].st
                         /\ d \notin Pending(f.on) => call'[d] = call[d]
    BY <1>7, <1>c DEF Receives, CallRecord
  <2>2. \A d \in Pending(f.on) : call[d].st # "done"
    BY DEF Pending
  <2> QED
    BY <1>7, <2>1, <2>2, <1>d DEF Receives
<1>8. \A c \in Calls : CallNext(c) => CallStep(c)
  BY CallSteps
<1>9. ASSUME NEW c \in Calls, CallNext(c)
      PROVE  UNCHANGED executed /\ Seen[c] = "open"
             /\ \A d \in Calls \ {c} : Seen'[d] = Seen[d]
  BY <1>2, <1>8, <1>9, <1>e
<1> QED
  BY <1>1, <1>3, <1>4, <1>5, <1>6, <1>7, <1>9 DEF Next, Quiet

\* An answer was executed, and an unsent call that is not idempotent was not.
SettledWell ==
    \A c \in Calls : Seen[c] # "open" =>
        /\ Seen[c] \in Promise!Outcome
        /\ Seen[c] = "answer" => executed[c] > 0
        /\ Seen[c] = "unsent" /\ c \notin Idempotent => executed[c] = 0

\* The invariant gives it.
LEMMA Settled == ClientInv => SettledWell
<1> SUFFICES ASSUME ClientInv, NEW c \in Calls, Seen[c] # "open"
             PROVE  /\ Seen[c] \in Promise!Outcome
                    /\ Seen[c] = "answer" => executed[c] > 0
                    /\ Seen[c] = "unsent" /\ c \notin Idempotent => executed[c] = 0
  BY DEF SettledWell
<1>1. call[c].st = "done" /\ Seen[c] = call[c].reply /\ call[c].reply \in Kinds
  BY DEF Seen, ClientInv, CallsConsistent, TypeOK, CallRecord
<1>2. call[c].reply = "unsent" /\ c \notin Idempotent => used[c] <= 0
  BY <1>1 DEF ClientInv, BudgetKept, BudgetOf, OnWire
<1>3. executed[c] <= used[c] /\ executed[c] \in Nat /\ used[c] \in Nat
  BY UsedType DEF ClientInv, TypeOK
<1> QED
  BY <1>1, <1>2, <1>3 DEF ClientInv, AnswersExecuted, Promise!Outcome, Kinds, Lost

\* The generated client implements the promise of its documentation: over all
\* attempts, reconnects and late deliveries, a call that is not idempotent executes
\* at most once, one that is reported as unsent never, an idempotent one at most once
\* per attempt; each caller sees one outcome, an answer only if the server executed.
THEOREM ClientKeepsPromise == Spec => KeepsPromise
<1>1. Init => Promise!PromiseInit
  BY DEF Init, Promise!PromiseInit, NewCall
<1>2. ClientInv /\ SettledWell' /\ [Next]_vars => [Promise!PromiseNext]_(Promise!pvars)
  <2> SUFFICES ASSUME ClientInv, SettledWell', [Next]_vars
               PROVE  Promise!PromiseNext \/ UNCHANGED Promise!pvars
    OBVIOUS
  <2>1. ASSUME UNCHANGED executed, NEW c \in Calls, Seen[c] = "open",
               \A d \in Calls \ {c} : Seen'[d] = Seen[d]
        PROVE  Promise!PromiseNext \/ UNCHANGED Promise!pvars
    <3>1. CASE Seen'[c] = "open"
      <4>1. Seen' = Seen
        BY <2>1, <3>1 DEF Seen
      <4> QED
        BY <2>1, <4>1 DEF Promise!pvars, Seen
    <3>2. CASE Seen'[c] # "open"
      <4>1. /\ Seen'[c] \in Promise!Outcome
            /\ Seen'[c] = "answer" => executed[c] > 0
            /\ Seen'[c] = "unsent" /\ c \notin Idempotent => executed[c] = 0
        BY <2>1, <3>2 DEF SettledWell
      <4>2. PICK o \in Promise!Outcome : o = Seen'[c]
        BY <4>1
      <4>3. Seen' = [Seen EXCEPT ![c] = o]
        BY <2>1, <4>2 DEF Seen
      <4>4. Promise!Settle(c, o)
        BY <2>1, <4>1, <4>2, <4>3 DEF Promise!Settle, Seen
      <4> QED
        BY <4>2, <4>4 DEF Promise!PromiseNext
    <3> QED
      BY <3>1, <3>2
  <2>2. CASE UNCHANGED executed /\ Seen' = Seen
    BY <2>2 DEF Promise!pvars, Seen
  <2>3. ASSUME UNCHANGED call, NEW f \in wire, ServerExecutes(f)
        PROVE  Promise!PromiseNext
    <3>1. f.call \in Calls /\ executed[f.call] < used[f.call]
      BY <2>3, UsedExecutes DEF ClientInv
    <3>2. executed[f.call] \in Nat /\ used[f.call] \in Nat /\ RetryAttempts \in Nat
          /\ call[f.call].attempt \in 1..(RetryAttempts + 1)
      BY <3>1, UsedType, ClientAssumption DEF ClientInv, TypeOK, CallRecord, Attempt
    <3>3. BudgetOf(f.call)
      BY <3>1 DEF ClientInv, BudgetKept
    <3>4. f.call \in Idempotent => executed[f.call] <= RetryAttempts
      <4>1. f.call \in Idempotent => used[f.call] <= RetryAttempts + 1
        BY <3>2, <3>3 DEF BudgetOf
      <4> QED
        BY <3>1, <3>2, <4>1
    <3>5. f.call \notin Idempotent => executed[f.call] = 0 /\ Seen[f.call] # "unsent"
      <4>1. f.call \notin Idempotent =>
              used[f.call] <= 1 /\ (Seen[f.call] = "unsent" => used[f.call] <= 0)
        BY <3>1, <3>2, <3>3 DEF BudgetOf, Seen, OnWire
      <4> QED
        BY <3>1, <3>2, <4>1
    <3>6. Promise!MayExecute(f.call)
      BY <3>1, <3>4, <3>5 DEF Promise!MayExecute, Seen
    <3>7. Promise!Execute(f.call)
      BY <2>3, <3>6 DEF Promise!Execute, ServerExecutes
    <3> QED
      BY <3>1, <3>7 DEF Promise!PromiseNext
  <2> QED
    BY <2>1, <2>2, <2>3, OneSettles
<1> QED
  BY <1>1, <1>2, ClientInvariant, Settled, PTL DEF Spec, KeepsPromise, Promise!PromiseSpec

=============================================================================
