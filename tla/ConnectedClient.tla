---------------------------- MODULE ConnectedClient ----------------------------
(***************************************************************************)
(* RpcConnectedClient of rpckit/connected_client.py: server code calls       *)
(* methods the connected client implements. Each call takes a permit of the  *)
(* semaphore, registers a future under a fresh id, hands its request to      *)
(* send_outgoing from a task of its own and waits for the answer, which the  *)
(* reader of the connection passes to _resolve.                              *)
(*                                                                         *)
(* Abstractions: a request id is the number of its call, since _next_id only *)
(* grows. The client may answer any id at any time and any number of times.  *)
(* Validation of params and results does not change the state of the handle. *)
(***************************************************************************)
EXTENDS Integers, FiniteSets

CONSTANTS
    MaxConcurrency,  \* limits.max_concurrency
    MaxCalls,        \* bound: calls made on the handle
    Faults           \* what may go wrong beyond a missing answer

\* "timeout": the timeout of a call fires; "cancel": the caller is cancelled;
\* "slow": send_outgoing gives up on a full queue.
ASSUME ClientAssumption ==
    /\ MaxConcurrency \in Nat \ {0} /\ MaxCalls \in Nat
    /\ Faults \subseteq {"timeout", "cancel", "slow"}

Call == 1..MaxCalls

VARIABLES
    phase,     \* where call() is: "idle", "queued", "sending", "waiting", "ended"
    outcome,   \* "none", "result", "timeout", "closed", "cancelled"
    response,  \* the future: "open", "answered", "closed"
    sendTask,  \* the task of send_outgoing: "none", "running", "done", "cancelled"
    pending,   \* ids registered in _pending
    permits,   \* free permits of the semaphore
    sent,      \* ids whose request entered the outgoing queue
    ncalls,    \* calls made so far
    closed     \* _closed

vars == <<phase, outcome, response, sendTask, pending, permits, sent, ncalls, closed>>

Init ==
    /\ phase = [c \in Call |-> "idle"] /\ outcome = [c \in Call |-> "none"]
    /\ response = [c \in Call |-> "open"] /\ sendTask = [c \in Call |-> "none"]
    /\ pending = {} /\ permits = MaxConcurrency /\ sent = {}
    /\ ncalls = 0 /\ closed = FALSE

Holding(c) == phase[c] \in {"sending", "waiting"}

-----------------------------------------------------------------------------
\* call(): a closed handle refuses at once, otherwise the call has an id and waits
\* for a permit.
Begin ==
    /\ ncalls < MaxCalls
    /\ LET c == ncalls + 1 IN
         IF closed
           THEN /\ phase' = [phase EXCEPT ![c] = "ended"]
                /\ outcome' = [outcome EXCEPT ![c] = "closed"]
           ELSE phase' = [phase EXCEPT ![c] = "queued"] /\ UNCHANGED outcome
    /\ ncalls' = ncalls + 1
    /\ UNCHANGED <<response, sendTask, pending, permits, sent, closed>>

\* The connection may have closed while the call waited for its permit.
NeverRefuses == FALSE
RefusesClosed == closed

Acquire(c) ==
    /\ phase[c] = "queued" /\ permits > 0
    /\ IF RefusesClosed
         THEN /\ phase' = [phase EXCEPT ![c] = "ended"]
              /\ outcome' = [outcome EXCEPT ![c] = "closed"]
              /\ UNCHANGED <<sendTask, pending, permits>>
         ELSE /\ phase' = [phase EXCEPT ![c] = "sending"]
              /\ sendTask' = [sendTask EXCEPT ![c] = "running"]
              /\ pending' = pending \cup {c}
              /\ permits' = permits - 1
              /\ UNCHANGED outcome
    /\ UNCHANGED <<response, sent, ncalls, closed>>

\* The task of send_outgoing got the request into the queue.
Sent(c) ==
    /\ sendTask[c] = "running"
    /\ sendTask' = [sendTask EXCEPT ![c] = "done"]
    /\ sent' = sent \cup {c}
    /\ UNCHANGED <<phase, outcome, response, pending, permits, ncalls, closed>>

\* _close: every registered future that is still open fails.
FailNone == UNCHANGED response
FailPending ==
    response' = [c \in Call |-> IF c \in pending /\ response[c] = "open"
                                  THEN "closed" ELSE response[c]]

Close ==
    /\ ~closed /\ closed' = TRUE
    /\ FailPending
    /\ UNCHANGED <<phase, outcome, sendTask, pending, permits, sent, ncalls>>

\* send_outgoing timed out on a full queue and requested the close.
SendTooSlow(c) ==
    /\ "slow" \in Faults /\ sendTask[c] = "running"
    /\ sendTask' = [sendTask EXCEPT ![c] = "done"]
    /\ closed' = TRUE
    /\ IF closed THEN UNCHANGED response ELSE FailPending
    /\ UNCHANGED <<phase, outcome, pending, permits, sent, ncalls>>

\* _send_until_closed: a request that is still blocked when the future is done, or
\* when the call is given up, is withdrawn.
LeaveSending(c) == sendTask
StopSending(c) ==
    [sendTask EXCEPT ![c] = IF @ = "running" THEN "cancelled" ELSE @]

SendSettles(c) ==
    /\ phase[c] = "sending"
    /\ sendTask[c] = "done" \/ response[c] # "open"
    /\ phase' = [phase EXCEPT ![c] = "waiting"]
    /\ sendTask' = StopSending(c)
    /\ UNCHANGED <<outcome, response, pending, permits, sent, ncalls, closed>>

\* The exits of call(): the semaphore is released, then the finally forgets the id.
KeepId(c) == pending
Forget(c) == pending \ {c}
Release(c) == IF Holding(c) THEN permits + 1 ELSE permits

Exit(c, result) ==
    /\ phase' = [phase EXCEPT ![c] = "ended"]
    /\ outcome' = [outcome EXCEPT ![c] = result]
    /\ sendTask' = StopSending(c)
    /\ pending' = Forget(c)
    /\ permits' = Release(c)
    /\ UNCHANGED <<response, sent, ncalls, closed>>

Answered(c) ==
    /\ phase[c] = "waiting" /\ response[c] # "open"
    /\ Exit(c, IF response[c] = "answered" THEN "result" ELSE "closed")

\* At any await, also when the future is done but the call has not resumed yet.
TimesOut(c) ==
    /\ "timeout" \in Faults /\ (phase[c] = "queued" \/ Holding(c))
    /\ Exit(c, "timeout")

CallerCancelled(c) ==
    /\ "cancel" \in Faults /\ (phase[c] = "queued" \/ Holding(c))
    /\ Exit(c, "cancelled")

\* _resolve: the first answer to a registered id counts, all others are dropped.
AcceptAny(c) == c \in pending
Accepts(c) == c \in pending /\ response[c] = "open"

Resolve(c) ==
    /\ Accepts(c)
    /\ response' = [response EXCEPT ![c] = "answered"]
    /\ UNCHANGED <<phase, outcome, sendTask, pending, permits, sent, ncalls, closed>>

Terminated ==
    /\ \A c \in 1..ncalls : phase[c] = "ended"
    /\ UNCHANGED vars

CallNext(c) ==
    \/ Acquire(c) \/ Sent(c) \/ SendTooSlow(c) \/ SendSettles(c) \/ Answered(c)
    \/ TimesOut(c) \/ CallerCancelled(c) \/ Resolve(c)

Next == Begin \/ Close \/ (\E c \in Call : CallNext(c)) \/ Terminated

Spec == Init /\ [][Next]_vars

\* A waiter gets a permit that is free again and again (the semaphore is FIFO), and
\* a call resumes once what it awaits is done. Neither the client's answer nor a
\* timeout nor room in the queue is assumed.
Fairness ==
    \A c \in Call :
        /\ SF_vars(Acquire(c)) /\ WF_vars(SendSettles(c)) /\ WF_vars(Answered(c))

FairSpec == Spec /\ Fairness

-----------------------------------------------------------------------------
\* Every field of the handle and of its calls has its type; permits stay within
\* max_concurrency.
TypeOK ==
    /\ phase \in [Call -> {"idle", "queued", "sending", "waiting", "ended"}]
    /\ outcome \in [Call -> {"none", "result", "timeout", "closed", "cancelled"}]
    /\ response \in [Call -> {"open", "answered", "closed"}]
    /\ sendTask \in [Call -> {"none", "running", "done", "cancelled"}]
    /\ pending \subseteq Call /\ sent \subseteq Call
    /\ permits \in 0..MaxConcurrency /\ ncalls \in 0..MaxCalls
    /\ closed \in BOOLEAN

\* Whatever mix of answers, timeouts, cancellations and closes ended earlier calls,
\* _pending holds exactly the calls that hold a permit, and no permit is lost.
NothingLeaks ==
    /\ pending = {c \in Call : Holding(c)}
    /\ permits + Cardinality(pending) = MaxConcurrency

\* A closed handle leaves no registered call waiting for an answer that cannot
\* come any more, calls that were queued for a permit when it closed included.
ClosedFailsPending == closed => \A c \in pending : response[c] # "open"

\* The first answer or the close decides a call; a late or duplicate answer never
\* replaces it, and a caller only gets a result the client gave to that call.
FirstAnswerStands ==
    [][\A c \in Call :
          /\ response[c] # "open" => response'[c] = response[c]
          /\ outcome'[c] = "result" /\ outcome[c] # "result" =>
               response[c] = "answered"]_vars

\* No request goes out for a call that has given up: what is still blocked is
\* withdrawn, so the client is not asked to do work nobody waits for.
NoStaleRequest ==
    [][\A c \in sent' \ sent : phase[c] = "sending"]_vars

\* A close ends every call, also the ones waiting for a permit, although no
\* timeout is set and the client never answers.
CloseEndsCalls ==
    \A c \in Call : closed /\ phase[c] # "idle" ~> phase[c] = "ended"

=============================================================================
