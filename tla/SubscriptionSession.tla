-------------------------- MODULE SubscriptionSession --------------------------
(***************************************************************************)
(* SubscriptionSession of rpckit/subscriptions.py on one connection: the     *)
(* subscribe and unsubscribe handshakes, each in the task of its call, and   *)
(* one task per subscription that streams its generator to the client. The   *)
(* endpoint (rpckit/runtime.py) closes the session or drains it.             *)
(*                                                                         *)
(* Every message goes through send_outgoing; while it is blocked on a full   *)
(* queue the step that puts it is simply not taken yet. out is the order in  *)
(* which messages entered the queue.                                         *)
(*                                                                         *)
(* Abstractions: a subscription is known by the subscribe request that made  *)
(* it. The cancellation of a handshake (by the client, by request_timeout or *)
(* by the close) is one fault; the answer _run_bounded gives it leaves the   *)
(* session alone. A generator ends by itself or fails with the same message  *)
(* to the client.                                                            *)
(***************************************************************************)
EXTENDS Integers, Sequences, FiniteSets

CONSTANTS
    Subs,        \* subscribe requests the client may send
    Unsubs,      \* unsubscribe requests the client may send
    Limit,       \* limits.max_subscriptions
    MaxNotes,    \* bound: notifications of one subscription
    Faults       \* beyond the normal course

\* "interrupt": a handshake is cancelled; "slow": send_outgoing gives up;
\* "close": the endpoint closes; "drain": graceful() runs; "swallow": a generator
\* survives its cancellation.
ASSUME SubscriptionAssumption ==
    /\ IsFiniteSet(Subs) /\ Limit \in Nat \ {0} /\ MaxNotes \in Nat
    /\ Faults \subseteq {"interrupt", "slow", "close", "drain", "swallow"}

VARIABLES
    sub,       \* subscribe handshake and its subscription task
    notes,     \* notifications each subscription has sent
    acking,    \* _pending_subscriptions, by subscription
    tasks,     \* _tasks
    unsub,     \* unsubscribe handshakes; "unknown": ended without stopping anything
    target,    \* the subscription an unsubscribe names
    out,       \* messages in the order they entered the outgoing queue
    closing,   \* close_event: a close was requested
    tooSlow,   \* send_outgoing dropped a message
    endpoint,  \* "serving", "handlers", "subscriptions", "closed"
    drain      \* graceful(): "idle", "handlers", "subscriptions", "done"

vars == <<sub, notes, acking, tasks, unsub, target, out, closing, tooSlow,
          endpoint, drain>>

\* Life of a subscription: the reader admits its handshake, the task of the call gets
\* to the session, the acknowledgement is queued, the generator runs, the terminal notification is sent, the task is done, the done callback has run.
\* A task cancelled in its generator ("cancelled") or after it ("stopping") still
\* has to close it.
SubStates == {"idle", "admitted", "acking", "running", "terminal", "cancelled", "stopping",
              "finished", "gone", "refused"}
UnsubStates == {"idle", "admitted", "waiting", "unknown", "done"}
Live(r) == sub[r] \in {"running", "terminal", "cancelled", "stopping"}

Message(kind, r) == [kind |-> kind, sub |-> r]

Init ==
    /\ sub = [r \in Subs |-> "idle"] /\ notes = [r \in Subs |-> 0]
    /\ acking = {} /\ tasks = {}
    /\ unsub = [u \in Unsubs |-> "idle"] /\ target \in [Unsubs -> Subs]
    /\ out = <<>> /\ closing = FALSE /\ tooSlow = FALSE
    /\ endpoint = "serving" /\ drain = "idle"

-----------------------------------------------------------------------------
(* _handle: subscribe *)

TasksFull == Cardinality(tasks) >= Limit
SessionFull == Cardinality(tasks) + Cardinality(acking) >= Limit

\* The reader decides at the frame whether the service drains: if so, the call is
\* answered without reaching the session.
Admit(r) ==
    /\ endpoint = "serving" /\ sub[r] = "idle"
    /\ sub' = [sub EXCEPT ![r] = IF drain = "idle" THEN "admitted" ELSE "refused"]
    /\ UNCHANGED <<notes, acking, tasks, unsub, target, out, closing, tooSlow,
                   endpoint, drain>>

\* The call has its slot and went through the middleware; a drain may have begun.
Subscribe(r) ==
    /\ endpoint = "serving" /\ sub[r] = "admitted"
    /\ IF SessionFull
         THEN /\ sub' = [sub EXCEPT ![r] = "refused"]
              /\ UNCHANGED acking
         ELSE /\ sub' = [sub EXCEPT ![r] = "acking"]
              /\ acking' = acking \cup {r}
    /\ UNCHANGED <<notes, tasks, unsub, target, out, closing, tooSlow, endpoint,
                   drain>>

\* The acknowledgement is queued, then the task is created in the same step.
StartTask(r) ==
    /\ sub' = [sub EXCEPT ![r] = "running"]
    /\ acking' = acking \ {r} /\ tasks' = tasks \cup {r}
    /\ UNCHANGED <<notes, unsub, target, endpoint, drain>>

Acknowledge(r) ==
    /\ endpoint = "serving" /\ sub[r] = "acking"
    /\ out' = Append(out, Message("ack", r))
    /\ StartTask(r)
    /\ UNCHANGED <<closing, tooSlow>>

\* send_outgoing gave up: it requests a close and returns, so the task starts.
AcknowledgeTooSlow(r) ==
    /\ "slow" \in Faults
    /\ endpoint = "serving" /\ sub[r] = "acking"
    /\ closing' = TRUE /\ tooSlow' = TRUE
    /\ StartTask(r)
    /\ UNCHANGED out

\* The handshake is cancelled before it reaches the session or while the
\* acknowledgement is blocked.
EndAcking(r) == acking \ {r}

SubscribeInterrupted(r) ==
    /\ "interrupt" \in Faults \/ endpoint = "handlers"
    /\ sub[r] \in {"admitted", "acking"}
    /\ sub' = [sub EXCEPT ![r] = "refused"]
    /\ acking' = EndAcking(r)
    /\ UNCHANGED <<notes, tasks, unsub, target, out, closing, tooSlow, endpoint,
                   drain>>

-----------------------------------------------------------------------------
(* _run, _terminal and the done callback *)

Notify(r) ==
    /\ sub[r] = "running" /\ notes[r] < MaxNotes
    /\ notes' = [notes EXCEPT ![r] = @ + 1]
    /\ \/ out' = Append(out, Message("note", r)) /\ UNCHANGED <<closing, tooSlow>>
       \/ /\ "slow" \in Faults
          /\ closing' = TRUE /\ tooSlow' = TRUE /\ UNCHANGED out
    /\ UNCHANGED <<sub, acking, tasks, unsub, target, endpoint, drain>>

GeneratorEnds(r) ==
    /\ sub[r] = "running"
    /\ sub' = [sub EXCEPT ![r] = "terminal"]
    /\ UNCHANGED <<notes, acking, tasks, unsub, target, out, closing, tooSlow,
                   endpoint, drain>>

Terminal(r) ==
    /\ sub[r] = "terminal"
    /\ sub' = [sub EXCEPT ![r] = "finished"]
    /\ \/ out' = Append(out, Message("end", r)) /\ UNCHANGED <<closing, tooSlow>>
       \/ /\ "slow" \in Faults
          /\ closing' = TRUE /\ tooSlow' = TRUE /\ UNCHANGED out
    /\ UNCHANGED <<notes, acking, tasks, unsub, target, endpoint, drain>>

GeneratorClosed(r) ==
    /\ sub[r] \in {"cancelled", "stopping"}
    /\ sub' = [sub EXCEPT ![r] = "finished"]
    /\ UNCHANGED <<notes, acking, tasks, unsub, target, out, closing, tooSlow,
                   endpoint, drain>>

\* The generator handles CancelledError itself and goes on.
CancelSwallowed(r) ==
    /\ "swallow" \in Faults /\ sub[r] = "cancelled"
    /\ sub' = [sub EXCEPT ![r] = "running"]
    /\ UNCHANGED <<notes, acking, tasks, unsub, target, out, closing, tooSlow,
                   endpoint, drain>>

TaskDone(r) ==
    /\ sub[r] = "finished"
    /\ sub' = [sub EXCEPT ![r] = "gone"]
    /\ tasks' = tasks \ {r}
    /\ UNCHANGED <<notes, acking, unsub, target, out, closing, tooSlow, endpoint,
                   drain>>

CancelNobody(R) == UNCHANGED sub
CancelTasks(R) ==
    sub' = [r \in Subs |->
              CASE r \in R /\ sub[r] = "running" -> "cancelled"
                [] r \in R /\ sub[r] = "terminal" -> "stopping"
                [] OTHER -> sub[r]]

-----------------------------------------------------------------------------
(* _handle: unsubscribe *)

AdmitUnsubscribe(u) ==
    /\ endpoint = "serving" /\ unsub[u] = "idle"
    /\ unsub' = [unsub EXCEPT ![u] = IF drain = "idle" THEN "admitted" ELSE "unknown"]
    /\ UNCHANGED <<sub, notes, acking, tasks, target, out, closing, tooSlow, endpoint,
                   drain>>

Unsubscribe(u) ==
    /\ endpoint = "serving" /\ unsub[u] = "admitted"
    /\ IF target[u] \in tasks
         THEN /\ CancelTasks({target[u]})
              /\ unsub' = [unsub EXCEPT ![u] = "waiting"]
         ELSE /\ unsub' = [unsub EXCEPT ![u] = "unknown"]
              /\ UNCHANGED sub
    /\ UNCHANGED <<notes, acking, tasks, target, out, closing, tooSlow, endpoint,
                   drain>>

\* gather() of the cancelled task is complete; the success is queued.
AnyTime(r) == TRUE
Stopped(r) == sub[r] \in {"finished", "gone"}

Unsubscribed(u) ==
    /\ endpoint = "serving" /\ unsub[u] = "waiting" /\ Stopped(target[u])
    /\ unsub' = [unsub EXCEPT ![u] = "done"]
    /\ out' = Append(out, Message("unsubscribed", target[u]))
    /\ UNCHANGED <<sub, notes, acking, tasks, target, closing, tooSlow, endpoint,
                   drain>>

\* The handshake is cancelled; gather still waits for the task.
UnsubscribeInterrupted(u) ==
    /\ "interrupt" \in Faults \/ endpoint = "handlers"
    /\ \/ /\ unsub[u] = "admitted"
          /\ unsub' = [unsub EXCEPT ![u] = "unknown"]
       \/ /\ unsub[u] = "waiting" /\ Stopped(target[u])
          /\ unsub' = [unsub EXCEPT ![u] = "done"]
    /\ UNCHANGED <<sub, notes, acking, tasks, target, out, closing, tooSlow,
                   endpoint, drain>>

-----------------------------------------------------------------------------
(* The endpoint: graceful(), wait_finished, close *)

NoHandshake ==
    /\ \A r \in Subs : sub[r] \notin {"admitted", "acking"}
    /\ \A u \in Unsubs : unsub[u] \notin {"admitted", "waiting"}

CloseRequested ==
    /\ "close" \in Faults /\ ~closing
    /\ closing' = TRUE
    /\ UNCHANGED <<sub, notes, acking, tasks, unsub, target, out, tooSlow, endpoint,
                   drain>>

DrainBegins ==
    /\ "drain" \in Faults /\ drain = "idle"
    /\ drain' = "handlers"
    /\ UNCHANGED <<sub, notes, acking, tasks, unsub, target, out, closing, tooSlow,
                   endpoint>>

\* The collectors of the admitted handshakes are done.
HandshakesWaited == NoHandshake

DrainWaitsSubscriptions ==
    /\ drain = "handlers" /\ HandshakesWaited
    /\ drain' = "subscriptions"
    /\ UNCHANGED <<sub, notes, acking, tasks, unsub, target, out, closing, tooSlow,
                   endpoint>>

\* wait_finished returns when every subscription of its snapshot is done. No later
\* one exists: the reader admits no handshake once the service drains.
WaitNobody == TRUE
WaitFinished == \A r \in tasks : ~Live(r)

DrainCloses ==
    /\ drain = "subscriptions" /\ WaitFinished
    /\ drain' = "done" /\ closing' = TRUE
    /\ UNCHANGED <<sub, notes, acking, tasks, unsub, target, out, tooSlow, endpoint>>

\* The serving task cancels the handshakes first and closes the session once they
\* are gone.
EndpointCloses ==
    /\ endpoint = "serving" /\ closing
    /\ endpoint' = "handlers"
    /\ UNCHANGED <<sub, notes, acking, tasks, unsub, target, out, closing, tooSlow,
                   drain>>

SessionCloses ==
    /\ endpoint = "handlers" /\ NoHandshake
    /\ endpoint' = "subscriptions"
    /\ CancelTasks(tasks) /\ tasks' = {}
    /\ UNCHANGED <<notes, acking, unsub, target, out, closing, tooSlow, drain>>

JoinNothing == TRUE
TasksJoined == \A r \in Subs : ~Live(r)

EndpointClosed ==
    /\ endpoint = "subscriptions" /\ TasksJoined
    /\ endpoint' = "closed"
    /\ UNCHANGED <<sub, notes, acking, tasks, unsub, target, out, closing, tooSlow,
                   drain>>

\* The connection is closed, or it waits for its client.
Terminated ==
    /\ endpoint = "closed" \/ (~closing /\ \A r \in Subs : ~Live(r))
    /\ UNCHANGED vars

SubNext(r) ==
    \/ Admit(r) \/ Subscribe(r) \/ Acknowledge(r) \/ AcknowledgeTooSlow(r)
    \/ SubscribeInterrupted(r) \/ Notify(r) \/ GeneratorEnds(r) \/ Terminal(r)
    \/ GeneratorClosed(r) \/ CancelSwallowed(r) \/ TaskDone(r)

UnsubNext(u) ==
    AdmitUnsubscribe(u) \/ Unsubscribe(u) \/ Unsubscribed(u) \/ UnsubscribeInterrupted(u)

EndpointNext ==
    \/ CloseRequested \/ DrainBegins \/ DrainWaitsSubscriptions \/ DrainCloses
    \/ EndpointCloses \/ SessionCloses \/ EndpointClosed

Next ==
    \/ \E r \in Subs : SubNext(r)
    \/ \E u \in Unsubs : UnsubNext(u)
    \/ EndpointNext \/ Terminated

Spec == Init /\ [][Next]_vars

\* The writer makes room or send_outgoing gives up, cancelled generators close, and
\* the endpoint's tasks run. Generators may run for ever.
Fairness ==
    /\ \A r \in Subs :
         /\ WF_vars(Acknowledge(r) \/ AcknowledgeTooSlow(r) \/ SubscribeInterrupted(r))
         /\ WF_vars(Terminal(r)) /\ WF_vars(GeneratorClosed(r)) /\ WF_vars(TaskDone(r))
    /\ \A u \in Unsubs : WF_vars(Unsubscribed(u) \/ UnsubscribeInterrupted(u))
    /\ WF_vars(EndpointCloses) /\ WF_vars(SessionCloses) /\ WF_vars(EndpointClosed)

FairSpec == Spec /\ Fairness

-----------------------------------------------------------------------------
\* Every part of the session's state has its type; _tasks never outgrows
\* max_subscriptions.
TypeOK ==
    /\ sub \in [Subs -> SubStates] /\ notes \in [Subs -> 0..MaxNotes]
    /\ acking \subseteq Subs /\ tasks \subseteq Subs /\ Cardinality(tasks) <= Limit
    /\ unsub \in [Unsubs -> UnsubStates]
    /\ target \in [Unsubs -> Subs]
    /\ out \in Seq([kind : {"ack", "note", "end", "unsubscribed"}, sub : Subs])
    /\ closing \in BOOLEAN /\ tooSlow \in BOOLEAN
    /\ endpoint \in {"serving", "handlers", "subscriptions", "closed"}
    /\ drain \in {"idle", "handlers", "subscriptions", "done"}

\* Running subscriptions and handshakes whose acknowledgement is still blocked
\* together stay within max_subscriptions, and capacity is given back: acking is
\* exactly the blocked handshakes, and an open session tracks every live task.
LimitHeld ==
    /\ Cardinality(tasks) + Cardinality(acking) <= Limit
    /\ acking = {r \in Subs : sub[r] = "acking"}
    /\ endpoint \in {"serving", "handlers"} =>
          tasks = {r \in Subs : Live(r) \/ sub[r] = "finished"}

\* What the client reads about one subscription: the acknowledgement first, then
\* notifications, at most one terminal message, and silence after the answer to
\* unsubscribe. A message that send_outgoing dropped excuses a gap, since the
\* connection is then closing.
WellOrdered(m, n) ==
    out[m].sub = out[n].sub /\ m < n =>
        /\ out[n].kind # "ack"
        /\ out[n].kind \in {"note", "end"} => out[m].kind \in {"ack", "note"}

StreamOrder ==
    /\ \A m, n \in DOMAIN out : WellOrdered(m, n)
    /\ ~tooSlow => \A n \in DOMAIN out : out[n].kind # "ack" =>
          \E m \in 1..(n - 1) : out[m] = Message("ack", out[n].sub)

\* graceful() closes only after every acknowledged subscription ran to its end:
\* its terminal message is queued, unless the client unsubscribed it.
DrainFinishesSubscriptions ==
    drain = "done" /\ endpoint = "serving" /\ ~tooSlow =>
        \A r \in Subs : (\E n \in DOMAIN out : out[n] = Message("ack", r)) =>
            \/ \E n \in DOMAIN out : out[n] = Message("end", r)
            \/ \E u \in Unsubs : target[u] = r /\ unsub[u] \in {"waiting", "done"}

\* No generator outlives the connection, none is started by a handshake that was
\* still under way when the close began, and none sends anything afterwards.
ClosedSessionIsSilent ==
    endpoint = "closed" => acking = {} /\ tasks = {} /\ \A r \in Subs : ~Live(r)

\* An unsubscribe that found its subscription is settled, also when the subscription
\* ends by itself meanwhile, or a second unsubscribe races it; and a requested close
\* ends the session although generators never finish and the client stopped reading.
SessionSettles ==
    /\ \A u \in Unsubs : unsub[u] = "waiting" ~> unsub[u] = "done"
    /\ closing ~> endpoint = "closed"

=============================================================================
