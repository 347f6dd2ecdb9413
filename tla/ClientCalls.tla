---------------------------- MODULE ClientCalls ----------------------------
(***************************************************************************)
(* The calls of a generated Python client: the retry loop of RpcClientCore  *)
(* (internal/core.py), the RpcTransportPool that opens and replaces the     *)
(* connection of one server (internal/connection.py), the WebSocketTransport*)
(* of each connection (transport.py), and a server that executes what       *)
(* reaches it. The modelled files are the checked-in instance of the        *)
(* generator's templates.                                                   *)
(*                                                                         *)
(* A step is the code between two awaits. A frame may reach the server from *)
(* the moment its send begins and is never known to be lost; the server may *)
(* execute it at any time or never, after the connection was lost too.      *)
(*                                                                         *)
(* Abstractions: params, metadata and results carry no data; delays and     *)
(* timeouts may elapse whenever they are pending; the reasons a connection  *)
(* is lost are "lost" (RpcConnectionLostError) and "broken" (a malformed    *)
(* frame, any other RpcTransportError). One server: the pool keeps its state*)
(* per server and shares nothing between servers but the closing flag.      *)
(***************************************************************************)
EXTENDS Naturals, FiniteSets

CONSTANTS
    Calls,          \* logical calls made by the application
    Idempotent,     \* calls whose route is declared idempotent
    RetryAttempts,  \* retry_attempts: attempts after the first one
    Reconnect,      \* reconnect=True
    MaxAttempts,    \* reconnect_max_attempts
    MaxTransports,  \* bound: connections opened in a behaviour
    MaxCancelSends, \* _MAX_CANCEL_SENDS
    Faults          \* what may go wrong: see the actions that name them

ASSUME ClientAssumption ==
    /\ Idempotent \subseteq Calls
    /\ RetryAttempts \in Nat /\ MaxAttempts \in Nat
    /\ MaxTransports \in Nat /\ MaxCancelSends \in Nat
    /\ Reconnect \in BOOLEAN

Transport == 1..MaxTransports
NoTransport == 0
Attempt == 1..(RetryAttempts + 1)

VARIABLES
    closed,    \* RpcClientCore._closed
    call,      \* call[c]: the task running request(c)
    ws,        \* ws[t]: one WebSocketTransport
    opened,    \* number of transports opened so far
    pool,      \* the RpcTransportPool
    wire,      \* request frames the server may still execute
    replies,   \* answers on their way back
    executed   \* how often the server executed each call

vars == <<closed, call, ws, opened, pool, wire, replies, executed>>
serverVars == <<wire, replies, executed>>

Lost == {"sent", "unsent"}    \* RpcConnectionLostError with its sent flag
Kinds == Lost \cup {"timeout", "connect", "broken", "answer", "hook", "abandoned"}
CallStates == {"idle", "connecting", "got", "sending", "waiting", "backoff", "done"}
Active == {"connecting", "got", "sending", "waiting"}    \* in _active_requests

NewCall == [st |-> "idle", attempt |-> 1, on |-> NoTransport, reply |-> "none"]
NewWs == [shut |-> FALSE, reading |-> FALSE, ending |-> "none", done |-> "pending",
          cancels |-> 0]
NewPool == [cur |-> NoTransport, task |-> "none", attempts |-> 0, ever |-> FALSE,
            failure |-> "none", closing |-> FALSE, released |-> FALSE]

Init ==
    /\ closed = FALSE
    /\ call = [c \in Calls |-> NewCall]
    /\ ws = [t \in Transport |-> NewWs]
    /\ opened = 0
    /\ pool = NewPool
    /\ wire = {} /\ replies = {}
    /\ executed = [c \in Calls |-> 0]

(***************************************************************************)
(* WebSocketTransport                                                      *)
(***************************************************************************)
(* _pending: the calls whose response future of this transport is not done *)
Pending(t) == {c \in Calls : call[c].on = t /\ call[c].reply = "none"
                             /\ call[c].st \in {"sending", "waiting"}}

(* _fail_pending: the calls after it. An id is in _sent for as long as it is *)
(* pending, so a lost connection is reported as sent.                        *)
FailNobody(t, how) == call
FailPending(t, how) ==
    [c \in Calls |-> IF c \in Pending(t)
                     THEN [call[c] EXCEPT !.reply = IF how = "broken" THEN "broken"
                                                                      ELSE "sent"]
                     ELSE call[c]]

(* close() up to its first await, which ends when TransportEnds; a second *)
(* close returns at once                                                  *)
Shut(w) == IF w.shut THEN w
           ELSE [w EXCEPT !.shut = TRUE, !.ending = "clean", !.cancels = 0]

(* _retire(failure): resolve closed, fail the calls, close the socket *)
Retired(w) == [Shut(w) EXCEPT !.done = IF @ = "pending" THEN "sent" ELSE @]

(* The frame of c's present attempt: every attempt has a fresh request id *)
Frame(c, t) == [call |-> c, attempt |-> call[c].attempt, on |-> t]

(* _cancel_request *)
CancelRequest(w) ==
    IF w.shut \/ w.cancels >= MaxCancelSends THEN w ELSE [w EXCEPT !.cancels = @ + 1]

(***************************************************************************)
(* RpcClientCore.request: how an attempt ends                              *)
(***************************************************************************)
RetriesHooks(c, kind, retryable) ==
    /\ ~closed
    /\ call[c].attempt <= RetryAttempts
    /\ kind = "unsent" \/ (kind \in {"sent", "timeout"} /\ c \in Idempotent)

(* The except clause of the retry loop *)
Retries(c, kind, retryable) ==
    /\ ~closed /\ retryable
    /\ call[c].attempt <= RetryAttempts
    /\ kind = "unsent" \/ (kind \in {"sent", "timeout"} /\ c \in Idempotent)

(* The call after its attempt failed: it waits for the delay before the next *)
(* attempt, or the caller gets the error                                     *)
Failed(c, kind, retryable) ==
    IF Retries(c, kind, retryable)
    THEN [NewCall EXCEPT !.st = "backoff", !.attempt = call[c].attempt + 1]
    ELSE [NewCall EXCEPT !.st = "done", !.reply = kind]

Ends(c, kind, retryable) == call' = [call EXCEPT ![c] = Failed(c, kind, retryable)]

(***************************************************************************)
(* RpcTransportPool                                                        *)
(***************************************************************************)
(* _start: one connect task, shared by all that wait for the connection *)
StartConnect(p) == IF p.task # "none" THEN p
                   ELSE [p EXCEPT !.task = "opening", !.attempts = 1]

AnyTransport(t) == t <= opened
Current(t) == pool.cur = t

(* _transport_closed, given whether the close code permits a reconnect *)
Dropped(t, fatal) ==
    LET error == ws[t].done
    IN IF error \in {"clean", "broken"} \/ ~Reconnect \/ fatal \/ MaxAttempts = 0
       THEN [pool EXCEPT !.cur = NoTransport,
                         !.failure = IF error = "clean" THEN "unsent" ELSE error]
       ELSE StartConnect([pool EXCEPT !.cur = NoTransport])

(* The done callback of transport.closed *)
TransportClosed(t, fatal) ==
    /\ ws[t].done # "pending" /\ Current(t) /\ ~pool.closing
    /\ pool' = Dropped(t, fatal)
    /\ UNCHANGED <<closed, call, ws, opened, serverVars>>

(* The waiters of the connect task resume with its transport or its error *)
Resolve(t, kind) ==
    call' = [c \in Calls |-> IF call[c].st = "connecting"
                             THEN [call[c] EXCEPT !.st = "got", !.on = t, !.reply = kind]
                             ELSE call[c]]

(* _connect: the factory opened a transport. A factory that ends in spite of *)
(* being cancelled finds the pool closing.                                   *)
ConnectOpens ==
    LET t == opened + 1
    IN /\ pool.task \in {"opening", "cancelled"} /\ t \in Transport
       /\ opened' = t
       /\ ws' = [ws EXCEPT ![t] = IF pool.closing THEN Shut([@ EXCEPT !.reading = TRUE])
                                                  ELSE [@ EXCEPT !.reading = TRUE]]
       /\ pool' = IF pool.closing THEN [pool EXCEPT !.task = "none", !.attempts = 0]
                  ELSE [pool EXCEPT !.task = "none", !.attempts = 0, !.cur = t, !.ever = TRUE]
       /\ IF pool.closing THEN Resolve(NoTransport, "unsent") ELSE Resolve(t, "none")
       /\ UNCHANGED <<closed, serverVars>>

(* ... or it failed, permanently or not *)
GivesUp(permanent) ==
    ~pool.ever \/ ~Reconnect \/ permanent \/ pool.attempts >= MaxAttempts

ConnectFails(permanent) ==
    /\ pool.task = "opening" /\ "connect" \in Faults
    /\ \/ /\ GivesUp(permanent)
          /\ pool' = [pool EXCEPT !.task = "none", !.attempts = 0, !.failure = "connect"]
          /\ Resolve(NoTransport, "connect")
       \/ /\ ~GivesUp(permanent)
          /\ pool' = [pool EXCEPT !.task = "sleeping"]
          /\ UNCHANGED call
    /\ UNCHANGED <<closed, ws, opened, serverVars>>

ConnectAgain ==
    /\ pool.task = "sleeping"
    /\ pool' = [pool EXCEPT !.task = "opening", !.attempts = @ + 1]
    /\ UNCHANGED <<closed, call, ws, opened, serverVars>>

ConnectCancelled ==
    /\ pool.task = "cancelled"
    /\ pool' = [pool EXCEPT !.task = "none", !.attempts = 0]
    /\ Resolve(NoTransport, "unsent")
    /\ UNCHANGED <<closed, ws, opened, serverVars>>

(* close(): cancel the connect task, wait for it, close the transport *)
PoolCloses ==
    /\ closed /\ ~pool.closing
    /\ pool' = [pool EXCEPT !.closing = TRUE,
                            !.task = IF @ = "none" THEN "none" ELSE "cancelled"]
    /\ UNCHANGED <<closed, call, ws, opened, serverVars>>

ClearedFirst == {}
StillHeld == {pool.cur} \ {NoTransport}

PoolReleases ==
    /\ pool.closing /\ ~pool.released /\ pool.task = "none"
    /\ ws' = [t \in Transport |-> IF t \in StillHeld THEN Shut(ws[t]) ELSE ws[t]]
    /\ pool' = [pool EXCEPT !.cur = NoTransport, !.released = TRUE]
    /\ UNCHANGED <<closed, call, opened, serverVars>>

(***************************************************************************)
(* One attempt: _request_attempt, _invoke_attempt, pool.get and the part of *)
(* transport.request before its first await                                *)
(***************************************************************************)
Ready(c) == call[c].st \in {"idle", "backoff"}

(* The client was closed before the attempt, or while it backed off *)
AttemptClosed(c) ==
    /\ Ready(c) /\ closed
    /\ Ends(c, "unsent", TRUE)
    /\ UNCHANGED <<closed, ws, opened, pool, serverVars>>

(* get: the server's connection failed for good *)
AttemptRefused(c) ==
    /\ Ready(c) /\ ~closed /\ pool.failure # "none"
    /\ Ends(c, pool.failure, TRUE)
    /\ UNCHANGED <<closed, ws, opened, pool, serverVars>>

(* live.request(...): it raises at once when _closed is set *)
Transmit(c, t) ==
    \/ /\ ws[t].shut
       /\ Ends(c, "unsent", TRUE)
       /\ UNCHANGED <<wire>>
    \/ /\ ~ws[t].shut
       /\ call' = [call EXCEPT ![c].st = "sending", ![c].on = t]
       /\ wire' = wire \cup {Frame(c, t)}

(* get: a transport whose closed future is pending is handed out *)
AttemptSends(c) ==
    /\ Ready(c) /\ ~closed /\ pool.cur # NoTransport
    /\ ws[pool.cur].done = "pending"
    /\ Transmit(c, pool.cur)
    /\ UNCHANGED <<closed, ws, opened, pool, replies, executed>>

(* get: the transport is found closed before its callback ran *)
AttemptFindsClosed(c, fatal) ==
    /\ Ready(c) /\ ~closed /\ pool.cur # NoTransport
    /\ ws[pool.cur].done # "pending"
    /\ pool' = Dropped(pool.cur, fatal)
    /\ IF pool'.failure # "none" THEN Ends(c, pool'.failure, TRUE)
       ELSE call' = [call EXCEPT ![c].st = "connecting"]
    /\ UNCHANGED <<closed, ws, opened, serverVars>>

(* get: wait for the shared connect task *)
AttemptWaits(c) ==
    /\ Ready(c) /\ ~closed /\ pool.cur = NoTransport /\ pool.failure = "none"
    /\ pool' = StartConnect(pool)
    /\ call' = [call EXCEPT ![c].st = "connecting"]
    /\ UNCHANGED <<closed, ws, opened, serverVars>>

(* The waiter resumes, perhaps with a transport that is closed by now *)
AttemptResumes(c) ==
    /\ call[c].st = "got" /\ ~closed
    /\ \/ /\ call[c].reply = "none" /\ Transmit(c, call[c].on)
       \/ /\ call[c].reply # "none" /\ Ends(c, call[c].reply, TRUE)
          /\ UNCHANGED <<wire>>
    /\ UNCHANGED <<closed, ws, opened, pool, replies, executed>>

(***************************************************************************)
(* transport.request after its first await                                 *)
(***************************************************************************)
SendDone(c) ==
    /\ call[c].st = "sending" /\ ~closed
    /\ call' = [call EXCEPT ![c].st = "waiting"]
    /\ UNCHANGED <<closed, ws, opened, pool, serverVars>>

(* The call leaves its transport with an error of its own, kind. A send that *)
(* did not finish retires the transport; an unanswered request is cancelled  *)
(* on the wire. The code awaits the end of _retire before the attempt ends:  *)
(* cancelled there it ends as if cancelled in the send, and otherwise only   *)
(* later, as if the delay before the next attempt were longer.               *)
LeaveTransport(c, kind) ==
    LET t == call[c].on
        sending == call[c].st = "sending"
    IN /\ call' = [IF sending THEN FailPending(t, "lost") ELSE call
                   EXCEPT ![c] = Failed(c, kind, TRUE)]
       /\ ws' = [ws EXCEPT ![t] = CASE sending -> Retired(@)
                                    [] ~sending /\ call[c].reply = "none" ->
                                           CancelRequest(@)
                                    [] OTHER -> @]
       /\ UNCHANGED <<closed, opened, pool, serverVars>>

SendFails(c) ==
    /\ call[c].st = "sending" /\ ~closed /\ "send" \in Faults
    /\ LeaveTransport(c, "sent")

(* The request timeout of the transport, or retry_attempt_timeout, which also *)
(* covers the wait for the connection; the connect task goes on               *)
TimesOut(c) ==
    /\ ~closed /\ "timeout" \in Faults
    /\ \/ /\ call[c].st \in {"sending", "waiting"}
          /\ LeaveTransport(c, "timeout")
       \/ /\ call[c].st \in {"connecting", "got"}
          /\ Ends(c, "timeout", TRUE)
          /\ UNCHANGED <<closed, ws, opened, pool, serverVars>>

(* The caller cancels the call, or its overall deadline passes: no retry. In *)
(* "got" and "connecting" the shared connect task goes on without it.        *)
Abandoned(c) ==
    /\ call[c].st \notin {"idle", "done"} /\ ~closed /\ "abandon" \in Faults
    /\ \/ /\ call[c].st \in {"sending", "waiting"}
          /\ LeaveTransport(c, "abandoned")
       \/ /\ call[c].st \notin {"sending", "waiting"}
          /\ Ends(c, "abandoned", FALSE)
          /\ UNCHANGED <<closed, ws, opened, pool, serverVars>>

(* The response future is done: _invoke_attempt returns or raises *)
Answered(c) ==
    /\ call[c].st = "waiting" /\ call[c].reply # "none" /\ ~closed
    /\ Ends(c, call[c].reply, TRUE)
    /\ UNCHANGED <<closed, ws, opened, pool, serverVars>>

(* A middleware raises an error of its own after the call was answered, an  *)
(* RpcConnectionLostError(sent=False) even: _instrumented_attempt marks it  *)
(* as final, and the caller gets the hook's error                           *)
HookFails(c) ==
    /\ call[c].st = "waiting" /\ call[c].reply = "answer" /\ ~closed
    /\ "hook" \in Faults
    /\ call' = [call EXCEPT ![c] = [Failed(c, "unsent", FALSE)
                  EXCEPT !.reply = IF @ = "unsent" THEN "hook" ELSE @]]
    /\ UNCHANGED <<closed, ws, opened, pool, serverVars>>

(* _send_cancellation ends, delivered or not *)
CancellationSent(t) ==
    /\ ws[t].cancels > 0
    /\ ws' = [ws EXCEPT ![t].cancels = @ - 1]
    /\ UNCHANGED <<closed, call, opened, pool, serverVars>>

(***************************************************************************)
(* The reader of a transport, and the end of its close()                   *)
(***************************************************************************)
(* _resolve_response: a late or unknown answer is dropped *)
Receives(f) ==
    /\ f \in replies /\ ws[f.on].reading
    /\ replies' = replies \ {f}
    /\ call' = IF f.call \in Pending(f.on) /\ f = Frame(f.call, f.on)
               THEN [call EXCEPT ![f.call].reply = "answer"] ELSE call
    /\ UNCHANGED <<closed, ws, opened, pool, wire, executed>>

(* Answers on a connection without a reader are never read *)
Unread(t) == {f \in replies : f.on # t}

(* recv() or _decode raises *)
ReceiveFails(t, how) ==
    /\ ws[t].reading /\ how \in Faults
    /\ call' = FailPending(t, how)
    /\ ws' = [ws EXCEPT ![t] =
                [@ EXCEPT !.shut = TRUE, !.reading = FALSE, !.cancels = 0,
                          !.ending = CASE how = "broken" -> "broken"
                                       [] how = "lost" /\ Pending(t) # {} -> "sent"
                                       [] OTHER -> "unsent"]]
    /\ replies' = Unread(t)
    /\ UNCHANGED <<closed, opened, pool, wire, executed>>

(* The socket is closed and the tasks are joined: closed is resolved *)
TransportEnds(t) ==
    /\ ws[t].ending # "none"
    /\ call' = FailPending(t, "lost")
    /\ LET w == ws[t] IN
       ws' = [ws EXCEPT ![t] = [w EXCEPT !.reading = FALSE, !.ending = "none",
                                  !.done = IF w.done = "pending" THEN w.ending ELSE w.done]]
    /\ replies' = Unread(t)
    /\ UNCHANGED <<closed, opened, pool, wire, executed>>

(***************************************************************************)
(* RpcClientCore.close, and the calls it cancels with _CLIENT_CLOSED        *)
(***************************************************************************)
ClientCloses ==
    /\ ~closed /\ "close" \in Faults
    /\ closed' = TRUE
    /\ UNCHANGED <<call, ws, opened, pool, serverVars>>

(* _RequestState.normalize: state.sent is set just before live.request *)
CallClosed(c) ==
    /\ closed /\ call[c].st \in Active
    /\ \/ /\ call[c].st \in {"sending", "waiting"} /\ LeaveTransport(c, "sent")
       \/ /\ call[c].st \in {"connecting", "got"} /\ Ends(c, "unsent", FALSE)
          /\ UNCHANGED <<closed, ws, opened, pool, serverVars>>

(***************************************************************************)
(* The server: it executes what reaches it and answers                     *)
(***************************************************************************)
ServerExecutes(f) ==
    /\ f \in wire
    /\ wire' = wire \ {f}
    /\ replies' = IF ws[f.on].reading THEN replies \cup {f} ELSE replies
    /\ executed' = [executed EXCEPT ![f.call] = @ + 1]
    /\ UNCHANGED <<closed, call, ws, opened, pool>>

Quiet == (\A c \in Calls : call[c].st = "done") /\ UNCHANGED vars

CallNext(c) ==
    \/ AttemptClosed(c) \/ AttemptRefused(c) \/ AttemptSends(c) \/ AttemptWaits(c)
    \/ \E fatal \in BOOLEAN : AttemptFindsClosed(c, fatal)
    \/ AttemptResumes(c) \/ SendDone(c) \/ SendFails(c) \/ TimesOut(c)
    \/ Abandoned(c) \/ Answered(c) \/ HookFails(c) \/ CallClosed(c)

TransportNext(t) ==
    \/ \E fatal \in BOOLEAN : TransportClosed(t, fatal)
    \/ \E how \in {"lost", "broken"} : ReceiveFails(t, how)
    \/ CancellationSent(t)
    \/ TransportEnds(t)

PoolNext ==
    \/ ConnectOpens \/ ConnectAgain \/ ConnectCancelled
    \/ \E permanent \in BOOLEAN : ConnectFails(permanent)
    \/ PoolCloses \/ PoolReleases

Next ==
    \/ \E c \in Calls : CallNext(c)
    \/ \E t \in Transport : TransportNext(t)
    \/ PoolNext \/ ClientCloses
    \/ \E f \in wire : ServerExecutes(f)
    \/ \E f \in replies : Receives(f)
    \/ Quiet

Spec == Init /\ [][Next]_vars

(***************************************************************************)
(* Properties                                                              *)
(***************************************************************************)
CallRecord == [st : CallStates, attempt : Attempt, on : Transport \cup {NoTransport},
               reply : Kinds \cup {"none"}]
WsRecord == [shut : BOOLEAN, reading : BOOLEAN,
             ending : Lost \cup {"none", "clean", "broken"},
             done : Lost \cup {"pending", "clean", "broken"}, cancels : 0..MaxCancelSends]
PoolRecord == [cur : Transport \cup {NoTransport},
               task : {"none", "opening", "sleeping", "cancelled"},
               attempts : Nat, ever : BOOLEAN,
               failure : Kinds \cup {"none"}, closing : BOOLEAN, released : BOOLEAN]
Frames == [call : Calls, attempt : Attempt, on : Transport]

(* Every variable has the shape the code gives it. *)
TypeOK ==
    /\ closed \in BOOLEAN
    /\ call \in [Calls -> CallRecord] /\ ws \in [Transport -> WsRecord]
    /\ opened \in 0..MaxTransports /\ pool \in PoolRecord
    /\ wire \subseteq Frames /\ replies \subseteq Frames
    /\ executed \in [Calls -> Nat]

(* The client keeps the promise of its documentation: a call that is not    *)
(* declared idempotent executes at most once over all attempts, connections *)
(* and late deliveries, and not at all when it was reported as unsent.      *)
Promise == INSTANCE CallPromise WITH
    outcome <- [c \in Calls |-> IF call[c].st = "done" THEN call[c].reply ELSE "open"]
KeepsPromise == Promise!PromiseSpec

(* Nobody waits for something that cannot happen: a waiter of the pool has a *)
(* connect task to wait for, and a request whose transport has finished      *)
(* closing has its response future resolved. (shared connect task; _retire,  *)
(* close and _receive racing each other)                                     *)
NobodyStranded ==
    \A c \in Calls :
        /\ call[c].st = "connecting" => pool.task # "none"
        /\ call[c].st \in {"sending", "waiting"} /\ ~ws[call[c].on].reading
              /\ ws[call[c].on].ending = "none" => call[c].reply # "none"

(* Every open connection is the pool's current one: neither a late done      *)
(* callback nor a lookup that finds the dead transport first drops the       *)
(* replacement or opens a second connection beside it.                       *)
NoConnectionForgotten ==
    \A t \in 1..opened : ~ws[t].shut /\ ~pool.closing => pool.cur = t

(* When close() returns no connection is left, however it met a connect      *)
(* attempt, a reconnect or a factory that opened in spite of the cancel.     *)
ClosedReleases == pool.released => \A t \in 1..opened : ws[t].shut
=============================================================================
