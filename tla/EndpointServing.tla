--------------------------- MODULE EndpointServing ---------------------------
(***************************************************************************)
(* One connection of a binary stream or a raw socket endpoint: admission   *)
(* (_prepare), the accepted connection with its expiry timer (_accepted,    *)
(* RpcConnection), and _run_stream_endpoint or _run_raw_socket with its     *)
(* serving task, handler task and reader task. Every await of the serving   *)
(* task is a phase in which it may be cancelled, from outside or by the      *)
(* expiry during start-up.                                                  *)
(***************************************************************************)
EXTENDS Naturals, Sequences

CONSTANTS
    Kinds,      \* "generator", "push" (a function with input and output), "raw"
    AppCodes,   \* close codes the application passes to RpcConnection.close
    FailCodes,  \* close codes a failing handler is mapped to
    MaxQueue,   \* limits.max_queue_size
    MaxFrames,  \* bound on the frames the client sends
    MaxCancels  \* bound on cancellations of the serving task from outside

ASSUME KindsAssumption == Kinds \subseteq {"generator", "push", "raw"}
ASSUME BoundsAssumption == MaxQueue \in Nat \ {0} /\ MaxFrames \in Nat
ASSUME CancelsAssumption == MaxCancels \in Nat

VARIABLES
    kind,         \* the endpoint
    main,         \* phase of the serving task
    err,          \* the cancellation the serving task is unwinding with
    pending,      \* cancellation requested and not delivered
    cancels,      \* cancellations from outside
    masked,       \* application code swallowed or replaced a cancellation
    timer,        \* an expiry timer is armed
    startup,      \* connection._startup_task is set
    installed,    \* connection._on_close is set
    accepted,     \* connection._accepted
    closed,       \* connection._closed
    code,         \* connection._close_code
    expired,      \* connection._close_reason is "credentials_expired"
    closeEvent, closeValue, clientClosed, \* of the endpoint's runner
    frame,        \* socket.close calls that completed
    cut,          \* the socket.close of _accepted was interrupted
    rejected,     \* the handshake was rejected
    peerLeft,     \* the client really disconnected
    scopes,       \* the resolver scopes are open
    gen,          \* the generator: "none", "open", "closed"
    handler,      \* handler task: "none", "running", "ended"
    reader,       \* reader task: "none", "reading", "putting", "ended"
    queue,        \* frames queued for the handler
    inputEnded,   \* the reader saw the end of the input
    received      \* frames received

closing == <<closeEvent, closeValue, code, expired, clientClosed>>
handle == <<timer, startup, installed, accepted, closed>>
tasks == <<gen, handler, reader, queue, inputEnded, received>>
serving == <<main, err, pending, cancels, masked, scopes>>
wire == <<frame, cut, rejected, peerLeft>>
vars == <<kind, serving, handle, closing, wire, tasks>>

None == "none"
Codes == {"normal", "policy_violation", "internal_error", "protocol_error",
          "message_too_big", "shutdown", "service_restart", "peer"}
ASSUME CodesAssumption == AppCodes \cup FailCodes \subseteq Codes
Phases == {"preparing", "rejecting", "accepting", "opening", "scoping", "serving",
           "joining", "aclosing", "leaving", "finally", "closing", "exiting",
           "reclosing", "unwinding", "done"}

Init ==
    /\ kind \in Kinds
    /\ main = "preparing" /\ err = None /\ pending = None /\ cancels = 0
    /\ masked = FALSE /\ scopes = FALSE
    /\ timer = FALSE /\ startup = FALSE /\ installed = FALSE
    /\ accepted = FALSE /\ closed = FALSE
    /\ closeEvent = FALSE /\ closeValue = "normal" /\ code = None
    /\ expired = FALSE /\ clientClosed = FALSE
    /\ frame = <<>> /\ cut = FALSE /\ rejected = FALSE /\ peerLeft = FALSE
    /\ gen = None /\ handler = None /\ reader = None
    /\ queue = 0 /\ inputEnded = FALSE /\ received = 0

-----------------------------------------------------------------------------
(* The close cause *)

\* request_close: the first cause, except that an error replaces a normal close.
RequestClose(c, byExpiry) ==
    /\ IF ~closeEvent \/ (~clientClosed /\ closeValue = "normal" /\ c # "normal")
         THEN /\ closeEvent' = TRUE
              /\ closeValue' = c /\ code' = c /\ expired' = byExpiry
         ELSE UNCHANGED <<closeEvent, closeValue, code, expired>>
    /\ UNCHANGED clientClosed

\* close_stream_error: the close an exception of the application is mapped to
CloseFailure == \E c \in FailCodes : RequestClose(c, FALSE)

\* client_disconnected: nobody is left to send a close frame to.
ClientDisconnected(c) ==
    /\ clientClosed' = TRUE
    /\ IF closeEvent
         THEN UNCHANGED <<closeEvent, closeValue, code, expired>>
         ELSE closeEvent' = TRUE /\ closeValue' = c /\ code' = c /\ expired' = FALSE

\* RpcConnection.close, by the application or by a drain: ignored until the runner
\* has installed its handler.
ConnectionCloses(c) ==
    /\ accepted /\ main # "done"
    /\ installed
    /\ RequestClose(c, FALSE)
    /\ UNCHANGED <<kind, serving, handle, wire, tasks>>

\* expires_at is set again or removed.
Rearm ==
    /\ handler = "running" /\ ~closed
    /\ timer' \in BOOLEAN
    /\ UNCHANGED <<kind, serving, startup, installed, accepted, closed, closing,
                   wire, tasks>>

\* Two cancellations that were not delivered: the task sees either message.
Cancelled(m) == pending' = IF pending \in {None, m} THEN m ELSE "both"

\* _expire.
Expire ==
    /\ timer /\ timer' = FALSE
    /\ IF closed \/ code # None
         THEN UNCHANGED <<closing, startup, pending>>
         ELSE /\ IF installed
                   THEN RequestClose("policy_violation", TRUE)
                   ELSE /\ code' = "policy_violation" /\ expired' = TRUE
                        /\ UNCHANGED <<closeEvent, closeValue, clientClosed>>
              /\ startup' = FALSE
              /\ IF startup THEN Cancelled("expiry") ELSE UNCHANGED pending
    /\ UNCHANGED <<kind, main, err, cancels, masked, scopes, installed, accepted,
                   closed, wire, tasks>>

\* The server or the framework cancels the serving task.
CancelServing ==
    /\ main # "done" /\ cancels < MaxCancels
    /\ cancels' = cancels + 1 /\ Cancelled("outside")
    /\ UNCHANGED <<kind, main, err, masked, scopes, handle, closing, wire, tasks>>

-----------------------------------------------------------------------------
(* The serving task; At(p) is its await in phase p, and it goes on. *)

At(p) == main = p /\ pending = None
GoTo(p) == main' = p /\ UNCHANGED <<pending, cancels>>

\* _prepare up to accept(): the subprotocol, the path, the hook or a drain may refuse.
PrepareRejects ==
    /\ At("preparing") /\ GoTo("rejecting")
    /\ rejected' = TRUE
    /\ UNCHANGED <<kind, err, masked, scopes, handle, closing, frame, cut,
                   peerLeft, tasks>>

Rejected ==
    /\ At("rejecting") /\ GoTo("unwinding")
    /\ UNCHANGED <<kind, err, masked, scopes, handle, closing, wire, tasks>>

PrepareAccepts ==
    /\ At("preparing") /\ GoTo("accepting")
    /\ UNCHANGED <<kind, err, masked, scopes, handle, closing, wire, tasks>>

\* accept() returned: _arm_expiry if the hook set an expiry, and _accepted begins.
Accept ==
    /\ At("accepting") /\ GoTo("opening")
    /\ accepted' = TRUE /\ startup' = TRUE /\ timer' \in BOOLEAN
    /\ UNCHANGED <<kind, err, masked, scopes, installed, closed, closing, wire,
                   tasks>>

\* connection_opened and the stream middleware, then _set_close_handler, which
\* repeats an expiry that came before it.
RepeatNothing == UNCHANGED closing
RepeatExpiry ==
    IF expired THEN RequestClose("policy_violation", TRUE) ELSE UNCHANGED closing

Opened ==
    /\ At("opening") /\ GoTo("scoping")
    /\ installed' = TRUE /\ RepeatExpiry
    /\ UNCHANGED <<kind, err, masked, scopes, timer, startup, accepted, closed,
                   wire, tasks>>

\* The resolver scopes are open and the dependencies resolved: the tasks start.
StartTasks ==
    /\ At("scoping") /\ GoTo("serving")
    /\ scopes' = TRUE /\ startup' = FALSE
    /\ handler' = "running" /\ reader' = "reading"
    /\ gen' = IF kind = "generator" THEN "open" ELSE None
    /\ UNCHANGED <<kind, err, masked, timer, installed, accepted, closed, closing,
                   wire, queue, inputEnded, received>>

\* `except Exception` around the scopes: it replaces a cancellation.
Finally == IF gen = "open" THEN "finally" ELSE "closing"

ScopeFails ==
    /\ At("scoping") \/ At("leaving")
    /\ CloseFailure
    /\ GoTo(Finally) /\ err' = None /\ scopes' = FALSE
    /\ masked' = (masked \/ err # None)
    /\ UNCHANGED <<kind, handle, wire, tasks>>

\* close_event.wait() returned: the tasks are cancelled and gathered.
Wake ==
    /\ At("serving") /\ closeEvent /\ GoTo("joining")
    /\ UNCHANGED <<kind, err, masked, scopes, handle, closing, wire, tasks>>

TasksOver == handler # "running" /\ reader \notin {"reading", "putting"}
NobodyGathered == TRUE
Gathered == TasksOver

Joined ==
    /\ At("joining") /\ Gathered
    /\ GoTo(IF kind = "generator" THEN "aclosing" ELSE "leaving")
    /\ UNCHANGED <<kind, err, masked, scopes, handle, closing, wire, tasks>>

\* generator.aclose(); what it raises is a close cause, here and in `finally`.
CloseGenerator ==
    /\ \/ At("aclosing") /\ GoTo("leaving")
       \/ At("finally") /\ GoTo("closing")
    /\ gen' = "closed"
    /\ \/ UNCHANGED closing
       \/ CloseFailure
    /\ UNCHANGED <<kind, err, masked, scopes, handle, wire, handler, reader, queue,
                   inputEnded, received>>

\* `except CancelledError`: a cause that is already named is kept.
RunCancelled ==
    LET shutdown == IF code = None THEN "shutdown" ELSE code IN
    /\ closeValue' = shutdown /\ code' = shutdown
    /\ UNCHANGED <<closeEvent, expired, clientClosed>>

LeaveScopes ==
    /\ At("leaving") /\ GoTo(Finally)
    /\ scopes' = FALSE
    /\ IF err = None THEN UNCHANGED closing ELSE RunCancelled
    /\ UNCHANGED <<kind, err, masked, handle, wire, tasks>>

MarkClosed == closed' = TRUE /\ startup' = FALSE /\ timer' = FALSE

\* socket.close unless the client has gone; a client that is gone is no error.
SendClose(c) ==
    \/ frame' = Append(frame, c) /\ UNCHANGED peerLeft
    \/ peerLeft' = TRUE /\ UNCHANGED frame

CloseSocket ==
    /\ At("closing") /\ GoTo("exiting")
    /\ IF clientClosed THEN UNCHANGED <<frame, peerLeft>> ELSE SendClose(closeValue)
    /\ MarkClosed
    /\ UNCHANGED <<kind, err, masked, scopes, installed, accepted, closing,
                   cut, rejected, tasks>>

\* The stream middleware is left; then _accepted takes back a cancellation that
\* only the expiry asked for, and names the cause of any other.
OnlyExpiryAny == err = "expiry"
OnlyExpiry == err = "expiry" /\ cancels = 0

AfterAcceptedOpen == "unwinding"
AfterAccepted == IF closed THEN "unwinding" ELSE "reclosing"

LeaveAccepted ==
    /\ At("exiting") /\ GoTo(AfterAccepted)
    /\ err' = IF OnlyExpiry THEN None ELSE err
    /\ code' = IF err # None /\ ~OnlyExpiry /\ ~closed /\ code = None
                 THEN "shutdown" ELSE code
    /\ startup' = FALSE
    /\ UNCHANGED <<kind, masked, scopes, timer, installed, accepted, closed,
                   closeEvent, closeValue, expired, clientClosed, wire, tasks>>

Reclose ==
    /\ At("reclosing") /\ GoTo("unwinding")
    /\ SendClose(IF code = None THEN "normal" ELSE code)
    /\ MarkClosed
    /\ UNCHANGED <<kind, err, masked, scopes, installed, accepted, closing,
                   cut, rejected, tasks>>

\* The connection middleware is left.
Unwound ==
    /\ At("unwinding") /\ GoTo("done")
    /\ UNCHANGED <<kind, err, masked, scopes, handle, closing, wire, tasks>>

\* A cancellation is delivered: where the serving task goes with it. gather()
\* raises only when its tasks have ended; an interrupted aclose() has thrown the
\* cancellation into the generator; an interrupted socket.close leaves the connection
\* open for _accepted to close.
Interrupted ==
    CASE main \in {"preparing", "rejecting", "accepting", "reclosing"} -> "unwinding"
      [] main \in {"opening", "closing", "finally"} -> "exiting"
      [] main = "scoping" -> Finally
      [] main = "serving" -> "joining"
      [] main \in {"joining", "aclosing"} -> "leaving"
      [] main = "leaving" -> Finally
      [] main = "unwinding" -> "done"

Interrupt ==
    /\ pending # None /\ main \notin {"exiting", "done"}
    /\ main = "joining" => TasksOver
    /\ main' = Interrupted /\ pending' = None
    /\ err' \in (IF main = "unwinding" /\ err # None THEN {err}
                 ELSE IF pending = "both" THEN {"expiry", "outside"} ELSE {pending})
    /\ scopes' = (scopes /\ main # "leaving")
    /\ gen' = IF main \in {"aclosing", "finally"} THEN "closed" ELSE gen
    /\ cut' = (cut \/ main = "reclosing")
    /\ IF main \in {"scoping", "leaving"} THEN RunCancelled ELSE UNCHANGED closing
    /\ UNCHANGED <<kind, cancels, masked, handle, frame, rejected, peerLeft,
                   handler, reader, queue, inputEnded, received>>

\* Delivered while the stream middleware is left: it counts unless the scope is
\* already failing, and the exits go on.
InterruptExit ==
    /\ main = "exiting" /\ pending # None
    /\ pending' = None
    /\ err' \in (IF err # None THEN {err}
                 ELSE IF pending = "both" THEN {"expiry", "outside"} ELSE {pending})
    /\ UNCHANGED <<kind, main, cancels, masked, scopes, handle, closing, wire, tasks>>

\* A middleware that swallows the cancellation while it is entered.
SwallowInterrupt ==
    /\ main = "opening" /\ pending # None /\ pending' = None
    /\ masked' = TRUE
    /\ UNCHANGED <<kind, main, err, cancels, scopes, handle, closing, wire,
                   tasks>>

-----------------------------------------------------------------------------
(* The handler task: write(), or handle() with the application's function *)

HandlerEnds == handler' = "ended" /\ UNCHANGED <<gen, reader, queue, inputEnded, received>>

\* The generator is exhausted or the function returned.
HandlerReturns ==
    /\ handler = "running" /\ HandlerEnds
    /\ RequestClose("normal", FALSE)
    /\ UNCHANGED <<kind, serving, handle, wire>>

\* close_stream_error and close_failure, also when the handler is being cancelled;
\* a raw socket's own RpcDisconnect counts as a normal end.
HandlerFails ==
    /\ handler = "running" /\ HandlerEnds
    /\ CloseFailure
    /\ UNCHANGED <<kind, serving, handle, wire>>

\* A send finds the client gone, also one that began before a close cause was named.
HandlerSendFails ==
    /\ handler = "running"
    /\ ClientDisconnected("peer") /\ peerLeft' = TRUE
    /\ IF kind = "raw" THEN UNCHANGED tasks ELSE HandlerEnds
    /\ UNCHANGED <<kind, serving, handle, frame, cut, rejected>>

\* send() on a connection that has a close cause raises RpcDisconnect. A raw socket
\* ends normally with it; handle() of a stream takes it for the client's disconnect.
SendsTooLate ==
    /\ handler = "running" /\ kind # "generator" /\ (closed \/ code # None)
    /\ HandlerEnds
    /\ IF kind = "raw" THEN RequestClose("normal", FALSE)
                       ELSE ClientDisconnected("normal")
    /\ UNCHANGED <<kind, serving, handle, wire>>

\* RpcRawSocket.send times out: the handler sees RpcDisconnect and may go on.
SendTimesOut ==
    /\ handler = "running" /\ kind = "raw"
    /\ RequestClose("policy_violation", FALSE)
    /\ UNCHANGED <<kind, serving, handle, wire, tasks>>

HandlerReceives ==
    /\ handler = "running" /\ queue > 0 /\ queue' = queue - 1
    /\ UNCHANGED <<kind, serving, handle, closing, wire, gen, handler, reader,
                   inputEnded, received>>

HandlerCancelled ==
    /\ handler = "running" /\ main = "joining" /\ HandlerEnds
    /\ UNCHANGED <<kind, serving, handle, closing, wire>>

-----------------------------------------------------------------------------
(* The reader task *)

ReaderEnds ==
    reader' = "ended" /\ UNCHANGED <<gen, handler, queue, inputEnded>>

\* A frame for the queue: a binary frame or the end of a push stream's input.
ReaderReceives ==
    /\ reader = "reading" /\ received < MaxFrames
    /\ kind # "generator" /\ ~inputEnded
    /\ reader' = "putting" /\ received' = received + 1
    /\ inputEnded' \in (IF kind = "push" THEN BOOLEAN ELSE {FALSE})
    /\ UNCHANGED <<kind, serving, handle, closing, wire, gen, handler, queue>>

ReaderPuts ==
    /\ reader = "putting" /\ queue < MaxQueue
    /\ queue' = queue + 1 /\ reader' = "reading"
    /\ UNCHANGED <<kind, serving, handle, closing, wire, gen, handler, inputEnded,
                   received>>

\* A frame the endpoint does not take: any frame of a generator, one after the end,
\* one too large or of a type not declared.
ReaderRefuses ==
    /\ reader = "reading" /\ received < MaxFrames
    /\ received' = received + 1 /\ ReaderEnds
    /\ \E c \in {"protocol_error", "message_too_big"} :
          /\ c = "message_too_big" => kind # "generator"
          /\ RequestClose(c, FALSE)
    /\ UNCHANGED <<kind, serving, handle, wire>>

ReaderDisconnected ==
    /\ reader = "reading"
    /\ ReaderEnds /\ UNCHANGED received
    /\ ClientDisconnected("peer") /\ peerLeft' = TRUE
    /\ UNCHANGED <<kind, serving, handle, frame, cut, rejected>>

\* A stream maps what the reader raises as it does its handler's exceptions.
ReaderFails ==
    /\ reader = "reading"
    /\ ReaderEnds /\ UNCHANGED received
    /\ IF kind = "raw" THEN RequestClose("internal_error", FALSE) ELSE CloseFailure
    /\ UNCHANGED <<kind, serving, handle, wire>>

ReaderCancelled ==
    /\ reader \in {"reading", "putting"} /\ main = "joining"
    /\ ReaderEnds /\ UNCHANGED received
    /\ UNCHANGED <<kind, serving, handle, closing, wire>>

-----------------------------------------------------------------------------
MainStep ==
    \/ PrepareRejects \/ Rejected \/ PrepareAccepts \/ Accept \/ Opened \/ StartTasks
    \/ ScopeFails \/ Wake \/ Joined \/ CloseGenerator \/ LeaveScopes \/ CloseSocket
    \/ LeaveAccepted \/ Reclose \/ Unwound \/ Interrupt \/ InterruptExit
    \/ SwallowInterrupt

HandlerStep ==
    \/ HandlerReturns \/ HandlerFails \/ HandlerSendFails \/ SendsTooLate
    \/ SendTimesOut \/ HandlerReceives

ReaderStep ==
    \/ ReaderReceives \/ ReaderPuts \/ ReaderRefuses \/ ReaderDisconnected
    \/ ReaderFails

Terminating == main = "done" /\ UNCHANGED vars

Next ==
    \/ MainStep \/ HandlerStep \/ HandlerCancelled \/ ReaderStep \/ ReaderCancelled
    \/ Expire \/ Rearm \/ CancelServing
    \/ \E c \in AppCodes : ConnectionCloses(c)
    \/ Terminating

Spec == Init /\ [][Next]_vars

\* The event loop runs every task that is ready and fires timers; a cancelled handler
\* or reader ends. MainStep is fair in every phase, so socket.close, the hook, the exits
\* of the resolver scopes, aclose() and the middleware are taken to return. The client
\* need not read or send, and the handler need not return by itself.
FairSpec ==
    /\ Spec
    /\ WF_vars(MainStep) /\ WF_vars(Expire)
    /\ WF_vars(HandlerCancelled) /\ WF_vars(ReaderCancelled)

-----------------------------------------------------------------------------
TypeOK ==
    /\ kind \in Kinds /\ main \in Phases
    /\ err \in {None, "expiry", "outside"}
    /\ pending \in {None, "expiry", "outside", "both"} /\ cancels \in 0..MaxCancels
    /\ masked \in BOOLEAN /\ scopes \in BOOLEAN
    /\ timer \in BOOLEAN /\ startup \in BOOLEAN /\ installed \in BOOLEAN
    /\ accepted \in BOOLEAN /\ closed \in BOOLEAN
    /\ closeEvent \in BOOLEAN /\ closeValue \in Codes /\ code \in Codes \cup {None}
    /\ expired \in BOOLEAN /\ clientClosed \in BOOLEAN
    /\ frame \in Seq(Codes) /\ cut \in BOOLEAN /\ rejected \in BOOLEAN /\ peerLeft \in BOOLEAN
    /\ gen \in {None, "open", "closed"} /\ handler \in {None, "running", "ended"}
    /\ reader \in {None, "reading", "putting", "ended"}
    /\ queue \in 0..MaxQueue /\ inputEnded \in BOOLEAN /\ received \in 0..MaxFrames

\* An accepted connection is closed, once, however its start-up, its handler, its
\* reader, its teardown, the expiry and cancellations interleave, unless the runner
\* holds the client to be gone or the second attempt to close, which _accepted makes,
\* is cancelled too; one that was not accepted never is.
AcceptedIsClosed ==
    /\ Len(frame) <= 1
    /\ frame # <<>> => accepted
    /\ main = "done" /\ accepted /\ ~cut =>
          closed /\ ~timer /\ (frame # <<>> \/ clientClosed \/ peerLeft)

\* The close frame and the end of serving leave nothing behind: no handler or reader
\* task runs, the generator is closed and the resolver scopes are left.
NothingLeft ==
    frame # <<>> \/ main = "done" => TasksOver /\ gen # "open" /\ ~scopes

\* The cancellation by which the expiry ends a start-up never leaves the serving
\* task, and one from outside is never taken for it, even when both are under way:
\* the task ends cancelled exactly when it was cancelled from outside, unless a
\* middleware swallowed the cancellation or a scope that failed replaced it.
CancellationKept ==
    main = "done" =>
       /\ err # None => cancels > 0
       /\ cancels > 0 /\ ~masked => err # None

\* Whatever names a cause or interrupts the serving task, serving ends, even if the
\* client stays silent, the handler does not return and the reader waits for room.
ServingEnds == code # None \/ err # None ~> main = "done"
=============================================================================
