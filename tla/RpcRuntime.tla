------------------------------ MODULE RpcRuntime ------------------------------
(***************************************************************************)
(* One accepted JSON-RPC connection, as served by _run_rpc_endpoint of      *)
(* rpckit/runtime.py: the reader that admits frames, one task per admitted  *)
(* item (invoke_one), one response collector per frame (invoke), the        *)
(* bounded outgoing queue with its writer, the passive event source, the    *)
(* graceful drain hook and the serving task that closes the connection.     *)
(*                                                                         *)
(* asyncio runs one task at a time between two awaits, so a step here is    *)
(* the code between two awaits. The reader handles all items of a frame     *)
(* without awaiting; it is split into one action per item, and no other     *)
(* task steps while reader = "admitting".                                   *)
(*                                                                         *)
(* A cancelled task sees CancelledError when it is next resumed. The serving*)
(* task cancels everything at once, which Cancelling stands for.            *)
(*                                                                         *)
(* Abstractions: a frame is the items it carries; a response message is the *)
(* number of the frame it answers, an event notification is EventMsg. The   *)
(* endpoint declares neither subscriptions nor client methods (they have    *)
(* modules of their own), so wait_finished and subscriptions.close return   *)
(* at once. Timeouts may fire whenever their await is pending.              *)
(***************************************************************************)
EXTENDS Integers, Sequences, FiniteSets

CONSTANTS
    Ids,         \* request ids a client uses
    NoId,        \* an item without a registrable id
    Items,       \* the request items a client may put into a frame
    AppCodes,    \* codes application code closes the connection with
    EventCodes,  \* codes the end or the failure of an event source closes it with
    PeerCodes,   \* codes a peer that goes away closes it with (RpcDisconnect.code)
    Faults,      \* what the environment may do beyond answering calls
    MaxPending,  \* limits.max_pending_requests
    MaxQueue,    \* limits.max_queue_size
    MaxBatch,    \* items of the largest frame: max(1, limits.max_batch_size)
    MaxCalls,    \* bound: items turned into calls over the connection
    MaxFrames,   \* bound: frames received over the connection
    MaxEvents    \* bound: notifications of the event source

ASSUME LimitsAssumption ==
    /\ MaxPending \in Nat \ {0} /\ MaxQueue \in Nat \ {0}
    /\ MaxBatch \in Nat \ {0}
    /\ MaxCalls \in Nat /\ MaxFrames \in Nat /\ MaxEvents \in Nat

\* An item with an id is a valid request that expects an answer. Without one it
\* is a notification, a request with a null id, or an invalid item.
ASSUME ItemsAssumption ==
    /\ NoId \notin Ids
    /\ Items \subseteq [id : Ids \cup {NoId}, owes : BOOLEAN, valid : BOOLEAN]
    /\ \A i \in Items : i.id \in Ids => i.owes /\ i.valid

\* "receive": receive() yields something fatal or raises; "disconnect": the peer
\* goes away; "send": send() fails; "slow": send_timeout is set and may fire
\* whenever a send, a put or the final flush is waiting; "handler": user
\* code leaks CancelledError or middleware raises; "interrupt": the serving task
\* is cancelled; "drain": the service drains; "stop": the drain grace period ends.
ASSUME FaultsAssumption ==
    Faults \subseteq {"receive", "disconnect", "send", "slow", "handler",
                      "interrupt", "drain", "stop"}

Call == 1..MaxCalls
Frame == 1..MaxFrames
NoCall == 0
EventMsg == 0
NoMsg == -1
Msg == Frame \cup {EventMsg}

\* RpcConnectionClose. RpcDisconnect maps the peer's own close code to the same
\* values (1000 is "normal"), and to "other" when it does not know the code.
Codes == {"normal", "shutdown", "protocol_error", "policy_violation",
          "internal_error", "message_too_big", "service_restart",
          "try_again_later", "other"}
NoCode == "none"

ASSUME CodesAssumption ==
    /\ AppCodes \subseteq Codes /\ PeerCodes \subseteq Codes
    /\ EventCodes \subseteq {"normal", "policy_violation", "protocol_error",
                             "try_again_later", "internal_error"}

VARIABLES
    reader,       \* "receiving", "admitting" a frame, "stopped"
    cur,          \* the frame being admitted: calls made, controls answered, size
    call,         \* _PendingCall and its task
    ncalls,       \* calls created so far
    reservations, \* pending._reservations, by call
    requests,     \* requests: in-flight call by id
    coll,         \* response collectors (tasks)
    nframes,      \* frames received so far
    outgoing,     \* the bounded queue
    sending,      \* message the writer has taken and is sending
    writerUp,     \* the writer task has not ended
    delivered,    \* messages handed to the client
    events,       \* event source: "running", "putting", "cancelled", "stopped"
    nevents,      \* notifications produced
    closeEvent,   \* close_event.is_set()
    closeCode,    \* connection._close_code
    clientClosed, \* client_closed
    main,         \* serving task: "serving", "gathering", "flushing", "finally", "closed"
    interrupted,  \* the serving task was cancelled from outside
    gaveUp,       \* the final flush timed out
    closeFrame,   \* code passed to socket.close
    draining,     \* service.drain.draining
    graceful,     \* graceful(): "idle", "events", "tasks", "reader", "flush", "done"
    gwait         \* collectors graceful() is waiting for

readerVars == <<reader, cur>>
callVars == <<call, ncalls, reservations, requests>>
collVars == <<coll, nframes>>
queueVars == <<outgoing, sending, writerUp, delivered>>
eventVars == <<events, nevents>>
closeVars == <<closeEvent, closeCode, clientClosed>>
mainVars == <<main, interrupted, gaveUp, closeFrame>>
drainVars == <<draining, graceful, gwait>>
vars == <<readerVars, callVars, collVars, queueVars, eventVars, closeVars,
          mainVars, drainVars>>

\* What the steps of each task leave alone.
readerRest == <<queueVars, eventVars, mainVars, drainVars>>
callRest ==
    <<readerVars, collVars, queueVars, eventVars, closeVars, mainVars, drainVars>>
collRest == <<readerVars, eventVars, mainVars, drainVars>>
writerRest ==
    <<readerVars, callVars, collVars, eventVars, mainVars, drainVars>>
eventRest == <<readerVars, callVars, collVars, mainVars, drainVars>>
mainRest == <<callVars, collVars, queueVars, drainVars>>
drainRest == <<callVars, collVars, queueVars, mainVars>>

-----------------------------------------------------------------------------
NewCall == [task |-> "none", id |-> NoId, owes |-> FALSE, reserved |-> FALSE,
            started |-> FALSE, cancelRequested |-> FALSE, killed |-> FALSE,
            outcome |-> "none"]

CallRecord ==
    [task : {"none", "ready", "running", "finished", "retired"},
     id : Ids \cup {NoId}, owes : BOOLEAN, reserved : BOOLEAN,
     started : BOOLEAN, cancelRequested : BOOLEAN, killed : BOOLEAN,
     outcome : {"none", "answer", "silent", "cancelled", "leaked", "error"}]

\* A response that needs no call: a pong, or the failure of an unusable frame.
Controls == {"none", "ping", "failure"}

NewColl == [st |-> "none", items |-> {}, ctrl |-> "none", raised |-> "none"]

CollRecord ==
    [st : {"none", "collecting", "unwinding", "putting", "ended", "done"},
     items : SUBSET Call, ctrl : Controls,
     raised : {"none", "cancelled", "error"}]

NoFrame == [items |-> {}, ctrl |-> "none", size |-> 0]

Init ==
    /\ reader = "receiving" /\ cur = NoFrame
    /\ call = [c \in Call |-> NewCall] /\ ncalls = 0
    /\ reservations = {} /\ requests = [k \in Ids |-> NoCall]
    /\ coll = [f \in Frame |-> NewColl] /\ nframes = 0
    /\ outgoing = <<>> /\ sending = NoMsg /\ writerUp = TRUE /\ delivered = {}
    /\ events = (IF MaxEvents = 0 THEN "stopped" ELSE "running") /\ nevents = 0
    /\ closeEvent = FALSE /\ closeCode = NoCode /\ clientClosed = FALSE
    /\ main = "serving" /\ interrupted = FALSE /\ gaveUp = FALSE
    /\ closeFrame = NoCode
    /\ draining = FALSE /\ graceful = "idle" /\ gwait = {}

Admitting == reader = "admitting"
Cancelling == main # "serving"
Ended(c) == call[c].task \in {"finished", "retired"}
LiveCollectors == {f \in Frame : coll[f].st \notin {"none", "done"}}
CollectorsFullOffByOne == Cardinality(LiveCollectors) > MaxPending + MaxQueue
CollectorsFull == Cardinality(LiveCollectors) >= MaxPending + MaxQueue
QueueFull == Len(outgoing) >= MaxQueue

\* request_close: only the first cause counts.
RequestClose(code) ==
    /\ closeEvent' = TRUE
    /\ closeCode' = IF closeEvent THEN closeCode ELSE code

CloseConnection(code) == RequestClose(code) /\ UNCHANGED clientClosed

\* RpcDisconnect: the peer is gone and gets no close frame.
PeerCloses == clientClosed' = TRUE /\ \E code \in PeerCodes : RequestClose(code)

-----------------------------------------------------------------------------
(* reader() *)

\* limits.max_batch_size; a longer batch is a ReceiveUnusable.
RoomInFrame == cur.size < MaxBatch

NextItem(items, ctrl) ==
    cur' = [items |-> items, ctrl |-> ctrl, size |-> cur.size + 1]

\* A text frame that decodes to an item or to a batch of acceptable size.
ReceiveFrame ==
    /\ reader = "receiving" /\ ~Cancelling
    /\ nframes < MaxFrames
    /\ reader' = "admitting" /\ cur' = NoFrame
    /\ UNCHANGED <<readerRest, callVars, collVars, closeVars>>

\* $/ping with an id: answered from the collector, never admitted.
ItemPing ==
    /\ Admitting /\ RoomInFrame
    /\ NextItem(cur.items, "ping")
    /\ UNCHANGED <<readerRest, reader, callVars, collVars, closeVars>>

\* cancel_request: only an admitted, unfinished call that was not cancelled yet.
\* Otherwise the item has no effect, like a ping without an id.
ItemCancel(k) ==
    /\ Admitting /\ RoomInFrame
    /\ NextItem(cur.items, cur.ctrl)
    /\ LET c == requests[k] IN
         call' = IF /\ c # NoCall
                    /\ call[c].reserved /\ ~call[c].cancelRequested
                    /\ ~Ended(c)
                   THEN [call EXCEPT ![c].cancelRequested = TRUE]
                   ELSE call
    /\ UNCHANGED <<readerRest, reader, ncalls, reservations, requests, collVars,
                   closeVars>>

\* The loop body for a request, a notification or an invalid item.
Reserved(i) ==
    i.valid /\ ~draining /\ Cardinality(reservations) < MaxPending

NeverDuplicate(i) == FALSE
Duplicate(i) == i.id \in Ids /\ requests[i.id] # NoCall

CreateCall(i) ==
    LET c == ncalls + 1 IN
    /\ ncalls' = c
    /\ call' = [call EXCEPT ![c] =
                  [task |-> "ready", id |-> i.id, owes |-> i.owes,
                   reserved |-> Reserved(i), started |-> FALSE,
                   cancelRequested |-> FALSE, killed |-> FALSE, outcome |-> "none"]]
    /\ reservations' = IF Reserved(i) THEN reservations \cup {c} ELSE reservations
    /\ requests' = IF i.id \in Ids THEN [requests EXCEPT ![i.id] = c] ELSE requests
    /\ NextItem(cur.items \cup {c}, cur.ctrl)

ItemRequest(i) ==
    /\ Admitting /\ RoomInFrame
    /\ ncalls < MaxCalls
    /\ ~CollectorsFull /\ ~Duplicate(i)
    /\ CreateCall(i)
    /\ UNCHANGED <<readerRest, reader, collVars, closeVars>>

\* A full collector set or a duplicate id ends the reader in the middle of the
\* frame: the calls already made for it never get a collector.
ItemRefused(i) ==
    /\ Admitting /\ RoomInFrame
    /\ CollectorsFull \/ Duplicate(i)
    /\ CloseConnection(IF CollectorsFull THEN "policy_violation"
                                         ELSE "protocol_error")
    /\ reader' = "stopped" /\ cur' = NoFrame
    /\ UNCHANGED <<readerRest, callVars, collVars>>

CreateCollector(items, ctrl) ==
    /\ nframes' = nframes + 1
    /\ coll' = [coll EXCEPT ![nframes + 1] =
                  [st |-> "collecting", items |-> items, ctrl |-> ctrl,
                   raised |-> "none"]]

EndFrame ==
    /\ Admitting /\ cur.size > 0
    /\ cur' = NoFrame
    /\ \/ /\ cur.items = {} /\ cur.ctrl = "none"
          /\ reader' = "receiving"
          /\ nframes' = nframes + 1
          /\ UNCHANGED <<coll, closeVars>>
       \/ /\ cur.items # {} \/ cur.ctrl # "none"
          /\ CollectorsFull
          /\ CloseConnection("policy_violation")
          /\ reader' = "stopped"
          /\ UNCHANGED collVars
       \/ /\ cur.items # {} \/ cur.ctrl # "none"
          /\ ~CollectorsFull
          /\ CreateCollector(cur.items, cur.ctrl)
          /\ reader' = "receiving"
          /\ UNCHANGED closeVars
    /\ UNCHANGED <<readerRest, callVars>>

\* schedule_failure: unparsable text, an empty or an oversized batch.
ReceiveUnusable ==
    /\ reader = "receiving" /\ ~Cancelling
    /\ nframes < MaxFrames
    /\ \/ /\ ~CollectorsFull
          /\ CreateCollector({}, "failure")
          /\ UNCHANGED <<reader, closeVars>>
       \/ /\ CollectorsFull
          /\ CloseConnection("policy_violation")
          /\ reader' = "stopped"
          /\ UNCHANGED collVars
    /\ UNCHANGED <<readerRest, cur, callVars>>

\* An oversized frame, bytes that are not text, or a receive() that raised.
ReceiveFatal ==
    /\ "receive" \in Faults /\ reader = "receiving" /\ ~Cancelling
    /\ \E code \in {"message_too_big", "protocol_error", "internal_error"} :
          CloseConnection(code)
    /\ reader' = "stopped"
    /\ UNCHANGED <<readerRest, cur, callVars, collVars>>

ReceiveDisconnect ==
    /\ "disconnect" \in Faults /\ reader = "receiving" /\ ~Cancelling
    /\ PeerCloses
    /\ reader' = "stopped"
    /\ UNCHANGED <<readerRest, cur, callVars, collVars>>

-----------------------------------------------------------------------------
(* The task of one call: invoke_one, and call_done when it ends *)

OnlyFramesInterrupt(c) == call[c].cancelRequested \/ call[c].killed
Interrupted(c) == Cancelling \/ call[c].cancelRequested \/ call[c].killed

CallStart(c) ==
    /\ ~Admitting /\ call[c].task = "ready" /\ ~Interrupted(c)
    /\ call' = [call EXCEPT ![c].task = "running", ![c].started = TRUE]
    /\ UNCHANGED <<callRest, ncalls, reservations, requests>>

\* Cancelled before its first step: invoke_one never runs, not even its finally.
CallDropped(c) ==
    /\ ~Admitting /\ call[c].task = "ready" /\ Interrupted(c)
    /\ call' = [call EXCEPT ![c].task = "finished", ![c].outcome = "cancelled"]
    /\ UNCHANGED <<callRest, ncalls, reservations, requests>>

EndCall(c, outcome) ==
    /\ ~Admitting /\ call[c].task = "running"
    /\ call' = [call EXCEPT ![c].task = "finished", ![c].outcome = outcome]
    /\ reservations' = reservations \ {c}
    /\ UNCHANGED <<callRest, ncalls, requests>>

\* invoke_one returns what the server answers: a result, a failure (timeout and
\* client cancellation included), or nothing for a notification.
CallFinish(c) == EndCall(c, IF call[c].owes THEN "answer" ELSE "silent")

\* A cancellation that is not the client's own, or one that finds a close cause
\* set, is re-raised by _run_bounded.
CallInterrupted(c) ==
    /\ \/ Cancelling \/ call[c].killed
       \/ call[c].cancelRequested /\ closeCode # NoCode
    /\ EndCall(c, "cancelled")

\* User code raises CancelledError although nobody cancelled this call.
CallLeaksCancel(c) ==
    /\ "handler" \in Faults /\ call[c].reserved
    /\ EndCall(c, "leaked")

\* Middleware raises outside the dispatcher.
CallFails(c) ==
    /\ "handler" \in Faults /\ EndCall(c, "error")

\* call_done, the done callback of the task. invoke_one's finally has released
\* the reservation unless the task never started.
NoFallbackRelease(c) == reservations
FallbackRelease(c) == reservations \ {c}

CallDone(c) ==
    /\ ~Admitting /\ call[c].task = "finished"
    /\ call' = [call EXCEPT ![c].task = "retired"]
    /\ reservations' = FallbackRelease(c)
    /\ requests' = [k \in Ids |-> IF k = call[c].id /\ requests[k] = c
                                    THEN NoCall ELSE requests[k]]
    /\ UNCHANGED <<callRest, ncalls>>

-----------------------------------------------------------------------------
(* Response collectors: collect_one, invoke, respond, invocation_done *)

\* collect_one turns "cancelled by the client before it started" into an answer.
NeverCancelledUnstarted(c) == FALSE
CancelledUnstarted(c) ==
    call[c].outcome = "cancelled" /\ ~call[c].started /\ call[c].cancelRequested

Raises(c) ==
    \/ call[c].outcome \in {"error", "leaked"}
    \/ call[c].outcome = "cancelled" /\ ~(CancelledUnstarted(c) /\ ~closeEvent)

Answers(c) ==
    \/ call[c].outcome = "answer"
    \/ CancelledUnstarted(c) /\ call[c].owes

\* invoke fails: its finally cancels the calls of the frame that still run.
Unwind(f, raised) ==
    /\ coll' = [coll EXCEPT ![f].st = "unwinding", ![f].raised = raised]
    /\ call' = [d \in Call |-> IF d \in coll[f].items /\ ~Ended(d)
                                 THEN [call[d] EXCEPT !.killed = TRUE]
                                 ELSE call[d]]
    /\ UNCHANGED <<readerRest, readerVars, ncalls, reservations, requests,
                   nframes, closeVars>>

\* gather() reports the first failing item.
CollectorRaises(f, c) ==
    /\ ~Admitting /\ ~Cancelling
    /\ coll[f].st = "collecting"
    /\ c \in coll[f].items /\ Ended(c) /\ Raises(c)
    /\ Unwind(f, IF call[c].outcome = "error" THEN "error" ELSE "cancelled")

\* The collector itself makes a failure response, which runs the middleware.
RunsMiddleware(f) ==
    /\ coll[f].st = "collecting"
    /\ \/ coll[f].ctrl = "failure"
       \/ ~closeEvent /\ \E c \in coll[f].items : Ended(c) /\ CancelledUnstarted(c)

CollectorFails(f) ==
    /\ "handler" \in Faults /\ ~Admitting /\ ~Cancelling
    /\ RunsMiddleware(f)
    /\ Unwind(f, "error")

\* A collector that is cancelled while it waits ends as cancelled.
CollectorUnwound(f) ==
    /\ ~Admitting
    /\ coll[f].st = "unwinding" /\ \A c \in coll[f].items : Ended(c)
    /\ coll' = [coll EXCEPT ![f].st = "ended",
                            ![f].raised = IF Cancelling THEN "cancelled" ELSE @]
    /\ UNCHANGED <<readerRest, readerVars, callVars, nframes, closeVars>>

\* All items ended. The response is put at once if there is room; otherwise the
\* collector waits in put. Nothing is put once a close was requested.
HasResponse(f) == coll[f].ctrl # "none" \/ \E c \in coll[f].items : Answers(c)

CollectorResponds(f) ==
    /\ ~Admitting /\ ~Cancelling
    /\ coll[f].st = "collecting"
    /\ \A c \in coll[f].items : Ended(c) /\ ~Raises(c)
    /\ \/ /\ HasResponse(f) /\ ~closeEvent /\ ~QueueFull
          /\ outgoing' = Append(outgoing, f)
          /\ coll' = [coll EXCEPT ![f].st = "ended"]
       \/ /\ HasResponse(f) /\ ~closeEvent /\ QueueFull
          /\ coll' = [coll EXCEPT ![f].st = "putting"]
          /\ UNCHANGED outgoing
       \/ /\ ~HasResponse(f) \/ closeEvent
          /\ coll' = [coll EXCEPT ![f].st = "ended"]
          /\ UNCHANGED outgoing
    /\ UNCHANGED <<collRest, callVars, nframes, sending, writerUp, delivered,
                   closeVars>>

CollectorPuts(f) ==
    /\ ~Admitting /\ ~Cancelling
    /\ coll[f].st = "putting" /\ ~QueueFull
    /\ outgoing' = Append(outgoing, f)
    /\ coll' = [coll EXCEPT ![f].st = "ended"]
    /\ UNCHANGED <<collRest, callVars, nframes, sending, writerUp, delivered,
                   closeVars>>

\* send_outgoing timed out: the message is dropped and the connection closes.
CollectorTooSlow(f) ==
    /\ "slow" \in Faults /\ ~Admitting /\ ~Cancelling
    /\ coll[f].st = "putting"
    /\ coll' = [coll EXCEPT ![f].st = "ended"]
    /\ CloseConnection("policy_violation")
    /\ UNCHANGED <<readerRest, readerVars, callVars, nframes>>

\* Cancelled by the serving task; its finally first waits for its calls.
CollectorCancelled(f) ==
    /\ ~Admitting /\ Cancelling
    /\ coll[f].st \in {"collecting", "putting"}
    /\ \A c \in coll[f].items : Ended(c)
    /\ coll' = [coll EXCEPT ![f].st = "ended"]
    /\ UNCHANGED <<readerRest, readerVars, callVars, nframes, closeVars>>

\* invocation_done, the done callback: only now does the collector stop counting
\* against the limit. An exception closes the connection, a cancellation does not.
CollectorDone(f) ==
    /\ ~Admitting /\ coll[f].st = "ended"
    /\ coll' = [coll EXCEPT ![f].st = "done"]
    /\ IF coll[f].raised = "error"
         THEN CloseConnection("internal_error") ELSE UNCHANGED closeVars
    /\ UNCHANGED <<readerRest, readerVars, callVars, nframes>>

-----------------------------------------------------------------------------
(* writer() *)

WriterTakes ==
    /\ ~Admitting /\ writerUp /\ main # "finally"
    /\ sending = NoMsg /\ outgoing # <<>>
    /\ sending' = Head(outgoing) /\ outgoing' = Tail(outgoing)
    /\ UNCHANGED <<writerRest, writerUp, delivered, closeVars>>

\* The frame reaches the client. The done callbacks of the calls it answers were
\* scheduled before it was enqueued, so they run before anything it causes.
WriterSends ==
    /\ ~Admitting /\ writerUp /\ sending # NoMsg
    /\ sending \in Frame =>
          \A c \in coll[sending].items : call[c].task = "retired"
    /\ delivered' = delivered \cup {sending}
    /\ sending' = NoMsg
    /\ UNCHANGED <<writerRest, outgoing, writerUp, closeVars>>

\* send() raised: the peer is gone, the socket failed, or send_timeout expired.
WriterFails ==
    /\ ~Admitting /\ writerUp /\ sending # NoMsg /\ main # "finally"
    /\ writerUp' = FALSE /\ sending' = NoMsg
    /\ \/ "send" \in Faults /\ (PeerCloses \/ CloseConnection("internal_error"))
       \/ "slow" \in Faults /\ CloseConnection("policy_violation")
    /\ UNCHANGED <<writerRest, outgoing, delivered>>

WriterCancelled ==
    /\ writerUp /\ main = "finally"
    /\ writerUp' = FALSE /\ sending' = NoMsg
    /\ UNCHANGED <<writerRest, outgoing, delivered, closeVars>>

-----------------------------------------------------------------------------
(* events() and _event_source *)

EventEmits ==
    /\ ~Admitting /\ ~Cancelling
    /\ events = "running" /\ nevents < MaxEvents
    /\ nevents' = nevents + 1
    /\ IF QueueFull
         THEN events' = "putting" /\ UNCHANGED outgoing
         ELSE outgoing' = Append(outgoing, EventMsg) /\ UNCHANGED events
    /\ UNCHANGED <<eventRest, sending, writerUp, delivered, closeVars>>

EventPuts ==
    /\ ~Admitting /\ ~Cancelling
    /\ events = "putting" /\ ~QueueFull
    /\ outgoing' = Append(outgoing, EventMsg)
    /\ events' = "running"
    /\ UNCHANGED <<eventRest, sending, writerUp, delivered, nevents, closeVars>>

EventTooSlow ==
    /\ "slow" \in Faults /\ ~Admitting /\ ~Cancelling
    /\ events = "putting"
    /\ events' = "running"
    /\ CloseConnection("policy_violation")
    /\ UNCHANGED <<eventRest, queueVars, nevents>>

\* The sources completed (close_when_events_complete decides whether that closes
\* the connection) or one failed.
EventsEnd ==
    /\ ~Admitting /\ ~Cancelling
    /\ events = "running"
    /\ events' = "stopped"
    /\ \/ UNCHANGED closeVars
       \/ \E code \in EventCodes : CloseConnection(code)
    /\ UNCHANGED <<eventRest, queueVars, nevents>>

\* A cancelled source has run its cleanup.
EventsCancelled ==
    /\ ~Admitting /\ events = "cancelled"
    /\ events' = "stopped"
    /\ UNCHANGED <<eventRest, queueVars, nevents, closeVars>>

CancelEvents == events' = IF events = "stopped" THEN "stopped" ELSE "cancelled"

-----------------------------------------------------------------------------
(* The serving task *)

MainWakes ==
    /\ ~Admitting /\ main = "serving" /\ closeEvent
    /\ main' = "gathering"
    /\ reader' = "stopped" /\ CancelEvents
    /\ UNCHANGED <<mainRest, cur, nevents, closeVars, interrupted, gaveUp,
                   closeFrame>>

\* gather() of producers, collectors and calls is complete; their own done
\* callbacks were registered earlier and have run.
CollectorsJoined ==
    reader = "stopped" /\ events = "stopped" /\ LiveCollectors = {}

TasksJoined ==
    /\ reader = "stopped" /\ events = "stopped"
    /\ \A c \in Call : call[c].task \in {"none", "retired"}
    /\ LiveCollectors = {}

FlushCodes == {"normal", "shutdown"}

MainGathered ==
    /\ main = "gathering" /\ TasksJoined
    /\ main' = IF closeCode \in FlushCodes /\ ~interrupted
                 THEN "flushing" ELSE "finally"
    /\ UNCHANGED <<mainRest, readerVars, eventVars, closeVars, interrupted,
                   gaveUp, closeFrame>>

\* _flush: the queue was joined or the writer ended.
QueueEmpty == outgoing = <<>> \/ ~writerUp
Flushed == (outgoing = <<>> /\ sending = NoMsg) \/ ~writerUp

MainFlushed ==
    /\ main = "flushing" /\ Flushed
    /\ main' = "finally"
    /\ UNCHANGED <<mainRest, readerVars, eventVars, closeVars, interrupted,
                   gaveUp, closeFrame>>

MainFlushTimeout ==
    /\ "slow" \in Faults /\ main = "flushing"
    /\ main' = "finally" /\ gaveUp' = TRUE
    /\ UNCHANGED <<mainRest, readerVars, eventVars, closeVars, interrupted,
                   closeFrame>>

\* The finally blocks: everything is joined, then the close frame is sent unless
\* the peer is gone. An outside cancellation without a cause is a shutdown.
MainCloses ==
    /\ main = "finally" /\ TasksJoined /\ ~writerUp
    /\ main' = "closed"
    /\ closeCode' = IF closeCode = NoCode THEN "shutdown" ELSE closeCode
    /\ closeFrame' = IF clientClosed THEN NoCode ELSE closeCode'
    /\ UNCHANGED <<mainRest, readerVars, eventVars, closeEvent, clientClosed,
                   interrupted, gaveUp>>

\* The serving task is cancelled: the wait for the close event and the flush
\* stop at once, the gather completes first.
InterruptMain ==
    /\ main # "closed"
    /\ interrupted' = TRUE
    /\ main' = IF main = "gathering" THEN main ELSE "finally"
    /\ reader' = "stopped" /\ CancelEvents

ServingCancelled ==
    /\ "interrupt" \in Faults /\ ~Admitting /\ InterruptMain
    /\ UNCHANGED <<mainRest, cur, nevents, closeVars, gaveUp, closeFrame>>

\* RpcConnection.close, called by application code, and the expiry timer.
ConnectionCloses(code) ==
    /\ ~Admitting /\ main # "closed"
    /\ CloseConnection(code)
    /\ UNCHANGED <<writerRest, queueVars>>

-----------------------------------------------------------------------------
(* RpcDrain as seen by the connection, and graceful() *)

StartDraining ==
    /\ "drain" \in Faults /\ ~Admitting /\ ~draining
    /\ draining' = TRUE
    /\ UNCHANGED <<drainRest, readerVars, eventVars, closeVars, graceful, gwait>>

GracefulBegins ==
    /\ ~Admitting /\ draining /\ graceful = "idle" /\ main # "closed"
    /\ graceful' = "events" /\ CancelEvents
    /\ UNCHANGED <<drainRest, readerVars, nevents, closeVars, draining, gwait>>

GracefulWaitsTasks ==
    /\ ~Admitting /\ graceful = "events" /\ events = "stopped"
    /\ graceful' = "tasks" /\ gwait' = LiveCollectors
    /\ UNCHANGED <<drainRest, readerVars, eventVars, closeVars, draining>>

Waited == gwait \cap LiveCollectors = {}

GracefulStopsReader ==
    /\ ~Admitting /\ graceful = "tasks" /\ Waited
    /\ reader' = "stopped"
    /\ graceful' = "reader" /\ gwait' = LiveCollectors
    /\ UNCHANGED <<drainRest, cur, eventVars, closeVars, draining>>

GracefulFlushes ==
    /\ ~Admitting /\ graceful = "reader" /\ Waited
    /\ graceful' = "flush"
    /\ UNCHANGED <<drainRest, readerVars, eventVars, closeVars, draining, gwait>>

GracefulCloses ==
    /\ ~Admitting /\ graceful = "flush" /\ Flushed
    /\ graceful' = "done"
    /\ CloseConnection("service_restart")
    /\ UNCHANGED <<drainRest, readerVars, eventVars, draining, gwait>>

\* _DrainSession.stop after the grace period; graceful() itself is cancelled.
DrainStops ==
    /\ "stop" \in Faults /\ ~Admitting /\ draining /\ InterruptMain
    /\ closeCode' = IF closeCode = NoCode THEN "service_restart" ELSE closeCode
    /\ graceful' = "done"
    /\ UNCHANGED <<cur, callVars, collVars, queueVars, nevents, closeEvent,
                   clientClosed, gaveUp, closeFrame, draining, gwait>>

-----------------------------------------------------------------------------
\* Nothing is left to do: the connection closed, or it waits for its client.
Quiet ==
    /\ main = "serving" /\ reader = "receiving" /\ ~closeEvent
    /\ \A c \in Call : call[c].task \in {"none", "retired"}
    /\ LiveCollectors = {} /\ outgoing = <<>> /\ sending = NoMsg

Terminated == (main = "closed" \/ Quiet) /\ UNCHANGED vars

ReaderNext ==
    \/ ReceiveFrame \/ ItemPing \/ EndFrame
    \/ \E k \in Ids : ItemCancel(k)
    \/ \E i \in Items : ItemRequest(i) \/ ItemRefused(i)
    \/ ReceiveUnusable \/ ReceiveFatal \/ ReceiveDisconnect

CallNext(c) ==
    \/ CallStart(c) \/ CallDropped(c) \/ CallFinish(c) \/ CallInterrupted(c)
    \/ CallLeaksCancel(c) \/ CallFails(c) \/ CallDone(c)

CollectorNext(f) ==
    \/ \E c \in Call : CollectorRaises(f, c)
    \/ CollectorFails(f) \/ CollectorUnwound(f) \/ CollectorResponds(f)
    \/ CollectorPuts(f) \/ CollectorTooSlow(f) \/ CollectorCancelled(f)
    \/ CollectorDone(f)

WriterNext == WriterTakes \/ WriterSends \/ WriterFails \/ WriterCancelled

EventsNext ==
    EventEmits \/ EventPuts \/ EventTooSlow \/ EventsEnd \/ EventsCancelled

MainNext ==
    \/ MainWakes \/ MainGathered \/ MainFlushed \/ MainFlushTimeout
    \/ MainCloses \/ ServingCancelled
    \/ \E code \in AppCodes : ConnectionCloses(code)

DrainNext ==
    \/ StartDraining \/ GracefulBegins \/ GracefulWaitsTasks
    \/ GracefulStopsReader \/ GracefulFlushes \/ GracefulCloses \/ DrainStops

Next ==
    \/ ReaderNext
    \/ \E c \in Call : CallNext(c)
    \/ \E f \in Frame : CollectorNext(f)
    \/ WriterNext \/ EventsNext \/ MainNext \/ DrainNext
    \/ Terminated

Spec == Init /\ [][Next]_vars

\* Steps only some configurations bound. request_timeout is None by default, so a
\* handler or middleware that nobody cancelled may run for ever, and so may a send
\* without a send_timeout ("slow").
CancelledCallEnds(c) == Interrupted(c) /\ (CallFinish(c) \/ CallInterrupted(c))
CollectorRuns(f) == (Cancelling \/ ~RunsMiddleware(f)) /\ CollectorNext(f)
BoundedSend == "slow" \in Faults /\ (WriterSends \/ WriterFails)

\* asyncio runs every ready task. User code and event sources end once they are
\* cancelled, sends once their timeout expired. What the client, the application
\* and the drain deadline do is not fair, nor that a handler returns. Weak fairness
\* is enough: a step that the reader disables while it admits a frame stays
\* enabled otherwise.
Fairness ==
    /\ WF_vars(Admitting /\ ReaderNext)
    /\ \A c \in Call :
         /\ WF_vars(CallStart(c)) /\ WF_vars(CallDropped(c))
         /\ WF_vars(CancelledCallEnds(c)) /\ WF_vars(CallDone(c))
    /\ \A f \in Frame : WF_vars(CollectorRuns(f))
    /\ WF_vars(WriterTakes) /\ WF_vars(BoundedSend)
    /\ WF_vars(EventPuts \/ EventTooSlow) /\ WF_vars(EventsCancelled)
    /\ WF_vars(MainWakes) /\ WF_vars(MainGathered) /\ WF_vars(MainCloses)
    /\ WF_vars(WriterCancelled) /\ WF_vars(MainFlushed \/ MainFlushTimeout)
    /\ WF_vars(GracefulWaitsTasks) /\ WF_vars(GracefulStopsReader)
    /\ WF_vars(GracefulFlushes) /\ WF_vars(GracefulCloses)

FairSpec == Spec /\ Fairness

-----------------------------------------------------------------------------
(* Properties *)

ReaderType ==
    /\ reader \in {"receiving", "admitting", "stopped"}
    /\ cur \in [items : SUBSET Call, ctrl : Controls, size : 0..MaxBatch]
CallType ==
    /\ call \in [Call -> CallRecord] /\ ncalls \in 0..MaxCalls
    /\ reservations \subseteq Call /\ requests \in [Ids -> Call \cup {NoCall}]
CollType == coll \in [Frame -> CollRecord] /\ nframes \in 0..MaxFrames
QueueType ==
    /\ outgoing \in Seq(Msg) /\ sending \in Msg \cup {NoMsg}
    /\ writerUp \in BOOLEAN /\ delivered \subseteq Msg
EventType ==
    /\ events \in {"running", "putting", "cancelled", "stopped"}
    /\ nevents \in 0..MaxEvents
CloseType ==
    /\ closeEvent \in BOOLEAN /\ closeCode \in Codes \cup {NoCode}
    /\ clientClosed \in BOOLEAN
MainType ==
    /\ main \in {"serving", "gathering", "flushing", "finally", "closed"}
    /\ interrupted \in BOOLEAN /\ gaveUp \in BOOLEAN
    /\ closeFrame \in Codes \cup {NoCode}
DrainType ==
    /\ draining \in BOOLEAN /\ gwait \subseteq Frame
    /\ graceful \in {"idle", "events", "tasks", "reader", "flush", "done"}

\* Every variable has its type: the state of _run_rpc_endpoint and of the tasks
\* it owns.
TypeOK ==
    /\ ReaderType /\ CallType /\ CollType /\ QueueType /\ EventType /\ CloseType
    /\ MainType /\ DrainType

InFlight(c) == call[c].task \in {"ready", "running", "finished"}

\* requests holds exactly the in-flight calls that have an id, each under its own
\* id: a cancel control reaches the call it names and never a later one, two
\* in-flight calls never share an id, and an id is free again once call_done ran.
RegistryExact ==
    /\ \A k \in Ids : requests[k] # NoCall =>
          call[requests[k]].id = k /\ InFlight(requests[k])
    /\ \A c \in Call : InFlight(c) /\ call[c].id \in Ids =>
          requests[call[c].id] = c

\* Admission capacity is neither exceeded nor leaked: every unfinished admitted
\* call holds its own reservation, nothing else holds one once call_done ran, and
\* there are at most max_pending_requests.
PendingExact ==
    /\ \A c \in Call : call[c].reserved /\ call[c].task \in {"ready", "running"} =>
          c \in reservations
    /\ \A c \in reservations : call[c].reserved /\ InFlight(c)
    /\ Cardinality(reservations) <= MaxPending

\* Responses waiting to be collected and messages waiting to be sent stay within
\* max_pending_requests + max_queue_size and max_queue_size.
BacklogBounded ==
    /\ Cardinality(LiveCollectors) <= MaxPending + MaxQueue
    /\ Len(outgoing) <= MaxQueue

Passed(f) ==
    \/ f \in delivered \/ f = sending
    \/ \E n \in DOMAIN outgoing : outgoing[n] = f

Owes(f) == coll[f].ctrl # "none" \/ \E c \in coll[f].items : call[c].owes

Leaked(f) == \E c \in coll[f].items : call[c].outcome = "leaked"

\* While the connection stays open no owed response disappears: a collector that
\* ended has passed its message on, whatever mix of cancellation before or after
\* the start, batch siblings, refusals and a full queue it met. The one exception
\* is a handler that raises CancelledError by itself.
NoResponseLost ==
    \A f \in Frame :
        coll[f].st = "done" /\ Owes(f) /\ ~Leaked(f) =>
            Passed(f) \/ closeEvent \/ Cancelling

\* docs/protocol.md: calls with an id receive a result or a structured error.
\* Stated for a connection that is open and healthy.
CallsReceiveAnswer ==
    \A f \in Frame :
        coll[f].st = "done" /\ Owes(f) => Passed(f) \/ closeEvent \/ Cancelling

\* graceful() closes with SERVICE_RESTART only after every call that owes an
\* answer, calls refused during the drain included, has been answered on the wire.
\* A peer that is gone may have closed with 1012 itself.
DrainAnswersAll ==
    closeEvent /\ closeCode = "service_restart" /\ ~interrupted /\ ~clientClosed =>
        \A c \in Call : call[c].task # "none" /\ call[c].owes =>
            \/ \E f \in delivered \cap Frame : c \in coll[f].items
            \/ \E f \in Frame : c \in coll[f].items /\ Leaked(f)

\* The close frame is sent only when no task of the connection is left: no call
\* runs, holds capacity or an id, and no collector or writer can still send.
ClosedMeansJoined ==
    main = "closed" =>
        /\ reader = "stopped" /\ ~writerUp /\ sending = NoMsg
        /\ \A c \in Call : call[c].task \in {"none", "retired"}
        /\ \A f \in Frame : coll[f].st \in {"none", "done"}
        /\ reservations = {} /\ \A k \in Ids : requests[k] = NoCall

\* docs/connections-and-events.md: a NORMAL or SHUTDOWN close, the peer's own 1000
\* and 1001 included, first sends what is queued: when the writer is cancelled the
\* queue is empty and the message it took last has been sent. Only a broken writer,
\* the flush timeout or an outside cancellation leaves messages behind.
NormalCloseFlushes ==
    main = "finally" /\ closeCode \in {"normal", "shutdown"} /\ closeEvent =>
        (outgoing = <<>> /\ sending = NoMsg) \/ ~writerUp \/ gaveUp \/ interrupted

\* The first close cause is kept, is the one the peer is told, and a peer that
\* closed first is not sent a close frame.
FirstCauseKept ==
    [][/\ closeEvent => closeEvent' /\ closeCode' = closeCode
       /\ closeCode # NoCode => closeCode' # NoCode
       /\ main' = "closed" /\ main # "closed" =>
            closeFrame' = IF clientClosed THEN NoCode ELSE closeCode']_vars

FrameSettled(f) ==
    \/ f \in delivered \/ closeEvent \/ Cancelling
    \/ coll[f].st = "done" /\ (~Owes(f) \/ Leaked(f))

\* The frame waits for user code nobody cancelled: a handler, or middleware.
HeldByUser(f) ==
    \/ RunsMiddleware(f)
    \/ \E c \in coll[f].items : call[c].task = "running" /\ ~Interrupted(c)

\* A frame that got a collector is answered on the wire unless the connection is
\* closing, nothing was owed, a handler leaked a cancellation, or user code of its
\* own never returns. No interleaving of cancellation, refusal, a full queue, the
\* writer and another frame's stuck handler leaves it waiting, and once the client
\* cancels its stuck handler it settles.
EveryFrameSettles ==
    \A f \in Frame :
        coll[f].st = "collecting" ~> FrameSettled(f) \/ []HeldByUser(f)

\* Once a close is requested the endpoint finishes, whoever asked and whatever
\* calls (handlers that would never return included), collectors, events and
\* flushes are still under way, given a send_timeout and code that ends when it is
\* cancelled.
CloseCompletes == closeEvent ~> main = "closed"

=============================================================================
