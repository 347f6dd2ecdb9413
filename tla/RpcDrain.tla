-------------------------------- MODULE RpcDrain --------------------------------
(***************************************************************************)
(* RpcDrain of rpckit/drain.py, the shared shutdown coordinator, and the      *)
(* connections it drains: each is a task that registers a _DrainSession, is   *)
(* prepared and accepted (rpckit/runtime.py, _prepare and _accepted), serves, *)
(* and unregisters. JSON-RPC endpoints install graceful() as begin; binary    *)
(* streams and raw sockets have none and may only finish by themselves.       *)
(*                                                                         *)
(* Abstractions: what graceful() does inside an endpoint is RpcRuntime; here  *)
(* it is one step that may take for ever. A connection's own close stands for *)
(* the peer, application code and the expiry timer. Timeouts may fire whenever*)
(* they are awaited.                                                         *)
(***************************************************************************)
EXTENDS FiniteSets

CONSTANTS
    Sessions,  \* connections that may be opened
    Rpc,       \* the ones on JSON-RPC endpoints
    Stubborn,  \* the ones whose cleanup ignores cancellation
    Callers    \* tasks that call drain()

ASSUME DrainAssumption == Rpc \subseteq Sessions /\ Stubborn \subseteq Sessions

VARIABLES
    serve,     \* where the task of each connection is
    sessions,  \* _sessions
    ready,     \* sessions whose ready event is set
    code,      \* connection._close_code
    told,      \* what the client was told when the connection ended
    cancelled, \* tasks that were cancelled
    again,     \* tasks that were cancelled once more at the deadline
    drainTask, \* _task: "none", "created", "grace", "cleanup", "done"
    snapshot,  \* the sessions _drain works on
    finish,    \* the task of finish() per session
    caller     \* drain() callers: "idle", "waiting", "returned", "cancelled"

serveVars == <<serve, sessions, ready, code, told>>
drainVars == <<drainTask, snapshot, finish, cancelled, again>>
vars == <<serveVars, drainVars, caller>>

Init ==
    /\ serve = [s \in Sessions |-> "new"] /\ sessions = {} /\ ready = {}
    /\ code = [s \in Sessions |-> "none"] /\ told = [s \in Sessions |-> "nothing"]
    /\ cancelled = {} /\ again = {}
    /\ drainTask = "none" /\ snapshot = {}
    /\ finish = [s \in Sessions |-> "none"]
    /\ caller = [c \in Callers |-> "idle"]

Draining == drainTask # "none"
Finished(s) == serve[s] = "ended"
HasConnection(s) ==
    serve[s] \in {"preparing", "accepting", "starting", "serving", "closing"}
Accepted(s) == serve[s] \in {"starting", "serving", "closing"}

-----------------------------------------------------------------------------
(* One connection *)

\* _session: a draining coordinator rejects, otherwise the task is registered.
NeverRefuses == FALSE
Refuses == Draining

Enter(s) ==
    /\ serve[s] = "new"
    /\ IF Refuses
         THEN /\ serve' = [serve EXCEPT ![s] = "refused"]
              /\ told' = [told EXCEPT ![s] = "unavailable"]
              /\ UNCHANGED sessions
         ELSE /\ serve' = [serve EXCEPT ![s] = "entered"]
              /\ sessions' = sessions \cup {s}
              /\ UNCHANGED told
    /\ UNCHANGED <<ready, code, drainVars, caller>>

\* _prepare begins: the session gets its connection; what is not JSON-RPC has
\* nothing to begin and is ready.
Prepare(s) ==
    /\ serve[s] = "entered" /\ s \notin cancelled
    /\ serve' = [serve EXCEPT ![s] = "preparing"]
    /\ ready' = IF s \in Rpc THEN ready ELSE ready \cup {s}
    /\ UNCHANGED <<sessions, code, told, drainVars, caller>>

\* The rest of _prepare: its own rejections, then the second look at draining.
Prepared(s) ==
    /\ serve[s] = "preparing" /\ s \notin cancelled
    /\ \/ serve' = [serve EXCEPT ![s] = "leaving"]
          /\ told' = [told EXCEPT ![s] = "rejected"]
       \/ IF Draining
            THEN /\ serve' = [serve EXCEPT ![s] = "leaving"]
                 /\ told' = [told EXCEPT ![s] = "unavailable"]
            ELSE serve' = [serve EXCEPT ![s] = "accepting"] /\ UNCHANGED told
    /\ UNCHANGED <<sessions, ready, code, drainVars, caller>>

\* socket.accept returns, or the peer is gone.
Accept(s) ==
    /\ serve[s] = "accepting" /\ s \notin cancelled
    /\ \E next \in {"starting", "leaving"} : serve' = [serve EXCEPT ![s] = next]
    /\ UNCHANGED <<sessions, ready, code, told, drainVars, caller>>

\* The endpoint's tasks run; a JSON-RPC endpoint installs begin and is ready.
Start(s) ==
    /\ serve[s] = "starting" /\ s \notin cancelled
    /\ serve' = [serve EXCEPT ![s] = "serving"]
    /\ ready' = ready \cup {s}
    /\ UNCHANGED <<sessions, code, told, drainVars, caller>>

\* request_close by the connection itself, or a start that failed or expired.
\* stop() sets a code without a close event, so a close that comes before the
\* cancellation of a serving task is delivered still counts.
ClosesItself(s) ==
    /\ serve[s] = "serving" \/ (serve[s] = "starting" /\ s \notin cancelled)
    /\ serve' = [serve EXCEPT ![s] = "closing"]
    /\ code' = [code EXCEPT ![s] = "own"]
    /\ UNCHANGED <<sessions, ready, told, drainVars, caller>>

\* CancelledError: a connection that was not accepted yet just goes away, an
\* accepted one is torn down.
CancelDelivered(s) ==
    /\ s \in cancelled
    /\ serve[s] \in {"entered", "preparing", "accepting", "starting", "serving"}
    /\ serve' = [serve EXCEPT ![s] = IF Accepted(s) THEN "closing" ELSE "leaving"]
    /\ UNCHANGED <<sessions, ready, code, told, drainVars, caller>>

\* The close frame is sent, unless the second cancellation interrupts it, and the
\* finally of _session ends the session.
CloseCode(s) == IF code[s] = "none" THEN "shutdown" ELSE code[s]

Unregister(s) == sessions \ {s}

Leave(s) ==
    /\ serve[s] \in {"leaving", "closing"}
    /\ serve' = [serve EXCEPT ![s] = "ended"]
    /\ sessions' = Unregister(s) /\ ready' = ready \cup {s}
    /\ \/ serve[s] = "leaving" /\ UNCHANGED told
       \/ serve[s] = "closing" /\ told' = [told EXCEPT ![s] = CloseCode(s)]
       \/ serve[s] = "closing" /\ s \in again /\ UNCHANGED told
    /\ UNCHANGED <<code, drainVars, caller>>

-----------------------------------------------------------------------------
(* drain(), _drain() and finish() *)

\* The first caller creates the shared task, the others join it.
Drain(c) ==
    /\ caller[c] = "idle"
    /\ caller' = [caller EXCEPT ![c] = "waiting"]
    /\ drainTask' = IF drainTask = "none" THEN "created" ELSE drainTask
    /\ UNCHANGED <<serveVars, snapshot, finish, cancelled, again>>

\* shield(): the caller goes, the drain goes on.
CallerCancelled(c) ==
    /\ caller[c] = "waiting"
    /\ caller' = [caller EXCEPT ![c] = "cancelled"]
    /\ UNCHANGED <<serveVars, drainVars>>

Return(c) ==
    /\ caller[c] = "waiting" /\ drainTask = "done"
    /\ caller' = [caller EXCEPT ![c] = "returned"]
    /\ UNCHANGED <<serveVars, drainVars>>

DrainStarts ==
    /\ drainTask = "created"
    /\ drainTask' = "grace" /\ snapshot' = sessions
    /\ finish' = [s \in Sessions |-> IF s \in sessions THEN "ready" ELSE "none"]
    /\ UNCHANGED <<serveVars, cancelled, again, caller>>

FinishReady(s) ==
    /\ finish[s] = "ready" /\ s \in ready
    /\ finish' = [finish EXCEPT ![s] = CASE Finished(s) -> "done"
                                         [] ~Finished(s) /\ s \in Rpc -> "begin"
                                         [] OTHER -> "finished"]
    /\ UNCHANGED <<serveVars, drainTask, snapshot, cancelled, again, caller>>

\* begin(): graceful() closes the connection, unless something closed it already.
FinishBegins(s) ==
    /\ finish[s] = "begin"
    /\ finish' = [finish EXCEPT ![s] = "finished"]
    /\ IF serve[s] = "serving"
         THEN /\ serve' = [serve EXCEPT ![s] = "closing"]
              /\ code' = [code EXCEPT ![s] = "service_restart"]
         ELSE UNCHANGED <<serve, code>>
    /\ UNCHANGED <<sessions, ready, told, drainTask, snapshot, cancelled, again,
                   caller>>

FinishDone(s) ==
    /\ finish[s] = "finished" /\ Finished(s)
    /\ finish' = [finish EXCEPT ![s] = "done"]
    /\ UNCHANGED <<serveVars, drainTask, snapshot, cancelled, again, caller>>

\* stop(): a connection that has a cause keeps it.
StopNamesNothing(s) == FALSE
StopNames(s) == HasConnection(s) /\ code[s] = "none"

\* The sessions _drain stops when the grace period is over.
ReadyUnfinished == {s \in snapshot \cap ready : ~Finished(s)}
Unfinished == {s \in snapshot : ~Finished(s)}

\* asyncio.wait(grace) returned: everything finished, or nine tenths of the budget
\* are used up. finish() tasks are cancelled too.
GraceOver ==
    /\ drainTask = "grace"
    /\ drainTask' = "cleanup"
    /\ cancelled' = cancelled \cup Unfinished
    /\ code' = [s \in Sessions |-> IF s \in Unfinished /\ StopNames(s)
                                     THEN "service_restart" ELSE code[s]]
    /\ finish' = [s \in Sessions |-> IF s \in snapshot THEN "done" ELSE finish[s]]
    /\ UNCHANGED <<serve, sessions, ready, told, snapshot, again, caller>>

\* All tasks ended, or the deadline cancels the rest once more and returns.
NoDeadline == \A s \in snapshot : Finished(s)
Deadline == TRUE

CleanupOver ==
    /\ drainTask = "cleanup" /\ Deadline
    /\ drainTask' = "done"
    /\ cancelled' = cancelled \cup Unfinished
    /\ again' = Unfinished
    /\ UNCHANGED <<serveVars, snapshot, finish, caller>>

Terminated ==
    /\ \A s \in Sessions : serve[s] \in {"ended", "refused"}
    /\ drainTask = "done"
    /\ UNCHANGED vars

SessionNext(s) ==
    \/ Enter(s) \/ Prepare(s) \/ Prepared(s) \/ Accept(s) \/ Start(s)
    \/ ClosesItself(s) \/ CancelDelivered(s) \/ Leave(s)
    \/ FinishReady(s) \/ FinishBegins(s) \/ FinishDone(s)

CallerNext(c) == Drain(c) \/ CallerCancelled(c) \/ Return(c)

Next ==
    \/ \E s \in Sessions : SessionNext(s)
    \/ \E c \in Callers : CallerNext(c)
    \/ DrainStarts \/ GraceOver \/ CleanupOver \/ Terminated

Spec == Init /\ [][Next]_vars

\* The coordinator's task runs and its timers fire; a cancellation is delivered and
\* cooperative cleanup ends. Handshakes, handlers and graceful() may hang.
Fairness ==
    /\ WF_vars(DrainStarts) /\ WF_vars(GraceOver) /\ WF_vars(CleanupOver)
    /\ \A c \in Callers : WF_vars(Return(c))
    /\ \A s \in Sessions : WF_vars(CancelDelivered(s))
    /\ \A s \in Sessions \ Stubborn : WF_vars(Leave(s))

FairSpec == Spec /\ Fairness

-----------------------------------------------------------------------------
\* Every part of the coordinator and of its sessions has its type, and a session
\* is registered exactly while its task is between entering and ending.
TypeOK ==
    /\ serve \in [Sessions -> {"new", "refused", "entered", "preparing", "accepting",
                               "starting", "serving", "closing", "leaving", "ended"}]
    /\ sessions = {s \in Sessions : serve[s] \notin {"new", "refused", "ended"}}
    /\ ready \subseteq Sessions /\ snapshot \subseteq Sessions
    /\ cancelled \subseteq Sessions /\ again \subseteq cancelled
    /\ code \in [Sessions -> {"none", "own", "service_restart"}]
    /\ told \in [Sessions -> {"nothing", "rejected", "unavailable", "shutdown", "own",
                              "service_restart"}]
    /\ drainTask \in {"none", "created", "grace", "cleanup", "done"}
    /\ finish \in [Sessions -> {"none", "ready", "begin", "finished", "done"}]
    /\ caller \in [Callers -> {"idle", "waiting", "returned", "cancelled"}]

\* No connection slips past the drain: whatever is registered once _drain has
\* looked at _sessions was in its snapshot, handshakes under way included.
NobodyMissed == drainTask \in {"grace", "cleanup", "done"} => sessions \subseteq snapshot

\* When drain() returns, every connection that was ever registered has ended or
\* its task has been cancelled: none is left serving undisturbed.
ReturnMeansSettled ==
    (\E c \in Callers : caller[c] = "returned") => sessions \subseteq cancelled

\* docs/connections-and-events.md: drained connections close with SERVICE_RESTART
\* and other causes are preserved. An accepted connection that ended was told its
\* own cause or the restart, never a bare shutdown, whatever the deadline cut off.
RestartTold == \A s \in Sessions : told[s] # "shutdown"

\* A cause the connection had before the drain reached it is never replaced.
OwnCausePreserved == [][\A s \in Sessions : code[s] = "own" => code'[s] = "own"]_vars

\* drain() returns for every caller that keeps waiting, although handlers,
\* handshakes, graceful() and cleanup may hang.
DrainReturns ==
    \A c \in Callers : caller[c] = "waiting" ~> caller[c] \in {"returned", "cancelled"}

=============================================================================
