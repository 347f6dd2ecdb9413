-------------------------- MODULE RequestExecution --------------------------
(***************************************************************************)
(* One request of a connection, from admission to its response: the        *)
(* deadline, the middleware scopes, the concurrency slot, the resolver      *)
(* scope and the handler of RpcServer._run_bounded, with every await a     *)
(* point where the deadline, a client's cancellation or the end of the     *)
(* connection may interrupt the task. Calls, notifications and the          *)
(* handshakes of SubscriptionSession.handle share the slots. User code may  *)
(* also raise CancelledError by itself, which no except Exception catches.  *)
(* Middleware is identified by its position in the chain.                   *)
(***************************************************************************)
EXTENDS Naturals, Sequences, FiniteSets, SequencesExt

CONSTANTS
    Calls,          \* requests with an id that name a method
    Notifications,  \* requests without one
    Handshakes,     \* subscribe and unsubscribe requests
    Timed,          \* requests whose method or limits have a timeout
    HandlerErrors,  \* what a handler or a resolver may raise
    StrictErrors,   \* strict_errors
    MaxConcurrency, \* limits.max_concurrency
    Chain,          \* number of middleware
    MaxRequests,    \* bound on the requests started in one behaviour
    MaxCancels      \* bound on the requests cancelled or leaking, deadlines aside

Requests == Calls \cup Notifications \cup Handshakes

ASSUME RequestsAssumption == Notifications \cap Handshakes = {}
ASSUME ChainAssumption == Chain \in Nat
ASSUME ConcurrencyAssumption == MaxConcurrency \in Nat \ {0}
ASSUME HandlerAssumption ==
    HandlerErrors \subseteq {"builtin", "declared", "undeclared", "unmapped"}

VARIABLES
    task,    \* the state of each request's task
    slots,   \* requests that hold the semaphore
    sent,    \* responses put on the wire for each request, in order
    closed   \* connection.close_code is set

vars == <<task, slots, sent, closed>>

Position == 1..Chain

\* What an await of the task may be interrupted with: "client" is a cancellation
\* that carries _CLIENT_CANCEL, "other" one that does not.
Interrupts == {"client", "other"}
Responses == {"success", "builtin", "declared", "undeclared", "internal",
              "timeout", "cancelled"}
None == "none"

TaskRecord ==
    [pc : {"new", "entering", "queued", "opening", "handling", "responding",
           "closing", "exiting", "over"},
     at : 1..Chain + 1,                       \* next middleware to enter
     entered : Seq(Position), left : Seq(Position), exited : Seq(Position),
     cancel : Interrupts \cup {None, "mixed"}, \* cancellations not delivered yet
     asked : BOOLEAN, killed : BOOLEAN,       \* the client, the close cancelled it
     leaked : BOOLEAN,                        \* its user code raised CancelledError
     expired : BOOLEAN,                       \* waiting.expired()
     resolver : BOOLEAN,                      \* the resolver scope is open
     result : Responses \cup Interrupts \cup {None}, \* what the handler ended with
     value : Responses \cup {None},           \* the operation's own response
     raised : Interrupts \cup {None},         \* error of _middleware_scope
     interrupted : Interrupts \cup {None},    \* interrupted of _middleware_scope
     observed : BOOLEAN, response : Responses \cup {None}, \* set by on_error
     told : Responses \cup {None},            \* scope.outcome.response
     responded : BOOLEAN]                     \* the handshake was answered

NewTask ==
    [pc |-> "new", at |-> 1, entered |-> <<>>, left |-> <<>>, exited |-> <<>>,
     cancel |-> None, asked |-> FALSE, killed |-> FALSE, leaked |-> FALSE,
     expired |-> FALSE, resolver |-> FALSE, result |-> None, value |-> None, raised |-> None,
     interrupted |-> None, observed |-> FALSE,
     response |-> None, told |-> None, responded |-> FALSE]

Init ==
    /\ task = [r \in Requests |-> NewTask]
    /\ slots = {}
    /\ sent = [r \in Requests |-> <<>>]
    /\ closed = FALSE

Owes(r) == r \notin Notifications
InTask(r) == task[r].pc \notin {"new", "over"}

\* A suspended task runs on when nothing interrupts it.
Ready(r, pc) == task[r].pc = pc /\ task[r].cancel = None

-----------------------------------------------------------------------------
(* Responses *)

\* _failure_response: a notification gets none.
Failure(r, kind) == IF Owes(r) THEN kind ELSE None

\* _rpc_error: an error that no binding or mapper translates, and in strict mode
\* one that the method does not declare, leaves as an internal error.
RpcError(kind) ==
    IF kind = "unmapped" \/ (StrictErrors /\ kind = "undeclared")
      THEN "internal" ELSE kind

\* interruption(): the deadline is reported first, and a client's cancellation
\* only while the connection is open.
Interruption(q, m) ==
    IF q.expired THEN "timeout"
    ELSE IF m = "client" /\ ~closed THEN "cancelled" ELSE None

\* on_error of _run_bounded.
OnError(r, q, m) ==
    LET failure == Interruption(q, m) IN
    IF failure = None THEN q
    ELSE [q EXCEPT !.observed = TRUE,
                   !.response = Failure(r, failure),
                   !.told = Failure(r, failure)]

\* What _run_bounded returns once every scope was left.
VerdictLast(r, q) ==
    LET m == IF q.raised # None THEN q.raised ELSE q.interrupted
        failure == Interruption(q, m)
    IN  IF m = None THEN q.value
        ELSE IF failure = None THEN None
        ELSE Failure(r, failure)

Verdict(r, q) ==
    LET m == IF q.raised # None THEN q.raised ELSE q.interrupted
        failure == Interruption(q, m)
    IN  IF m = None THEN q.value
        ELSE IF failure = None THEN None
        ELSE IF q.observed THEN q.response ELSE Failure(r, failure)

\* SubscriptionSession.handle drops a verdict that comes after the handshake.
AnswerAlways(r, q) == Verdict(r, q)
Answer(r, q) == IF q.responded THEN None ELSE Verdict(r, q)

\* The task goes on with the next middleware to leave, or returns.
Proceed(r, q) ==
    IF q.left # <<>>
      THEN /\ task' = [task EXCEPT ![r] = [q EXCEPT !.pc = "exiting"]]
           /\ sent' = sent
      ELSE /\ task' = [task EXCEPT ![r] = [q EXCEPT !.pc = "over"]]
           /\ sent' = [sent EXCEPT ![r] =
                         IF Answer(r, q) = None THEN @ ELSE Append(@, Answer(r, q))]

\* The body of the request scope ended with its response, or with an interrupt.
Leaving(q) == [q EXCEPT !.left = Reverse(q.entered)]
Returned(r, value) ==
    Proceed(r, [Leaving(task[r]) EXCEPT !.value = value, !.told = value,
                                        !.result = None, !.resolver = FALSE])
Raised(r, m, q) == Proceed(r, OnError(r, [Leaving(q) EXCEPT !.raised = m], m))

-----------------------------------------------------------------------------
(* The task *)

\* _run_bounded up to the first middleware; the deadline counts from admission.
Start(r) ==
    /\ task[r].pc = "new" /\ ~closed
    /\ Cardinality({x \in Requests : task[x].pc # "new"}) < MaxRequests
    /\ task' = [task EXCEPT ![r].pc = IF Chain = 0 THEN "queued" ELSE "entering"]
    /\ UNCHANGED <<slots, sent, closed>>

\* A middleware whose enter raises is logged and left out of the chain.
EnterMiddleware(r) ==
    /\ Ready(r, "entering")
    /\ \E entered \in {task[r].entered, Append(task[r].entered, task[r].at)} :
          task' = [task EXCEPT ![r].entered = entered,
                               ![r].at = @ + 1,
                               ![r].pc = IF task[r].at = Chain THEN "queued"
                                                               ELSE "entering"]
    /\ UNCHANGED <<slots, sent, closed>>

\* self._semaphore: the slot, then _dispatch_request or the handshake.
SlotFree == Cardinality(slots) < MaxConcurrency

Acquire(r) ==
    /\ Ready(r, "queued") /\ SlotFree
    /\ slots' = slots \cup {r}
    /\ task' = [task EXCEPT ![r].pc = IF r \in Handshakes THEN "handling"
                                                          ELSE "opening"]
    /\ UNCHANGED <<sent, closed>>

\* parse_request refuses the envelope, the method or the params.
Reject(r) ==
    /\ Ready(r, "queued") /\ SlotFree /\ r \notin Handshakes
    /\ Returned(r, Failure(r, "builtin"))
    /\ UNCHANGED <<slots, closed>>

\* The resolver's enter_scope.
OpenScope(r) ==
    /\ Ready(r, "opening")
    /\ \/ /\ task' = [task EXCEPT ![r].pc = "handling", ![r].resolver = TRUE]
          /\ UNCHANGED <<slots, sent>>
       \/ \E e \in HandlerErrors :
             /\ Returned(r, Failure(r, RpcError(e)))
             /\ slots' = slots \ {r}
    /\ UNCHANGED closed

\* The dependencies are resolved, the function returns or raises, and its result
\* is validated; either way the resolver scope is left next.
Handle(r) ==
    /\ Ready(r, "handling") /\ r \notin Handshakes
    /\ \E result \in {"success"} \cup {RpcError(e) : e \in HandlerErrors} :
          task' = [task EXCEPT ![r].result = result, ![r].pc = "closing"]
    /\ UNCHANGED <<slots, sent, closed>>

\* Leaving the scope passes on an interrupt that was thrown into the handler; if it
\* raises instead, what it raised replaces the result, and the interrupt too.
CloseScope(r) ==
    /\ Ready(r, "closing")
    /\ slots' = slots \ {r}
    /\ \/ /\ task[r].result \in Interrupts
          /\ Raised(r, task[r].result, [task[r] EXCEPT !.resolver = FALSE,
                                                       !.result = None])
       \/ /\ task[r].result \notin Interrupts
          /\ Returned(r, Failure(r, task[r].result))
       \/ \E e \in HandlerErrors : Returned(r, Failure(r, RpcError(e)))
    /\ UNCHANGED closed

\* SubscriptionSession._handle up to _respond: the outcome is recorded before the
\* response is sent.
HandshakeDecided(r) ==
    /\ Ready(r, "handling") /\ r \in Handshakes
    /\ \E response \in {"success", "builtin"} :
          task' = [task EXCEPT ![r].told = response, ![r].pc = "responding"]
    /\ UNCHANGED <<slots, sent, closed>>

\* The queue takes the response and _responded is set without an await between.
HandshakeAnswered(r) ==
    /\ Ready(r, "responding")
    /\ slots' = slots \ {r}
    /\ LET q == [Leaving(task[r]) EXCEPT !.responded = TRUE] IN
       /\ task' = [task EXCEPT ![r] =
                     [q EXCEPT !.pc = IF q.left = <<>> THEN "over" ELSE "exiting"]]
       /\ sent' = [sent EXCEPT ![r] = Append(@, q.told)]
    /\ UNCHANGED closed

\* One __aexit__ of _middleware_scope ends, normally or with a logged exception.
LeftOne(q) == [q EXCEPT !.left = Tail(@), !.exited = Append(@, Head(q.left))]

ExitMiddleware(r) ==
    /\ Ready(r, "exiting")
    /\ Proceed(r, LeftOne(task[r]))
    /\ UNCHANGED <<slots, closed>>

-----------------------------------------------------------------------------
(* Interruptions *)

\* Task.cancel: of two cancellations that were not delivered either may be the one
\* whose message the task sees.
Cancelled(q, m) == [q EXCEPT !.cancel = IF @ \in {None, m} THEN m ELSE "mixed"]
Delivered(q) == IF q.cancel = "mixed" THEN Interrupts ELSE {q.cancel}

Count(flag) == Cardinality({r \in Requests : task[r][flag]})
MoreCancels == Count("asked") + Count("killed") + Count("leaked") < MaxCancels

\* timeout_at: the deadline passes while the task is inside the block.
DeadlineOfHandler(r) ==
    /\ r \in Timed /\ r \in slots /\ ~task[r].expired
    /\ task' = [task EXCEPT ![r] = [Cancelled(@, "other") EXCEPT !.expired = TRUE]]
    /\ UNCHANGED <<slots, sent, closed>>

Deadline(r) ==
    /\ r \in Timed /\ InTask(r) /\ ~task[r].expired
    /\ task' = [task EXCEPT ![r] = [Cancelled(@, "other") EXCEPT !.expired = TRUE]]
    /\ UNCHANGED <<slots, sent, closed>>

\* $/cancelRequest reaches the call once.
ClientCancel(r) ==
    /\ r \in Calls \cup Handshakes /\ InTask(r) /\ ~task[r].asked /\ MoreCancels
    /\ task' = [task EXCEPT ![r] = [Cancelled(@, "client") EXCEPT !.asked = TRUE]]
    /\ UNCHANGED <<slots, sent, closed>>

\* The connection records its close code; its tasks are cancelled later, one by one.
ConnectionClose ==
    /\ ~closed /\ closed' = TRUE
    /\ UNCHANGED <<task, slots, sent>>

CloseCancels(r) ==
    /\ closed /\ InTask(r) /\ ~task[r].killed /\ MoreCancels
    /\ task' = [task EXCEPT ![r] = [Cancelled(@, "other") EXCEPT !.killed = TRUE]]
    /\ UNCHANGED <<slots, sent, closed>>

\* q is the task without the cancellation it is interrupted with. Raised while a
\* middleware is entered, while the task waits for a slot, while the resolver scope
\* is opened or left, or while a handshake waits.
InterruptScope(r, m, q) ==
    /\ \/ q.pc \in {"entering", "queued", "opening", "closing", "responding"}
       \/ q.pc = "handling" /\ r \in Handshakes
    /\ slots' = slots \ {r}
    /\ Raised(r, m, [q EXCEPT !.resolver = FALSE, !.result = None])

HandlerEnds(r, q, result) ==
    /\ q.pc = "handling" /\ r \notin Handshakes
    /\ task' = [task EXCEPT ![r] = [q EXCEPT !.result = result, !.pc = "closing"]]
    /\ UNCHANGED <<slots, sent>>

\* Thrown into the handler, which ends with it or returns a result all the same.
InterruptHandler(r, m, q) == \E result \in {m, "success"} : HandlerEnds(r, q, result)

\* Raised in an exit: the others are still left, and it counts unless the scope is
\* already failing.
InterruptExitStops(r, m, q) ==
    /\ q.pc = "exiting"
    /\ LET x == [LeftOne(q) EXCEPT !.left = <<>>] IN
         Proceed(r, IF x.raised # None THEN x
                    ELSE OnError(r, [x EXCEPT !.interrupted = m], m))
    /\ UNCHANGED slots

InterruptExit(r, m, q) ==
    /\ q.pc = "exiting"
    /\ LET x == LeftOne(q) IN
         Proceed(r, IF x.raised # None THEN x
                    ELSE OnError(r, [x EXCEPT !.interrupted = m], m))
    /\ UNCHANGED slots

Interrupt(r) ==
    /\ InTask(r) /\ task[r].cancel # None
    /\ LET q == [task[r] EXCEPT !.cancel = None] IN
       \E m \in Delivered(task[r]) :
          InterruptScope(r, m, q) \/ InterruptHandler(r, m, q) \/ InterruptExit(r, m, q)
    /\ UNCHANGED closed

\* A middleware, the resolver or the handler raises CancelledError uninvited: neither
\* _dispatch_request nor _middleware_scope takes it for a failure of user code, and
\* _run_bounded finds no interruption to report and raises it again.
Leak(r) ==
    /\ task[r].cancel = None /\ (task[r].leaked \/ MoreCancels)
    /\ LET q == [task[r] EXCEPT !.leaked = TRUE] IN
       \/ q.pc \in {"entering", "opening", "closing"} /\ InterruptScope(r, "other", q)
       \/ HandlerEnds(r, q, "other")
       \/ InterruptExit(r, "other", q)
    /\ UNCHANGED closed

Terminating ==
    /\ \A r \in Requests : task[r].pc \in {"new", "over"}
    /\ closed /\ UNCHANGED vars

Step(r) ==
    \/ Start(r) \/ EnterMiddleware(r) \/ Acquire(r) \/ Reject(r) \/ OpenScope(r)
    \/ Handle(r) \/ CloseScope(r) \/ HandshakeDecided(r) \/ HandshakeAnswered(r)
    \/ ExitMiddleware(r) \/ Deadline(r) \/ ClientCancel(r) \/ CloseCancels(r)
    \/ Interrupt(r) \/ Leak(r)

Next == (\E r \in Requests : Step(r)) \/ ConnectionClose \/ Terminating

Spec == Init /\ [][Next]_vars

\* The event loop delivers cancellations and fires deadlines; a middleware or a
\* handler that is not interrupted may wait forever, but leaving a scope ends.
Fairness ==
    \A r \in Requests :
       /\ WF_vars(Deadline(r)) /\ WF_vars(Interrupt(r))
       /\ WF_vars(ExitMiddleware(r)) /\ WF_vars(CloseScope(r))

FairSpec == Spec /\ Fairness

-----------------------------------------------------------------------------
TypeOK ==
    /\ task \in [Requests -> TaskRecord]
    /\ slots \subseteq Requests
    /\ sent \in [Requests -> Seq(Responses)]
    /\ closed \in BOOLEAN

\* A request is answered at most once, whatever the deadline, the client, the
\* connection and a handshake that has already answered do, and exactly once when
\* its task ends on an open connection, unless user code of that request raised
\* CancelledError by itself; a notification is never answered.
AnsweredOnce ==
    \A r \in Requests :
       /\ Len(sent[r]) <= (IF Owes(r) THEN 1 ELSE 0)
       /\ task[r].pc = "over" /\ Owes(r) /\ ~closed /\ ~task[r].leaked =>
             Len(sent[r]) = 1

\* However often a task is interrupted, and however often its user code raises
\* CancelledError by itself, it leaves every middleware it entered, last entered
\* first, and gives back its slot and its resolver scope before the first.
ScopesBalanced ==
    \A r \in Requests :
       /\ task[r].pc = "over" => task[r].exited = Reverse(task[r].entered)
       /\ r \in slots <=> task[r].pc \in {"opening", "handling", "responding",
                                          "closing"}
       /\ task[r].resolver => r \in slots

\* The outcome the outermost middleware is shown names the response that the client
\* gets, on an open connection: they agree on who won the race between the result,
\* the deadline and the cancellation. (A handshake that answered first is told of a
\* later interruption of its middleware; one middleware's own CancelledError takes
\* back an answer the others were told of.)
OutcomeIsTheAnswer ==
    \A r \in Requests :
       task[r].pc = "over" /\ ~closed /\ ~task[r].responded /\ ~task[r].leaked =>
          sent[r] = IF task[r].told = None THEN <<>> ELSE <<task[r].told>>

\* A request with a deadline ends, even if its middleware, the handler that holds the
\* slot it waits for, or its own handler never returns by itself.
DeadlineEnds ==
    \A r \in Timed : InTask(r) ~> task[r].pc = "over"
=============================================================================
