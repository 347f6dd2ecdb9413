# A TLA+ verification of rpckit

rpckit serves typed JSON-RPC, binary streams and raw sockets over WebSockets and
generates Python and TypeScript clients for them. Three parts of it are hard to get
right and hard to test: what happens on one live connection, where dozens of asyncio
tasks share ids, capacity, a queue and one close cause; what a generated client does
when its connections break while calls are under way; and the way from declarations
over a frozen protocol and a contract document to a client on disk. This project
models these parts, checks them with TLC on small instances and proves every safety
property the passing runs check with TLAPS, for every value of the constants.

All paths below are under `src/`.

## Inventory

| Component | Source | State | Operations | Modelled in |
|---|---|---|---|---|
| JSON-RPC connection runtime | `rpckit/runtime.py` `_run_rpc_endpoint`, `_flush`, `_event_source`, `_PendingRequests` | in-flight `requests`, `reservations`, call tasks, response collectors (`tasks`), `outgoing`, close event and cause | admit a frame item by item, run a call, collect and queue a response, write, emit events, close, drain | `RpcRuntime` |
| Request execution, middleware, dependency scopes | `rpckit/server.py`, `dispatch.py`, `middleware.py`, `dependencies.py` | deadline, slot, entered middleware, resolver scope, scope outcome | `_run_bounded`, `_request_scope`, `_middleware_scope`, `_dispatch_request` | `RequestExecution` |
| Connected client | `rpckit/connected_client.py` | `_pending` futures, semaphore, `_closed` | `call`, `_resolve`, `_close` | `ConnectedClient` |
| Subscriptions | `rpckit/subscriptions.py` | `_tasks`, `_pending_subscriptions`, the answered handshake | subscribe, unsubscribe, stream, `close`, `wait_finished` | `SubscriptionSession`, `RequestExecution` |
| Graceful drain | `rpckit/drain.py`, `_prepare` and `_accepted` of `runtime.py` | `_sessions`, the shared task, `ready`/`finished` events, close code | `drain`, `_drain`, `finish`, `stop`, `_session` | `RpcDrain` |
| Binary streams, raw sockets, connection handle | `rpckit/runtime.py` from line 896, `streams.py`, `raw_sockets.py`, `connection.py` | expiry timer, start-up task, close cause, handler and reader tasks, input queue, generator, resolver scopes | accept, serve, expire, `close`, cancel, join, leave | `EndpointServing` |
| Definitions | `rpckit/channel.py`, `protocol.py`, `service.py`, `errors.py` | declarations and protocol of each channel, endpoints, the service's protocol | decorate, `child`, `socket`, `stream`, `raw_socket`, `freeze`, `match` | `Declarations`, `ServiceDefinition` |
| Schema export | `rpckit/contract.py`, `schema/` | the document | `contract`, `render_openrpc` | `ContractDocument` |
| Code generator | `rpckit/codegen/` | output directory, manifest | read a document, lay out the client's names, write, `--check` | `ContractDocument`, `ClientGeneration`, `ContractPipeline` |
| Generated Python client | `examples/generated_clients/python/automation_client/`, an instance of `rpckit/codegen/templates/python/` | pending calls, transports, pool, retry loop | `request`, connect, reconnect, retry, close | `ClientCalls`, `CallPromise` |
| Generated TypeScript client, FastAPI adapter, telemetry, wire format, test helpers | rest | | | not modelled |

How they interact: the reader of a connection hands each item to the connected
client (`_resolve`), to `cancel_request`, to the ping control, or to a new call task.
A call task runs the subscription handshakes or the server. All producers (collectors,
events, subscriptions, connected client) put into one queue through `send_outgoing`,
which closes the connection when it times out. Every close goes through
`request_close`, which also fails the connected client's calls. `RpcDrain` reaches
into a connection through `begin` (`graceful()`) and `stop()`. The first connection, or
`contract()`, freezes the service; the generator sees only the document.

What is hard here, and therefore what the properties are about: a task that is
cancelled before it starts; done callbacks that run one turn of the loop later than
the event that caused them; a batch that fails in the middle; snapshots of task sets
that grow while they are awaited; the first of several close causes; two cancellations
on the way to one task; timeouts that race with the thing they wait for; a retry of
what was already done; a definition that fails half-way; a generator that is killed
between two files. `PROJECT.json` lists each hazard at its line.

## Modules

asyncio switches tasks only at an `await`, so one TLA+ action is the code of one task
between two awaits. The reader of `RpcRuntime` handles a whole frame without awaiting;
it is split into an action per item, and every other action is disabled while a frame
is being admitted, which keeps the frame atomic. A timeout may fire whenever its await
is pending. Cancellation is delivered when the task next runs.

### `RpcRuntime` (with `MCRpcRuntime`)

* `ReceiveFrame`, `ItemPing`, `ItemCancel`, `ItemRequest`, `ItemRefused`, `EndFrame`,
  `ReceiveUnusable`, `ReceiveFatal`, `ReceiveDisconnect`: `reader()`.
* `CallStart`, `CallDropped`, `CallFinish`, `CallInterrupted`, `CallLeaksCancel`,
  `CallFails`, `CallDone`: `invoke_one`, what `RpcServer` lets out of it, `call_done`.
* `CollectorResponds`, `CollectorPuts`, `CollectorTooSlow`, `CollectorRaises`,
  `CollectorFails`, `CollectorUnwound`, `CollectorCancelled`, `CollectorDone`:
  `collect_one`, `invoke`, `respond`, `invocation_done`.
* `Writer...`, `Event...`: `writer()`, `events()`, `_event_source`.
* `MainWakes` to `MainCloses`, `ServingCancelled`, `ConnectionCloses`: the serving
  task and `RpcConnection.close`.
* `StartDraining`, `Graceful...`, `DrainStops`: `graceful()` and `_DrainSession.stop`.

`PeerCloses` is what `RpcDisconnect` makes of the client's close code: 1000 and 1001 are
NORMAL and SHUTDOWN (`connection.py:43`), after which the serving task flushes as it does
for a close of its own; the other codes are one, "other".

A frame is the set of its items; an item is whether it has an id, expects an answer
and is valid. A response is the number of the frame it answers. Subscriptions and
client methods have modules of their own and are absent here.

### `ConnectedClient`

One `RpcConnectedClient`. `call()` is `Begin`, `Acquire`, `SendSettles` and one of
`Answered`, `TimesOut`, `CallerCancelled`; the send task is `Sent` or `SendTooSlow`;
`Resolve` and `Close` are the reader and `request_close`. The client may answer any
registered id at any time, again and again, or never.

### `SubscriptionSession`

Subscribe and unsubscribe handshakes, one task per subscription, the drain's
`wait_finished` and the endpoint's `close`. `Admit` and `AdmitUnsubscribe` are the reader,
which refuses what arrives during a drain; a handshake that was admitted before the drain
may reach the session after it (`runtime.py:548`). `out` is the order of messages in the
outgoing queue. Generators may end, fail, run for ever or swallow their cancellation.

### `RpcDrain`

Any number of connections, each from `_session` over `_prepare`, `accept` and start to
its end, against the shared drain task and its callers. What `graceful()` does inside
one connection is `RpcRuntime`'s; here it is one step that may never come.

### `RequestExecution`

One task per request through `_run_bounded`: `Start`, `EnterMiddleware`, `Acquire` (or
`Reject`), `OpenScope`, `Handle`, `CloseScope`, `ExitMiddleware`; a subscription
handshake is `HandshakeDecided` and `HandshakeAnswered`. `Deadline`, `ClientCancel` and
`CloseCancels` ask for an interruption, `Interrupt` delivers it at whatever await the
task is in. Python shows a task the message of one of two cancellations that were not
delivered yet; the model lets it be either. `told` is the outcome the middleware see,
`sent` what the client gets. `Leak` is user code (a middleware, a resolver, the handler)
that raises `CancelledError` although nobody asked: `except Exception` does not catch it
(`server.py:267`), `_run_bounded` finds no interruption to report and raises it again
(`server.py:177`), and the task ends without an answer. A handler or a resolver fails
with one of four kinds of error, which `RpcError` translates as `_rpc_error` does.

### `EndpointServing`

One connection of a generator stream, of a stream with input and output ("push"), or of
a raw socket, from `_prepare` to the end of `_accepted`. The phases of the serving task
are its awaits; the handler and the reader are tasks of their own. `Expire` is the
credential expiry, which cancels the start-up task while no close handler is installed;
`CancelServing` is any other cancellation. `AfterAccepted`, `OnlyExpiry` and
`RepeatExpiry` are the three places where the code sorts one from the other.

### `ClientCalls` and `CallPromise`

`CallPromise` is what `docs/clients.md` promises a caller: one outcome, never revised; a
call executes at most once unless its route is idempotent; `sent=False` means that it
was not executed. `ClientCalls` is the code: the retry loop of `RpcClientCore`, the pool
with its shared connect task, reconnects and done callbacks, one transport per
connection with its reader and its close, and a server that executes whatever reached
it, at any time or never, also after the connection is gone. `Promise == INSTANCE
CallPromise WITH` maps the state of a call's task to its outcome, and `KeepsPromise` is
the refinement. A timeout meets a call that connects, sends or waits, since
`retry_attempt_timeout` covers the wait for the connection (`core.py:385`). A call that
leaves its transport ends in one step, although the code first awaits `_retire` and the
close of the socket: that await changes nothing the promise is about.

### `Declarations`, `ServiceDefinition`, `ContractDocument`, `ClientGeneration`, `ContractPipeline`

`Declarations` holds the checks on one declaration: the shape of the function, its
parameters and annotations, its errors. `ServiceDefinition` is the state: decorators are
made and applied in two steps, channels have children, endpoints mount channels, streams
and raw sockets, and `freeze()` runs through them in order and may raise anywhere,
leaving the channels it has frozen. Two of its ways to raise are about names:
definitions of one name, and events whose messages are pinned to one `type` literal, on
one channel or on two that one service serves (`SameType`, `protocol.py:174`).
`ContractDocument` writes the document and says when `render_openrpc` or `build_ir`
refuses it (types that only occur in the details of an error are left out); `Reachable`
is the generator's worklist over types, checked against the closure the writer uses.
`ClientGeneration` lays out the public names (`View`, under `api_root` and aliases;
`Identifier` and `ApiClass` are the attribute and the class that a name gets), states
what `_validate` refuses, and models the writer file by file: truncate, write, manifest,
remove stale files; `Kill` may strike between any two and `Touch` edits a file between
generations. `ContractPipeline` composes them as `rpckit generate` does. What recurses
in the code (`RpcChannel.freeze` over children, `RpcService.freeze` over endpoints, the
inherited errors, the worklist over types) is a recursive function here, so that it can
be proved about.

### Proof modules

`RpcRuntime_proofs`, `ConnectedClient_proofs`, `RpcDrain_proofs`,
`SubscriptionSession_proofs`, `RequestExecution_proofs`, `EndpointServing_proofs`,
`ClientCalls_proofs` and `ContractPipeline_proofs` hold the theorems, each about the
module it is named after; the last one also about the modules `ContractPipeline` extends.

## Runs

| Run | Question | Result |
|---|---|---|
| `runtime_calls` | Can any mix of batches, pings, cancels, duplicate ids, refusals and failing handlers corrupt the id registry, leak capacity, lose a response or outgrow the collectors and the queue? | no |
| `runtime_close` | With every source of a close racing the others: is anything left behind, is a message that was queued, or taken by the writer and not sent yet, dropped by a NORMAL or SHUTDOWN close, the client's 1000 and 1001 included? | no |
| `runtime_live` | Does a drain announce SERVICE_RESTART before every owed answer is on the wire; does every frame settle that its own user code does not hold for ever, and does every close end? | no; yes |
| `runtime_leak` | Do calls always receive an answer, as `docs/protocol.md` says? | no, see below |
| `request` | Is a request answered twice or not at all, a scope left open, the middleware told something else than the client, a deadline missed? | no, but for the same leak |
| `endpoints` | Is an accepted stream or raw socket left open, or a task, generator or scope behind it; is the expiry's cancellation confused with another; does serving always end? | no; it ends |
| `connected_client` | Can answers, timeouts, cancellations and a close leak a permit or an id, replace an outcome, send a stale request or strand a caller? | no |
| `subscription_order` | Limit, order of the stream, drain and silence after the close | hold |
| `subscription_live` | Are unsubscribes answered and closes completed although generators do not end? | yes |
| `drain` | Is a connection missed, told the wrong cause, or left; does `drain()` always return? | no; it returns |
| `client_calls` | Does the client keep `CallPromise`; is a caller stranded, a connection forgotten or left open by `close()`? | yes; no |
| `pipeline` | Is every operation served once, does a failed freeze stay failed, can the generator read what the service wrote, are public names distinct, does a generation repair whatever was killed or edited before it? | yes, with the exceptions named below |

`runtime_leak` is a disagreement between code and documentation. A handler that raises
`asyncio.CancelledError` although nobody cancelled its call is not distinguishable for
`collect_one` from a cancellation by the endpoint: the collector ends as cancelled and
`invocation_done` ignores it. The call, and in a batch all its siblings, get no answer
while the connection stays open. `NoResponseLost` states everything that does hold and
names this one exception. `RequestExecution` has the same case one level down: `leaked`
marks a request whose user code raised `CancelledError` by itself, and "exactly one answer"
in `AnsweredOnce` and the agreement in `OutcomeIsTheAnswer` except it, while at most one
answer, `ScopesBalanced` and `DeadlineEnds` hold for it too.

### What the properties had to except

Each of these is a behaviour of the code that the first form of a property ran into.

* A decorator checks that its channel is mutable when it is made (`channel.py:104`) and
  not when it meets its function: a declaration applied after the freeze is accepted and
  never served (`late` in `OperationsServedOnce`).
* `assert_unique_names` compares a namespace of the client by the last segment of its
  source (`python.py:1102`): a root operation and a namespace that `api_root` brought to
  the top under the same name pass for one source (`Overlooked`).
* An alias renames a namespace for its methods and events and not for its streams
  (`client_view`, `names.py:177`, only strips the root). Both names have one source, so neither
  `assert_unique_names` nor `_assert_unique_package_exports` compares them, although the
  alias may be another spelling of the identifier the streams keep (the second case of
  `Overlooked`). The proof of `PublicNamesDistinct` found it; the option `p -> P` of the
  run, with two names of one identifier, shows it.
* `api_view` refuses two namespaces of methods that are shown as one (`names.py:117`);
  `event_view` and `client_view` do not look, and `_merge_nodes` joins by the visible segment
  whatever it is given (`names.py:378`). So `api_root` and aliases may bring two namespaces
  of the contract to one attribute of the client without a word if not both of them have
  methods (`Joined`). `PublicNamesDistinct` compares namespaces by their source in the
  contract, not by where they are shown, so that such a merge counts.
* A generation killed with files on disk that its manifest does not list, new files
  before the manifest is whole or stale ones after the old manifest is gone, leaves files
  that no later manifest lists and `--check` never reports (`writer.py:36`; `Forgotten`,
  the `disturbed` case of `RegenerationExact`). A kill at any other moment is repaired.
* A handshake of a subscription that has answered is told of a later interruption of its
  middleware (`responded` in `OutcomeIsTheAnswer`).
* A push stream whose handler sends after the close cause was set gets `RpcDisconnect`,
  which the runner takes for the client's disconnect: no close frame follows
  (`streams.py:113`, `runtime.py:1057`), although `docs/connections-and-events.md:428`
  says all endpoint types close with `credentials_expired` (`clientClosed` in
  `AcceptedIsClosed`).
* The `sent` flag of a lost call is the last attempt's (`core.py:300`). An idempotent
  call whose first attempt was sent and whose second one was not is reported as
  `sent=False`, which `docs/clients.md:492` explains as never sent; `CallPromise` excepts
  idempotent calls.
* An event or subscription whose payload is a union without a name freezes but cannot be
  rendered, so a service may start that has no contract (`Unwritable` in
  `ContractReadable`).

### Bounds and why they are enough

Limits are 1 where the code only compares against the limit, so that full and free
states are both reached with few tasks.

* `RpcRuntime`: two frames of up to two items let a call end, its id be reused and a
  batch have a sibling; three frames on a limit of two collectors let one be refused; one
  id and id-less items cover registered and unregistered, valid and invalid items. Runs
  split the faults (`Faults`, `AppCodes`, `EventCodes`, `PeerCodes`) because each question
  needs some of them; the theorems cover all at once. `runtime_close` needs one call beside
  the close; `runtime_live` two calls in frames of one item, so that one frame has to settle
  while the handler of the other never returns, with neither events nor peer closes.
* `ConnectedClient`: three calls on two permits make one wait. `SubscriptionSession`: two
  subscriptions and two unsubscribes let two unsubscribes race for one subscription and a
  subscribe meet the limit. `RpcDrain`: three connections hold each kind, JSON-RPC,
  JSON-RPC with cleanup that ignores cancellation, and binary.
* `RequestExecution`: two requests on one slot make one wait for the other; two
  middleware make an order of leaving; two cancellations besides the deadlines let a
  second one arrive while the first unwinds. Only the call has a deadline (`Timed`), so it
  has to end while it waits for a slot that a notification or a handshake never gives back.
* `EndpointServing`: two cancellations from outside and the expiry interrupt the serving
  task up to three times, once in every teardown phase; two frames on a queue of one make
  the reader wait.
* `ClientCalls`: an idempotent and an ordinary call with one retry each, two connections
  (one to lose, one to replace it), one cancel control on the wire.
* `ContractPipeline`: eleven declarations, of which a behaviour uses three, and six mounts,
  of which it uses two, were chosen so that names clash across channels, kinds and levels,
  two events share a notification type, errors share a code, and templates overlap. Every
  conflict is between two declarations; the third is the one that is added after a failure,
  or late. `MaxOpen` decorators are pending at once.
  The options strip a root, rename a namespace, or alias it to another spelling of its name.
  Two generations let the second one meet what a killed or edited first one left.

`MaxCalls`, `MaxFrames`, `MaxEvents`, `MaxNotes`, `MaxRequests`, `MaxCancels`,
`MaxTransports`, `MaxDecls`, `MaxMounts`, `MaxOpen` and `MaxGenerations` bound only the
length of behaviours. No symmetry is used.

### Fairness

The event loop runs every ready task: weak fairness for each task's own steps, and no
more than that where user code or the network is concerned.

* `RpcRuntime`. `request_timeout` is `None` by default (`connection.py:191`) and the client
  may be silent, so nothing says that a handler returns: only a call that was cancelled is
  assumed to end (`CancelledCallEnds`), a middleware that sees a failure only when the
  connection closes (`CollectorRuns`), an event source once it is cancelled.
  `EveryFrameSettles` therefore ends in "answered, or held for ever by user code of its own
  that nobody cancelled" (`HeldByUser`): what it excludes is a frame that waits for anything
  else, another frame's stuck handler included. `CloseCompletes` needs no such exception, as
  a close cancels. `send_timeout` may be `None` as well; sends are fair only where "slow" is
  among the faults, that is with a `send_timeout` (`BoundedSend`), which `runtime_live` has.
  Without one, a client that stops reading keeps its frame and its close waiting.
* `ConnectedClient`: a call resumes once what it awaits is done; a waiter for a permit gets
  strong fairness, since asyncio's semaphore is FIFO. Neither an answer, nor a timeout, nor
  room in the queue is assumed.
* `SubscriptionSession`: the endpoint's tasks, and a generator ends once it is cancelled. A
  message that waits for room gets it or times out, which takes a client that reads or a
  `send_timeout`. In the live run no generator swallows its cancellation, since one that
  does so for ever is never over.
* `RpcDrain`: the coordinator's task and timers, the delivery of cancellation and
  cooperative cleanup; handshakes, `graceful()` and the `Stubborn` connections may hang.
* `RequestExecution`: deadlines, the delivery of cancellation and the leaving of scopes; a
  middleware or a handler may wait for ever until it is interrupted.
* `EndpointServing`: the serving task, the expiry timer and the end of a cancelled task.
  Fairness of the serving task does assume that `accept`, `reject` and `close` of the socket,
  the `before_accept` hook, the scopes, `aclose()` of the generator and the middleware
  return; it assumes nothing of the client, the reader, or a handler nobody cancelled.

The moment at which a drain, a close or a cancellation comes is never fair. `runtime_live`
drops faults rather than assuming them away: with `handler` faults the leak above would
only add its own exception. `ClientCalls` and `ContractPipeline` state safety and refinement
only.

## Proofs

| Module | Theorem | Statement |
|---|---|---|
| `RpcRuntime_proofs` | `TypeCorrect` | `Spec => []TypeOK` |
| | `RegistryCorrect`, `PendingCorrect` | `RegistryExact`, `PendingExact` |
| | `CloseCauseCorrect` | `Spec => FirstCauseKept`: the first close cause is kept and told |
| | `CloseJoins` | `ClosedMeansJoined` |
| | `BacklogCorrect` | `BacklogBounded` |
| | `NormalCloseCorrect` | `NormalCloseFlushes` |
| | `ResponsesInvariant`, `ResponsesKept` | `ResponsesInv`, `NoResponseLost` |
| | `DrainAnswersCorrect` | `DrainAnswersAll`, if the application does not itself close with SERVICE_RESTART |
| `ConnectedClient_proofs` | `ClientTypeCorrect`, `ClientNothingLeaks`, `ClientCloseFailsPending` | the invariants |
| | `ClientFirstAnswerStands`, `ClientNoStaleRequest` | the action properties |
| `RpcDrain_proofs` | `DrainTypeCorrect`, `DrainMissesNobody`, `DrainSettles`, `DrainTellsRestart` | the invariants |
| | `DrainPreservesCause` | `Spec => OwnCausePreserved`: a drain replaces no cause |
| `SubscriptionSession_proofs` | `SessionInvariant`, `SessionLimitHeld`, `SessionStreamOrder` | `SessionInv`, `LimitHeld`, `StreamOrder` |
| | `DrainFinishes`, `ClosedIsSilent` | `DrainFinishesSubscriptions`, `ClosedSessionIsSilent` |
| `RequestExecution_proofs` | `ExecutionInvariant`, `ExecutionAnsweredOnce` | `ExecutionInv`, `AnsweredOnce` |
| | `ExecutionScopesBalanced`, `ExecutionOutcomeIsTheAnswer` | `ScopesBalanced`, `OutcomeIsTheAnswer` |
| `EndpointServing_proofs` | `EndpointInvariant`, `EndpointAcceptedIsClosed` | `EndpointInv`, `AcceptedIsClosed` |
| | `EndpointNothingLeft`, `EndpointCancellationKept` | `NothingLeft`, `CancellationKept` |
| `ClientCalls_proofs` | `ClientInvariant`, `ClientNobodyStranded` | `ClientInv`, `NobodyStranded` |
| | `ClientForgetsNoConnection`, `ClientClosedReleases` | `NoConnectionForgotten`, `ClosedReleases` |
| | `ClientKeepsPromise` | `Spec => KeepsPromise`: the refinement of `CallPromise` |
| `ContractPipeline_proofs` | `PipelineInvariant` | `PipelineInv` |
| | `OperationsServedOnceCorrect`, `FailureIsFinalCorrect` | `OperationsServedOnce`, `FailureIsFinal` |
| | `ContractReadableCorrect`, `PublicNamesDistinctCorrect` | `ContractReadable`, `PublicNamesDistinct` |
| | `RegenerationExactCorrect` | `RegenerationExact` |
| | `FreezeOutcome`, `ServiceOutcome` | what `RpcChannel.freeze` and `RpcService.freeze` leave behind |
| | `WorklistEnds`, `ClientDeclares` | the generator's worklist ends, closed, and finds every type |

The theorems assume what the modules state about their constants, which TLC evaluates in
every run: `LimitsAssumption`, `ItemsAssumption`, `FaultsAssumption` and
`CodesAssumption` of `RpcRuntime`, `ClientAssumption` of `ConnectedClient` and of
`ClientCalls`, `DrainAssumption`, `SubscriptionAssumption`, `RequestsAssumption`,
`ChainAssumption`, `ConcurrencyAssumption` and `HandlerAssumption` of
`RequestExecution`, the four of `EndpointServing`, and `DeclarationAssumption`,
`DefinitionAssumption`, `GenerationAssumption` and `PipelineAssumption` of the modules
under `ContractPipeline`. They say that limits are positive naturals, that close codes
are `RpcConnectionClose` values, that a notification is not a subscription handshake,
and so on; of the definitions, that there are finitely many channels and types, that a
child's namespace extends its parent's, that a member of a union is no union, that a
mounted stream or raw socket is one declaration, that the written contract is none of
the client's files, and that every name has an identifier. `DrainAnswersCorrect` alone
has a hypothesis of its own, since `RpcConnection.close` takes any code and
`DrainAnswersAll` is about the drain's.

The strengthened invariants were checked with TLC on the instances of the runs as well.

* **Admission.** `RegistryExact` and `PendingExact` are inductive together with
  `Fresh` (numbers above `ncalls` are unused), which shows that a new call collides
  with nothing. The lemma `CallSteps` reduces the forty-odd actions to three cases:
  a call is created, a call is retired, or `CallsKept` describes the step.
* **Close cause.** `FirstCauseKept` rests on `CauseKnown`: a set close event has a
  cause. `CloseSteps` gives the shapes a step can have for the close variables.
* **Closed means joined.** `Joined` holds from the moment the last join succeeded;
  together with `Admission` it gives that no capacity and no id is left.
* **Backlog.** `CollectorSteps` and `QueueSteps`: a collector or a message is added one
  at a time and only when there is room.
* **Normal close.** `Woken` says why the serving task left its wait, which rules out
  that a close cause arrives after the choice between flushing and not flushing. From the
  flush to the end of the writer nothing is put into the queue, since every producer has
  been joined, so what the flush saw (`Flushed`: queue empty and nothing taken) stays.
* **No response lost.** The property is far from inductive. `ResponsesInv` adds `Apart`
  (a call belongs to one frame: otherwise a failing batch could kill a sibling of
  another one), `Outcomes` (why a call can be cancelled while the connection is open),
  `Unkilled` (a collector that still collects has no killed call) and `Tracked` (what a
  collector that is unwinding or ended has done with its response). `RaisesForCause` and
  `NoResponseNoDebt` are the two arguments about the code: a cancellation that reaches a
  collecting frame is one that `collect_one` answers, and a frame without a response
  owes none.
* **Drain answers all.** `Covered` (on an open connection every call has its frame) and
  `DrainOrder` (once `graceful()` stopped the reader, the collectors it waits for are all
  there are) reduce it to `NoResponseLost` at the moment of the close; afterwards a
  stopped reader adds no call.
* **Connected client.** `Accounted` adds to the properties that calls not made yet are
  idle and that a request is only being sent for a call that waits for it. Permits are
  counted with the cardinality of `_pending`.
* **Drain coordinator.** `Settled`: after the grace period every unfinished session of
  the snapshot has been cancelled, and a caller only returns when the task is done.
  `Caused`: a cause of its own belongs to a connection that is closing, and a connection that is
  closing or cancelled has a cause, so no bare SHUTDOWN can be sent.
* **Subscriptions.** The order of the queue is inductive with `QueueFollowsTask`, which
  ties what is queued to where the task is; the drain needs `StopsHaveAReason`, the
  close `PhasesEmptySession`. `MayQueue` is the one condition under which appending a
  message keeps the order, and every action that appends is shown to meet it.
* **Request execution.** `RequestOK` is about one request's record, its responses and
  the close alone, so a step of one request cannot disturb another; only `SlotsMatch`
  relates them. It says for each phase what is entered, held, told and sent, and where a
  cancellation came from; a request whose user code leaked one is exempt from the parts
  that connect its outcome with its answer, and from no other.
* **Endpoints.** `TeardownOrder` says what each phase of the serving task may still
  hold; an interruption jumps to a phase whose condition is already met.
  `CancellationsTraced` follows a cancellation from its request over its delivery to the
  end of the task.
* **Generated client.** `NobodyStranded` needs `TransportsConsistent` and
  `PoolConsistent`: a transport that takes requests has its reader and is the pool's
  current one. The refinement needs `BudgetKept`, which counts executions together with
  the requests still on the wire, because the server may execute those at any time; a
  call that may be retried or reported as unsent has used none.

* **Recursion.** The library's induction theorems take an operator as a parameter, which
  the provers cannot instantiate. `NatInd` is induction for a *set* of naturals, from the
  well-foundedness of `<` (`NatLessThanWellFounded`, `WFMin`). A recursive function over
  channels is shown to exist and to unfold by `RecursionExists` and
  `ChannelFreezeUnfolds`: children have longer namespaces, so the construction goes from
  the deepest channels (`Deep`) up. A recursion over the steps of an endpoint or over the
  endpoints is a function on an interval, constructed the same way.
* **Freezing.** `FreezeOutcome`: `RpcChannel.freeze` makes `Progress` (what was frozen is
  left alone, what is frozen now is `Settled`) and either freezes the channel or leaves a
  channel below it that is `Hopeless`: it holds an unsound definition, or names or
  notification types that clash among its own definitions and those its frozen children
  hold for good.
  `ServiceOutcome` lifts this to `RpcService.freeze`: either everything is `Achieved`, or
  the service is `Doomed` (a hopeless channel, an endpoint that completes without any
  events, or two claims that one protocol cannot hold, of one name or of one notification
  type).
* **Failure is final.** `DoomedStays`, `DoomedGrows` and `DoomedNeverAchieved`: no
  further freeze, declaration or mount undoes a reason, and a doomed service is never
  achieved. So `failed => Doomed /\ ~protocol.frozen` is inductive.
* **Served once.** `ChannelsSettled` (a frozen channel has its children frozen, and every
  definition made in time), `Known` (channels exist before their children and
  declarations) and `EndpointsApart` are inductive; `ServedExactly` says that a frozen
  protocol is `Achieved` and has no name that is an operation and a namespace.
  `MatchIsOne` and `ServedByPath` are about the matching of paths.
* **Contract readable.** `WorklistEnds`: a worklist over a finite set is at rest after as
  many rounds as the set has members, since each round before adds one. `ClientDeclares`:
  what it has found is then the closure the writer used.
* **Public names.** `AttributesAreMembers` shows that every attribute, told apart by its
  source in the contract, is one of the members the checks look at, which are told apart by
  where they are shown. Two members of one name are refused unless their sources agree
  (`DistinctBelow`, `DistinctOnTop`), and two sources behind one member unless one of them
  has no methods (`Merged`). `OneSourceOneName` shows that one source gives one name, but
  for streams against the rest, which is the second overlooked case; `~Nested` excludes that
  a namespace is an operation too.
* **Regeneration.** `WriterInv`: the files up to the writer's position are right (`Done`),
  and unless a generation was killed with unlisted files on disk every file there is
  `Listed`, by the manifest or by the running generation.

`PipelineInv` is `DefinitionInv /\ WriterInv`; no conjunct of one speaks of the variables
of the other, and the document is the only thing that passes between them.

Only model-checked are the liveness properties, which hold under fairness and are out of
the prover's reach: `EveryFrameSettles`, `CloseCompletes`, `SessionSettles`,
`CloseEndsCalls`, `DrainReturns`, `DeadlineEnds`, `ServingEnds`. Every other property of
a passing run is a theorem.

## Not modelled

* Wire encoding and the validation of params and results: pure conversions. The models
  tell apart whether an item is valid and whether it owes an answer.
* Telemetry and the activity hooks: they observe.
* The FastAPI adapter: `accept`, `receive`, `send` and `close` are modelled by what the
  runtime relies on, a disconnect or an error at any of them.
* The notification hubs, binary streams and raw sockets of the generated client, and the
  TypeScript client. A full notification queue drops its oldest entry, which may be the
  end of a subscription (`core.py:713`); no property is about it yet.
* The text the generator writes, its TypeScript renderer, the names it reserves for the
  client's own attributes, and `rpckit schema`, whose `--output` shares the writer.
* What pydantic does with models of one name, and the components of scalar payloads.

`PROJECT.json` has the reason for each part.

## Plan

1. `FirstCauseKept` and `OwnCausePreserved`, proved already, as properties of runs in
   place of shallower ones.
2. The notification hubs of the generated client, composed with `SubscriptionSession`.
