--------------------------- MODULE RpcRuntime_proofs ---------------------------
(* Proofs about RpcRuntime, for every value of its constants: types, admission, *)
(* the registry of in-flight ids, the close cause, what a closed endpoint       *)
(* leaves behind, the backlog, the responses, and the drain that waits for them.*)
EXTENDS RpcRuntime, FiniteSetTheorems, TLAPS

\* A frame is being admitted only while the bound on frames leaves room for it.
FrameRoom == Admitting => nframes < MaxFrames

\* The type of a group of variables survives a step that leaves them alone.
LEMMA SameTypes ==
    /\ ReaderType /\ UNCHANGED readerVars => ReaderType'
    /\ CallType /\ UNCHANGED callVars => CallType'
    /\ CollType /\ UNCHANGED collVars => CollType'
    /\ QueueType /\ UNCHANGED queueVars => QueueType'
    /\ EventType /\ UNCHANGED eventVars => EventType'
    /\ CloseType /\ UNCHANGED closeVars => CloseType'
    /\ MainType /\ UNCHANGED mainVars => MainType'
    /\ DrainType /\ UNCHANGED drainVars => DrainType'
<1>1. ReaderType /\ UNCHANGED readerVars => ReaderType'
  BY DEF readerVars, ReaderType
<1>2. CallType /\ UNCHANGED callVars => CallType'
  BY DEF callVars, CallType
<1>3. CollType /\ UNCHANGED collVars => CollType'
  BY DEF collVars, CollType
<1>4. QueueType /\ UNCHANGED queueVars => QueueType'
  BY DEF queueVars, QueueType
<1>5. EventType /\ UNCHANGED eventVars => EventType'
  BY DEF eventVars, EventType
<1>6. CloseType /\ UNCHANGED closeVars => CloseType'
  BY DEF closeVars, CloseType
<1>7. MainType /\ UNCHANGED mainVars => MainType'
  BY DEF mainVars, MainType
<1>8. DrainType /\ UNCHANGED drainVars => DrainType'
  BY DEF drainVars, DrainType
<1> QED BY <1>1, <1>2, <1>3, <1>4, <1>5, <1>6, <1>7, <1>8

\* request_close keeps the type of the close state.
LEMMA CloseTypes ==
    ASSUME CloseType, NEW code \in Codes, RequestClose(code), clientClosed' \in BOOLEAN
    PROVE  CloseType'
  BY DEF CloseType, RequestClose

\* A new collector has the type of collectors.
LEMMA CollectorTypes ==
    ASSUME CollType, nframes < MaxFrames, NEW items \in SUBSET Call,
           NEW ctrl \in Controls, CreateCollector(items, ctrl)
    PROVE  CollType'
<1>1. [st |-> "collecting", items |-> items, ctrl |-> ctrl, raised |-> "none"]
        \in CollRecord
  BY DEF CollRecord
<1>2. coll' \in [Frame -> CollRecord]
  BY <1>1 DEF CollType, CreateCollector
<1>3. nframes' \in 0..MaxFrames
  BY LimitsAssumption DEF CollType, CreateCollector
<1> QED BY <1>2, <1>3 DEF CollType

\* Admitting an item keeps the type of calls and of the current frame.
LEMMA NewCallTypes ==
    ASSUME CallType, ReaderType, NEW i \in Items, ncalls < MaxCalls,
           cur.size < MaxBatch, CreateCall(i), reader' = reader
    PROVE  CallType' /\ ReaderType'
<1>1. ncalls + 1 \in Call
  BY LimitsAssumption DEF CallType, Call
<1>2. Reserved(i) \in BOOLEAN
  BY ItemsAssumption DEF Reserved
<1>5. [task |-> "ready", id |-> i.id, owes |-> i.owes, reserved |-> Reserved(i),
       started |-> FALSE, cancelRequested |-> FALSE, killed |-> FALSE,
       outcome |-> "none"] \in CallRecord
  BY <1>2, ItemsAssumption DEF CallRecord
<1>6. call' \in [Call -> CallRecord] /\ ncalls' \in 0..MaxCalls
  BY <1>1, <1>5, LimitsAssumption DEF CallType, CreateCall
<1>7. reservations' \subseteq Call /\ requests' \in [Ids -> Call \cup {NoCall}]
  BY <1>1 DEF CallType, CreateCall
<1>3. CallType'
  BY <1>6, <1>7 DEF CallType
<1>4. ReaderType'
  BY <1>1, LimitsAssumption DEF ReaderType, CreateCall, NextItem
<1> QED BY <1>3, <1>4

\* Updating one field of a call's record, for the values the tasks give it.
LEMMA CallFields ==
    ASSUME NEW r \in CallRecord,
           NEW t \in {"none", "ready", "running", "finished", "retired"},
           NEW o \in {"none", "answer", "silent", "cancelled", "leaked", "error"}
    PROVE  /\ [r EXCEPT !.task = t] \in CallRecord
           /\ [r EXCEPT !.outcome = o] \in CallRecord
           /\ [r EXCEPT !.started = TRUE] \in CallRecord
           /\ [r EXCEPT !.killed = TRUE] \in CallRecord
           /\ [r EXCEPT !.cancelRequested = TRUE] \in CallRecord
<1>1. [r EXCEPT !.task = t] \in CallRecord
  BY DEF CallRecord
<1>2. [r EXCEPT !.outcome = o] \in CallRecord
  BY DEF CallRecord
<1>3. [r EXCEPT !.started = TRUE] \in CallRecord
  BY DEF CallRecord
<1>4. [r EXCEPT !.killed = TRUE] \in CallRecord
  BY DEF CallRecord
<1>5. [r EXCEPT !.cancelRequested = TRUE] \in CallRecord
  BY DEF CallRecord
<1> QED BY <1>1, <1>2, <1>3, <1>4, <1>5

\* Updating fields of a call keeps the type of calls.
LEMMA CallUpdates ==
    ASSUME NEW g \in [Call -> CallRecord], NEW c \in Call,
           NEW t \in {"none", "ready", "running", "finished", "retired"},
           NEW o \in {"none", "answer", "silent", "cancelled", "leaked", "error"}
    PROVE  /\ [g EXCEPT ![c].task = t] \in [Call -> CallRecord]
           /\ [g EXCEPT ![c].task = t, ![c].started = TRUE] \in [Call -> CallRecord]
           /\ [g EXCEPT ![c].task = t, ![c].outcome = o] \in [Call -> CallRecord]
           /\ [g EXCEPT ![c].cancelRequested = TRUE] \in [Call -> CallRecord]
<1>1. [g EXCEPT ![c].task = t] \in [Call -> CallRecord]
  BY CallFields
<1>2. [g EXCEPT ![c].task = t, ![c].started = TRUE] \in [Call -> CallRecord]
  BY CallFields
<1>3. [g EXCEPT ![c].task = t, ![c].outcome = o] \in [Call -> CallRecord]
  BY CallFields
<1>4. [g EXCEPT ![c].cancelRequested = TRUE] \in [Call -> CallRecord]
  BY CallFields
<1> QED BY <1>1, <1>2, <1>3, <1>4

\* Every step of the reader keeps the types.
LEMMA ReaderTypes ==
    ASSUME TypeOK, FrameRoom, ReaderNext
    PROVE  TypeOK' /\ FrameRoom'
<1> USE DEF FrameRoom, Admitting
<1>0. ReaderNext => UNCHANGED <<queueVars, eventVars, mainVars, drainVars>>
  BY DEF ReaderNext, ReceiveFrame, ItemPing, EndFrame, ItemCancel, ItemRequest,
     ItemRefused, ReceiveUnusable, ReceiveFatal, ReceiveDisconnect, PeerCloses, readerRest
<1>a. QueueType' /\ EventType' /\ MainType' /\ DrainType'
  BY <1>0, SameTypes DEF TypeOK
<1>b. NoFrame \in [items : SUBSET Call, ctrl : Controls, size : 0..MaxBatch]
  BY LimitsAssumption DEF NoFrame, Controls
<1>1. CASE ReceiveFrame
  <2>1. ReaderType' /\ FrameRoom'
    BY <1>1, <1>b DEF ReceiveFrame, ReaderType, TypeOK, collVars
  <2> QED BY <1>1, <1>a, <2>1, SameTypes DEF ReceiveFrame, TypeOK
<1>2. CASE ItemPing
  <2>1. ReaderType' /\ FrameRoom'
    BY <1>2, LimitsAssumption
       DEF ItemPing, NextItem, RoomInFrame, ReaderType, TypeOK, Controls, collVars
  <2> QED BY <1>2, <1>a, <2>1, SameTypes DEF ItemPing, TypeOK
<1>3. CASE EndFrame
  <2>1. ReaderType'
    BY <1>3, <1>b DEF EndFrame, ReaderType, TypeOK
  <2>2. CallType'
    BY <1>3, SameTypes DEF EndFrame, TypeOK
  <2>3. CollType' /\ FrameRoom'
    <3>1. CASE nframes' = nframes + 1 /\ UNCHANGED coll /\ reader' = "receiving"
      BY <1>3, <3>1, LimitsAssumption DEF EndFrame, CollType, TypeOK
    <3>2. CASE UNCHANGED collVars /\ reader' = "stopped"
      BY <3>2, SameTypes DEF TypeOK
    <3>3. CASE CreateCollector(cur.items, cur.ctrl) /\ reader' = "receiving"
      BY <1>3, <3>3, CollectorTypes DEF EndFrame, ReaderType, TypeOK
    <3> QED BY <1>3, <3>1, <3>2, <3>3 DEF EndFrame
  <2>4. CloseType'
    BY <1>3, CloseTypes, SameTypes
       DEF EndFrame, CloseConnection, CloseType, TypeOK, Codes
  <2> QED BY <1>a, <2>1, <2>2, <2>3, <2>4 DEF TypeOK
<1>4. ASSUME NEW k \in Ids, ItemCancel(k) PROVE TypeOK' /\ FrameRoom'
  <2>1. ReaderType' /\ FrameRoom'
    BY <1>4, LimitsAssumption
       DEF ItemCancel, NextItem, RoomInFrame, ReaderType, TypeOK, collVars
  <2>2. CallType'
    <3>1. CASE call' = call
      BY <1>4, <3>1 DEF ItemCancel, CallType, TypeOK
    <3>2. ASSUME NEW c \in Call, call' = [call EXCEPT ![c].cancelRequested = TRUE]
          PROVE  CallType'
      <4>1. call' \in [Call -> CallRecord]
        BY <3>2, CallUpdates DEF CallType, TypeOK
      <4> QED BY <1>4, <4>1 DEF ItemCancel, CallType, TypeOK
    <3>3. \/ call' = call
          \/ \E c \in Call : call' = [call EXCEPT ![c].cancelRequested = TRUE]
      <4>1. requests[k] \in Call \cup {NoCall}
        BY <1>4 DEF CallType, TypeOK
      <4> QED BY <1>4, <4>1 DEF ItemCancel
    <3> QED BY <3>1, <3>2, <3>3
  <2> QED BY <1>4, <1>a, <2>1, <2>2, SameTypes DEF ItemCancel, TypeOK
<1>5. ASSUME NEW i \in Items, ItemRequest(i) PROVE TypeOK' /\ FrameRoom'
  <2>1. CallType' /\ ReaderType'
    BY <1>5, NewCallTypes DEF ItemRequest, RoomInFrame, TypeOK
  <2> QED BY <1>5, <1>a, <2>1, SameTypes DEF ItemRequest, TypeOK, collVars
<1>6. ASSUME NEW i \in Items, ItemRefused(i) PROVE TypeOK' /\ FrameRoom'
  <2>1. ReaderType' /\ FrameRoom'
    BY <1>6, <1>b DEF ItemRefused, ReaderType, TypeOK
  <2>2. CloseType'
    BY <1>6, CloseTypes DEF ItemRefused, CloseConnection, CloseType, TypeOK, Codes
  <2> QED BY <1>6, <1>a, <2>1, <2>2, SameTypes DEF ItemRefused, TypeOK
<1>7. CASE ReceiveUnusable
  <2>1. ReaderType' /\ FrameRoom'
    BY <1>7 DEF ReceiveUnusable, ReaderType, TypeOK
  <2>2. CollType'
    BY <1>7, CollectorTypes, SameTypes DEF ReceiveUnusable, TypeOK, Controls
  <2>3. CloseType'
    BY <1>7, CloseTypes, SameTypes
       DEF ReceiveUnusable, CloseConnection, CloseType, TypeOK, Codes
  <2> QED BY <1>7, <1>a, <2>1, <2>2, <2>3, SameTypes DEF ReceiveUnusable, TypeOK
<1>8. CASE ReceiveFatal \/ ReceiveDisconnect
  <2>1. ReaderType' /\ FrameRoom'
    BY <1>8 DEF ReceiveFatal, ReceiveDisconnect, PeerCloses, ReaderType, TypeOK
  <2>2. CloseType'
    BY <1>8, CloseTypes, CodesAssumption
       DEF ReceiveFatal, ReceiveDisconnect, PeerCloses, CloseConnection, CloseType,
           TypeOK, Codes
  <2> QED
    BY <1>8, <1>a, <2>1, <2>2, SameTypes DEF ReceiveFatal, ReceiveDisconnect, TypeOK
<1> QED BY <1>1, <1>2, <1>3, <1>4, <1>5, <1>6, <1>7, <1>8 DEF ReaderNext

\* Every step of a call's task keeps the types.
LEMMA CallTypes ==
    ASSUME TypeOK, FrameRoom, NEW c \in Call, CallNext(c)
    PROVE  TypeOK' /\ FrameRoom'
<1>1. UNCHANGED callRest /\ UNCHANGED ncalls
  BY DEF CallNext, CallStart, CallDropped, CallFinish, CallInterrupted, CallLeaksCancel,
     CallFails, CallDone, EndCall
<1>2. call' \in [Call -> CallRecord]
  <2>0. call \in [Call -> CallRecord]
    BY DEF TypeOK, CallType
  <2>1. CASE CallStart(c)
    BY <2>0, <2>1, CallUpdates DEF CallStart
  <2>2. CASE CallDropped(c)
    BY <2>0, <2>2, CallUpdates DEF CallDropped
  <2>3. ASSUME NEW o \in {"answer", "silent", "cancelled", "leaked", "error"}, EndCall(c, o)
        PROVE  call' \in [Call -> CallRecord]
    <3>1. call' = [call EXCEPT ![c].task = "finished", ![c].outcome = o]
      BY <2>3 DEF EndCall
    <3> QED BY <2>0, <2>3, <3>1, CallFields
  <2>4. CASE CallDone(c)
    BY <2>0, <2>4, CallUpdates DEF CallDone
  <2> QED
    BY <2>1, <2>2, <2>3, <2>4
       DEF CallNext, CallFinish, CallInterrupted, CallLeaksCancel, CallFails
<1>3. reservations' \subseteq Call /\ requests' \in [Ids -> Call \cup {NoCall}]
  BY DEF CallNext, CallStart, CallDropped, CallFinish, CallInterrupted, CallLeaksCancel,
     CallFails, CallDone, EndCall, FallbackRelease, TypeOK, CallType
<1>4. CallType'
  BY <1>1, <1>2, <1>3 DEF TypeOK, CallType
<1> QED
  BY <1>1, <1>4, SameTypes
     DEF TypeOK, FrameRoom, Admitting, callRest, readerVars, collVars

\* Every step of a collector keeps the types.
LEMMA CollectorNextTypes ==
    ASSUME TypeOK, FrameRoom, NEW f \in Frame, CollectorNext(f)
    PROVE  TypeOK' /\ FrameRoom'
<1> USE DEF Unwind, CollectorRaises, CollectorFails, RunsMiddleware, CollectorUnwound, CollectorResponds,
        CollectorPuts, CollectorTooSlow, CollectorCancelled, CollectorDone
<1>1. UNCHANGED <<readerVars, eventVars, mainVars, drainVars, nframes>>
  BY DEF CollectorNext, collRest, readerRest
<1>2. coll' \in [Frame -> CollRecord]
  BY DEF CollectorNext, TypeOK, CollType, CollRecord
<1>3. CallType'
  <2>1. CASE UNCHANGED callVars
    BY <2>1, SameTypes DEF TypeOK
  <2>2. ASSUME NEW raised, Unwind(f, raised) PROVE CallType'
    <3>1. call' \in [Call -> CallRecord]
      BY <2>2, CallFields DEF TypeOK, CallType
    <3> QED BY <2>2, <3>1 DEF TypeOK, CallType
  <2> QED BY <2>1, <2>2 DEF CollectorNext
<1>4. QueueType'
  <2>1. CASE UNCHANGED queueVars
    BY <2>1, SameTypes DEF TypeOK
  <2>2. CASE outgoing' = Append(outgoing, f) /\ UNCHANGED <<sending, writerUp, delivered>>
    BY <2>2 DEF TypeOK, QueueType, Msg
  <2> QED BY <2>1, <2>2 DEF CollectorNext, queueVars, readerRest
<1>5. CloseType'
  <2>1. CASE UNCHANGED closeVars
    BY <2>1, SameTypes DEF TypeOK
  <2>2. ASSUME NEW code \in Codes, CloseConnection(code) PROVE CloseType'
    BY <2>2, CloseTypes DEF CloseConnection, TypeOK, CloseType
  <2> QED BY <2>1, <2>2 DEF CollectorNext, Codes
<1> QED
  BY <1>1, <1>2, <1>3, <1>4, <1>5, SameTypes
     DEF TypeOK, CollType, FrameRoom, Admitting, readerVars

\* Every step of the writer keeps the types.
LEMMA WriterTypes ==
    ASSUME TypeOK, FrameRoom, WriterNext
    PROVE  TypeOK' /\ FrameRoom'
<1> USE DEF WriterTakes, WriterSends, WriterFails, PeerCloses, WriterCancelled
<1>1. UNCHANGED writerRest
  BY DEF WriterNext
<1>2. QueueType'
  <2>1. CASE WriterTakes
    <3>1. outgoing \in Seq(Msg) /\ outgoing # <<>>
      BY <2>1 DEF TypeOK, QueueType
    <3>2. Head(outgoing) \in Msg /\ Tail(outgoing) \in Seq(Msg)
      BY <3>1
    <3> QED BY <2>1, <3>2 DEF TypeOK, QueueType
  <2>2. CASE WriterSends
    BY <2>2 DEF TypeOK, QueueType
  <2>3. CASE WriterFails \/ WriterCancelled
    BY <2>3 DEF TypeOK, QueueType
  <2> QED BY <2>1, <2>2, <2>3 DEF WriterNext
<1>3. CloseType'
  <2>1. CASE UNCHANGED closeVars
    BY <2>1, SameTypes DEF TypeOK
  <2>2. ASSUME NEW code \in Codes, RequestClose(code), clientClosed' \in BOOLEAN
        PROVE  CloseType'
    BY <2>2, CloseTypes DEF TypeOK
  <2> QED
    BY <2>1, <2>2, CodesAssumption
       DEF WriterNext, CloseConnection, Codes, TypeOK, CloseType
<1> QED
  BY <1>1, <1>2, <1>3, SameTypes
     DEF TypeOK, FrameRoom, Admitting, writerRest, readerVars, collVars

\* Every step of the event source keeps the types.
LEMMA EventTypes ==
    ASSUME TypeOK, FrameRoom, EventsNext
    PROVE  TypeOK' /\ FrameRoom'
<1> USE DEF EventEmits, EventPuts, EventTooSlow, EventsEnd, EventsCancelled
<1>1. UNCHANGED eventRest
  BY DEF EventsNext
<1>2. EventType'
  BY LimitsAssumption DEF EventsNext, TypeOK, EventType
<1>3. QueueType'
  <2>1. CASE UNCHANGED queueVars
    BY <2>1, SameTypes DEF TypeOK
  <2>2. CASE outgoing' = Append(outgoing, EventMsg) /\ UNCHANGED <<sending, writerUp, delivered>>
    BY <2>2 DEF TypeOK, QueueType, Msg
  <2> QED BY <2>1, <2>2 DEF EventsNext, queueVars
<1>4. CloseType'
  <2>1. CASE UNCHANGED closeVars
    BY <2>1, SameTypes DEF TypeOK
  <2>2. ASSUME NEW code \in Codes, CloseConnection(code) PROVE CloseType'
    BY <2>2, CloseTypes DEF CloseConnection, TypeOK, CloseType
  <2> QED BY <2>1, <2>2, CodesAssumption DEF EventsNext, Codes
<1> QED
  BY <1>1, <1>2, <1>3, <1>4, SameTypes
     DEF TypeOK, FrameRoom, Admitting, eventRest, readerVars, collVars

\* Every step of the serving task and of the application keeps the types.
LEMMA MainTypes ==
    ASSUME TypeOK, FrameRoom, MainNext
    PROVE  TypeOK' /\ FrameRoom'
<1> USE DEF MainWakes, MainGathered, MainFlushed, MainFlushTimeout, MainCloses,
        ServingCancelled, ConnectionCloses, InterruptMain, CancelEvents
<1>1. UNCHANGED <<callVars, collVars, queueVars, drainVars>>
  BY DEF MainNext, mainRest, writerRest
<1>2. ReaderType' /\ FrameRoom'
  BY <1>1 DEF MainNext, TypeOK, ReaderType, FrameRoom, Admitting, readerVars,
     writerRest, collVars
<1>3. EventType'
  BY DEF MainNext, TypeOK, EventType, eventVars, writerRest
<1>4. MainType'
  BY DEF MainNext, TypeOK, MainType, CloseType, mainVars, writerRest, Codes, NoCode
<1>5. CloseType'
  <2>1. CASE UNCHANGED closeVars
    BY <2>1, SameTypes DEF TypeOK
  <2>2. ASSUME NEW code \in AppCodes, CloseConnection(code) PROVE CloseType'
    BY <2>2, CloseTypes, CodesAssumption DEF CloseConnection, TypeOK, CloseType
  <2>3. CASE MainCloses
    BY <2>3 DEF TypeOK, CloseType, Codes, NoCode
  <2> QED BY <2>1, <2>2, <2>3 DEF MainNext
<1> QED BY <1>1, <1>2, <1>3, <1>4, <1>5, SameTypes DEF TypeOK

\* Every step of the drain keeps the types.
LEMMA DrainTypes ==
    ASSUME TypeOK, FrameRoom, DrainNext
    PROVE  TypeOK' /\ FrameRoom'
<1> USE DEF StartDraining, GracefulBegins, GracefulWaitsTasks, GracefulStopsReader,
        GracefulFlushes, GracefulCloses, DrainStops, InterruptMain, CancelEvents
<1>1. UNCHANGED <<callVars, collVars, queueVars>>
  BY DEF DrainNext, drainRest
<1>2. ReaderType' /\ FrameRoom'
  BY <1>1 DEF DrainNext, TypeOK, ReaderType, FrameRoom, Admitting, readerVars, collVars
<1>3. EventType'
  BY DEF DrainNext, TypeOK, EventType, eventVars
<1>4. MainType'
  BY DEF DrainNext, TypeOK, MainType, mainVars, drainRest
<1>5. CloseType'
  <2>1. CASE UNCHANGED closeVars
    BY <2>1, SameTypes DEF TypeOK
  <2>2. CASE GracefulCloses
    BY <2>2, CloseTypes DEF CloseConnection, TypeOK, CloseType, Codes
  <2>3. CASE DrainStops
    BY <2>3 DEF TypeOK, CloseType, Codes
  <2> QED BY <2>1, <2>2, <2>3 DEF DrainNext
<1>6. DrainType'
  BY DEF DrainNext, TypeOK, DrainType, LiveCollectors
<1> QED BY <1>1, <1>2, <1>3, <1>4, <1>5, <1>6, SameTypes DEF TypeOK

\* The initial state is well typed.
LEMMA InitTypes ==
    ASSUME Init
    PROVE  TypeOK /\ FrameRoom
<1> USE LimitsAssumption
<1>1. ReaderType /\ FrameRoom
  BY DEF Init, ReaderType, NoFrame, Controls, FrameRoom, Admitting
<1>2. CallType
  <2>1. NewCall \in CallRecord
    BY DEF NewCall, CallRecord
  <2> QED BY <2>1 DEF Init, CallType
<1>3. CollType
  <2>1. NewColl \in CollRecord
    BY DEF NewColl, CollRecord, Controls
  <2> QED BY <2>1 DEF Init, CollType
<1>4. QueueType /\ EventType
  BY DEF Init, QueueType, EventType
<1>5. CloseType /\ MainType /\ DrainType
  BY DEF Init, CloseType, MainType, DrainType
<1> QED BY <1>1, <1>2, <1>3, <1>4, <1>5 DEF TypeOK

\* Every step of the endpoint keeps the types.
LEMMA NextTypes ==
    ASSUME TypeOK, FrameRoom, [Next]_vars
    PROVE  TypeOK' /\ FrameRoom'
<1>1. CASE UNCHANGED vars
  BY <1>1, SameTypes DEF vars, TypeOK, FrameRoom, Admitting, readerVars, collVars
<1>2. CASE Next
  BY <1>1, <1>2, ReaderTypes, CallTypes, CollectorNextTypes, WriterTypes, EventTypes,
     MainTypes, DrainTypes DEF Next, Terminated
<1> QED BY <1>1, <1>2

\* The state of _run_rpc_endpoint is well typed whatever the limits, the ids and
\* the faults: no frame overflows max_batch_size, every registered and every
\* collected call is a real one.
THEOREM TypeCorrect == Spec => []TypeOK
<1>1. Init => TypeOK /\ FrameRoom
  BY InitTypes
<1>2. TypeOK /\ FrameRoom /\ [Next]_vars => (TypeOK /\ FrameRoom)'
  BY NextTypes
<1> QED BY <1>1, <1>2, PTL DEF Spec

-----------------------------------------------------------------------------
\* Calls are numbered in the order of their creation: a later number is unused.
Fresh == \A c \in Call : c > ncalls => call[c].task = "none"

Unfinished(c) == call[c].task \in {"ready", "running"}

\* What every step but the creation and the retirement of a call does to calls:
\* identity and admission are kept, none appears or is retired, and only a call
\* that has ended gives its reservation back.
CallsKept ==
    /\ UNCHANGED <<ncalls, requests>> /\ reservations' \subseteq reservations
    /\ \A d \in Call :
         /\ call'[d].id = call[d].id /\ call'[d].reserved = call[d].reserved
         /\ InFlight(d)' <=> InFlight(d)
         /\ Unfinished(d)' => Unfinished(d)
         /\ call[d].task = "none" => call'[d].task = "none"
         /\ d \in reservations /\ Unfinished(d)' => d \in reservations'

\* A step that leaves all calls alone keeps them.
LEMMA SameCallsKept == UNCHANGED callVars => CallsKept
  BY DEF callVars, CallsKept, InFlight, Unfinished

\* Every step creates a call, retires one, or keeps all of them.
LEMMA CallSteps ==
    ASSUME TypeOK, [Next]_vars
    PROVE  \/ \E i \in Items : ItemRequest(i)
           \/ \E c \in Call : CallDone(c)
           \/ CallsKept
<1>0. call \in [Call -> CallRecord]
  BY DEF TypeOK, CallType
<1> USE DEF CallsKept, InFlight, Unfinished
<1>1. CASE UNCHANGED vars
  BY <1>1, SameCallsKept DEF vars
<1>2. CASE ReaderNext
  <2>1. ASSUME NEW k \in Ids, ItemCancel(k) PROVE CallsKept
    BY <2>1, <1>0 DEF ItemCancel
  <2>2. \/ \E i \in Items : ItemRequest(i)
        \/ \E k \in Ids : ItemCancel(k)
        \/ UNCHANGED callVars
    BY <1>2 DEF ReaderNext, ReceiveFrame, ItemPing, EndFrame, ItemRefused,
       ReceiveUnusable, ReceiveFatal, ReceiveDisconnect
  <2> QED BY <2>1, <2>2, SameCallsKept
<1>3. ASSUME NEW c \in Call, CallNext(c) PROVE CallDone(c) \/ CallsKept
  <2>1. CASE CallStart(c)
    BY <2>1, <1>0 DEF CallStart
  <2>2. CASE CallDropped(c)
    BY <2>2, <1>0 DEF CallDropped
  <2>3. ASSUME NEW o, EndCall(c, o) PROVE CallsKept
    BY <2>3, <1>0 DEF EndCall
  <2> QED
    BY <1>3, <2>1, <2>2, <2>3
       DEF CallNext, CallFinish, CallInterrupted, CallLeaksCancel, CallFails
<1>4. ASSUME NEW f \in Frame, CollectorNext(f) PROVE CallsKept
  <2>1. ASSUME NEW r, Unwind(f, r) PROVE CallsKept
    BY <2>1, <1>0 DEF Unwind, CallRecord
  <2>2. UNCHANGED callVars \/ \E r : Unwind(f, r)
    BY <1>4 DEF CollectorNext, CollectorRaises, CollectorFails, RunsMiddleware, CollectorUnwound,
       CollectorResponds, CollectorPuts, CollectorTooSlow, CollectorCancelled,
     CollectorDone
  <2> QED BY <2>1, <2>2, SameCallsKept
<1>5. CASE WriterNext \/ EventsNext
  <2>1. UNCHANGED callVars
    BY <1>5 DEF WriterNext, WriterTakes, WriterSends, WriterFails, PeerCloses, WriterCancelled,
       EventsNext, EventEmits, EventPuts, EventTooSlow, EventsEnd, EventsCancelled,
       writerRest, eventRest
  <2> QED BY <2>1, SameCallsKept
<1>6. CASE MainNext \/ DrainNext
  <2>1. UNCHANGED callVars
    BY <1>6 DEF MainNext, MainWakes, MainGathered, MainFlushed, MainFlushTimeout,
       MainCloses, ServingCancelled, ConnectionCloses, mainRest, writerRest,
       DrainNext, StartDraining, GracefulBegins, GracefulWaitsTasks,
       GracefulStopsReader, GracefulFlushes, GracefulCloses, DrainStops, drainRest
  <2> QED BY <2>1, SameCallsKept
<1> QED BY <1>1, <1>2, <1>3, <1>4, <1>5, <1>6 DEF Next, Terminated

-----------------------------------------------------------------------------
\* Admission capacity and the registry of in-flight ids, made inductive: a call
\* that is about to be created has a number no reservation and no id refers to.
Admission == Fresh /\ RegistryExact /\ PendingExact

\* Sets of calls are finite, so capacity can be counted.
LEMMA CallSetsFinite ==
    ASSUME NEW S \in SUBSET Call
    PROVE  IsFiniteSet(S)
<1>1. IsFiniteSet(Call)
  BY FS_Interval, LimitsAssumption DEF Call
<1> QED BY <1>1, FS_Subset

\* A step that keeps the calls keeps the admission state exact.
LEMMA KeptAdmission ==
    ASSUME TypeOK, Admission, CallsKept
    PROVE  Admission'
<1> USE DEF CallsKept
<1>1. Fresh'
  BY DEF Admission, Fresh
<1>2. RegistryExact'
  BY DEF Admission, RegistryExact, TypeOK, CallType
<1>3. PendingExact'
  <2>1. reservations \in SUBSET Call
    BY DEF TypeOK, CallType
  <2>2. Cardinality(reservations') <= Cardinality(reservations)
    BY <2>1, CallSetsFinite, FS_Subset
  <2>3. /\ Cardinality(reservations') \in Nat /\ Cardinality(reservations) \in Nat
    BY <2>1, CallSetsFinite, FS_CardinalityType
  <2>4. Cardinality(reservations') <= MaxPending
    BY <2>2, <2>3, LimitsAssumption DEF Admission, PendingExact
  <2>5. \A c \in Call : call'[c].reserved /\ Unfinished(c)' => c \in reservations'
    BY DEF Admission, PendingExact, Unfinished
  <2>6. \A c \in reservations' : call'[c].reserved /\ InFlight(c)'
    BY <2>1 DEF Admission, PendingExact
  <2> QED BY <2>4, <2>5, <2>6 DEF PendingExact, Unfinished
<1> QED BY <1>1, <1>2, <1>3 DEF Admission

\* Creating a call registers it under an id nobody uses and takes free capacity.
LEMMA RequestAdmission ==
    ASSUME TypeOK, Admission, NEW i \in Items, ItemRequest(i)
    PROVE  Admission'
<1> DEFINE c == ncalls + 1
<1>1. /\ c \in Call /\ ncalls \in Nat /\ NoCall \notin Call
      /\ call \in [Call -> CallRecord] /\ reservations \in SUBSET Call
      /\ requests \in [Ids -> Call \cup {NoCall}]
  BY LimitsAssumption DEF TypeOK, CallType, Call, NoCall, ItemRequest
<1>2. /\ call'[c].task = "ready" /\ call'[c].id = i.id
      /\ call'[c].reserved = Reserved(i)
      /\ \A d \in Call \ {c} : call'[d] = call[d]
      /\ ncalls' = c
      /\ reservations' = IF Reserved(i) THEN reservations \cup {c} ELSE reservations
      /\ requests' = IF i.id \in Ids THEN [requests EXCEPT ![i.id] = c] ELSE requests
  BY <1>1 DEF ItemRequest, CreateCall
<1>3. call[c].task = "none" /\ ~InFlight(c)
  BY <1>1 DEF Admission, Fresh, InFlight
<1>4. i.id \in Ids => requests[i.id] = NoCall
  BY DEF ItemRequest, Duplicate
<1> HIDE DEF c
<1>5. Fresh'
  <2> SUFFICES ASSUME NEW d \in Call, d > ncalls' PROVE call'[d].task = "none"
    BY DEF Fresh
  <2>1. d # c /\ d > ncalls
    BY <1>1, <1>2 DEF Call, c
  <2> QED BY <2>1, <1>2 DEF Admission, Fresh
<1>6. RegistryExact'
  <2>1. ASSUME NEW k \in Ids, requests'[k] # NoCall
        PROVE  /\ call'[requests'[k]].id = k
               /\ call'[requests'[k]].task \in {"ready", "running", "finished"}
    <3>1. CASE k = i.id
      BY <3>1, <1>1, <1>2 DEF InFlight
    <3>2. CASE k # i.id
      <4>1. requests'[k] = requests[k]
        BY <3>2, <1>1, <1>2
      <4>2. requests[k] \in Call /\ InFlight(requests[k]) /\ call[requests[k]].id = k
        BY <2>1, <4>1, <1>1 DEF Admission, RegistryExact
      <4> QED BY <4>1, <4>2, <1>2, <1>3 DEF InFlight
    <3> QED BY <3>1, <3>2
  <2>2. ASSUME NEW d \in Call, InFlight(d)', call'[d].id \in Ids
        PROVE  requests'[call'[d].id] = d
    <3>1. CASE d = c
      BY <3>1, <2>2, <1>1, <1>2
    <3>2. CASE d # c
      <4>1. InFlight(d) /\ call'[d].id = call[d].id /\ call[d].id \in Ids
        BY <3>2, <2>2, <1>2 DEF InFlight
      <4>2. requests[call[d].id] = d
        BY <4>1 DEF Admission, RegistryExact
      <4> QED BY <4>1, <4>2, <1>1, <1>2, <1>4
    <3> QED BY <3>1, <3>2
  <2> QED BY <2>1, <2>2 DEF RegistryExact, InFlight
<1>7. PendingExact'
  <2>1. Cardinality(reservations') <= MaxPending
    <3>1. CASE Reserved(i)
      <4>1. IsFiniteSet(reservations) /\ Cardinality(reservations) \in Nat
        BY <1>1, CallSetsFinite, FS_CardinalityType
      <4>2. Cardinality(reservations \cup {c}) <= Cardinality(reservations) + 1
        BY <4>1, FS_AddElement
      <4>3. Cardinality(reservations \cup {c}) \in Nat
        BY <4>1, FS_AddElement, FS_CardinalityType
      <4> QED BY <3>1, <4>1, <4>2, <4>3, <1>2, LimitsAssumption DEF Reserved
    <3>2. CASE ~Reserved(i)
      BY <3>2, <1>2 DEF Admission, PendingExact
    <3> QED BY <3>1, <3>2
  <2>2. \A d \in Call : call'[d].reserved /\ Unfinished(d)' => d \in reservations'
    BY <1>1, <1>2 DEF Admission, PendingExact, Unfinished
  <2>3. \A d \in reservations' : call'[d].reserved /\ InFlight(d)'
    <3> SUFFICES ASSUME NEW d \in reservations'
                 PROVE  call'[d].reserved /\ InFlight(d)'
      OBVIOUS
    <3>1. CASE d = c
      <4>1. c \notin reservations
        BY <1>3 DEF Admission, PendingExact
      <4> QED BY <3>1, <4>1, <1>2 DEF InFlight
    <3>2. CASE d # c
      BY <3>2, <1>1, <1>2 DEF Admission, PendingExact, InFlight
    <3> QED BY <3>1, <3>2
  <2> QED BY <2>1, <2>2, <2>3 DEF PendingExact, Unfinished
<1> QED BY <1>5, <1>6, <1>7 DEF Admission

\* Retiring a call frees its own id and its own capacity, and nobody else's.
LEMMA DoneAdmission ==
    ASSUME TypeOK, Admission, NEW c \in Call, CallDone(c)
    PROVE  Admission'
<1>1. /\ call \in [Call -> CallRecord] /\ reservations \in SUBSET Call
      /\ requests \in [Ids -> Call \cup {NoCall}]
  BY DEF TypeOK, CallType
<1>2. /\ call[c].task = "finished" /\ call'[c].task = "retired"
      /\ call'[c].id = call[c].id /\ call'[c].reserved = call[c].reserved
      /\ \A d \in Call \ {c} : call'[d] = call[d]
      /\ ncalls' = ncalls /\ reservations' = reservations \ {c}
      /\ \A k \in Ids : requests'[k] = IF k = call[c].id /\ requests[k] = c
                                         THEN NoCall ELSE requests[k]
  BY <1>1 DEF CallDone, CallRecord, FallbackRelease
<1>3. Fresh'
  BY <1>2 DEF Admission, Fresh
<1>4. RegistryExact'
  <2>1. ASSUME NEW k \in Ids, requests'[k] # NoCall
        PROVE  /\ call'[requests'[k]].id = k
               /\ call'[requests'[k]].task \in {"ready", "running", "finished"}
    <3>1. requests'[k] = requests[k] /\ requests[k] \in Call
      BY <2>1, <1>1, <1>2
    <3>2. call[requests[k]].id = k /\ InFlight(requests[k])
      BY <2>1, <3>1 DEF Admission, RegistryExact
    <3>3. requests[k] # c
      BY <2>1, <3>2, <1>2
    <3> QED BY <3>1, <3>2, <3>3, <1>2 DEF InFlight
  <2>2. ASSUME NEW d \in Call, InFlight(d)', call'[d].id \in Ids
        PROVE  requests'[call'[d].id] = d
    <3>1. d # c
      BY <2>2, <1>2 DEF InFlight
    <3>2. InFlight(d) /\ call'[d].id = call[d].id
      BY <2>2, <3>1, <1>2 DEF InFlight
    <3>3. requests[call[d].id] = d
      BY <2>2, <3>2 DEF Admission, RegistryExact
    <3> QED BY <2>2, <3>1, <3>2, <3>3, <1>2
  <2> QED BY <2>1, <2>2 DEF RegistryExact, InFlight
<1>5. PendingExact'
  <2>1. /\ Cardinality(reservations') <= Cardinality(reservations)
        /\ Cardinality(reservations') \in Nat /\ Cardinality(reservations) \in Nat
    <3>1. reservations' \subseteq reservations /\ IsFiniteSet(reservations)
      BY <1>1, <1>2, CallSetsFinite
    <3> QED BY <3>1, FS_Subset, FS_CardinalityType
  <2>2. Cardinality(reservations') <= MaxPending
    BY <2>1, LimitsAssumption DEF Admission, PendingExact
  <2>3. \A d \in Call : call'[d].reserved /\ Unfinished(d)' => d \in reservations'
    BY <1>2 DEF Admission, PendingExact, Unfinished
  <2>4. \A d \in reservations' : call'[d].reserved /\ InFlight(d)'
    BY <1>1, <1>2 DEF Admission, PendingExact, InFlight
  <2> QED BY <2>2, <2>3, <2>4 DEF PendingExact, Unfinished
<1> QED BY <1>3, <1>4, <1>5 DEF Admission

\* The admission state is exact at the start and stays exact.
LEMMA AdmissionInvariant == Spec => []Admission
<1>1. Init => Admission
  <2> SUFFICES ASSUME Init PROVE Admission
    OBVIOUS
  <2>1. \A c \in Call : call[c].task = "none"
    BY DEF Init, NewCall
  <2>2. Fresh
    BY <2>1 DEF Fresh
  <2>3. RegistryExact
    BY <2>1 DEF Init, RegistryExact, InFlight
  <2>4. PendingExact
    BY <2>1, FS_EmptySet, LimitsAssumption DEF Init, PendingExact
  <2> QED BY <2>2, <2>3, <2>4 DEF Admission
<1>2. TypeOK /\ Admission /\ [Next]_vars => Admission'
  BY CallSteps, KeptAdmission, RequestAdmission, DoneAdmission
<1> QED BY <1>1, <1>2, TypeCorrect, PTL DEF Spec

\* requests and the in-flight calls determine each other in every reachable state
\* of the endpoint, whatever the ids, limits and faults: reader, cancel_request
\* and call_done never let an id point at a finished or a foreign call.
THEOREM RegistryCorrect == Spec => []RegistryExact
<1>1. Admission => RegistryExact
  BY DEF Admission
<1> QED BY <1>1, AdmissionInvariant, PTL

\* Admission capacity is exact for every max_pending_requests: none is leaked by
\* a call cancelled before it started, and the limit is never exceeded.
THEOREM PendingCorrect == Spec => []PendingExact
<1>1. Admission => PendingExact
  BY DEF Admission
<1> QED BY <1>1, AdmissionInvariant, PTL

-----------------------------------------------------------------------------
\* A requested close has a cause, so nothing fills one in later.
CauseKnown == closeEvent => closeCode # NoCode

\* What a step does to the close state: nothing, request_close with some code, or
\* filling in the cause of a close nobody requested (_DrainSession.stop and the
\* last finally of the endpoint).
LEMMA CloseSteps ==
    ASSUME [Next]_vars
    PROVE  \/ UNCHANGED <<closeEvent, closeCode>>
           \/ \E code \in Codes : RequestClose(code)
           \/ /\ UNCHANGED closeEvent
              /\ \E code \in Codes :
                    closeCode' = IF closeCode = NoCode THEN code ELSE closeCode
<1> USE DEF closeVars, CloseConnection, Codes
<1>1. CASE UNCHANGED vars
  BY <1>1 DEF vars
<1>2. CASE ReaderNext
  <2>1. ReceiveDisconnect => \E code \in Codes : RequestClose(code)
    BY CodesAssumption DEF ReceiveDisconnect, PeerCloses
  <2> QED
    BY <1>2, <2>1 DEF ReaderNext, ReceiveFrame, ItemPing, EndFrame, ItemCancel,
       ItemRequest, ItemRefused, ReceiveUnusable, ReceiveFatal
<1>3. ASSUME NEW c \in Call, CallNext(c) PROVE UNCHANGED <<closeEvent, closeCode>>
  BY <1>3 DEF CallNext, CallStart, CallDropped, CallFinish, CallInterrupted,
     CallLeaksCancel, CallFails, CallDone, EndCall, callRest
<1>4. ASSUME NEW f \in Frame, CollectorNext(f)
      PROVE  UNCHANGED <<closeEvent, closeCode>> \/ \E code \in Codes : RequestClose(code)
  BY <1>4 DEF CollectorNext, CollectorRaises, CollectorFails, RunsMiddleware, CollectorUnwound,
     CollectorResponds, CollectorPuts, CollectorTooSlow, CollectorCancelled,
     CollectorDone, Unwind
<1>5. CASE WriterNext
  <2>1. PeerCloses => \E code \in Codes : RequestClose(code)
    BY CodesAssumption DEF PeerCloses
  <2> QED
    BY <1>5, <2>1 DEF WriterNext, WriterTakes, WriterSends, WriterFails, WriterCancelled
<1>6. CASE EventsNext
  BY <1>6, CodesAssumption DEF EventsNext, EventEmits, EventPuts, EventTooSlow,
     EventsEnd, EventsCancelled
<1>7. CASE MainNext
  <2>1. ASSUME NEW code \in AppCodes, ConnectionCloses(code)
        PROVE  \E d \in Codes : RequestClose(d)
    BY <2>1, CodesAssumption DEF ConnectionCloses
  <2>2. CASE MainCloses
    BY <2>2 DEF MainCloses
  <2> QED
    BY <1>7, <2>1, <2>2 DEF MainNext, MainWakes, MainGathered, MainFlushed,
       MainFlushTimeout, ServingCancelled
<1>8. CASE DrainNext
  <2>1. CASE DrainStops
    BY <2>1 DEF DrainStops
  <2> QED
    BY <1>8, <2>1 DEF DrainNext, StartDraining, GracefulBegins, GracefulWaitsTasks,
       GracefulStopsReader, GracefulFlushes, GracefulCloses
<1> QED BY <1>1, <1>2, <1>3, <1>4, <1>5, <1>6, <1>7, <1>8 DEF Next, Terminated

\* The endpoint is marked closed by one step only, the end of _run_rpc_endpoint.
LEMMA ClosingStep ==
    ASSUME [Next]_vars, main # "closed", main' = "closed"
    PROVE  MainCloses
<1> USE DEF mainVars
<1>1. ASSUME NEW c \in Call, CallNext(c) PROVE main' = main
  BY <1>1 DEF CallNext, CallStart, CallDropped, CallFinish, CallInterrupted,
     CallLeaksCancel, CallFails, CallDone, EndCall, callRest
<1>2. ASSUME NEW f \in Frame, CollectorNext(f) PROVE main' = main
  BY <1>2 DEF CollectorNext, CollectorRaises, CollectorFails, RunsMiddleware, CollectorUnwound,
     CollectorResponds, CollectorPuts, CollectorTooSlow, CollectorCancelled,
     CollectorDone, Unwind,
     collRest, readerRest
<1>3. CASE ReaderNext
  BY <1>3 DEF ReaderNext, ReceiveFrame, ItemPing, EndFrame, ItemCancel, ItemRequest,
     ItemRefused, ReceiveUnusable, ReceiveFatal, ReceiveDisconnect, PeerCloses, readerRest
<1>4. CASE WriterNext \/ EventsNext
  BY <1>4 DEF WriterNext, WriterTakes, WriterSends, WriterFails, PeerCloses, WriterCancelled,
     EventsNext, EventEmits, EventPuts, EventTooSlow, EventsEnd, EventsCancelled,
     writerRest, eventRest
<1>5. CASE MainNext
  BY <1>5 DEF MainNext, MainWakes, MainGathered, MainFlushed, MainFlushTimeout,
     ServingCancelled, InterruptMain, ConnectionCloses, writerRest
<1>6. CASE DrainNext
  BY <1>6 DEF DrainNext, StartDraining, GracefulBegins, GracefulWaitsTasks,
     GracefulStopsReader, GracefulFlushes, GracefulCloses, DrainStops, InterruptMain,
     drainRest
<1>7. CASE UNCHANGED vars
  BY <1>7 DEF vars
<1> QED BY <1>1, <1>2, <1>3, <1>4, <1>5, <1>6, <1>7 DEF Next, Terminated

\* request_close keeps the first cause for every interleaving of reader, writer,
\* collectors, events, drain and application: no later failure overwrites it, and
\* it is the code of the close frame unless the peer closed first.
THEOREM CloseCauseCorrect == Spec => FirstCauseKept
<1>1. Init => CauseKnown
  BY DEF Init, CauseKnown
<1>2. CauseKnown /\ [Next]_vars => CauseKnown'
  BY CloseSteps DEF CauseKnown, RequestClose, Codes, NoCode
<1>3. ASSUME CauseKnown, [Next]_vars
      PROVE  [/\ closeEvent => closeEvent' /\ closeCode' = closeCode
              /\ closeCode # NoCode => closeCode' # NoCode
              /\ main' = "closed" /\ main # "closed" =>
                   closeFrame' = IF clientClosed THEN NoCode ELSE closeCode']_vars
  <2>1. closeEvent => closeEvent' /\ closeCode' = closeCode
    BY <1>3, CloseSteps DEF CauseKnown, RequestClose
  <2>2. closeCode # NoCode => closeCode' # NoCode
    BY <1>3, CloseSteps DEF RequestClose, Codes, NoCode
  <2>3. main' = "closed" /\ main # "closed" =>
          closeFrame' = IF clientClosed THEN NoCode ELSE closeCode'
    BY <1>3, ClosingStep DEF MainCloses
  <2> QED BY <2>1, <2>2, <2>3
<1> QED BY <1>1, <1>2, <1>3, PTL DEF Spec, FirstCauseKept

-----------------------------------------------------------------------------
\* A writer that ended is not sending, and a closed endpoint has no task left.
Joined ==
    /\ ~writerUp => sending = NoMsg
    /\ main = "closed" =>
         /\ reader = "stopped" /\ ~writerUp
         /\ \A c \in Call : call[c].task \in {"none", "retired"}
         /\ \A f \in Frame : coll[f].st \in {"none", "done"}

\* No step of a closed endpoint starts a task again.
LEMMA JoinedStays ==
    ASSUME TypeOK, Joined, [Next]_vars
    PROVE  Joined'
<1> USE DEF Joined
<1>1. CASE UNCHANGED vars
  BY <1>1 DEF vars, readerVars, callVars, collVars, queueVars, mainVars
<1>2. CASE ReaderNext
  <2>1. main # "closed"
    BY <1>2 DEF ReaderNext, ReceiveFrame, ItemPing, EndFrame, ItemCancel, ItemRequest,
       ItemRefused, ReceiveUnusable, ReceiveFatal, ReceiveDisconnect, PeerCloses, Admitting
  <2>2. UNCHANGED <<writerUp, sending, main>>
    BY <1>2 DEF ReaderNext, ReceiveFrame, ItemPing, EndFrame, ItemCancel, ItemRequest,
       ItemRefused, ReceiveUnusable, ReceiveFatal, ReceiveDisconnect, PeerCloses, readerRest,
       queueVars, mainVars
  <2> QED BY <2>1, <2>2
<1>3. ASSUME NEW c \in Call, CallNext(c) PROVE Joined'
  <2>1. call[c].task \in {"ready", "running", "finished"}
    BY <1>3 DEF CallNext, CallStart, CallDropped, CallFinish, CallInterrupted,
       CallLeaksCancel, CallFails, CallDone, EndCall
  <2>2. UNCHANGED <<writerUp, sending, main>>
    BY <1>3 DEF CallNext, CallStart, CallDropped, CallFinish, CallInterrupted,
       CallLeaksCancel, CallFails, CallDone, EndCall, callRest, queueVars, mainVars
  <2> QED BY <2>1, <2>2
<1>4. ASSUME NEW f \in Frame, CollectorNext(f) PROVE Joined'
  <2>1. coll[f].st \in {"collecting", "unwinding", "putting", "ended"}
    BY <1>4 DEF CollectorNext, CollectorRaises, CollectorFails, RunsMiddleware, CollectorUnwound,
       CollectorResponds, CollectorPuts, CollectorTooSlow, CollectorCancelled,
     CollectorDone
  <2>2. UNCHANGED <<writerUp, sending, main>>
    BY <1>4 DEF CollectorNext, CollectorRaises, CollectorFails, RunsMiddleware, CollectorUnwound,
       CollectorResponds, CollectorPuts, CollectorTooSlow, CollectorCancelled,
     CollectorDone, Unwind,
       collRest, readerRest, queueVars, mainVars
  <2> QED BY <2>1, <2>2
<1>5. CASE WriterNext
  <2>1. writerUp /\ (~writerUp' => sending' = NoMsg)
    BY <1>5 DEF WriterNext, WriterTakes, WriterSends, WriterFails, PeerCloses, WriterCancelled,
       TypeOK, QueueType
  <2>2. UNCHANGED main
    BY <1>5 DEF WriterNext, WriterTakes, WriterSends, WriterFails, PeerCloses, WriterCancelled,
       writerRest, mainVars
  <2> QED BY <2>1, <2>2
<1>6. CASE EventsNext
  BY <1>6 DEF EventsNext, EventEmits, EventPuts, EventTooSlow, EventsEnd,
     EventsCancelled, eventRest, readerVars, callVars, collVars, queueVars, mainVars
<1>7. CASE MainNext
  <2>1. UNCHANGED <<callVars, collVars, queueVars>>
    BY <1>7 DEF MainNext, MainWakes, MainGathered, MainFlushed, MainFlushTimeout,
       MainCloses, ServingCancelled, ConnectionCloses, mainRest, writerRest
  <2>2. CASE MainCloses
    BY <2>1, <2>2 DEF MainCloses, TasksJoined, LiveCollectors, callVars, collVars,
       queueVars, readerVars
  <2>3. CASE main' # "closed"
    BY <2>1, <2>3 DEF queueVars
  <2>4. CASE main = "closed" /\ UNCHANGED <<main, reader>>
    BY <2>1, <2>4 DEF queueVars, callVars, collVars
  <2> QED
    BY <1>7, <2>2, <2>3, <2>4 DEF MainNext, MainWakes, MainGathered, MainFlushed,
       MainFlushTimeout, ServingCancelled, InterruptMain, ConnectionCloses, writerRest,
       readerVars, mainVars
<1>8. CASE DrainNext
  <2>1. UNCHANGED <<callVars, collVars, queueVars>>
    BY <1>8 DEF DrainNext, StartDraining, GracefulBegins, GracefulWaitsTasks,
       GracefulStopsReader, GracefulFlushes, GracefulCloses, DrainStops, drainRest
  <2>2. main' = "closed" => main = "closed" /\ reader' \in {reader, "stopped"}
    BY <1>8 DEF DrainNext, StartDraining, GracefulBegins, GracefulWaitsTasks,
       GracefulStopsReader, GracefulFlushes, GracefulCloses, DrainStops, InterruptMain,
       drainRest, mainVars, readerVars
  <2> QED BY <2>1, <2>2 DEF queueVars, callVars, collVars
<1> QED BY <1>1, <1>2, <1>3, <1>4, <1>5, <1>6, <1>7, <1>8 DEF Next, Terminated

\* When the endpoint has closed the connection none of its tasks is left, and no
\* capacity or id is held, for every limit, fault and order of closing: the
\* finally blocks of _run_rpc_endpoint join everything they started.
THEOREM CloseJoins == Spec => []ClosedMeansJoined
<1>1. Init => Joined
  BY DEF Init, Joined
<1>2. TypeOK /\ Joined /\ [Next]_vars => Joined'
  BY JoinedStays
<1>3. ASSUME TypeOK, Joined, Admission PROVE ClosedMeansJoined
  <2> SUFFICES ASSUME main = "closed"
               PROVE  reservations = {} /\ \A k \in Ids : requests[k] = NoCall
    BY <1>3 DEF Joined, ClosedMeansJoined
  <2>1. \A c \in Call : ~InFlight(c)
    BY <1>3 DEF Joined, InFlight
  <2>2. reservations = {}
    BY <1>3, <2>1 DEF Admission, PendingExact, TypeOK, CallType
  <2>3. \A k \in Ids : requests[k] = NoCall
    BY <1>3, <2>1 DEF Admission, RegistryExact, TypeOK, CallType
  <2> QED BY <2>2, <2>3
<1> QED BY <1>1, <1>2, <1>3, TypeCorrect, AdmissionInvariant, PTL DEF Spec

(***************************************************************************)
(* Responses: the backlog stays bounded, an open connection loses no owed  *)
(* response, a normal close sends what is queued, and a drain answers      *)
(* every call before it closes.                                            *)
(***************************************************************************)

\* A close was requested or the serving task is on its way out.
Closing == closeEvent \/ Cancelling

\* The serving task leaves its wait only for a close or an outside cancellation;
\* a close cause or a dead writer exists only on a connection that is closing.
Woken ==
    /\ Cancelling => closeEvent \/ interrupted
    /\ closeCode # NoCode => Closing
    /\ ~writerUp => Closing

\* A finished drain is the only service_restart of an uncancelled endpoint whose
\* peer did not close.
RestartByDrain ==
    closeEvent' /\ ~closeEvent /\ closeCode' = "service_restart" =>
        GracefulCloses \/ clientClosed'

\* What a step does to the serving task: closing is final, so is an outside
\* cancellation, and both have a reason.
LEMMA ClosingSteps ==
    ASSUME TypeOK, Woken, [Next]_vars
    PROVE  /\ Woken'
           /\ Closing => Closing'
           /\ interrupted => interrupted'
           /\ clientClosed => clientClosed'
           /\ "service_restart" \notin AppCodes => RestartByDrain
<1> USE DEF Woken, Closing, Cancelling, RequestClose, CloseConnection, RestartByDrain
<1>1. CASE UNCHANGED vars
  BY <1>1 DEF vars, queueVars, closeVars, mainVars
<1>2. CASE ReaderNext
  <2>1. UNCHANGED <<writerUp, main, interrupted>>
    BY <1>2 DEF ReaderNext, ReceiveFrame, ItemPing, EndFrame, ItemCancel, ItemRequest,
       ItemRefused, ReceiveUnusable, ReceiveFatal, ReceiveDisconnect, PeerCloses, readerRest,
       queueVars, mainVars
  <2>2. \/ UNCHANGED <<closeEvent, closeCode, clientClosed>>
        \/ /\ closeEvent' /\ (clientClosed => clientClosed')
           /\ closeCode' # "service_restart" \/ closeEvent \/ clientClosed'
    BY <1>2 DEF ReaderNext, ReceiveFrame, ItemPing, EndFrame, ItemCancel, ItemRequest,
       ItemRefused, ReceiveUnusable, ReceiveFatal, ReceiveDisconnect, PeerCloses, closeVars
  <2> QED BY <2>1, <2>2
<1>3. ASSUME NEW c \in Call, CallNext(c)
      PROVE  UNCHANGED <<writerUp, main, interrupted, closeEvent, closeCode, clientClosed>>
  BY <1>3 DEF CallNext, CallStart, CallDropped, CallFinish, CallInterrupted,
     CallLeaksCancel, CallFails, CallDone, EndCall, callRest, queueVars, mainVars,
     closeVars
<1>4. ASSUME NEW f \in Frame, CollectorNext(f)
      PROVE  /\ UNCHANGED <<writerUp, main, interrupted>>
             /\ \/ UNCHANGED <<closeEvent, closeCode, clientClosed>>
                \/ /\ closeEvent' /\ (clientClosed => clientClosed')
                   /\ closeCode' # "service_restart" \/ closeEvent \/ clientClosed'
  <2>1. UNCHANGED <<writerUp, main, interrupted>>
    BY <1>4 DEF CollectorNext, CollectorRaises, CollectorFails, RunsMiddleware, CollectorUnwound,
       CollectorResponds, CollectorPuts, CollectorTooSlow, CollectorCancelled,
       CollectorDone, Unwind, collRest, readerRest, queueVars, mainVars
  <2>2. \/ UNCHANGED <<closeEvent, closeCode, clientClosed>>
        \/ /\ closeEvent' /\ (clientClosed => clientClosed')
           /\ closeCode' # "service_restart" \/ closeEvent \/ clientClosed'
    BY <1>4 DEF CollectorNext, CollectorRaises, CollectorFails, RunsMiddleware, CollectorUnwound,
       CollectorResponds, CollectorPuts, CollectorTooSlow, CollectorCancelled,
       CollectorDone, Unwind, closeVars
  <2> QED BY <2>1, <2>2
<1>5. CASE WriterNext
  BY <1>5 DEF WriterNext, WriterTakes, WriterSends, WriterFails, PeerCloses, WriterCancelled,
     writerRest, mainVars, closeVars
<1>6. CASE EventsNext
  BY <1>6, CodesAssumption DEF EventsNext, EventEmits, EventPuts, EventTooSlow,
     EventsEnd, EventsCancelled, eventRest, queueVars, mainVars, closeVars
<1>7. CASE MainNext
  <2>1. UNCHANGED writerUp
    BY <1>7 DEF MainNext, MainWakes, MainGathered, MainFlushed, MainFlushTimeout,
       MainCloses, ServingCancelled, ConnectionCloses, mainRest, queueVars
  <2>2. ASSUME NEW code \in AppCodes, ConnectionCloses(code)
        PROVE  /\ UNCHANGED <<main, interrupted, clientClosed>> /\ closeEvent'
               /\ \/ closeEvent \/ closeCode' = code
    BY <2>2 DEF ConnectionCloses, writerRest, mainVars
  <2>3. CASE MainCloses
    BY <2>1, <2>3 DEF MainCloses
  <2>4. CASE MainWakes \/ MainGathered \/ MainFlushed \/ MainFlushTimeout
    BY <2>1, <2>4 DEF MainWakes, MainGathered, MainFlushed, MainFlushTimeout, closeVars
  <2>5. CASE ServingCancelled
    BY <2>1, <2>5 DEF ServingCancelled, InterruptMain, closeVars
  <2> QED BY <1>7, <2>1, <2>2, <2>3, <2>4, <2>5 DEF MainNext
<1>8. CASE DrainNext
  <2>1. UNCHANGED writerUp
    BY <1>8 DEF DrainNext, StartDraining, GracefulBegins, GracefulWaitsTasks,
       GracefulStopsReader, GracefulFlushes, GracefulCloses, DrainStops, drainRest,
       queueVars
  <2>2. CASE DrainStops
    BY <2>1, <2>2 DEF DrainStops, InterruptMain
  <2>3. CASE GracefulCloses
    BY <2>1, <2>3 DEF GracefulCloses, drainRest, mainVars
  <2> QED
    BY <1>8, <2>1, <2>2, <2>3 DEF DrainNext, StartDraining, GracefulBegins,
       GracefulWaitsTasks, GracefulStopsReader, GracefulFlushes, drainRest, mainVars,
       closeVars
<1> QED BY <1>1, <1>2, <1>3, <1>4, <1>5, <1>6, <1>7, <1>8 DEF Next, Terminated

-----------------------------------------------------------------------------
\* Responses waiting to be collected: a step adds a collector only when there is
\* room, and then one under the next number.
LEMMA CollectorSteps ==
    ASSUME TypeOK, FrameRoom, [Next]_vars
    PROVE  \/ LiveCollectors' \subseteq LiveCollectors
           \/ /\ ~CollectorsFull /\ reader # "stopped"
              /\ LiveCollectors' \subseteq LiveCollectors \cup {nframes + 1}
<1>0. coll \in [Frame -> CollRecord]
  BY DEF TypeOK, CollType
<1>1. CASE UNCHANGED collVars
  BY <1>1 DEF collVars, LiveCollectors
<1>2. CASE ReaderNext
  <2>1. ASSUME NEW items, NEW ctrl, CreateCollector(items, ctrl)
        PROVE  LiveCollectors' \subseteq LiveCollectors \cup {nframes + 1}
    BY <2>1, <1>0 DEF CreateCollector, LiveCollectors
  <2>2. CASE EndFrame \/ ReceiveUnusable
    BY <2>1, <2>2 DEF EndFrame, ReceiveUnusable, Admitting, LiveCollectors, collVars
  <2> QED
    BY <1>1, <1>2, <2>2 DEF ReaderNext, ReceiveFrame, ItemPing, ItemCancel,
       ItemRequest, ItemRefused, ReceiveFatal, ReceiveDisconnect
<1>3. ASSUME NEW f \in Frame, CollectorNext(f)
      PROVE  LiveCollectors' \subseteq LiveCollectors
  <2>1. /\ coll[f].st \in {"collecting", "unwinding", "putting", "ended"}
        /\ \A g \in Frame \ {f} : coll'[g] = coll[g]
    BY <1>3, <1>0 DEF CollectorNext, CollectorRaises, CollectorFails, RunsMiddleware,
       CollectorUnwound, CollectorResponds, CollectorPuts, CollectorTooSlow,
       CollectorCancelled, CollectorDone, Unwind
  <2> QED BY <2>1 DEF LiveCollectors
<1>4. ASSUME NEW c \in Call, CallNext(c) PROVE UNCHANGED collVars
  BY <1>4 DEF CallNext, CallStart, CallDropped, CallFinish, CallInterrupted,
     CallLeaksCancel, CallFails, CallDone, EndCall, callRest
<1>5. CASE WriterNext \/ EventsNext
  <2>1. UNCHANGED collVars
    BY <1>5 DEF WriterNext, WriterTakes, WriterSends, WriterFails, PeerCloses, WriterCancelled,
       EventsNext, EventEmits, EventPuts, EventTooSlow, EventsEnd, EventsCancelled,
       writerRest, eventRest
  <2> QED BY <2>1, <1>1
<1>6. CASE MainNext \/ DrainNext
  <2>1. UNCHANGED collVars
    BY <1>6 DEF MainNext, MainWakes, MainGathered, MainFlushed, MainFlushTimeout,
       MainCloses, ServingCancelled, ConnectionCloses, mainRest, writerRest,
       DrainNext, StartDraining, GracefulBegins, GracefulWaitsTasks,
       GracefulStopsReader, GracefulFlushes, GracefulCloses, DrainStops, drainRest
  <2> QED BY <2>1, <1>1
<1>7. CASE UNCHANGED vars
  BY <1>1, <1>7 DEF vars
<1> QED BY <1>1, <1>2, <1>3, <1>4, <1>5, <1>6, <1>7 DEF Next, Terminated

\* A message enters the queue only when there is room.
LEMMA QueueSteps ==
    ASSUME TypeOK, [Next]_vars
    PROVE  \/ UNCHANGED outgoing
           \/ WriterTakes
           \/ /\ ~QueueFull /\ ~Cancelling
              /\ \E m \in Msg : outgoing' = Append(outgoing, m)
<1> USE DEF queueVars
<1>1. CASE UNCHANGED vars
  BY <1>1 DEF vars
<1>2. CASE ReaderNext
  BY <1>2 DEF ReaderNext, ReceiveFrame, ItemPing, EndFrame, ItemCancel, ItemRequest,
     ItemRefused, ReceiveUnusable, ReceiveFatal, ReceiveDisconnect, PeerCloses, readerRest
<1>3. ASSUME NEW c \in Call, CallNext(c) PROVE UNCHANGED outgoing
  BY <1>3 DEF CallNext, CallStart, CallDropped, CallFinish, CallInterrupted,
     CallLeaksCancel, CallFails, CallDone, EndCall, callRest
<1>4. ASSUME NEW f \in Frame, CollectorNext(f)
      PROVE  \/ UNCHANGED outgoing
             \/ ~QueueFull /\ ~Cancelling /\ outgoing' = Append(outgoing, f)
  BY <1>4 DEF CollectorNext, CollectorRaises, CollectorFails, RunsMiddleware, CollectorUnwound,
     CollectorResponds, CollectorPuts, CollectorTooSlow, CollectorCancelled,
     CollectorDone, Unwind, readerRest
<1>5. CASE WriterNext
  BY <1>5 DEF WriterNext, WriterSends, WriterFails, PeerCloses, WriterCancelled
<1>6. CASE EventsNext
  BY <1>6 DEF EventsNext, EventEmits, EventPuts, EventTooSlow, EventsEnd,
     EventsCancelled, Msg
<1>7. CASE MainNext \/ DrainNext
  BY <1>7 DEF MainNext, MainWakes, MainGathered, MainFlushed, MainFlushTimeout,
     MainCloses, ServingCancelled, ConnectionCloses, mainRest, DrainNext,
     StartDraining, GracefulBegins, GracefulWaitsTasks, GracefulStopsReader,
     GracefulFlushes, GracefulCloses, DrainStops, drainRest
<1> QED
  BY <1>1, <1>2, <1>3, <1>4, <1>5, <1>6, <1>7 DEF Next, Terminated, Msg

\* The backlog of the endpoint is bounded by its limits whatever the client sends
\* and however slowly it reads: schedule and send_outgoing never exceed
\* max_pending_requests + max_queue_size collectors and max_queue_size messages.
THEOREM BacklogCorrect == Spec => []BacklogBounded
<1>1. Init => BacklogBounded
  <2> SUFFICES ASSUME Init PROVE BacklogBounded
    OBVIOUS
  <2>1. LiveCollectors = {} /\ outgoing = <<>>
    BY DEF Init, NewColl, LiveCollectors
  <2>2. Cardinality({}) = 0 /\ Len(<<>>) = 0
    BY FS_EmptySet
  <2> QED BY <2>1, <2>2, LimitsAssumption DEF BacklogBounded
<1>2. ASSUME TypeOK, FrameRoom, BacklogBounded, [Next]_vars
      PROVE  BacklogBounded'
  <2>1. IsFiniteSet(LiveCollectors) /\ Cardinality(LiveCollectors) \in Nat
    <3>1. IsFiniteSet(Frame)
      BY FS_Interval, LimitsAssumption DEF Frame
    <3> QED BY <3>1, FS_Subset, FS_CardinalityType DEF LiveCollectors
  <2>2. Cardinality(LiveCollectors') <= MaxPending + MaxQueue
    <3>1. CASE LiveCollectors' \subseteq LiveCollectors
      <4>1. /\ Cardinality(LiveCollectors') <= Cardinality(LiveCollectors)
            /\ Cardinality(LiveCollectors') \in Nat
        BY <2>1, <3>1, FS_Subset, FS_CardinalityType
      <4> QED BY <1>2, <2>1, <4>1, LimitsAssumption DEF BacklogBounded
    <3>2. CASE /\ ~CollectorsFull
               /\ LiveCollectors' \subseteq LiveCollectors \cup {nframes + 1}
      <4>1. PICK L : L = LiveCollectors \cup {nframes + 1}
        OBVIOUS
      <4>2. IsFiniteSet(L) /\ Cardinality(L) <= Cardinality(LiveCollectors) + 1
        BY <2>1, <4>1, FS_AddElement
      <4>3. /\ Cardinality(LiveCollectors') <= Cardinality(L)
            /\ Cardinality(LiveCollectors') \in Nat /\ Cardinality(L) \in Nat
        BY <3>2, <4>1, <4>2, FS_Subset, FS_CardinalityType
      <4>4. Cardinality(LiveCollectors) < MaxPending + MaxQueue
        BY <2>1, <3>2, LimitsAssumption DEF CollectorsFull
      <4> QED BY <2>1, <4>2, <4>3, <4>4, LimitsAssumption
    <3> QED BY <1>2, <3>1, <3>2, CollectorSteps
  <2>3. Len(outgoing') <= MaxQueue
    <3>1. outgoing \in Seq(Msg)
      BY <1>2 DEF TypeOK, QueueType
    <3>2. CASE UNCHANGED outgoing
      BY <1>2, <3>2 DEF BacklogBounded
    <3>3. CASE WriterTakes
      <4>1. Len(outgoing') = Len(outgoing) - 1 /\ Len(outgoing) \in Nat
        BY <3>1, <3>3 DEF WriterTakes
      <4> QED BY <1>2, <4>1, LimitsAssumption DEF BacklogBounded
    <3>4. ASSUME ~QueueFull, NEW m \in Msg, outgoing' = Append(outgoing, m)
          PROVE  Len(outgoing') <= MaxQueue
      <4>1. Len(outgoing') = Len(outgoing) + 1 /\ Len(outgoing) \in Nat
        BY <3>1, <3>4
      <4> QED BY <3>4, <4>1, LimitsAssumption DEF QueueFull
    <3> QED BY <1>2, <3>2, <3>3, <3>4, QueueSteps
  <2> QED BY <2>2, <2>3 DEF BacklogBounded
<1>3. Spec => [](TypeOK /\ FrameRoom)
  <2>1. Init => TypeOK /\ FrameRoom
    BY InitTypes
  <2>2. TypeOK /\ FrameRoom /\ [Next]_vars => (TypeOK /\ FrameRoom)'
    BY NextTypes
  <2> QED BY <2>1, <2>2, PTL DEF Spec
<1> QED BY <1>1, <1>2, <1>3, PTL DEF Spec

-----------------------------------------------------------------------------
\* How the serving task reaches its finally blocks, and what stays once a reason
\* to skip the flush exists.
LEMMA FinallySteps ==
    ASSUME TypeOK, [Next]_vars
    PROVE  /\ main # "finally" /\ main' = "finally" =>
                MainGathered \/ MainFlushed \/ MainFlushTimeout \/ interrupted'
           /\ gaveUp => gaveUp'
           /\ ~writerUp => ~writerUp'
           /\ main = "finally" => sending' \in {sending, NoMsg}
<1> USE DEF mainVars, queueVars
<1>1. CASE UNCHANGED vars
  BY <1>1 DEF vars
<1>2. ASSUME ReaderNext PROVE UNCHANGED <<main, gaveUp, writerUp, sending>>
  BY <1>2 DEF ReaderNext, ReceiveFrame, ItemPing, EndFrame, ItemCancel, ItemRequest,
     ItemRefused, ReceiveUnusable, ReceiveFatal, ReceiveDisconnect, PeerCloses, readerRest
<1>3. ASSUME NEW c \in Call, CallNext(c) PROVE UNCHANGED <<main, gaveUp, writerUp, sending>>
  BY <1>3 DEF CallNext, CallStart, CallDropped, CallFinish, CallInterrupted,
     CallLeaksCancel, CallFails, CallDone, EndCall, callRest
<1>4. ASSUME NEW f \in Frame, CollectorNext(f)
      PROVE  UNCHANGED <<main, gaveUp, writerUp, sending>>
  BY <1>4 DEF CollectorNext, CollectorRaises, CollectorFails, RunsMiddleware, CollectorUnwound,
     CollectorResponds, CollectorPuts, CollectorTooSlow, CollectorCancelled,
     CollectorDone, Unwind, collRest, readerRest
<1>5. CASE WriterNext \/ EventsNext
  BY <1>5 DEF WriterNext, WriterTakes, WriterSends, WriterFails, PeerCloses, WriterCancelled,
     EventsNext, EventEmits, EventPuts, EventTooSlow, EventsEnd, EventsCancelled,
     writerRest, eventRest
<1>6. CASE MainNext
  BY <1>6 DEF MainNext, MainWakes, MainGathered, MainFlushed, MainFlushTimeout,
     MainCloses, ServingCancelled, InterruptMain, ConnectionCloses, mainRest, writerRest
<1>7. CASE DrainNext
  BY <1>7 DEF DrainNext, StartDraining, GracefulBegins, GracefulWaitsTasks,
     GracefulStopsReader, GracefulFlushes, GracefulCloses, DrainStops, InterruptMain,
     drainRest
<1> QED BY <1>1, <1>2, <1>3, <1>4, <1>5, <1>6, <1>7 DEF Next, Terminated

\* Woken holds at the start and stays.
LEMMA WokenInvariant == Spec => []Woken
<1>1. Init => Woken
  BY DEF Init, Woken, Cancelling
<1>2. TypeOK /\ Woken /\ [Next]_vars => Woken'
  BY ClosingSteps
<1> QED BY <1>1, <1>2, TypeCorrect, PTL DEF Spec

\* A close with NORMAL or SHUTDOWN, the peer's own included, has sent everything
\* queued and the message in the writer's hands when the writer is cancelled, for
\* every order of closing, unless the writer failed, the flush
\* timed out or the serving task was cancelled: _flush runs before the finally.
THEOREM NormalCloseCorrect == Spec => []NormalCloseFlushes
<1>1. Init => NormalCloseFlushes
  BY DEF Init, NormalCloseFlushes
<1>2. ASSUME TypeOK, Woken, CauseKnown, NormalCloseFlushes, [Next]_vars
      PROVE  NormalCloseFlushes'
  <2> SUFFICES ASSUME main' = "finally", closeCode' \in {"normal", "shutdown"},
                      closeEvent', ~interrupted', ~gaveUp', writerUp'
               PROVE  outgoing' = <<>> /\ sending' = NoMsg
    BY DEF NormalCloseFlushes
  <2>1. ~interrupted /\ ~gaveUp /\ writerUp
    BY <1>2, ClosingSteps, FinallySteps
  <2>2. CASE main = "finally"
    <3>1. closeEvent
      BY <1>2, <2>1, <2>2 DEF Woken, Cancelling
    <3>2. closeCode' = closeCode
      BY <1>2, <3>1, CloseSteps DEF CauseKnown, RequestClose
    <3>3. outgoing = <<>> /\ sending = NoMsg
      BY <1>2, <2>1, <2>2, <3>1, <3>2 DEF NormalCloseFlushes
    <3>4. outgoing' = outgoing /\ sending' \in {sending, NoMsg}
      BY <1>2, <2>2, QueueSteps, FinallySteps DEF WriterTakes, Cancelling
    <3> QED BY <3>3, <3>4
  <2>3. CASE main # "finally"
    <3>1. MainGathered \/ MainFlushed \/ MainFlushTimeout
      BY <1>2, <2>3, FinallySteps
    <3>2. ~MainGathered
      BY <2>1 DEF MainGathered, FlushCodes, closeVars
    <3>3. ~MainFlushTimeout
      BY DEF MainFlushTimeout
    <3>4. MainFlushed
      BY <3>1, <3>2, <3>3
    <3> QED BY <2>1, <3>4 DEF MainFlushed, Flushed, mainRest, queueVars
  <2> QED BY <2>2, <2>3
<1>3. Init => CauseKnown
  BY DEF Init, CauseKnown
<1>4. CauseKnown /\ [Next]_vars => CauseKnown'
  BY CloseSteps DEF CauseKnown, RequestClose, Codes, NoCode
<1> QED BY <1>1, <1>2, <1>3, <1>4, TypeCorrect, WokenInvariant, PTL DEF Spec

-----------------------------------------------------------------------------
\* A call belongs to the frame that is being admitted or to the collector of one
\* frame, never to two of them.
Apart ==
    /\ \A c \in cur.items : c <= ncalls
    /\ reader # "admitting" => cur.items = {}
    /\ \A f \in Frame :
         /\ f > nframes => coll[f].st = "none"
         /\ coll[f].st = "none" => coll[f].items = {}
         /\ \A c \in coll[f].items : c <= ncalls /\ c \notin cur.items
    /\ \A f, g \in Frame : f # g => coll[f].items \cap coll[g].items = {}

\* What most steps do to frames: none appears and none changes its calls.
FramesKept ==
    /\ UNCHANGED <<ncalls, nframes>>
    /\ \A f \in Frame :
         /\ coll'[f].items = coll[f].items /\ coll'[f].ctrl = coll[f].ctrl
         /\ coll'[f].st = "none" <=> coll[f].st = "none"
         /\ coll'[f].st = "collecting" => coll[f].st = "collecting"
    /\ cur'.items \in {cur.items, {}}
    /\ reader' # "admitting" => cur'.items = {}
    /\ reader = "stopped" => reader' = "stopped"

\* Only the reader makes calls and collectors.
LEMMA FrameSteps ==
    ASSUME TypeOK, Apart, [Next]_vars
    PROVE  \/ \E i \in Items : ItemRequest(i)
           \/ EndFrame \/ ReceiveUnusable
           \/ FramesKept
<1>0. coll \in [Frame -> CollRecord]
  BY DEF TypeOK, CollType
<1> USE DEF FramesKept
<1>1. ASSUME UNCHANGED <<ncalls, collVars, cur>>,
             reader' \in {reader, "stopped"}, reader' = reader \/ ~Admitting
      PROVE  FramesKept
  BY <1>1 DEF collVars, Apart, Admitting
<1>2. CASE ReaderNext
  <2>1. CASE ReceiveFrame
    BY <2>1 DEF ReceiveFrame, collVars, callVars, NoFrame
  <2>2. CASE ItemPing
    BY <2>2 DEF ItemPing, NextItem, Admitting, collVars, callVars
  <2>3. ASSUME NEW k \in Ids, ItemCancel(k) PROVE FramesKept
    BY <2>3 DEF ItemCancel, NextItem, Admitting, collVars
  <2>4. ASSUME NEW i \in Items, ItemRefused(i) PROVE FramesKept
    BY <2>4 DEF ItemRefused, Admitting, collVars, callVars, NoFrame
  <2>5. CASE ReceiveFatal \/ ReceiveDisconnect
    BY <1>1, <2>5 DEF ReceiveFatal, ReceiveDisconnect, PeerCloses, Admitting, callVars
  <2> QED BY <1>2, <2>1, <2>2, <2>3, <2>4, <2>5 DEF ReaderNext
<1>3. ASSUME NEW c \in Call, CallNext(c) PROVE FramesKept
  <2>1. UNCHANGED <<ncalls, collVars, cur, reader>>
    BY <1>3 DEF CallNext, CallStart, CallDropped, CallFinish, CallInterrupted,
       CallLeaksCancel, CallFails, CallDone, EndCall, callRest, readerVars
  <2> QED BY <1>1, <2>1
<1>4. ASSUME NEW f \in Frame, CollectorNext(f) PROVE FramesKept
  <2>1. UNCHANGED <<ncalls, nframes, cur, reader>>
    BY <1>4 DEF CollectorNext, CollectorRaises, CollectorFails, RunsMiddleware, CollectorUnwound,
       CollectorResponds, CollectorPuts, CollectorTooSlow, CollectorCancelled,
       CollectorDone, Unwind, collRest, readerVars, callVars
  <2> DEFINE OthersKept ==
               /\ \A g \in Frame \ {f} : coll'[g] = coll[g]
               /\ coll'[f].items = coll[f].items /\ coll'[f].ctrl = coll[f].ctrl
               /\ coll'[f].st \notin {"none", "collecting"} /\ coll[f].st # "none"
  <2>2. OthersKept
    <3> USE <1>0 DEF CollRecord
    <3>1. ASSUME NEW r, Unwind(f, r), coll[f].st = "collecting" PROVE OthersKept
      BY <3>1 DEF Unwind
    <3>2. CASE CollectorUnwound(f)
      BY <3>2 DEF CollectorUnwound
    <3>3. CASE CollectorResponds(f)
      BY <3>3 DEF CollectorResponds
    <3>4. CASE CollectorPuts(f) \/ CollectorTooSlow(f) \/ CollectorCancelled(f)
      BY <3>4 DEF CollectorPuts, CollectorTooSlow, CollectorCancelled
    <3>5. CASE CollectorDone(f)
      BY <3>5 DEF CollectorDone
    <3> QED
      BY <1>4, <3>1, <3>2, <3>3, <3>4, <3>5
         DEF CollectorNext, CollectorRaises, CollectorFails, RunsMiddleware
  <2> QED BY <2>1, <2>2 DEF Apart
<1>5. CASE WriterNext \/ EventsNext
  <2>1. UNCHANGED <<ncalls, collVars, cur, reader>>
    BY <1>5 DEF WriterNext, WriterTakes, WriterSends, WriterFails, PeerCloses, WriterCancelled,
       EventsNext, EventEmits, EventPuts, EventTooSlow, EventsEnd, EventsCancelled,
       writerRest, eventRest, readerVars, callVars
  <2> QED BY <1>1, <2>1
<1>6. CASE MainNext \/ DrainNext
  <2>1. UNCHANGED <<ncalls, collVars, cur>>
    BY <1>6 DEF MainNext, MainWakes, MainGathered, MainFlushed, MainFlushTimeout,
       MainCloses, ServingCancelled, ConnectionCloses, mainRest, writerRest,
       DrainNext, StartDraining, GracefulBegins, GracefulWaitsTasks,
       GracefulStopsReader, GracefulFlushes, GracefulCloses, DrainStops, drainRest,
       readerVars, callVars
  <2>2. reader' \in {reader, "stopped"} /\ (reader' = reader \/ ~Admitting)
    BY <1>6 DEF MainNext, MainWakes, MainGathered, MainFlushed, MainFlushTimeout,
       MainCloses, ServingCancelled, ConnectionCloses, InterruptMain, writerRest,
       DrainNext, StartDraining, GracefulBegins, GracefulWaitsTasks,
       GracefulStopsReader, GracefulFlushes, GracefulCloses, DrainStops,
       readerVars
  <2> QED BY <1>1, <2>1, <2>2
<1>7. CASE UNCHANGED vars
  BY <1>1, <1>7 DEF vars, readerVars, callVars
<1> QED BY <1>2, <1>3, <1>4, <1>5, <1>6, <1>7 DEF Next, Terminated

\* The new collector of a frame is a collecting one under the next number.
LEMMA NewCollector ==
    ASSUME TypeOK, Apart, nframes < MaxFrames, NEW items \in SUBSET Call,
           NEW ctrl \in Controls, CreateCollector(items, ctrl)
    PROVE  /\ nframes' = nframes + 1 /\ nframes' \in Frame
           /\ coll'[nframes'].st = "collecting" /\ coll'[nframes'].items = items
           /\ coll[nframes'].st = "none"
           /\ \A f \in Frame \ {nframes'} : coll'[f] = coll[f]
<1>1. nframes + 1 \in Frame /\ nframes + 1 > nframes
  BY LimitsAssumption DEF TypeOK, CollType, Frame
<1>2. coll \in [Frame -> CollRecord]
  BY DEF TypeOK, CollType
<1>3. coll[nframes + 1].st = "none"
  BY <1>1 DEF Apart
<1> QED BY <1>1, <1>2, <1>3 DEF CreateCollector

\* Calls stay apart.
LEMMA ApartStays ==
    ASSUME TypeOK, FrameRoom, Apart, [Next]_vars
    PROVE  Apart'
<1>0. /\ ncalls \in Nat /\ nframes \in Nat /\ Frame \subseteq Nat /\ Call \subseteq Nat
      /\ coll \in [Frame -> CollRecord]
      /\ \A f \in Frame : coll[f].items \subseteq Call
      /\ cur.items \subseteq Call /\ cur.ctrl \in Controls
  BY LimitsAssumption DEF TypeOK, CallType, CollType, ReaderType, CollRecord, Frame, Call
<1>1. CASE FramesKept
  BY <1>0, <1>1 DEF FramesKept, Apart
<1>2. ASSUME NEW i \in Items, ItemRequest(i) PROVE Apart'
  <2>1. /\ cur'.items = cur.items \cup {ncalls + 1} /\ ncalls' = ncalls + 1
        /\ UNCHANGED <<coll, nframes, reader>> /\ reader = "admitting"
    BY <1>2 DEF ItemRequest, CreateCall, NextItem, collVars, Admitting
  <2>2. ASSUME NEW f \in Frame, NEW c \in coll[f].items
        PROVE  c <= ncalls + 1 /\ c # ncalls + 1
    <3>1. c \in Nat /\ c <= ncalls
      BY <1>0 DEF Apart
    <3> QED BY <1>0, <3>1
  <2>3. ASSUME NEW c \in cur'.items PROVE c <= ncalls'
    <3>1. c \in cur.items \/ c = ncalls + 1
      BY <2>1
    <3>2. c \in cur.items => c \in Nat /\ c <= ncalls
      BY <1>0 DEF Apart
    <3> QED BY <1>0, <2>1, <3>1, <3>2
  <2> QED BY <1>0, <2>1, <2>2, <2>3 DEF Apart
<1>3. ASSUME NEW items \in SUBSET Call, NEW ctrl \in Controls, nframes < MaxFrames,
             CreateCollector(items, ctrl), items \subseteq cur.items, cur'.items = {},
             ncalls' = ncalls
      PROVE  Apart'
  <2>1. /\ nframes' = nframes + 1 /\ nframes' \in Frame
        /\ coll'[nframes'].st = "collecting" /\ coll'[nframes'].items = items
        /\ \A f \in Frame \ {nframes'} : coll'[f] = coll[f]
    BY <1>3, NewCollector
  <2>2. \A c \in items : c <= ncalls /\ \A f \in Frame : c \notin coll[f].items
    BY <1>3 DEF Apart
  <2>3. ASSUME NEW f \in Frame
        PROVE  /\ f > nframes' => coll'[f].st = "none"
               /\ coll'[f].st = "none" => coll'[f].items = {}
               /\ \A c \in coll'[f].items : c <= ncalls
    <3>1. CASE f = nframes'
      <4>1. nframes + 1 \in Nat /\ ~(nframes + 1 > nframes + 1)
        BY <1>0
      <4> QED BY <2>1, <2>2, <3>1, <4>1
    <3>2. CASE f # nframes'
      <4>1. coll'[f] = coll[f] /\ (f > nframes' => f > nframes)
        BY <1>0, <2>1, <3>2
      <4> QED BY <4>1 DEF Apart
    <3> QED BY <3>1, <3>2
  <2>4. ASSUME NEW f \in Frame, NEW g \in Frame, f # g
        PROVE  coll'[f].items \cap coll'[g].items = {}
    BY <2>1, <2>2, <2>4 DEF Apart
  <2> QED BY <1>3, <2>3, <2>4 DEF Apart
<1>4. CASE EndFrame
  <2>1. cur'.items = {} /\ reader' # "admitting" /\ ncalls' = ncalls /\ nframes < MaxFrames
    BY <1>4 DEF EndFrame, NoFrame, callVars, FrameRoom
  <2>2. CASE UNCHANGED coll /\ nframes' \in {nframes, nframes + 1}
    <3>1. \A f \in Frame : f > nframes' => f > nframes
      BY <1>0, <2>2
    <3> QED BY <2>1, <2>2, <3>1 DEF Apart
  <2>3. CASE CreateCollector(cur.items, cur.ctrl)
    BY <1>0, <1>3, <2>1, <2>3
  <2> QED BY <1>4, <2>2, <2>3 DEF EndFrame, collVars
<1>5. CASE ReceiveUnusable
  <2>1. /\ UNCHANGED <<cur, ncalls>> /\ reader = "receiving" /\ nframes < MaxFrames
        /\ reader' # "admitting" /\ cur.items = {}
    BY <1>5 DEF ReceiveUnusable, callVars, Apart
  <2>2. CASE UNCHANGED collVars
    BY <2>1, <2>2 DEF Apart, collVars
  <2>3. CASE CreateCollector({}, "failure")
    BY <1>3, <2>1, <2>3 DEF Controls
  <2> QED BY <1>5, <2>2, <2>3 DEF ReceiveUnusable
<1> QED BY <1>1, <1>2, <1>4, <1>5, FrameSteps

-----------------------------------------------------------------------------
\* A call has an outcome once it ended, and only a call that owes nothing is silent.
OutcomeOK(q) ==
    /\ q.task \in {"none", "ready", "running"} => q.outcome = "none"
    /\ q.task \in {"finished", "retired"} => q.outcome # "none"
    /\ q.task \in {"none", "ready"} => ~q.started
    /\ q.outcome = "silent" => ~q.owes

\* On an open connection a call is cancelled by the collector of its frame, or by
\* its client before it started.
Blameless(q) ==
    q.outcome = "cancelled" => q.killed \/ (q.cancelRequested /\ ~q.started)

Outcomes ==
    /\ \A c \in Call : OutcomeOK(call[c])
    /\ ~Closing => \A c \in Call : Blameless(call[c])

\* What a step may do to a call that exists.
Settles(q, r) ==
    /\ r.owes = q.owes
    /\ q.outcome # "none" => r.outcome = q.outcome
    /\ q.task # "none" <=> r.task # "none"
    /\ q.task \in {"finished", "retired"} => r.task \in {"finished", "retired"}

\* No step forgets what a call owes or changes how it ended.
LEMMA OutcomeSteps ==
    ASSUME TypeOK, Woken, Outcomes, [Next]_vars
    PROVE  /\ Outcomes'
           /\ \/ \E i \in Items : ItemRequest(i)
              \/ \A c \in Call : Settles(call[c], call'[c])
<1>0. call \in [Call -> CallRecord]
  BY DEF TypeOK, CallType
<1>1. Closing => Closing'
  BY ClosingSteps
<1>2. \A q \in CallRecord : Settles(q, q)
  BY DEF Settles
<1>3. ASSUME UNCHANGED call
      PROVE  Outcomes' /\ \A c \in Call : Settles(call[c], call'[c])
  BY <1>0, <1>1, <1>2, <1>3 DEF Outcomes
<1>4. ASSUME NEW d \in Call, NEW r \in CallRecord, call' = [call EXCEPT ![d] = r],
             OutcomeOK(r), ~Closing' => Blameless(r), Settles(call[d], r)
      PROVE  Outcomes' /\ \A c \in Call : Settles(call[c], call'[c])
  BY <1>0, <1>1, <1>2, <1>4 DEF Outcomes
<1>5. ASSUME NEW i \in Items, ItemRequest(i) PROVE Outcomes'
  <2>1. ncalls + 1 \in Call
    BY <1>5, LimitsAssumption DEF ItemRequest, TypeOK, CallType, Call
  <2>2. /\ call'[ncalls + 1].task = "ready" /\ call'[ncalls + 1].outcome = "none"
        /\ ~call'[ncalls + 1].started
        /\ \A c \in Call \ {ncalls + 1} : call'[c] = call[c]
    BY <1>0, <1>5, <2>1 DEF ItemRequest, CreateCall
  <2>3. OutcomeOK(call'[ncalls + 1]) /\ Blameless(call'[ncalls + 1])
    BY <2>2 DEF OutcomeOK, Blameless
  <2> QED BY <1>1, <2>2, <2>3 DEF Outcomes
<1>6. ASSUME NEW k \in Ids, ItemCancel(k)
      PROVE  Outcomes' /\ \A c \in Call : Settles(call[c], call'[c])
  <2>1. CASE UNCHANGED call
    BY <1>3, <2>1
  <2>2. CASE call' # call
    <3> DEFINE d == requests[k]
               r == [call[d] EXCEPT !.cancelRequested = TRUE]
    <3>1. d \in Call /\ ~Ended(d) /\ call' = [call EXCEPT ![d].cancelRequested = TRUE]
      BY <1>6, <2>2 DEF ItemCancel, TypeOK, CallType
    <3>2. call[d] \in CallRecord /\ OutcomeOK(call[d])
      BY <1>0, <3>1 DEF Outcomes
    <3>3. call[d].task \in {"none", "ready", "running"}
      BY <3>1, <3>2 DEF Ended, CallRecord
    <3>4. /\ r \in CallRecord /\ r.task = call[d].task /\ r.outcome = call[d].outcome
          /\ r.owes = call[d].owes /\ r.started = call[d].started
      BY <3>2 DEF CallRecord
    <3>5. call' = [call EXCEPT ![d] = r]
      BY <1>0, <3>1
    <3> HIDE DEF d, r
    <3>6. OutcomeOK(r) /\ Blameless(r) /\ Settles(call[d], r)
      BY <3>2, <3>3, <3>4 DEF OutcomeOK, Blameless, Settles
    <3> QED BY <1>4, <3>1, <3>4, <3>5, <3>6
  <2> QED BY <2>1, <2>2
<1>7. ASSUME NEW d \in Call, CallNext(d)
      PROVE  Outcomes' /\ \A c \in Call : Settles(call[c], call'[c])
  <2>0. call[d] \in CallRecord /\ OutcomeOK(call[d]) /\ (~Closing => Blameless(call[d]))
    BY <1>0 DEF Outcomes
  <2>1. CASE CallStart(d)
    <3> DEFINE r == [call[d] EXCEPT !.task = "running", !.started = TRUE]
    <3>1. call[d].task = "ready" /\ call' = [call EXCEPT ![d] = r]
      BY <1>0, <2>1 DEF CallStart
    <3>2. /\ r \in CallRecord /\ r.task = "running" /\ r.outcome = call[d].outcome
          /\ r.owes = call[d].owes
      BY <2>0 DEF CallRecord
    <3> HIDE DEF r
    <3>3. OutcomeOK(r) /\ Blameless(r) /\ Settles(call[d], r)
      BY <2>0, <3>1, <3>2 DEF OutcomeOK, Blameless, Settles
    <3> QED BY <1>4, <3>1, <3>2, <3>3
  <2>2. CASE CallDropped(d)
    <3> DEFINE r == [call[d] EXCEPT !.task = "finished", !.outcome = "cancelled"]
    <3>1. /\ call[d].task = "ready" /\ call' = [call EXCEPT ![d] = r]
          /\ Cancelling \/ call[d].cancelRequested \/ call[d].killed
      BY <1>0, <2>2 DEF CallDropped, Interrupted
    <3>2. /\ r \in CallRecord /\ r.task = "finished" /\ r.outcome = "cancelled"
          /\ r.owes = call[d].owes /\ r.started = call[d].started
          /\ r.killed = call[d].killed /\ r.cancelRequested = call[d].cancelRequested
      BY <2>0 DEF CallRecord
    <3> HIDE DEF r
    <3>3. OutcomeOK(r) /\ Settles(call[d], r)
      BY <2>0, <3>1, <3>2 DEF OutcomeOK, Settles
    <3>4. ~Closing' => Blameless(r)
      BY <1>1, <2>0, <3>1, <3>2 DEF OutcomeOK, Blameless, Closing
    <3> QED BY <1>4, <3>1, <3>2, <3>3, <3>4
  <2>3. ASSUME NEW o \in {"answer", "silent", "cancelled", "leaked", "error"},
               EndCall(d, o), o = "silent" => ~call[d].owes,
               o = "cancelled" => Closing \/ call[d].killed
        PROVE  Outcomes' /\ \A c \in Call : Settles(call[c], call'[c])
    <3> DEFINE r == [call[d] EXCEPT !.task = "finished", !.outcome = o]
    <3>1. call[d].task = "running" /\ call' = [call EXCEPT ![d] = r]
      BY <1>0, <2>3 DEF EndCall
    <3>2. /\ r \in CallRecord /\ r.task = "finished" /\ r.outcome = o
          /\ r.owes = call[d].owes /\ r.killed = call[d].killed
      BY <2>0 DEF CallRecord
    <3> HIDE DEF r
    <3>3. OutcomeOK(r) /\ Settles(call[d], r)
      BY <2>0, <2>3, <3>1, <3>2 DEF OutcomeOK, Settles
    <3>4. ~Closing' => Blameless(r)
      BY <1>1, <2>3, <3>2 DEF Blameless
    <3> QED BY <1>4, <3>1, <3>2, <3>3, <3>4
  <2>4. CASE CallFinish(d)
    BY <2>3, <2>4 DEF CallFinish
  <2>5. CASE CallInterrupted(d)
    <3>1. Closing \/ call[d].killed
      BY <2>5 DEF CallInterrupted, Closing, Woken
    <3> QED BY <2>3, <2>5, <3>1 DEF CallInterrupted
  <2>6. CASE CallLeaksCancel(d) \/ CallFails(d)
    BY <2>3, <2>6 DEF CallLeaksCancel, CallFails
  <2>7. CASE CallDone(d)
    <3> DEFINE r == [call[d] EXCEPT !.task = "retired"]
    <3>1. call[d].task = "finished" /\ call' = [call EXCEPT ![d] = r]
      BY <1>0, <2>7 DEF CallDone
    <3>2. /\ r \in CallRecord /\ r.task = "retired" /\ r.outcome = call[d].outcome
          /\ r.owes = call[d].owes /\ r.started = call[d].started
          /\ r.killed = call[d].killed /\ r.cancelRequested = call[d].cancelRequested
      BY <2>0 DEF CallRecord
    <3> HIDE DEF r
    <3>3. OutcomeOK(r) /\ Settles(call[d], r)
      BY <2>0, <3>1, <3>2 DEF OutcomeOK, Settles
    <3>4. ~Closing' => Blameless(r)
      BY <1>1, <2>0, <3>2 DEF Blameless
    <3> QED BY <1>4, <3>1, <3>2, <3>3, <3>4
  <2> QED BY <1>7, <2>1, <2>2, <2>4, <2>5, <2>6, <2>7 DEF CallNext
<1>8. ASSUME NEW f \in Frame, CollectorNext(f)
      PROVE  Outcomes' /\ \A c \in Call : Settles(call[c], call'[c])
  <2>1. ASSUME NEW x, Unwind(f, x)
        PROVE  Outcomes' /\ \A c \in Call : Settles(call[c], call'[c])
    <3>1. ASSUME NEW c \in Call
          PROVE  /\ OutcomeOK(call'[c]) /\ (~Closing => Blameless(call'[c]))
                 /\ Settles(call[c], call'[c])
      <4>1. call[c] \in CallRecord /\ OutcomeOK(call[c]) /\ (~Closing => Blameless(call[c]))
        BY <1>0 DEF Outcomes
      <4>2. call'[c] = call[c] \/ call'[c] = [call[c] EXCEPT !.killed = TRUE]
        BY <2>1 DEF Unwind
      <4>3. /\ call'[c].task = call[c].task /\ call'[c].outcome = call[c].outcome
            /\ call'[c].owes = call[c].owes /\ call'[c].started = call[c].started
            /\ call'[c].cancelRequested = call[c].cancelRequested
            /\ call[c].killed => call'[c].killed
        BY <4>1, <4>2 DEF CallRecord
      <4> QED BY <4>1, <4>3 DEF OutcomeOK, Blameless, Settles
    <3> QED BY <1>1, <3>1 DEF Outcomes
  <2>2. UNCHANGED call \/ \E x : Unwind(f, x)
    BY <1>8 DEF CollectorNext, CollectorRaises, CollectorFails, RunsMiddleware, CollectorUnwound,
       CollectorResponds, CollectorPuts, CollectorTooSlow, CollectorCancelled,
       CollectorDone, callVars
  <2> QED BY <1>3, <2>1, <2>2
<1>9. CASE ReaderNext
  <2>1. \/ \E i \in Items : ItemRequest(i)
        \/ \E k \in Ids : ItemCancel(k)
        \/ UNCHANGED call
    BY <1>9 DEF ReaderNext, ReceiveFrame, ItemPing, EndFrame, ItemRefused,
       ReceiveUnusable, ReceiveFatal, ReceiveDisconnect, PeerCloses, callVars
  <2> QED BY <1>3, <1>5, <1>6, <2>1
<1>10. CASE WriterNext \/ EventsNext
  <2>1. UNCHANGED call
    BY <1>10 DEF WriterNext, WriterTakes, WriterSends, WriterFails, PeerCloses, WriterCancelled,
       EventsNext, EventEmits, EventPuts, EventTooSlow, EventsEnd, EventsCancelled,
       writerRest, eventRest, callVars
  <2> QED BY <1>3, <2>1
<1>11. CASE MainNext \/ DrainNext
  <2>1. UNCHANGED call
    BY <1>11 DEF MainNext, MainWakes, MainGathered, MainFlushed, MainFlushTimeout,
       MainCloses, ServingCancelled, ConnectionCloses, mainRest, writerRest,
       DrainNext, StartDraining, GracefulBegins, GracefulWaitsTasks,
       GracefulStopsReader, GracefulFlushes, GracefulCloses, DrainStops, drainRest,
       callVars
  <2> QED BY <1>3, <2>1
<1>12. CASE UNCHANGED vars
  BY <1>3, <1>12 DEF vars, callVars
<1> QED BY <1>7, <1>8, <1>9, <1>10, <1>11, <1>12 DEF Next, Terminated

-----------------------------------------------------------------------------
\* Only the collector of its frame kills a call, and it no longer collects then.
Unkilled ==
    /\ \A c \in cur.items : ~call[c].killed
    /\ \A f \in Frame : coll[f].st = "collecting" =>
          \A c \in coll[f].items : ~call[c].killed

\* Calls are killed by a collector that unwinds.
LEMMA KillSteps ==
    ASSUME TypeOK, [Next]_vars
    PROVE  \/ \E f \in Frame : \E x : Unwind(f, x)
           \/ \A c \in Call : call'[c].killed => call[c].killed
<1>0. call \in [Call -> CallRecord]
  BY DEF TypeOK, CallType
<1>1. CASE UNCHANGED call
  BY <1>1
<1>2. CASE ReaderNext
  <2>1. ASSUME NEW k \in Ids, ItemCancel(k)
        PROVE  \A c \in Call : call'[c].killed => call[c].killed
    BY <1>0, <2>1 DEF ItemCancel, CallRecord
  <2>2. ASSUME NEW i \in Items, ItemRequest(i)
        PROVE  \A c \in Call : call'[c].killed => call[c].killed
    BY <1>0, <2>2 DEF ItemRequest, CreateCall
  <2> QED
    BY <1>1, <1>2, <2>1, <2>2 DEF ReaderNext, ReceiveFrame, ItemPing, EndFrame,
       ItemRefused, ReceiveUnusable, ReceiveFatal, ReceiveDisconnect, PeerCloses, callVars
<1>3. ASSUME NEW d \in Call, CallNext(d)
      PROVE  \A c \in Call : call'[c].killed => call[c].killed
  <2> USE <1>0 DEF CallRecord
  <2>1. CASE CallStart(d)
    BY <2>1 DEF CallStart
  <2>2. CASE CallDropped(d)
    BY <2>2 DEF CallDropped
  <2>3. ASSUME NEW o, EndCall(d, o)
        PROVE  \A c \in Call : call'[c].killed => call[c].killed
    BY <2>3 DEF EndCall
  <2>4. CASE CallDone(d)
    BY <2>4 DEF CallDone
  <2> QED
    BY <1>3, <2>1, <2>2, <2>3, <2>4
       DEF CallNext, CallFinish, CallInterrupted, CallLeaksCancel, CallFails
<1>4. ASSUME NEW f \in Frame, CollectorNext(f)
      PROVE  UNCHANGED call \/ \E x : Unwind(f, x)
  BY <1>4 DEF CollectorNext, CollectorRaises, CollectorFails, RunsMiddleware, CollectorUnwound,
     CollectorResponds, CollectorPuts, CollectorTooSlow, CollectorCancelled,
     CollectorDone, callVars
<1>5. CASE WriterNext \/ EventsNext
  <2>1. UNCHANGED call
    BY <1>5 DEF WriterNext, WriterTakes, WriterSends, WriterFails, PeerCloses, WriterCancelled,
       EventsNext, EventEmits, EventPuts, EventTooSlow, EventsEnd, EventsCancelled,
       writerRest, eventRest, callVars
  <2> QED BY <1>1, <2>1
<1>6. CASE MainNext \/ DrainNext
  <2>1. UNCHANGED call
    BY <1>6 DEF MainNext, MainWakes, MainGathered, MainFlushed, MainFlushTimeout,
       MainCloses, ServingCancelled, ConnectionCloses, mainRest, writerRest,
       DrainNext, StartDraining, GracefulBegins, GracefulWaitsTasks,
       GracefulStopsReader, GracefulFlushes, GracefulCloses, DrainStops, drainRest,
       callVars
  <2> QED BY <1>1, <2>1
<1>7. CASE UNCHANGED vars
  BY <1>1, <1>7 DEF vars, callVars
<1> QED BY <1>1, <1>2, <1>3, <1>4, <1>5, <1>6, <1>7 DEF Next, Terminated

\* No step kills a call of a frame that is admitted or collected.
LEMMA UnkilledStays ==
    ASSUME TypeOK, FrameRoom, Apart, Unkilled, [Next]_vars
    PROVE  Unkilled'
<1>0. /\ call \in [Call -> CallRecord] /\ coll \in [Frame -> CollRecord]
      /\ cur.items \subseteq Call /\ cur.ctrl \in Controls
      /\ \A f \in Frame : coll[f].items \subseteq Call
  BY DEF TypeOK, CallType, CollType, ReaderType, CollRecord
<1>1. ASSUME NEW f \in Frame, NEW x, Unwind(f, x) PROVE Unkilled'
  <2>1. /\ cur' = cur /\ coll'[f].st = "unwinding"
        /\ \A g \in Frame \ {f} : coll'[g] = coll[g]
    BY <1>0, <1>1 DEF Unwind, readerVars
  <2>2. \A c \in Call \ coll[f].items : call'[c] = call[c]
    BY <1>1 DEF Unwind
  <2>3. \A c \in cur'.items : ~call'[c].killed
    BY <1>0, <2>1, <2>2 DEF Unkilled, Apart
  <2>4. ASSUME NEW g \in Frame, coll'[g].st = "collecting", NEW c \in coll'[g].items
        PROVE  ~call'[c].killed
    <3>1. g # f /\ coll'[g] = coll[g]
      BY <2>1, <2>4
    <3>2. c \in Call \ coll[f].items
      BY <1>0, <2>4, <3>1 DEF Apart
    <3> QED BY <2>2, <2>4, <3>1, <3>2 DEF Unkilled
  <2> QED BY <2>3, <2>4 DEF Unkilled
<1>2. CASE \A c \in Call : call'[c].killed => call[c].killed
  <2>1. CASE FramesKept
    <3>1. \A c \in cur'.items : ~call'[c].killed
      BY <1>0, <1>2, <2>1 DEF FramesKept, Unkilled
    <3>2. ASSUME NEW g \in Frame, coll'[g].st = "collecting", NEW c \in coll'[g].items
          PROVE  ~call'[c].killed
      BY <1>0, <1>2, <2>1, <3>2 DEF FramesKept, Unkilled
    <3> QED BY <3>1, <3>2 DEF Unkilled
  <2>2. ASSUME NEW i \in Items, ItemRequest(i) PROVE Unkilled'
    <3>1. ncalls + 1 \in Call
      BY <2>2, LimitsAssumption DEF ItemRequest, TypeOK, CallType, Call
    <3>2. /\ cur'.items = cur.items \cup {ncalls + 1} /\ coll' = coll
          /\ ~call'[ncalls + 1].killed
      BY <1>0, <2>2, <3>1 DEF ItemRequest, CreateCall, NextItem, collVars
    <3> QED BY <1>0, <1>2, <3>2 DEF Unkilled
  <2>3. ASSUME NEW items \in SUBSET Call, NEW ctrl \in Controls, nframes < MaxFrames,
               CreateCollector(items, ctrl), items \subseteq cur.items, cur'.items = {}
        PROVE  Unkilled'
    <3>1. /\ nframes' \in Frame /\ coll'[nframes'].items = items
          /\ \A f \in Frame \ {nframes'} : coll'[f] = coll[f]
      BY <2>3, NewCollector
    <3>2. ASSUME NEW g \in Frame, coll'[g].st = "collecting", NEW c \in coll'[g].items
          PROVE  ~call'[c].killed
      <4>1. CASE g = nframes'
        BY <1>0, <1>2, <2>3, <3>1, <3>2, <4>1 DEF Unkilled
      <4>2. CASE g # nframes'
        BY <1>0, <1>2, <3>1, <3>2, <4>2 DEF Unkilled
      <4> QED BY <4>1, <4>2
    <3> QED BY <2>3, <3>2 DEF Unkilled
  <2>4. CASE EndFrame
    <3>1. cur'.items = {} /\ nframes < MaxFrames
      BY <2>4 DEF EndFrame, NoFrame, FrameRoom
    <3>2. CASE UNCHANGED coll
      BY <1>0, <1>2, <3>1, <3>2 DEF Unkilled
    <3> QED BY <1>0, <2>3, <2>4, <3>1, <3>2 DEF EndFrame, collVars
  <2>5. CASE ReceiveUnusable
    <3>1. UNCHANGED cur /\ cur.items = {} /\ nframes < MaxFrames
      BY <2>5 DEF ReceiveUnusable, Apart
    <3>2. CASE UNCHANGED coll
      BY <1>0, <1>2, <3>1, <3>2 DEF Unkilled
    <3>3. CASE CreateCollector({}, "failure")
      BY <2>3, <3>1, <3>3 DEF Controls
    <3> QED BY <2>5, <3>2, <3>3 DEF ReceiveUnusable, collVars
  <2> QED BY <2>1, <2>2, <2>4, <2>5, FrameSteps
<1> QED BY <1>1, <1>2, KillSteps

-----------------------------------------------------------------------------
\* What a step does to messages on their way to the client.
LEMMA MessageSteps ==
    ASSUME TypeOK, [Next]_vars
    PROVE  \/ UNCHANGED <<outgoing, sending, delivered>>
           \/ /\ UNCHANGED <<sending, delivered>>
              /\ \E m \in Msg : outgoing' = Append(outgoing, m)
           \/ WriterTakes \/ WriterSends
           \/ Closing' /\ UNCHANGED delivered
<1> USE DEF queueVars
<1>1. CASE UNCHANGED vars
  BY <1>1 DEF vars
<1>2. ASSUME ReaderNext PROVE UNCHANGED <<outgoing, sending, delivered>>
  BY <1>2 DEF ReaderNext, ReceiveFrame, ItemPing, EndFrame, ItemCancel, ItemRequest,
     ItemRefused, ReceiveUnusable, ReceiveFatal, ReceiveDisconnect, PeerCloses, readerRest
<1>3. ASSUME NEW c \in Call, CallNext(c) PROVE UNCHANGED <<outgoing, sending, delivered>>
  BY <1>3 DEF CallNext, CallStart, CallDropped, CallFinish, CallInterrupted,
     CallLeaksCancel, CallFails, CallDone, EndCall, callRest
<1>4. ASSUME NEW f \in Frame, CollectorNext(f)
      PROVE  /\ UNCHANGED <<sending, delivered>>
             /\ UNCHANGED outgoing \/ outgoing' = Append(outgoing, f)
  BY <1>4 DEF CollectorNext, CollectorRaises, CollectorFails, RunsMiddleware, CollectorUnwound,
     CollectorResponds, CollectorPuts, CollectorTooSlow, CollectorCancelled,
     CollectorDone, Unwind, readerRest
<1>5. ASSUME WriterFails \/ WriterCancelled PROVE Closing' /\ UNCHANGED delivered
  BY <1>5 DEF WriterFails, PeerCloses, WriterCancelled, Closing, Cancelling, RequestClose,
     CloseConnection, writerRest, mainVars
<1>6. ASSUME EventsNext
      PROVE  /\ UNCHANGED <<sending, delivered>>
             /\ UNCHANGED outgoing \/ outgoing' = Append(outgoing, EventMsg)
  BY <1>6 DEF EventsNext, EventEmits, EventPuts, EventTooSlow, EventsEnd,
     EventsCancelled
<1>7. ASSUME MainNext \/ DrainNext PROVE UNCHANGED <<outgoing, sending, delivered>>
  BY <1>7 DEF MainNext, MainWakes, MainGathered, MainFlushed, MainFlushTimeout,
     MainCloses, ServingCancelled, ConnectionCloses, mainRest, DrainNext,
     StartDraining, GracefulBegins, GracefulWaitsTasks, GracefulStopsReader,
     GracefulFlushes, GracefulCloses, DrainStops, drainRest
<1> QED
  BY <1>1, <1>2, <1>3, <1>4, <1>5, <1>6, <1>7 DEF Next, Terminated, Msg, WriterNext

\* A response that was passed on stays on its way while the connection is open,
\* and one that was delivered stays delivered.
LEMMA PassedStays ==
    ASSUME TypeOK, [Next]_vars
    PROVE  /\ delivered \subseteq delivered'
           /\ ~Closing' => \A f \in Frame : Passed(f) => Passed(f)'
<1>1. /\ outgoing \in Seq(Msg) /\ NoMsg \notin Frame
  BY LimitsAssumption DEF TypeOK, QueueType, Frame, NoMsg
<1>2. delivered \subseteq delivered'
  BY MessageSteps DEF WriterTakes, WriterSends
<1>3. ASSUME ~Closing', NEW f \in Frame, Passed(f) PROVE Passed(f)'
  <2>1. CASE UNCHANGED <<outgoing, sending, delivered>>
    BY <1>3, <2>1 DEF Passed
  <2>2. ASSUME NEW m \in Msg, outgoing' = Append(outgoing, m),
               UNCHANGED <<sending, delivered>>
        PROVE  Passed(f)'
    <3>1. \A n \in DOMAIN outgoing : n \in DOMAIN outgoing' /\ outgoing'[n] = outgoing[n]
      BY <1>1, <2>2
    <3> QED BY <1>3, <2>2, <3>1 DEF Passed
  <2>3. CASE WriterTakes
    <3>1. /\ sending = NoMsg /\ outgoing # <<>> /\ delivered' = delivered
          /\ sending' = Head(outgoing) /\ outgoing' = Tail(outgoing)
      BY <2>3 DEF WriterTakes
    <3>2. CASE f \in delivered
      BY <3>1, <3>2 DEF Passed
    <3>3. ASSUME NEW n \in DOMAIN outgoing, outgoing[n] = f PROVE Passed(f)'
      <4>1. CASE n = 1
        BY <1>1, <3>1, <3>3, <4>1 DEF Passed
      <4>2. CASE n # 1
        <5>1. n - 1 \in DOMAIN outgoing' /\ outgoing'[n - 1] = f
          BY <1>1, <3>1, <3>3, <4>2
        <5> QED BY <5>1 DEF Passed
      <4> QED BY <4>1, <4>2
    <3> QED BY <1>1, <1>3, <3>1, <3>2, <3>3 DEF Passed
  <2>4. CASE WriterSends
    BY <1>3, <2>4 DEF WriterSends, Passed
  <2> QED BY <1>3, <2>1, <2>2, <2>3, <2>4, MessageSteps
<1> QED BY <1>2, <1>3

-----------------------------------------------------------------------------
\* Nothing is missing: nothing was owed, a handler leaked a cancellation, or the
\* response was passed on.
Settled(f) == ~Owes(f) \/ Leaked(f) \/ Passed(f)

\* On an open connection every collector that stops collecting has a settled
\* response or an exception that is about to close the connection.
Tracked ==
    ~Closing => \A f \in Frame :
        /\ coll[f].st = "unwinding" => coll[f].raised = "error" \/ Leaked(f)
        /\ coll[f].st = "ended" => coll[f].raised = "error" \/ Settled(f)
        /\ coll[f].st = "done" => Settled(f)

\* The inductive invariant behind the theorems about responses.
ResponsesInv == TypeOK /\ FrameRoom /\ Woken /\ Apart /\ Outcomes /\ Unkilled /\ Tracked

\* A frame keeps its calls, what it owes and a leaked cancellation.
LEMMA FrameStays ==
    ASSUME TypeOK, FrameRoom, Woken, Apart, Outcomes, [Next]_vars,
           NEW f \in Frame, coll[f].st # "none"
    PROVE  /\ coll'[f].items = coll[f].items /\ coll'[f].ctrl = coll[f].ctrl
           /\ Owes(f)' <=> Owes(f)
           /\ Leaked(f) => Leaked(f)'
<1>0. /\ call \in [Call -> CallRecord] /\ coll[f].items \subseteq Call
      /\ ncalls \in Nat /\ Call \subseteq Nat /\ nframes \in Nat
      /\ cur.items \subseteq Call /\ cur.ctrl \in Controls
  BY LimitsAssumption DEF TypeOK, CallType, CollType, CollRecord, ReaderType, Call
<1>1. coll'[f].items = coll[f].items /\ coll'[f].ctrl = coll[f].ctrl
  <2>1. CASE FramesKept
    BY <2>1 DEF FramesKept
  <2>2. CASE UNCHANGED coll
    BY <2>2
  <2>3. ASSUME NEW items \in SUBSET Call, NEW ctrl \in Controls, nframes < MaxFrames,
               CreateCollector(items, ctrl)
        PROVE  coll'[f] = coll[f]
    BY <2>3, NewCollector
  <2>4. CASE EndFrame
    BY <1>0, <2>2, <2>3, <2>4 DEF EndFrame, FrameRoom, collVars
  <2>5. CASE ReceiveUnusable
    BY <2>2, <2>3, <2>5 DEF ReceiveUnusable, collVars, Controls
  <2> QED BY <2>1, <2>2, <2>4, <2>5, FrameSteps DEF ItemRequest, collVars
<1>2. ASSUME NEW c \in coll[f].items
      PROVE  /\ call'[c].owes = call[c].owes
             /\ call[c].outcome # "none" => call'[c].outcome = call[c].outcome
  <2>1. c \in Call /\ c <= ncalls /\ c \in Nat
    BY <1>0 DEF Apart
  <2>2. c # ncalls + 1
    BY <1>0, <2>1
  <2>3. ASSUME NEW i \in Items, ItemRequest(i) PROVE call'[c] = call[c]
    BY <1>0, <2>1, <2>2, <2>3 DEF ItemRequest, CreateCall
  <2> QED BY <2>1, <2>3, OutcomeSteps DEF Settles
<1> QED BY <1>1, <1>2 DEF Owes, Leaked

\* A collector changes by its own steps only.
LEMMA OneCollector ==
    ASSUME TypeOK, FrameRoom, Apart, [Next]_vars, NEW f \in Frame
    PROVE  CollectorNext(f) \/ coll'[f] = coll[f] \/ coll'[f].st = "collecting"
<1>0. coll \in [Frame -> CollRecord] /\ cur.items \subseteq Call /\ cur.ctrl \in Controls
  BY DEF TypeOK, CollType, ReaderType
<1>1. CASE UNCHANGED coll
  BY <1>1
<1>2. ASSUME NEW items \in SUBSET Call, NEW ctrl \in Controls, nframes < MaxFrames,
             CreateCollector(items, ctrl)
      PROVE  coll'[f] = coll[f] \/ coll'[f].st = "collecting"
  BY <1>2, NewCollector
<1>3. CASE ReaderNext
  <2>1. CASE EndFrame
    BY <1>0, <1>1, <1>2, <2>1 DEF EndFrame, FrameRoom, collVars
  <2>2. CASE ReceiveUnusable
    BY <1>1, <1>2, <2>2 DEF ReceiveUnusable, collVars, Controls
  <2> QED
    BY <1>1, <1>3, <2>1, <2>2 DEF ReaderNext, ReceiveFrame, ItemPing, ItemCancel,
       ItemRequest, ItemRefused, ReceiveFatal, ReceiveDisconnect, PeerCloses, collVars
<1>4. ASSUME NEW g \in Frame, CollectorNext(g), g # f PROVE coll'[f] = coll[f]
  BY <1>0, <1>4 DEF CollectorNext, CollectorRaises, CollectorFails, RunsMiddleware, CollectorUnwound,
     CollectorResponds, CollectorPuts, CollectorTooSlow, CollectorCancelled,
     CollectorDone, Unwind
<1>5. ASSUME NEW c \in Call, CallNext(c) PROVE UNCHANGED coll
  BY <1>5 DEF CallNext, CallStart, CallDropped, CallFinish, CallInterrupted,
     CallLeaksCancel, CallFails, CallDone, EndCall, callRest, collVars
<1>6. CASE WriterNext \/ EventsNext
  <2>1. UNCHANGED coll
    BY <1>6 DEF WriterNext, WriterTakes, WriterSends, WriterFails, PeerCloses, WriterCancelled,
       EventsNext, EventEmits, EventPuts, EventTooSlow, EventsEnd, EventsCancelled,
       writerRest, eventRest, collVars
  <2> QED BY <1>1, <2>1
<1>7. CASE MainNext \/ DrainNext
  <2>1. UNCHANGED coll
    BY <1>7 DEF MainNext, MainWakes, MainGathered, MainFlushed, MainFlushTimeout,
       MainCloses, ServingCancelled, ConnectionCloses, mainRest, writerRest,
       DrainNext, StartDraining, GracefulBegins, GracefulWaitsTasks,
       GracefulStopsReader, GracefulFlushes, GracefulCloses, DrainStops, drainRest,
       collVars
  <2> QED BY <1>1, <2>1
<1>8. CASE UNCHANGED vars
  BY <1>1, <1>8 DEF vars, collVars
<1> QED BY <1>1, <1>3, <1>4, <1>5, <1>6, <1>7, <1>8 DEF Next, Terminated

\* On an open connection a collector raises for an error or a leaked cancellation
\* only: a cancelled call of a collecting frame was cancelled by its client before
\* it started, which collect_one answers.
LEMMA RaisesForCause ==
    ASSUME ResponsesInv, ~Closing, NEW f \in Frame, coll[f].st = "collecting",
           NEW c \in coll[f].items, Raises(c)
    PROVE  call[c].outcome = "error" \/ Leaked(f)
<1>1. c \in Call
  BY DEF ResponsesInv, TypeOK, CollType, CollRecord
<1>2. CASE call[c].outcome = "cancelled"
  <2>1. ~call[c].killed /\ Blameless(call[c])
    BY <1>1 DEF ResponsesInv, Unkilled, Outcomes
  <2>2. CancelledUnstarted(c)
    BY <1>2, <2>1 DEF Blameless, CancelledUnstarted
  <2> QED BY <1>2, <2>2 DEF Raises, Closing
<1> QED BY <1>2 DEF Raises, Leaked

\* A frame whose calls all ended without raising and that has no response owes none.
LEMMA NoResponseNoDebt ==
    ASSUME ResponsesInv, NEW f \in Frame, ~HasResponse(f),
           \A c \in coll[f].items : Ended(c) /\ ~Raises(c), ~closeEvent
    PROVE  ~Owes(f)
<1>1. ASSUME NEW c \in coll[f].items PROVE ~call[c].owes
  <2>1. c \in Call /\ call[c] \in CallRecord /\ OutcomeOK(call[c])
    BY DEF ResponsesInv, TypeOK, CollType, CollRecord, CallType, Outcomes
  <2>2. Ended(c) /\ ~Raises(c) /\ ~Answers(c)
    BY DEF HasResponse
  <2>3. /\ call[c].outcome \in {"answer", "silent", "cancelled", "leaked", "error"}
        /\ call[c].outcome = "silent" => ~call[c].owes
    BY <2>1, <2>2 DEF CallRecord, OutcomeOK, Ended
  <2>4. CASE call[c].outcome = "cancelled"
    <3>1. CancelledUnstarted(c)
      BY <2>2, <2>4 DEF Raises
    <3> QED BY <2>2, <3>1 DEF Answers
  <2> QED BY <2>2, <2>3, <2>4 DEF Raises, Answers
<1> QED BY <1>1 DEF Owes, HasResponse

\* The steps of a collector keep its response settled.
LEMMA CollectorTracked ==
    ASSUME ResponsesInv, [Next]_vars, ~Closing', NEW f \in Frame, CollectorNext(f)
    PROVE  /\ coll'[f].st = "unwinding" => coll'[f].raised = "error" \/ Leaked(f)'
           /\ coll'[f].st = "ended" => coll'[f].raised = "error" \/ Settled(f)'
           /\ coll'[f].st = "done" => Settled(f)'
<1>0. /\ coll \in [Frame -> CollRecord] /\ coll[f] \in CollRecord
      /\ outgoing \in Seq(Msg)
  BY DEF ResponsesInv, TypeOK, CollType, QueueType
<1>1. ~Closing
  BY ClosingSteps DEF ResponsesInv
<1>2. coll[f].st # "none"
  BY DEF CollectorNext, CollectorRaises, CollectorFails, RunsMiddleware, CollectorUnwound,
     CollectorResponds, CollectorPuts, CollectorTooSlow, CollectorCancelled,
     CollectorDone
<1>3. (Owes(f)' <=> Owes(f)) /\ (Leaked(f) => Leaked(f)')
  BY <1>2, FrameStays DEF ResponsesInv
<1>4. Settled(f) => Settled(f)'
  BY <1>3, PassedStays DEF Settled, ResponsesInv
<1>5. ASSUME NEW c \in Call, CollectorRaises(f, c)
      PROVE  /\ coll'[f].st = "unwinding"
             /\ coll'[f].raised = "error" \/ Leaked(f)
  <2>1. coll'[f].st = "unwinding"
    BY <1>0, <1>5 DEF CollectorRaises, Unwind, CollRecord
  <2>2. coll'[f].raised = IF call[c].outcome = "error" THEN "error" ELSE "cancelled"
    BY <1>0, <1>5 DEF CollectorRaises, Unwind, CollRecord
  <2>3. call[c].outcome = "error" \/ Leaked(f)
    BY <1>1, <1>5, RaisesForCause DEF CollectorRaises
  <2> QED BY <2>1, <2>2, <2>3
<1>6. ASSUME CollectorFails(f)
      PROVE  coll'[f].st = "unwinding" /\ coll'[f].raised = "error"
  BY <1>0, <1>6 DEF CollectorFails, RunsMiddleware, Unwind, CollRecord
<1>7. ASSUME CollectorUnwound(f)
      PROVE  coll'[f].st = "ended" /\ (coll'[f].raised = "error" \/ Leaked(f))
  <2>1. coll'[f].st = "ended" /\ coll'[f].raised = coll[f].raised
    BY <1>0, <1>1, <1>7 DEF CollectorUnwound, CollRecord, Closing
  <2>2. coll[f].raised = "error" \/ Leaked(f)
    BY <1>1, <1>7 DEF CollectorUnwound, ResponsesInv, Tracked
  <2> QED BY <2>1, <2>2
<1>8. ASSUME outgoing' = Append(outgoing, f) PROVE Passed(f)'
  <2>1. Len(outgoing) + 1 \in DOMAIN outgoing' /\ outgoing'[Len(outgoing) + 1] = f
    BY <1>0, <1>8 DEF Msg
  <2> QED BY <2>1 DEF Passed
<1>9. ASSUME CollectorResponds(f)
      PROVE  coll'[f].st = "putting" \/ (coll'[f].st = "ended" /\ Settled(f)')
  <2>1. CASE outgoing' = Append(outgoing, f) /\ coll' = [coll EXCEPT ![f].st = "ended"]
    BY <1>0, <1>8, <2>1 DEF Settled, CollRecord
  <2>2. CASE coll' = [coll EXCEPT ![f].st = "putting"]
    BY <1>0, <2>2 DEF CollRecord
  <2>3. CASE ~HasResponse(f) /\ coll' = [coll EXCEPT ![f].st = "ended"]
    <3>1. ~Owes(f)
      BY <1>1, <1>9, <2>3, NoResponseNoDebt DEF CollectorResponds, Closing
    <3>2. coll'[f].st = "ended"
      BY <1>0, <2>3 DEF CollRecord
    <3> QED BY <1>3, <3>1, <3>2 DEF Settled
  <2> QED BY <1>1, <1>9, <2>1, <2>2, <2>3 DEF CollectorResponds, Closing
<1>10. ASSUME CollectorPuts(f)
       PROVE  coll'[f].st = "ended" /\ Settled(f)'
  BY <1>0, <1>8, <1>10 DEF CollectorPuts, Settled, CollRecord
<1>11. ~CollectorTooSlow(f) /\ ~CollectorCancelled(f)
  BY <1>1 DEF CollectorTooSlow, CollectorCancelled, CloseConnection, RequestClose, Closing
<1>12. ASSUME CollectorDone(f)
       PROVE  coll'[f].st = "done" /\ Settled(f)'
  <2>1. coll'[f].st = "done" /\ coll[f].st = "ended"
    BY <1>0, <1>12 DEF CollectorDone, CollRecord
  <2>2. coll[f].raised # "error"
    BY <1>12 DEF CollectorDone, CloseConnection, RequestClose, Closing
  <2>3. Settled(f)
    BY <1>1, <2>1, <2>2 DEF ResponsesInv, Tracked
  <2> QED BY <1>4, <2>1, <2>3
<1> QED
  BY <1>3, <1>5, <1>6, <1>7, <1>9, <1>10, <1>11, <1>12 DEF CollectorNext, Settled

\* Every step keeps the responses of an open connection settled.
LEMMA TrackedStays ==
    ASSUME ResponsesInv, [Next]_vars
    PROVE  Tracked'
<1> SUFFICES ASSUME ~Closing', NEW f \in Frame
             PROVE  /\ coll'[f].st = "unwinding" => coll'[f].raised = "error" \/ Leaked(f)'
                    /\ coll'[f].st = "ended" => coll'[f].raised = "error" \/ Settled(f)'
                    /\ coll'[f].st = "done" => Settled(f)'
  BY DEF Tracked
<1>1. ~Closing
  BY ClosingSteps DEF ResponsesInv
<1>2. CASE CollectorNext(f)
  BY <1>2, CollectorTracked
<1>3. CASE coll'[f].st = "collecting"
  BY <1>3
<1>4. CASE coll'[f] = coll[f]
  <2>1. CASE coll[f].st = "none"
    BY <1>4, <2>1
  <2>2. CASE coll[f].st # "none"
    <3>1. (Owes(f)' <=> Owes(f)) /\ (Leaked(f) => Leaked(f)')
      BY <2>2, FrameStays DEF ResponsesInv
    <3>2. Settled(f) => Settled(f)'
      BY <3>1, PassedStays DEF Settled, ResponsesInv
    <3> QED BY <1>1, <1>4, <3>1, <3>2 DEF ResponsesInv, Tracked
  <2> QED BY <2>1, <2>2
<1> QED BY <1>2, <1>3, <1>4, OneCollector DEF ResponsesInv

\* The invariant of responses holds when the connection is accepted.
LEMMA ResponsesInit ==
    ASSUME Init
    PROVE  ResponsesInv
<1>1. TypeOK /\ FrameRoom /\ Woken
  BY InitTypes DEF Init, Woken, Cancelling
<1>2. /\ cur.items = {} /\ reader = "receiving"
      /\ \A f \in Frame : coll[f].st = "none" /\ coll[f].items = {}
  BY DEF Init, NoFrame, NewColl
<1>3. \A c \in Call : /\ call[c].task = "none" /\ call[c].outcome = "none"
                      /\ ~call[c].started
  BY DEF Init, NewCall
<1>4. Apart /\ Unkilled /\ Tracked
  BY <1>2 DEF Apart, Unkilled, Tracked
<1>5. Outcomes
  BY <1>3 DEF Outcomes, OutcomeOK, Blameless
<1> QED BY <1>1, <1>4, <1>5 DEF ResponsesInv

\* The invariant of responses is inductive: calls belong to one frame each, have
\* an outcome when they end, are killed by their own collector only, and a
\* collector that stops has settled what its frame owes.
THEOREM ResponsesInvariant == Spec => []ResponsesInv
<1>1. Init => ResponsesInv
  BY ResponsesInit
<1>2. ResponsesInv /\ [Next]_vars => ResponsesInv'
  <2> SUFFICES ASSUME ResponsesInv, [Next]_vars PROVE ResponsesInv'
    OBVIOUS
  <2>1. TypeOK' /\ FrameRoom'
    BY NextTypes DEF ResponsesInv
  <2>2. Woken'
    BY ClosingSteps DEF ResponsesInv
  <2>3. Apart'
    BY ApartStays DEF ResponsesInv
  <2>4. Outcomes'
    BY OutcomeSteps DEF ResponsesInv
  <2>5. Unkilled'
    BY UnkilledStays DEF ResponsesInv
  <2>6. Tracked'
    BY TrackedStays
  <2> QED BY <2>1, <2>2, <2>3, <2>4, <2>5, <2>6 DEF ResponsesInv
<1> QED BY <1>1, <1>2, PTL DEF Spec

\* While the connection stays open no owed response is lost, for every batch size,
\* limit, fault and interleaving: invoke, collect_one and send_outgoing together
\* pass it on unless a handler raises CancelledError by itself.
THEOREM ResponsesKept == Spec => []NoResponseLost
<1>1. ResponsesInv => NoResponseLost
  BY DEF ResponsesInv, Tracked, Settled, NoResponseLost, Closing
<1> QED BY <1>1, ResponsesInvariant, PTL

-----------------------------------------------------------------------------
\* On an open connection every call belongs to a frame.
Covered ==
    ~Closing => \A c \in Call : call[c].task # "none" =>
        c \in cur.items \/ \E f \in Frame : c \in coll[f].items

\* The frame being admitted changes by the steps of the reader only.
LEMMA CurSteps ==
    ASSUME [Next]_vars
    PROVE  ReaderNext \/ UNCHANGED cur
<1> USE DEF readerVars
<1>1. CASE UNCHANGED vars
  BY <1>1 DEF vars
<1>2. ASSUME NEW c \in Call, CallNext(c) PROVE UNCHANGED cur
  BY <1>2 DEF CallNext, CallStart, CallDropped, CallFinish, CallInterrupted,
     CallLeaksCancel, CallFails, CallDone, EndCall, callRest
<1>3. ASSUME NEW f \in Frame, CollectorNext(f) PROVE UNCHANGED cur
  BY <1>3 DEF CollectorNext, CollectorRaises, CollectorFails, RunsMiddleware, CollectorUnwound,
     CollectorResponds, CollectorPuts, CollectorTooSlow, CollectorCancelled,
     CollectorDone, Unwind, collRest
<1>4. ASSUME WriterNext \/ EventsNext PROVE UNCHANGED cur
  BY <1>4 DEF WriterNext, WriterTakes, WriterSends, WriterFails, PeerCloses, WriterCancelled,
     EventsNext, EventEmits, EventPuts, EventTooSlow, EventsEnd, EventsCancelled,
     writerRest, eventRest
<1>5. ASSUME MainNext \/ DrainNext PROVE UNCHANGED cur
  BY <1>5 DEF MainNext, MainWakes, MainGathered, MainFlushed, MainFlushTimeout,
     MainCloses, ServingCancelled, ConnectionCloses, writerRest,
     DrainNext, StartDraining, GracefulBegins, GracefulWaitsTasks,
     GracefulStopsReader, GracefulFlushes, GracefulCloses, DrainStops
<1> QED BY <1>1, <1>2, <1>3, <1>4, <1>5 DEF Next, Terminated

\* No step of an open connection makes a call that belongs to no frame.
LEMMA CoveredStays ==
    ASSUME ResponsesInv, Covered, [Next]_vars
    PROVE  Covered'
<1> SUFFICES ASSUME ~Closing', NEW c \in Call, call'[c].task # "none"
             PROVE  c \in cur'.items \/ \E f \in Frame : c \in coll'[f].items
  BY DEF Covered
<1>0. /\ call \in [Call -> CallRecord] /\ cur.items \subseteq Call
      /\ cur.ctrl \in Controls /\ ncalls + 1 \in Int
  BY DEF ResponsesInv, TypeOK, CallType, ReaderType
<1>1. ~Closing
  BY ClosingSteps DEF ResponsesInv
<1>2. ASSUME NEW i \in Items, ItemRequest(i), c = ncalls + 1
      PROVE  c \in cur'.items
  BY <1>2 DEF ItemRequest, CreateCall, NextItem
<1>3. ASSUME ~(\E i \in Items : ItemRequest(i) /\ c = ncalls + 1)
      PROVE  call[c].task # "none"
  <2>1. ASSUME NEW i \in Items, ItemRequest(i) PROVE call'[c] = call[c]
    BY <1>0, <1>3, <2>1 DEF ItemRequest, CreateCall
  <2>2. CASE \E i \in Items : ItemRequest(i)
    BY <2>1, <2>2
  <2>3. CASE \A d \in Call : Settles(call[d], call'[d])
    BY <2>3 DEF Settles
  <2> QED BY <2>2, <2>3, OutcomeSteps DEF ResponsesInv
<1>4. CASE call[c].task # "none"
  <2>1. CASE \E f \in Frame : c \in coll[f].items
    <3>1. PICK f \in Frame : c \in coll[f].items
      BY <2>1
    <3>2. coll[f].st # "none"
      BY <3>1 DEF ResponsesInv, Apart
    <3>3. coll'[f].items = coll[f].items
      BY <3>2, FrameStays DEF ResponsesInv
    <3> QED BY <3>1, <3>3
  <2>2. CASE c \in cur.items
    <3>1. reader = "admitting"
      BY <2>2 DEF ResponsesInv, Apart
    <3>2. CASE c \in cur'.items
      BY <3>2
    <3>3. CASE EndFrame
      <4>1. CreateCollector(cur.items, cur.ctrl) /\ nframes < MaxFrames
        BY <2>2, <3>3 DEF EndFrame, CloseConnection, RequestClose, Closing,
           ResponsesInv, FrameRoom
      <4>2. nframes' \in Frame /\ coll'[nframes'].items = cur.items
        BY <1>0, <4>1, NewCollector DEF ResponsesInv
      <4> QED BY <2>2, <4>2
    <3>4. EndFrame \/ c \in cur'.items
      <4>1. ASSUME NEW i \in Items, ItemRequest(i) PROVE c \in cur'.items
        BY <2>2, <4>1 DEF ItemRequest, CreateCall, NextItem
      <4>2. ASSUME NEW i \in Items PROVE ~ItemRefused(i)
        BY DEF ItemRefused, CloseConnection, RequestClose, Closing
      <4>3. ASSUME NEW k \in Ids, ItemCancel(k) PROVE cur'.items = cur.items
        BY <4>3 DEF ItemCancel, NextItem
      <4>4. ASSUME ItemPing PROVE cur'.items = cur.items
        BY <4>4 DEF ItemPing, NextItem
      <4>5. ~ReceiveFrame /\ ~ReceiveUnusable /\ ~ReceiveFatal /\ ~ReceiveDisconnect
        BY <3>1 DEF ReceiveFrame, ReceiveUnusable, ReceiveFatal, ReceiveDisconnect
      <4> QED
        BY <2>2, <4>1, <4>2, <4>3, <4>4, <4>5, CurSteps DEF ReaderNext
    <3> QED BY <3>2, <3>3, <3>4
  <2> QED BY <1>1, <1>4, <2>1, <2>2 DEF Covered
<1> QED BY <1>2, <1>3, <1>4

\* After graceful() has stopped the reader nothing new is admitted, the collectors
\* it waits for are all there are, and when it flushes there are none; a close
\* with SERVICE_RESTART on an endpoint that was not cancelled comes after that.
DrainOrder ==
    /\ graceful \in {"reader", "flush"} => reader = "stopped"
    /\ graceful = "reader" => LiveCollectors \subseteq gwait
    /\ graceful = "flush" => LiveCollectors = {}
    /\ closeEvent /\ closeCode = "service_restart" /\ ~interrupted /\ ~clientClosed =>
          reader = "stopped"

\* What a step does to graceful().
LEMMA GracefulSteps ==
    ASSUME TypeOK, [Next]_vars
    PROVE  \/ UNCHANGED <<graceful, gwait>>
           \/ graceful' \notin {"reader", "flush"}
           \/ GracefulStopsReader \/ GracefulFlushes
<1> USE DEF drainVars
<1>1. CASE UNCHANGED vars
  BY <1>1 DEF vars
<1>2. ASSUME ReaderNext PROVE UNCHANGED <<graceful, gwait>>
  BY <1>2 DEF ReaderNext, ReceiveFrame, ItemPing, EndFrame, ItemCancel, ItemRequest,
     ItemRefused, ReceiveUnusable, ReceiveFatal, ReceiveDisconnect, PeerCloses, readerRest
<1>3. ASSUME NEW c \in Call, CallNext(c) PROVE UNCHANGED <<graceful, gwait>>
  BY <1>3 DEF CallNext, CallStart, CallDropped, CallFinish, CallInterrupted,
     CallLeaksCancel, CallFails, CallDone, EndCall, callRest
<1>4. ASSUME NEW f \in Frame, CollectorNext(f) PROVE UNCHANGED <<graceful, gwait>>
  BY <1>4 DEF CollectorNext, CollectorRaises, CollectorFails, RunsMiddleware, CollectorUnwound,
     CollectorResponds, CollectorPuts, CollectorTooSlow, CollectorCancelled,
     CollectorDone, Unwind, collRest, readerRest
<1>5. ASSUME WriterNext \/ EventsNext PROVE UNCHANGED <<graceful, gwait>>
  BY <1>5 DEF WriterNext, WriterTakes, WriterSends, WriterFails, PeerCloses, WriterCancelled,
     EventsNext, EventEmits, EventPuts, EventTooSlow, EventsEnd, EventsCancelled,
     writerRest, eventRest
<1>6. ASSUME MainNext PROVE UNCHANGED <<graceful, gwait>>
  BY <1>6 DEF MainNext, MainWakes, MainGathered, MainFlushed, MainFlushTimeout,
     MainCloses, ServingCancelled, ConnectionCloses, mainRest, writerRest
<1>7. CASE DrainNext
  BY <1>7 DEF DrainNext, StartDraining, GracefulBegins, GracefulWaitsTasks,
     GracefulCloses, DrainStops
<1> QED BY <1>1, <1>2, <1>3, <1>4, <1>5, <1>6, <1>7 DEF Next, Terminated

\* A stopped reader stays stopped and makes neither calls nor collectors.
LEMMA StoppedReader ==
    ASSUME TypeOK, FrameRoom, Apart, [Next]_vars, reader = "stopped"
    PROVE  /\ reader' = "stopped" /\ FramesKept
           /\ LiveCollectors' \subseteq LiveCollectors
<1>1. ~EndFrame /\ ~ReceiveUnusable /\ \A i \in Items : ~ItemRequest(i)
  BY DEF EndFrame, ReceiveUnusable, ItemRequest, Admitting
<1>2. FramesKept
  BY <1>1, FrameSteps
<1> QED BY <1>2, CollectorSteps DEF FramesKept

\* The steps of graceful() happen in their order, and nothing overtakes them.
LEMMA DrainOrderStays ==
    ASSUME ResponsesInv, CauseKnown, DrainOrder, [Next]_vars,
           "service_restart" \notin AppCodes
    PROVE  DrainOrder'
<1>0. TypeOK /\ FrameRoom /\ Apart /\ Woken
  BY DEF ResponsesInv
<1>1. /\ graceful' \in {"reader", "flush"} => reader' = "stopped"
      /\ graceful' = "reader" => LiveCollectors' \subseteq gwait'
      /\ graceful' = "flush" => LiveCollectors' = {}
  <2>1. CASE UNCHANGED <<graceful, gwait>>
    BY <1>0, <2>1, StoppedReader DEF DrainOrder
  <2>2. CASE graceful' \notin {"reader", "flush"}
    BY <2>2
  <2>3. CASE GracefulStopsReader
    <3>1. /\ graceful' = "reader" /\ reader' = "stopped" /\ gwait' = LiveCollectors
          /\ coll' = coll
      BY <2>3 DEF GracefulStopsReader, drainRest, collVars
    <3> QED BY <3>1 DEF LiveCollectors
  <2>4. CASE GracefulFlushes
    <3>1. /\ graceful = "reader" /\ graceful' = "flush" /\ reader' = reader
          /\ coll' = coll /\ gwait \cap LiveCollectors = {}
      BY <2>4 DEF GracefulFlushes, Waited, drainRest, collVars, readerVars
    <3> QED BY <3>1 DEF DrainOrder, LiveCollectors
  <2> QED BY <1>0, <2>1, <2>2, <2>3, <2>4, GracefulSteps
<1>2. ASSUME closeEvent', closeCode' = "service_restart", ~interrupted', ~clientClosed'
      PROVE  reader' = "stopped"
  <2>1. ~interrupted /\ ~clientClosed
    BY <1>0, <1>2, ClosingSteps
  <2>2. CASE closeEvent
    <3>1. closeCode' = closeCode
      BY <2>2, CloseSteps DEF CauseKnown, RequestClose
    <3>2. reader = "stopped"
      BY <1>2, <2>1, <2>2, <3>1 DEF DrainOrder
    <3> QED BY <1>0, <3>2, StoppedReader
  <2>3. CASE ~closeEvent
    <3>1. GracefulCloses
      BY <1>0, <1>2, <2>3, ClosingSteps DEF RestartByDrain
    <3>2. reader = "stopped" /\ reader' = reader
      BY <3>1 DEF GracefulCloses, DrainOrder, readerVars
    <3> QED BY <3>2
  <2> QED BY <2>2, <2>3
<1> QED BY <1>1, <1>2 DEF DrainOrder

\* When graceful() closes the connection every owed answer is on the wire.
LEMMA DrainClosesAnswered ==
    ASSUME ResponsesInv, Covered, DrainOrder, GracefulCloses, ~closeEvent, ~interrupted,
           NEW c \in Call, call[c].task # "none", call[c].owes
    PROVE  \/ \E f \in delivered \cap Frame : c \in coll[f].items
           \/ \E f \in Frame : c \in coll[f].items /\ Leaked(f)
<1>1. ~Closing
  BY DEF ResponsesInv, Woken, Closing
<1>2. outgoing = <<>> /\ sending = NoMsg
  BY <1>1 DEF GracefulCloses, Flushed, ResponsesInv, Woken
<1>3. reader = "stopped" /\ LiveCollectors = {}
  BY DEF GracefulCloses, DrainOrder
<1>4. PICK f \in Frame : c \in coll[f].items
  BY <1>1, <1>3 DEF Covered, ResponsesInv, Apart
<1>5. coll[f].st = "done"
  BY <1>3, <1>4 DEF LiveCollectors, ResponsesInv, Apart
<1>6. Owes(f) /\ Settled(f)
  BY <1>1, <1>4, <1>5 DEF Owes, ResponsesInv, Tracked
<1>7. CASE Passed(f)
  <2>1. f # NoMsg
    BY LimitsAssumption DEF Frame, NoMsg
  <2>2. f \in delivered
    BY <1>2, <1>7, <2>1 DEF Passed
  <2> QED BY <1>4, <2>2
<1> QED BY <1>4, <1>6, <1>7 DEF Settled

\* An answered call stays answered.
LEMMA DrainAnswersStay ==
    ASSUME ResponsesInv, CauseKnown, Covered, DrainOrder, DrainAnswersAll, [Next]_vars,
           "service_restart" \notin AppCodes
    PROVE  DrainAnswersAll'
<1> SUFFICES ASSUME closeEvent', closeCode' = "service_restart", ~interrupted',
                    ~clientClosed', NEW c \in Call, call'[c].task # "none", call'[c].owes
             PROVE  \/ \E f \in delivered' \cap Frame : c \in coll'[f].items
                    \/ \E f \in Frame : c \in coll'[f].items /\ Leaked(f)'
  BY DEF DrainAnswersAll
<1>0. TypeOK /\ FrameRoom /\ Apart /\ Woken /\ Outcomes
  BY DEF ResponsesInv
<1>1. ~interrupted /\ ~clientClosed
  BY <1>0, ClosingSteps
<1>2. reader = "stopped"
  <2>1. CASE closeEvent
    BY <1>1, <2>1, CloseSteps DEF CauseKnown, RequestClose, DrainOrder
  <2>2. CASE ~closeEvent
    BY <1>0, <2>2, ClosingSteps DEF RestartByDrain, GracefulCloses, DrainOrder
  <2> QED BY <2>1, <2>2
<1>3. call[c].task # "none" /\ call[c].owes
  <2>1. \A i \in Items : ~ItemRequest(i)
    BY <1>2 DEF ItemRequest, Admitting
  <2> QED BY <1>0, <2>1, OutcomeSteps DEF Settles
<1>4. \/ \E f \in delivered \cap Frame : c \in coll[f].items
      \/ \E f \in Frame : c \in coll[f].items /\ Leaked(f)
  <2>1. CASE closeEvent
    <3>1. closeCode = "service_restart"
      BY <2>1, CloseSteps DEF CauseKnown, RequestClose
    <3> QED BY <1>1, <1>3, <2>1, <3>1 DEF DrainAnswersAll
  <2>2. CASE ~closeEvent
    <3>1. GracefulCloses
      BY <1>0, <2>2, ClosingSteps DEF RestartByDrain
    <3> QED BY <1>1, <1>3, <2>2, <3>1, DrainClosesAnswered
  <2> QED BY <2>1, <2>2
<1>5. ASSUME NEW f \in Frame, c \in coll[f].items
      PROVE  c \in coll'[f].items /\ (Leaked(f) => Leaked(f)')
  <2>1. coll[f].st # "none"
    BY <1>0, <1>5 DEF Apart
  <2> QED BY <1>0, <1>5, <2>1, FrameStays
<1>6. delivered \subseteq delivered'
  BY <1>0, PassedStays
<1> QED BY <1>4, <1>5, <1>6

\* graceful() closes with SERVICE_RESTART only when every call that owes an answer
\* has it, calls refused during the drain included, for every number of calls and
\* frames and every interleaving, unless a handler leaked a cancellation. Assumes
\* that the application does not itself close with SERVICE_RESTART; a peer may.
THEOREM DrainAnswersCorrect ==
    ASSUME "service_restart" \notin AppCodes
    PROVE  Spec => []DrainAnswersAll
<1>1. Init => CauseKnown /\ Covered /\ DrainOrder /\ DrainAnswersAll
  BY DEF Init, CauseKnown, Covered, DrainOrder, DrainAnswersAll, NewCall
<1>2. CauseKnown /\ [Next]_vars => CauseKnown'
  BY CloseSteps DEF CauseKnown, RequestClose, Codes, NoCode
<1>3. ResponsesInv /\ Covered /\ [Next]_vars => Covered'
  BY CoveredStays
<1>4. ResponsesInv /\ CauseKnown /\ DrainOrder /\ [Next]_vars => DrainOrder'
  BY DrainOrderStays
<1>5. /\ ResponsesInv /\ CauseKnown /\ Covered /\ DrainOrder /\ DrainAnswersAll
      /\ [Next]_vars
      => DrainAnswersAll'
  BY DrainAnswersStay
<1> QED BY <1>1, <1>2, <1>3, <1>4, <1>5, ResponsesInvariant, PTL DEF Spec

=============================================================================
