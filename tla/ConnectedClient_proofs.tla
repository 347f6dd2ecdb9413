------------------------- MODULE ConnectedClient_proofs -------------------------
(* Safety of RpcConnectedClient for any concurrency limit, any number of calls  *)
(* and any mix of answers, timeouts, cancellations and closes.                  *)
EXTENDS ConnectedClient, FiniteSetTheorems, TLAPS

USE ClientAssumption

Types ==
    /\ phase \in [Call -> {"idle", "queued", "sending", "waiting", "ended"}]
    /\ outcome \in [Call -> {"none", "result", "timeout", "closed", "cancelled"}]
    /\ response \in [Call -> {"open", "answered", "closed"}]
    /\ sendTask \in [Call -> {"none", "running", "done", "cancelled"}]
    /\ pending \subseteq Call /\ sent \subseteq Call
    /\ permits \in Nat /\ ncalls \in 0..MaxCalls
    /\ closed \in BOOLEAN

\* The inductive invariant: calls not made yet are idle, requests are only being
\* sent for calls that wait for that, and permits and ids are accounted for.
Accounted ==
    /\ Types
    /\ NothingLeaks
    /\ ClosedFailsPending
    /\ \A c \in Call : c > ncalls => phase[c] = "idle"
    /\ \A c \in Call : sendTask[c] = "running" => phase[c] = "sending"

\* Every set of calls is finite.
LEMMA CallsFinite == \A S \in SUBSET Call : IsFiniteSet(S)
<1>1. 1 \in Int /\ MaxCalls \in Int
  OBVIOUS
<1>2. IsFiniteSet(Call)
  BY <1>1, FS_Interval DEF Call
<1> QED BY <1>2, FS_Subset

\* Registering a call that holds no permit yet takes one from those left.
LEMMA TakePermit ==
    ASSUME Types, permits + Cardinality(pending) = MaxConcurrency,
           NEW c \in Call, c \notin pending, permits > 0
    PROVE  /\ permits - 1 \in Nat
           /\ permits - 1 + Cardinality(pending \cup {c}) = MaxConcurrency
<1>1. IsFiniteSet(pending)
  BY CallsFinite DEF Types
<1>2. Cardinality(pending \cup {c}) = Cardinality(pending) + 1
        /\ Cardinality(pending) \in Nat
  BY <1>1, FS_AddElement, FS_CardinalityType
<1> QED BY <1>2 DEF Types

\* Forgetting a registered call gives its permit back.
LEMMA GivePermit ==
    ASSUME Types, permits + Cardinality(pending) = MaxConcurrency,
           NEW c \in Call, c \in pending
    PROVE  permits + 1 + Cardinality(pending \ {c}) = MaxConcurrency
<1>1. IsFiniteSet(pending)
  BY CallsFinite DEF Types
<1>2. Cardinality(pending \ {c}) = Cardinality(pending) - 1
        /\ Cardinality(pending) \in Nat
  BY <1>1, FS_RemoveElement, FS_CardinalityType
<1> QED BY <1>2 DEF Types

\* However a call ends, its id is forgotten and its permit, if it has one, returned.
LEMMA ExitKeeps ==
    ASSUME Accounted, NEW c \in Call, phase[c] = "queued" \/ Holding(c),
           NEW r \in {"result", "timeout", "closed", "cancelled"}, Exit(c, r)
    PROVE  Accounted'
<1> USE DEF Accounted, Types, NothingLeaks, Exit, Forget, Release, StopSending
<1>1. Types'
  OBVIOUS
<1>2. pending' = {d \in Call : Holding(d)'}
  BY DEF Holding
<1>3. permits' + Cardinality(pending') = MaxConcurrency
  <2>1. CASE Holding(c)
    BY <2>1, GivePermit
  <2>2. CASE ~Holding(c)
    <3>1. pending \ {c} = pending
      BY <2>2
    <3> QED BY <3>1, <2>2
  <2> QED BY <2>1, <2>2
<1>4. ClosedFailsPending'
  BY DEF ClosedFailsPending
<1>5. \A d \in Call : d > ncalls' => phase'[d] = "idle"
  BY DEF Holding
<1>6. \A d \in Call : sendTask'[d] = "running" => phase'[d] = "sending"
  OBVIOUS
<1> QED BY <1>1, <1>2, <1>3, <1>4, <1>5, <1>6

\* Every step of a call, of the reader or of the close preserves the invariant.
LEMMA AccountedStep == Accounted /\ [Next]_vars => Accounted'
<1> SUFFICES ASSUME Accounted, [Next]_vars PROVE Accounted'
  OBVIOUS
<1> USE DEF Accounted
<1>1. CASE UNCHANGED vars
  BY <1>1 DEF vars, Types, NothingLeaks, Holding, ClosedFailsPending
<1>2. CASE Begin
  <2>1. ncalls + 1 \in Call /\ phase[ncalls + 1] = "idle"
    BY <1>2 DEF Begin, Types, Call
  <2>2. pending' = {d \in Call : Holding(d)'}
    BY <1>2, <2>1 DEF Begin, Types, NothingLeaks, Holding
  <2>3. Types'
    BY <1>2, <2>1 DEF Begin, Types
  <2> QED
    BY <1>2, <2>1, <2>2, <2>3
       DEF Begin, Types, NothingLeaks, ClosedFailsPending, Call
<1>3. CASE Close
  BY <1>3 DEF Close, FailPending, Types, NothingLeaks, Holding, ClosedFailsPending
<1>4. ASSUME NEW c \in Call, CallNext(c) PROVE Accounted'
  <2>1. CASE Acquire(c)
    <3>1. CASE closed
      <4>1. pending' = {d \in Call : Holding(d)'}
        BY <2>1, <3>1 DEF Acquire, RefusesClosed, NothingLeaks, Holding, Types
      <4>2. Types'
        BY <2>1, <3>1 DEF Acquire, RefusesClosed, Types
      <4> QED
        BY <2>1, <3>1, <4>1, <4>2 DEF Acquire, RefusesClosed, NothingLeaks,
           Types, ClosedFailsPending
    <3>2. CASE ~closed
      <4>1. c \notin pending
        BY <2>1 DEF Acquire, NothingLeaks, Holding
      <4>2. permits' \in Nat /\ permits' + Cardinality(pending') = MaxConcurrency
        BY <2>1, <3>2, <4>1, TakePermit DEF Acquire, RefusesClosed, NothingLeaks
      <4>3. pending' = {d \in Call : Holding(d)'}
        BY <2>1, <3>2 DEF Acquire, RefusesClosed, NothingLeaks, Holding, Types
      <4> QED
        BY <2>1, <3>2, <4>2, <4>3 DEF Acquire, RefusesClosed, NothingLeaks,
           Types, ClosedFailsPending
    <3> QED BY <3>1, <3>2
  <2>2. CASE Sent(c)
    BY <2>2 DEF Sent, Types, NothingLeaks, Holding, ClosedFailsPending
  <2>3. CASE SendTooSlow(c)
    BY <2>3 DEF SendTooSlow, FailPending, Types, NothingLeaks, Holding,
       ClosedFailsPending
  <2>4. CASE SendSettles(c)
    BY <2>4 DEF SendSettles, StopSending, Types, NothingLeaks, Holding,
       ClosedFailsPending
  <2>5. CASE Answered(c)
    BY <2>5, ExitKeeps DEF Answered, Holding
  <2>6. CASE TimesOut(c)
    BY <2>6, ExitKeeps DEF TimesOut
  <2>7. CASE CallerCancelled(c)
    BY <2>7, ExitKeeps DEF CallerCancelled
  <2>8. CASE Resolve(c)
    BY <2>8 DEF Resolve, Accepts, Types, NothingLeaks, Holding, ClosedFailsPending
  <2> QED
    BY <1>4, <2>1, <2>2, <2>3, <2>4, <2>5, <2>6, <2>7, <2>8 DEF CallNext
<1>5. CASE Terminated
  BY <1>5, <1>1 DEF Terminated
<1> QED
  BY <1>1, <1>2, <1>3, <1>4, <1>5 DEF Next

\* The invariant holds in every reachable state.
LEMMA AccountedAlways == Spec => []Accounted
<1>1. Init => Accounted
  <2> SUFFICES ASSUME Init PROVE Accounted
    OBVIOUS
  <2>0. Cardinality({}) = 0
    BY FS_EmptySet
  <2>1. pending = {} /\ Cardinality(pending) = 0
    BY <2>0 DEF Init
  <2>2. Types
    <3>1. closed \in BOOLEAN
      BY Zenon DEF Init
    <3>2. permits \in Nat /\ ncalls \in 0..MaxCalls
      BY DEF Init
    <3> QED BY <3>1, <3>2 DEF Init, Types
  <2>3. NothingLeaks
    <3>1. {c \in Call : Holding(c)} = {}
      BY DEF Init, Holding
    <3>2. permits = MaxConcurrency
      BY DEF Init
    <3> QED BY <2>1, <3>1, <3>2, SMT DEF NothingLeaks
  <2> QED
    BY <2>2, <2>3 DEF Init, Accounted, ClosedFailsPending
<1> QED
  BY <1>1, AccountedStep, PTL DEF Spec

-----------------------------------------------------------------------------
\* All fields are well typed and the semaphore never has more permits than
\* max_concurrency, whichever way calls end.
THEOREM ClientTypeCorrect == Spec => []TypeOK
<1>1. Accounted => TypeOK
  <2> SUFFICES ASSUME Accounted PROVE TypeOK
    OBVIOUS
  <2>1. Cardinality(pending) \in Nat
    BY CallsFinite, FS_CardinalityType DEF Accounted, Types
  <2>2. permits \in 0..MaxConcurrency
    BY <2>1 DEF Accounted, Types, NothingLeaks
  <2> QED BY <2>2 DEF Accounted, Types, TypeOK
<1> QED
  BY <1>1, AccountedAlways, PTL

\* _pending holds exactly the calls that hold a permit, and no permit is lost.
THEOREM ClientNothingLeaks == Spec => []NothingLeaks
<1>1. Accounted => NothingLeaks
  BY DEF Accounted
<1> QED
  BY <1>1, AccountedAlways, PTL

\* A closed handle leaves no registered call without an outcome.
THEOREM ClientCloseFailsPending == Spec => []ClosedFailsPending
<1>1. Accounted => ClosedFailsPending
  BY DEF Accounted
<1> QED
  BY <1>1, AccountedAlways, PTL

\* The first answer, or the close, decides a call for good.
THEOREM ClientFirstAnswerStands == Spec => FirstAnswerStands
<1>1. ASSUME Accounted, [Next]_vars
      PROVE  [\A c \in Call :
                 /\ response[c] # "open" => response'[c] = response[c]
                 /\ outcome'[c] = "result" /\ outcome[c] # "result" =>
                      response[c] = "answered"]_vars
  <2> USE <1>1 DEF Accounted, Types
  <2> SUFFICES ASSUME Next, NEW c \in Call
               PROVE  /\ response[c] # "open" => response'[c] = response[c]
                      /\ outcome'[c] = "result" /\ outcome[c] # "result" =>
                           response[c] = "answered"
    OBVIOUS
  <2>1. CASE Begin
    BY <2>1 DEF Begin
  <2>2. CASE Close
    BY <2>2 DEF Close, FailPending
  <2>3. ASSUME NEW d \in Call, CallNext(d)
        PROVE  /\ response[c] # "open" => response'[c] = response[c]
               /\ outcome'[c] = "result" /\ outcome[c] # "result" =>
                    response[c] = "answered"
    BY <2>3 DEF CallNext, Acquire, Sent, SendTooSlow, FailPending, SendSettles,
       Answered, TimesOut, CallerCancelled, Exit, Resolve, Accepts
  <2>4. CASE Terminated
    BY <2>4 DEF Terminated, vars
  <2> QED
    BY <2>1, <2>2, <2>3, <2>4 DEF Next
<1> QED
  BY <1>1, AccountedAlways, PTL DEF Spec, FirstAnswerStands

\* No request enters the queue for a call that has been given up.
THEOREM ClientNoStaleRequest == Spec => NoStaleRequest
<1>1. ASSUME Accounted, [Next]_vars
      PROVE  [\A c \in sent' \ sent : phase[c] = "sending"]_vars
  BY <1>1 DEF Accounted, Types, Next, Begin, Close, CallNext, Acquire, Sent,
     SendTooSlow, SendSettles, Answered, TimesOut, CallerCancelled, Exit, Resolve,
     Terminated, vars
<1> QED
  BY <1>1, AccountedAlways, PTL DEF Spec, NoStaleRequest

=============================================================================
