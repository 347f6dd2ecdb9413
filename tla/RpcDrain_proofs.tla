---------------------------- MODULE RpcDrain_proofs ----------------------------
(* Safety of RpcDrain for any set of connections, of any kind, and any number  *)
(* of callers of drain().                                                      *)
EXTENDS RpcDrain, TLAPS

USE DrainAssumption

\* Every step of a connection, a caller or the coordinator keeps the types and
\* registers a task exactly while it is between entering and ending.
LEMMA TypeStep == TypeOK /\ [Next]_vars => TypeOK'
<1> SUFFICES ASSUME TypeOK, [Next]_vars PROVE TypeOK'
  OBVIOUS
<1> USE DEF TypeOK
<1>1. CASE UNCHANGED vars
  BY <1>1 DEF vars, serveVars, drainVars
<1>2. ASSUME NEW s \in Sessions, SessionNext(s) PROVE TypeOK'
  <2> USE DEF drainVars, serveVars
  <2>1. CASE Enter(s)
    BY <2>1 DEF Enter
  <2>2. CASE Prepare(s)
    BY <2>2 DEF Prepare
  <2>3. CASE Prepared(s)
    BY <2>3 DEF Prepared
  <2>4. CASE Accept(s)
    BY <2>4 DEF Accept
  <2>5. CASE Start(s)
    BY <2>5 DEF Start
  <2>6. CASE ClosesItself(s)
    BY <2>6 DEF ClosesItself
  <2>7. CASE CancelDelivered(s)
    BY <2>7 DEF CancelDelivered
  <2>8. CASE Leave(s)
    BY <2>8 DEF Leave, Unregister, CloseCode
  <2>9. CASE FinishReady(s)
    BY <2>9 DEF FinishReady
  <2>10. CASE FinishBegins(s)
    BY <2>10 DEF FinishBegins
  <2>11. CASE FinishDone(s)
    BY <2>11 DEF FinishDone
  <2> QED
    BY <1>2, <2>1, <2>2, <2>3, <2>4, <2>5, <2>6, <2>7, <2>8, <2>9, <2>10, <2>11
       DEF SessionNext
<1>3. ASSUME NEW c \in Callers, CallerNext(c) PROVE TypeOK'
  BY <1>3 DEF CallerNext, Drain, CallerCancelled, Return, serveVars, drainVars
<1>4. CASE DrainStarts
  BY <1>4 DEF DrainStarts, serveVars
<1>5. CASE GraceOver
  BY <1>5 DEF GraceOver, Unfinished
<1>6. CASE CleanupOver
  BY <1>6 DEF CleanupOver, Unfinished, serveVars
<1>7. CASE Terminated
  BY <1>7, <1>1 DEF Terminated
<1> QED
  BY <1>1, <1>2, <1>3, <1>4, <1>5, <1>6, <1>7 DEF Next

\* The coordinator's registry holds exactly the connections whose tasks have
\* entered and not ended (RpcDrain._session), and all state is well typed.
THEOREM DrainTypeCorrect == Spec => []TypeOK
<1>1. Init => TypeOK
  BY DEF Init, TypeOK
<1> QED
  BY <1>1, TypeStep, PTL DEF Spec

-----------------------------------------------------------------------------
\* Once the grace period is over, every unfinished session of the snapshot has
\* been cancelled, and the registered ones are among them.
Settled ==
    /\ NobodyMissed
    /\ drainTask \in {"cleanup", "done"} =>
         \A s \in snapshot : Finished(s) \/ s \in cancelled
    /\ \A c \in Callers : caller[c] = "returned" => drainTask = "done"

\* A close cause of its own is only found on a connection that is closing or gone;
\* a connection that closes or was cancelled has a cause.
Caused ==
    \A s \in Sessions :
        /\ code[s] = "own" => serve[s] \in {"closing", "ended"}
        /\ serve[s] = "closing" => code[s] # "none"
        /\ s \in cancelled /\ HasConnection(s) => code[s] # "none"
        /\ told[s] # "shutdown"

\* No step registers a connection behind the coordinator's back or returns early.
LEMMA SettledStep == TypeOK /\ Settled /\ [Next]_vars => Settled'
<1> SUFFICES ASSUME TypeOK, Settled, [Next]_vars PROVE Settled'
  OBVIOUS
<1> USE DEF TypeOK, Settled, NobodyMissed, Finished
<1>1. CASE UNCHANGED vars
  BY <1>1 DEF vars, serveVars, drainVars
<1>2. ASSUME NEW s \in Sessions, SessionNext(s) PROVE Settled'
  <2> USE DEF drainVars
  <2>1. CASE Enter(s)
    BY <2>1 DEF Enter, Refuses, Draining
  <2>2. CASE Prepare(s)
    BY <2>2 DEF Prepare
  <2>3. CASE Prepared(s)
    BY <2>3 DEF Prepared
  <2>4. CASE Accept(s)
    BY <2>4 DEF Accept
  <2>5. CASE Start(s)
    BY <2>5 DEF Start
  <2>6. CASE ClosesItself(s)
    BY <2>6 DEF ClosesItself
  <2>7. CASE CancelDelivered(s)
    BY <2>7 DEF CancelDelivered
  <2>8. CASE Leave(s)
    BY <2>8 DEF Leave, Unregister
  <2>9. CASE FinishReady(s)
    BY <2>9 DEF FinishReady, serveVars
  <2>10. CASE FinishBegins(s)
    BY <2>10 DEF FinishBegins
  <2>11. CASE FinishDone(s)
    BY <2>11 DEF FinishDone, serveVars
  <2> QED
    BY <1>2, <2>1, <2>2, <2>3, <2>4, <2>5, <2>6, <2>7, <2>8, <2>9, <2>10, <2>11
       DEF SessionNext
<1>3. ASSUME NEW c \in Callers, CallerNext(c) PROVE Settled'
  BY <1>3 DEF CallerNext, Drain, CallerCancelled, Return, serveVars, drainVars
<1>4. CASE DrainStarts
  BY <1>4 DEF DrainStarts, serveVars
<1>5. CASE GraceOver
  BY <1>5 DEF GraceOver, Unfinished
<1>6. CASE CleanupOver
  BY <1>6 DEF CleanupOver, Unfinished, serveVars
<1>7. CASE Terminated
  BY <1>7, <1>1 DEF Terminated
<1> QED
  BY <1>1, <1>2, <1>3, <1>4, <1>5, <1>6, <1>7 DEF Next

\* A connection gets a cause no later than its cancellation, and keeps its own.
LEMMA CausedStep ==
    TypeOK /\ Settled /\ Caused /\ [Next]_vars =>
      /\ Caused'
      /\ \A s \in Sessions : code[s] = "own" => code'[s] = "own"
<1> SUFFICES ASSUME TypeOK, Settled, Caused, [Next]_vars
             PROVE  /\ Caused'
                    /\ \A s \in Sessions : code[s] = "own" => code'[s] = "own"
  OBVIOUS
<1> DEFINE Goal == /\ Caused'
                   /\ \A s \in Sessions : code[s] = "own" => code'[s] = "own"
<1> USE DEF TypeOK, Caused, HasConnection
<1>1. CASE UNCHANGED vars
  BY <1>1 DEF vars, serveVars, drainVars
<1>2. ASSUME NEW s \in Sessions, SessionNext(s) PROVE Goal
  <2> USE DEF drainVars
  <2>1. CASE Enter(s)
    BY <2>1 DEF Enter
  <2>2. CASE Prepare(s)
    BY <2>2 DEF Prepare
  <2>3. CASE Prepared(s)
    BY <2>3 DEF Prepared
  <2>4. CASE Accept(s)
    BY <2>4 DEF Accept
  <2>5. CASE Start(s)
    BY <2>5 DEF Start
  <2>6. CASE ClosesItself(s)
    BY <2>6 DEF ClosesItself
  <2>7. CASE CancelDelivered(s)
    BY <2>7 DEF CancelDelivered, Accepted
  <2>8. CASE Leave(s)
    BY <2>8 DEF Leave, CloseCode
  <2>9. CASE FinishReady(s)
    BY <2>9 DEF FinishReady, serveVars
  <2>10. CASE FinishBegins(s)
    BY <2>10 DEF FinishBegins
  <2>11. CASE FinishDone(s)
    BY <2>11 DEF FinishDone, serveVars
  <2> QED
    BY <1>2, <2>1, <2>2, <2>3, <2>4, <2>5, <2>6, <2>7, <2>8, <2>9, <2>10, <2>11
       DEF SessionNext
<1>3. ASSUME NEW c \in Callers, CallerNext(c) PROVE Goal
  BY <1>3 DEF CallerNext, Drain, CallerCancelled, Return, serveVars, drainVars
<1>4. CASE DrainStarts
  BY <1>4 DEF DrainStarts, serveVars
<1>5. CASE GraceOver
  BY <1>5 DEF GraceOver, Unfinished, StopNames, Finished
<1>6. CASE CleanupOver
  <2>1. cancelled' = cancelled
    BY <1>6 DEF CleanupOver, Unfinished, Settled
  <2> QED BY <1>6, <2>1 DEF CleanupOver, serveVars
<1>7. CASE Terminated
  BY <1>7, <1>1 DEF Terminated
<1> QED
  BY <1>1, <1>2, <1>3, <1>4, <1>5, <1>6, <1>7 DEF Next

\* The initial state satisfies both parts of the invariant.
LEMMA DrainInit == Init => Settled /\ Caused
  BY DEF Init, Settled, NobodyMissed, Caused, HasConnection

\* Whatever is registered once _drain() has looked was in its snapshot: the check in
\* _session leaves no window between drain() and the snapshot.
THEOREM DrainMissesNobody == Spec => []NobodyMissed
<1>1. Settled => NobodyMissed
  BY DEF Settled
<1> QED
  BY <1>1, DrainInit, DrainTypeCorrect, SettledStep, PTL DEF Spec

\* drain() never returns while a registered connection is undisturbed.
THEOREM DrainSettles == Spec => []ReturnMeansSettled
<1>1. TypeOK /\ Settled => ReturnMeansSettled
  BY DEF TypeOK, Settled, NobodyMissed, Finished, ReturnMeansSettled
<1> QED
  BY <1>1, DrainInit, DrainTypeCorrect, SettledStep, PTL DEF Spec

\* No accepted connection that a drain ends is told a bare SHUTDOWN: stop() names
\* the cause before it cancels, wherever the connection was.
THEOREM DrainTellsRestart == Spec => []RestartTold
<1>1. Caused => RestartTold
  BY DEF Caused, RestartTold
<1>2. TypeOK /\ Settled /\ Caused /\ [Next]_vars => Caused'
  BY CausedStep
<1> QED
  BY <1>1, <1>2, DrainInit, DrainTypeCorrect, SettledStep, PTL DEF Spec

\* graceful() and stop() never replace the cause a connection closed itself with.
THEOREM DrainPreservesCause == Spec => OwnCausePreserved
<1>1. TypeOK /\ Settled /\ Caused /\ [Next]_vars =>
        [\A s \in Sessions : code[s] = "own" => code'[s] = "own"]_vars
  BY CausedStep
<1>2. TypeOK /\ Settled /\ Caused /\ [Next]_vars => Caused'
  BY CausedStep
<1> QED
  BY <1>1, <1>2, DrainInit, DrainTypeCorrect, SettledStep, PTL
     DEF Spec, OwnCausePreserved

=============================================================================
