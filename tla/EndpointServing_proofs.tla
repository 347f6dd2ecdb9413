------------------------ MODULE EndpointServing_proofs ------------------------
(***************************************************************************)
(* The safety invariants of EndpointServing, for any queue limit, any       *)
(* number of frames and any number of cancellations.                         *)
(***************************************************************************)
EXTENDS EndpointServing, SequenceTheorems, TLAPS

Unaccepted == {"preparing", "rejecting", "accepting"}
Torn == {"reclosing", "unwinding", "done"}

\* What the serving task holds in each phase: it leaves a phase, by itself or
\* interrupted, only when the tasks, the generator and the scopes of the phases that
\* follow are given up.
TeardownOrder ==
    /\ main \notin {"serving", "joining"} => TasksOver
    /\ main \notin {"serving", "joining", "aclosing", "leaving", "finally"} =>
          gen # "open"
    /\ main \notin {"serving", "joining", "aclosing", "leaving"} => ~scopes

\* The connection is closed in the last phases only, by the one attempt that was not
\* interrupted, and a closed connection has no timer.
ClosesLast ==
    /\ main \in Unaccepted => ~accepted
    /\ main \notin Unaccepted \cup {"unwinding", "done"} => accepted
    /\ closed => /\ main \in {"exiting", "unwinding", "done"}
                 /\ ~timer /\ accepted
                 /\ frame # <<>> \/ clientClosed \/ peerLeft
    /\ ~closed => frame = <<>>
    /\ main \in {"unwinding", "done"} /\ accepted => closed \/ cut
    /\ Len(frame) <= 1

\* Where a cancellation came from: the expiry cancels only between accept() and the
\* end of _accepted, and one from outside is pending, unwinding or masked.
CancellationsTraced ==
    /\ startup => main \notin Unaccepted \cup Torn
    /\ pending \in {"expiry", "both"} => main \notin Unaccepted \cup Torn
    /\ pending \in {"outside", "both"} => cancels > 0
    /\ err = "outside" => cancels > 0
    /\ main \in Unaccepted => err = None
    /\ main \in Torn /\ err # None => cancels > 0
    /\ cancels > 0 /\ ~masked => err # None \/ pending # None
    /\ main = "done" => pending = None

EndpointInv == TypeOK /\ TeardownOrder /\ ClosesLast /\ CancellationsTraced

-----------------------------------------------------------------------------
(* The close cause *)

\* The part of TypeOK about the close cause.
CauseOK ==
    /\ closeEvent \in BOOLEAN /\ closeValue \in Codes /\ code \in Codes \cup {None}
    /\ expired \in BOOLEAN /\ clientClosed \in BOOLEAN

\* The other parts, by what they are about.
ServingOK ==
    /\ main \in Phases /\ err \in {None, "expiry", "outside"}
    /\ pending \in {None, "expiry", "outside", "both"} /\ cancels \in 0..MaxCancels
    /\ masked \in BOOLEAN /\ scopes \in BOOLEAN

HandleOK ==
    /\ timer \in BOOLEAN /\ startup \in BOOLEAN /\ installed \in BOOLEAN
    /\ accepted \in BOOLEAN /\ closed \in BOOLEAN

WireOK ==
    /\ frame \in Seq(Codes)
    /\ cut \in BOOLEAN /\ rejected \in BOOLEAN /\ peerLeft \in BOOLEAN

TasksOK ==
    /\ gen \in {None, "open", "closed"} /\ handler \in {None, "running", "ended"}
    /\ reader \in {None, "reading", "putting", "ended"}
    /\ queue \in 0..MaxQueue /\ inputEnded \in BOOLEAN /\ received \in 0..MaxFrames

\* Naming a cause keeps the types and never brings a client back.
CauseStep == CauseOK' /\ (clientClosed => clientClosed')

\* A step that leaves the cause alone.
LEMMA CauseUnchanged == CauseOK /\ UNCHANGED closing => CauseStep
BY DEF CauseOK, CauseStep, closing

\* request_close, with any close code.
LEMMA RequestCloseNames ==
    ASSUME CauseOK, NEW c \in Codes, NEW b \in BOOLEAN, RequestClose(c, b)
    PROVE  CauseStep
BY DEF CauseOK, CauseStep, RequestClose

\* close_stream_error, with the code a failure is mapped to.
LEMMA CloseFailureNames == CauseOK /\ CloseFailure => CauseStep
<1> SUFFICES ASSUME CauseOK, NEW c \in FailCodes, RequestClose(c, FALSE)
             PROVE  CauseStep
  BY DEF CloseFailure
<1>1. c \in Codes /\ FALSE \in BOOLEAN
  BY CodesAssumption
<1> QED
  BY <1>1 DEF CauseOK, CauseStep, RequestClose

\* client_disconnected, with any close code.
LEMMA ClientDisconnectedNames ==
    ASSUME CauseOK, NEW c \in Codes, ClientDisconnected(c)
    PROVE  CauseStep
BY DEF CauseOK, CauseStep, ClientDisconnected

\* The cause that a cancellation of the runner names.
LEMMA RunCancelledNames == CauseOK /\ RunCancelled => CauseStep
BY DEF CauseOK, CauseStep, RunCancelled, Codes

\* Every step treats the close cause so.
LEMMA CauseNext == TypeOK /\ [Next]_vars => CauseStep
<1> SUFFICES ASSUME TypeOK, [Next]_vars PROVE CauseStep
  OBVIOUS
<1>c. CauseOK
  BY DEF TypeOK, CauseOK
<1>0. CASE UNCHANGED closing
  BY <1>c, <1>0, CauseUnchanged
<1>1. CASE ScopeFails \/ HandlerFails
  BY <1>c, <1>1, CloseFailureNames DEF ScopeFails, HandlerFails
<1>2. CASE HandlerReturns \/ ReaderFails
  <2>1. CloseFailure \/ \E c \in Codes : RequestClose(c, FALSE)
    BY <1>2 DEF HandlerReturns, ReaderFails, Codes
  <2> QED
    BY <1>c, <2>1, RequestCloseNames, CloseFailureNames
<1>3. CASE HandlerSendFails \/ ReaderDisconnected
  BY <1>c, <1>3, ClientDisconnectedNames DEF HandlerSendFails, ReaderDisconnected, Codes
<1>4. CASE SendsTooLate
  BY <1>c, <1>4, RequestCloseNames, ClientDisconnectedNames DEF SendsTooLate, Codes
<1>5. CASE SendTimesOut
  BY <1>c, <1>5, RequestCloseNames DEF SendTimesOut, Codes
<1>6. CASE ReaderRefuses
  BY <1>c, <1>6, RequestCloseNames DEF ReaderRefuses, Codes
<1>7. CASE \E c \in AppCodes : ConnectionCloses(c)
  BY <1>c, <1>7, RequestCloseNames, CodesAssumption DEF ConnectionCloses
<1>8. CASE Opened
  BY <1>c, <1>8, <1>0, RequestCloseNames DEF Opened, RepeatExpiry, Codes
<1>9. CASE CloseGenerator
  BY <1>c, <1>9, <1>0, CloseFailureNames DEF CloseGenerator
<1>10. CASE LeaveScopes \/ Interrupt
  BY <1>c, <1>10, <1>0, RunCancelledNames DEF LeaveScopes, Interrupt
<1>11. CASE LeaveAccepted
  BY <1>c, <1>11 DEF LeaveAccepted, CauseOK, CauseStep, Codes
<1>12. CASE Expire
  <2>1. CASE RequestClose("policy_violation", TRUE)
    BY <1>c, <2>1, RequestCloseNames DEF Codes
  <2>2. CASE ~RequestClose("policy_violation", TRUE)
    BY <1>c, <1>12, <2>2, <1>0 DEF Expire, CauseOK, CauseStep, Codes, closing
  <2> QED
    BY <2>1, <2>2
<1>13. CASE PrepareRejects \/ Rejected \/ PrepareAccepts \/ Accept \/ StartTasks \/ Wake
              \/ Joined \/ CloseSocket \/ Reclose \/ Unwound \/ InterruptExit \/
              SwallowInterrupt \/ HandlerReceives \/ HandlerCancelled \/ ReaderReceives \/
              ReaderPuts \/ ReaderCancelled \/ Rearm \/ CancelServing \/ Terminating
  BY <1>13, <1>0 DEF PrepareRejects, Rejected, PrepareAccepts, Accept, StartTasks,
                     Wake, Joined, CloseSocket, Reclose, Unwound, InterruptExit,
                     SwallowInterrupt, HandlerReceives, HandlerCancelled,
                     ReaderReceives, ReaderPuts, ReaderCancelled, Rearm,
                     CancelServing, Terminating, vars
<1>14. CASE UNCHANGED vars
  BY <1>14, <1>0 DEF vars, closing
<1> QED
  BY <1>1, <1>2, <1>3, <1>4, <1>5, <1>6, <1>7, <1>8, <1>9, <1>10, <1>11, <1>12, <1>13,
     <1>14 DEF Next, MainStep, HandlerStep, ReaderStep

-----------------------------------------------------------------------------
(* The phases of the serving task *)

\* Every step keeps the order of the teardown.
LEMMA TeardownStep ==
    TypeOK /\ TeardownOrder /\ [Next]_vars => TeardownOrder'
<1> SUFFICES ASSUME TypeOK, TeardownOrder, [Next]_vars
             PROVE  TeardownOrder'
  OBVIOUS
<1> USE DEF TypeOK, Phases, TeardownOrder, TasksOver, vars, serving, handle, wire,
            tasks, At, GoTo, None
<1>1. CASE PrepareRejects
  BY <1>1 DEF PrepareRejects
<1>2. CASE Rejected
  BY <1>2 DEF Rejected
<1>3. CASE PrepareAccepts
  BY <1>3 DEF PrepareAccepts
<1>4. CASE Accept
  BY <1>4 DEF Accept
<1>5. CASE Opened
  BY <1>5 DEF Opened
<1>6. CASE StartTasks
  BY <1>6 DEF StartTasks
<1>7. CASE ScopeFails
  BY <1>7 DEF ScopeFails, Finally
<1>8. CASE Wake
  BY <1>8 DEF Wake
<1>9. CASE Joined
  BY <1>9 DEF Joined, Gathered
<1>10. CASE CloseGenerator
  BY <1>10 DEF CloseGenerator
<1>11. CASE LeaveScopes
  BY <1>11 DEF LeaveScopes, Finally
<1>12. CASE CloseSocket
  BY <1>12 DEF CloseSocket, MarkClosed, SendClose
<1>13. CASE LeaveAccepted
  BY <1>13 DEF LeaveAccepted, AfterAccepted, OnlyExpiry
<1>14. CASE Reclose
  BY <1>14 DEF Reclose, MarkClosed, SendClose
<1>15. CASE Unwound
  BY <1>15 DEF Unwound
<1>16. CASE Interrupt
  BY <1>16 DEF Interrupt, Interrupted, Finally
<1>17. CASE InterruptExit
  BY <1>17 DEF InterruptExit
<1>18. CASE SwallowInterrupt
  BY <1>18 DEF SwallowInterrupt
<1>19. CASE HandlerReturns
  BY <1>19 DEF HandlerReturns, HandlerEnds
<1>20. CASE HandlerFails
  BY <1>20 DEF HandlerFails, HandlerEnds
<1>21. CASE HandlerSendFails
  BY <1>21 DEF HandlerSendFails, HandlerEnds
<1>22. CASE SendsTooLate
  BY <1>22 DEF SendsTooLate, HandlerEnds
<1>23. CASE SendTimesOut
  BY <1>23 DEF SendTimesOut
<1>24. CASE HandlerReceives
  BY <1>24 DEF HandlerReceives, HandlerEnds
<1>25. CASE HandlerCancelled
  BY <1>25 DEF HandlerCancelled, HandlerEnds
<1>26. CASE ReaderReceives
  BY <1>26 DEF ReaderReceives, ReaderEnds
<1>27. CASE ReaderPuts
  BY <1>27 DEF ReaderPuts, ReaderEnds
<1>28. CASE ReaderRefuses
  BY <1>28 DEF ReaderRefuses, ReaderEnds
<1>29. CASE ReaderDisconnected
  BY <1>29 DEF ReaderDisconnected, ReaderEnds
<1>30. CASE ReaderFails
  BY <1>30 DEF ReaderFails, ReaderEnds
<1>31. CASE ReaderCancelled
  BY <1>31 DEF ReaderCancelled, ReaderEnds
<1>32. CASE Expire
  BY <1>32 DEF Expire, Cancelled
<1>33. CASE Rearm
  BY <1>33 DEF Rearm
<1>34. CASE CancelServing
  BY <1>34 DEF CancelServing, Cancelled
<1>35. ASSUME NEW c \in AppCodes, ConnectionCloses(c) PROVE TeardownOrder'
  BY <1>35 DEF ConnectionCloses
<1>36. CASE UNCHANGED vars
  BY <1>36 DEF closing
<1> QED
  BY <1>1, <1>2, <1>3, <1>4, <1>5, <1>6, <1>7, <1>8, <1>9, <1>10, <1>11, <1>12,
     <1>13, <1>14, <1>15, <1>16, <1>17, <1>18, <1>19, <1>20, <1>21, <1>22, <1>23,
     <1>24, <1>25, <1>26, <1>27, <1>28, <1>29, <1>30, <1>31, <1>32, <1>33, <1>34,
     <1>35, <1>36
     DEF Next, MainStep, HandlerStep, ReaderStep, Terminating

\* The close frame is sent, once, in the phases in which it may be.
LEMMA ClosesStep ==
    TypeOK /\ ClosesLast /\ CauseStep /\ [Next]_vars => ClosesLast'
<1> SUFFICES ASSUME TypeOK, ClosesLast, CauseStep, [Next]_vars
             PROVE  ClosesLast'
  OBVIOUS
<1> USE DEF TypeOK, Phases, ClosesLast, CauseStep, Unaccepted, vars, serving,
            handle, wire, tasks, At, GoTo, None
<1>1. CASE PrepareRejects
  BY <1>1 DEF PrepareRejects
<1>2. CASE Rejected
  BY <1>2 DEF Rejected
<1>3. CASE PrepareAccepts
  BY <1>3 DEF PrepareAccepts
<1>4. CASE Accept
  BY <1>4 DEF Accept
<1>5. CASE Opened
  BY <1>5 DEF Opened
<1>6. CASE StartTasks
  BY <1>6 DEF StartTasks
<1>7. CASE ScopeFails
  BY <1>7 DEF ScopeFails, Finally
<1>8. CASE Wake
  BY <1>8 DEF Wake
<1>9. CASE Joined
  BY <1>9 DEF Joined, Gathered
<1>10. CASE CloseGenerator
  BY <1>10 DEF CloseGenerator
<1>11. CASE LeaveScopes
  BY <1>11 DEF LeaveScopes, Finally
<1>12. CASE CloseSocket
  BY <1>12 DEF CloseSocket, MarkClosed, SendClose
<1>13. CASE LeaveAccepted
  BY <1>13 DEF LeaveAccepted, AfterAccepted, OnlyExpiry
<1>14. CASE Reclose
  BY <1>14 DEF Reclose, MarkClosed, SendClose
<1>15. CASE Unwound
  BY <1>15 DEF Unwound
<1>16. CASE Interrupt
  BY <1>16 DEF Interrupt, Interrupted, Finally
<1>17. CASE InterruptExit
  BY <1>17 DEF InterruptExit
<1>18. CASE SwallowInterrupt
  BY <1>18 DEF SwallowInterrupt
<1>19. CASE HandlerReturns
  BY <1>19 DEF HandlerReturns, HandlerEnds
<1>20. CASE HandlerFails
  BY <1>20 DEF HandlerFails, HandlerEnds
<1>21. CASE HandlerSendFails
  BY <1>21 DEF HandlerSendFails, HandlerEnds
<1>22. CASE SendsTooLate
  BY <1>22 DEF SendsTooLate, HandlerEnds
<1>23. CASE SendTimesOut
  BY <1>23 DEF SendTimesOut
<1>24. CASE HandlerReceives
  BY <1>24 DEF HandlerReceives, HandlerEnds
<1>25. CASE HandlerCancelled
  BY <1>25 DEF HandlerCancelled, HandlerEnds
<1>26. CASE ReaderReceives
  BY <1>26 DEF ReaderReceives, ReaderEnds
<1>27. CASE ReaderPuts
  BY <1>27 DEF ReaderPuts, ReaderEnds
<1>28. CASE ReaderRefuses
  BY <1>28 DEF ReaderRefuses, ReaderEnds
<1>29. CASE ReaderDisconnected
  BY <1>29 DEF ReaderDisconnected, ReaderEnds
<1>30. CASE ReaderFails
  BY <1>30 DEF ReaderFails, ReaderEnds
<1>31. CASE ReaderCancelled
  BY <1>31 DEF ReaderCancelled, ReaderEnds
<1>32. CASE Expire
  BY <1>32 DEF Expire, Cancelled
<1>33. CASE Rearm
  BY <1>33 DEF Rearm
<1>34. CASE CancelServing
  BY <1>34 DEF CancelServing, Cancelled
<1>35. ASSUME NEW c \in AppCodes, ConnectionCloses(c) PROVE ClosesLast'
  BY <1>35 DEF ConnectionCloses
<1>36. CASE UNCHANGED vars
  BY <1>36 DEF closing
<1> QED
  BY <1>1, <1>2, <1>3, <1>4, <1>5, <1>6, <1>7, <1>8, <1>9, <1>10, <1>11, <1>12,
     <1>13, <1>14, <1>15, <1>16, <1>17, <1>18, <1>19, <1>20, <1>21, <1>22, <1>23,
     <1>24, <1>25, <1>26, <1>27, <1>28, <1>29, <1>30, <1>31, <1>32, <1>33, <1>34,
     <1>35, <1>36
     DEF Next, MainStep, HandlerStep, ReaderStep, Terminating

\* No step loses a cancellation or takes one for the other.
LEMMA CancellationsStep ==
    TypeOK /\ CancellationsTraced /\ [Next]_vars => CancellationsTraced'
<1> SUFFICES ASSUME TypeOK, CancellationsTraced, [Next]_vars
             PROVE  CancellationsTraced'
  OBVIOUS
<1> USE DEF TypeOK, Phases, CancellationsTraced, Unaccepted, Torn, vars, serving,
            handle, wire, tasks, At, GoTo, None
<1>1. CASE PrepareRejects
  BY <1>1 DEF PrepareRejects
<1>2. CASE Rejected
  BY <1>2 DEF Rejected
<1>3. CASE PrepareAccepts
  BY <1>3 DEF PrepareAccepts
<1>4. CASE Accept
  BY <1>4 DEF Accept
<1>5. CASE Opened
  BY <1>5 DEF Opened
<1>6. CASE StartTasks
  BY <1>6 DEF StartTasks
<1>7. CASE ScopeFails
  BY <1>7 DEF ScopeFails, Finally
<1>8. CASE Wake
  BY <1>8 DEF Wake
<1>9. CASE Joined
  BY <1>9 DEF Joined, Gathered
<1>10. CASE CloseGenerator
  BY <1>10 DEF CloseGenerator
<1>11. CASE LeaveScopes
  BY <1>11 DEF LeaveScopes, Finally
<1>12. CASE CloseSocket
  BY <1>12 DEF CloseSocket, MarkClosed, SendClose
<1>13. CASE LeaveAccepted
  BY <1>13 DEF LeaveAccepted, AfterAccepted, OnlyExpiry
<1>14. CASE Reclose
  BY <1>14 DEF Reclose, MarkClosed, SendClose
<1>15. CASE Unwound
  BY <1>15 DEF Unwound
<1>16. CASE Interrupt
  BY <1>16 DEF Interrupt, Interrupted, Finally
<1>17. CASE InterruptExit
  BY <1>17 DEF InterruptExit
<1>18. CASE SwallowInterrupt
  BY <1>18 DEF SwallowInterrupt
<1>19. CASE HandlerReturns
  BY <1>19 DEF HandlerReturns, HandlerEnds
<1>20. CASE HandlerFails
  BY <1>20 DEF HandlerFails, HandlerEnds
<1>21. CASE HandlerSendFails
  BY <1>21 DEF HandlerSendFails, HandlerEnds
<1>22. CASE SendsTooLate
  BY <1>22 DEF SendsTooLate, HandlerEnds
<1>23. CASE SendTimesOut
  BY <1>23 DEF SendTimesOut
<1>24. CASE HandlerReceives
  BY <1>24 DEF HandlerReceives, HandlerEnds
<1>25. CASE HandlerCancelled
  BY <1>25 DEF HandlerCancelled, HandlerEnds
<1>26. CASE ReaderReceives
  BY <1>26 DEF ReaderReceives, ReaderEnds
<1>27. CASE ReaderPuts
  BY <1>27 DEF ReaderPuts, ReaderEnds
<1>28. CASE ReaderRefuses
  BY <1>28 DEF ReaderRefuses, ReaderEnds
<1>29. CASE ReaderDisconnected
  BY <1>29 DEF ReaderDisconnected, ReaderEnds
<1>30. CASE ReaderFails
  BY <1>30 DEF ReaderFails, ReaderEnds
<1>31. CASE ReaderCancelled
  BY <1>31 DEF ReaderCancelled, ReaderEnds
<1>32. CASE Expire
  BY <1>32 DEF Expire, Cancelled
<1>33. CASE Rearm
  BY <1>33 DEF Rearm
<1>34. CASE CancelServing
  BY <1>34 DEF CancelServing, Cancelled
<1>35. ASSUME NEW c \in AppCodes, ConnectionCloses(c) PROVE CancellationsTraced'
  BY <1>35 DEF ConnectionCloses
<1>36. CASE UNCHANGED vars
  BY <1>36 DEF closing
<1> QED
  BY <1>1, <1>2, <1>3, <1>4, <1>5, <1>6, <1>7, <1>8, <1>9, <1>10, <1>11, <1>12,
     <1>13, <1>14, <1>15, <1>16, <1>17, <1>18, <1>19, <1>20, <1>21, <1>22, <1>23,
     <1>24, <1>25, <1>26, <1>27, <1>28, <1>29, <1>30, <1>31, <1>32, <1>33, <1>34,
     <1>35, <1>36
     DEF Next, MainStep, HandlerStep, ReaderStep, Terminating

\* Every step keeps the types.
LEMMA TypeStep ==
    TypeOK /\ CauseStep /\ [Next]_vars => TypeOK'
<1> SUFFICES ASSUME TypeOK, CauseStep, [Next]_vars
             PROVE  TypeOK'
  OBVIOUS
<1> USE DEF TypeOK, CauseOK, CauseStep, vars, serving, handle, wire, tasks, At,
            GoTo, None
<1>1. CASE PrepareRejects
  BY <1>1 DEF PrepareRejects, Phases
<1>2. CASE Rejected
  BY <1>2 DEF Rejected, Phases
<1>3. CASE PrepareAccepts
  BY <1>3 DEF PrepareAccepts, Phases
<1>4. CASE Accept
  BY <1>4 DEF Accept, Phases
<1>5. CASE Opened
  BY <1>5 DEF Opened, Phases
<1>6. CASE StartTasks
  <2>1. ServingOK'
    BY <1>6 DEF StartTasks, ServingOK, Phases
  <2>2. HandleOK'
    BY <1>6 DEF StartTasks, HandleOK
  <2>3. WireOK'
    BY <1>6 DEF StartTasks, WireOK
  <2>4. TasksOK'
    BY <1>6 DEF StartTasks, TasksOK
  <2> QED
    BY <1>6, <2>1, <2>2, <2>3, <2>4 DEF StartTasks, ServingOK, HandleOK, WireOK, TasksOK
<1>7. CASE ScopeFails
  <2>1. ServingOK'
    BY <1>7 DEF ScopeFails, ServingOK, Finally, Phases
  <2>2. HandleOK'
    BY <1>7 DEF ScopeFails, HandleOK
  <2>3. WireOK'
    BY <1>7 DEF ScopeFails, WireOK
  <2>4. TasksOK'
    BY <1>7 DEF ScopeFails, TasksOK
  <2> QED
    BY <1>7, <2>1, <2>2, <2>3, <2>4 DEF ScopeFails, ServingOK, HandleOK, WireOK, TasksOK
<1>8. CASE Wake
  BY <1>8 DEF Wake, Phases
<1>9. CASE Joined
  BY <1>9 DEF Joined, Gathered, Phases
<1>10. CASE CloseGenerator
  BY <1>10 DEF CloseGenerator, Phases
<1>11. CASE LeaveScopes
  <2>1. ServingOK'
    BY <1>11 DEF LeaveScopes, ServingOK, Finally, Phases
  <2>2. HandleOK'
    BY <1>11 DEF LeaveScopes, HandleOK
  <2>3. WireOK'
    BY <1>11 DEF LeaveScopes, WireOK
  <2>4. TasksOK'
    BY <1>11 DEF LeaveScopes, TasksOK
  <2> QED
    BY <1>11, <2>1, <2>2, <2>3, <2>4 DEF LeaveScopes, ServingOK, HandleOK, WireOK, TasksOK
<1>12. CASE CloseSocket
  <2>1. \A c \in Codes : Append(frame, c) \in Seq(Codes)
    BY AppendProperties
  <2>2. frame' \in Seq(Codes) /\ peerLeft' \in BOOLEAN
    BY <1>12, <2>1 DEF CloseSocket, SendClose, Codes
  <2>3. /\ main' \in Phases
        /\ timer' \in BOOLEAN /\ startup' \in BOOLEAN /\ closed' \in BOOLEAN
    BY <1>12 DEF CloseSocket, MarkClosed, Phases
  <2> QED
    BY <1>12, <2>2, <2>3 DEF CloseSocket
<1>13. CASE LeaveAccepted
  <2>1. ServingOK'
    BY <1>13 DEF LeaveAccepted, ServingOK, AfterAccepted, Phases
  <2>2. HandleOK'
    BY <1>13 DEF LeaveAccepted, HandleOK
  <2>3. WireOK'
    BY <1>13 DEF LeaveAccepted, WireOK
  <2>4. TasksOK'
    BY <1>13 DEF LeaveAccepted, TasksOK
  <2> QED
    BY <1>13, <2>1, <2>2, <2>3, <2>4 DEF LeaveAccepted, ServingOK, HandleOK, WireOK, TasksOK
<1>14. CASE Reclose
  <2>1. \A c \in Codes : Append(frame, c) \in Seq(Codes)
    BY AppendProperties
  <2>2. frame' \in Seq(Codes) /\ peerLeft' \in BOOLEAN
    BY <1>14, <2>1 DEF Reclose, SendClose, Codes
  <2>3. /\ main' \in Phases
        /\ timer' \in BOOLEAN /\ startup' \in BOOLEAN /\ closed' \in BOOLEAN
    BY <1>14 DEF Reclose, MarkClosed, Phases
  <2> QED
    BY <1>14, <2>2, <2>3 DEF Reclose
<1>15. CASE Unwound
  BY <1>15 DEF Unwound, Phases
<1>16. CASE Interrupt
  BY <1>16 DEF Interrupt, Interrupted, Finally, Phases
<1>17. CASE InterruptExit
  BY <1>17 DEF InterruptExit, Phases
<1>18. CASE SwallowInterrupt
  BY <1>18 DEF SwallowInterrupt, Phases
<1>19. CASE HandlerReturns
  BY <1>19 DEF HandlerReturns, HandlerEnds
<1>20. CASE HandlerFails
  BY <1>20 DEF HandlerFails, HandlerEnds
<1>21. CASE HandlerSendFails
  BY <1>21 DEF HandlerSendFails, HandlerEnds
<1>22. CASE SendsTooLate
  BY <1>22 DEF SendsTooLate, HandlerEnds
<1>23. CASE SendTimesOut
  BY <1>23 DEF SendTimesOut
<1>24. CASE HandlerReceives
  BY <1>24, BoundsAssumption DEF HandlerReceives, HandlerEnds
<1>25. CASE HandlerCancelled
  BY <1>25 DEF HandlerCancelled, HandlerEnds
<1>26. CASE ReaderReceives
  <2>1. received' \in 0..MaxFrames
    BY <1>26, BoundsAssumption DEF ReaderReceives
  <2>2. inputEnded' \in BOOLEAN
    BY <1>26 DEF ReaderReceives
  <2> QED
    BY <1>26, <2>1, <2>2 DEF ReaderReceives
<1>27. CASE ReaderPuts
  BY <1>27, BoundsAssumption DEF ReaderPuts, ReaderEnds
<1>28. CASE ReaderRefuses
  BY <1>28, BoundsAssumption DEF ReaderRefuses, ReaderEnds
<1>29. CASE ReaderDisconnected
  BY <1>29 DEF ReaderDisconnected, ReaderEnds
<1>30. CASE ReaderFails
  BY <1>30 DEF ReaderFails, ReaderEnds
<1>31. CASE ReaderCancelled
  BY <1>31 DEF ReaderCancelled, ReaderEnds
<1>32. CASE Expire
  <2>1. ServingOK'
    BY <1>32 DEF Expire, ServingOK, Cancelled
  <2>2. HandleOK'
    BY <1>32 DEF Expire, HandleOK
  <2>3. WireOK'
    BY <1>32 DEF Expire, WireOK
  <2>4. TasksOK'
    BY <1>32 DEF Expire, TasksOK
  <2> QED
    BY <1>32, <2>1, <2>2, <2>3, <2>4 DEF Expire, ServingOK, HandleOK, WireOK, TasksOK
<1>33. CASE Rearm
  BY <1>33 DEF Rearm
<1>34. CASE CancelServing
  BY <1>34, CancelsAssumption DEF CancelServing, Cancelled
<1>35. ASSUME NEW c \in AppCodes, ConnectionCloses(c) PROVE TypeOK'
  BY <1>35 DEF ConnectionCloses
<1>36. CASE UNCHANGED vars
  BY <1>36 DEF closing
<1> QED
  BY <1>1, <1>2, <1>3, <1>4, <1>5, <1>6, <1>7, <1>8, <1>9, <1>10, <1>11, <1>12,
     <1>13, <1>14, <1>15, <1>16, <1>17, <1>18, <1>19, <1>20, <1>21, <1>22, <1>23,
     <1>24, <1>25, <1>26, <1>27, <1>28, <1>29, <1>30, <1>31, <1>32, <1>33, <1>34,
     <1>35, <1>36
     DEF Next, MainStep, HandlerStep, ReaderStep, Terminating

-----------------------------------------------------------------------------
(* The theorems *)

\* A connection of a stream or raw socket endpoint is torn down in order, is closed
\* in its last phases only, and accounts for every cancellation of its serving task.
THEOREM EndpointInvariant == Spec => []EndpointInv
<1>1. Init => EndpointInv
  <2> SUFFICES ASSUME Init PROVE EndpointInv
    OBVIOUS
  <2>1. TypeOK
    <3>0. 0 \in 0..MaxCancels /\ 0 \in 0..MaxQueue /\ 0 \in 0..MaxFrames
      BY BoundsAssumption, CancelsAssumption
    <3>1. ServingOK
      BY <3>0 DEF Init, ServingOK, Phases
    <3>2. HandleOK /\ CauseOK
      BY DEF Init, HandleOK, CauseOK, Codes
    <3>3. WireOK
      BY EmptySeq DEF Init, WireOK
    <3>4. TasksOK
      BY <3>0 DEF Init, TasksOK
    <3> QED
      BY <3>1, <3>2, <3>3, <3>4
         DEF Init, TypeOK, ServingOK, HandleOK, CauseOK, WireOK, TasksOK
  <2>2. TeardownOrder
    BY DEF Init, TeardownOrder, TasksOver, None
  <2>3. ClosesLast
    BY DEF Init, ClosesLast, Unaccepted, None
  <2>4. CancellationsTraced
    BY DEF Init, CancellationsTraced, Unaccepted, Torn, None
  <2> QED
    BY <2>1, <2>2, <2>3, <2>4 DEF EndpointInv
<1>2. EndpointInv /\ [Next]_vars => EndpointInv'
  BY CauseNext, TypeStep, TeardownStep, ClosesStep, CancellationsStep DEF EndpointInv
<1> QED
  BY <1>1, <1>2, PTL DEF Spec

\* An accepted connection is closed, once, however start-up, handler, reader,
\* teardown, expiry and cancellations interleave (see AcceptedIsClosed).
THEOREM EndpointAcceptedIsClosed == Spec => []AcceptedIsClosed
<1>1. EndpointInv => AcceptedIsClosed
  BY DEF EndpointInv, ClosesLast, AcceptedIsClosed, TypeOK
<1> QED
  BY <1>1, EndpointInvariant, PTL

\* After the close frame, and after serving, no handler or reader task runs, the
\* generator is closed and the resolver scopes are left.
THEOREM EndpointNothingLeft == Spec => []NothingLeft
<1>1. EndpointInv => NothingLeft
  BY DEF EndpointInv, TeardownOrder, ClosesLast, NothingLeft
<1> QED
  BY <1>1, EndpointInvariant, PTL

\* The expiry's own cancellation never leaves the serving task and one from outside
\* is never taken for it, for any number of cancellations.
THEOREM EndpointCancellationKept == Spec => []CancellationKept
<1>1. EndpointInv => CancellationKept
  BY DEF EndpointInv, CancellationsTraced, CancellationKept, Torn
<1> QED
  BY <1>1, EndpointInvariant, PTL
==============================================================================
