----------------------- MODULE RequestExecution_proofs -----------------------
(***************************************************************************)
(* The safety invariants of RequestExecution, for any set of requests, any   *)
(* chain of middleware, any concurrency and any number of interruptions.     *)
(***************************************************************************)
EXTENDS RequestExecution, SequenceTheorems, TLAPS

\* What holds of one request is said of its record q, its responses s and whether the
\* connection is closed, c: a step of a request is then a change of these values.

InBody == {"new", "entering", "queued", "opening", "handling", "responding", "closing"}
Holding == {"opening", "handling", "responding", "closing"}

\* Nothing of the end of the request scope has happened yet.
BodyOK(r, q) ==
    /\ q.left = <<>> /\ q.exited = <<>> /\ q.value = None /\ q.raised = None
    /\ q.interrupted = None /\ q.response = None /\ ~q.responded
    /\ q.pc = "new" => q.at = 1
    /\ q.pc = "entering" => q.at <= Chain
    /\ q.pc \in {"opening", "closing"} => r \notin Handshakes
    /\ q.pc = "responding" => r \in Handshakes /\ q.told # None
    /\ q.pc = "closing" => q.result # None
    /\ q.resolver => q.pc \in {"handling", "closing"} /\ r \notin Handshakes

\* What the request scope ends with.
Cause(q) == IF q.raised # None THEN q.raised ELSE q.interrupted

\* The middleware left and to be left are those entered, backwards; the outcome told
\* to the middleware is the operation's own response, or what on_error set.
LeavingOK(r, q, c) ==
    /\ q.exited \o q.left = Reverse(q.entered)
    /\ ~q.resolver
    /\ r \in Notifications => q.value = None /\ q.response = None /\ ~q.responded
    /\ ~q.responded /\ Cause(q) = None =>
          q.told = q.value /\ (Owes(r) => q.value # None)
    /\ ~q.responded /\ Cause(q) # None /\ ~c /\ ~q.leaked =>
          q.observed /\ q.told = q.response /\ (Owes(r) => q.response # None)

\* A cancellation that is not the client's comes from the deadline, from the close or
\* from user code that raised it.
CausesKnown(q, c) ==
    q.cancel \in {"other", "mixed"} \/ "other" \in {q.result, q.raised, q.interrupted}
       => q.expired \/ c \/ q.leaked

\* A response is sent when the handshake answers or when the task returns.
SentOK(r, q, s, c) ==
    /\ q.responded => Len(s) = 1
    /\ ~q.responded /\ q.pc # "over" => s = <<>>
    /\ ~q.responded /\ q.pc = "over" =>
          /\ Len(s) \in {0, 1} /\ (r \in Notifications => s = <<>>)
          /\ ~c /\ ~q.leaked => s = IF q.told = None THEN <<>> ELSE <<q.told>>

RequestOK(r, q, s, c) ==
    /\ CausesKnown(q, c) /\ SentOK(r, q, s, c)
    /\ q.pc \in InBody => BodyOK(r, q)
    /\ q.pc \in {"exiting", "over"} => LeavingOK(r, q, c)
    /\ q.pc = "exiting" => q.left # <<>>
    /\ q.pc = "over" => q.left = <<>>

\* A slot is held from the semaphore to the end of the body.
SlotsMatch == \A r \in Requests : r \in slots <=> task[r].pc \in Holding

ExecutionInv ==
    /\ TypeOK /\ SlotsMatch
    /\ \A r \in Requests : RequestOK(r, task[r], sent[r], closed)

-----------------------------------------------------------------------------
(* Sequences and records *)

\* The middleware to leave are positions, and the first one moves from what is to be
\* left to what has been left.
LEMMA LeaveOrder ==
    ASSUME NEW e \in Seq(Position)
    PROVE  Reverse(e) \in Seq(Position) /\ <<>> \o Reverse(e) = Reverse(e)
<1>1. Reverse(e) \in Seq(Position)
  BY DEF Reverse
<1> QED
  BY <1>1, ConcatEmptySeq

\* Leaving the first one.
LEMMA LeaveNext ==
    ASSUME NEW e \in Seq(Position), NEW l \in Seq(Position), l # <<>>
    PROVE  /\ Tail(l) \in Seq(Position) /\ Append(e, Head(l)) \in Seq(Position)
           /\ Append(e, Head(l)) \o Tail(l) = e \o l
<1>1. /\ Head(l) \in Position /\ Tail(l) \in Seq(Position)
      /\ Len(Tail(l)) = Len(l) - 1 /\ Len(l) > 0
      /\ Head(l) = l[1]
      /\ \A i \in 1..Len(Tail(l)) : Tail(l)[i] = l[i + 1]
  BY HeadTailProperties
<1>2. /\ Append(e, Head(l)) \in Seq(Position)
      /\ Append(e, Head(l)) = e \o <<Head(l)>>
  BY <1>1, AppendProperties, AppendIsConcat
<1>3. <<Head(l)>> \in Seq(Position)
  BY <1>1
<1>4. <<Head(l)>> \o Tail(l) = l
  BY <1>1
<1> QED
  BY <1>1, <1>2, <1>3, <1>4, ConcatAssociative

\* What on_error is about to record.
LEMMA OnErrorFields ==
    ASSUME NEW r \in Requests, NEW q \in TaskRecord, NEW m \in Interrupts
    PROVE  /\ OnError(r, q, m) \in TaskRecord
           /\ OnError(r, q, m).pc = q.pc /\ OnError(r, q, m).left = q.left
           /\ OnError(r, q, m).exited = q.exited /\ OnError(r, q, m).entered = q.entered
           /\ OnError(r, q, m).cancel = q.cancel /\ OnError(r, q, m).expired = q.expired /\ OnError(r, q, m).leaked = q.leaked
           /\ OnError(r, q, m).result = q.result /\ OnError(r, q, m).value = q.value
           /\ OnError(r, q, m).raised = q.raised
           /\ OnError(r, q, m).interrupted = q.interrupted
           /\ OnError(r, q, m).resolver = q.resolver
           /\ OnError(r, q, m).responded = q.responded
           /\ r \in Notifications /\ q.response = None => OnError(r, q, m).response = None
           /\ (m = "other" => q.expired \/ closed \/ q.leaked) /\ ~closed /\ ~q.leaked =>
                /\ OnError(r, q, m).observed
                /\ OnError(r, q, m).told = OnError(r, q, m).response
                /\ Owes(r) => OnError(r, q, m).response # None
<1> DEFINE f == Interruption(q, m)
<1>1. /\ f \in {"timeout", "cancelled", None}
      /\ Failure(r, "timeout") \in Responses \cup {None}
      /\ Failure(r, "cancelled") \in Responses \cup {None}
  BY DEF Interruption, Failure, Responses
<1>2. (m = "other" => q.expired \/ closed \/ q.leaked) /\ ~closed /\ ~q.leaked => f # None
  BY DEF Interruption, Interrupts, None
<1>3. CASE f = None
  <2>1. OnError(r, q, m) = q
    BY <1>3 DEF OnError
  <2> QED
    BY <2>1, <1>2, <1>3
<1>4. CASE f # None
  <2>1. PICK k \in Responses \cup {None} : k = Failure(r, f)
    BY <1>1, <1>4
  <2>2. OnError(r, q, m) = [q EXCEPT !.observed = TRUE, !.response = k, !.told = k]
    BY <1>4, <2>1 DEF OnError
  <2>3. [q EXCEPT !.observed = TRUE, !.response = k, !.told = k] \in TaskRecord
    BY DEF TaskRecord
  <2>4. (r \in Notifications => k = None) /\ (Owes(r) => k # None)
    BY <1>1, <1>4, <2>1 DEF Failure, Owes, None
  <2> QED
    BY <2>2, <2>3, <2>4 DEF TaskRecord
<1> QED
  BY <1>3, <1>4

\* The verdict of _run_bounded is what its middleware were told, and none for a
\* notification or after the handshake has answered.
LEMMA AnswerIsTold ==
    ASSUME NEW r \in Requests, NEW q \in TaskRecord,
           LeavingOK(r, q, closed), CausesKnown(q, closed)
    PROVE  /\ Answer(r, q) \in Responses \cup {None}
           /\ q.responded \/ r \in Notifications => Answer(r, q) = None
           /\ ~q.responded /\ ~closed /\ ~q.leaked => Answer(r, q) = q.told
<1>1. /\ Cause(q) \in Interrupts \cup {None} /\ q.value \in Responses \cup {None}
      /\ q.response \in Responses \cup {None}
      /\ q.responded \in BOOLEAN /\ q.observed \in BOOLEAN /\ q.expired \in BOOLEAN
      /\ q.leaked \in BOOLEAN
  BY DEF Cause, TaskRecord
<1>2. Cause(q) = "other" => q.expired \/ closed \/ q.leaked
  BY DEF Cause, CausesKnown
<1> DEFINE f == Interruption(q, Cause(q))
<1>3. /\ f \in {"timeout", "cancelled", None}
      /\ Cause(q) # None /\ ~closed /\ ~q.leaked => f # None
  BY <1>1, <1>2 DEF Interruption, Interrupts, None
<1>4. /\ Failure(r, f) \in Responses \cup {None}
      /\ r \in Notifications => Failure(r, f) = None
  BY <1>3 DEF Failure, Owes, Responses
<1>5. Verdict(r, q) = IF Cause(q) = None THEN q.value
                      ELSE IF f = None THEN None
                      ELSE IF q.observed THEN q.response ELSE Failure(r, f)
  BY DEF Verdict, Cause
<1>6. Verdict(r, q) \in Responses \cup {None}
  BY <1>1, <1>4, <1>5
<1>7. r \in Notifications => Verdict(r, q) = None
  BY <1>4, <1>5 DEF LeavingOK
<1>8. ~q.responded /\ ~closed /\ ~q.leaked => Verdict(r, q) = q.told
  BY <1>3, <1>5 DEF LeavingOK
<1> QED
  BY <1>6, <1>7, <1>8 DEF Answer

\* A step of r that keeps to its record and its responses.
StepOK(r) ==
    /\ task' \in [Requests -> TaskRecord] /\ sent' \in [Requests -> Seq(Responses)]
    /\ \A x \in Requests \ {r} : task'[x] = task[x] /\ sent'[x] = sent[x]
    /\ RequestOK(r, task'[r], sent'[r], closed')

\* The next record of r, and what it sends.
LEMMA Updated ==
    ASSUME NEW r \in Requests, NEW q \in TaskRecord, NEW s \in Seq(Responses), TypeOK,
           task' = [task EXCEPT ![r] = q], sent' = [sent EXCEPT ![r] = s],
           UNCHANGED closed, RequestOK(r, q, s, closed)
    PROVE  StepOK(r) /\ task'[r] = q
BY DEF StepOK, TypeOK

\* The same, when nothing is sent.
LEMMA UpdatedSilently ==
    ASSUME NEW r \in Requests, NEW q \in TaskRecord, TypeOK,
           task' = [task EXCEPT ![r] = q], sent' = sent,
           UNCHANGED closed, RequestOK(r, q, sent[r], closed)
    PROVE  StepOK(r) /\ task'[r] = q
BY DEF StepOK, TypeOK

\* The first response.
LEMMA OneResponse ==
    ASSUME NEW x \in Responses
    PROVE  Append(<<>>, x) = <<x>> /\ Len(<<x>>) = 1
OBVIOUS

\* The task goes on with the next middleware to leave, or returns and is answered.
LEMMA Proceeded ==
    ASSUME NEW r \in Requests, NEW q \in TaskRecord, TypeOK,
           LeavingOK(r, q, closed), CausesKnown(q, closed),
           q.responded => Len(sent[r]) = 1, ~q.responded => sent[r] = <<>>,
           Proceed(r, q), UNCHANGED closed
    PROVE  StepOK(r) /\ task'[r].pc \in {"exiting", "over"}
<1>1. sent[r] \in Seq(Responses) /\ q.responded \in BOOLEAN /\ closed \in BOOLEAN
  BY DEF TypeOK, TaskRecord
<1>2. CASE q.left # <<>>
  <2> DEFINE p == [q EXCEPT !.pc = "exiting"]
  <2>1. p \in TaskRecord
    BY DEF TaskRecord
  <2>2. /\ p.pc = "exiting" /\ p.left = q.left /\ p.exited = q.exited
        /\ p.entered = q.entered /\ p.resolver = q.resolver /\ p.value = q.value
        /\ p.response = q.response /\ p.responded = q.responded /\ p.raised = q.raised
        /\ p.interrupted = q.interrupted /\ p.told = q.told /\ p.observed = q.observed
        /\ p.cancel = q.cancel /\ p.result = q.result /\ p.expired = q.expired /\ p.leaked = q.leaked
    BY DEF TaskRecord
  <2>3. task' = [task EXCEPT ![r] = p] /\ sent' = sent
    BY <1>2 DEF Proceed
  <2> HIDE DEF p
  <2>4. LeavingOK(r, p, closed) /\ CausesKnown(p, closed)
    BY <2>2 DEF LeavingOK, CausesKnown, Cause
  <2>5. RequestOK(r, p, sent[r], closed)
    BY <1>2, <2>2, <2>4 DEF RequestOK, SentOK, InBody
  <2> QED
    BY <2>1, <2>2, <2>3, <2>5, UpdatedSilently
<1>3. CASE q.left = <<>>
  <2> DEFINE p == [q EXCEPT !.pc = "over"]
             s == IF Answer(r, q) = None THEN sent[r] ELSE Append(sent[r], Answer(r, q))
  <2>1. p \in TaskRecord
    BY DEF TaskRecord
  <2>2. /\ p.pc = "over" /\ p.left = q.left /\ p.exited = q.exited
        /\ p.entered = q.entered /\ p.resolver = q.resolver /\ p.value = q.value
        /\ p.response = q.response /\ p.responded = q.responded /\ p.raised = q.raised
        /\ p.interrupted = q.interrupted /\ p.told = q.told /\ p.observed = q.observed
        /\ p.cancel = q.cancel /\ p.result = q.result /\ p.expired = q.expired /\ p.leaked = q.leaked
    BY DEF TaskRecord
  <2>3. task' = [task EXCEPT ![r] = p] /\ sent' = [sent EXCEPT ![r] = s]
    BY <1>3 DEF Proceed
  <2> HIDE DEF p
  <2>4. LeavingOK(r, p, closed) /\ CausesKnown(p, closed)
    BY <2>2 DEF LeavingOK, CausesKnown, Cause
  <2>5. /\ Answer(r, q) \in Responses \cup {None}
        /\ q.responded \/ r \in Notifications => Answer(r, q) = None
        /\ ~q.responded /\ ~closed /\ ~q.leaked => Answer(r, q) = q.told
    BY AnswerIsTold
  <2>6. s \in Seq(Responses)
    BY <1>1, <2>5
  <2>7. q.responded => s = sent[r]
    BY <2>5
  <2>8. ~q.responded => s = IF Answer(r, q) = None THEN <<>> ELSE <<Answer(r, q)>>
    BY <2>5, OneResponse
  <2> HIDE DEF s
  <2>9. SentOK(r, p, s, closed)
    <3>1. CASE p.responded
      BY <3>1, <2>2, <2>7 DEF SentOK
    <3>2. CASE ~p.responded
      <4>1. Len(s) \in {0, 1} /\ (r \in Notifications => s = <<>>)
        <5>1. Answer(r, q) = None => s = <<>> /\ Len(s) \in {0, 1}
          BY <3>2, <2>2, <2>8, EmptySeq
        <5>2. Answer(r, q) # None => Len(s) = 1 /\ r \notin Notifications
          BY <3>2, <2>2, <2>5, <2>8, OneResponse
        <5> QED
          BY <2>6, <5>1, <5>2
      <4>2. ~closed /\ ~p.leaked => s = IF p.told = None THEN <<>> ELSE <<p.told>>
        BY <3>2, <2>2, <2>5, <2>8
      <4> QED
        BY <3>2, <2>2, <4>1, <4>2 DEF SentOK
    <3> QED
      BY <3>1, <3>2
  <2>10. RequestOK(r, p, s, closed)
    BY <1>3, <2>2, <2>4, <2>9 DEF RequestOK, InBody
  <2> QED
    BY <2>1, <2>2, <2>3, <2>6, <2>10, Updated
<1> QED
  BY <1>2, <1>3

\* The body ended with the operation's own response v.
LEMMA ReturnedStep ==
    ASSUME NEW r \in Requests, NEW v \in Responses \cup {None}, TypeOK,
           RequestOK(r, task[r], sent[r], closed), task[r].pc \in InBody,
           r \in Notifications => v = None, Owes(r) => v # None,
           Returned(r, v), UNCHANGED closed
    PROVE  StepOK(r) /\ task'[r].pc \in {"exiting", "over"}
<1> DEFINE t == task[r]
           q == [Leaving(t) EXCEPT !.value = v, !.told = v, !.result = None,
                                   !.resolver = FALSE]
<1>1. t \in TaskRecord /\ t.entered \in Seq(Position) /\ closed \in BOOLEAN
  BY DEF TypeOK, TaskRecord
<1>2. BodyOK(r, t) /\ CausesKnown(t, closed) /\ sent[r] = <<>>
  BY DEF RequestOK, InBody, BodyOK, SentOK
<1>3. /\ Reverse(t.entered) \in Seq(Position)
      /\ <<>> \o Reverse(t.entered) = Reverse(t.entered)
  BY <1>1, LeaveOrder
<1>4. Proceed(r, q)
  BY DEF Returned
<1> HIDE DEF t
<1>5. Leaving(t) \in TaskRecord
  BY <1>1, <1>3 DEF Leaving, TaskRecord
<1>6. q \in TaskRecord
  BY <1>5 DEF TaskRecord
<1>7. /\ q.exited = t.exited /\ q.left = Reverse(t.entered) /\ q.entered = t.entered
      /\ q.resolver = FALSE /\ q.value = v /\ q.told = v /\ q.result = None
      /\ q.response = t.response /\ q.responded = t.responded /\ q.raised = t.raised
      /\ q.interrupted = t.interrupted /\ q.cancel = t.cancel /\ q.expired = t.expired /\ q.leaked = t.leaked
  BY <1>1, <1>3, <1>5 DEF Leaving, TaskRecord
<1> HIDE DEF q
<1>8. LeavingOK(r, q, closed)
  BY <1>2, <1>3, <1>7 DEF LeavingOK, BodyOK, Cause
<1>9. CausesKnown(q, closed)
  BY <1>2, <1>7 DEF CausesKnown, None
<1>10. ~q.responded
  BY <1>2, <1>7 DEF BodyOK
<1> QED
  BY <1>2, <1>4, <1>6, <1>8, <1>9, <1>10, Proceeded

\* The record of a task that fails with m.
LEMMA RaisedRecord ==
    ASSUME NEW q \in TaskRecord, NEW m \in Interrupts
    PROVE  [q EXCEPT !.raised = m] \in TaskRecord
BY DEF TaskRecord

\* The body ended with the interruption m.
LEMMA RaisedStep ==
    ASSUME NEW r \in Requests, NEW q \in TaskRecord, NEW m \in Interrupts, TypeOK,
           sent[r] = <<>>, CausesKnown(q, closed), m = "other" => q.expired \/ closed \/ q.leaked,
           q.exited = <<>>, q.raised = None, q.interrupted = None, q.value = None,
           q.response = None, ~q.responded, ~q.resolver,
           Raised(r, m, q), UNCHANGED closed
    PROVE  StepOK(r) /\ task'[r].pc \in {"exiting", "over"}
<1> DEFINE p == [Leaving(q) EXCEPT !.raised = m]
           e == OnError(r, p, m)
<1>1. q.entered \in Seq(Position) /\ closed \in BOOLEAN
  BY DEF TypeOK, TaskRecord
<1>2. /\ Reverse(q.entered) \in Seq(Position)
      /\ <<>> \o Reverse(q.entered) = Reverse(q.entered)
  BY <1>1, LeaveOrder
<1>3. Leaving(q) \in TaskRecord
  BY <1>2 DEF Leaving, TaskRecord
<1>4. p \in TaskRecord
  BY <1>3, RaisedRecord
<1>5. /\ p.exited = q.exited /\ p.left = Reverse(q.entered) /\ p.entered = q.entered
      /\ p.resolver = q.resolver /\ p.value = q.value /\ p.result = q.result
      /\ p.response = q.response /\ p.responded = q.responded /\ p.raised = m
      /\ p.interrupted = q.interrupted /\ p.cancel = q.cancel /\ p.expired = q.expired /\ p.leaked = q.leaked
  BY <1>2, <1>3 DEF Leaving, TaskRecord
<1>6. Proceed(r, e)
  BY DEF Raised
<1> HIDE DEF p
<1>7. /\ e \in TaskRecord
      /\ e.exited = q.exited /\ e.left = Reverse(q.entered) /\ e.entered = q.entered
      /\ e.resolver = q.resolver /\ e.value = q.value /\ e.result = q.result
      /\ e.responded = q.responded /\ e.raised = m
      /\ e.interrupted = q.interrupted /\ e.cancel = q.cancel /\ e.expired = q.expired /\ e.leaked = q.leaked
      /\ r \in Notifications => e.response = None
      /\ ~closed /\ ~e.leaked => e.observed /\ e.told = e.response /\ (Owes(r) => e.response # None)
  BY <1>4, <1>5, OnErrorFields
<1> HIDE DEF e
<1>8. m # None
  BY DEF Interrupts, None
<1>9. LeavingOK(r, e, closed)
  BY <1>2, <1>7, <1>8 DEF LeavingOK, Cause
<1>10. CausesKnown(e, closed)
  BY <1>7 DEF CausesKnown
<1>11. ~e.responded
  BY <1>7
<1> QED
  BY <1>6, <1>7, <1>9, <1>10, <1>11, Proceeded

\* One middleware is left, and m is thrown into its exit unless it is None.
LEMMA LeftOneFields ==
    ASSUME NEW r \in Requests, NEW t \in TaskRecord, NEW c \in BOOLEAN, t.left # <<>>,
           LeavingOK(r, t, c), CausesKnown(t, c)
    PROVE  /\ LeftOne(t) \in TaskRecord
           /\ LeavingOK(r, LeftOne(t), c) /\ CausesKnown(LeftOne(t), c)
           /\ LeftOne(t).responded = t.responded /\ LeftOne(t).raised = t.raised
           /\ LeftOne(t).expired = t.expired /\ LeftOne(t).leaked = t.leaked /\ LeftOne(t).cancel = t.cancel
<1> DEFINE q == LeftOne(t)
<1>1. t.exited \in Seq(Position) /\ t.left \in Seq(Position)
  BY DEF TaskRecord
<1>2. /\ Tail(t.left) \in Seq(Position) /\ Append(t.exited, Head(t.left)) \in Seq(Position)
      /\ Append(t.exited, Head(t.left)) \o Tail(t.left) = t.exited \o t.left
  BY <1>1, LeaveNext
<1>3. q = [t EXCEPT !.left = Tail(t.left), !.exited = Append(t.exited, Head(t.left))]
  BY DEF LeftOne, TaskRecord
<1> HIDE DEF q
<1>4. q \in TaskRecord
  BY <1>2, <1>3 DEF TaskRecord
<1>5. /\ q.exited = Append(t.exited, Head(t.left)) /\ q.left = Tail(t.left)
      /\ q.entered = t.entered /\ q.resolver = t.resolver /\ q.value = t.value
      /\ q.told = t.told /\ q.result = t.result /\ q.response = t.response
      /\ q.responded = t.responded /\ q.raised = t.raised /\ q.observed = t.observed
      /\ q.interrupted = t.interrupted /\ q.cancel = t.cancel /\ q.expired = t.expired /\ q.leaked = t.leaked
  BY <1>3 DEF TaskRecord
<1>6. LeavingOK(r, q, c) /\ CausesKnown(q, c)
  BY <1>2, <1>5 DEF LeavingOK, CausesKnown, Cause
<1> QED
  BY <1>4, <1>5, <1>6 DEF q

-----------------------------------------------------------------------------
(* The steps of one request *)

\* What a step of r does to the slots, and with them to the invariant.
SlotStep(r) ==
    /\ slots' \subseteq Requests
    /\ \A x \in Requests \ {r} : x \in slots' <=> x \in slots
    /\ r \in slots' <=> task'[r].pc \in Holding

\* A step that keeps both keeps the invariant: no other request is touched.
LEMMA StepKeeps ==
    ASSUME NEW r \in Requests, ExecutionInv, StepOK(r), SlotStep(r), UNCHANGED closed
    PROVE  ExecutionInv'
<1>1. TypeOK'
  BY DEF ExecutionInv, TypeOK, StepOK, SlotStep
<1>2. SlotsMatch'
  BY DEF ExecutionInv, SlotsMatch, StepOK, SlotStep
<1>3. ASSUME NEW x \in Requests PROVE RequestOK(x, task'[x], sent'[x], closed')
  <2>1. CASE x = r
    BY <2>1 DEF StepOK
  <2>2. CASE x # r
    <3>1. task'[x] = task[x] /\ sent'[x] = sent[x] /\ closed' = closed
      BY <2>2 DEF StepOK
    <3> QED
      BY <3>1 DEF ExecutionInv
  <2> QED
    BY <2>1, <2>2
<1> QED
  BY <1>1, <1>2, <1>3 DEF ExecutionInv

\* What the steps of r start from.
LEMMA StepFacts ==
    ASSUME NEW r \in Requests, ExecutionInv
    PROVE  /\ TypeOK /\ task[r] \in TaskRecord /\ closed \in BOOLEAN
           /\ RequestOK(r, task[r], sent[r], closed)
           /\ slots \subseteq Requests /\ (r \in slots <=> task[r].pc \in Holding)
BY DEF ExecutionInv, TypeOK, SlotsMatch

\* The task is still in its body, in another phase.
LEMMA BodyStep ==
    ASSUME NEW r \in Requests, NEW q \in TaskRecord, TypeOK,
           RequestOK(r, task[r], sent[r], closed), task[r].pc \in InBody,
           q.pc \in InBody, BodyOK(r, q), CausesKnown(q, closed),
           task' = [task EXCEPT ![r] = q], sent' = sent, UNCHANGED closed
    PROVE  StepOK(r) /\ task'[r] = q
<1>1. sent[r] = <<>>
  BY DEF RequestOK, SentOK, BodyOK, InBody
<1>2. RequestOK(r, q, sent[r], closed)
  BY <1>1 DEF RequestOK, SentOK, BodyOK, InBody
<1> QED
  BY <1>2, UpdatedSilently

\* A cancellation is requested, and nothing else changes.
LEMMA CancelStep ==
    ASSUME NEW r \in Requests, NEW m \in Interrupts, NEW q \in TaskRecord, TypeOK,
           RequestOK(r, task[r], sent[r], closed), r \in slots <=> task[r].pc \in Holding,
           q.cancel = Cancelled(task[r], m).cancel, task[r].expired => q.expired,
           q.leaked = task[r].leaked,
           m = "other" => q.expired \/ closed \/ q.leaked,
           q.pc = task[r].pc, q.at = task[r].at, q.entered = task[r].entered,
           q.left = task[r].left, q.exited = task[r].exited,
           q.resolver = task[r].resolver, q.result = task[r].result,
           q.value = task[r].value, q.raised = task[r].raised,
           q.interrupted = task[r].interrupted, q.observed = task[r].observed,
           q.response = task[r].response, q.told = task[r].told,
           q.responded = task[r].responded,
           task' = [task EXCEPT ![r] = q], UNCHANGED <<slots, sent, closed>>
    PROVE  StepOK(r) /\ SlotStep(r)
<1>1. task[r].cancel \in Interrupts \cup {None, "mixed"} /\ closed \in BOOLEAN
  BY DEF TypeOK, TaskRecord
<1>2. q.cancel = IF task[r].cancel \in {None, m} THEN m ELSE "mixed"
  BY DEF Cancelled, TypeOK, TaskRecord
<1>3. CausesKnown(q, closed)
  BY <1>1, <1>2 DEF RequestOK, CausesKnown, Interrupts, None
<1>4. RequestOK(r, q, sent[r], closed)
  <2>1. q.pc \in InBody => BodyOK(r, q)
    BY DEF RequestOK, BodyOK
  <2>2. q.pc \in {"exiting", "over"} => LeavingOK(r, q, closed)
    BY DEF RequestOK, LeavingOK, Cause
  <2>3. SentOK(r, q, sent[r], closed)
    BY DEF RequestOK, SentOK
  <2> QED
    BY <1>3, <2>1, <2>2, <2>3 DEF RequestOK
<1>5. StepOK(r) /\ task'[r] = q
  BY <1>4, UpdatedSilently
<1> QED
  BY <1>5 DEF SlotStep, TypeOK

\* _failure_response answers every request but a notification.
LEMMA FailureOf ==
    ASSUME NEW r \in Requests, NEW k \in Responses
    PROVE  /\ Failure(r, k) \in Responses \cup {None}
           /\ r \in Notifications => Failure(r, k) = None
           /\ Owes(r) => Failure(r, k) # None
BY DEF Failure, Owes, Responses, None

\* The task starts: with the first middleware, or without any at the semaphore.
LEMMA StartStep ==
    ASSUME NEW r \in Requests, ExecutionInv, Start(r)
    PROVE  StepOK(r) /\ SlotStep(r) /\ UNCHANGED closed
<1> DEFINE t == task[r]
<1>1. /\ TypeOK /\ t \in TaskRecord /\ closed \in BOOLEAN
      /\ RequestOK(r, t, sent[r], closed)
      /\ slots \subseteq Requests /\ (r \in slots <=> t.pc \in Holding)
  BY StepFacts
<1>2. PICK pc \in {"queued", "entering"} :
        /\ pc = IF Chain = 0 THEN "queued" ELSE "entering"
        /\ t.pc = "new"
  BY DEF Start
<1> DEFINE q == [t EXCEPT !.pc = pc]
<1>3. task' = [task EXCEPT ![r] = q] /\ sent' = sent /\ closed' = closed
  BY <1>1, <1>2 DEF Start, TypeOK
<1>4. t.pc \in InBody /\ BodyOK(r, t) /\ CausesKnown(t, closed)
  BY <1>1, <1>2 DEF RequestOK, InBody, BodyOK, Ready
<1> HIDE DEF t
<1>5. q \in TaskRecord
  BY <1>1 DEF TaskRecord, Ready
<1>6. /\ q.pc = pc
      /\ q.at = t.at /\ q.entered = t.entered /\ q.left = t.left
      /\ q.exited = t.exited /\ q.cancel = t.cancel /\ q.asked = t.asked
      /\ q.killed = t.killed /\ q.expired = t.expired /\ q.leaked = t.leaked /\ q.resolver = t.resolver
      /\ q.result = t.result /\ q.value = t.value /\ q.raised = t.raised
      /\ q.interrupted = t.interrupted /\ q.observed = t.observed
      /\ q.response = t.response /\ q.told = t.told /\ q.responded = t.responded
  BY <1>1 DEF TaskRecord
<1> HIDE DEF q
<1>7. q.pc \in InBody /\ BodyOK(r, q) /\ CausesKnown(q, closed)
  BY <1>1, <1>2, <1>4, <1>6, ChainAssumption DEF BodyOK, CausesKnown, InBody, Ready
<1>8. StepOK(r) /\ task'[r] = q
  BY <1>1, <1>3, <1>4, <1>5, <1>7, BodyStep DEF t
<1>9. SlotStep(r)
  BY <1>1, <1>2, <1>6, <1>8 DEF SlotStep, Holding, Start
<1> QED
  BY <1>3, <1>8, <1>9

\* The slot is taken.
LEMMA AcquireStep ==
    ASSUME NEW r \in Requests, ExecutionInv, Acquire(r)
    PROVE  StepOK(r) /\ SlotStep(r) /\ UNCHANGED closed
<1> DEFINE t == task[r]
<1>1. /\ TypeOK /\ t \in TaskRecord /\ closed \in BOOLEAN
      /\ RequestOK(r, t, sent[r], closed)
      /\ slots \subseteq Requests /\ (r \in slots <=> t.pc \in Holding)
  BY StepFacts
<1>2. PICK pc \in {"handling", "opening"} :
        /\ pc = IF r \in Handshakes THEN "handling" ELSE "opening"
        /\ t.pc = "queued"
  BY DEF Acquire, Ready
<1> DEFINE q == [t EXCEPT !.pc = pc]
<1>3. task' = [task EXCEPT ![r] = q] /\ sent' = sent /\ closed' = closed
  BY <1>1, <1>2 DEF Acquire, TypeOK
<1>4. t.pc \in InBody /\ BodyOK(r, t) /\ CausesKnown(t, closed)
  BY <1>1, <1>2 DEF RequestOK, InBody, BodyOK, Ready
<1> HIDE DEF t
<1>5. q \in TaskRecord
  BY <1>1 DEF TaskRecord
<1>6. /\ q.pc = pc
      /\ q.at = t.at /\ q.entered = t.entered /\ q.left = t.left
      /\ q.exited = t.exited /\ q.cancel = t.cancel /\ q.asked = t.asked
      /\ q.killed = t.killed /\ q.expired = t.expired /\ q.leaked = t.leaked /\ q.resolver = t.resolver
      /\ q.result = t.result /\ q.value = t.value /\ q.raised = t.raised
      /\ q.interrupted = t.interrupted /\ q.observed = t.observed
      /\ q.response = t.response /\ q.told = t.told /\ q.responded = t.responded
  BY <1>1 DEF TaskRecord
<1> HIDE DEF q
<1>7. q.pc \in InBody /\ BodyOK(r, q) /\ CausesKnown(q, closed)
  BY <1>1, <1>2, <1>4, <1>6 DEF BodyOK, CausesKnown, InBody
<1>8. StepOK(r) /\ task'[r] = q
  BY <1>1, <1>3, <1>4, <1>5, <1>7, BodyStep DEF t
<1>9. SlotStep(r)
  BY <1>1, <1>2, <1>6, <1>8 DEF SlotStep, Holding, Acquire
<1> QED
  BY <1>3, <1>8, <1>9

\* The handler ends.
LEMMA HandleStep ==
    ASSUME NEW r \in Requests, ExecutionInv, Handle(r)
    PROVE  StepOK(r) /\ SlotStep(r) /\ UNCHANGED closed
<1> DEFINE t == task[r]
<1>1. /\ TypeOK /\ t \in TaskRecord /\ closed \in BOOLEAN
      /\ RequestOK(r, t, sent[r], closed)
      /\ slots \subseteq Requests /\ (r \in slots <=> t.pc \in Holding)
  BY StepFacts
<1>2. PICK result \in Responses :
        /\ task' = [task EXCEPT ![r].result = result, ![r].pc = "closing"]
        /\ t.pc = "handling" /\ r \notin Handshakes
  <2>1. \A e \in HandlerErrors : RpcError(e) \in Responses
    BY HandlerAssumption DEF RpcError, Responses
  <2> QED
    BY <2>1 DEF Handle, Ready, Responses
<1> DEFINE q == [t EXCEPT !.result = result, !.pc = "closing"]
<1>3. task' = [task EXCEPT ![r] = q] /\ sent' = sent /\ closed' = closed
  BY <1>1, <1>2 DEF Handle, TypeOK
<1>4. t.pc \in InBody /\ BodyOK(r, t) /\ CausesKnown(t, closed)
  BY <1>1, <1>2 DEF RequestOK, InBody, BodyOK, Ready
<1> HIDE DEF t
<1>5. q \in TaskRecord
  BY <1>1 DEF TaskRecord
<1>6. /\ q.pc = "closing" /\ q.result = result
      /\ q.at = t.at /\ q.entered = t.entered /\ q.left = t.left
      /\ q.exited = t.exited /\ q.cancel = t.cancel /\ q.asked = t.asked
      /\ q.killed = t.killed /\ q.expired = t.expired /\ q.leaked = t.leaked /\ q.resolver = t.resolver
      /\ q.value = t.value /\ q.raised = t.raised /\ q.interrupted = t.interrupted
      /\ q.observed = t.observed /\ q.response = t.response /\ q.told = t.told
      /\ q.responded = t.responded
  BY <1>1 DEF TaskRecord
<1> HIDE DEF q
<1>7. q.pc \in InBody /\ BodyOK(r, q) /\ CausesKnown(q, closed)
  BY <1>1, <1>2, <1>4, <1>6 DEF BodyOK, CausesKnown, InBody, Responses, None
<1>8. StepOK(r) /\ task'[r] = q
  BY <1>1, <1>3, <1>4, <1>5, <1>7, BodyStep DEF t
<1>9. SlotStep(r)
  BY <1>1, <1>2, <1>6, <1>8 DEF SlotStep, Holding, Handle
<1> QED
  BY <1>3, <1>8, <1>9

\* The handshake records its outcome.
LEMMA HandshakeDecidedStep ==
    ASSUME NEW r \in Requests, ExecutionInv, HandshakeDecided(r)
    PROVE  StepOK(r) /\ SlotStep(r) /\ UNCHANGED closed
<1> DEFINE t == task[r]
<1>1. /\ TypeOK /\ t \in TaskRecord /\ closed \in BOOLEAN
      /\ RequestOK(r, t, sent[r], closed)
      /\ slots \subseteq Requests /\ (r \in slots <=> t.pc \in Holding)
  BY StepFacts
<1>2. PICK response \in {"success", "builtin"} :
        /\ task' = [task EXCEPT ![r].told = response, ![r].pc = "responding"]
        /\ t.pc = "handling" /\ r \in Handshakes
  BY DEF HandshakeDecided, Ready
<1> DEFINE q == [t EXCEPT !.told = response, !.pc = "responding"]
<1>3. task' = [task EXCEPT ![r] = q] /\ sent' = sent /\ closed' = closed
  BY <1>1, <1>2 DEF HandshakeDecided, TypeOK
<1>4. t.pc \in InBody /\ BodyOK(r, t) /\ CausesKnown(t, closed)
  BY <1>1, <1>2 DEF RequestOK, InBody, BodyOK, Ready
<1> HIDE DEF t
<1>5. q \in TaskRecord
  <2>1. response \in Responses
    BY DEF Responses
  <2> QED
    BY <1>1, <2>1 DEF TaskRecord
<1>6. /\ q.pc = "responding" /\ q.told = response
      /\ q.at = t.at /\ q.entered = t.entered /\ q.left = t.left
      /\ q.exited = t.exited /\ q.cancel = t.cancel /\ q.asked = t.asked
      /\ q.killed = t.killed /\ q.expired = t.expired /\ q.leaked = t.leaked /\ q.resolver = t.resolver
      /\ q.result = t.result /\ q.value = t.value /\ q.raised = t.raised
      /\ q.interrupted = t.interrupted /\ q.observed = t.observed
      /\ q.response = t.response /\ q.responded = t.responded
  BY <1>1 DEF TaskRecord
<1> HIDE DEF q
<1>7. q.pc \in InBody /\ BodyOK(r, q) /\ CausesKnown(q, closed)
  BY <1>1, <1>2, <1>4, <1>6 DEF BodyOK, CausesKnown, InBody, Responses, None
<1>8. StepOK(r) /\ task'[r] = q
  BY <1>1, <1>3, <1>4, <1>5, <1>7, BodyStep DEF t
<1>9. SlotStep(r)
  BY <1>1, <1>2, <1>6, <1>8 DEF SlotStep, Holding, HandshakeDecided
<1> QED
  BY <1>3, <1>8, <1>9

\* A middleware is entered, or left out.
LEMMA EnterStep ==
    ASSUME NEW r \in Requests, ExecutionInv, EnterMiddleware(r)
    PROVE  StepOK(r) /\ SlotStep(r) /\ UNCHANGED closed
<1> DEFINE t == task[r]
<1>1. /\ TypeOK /\ t \in TaskRecord /\ closed \in BOOLEAN
      /\ RequestOK(r, t, sent[r], closed)
      /\ slots \subseteq Requests /\ (r \in slots <=> t.pc \in Holding)
  BY StepFacts
<1>2. PICK e \in Seq(Position), pc \in {"queued", "entering"} :
        /\ task' = [task EXCEPT ![r].entered = e, ![r].at = @ + 1, ![r].pc = pc]
        /\ pc = IF t.at = Chain THEN "queued" ELSE "entering"
        /\ t.pc = "entering" /\ t.at \in 1..Chain
  <2>1. t.pc = "entering" /\ t.at \in 1..Chain /\ t.entered \in Seq(Position)
    BY <1>1, ChainAssumption DEF EnterMiddleware, Ready, TaskRecord, RequestOK, InBody,
                                 BodyOK
  <2>2. Append(t.entered, t.at) \in Seq(Position)
    BY <2>1, AppendProperties DEF Position
  <2> QED
    BY <2>1, <2>2 DEF EnterMiddleware
<1> DEFINE q == [t EXCEPT !.entered = e, !.at = t.at + 1, !.pc = pc]
<1>3. task' = [task EXCEPT ![r] = q] /\ sent' = sent /\ closed' = closed
  BY <1>1, <1>2 DEF EnterMiddleware, TypeOK
<1>4. t.pc \in InBody /\ BodyOK(r, t) /\ CausesKnown(t, closed)
  BY <1>1, <1>2 DEF RequestOK, InBody, BodyOK, Ready
<1> HIDE DEF t
<1>5. q \in TaskRecord
  <2>1. t.at + 1 \in 1..Chain + 1
    BY <1>2, ChainAssumption
  <2> QED
    BY <1>1, <2>1 DEF TaskRecord
<1>6. /\ q.pc = pc /\ q.at = t.at + 1 /\ q.entered = e
      /\ q.left = t.left /\ q.exited = t.exited /\ q.cancel = t.cancel
      /\ q.asked = t.asked /\ q.killed = t.killed /\ q.expired = t.expired /\ q.leaked = t.leaked
      /\ q.resolver = t.resolver /\ q.result = t.result /\ q.value = t.value
      /\ q.raised = t.raised /\ q.interrupted = t.interrupted
      /\ q.observed = t.observed /\ q.response = t.response /\ q.told = t.told
      /\ q.responded = t.responded
  BY <1>1 DEF TaskRecord
<1> HIDE DEF q
<1>7. q.pc \in InBody /\ BodyOK(r, q) /\ CausesKnown(q, closed)
  BY <1>1, <1>2, <1>4, <1>6, ChainAssumption DEF BodyOK, CausesKnown, InBody
<1>8. StepOK(r) /\ task'[r] = q
  BY <1>1, <1>3, <1>4, <1>5, <1>7, BodyStep DEF t
<1>9. SlotStep(r)
  BY <1>1, <1>2, <1>6, <1>8 DEF SlotStep, Holding, EnterMiddleware
<1> QED
  BY <1>3, <1>8, <1>9

\* The resolver scope is opened, or the request fails.
LEMMA OpenScopeStep ==
    ASSUME NEW r \in Requests, ExecutionInv, OpenScope(r)
    PROVE  StepOK(r) /\ SlotStep(r) /\ UNCHANGED closed
<1> DEFINE t == task[r]
<1>1. /\ TypeOK /\ t \in TaskRecord /\ closed \in BOOLEAN
      /\ RequestOK(r, t, sent[r], closed)
      /\ slots \subseteq Requests /\ (r \in slots <=> t.pc \in Holding)
  BY StepFacts
<1>2. t.pc = "opening" /\ t.pc \in InBody /\ UNCHANGED closed
  BY DEF OpenScope, Ready, InBody
<1>3. ASSUME NEW e \in HandlerErrors, Returned(r, Failure(r, RpcError(e))),
             slots' = slots \ {r}
      PROVE  StepOK(r) /\ SlotStep(r)
  <2>1. RpcError(e) \in Responses
    BY HandlerAssumption DEF RpcError, Responses
  <2>2. StepOK(r) /\ task'[r].pc \in {"exiting", "over"}
    BY <1>1, <1>2, <1>3, <2>1, FailureOf, ReturnedStep
  <2> QED
    BY <1>1, <1>3, <2>2 DEF SlotStep, Holding
<1>4. CASE task' = [task EXCEPT ![r].pc = "handling", ![r].resolver = TRUE]
           /\ UNCHANGED <<slots, sent>>
  <2> DEFINE q == [t EXCEPT !.pc = "handling", !.resolver = TRUE]
  <2>1. task' = [task EXCEPT ![r] = q]
    BY <1>1, <1>4 DEF TypeOK
  <2>2. BodyOK(r, t) /\ CausesKnown(t, closed) /\ r \notin Handshakes
    BY <1>1, <1>2 DEF RequestOK, InBody, BodyOK
  <2> HIDE DEF t
  <2>3. q \in TaskRecord
    BY <1>1 DEF TaskRecord
  <2>4. /\ q.pc = "handling" /\ q.resolver = TRUE
        /\ q.at = t.at /\ q.entered = t.entered /\ q.left = t.left
        /\ q.exited = t.exited /\ q.cancel = t.cancel /\ q.asked = t.asked
        /\ q.killed = t.killed /\ q.expired = t.expired /\ q.leaked = t.leaked /\ q.result = t.result
        /\ q.value = t.value /\ q.raised = t.raised /\ q.interrupted = t.interrupted
        /\ q.observed = t.observed /\ q.response = t.response /\ q.told = t.told
        /\ q.responded = t.responded
    BY <1>1 DEF TaskRecord
  <2> HIDE DEF q
  <2>5. q.pc \in InBody /\ BodyOK(r, q) /\ CausesKnown(q, closed)
    BY <2>2, <2>4 DEF BodyOK, CausesKnown, InBody
  <2>6. StepOK(r) /\ task'[r] = q
    BY <1>1, <1>2, <1>4, <2>1, <2>3, <2>5, BodyStep DEF t
  <2> QED
    BY <1>1, <1>2, <1>4, <2>4, <2>6 DEF SlotStep, Holding
<1> QED
  BY <1>2, <1>3, <1>4 DEF OpenScope

\* A request is refused at the semaphore.
LEMMA RejectStep ==
    ASSUME NEW r \in Requests, ExecutionInv, Reject(r)
    PROVE  StepOK(r) /\ SlotStep(r) /\ UNCHANGED closed
<1> DEFINE t == task[r]
<1>1. /\ TypeOK /\ t \in TaskRecord /\ closed \in BOOLEAN
      /\ RequestOK(r, t, sent[r], closed)
      /\ slots \subseteq Requests /\ (r \in slots <=> t.pc \in Holding)
  BY StepFacts
<1>2. /\ t.pc = "queued" /\ t.pc \in InBody
      /\ Returned(r, Failure(r, "builtin")) /\ UNCHANGED <<slots, closed>>
  BY DEF Reject, Ready, InBody
<1>3. StepOK(r) /\ task'[r].pc \in {"exiting", "over"}
  <2>1. "builtin" \in Responses
    BY DEF Responses
  <2> QED
    BY <1>1, <1>2, <2>1, FailureOf, ReturnedStep
<1> QED
  BY <1>1, <1>2, <1>3 DEF SlotStep, Holding

\* The resolver scope is left, and the body with it.
LEMMA CloseScopeStep ==
    ASSUME NEW r \in Requests, ExecutionInv, CloseScope(r)
    PROVE  StepOK(r) /\ SlotStep(r) /\ UNCHANGED closed
<1> DEFINE t == task[r]
<1>1. /\ TypeOK /\ t \in TaskRecord /\ closed \in BOOLEAN
      /\ RequestOK(r, t, sent[r], closed)
      /\ slots \subseteq Requests /\ (r \in slots <=> t.pc \in Holding)
  BY StepFacts
<1>2. /\ t.pc = "closing" /\ t.pc \in InBody
      /\ slots' = slots \ {r} /\ UNCHANGED closed
  BY DEF CloseScope, Ready, InBody
<1>3. BodyOK(r, t) /\ CausesKnown(t, closed) /\ sent[r] = <<>>
  BY <1>1, <1>2 DEF RequestOK, BodyOK, SentOK
<1>4. SUFFICES StepOK(r) /\ task'[r].pc \in {"exiting", "over"}
  BY <1>1, <1>2 DEF SlotStep, Holding
<1>5. ASSUME NEW x \in Responses, Returned(r, Failure(r, x))
      PROVE  StepOK(r) /\ task'[r].pc \in {"exiting", "over"}
  BY <1>1, <1>2, <1>5, FailureOf, ReturnedStep
<1>6. CASE t.result \notin Interrupts /\ Returned(r, Failure(r, t.result))
  <2>1. t.result \in Responses
    BY <1>1, <1>2, <1>3, <1>6 DEF BodyOK, TaskRecord
  <2> QED
    BY <1>5, <1>6, <2>1
<1>7. ASSUME NEW e \in HandlerErrors, Returned(r, Failure(r, RpcError(e)))
      PROVE  StepOK(r) /\ task'[r].pc \in {"exiting", "over"}
  <2>1. RpcError(e) \in Responses
    BY HandlerAssumption DEF RpcError, Responses
  <2> QED
    BY <1>5, <1>7, <2>1
<1>8. CASE /\ t.result \in Interrupts
           /\ Raised(r, t.result, [t EXCEPT !.resolver = FALSE, !.result = None])
  <2> DEFINE q == [t EXCEPT !.resolver = FALSE, !.result = None]
  <2> HIDE DEF t
  <2>1. q \in TaskRecord
    BY <1>1 DEF TaskRecord
  <2>2. /\ q.resolver = FALSE /\ q.result = None
        /\ q.pc = t.pc /\ q.at = t.at /\ q.entered = t.entered /\ q.left = t.left
        /\ q.exited = t.exited /\ q.cancel = t.cancel /\ q.asked = t.asked
        /\ q.killed = t.killed /\ q.expired = t.expired /\ q.leaked = t.leaked /\ q.value = t.value
        /\ q.raised = t.raised /\ q.interrupted = t.interrupted
        /\ q.observed = t.observed /\ q.response = t.response /\ q.told = t.told
        /\ q.responded = t.responded
    BY <1>1 DEF TaskRecord
  <2>3. Raised(r, t.result, q)
    BY <1>8
  <2> HIDE DEF q
  <2>4. CausesKnown(q, closed)
    BY <1>3, <2>2 DEF CausesKnown, None
  <2>5. t.result = "other" => q.expired \/ closed \/ q.leaked
    BY <1>3, <2>2 DEF CausesKnown
  <2>6. /\ q.exited = <<>> /\ q.raised = None /\ q.interrupted = None /\ q.value = None
        /\ q.response = None /\ ~q.responded /\ ~q.resolver
    BY <1>3, <2>2 DEF BodyOK
  <2> QED
    BY <1>1, <1>2, <1>3, <1>8, <2>1, <2>3, <2>4, <2>5, <2>6, RaisedStep
<1> QED
  BY <1>6, <1>7, <1>8 DEF CloseScope

\* The handshake answers, and its scope is left.
LEMMA HandshakeAnsweredStep ==
    ASSUME NEW r \in Requests, ExecutionInv, HandshakeAnswered(r)
    PROVE  StepOK(r) /\ SlotStep(r) /\ UNCHANGED closed
<1> DEFINE t == task[r]
<1>1. /\ TypeOK /\ t \in TaskRecord /\ closed \in BOOLEAN
      /\ RequestOK(r, t, sent[r], closed)
      /\ slots \subseteq Requests /\ (r \in slots <=> t.pc \in Holding)
  BY StepFacts
<1> DEFINE l == Leaving(t)
           pc == IF l.left = <<>> THEN "over" ELSE "exiting"
           q == [l EXCEPT !.responded = TRUE, !.pc = pc]
<1>2. t.pc = "responding" /\ slots' = slots \ {r} /\ UNCHANGED closed
  BY DEF HandshakeAnswered, Ready
<1>3. BodyOK(r, t) /\ CausesKnown(t, closed) /\ sent[r] = <<>>
  BY <1>1, <1>2 DEF RequestOK, InBody, BodyOK, SentOK
<1>4. t.entered \in Seq(Position) /\ t.told \in Responses
  BY <1>1, <1>2, <1>3 DEF BodyOK, TaskRecord
<1>5. /\ Reverse(t.entered) \in Seq(Position)
      /\ <<>> \o Reverse(t.entered) = Reverse(t.entered)
  BY <1>4, LeaveOrder
<1> HIDE DEF t
<1>6. l \in TaskRecord /\ l.left = Reverse(t.entered) /\ l.told = t.told
  <2>1. l = [t EXCEPT !.left = Reverse(t.entered)]
    BY DEF Leaving
  <2> HIDE DEF l
  <2>2. l \in TaskRecord
    BY <1>1, <1>5, <2>1 DEF TaskRecord
  <2> QED
    BY <1>1, <2>1, <2>2 DEF TaskRecord
<1>7. task' = [task EXCEPT ![r] = q] /\ sent' = [sent EXCEPT ![r] = Append(sent[r], t.told)]
  <2> DEFINE u == [l EXCEPT !.responded = TRUE]
  <2>1. u.left = l.left /\ u.told = l.told /\ [u EXCEPT !.pc = pc] = q
    BY <1>6 DEF TaskRecord
  <2>2. /\ task' = [task EXCEPT ![r] =
                      [u EXCEPT !.pc = IF u.left = <<>> THEN "over" ELSE "exiting"]]
        /\ sent' = [sent EXCEPT ![r] = Append(sent[r], u.told)]
    BY <1>1 DEF HandshakeAnswered, TypeOK, t
  <2> QED
    BY <1>6, <2>1, <2>2
<1>8. pc \in {"exiting", "over"} /\ (pc = "over" <=> l.left = <<>>)
  OBVIOUS
<1> HIDE DEF pc
<1>9. q \in TaskRecord
  BY <1>6, <1>8 DEF TaskRecord
<1>10. /\ q.pc = pc /\ q.responded = TRUE /\ q.left = Reverse(t.entered)
       /\ q.at = t.at /\ q.entered = t.entered /\ q.exited = t.exited
       /\ q.cancel = t.cancel /\ q.asked = t.asked /\ q.killed = t.killed
       /\ q.expired = t.expired /\ q.leaked = t.leaked /\ q.resolver = t.resolver /\ q.result = t.result
       /\ q.value = t.value /\ q.raised = t.raised /\ q.interrupted = t.interrupted
       /\ q.observed = t.observed /\ q.response = t.response /\ q.told = t.told
  BY <1>1, <1>5, <1>6 DEF Leaving, TaskRecord
<1> HIDE DEF l, q
<1>11. Append(sent[r], t.told) \in Seq(Responses) /\ Len(Append(sent[r], t.told)) = 1
  BY <1>3, <1>4, OneResponse
<1>12. r \notin Notifications
  BY <1>2, <1>3, RequestsAssumption DEF BodyOK
<1>13. LeavingOK(r, q, closed) /\ CausesKnown(q, closed)
  BY <1>2, <1>3, <1>5, <1>10, <1>12 DEF LeavingOK, CausesKnown, BodyOK
<1>14. RequestOK(r, q, Append(sent[r], t.told), closed)
  BY <1>6, <1>8, <1>10, <1>11, <1>13 DEF RequestOK, SentOK, InBody
<1>15. StepOK(r) /\ task'[r] = q
  BY <1>1, <1>2, <1>7, <1>9, <1>11, <1>14, Updated
<1>16. SlotStep(r)
  BY <1>1, <1>2, <1>8, <1>10, <1>15 DEF SlotStep, Holding
<1> QED
  BY <1>2, <1>15, <1>16

\* A middleware is left.
LEMMA ExitStep ==
    ASSUME NEW r \in Requests, ExecutionInv, ExitMiddleware(r)
    PROVE  StepOK(r) /\ SlotStep(r) /\ UNCHANGED closed
<1> DEFINE t == task[r]
<1>1. /\ TypeOK /\ t \in TaskRecord /\ closed \in BOOLEAN
      /\ RequestOK(r, t, sent[r], closed)
      /\ slots \subseteq Requests /\ (r \in slots <=> t.pc \in Holding)
  BY StepFacts
<1>2. /\ t.pc = "exiting" /\ Proceed(r, LeftOne(t)) /\ UNCHANGED <<slots, closed>>
  BY DEF ExitMiddleware, Ready
<1>3. /\ t.left # <<>> /\ LeavingOK(r, t, closed) /\ CausesKnown(t, closed)
      /\ t.responded => Len(sent[r]) = 1
      /\ ~t.responded => sent[r] = <<>>
  BY <1>1, <1>2 DEF RequestOK, SentOK
<1>4. /\ LeftOne(t) \in TaskRecord
      /\ LeavingOK(r, LeftOne(t), closed) /\ CausesKnown(LeftOne(t), closed)
      /\ LeftOne(t).responded = t.responded
  BY <1>1, <1>3, LeftOneFields
<1>5. StepOK(r) /\ task'[r].pc \in {"exiting", "over"}
  <2> DEFINE q == LeftOne(t)
  <2> HIDE DEF q
  <2>1. /\ q \in TaskRecord /\ LeavingOK(r, q, closed) /\ CausesKnown(q, closed)
        /\ Proceed(r, q)
        /\ q.responded => Len(sent[r]) = 1
        /\ ~q.responded => sent[r] = <<>>
    BY <1>2, <1>3, <1>4 DEF q
  <2> QED
    BY <1>1, <1>2, <2>1, Proceeded
<1> QED
  BY <1>1, <1>2, <1>5 DEF SlotStep, Holding

\* A cancellation touches nothing but the pending one.
LEMMA CancelledFields ==
    ASSUME NEW t \in TaskRecord, NEW m \in Interrupts
    PROVE  /\ Cancelled(t, m) \in TaskRecord
           /\ Cancelled(t, m).pc = t.pc /\ Cancelled(t, m).at = t.at
           /\ Cancelled(t, m).entered = t.entered /\ Cancelled(t, m).left = t.left
           /\ Cancelled(t, m).exited = t.exited /\ Cancelled(t, m).asked = t.asked
           /\ Cancelled(t, m).killed = t.killed
           /\ Cancelled(t, m).expired = t.expired /\ Cancelled(t, m).leaked = t.leaked
           /\ Cancelled(t, m).resolver = t.resolver
           /\ Cancelled(t, m).result = t.result /\ Cancelled(t, m).value = t.value
           /\ Cancelled(t, m).raised = t.raised
           /\ Cancelled(t, m).interrupted = t.interrupted
           /\ Cancelled(t, m).observed = t.observed
           /\ Cancelled(t, m).response = t.response /\ Cancelled(t, m).told = t.told
           /\ Cancelled(t, m).responded = t.responded
<1>1. PICK k \in Interrupts \cup {"mixed"} : Cancelled(t, m) = [t EXCEPT !.cancel = k]
  BY DEF Cancelled, TaskRecord
<1>2. [t EXCEPT !.cancel = k] \in TaskRecord
  BY DEF TaskRecord
<1> QED
  BY <1>1, <1>2 DEF TaskRecord

\* The deadline passes.
LEMMA DeadlineStep ==
    ASSUME NEW r \in Requests, ExecutionInv, Deadline(r)
    PROVE  StepOK(r) /\ SlotStep(r) /\ UNCHANGED closed
<1> DEFINE t == task[r]
<1>1. /\ TypeOK /\ t \in TaskRecord /\ closed \in BOOLEAN
      /\ RequestOK(r, t, sent[r], closed)
      /\ slots \subseteq Requests /\ (r \in slots <=> t.pc \in Holding)
  BY StepFacts
<1> DEFINE q == [Cancelled(t, "other") EXCEPT !.expired = TRUE]
<1>2. /\ task' = [task EXCEPT ![r] = q] /\ UNCHANGED <<slots, sent, closed>>
  BY <1>1 DEF Deadline, TypeOK
<1>3. "other" \in Interrupts
  BY DEF Interrupts
<1> HIDE DEF t
<1>4. Cancelled(t, "other") \in TaskRecord
  BY <1>1, <1>3, CancelledFields
<1>5. q \in TaskRecord
  BY <1>4 DEF TaskRecord
<1>6. /\ q.cancel = Cancelled(t, "other").cancel
      /\ q.expired = TRUE /\ q.leaked = t.leaked
      /\ q.pc = t.pc /\ q.at = t.at /\ q.entered = t.entered /\ q.left = t.left
      /\ q.exited = t.exited /\ q.resolver = t.resolver /\ q.result = t.result
      /\ q.value = t.value /\ q.raised = t.raised /\ q.interrupted = t.interrupted
      /\ q.observed = t.observed /\ q.response = t.response /\ q.told = t.told
      /\ q.responded = t.responded
  <2> DEFINE p == Cancelled(t, "other")
  <2> HIDE DEF p
  <2>1. p \in TaskRecord
    BY <1>4 DEF p
  <2>2. /\ p.expired = t.expired /\ p.leaked = t.leaked
        /\ p.pc = t.pc /\ p.at = t.at /\ p.entered = t.entered /\ p.left = t.left
        /\ p.exited = t.exited /\ p.resolver = t.resolver /\ p.result = t.result
        /\ p.value = t.value /\ p.raised = t.raised /\ p.interrupted = t.interrupted
        /\ p.observed = t.observed /\ p.response = t.response /\ p.told = t.told
        /\ p.responded = t.responded
    BY <1>1, <1>3, CancelledFields DEF p
  <2>3. q = [p EXCEPT !.expired = TRUE]
    BY DEF p
  <2> QED
    BY <2>1, <2>2, <2>3 DEF TaskRecord, p
<1> HIDE DEF q
<1> QED
  BY <1>1, <1>2, <1>3, <1>5, <1>6, CancelStep DEF t

\* The client cancels.
LEMMA ClientCancelStep ==
    ASSUME NEW r \in Requests, ExecutionInv, ClientCancel(r)
    PROVE  StepOK(r) /\ SlotStep(r) /\ UNCHANGED closed
<1> DEFINE t == task[r]
<1>1. /\ TypeOK /\ t \in TaskRecord /\ closed \in BOOLEAN
      /\ RequestOK(r, t, sent[r], closed)
      /\ slots \subseteq Requests /\ (r \in slots <=> t.pc \in Holding)
  BY StepFacts
<1> DEFINE q == [Cancelled(t, "client") EXCEPT !.asked = TRUE]
<1>2. /\ task' = [task EXCEPT ![r] = q] /\ UNCHANGED <<slots, sent, closed>>
  BY <1>1 DEF ClientCancel, TypeOK
<1>3. "client" \in Interrupts
  BY DEF Interrupts
<1> HIDE DEF t
<1>4. Cancelled(t, "client") \in TaskRecord
  BY <1>1, <1>3, CancelledFields
<1>5. q \in TaskRecord
  BY <1>4 DEF TaskRecord
<1>6. /\ q.cancel = Cancelled(t, "client").cancel
      /\ q.expired = t.expired /\ q.leaked = t.leaked
      /\ q.pc = t.pc /\ q.at = t.at /\ q.entered = t.entered /\ q.left = t.left
      /\ q.exited = t.exited /\ q.resolver = t.resolver /\ q.result = t.result
      /\ q.value = t.value /\ q.raised = t.raised /\ q.interrupted = t.interrupted
      /\ q.observed = t.observed /\ q.response = t.response /\ q.told = t.told
      /\ q.responded = t.responded
  <2> DEFINE p == Cancelled(t, "client")
  <2> HIDE DEF p
  <2>1. p \in TaskRecord
    BY <1>4 DEF p
  <2>2. /\ p.expired = t.expired /\ p.leaked = t.leaked
        /\ p.pc = t.pc /\ p.at = t.at /\ p.entered = t.entered /\ p.left = t.left
        /\ p.exited = t.exited /\ p.resolver = t.resolver /\ p.result = t.result
        /\ p.value = t.value /\ p.raised = t.raised /\ p.interrupted = t.interrupted
        /\ p.observed = t.observed /\ p.response = t.response /\ p.told = t.told
        /\ p.responded = t.responded
    BY <1>1, <1>3, CancelledFields DEF p
  <2>3. q = [p EXCEPT !.asked = TRUE]
    BY DEF p
  <2> QED
    BY <2>1, <2>2, <2>3 DEF TaskRecord, p
<1> HIDE DEF q
<1> QED
  BY <1>1, <1>2, <1>3, <1>5, <1>6, CancelStep DEF t

\* The close cancels.
LEMMA CloseCancelsStep ==
    ASSUME NEW r \in Requests, ExecutionInv, CloseCancels(r)
    PROVE  StepOK(r) /\ SlotStep(r) /\ UNCHANGED closed
<1> DEFINE t == task[r]
<1>1. /\ TypeOK /\ t \in TaskRecord /\ closed \in BOOLEAN
      /\ RequestOK(r, t, sent[r], closed)
      /\ slots \subseteq Requests /\ (r \in slots <=> t.pc \in Holding)
  BY StepFacts
<1> DEFINE q == [Cancelled(t, "other") EXCEPT !.killed = TRUE]
<1>2. /\ task' = [task EXCEPT ![r] = q] /\ UNCHANGED <<slots, sent, closed>>
  BY <1>1 DEF CloseCancels, TypeOK
<1>3. "other" \in Interrupts
  BY DEF Interrupts
<1> HIDE DEF t
<1>4. Cancelled(t, "other") \in TaskRecord
  BY <1>1, <1>3, CancelledFields
<1>5. q \in TaskRecord
  BY <1>4 DEF TaskRecord
<1>6. /\ q.cancel = Cancelled(t, "other").cancel
      /\ q.expired = t.expired /\ q.leaked = t.leaked
      /\ q.pc = t.pc /\ q.at = t.at /\ q.entered = t.entered /\ q.left = t.left
      /\ q.exited = t.exited /\ q.resolver = t.resolver /\ q.result = t.result
      /\ q.value = t.value /\ q.raised = t.raised /\ q.interrupted = t.interrupted
      /\ q.observed = t.observed /\ q.response = t.response /\ q.told = t.told
      /\ q.responded = t.responded
  <2> DEFINE p == Cancelled(t, "other")
  <2> HIDE DEF p
  <2>1. p \in TaskRecord
    BY <1>4 DEF p
  <2>2. /\ p.expired = t.expired /\ p.leaked = t.leaked
        /\ p.pc = t.pc /\ p.at = t.at /\ p.entered = t.entered /\ p.left = t.left
        /\ p.exited = t.exited /\ p.resolver = t.resolver /\ p.result = t.result
        /\ p.value = t.value /\ p.raised = t.raised /\ p.interrupted = t.interrupted
        /\ p.observed = t.observed /\ p.response = t.response /\ p.told = t.told
        /\ p.responded = t.responded
    BY <1>1, <1>3, CancelledFields DEF p
  <2>3. q = [p EXCEPT !.killed = TRUE]
    BY DEF p
  <2> QED
    BY <2>1, <2>2, <2>3 DEF TaskRecord, p
<1> HIDE DEF q
<1>7. closed
  BY DEF CloseCancels
<1> QED
  BY <1>1, <1>2, <1>3, <1>5, <1>6, <1>7, CancelStep DEF t

\* The message that a cancelled task sees is one that was sent.
LEMMA DeliveredFrom ==
    ASSUME NEW t \in TaskRecord, NEW c \in BOOLEAN, CausesKnown(t, c), t.cancel # None,
           NEW m \in Delivered(t)
    PROVE  m \in Interrupts /\ (m = "other" => t.expired \/ c \/ t.leaked)
BY DEF Delivered, CausesKnown, TaskRecord, Interrupts

\* What is known of a request still is when a pending cancellation is taken from it
\* or when it is marked as leaking.
LEMMA TakenKeeps ==
    ASSUME NEW r \in Requests, NEW t \in TaskRecord, NEW p \in TaskRecord,
           NEW s, NEW c \in BOOLEAN, RequestOK(r, t, s, c),
           p.cancel \in {None, t.cancel}, t.leaked => p.leaked,
           p.pc = t.pc, p.at = t.at, p.entered = t.entered, p.left = t.left,
           p.exited = t.exited, p.expired = t.expired, p.resolver = t.resolver,
           p.result = t.result, p.value = t.value, p.raised = t.raised,
           p.interrupted = t.interrupted, p.observed = t.observed,
           p.response = t.response, p.told = t.told, p.responded = t.responded
    PROVE  RequestOK(r, p, s, c)
<1>1. CausesKnown(p, c)
  BY DEF RequestOK, CausesKnown, None
<1>2. SentOK(r, p, s, c)
  BY DEF RequestOK, SentOK
<1>3. BodyOK(r, t) => BodyOK(r, p)
  BY DEF BodyOK
<1>4. LeavingOK(r, t, c) => LeavingOK(r, p, c)
  BY DEF LeavingOK, Cause
<1> QED
  BY <1>1, <1>2, <1>3, <1>4 DEF RequestOK

\* The record a request is interrupted in, with a cancellation that has a cause.
Interruptible(r, m, p) ==
    /\ p \in TaskRecord /\ p.pc = task[r].pc
    /\ RequestOK(r, p, sent[r], closed)
    /\ m = "other" => p.expired \/ closed \/ p.leaked

\* Raised while the task waits outside the handler.
LEMMA InterruptScopeStep ==
    ASSUME NEW r \in Requests, NEW m \in Interrupts, NEW t, ExecutionInv,
           UNCHANGED closed, Interruptible(r, m, t), InterruptScope(r, m, t)
    PROVE  StepOK(r) /\ SlotStep(r)
<1> DEFINE q == [t EXCEPT !.resolver = FALSE, !.result = None]
<1>1. /\ TypeOK /\ t \in TaskRecord /\ closed \in BOOLEAN
      /\ RequestOK(r, t, sent[r], closed)
      /\ slots \subseteq Requests /\ (r \in slots <=> t.pc \in Holding)
      /\ m = "other" => t.expired \/ closed \/ t.leaked
  BY StepFacts DEF Interruptible
<1>2. t.pc \in InBody /\ slots' = slots \ {r} /\ Raised(r, m, q)
  BY DEF InterruptScope, InBody
<1>3. BodyOK(r, t) /\ CausesKnown(t, closed) /\ sent[r] = <<>>
  BY <1>1, <1>2 DEF RequestOK, BodyOK, SentOK, InBody
<1>5. q \in TaskRecord
  BY <1>1 DEF TaskRecord
<1>6. /\ q.resolver = FALSE /\ q.result = None /\ q.cancel = t.cancel
      /\ q.exited = t.exited /\ q.expired = t.expired /\ q.leaked = t.leaked
      /\ q.value = t.value /\ q.raised = t.raised /\ q.interrupted = t.interrupted
      /\ q.response = t.response /\ q.responded = t.responded
  BY <1>1 DEF TaskRecord
<1> HIDE DEF q
<1>7. CausesKnown(q, closed) /\ (m = "other" => q.expired \/ closed \/ q.leaked)
  BY <1>1, <1>3, <1>6 DEF CausesKnown, None
<1>8. /\ q.exited = <<>> /\ q.raised = None /\ q.interrupted = None /\ q.value = None
      /\ q.response = None /\ ~q.responded /\ ~q.resolver
  BY <1>3, <1>6 DEF BodyOK
<1>9. StepOK(r) /\ task'[r].pc \in {"exiting", "over"}
  BY <1>1, <1>2, <1>3, <1>5, <1>7, <1>8, RaisedStep
<1> QED
  BY <1>1, <1>2, <1>9 DEF SlotStep, Holding

\* The handler ends with an interruption, or with its result all the same.
LEMMA HandlerEndsStep ==
    ASSUME NEW r \in Requests, NEW m \in Interrupts, NEW t, ExecutionInv,
           UNCHANGED closed, Interruptible(r, m, t),
           NEW result \in {m, "success"}, HandlerEnds(r, t, result)
    PROVE  StepOK(r) /\ SlotStep(r)
<1>1. /\ TypeOK /\ t \in TaskRecord /\ closed \in BOOLEAN
      /\ RequestOK(r, t, sent[r], closed)
      /\ slots \subseteq Requests /\ (r \in slots <=> t.pc \in Holding)
      /\ m = "other" => t.expired \/ closed \/ t.leaked
      /\ RequestOK(r, task[r], sent[r], closed) /\ t.pc = task[r].pc
  BY StepFacts DEF Interruptible
<1>3. /\ t.pc = "handling" /\ t.pc \in InBody /\ r \notin Handshakes
      /\ UNCHANGED <<slots, sent>>
  BY DEF HandlerEnds, InBody
<1>4. /\ result \in Responses \cup Interrupts /\ result # None
      /\ result = "other" => t.expired \/ closed \/ t.leaked
  BY <1>1 DEF Responses, Interrupts, None
<1> DEFINE q == [t EXCEPT !.result = result, !.pc = "closing"]
<1>5. task' = [task EXCEPT ![r] = q]
  BY DEF HandlerEnds
<1>6. BodyOK(r, t) /\ CausesKnown(t, closed)
  BY <1>1, <1>3 DEF RequestOK
<1>7. q \in TaskRecord
  BY <1>1, <1>4 DEF TaskRecord
<1>8. /\ q.pc = "closing" /\ q.result = result /\ q.cancel = t.cancel
      /\ q.at = t.at /\ q.entered = t.entered /\ q.left = t.left
      /\ q.exited = t.exited /\ q.asked = t.asked /\ q.killed = t.killed
      /\ q.expired = t.expired /\ q.leaked = t.leaked /\ q.resolver = t.resolver
      /\ q.value = t.value /\ q.raised = t.raised /\ q.interrupted = t.interrupted
      /\ q.observed = t.observed /\ q.response = t.response /\ q.told = t.told
      /\ q.responded = t.responded
  BY <1>1 DEF TaskRecord
<1> HIDE DEF q
<1>9. q.pc \in InBody /\ BodyOK(r, q)
  BY <1>3, <1>4, <1>6, <1>8 DEF BodyOK, InBody
<1>10. CausesKnown(q, closed)
  BY <1>4, <1>6, <1>8 DEF CausesKnown, None
<1>11. StepOK(r) /\ task'[r] = q
  BY <1>1, <1>3, <1>5, <1>7, <1>9, <1>10, BodyStep
<1> QED
  BY <1>1, <1>3, <1>8, <1>11 DEF SlotStep, Holding

\* Raised in the exit of a middleware: it counts unless the scope already fails.
LEMMA InterruptExitStep ==
    ASSUME NEW r \in Requests, NEW m \in Interrupts, NEW t, ExecutionInv,
           UNCHANGED closed, Interruptible(r, m, t), InterruptExit(r, m, t)
    PROVE  StepOK(r) /\ SlotStep(r)
<1> DEFINE q == LeftOne(t)
           i == [q EXCEPT !.interrupted = m]
           e == OnError(r, i, m)
<1>1. /\ TypeOK /\ t \in TaskRecord /\ closed \in BOOLEAN
      /\ RequestOK(r, t, sent[r], closed)
      /\ slots \subseteq Requests /\ (r \in slots <=> t.pc \in Holding)
      /\ m = "other" => t.expired \/ closed \/ t.leaked
  BY StepFacts DEF Interruptible
<1>2. /\ t.pc = "exiting" /\ UNCHANGED slots
      /\ Proceed(r, IF q.raised # None THEN q ELSE e)
  BY DEF InterruptExit
<1>3. /\ t.left # <<>> /\ LeavingOK(r, t, closed) /\ CausesKnown(t, closed)
      /\ t.responded => Len(sent[r]) = 1
      /\ ~t.responded => sent[r] = <<>>
  BY <1>1, <1>2 DEF RequestOK, SentOK
<1>5. SUFFICES StepOK(r) /\ task'[r].pc \in {"exiting", "over"}
  BY <1>1, <1>2 DEF SlotStep, Holding
<1>6. /\ q \in TaskRecord /\ LeavingOK(r, q, closed) /\ CausesKnown(q, closed)
      /\ q.responded = t.responded /\ q.expired = t.expired /\ q.leaked = t.leaked
  BY <1>1, <1>3, LeftOneFields
<1> HIDE DEF q
<1>10. /\ q.responded => Len(sent[r]) = 1
       /\ ~q.responded => sent[r] = <<>>
  BY <1>3, <1>6
<1>11. CASE q.raised # None
  BY <1>1, <1>2, <1>6, <1>10, <1>11, Proceeded
<1>12. CASE q.raised = None
  <2>1. i \in TaskRecord
    BY <1>6 DEF TaskRecord
  <2>2. /\ i.interrupted = m
        /\ i.pc = q.pc /\ i.at = q.at /\ i.entered = q.entered /\ i.left = q.left
        /\ i.exited = q.exited /\ i.cancel = q.cancel /\ i.asked = q.asked
        /\ i.killed = q.killed /\ i.expired = q.expired /\ i.leaked = q.leaked
        /\ i.resolver = q.resolver /\ i.result = q.result /\ i.value = q.value
        /\ i.raised = q.raised /\ i.observed = q.observed /\ i.response = q.response
        /\ i.told = q.told /\ i.responded = q.responded
    BY <1>6 DEF TaskRecord
  <2> HIDE DEF i
  <2>3. m = "other" => i.expired \/ closed \/ i.leaked
    BY <1>1, <1>6, <2>2
  <2>4. /\ e \in TaskRecord /\ e.exited = i.exited /\ e.left = i.left
        /\ e.entered = i.entered /\ e.resolver = i.resolver /\ e.value = i.value
        /\ e.result = i.result /\ e.responded = i.responded /\ e.raised = i.raised
        /\ e.interrupted = i.interrupted /\ e.cancel = i.cancel
        /\ e.expired = i.expired /\ e.leaked = i.leaked
        /\ r \in Notifications /\ i.response = None => e.response = None
        /\ ~closed /\ ~e.leaked =>
              e.observed /\ e.told = e.response /\ (Owes(r) => e.response # None)
    BY <2>1, <2>3, OnErrorFields
  <2>5. Proceed(r, e)
    BY <1>2, <1>12
  <2> HIDE DEF e
  <2>6. m # None
    BY DEF Interrupts, None
  <2>7. LeavingOK(r, e, closed)
    BY <1>6, <1>12, <2>2, <2>4, <2>6 DEF LeavingOK, Cause
  <2>8. CausesKnown(e, closed)
    BY <1>6, <2>2, <2>3, <2>4 DEF CausesKnown
  <2>9. /\ e.responded => Len(sent[r]) = 1
        /\ ~e.responded => sent[r] = <<>>
    BY <1>10, <2>2, <2>4
  <2> QED
    BY <1>1, <2>4, <2>5, <2>7, <2>8, <2>9, Proceeded
<1> QED
  BY <1>11, <1>12

\* Wherever a cancellation is delivered.
LEMMA InterruptStep ==
    ASSUME NEW r \in Requests, ExecutionInv, Interrupt(r)
    PROVE  StepOK(r) /\ SlotStep(r) /\ UNCHANGED closed
<1> DEFINE t == task[r]
           p == [t EXCEPT !.cancel = None]
<1>1. PICK m \in Delivered(t) :
        InterruptScope(r, m, p) \/ InterruptHandler(r, m, p) \/ InterruptExit(r, m, p)
  BY DEF Interrupt
<1>2. /\ t \in TaskRecord /\ closed \in BOOLEAN /\ CausesKnown(t, closed)
      /\ RequestOK(r, t, sent[r], closed)
  BY StepFacts DEF RequestOK
<1>3. UNCHANGED closed /\ t.cancel # None
  BY DEF Interrupt
<1> HIDE DEF t
<1>4. m \in Interrupts /\ (m = "other" => t.expired \/ closed \/ t.leaked)
  BY <1>2, <1>3, DeliveredFrom
<1>5. /\ p \in TaskRecord /\ p.cancel = None /\ p.leaked = t.leaked
      /\ p.pc = t.pc /\ p.at = t.at /\ p.entered = t.entered /\ p.left = t.left
      /\ p.exited = t.exited /\ p.expired = t.expired /\ p.resolver = t.resolver
      /\ p.result = t.result /\ p.value = t.value /\ p.raised = t.raised
      /\ p.interrupted = t.interrupted /\ p.observed = t.observed
      /\ p.response = t.response /\ p.told = t.told /\ p.responded = t.responded
  BY <1>2 DEF TaskRecord, None
<1> HIDE DEF p
<1>6. Interruptible(r, m, p)
  BY <1>2, <1>4, <1>5, TakenKeeps DEF Interruptible, t
<1>7. CASE InterruptScope(r, m, p)
  BY <1>3, <1>4, <1>6, <1>7, InterruptScopeStep
<1>8. CASE InterruptHandler(r, m, p)
  BY <1>3, <1>4, <1>6, <1>8, HandlerEndsStep DEF InterruptHandler
<1>9. CASE InterruptExit(r, m, p)
  BY <1>3, <1>4, <1>6, <1>9, InterruptExitStep
<1> QED
  BY <1>1, <1>3, <1>7, <1>8, <1>9

\* Wherever user code raises CancelledError by itself.
LEMMA LeakStep ==
    ASSUME NEW r \in Requests, ExecutionInv, Leak(r)
    PROVE  StepOK(r) /\ SlotStep(r) /\ UNCHANGED closed
<1> DEFINE t == task[r]
           p == [t EXCEPT !.leaked = TRUE]
<1>1. /\ \/ InterruptScope(r, "other", p) \/ HandlerEnds(r, p, "other")
         \/ InterruptExit(r, "other", p)
      /\ UNCHANGED closed
  BY DEF Leak
<1>2. /\ t \in TaskRecord /\ closed \in BOOLEAN
      /\ RequestOK(r, t, sent[r], closed)
  BY StepFacts
<1> HIDE DEF t
<1>3. /\ p \in TaskRecord /\ p.cancel = t.cancel /\ p.leaked
      /\ p.pc = t.pc /\ p.at = t.at /\ p.entered = t.entered /\ p.left = t.left
      /\ p.exited = t.exited /\ p.expired = t.expired /\ p.resolver = t.resolver
      /\ p.result = t.result /\ p.value = t.value /\ p.raised = t.raised
      /\ p.interrupted = t.interrupted /\ p.observed = t.observed
      /\ p.response = t.response /\ p.told = t.told /\ p.responded = t.responded
  BY <1>2 DEF TaskRecord
<1> HIDE DEF p
<1>4. Interruptible(r, "other", p) /\ "other" \in Interrupts
  BY <1>2, <1>3, TakenKeeps DEF Interruptible, Interrupts, t
<1>5. CASE InterruptScope(r, "other", p)
  BY <1>1, <1>4, <1>5, InterruptScopeStep
<1>6. CASE HandlerEnds(r, p, "other")
  BY <1>1, <1>4, <1>6, HandlerEndsStep
<1>7. CASE InterruptExit(r, "other", p)
  BY <1>1, <1>4, <1>7, InterruptExitStep
<1> QED
  BY <1>1, <1>5, <1>6, <1>7

-----------------------------------------------------------------------------
(* The theorems *)

\* What is known of a request stays true when the connection records its close.
LEMMA CloseKeeps ==
    ASSUME ExecutionInv, ConnectionClose
    PROVE  ExecutionInv'
<1>1. closed = FALSE /\ closed' = TRUE /\ UNCHANGED <<task, slots, sent>>
  BY DEF ConnectionClose, ExecutionInv, TypeOK
<1>2. ASSUME NEW r \in Requests PROVE RequestOK(r, task[r], sent[r], TRUE)
  <2> DEFINE q == task[r]
             s == sent[r]
  <2>1. RequestOK(r, q, s, FALSE)
    BY <1>1 DEF ExecutionInv
  <2> HIDE DEF q, s
  <2>2. CausesKnown(q, TRUE)
    BY DEF CausesKnown
  <2>3. SentOK(r, q, s, TRUE)
    BY <2>1 DEF RequestOK, SentOK
  <2>4. LeavingOK(r, q, FALSE) => LeavingOK(r, q, TRUE)
    BY DEF LeavingOK
  <2> QED
    BY <2>1, <2>2, <2>3, <2>4 DEF RequestOK, q, s
<1>3. TypeOK' /\ SlotsMatch'
  BY <1>1 DEF ExecutionInv, TypeOK, SlotsMatch
<1> QED
  BY <1>1, <1>2, <1>3 DEF ExecutionInv

\* What holds of every request at every moment: where its record, its slot, its
\* responses and the close of the connection stand to each other.
THEOREM ExecutionInvariant == Spec => []ExecutionInv
<1>1. Init => ExecutionInv
  <2> SUFFICES ASSUME Init PROVE ExecutionInv
    OBVIOUS
  <2>1. NewTask \in TaskRecord
    BY ChainAssumption, EmptySeq DEF NewTask, TaskRecord
  <2>2. <<>> \in Seq(Responses)
    BY EmptySeq
  <2>3. TypeOK
    BY <2>1, <2>2 DEF Init, TypeOK
  <2>4. ASSUME NEW r \in Requests PROVE RequestOK(r, NewTask, <<>>, FALSE)
    BY DEF NewTask, RequestOK, CausesKnown, SentOK, BodyOK, InBody, None
  <2>5. SlotsMatch
    BY DEF Init, SlotsMatch, NewTask, Holding
  <2> QED
    BY <2>3, <2>4, <2>5 DEF Init, ExecutionInv
<1>2. ExecutionInv /\ [Next]_vars => ExecutionInv'
  <2> SUFFICES ASSUME ExecutionInv, [Next]_vars PROVE ExecutionInv'
    OBVIOUS
  <2>1. ASSUME NEW r \in Requests, Step(r) PROVE ExecutionInv'
    <3>1. StepOK(r) /\ SlotStep(r) /\ UNCHANGED closed
      BY <2>1, StartStep, EnterStep, AcquireStep, RejectStep, OpenScopeStep, HandleStep,
         CloseScopeStep, HandshakeDecidedStep, HandshakeAnsweredStep, ExitStep,
         DeadlineStep, ClientCancelStep, CloseCancelsStep, InterruptStep, LeakStep
         DEF Step
    <3> QED
      BY <3>1, StepKeeps
  <2>2. CASE ConnectionClose
    BY <2>2, CloseKeeps
  <2>3. CASE UNCHANGED vars
    BY <2>3 DEF vars, ExecutionInv, TypeOK, SlotsMatch
  <2> QED
    BY <2>1, <2>2, <2>3 DEF Next, Terminating
<1> QED
  BY <1>1, <1>2, PTL DEF Spec

\* A request is answered at most once, and exactly once when its task ends on an open
\* connection and its user code raised no CancelledError by itself; a notification
\* never is. The exception is what a handler that leaks one does to its client.
THEOREM ExecutionAnsweredOnce == Spec => []AnsweredOnce
<1>1. ExecutionInv => AnsweredOnce
  <2> SUFFICES ASSUME ExecutionInv, NEW r \in Requests
               PROVE  /\ Len(sent[r]) <= (IF Owes(r) THEN 1 ELSE 0)
                      /\ task[r].pc = "over" /\ Owes(r) /\ ~closed /\ ~task[r].leaked
                           => Len(sent[r]) = 1
    BY DEF AnsweredOnce
  <2> DEFINE q == task[r]
             s == sent[r]
  <2>1. RequestOK(r, q, s, closed) /\ q \in TaskRecord /\ s \in Seq(Responses)
    BY DEF ExecutionInv, TypeOK
  <2> HIDE DEF q, s
  <2>2. /\ Len(s) \in {0, 1}
        /\ r \in Notifications => Len(s) = 0
    BY <2>1, EmptySeq DEF RequestOK, SentOK, LeavingOK, BodyOK, InBody, TaskRecord
  <2>3. ASSUME q.pc = "over", Owes(r), ~closed, ~q.leaked PROVE Len(s) = 1
    <3>1. CASE q.responded
      BY <2>1, <3>1 DEF RequestOK, SentOK
    <3>2. CASE ~q.responded
      <4>1. q.told # None
        BY <2>1, <2>3, <3>2 DEF RequestOK, LeavingOK
      <4>2. s = <<q.told>> /\ q.told \in Responses
        BY <2>1, <2>3, <3>2, <4>1 DEF RequestOK, SentOK, TaskRecord
      <4> QED
        BY <4>2, OneResponse
    <3> QED
      BY <3>1, <3>2
  <2>4. Len(s) <= (IF Owes(r) THEN 1 ELSE 0)
    <3>1. CASE r \in Notifications
      BY <2>2, <3>1 DEF Owes
    <3>2. CASE r \notin Notifications
      <4>1. Len(s) \in Nat /\ Len(s) \in {0, 1}
        BY <2>1, <2>2, LenProperties
      <4>2. \A n \in {0, 1} : n <= 1
        OBVIOUS
      <4>3. Len(s) <= 1
        BY <4>1, <4>2
      <4> QED
        BY <3>2, <4>3 DEF Owes
    <3> QED
      BY <3>1, <3>2
  <2> QED
    BY <2>3, <2>4 DEF q, s
<1> QED
  BY <1>1, ExecutionInvariant, PTL

\* However often a task is interrupted, it leaves every middleware it entered, last
\* entered first, and gives back its slot and its resolver scope before the first.
THEOREM ExecutionScopesBalanced == Spec => []ScopesBalanced
<1>1. ExecutionInv => ScopesBalanced
  <2> SUFFICES ASSUME ExecutionInv, NEW r \in Requests
               PROVE  /\ task[r].pc = "over" =>
                           task[r].exited = Reverse(task[r].entered)
                      /\ r \in slots <=> task[r].pc \in Holding
                      /\ task[r].resolver => r \in slots
    BY DEF ScopesBalanced, Holding
  <2> DEFINE q == task[r]
  <2>1. /\ RequestOK(r, q, sent[r], closed) /\ q \in TaskRecord
        /\ r \in slots <=> q.pc \in Holding
    BY DEF ExecutionInv, TypeOK, SlotsMatch
  <2> HIDE DEF q
  <2>2. q.pc = "over" => q.exited = Reverse(q.entered)
    <3>1. q.exited \in Seq(Position) /\ q.exited \o <<>> = q.exited
      BY <2>1, ConcatEmptySeq DEF TaskRecord
    <3> QED
      BY <2>1, <3>1 DEF RequestOK, LeavingOK
  <2>3. q.resolver => q.pc \in Holding
    BY <2>1 DEF RequestOK, LeavingOK, BodyOK, InBody, Holding, TaskRecord
  <2> QED
    BY <2>1, <2>2, <2>3 DEF q
<1> QED
  BY <1>1, ExecutionInvariant, PTL

\* The outcome the outermost middleware is shown is the response the client gets,
\* unless user code raised CancelledError by itself.
THEOREM ExecutionOutcomeIsTheAnswer == Spec => []OutcomeIsTheAnswer
<1>1. ExecutionInv => OutcomeIsTheAnswer
  BY DEF ExecutionInv, OutcomeIsTheAnswer, RequestOK, SentOK
<1> QED
  BY <1>1, ExecutionInvariant, PTL
==============================================================================
