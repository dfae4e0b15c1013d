-------------------------- MODULE InvocationProofs --------------------------
(***************************************************************************)
(* Theorems about Invocation, for every set of targets and every number of *)
(* attempts: what is recorded of a payload is of its last attempt, and the *)
(* attempts are what FunctionJob takes them for.                           *)
(***************************************************************************)
EXTENDS Invocation, TLAPS

\* Every variable holds a value of its type.
TypeOK ==
  /\ target \in Targets /\ rec \in Record /\ pc \in {"call", "await", "over"}
  /\ call \in [Attempts -> CallStates]
  /\ answer \in [Attempts -> Answer \union {NoAnswer}]

\* The loop is at an attempt that may still be made, or the payload has its verdict.
LoopOK ==
  /\ pc = "over" <=> rec.phase # "Running"
  /\ pc # "over" => rec.attempts < MaxAttempts

\* OCI has no call of an attempt that was not begun.
Begun(k) == k <= rec.attempts \/ (pc = "await" /\ k = This)
CallsOK  == \A k \in Attempts : call[k] # "none" => Begun(k)

\* An answer is there when its call is over, and tells a success only of a
\* function that ran to its end.
Answered == {"refused", "done", "died"}
AnswersOK ==
  \A k \in Attempts : answer[k] # NoAnswer =>
    /\ call[k] \in Answered
    /\ IsSuccess(answer[k].status) => call[k] = "done"

Inv == TypeOK /\ LoopOK /\ CallsOK /\ AnswersOK /\ RecordIsOfLastAttempt
-----------------------------------------------------------------------------
(* The operators.                                                          *)

LEMMA MaxOK == MaxAttempts \in Nat /\ MaxAttempts > 0
BY InvocationAssumption

\* An id that is recorded is of this attempt, or there is none.
LEMMA ResponseIDOwn ==
  ASSUME NEW a \in Answer \union {NoAnswer}, NEW h \in Headers, NEW other \in Headers
  PROVE  \/ ResponseID(a, h, other) = NoID
         \/ ResponseID(a, h, other) \in {This} \X a.headers
BY DEF ResponseID

LEMMA PhaseAfterOK ==
  ASSUME TypeOK, LoopOK, pc # "over", NEW error \in Errors
  PROVE  /\ PhaseAfter(error) \in {"Running", "Succeeded", "Failed"}
         /\ PhaseAfter(error) = "Running" => This < MaxAttempts
         /\ PhaseAfter(error) = "Succeeded" <=> error = ""
         /\ PhaseAfter(error) = "Failed" => This = MaxAttempts
<1>1. rec.attempts \in 0 .. MaxAttempts /\ rec.attempts < MaxAttempts
  BY DEF TypeOK, LoopOK, Record
<1>2. This \in Nat /\ This <= MaxAttempts
  BY <1>1, MaxOK DEF This
<1>3. /\ This >= MaxAttempts <=> This = MaxAttempts
      /\ ~ (This >= MaxAttempts) <=> This < MaxAttempts
  BY <1>2, MaxOK
<1>4. QED
  BY <1>3 DEF PhaseAfter

\* An answer leads to no error just when it is a whole success, and to none of the
\* errors of an attempt that has no answer.
LEMMA ErrorOfOK ==
  ASSUME NEW a \in Answer, NEW e \in ErrorOf(a)
  PROVE  e \in Errors \ Unanswered /\ (e = "" <=> IsSuccess(a.status) /\ a.whole)
<1>1. a.status \in {200, 202, 401, 403, 404, 429, 502, 504}
  BY DEF Answer, Statuses
<1>2. ServiceError(a.status) \in {"auth", "ocid", "service"}
  BY <1>1 DEF ServiceError
<1>3. \/ ~ IsSuccess(a.status) /\ e \in {ServiceError(a.status), "status"}
      \/ IsSuccess(a.status) /\ ~ a.whole /\ e = "body"
      \/ IsSuccess(a.status) /\ a.whole /\ e = ""
  BY DEF ErrorOf
<1>4. QED
  BY <1>2, <1>3 DEF Errors, Unanswered
-----------------------------------------------------------------------------
(* The invariant.                                                          *)

LEMMA InitInv == Init => Inv
<1> SUFFICES ASSUME Init PROVE Inv
  OBVIOUS
<1>1. TypeOK
  <2>1. rec \in Record
    <3>1. 0 \in 0 .. MaxAttempts /\ NoID \in IDs /\ "" \in Errors
      BY MaxOK DEF IDs, Errors
    <3>2. QED
      BY <3>1 DEF Init, Record
  <2>2. QED
    BY <2>1 DEF Init, TypeOK, CallStates
<1>2. LoopOK /\ CallsOK /\ AnswersOK /\ RecordIsOfLastAttempt
  BY MaxOK DEF Init, LoopOK, CallsOK, AnswersOK, RecordIsOfLastAttempt
<1>3. QED
  BY <1>1, <1>2 DEF Inv

\* A step of OCI: one call that was begun moves on, with or without an answer.
LEMMA ServeInv ==
  ASSUME Inv, NEW k \in Attempts, NEW st \in {"refused", "running", "done", "died"},
         call[k] \in {"sent", "running"}, call' = [call EXCEPT ![k] = st],
         NEW a \in Answer, st = "done" \/ ~ IsSuccess(a.status),
         \/ answer' = answer /\ answer[k] = NoAnswer
         \/ answer' = [answer EXCEPT ![k] = a] /\ st \in Answered,
         UNCHANGED <<target, rec, pc>>
  PROVE  Inv'
<1> USE DEF Inv
<1>1. TypeOK'
  BY DEF TypeOK, CallStates
<1>2. LoopOK'
  BY DEF LoopOK
<1>3. CallsOK'
  BY DEF CallsOK, Begun, This, TypeOK
<1>4. AnswersOK'
  BY DEF AnswersOK, Answered, TypeOK, IsSuccess
<1>5. RecordIsOfLastAttempt'
  <2>1. CASE rec.attempts = 0 \/ rec.error \in Unanswered
    BY <2>1 DEF RecordIsOfLastAttempt
  <2>2. CASE ~ (rec.attempts = 0 \/ rec.error \in Unanswered)
    <3>1. rec.attempts \in Attempts /\ call[rec.attempts] \in Answered
      BY <2>2, MaxOK DEF RecordIsOfLastAttempt, TypeOK, Record, Attempts, Answered
    <3>2. k # rec.attempts
      BY <3>1 DEF Answered
    <3>3. call'[rec.attempts] = call[rec.attempts] /\ answer'[rec.attempts] = answer[rec.attempts]
      BY <3>1, <3>2 DEF TypeOK
    <3>4. QED
      BY <2>2, <3>3 DEF RecordIsOfLastAttempt
  <2>3. QED
    BY <2>1, <2>2
<1>6. QED
  BY <1>1, <1>2, <1>3, <1>4, <1>5

\* A call that is not over has no answer.
LEMMA NoAnswerYet ==
  ASSUME Inv, NEW k \in Attempts, call[k] \in {"sent", "running"}
  PROVE  answer[k] = NoAnswer
BY DEF Inv, AnswersOK, Answered

LEMMA ServeStepInv ==
  ASSUME Inv, Serve
  PROVE  Inv'
<1>1. PICK k \in Attempts : Refuse(k) \/ RunFunction(k) \/ Finish(k) \/ Die(k)
  BY DEF Serve
<1>2. CASE Refuse(k)
  <2>1. PICK a \in Answer : ~ IsSuccess(a.status) /\ answer' = [answer EXCEPT ![k] = a]
    <3>1. PICK s \in {401, 403, 404, 429}, H \in SUBSET Headers :
            answer' = [answer EXCEPT ![k] = [status |-> s, headers |-> H, whole |-> TRUE]]
      BY <1>2 DEF Refuse
    <3> DEFINE b == [status |-> s, headers |-> H, whole |-> TRUE]
    <3>2. b \in Answer /\ ~ IsSuccess(b.status)
      BY DEF Answer, Statuses, IsSuccess
    <3>3. answer' = [answer EXCEPT ![k] = b]
      BY <3>1
    <3> HIDE DEF b
    <3>4. QED
      BY <3>2, <3>3
  <2>2. /\ call[k] \in {"sent", "running"} /\ call' = [call EXCEPT ![k] = "refused"]
        /\ UNCHANGED <<target, rec, pc>>
    BY <1>2 DEF Refuse, oci
  <2>3. QED
    BY <2>1, <2>2, ServeInv DEF Answered
<1>3. CASE RunFunction(k)
  <2>1. PICK a \in Answer : ~ IsSuccess(a.status)
    <3>1. [status |-> 401, headers |-> {}, whole |-> TRUE] \in Answer
      BY DEF Answer, Statuses
    <3>2. QED
      BY <3>1 DEF IsSuccess
  <2>2. answer[k] = NoAnswer
    BY <1>3, NoAnswerYet DEF RunFunction
  <2>3. /\ call[k] \in {"sent", "running"} /\ call' = [call EXCEPT ![k] = "running"]
        /\ answer' = answer /\ UNCHANGED <<target, rec, pc>>
    BY <1>3 DEF RunFunction, oci
  <2>4. QED
    BY <2>1, <2>2, <2>3, ServeInv
<1>4. CASE Finish(k)
  <2>1. PICK s \in {200, 202}, H \in SUBSET Headers, w \in BOOLEAN :
          answer' = [answer EXCEPT ![k] = [status |-> s, headers |-> H, whole |-> w]]
    BY <1>4 DEF Finish
  <2>2. [status |-> s, headers |-> H, whole |-> w] \in Answer
    BY <2>1 DEF Answer, Statuses
  <2>3. ASSUME NEW a \in Answer, answer' = [answer EXCEPT ![k] = a]
        PROVE  Inv'
    <3>1. "done" \in {"refused", "running", "done", "died"} /\ "done" \in Answered
      BY DEF Answered
    <3>2. call[k] \in {"sent", "running"} /\ call' = [call EXCEPT ![k] = "done"]
      BY <1>4 DEF Finish
    <3>3. UNCHANGED <<target, rec, pc>>
      BY <1>4 DEF Finish, oci
    <3>4. QED
      BY <2>3, <3>1, <3>2, <3>3, ServeInv, ZenonT(60)
  <2>4. QED
    BY <2>1, <2>2, <2>3, ZenonT(60)
<1>5. CASE Die(k)
  <2>1. PICK a \in Answer : ~ IsSuccess(a.status) /\ answer' = [answer EXCEPT ![k] = a]
    <3>1. PICK s \in {502, 504}, H \in SUBSET Headers :
            answer' = [answer EXCEPT ![k] = [status |-> s, headers |-> H, whole |-> TRUE]]
      BY <1>5 DEF Die
    <3> DEFINE b == [status |-> s, headers |-> H, whole |-> TRUE]
    <3>2. b \in Answer /\ ~ IsSuccess(b.status)
      BY DEF Answer, Statuses, IsSuccess
    <3>3. answer' = [answer EXCEPT ![k] = b]
      BY <3>1
    <3> HIDE DEF b
    <3>4. QED
      BY <3>2, <3>3
  <2>2. /\ call[k] \in {"sent", "running"} /\ call' = [call EXCEPT ![k] = "died"]
        /\ UNCHANGED <<target, rec, pc>>
    BY <1>5 DEF Die, oci
  <2>3. QED
    BY <2>1, <2>2, ServeInv DEF Answered
<1>6. QED
  BY <1>1, <1>2, <1>3, <1>4, <1>5

\* What an attempt may end with: its own answer, or none.
Known(a, error) ==
  \/ a = NoAnswer /\ error \in Unanswered
  \/ a \in Answer /\ a = answer[This] /\ call[This] \in Answered /\ error \in ErrorOf(a)

LEMMA ConcludeInv ==
  ASSUME Inv, pc # "over", UNCHANGED call, NEW a, NEW error, Conclude(a, error), Known(a, error)
  PROVE  Inv'
<1>0. a \in Answer \union {NoAnswer} /\ error \in Errors
  BY ErrorOfOK DEF Known, Unanswered, Errors
<1> USE DEF Inv
<1>1. /\ rec.attempts \in 0 .. MaxAttempts /\ This \in Attempts /\ rec'.attempts = This
      /\ MaxAttempts \in Nat
  BY MaxOK DEF Conclude, TypeOK, LoopOK, Record, This, Attempts
<1>2. PhaseAfter(error) \in {"Running", "Succeeded", "Failed"} /\ rec'.phase = PhaseAfter(error)
  BY <1>0, PhaseAfterOK DEF Conclude
<1>3. a.headers \subseteq Headers
  BY <1>0 DEF Answer, NoAnswer
<1>4. ASSUME NEW h \in Headers, NEW other \in Headers
      PROVE  /\ ResponseID(a, h, other) \in IDs
             /\ ResponseID(a, h, other) \in ({This} \X a.headers) \union {NoID}
  BY <1>0, <1>1, <1>3, ResponseIDOwn DEF IDs
<1>5. {"Fn-Call-Id", "opc-request-id"} \subseteq Headers
  BY DEF Headers
<1>6. TypeOK'
  <2>1. a.status \in Statuses \union {NoStatus}
    BY <1>0 DEF Answer, NoAnswer
  <2>2. This \in 0 .. MaxAttempts
    BY <1>1 DEF Attempts
  <2>3. /\ rec'.invocation \in IDs /\ rec'.request \in IDs
        /\ rec' = [phase |-> PhaseAfter(error), attempts |-> This,
                   invocation |-> rec'.invocation, request |-> rec'.request,
                   status |-> a.status, error |-> error]
    BY <1>4, <1>5 DEF Conclude
  <2>4. rec' \in Record
    BY <1>0, <1>2, <2>1, <2>2, <2>3 DEF Record
  <2>5. QED
    BY <2>4 DEF TypeOK, Conclude
<1>7. LoopOK'
  BY <1>0, <1>1, <1>2, PhaseAfterOK DEF LoopOK, Conclude
<1>8. CallsOK'
  BY <1>1, <1>2 DEF CallsOK, Begun, Conclude, This, Attempts
<1>9. AnswersOK'
  BY DEF AnswersOK, Conclude
<1>10. RecordIsOfLastAttempt'
  <2>1. /\ rec'.attempts = This /\ This # 0 /\ rec'.status = a.status /\ rec'.error = error
        /\ {rec'.invocation, rec'.request} \subseteq ({This} \X a.headers) \union {NoID}
        /\ rec'.phase = "Succeeded" <=> error = ""
        /\ call' = call /\ answer' = answer
    <3>1. /\ rec'.attempts = This /\ This # 0 /\ rec'.status = a.status /\ rec'.error = error
          /\ call' = call /\ answer' = answer
      BY <1>1 DEF Conclude, Attempts
    <3>2. {rec'.invocation, rec'.request} \subseteq ({This} \X a.headers) \union {NoID}
      BY <1>4, <1>5 DEF Conclude
    <3>3. rec'.phase = "Succeeded" <=> error = ""
      BY <1>0, <1>2, PhaseAfterOK
    <3>4. QED
      BY <3>1, <3>2, <3>3
  <2>2. CASE a = NoAnswer /\ error \in Unanswered
    <3>1. a.status = NoStatus /\ a.headers = {} /\ error # ""
      BY <2>2 DEF NoAnswer, Unanswered
    <3>2. rec'.invocation = NoID /\ rec'.request = NoID
      BY <2>1, <3>1
    <3>3. QED
      BY <2>1, <2>2, <3>1, <3>2 DEF RecordIsOfLastAttempt
  <2>3. CASE /\ a \in Answer /\ a = answer[This] /\ call[This] \in Answered
             /\ error \in ErrorOf(a)
    <3>1. error \notin Unanswered /\ (error = "" <=> IsSuccess(a.status) /\ a.whole)
      BY <2>3, ErrorOfOK
    <3>2. QED
      BY <2>1, <2>3, <3>1 DEF RecordIsOfLastAttempt, Answered
  <2>4. QED
    BY <2>2, <2>3 DEF Known
<1>11. QED
  BY <1>6, <1>7, <1>8, <1>9, <1>10

LEMMA StepInv ==
  ASSUME Inv, Step
  PROVE  Inv'
<1>1. CASE Reject
  BY <1>1, ConcludeInv DEF Reject, Known, Unanswered
<1>2. CASE CallFails
  BY <1>2, ConcludeInv DEF CallFails, Callable, Known, Unanswered
<1>3. CASE Send
  <2> USE <1>3 DEF Send, Callable, Inv
  <2>1. This \in Attempts /\ MaxAttempts \in Nat /\ rec.attempts \in Nat
    BY MaxOK DEF TypeOK, LoopOK, Record, This, Attempts
  <2>2. call[This] = "none"
    BY <2>1 DEF CallsOK, Begun, This, TypeOK
  <2>3. TypeOK' /\ LoopOK'
    BY <2>1 DEF TypeOK, CallStates, LoopOK
  <2>4. CallsOK'
    BY <2>1 DEF CallsOK, Begun, This, TypeOK
  <2>5. AnswersOK'
    BY <2>1, <2>2 DEF AnswersOK, Answered, TypeOK
  <2>6. RecordIsOfLastAttempt'
    <3>1. call'[rec.attempts] = call[rec.attempts]
      BY <2>1 DEF This, TypeOK
    <3>2. QED
      BY <3>1 DEF RecordIsOfLastAttempt
  <2>7. QED
    BY <2>3, <2>4, <2>5, <2>6
<1>4. CASE GiveUp
  BY <1>4, ConcludeInv DEF GiveUp, Known, Unanswered
<1>5. CASE Receive
  <2>1. PICK e \in ErrorOf(answer[This]) : Conclude(answer[This], e)
    BY <1>5 DEF Receive
  <2>2. This \in Attempts
    BY <1>5, MaxOK DEF Receive, Inv, TypeOK, LoopOK, Record, This, Attempts
  <2>3. answer[This] \in Answer /\ call[This] \in Answered
    BY <1>5, <2>2 DEF Receive, Inv, TypeOK, AnswersOK
  <2>4. QED
    BY <1>5, <2>1, <2>3, ConcludeInv DEF Receive, Known
<1>6. QED
  BY <1>1, <1>2, <1>3, <1>4, <1>5 DEF Step

LEMMA NextInv == Inv /\ [Next]_vars => Inv'
<1>1. ASSUME Inv, UNCHANGED vars PROVE Inv'
  BY <1>1 DEF vars, Inv, TypeOK, LoopOK, CallsOK, Begun, This, AnswersOK, RecordIsOfLastAttempt
<1>2. QED
  BY <1>1, ServeStepInv, StepInv DEF Next

\* Whatever OCI answers, and however late, the loop, the calls and the record agree.
THEOREM Invariance == Spec => []Inv
BY InitInv, NextInv, PTL DEF Spec

\* The ids, the status and the success that are recorded are what the answer to the
\* last attempt said, or nothing where it has none, for any number of attempts.
THEOREM RecordedIsLast == Spec => []RecordIsOfLastAttempt
<1>1. Inv => RecordIsOfLastAttempt
  BY DEF Inv
<1>2. QED
  BY <1>1, Invariance, PTL
-----------------------------------------------------------------------------
(* The refinement of AttemptPromise.                                       *)

LEMMA PromiseInit == Init => Promise!Init
<1> SUFFICES ASSUME Init PROVE Promise!Init
  OBVIOUS
<1>1. rec.attempts = 0 /\ rec.phase = "Running" /\ \A k \in Attempts : call[k] = "none"
  BY DEF Init
<1>2. QED
  BY <1>1 DEF Promise!Init

\* A function that comes to its end is a Run; nothing else is seen of OCI.
LEMMA ServePromise ==
  ASSUME Inv, Serve
  PROVE  Promise!Run \/ UNCHANGED Promise!vars
<1>1. PICK k \in Attempts : Refuse(k) \/ RunFunction(k) \/ Finish(k) \/ Die(k)
  BY DEF Serve
<1>2. UNCHANGED rec
  BY <1>1 DEF Refuse, RunFunction, Finish, Die, oci
<1>3. CASE Refuse(k) \/ RunFunction(k) \/ Die(k)
  <2>1. {j \in Attempts : call'[j] = "done"} = {j \in Attempts : call[j] = "done"}
    BY <1>3 DEF Refuse, RunFunction, Die, Inv, TypeOK
  <2>2. QED
    BY <1>2, <2>1 DEF Promise!vars
<1>4. CASE Finish(k)
  <2>1. {j \in Attempts : call'[j] = "done"} = {j \in Attempts : call[j] = "done"} \union {k}
    BY <1>4 DEF Finish, Inv, TypeOK
  <2>2. k \in 1 .. rec.attempts + 1
    BY <1>4, MaxOK DEF Finish, Inv, CallsOK, Begun, This, TypeOK, Record, Attempts
  <2>3. QED
    BY <1>2, <2>1, <2>2 DEF Promise!Run
<1>5. QED
  BY <1>1, <1>3, <1>4

\* While the loop goes on there is an attempt to be made.
LEMMA ThisOK ==
  ASSUME Inv, pc # "over"
  PROVE  /\ rec.attempts \in Nat /\ rec.attempts < MaxAttempts
         /\ This \in Attempts /\ (This >= MaxAttempts <=> This = MaxAttempts)
<1>1. rec.attempts \in Nat /\ rec.attempts < MaxAttempts
  BY MaxOK DEF Inv, TypeOK, LoopOK, Record
<1>2. QED
  BY <1>1, MaxOK DEF This, Attempts

\* The end of an attempt is an Attempt: without an error, the function ran.
LEMMA ConcludePromise ==
  ASSUME Inv, pc # "over", UNCHANGED call, NEW a, NEW error \in Errors, Conclude(a, error),
         error = "" => call[This] = "done"
  PROVE  Promise!Attempt
<1>1. /\ rec.attempts \in Nat /\ rec.attempts < MaxAttempts
      /\ This \in Attempts /\ (This >= MaxAttempts <=> This = MaxAttempts)
  BY ThisOK
<1>2. rec.phase = "Running" /\ rec'.attempts = rec.attempts + 1 /\ This = rec.attempts + 1
  BY DEF Inv, LoopOK, Conclude, This
<1>3. rec'.phase = PhaseAfter(error)
  BY DEF Conclude
<1>4. CASE error = ""
  <2>1. rec'.phase = "Succeeded" /\ This \in {k \in Attempts : call'[k] = "done"}
    BY <1>1, <1>3, <1>4 DEF PhaseAfter
  <2>2. QED
    BY <1>1, <1>2, <2>1 DEF Promise!Attempt
<1>5. CASE error # ""
  <2>1. rec'.phase = IF This = MaxAttempts THEN "Failed" ELSE "Running"
    BY <1>1, <1>3, <1>5 DEF PhaseAfter
  <2>2. QED
    BY <1>1, <1>2, <2>1 DEF Promise!Attempt
<1>6. QED
  BY <1>4, <1>5

LEMMA StepPromise ==
  ASSUME Inv, Step
  PROVE  Promise!Attempt \/ UNCHANGED Promise!vars
<1>1. CASE Reject
  BY <1>1, ConcludePromise DEF Reject, Errors
<1>2. CASE CallFails
  BY <1>2, ConcludePromise DEF CallFails, Callable, Errors
<1>3. CASE Send
  <2>1. This \in Attempts /\ call[This] # "done"
    BY <1>3, MaxOK DEF Send, Callable, Inv, CallsOK, Begun, This, TypeOK, LoopOK, Record, Attempts
  <2>2. {k \in Attempts : call'[k] = "done"} = {k \in Attempts : call[k] = "done"}
    BY <1>3, <2>1 DEF Send, Inv, TypeOK
  <2>3. QED
    BY <1>3, <2>2 DEF Send, Promise!vars
<1>4. CASE GiveUp
  BY <1>4, ConcludePromise DEF GiveUp, Errors
<1>5. CASE Receive
  <2>1. PICK e \in ErrorOf(answer[This]) : Conclude(answer[This], e)
    BY <1>5 DEF Receive
  <2>2. This \in Attempts
    BY <1>5, MaxOK DEF Receive, Inv, TypeOK, LoopOK, Record, This, Attempts
  <2>3. answer[This] \in Answer /\ (IsSuccess(answer[This].status) => call[This] = "done")
    BY <1>5, <2>2 DEF Receive, Inv, TypeOK, AnswersOK
  <2>4. e \in Errors /\ (e = "" => IsSuccess(answer[This].status))
    BY <2>1, <2>3, ErrorOfOK
  <2>5. QED
    BY <1>5, <2>1, <2>3, <2>4, ConcludePromise DEF Receive
<1>6. QED
  BY <1>1, <1>2, <1>3, <1>4, <1>5 DEF Step

\* The attempts behave as FunctionJob takes them to: each is counted, and a success
\* is one of a call that OCI ran to its end.
THEOREM PromiseRefined == Spec => PromiseKept
<1>1. Inv /\ [Next]_vars => [Promise!Next]_(Promise!vars)
  <2>1. ASSUME UNCHANGED vars PROVE UNCHANGED Promise!vars
    BY <2>1 DEF vars, Promise!vars
  <2>2. QED
    BY <2>1, ServePromise, StepPromise DEF Next, Promise!Next
<1>2. QED
  BY <1>1, PromiseInit, Invariance, PTL DEF Spec, PromiseKept, Promise!Spec
=============================================================================
