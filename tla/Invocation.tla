----------------------------- MODULE Invocation -----------------------------
(***************************************************************************)
(* One payload of a FunctionJob on its way through the OCI invoker: the    *)
(* attempts of invokeRunnablePayloads, each a synchronous call, and OCI,   *)
(* which goes on with a call after the caller has given it up.             *)
(*                                                                         *)
(* FunctionJob takes an attempt for one step that succeeds or fails.  Here *)
(* a timeout races the answer, a connection breaks before or after the     *)
(* function ran, an answer is cut short, and what is recorded of an        *)
(* attempt, its ids and its status, is what its own answer carried.        *)
(*                                                                         *)
(* Left out: bodies, the texts of errors and their details, an invoker     *)
(* that is not configured, the other payloads of the job; FunctionJob has  *)
(* the status write and the crash of the process.                          *)
(***************************************************************************)
EXTENDS Naturals, FiniteSets

CONSTANTS
  Targets,       \* the targets the Function's status may give
  MaxAttempts    \* retryLimit + 1

\* What there is of an endpoint, after its spaces are trimmed.
Endpoints == {"none", "unparsable", "otherScheme", "noHost", "withPath", "host", "hostAndSlash"}
Target    == [id : BOOLEAN, endpoint : Endpoints]

ASSUME InvocationAssumption ==
  Targets # {} /\ Targets \subseteq Target /\ MaxAttempts \in Nat \ {0}

VARIABLES
  target,  \* the target the job has resolved
  rec,     \* the record of the payload in the status the job will write
  pc,      \* "call", "await" or "over"
  call,    \* what OCI does with each attempt's call
  answer   \* the answers on their way, one per attempt at most

vars == <<target, rec, pc, call, answer>>
-----------------------------------------------------------------------------
Attempts == 1 .. MaxAttempts
Statuses == {200, 202, 401, 403, 404, 429, 502, 504}
NoStatus == 0

\* The two headers of an answer that name the call.
Headers == {"Fn-Call-Id", "opc-request-id"}
NoID    == <<0, "none">>
IDs     == (Attempts \X Headers) \union {NoID}

Answer   == [status : Statuses, headers : SUBSET Headers, whole : BOOLEAN]
NoAnswer == [status |-> NoStatus, headers |-> {}, whole |-> FALSE]

CallStates == {"none", "sent", "refused", "running", "done", "died"}
Errors     == {"", "config", "timeout", "endpoint", "auth", "ocid", "service", "status", "body"}
Record     == [phase : {"Running", "Succeeded", "Failed"}, attempts : 0 .. MaxAttempts,
               invocation : IDs, request : IDs, status : Statuses \union {NoStatus},
               error : Errors]

Init ==
  /\ target \in Targets
  /\ rec = [phase |-> "Running", attempts |-> 0, invocation |-> NoID, request |-> NoID,
            status |-> NoStatus, error |-> ""]
  /\ pc = "call"
  /\ call = [k \in Attempts |-> "none"] /\ answer = [k \in Attempts |-> NoAnswer]

This == rec.attempts + 1
-----------------------------------------------------------------------------
(* OCI.                                                                    *)

oci == <<target, rec, pc>>

\* It answers a call it does not run.
Refuse(k) ==
  /\ call[k] = "sent" /\ call' = [call EXCEPT ![k] = "refused"]
  /\ \E s \in {401, 403, 404, 429}, H \in SUBSET Headers :
       answer' = [answer EXCEPT ![k] = [status |-> s, headers |-> H, whole |-> TRUE]]
  /\ UNCHANGED oci

RunFunction(k) ==
  /\ call[k] = "sent" /\ call' = [call EXCEPT ![k] = "running"]
  /\ UNCHANGED <<oci, answer>>

\* The function comes to its end; the answer may be cut short on its way.
Finish(k) ==
  /\ call[k] = "running" /\ call' = [call EXCEPT ![k] = "done"]
  /\ \E s \in {200, 202}, H \in SUBSET Headers, w \in BOOLEAN :
       answer' = [answer EXCEPT ![k] = [status |-> s, headers |-> H, whole |-> w]]
  /\ UNCHANGED oci

\* The function fails, or runs into its own timeout.
Die(k) ==
  /\ call[k] = "running" /\ call' = [call EXCEPT ![k] = "died"]
  /\ \E s \in {502, 504}, H \in SUBSET Headers :
       answer' = [answer EXCEPT ![k] = [status |-> s, headers |-> H, whole |-> TRUE]]
  /\ UNCHANGED oci

Serve == \E k \in Attempts : Refuse(k) \/ RunFunction(k) \/ Finish(k) \/ Die(k)
-----------------------------------------------------------------------------
(* The invoker, and the loop that calls it.                                *)

\* normalizeInvokeEndpoint lets it pass.
UsableEndpoint == target.endpoint \in {"host", "hostAndSlash"}

IsSuccess(s) == s \in {200, 202}

\* responseFromOCI: one header stands in for the other.
ResponseID(a, h, other) ==
  IF h \in a.headers THEN <<This, h>> ELSE IF other \in a.headers THEN <<This, other>> ELSE NoID

PhaseAfter(error) ==
  IF error = "" THEN "Succeeded" ELSE IF This >= MaxAttempts THEN "Failed" ELSE "Running"

\* Mutant: the status of an earlier answer is kept where this attempt has none.
Conclude_StatusKept(a, error) ==
  /\ rec' = [rec EXCEPT !.phase = PhaseAfter(error), !.attempts = This, !.error = error,
                        !.invocation = ResponseID(a, "Fn-Call-Id", "opc-request-id"),
                        !.request    = ResponseID(a, "opc-request-id", "Fn-Call-Id"),
                        !.status     = IF a = NoAnswer THEN @ ELSE a.status]
  /\ pc' = IF PhaseAfter(error) = "Running" THEN "call" ELSE "over"
  /\ UNCHANGED <<target, answer>>

\* The attempt is over, with what is known of the answer and an error or none.
Conclude(a, error) ==
  /\ rec' = [phase      |-> PhaseAfter(error),
             attempts   |-> This,
             invocation |-> ResponseID(a, "Fn-Call-Id", "opc-request-id"),
             request    |-> ResponseID(a, "opc-request-id", "Fn-Call-Id"),
             status     |-> a.status,
             error      |-> error]
  /\ pc' = IF PhaseAfter(error) = "Running" THEN "call" ELSE "over"
  /\ UNCHANGED <<target, answer>>

\* What the invoker finds out by itself, with no call.
Reject ==
  /\ pc = "call" /\ (~ target.id \/ ~ UsableEndpoint)
  /\ Conclude(NoAnswer, "config") /\ UNCHANGED call

Callable == pc = "call" /\ target.id /\ UsableEndpoint

\* No client can be made, or the endpoint is not reached.
CallFails ==
  /\ Callable
  /\ \E e \in {"config", "endpoint"} : Conclude(NoAnswer, e)
  /\ UNCHANGED call

Send ==
  /\ Callable
  /\ call' = [call EXCEPT ![This] = "sent"] /\ pc' = "await"
  /\ UNCHANGED <<target, rec, answer>>

\* The client gives up, or its connection breaks: nothing is known of the call.
GiveUp ==
  /\ pc = "await"
  /\ \E e \in {"timeout", "endpoint"} : Conclude(NoAnswer, e)
  /\ UNCHANGED call

\* classifyOCIInvokeError, for an error the service has answered with.
ServiceError(s) ==
  CASE s \in {401, 403} -> "auth" [] s = 404 -> "ocid" [] s \notin {401, 403, 404} -> "service"

\* Mutant: the status of the answer is not looked at.
ErrorOf_Body(a) == IF ~ a.whole THEN {"body"} ELSE {""}

\* The errors an answer may lead to: the SDK makes an error of a refusal, or
\* leaves that to the invoker.
ErrorOf(a) ==
  IF ~ IsSuccess(a.status) THEN {ServiceError(a.status), "status"}
  ELSE IF ~ a.whole THEN {"body"} ELSE {""}

Receive ==
  /\ pc = "await" /\ answer[This] # NoAnswer
  /\ \E e \in ErrorOf(answer[This]) : Conclude(answer[This], e)
  /\ UNCHANGED call

Step == Reject \/ CallFails \/ Send \/ GiveUp \/ Receive

Next == Serve \/ Step

Spec == Init /\ [][Next]_vars
-----------------------------------------------------------------------------
(* What the job may rely on.                                               *)

\* The errors of an attempt of which no answer is known.
Unanswered == {"config", "timeout", "endpoint"}

\* What is recorded of the call is what the answer to the last attempt said: its
\* ids, its status, and whether it was a whole success.  Where that attempt has no
\* answer there is none of it, though an earlier attempt may have had one, or
\* its own may come late.
RecordIsOfLastAttempt ==
  IF rec.attempts = 0 \/ rec.error \in Unanswered
  THEN /\ rec.invocation = NoID /\ rec.request = NoID /\ rec.status = NoStatus
       /\ rec.phase # "Succeeded"
  ELSE LET a == answer[rec.attempts]
       IN  /\ call[rec.attempts] \in {"refused", "done", "died"}
           /\ {rec.invocation, rec.request} \subseteq ({rec.attempts} \X a.headers) \union {NoID}
           /\ rec.status = a.status
           /\ rec.phase = "Succeeded" <=> IsSuccess(a.status) /\ a.whole

\* The attempts behave as FunctionJob takes them to.
Promise == INSTANCE AttemptPromise WITH
  attempts <- rec.attempts,
  ran      <- {k \in Attempts : call[k] = "done"},
  outcome  <- IF rec.phase = "Running" THEN "open" ELSE rec.phase

PromiseKept == Promise!Spec
=============================================================================
