---------------------------- MODULE FunctionJob ----------------------------
(***************************************************************************)
(* The FunctionJob controller: one FunctionJob object, the reconciler that *)
(* works on it, and the OCI Functions service it invokes.                  *)
(*                                                                         *)
(* The API server holds the object (job).  The reconciler never reads it   *)
(* directly: it reads an informer cache (cache) that follows the API       *)
(* server through a FIFO of watch events (watch).  It computes the whole   *)
(* new status in memory (work) while it calls OCI, and persists it in one  *)
(* write at the end, which the API server refuses when the object changed  *)
(* since the version that was read (optimistic concurrency).  A crash in   *)
(* between loses work but not what OCI already ran.                        *)
(*                                                                         *)
(* Left out: conditions, timestamps, messages, request ids and recorded    *)
(* events (they decide nothing), the invocation counters of the status     *)
(* (always recomputed from the records in the same write), the empty       *)
(* functionRef (refused by the CRD), and a missing or unimplemented        *)
(* invoker (cmd/main.go always installs one that works).                   *)
(***************************************************************************)
EXTENDS Integers, Sequences, FiniteSets

CONSTANTS
  Digests,        \* payload digests; a payload is known by its digest
  Specs,          \* the specs a user may give the job
  MaxPayloads,    \* no spec lists more payloads than this
  MaxRetryLimit,  \* no spec asks for more retries than this
  MaxEdits,       \* bound: how often the user edits the spec
  MaxCrashes,     \* bound: how often the operator process dies
  MaxStaleReads,  \* bound: reconciles that start from a cache that lags
  MaxDisturbances,\* bound: edits, crashes and such reconciles together
  MaxLag          \* bound: watch events under way

Spec0 == [payloads : Seq(Digests), payload : Digests,
          parallelism : Int, retryLimit : Int]

ASSUME JobAssumption ==
  /\ Specs # {} /\ Specs \subseteq Spec0
  /\ MaxPayloads \in Nat \ {0} /\ MaxRetryLimit \in Nat
  /\ \A s \in Specs : /\ Len(s.payloads) <= MaxPayloads
                      /\ s.retryLimit <= MaxRetryLimit
  /\ {MaxEdits, MaxCrashes, MaxStaleReads, MaxDisturbances} \subseteq Nat
  /\ MaxLag \in Nat \ {0}

VARIABLES
  job,      \* the object in the API server
  cache,    \* the version of it the informer cache holds
  watch,    \* the versions on their way to the cache, oldest first
  queued,   \* the job's key is in the controller's workqueue
  fn,       \* the referenced Function, as the job controller would read it
  pc,       \* what the reconciler is doing
  snap,     \* the version this reconcile read
  work,     \* the status this reconcile will write
  cursor,   \* the payload the invocation loop is at
  processed,\* payloads finished by this reconcile
  calls,    \* history: invocations OCI received, per payload
  acked,    \* history: payloads for which an invocation returned success
  wasted,   \* history: reconciles whose status never reached the API server
  crashes, staleReads   \* how much of the two bounds is used

vars == <<job, cache, watch, queued, fn, pc, snap, work, cursor, processed,
          calls, acked, wasted, crashes, staleReads>>

store   == <<job, cache, watch>>
local   == <<snap, work, cursor, processed>>
history == <<calls, acked, wasted>>
bounds  == <<crashes, staleReads>>
-----------------------------------------------------------------------------
(* Types.                                                                  *)

Index == 1 .. MaxPayloads
Keys  == Index \X Digests

InvPhases == {"Pending", "Running", "Succeeded", "Failed"}
JobPhases == {"", "Pending", "Running", "Succeeded", "Failed"}

Invocation == [digest : Digests, phase : InvPhases, attempts : Nat]
Status     == [phase : JobPhases, observed : Nat, invs : Seq(Invocation)]
Object     == [live : BOOLEAN, rv : Nat, gen : Nat, spec : Specs, status : Status]

FnStates == {"absent", "notReady", "ready"}
-----------------------------------------------------------------------------
(* The pure parts of the reconciler.                                       *)

DesiredParallelism(s) == IF s.parallelism < 1 THEN 1 ELSE s.parallelism
DesiredRetryLimit(s)  == IF s.retryLimit < 0 THEN 0 ELSE s.retryLimit
\* Mutant: one attempt too many.
MaxAttempts_OffByOne(s) == DesiredRetryLimit(s) + 2

MaxAttempts(s)        == DesiredRetryLimit(s) + 1

IsTerminal(st) == st.phase \in {"Succeeded", "Failed"}

InlinePayloads(s) == IF s.payloads # <<>> THEN s.payloads ELSE <<s.payload>>

\* Mutant: a new record without its phase.
NewInvocation_NoPhase(d) == [digest |-> d, phase |-> "", attempts |-> 0]

NewInvocation(d) == [digest |-> d, phase |-> "Pending", attempts |-> 0]

\* Mutant: the digest is not compared.
EnsurePayloadStatuses_NoDigest(invs, ps) ==
  [i \in 1 .. Len(ps) |-> IF i \in DOMAIN invs THEN invs[i] ELSE NewInvocation(ps[i])]

\* One record per payload of the spec: kept when the payload is still the
\* one it was made for, started afresh when it is new or was edited.
EnsurePayloadStatuses(invs, ps) ==
  [i \in 1 .. Len(ps) |->
     IF i \in DOMAIN invs /\ invs[i].digest = ps[i]
     THEN invs[i] ELSE NewInvocation(ps[i])]

\* Mutant: succeeded payloads are not skipped.
IsRunnable_Again(inv, limit) == ~ (inv.phase = "Failed" /\ inv.attempts >= limit + 1)

IsRunnable(inv, limit) ==
  /\ inv.phase # "Succeeded"
  /\ ~ (inv.phase = "Failed" /\ inv.attempts >= limit + 1)

InPhase(invs, ph) == {i \in DOMAIN invs : invs[i].phase = ph}

\* Mutants: a job succeeds once all is settled; a job fails only when every
\* payload failed.
Summarize_Optimistic(invs) ==
  IF Cardinality(InPhase(invs, "Succeeded") \union InPhase(invs, "Failed")) = Len(invs)
  THEN "Succeeded" ELSE "Running"

Summarize_AllFailed(invs) ==
  IF Cardinality(InPhase(invs, "Failed")) = Len(invs) THEN "Failed"
  ELSE IF Cardinality(InPhase(invs, "Succeeded")) = Len(invs) THEN "Succeeded"
  ELSE "Running"

\* One pass over the records decides the phase of the job.
Summarize(invs) ==
  LET succeeded == Cardinality(InPhase(invs, "Succeeded"))
      failed    == Cardinality(InPhase(invs, "Failed"))
  IN  IF failed > 0 /\ succeeded + failed = Len(invs) THEN "Failed"
      ELSE IF succeeded = Len(invs) THEN "Succeeded" ELSE "Running"

HasRunnable(st, s) ==
  \E i \in DOMAIN st.invs : IsRunnable(st.invs[i], DesiredRetryLimit(s))
-----------------------------------------------------------------------------
NoStatus == [phase |-> "", observed |-> 0, invs |-> <<>>]

\* What snap holds while no reconcile runs.
NoObject == [live |-> FALSE, rv |-> 0, gen |-> 0, spec |-> CHOOSE s \in Specs : TRUE,
             status |-> NoStatus]

Init ==
  /\ \E s \in Specs :
       job = [live |-> TRUE, rv |-> 1, gen |-> 1, spec |-> s, status |-> NoStatus]
  /\ cache = job /\ watch = <<>> /\ queued = TRUE
  /\ fn \in FnStates
  /\ pc = "idle"
  /\ snap = NoObject /\ work = NoStatus /\ cursor = 1 /\ processed = 0
  /\ calls = [k \in Keys |-> 0] /\ acked = {} /\ wasted = 0
  /\ crashes = 0 /\ staleReads = 0

\* A write the API server accepts: a new version, on its way to the cache.
Publish(obj) ==
  /\ Len(watch) < MaxLag
  /\ job' = [obj EXCEPT !.rv = job.rv + 1]
  /\ watch' = Append(watch, job')
  /\ UNCHANGED cache
\* The reconcile ends and its local state goes with it.
Return ==
  /\ pc' = "idle" /\ snap' = NoObject /\ work' = NoStatus
  /\ cursor' = 1 /\ processed' = 0

-----------------------------------------------------------------------------
(* The environment.                                                        *)

\* One more edit, crash or stale read is within bounds.
Calm == (job.gen - 1) + crashes + staleReads < MaxDisturbances

EditSpec ==
  /\ job.live /\ job.gen <= MaxEdits /\ Calm
  /\ \E s \in Specs \ {job.spec} :
       Publish([job EXCEPT !.spec = s, !.gen = @ + 1])
  /\ UNCHANGED <<queued, fn, pc, local, history, bounds>>

DeleteJob ==
  /\ job.live
  /\ Publish([job EXCEPT !.live = FALSE])
  /\ UNCHANGED <<queued, fn, pc, local, history, bounds>>

FunctionChanges ==
  /\ fn' \in FnStates \ {fn}
  /\ UNCHANGED <<store, queued, pc, local, history, bounds>>

\* The informer applies one event and its handler enqueues the key: the
\* controller watches FunctionJobs only, without a predicate.
DeliverWatch ==
  /\ watch # <<>>
  /\ cache' = Head(watch) /\ watch' = Tail(watch)
  /\ queued' = TRUE
  /\ UNCHANGED <<job, fn, pc, local, history, bounds>>

\* The informer's periodic resync enqueues every object it holds.
Resync ==
  /\ cache.live /\ ~ queued
  /\ queued' = TRUE
  /\ UNCHANGED <<store, fn, pc, local, history, bounds>>

\* The process dies; the new one lists every object and enqueues it.
Crash ==
  /\ crashes < MaxCrashes /\ Calm
  /\ crashes' = crashes + 1
  /\ wasted' = IF pc = "idle" THEN wasted ELSE wasted + 1
  /\ cache' = job /\ watch' = <<>> /\ queued' = TRUE
  /\ Return
  /\ UNCHANGED <<job, fn, calls, acked, staleReads>>
-----------------------------------------------------------------------------
(* The reconciler.  MaxConcurrentReconciles is 1: one reconcile at a time. *)

TakeKey ==
  /\ pc = "idle" /\ queued
  /\ queued' = FALSE
  /\ watch # <<>> => staleReads < MaxStaleReads /\ Calm
  /\ staleReads' = IF watch = <<>> THEN staleReads ELSE staleReads + 1
  /\ UNCHANGED <<store, fn, history, crashes>>

\* Mutant: a terminal phase does not end the reconcile.
NeedsWork_Terminal(obj) == obj.live

\* The object is there and its phase is not final.
NeedsWork(obj) == obj.live /\ ~ IsTerminal(obj.status)

NothingToDo ==
  /\ ~ NeedsWork(cache)
  /\ TakeKey
  /\ UNCHANGED <<pc, local>>

Observed(obj) == [obj.status EXCEPT !.observed = obj.gen]

\* What the reconcile decides from the Function it finds: a status to write
\* at once, or a round of invocations to run first.
Prepare(obj, f) ==
  CASE f = "absent"   -> [Observed(obj) EXCEPT !.phase = "Pending"]
    [] f = "notReady" -> [Observed(obj) EXCEPT !.phase = "Failed"]
    [] f = "ready"    -> [Observed(obj) EXCEPT
         !.invs = EnsurePayloadStatuses(@, InlinePayloads(obj.spec))]

StartReconcile ==
  /\ NeedsWork(cache)
  /\ TakeKey
  /\ snap' = cache
  /\ work' = Prepare(cache, fn)
  /\ pc' = IF fn = "ready" THEN "invoke" ELSE "write"
  /\ cursor' = 1 /\ processed' = 0

\* The payloads the loop has still to run in this reconcile.
Candidates ==
  IF processed < DesiredParallelism(snap.spec)
  THEN {i \in DOMAIN work.invs : /\ i >= cursor
                                 /\ IsRunnable(work.invs[i], DesiredRetryLimit(snap.spec))}
  ELSE {}

\* Mutant: the error of the call is ignored.
AfterAttempt_NoError(inv, ok, s) ==
  [inv EXCEPT !.attempts = @ + 1, !.phase = "Succeeded"]

\* The record after one more attempt that succeeded or failed.
AfterAttempt(inv, ok, s) ==
  [inv EXCEPT !.attempts = @ + 1,
              !.phase = IF ok THEN "Succeeded"
                        ELSE IF inv.attempts + 1 >= MaxAttempts(s) THEN "Failed"
                        ELSE "Running"]

\* One call to OCI.  A reply that is lost or cannot be read counts as a
\* failure, whatever OCI did.
Attempt(i, ok) ==
  LET inv == AfterAttempt(work.invs[i], ok, snap.spec)
      key == <<i, inv.digest>>
  IN  /\ pc = "invoke"
      /\ i \in Candidates /\ \A j \in Candidates : i <= j
      /\ work' = [work EXCEPT !.invs[i] = inv]
      /\ calls' = [calls EXCEPT ![key] = @ + 1]
      /\ acked' = IF ok THEN acked \union {key} ELSE acked
      /\ cursor' = IF inv.phase = "Running" THEN i ELSE i + 1
      /\ processed' = IF inv.phase = "Running" THEN processed ELSE processed + 1
      /\ UNCHANGED <<store, queued, fn, pc, snap, wasted, bounds>>

EndInvocations ==
  /\ pc = "invoke" /\ Candidates = {}
  /\ work' = [work EXCEPT !.phase = Summarize(work.invs)]
  /\ pc' = "write"
  /\ UNCHANGED <<store, queued, fn, snap, cursor, processed, history, bounds>>

\* Reconcile asks for another round while payloads are left to run.
Requeue == work.phase = "Running" /\ HasRunnable(work, snap.spec)

\* An unchanged status is not written.
SkipWrite ==
  /\ pc = "write" /\ work = snap.status
  /\ queued' = (queued \/ Requeue)
  /\ Return
  /\ UNCHANGED <<store, fn, history, bounds>>

\* Mutant: the write carries no resourceVersion.
WriteAccepted_Force == job.live

\* Status().Update carries the resourceVersion that was read.
WriteAccepted == job.live /\ job.rv = snap.rv

WriteStatus ==
  /\ pc = "write" /\ work # snap.status
  /\ WriteAccepted
  /\ Publish([job EXCEPT !.status = work])
  /\ queued' = (queued \/ Requeue)
  /\ Return
  /\ UNCHANGED <<fn, history, bounds>>

\* A conflict, or the object is gone: the error requeues the key.
WriteRefused ==
  /\ pc = "write" /\ work # snap.status
  /\ ~ WriteAccepted
  /\ queued' = TRUE
  /\ Return
  /\ wasted' = wasted + 1
  /\ UNCHANGED <<store, fn, calls, acked, bounds>>
-----------------------------------------------------------------------------
Environment == EditSpec \/ DeleteJob \/ FunctionChanges \/ Crash

Controller ==
  \/ NothingToDo \/ StartReconcile
  \/ \E i \in Index, ok \in BOOLEAN : Attempt(i, ok)
  \/ EndInvocations
  \/ SkipWrite \/ WriteStatus \/ WriteRefused

Next == Environment \/ DeliverWatch \/ Resync \/ Controller

Spec == Init /\ [][Next]_vars

\* The workqueue, the informer and its resync always get to run again; what
\* users, Functions and OCI do is up to them.  Every step of the controller
\* takes the key from the queue, records an attempt, or moves on.
Fairness ==
  WF_<<pc, queued, work>>(Controller) /\ WF_watch(DeliverWatch) /\ WF_queued(Resync)

FairSpec == Spec /\ Fairness
-----------------------------------------------------------------------------
(* What the controller promises.                                           *)

\* Every variable holds a value of its type.
TypeOK ==
  /\ {job, cache, snap} \subseteq Object
  /\ watch \in Seq(Object)
  /\ queued \in BOOLEAN /\ fn \in FnStates
  /\ pc \in {"idle", "invoke", "write"}
  /\ work \in Status
  /\ cursor \in Nat /\ processed \in Nat
  /\ calls \in [Keys -> Nat] /\ acked \subseteq Keys /\ wasted \in Nat
  /\ crashes \in 0 .. MaxCrashes /\ staleReads \in 0 .. MaxStaleReads

\* The payloads a spec asks for.
Wanted(s) == {<<i, InlinePayloads(s)[i]>> : i \in DOMAIN InlinePayloads(s)}

\* The payload's record in the API server says it succeeded.
RecordedSuccess(k) ==
  \E i \in DOMAIN job.status.invs :
    /\ k = <<i, job.status.invs[i].digest>>
    /\ job.status.invs[i].phase = "Succeeded"

\* A job that reports Succeeded for the spec it has now got a success from
\* OCI for every payload of that spec, whatever was edited, lost or re-read
\* on the way.
SucceededMeansDelivered ==
  job.status.phase = "Succeeded" /\ job.status.observed = job.gen =>
    Wanted(job.spec) \subseteq acked

\* Each persisted record is backed by what OCI saw: no more attempts than
\* calls, a success only after an acknowledged one, a failure only after an
\* attempt, and never the transient Running phase.
RecordsAreEarned ==
  \A i \in DOMAIN job.status.invs :
    LET inv == job.status.invs[i]
        key == <<i, inv.digest>>
    IN  /\ inv.attempts <= calls[key]
        /\ inv.phase # "Running"
        /\ inv.phase = "Succeeded" => key \in acked
        /\ inv.phase = "Failed" => inv.attempts > 0

\* Rounds of invocations whose attempts no persisted record counts: those lost
\* to a crash or a conflict, and the one under way.
Unrecorded == wasted + (IF pc = "idle" THEN 0 ELSE 1)

\* A payload is invoked at most retryLimit + 1 times per generation of the
\* spec, plus as often for each reconcile whose status was lost to a crash or
\* a conflict: nothing else repeats an invocation.
InvocationBudget ==
  \A k \in Keys : calls[k] <= (MaxRetryLimit + 1) * (job.gen + Unrecorded)

\* A persisted success stays while the spec keeps the payload, even when a
\* reconcile that read an older version tries to write over it.
SuccessNeverRegresses ==
  [][\A k \in Keys :
       RecordedSuccess(k) /\ k \in Wanted(job'.spec) => RecordedSuccess(k)']_vars

Promise == INSTANCE JobPromise WITH
  Payloads  <- Keys,
  wanted    <- Wanted(job.spec),
  delivered <- acked,
  recorded  <- {k \in Keys : RecordedSuccess(k)},
  verdict   <- IF IsTerminal(job.status) THEN job.status.phase ELSE "open"

\* The controller keeps the promise of JobPromise: at-least-once delivery, no
\* record taken back, one verdict, never overwritten and never too good.
PromiseKept == Promise!Spec

\* As long as no reconcile has started from a cache that lags, OCI is not called for
\* a payload whose success is persisted.
SucceededNeverReinvoked ==
  [][staleReads = 0 => \A k \in Keys : RecordedSuccess(k) => calls'[k] = calls[k]]_vars

\* Nor is it called at all once a terminal status is persisted.
QuietAfterTerminal ==
  [][staleReads = 0 /\ IsTerminal(job.status) => UNCHANGED calls]_vars

Finished == ~ job.live \/ IsTerminal(job.status)

\* If the Function is ready from some time on, the job finishes, whatever
\* crashed, conflicted or was read late before.
EventuallyFinished == <>[](fn = "ready") => <>Finished
=============================================================================
