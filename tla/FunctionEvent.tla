---------------------------- MODULE FunctionEvent ----------------------------
(***************************************************************************)
(* The FunctionEvent controller: one FunctionEvent object, the triggers of *)
(* its namespace, the reconciler that routes the event to the matching     *)
(* ones, and the OCI Functions service it invokes.                         *)
(*                                                                         *)
(* The event is read through an informer cache and its status is written   *)
(* once, at the end of a reconcile, with optimistic concurrency.  Updates  *)
(* of the status do not wake the controller (GenerationChangedPredicate),  *)
(* nor does the informer's resync, nor a change of a trigger or Function:  *)
(* after the first reconcile only its own delayed requeues keep it going.  *)
(*                                                                         *)
(* Triggers are numbered in the order of their names.  Left out: messages, *)
(* conditions, recorded events and timestamps, the envelope's contents     *)
(* (its JSON always renders), an event type without the reserved prefix    *)
(* (refused by the CRD), MatchedTriggers (always the names in Invocations) *)
(* and a missing or unimplemented invoker (cmd/main.go installs one).      *)
(***************************************************************************)
EXTENDS Integers, Sequences, FiniteSets, FiniteSetsExt

CONSTANTS
  Triggers,       \* trigger names, as numbers in the order of the names
  EventTypes,     \* functionevent.* types
  OCITypes,       \* event types of OCI services
  EventSpecs,     \* the specs a user may give the event
  TriggerSpecs,   \* the specs a user may give a trigger
  RetryLimit,     \* functionEventRetryLimit, 3 in the code
  MaxEdits,       \* bound: how often users edit the event or a trigger
  MaxMishaps,     \* bound: how often the operator process dies, or a
                  \* reconcile starts from a cache that lags
  MaxDisturbances,\* bound: all of these together
  MaxLag          \* bound: watch events under way

EventSpec   == [type : EventTypes, ttl : BOOLEAN]
TriggerSpec == [enabled : BOOLEAN, types : SUBSET (EventTypes \union OCITypes)]

ASSUME EventAssumption ==
  /\ Triggers \subseteq Nat /\ IsFiniteSet(Triggers)
  /\ EventTypes \intersect OCITypes = {}
  /\ EventSpecs # {} /\ EventSpecs \subseteq EventSpec
  /\ TriggerSpecs # {} /\ TriggerSpecs \subseteq TriggerSpec
  /\ RetryLimit \in Nat \ {0} /\ MaxLag \in Nat \ {0}
  /\ {MaxEdits, MaxMishaps, MaxDisturbances} \subseteq Nat

VARIABLES
  event,     \* the object in the API server
  cache,     \* the version of it the informer cache holds
  watch,     \* the versions on their way to the cache, oldest first
  queued,    \* the event's key is in the controller's workqueue
  timer,     \* a delayed requeue of the key is pending
  triggers,  \* the triggers' specs, as the event controller would list them
  ready,     \* triggers whose Function exists and is ready to be invoked
  pc,        \* what the reconciler is doing
  snap,      \* the version this reconcile read
  work,      \* the status this reconcile will write
  todo,      \* matched triggers the invocation loop has not reached
  retry,     \* requeueAfter of the invocation loop is set
  calls,     \* history: invocations OCI received, per trigger
  acked,     \* history: triggers for which an invocation returned success
  wasted,    \* history: reconciles whose status never reached the API server
  dropped,   \* history: how often a written status dropped a trigger's record
  edits,     \* edits of triggers so far
  crashes, staleReads   \* how much of the bounds is used

vars == <<event, cache, watch, queued, timer, triggers, ready, pc, snap, work,
          todo, retry, calls, acked, wasted, dropped, edits, crashes, staleReads>>

store   == <<event, cache, watch>>
world   == <<triggers, ready>>
local   == <<snap, work, todo, retry>>
history == <<calls, acked, wasted, dropped>>
bounds  == <<edits, crashes, staleReads>>
-----------------------------------------------------------------------------
InvPhases   == {"none", "Pending", "Succeeded", "Failed"}
EventPhases == {"", "Processing", "Processed", "Failed"}

\* A trigger the status has no record of is in phase "none".
Invocation == [phase : InvPhases, attempts : Nat]
Status     == [phase : EventPhases, observed : Nat, invs : [Triggers -> Invocation]]
Object     == [live : BOOLEAN, rv : Nat, gen : Nat, spec : EventSpecs, status : Status]
-----------------------------------------------------------------------------
(* The pure parts of the reconciler.                                       *)

\* classifyFunctionEventTrigger: what kinds of event types a trigger names.
Mode(tr) ==
  LET native == tr.types \intersect EventTypes # {}
      oci    == tr.types \intersect OCITypes # {}
  IN  CASE native /\ oci -> "mixed" [] native /\ ~ oci -> "functionevent" [] ~ native -> "oci"

\* The triggers an event of type ty goes to.
Matching(trs, ty) ==
  {t \in Triggers : trs[t].enabled /\ Mode(trs[t]) = "functionevent" /\ ty \in trs[t].types}

None  == [phase |-> "none", attempts |-> 0]
Fresh == [phase |-> "Pending", attempts |-> 0]

\* Mutant: a trigger that starts to match gets no record.
EnsureInvocationStatuses_NoFresh(invs, T) ==
  [t \in Triggers |-> IF t \in T THEN invs[t] ELSE None]

\* One record per matched trigger, the one there is or a fresh one; the
\* record of a trigger that no longer matches is dropped.
EnsureInvocationStatuses(invs, T) ==
  [t \in Triggers |-> IF t \notin T THEN None
                      ELSE IF invs[t] = None THEN Fresh ELSE invs[t]]

\* The triggers a list of records names.
Named(invs) == {t \in Triggers : invs[t] # None}

\* Mutant: a succeeded trigger is invoked again.
Settled_Again(inv) == inv.phase = "Failed" /\ inv.attempts >= RetryLimit

\* The loop passes over a trigger that succeeded or has failed for good.
Settled(inv) ==
  \/ inv.phase = "Succeeded"
  \/ inv.phase = "Failed" /\ inv.attempts >= RetryLimit

\* Mutant: the retry limit is off by one.
AfterAttempt_OffByOne(inv, ok) ==
  [phase    |-> IF ok THEN "Succeeded"
                ELSE IF inv.attempts >= RetryLimit THEN "Failed" ELSE "Pending",
   attempts |-> inv.attempts + 1]

\* The record after one more attempt that succeeded or failed.
AfterAttempt(inv, ok) ==
  [phase    |-> IF ok THEN "Succeeded"
                ELSE IF inv.attempts + 1 >= RetryLimit THEN "Failed" ELSE "Pending",
   attempts |-> inv.attempts + 1]

\* Mutant: the event is done as soon as nothing failed for good.
Summarize_Optimistic(invs) ==
  IF \E t \in Named(invs) : invs[t].phase = "Failed" THEN "Failed" ELSE "Processed"

\* One permanent failure fails the event, whatever is still pending.
Summarize(invs) ==
  IF \E t \in Named(invs) : invs[t].phase = "Failed" THEN "Failed"
  ELSE IF \A t \in Named(invs) : invs[t].phase = "Succeeded" THEN "Processed"
  ELSE "Processing"

IsTerminal(st) == st.phase \in {"Processed", "Failed"}

\* Mutant: the generation is not compared.
Closed_AnyGeneration(obj, phase) == obj.status.phase = phase

\* The phase was decided for the spec the object has.
Closed(obj, phase) == obj.status.observed = obj.gen /\ obj.status.phase = phase
-----------------------------------------------------------------------------
NoRecords == [t \in Triggers |-> None]
NoStatus  == [phase |-> "", observed |-> 0, invs |-> NoRecords]

\* What snap holds while no reconcile runs.
NoObject == [live |-> FALSE, rv |-> 0, gen |-> 0, spec |-> CHOOSE s \in EventSpecs : TRUE,
             status |-> NoStatus]

Init ==
  /\ \E s \in EventSpecs :
       event = [live |-> TRUE, rv |-> 1, gen |-> 1, spec |-> s, status |-> NoStatus]
  /\ cache = event /\ watch = <<>> /\ queued = TRUE /\ timer = FALSE
  /\ triggers \in [Triggers -> TriggerSpecs] /\ ready \in SUBSET Triggers
  /\ pc = "idle"
  /\ snap = NoObject /\ work = NoStatus /\ todo = {} /\ retry = FALSE
  /\ calls = [t \in Triggers |-> 0] /\ acked = {}
  /\ wasted = 0 /\ dropped = [t \in Triggers |-> 0]
  /\ edits = 0 /\ crashes = 0 /\ staleReads = 0

\* A write the API server accepts: a new version, on its way to the cache.
Publish(obj) ==
  /\ Len(watch) < MaxLag
  /\ event' = [obj EXCEPT !.rv = event.rv + 1]
  /\ watch' = Append(watch, event')
  /\ UNCHANGED cache

\* The reconcile ends and its local state goes with it.
Return ==
  /\ pc' = "idle" /\ snap' = NoObject /\ work' = NoStatus
  /\ todo' = {} /\ retry' = FALSE
-----------------------------------------------------------------------------
(* The environment.                                                        *)

\* One more edit, one more mishap is within the bounds.
Calm == (event.gen - 1) + edits + crashes + staleReads < MaxDisturbances
EditsLeft   == (event.gen - 1) + edits < MaxEdits /\ Calm
MishapsLeft == crashes + staleReads < MaxMishaps /\ Calm

EditSpec ==
  /\ event.live /\ EditsLeft
  /\ \E s \in EventSpecs \ {event.spec} :
       Publish([event EXCEPT !.spec = s, !.gen = @ + 1])
  /\ UNCHANGED <<queued, timer, world, pc, local, history, bounds>>

DeleteEvent ==
  /\ event.live
  /\ Publish([event EXCEPT !.live = FALSE])
  /\ UNCHANGED <<queued, timer, world, pc, local, history, bounds>>

\* A user creates, edits, disables or deletes a trigger (a deleted one is
\* one that is not enabled).
EditTrigger ==
  /\ EditsLeft
  /\ \E t \in Triggers, tr \in TriggerSpecs :
       tr # triggers[t] /\ triggers' = [triggers EXCEPT ![t] = tr]
  /\ edits' = edits + 1
  /\ UNCHANGED <<store, queued, timer, ready, pc, local, history, crashes, staleReads>>

FunctionChanges ==
  /\ \E t \in Triggers : ready' = (ready \ {t}) \union ({t} \ ready)
  /\ UNCHANGED <<store, queued, timer, triggers, pc, local, history, bounds>>

\* GenerationChangedPredicate: an update that left the generation alone is
\* not enqueued; a deletion always is.
Wakes(old, new) == ~ new.live \/ old.gen # new.gen

\* The informer applies one event.
DeliverWatch ==
  /\ watch # <<>>
  /\ cache' = Head(watch) /\ watch' = Tail(watch)
  /\ queued' = (queued \/ Wakes(cache, Head(watch)))
  /\ UNCHANGED <<event, timer, world, pc, local, history, bounds>>

\* A delayed requeue comes due: 30 s after a round, or the rest of the TTL.
TimerFires ==
  /\ timer
  /\ timer' = FALSE /\ queued' = TRUE
  /\ UNCHANGED <<store, world, pc, local, history, bounds>>

\* A round is under way, whose status is not written yet.
Busy == pc \in {"invoke", "write"}

\* The process dies; the new one lists every object and enqueues it.
Crash ==
  /\ MishapsLeft
  /\ crashes' = crashes + 1
  /\ wasted' = IF Busy THEN wasted + 1 ELSE wasted
  /\ cache' = event /\ watch' = <<>> /\ queued' = TRUE /\ timer' = FALSE
  /\ Return
  /\ UNCHANGED <<event, world, calls, acked, dropped, edits, staleReads>>
-----------------------------------------------------------------------------
(* The reconciler.                                                         *)

TakeKey ==
  /\ pc = "idle" /\ queued
  /\ queued' = FALSE
  /\ watch # <<>> => MishapsLeft
  /\ staleReads' = IF watch = <<>> THEN staleReads ELSE staleReads + 1
  /\ UNCHANGED <<world, calls, acked, wasted, dropped, edits, crashes>>

\* The event is gone, has failed, or was processed and has no TTL.
NothingToDo ==
  /\ \/ ~ cache.live
     \/ Closed(cache, "Failed")
     \/ Closed(cache, "Processed") /\ ~ cache.spec.ttl
  /\ TakeKey
  /\ UNCHANGED <<store, timer, pc, local>>

\* reconcileProcessedTTL, before the TTL is over.
AwaitTTL ==
  /\ cache.live /\ Closed(cache, "Processed") /\ cache.spec.ttl
  /\ TakeKey
  /\ timer' = TRUE
  /\ UNCHANGED <<store, pc, local>>

\* reconcileProcessedTTL, after it: the event that was read is to be deleted.
ExpireTTL ==
  /\ cache.live /\ Closed(cache, "Processed") /\ cache.spec.ttl
  /\ TakeKey
  /\ snap' = cache /\ pc' = "expire"
  /\ UNCHANGED <<store, timer, work, todo, retry>>

\* The delete names no version: it takes the event there is by now, or finds none.
DeleteExpired ==
  /\ pc = "expire"
  /\ IF event.live THEN Publish([event EXCEPT !.live = FALSE]) ELSE UNCHANGED store
  /\ Return
  /\ UNCHANGED <<queued, timer, world, history, bounds>>

\* Mutant: a terminal phase is never looked at again.
NeedsRouting_Terminal(obj) == obj.live /\ ~ IsTerminal(obj.status)

NeedsRouting(obj) == obj.live /\ ~ Closed(obj, "Processed") /\ ~ Closed(obj, "Failed")

\* No trigger matches: the event is done, and its records are cleared.
StartUnmatched ==
  /\ NeedsRouting(cache)
  /\ Matching(triggers, cache.spec.type) = {}
  /\ TakeKey
  /\ snap' = cache
  /\ work' = [phase |-> "Processed", observed |-> cache.gen, invs |-> NoRecords]
  /\ todo' = {} /\ retry' = FALSE /\ pc' = "write"
  /\ UNCHANGED <<store, timer>>

StartRound ==
  LET T    == Matching(triggers, cache.spec.type)
      invs == EnsureInvocationStatuses(cache.status.invs, T)
  IN  /\ NeedsRouting(cache)
      /\ T # {}
      /\ TakeKey
      /\ snap' = cache
      /\ work' = [cache.status EXCEPT !.observed = cache.gen, !.invs = invs]
      /\ todo' = {t \in T : ~ Settled(invs[t])}
      /\ retry' = FALSE /\ pc' = "invoke"
      /\ UNCHANGED <<store, timer>>

\* The loop is at trigger t: the first of those it has not reached.
Reach(t) == pc = "invoke" /\ t \in todo /\ t = Min(todo) /\ todo' = todo \ {t}

\* The trigger's Function is absent or not ready.
WaitForFunction(t) ==
  /\ Reach(t)
  /\ t \notin ready
  /\ work' = [work EXCEPT !.invs[t].phase = "Pending"]
  /\ retry' = TRUE
  /\ UNCHANGED <<store, queued, timer, world, pc, snap, history, bounds>>

NeedsRetry(inv) == inv.phase = "Pending"

\* One call to OCI.  A reply that is lost counts as a failure.
Attempt(t, ok) ==
  LET inv == AfterAttempt(work.invs[t], ok)
  IN  /\ Reach(t)
      /\ t \in ready
      /\ work' = [work EXCEPT !.invs[t] = inv]
      /\ retry' = (retry \/ NeedsRetry(inv))
      /\ calls' = [calls EXCEPT ![t] = @ + 1]
      /\ acked' = IF ok THEN acked \union {t} ELSE acked
      /\ UNCHANGED <<store, queued, timer, world, pc, snap, wasted, dropped, bounds>>

\* A phase that an earlier generation made final is left as it is.
EndRound ==
  /\ pc = "invoke" /\ todo = {}
  /\ work' = IF IsTerminal(work) THEN work
             ELSE [work EXCEPT !.phase = Summarize(work.invs)]
  /\ pc' = "write"
  /\ UNCHANGED <<store, queued, timer, world, snap, todo, retry, history, bounds>>

\* Mutant: the TTL is not asked for.
RequeueAfter_NoTTL == retry

\* Reconcile asks to be called again: for the TTL, or for another round.
RequeueAfter == IF work.phase = "Processed" THEN snap.spec.ttl ELSE retry

\* An unchanged status is not written.
SkipWrite ==
  /\ pc = "write" /\ work = snap.status
  /\ timer' = (timer \/ RequeueAfter)
  /\ Return
  /\ UNCHANGED <<store, queued, world, history, bounds>>

\* Status().Update carries the resourceVersion that was read.
WriteAccepted == event.live /\ event.rv = snap.rv

WriteStatus ==
  /\ pc = "write" /\ work # snap.status
  /\ WriteAccepted
  /\ Publish([event EXCEPT !.status = work])
  /\ dropped' = [t \in Triggers |->
       IF t \in Named(event.status.invs) \ Named(work.invs) THEN dropped[t] + 1 ELSE dropped[t]]
  /\ timer' = (timer \/ RequeueAfter)
  /\ Return
  /\ UNCHANGED <<queued, world, calls, acked, wasted, bounds>>

\* A conflict, or the object is gone: the error requeues the key.
WriteRefused ==
  /\ pc = "write" /\ work # snap.status
  /\ ~ WriteAccepted
  /\ queued' = TRUE
  /\ Return
  /\ wasted' = wasted + 1
  /\ UNCHANGED <<store, timer, world, calls, acked, dropped, bounds>>
-----------------------------------------------------------------------------
Environment == EditSpec \/ DeleteEvent \/ EditTrigger \/ FunctionChanges \/ Crash

Controller ==
  \/ NothingToDo \/ AwaitTTL \/ ExpireTTL \/ DeleteExpired
  \/ StartUnmatched \/ StartRound
  \/ \E t \in Triggers : WaitForFunction(t)
  \/ \E t \in Triggers, ok \in BOOLEAN : Attempt(t, ok)
  \/ EndRound
  \/ SkipWrite \/ WriteStatus \/ WriteRefused

Next == Environment \/ DeliverWatch \/ TimerFires \/ Controller

Spec == Init /\ [][Next]_vars

\* The workqueue and the informer always get to run again, a timer that was
\* set comes due, and a TTL is over some day.  Every step of the controller
\* takes the key from the queue, deals with a trigger, or moves on.
Fairness ==
  /\ WF_<<pc, queued, todo>>(Controller) /\ WF_watch(DeliverWatch) /\ WF_timer(TimerFires)
  /\ SF_queued(ExpireTTL)

FairSpec == Spec /\ Fairness
-----------------------------------------------------------------------------
(* What the controller promises.                                           *)

\* Every variable holds a value of its type.
TypeOK ==
  /\ {event, cache, snap} \subseteq Object
  /\ watch \in Seq(Object)
  /\ {queued, timer, retry} \subseteq BOOLEAN
  /\ triggers \in [Triggers -> TriggerSpecs] /\ ready \subseteq Triggers
  /\ pc \in {"idle", "expire", "invoke", "write"}
  /\ work \in Status /\ todo \subseteq Named(work.invs)
  /\ calls \in [Triggers -> Nat] /\ dropped \in [Triggers -> Nat]
  /\ acked \subseteq Triggers /\ wasted \in Nat
  /\ edits \in 0 .. MaxEdits /\ {crashes, staleReads} \subseteq 0 .. MaxMishaps

RecordedSuccess(t) == event.status.invs[t].phase = "Succeeded"

Verdict(phase) == event.status.observed = event.gen /\ event.status.phase = phase

\* A Processed event whose spec was never edited got a success from OCI for
\* every trigger its status names, and a Failed one used up some trigger's
\* attempts, whatever was switched, lost or read late on the way.
VerdictIsEarned ==
  event.gen = 1 =>
    /\ Verdict("Processed") => Named(event.status.invs) \subseteq acked
    /\ Verdict("Failed") =>
         \E t \in Named(event.status.invs) :
           event.status.invs[t].phase = "Failed" /\ calls[t] >= RetryLimit

\* A trigger is invoked at most RetryLimit times, once more for each status
\* lost to a crash or a conflict (or under way), and RetryLimit times more for
\* each time its record was dropped because it stopped matching.
AttemptBudget ==
  \A t \in Triggers :
    calls[t] <= RetryLimit * (1 + dropped[t])
                + wasted + (IF Busy THEN 1 ELSE 0)

\* As long as no reconcile has started from a cache that lags, OCI is not called
\* for a trigger whose success is persisted, whatever crashed or conflicted.
SucceededNeverReinvoked ==
  [][staleReads = 0 => \A t \in Triggers : RecordedSuccess(t) => calls'[t] = calls[t]]_vars

\* The TTL is applied to an event only when the generation it has at that moment
\* is processed, as long as no reconcile has started from a cache that lags: an
\* edit made by then saves it.  What the delete then removes is either processed
\* for the generation it has, or was edited since the version the reconcile
\* has read, be that read late or not: the delete does not see such an edit.
OnlyProcessedExpires ==
  [][/\ pc = "idle" /\ pc' = "expire" /\ event.live /\ staleReads' = 0
          => Verdict("Processed")
     /\ pc = "expire" /\ event.live /\ ~ event'.live /\ pc' = "idle"
          => Verdict("Processed") \/ event.gen > snap.gen]_vars

\* If every trigger's Function is ready from some time on, the event always
\* gets to a verdict for its last generation: although neither its status, nor
\* the triggers, nor the Functions wake the controller, no delayed requeue is
\* ever missing.
EventuallyDone ==
  <>[](ready = Triggers) =>
    []<>(~ event.live \/ Verdict("Processed") \/ Verdict("Failed"))

\* An event with a TTL does not stay Processed: it is removed, or edited.
ProcessedExpires == ~ <>[](event.live /\ event.spec.ttl /\ Verdict("Processed"))
=============================================================================
