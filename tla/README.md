# A TLA+ development of the OCI Functions operator

The operator is five Kubernetes controllers that keep OCI resources in line with
custom resources and send invocations to OCI Functions.  This directory holds
TLA+ models of its controllers and of what they ask of OCI, TLC configurations that
check them on small instances, and TLAPS proofs about all of the models but one: jobs, their
attempts, events, event triggers, the identity of Functions, applications and their logs,
and the two lifecycle reconcilers.  The conditions of triggers are only model-checked.

## The system

| Part | Source | State | Operations |
|---|---|---|---|
| FunctionJob controller | `internal/controller/functionjob_controller.go` | `status` of a FunctionJob: phase, observedGeneration, one record per payload | reconcile: resolve the Function, make records, invoke up to `parallelism` payloads with retries, summarise, write |
| FunctionEvent controller | `functionevent_controller.go` | `status` of a FunctionEvent: phase, one record per matched trigger | reconcile: match triggers, invoke each once, summarise, write; delayed retries; TTL deletion |
| FunctionEventTrigger controller | `functioneventtrigger_controller.go` | finalizer and `status.ruleId` of a trigger | reconcile by mode, ensure a rule, delete it with the trigger |
| rule manager | `internal/eventtrigger/oci.go` | OCI Events rules, tagged with the trigger | EnsureRule (find by id, then by tags; update; create), DeleteRule |
| Function controller | `function_controller.go` | finalizer and `status` (functionId, applicationId, Ready) of a Function | reconcile: finalizer, then by mode: take over the id of the spec (Existing), or wait for the FunctionApplication, or find the application by name, and ensure the function; deletion |
| FunctionApplication controller | `functionapplication_controller.go` | finalizer and `status.applicationId` | reconcile: finalizer, ensure the application and its invocation log; deletion unless functions remain |
| lifecycle manager | `internal/lifecycle/oci.go` | OCI applications, functions, service logs; the region of its one client | Ensure and Delete of applications and functions, ensure of logs |
| OCI invoker | `internal/invoker/oci.go` | none | Invoke: one synchronous call, its ids and its errors |
| authentication, start-up | `internal/ociauth`, `cmd` | none after start | wiring |

How they interact:

- Users and controllers write objects at the API server, with optimistic
  concurrency (a write names the resourceVersion it is based on).
- Each controller reads an informer cache that lags, and is woken by watch
  events its predicate lets through, by requeues it asks for, and by the resync.
- Jobs and events read the `Function` status to decide where to send
  invocations; the Function reads the `FunctionApplication` status for the
  application's id; triggers are woken by Functions.
- Both lifecycle reconcilers share one OCI client, whose region each sets before
  its calls.
- OCI does what it is asked or not, and its answer may be lost.

What is hard: the effect of a call to OCI is not in the same place as its record;
a reconcile works for a long time on a version that others change meanwhile; a
stale cache makes it repeat what is done; a predicate may drop the wake-up that
was needed; a finalizer must be there before the thing it protects.
`PROJECT.json` lists these hazards line by line, each with the properties that
would catch it going wrong.

### What makes each part correct

- **Job**: a job that says Succeeded got an acknowledgement for every payload of
  its present spec; a recorded success is neither taken back nor, as long as reads
  are fresh, repeated; invocations stay within a budget; it finishes.
- **Event**: verdicts are earned; attempts are limited; some verdict comes although
  nothing but its own requeues wakes the controller; the TTL is applied to processed
  events and no others.
- **Trigger**: one live rule per compartment, however its id was lost; a rule never
  without a finalizer; the rule goes first, then the object; in the end the rule
  is what the spec says.
- **Condition**: the rule fires for the events the spec asks for and no others; a
  condition that means nothing is refused.
- **Lifecycle**: Ready means that a function with the wanted image is there; an object
  deleted with policy Delete leaves nothing behind, and with Retain nothing is
  deleted; the deletion of a Function completes.
- **Identity**: whatever names, modes and ids were before, the status of a Function names
  the OCI function of its present spec, and a deletion takes that one and no other.
- **Application and log**: what is Ready has its log, in its group, under its name, switched
  on and only one.
- **Invocation**: what is recorded of a payload is of its last attempt, the status as well
  as the ids; an attempt is
  what the job controller takes it for.

## Modules

| Module | What it is |
|---|---|
| `FunctionJob` | the job controller; `MCFunctionJob` its instances |
| `JobPromise` | the abstract promise of a job; `FunctionJob` implements it (`PromiseKept`) |
| `FunctionJobProofs` | what its operators return, its inductive invariant and the theorems it carries, the refinement of `JobPromise`, and what holds beyond that when reads are not stale |
| `FunctionJobBudget` | the bound on invocations |
| `FunctionEvent` | the event controller; `MCFunctionEvent` its instances |
| `FunctionEventProofs` | its inductive invariant and the five theorems it carries |
| `Invocation` | the attempts of one payload: the loop of the job controller, the invoker and OCI; `MCInvocation` its instance |
| `InvocationProofs` | its inductive invariant, and the refinement of `AttemptPromise` |
| `AttemptPromise` | what `FunctionJob` takes for granted of an attempt; `Invocation` implements it (`PromiseKept`) |
| `EventTrigger` | the trigger controller with the rule manager; `MCEventTrigger` its instances |
| `EventTriggerProofs` | its inductive invariant and the four theorems it carries |
| `EventCondition` | how the condition of a trigger is checked and rendered; `MCEventCondition` its instances |
| `FunctionLifecycle` | one Function and its FunctionApplication, their two controllers and the lifecycle manager with its shared client; `MCFunctionLifecycle` its instances |
| `FunctionLifecycleProofs` | its inductive invariant and the five theorems about properties that follow from it |
| `FunctionIdentity` | several Functions without an applicationRef: which OCI function each stands for; `MCFunctionIdentity` its instances |
| `FunctionIdentityProofs` | its inductive invariant and the four theorems it carries |
| `InvocationLog` | several FunctionApplications in both modes, their mutable fields and their logs; `MCInvocationLog` its instances |
| `InvocationLogProofs` | its inductive invariant and the two theorems it carries |

The three lifecycle modules divide what one model of it all could not check.
`FunctionLifecycle` composes the two reconcilers, which work at the same time, wait for
each other and share the region of one client.  `FunctionIdentity` has one reconciler
and several Functions, so that names and ids can part ways; `InvocationLog` the same for
applications.  A step that two of them have is translated from the same lines in both.

Every module but `EventCondition` and `Invocation` follows the same plan.

- **Objects.** The object in the API server is a record with its version (`rv`), its
  generation (`gen`), its spec and its status.  `cache` is the informer's copy and
  `watch` the versions on their way to it; `Publish` is a write that is accepted.
- **A reconcile** is a sequence of steps: it takes a key and reads the cache
  (`Start...`), calls OCI once per step, and ends in `SkipWrite`, `WriteStatus` or
  `WriteRefused`.  Calls that only read may share a step: `FFind` and `AFind` of
  `FunctionLifecycle` list and then get, and a failure between the two gives the error that a failure
  of either gives.  Anything may happen between two steps.  `snap`, `work`, `next`
  are the reconciler's local copies, gone with `Return`.  In the lifecycle modules the
  finalizer and the status are both `next`, and `Write` or `WriteRefused` ends the reconcile.
- **Wake-ups.** `queued` is the workqueue and `timer` a delayed requeue.  `Wakes` is the
  watch predicate.  In the lifecycle modules there is no queue: neither controller
  filters its watch and their statuses carry times, so live objects are reconciled
  over and over.
- **OCI.** A call takes effect or not, and may fail in either case (`...Fails`).
- **History** (the variables `calls`, `acked`, `wasted`, `dropped`, `switched`, `renamed`, `referred`,
  and the field `by` of an OCI function) serves properties only; no guard of a
  controller reads it.
- **Bounds** are constants named `Max...`; each stands in the guard of an action of the
  environment, or in `TakeKey` for stale reads.  None limits the controller, except
  `MaxLag`, which makes a write wait while the watch is full, and `MaxRules`,
  `MaxApps`, `MaxFns`, `MaxLogs`, which stop creation.  `FunctionIdentity` gives an id to a
  new function again once the old one is gone and nothing remembers it.
- **Mutants** `X_Y` stand before the definition `X` they change; the specification does
  not use them.

Correspondence of the main steps:

| Model | Code |
|---|---|
| `FunctionJob!StartReconcile`, `Prepare` | `Reconcile` up to the loop: markers for a missing or unready Function, `ensurePayloadStatuses` |
| `FunctionJob!Attempt`, `Candidates`, `AfterAttempt` | `invokeRunnablePayloads`, one iteration of its inner loop |
| `FunctionJob!EndInvocations` | `summarizeInvocationState` |
| `FunctionEvent!StartRound`, `WaitForFunction`, `Attempt`, `EndRound` | `Reconcile`, `invokeMatchedTriggers`, `summarizeFunctionEvent` |
| `FunctionEvent!AwaitTTL`, `ExpireTTL`, `DeleteExpired` | `reconcileProcessedTTL`: its verdict on the cached event, and the delete |
| `EventTrigger!Start...` | the branches of `Reconcile` and `reconcileDelete` |
| `EventTrigger!FindRule`, `CreateRule`, `UpdateRule`, `DeleteRule` | `findRule`, `createRule`, `updateRule`, `DeleteRule` |
| `FunctionLifecycle!F...` | `FunctionReconciler` with `ensureFunction`, `DeleteManagedFunction` |
| `FunctionLifecycle!A...` | `FunctionApplicationReconciler` with `ensureApplication`, `DeleteApplication` |
| `FunctionIdentity!Start...` | `FunctionReconciler.Reconcile` by mode, `reconcileExistingFunctionStatus`, `reconcileManagedFunctionStatus`, `reconcileDelete` |
| `FunctionIdentity!FindApp` ... `UpdateFn` | `EnsureFunction`: `ensureApplication`, `ensureFunction` |
| `FunctionIdentity!Target` ... `Erase` | `DeleteManagedFunction` with `resolveFunctionForDelete` |
| `InvocationLog!FindApp` ... `UpdateApp` | `ensureApplication`, `ensureApplicationMutableFields` |
| `InvocationLog!FindLog`, `CreateLog`, `UpdateLog` | `ensureApplicationInvocationLog` |
| `Invocation!Reject`, `Send`, `Receive`, `GiveUp` | `OCI.Invoke`, `responseFromOCI`, `classifyOCIInvokeError` |
| `Invocation!Conclude` | what `invokeRunnablePayloads` records of one attempt |
| `EventCondition!conditionJSONFromSpec` and below | the functions of the same names in `functioneventtrigger_controller.go` |

In `FunctionLifecycle` the phases `Deleting` and `DeleteFailed` stand for the phases
Pending and Error with the condition reasons ManagedFunctionDeleting and
ManagedFunctionDeleteFailed, which is how the code tells them apart
(`isFunctionDeleteFailure`).

## Runs

Runs that pass, one per module:

| Run | Checks | Instance |
|---|---|---|
| `job` | `TypeOK`, `SucceededMeansDelivered`, `RecordsAreEarned`, `InvocationBudget`, `SuccessNeverRegresses`, `PromiseKept`, `SucceededNeverReinvoked`, `QuietAfterTerminal`, `EventuallyFinished` | two specs that share a payload digest at different positions, one without and one with a retry; two of: an edit, a crash, a stale read |
| `invocation` | `RecordIsOfLastAttempt`, `PromiseKept` | three attempts, every kind of target, answer and break |
| `event` | `TypeOK`, `VerdictIsEarned`, `AttemptBudget`, `SucceededNeverReinvoked`, `OnlyProcessedExpires`, `EventuallyDone`, `ProcessedExpires` | two triggers, two attempts; one edit, of the event (type and TTL) or of a trigger, or one crash or stale read |
| `trigger` | `TypeOK`, `AtMostOneRule`, `RuleIsGuarded`, `RecordedRuleDeleted`, `EventuallyServed`, `DeletionCompletes` | six specs over the three modes and two compartments, two Functions; two of: an edit, a change of the Function, a removal, a fault, a crash, a stale read |
| `condition` | `RuleMeansSpec`, `RefusedIfMeaningless` | up to two event types, blank and padded ones among them; data two levels deep, and lists of objects; every rawJson of three fields over small values |
| `lifecycle` | `TypeOK`, `ReadyIsBacked`, `FunctionGoneWithObject`, `ApplicationGoneWithObject`, `RetainKeeps`, `EventuallyReady`, `FunctionDeletionCompletes` | a Function that is managed with policy Delete or of mode Existing, one application with either policy; a function of the users with another image, elsewhere or in an application they have made under its name; one edit, failure, lost reply or crash |
| `identity` | `ReadyNamesItsFunction`, `CreatedUnderFinalizer`, `GoneWithObject`, `DeletesOnlyOwn` | two Functions of one application, six specs: one Function is not edited, the other has the same name with another image, NSGs and policy Retain, or another name, other subnets, mode Existing, or nothing that locates the application; one edit, failure, lost reply or crash |
| `log` | `ReadyHasLog`, `NoSecondLog`, `EventuallyLogged` | two objects; one has an application of its own, with or without a log, or adopts that of the users, the other refers to it, by id and without a name; it has a log in one group and two in another.  One edit, new creation, failure, lost reply, crash or meddling |

Runs that end in a violation show where the code does not do what its
documentation says.  Each has the smallest instance that shows it, without faults:

| Run | Fails | What happens |
|---|---|---|
| `trigger_leak` | `NoRuleLeftBehind` | docs/event-triggers.md:93 says that deleting a trigger deletes its rule.  A trigger deleted while EnsureRule is under way loses the write that would store the rule's id, and `reconcileDelete` skips DeleteRule without an id (functioneventtrigger_controller.go:207).  A failed EnsureRule that clears the id leads there as well (:164). |
| `lifecycle_region` | `FunctionGoneWithObject` | The shared client's region may change between SetRegion (lifecycle/oci.go:296) and DeleteFunction; the 404 of the wrong region counts as success. |
| `lifecycle_stuck` | `FunctionDeletionAlwaysCompletes` | docs/design.md:126 says that a function that is missing already counts as cleaned up.  Without an id in the status there is no region either, and the deletion fails for ever (lifecycle/oci.go:292). |
| `identity_existing` | `UsersFnsKept` | docs/oke-deployment.md:257 says that mode Existing never deletes OCI resources.  A Function switched to Managed and deleted at once deletes by the id that mode Existing has left in its status (function_controller.go:571). |

What else the properties leave out, because the code does not do it:

- One trigger that has failed for good closes the event, and one that waits for its Function is
  never invoked (functionevent_controller.go:342); docs/function-events.md:69 says that the
  event stays Processing.
- An event that is edited after its verdict is routed again but not summarised again
  (functionevent_controller.go:130): `VerdictIsEarned` is about an event that was never edited.
- The delete of an event whose TTL is over names no version (functionevent_controller.go:170): an
  edit that comes between the read (:69) and the delete goes with the event.  `OnlyProcessedExpires`
  allows that one, and no other as long as reads are fresh.
- An array of one value below another array is not rendered as the value
  (functioneventtrigger_controller.go:400), which does not change what is matched.
- A FunctionApplication that referred to an application and is switched to Managed and deleted
  deletes that application, as a Function does (functionapplication_controller.go:238): no
  property of `log` is about deletion.
- The log of a deleted application holds its display name against that of the next one
  (lifecycle/oci.go:702): `Obstructed` in `EventuallyLogged`.
- Mode Existing ensures the log and not the line format (lifecycle/oci.go:511): `ReadyHasLog` is
  about the log alone.
- The deletion of a FunctionApplication that still has functions is repeated until they are gone;
  the model has it, and `ApplicationGoneWithObject` says what must be so when it ends, not that it does.
- A Function patched to policy Delete and deleted before a reconcile of the patch has no
  finalizer (function_controller.go:69): `GoneWithObject` and `FunctionGoneWithObject` speak of a
  deletion that waits for one.
- A Function that was of mode Existing in between has lost the id of what it had made: `referred`
  exempts it in `FunctionGoneWithObject`.
- Two Functions that share a name share an OCI function, and the first deletion takes it:
  `Alone`, the premise of `GoneWithObject` and `DeletesOnlyOwn`.

**Bounds.** Two payloads, triggers or specs are the least that allow one to succeed while
the other fails, waits or is edited away; two attempts the least that tell a retry
from a permanent failure.  Edits, crashes, faults and the rest share a bound, `MaxDisturbances`
(the operator `Calm`), beside the bounds of each kind.  In `job` and `trigger` it is two: any two
kinds, at any point and in either order, meet each other, the reconcile they strike and the repair
that follows, and a rule's id may be lost before something else happens.  Elsewhere it is one, which
still meets every point of two reconciles, every deletion, the answers of OCI, the
Functions that come and go, and the lag of the cache, none of which it bounds.  These are what a checker of
liveness can carry; that more disturbances do no harm to a safety property is what the proofs
are for, which hold for every value of these bounds.  Two cases lie outside the instances and are
only proved: a retry limit lowered below the attempts already made (`InvocationBudget`), and a
trigger that stops to match and matches again (`AttemptBudget`), which takes two edits.  A lost reply, a
failure and a crash are one kind in the lifecycle modules (`MaxMishaps`); what others do to
OCI's resources is `MaxRemovals` and `MaxMeddling`.  Two Functions are the least that can
share a name; four ids the least for one of the users, two that are made and one that is made
again.  Three attempts are the least that have one that is neither the first nor the last.
Data two levels below a field is the least that has an array below an array and an object
below that.  Properties that count
(`InvocationBudget`, `AttemptBudget`) name the bound's effect in their formula, so
that they do not depend on it.  `MaxLag` is 1 in `job`, which keeps one version under way; a
second stale version can only be read by a second stale read.  It is 2 in `event`: a watch that
is full holds every write back, and with 1 the TTL would never remove an event while the cache
lags.  Deadlock is checked except
in the runs of `FunctionIdentity` and `InvocationLog`, where all objects may be gone, of
`Invocation`, where a payload comes to its end, and of `EventCondition`, where a refused
condition stays.

**Fairness.** Weak fairness for a controller as a whole: controller-runtime always runs a
worker for a key in the queue.  The subscripts name the variables that each step of the action
changes (`pc`, the queue, the cache), so that they exclude no step that `vars` would count, and
cost the checker less.  Weak fairness for the informer's delivery and
resync, for timers that were set, and for OCI finishing what it creates.
`ExpireTTL` is strongly fair: the time since the event was processed passes,
however often the controller looks before it is over.  In `InvocationLog` the
start of a reconcile is strongly fair for each object: one worker is busy with another one
now and then, but its queue is a FIFO.  `Invocation` states no fairness: OCI need not ever
answer a call.  Nothing is assumed of
users, of Functions becoming ready, or of OCI answering well: faults are bounded
instead, and the liveness properties that need a ready Function say so.

## Proofs

TLAPS checks the theorems below for every value of the constants: any sets of digests, triggers,
targets, Functions, names and specs, any number of retries, edits, crashes, faults and stale
reads, and every lag of the cache.  Each component's proofs assume the assumption that its
module states about its constants, and nothing else:

- `JobAssumption`: a spec lists at most `MaxPayloads` digests and asks for at most
  `MaxRetryLimit` retries, and the bounds are natural numbers.
- `InvocationAssumption`: there is an attempt to make, and a target to make it at.
- `EventAssumption`: the triggers are finitely many and ordered, as their names are; one may be
  invoked at least once; an event's type and OCI's own types differ; specs and bounds have their types.
- `TriggerAssumption`: there is a spec to start from, the trigger's Function may be missing, and the
  bounds are natural numbers.
- `IdentityAssumption`: there is a Function, each has specs to choose from, one of mode
  Existing names an id, and the bounds have their types.
- `LogAssumption`: each object has specs to choose from, the applications of the users are there from
  the start, and the bounds have their types.
- `LifecycleAssumption`: there are specs to choose from, `Home` is one of the regions, the
  users' functions are among OCI's, there may be one application and one function at least, and
  the bounds are natural numbers.  `ListsGone` may be either.

They cover every safety property that the passing runs check, those of `condition` excepted.

| Theorem | Module | Says |
|---|---|---|
| `TypeCorrect` | `FunctionJobProofs` | `[]TypeOK` |
| `SafetyInvariant` | `FunctionJobProofs` | `[]SafetyInv` |
| `SucceededDelivered` | `FunctionJobProofs` | `[]SucceededMeansDelivered` |
| `RecordsEarned` | `FunctionJobProofs` | `[]RecordsAreEarned` |
| `NoRegress` | `FunctionJobProofs` | `SuccessNeverRegresses` |
| `PromiseRefined` | `FunctionJobProofs` | `PromiseKept` |
| `BudgetKept` | `FunctionJobBudget` | `[]InvocationBudget` |
| `NeverReinvoked`, `TerminalIsQuiet` | `FunctionJobProofs` | `SucceededNeverReinvoked`, `QuietAfterTerminal` |
| `RecordedIsLast` | `InvocationProofs` | `[]RecordIsOfLastAttempt` |
| `PromiseRefined` | `InvocationProofs` | `PromiseKept` |
| `TypeCorrect`, `EarnedVerdict`, `Budgeted` | `FunctionEventProofs` | `[]TypeOK`, `[]VerdictIsEarned`, `[]AttemptBudget` |
| `NeverReinvoked`, `ExpiresOnlyProcessed` | `FunctionEventProofs` | `SucceededNeverReinvoked`, `OnlyProcessedExpires` |
| `TypeCorrect`, `OneRule`, `GuardedRule` | `EventTriggerProofs` | `[]TypeOK`, `[]AtMostOneRule`, `[]RuleIsGuarded` |
| `RecordedRuleGoesFirst` | `EventTriggerProofs` | `RecordedRuleDeleted` |
| `ReadyIsRight` | `FunctionIdentityProofs` | `[]ReadyNamesItsFunction` |
| `FinalizerFirst` | `FunctionIdentityProofs` | `CreatedUnderFinalizer` |
| `OnlyOwnDeleted`, `AllGone` | `FunctionIdentityProofs` | `DeletesOnlyOwn`, `GoneWithObject` |
| `ReadyIsLogged` | `InvocationLogProofs` | `[](NoRivals => ReadyHasLog)` |
| `OneLog` | `InvocationLogProofs` | `NoSecondLog` |
| `TypeCorrect`, `ReadyBacked` | `FunctionLifecycleProofs` | `[]TypeOK`, `[]ReadyIsBacked` |
| `FunctionGone` | `FunctionLifecycleProofs` | `[](races = 0 /\ (ListsGone => creations <= 1)) => FunctionGoneWithObject` |
| `ApplicationGone`, `Retained` | `FunctionLifecycleProofs` | `[](races = 0) => ApplicationGoneWithObject`, `[](races = 0) => RetainKeeps` |

Each component has one inductive invariant, which a theorem `Invariance` states (jobs have three that
build on each other: `SafetyInv`, `BudgetInv`, `FreshInv`); the other theorems follow from it.  None of the properties is inductive as it stands: each is about what is
stored, and what is stored was decided earlier, from a version that others may have
replaced, after calls whose effects came first.  What the invariants add is explained
component by component.

### Jobs

**`SafetyInv`.** The properties are about the object in the API server, but what is
written there was computed earlier, from a version that may be old.  The invariant
therefore speaks of every version in `View`: the object, the cache, the events under
way and the version being worked on.

- `ViewOK`: no version is newer than the object, and one with the object's version
  number is the object (`Known`); none claims more than OCI has received and
  acknowledged (`Claims`), which stays true as OCI does more (`ClaimsGrow`).
- `Building`: the status in memory is for the generation that was read, which had no
  verdict; OCI backs its records; it has every success of the version
  that was read and that the spec wants (`Kept`).
- `Invoking`: there is one record per payload of the spec, and only the one at the
  cursor is between two attempts.  This is why the loop leaves no record Running.
- `Writing`: when the verdict is Succeeded, every payload has a success.  This step
  needs the count in `Summarize` (`SummarizeSucceeded`).

At `WriteStatus` the resourceVersion of the object is the one that was read, so by
`Known` the version that was read is the object: what `Building` and `Writing` say of
`snap` holds of `job`, and no success is lost.  A write without that check breaks the proof
here, as the mutant `WriteAccepted_Force` breaks the run.

**`BudgetInv`** adds an account: `calls[k] + Limit <= Limit * (gen + wasted) + Credit + Used`.
`Credit` is the attempts that the object's record counts, less `Limit` when the spec no
longer wants the payload (the record is going to be dropped, and the edit that did so
raised `gen`); `Used` is what the reconcile under way has added.  An edit, a crash and a
refused write each move at most `Limit` out of `Credit` or `Used`, and raise `gen` or `wasted` by
one.  It also bounds the attempts a record can have (`Modest`).

**`FreshInv`** adds that the newest event under way is the object, so that a cache with
nothing under way is current, and that a reconcile which read a current cache has the
status of the object until it writes.  It holds as long as `staleReads` is 0, which is a premise of the two
properties as well: after a stale read both may be false.

### Attempts

`Inv` of `InvocationProofs`: the loop and the record agree (`LoopOK`); OCI has no call of an
attempt that was not begun (`CallsOK`); an answer is there only when its call is over, and tells a
success only of a function that ran to its end (`AnswersOK`); and `RecordIsOfLastAttempt`, which is
inductive beside these: a call that was answered does not move again, and one that was not leaves
nothing in the record, whatever an earlier answer said.  `PromiseRefined` needs `AnswersOK`: without it the
step that records a success could not be mapped to the step of `AttemptPromise` in which
a function has run.  So what `FunctionJob` takes an attempt to be holds for any number of them.

### Events

`Inv` of `FunctionEventProofs`:

- `ViewOK`: as for jobs, every version is old or is the object, and claims no more than was called
  and acknowledged.  A version of the first generation has a verdict only if it is earned.
  Later ones need not: an event that was edited after its verdict is not summarised again.
- `WorkOK`: a trigger the loop has not reached has the attempts of the version that was read and is
  not settled; the others have one more at most, or their record is new.
- `Counted`: the calls of a trigger are its recorded attempts, `RetryLimit` for each record that
  was dropped, one for each status that was lost, and one if the reconcile under way has
  called it.  The bound of `AttemptBudget` is not inductive: a crash moves the last one to
  `wasted`, an edit moves the recorded attempts to `dropped`.
- `UpToDate`: a cache with nothing under way is current, and a reconcile that did not lag has the
  status the object has.  It carries `NeverReinvoked` and one half of `ExpiresOnlyProcessed`.

`OnlyProcessedExpires` is about two steps, since the code judges the event it has read and then deletes
whatever there is under its name.  When `ExpireTTL` applies the TTL, as long as no read was stale, the
event is processed for its present generation.  What `DeleteExpired` then removes is such an event, or one
that was edited after it was read; this half needs no fresh read.  It follows from `Follows`, the part of
`ViewOK` that relates a version to the later ones: a generation that is processed stays so, because a round
begins only with a version that has no verdict (`NeedsRouting(snap)` in `WorkOK`).

### Event triggers

`Inv` of `EventTriggerProofs` has `AtMostOneRule` and `RuleIsGuarded` as parts, and beside them:

- `ViewOK`: every version is old or is the object (`Known`); one that has the finalizer means that
  the object has it still, or has given it up for good (`Seen`).  This is what makes it safe that a
  reconcile creates a rule on behalf of an old version.
- `EnsureOK`: a rule is made only under a finalizer, and where the listing found none: nobody else
  makes rules of this trigger meanwhile.
- `WriteOK`: the write that gives the finalizer up is one of a trigger that is to go and whose
  recorded rule is gone, or of one that routes FunctionEvents.

### Functions and their names

`Inv` of `FunctionIdentityProofs` speaks of four versions of a Function: the stored one, the cached
one, the one the worker reads (`snap`), and the one it is about to store (`Proposal`).

- `VersionsOK`: a version that is Ready names the OCI function of its own spec (`ReadyOK`); and, as
  long as no names were edited, the ids it stores are those of its names (`IdsOK`).  A version keeps
  being true because OCI gives an id again only when nothing remembers it (`Remembered`), which is
  the part of a state that `Kept` says a step preserves.
- `CloudOK`: names are unique in OCI; a function in an application of the operator was made for a
  Function or found by one (`Unique`), and has the names of each Function it is for (`Owned`).
- `OrderOK`: a deletion is not taken back, and a version under a finalizer that is to stay
  (`Promised`) means that the object has the finalizer, however old the version is.
- `WorkerOK`: what the worker has resolved so far has the names it looked for; when it is about to
  give up the finalizer of a Function that is alone, nothing of the Function is left.
- `ErasedOK`: once one OCI function of a Function that is alone is deleted, all are, and every
  version that is still read is of its deletion.  Without this a worker with an old version could
  make the function again between the deletion and the write that lost its reply.

The steps of a reconcile that store nothing are proved together: `MoveOK` says what such a step
sees to, one lemma per call establishes it, and `MoveInv` draws the conclusion once.

### Applications and their logs

`Inv` of `InvocationLogProofs`:

- `ClaimsOK`: an object that is Ready for its spec has in its status the application of that spec, and,
  as long as nobody meddles, the application's log.  A step keeps this true of every object if
  it changes a log only to what the objects that share the application ask for.
- `ReadsOK`: who reads an old version of an object that is Ready reads its present spec all the
  same, since the status became Ready by a write based on the version with that spec.  So
  a worker that lags does not undo what another object relies on.
- `WorkerOK`: what the worker has found so far.  At `createLog` no log of the application is live in the
  group (`NoneLive`), and one worker makes all logs: this carries `NoSecondLog`.  At `updateLog`
  the log is the application's, and what `fix` does not list is as the spec wants it.

`ReadyHasLog` needs the premise `NoRivals`: no two objects ask for the log of one application, in one
group, under two names.  Nothing in the code or the CRD rules such objects out, and TLC shows that
each then renames the other's log for ever, while both say Ready.  The instance of `log` has no
rivals, and `MCInvocationLog` says so.

### Two reconcilers and one client

`Inv` of `FunctionLifecycleProofs` has a part for each reconciler, `FInv` and `AInv`, a part for
OCI, `CloudOK` (names are unique, and a live function keeps its application alive), and one
for the client, `RegionOK`: without a race every call goes to `Home`.

- `FInv`.  The versions of the Function follow each other, and a deletion is not taken back
  (`FOrderOK`).  Functions are deleted only for a Function that is going, and whoever still reads
  it reads that (`DeadOK`): so no version says Ready of a function that was deleted
  (`BackedOK`).  Who reads an old deletion, after the object is gone, finds nothing left to delete
  (`FGuardOK`).  A Function that was managed all along knows only functions of its
  application, and once one is deleted none is left (`FidsOK`).  `FWorkOK` and `FWriteOK` are
  what the reconcile under way has found and is about to store.
- `AInv` says the same of the application, whose object may be deleted and created again: an old
  deletion is read beside the next object, which has no application yet (`AOrderOK`); a deleted
  application is known only to objects that are being deleted (`AidsOK`); and an object that was created
  once is never served again after its application is gone (`OnceOK`).

A step of one reconciler reads the other's object and changes what OCI has.  The proof treats
that once for each direction: a step that leaves the Function's own variables alone keeps `FInv` if
`FnsFine` holds of it, and likewise `AInv` with `AppsFine`; every step of the other reconciler and
of OCI is shown to be fine.

The premises are what the code does not promise:

- `races = 0`: no reconcile moves the shared client between another's SetRegion and its call.
  With such a race the three action properties fail; the run `lifecycle_region` shows one.
  `ReadyIsBacked` needs no premise: a call that goes astray finds nothing, and makes nothing.
- `ListsGone => creations <= 1`: if OCI lists a deleted application as an empty one, the
  FunctionApplication must not have been created twice.  A Function may have the id of the deleted
  application in its status when the function that it has made in the next one is not stored
  yet.  Its deletion then looks the function up in the deleted one
  (function_controller.go:576), finds none, and lets it stay.  TLC finds this with
  `MaxCreations = 2`.  Whether OCI answers so is not known from the code, so that no run claims it.

### What stays with TLC

- Liveness under fairness and `ENABLED`, which the prover does not handle.
- What recursive definitions compute: `EventCondition`, whose rendering recurses over the data.
- The properties that fail: a theorem cannot say so, and their runs are the counterexamples.

## Assumptions about what is outside the repository

- The API server refuses a write that is based on an old version, keeps an object
  with a finalizer until it is removed, and raises the generation with the spec.
- An informer delivers versions in order and catches up; after a restart it lists
  every object.  Each controller runs one worker (the default of
  controller-runtime, which no `SetupWithManager` changes), and one replica leads.
- OCI knows an id only in its region; refuses to delete an application that has
  functions, to create a second function or application of the same name, and to
  create an application in a region where its subnets are not; answers 404 for a
  rule, function or application that is gone.  How it answers a listing in an
  application that is gone is the constant `ListsGone`; the runs take an empty list.
- OCI goes on for a while with an application, function or log that it has accepted, and may
  fail to make a log.  A log's display name is unique in its group; a log outlives its source.
- OCI runs a function at most once for a call, whether or not the caller still waits, and
  answers a call once at most.

## Not modelled

- Messages, conditions, times, Kubernetes events, logging, back-off: no decision reads them,
  apart from the reasons named above and the time of `Processed`, which `ExpireTTL` abstracts.
- A FunctionEvent that is deleted and created again under its name, which a delete on behalf of the
  first would take as well.
- Authentication, start-up, CRDs, Helm chart, generated code: no state of their own.  What
  start-up decides (one shared lifecycle manager, an invoker always present) is built in,
  and what a CRD refuses is never an input.
- Texts of errors, bodies of requests and answers, pages of listings, and the fields of a
  function besides its image, which are compared and updated in one call with it.
- The Function of a mode-Existing application with its own reconciler: `FunctionLifecycle` has
  the Function in both modes but its application managed.
- OCI functions that somebody else deletes: the status may then have the id of a function that is
  gone, and a deletion that comes before the next reconcile takes its 404 for success
  (lifecycle/oci.go:417) while the function made again stays.
- Mode Existing with policy Delete and an applicationRef, an error for good, and a managed Function
  with policy Retain are in `FunctionLifecycle` and its proofs, not in the instance of `lifecycle`;
  the latter is in that of `identity`.
- `ListsGone = FALSE`: what OCI answers is not known, and with a 404 the deletion repeats.

## Plan

1. *Done*: `FunctionJob` with its abstraction and first proofs, `FunctionEvent`,
   `EventTrigger`, `FunctionLifecycle`.
2. *Done*: mode Existing and the legacy managed mode (`FunctionLifecycle`, `FunctionIdentity`),
   shared, edited and re-used names, applications and their logs (`InvocationLog`), the
   invoker under `FunctionJob` (`Invocation`), conditions (`EventCondition`).
3. *Done*: proofs about the job controller, the attempts, events, triggers, the identity of
   Functions, applications and their logs, and the two reconcilers of `FunctionLifecycle`.
4. Liveness of several Functions (`FunctionIdentity` states safety only: its instance is too
   large for the liveness checker), of the invoker's loop, and of the deletion of applications.
