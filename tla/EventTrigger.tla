---------------------------- MODULE EventTrigger ----------------------------
(***************************************************************************)
(* The FunctionEventTrigger controller: one trigger, the Function it names, *)
(* and the OCI Events rules the controller keeps for it.                   *)
(*                                                                         *)
(* The trigger is read through an informer cache and written once per      *)
(* reconcile, its finalizer or its status, with optimistic concurrency.    *)
(* OCI is reached through calls that may fail, or take effect although     *)
(* their reply is lost.  A rule carries the trigger's name, namespace and  *)
(* UID as tags; the trigger's status carries the rule's id.  The first     *)
(* finds a rule whose id was never stored; the second is all the deletion  *)
(* of the trigger looks at.                                                *)
(*                                                                         *)
(* Left out: conditions, messages, timestamps and recorded events, how a   *)
(* condition is rendered as JSON, the pages of a listing, the regions of   *)
(* the OCI client (one region), and a missing rule manager (cmd/main.go    *)
(* starts this controller only with one).                                  *)
(***************************************************************************)
EXTENDS Integers, Sequences, FiniteSets

CONSTANTS
  Functions,      \* OCIDs the referenced Function may have when it is ready
  NoFunction,     \* the Function is absent, not ready, or has no OCID
  Wants,          \* what the spec says of the rule: its condition, names, ...
  Compartments,   \* compartments the rule may be asked for in
  Specs,          \* the specs a user may give the trigger
  MaxRules,       \* bound: rules that are ever created
  MaxEdits,       \* bound: how often the user edits the spec
  MaxChanges,     \* bound: how often the Function changes
  MaxRemovals,    \* bound: rules somebody else removes
  MaxFaults,      \* bound: OCI calls that fail or whose reply is lost
  MaxCrashes,     \* bound: how often the operator process dies
  MaxStaleReads,  \* bound: reconciles that start from a cache that lags
  MaxDisturbances,\* bound: the six above taken together
  MaxLag          \* bound: watch events under way

Modes    == {"oci", "functionevent", "mixed"}
Healths  == {"ok", "incomplete", "badCondition"}
Policies == {"Delete", "Retain"}

TriggerSpec == [mode : Modes, health : Healths, policy : Policies,
                comp : Compartments, want : Wants]

ASSUME TriggerAssumption ==
  /\ NoFunction \notin Functions
  /\ Specs # {} /\ Specs \subseteq TriggerSpec
  /\ {MaxRules, MaxLag} \subseteq Nat \ {0}
  /\ {MaxEdits, MaxChanges, MaxRemovals, MaxFaults, MaxCrashes, MaxStaleReads,
      MaxDisturbances} \subseteq Nat

VARIABLES
  trigger,   \* the object in the API server
  cache,     \* the version of it the informer cache holds
  watch,     \* the versions on their way to the cache, oldest first
  queued,    \* the trigger's key is in the controller's workqueue
  timer,     \* a delayed requeue of the key is pending
  fn,        \* the referenced Function, as the controller would read it
  rules,     \* the OCI Events rules with this trigger's tags
  pc,        \* what the reconciler is doing
  snap,      \* the version this reconcile read
  target,    \* the Function this reconcile resolved
  found,     \* the rule EnsureRule found
  next,      \* the finalizer and the status this reconcile will write
  result,    \* what Reconcile returns after a write that went through
  switched,  \* history: the trigger has been one that routes FunctionEvents
  changes, removals, faults, crashes, staleReads   \* how much of the bounds is used

vars == <<trigger, cache, watch, queued, timer, fn, rules, pc, snap, target,
          found, next, result, switched, changes, removals, faults, crashes,
          staleReads>>

store  == <<trigger, cache, watch>>
local  == <<snap, target, found, next, result>>
bounds == <<changes, removals, faults, crashes, staleReads>>
-----------------------------------------------------------------------------
RuleIDs == 1 .. MaxRules
NoRule  == 0

Content == [want : Wants, fn : Functions \union {NoFunction}]
Rule    == [state : {"unborn", "creating", "active", "deleted"},
            comp : Compartments, content : Content]

Status  == [phase : {"", "Pending", "Ready", "Error"}, observed : Nat,
            rule : RuleIDs \union {NoRule}]
Written == [final : BOOLEAN, status : Status]
Object  == [stored : BOOLEAN, deleting : BOOLEAN, rv : Nat, gen : Nat,
            spec : Specs, final : BOOLEAN, status : Status]

Newborn    == {"creating", "active"}
Live(r)    == rules[r].state \in Newborn
LiveRules  == {r \in RuleIDs : Live(r)}

NoStatus  == [phase |-> "", observed |-> 0, rule |-> NoRule]
Nothing   == [final |-> FALSE, status |-> NoStatus]
SomeSpec  == CHOOSE s \in Specs : TRUE
Unborn    == [state |-> "unborn", comp |-> SomeSpec.comp,
              content |-> [want |-> SomeSpec.want, fn |-> NoFunction]]

\* What snap holds while no reconcile runs.
NoObject == [stored |-> FALSE, deleting |-> FALSE, rv |-> 0, gen |-> 0,
             spec |-> SomeSpec, final |-> FALSE, status |-> NoStatus]

Init ==
  /\ \E s \in Specs :
       trigger = [stored |-> TRUE, deleting |-> FALSE, rv |-> 1, gen |-> 1,
                  spec |-> s, final |-> FALSE, status |-> NoStatus]
  /\ cache = trigger /\ watch = <<>> /\ queued = TRUE /\ timer = FALSE
  /\ fn \in Functions \union {NoFunction}
  /\ rules = [r \in RuleIDs |-> Unborn]
  /\ pc = "idle"
  /\ snap = NoObject /\ target = NoFunction /\ found = NoRule
  /\ next = Nothing /\ result = "done"
  /\ switched = (trigger.spec.mode = "functionevent")
  /\ changes = 0 /\ removals = 0 /\ faults = 0 /\ crashes = 0 /\ staleReads = 0

\* A write the API server accepts: a new version, on its way to the cache.
Publish(obj) ==
  /\ Len(watch) < MaxLag
  /\ trigger' = [obj EXCEPT !.rv = trigger.rv + 1]
  /\ watch' = Append(watch, trigger')
  /\ UNCHANGED cache

\* The reconcile ends and its local state goes with it.
Return ==
  /\ pc' = "idle" /\ snap' = NoObject /\ target' = NoFunction
  /\ found' = NoRule /\ next' = Nothing /\ result' = "done"
-----------------------------------------------------------------------------
(* The environment.                                                        *)

\* One more edit, change, removal, fault, crash or stale read is within bounds.
Calm ==
  (trigger.gen - 1) + changes + removals + faults + crashes + staleReads < MaxDisturbances

EditSpec ==
  /\ trigger.stored /\ trigger.gen <= MaxEdits /\ Calm
  /\ \E s \in Specs \ {trigger.spec} :
       /\ Publish([trigger EXCEPT !.spec = s, !.gen = @ + 1])
       /\ switched' = (switched \/ s.mode = "functionevent")
  /\ UNCHANGED <<queued, timer, fn, rules, pc, local, bounds>>

\* The object stays, marked for deletion, as long as it has a finalizer.
DeleteTrigger ==
  /\ trigger.stored /\ ~ trigger.deleting
  /\ IF trigger.final THEN Publish([trigger EXCEPT !.deleting = TRUE])
     ELSE Publish([trigger EXCEPT !.stored = FALSE])
  /\ UNCHANGED <<queued, timer, fn, rules, pc, local, switched, bounds>>

\* The controller watches Functions: each of their updates enqueues the
\* triggers that refer to them, also one that changes nothing of interest.
FunctionChanges ==
  /\ fn' \in Functions \union {NoFunction}
  /\ changes' = IF fn' = fn THEN changes ELSE changes + 1
  /\ changes' <= MaxChanges /\ (fn' # fn => Calm)
  /\ queued' = TRUE
  /\ UNCHANGED <<store, timer, rules, pc, local, switched, removals, faults, crashes, staleReads>>

RuleBecomesActive ==
  /\ \E r \in RuleIDs :
       /\ rules[r].state = "creating"
       /\ rules' = [rules EXCEPT ![r].state = "active"]
  /\ UNCHANGED <<store, queued, timer, fn, pc, local, switched, bounds>>

\* Somebody removes a rule behind the operator's back.
RuleRemoved ==
  /\ removals < MaxRemovals /\ Calm
  /\ removals' = removals + 1
  /\ \E r \in LiveRules : rules' = [rules EXCEPT ![r].state = "deleted"]
  /\ UNCHANGED <<store, queued, timer, fn, pc, local, switched, changes, faults, crashes, staleReads>>

\* Mutant: a deletion is not noticed before the object is gone.
Wakes_NotDeleting(old, new) == ~ new.stored \/ old.gen # new.gen

\* functionEventTriggerPrimaryPredicate: a write of the status or of the
\* finalizer does not wake the controller.
Wakes(old, new) ==
  ~ new.stored \/ old.gen # new.gen \/ old.deleting # new.deleting

DeliverWatch ==
  /\ watch # <<>>
  /\ cache' = Head(watch) /\ watch' = Tail(watch)
  /\ queued' = (queued \/ Wakes(cache, Head(watch)))
  /\ UNCHANGED <<trigger, timer, fn, rules, pc, local, switched, bounds>>

TimerFires ==
  /\ timer
  /\ timer' = FALSE /\ queued' = TRUE
  /\ UNCHANGED <<store, fn, rules, pc, local, switched, bounds>>

\* The process dies; the new one lists every object and enqueues it.
Crash ==
  /\ crashes < MaxCrashes /\ Calm
  /\ crashes' = crashes + 1
  /\ cache' = trigger /\ watch' = <<>> /\ queued' = TRUE /\ timer' = FALSE
  /\ Return
  /\ UNCHANGED <<trigger, fn, rules, switched, changes, removals, faults, staleReads>>
-----------------------------------------------------------------------------
(* The reconciler: what it reads decides what it does.                     *)

TakeKey ==
  /\ pc = "idle" /\ queued
  /\ queued' = FALSE
  /\ watch # <<>> => staleReads < MaxStaleReads /\ Calm
  /\ staleReads' = IF watch = <<>> THEN staleReads ELSE staleReads + 1
  /\ UNCHANGED <<store, timer, fn, rules, switched, changes, removals, faults, crashes>>

NothingToDo ==
  /\ ~ cache.stored \/ (cache.deleting /\ ~ cache.final)
  /\ TakeKey
  /\ UNCHANGED <<pc, local>>

\* The reconcile goes on to write w and, when that went through, to return r.
Decide(w, r) ==
  /\ pc' = "write" /\ snap' = cache
  /\ next' = w /\ result' = r
  /\ target' = NoFunction /\ found' = NoRule

\* The reconcile goes on to OCI, to do what label says.
CallOCI(label) ==
  /\ pc' = label /\ snap' = cache /\ target' = fn
  /\ UNCHANGED <<found, next, result>>

\* Mutant: the status is built anew, without the rule.
Observed_NoRule(obj, phase, r) == [phase |-> phase, observed |-> obj.gen]

Observed(obj, phase, r) == [phase |-> phase, observed |-> obj.gen, rule |-> r]

BeingDeleted(obj) == obj.stored /\ obj.deleting /\ obj.final

\* reconcileDelete, when there is a rule to delete first.
StartDeleteRule ==
  /\ BeingDeleted(cache)
  /\ cache.spec.policy = "Delete" /\ cache.status.rule # NoRule
  /\ TakeKey
  /\ CallOCI("delete")

\* reconcileDelete, when there is none, or it is to be kept.
StartRemoveFinalizer ==
  /\ BeingDeleted(cache)
  /\ cache.spec.policy = "Retain" \/ cache.status.rule = NoRule
  /\ TakeKey
  /\ Decide([final |-> FALSE, status |-> cache.status], "done")

\* A spec that cannot be served: the rule that may be there is left alone.
StartRejected ==
  /\ cache.stored /\ ~ cache.deleting
  /\ \/ cache.spec.mode = "mixed"
     \/ cache.spec.mode = "oci" /\ cache.spec.health = "incomplete"
     \/ cache.spec.mode = "oci" /\ cache.spec.health = "badCondition" /\ cache.final
  /\ TakeKey
  /\ Decide([final |-> cache.final,
             status |-> Observed(cache, "Error", cache.status.rule)], "done")

\* A trigger that routes FunctionEvents needs no finalizer and has no rule.
StartRoute ==
  /\ cache.stored /\ ~ cache.deleting /\ cache.spec.mode = "functionevent"
  /\ TakeKey
  /\ IF cache.final
     THEN Decide([final |-> FALSE, status |-> cache.status], "requeue")
     ELSE Decide([final |-> FALSE, status |-> Observed(cache, "Ready", NoRule)], "done")

ServesRule(obj) ==
  /\ obj.stored /\ ~ obj.deleting
  /\ obj.spec.mode = "oci" /\ obj.spec.health # "incomplete"

\* Mutant: the rule is created before there is a finalizer to delete it.
NeedsFinalizer_Never(obj) == FALSE

NeedsFinalizer(obj) == ~ obj.final

StartAddFinalizer ==
  /\ ServesRule(cache) /\ NeedsFinalizer(cache)
  /\ TakeKey
  /\ Decide([final |-> TRUE, status |-> cache.status], "requeue")

StartWaiting ==
  /\ ServesRule(cache) /\ ~ NeedsFinalizer(cache) /\ cache.spec.health = "ok"
  /\ fn = NoFunction
  /\ TakeKey
  /\ Decide([final |-> cache.final,
             status |-> Observed(cache, "Pending", cache.status.rule)], "timer")

StartEnsureRule ==
  /\ ServesRule(cache) /\ ~ NeedsFinalizer(cache) /\ cache.spec.health = "ok"
  /\ fn # NoFunction
  /\ TakeKey
  /\ CallOCI("find")
-----------------------------------------------------------------------------
(* EnsureRule and DeleteRule, one OCI call at a time.                      *)

oci == <<store, queued, timer, fn, switched, changes, removals, crashes, staleReads>>

Desired == [want |-> snap.spec.want, fn |-> target]

\* The status to write after EnsureRule: r is the rule its answer names, and
\* a rule that is not active yet is looked at again later.
Settle(r, active) ==
  /\ pc' = "write"
  /\ next' = [final |-> snap.final,
              status |-> Observed(snap, IF active THEN "Ready" ELSE "Pending", r)]
  /\ result' = IF active THEN "done" ELSE "timer"
  /\ UNCHANGED <<snap, target, found>>

\* The status to write after an error whose answer names rule r.
Fail(r) ==
  /\ pc' = "write"
  /\ next' = [final |-> snap.final, status |-> Observed(snap, "Error", r)]
  /\ result' = "timer"
  /\ UNCHANGED <<snap, target, found>>

Fault == faults < MaxFaults /\ Calm /\ faults' = faults + 1

\* Mutant: rules are not looked up by their tags.
Candidates_ById == LiveRules \intersect {snap.status.rule}

\* The rules findRule may return: the recorded one, else one with the tags.
Candidates ==
  IF snap.status.rule \in LiveRules THEN {snap.status.rule}
  ELSE {r \in LiveRules : rules[r].comp = snap.spec.comp}

\* Mutant: a change of the Function is no reason to update the rule.
NeedsUpdate_NotFunction(r) == rules[r].content.want # Desired.want

NeedsUpdate(r) == rules[r].content # Desired

FindRule ==
  /\ pc = "find"
  /\ \/ \E r \in Candidates :
          IF NeedsUpdate(r)
          THEN /\ pc' = "update" /\ found' = r
               /\ UNCHANGED <<snap, target, next, result>>
          ELSE Settle(r, rules[r].state = "active")
     \/ /\ Candidates = {}
        /\ pc' = "create" /\ UNCHANGED local
  /\ UNCHANGED <<oci, rules, faults>>

\* A get or a list fails: the error names no rule.
FindFails ==
  /\ pc = "find"
  /\ Fault /\ Fail(NoRule)
  /\ UNCHANGED <<oci, rules>>

\* OCI may answer before it has finished.
Create(r, st) ==
  /\ rules[r].state = "unborn"
  /\ \A q \in RuleIDs : rules[q].state = "unborn" => r <= q
  /\ rules' = [rules EXCEPT ![r] =
       [state |-> st, comp |-> snap.spec.comp, content |-> Desired]]

CreateRule ==
  /\ pc = "create"
  /\ \E r \in RuleIDs, st \in Newborn : Create(r, st) /\ Settle(r, st = "active")
  /\ UNCHANGED <<oci, faults>>

\* The create is refused, or it went through and its reply is lost.
CreateFails ==
  /\ pc = "create"
  /\ Fault /\ Fail(NoRule)
  /\ UNCHANGED rules \/ \E r \in RuleIDs, st \in Newborn : Create(r, st)
  /\ UNCHANGED oci

Update == rules' = [rules EXCEPT ![found].content = Desired]

UpdateRule ==
  /\ pc = "update" /\ Live(found)
  /\ Update /\ Settle(found, rules[found].state = "active")
  /\ UNCHANGED <<oci, faults>>

\* The update is refused, its reply is lost, or the rule is not there any more.
UpdateFails ==
  /\ pc = "update"
  /\ Fail(found)
  /\ \/ Fault /\ (UNCHANGED rules \/ (Live(found) /\ Update))
     \/ ~ Live(found) /\ UNCHANGED <<rules, faults>>
  /\ UNCHANGED oci

Erase == rules' = IF Live(snap.status.rule)
                  THEN [rules EXCEPT ![snap.status.rule].state = "deleted"] ELSE rules

\* A rule that is not there any more counts as deleted.
DeleteRule ==
  /\ pc = "delete"
  /\ Erase
  /\ pc' = "write"
  /\ next' = [final |-> FALSE, status |-> snap.status] /\ result' = "done"
  /\ UNCHANGED <<oci, snap, target, found, faults>>

\* Mutant: the finalizer goes although the rule could not be deleted.
DeleteFailsThen_Finalize ==
  /\ pc' = "write"
  /\ next' = [final |-> FALSE, status |-> snap.status] /\ result' = "done"
  /\ UNCHANGED <<timer, snap, target, found>>

\* Nothing is written; the deletion is tried again later.
DeleteFailsThen == Return /\ timer' = TRUE

DeleteFails ==
  /\ pc = "delete"
  /\ Fault
  /\ UNCHANGED rules \/ Erase
  /\ DeleteFailsThen
  /\ UNCHANGED <<store, queued, fn, switched, changes, removals, crashes, staleReads>>
-----------------------------------------------------------------------------
(* The write at the end.                                                   *)

Unchanged == next = [final |-> snap.final, status |-> snap.status]

\* Update and Status().Update carry the resourceVersion that was read.
WriteAccepted == trigger.stored /\ trigger.rv = snap.rv

\* A finished reconcile asks for another one at once, later, or not at all.
Requeue ==
  /\ queued' = (queued \/ result = "requeue")
  /\ timer' = (timer \/ result = "timer")

SkipWrite ==
  /\ pc = "write" /\ Unchanged
  /\ Requeue /\ Return
  /\ UNCHANGED <<store, fn, rules, switched, bounds>>

\* A deleted object goes with its last finalizer.
Write ==
  /\ pc = "write" /\ ~ Unchanged
  /\ WriteAccepted
  /\ Publish([[trigger EXCEPT !.final = next.final, !.status = next.status] EXCEPT
                !.stored = next.final \/ ~ trigger.deleting])
  /\ Requeue /\ Return
  /\ UNCHANGED <<fn, rules, switched, bounds>>

\* A conflict, or the object is gone: the error requeues the key.
WriteRefused ==
  /\ pc = "write" /\ ~ Unchanged
  /\ ~ WriteAccepted
  /\ queued' = TRUE
  /\ Return
  /\ UNCHANGED <<store, timer, fn, rules, switched, bounds>>
-----------------------------------------------------------------------------
Environment ==
  EditSpec \/ DeleteTrigger \/ FunctionChanges \/ RuleRemoved \/ Crash

Controller ==
  \/ NothingToDo \/ StartDeleteRule \/ StartRemoveFinalizer \/ StartRejected
  \/ StartRoute \/ StartAddFinalizer \/ StartWaiting \/ StartEnsureRule
  \/ FindRule \/ FindFails \/ CreateRule \/ CreateFails
  \/ UpdateRule \/ UpdateFails \/ DeleteRule \/ DeleteFails
  \/ SkipWrite \/ Write \/ WriteRefused

Next == Environment \/ RuleBecomesActive \/ DeliverWatch \/ TimerFires \/ Controller

Spec == Init /\ [][Next]_vars

\* The workqueue and the informer always get to run again, a timer that was
\* set comes due, and OCI finishes the rules it creates.  Every step of the
\* controller takes the key from the queue or moves on.
Fairness ==
  /\ WF_<<pc, queued>>(Controller) /\ WF_watch(DeliverWatch) /\ WF_timer(TimerFires)
  /\ WF_rules(RuleBecomesActive)

FairSpec == Spec /\ Fairness
-----------------------------------------------------------------------------
(* What the controller promises.                                           *)

\* Every variable holds a value of its type.
TypeOK ==
  /\ {trigger, cache, snap} \subseteq Object
  /\ watch \in Seq(Object)
  /\ {queued, timer, switched} \subseteq BOOLEAN
  /\ {fn, target} \subseteq Functions \union {NoFunction}
  /\ rules \in [RuleIDs -> Rule]
  /\ pc \in {"idle", "find", "create", "update", "delete", "write"}
  /\ found \in RuleIDs \union {NoRule} /\ next \in Written
  /\ result \in {"done", "timer", "requeue"}
  /\ changes \in 0 .. MaxChanges /\ removals \in 0 .. MaxRemovals /\ faults \in 0 .. MaxFaults
  /\ crashes \in 0 .. MaxCrashes /\ staleReads \in 0 .. MaxStaleReads

\* A trigger never has two live rules in a compartment, whatever crashed, was
\* refused, lost its reply or was read late between a rule and its record.
AtMostOneRule ==
  \A r, s \in LiveRules : rules[r].comp = rules[s].comp => r = s

\* While there is a live rule, recorded or not, the object has its finalizer,
\* so that it cannot go without reconcileDelete; only a trigger that once
\* routed FunctionEvents may lose it.
RuleIsGuarded ==
  trigger.stored /\ LiveRules # {} /\ ~ switched => trigger.final

\* An object whose policy is Delete goes away only after the rule it records.
RecordedRuleDeleted ==
  [][trigger.stored /\ ~ trigger'.stored /\ trigger.spec.policy = "Delete" /\ ~ switched
       => trigger.status.rule \notin LiveRules]_vars

\* No rule outlives a trigger whose policy is Delete.
NoRuleLeftBehind ==
  ~ trigger.stored /\ trigger.spec.policy = "Delete" => LiveRules = {}

Served ==
  /\ trigger.status.observed = trigger.gen
  /\ trigger.status.phase = "Ready"
  /\ trigger.status.rule \in LiveRules
  /\ rules[trigger.status.rule].content = [want |-> trigger.spec.want, fn |-> fn]

\* If the Function settles, a trigger that can be served gets, and keeps, a
\* rule with exactly its condition and Function, and reports it Ready: no
\* wake-up is lost.  Two are in the code, and excluded: nothing watches OCI, so
\* nothing tells that a rule was removed; and a reconcile that starts from a
\* lagging cache may find the status it computes in it already, written before
\* the edit, and end without a write that would conflict.
EventuallyServed ==
  \A f \in Functions : <>[](fn = f /\ removals = 0 /\ staleReads = 0) =>
    <>[](trigger.spec.health = "ok" /\ trigger.spec.mode = "oci"
           /\ trigger.stored /\ ~ trigger.deleting => Served)

\* A trigger that is being deleted goes away, however often OCI fails first.
DeletionCompletes == trigger.deleting ~> ~ trigger.stored
=============================================================================
