------------------------- MODULE EventTriggerProofs -------------------------
(***************************************************************************)
(* Theorems about EventTrigger, for every value of its constants.          *)
(*                                                                         *)
(* The invariant behind them says what each holder of a version of the     *)
(* trigger can know (ViewOK), and what a reconcile has made sure of when    *)
(* it comes to an OCI call or to its write (ReconcileOK).                  *)
(***************************************************************************)
EXTENDS EventTrigger, TLAPS
-----------------------------------------------------------------------------
(* Type correctness.                                                       *)

Bounds ==
  /\ changes \in 0 .. MaxChanges /\ removals \in 0 .. MaxRemovals /\ faults \in 0 .. MaxFaults
  /\ crashes \in 0 .. MaxCrashes /\ staleReads \in 0 .. MaxStaleReads

LEMMA ConstantsOK ==
  /\ MaxRules \in Nat /\ MaxChanges \in Nat /\ MaxRemovals \in Nat /\ MaxFaults \in Nat
  /\ MaxCrashes \in Nat /\ MaxStaleReads \in Nat
  /\ NoRule \notin RuleIDs /\ 1 \in RuleIDs
BY TriggerAssumption DEF NoRule, RuleIDs

LEMMA SpecsOK ==
  ASSUME NEW s \in Specs
  PROVE  /\ s.mode \in Modes /\ s.comp \in Compartments /\ s.want \in Wants
         /\ s.policy \in Policies
BY TriggerAssumption DEF TriggerSpec

LEMMA ObjectFields ==
  ASSUME NEW o \in Object
  PROVE  /\ o.stored \in BOOLEAN /\ o.deleting \in BOOLEAN /\ o.final \in BOOLEAN
         /\ o.rv \in Nat /\ o.gen \in Nat /\ o.spec \in Specs /\ o.status \in Status
         /\ o.status.rule \in RuleIDs \union {NoRule}
BY DEF Object, Status

LEMMA NothingOK == NoObject \in Object /\ Nothing \in Written /\ Unborn \in Rule
<1>1. SomeSpec \in Specs
  BY TriggerAssumption DEF SomeSpec
<1>2. NoStatus \in Status
  BY DEF NoStatus, Status
<1>3. QED
  BY <1>1, <1>2, SpecsOK DEF NoObject, Object, Nothing, Written, Unborn, Rule, Content

LEMMA ObservedOK ==
  ASSUME NEW o \in Object, NEW phase \in {"", "Pending", "Ready", "Error"},
         NEW r \in RuleIDs \union {NoRule}
  PROVE  Observed(o, phase, r) \in Status
BY ObjectFields DEF Observed, Status

\* A rule that changes its state, or its content; what is no rule does not change.
LEMMA StateChanges ==
  ASSUME NEW r, NEW old \in [RuleIDs -> Rule],
         NEW st \in {"unborn", "creating", "active", "deleted"}
  PROVE  /\ [old EXCEPT ![r].state = st] \in [RuleIDs -> Rule]
         /\ \A q \in RuleIDs :
              /\ [old EXCEPT ![r].state = st][q].comp = old[q].comp
              /\ q # r => [old EXCEPT ![r].state = st][q] = old[q]
              /\ q = r => [old EXCEPT ![r].state = st][q].state = st
<1>1. ASSUME NEW q \in RuleIDs
      PROVE  /\ [old[q] EXCEPT !.state = st] \in Rule
             /\ [old[q] EXCEPT !.state = st].comp = old[q].comp
             /\ [old[q] EXCEPT !.state = st].state = st
  BY DEF Rule
<1>2. ASSUME NEW q \in RuleIDs
      PROVE  [old EXCEPT ![r].state = st][q] =
               IF q = r THEN [old[q] EXCEPT !.state = st] ELSE old[q]
  OBVIOUS
<1>3. QED
  BY <1>1, <1>2

LEMMA Deletion ==
  ASSUME NEW r, NEW old \in [RuleIDs -> Rule]
  PROVE  /\ [old EXCEPT ![r].state = "deleted"] \in [RuleIDs -> Rule]
         /\ \A q \in RuleIDs :
              /\ [old EXCEPT ![r].state = "deleted"][q].comp = old[q].comp
              /\ q # r => [old EXCEPT ![r].state = "deleted"][q] = old[q]
              /\ q = r => [old EXCEPT ![r].state = "deleted"][q].state = "deleted"
<1>1. ASSUME NEW q \in RuleIDs
      PROVE  /\ [old[q] EXCEPT !.state = "deleted"] \in Rule
             /\ [old[q] EXCEPT !.state = "deleted"].comp = old[q].comp
             /\ [old[q] EXCEPT !.state = "deleted"].state = "deleted"
  BY DEF Rule
<1>2. ASSUME NEW q \in RuleIDs
      PROVE  [old EXCEPT ![r].state = "deleted"][q] =
               IF q = r THEN [old[q] EXCEPT !.state = "deleted"] ELSE old[q]
  OBVIOUS
<1>3. QED
  BY <1>1, <1>2

LEMMA ContentChanges ==
  ASSUME NEW r, NEW old \in [RuleIDs -> Rule], NEW x \in Content
  PROVE  /\ [old EXCEPT ![r].content = x] \in [RuleIDs -> Rule]
         /\ \A q \in RuleIDs : /\ [old EXCEPT ![r].content = x][q].comp = old[q].comp
                               /\ [old EXCEPT ![r].content = x][q].state = old[q].state
<1>1. ASSUME NEW q \in RuleIDs
      PROVE  /\ [old[q] EXCEPT !.content = x] \in Rule
             /\ [old[q] EXCEPT !.content = x].comp = old[q].comp
             /\ [old[q] EXCEPT !.content = x].state = old[q].state
  BY DEF Rule
<1>2. ASSUME NEW q \in RuleIDs
      PROVE  [old EXCEPT ![r].content = x][q] =
               IF q = r THEN [old[q] EXCEPT !.content = x] ELSE old[q]
  OBVIOUS
<1>3. QED
  BY <1>1, <1>2

LEMMA PublishType ==
  ASSUME TypeOK, NEW obj \in Object, Publish(obj)
  PROVE  trigger' \in Object /\ cache' \in Object /\ watch' \in Seq(Object)
<1>1. trigger' = [obj EXCEPT !.rv = trigger.rv + 1] /\ trigger.rv + 1 \in Nat
  BY ObjectFields DEF Publish, TypeOK
<1>2. trigger' \in Object
  BY <1>1 DEF Object
<1>3. QED
  BY <1>2 DEF Publish, TypeOK

\* The local state of a reconcile has its type.
LocalType ==
  /\ snap \in Object /\ target \in Functions \union {NoFunction}
  /\ found \in RuleIDs \union {NoRule} /\ next \in Written
  /\ result \in {"done", "timer", "requeue"}
  /\ pc \in {"idle", "find", "create", "update", "delete", "write"}

StoreType == trigger \in Object /\ cache \in Object /\ watch \in Seq(Object)

WorldType ==
  /\ queued \in BOOLEAN /\ timer \in BOOLEAN /\ switched \in BOOLEAN
  /\ fn \in Functions \union {NoFunction} /\ rules \in [RuleIDs -> Rule]

LEMMA TypeParts ==
  /\ TypeOK => StoreType /\ WorldType /\ LocalType /\ Bounds
  /\ StoreType' /\ WorldType' /\ LocalType' /\ Bounds' => TypeOK'
BY DEF TypeOK, StoreType, WorldType, LocalType, Bounds

LEMMA ReturnType ==
  ASSUME Return
  PROVE  LocalType'
BY NothingOK DEF Return, LocalType

LEMMA TakeType ==
  ASSUME TypeOK, TakeKey
  PROVE  StoreType' /\ WorldType' /\ Bounds'
<1>1. staleReads' \in 0 .. MaxStaleReads
  BY ConstantsOK DEF TakeKey, TypeOK
<1>2. QED
  BY <1>1 DEF TakeKey, TypeOK, store, StoreType, WorldType, Bounds

LEMMA DecideType ==
  ASSUME TypeOK, NEW w \in Written, NEW r \in {"done", "timer", "requeue"}, Decide(w, r)
  PROVE  LocalType'
BY DEF Decide, TypeOK, LocalType

LEMMA CallType ==
  ASSUME TypeOK, NEW label \in {"find", "delete"}, CallOCI(label)
  PROVE  LocalType'
BY DEF CallOCI, TypeOK, LocalType

\* A reconcile that has started, and what it goes on with.
LEMMA StartType ==
  ASSUME TypeOK,
         NothingToDo \/ StartDeleteRule \/ StartRemoveFinalizer \/ StartRejected
           \/ StartRoute \/ StartAddFinalizer \/ StartWaiting \/ StartEnsureRule
  PROVE  TypeOK'
<1> DEFINE W(final, status) == [final |-> final, status |-> status]
<1>1. /\ cache \in Object /\ cache.final \in BOOLEAN /\ cache.status \in Status
      /\ cache.status.rule \in RuleIDs \union {NoRule}
  BY ObjectFields DEF TypeOK
<1>2. ASSUME NEW final \in BOOLEAN, NEW phase \in {"Pending", "Ready", "Error"},
             NEW r \in RuleIDs \union {NoRule}
      PROVE  W(final, cache.status) \in Written /\ W(final, Observed(cache, phase, r)) \in Written
  BY <1>1, ObservedOK DEF Written
<1>3. TakeKey
  BY DEF NothingToDo, StartDeleteRule, StartRemoveFinalizer, StartRejected, StartRoute,
         StartAddFinalizer, StartWaiting, StartEnsureRule
<1>4. NothingToDo => LocalType'
  BY DEF NothingToDo, local, TypeOK, LocalType
<1>5. StartDeleteRule => LocalType'
  BY CallType DEF StartDeleteRule
<1>6. StartRemoveFinalizer => LocalType'
  BY <1>1, <1>2, DecideType DEF StartRemoveFinalizer
<1>7. StartRejected => LocalType'
  BY <1>1, <1>2, DecideType DEF StartRejected
<1>8. StartRoute => LocalType'
  BY <1>1, <1>2, DecideType DEF StartRoute
<1>9. StartAddFinalizer => LocalType'
  BY <1>1, <1>2, DecideType DEF StartAddFinalizer
<1>10. StartWaiting => LocalType'
  BY <1>1, <1>2, DecideType DEF StartWaiting
<1>11. StartEnsureRule => LocalType'
  BY CallType DEF StartEnsureRule
<1>12. LocalType'
  BY <1>4, <1>5, <1>6, <1>7, <1>8, <1>9, <1>10, <1>11
<1>13. QED
  BY <1>3, <1>12, TakeType, TypeParts

\* The environment, OCI and the informer.
LEMMA WorldStepType ==
  ASSUME TypeOK,
         EditSpec \/ DeleteTrigger \/ FunctionChanges \/ RuleBecomesActive \/ RuleRemoved
           \/ Crash \/ DeliverWatch \/ TimerFires
  PROVE  TypeOK'
<1> USE TypeParts
<1>1. trigger \in Object /\ trigger.gen \in Nat /\ trigger.gen + 1 \in Nat
  BY ObjectFields DEF TypeOK
<1>2. CASE EditSpec
  <2>1. PICK s \in Specs : /\ Publish([trigger EXCEPT !.spec = s, !.gen = @ + 1])
                          /\ switched' = (switched \/ s.mode = "functionevent")
    BY <1>2 DEF EditSpec
  <2>2. [trigger EXCEPT !.spec = s, !.gen = @ + 1] \in Object
    <3>1. [trigger EXCEPT !.spec = s] \in Object
      BY <1>1 DEF Object
    <3>2. [[trigger EXCEPT !.spec = s] EXCEPT !.gen = trigger.gen + 1] \in Object
      BY <1>1, <3>1 DEF Object
    <3>3. [trigger EXCEPT !.spec = s, !.gen = @ + 1] =
            [[trigger EXCEPT !.spec = s] EXCEPT !.gen = trigger.gen + 1]
      BY <1>1, Zenon DEF Object
    <3>4. QED
      BY <3>2, <3>3
  <2>3. StoreType'
    BY <2>1, <2>2, PublishType DEF StoreType
  <2>4. WorldType' /\ LocalType' /\ Bounds'
    BY <1>2, <2>1 DEF EditSpec, local, bounds, TypeOK, WorldType, LocalType, Bounds
  <2>5. QED
    BY <2>3, <2>4
<1>3. CASE DeleteTrigger
  <2>1. [trigger EXCEPT !.deleting = TRUE] \in Object /\ [trigger EXCEPT !.stored = FALSE] \in Object
    BY <1>1 DEF Object
  <2>2. StoreType'
    BY <1>3, <2>1, PublishType DEF DeleteTrigger, StoreType
  <2>3. WorldType' /\ LocalType' /\ Bounds'
    BY <1>3 DEF DeleteTrigger, local, bounds, TypeOK, WorldType, LocalType, Bounds
  <2>4. QED
    BY <2>2, <2>3
<1>4. CASE FunctionChanges
  <2>1. changes' \in 0 .. MaxChanges
    BY <1>4, ConstantsOK DEF FunctionChanges, TypeOK
  <2>2. QED
    BY <1>4, <2>1 DEF FunctionChanges, store, local, TypeOK
<1>5. CASE RuleBecomesActive
  <2>1. PICK r \in RuleIDs : rules' = [rules EXCEPT ![r].state = "active"]
    BY <1>5 DEF RuleBecomesActive
  <2>2. rules' \in [RuleIDs -> Rule]
    BY <2>1, StateChanges, Zenon DEF TypeOK
  <2>3. QED
    BY <1>5, <2>2 DEF RuleBecomesActive, store, local, bounds, TypeOK
<1>6. CASE RuleRemoved
  <2>1. rules' \in [RuleIDs -> Rule]
    <3>1. PICK r \in LiveRules : rules' = [rules EXCEPT ![r].state = "deleted"]
      BY <1>6 DEF RuleRemoved
    <3>2. QED
      BY <3>1, StateChanges, Zenon DEF TypeOK
  <2>2. removals' \in 0 .. MaxRemovals
    BY <1>6, ConstantsOK DEF RuleRemoved, TypeOK
  <2>3. QED
    BY <1>6, <2>1, <2>2 DEF RuleRemoved, store, local, TypeOK
<1>7. CASE Crash
  <2>1. crashes' \in 0 .. MaxCrashes
    BY <1>7, ConstantsOK DEF Crash, TypeOK
  <2>2. WorldType' /\ LocalType' /\ Bounds'
    BY <1>7, <2>1, ReturnType DEF Crash, TypeOK, WorldType, Bounds
  <2>3. StoreType'
    BY <1>7 DEF Crash, TypeOK, StoreType
  <2>4. QED
    BY <2>2, <2>3
<1>8. CASE DeliverWatch
  <2>1. cache' \in Object /\ watch' \in Seq(Object)
    BY <1>8 DEF DeliverWatch, TypeOK
  <2>2. QED
    BY <1>8, <2>1 DEF DeliverWatch, local, bounds, TypeOK
<1>9. CASE TimerFires
  BY <1>9 DEF TimerFires, store, local, bounds, TypeOK
<1>10. QED
  BY <1>2, <1>3, <1>4, <1>5, <1>6, <1>7, <1>8, <1>9

\* What the reconcile will write is made of what it read and of a rule it knows.
LEMMA SettleType ==
  ASSUME TypeOK, NEW r \in RuleIDs \union {NoRule},
         (\E active \in BOOLEAN : Settle(r, active)) \/ Fail(r)
  PROVE  LocalType'
<1>1. snap \in Object /\ snap.final \in BOOLEAN
  BY ObjectFields DEF TypeOK
<1>2. ASSUME NEW phase \in {"Pending", "Ready", "Error"}
      PROVE  [final |-> snap.final, status |-> Observed(snap, phase, r)] \in Written
  BY <1>1, ObservedOK DEF Written
<1>3. QED
  BY <1>2 DEF Settle, Fail, TypeOK, LocalType

LEMMA DesiredOK == TypeOK => Desired \in Content
BY ObjectFields, SpecsOK DEF Desired, Content, TypeOK

\* The calls to OCI.
LEMMA CallStepType ==
  ASSUME TypeOK,
         FindRule \/ FindFails \/ CreateRule \/ CreateFails \/ UpdateRule \/ UpdateFails
           \/ DeleteRule \/ DeleteFails
  PROVE  TypeOK'
<1> USE TypeParts
<1>1. Fault => faults' \in 0 .. MaxFaults
  BY ConstantsOK DEF Fault, TypeOK
<1>2. /\ snap \in Object /\ snap.status \in Status /\ snap.spec.comp \in Compartments
      /\ snap.status.rule \in RuleIDs \union {NoRule}
  BY ObjectFields, SpecsOK DEF TypeOK
<1>3. ASSUME NEW r \in RuleIDs, NEW st \in Newborn, Create(r, st)
      PROVE  rules' \in [RuleIDs -> Rule]
  <2>1. [state |-> st, comp |-> snap.spec.comp, content |-> Desired] \in Rule
    BY <1>2, DesiredOK DEF Rule, Newborn
  <2>2. QED
    BY <1>3, <2>1 DEF Create, TypeOK
<1>4. Update => rules' \in [RuleIDs -> Rule]
  BY ContentChanges, DesiredOK DEF Update, TypeOK
<1>5. Erase => rules' \in [RuleIDs -> Rule]
  <2>1. CASE rules' = rules
    BY <2>1 DEF TypeOK
  <2>2. CASE rules' = [rules EXCEPT ![snap.status.rule].state = "deleted"]
    BY <2>2, StateChanges, Zenon DEF TypeOK
  <2>3. QED
    BY <2>1, <2>2 DEF Erase
<1>6. UNCHANGED rules => rules' \in [RuleIDs -> Rule]
  BY DEF TypeOK
<1>7. rules' \in [RuleIDs -> Rule] /\ (faults' \in 0 .. MaxFaults \/ UNCHANGED faults)
  BY <1>1, <1>3, <1>4, <1>5, <1>6
     DEF FindRule, FindFails, CreateRule, CreateFails, UpdateRule, UpdateFails, DeleteRule,
         DeleteFails
<1>8. /\ UNCHANGED <<store, queued, fn, switched, changes, removals, crashes, staleReads>>
      /\ UNCHANGED timer \/ timer' = TRUE
  BY DEF oci, FindRule, FindFails, CreateRule, CreateFails, UpdateRule, UpdateFails, DeleteRule,
         DeleteFails, DeleteFailsThen
<1>9. StoreType' /\ WorldType' /\ Bounds'
  BY <1>7, <1>8 DEF store, TypeOK, StoreType, WorldType, Bounds
<1>10. FindRule => LocalType'
  <2>1. ASSUME NEW r \in Candidates, pc' = "update", found' = r, UNCHANGED <<snap, target, next, result>>
        PROVE  LocalType'
    BY <1>2, <2>1 DEF TypeOK, LocalType, Candidates, LiveRules
  <2>2. ASSUME NEW r \in Candidates, Settle(r, rules[r].state = "active")
        PROVE  LocalType'
    <3>1. r \in RuleIDs /\ (rules[r].state = "active") \in BOOLEAN
      BY DEF Candidates, LiveRules
    <3>2. QED
      BY <2>2, <3>1, SettleType
  <2>3. pc' = "create" /\ UNCHANGED local => LocalType'
    BY DEF local, TypeOK, LocalType
  <2>4. QED
    BY <2>1, <2>2, <2>3 DEF FindRule
<1>11. FindFails \/ CreateFails => LocalType'
  BY SettleType DEF FindFails, CreateFails
<1>12. CreateRule => LocalType'
  <2>1. ASSUME NEW r \in RuleIDs, NEW st \in Newborn, Settle(r, st = "active") PROVE LocalType'
    <3>1. (st = "active") \in BOOLEAN
      OBVIOUS
    <3>2. QED
      BY <2>1, <3>1, SettleType
  <2>2. QED
    BY <2>1 DEF CreateRule
<1>13. UpdateRule => LocalType'
  <2>1. found \in RuleIDs \union {NoRule} /\ (rules[found].state = "active") \in BOOLEAN
    BY DEF TypeOK
  <2>2. QED
    BY <2>1, SettleType DEF UpdateRule
<1>14. UpdateFails => LocalType'
  BY SettleType DEF UpdateFails, TypeOK
<1>15. DeleteRule => LocalType'
  <2>1. [final |-> FALSE, status |-> snap.status] \in Written
    BY <1>2 DEF Written
  <2>2. QED
    BY <2>1 DEF DeleteRule, TypeOK, LocalType
<1>16. DeleteFails => LocalType'
  BY ReturnType DEF DeleteFails, DeleteFailsThen
<1>17. LocalType'
  BY <1>10, <1>11, <1>12, <1>13, <1>14, <1>15, <1>16
<1>18. QED
  BY <1>9, <1>17

\* The end of a reconcile.
LEMMA WriteStepType ==
  ASSUME TypeOK, SkipWrite \/ Write \/ WriteRefused
  PROVE  TypeOK'
<1>1. LocalType'
  BY ReturnType DEF SkipWrite, Write, WriteRefused
<1>2. WorldType' /\ Bounds'
  BY DEF SkipWrite, Write, WriteRefused, Requeue, bounds, TypeOK, WorldType, Bounds
<1>3. StoreType'
  <2>1. CASE Write
    <3>1. /\ trigger \in Object /\ next.final \in BOOLEAN /\ next.status \in Status
          /\ (next.final \/ ~ trigger.deleting) \in BOOLEAN
      BY DEF TypeOK, Written
    <3>2. [[trigger EXCEPT !.final = next.final, !.status = next.status] EXCEPT
             !.stored = next.final \/ ~ trigger.deleting] \in Object
      BY <3>1 DEF Object
    <3>3. QED
      BY <2>1, <3>2, PublishType DEF Write, StoreType
  <2>2. CASE SkipWrite \/ WriteRefused
    BY <2>2 DEF SkipWrite, WriteRefused, store, TypeOK, StoreType
  <2>3. QED
    BY <2>1, <2>2
<1>4. QED
  BY <1>1, <1>2, <1>3, TypeParts

LEMMA TypeStep == TypeOK /\ [Next]_vars => TypeOK'
<1>1. TypeOK /\ UNCHANGED vars => TypeOK'
  BY DEF vars, TypeOK
<1>2. QED
  BY <1>1, StartType, WorldStepType, CallStepType, WriteStepType DEF Next, Environment, Controller

LEMMA TypeInit == Init => TypeOK
<1> SUFFICES ASSUME Init PROVE TypeOK
  OBVIOUS
<1>1. trigger \in Object
  BY NothingOK DEF Init, Object, NoObject
<1>2. StoreType /\ LocalType
  BY <1>1, NothingOK DEF Init, StoreType, LocalType
<1>3. rules \in [RuleIDs -> Rule] /\ switched \in BOOLEAN
  BY NothingOK DEF Init
<1>4. WorldType
  BY <1>3 DEF Init, WorldType
<1>5. changes = 0 /\ removals = 0 /\ faults = 0 /\ crashes = 0 /\ staleReads = 0
  BY DEF Init
<1>6. Bounds
  BY <1>5, ConstantsOK DEF Bounds
<1>7. QED
  BY <1>2, <1>4, <1>6 DEF StoreType, LocalType, WorldType, Bounds, TypeOK

\* Every variable always holds a value of its type.
THEOREM TypeCorrect == Spec => []TypeOK
BY TypeInit, TypeStep, PTL DEF Spec

-----------------------------------------------------------------------------
(* The invariant.                                                          *)

Busy == pc # "idle"

\* The finalizer is there, or the trigger is one that may lose it.
Guarded == trigger.final \/ ~ trigger.stored \/ switched

\* A version that is not older than the current one is the current one: what
\* makes a conflict detect every change.
Known(o) == o.rv <= trigger.rv /\ (o.rv = trigger.rv => o = trigger)

\* A finalizer, once seen, is lost only by a trigger that routes FunctionEvents.
Seen(o) == (o.final => Guarded) /\ (o.spec.mode = "functionevent" => switched)

\* Every version of the trigger that somebody holds or will be given.
View == {trigger, cache} \union {watch[n] : n \in 1 .. Len(watch)}
        \union (IF Busy THEN {snap} ELSE {})

ViewOK == \A o \in View : Known(o) /\ Seen(o)

\* A rule is made under a finalizer, and only where there is none.
EnsureOK ==
  /\ pc \in {"find", "create", "update"} => snap.final /\ ~ snap.deleting
  /\ pc = "create" => \A r \in LiveRules : rules[r].comp # snap.spec.comp

\* The finalizer is given up by a trigger that is to go, and without the rule it
\* records, or by one that routes FunctionEvents.
WriteOK == pc = "write" =>
  /\ snap.final /\ ~ next.final => snap.deleting \/ snap.spec.mode = "functionevent"
  /\ snap.deleting /\ snap.spec.policy = "Delete" => snap.status.rule \notin LiveRules

ReconcileOK == EnsureOK /\ (pc = "delete" => snap.deleting) /\ WriteOK

Inv == TypeOK /\ ViewOK /\ ReconcileOK /\ AtMostOneRule /\ RuleIsGuarded
\* Rules go, or stay where they are; none is made.
Shrinks == \A r \in LiveRules' : r \in LiveRules /\ rules'[r].comp = rules[r].comp

\* A step that hands out no version but those in view and perhaps a new one.
LEMMA ViewStep ==
  ASSUME Inv, TypeOK', View' \subseteq View \union {trigger'},
         Guarded => Guarded', switched => switched',
         \/ trigger' = trigger
         \/ /\ trigger'.rv > trigger.rv
            /\ (trigger'.final => Guarded')
            /\ (trigger'.spec.mode = "functionevent" => switched')
  PROVE  ViewOK'
<1> SUFFICES ASSUME NEW o \in View' PROVE Known(o)' /\ Seen(o)'
  BY DEF ViewOK
<1>1. View \subseteq Object /\ trigger \in View /\ trigger' \in Object /\ trigger \in Object
  BY DEF Inv, View, TypeOK
<1>2. CASE o \in View
  <2>1. o \in Object /\ Known(o) /\ Seen(o)
    BY <1>1, <1>2 DEF Inv, ViewOK
  <2>2. o.rv \in Nat /\ trigger.rv \in Nat /\ trigger'.rv \in Nat
    BY <1>1, <2>1, ObjectFields
  <2>3. trigger' = trigger \/ trigger'.rv > trigger.rv
    OBVIOUS
  <2>4. Known(o)'
    BY <2>1, <2>2, <2>3 DEF Known
  <2>5. QED
    BY <2>1, <2>4 DEF Seen
<1>3. CASE o = trigger' /\ o \notin View
  <2>1. trigger' # trigger /\ trigger'.rv \in Nat
    BY <1>1, <1>3, ObjectFields
  <2>2. QED
    BY <1>3, <2>1 DEF Known, Seen
<1>4. QED
  BY <1>2, <1>3

\* The parts of the invariant that speak of the rules.
LEMMA RulesStep ==
  ASSUME Inv, Shrinks, Guarded => Guarded'
  PROVE  AtMostOneRule' /\ RuleIsGuarded'
BY DEF Inv, Shrinks, AtMostOneRule, RuleIsGuarded, Guarded

LEMMA ReconcileAside ==
  ASSUME Inv, Shrinks, UNCHANGED <<pc, local>>
  PROVE  ReconcileOK'
BY DEF Inv, Shrinks, local, ReconcileOK, EnsureOK, WriteOK

LEMMA ReconcileEnds ==
  ASSUME Return
  PROVE  ReconcileOK'
BY DEF Return, ReconcileOK, EnsureOK, WriteOK

\* A published version is the only one its step adds.
LEMMA PublishView ==
  ASSUME TypeOK, NEW obj, Publish(obj), UNCHANGED <<pc, snap>> \/ pc' = "idle"
  PROVE  View' \subseteq View \union {trigger'}
<1>1. watch \in Seq(Object) /\ watch' = Append(watch, trigger') /\ cache' = cache
  BY DEF Publish, TypeOK
<1>2. ASSUME NEW n \in 1 .. Len(watch')
      PROVE  watch'[n] = trigger' \/ \E m \in 1 .. Len(watch) : watch'[n] = watch[m]
  BY <1>1
<1>3. (IF Busy' THEN {snap'} ELSE {}) \subseteq (IF Busy THEN {snap} ELSE {})
  BY DEF Busy
<1>4. {watch'[n] : n \in 1 .. Len(watch')}
        \subseteq {watch[n] : n \in 1 .. Len(watch)} \union {trigger'}
  BY <1>2
<1>5. QED
  BY <1>1, <1>3, <1>4 DEF View

\* Where the object does not change, the versions are kept or dropped.
LEMMA SameView ==
  ASSUME TypeOK, trigger' = trigger, cache' \in View, watch' = watch \/ watch' = <<>>,
         Busy' => snap' \in View
  PROVE  View' \subseteq View
<1>1. {watch'[n] : n \in 1 .. Len(watch')} \subseteq {watch[n] : n \in 1 .. Len(watch)}
  OBVIOUS
<1>2. trigger' \in View
  BY DEF View
<1>3. View' = {trigger', cache'} \union {watch'[n] : n \in 1 .. Len(watch')}
              \union (IF Busy' THEN {snap'} ELSE {})
  BY DEF View
<1>4. QED
  BY <1>1, <1>2, <1>3 DEF View

LEMMA InitInv == Init => Inv
<1> SUFFICES ASSUME Init PROVE Inv
  OBVIOUS
<1>1. TypeOK /\ ~ Busy
  BY TypeInit DEF Init, Busy
<1>2. LiveRules = {}
  BY DEF Init, LiveRules, Live, Unborn, Newborn
<1>3. View = {trigger}
  BY <1>1 DEF Init, View
<1>4. trigger.rv <= trigger.rv
  BY <1>1, ObjectFields DEF TypeOK
<1>5. ~ trigger.final /\ (trigger.spec.mode = "functionevent" => switched)
  <2>1. ~ trigger.final
    BY DEF Init
  <2>2. switched = (trigger.spec.mode = "functionevent")
    BY Zenon DEF Init
  <2>3. QED
    BY <2>1, <2>2
<1>6. ViewOK
  BY <1>3, <1>4, <1>5 DEF ViewOK, Known, Seen
<1>7. ReconcileOK
  BY <1>1 DEF ReconcileOK, EnsureOK, WriteOK, Busy
<1>8. QED
  BY <1>1, <1>2, <1>6, <1>7 DEF Inv, AtMostOneRule, RuleIsGuarded
\* The environment, OCI and the informer.
LEMMA WorldStepInv ==
  ASSUME Inv, TypeOK',
         EditSpec \/ DeleteTrigger \/ FunctionChanges \/ RuleBecomesActive \/ RuleRemoved
           \/ Crash \/ DeliverWatch \/ TimerFires
  PROVE  Inv'
<1>1. TypeOK /\ trigger \in Object /\ trigger.rv \in Nat /\ trigger.rv + 1 > trigger.rv
  BY ObjectFields DEF Inv, TypeOK
<1>2. Seen(trigger)
  BY DEF Inv, ViewOK, View
<1>3. Shrinks
  <2>1. CASE rules' = rules
    BY <2>1 DEF Shrinks, LiveRules, Live
  <2>2. CASE RuleBecomesActive
    <3>1. PICK r \in RuleIDs : /\ rules[r].state = "creating"
                               /\ rules' = [rules EXCEPT ![r].state = "active"]
      BY <2>2 DEF RuleBecomesActive
    <3>2. \A q \in RuleIDs : /\ rules'[q].comp = rules[q].comp
                             /\ q # r => rules'[q] = rules[q]
      BY <1>1, <3>1 DEF TypeOK, Rule
    <3>3. r \in LiveRules
      BY <3>1 DEF LiveRules, Live, Newborn
    <3>4. QED
      BY <3>2, <3>3 DEF Shrinks, LiveRules, Live
  <2>3. CASE RuleRemoved
    <3>1. PICK r \in LiveRules : rules' = [rules EXCEPT ![r].state = "deleted"]
      BY <2>3, Zenon DEF RuleRemoved
    <3>2. \A q \in RuleIDs : /\ rules'[q].comp = rules[q].comp
                             /\ q # r => rules'[q] = rules[q]
      BY <1>1, <3>1, Deletion DEF TypeOK
    <3>3. QED
      BY <3>1, <3>2 DEF Shrinks, LiveRules, Live
  <2>4. QED
    BY <2>1, <2>2, <2>3 DEF EditSpec, DeleteTrigger, FunctionChanges, Crash, DeliverWatch, TimerFires
<1>4. ReconcileOK'
  <2>1. CASE Crash
    BY <2>1, ReconcileEnds DEF Crash
  <2>2. CASE ~ Crash
    BY <1>3, <2>2, ReconcileAside
       DEF EditSpec, DeleteTrigger, FunctionChanges, RuleBecomesActive, RuleRemoved, DeliverWatch,
           TimerFires
  <2>3. QED
    BY <2>1, <2>2
<1>5. ViewOK' /\ (Guarded => Guarded')
  <2>1. CASE EditSpec
    <3>1. PICK s \in Specs : /\ Publish([trigger EXCEPT !.spec = s, !.gen = @ + 1])
                             /\ switched' = (switched \/ s.mode = "functionevent")
      BY <2>1 DEF EditSpec
    <3>2. /\ trigger'.final = trigger.final /\ trigger'.stored = trigger.stored
          /\ trigger'.spec = s /\ trigger'.rv = trigger.rv + 1
      BY <1>1, <3>1 DEF Publish, Object
    <3>3. View' \subseteq View \union {trigger'}
      BY <1>1, <2>1, <3>1, PublishView DEF EditSpec, local
    <3>4. Guarded => Guarded'
      BY <3>1, <3>2 DEF Guarded
    <3>5. (switched => switched') /\ (trigger'.spec.mode = "functionevent" => switched')
      BY <3>1, <3>2
    <3>6. trigger'.rv > trigger.rv /\ (trigger'.final => Guarded')
      BY <1>1, <3>2 DEF Guarded
    <3>7. QED
      BY <3>2, <3>3, <3>4, <3>5, <3>6, ViewStep
  <2>2. CASE DeleteTrigger
    <3>1. /\ trigger'.final = trigger.final /\ trigger'.spec = trigger.spec
          /\ trigger'.stored => trigger.stored /\ trigger'.rv = trigger.rv + 1
          /\ trigger'.rv = trigger.rv + 1
      BY <1>1, <2>2 DEF DeleteTrigger, Publish, Object
    <3>2. View' \subseteq View \union {trigger'}
      BY <1>1, <2>2, PublishView DEF DeleteTrigger, local
    <3>3. switched' = switched
      BY <2>2 DEF DeleteTrigger
    <3>4. Guarded => Guarded'
      BY <3>1, <3>3 DEF Guarded
    <3>5. trigger'.rv > trigger.rv /\ (trigger'.final => Guarded')
      BY <1>1, <3>1 DEF Guarded
    <3>6. QED
      BY <1>2, <3>1, <3>2, <3>3, <3>4, <3>5, ViewStep DEF Seen
  <2>3. CASE trigger' = trigger /\ switched' = switched
    <3>1. Guarded => Guarded'
      BY <2>3 DEF Guarded
    <3>2. CASE DeliverWatch
      <4>1. watch \in Seq(Object) /\ watch # <<>> /\ cache' = Head(watch) /\ watch' = Tail(watch)
        BY <1>1, <3>2 DEF DeliverWatch, TypeOK
      <4>2. cache' = watch[1] /\ 1 \in 1 .. Len(watch)
        BY <4>1
      <4>3. \A n \in 1 .. Len(watch') : n + 1 \in 1 .. Len(watch) /\ watch'[n] = watch[n + 1]
        BY <4>1
      <4>4. UNCHANGED <<pc, snap>>
        BY <3>2 DEF DeliverWatch, local
      <4>5. View' \subseteq View
        BY <2>3, <4>2, <4>3, <4>4 DEF View, Busy
      <4>6. QED
        BY <2>3, <3>1, <4>5, ViewStep
    <3>3. CASE ~ DeliverWatch /\ ~ EditSpec /\ ~ DeleteTrigger
      <4>1. /\ cache' = cache \/ cache' = trigger
            /\ watch' = watch \/ watch' = <<>>
            /\ pc' = "idle" \/ UNCHANGED <<pc, snap>>
        BY <3>3 DEF FunctionChanges, RuleBecomesActive, RuleRemoved, Crash, TimerFires, Return,
                    store, local
      <4>2. View' \subseteq View
        BY <1>1, <2>3, <4>1, SameView DEF View, Busy
      <4>3. QED
        BY <2>3, <3>1, <4>2, ViewStep
    <3>4. QED
      BY <2>1, <2>2, <3>1, <3>2, <3>3
  <2>4. QED
    BY <2>1, <2>2, <2>3
       DEF FunctionChanges, RuleBecomesActive, RuleRemoved, Crash, TimerFires, DeliverWatch, store
<1>6. QED
  BY <1>3, <1>4, <1>5, RulesStep DEF Inv

\* A step of the reconcile before its write leaves the object alone.
LEMMA ReconcileView ==
  ASSUME Inv, TypeOK', UNCHANGED <<store, switched>>,
         pc' = "idle" \/ snap' = cache \/ (Busy /\ snap' = snap)
  PROVE  ViewOK' /\ (Guarded => Guarded')
<1>1. Guarded => Guarded'
  BY DEF Guarded, store
<1>2. View' \subseteq View
  BY SameView DEF Inv, store, View, Busy
<1>3. QED
  BY <1>1, <1>2, ViewStep DEF store

LEMMA StartInv ==
  ASSUME Inv, TypeOK',
         NothingToDo \/ StartDeleteRule \/ StartRemoveFinalizer \/ StartRejected
           \/ StartRoute \/ StartAddFinalizer \/ StartWaiting \/ StartEnsureRule
  PROVE  Inv'
<1>1. TakeKey /\ Shrinks /\ LiveRules' = LiveRules
  BY DEF NothingToDo, StartDeleteRule, StartRemoveFinalizer, StartRejected, StartRoute,
         StartAddFinalizer, StartWaiting, StartEnsureRule, TakeKey, Shrinks, LiveRules, Live
<1>2. pc' = "idle" \/ snap' = cache
  BY DEF NothingToDo, StartDeleteRule, StartRemoveFinalizer, StartRejected, StartRoute,
         StartAddFinalizer, StartWaiting, StartEnsureRule, TakeKey, Decide, CallOCI
<1>3. ViewOK' /\ (Guarded => Guarded')
  BY <1>1, <1>2, ReconcileView DEF TakeKey
<1>4. ASSUME NothingToDo PROVE ReconcileOK'
  BY <1>1, <1>4, ReconcileAside DEF NothingToDo
<1>5. ASSUME StartDeleteRule PROVE ReconcileOK'
  BY <1>5 DEF StartDeleteRule, CallOCI, BeingDeleted, ReconcileOK, EnsureOK, WriteOK
<1>6. ASSUME StartRemoveFinalizer PROVE ReconcileOK'
  <2>1. /\ pc' = "write" /\ snap' = cache /\ cache.deleting
        /\ cache.spec.policy = "Retain" \/ cache.status.rule = NoRule
    BY <1>6 DEF StartRemoveFinalizer, Decide, BeingDeleted
  <2>2. NoRule \notin LiveRules
    BY ConstantsOK DEF LiveRules
  <2>3. QED
    BY <1>1, <2>1, <2>2 DEF ReconcileOK, EnsureOK, WriteOK
<1>7. ASSUME StartRejected \/ StartAddFinalizer \/ StartWaiting PROVE ReconcileOK'
  BY <1>7 DEF StartRejected, StartAddFinalizer, StartWaiting, ServesRule, NeedsFinalizer, Decide,
              ReconcileOK, EnsureOK, WriteOK
<1>8. ASSUME StartRoute PROVE ReconcileOK'
  BY <1>8 DEF StartRoute, Decide, ReconcileOK, EnsureOK, WriteOK
<1>9. ASSUME StartEnsureRule PROVE ReconcileOK'
  BY <1>9 DEF StartEnsureRule, ServesRule, NeedsFinalizer, CallOCI, ReconcileOK, EnsureOK, WriteOK
<1>10. QED
  BY <1>1, <1>3, <1>4, <1>5, <1>6, <1>7, <1>8, <1>9, RulesStep DEF Inv
\* A call to OCI that is over, and what it leaves of the rules.
LEMMA CallInv ==
  ASSUME Inv, TypeOK',
         FindRule \/ FindFails \/ CreateRule \/ CreateFails \/ UpdateRule \/ UpdateFails
           \/ DeleteRule \/ DeleteFails
  PROVE  Inv'
<1> DEFINE Ends == /\ pc' = "write" /\ UNCHANGED snap
                   /\ next'.final = snap.final /\ pc \in {"find", "create", "update"}
<1>1. /\ TypeOK /\ Busy /\ UNCHANGED <<store, switched>>
      /\ pc' = "idle" \/ UNCHANGED snap
  BY DEF Inv, Busy, oci, FindRule, FindFails, CreateRule, CreateFails, UpdateRule, UpdateFails,
         DeleteRule, DeleteFails, DeleteFailsThen, Settle, Fail, Return, local
<1>2. ViewOK' /\ (Guarded => Guarded')
  BY <1>1, ReconcileView
<1>3. ASSUME Ends PROVE ReconcileOK'
  BY <1>3 DEF Inv, ReconcileOK, EnsureOK, WriteOK
<1>4. rules' = rules => Shrinks
  BY DEF Shrinks, LiveRules, Live
<1>5. Update => Shrinks
  BY <1>1, ContentChanges, DesiredOK DEF Update, TypeOK, Shrinks, LiveRules, Live
<1>6. Erase => Shrinks /\ snap.status.rule \notin LiveRules'
  <2>1. CASE rules' = rules /\ ~ Live(snap.status.rule)
    BY <1>4, <2>1 DEF LiveRules, Live
  <2>2. CASE rules' = [rules EXCEPT ![snap.status.rule].state = "deleted"]
    <3>1. \A q \in RuleIDs :
            /\ rules'[q].comp = rules[q].comp
            /\ q # snap.status.rule => rules'[q] = rules[q]
            /\ q = snap.status.rule => rules'[q].state = "deleted"
      BY <1>1, <2>2, Deletion DEF TypeOK
    <3>2. QED
      BY <3>1 DEF Shrinks, LiveRules, Live, Newborn
  <2>3. QED
    BY <2>1, <2>2 DEF Erase
<1>7. ASSUME pc = "create", NEW r \in RuleIDs, NEW st \in Newborn, Create(r, st)
      PROVE  AtMostOneRule' /\ RuleIsGuarded'
  <2>1. \A q \in RuleIDs : q # r => rules'[q] = rules[q]
    BY <1>1, <1>7 DEF Create, TypeOK
  <2>2. rules'[r].comp = snap.spec.comp
    BY <1>1, <1>7 DEF Create, TypeOK
  <2>3. \A q \in LiveRules' : q = r \/ (q \in LiveRules /\ rules'[q] = rules[q])
    BY <2>1 DEF LiveRules, Live
  <2>4. \A q \in LiveRules : rules[q].comp # snap.spec.comp
    BY <1>7 DEF Inv, ReconcileOK, EnsureOK
  <2>5. AtMostOneRule'
    <3>1. SUFFICES ASSUME NEW p \in LiveRules', NEW q \in LiveRules', rules'[p].comp = rules'[q].comp
                   PROVE  p = q
      BY DEF AtMostOneRule
    <3>2. (p # r /\ q # r) \/ p = q
      BY <2>2, <2>3, <2>4, <3>1
    <3>3. QED
      BY <2>3, <3>1, <3>2 DEF Inv, AtMostOneRule
  <2>6. snap \in View /\ snap.final
    BY <1>1, <1>7 DEF View, Inv, ReconcileOK, EnsureOK
  <2>7. Guarded'
    BY <1>2, <2>6 DEF Inv, ViewOK, Seen
  <2>8. QED
    BY <2>5, <2>7 DEF RuleIsGuarded, Guarded
<1>8. CASE FindRule \/ FindFails
  <2>1. Shrinks
    BY <1>4, <1>8 DEF FindRule, FindFails
  <2>2. ReconcileOK'
    <3>1. ASSUME \/ FindFails
                 \/ /\ FindRule
                    /\ \E r \in Candidates : Settle(r, rules[r].state = "active")
          PROVE  ReconcileOK'
      BY <1>3, <3>1 DEF FindFails, FindRule, Settle, Fail
    <3>2. ASSUME pc = "find", pc' = "update", UNCHANGED snap PROVE ReconcileOK'
      BY <3>2 DEF Inv, ReconcileOK, EnsureOK, WriteOK
    <3>3. ASSUME pc = "find", pc' = "create", UNCHANGED <<snap, rules>>, Candidates = {}
          PROVE  ReconcileOK'
      <4>1. \A r \in LiveRules : rules[r].comp # snap.spec.comp
        BY <3>3 DEF Candidates
      <4>2. \A r \in LiveRules' : rules'[r].comp # snap'.spec.comp
        BY <3>3, <4>1 DEF LiveRules, Live
      <4>3. QED
        BY <3>3, <4>2 DEF Inv, ReconcileOK, EnsureOK, WriteOK
    <3>4. QED
      BY <1>8, <3>1, <3>2, <3>3 DEF FindRule, local
  <2>3. QED
    BY <1>2, <2>1, <2>2, RulesStep DEF Inv
<1>9. CASE CreateRule \/ CreateFails
  <2>1. ReconcileOK'
    BY <1>3, <1>9 DEF CreateRule, CreateFails, Settle, Fail
  <2>2. pc = "create" /\ (rules' = rules \/ \E r \in RuleIDs, st \in Newborn : Create(r, st))
    BY <1>9 DEF CreateRule, CreateFails
  <2>3. AtMostOneRule' /\ RuleIsGuarded'
    BY <1>2, <1>4, <1>7, <2>2, RulesStep
  <2>4. QED
    BY <1>2, <2>1, <2>3 DEF Inv
<1>10. CASE UpdateRule \/ UpdateFails
  <2>1. Shrinks
    BY <1>4, <1>5, <1>10 DEF UpdateRule, UpdateFails
  <2>2. ReconcileOK'
    BY <1>3, <1>10 DEF UpdateRule, UpdateFails, Settle, Fail
  <2>3. QED
    BY <1>2, <2>1, <2>2, RulesStep DEF Inv
<1>11. CASE DeleteRule
  <2>1. Shrinks /\ snap.status.rule \notin LiveRules'
    BY <1>6, <1>11 DEF DeleteRule
  <2>2. pc = "delete" /\ pc' = "write" /\ UNCHANGED snap
    BY <1>11 DEF DeleteRule
  <2>3. ReconcileOK'
    BY <2>1, <2>2 DEF Inv, ReconcileOK, EnsureOK, WriteOK
  <2>4. QED
    BY <1>2, <2>1, <2>3, RulesStep DEF Inv
<1>12. CASE DeleteFails
  <2>1. Shrinks /\ ReconcileOK'
    BY <1>4, <1>6, <1>12, ReconcileEnds DEF DeleteFails, DeleteFailsThen
  <2>2. QED
    BY <1>2, <2>1, RulesStep DEF Inv
<1>13. QED
  BY <1>8, <1>9, <1>10, <1>11, <1>12

\* What an accepted write makes of the object.
LEMMA WriteEffect ==
  ASSUME Inv, Write
  PROVE  /\ trigger = snap /\ trigger.stored /\ Busy /\ pc = "write"
         /\ trigger'.final = next.final /\ trigger'.rv = trigger.rv + 1
         /\ trigger'.spec = trigger.spec
         /\ trigger'.stored = (next.final \/ ~ trigger.deleting)
<1>1. trigger \in Object /\ Busy /\ pc = "write" /\ trigger.rv = snap.rv /\ trigger.stored
  BY DEF Inv, TypeOK, Write, WriteAccepted, Busy
<1>2. snap \in View
  BY <1>1 DEF View
<1>3. trigger = snap
  BY <1>1, <1>2 DEF Inv, ViewOK, Known
<1> DEFINE w == [trigger EXCEPT !.final = next.final, !.status = next.status]
<1>4. w.final = next.final /\ w.spec = trigger.spec
  BY <1>1 DEF Object
<1>5. trigger' = [[w EXCEPT !.stored = next.final \/ ~ trigger.deleting] EXCEPT !.rv = trigger.rv + 1]
  BY DEF Write, Publish
<1>6. QED
  BY <1>1, <1>3, <1>4, <1>5 DEF Object

LEMMA WriteInv ==
  ASSUME Inv, TypeOK', SkipWrite \/ Write \/ WriteRefused
  PROVE  Inv'
<1>1. Return /\ UNCHANGED <<rules, switched>> /\ Shrinks /\ ReconcileOK'
  BY ReconcileEnds DEF SkipWrite, Write, WriteRefused, Shrinks, LiveRules, Live
<1>2. CASE SkipWrite \/ WriteRefused
  <2>1. UNCHANGED <<store, switched>> /\ pc' = "idle"
    BY <1>1, <1>2 DEF SkipWrite, WriteRefused, Return
  <2>2. QED
    BY <1>1, <2>1, ReconcileView, RulesStep DEF Inv
<1>3. CASE Write
  <2>1. /\ trigger = snap /\ trigger.stored /\ pc = "write"
        /\ trigger'.final = next.final /\ trigger'.rv = trigger.rv + 1
        /\ trigger'.spec = trigger.spec
        /\ trigger'.stored = (next.final \/ ~ trigger.deleting)
    BY <1>3, WriteEffect
  <2>2. trigger.final /\ ~ next.final => trigger.deleting \/ switched
    BY <2>1 DEF Inv, ReconcileOK, WriteOK, ViewOK, View, Seen
  <2>3. Guarded => Guarded'
    BY <1>1, <2>1, <2>2 DEF Guarded
  <2>4. trigger'.rv > trigger.rv /\ (trigger'.final => Guarded')
    BY <2>1, ObjectFields DEF Inv, TypeOK, Guarded
  <2>5. trigger'.spec.mode = "functionevent" => switched'
    BY <1>1, <2>1 DEF Inv, ViewOK, View, Seen
  <2>6. View' \subseteq View \union {trigger'}
    BY <1>1, <1>3, PublishView DEF Write, Return, Inv
  <2>7. ViewOK'
    BY <1>1, <2>3, <2>4, <2>5, <2>6, ViewStep
  <2>8. QED
    BY <1>1, <2>3, <2>7, RulesStep DEF Inv
<1>4. QED
  BY <1>2, <1>3

LEMMA NextInv == Inv /\ [Next]_vars => Inv'
<1>1. Inv /\ UNCHANGED vars => Inv'
  BY DEF vars, Inv, TypeOK, ViewOK, View, Busy, Known, Seen, Guarded, ReconcileOK, EnsureOK,
         WriteOK, AtMostOneRule, RuleIsGuarded, LiveRules, Live
<1>2. Inv /\ [Next]_vars => TypeOK'
  BY TypeStep DEF Inv
<1>3. QED
  BY <1>1, <1>2, WorldStepInv, StartInv, CallInv, WriteInv DEF Next, Environment, Controller

\* Versions, reconciles and rules stay in step, whatever fails, dies or comes late.
THEOREM Invariance == Spec => []Inv
BY InitInv, NextInv, PTL DEF Spec
-----------------------------------------------------------------------------
(* What follows from it.                                                   *)

\* However often a reply is lost, a read is stale or the process dies between a
\* rule and its record, no second rule is made in a compartment.
THEOREM OneRule == Spec => []AtMostOneRule
<1>1. Inv => AtMostOneRule
  BY DEF Inv
<1>2. QED
  BY <1>1, Invariance, PTL

\* A live rule, recorded or not, keeps its trigger in the API server.
THEOREM GuardedRule == Spec => []RuleIsGuarded
<1>1. Inv => RuleIsGuarded
  BY DEF Inv
<1>2. QED
  BY <1>1, Invariance, PTL

\* The rule a trigger records is deleted before the trigger goes.
THEOREM RecordedRuleGoesFirst == Spec => RecordedRuleDeleted
<1>1. Inv /\ [Next]_vars =>
        [trigger.stored /\ ~ trigger'.stored /\ trigger.spec.policy = "Delete" /\ ~ switched
           => trigger.status.rule \notin LiveRules]_vars
  <2>1. SUFFICES ASSUME Inv, Next, trigger.stored, ~ trigger'.stored,
                        trigger.spec.policy = "Delete", ~ switched
                 PROVE  trigger.status.rule \notin LiveRules
    OBVIOUS
  <2>2. CASE DeleteTrigger
    <3>1. ~ trigger.final
      BY <2>1, <2>2 DEF DeleteTrigger, Publish, Inv, TypeOK, Object
    <3>2. QED
      BY <2>1, <3>1 DEF Inv, RuleIsGuarded
  <2>3. CASE Write
    <3>1. trigger = snap /\ pc = "write" /\ snap.deleting
      BY <2>1, <2>3, WriteEffect
    <3>2. QED
      BY <2>1, <3>1 DEF Inv, ReconcileOK, WriteOK
  <2>4. CASE EditSpec
    <3>1. trigger'.stored = trigger.stored
      BY <2>1, <2>4 DEF EditSpec, Publish, Inv, TypeOK, Object
    <3>2. QED
      BY <2>1, <3>1
  <2>5. CASE ~ DeleteTrigger /\ ~ Write /\ ~ EditSpec
    <3>1. trigger' = trigger
      BY <2>1, <2>5 DEF Next, Environment, Controller, FunctionChanges, RuleBecomesActive,
         RuleRemoved, Crash, DeliverWatch, TimerFires, NothingToDo, StartDeleteRule,
         StartRemoveFinalizer, StartRejected, StartRoute, StartAddFinalizer, StartWaiting,
         StartEnsureRule, TakeKey, FindRule, FindFails, CreateRule, CreateFails, UpdateRule,
         UpdateFails, DeleteRule, DeleteFails, SkipWrite, WriteRefused, oci, store
    <3>2. QED
      BY <2>1, <3>1
  <2>6. QED
    BY <2>2, <2>3, <2>4, <2>5
<1>2. QED
  BY <1>1, Invariance, PTL DEF Spec, RecordedRuleDeleted
=============================================================================
