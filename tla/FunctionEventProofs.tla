------------------------- MODULE FunctionEventProofs -------------------------
(***************************************************************************)
(* Theorems about FunctionEvent, for every value of its constants.         *)
(*                                                                         *)
(* The invariant behind them says what each version of the event may claim *)
(* of what OCI has done (ViewOK), how far a reconcile is with the version  *)
(* it read (WorkOK), what the calls are counted against (Counted), and     *)
(* what is known as long as no read was stale (UpToDate).                     *)
(***************************************************************************)
EXTENDS FunctionEvent, TLAPS
-----------------------------------------------------------------------------
(* The operators.                                                          *)

LEMMA ConstantsOK ==
  /\ RetryLimit \in Nat /\ RetryLimit > 0 /\ MaxEdits \in Nat /\ MaxMishaps \in Nat
  /\ EventSpecs # {}
BY EventAssumption

LEMMA ProductOK ==
  ASSUME NEW n \in Nat
  PROVE  RetryLimit * n \in Nat /\ RetryLimit * (n + 1) = RetryLimit * n + RetryLimit
BY ConstantsOK

LEMMA ObjectFields ==
  ASSUME NEW o \in Object
  PROVE  /\ o.live \in BOOLEAN /\ o.rv \in Nat /\ o.gen \in Nat
         /\ o.spec \in EventSpecs /\ o.status \in Status
         /\ o.status.phase \in EventPhases /\ o.status.observed \in Nat
         /\ o.status.invs \in [Triggers -> Invocation]
BY DEF Object, Status

LEMMA StatusFields ==
  ASSUME NEW st \in Status, NEW t \in Triggers
  PROVE  /\ st.invs[t] \in Invocation
         /\ st.invs[t].phase \in InvPhases /\ st.invs[t].attempts \in Nat
BY DEF Status, Invocation

LEMMA NoneOK ==
  /\ None \in Invocation /\ None.attempts = 0 /\ None.phase = "none"
  /\ Fresh \in Invocation /\ Fresh.attempts = 0 /\ Fresh.phase = "Pending"
  /\ NoRecords \in [Triggers -> Invocation]
BY DEF None, Fresh, NoRecords, Invocation, InvPhases

LEMMA NothingOK == NoStatus \in Status /\ NoObject \in Object /\ Named(NoRecords) = {}
<1>1. NoStatus \in Status
  BY NoneOK DEF NoStatus, Status, EventPhases
<1>2. (CHOOSE s \in EventSpecs : TRUE) \in EventSpecs
  BY ConstantsOK
<1>3. QED
  BY <1>1, <1>2 DEF NoObject, Object, Named, NoRecords

\* A trigger that matches gets the record there is, or a fresh one.
LEMMA EnsureOK ==
  ASSUME NEW invs \in [Triggers -> Invocation], NEW T \in SUBSET Triggers
  PROVE  /\ EnsureInvocationStatuses(invs, T) \in [Triggers -> Invocation]
         /\ \A t \in Triggers :
              LET inv == EnsureInvocationStatuses(invs, T)[t] IN
              \/ t \notin T /\ inv = None
              \/ t \in T /\ invs[t] = None /\ inv = Fresh
              \/ t \in T /\ invs[t] # None /\ inv = invs[t]
BY NoneOK DEF EnsureInvocationStatuses

LEMMA AfterAttemptOK ==
  ASSUME NEW inv \in Invocation, NEW ok \in BOOLEAN
  PROVE  /\ AfterAttempt(inv, ok) \in Invocation
         /\ AfterAttempt(inv, ok).attempts = inv.attempts + 1
         /\ AfterAttempt(inv, ok).phase =
              IF ok THEN "Succeeded"
              ELSE IF inv.attempts + 1 >= RetryLimit THEN "Failed" ELSE "Pending"
<1> DEFINE ph == IF ok THEN "Succeeded"
                 ELSE IF inv.attempts + 1 >= RetryLimit THEN "Failed" ELSE "Pending"
<1>1. ph \in InvPhases
  BY Zenon DEF InvPhases
<1>2. inv.attempts + 1 \in Nat
  BY DEF Invocation
<1>3. AfterAttempt(inv, ok) = [phase |-> ph, attempts |-> inv.attempts + 1]
  BY DEF AfterAttempt
<1> HIDE DEF ph
<1>4. QED
  BY <1>1, <1>2, <1>3 DEF Invocation, ph
-----------------------------------------------------------------------------
(* Type correctness.                                                       *)

LEMMA PublishType ==
  ASSUME TypeOK, NEW obj \in Object, Publish(obj)
  PROVE  event' \in Object /\ cache' \in Object /\ watch' \in Seq(Object)
<1>1. event' = [obj EXCEPT !.rv = event.rv + 1] /\ event.rv + 1 \in Nat
  BY ObjectFields DEF Publish, TypeOK
<1>2. event' \in Object
  BY <1>1 DEF Object
<1>3. QED
  BY <1>2 DEF Publish, TypeOK

LEMMA ReturnType ==
  ASSUME Return
  PROVE  /\ pc' = "idle" /\ snap' \in Object /\ work' \in Status /\ todo' = {} /\ retry' = FALSE
BY NothingOK DEF Return

LEMMA TakeType ==
  ASSUME TypeOK, TakeKey
  PROVE  /\ pc = "idle" /\ queued' = FALSE /\ staleReads' \in 0 .. MaxMishaps
         /\ staleReads' = 0 => staleReads = 0 /\ watch = <<>>
<1>1. staleReads \in Nat /\ crashes \in Nat
  BY ConstantsOK DEF TypeOK
<1>2. QED
  BY <1>1, ConstantsOK DEF TakeKey, TypeOK, MishapsLeft

\* The loop changes the record of the trigger it reaches, and no other.
LEMMA ReachWork ==
  ASSUME TypeOK, NEW t \in Triggers, Reach(t), NEW inv \in Invocation, inv.phase # "none",
         work' = [work EXCEPT !.invs = [work.invs EXCEPT ![t] = inv]]
  PROVE  /\ work' \in Status /\ work'.phase = work.phase /\ work'.observed = work.observed
         /\ work'.invs[t] = inv
         /\ \A u \in Triggers : u # t => work'.invs[u] = work.invs[u]
         /\ t \in todo /\ todo' = todo \ {t} /\ todo' \subseteq Named(work'.invs)
<1>1. work \in Status /\ work.invs \in [Triggers -> Invocation]
  BY DEF TypeOK, Status
<1>2. /\ [work.invs EXCEPT ![t] = inv] \in [Triggers -> Invocation]
      /\ [work.invs EXCEPT ![t] = inv][t] = inv
      /\ \A u \in Triggers : u # t => [work.invs EXCEPT ![t] = inv][u] = work.invs[u]
  BY <1>1
<1>3. /\ work' \in Status /\ work'.phase = work.phase /\ work'.observed = work.observed
      /\ work'.invs = [work.invs EXCEPT ![t] = inv]
  BY <1>1, <1>2 DEF Status
<1>4. t \in todo /\ todo' = todo \ {t}
  BY DEF Reach
<1>5. ASSUME NEW u \in todo' PROVE u \in Named(work'.invs)
  BY <1>2, <1>3, <1>4, <1>5 DEF TypeOK, Named
<1>6. QED
  BY <1>2, <1>3, <1>4, <1>5

LEMMA WaitWork ==
  ASSUME TypeOK, NEW t \in Triggers, WaitForFunction(t)
  PROVE  LET inv == [phase |-> "Pending", attempts |-> work.invs[t].attempts] IN
         /\ inv \in Invocation
         /\ work' = [work EXCEPT !.invs = [work.invs EXCEPT ![t] = inv]]
<1>1. work \in Status /\ work.invs[t] \in Invocation
  BY StatusFields DEF TypeOK
<1>2. [work.invs[t] EXCEPT !.phase = "Pending"] =
        [phase |-> "Pending", attempts |-> work.invs[t].attempts]
  BY <1>1 DEF Invocation
<1>3. work' = [work EXCEPT !.invs =
                 [work.invs EXCEPT ![t] = [work.invs[t] EXCEPT !.phase = "Pending"]]]
  BY <1>1 DEF WaitForFunction, Status
<1>4. QED
  BY <1>1, <1>2, <1>3 DEF Invocation, InvPhases

LEMMA AttemptWork ==
  ASSUME TypeOK, NEW t \in Triggers, NEW ok \in BOOLEAN, Attempt(t, ok)
  PROVE  LET inv == AfterAttempt(work.invs[t], ok) IN
         /\ inv \in Invocation /\ inv.phase # "none"
         /\ work' = [work EXCEPT !.invs = [work.invs EXCEPT ![t] = inv]]
<1>1. work \in Status /\ work.invs[t] \in Invocation
  BY StatusFields DEF TypeOK
<1>2. AfterAttempt(work.invs[t], ok) \in Invocation
  BY <1>1, AfterAttemptOK
<1>3. AfterAttempt(work.invs[t], ok).phase # "none"
  BY <1>1, AfterAttemptOK
<1>4. work' = [work EXCEPT !.invs = [work.invs EXCEPT ![t] = AfterAttempt(work.invs[t], ok)]]
  BY <1>1 DEF Attempt, Status
<1>5. QED
  BY <1>2, <1>3, <1>4

\* A reconcile that routes the event, and what it makes of its records.
LEMMA StartWork ==
  ASSUME TypeOK, StartUnmatched \/ StartRound
  PROVE  /\ TakeKey /\ NeedsRouting(cache) /\ UNCHANGED <<store, timer>>
         /\ snap' = cache /\ retry' = FALSE /\ work' \in Status /\ work'.observed = cache.gen
         /\ \A t \in Triggers : \/ work'.invs[t] = None
                                \/ cache.status.invs[t] = None /\ work'.invs[t] = Fresh
                                \/ work'.invs[t] = cache.status.invs[t]
         /\ todo' \subseteq Named(work'.invs)
         /\ \A t \in todo' : ~ Settled(work'.invs[t])
         /\ \/ /\ pc' = "write" /\ todo' = {} /\ work'.phase = "Processed"
               /\ work'.invs = NoRecords
            \/ pc' = "invoke" /\ work'.phase = cache.status.phase
<1>1. /\ cache \in Object /\ cache.gen \in Nat /\ cache.status \in Status
      /\ cache.status.invs \in [Triggers -> Invocation]
  BY ObjectFields DEF TypeOK
<1>2. CASE StartUnmatched
  <2>1. /\ work' = [phase |-> "Processed", observed |-> cache.gen, invs |-> NoRecords]
        /\ todo' = {} /\ pc' = "write"
    BY <1>2 DEF StartUnmatched
  <2>2. work' \in Status
    BY <1>1, <2>1, NoneOK DEF Status, EventPhases
  <2>3. \A t \in Triggers : work'.invs[t] = None
    BY <2>1 DEF NoRecords
  <2>4. QED
    BY <1>2, <2>1, <2>2, <2>3 DEF StartUnmatched
<1>3. CASE StartRound
  <2> DEFINE T    == Matching(triggers, cache.spec.type)
             invs == EnsureInvocationStatuses(cache.status.invs, T)
  <2>1. /\ work' = [cache.status EXCEPT !.observed = cache.gen, !.invs = invs]
        /\ todo' = {t \in T : ~ Settled(invs[t])} /\ pc' = "invoke"
    BY <1>3 DEF StartRound
  <2>2. T \subseteq Triggers
    BY DEF Matching
  <2>3. /\ invs \in [Triggers -> Invocation]
        /\ \A t \in Triggers :
             \/ t \notin T /\ invs[t] = None
             \/ t \in T /\ cache.status.invs[t] = None /\ invs[t] = Fresh
             \/ t \in T /\ cache.status.invs[t] # None /\ invs[t] = cache.status.invs[t]
    BY <1>1, <2>2, EnsureOK
  <2> HIDE DEF T, invs
  <2>4. /\ work' \in Status /\ work'.observed = cache.gen /\ work'.invs = invs
        /\ work'.phase = cache.status.phase
    BY <1>1, <2>1, <2>3 DEF Status
  <2>5. Fresh # None
    BY NoneOK
  <2>6. todo' \subseteq Named(work'.invs)
    BY <2>1, <2>2, <2>3, <2>4, <2>5 DEF Named
  <2>7. QED
    BY <1>3, <2>1, <2>3, <2>4, <2>6 DEF StartRound
<1>4. QED
  BY <1>2, <1>3

LEMMA SummarizeOK == ASSUME NEW invs PROVE Summarize(invs) \in EventPhases
BY DEF Summarize, EventPhases

LEMMA EndWork ==
  ASSUME TypeOK, EndRound
  PROVE  /\ work' \in Status /\ work'.observed = work.observed /\ work'.invs = work.invs
         /\ work'.phase = IF IsTerminal(work) THEN work.phase ELSE Summarize(work.invs)
BY SummarizeOK DEF TypeOK, EndRound, Status

\* The steps that write the object, and what they write.
LEMMA EventStep ==
  ASSUME TypeOK, [Next]_vars
  PROVE  \/ event' = event
         \/ /\ EditSpec /\ event'.gen = event.gen + 1 /\ event'.status = event.status
            /\ event'.live = event.live
         \/ /\ DeleteEvent \/ DeleteExpired
            /\ event'.gen = event.gen /\ event'.status = event.status
         \/ /\ WriteStatus /\ event'.gen = event.gen /\ event'.status = work
            /\ event'.live = event.live
<1>1. event \in Object /\ event.gen \in Nat
  BY ObjectFields DEF TypeOK
<1>2. CASE EditSpec
  BY <1>1, <1>2 DEF EditSpec, Publish, Object
<1>3. CASE DeleteEvent
  BY <1>1, <1>3 DEF DeleteEvent, Publish, Object
<1>4. CASE DeleteExpired
  BY <1>1, <1>4 DEF DeleteExpired, Publish, Object, store
<1>5. CASE WriteStatus
  BY <1>1, <1>5 DEF WriteStatus, Publish, Object
<1>6. CASE ~ EditSpec /\ ~ DeleteEvent /\ ~ DeleteExpired /\ ~ WriteStatus
  <2>1. event' = event
    BY <1>6 DEF Next, Environment, Controller, EditTrigger, FunctionChanges, Crash, DeliverWatch,
       TimerFires, NothingToDo, AwaitTTL, ExpireTTL, StartUnmatched, StartRound, WaitForFunction,
       Attempt, EndRound, SkipWrite, WriteRefused, store, vars
  <2>2. QED
    BY <2>1
<1>7. QED
  BY <1>2, <1>3, <1>4, <1>5, <1>6

\* The type invariant needs this of the generation: the bound on the edits counts from it.
Typed == TypeOK /\ event.gen >= 1

LEMMA TypeStep == Typed /\ [Next]_vars => Typed'
<1> SUFFICES ASSUME TypeOK, event.gen >= 1, [Next]_vars PROVE TypeOK' /\ event'.gen >= 1
  BY DEF Typed
<1>0. event'.gen >= 1
  <2>1. event.gen \in Nat
    BY ObjectFields DEF TypeOK
  <2>2. event'.gen = event.gen \/ event'.gen = event.gen + 1
    BY EventStep
  <2>3. QED
    BY <2>1, <2>2
<1> SUFFICES TypeOK'
  BY <1>0
<1> USE DEF store, world, local, history, bounds
<1>1. CASE EditSpec
  <2>1. PICK s \in EventSpecs : Publish([event EXCEPT !.spec = s, !.gen = @ + 1])
    BY <1>1 DEF EditSpec
  <2>2. [event EXCEPT !.spec = s, !.gen = @ + 1] \in Object
    <3>1. event \in Object /\ event.gen \in Nat /\ event.gen + 1 \in Nat
      BY ObjectFields DEF TypeOK
    <3>2. [event EXCEPT !.spec = s] \in Object
      BY <3>1 DEF Object
    <3>3. [[event EXCEPT !.spec = s] EXCEPT !.gen = event.gen + 1] \in Object
      BY <3>1, <3>2 DEF Object
    <3>4. [event EXCEPT !.spec = s, !.gen = @ + 1] =
            [[event EXCEPT !.spec = s] EXCEPT !.gen = event.gen + 1]
      BY <3>1, Zenon DEF Object
    <3>5. QED
      BY <3>3, <3>4
  <2>3. event' \in Object /\ cache' \in Object /\ watch' \in Seq(Object)
    BY <2>1, <2>2, PublishType
  <2>4. QED
    BY <1>1, <2>3 DEF EditSpec, TypeOK
<1>2. [event EXCEPT !.live = FALSE] \in Object
  BY ObjectFields DEF Object, TypeOK
<1>3. CASE DeleteEvent
  <2>1. event' \in Object /\ cache' \in Object /\ watch' \in Seq(Object)
    BY <1>2, <1>3, PublishType DEF DeleteEvent
  <2>2. QED
    BY <1>3, <2>1 DEF DeleteEvent, TypeOK
<1>4. CASE EditTrigger
  <2>1. triggers' \in [Triggers -> TriggerSpecs]
    BY <1>4 DEF EditTrigger, TypeOK
  <2>2. edits' \in 0 .. MaxEdits
    <3>1. event.gen \in Nat /\ edits \in Nat /\ edits' = edits + 1
      BY <1>4, ConstantsOK, ObjectFields DEF EditTrigger, TypeOK
    <3>2. (event.gen - 1) + edits < MaxEdits
      BY <1>4 DEF EditTrigger, EditsLeft
    <3>3. QED
      BY <3>1, <3>2, ConstantsOK
  <2>3. QED
    BY <1>4, <2>1, <2>2 DEF EditTrigger, TypeOK
<1>5. CASE FunctionChanges
  BY <1>5 DEF FunctionChanges, TypeOK
<1>6. CASE DeliverWatch
  <2>1. cache' \in Object /\ watch' \in Seq(Object)
    BY <1>6 DEF DeliverWatch, TypeOK
  <2>2. QED
    BY <1>6, <2>1 DEF DeliverWatch, TypeOK
<1>7. CASE TimerFires
  BY <1>7 DEF TimerFires, TypeOK
<1>8. CASE Crash
  <2>1. crashes' \in 0 .. MaxMishaps /\ wasted' \in Nat
    BY <1>8, ConstantsOK DEF Crash, MishapsLeft, TypeOK
  <2>2. event' = event /\ cache' = event /\ watch' = <<>> /\ watch' \in Seq(Object)
    BY <1>8 DEF Crash
  <2>3. QED
    BY <1>8, <2>1, <2>2, ReturnType DEF Crash, TypeOK
<1>9. CASE NothingToDo
  BY <1>9, TakeType DEF NothingToDo, TakeKey, TypeOK
<1>10. CASE AwaitTTL
  BY <1>10, TakeType DEF AwaitTTL, TakeKey, TypeOK
<1>11. CASE ExpireTTL
  BY <1>11, TakeType DEF ExpireTTL, TakeKey, TypeOK
<1>23. CASE DeleteExpired
  <2>1. event' \in Object /\ cache' \in Object /\ watch' \in Seq(Object)
    BY <1>2, <1>23, PublishType DEF DeleteExpired, TypeOK
  <2>2. QED
    BY <1>23, <2>1, ReturnType DEF DeleteExpired, TypeOK
<1>12. CASE StartUnmatched \/ StartRound
  <2>1. /\ TakeKey /\ UNCHANGED <<store, timer>> /\ snap' = cache /\ retry' = FALSE
        /\ work' \in Status /\ todo' \subseteq Named(work'.invs) /\ pc' \in {"invoke", "write"}
    BY <1>12, StartWork
  <2>2. QED
    BY <2>1, TakeType DEF TakeKey, TypeOK
<1>13. ASSUME NEW t \in Triggers, WaitForFunction(t)
       PROVE  TypeOK'
  <2> DEFINE inv == [phase |-> "Pending", attempts |-> work.invs[t].attempts]
  <2>1. inv \in Invocation /\ work' = [work EXCEPT !.invs = [work.invs EXCEPT ![t] = inv]]
    BY <1>13, WaitWork
  <2>2. inv.phase # "none" /\ Reach(t)
    BY <1>13 DEF WaitForFunction
  <2> HIDE DEF inv
  <2>3. work' \in Status /\ todo' \subseteq Named(work'.invs)
    BY <2>1, <2>2, ReachWork
  <2>4. QED
    BY <1>13, <2>3 DEF WaitForFunction, TypeOK
<1>14. ASSUME NEW t \in Triggers, NEW ok \in BOOLEAN, Attempt(t, ok)
       PROVE  TypeOK'
  <2>1. work' \in Status /\ todo' \subseteq Named(work'.invs)
    BY <1>14, AttemptWork, ReachWork DEF Attempt
  <2>2. calls' \in [Triggers -> Nat] /\ acked' \subseteq Triggers
    <3>1. calls' = [calls EXCEPT ![t] = calls[t] + 1]
      BY <1>14 DEF Attempt
    <3>2. acked' = IF ok THEN acked \union {t} ELSE acked
      BY <1>14 DEF Attempt
    <3>3. QED
      BY <3>1, <3>2 DEF TypeOK
  <2>3. retry' \in BOOLEAN
    BY <1>14, Zenon DEF Attempt, TypeOK, NeedsRetry
  <2>4. QED
    BY <1>14, <2>1, <2>2, <2>3 DEF Attempt, TypeOK
<1>15. CASE EndRound
  <2>1. work' \in Status /\ todo' \subseteq Named(work'.invs)
    BY <1>15, EndWork DEF EndRound
  <2>2. QED
    BY <1>15, <2>1 DEF EndRound, TypeOK
<1>16. work.phase = "Processed" => snap.spec.ttl \in BOOLEAN
  BY ObjectFields, EventAssumption DEF TypeOK, EventSpec
<1>17. (timer \/ RequeueAfter) \in BOOLEAN
  OBVIOUS
<1>18. CASE SkipWrite
  BY <1>17, <1>18, ReturnType DEF SkipWrite, TypeOK
<1>19. CASE WriteStatus
  <2>1. [event EXCEPT !.status = work] \in Object
    BY ObjectFields DEF Object, TypeOK
  <2>2. event' \in Object /\ cache' \in Object /\ watch' \in Seq(Object)
    BY <1>19, <2>1, PublishType DEF WriteStatus
  <2>3. dropped' \in [Triggers -> Nat]
    BY <1>19 DEF WriteStatus, TypeOK
  <2>4. QED
    BY <1>17, <1>19, <2>2, <2>3, ReturnType DEF WriteStatus, TypeOK
<1>20. CASE WriteRefused
  BY <1>20, ReturnType DEF WriteRefused, TypeOK
<1>21. CASE UNCHANGED vars
  BY <1>21 DEF vars, TypeOK
<1>22. QED
  BY <1>1, <1>3, <1>4, <1>5, <1>6, <1>7, <1>8, <1>9, <1>10, <1>11, <1>12, <1>13, <1>14, <1>15,
     <1>18, <1>19, <1>20, <1>21, <1>23 DEF Next, Environment, Controller

LEMMA TypeInit == Init => Typed
<1> SUFFICES ASSUME Init PROVE TypeOK /\ event.gen >= 1
  BY DEF Typed
<1>1. event \in Object /\ event.gen = 1
  BY NothingOK DEF Init, Object
<1>2. edits = 0 /\ crashes = 0 /\ staleReads = 0
  BY DEF Init
<1>3. edits \in 0 .. MaxEdits /\ {crashes, staleReads} \subseteq 0 .. MaxMishaps
  BY <1>2, ConstantsOK
<1>4. {event, cache, snap} \subseteq Object /\ watch \in Seq(Object) /\ work \in Status
  BY <1>1, NothingOK DEF Init
<1>5. /\ {queued, timer, retry} \subseteq BOOLEAN /\ pc \in {"idle", "expire", "invoke", "write"}
      /\ triggers \in [Triggers -> TriggerSpecs] /\ ready \subseteq Triggers
      /\ todo \subseteq Named(work.invs) /\ acked \subseteq Triggers
  BY DEF Init
<1>6. calls \in [Triggers -> Nat] /\ dropped \in [Triggers -> Nat] /\ wasted \in Nat
  BY DEF Init
<1>7. TypeOK
  BY <1>3, <1>4, <1>5, <1>6 DEF TypeOK
<1>8. QED
  BY <1>1, <1>7

\* Every variable always holds a value of its type.
THEOREM TypeCorrect == Spec => []TypeOK
<1>1. Typed => TypeOK
  BY DEF Typed
<1>2. QED
  BY <1>1, TypeInit, TypeStep, PTL DEF Spec
-----------------------------------------------------------------------------
(* The invariant.                                                          *)

\* A record of trigger t, against the calls c OCI received and the successes a.
RecordOK(c, a, t, inv) ==
  /\ inv.attempts <= RetryLimit /\ inv.attempts <= c[t]
  /\ inv.phase = "none" => inv.attempts = 0
  /\ inv.phase = "Pending" => inv.attempts < RetryLimit
  /\ inv.phase = "Succeeded" => t \in a
  /\ inv.phase = "Failed" => inv.attempts = RetryLimit

RecordsOK(c, a, invs) == \A t \in Triggers : RecordOK(c, a, t, invs[t])

\* What the first generation's verdict rests on.
Earned(st) ==
  /\ st.phase = "Processed" => \A t \in Named(st.invs) : st.invs[t].phase = "Succeeded"
  /\ st.phase = "Failed"    => \E t \in Named(st.invs) : st.invs[t].phase = "Failed"

\* What a later version keeps of an earlier one: a generation that is processed
\* stays so.
Follows(o, n) ==
  /\ o.rv < n.rv /\ o.gen <= n.gen
  /\ o.gen = n.gen /\ Closed(o, "Processed") => Closed(n, "Processed")

\* A version is the current one or comes before it.
Known(o) == o = event \/ Follows(o, event)

Claims(c, a, o) ==
  /\ RecordsOK(c, a, o.status.invs)
  /\ o.status.observed = 0 => o.status.phase = ""
  /\ o.gen >= 1 /\ o.status.observed <= o.gen
  /\ o.gen = 1 => Earned(o.status)

\* The version a reconcile under way has read.
Held == IF pc = "idle" THEN {} ELSE {snap}

\* Every version of the event that somebody holds or will be given.
View == {event, cache} \union {watch[n] : n \in 1 .. Len(watch)} \union Held

ViewOK == \A o \in View : Known(o) /\ Claims(calls, acked, o)

\* A trigger the loop has not reached has the attempts it had; the others have
\* one more at most, or their record is dropped.
Called(t) == Busy /\ work.invs[t].attempts = snap.status.invs[t].attempts + 1

WorkOK ==
  /\ todo # {} => pc = "invoke"
  /\ pc = "expire" => Closed(snap, "Processed")
  /\ Busy =>
       /\ NeedsRouting(snap)
       /\ RecordsOK(calls, acked, work.invs)
       /\ work.observed = snap.gen
       /\ \A t \in Triggers :
            \/ work.invs[t] = None
            \/ work.invs[t].attempts = snap.status.invs[t].attempts
            \/ Called(t)
       /\ \A t \in todo : /\ work.invs[t].attempts = snap.status.invs[t].attempts
                          /\ ~ Settled(work.invs[t])
                          /\ snap.status.invs[t].phase # "Succeeded"
       /\ pc = "invoke" /\ snap.gen = 1 => ~ IsTerminal(work)
       /\ pc = "write" /\ snap.gen = 1 => Earned(work)

\* Each call is in the record, or was lost, or has not been written yet.
Counted ==
  \A t \in Triggers :
    calls[t] <= event.status.invs[t].attempts + RetryLimit * dropped[t] + wasted
                + (IF Called(t) THEN 1 ELSE 0)

\* The informer has the newest version, or it is on its way; and a reconcile
\* that did not lag has the status the event still has.
UpToDate ==
  /\ event = IF watch = <<>> THEN cache ELSE watch[Len(watch)]
  /\ staleReads = 0 /\ Busy => snap.status = event.status

Inv == TypeOK /\ ViewOK /\ WorkOK /\ Counted /\ UpToDate

\* What OCI has done only grows.
Grown(c, a, d, b) == (\A t \in Triggers : c[t] <= d[t]) /\ a \subseteq b

LEMMA ClaimsGrow ==
  ASSUME NEW c \in [Triggers -> Nat], NEW d \in [Triggers -> Nat], NEW a, NEW b,
         Grown(c, a, d, b), NEW st \in Status, RecordsOK(c, a, st.invs)
  PROVE  RecordsOK(d, b, st.invs)
<1> SUFFICES ASSUME NEW t \in Triggers PROVE RecordOK(d, b, t, st.invs[t])
  BY DEF RecordsOK
<1>1. RecordOK(c, a, t, st.invs[t]) /\ st.invs[t].attempts \in Nat
  BY StatusFields DEF RecordsOK
<1>2. c[t] \in Nat /\ d[t] \in Nat /\ c[t] <= d[t] /\ (t \in a => t \in b)
  BY DEF Grown
<1>3. QED
  BY <1>1, <1>2 DEF RecordOK

\* A step that hands out no version but those in view and perhaps a new one.
LEMMA ViewStep ==
  ASSUME Inv, TypeOK', Grown(calls, acked, calls', acked'),
         View' \subseteq View \union {event'},
         event' = event \/ (Follows(event, event') /\ Claims(calls', acked', event'))
  PROVE  ViewOK'
<1> SUFFICES ASSUME NEW o \in View' PROVE Known(o)' /\ Claims(calls', acked', o)
  BY DEF ViewOK
<1>1. View \subseteq Object /\ event \in View /\ event' \in Object /\ event \in Object
  BY DEF View, Held, Inv, TypeOK
<1>2. calls \in [Triggers -> Nat] /\ calls' \in [Triggers -> Nat]
  BY DEF Inv, TypeOK
<1>3. CASE o \in View
  <2>1. o \in Object /\ o.status \in Status /\ Known(o) /\ Claims(calls, acked, o)
    BY <1>1, <1>3, ObjectFields DEF Inv, ViewOK
  <2>2. Claims(calls', acked', o)
    BY <1>2, <2>1, ClaimsGrow DEF Claims
  <2>3. /\ {o.rv, event.rv, event'.rv} \subseteq Nat /\ {o.gen, event.gen, event'.gen} \subseteq Nat
    BY <1>1, <2>1, ObjectFields
  <2>4. event' = event \/ Follows(event, event')
    OBVIOUS
  <2>5. Known(o)'
    BY <2>1, <2>3, <2>4 DEF Known, Follows
  <2>6. QED
    BY <2>2, <2>5
<1>4. CASE o = event' /\ o \notin View
  <2>1. event' # event
    BY <1>1, <1>4
  <2>2. QED
    BY <1>4, <2>1 DEF Known
<1>5. QED
  BY <1>3, <1>4

LEMMA NoCalls ==
  ASSUME TypeOK, UNCHANGED <<calls, acked>>
  PROVE  Grown(calls, acked, calls', acked')
BY DEF Grown, TypeOK

\* A published version is the only one its step adds, and it is the newest.
LEMMA PublishView ==
  ASSUME TypeOK, NEW obj \in Object, Publish(obj), UNCHANGED <<pc, snap>> \/ pc' = "idle"
  PROVE  /\ View' \subseteq View \union {event'}
         /\ event'.rv > event.rv
         /\ event' = IF watch' = <<>> THEN cache' ELSE watch'[Len(watch')]
<1>1. watch \in Seq(Object) /\ watch' = Append(watch, event') /\ cache' = cache
  BY DEF Publish, TypeOK
<1>2. ASSUME NEW n \in 1 .. Len(watch')
      PROVE  watch'[n] = event' \/ \E m \in 1 .. Len(watch) : watch'[n] = watch[m]
  BY <1>1
<1>3. Held' \subseteq Held
  BY DEF Held
<1>4. {watch'[n] : n \in 1 .. Len(watch')}
        \subseteq {watch[n] : n \in 1 .. Len(watch)} \union {event'}
  BY <1>2
<1>5. event.rv \in Nat /\ event'.rv = event.rv + 1
  BY ObjectFields DEF Publish, Object, TypeOK
<1>6. watch' # <<>> /\ watch'[Len(watch')] = event'
  BY <1>1
<1>7. QED
  BY <1>1, <1>3, <1>4, <1>5, <1>6 DEF View

\* Where the object does not change, the versions are kept or dropped.
LEMMA SameView ==
  ASSUME TypeOK, event' = event, cache' \in View, watch' = watch \/ watch' = <<>>,
         pc' # "idle" => snap' \in View
  PROVE  View' \subseteq View
<1>1. {watch'[n] : n \in 1 .. Len(watch')} \subseteq {watch[n] : n \in 1 .. Len(watch)}
  OBVIOUS
<1>2. event' \in View
  BY DEF View
<1>3. View' = {event', cache'} \union {watch'[n] : n \in 1 .. Len(watch')}
              \union Held'
  BY DEF View
<1>4. QED
  BY <1>1, <1>2, <1>3 DEF View, Held

LEMMA DeliverView ==
  ASSUME Inv, DeliverWatch
  PROVE  View' \subseteq View /\ UpToDate'
<1>1. watch \in Seq(Object) /\ watch # <<>> /\ cache' = Head(watch) /\ watch' = Tail(watch)
  BY DEF DeliverWatch, Inv, TypeOK
<1>2. cache' = watch[1] /\ 1 \in 1 .. Len(watch)
  BY <1>1
<1>3. \A n \in 1 .. Len(watch') : n + 1 \in 1 .. Len(watch) /\ watch'[n] = watch[n + 1]
  BY <1>1
<1>4. UNCHANGED <<event, pc, snap, staleReads>>
  BY DEF DeliverWatch, local, bounds
<1>5. View' \subseteq View
  BY <1>2, <1>3, <1>4 DEF View, Held
<1>6. event = watch[Len(watch)]
  BY <1>1 DEF Inv, UpToDate
<1>7. event' = IF watch' = <<>> THEN cache' ELSE watch'[Len(watch')]
  <2>1. CASE watch' = <<>>
    <3>1. Len(watch) = 1
      <4>1. Len(watch') = Len(watch) - 1
        BY <1>1
      <4>2. Len(watch') = 0
        BY <2>1
      <4>3. QED
        BY <1>1, <4>1, <4>2
    <3>2. QED
      BY <1>2, <1>4, <1>6, <2>1, <3>1
  <2>2. CASE watch' # <<>>
    <3>1. watch'[Len(watch')] = watch[Len(watch)]
      BY <1>1, <2>2
    <3>2. QED
      BY <1>4, <1>6, <2>2, <3>1
  <2>3. QED
    BY <2>1, <2>2
<1>8. QED
  BY <1>4, <1>5, <1>7 DEF Inv, UpToDate, Busy

\* A step that leaves the reconcile and what OCI did alone.
LEMMA AsideInv ==
  ASSUME Inv, TypeOK', UNCHANGED <<pc, snap, work, todo, calls, acked, wasted, dropped>>,
         event'.status = event.status, ViewOK', UpToDate'
  PROVE  Inv'
BY DEF Inv, WorkOK, Busy, Counted, Called

\* The end of a reconcile, with each call in the record or lost.
LEMMA EndInv ==
  ASSUME Inv, TypeOK', Return, UNCHANGED <<calls, acked>>, ViewOK',
         event' = IF watch' = <<>> THEN cache' ELSE watch'[Len(watch')],
         \A t \in Triggers :
           calls[t] <= event'.status.invs[t].attempts + RetryLimit * dropped'[t] + wasted'
  PROVE  Inv'
<1>1. /\ ~ Busy' /\ pc' = "idle" /\ todo' = {}
      /\ \A t \in Triggers : ~ Called(t)'
  BY DEF Return, Busy, Called
<1>2. WorkOK' /\ UpToDate'
  BY <1>1 DEF WorkOK, UpToDate
<1>3. Counted'
  <2> SUFFICES ASSUME NEW t \in Triggers
               PROVE  calls'[t] <= event'.status.invs[t].attempts + RetryLimit * dropped'[t] + wasted'
                                   + (IF Called(t)' THEN 1 ELSE 0)
    BY DEF Counted
  <2>1. /\ calls'[t] \in Nat /\ event'.status.invs[t].attempts \in Nat /\ dropped'[t] \in Nat
        /\ wasted' \in Nat
    BY ObjectFields, StatusFields DEF TypeOK
  <2> DEFINE sum == event'.status.invs[t].attempts + RetryLimit * dropped'[t] + wasted'
  <2>2. sum \in Nat /\ calls'[t] <= sum
    <3>1. RetryLimit * dropped'[t] \in Nat
      BY <2>1, ProductOK
    <3>2. calls'[t] = calls[t]
      OBVIOUS
    <3>3. QED
      BY <2>1, <3>1, <3>2
  <2> HIDE DEF sum
  <2>3. calls'[t] <= sum + (IF Called(t)' THEN 1 ELSE 0)
    BY <1>1, <2>2
  <2>4. QED
    BY <2>3 DEF sum
<1>4. QED
  BY <1>2, <1>3 DEF Inv

\* A new version with the status the event had.
LEMMA RewriteInv ==
  ASSUME Inv, TypeOK', NEW obj \in Object, Publish(obj), obj.status = event.status,
         obj.gen \in {event.gen, event.gen + 1},
         UNCHANGED <<pc, snap, work, todo, calls, acked, wasted, dropped>>,
         staleReads' = 0 => staleReads = 0
  PROVE  Inv'
<1>1. TypeOK /\ event \in Object /\ event.gen \in Nat /\ event.status.observed \in Nat
  BY ObjectFields DEF Inv, TypeOK
<1>2. event'.status = event.status /\ event'.gen = obj.gen
  BY DEF Publish, Object
<1>3. Claims(calls', acked', event')
  <2>1. Claims(calls, acked, event)
    BY DEF Inv, ViewOK, View
  <2>2. event.gen >= 1 /\ event.status.observed <= event.gen
    BY <2>1 DEF Claims
  <2>3. event'.gen >= 1 /\ event.status.observed <= event'.gen /\ (event'.gen = 1 => event.gen = 1)
    BY <1>1, <1>2, <2>2
  <2>4. QED
    BY <1>2, <2>1, <2>3 DEF Claims
<1>4. /\ View' \subseteq View \union {event'} /\ event'.rv > event.rv
      /\ event' = IF watch' = <<>> THEN cache' ELSE watch'[Len(watch')]
  BY <1>1, PublishView
<1>5. ViewOK'
  <2>1. Follows(event, event')
    <3>1. Closed(event, "Processed") /\ event'.gen = event.gen => Closed(event', "Processed")
      BY <1>2 DEF Closed
    <3>2. event.rv < event'.rv /\ event.gen <= event'.gen
      BY <1>1, <1>2, <1>4, ObjectFields DEF TypeOK
    <3>3. QED
      BY <3>1, <3>2 DEF Follows
  <2>2. QED
    BY <1>1, <1>3, <1>4, <2>1, NoCalls, ViewStep
<1>6. UpToDate'
  BY <1>2, <1>4 DEF Inv, UpToDate, Busy
<1>7. QED
  BY <1>2, <1>5, <1>6, AsideInv

\* A step that touches neither the object, nor the reconcile, nor OCI.
LEMMA IdleInv ==
  ASSUME Inv, TypeOK',
         UNCHANGED <<store, pc, snap, work, todo, calls, acked, wasted, dropped>>,
         staleReads' = 0 => staleReads = 0
  PROVE  Inv'
<1>1. View' \subseteq View
  BY DEF View, Held, store
<1>2. ViewOK'
  BY <1>1, NoCalls, ViewStep DEF Inv, store
<1>3. UpToDate'
  BY DEF Inv, UpToDate, Busy, store
<1>4. QED
  BY <1>2, <1>3, AsideInv DEF store

LEMMA WorldInv ==
  ASSUME Inv, TypeOK',
         EditSpec \/ DeleteEvent \/ EditTrigger \/ FunctionChanges \/ DeliverWatch \/ TimerFires
  PROVE  Inv'
<1>1. event \in Object /\ event.gen \in Nat /\ event.gen + 1 \in Nat
  BY ObjectFields DEF Inv, TypeOK
<1>2. CASE EditSpec
  <2>1. PICK s \in EventSpecs : Publish([event EXCEPT !.spec = s, !.gen = @ + 1])
    BY <1>2 DEF EditSpec
  <2> DEFINE obj == [event EXCEPT !.spec = s, !.gen = @ + 1]
  <2>2. obj \in Object /\ obj.status = event.status /\ obj.gen = event.gen + 1
    <3>1. [event EXCEPT !.spec = s] \in Object
      BY <1>1 DEF Object
    <3>2. [[event EXCEPT !.spec = s] EXCEPT !.gen = event.gen + 1] \in Object
      BY <1>1, <3>1 DEF Object
    <3>3. obj = [[event EXCEPT !.spec = s] EXCEPT !.gen = event.gen + 1]
      BY <1>1, Zenon DEF Object
    <3>4. QED
      BY <1>1, <3>2, <3>3 DEF Object
  <2>3. UNCHANGED <<pc, snap, work, todo, calls, acked, wasted, dropped, staleReads>>
    BY <1>2 DEF EditSpec, local, history, bounds
  <2> HIDE DEF obj
  <2>4. Publish(obj)
    BY <2>1 DEF obj
  <2>5. QED
    BY <2>2, <2>3, <2>4, RewriteInv
<1>3. CASE DeleteEvent
  <2> DEFINE obj == [event EXCEPT !.live = FALSE]
  <2>1. obj \in Object /\ obj.status = event.status /\ obj.gen = event.gen
    BY <1>1 DEF Object
  <2>2. Publish(obj) /\ UNCHANGED <<pc, snap, work, todo, calls, acked, wasted, dropped, staleReads>>
    BY <1>3 DEF DeleteEvent, local, history, bounds
  <2> HIDE DEF obj
  <2>3. QED
    BY <2>1, <2>2, RewriteInv
<1>4. CASE EditTrigger \/ FunctionChanges \/ TimerFires
  BY <1>4, IdleInv DEF EditTrigger, FunctionChanges, TimerFires, local, history, bounds
<1>5. CASE DeliverWatch
  <2>1. UNCHANGED <<event, pc, snap, work, todo, calls, acked, wasted, dropped>>
    BY <1>5 DEF DeliverWatch, local, history
  <2>2. View' \subseteq View /\ UpToDate'
    BY <1>5, DeliverView
  <2>3. ViewOK'
    BY <2>1, <2>2, NoCalls, ViewStep DEF Inv
  <2>4. QED
    BY <2>1, <2>2, <2>3, AsideInv
<1>6. QED
  BY <1>2, <1>3, <1>4, <1>5

\* What is counted, when what was called in this reconcile is not in a record.
LEMMA Uncounted ==
  ASSUME Inv, NEW t \in Triggers
  PROVE  /\ calls[t] <= event.status.invs[t].attempts + RetryLimit * dropped[t] + (wasted + 1)
         /\ ~ Called(t) =>
              calls[t] <= event.status.invs[t].attempts + RetryLimit * dropped[t] + wasted
<1>1. /\ calls[t] \in Nat /\ event.status.invs[t].attempts \in Nat /\ dropped[t] \in Nat
      /\ wasted \in Nat /\ RetryLimit * dropped[t] \in Nat
  BY ObjectFields, StatusFields, ProductOK DEF Inv, TypeOK
<1>2. calls[t] <= event.status.invs[t].attempts + RetryLimit * dropped[t] + wasted
                  + (IF Called(t) THEN 1 ELSE 0)
  BY DEF Inv, Counted
<1> DEFINE product == RetryLimit * dropped[t]
<1> HIDE DEF product
<1>3. calls[t] <= event.status.invs[t].attempts + product + wasted + (IF Called(t) THEN 1 ELSE 0)
  BY <1>2 DEF product
<1>4. product \in Nat
  BY <1>1 DEF product
<1>5. /\ calls[t] <= event.status.invs[t].attempts + product + (wasted + 1)
      /\ ~ Called(t) => calls[t] <= event.status.invs[t].attempts + product + wasted
  BY <1>1, <1>3, <1>4
<1>6. QED
  BY <1>5 DEF product

LEMMA CrashInv ==
  ASSUME Inv, TypeOK', Crash
  PROVE  Inv'
<1>1. /\ Return /\ UNCHANGED <<event, calls, acked, dropped>> /\ cache' = event /\ watch' = <<>>
      /\ wasted' = IF Busy THEN wasted + 1 ELSE wasted
  BY DEF Crash, Busy
<1>2. View' \subseteq View
  BY <1>1, SameView DEF Inv, Return, View, Held
<1>3. ViewOK'
  BY <1>1, <1>2, NoCalls, ViewStep DEF Inv
<1>4. ASSUME NEW t \in Triggers
      PROVE  calls[t] <= event'.status.invs[t].attempts + RetryLimit * dropped'[t] + wasted'
  <2>1. CASE Busy
    BY <1>1, <2>1, Uncounted
  <2>2. CASE ~ Busy
    BY <1>1, <2>2, Uncounted DEF Called
  <2>3. QED
    BY <2>1, <2>2
<1>5. QED
  BY <1>1, <1>3, <1>4, EndInv

\* A reconcile that does nothing but ask for another.
LEMMA TakeInv ==
  ASSUME Inv, TypeOK', NothingToDo \/ AwaitTTL
  PROVE  Inv'
<1>1. /\ TakeKey /\ UNCHANGED <<store, pc, snap, work, todo, calls, acked, wasted, dropped>>
      /\ staleReads' = 0 => staleReads = 0
  BY TakeType DEF NothingToDo, AwaitTTL, TakeKey, local, Inv
<1>2. QED
  BY <1>1, IdleInv

\* The TTL is over for the version that was read.
LEMMA ExpireInv ==
  ASSUME Inv, TypeOK', ExpireTTL
  PROVE  Inv'
<1>1. /\ TakeKey /\ UNCHANGED <<event, cache, watch, work, todo, calls, acked, wasted, dropped>>
      /\ pc = "idle" /\ pc' = "expire" /\ snap' = cache /\ Closed(cache, "Processed")
  BY DEF ExpireTTL, TakeKey, store
<1>2. ~ Busy /\ ~ Busy' /\ \A t \in Triggers : ~ Called(t) /\ ~ Called(t)'
  BY <1>1 DEF Busy, Called
<1>3. ViewOK'
  <2>1. View' \subseteq View
    BY <1>1, SameView DEF Inv, View
  <2>2. QED
    BY <1>1, <2>1, NoCalls, ViewStep DEF Inv
<1>4. WorkOK'
  <2>1. todo' = {}
    BY <1>1 DEF Inv, WorkOK
  <2>2. QED
    BY <1>1, <1>2, <2>1 DEF WorkOK
<1>5. Counted' /\ UpToDate'
  BY <1>1, <1>2 DEF Inv, Counted, UpToDate
<1>6. QED
  BY <1>3, <1>4, <1>5 DEF Inv

\* The delete takes what there is, and the reconcile is over.
LEMMA DeleteInv ==
  ASSUME Inv, TypeOK', DeleteExpired
  PROVE  Inv'
<1>1. /\ pc = "expire" /\ Return /\ UNCHANGED <<calls, acked, wasted, dropped, staleReads>>
      /\ TypeOK /\ event \in Object /\ event.gen \in Nat
  BY ObjectFields DEF DeleteExpired, history, bounds, Inv, TypeOK
<1>2. /\ ViewOK' /\ event'.status = event.status
      /\ event' = IF watch' = <<>> THEN cache' ELSE watch'[Len(watch')]
  <2>1. CASE UNCHANGED store
    <3>1. View' \subseteq View
      BY <1>1, <2>1, SameView DEF Return, View, store
    <3>2. ViewOK'
      BY <1>1, <2>1, <3>1, NoCalls, ViewStep DEF store
    <3>3. QED
      BY <2>1, <3>2 DEF Inv, UpToDate, store
  <2>2. CASE Publish([event EXCEPT !.live = FALSE])
    <3> DEFINE obj == [event EXCEPT !.live = FALSE]
    <3>1. /\ obj \in Object /\ Publish(obj)
          /\ event'.status = event.status /\ event'.gen = event.gen
      BY <1>1, <2>2 DEF Object, Publish
    <3> HIDE DEF obj
    <3>2. /\ View' \subseteq View \union {event'} /\ event'.rv > event.rv
          /\ event' = IF watch' = <<>> THEN cache' ELSE watch'[Len(watch')]
      BY <1>1, <3>1, PublishView DEF Return
    <3>3. Claims(calls', acked', event')
      <4>1. Claims(calls, acked, event)
        BY DEF Inv, ViewOK, View
      <4>2. QED
        BY <1>1, <3>1, <4>1 DEF Claims
    <3>4. Follows(event, event')
      <4>1. event.rv < event'.rv /\ event.gen <= event'.gen
        BY <1>1, <3>1, <3>2, ObjectFields DEF TypeOK
      <4>2. QED
        BY <3>1, <4>1 DEF Follows, Closed
    <3>5. QED
      BY <1>1, <3>1, <3>2, <3>3, <3>4, NoCalls, ViewStep
  <2>3. QED
    BY <2>1, <2>2 DEF DeleteExpired
<1>3. \A t \in Triggers : ~ Called(t)
  BY <1>1 DEF Called, Busy
<1>4. ASSUME NEW t \in Triggers
      PROVE  calls[t] <= event'.status.invs[t].attempts + RetryLimit * dropped'[t] + wasted'
  BY <1>1, <1>2, <1>3, Uncounted
<1>5. QED
  BY <1>1, <1>2, <1>4, EndInv

\* A record the loop goes on with has attempts left.
LEMMA Unsettled ==
  ASSUME NEW c, NEW a, NEW t, NEW inv \in Invocation, RecordOK(c, a, t, inv), ~ Settled(inv)
  PROVE  inv.attempts < RetryLimit
BY ConstantsOK DEF RecordOK, Settled, Invocation, InvPhases

LEMMA StartInv ==
  ASSUME Inv, TypeOK', StartUnmatched \/ StartRound
  PROVE  Inv'
<1>1. /\ TakeKey /\ NeedsRouting(cache) /\ UNCHANGED <<store, timer>>
      /\ snap' = cache /\ work' \in Status /\ work'.observed = cache.gen
      /\ \A t \in Triggers : \/ work'.invs[t] = None
                             \/ cache.status.invs[t] = None /\ work'.invs[t] = Fresh
                             \/ work'.invs[t] = cache.status.invs[t]
      /\ todo' \subseteq Named(work'.invs)
      /\ \A t \in todo' : ~ Settled(work'.invs[t])
      /\ \/ /\ pc' = "write" /\ todo' = {} /\ work'.phase = "Processed"
            /\ work'.invs = NoRecords
         \/ pc' = "invoke" /\ work'.phase = cache.status.phase
  BY StartWork DEF Inv
<1>2. /\ ~ Busy /\ pc = "idle"
      /\ UNCHANGED <<event, cache, watch, calls, acked, wasted, dropped>>
      /\ staleReads' = 0 => staleReads = 0 /\ watch = <<>>
  BY <1>1, TakeType DEF TakeKey, store, Inv, Busy
<1>3. ViewOK'
  <2>1. View' \subseteq View
    BY <1>1, <1>2, SameView DEF Inv, View
  <2>2. QED
    BY <1>2, <2>1, NoCalls, ViewStep DEF Inv
<1>4. /\ cache \in Object /\ cache.gen \in Nat /\ cache.status \in Status
      /\ cache.status.observed \in Nat /\ Claims(calls, acked, cache)
  BY ObjectFields DEF Inv, TypeOK, ViewOK, View
<1>5. ASSUME NEW t \in Triggers
      PROVE  /\ cache.status.invs[t].attempts \in Nat /\ calls[t] \in Nat
             /\ work'.invs[t] = None \/ work'.invs[t].attempts = cache.status.invs[t].attempts
             /\ work'.invs[t].attempts # cache.status.invs[t].attempts + 1
             /\ RecordOK(calls, acked, t, work'.invs[t])
  <2>1. cache.status.invs[t].attempts \in Nat /\ calls[t] \in Nat
    BY <1>4, StatusFields DEF Inv, TypeOK
  <2>2. RecordOK(calls, acked, t, cache.status.invs[t])
    BY <1>4 DEF Claims, RecordsOK
  <2>3. RecordOK(calls, acked, t, None) /\ RecordOK(calls, acked, t, Fresh)
    BY <2>1, NoneOK, ConstantsOK DEF RecordOK
  <2>4. QED
    BY <1>1, <2>1, <2>2, <2>3, NoneOK
<1>6. ASSUME NEW t \in todo'
      PROVE  /\ work'.invs[t].attempts = cache.status.invs[t].attempts
             /\ cache.status.invs[t].phase # "Succeeded"
  <2>1. t \in Triggers /\ work'.invs[t] # None /\ ~ Settled(work'.invs[t])
    BY <1>1 DEF Named
  <2>2. \/ cache.status.invs[t] = None
        \/ work'.invs[t] = cache.status.invs[t]
    BY <1>1, <2>1
  <2>3. QED
    BY <1>5, <2>1, <2>2, NoneOK DEF Settled
<1>7. WorkOK'
  <2>1. RecordsOK(calls', acked', work'.invs)
    BY <1>2, <1>5 DEF RecordsOK
  <2>2. \A t \in Triggers : \/ work'.invs[t] = None
                            \/ work'.invs[t].attempts = snap'.status.invs[t].attempts
    BY <1>1, <1>5
  <2>3. \A t \in todo' : /\ work'.invs[t].attempts = snap'.status.invs[t].attempts
                         /\ ~ Settled(work'.invs[t])
                         /\ snap'.status.invs[t].phase # "Succeeded"
    BY <1>1, <1>6
  <2>4. ASSUME pc' = "invoke", snap'.gen = 1 PROVE ~ IsTerminal(work')
    <3>1. work'.phase = cache.status.phase /\ cache.gen = 1
      BY <1>1, <2>4
    <3>2. cache.status.observed = 0 \/ cache.status.observed = 1
      <4>1. cache.status.observed <= cache.gen
        BY <1>4 DEF Claims
      <4>2. QED
        BY <1>4, <3>1, <4>1
    <3>3. CASE cache.status.observed = 0
      BY <1>4, <3>1, <3>3 DEF Claims, IsTerminal
    <3>4. CASE cache.status.observed = 1
      BY <1>1, <3>1, <3>4 DEF NeedsRouting, Closed, IsTerminal
    <3>5. QED
      BY <3>2, <3>3, <3>4
  <2>5. pc' = "write" => Earned(work')
    <3>1. SUFFICES ASSUME work'.phase = "Processed", work'.invs = NoRecords PROVE Earned(work')
      BY <1>1
    <3>2. QED
      BY <3>1, NothingOK DEF Earned
  <2>6. todo' # {} => pc' = "invoke"
    BY <1>1
  <2>7. QED
    BY <1>1, <2>1, <2>2, <2>3, <2>4, <2>5, <2>6 DEF WorkOK
<1>8. Counted'
  <2>1. \A t \in Triggers : ~ Called(t) /\ ~ Called(t)'
    BY <1>1, <1>2, <1>5 DEF Called
  <2>2. QED
    BY <1>2, <2>1 DEF Inv, Counted
<1>9. UpToDate'
  BY <1>1, <1>2 DEF Inv, UpToDate
<1>10. QED
  BY <1>3, <1>7, <1>8, <1>9 DEF Inv

\* The loop is at a trigger: its record changes, and no other.
LEMMA ReachInv ==
  ASSUME Inv, TypeOK', NEW t \in Triggers, Reach(t), NEW inv \in Invocation, inv.phase # "none",
         work' = [work EXCEPT !.invs = [work.invs EXCEPT ![t] = inv]],
         UNCHANGED <<store, pc, snap, wasted, dropped, bounds>>,
         Grown(calls, acked, calls', acked'), RecordOK(calls', acked', t, inv),
         \A u \in Triggers : u # t => calls'[u] = calls[u],
         \/ inv.attempts = work.invs[t].attempts /\ calls'[t] = calls[t]
         \/ inv.attempts = work.invs[t].attempts + 1 /\ calls'[t] = calls[t] + 1
  PROVE  Inv'
<1>1. TypeOK /\ Busy /\ pc = "invoke" /\ snap \in View
  BY DEF Inv, Reach, Busy, View, Held
<1>2. /\ work' \in Status /\ work'.phase = work.phase /\ work'.observed = work.observed
      /\ work'.invs[t] = inv
      /\ \A u \in Triggers : u # t => work'.invs[u] = work.invs[u]
      /\ t \in todo /\ todo' = todo \ {t} /\ todo \subseteq Triggers
  BY <1>1, ReachWork DEF TypeOK, Named
<1>3. ViewOK'
  <2>1. View' \subseteq View
    BY DEF View, Held, store
  <2>2. QED
    BY <2>1, ViewStep DEF store
<1>4. RecordsOK(calls', acked', work'.invs)
  <2> SUFFICES ASSUME NEW u \in Triggers, u # t PROVE RecordOK(calls', acked', u, work'.invs[u])
    BY <1>2 DEF RecordsOK
  <2>1. RecordsOK(calls, acked, work.invs) /\ work \in Status
    BY <1>1 DEF Inv, WorkOK, TypeOK
  <2>2. RecordsOK(calls', acked', work.invs)
    BY <1>1, <2>1, ClaimsGrow DEF TypeOK
  <2>3. QED
    BY <1>2, <2>2 DEF RecordsOK
<1>5. /\ work.invs[t].attempts = snap.status.invs[t].attempts
      /\ snap.status.invs[t].attempts \in Nat
  BY <1>1, <1>2, ObjectFields, StatusFields DEF Inv, WorkOK, TypeOK
<1>6. ~ Called(t) /\ \A u \in Triggers : u # t => (Called(u)' <=> Called(u))
  BY <1>2, <1>5 DEF Called, Busy
<1>7. WorkOK'
  <2>1. \A u \in Triggers :
           \/ work'.invs[u] = None
           \/ work'.invs[u].attempts = snap'.status.invs[u].attempts
           \/ Called(u)'
    <3>1. SUFFICES ASSUME NEW u \in Triggers
                   PROVE  \/ work'.invs[u] = None
                          \/ work'.invs[u].attempts = snap'.status.invs[u].attempts
                          \/ Called(u)'
      OBVIOUS
    <3>2. CASE u = t
      BY <1>1, <1>2, <1>5, <3>2 DEF Called, Busy
    <3>3. CASE u # t
      BY <1>1, <1>2, <1>6, <3>3 DEF Inv, WorkOK
    <3>4. QED
      BY <3>2, <3>3
  <2>2. \A u \in todo' : /\ work'.invs[u].attempts = snap'.status.invs[u].attempts
                         /\ ~ Settled(work'.invs[u])
                         /\ snap'.status.invs[u].phase # "Succeeded"
    BY <1>1, <1>2 DEF Inv, WorkOK
  <2>3. IsTerminal(work') <=> IsTerminal(work)
    BY <1>2 DEF IsTerminal
  <2>4. QED
    BY <1>1, <1>2, <1>4, <2>1, <2>2, <2>3 DEF Inv, WorkOK
<1>8. Counted'
  <2> SUFFICES ASSUME NEW u \in Triggers
               PROVE  calls'[u] <= event'.status.invs[u].attempts + RetryLimit * dropped'[u] + wasted'
                                   + (IF Called(u)' THEN 1 ELSE 0)
    BY DEF Counted
  <2>1. event' = event /\ UNCHANGED <<dropped, wasted>>
    BY DEF store
  <2>2. CASE u # t
    BY <1>6, <2>1, <2>2 DEF Inv, Counted
  <2>3. CASE u = t
    <3> DEFINE sum == event.status.invs[t].attempts + RetryLimit * dropped[t] + wasted
    <3>1. sum \in Nat /\ calls[t] \in Nat
      <4>1. /\ calls[t] \in Nat /\ event.status.invs[t].attempts \in Nat /\ dropped[t] \in Nat
            /\ wasted \in Nat /\ RetryLimit * dropped[t] \in Nat
        BY ObjectFields, StatusFields, ProductOK DEF Inv, TypeOK
      <4> DEFINE product == RetryLimit * dropped[t]
      <4> HIDE DEF product
      <4>2. product \in Nat
        BY <4>1 DEF product
      <4>3. event.status.invs[t].attempts + product + wasted \in Nat
        BY <4>1, <4>2
      <4>4. QED
        BY <4>1, <4>3 DEF product
    <3>2. calls[t] <= sum
      BY <1>6, Uncounted
    <3> HIDE DEF sum
    <3>3. calls'[t] <= sum + (IF Called(t)' THEN 1 ELSE 0)
      <4>1. CASE calls'[t] = calls[t]
        BY <3>1, <3>2, <4>1
      <4>2. CASE inv.attempts = work.invs[t].attempts + 1 /\ calls'[t] = calls[t] + 1
        <5>1. Called(t)'
          BY <1>1, <1>2, <1>5, <4>2 DEF Called, Busy
        <5>2. QED
          BY <3>1, <3>2, <4>2, <5>1
      <4>3. QED
        BY <4>1, <4>2
    <3>4. QED
      BY <2>1, <2>3, <3>3 DEF sum
  <2>4. QED
    BY <2>2, <2>3
<1>9. UpToDate'
  BY DEF Inv, UpToDate, Busy, store, bounds
<1>10. QED
  BY <1>3, <1>7, <1>8, <1>9 DEF Inv

LEMMA LoopInv ==
  ASSUME Inv, TypeOK', NEW t \in Triggers,
         WaitForFunction(t) \/ \E ok \in BOOLEAN : Attempt(t, ok)
  PROVE  Inv'
<1>1. TypeOK /\ Busy /\ t \in todo
  BY DEF Inv, WaitForFunction, Attempt, Reach, Busy
<1>2. /\ work.invs[t] \in Invocation /\ work.invs[t].attempts \in Nat
      /\ calls \in [Triggers -> Nat] /\ calls[t] \in Nat
  BY <1>1, StatusFields DEF TypeOK
<1>3. RecordOK(calls, acked, t, work.invs[t]) /\ ~ Settled(work.invs[t])
  BY <1>1 DEF Inv, WorkOK, RecordsOK
<1>4. work.invs[t].attempts < RetryLimit
  BY <1>2, <1>3, Unsettled
<1>5. CASE WaitForFunction(t)
  <2> DEFINE inv == [phase |-> "Pending", attempts |-> work.invs[t].attempts]
  <2>1. inv \in Invocation /\ work' = [work EXCEPT !.invs = [work.invs EXCEPT ![t] = inv]]
    BY <1>1, <1>5, WaitWork
  <2>2. inv.phase = "Pending" /\ inv.attempts = work.invs[t].attempts
    OBVIOUS
  <2>3. Reach(t) /\ UNCHANGED <<store, pc, snap, calls, acked, wasted, dropped, bounds>>
    BY <1>5 DEF WaitForFunction, history
  <2> HIDE DEF inv
  <2>4. RecordOK(calls', acked', t, inv)
    BY <1>3, <1>4, <2>2, <2>3 DEF RecordOK
  <2>5. Grown(calls, acked, calls', acked')
    BY <1>1, <2>3, NoCalls
  <2>6. inv.phase # "none"
    BY <2>2
  <2>7. QED
    BY <2>1, <2>2, <2>3, <2>4, <2>5, <2>6, ReachInv
<1>6. ASSUME NEW ok \in BOOLEAN, Attempt(t, ok)
      PROVE  Inv'
  <2> DEFINE inv == AfterAttempt(work.invs[t], ok)
  <2>1. /\ inv \in Invocation /\ inv.phase # "none"
        /\ work' = [work EXCEPT !.invs = [work.invs EXCEPT ![t] = inv]]
    BY <1>1, <1>6, AttemptWork
  <2>2. /\ inv.attempts = work.invs[t].attempts + 1
        /\ inv.phase = IF ok THEN "Succeeded"
                       ELSE IF work.invs[t].attempts + 1 >= RetryLimit THEN "Failed" ELSE "Pending"
    BY <1>2, AfterAttemptOK
  <2>3. /\ Reach(t) /\ UNCHANGED <<store, pc, snap, wasted, dropped, bounds>>
        /\ calls' = [calls EXCEPT ![t] = calls[t] + 1]
        /\ acked' = IF ok THEN acked \union {t} ELSE acked
    BY <1>6 DEF Attempt
  <2> HIDE DEF inv
  <2>4. /\ calls'[t] = calls[t] + 1 /\ \A u \in Triggers : u # t => calls'[u] = calls[u]
        /\ acked \subseteq acked' /\ (ok => t \in acked')
    BY <1>2, <2>3
  <2>5. Grown(calls, acked, calls', acked')
    BY <1>2, <2>4 DEF Grown
  <2>6. RecordOK(calls', acked', t, inv)
    <3>1. inv.attempts <= RetryLimit /\ inv.attempts <= calls'[t]
      BY <1>2, <1>3, <1>4, <2>2, <2>4, ConstantsOK DEF RecordOK
    <3>2. /\ inv.phase = "Pending" => inv.attempts < RetryLimit
          /\ inv.phase = "Failed" => inv.attempts = RetryLimit
      BY <1>2, <1>4, <2>2, ConstantsOK
    <3>3. inv.phase = "Succeeded" => t \in acked'
      BY <2>2, <2>4
    <3>4. QED
      BY <2>1, <3>1, <3>2, <3>3 DEF RecordOK
  <2>7. QED
    BY <2>1, <2>2, <2>3, <2>4, <2>5, <2>6, ReachInv
<1>7. QED
  BY <1>5, <1>6

LEMMA EndRoundInv ==
  ASSUME Inv, TypeOK', EndRound
  PROVE  Inv'
<1>1. /\ work' \in Status /\ work'.observed = work.observed /\ work'.invs = work.invs
      /\ work'.phase = IF IsTerminal(work) THEN work.phase ELSE Summarize(work.invs)
  BY EndWork DEF Inv
<1>2. /\ pc = "invoke" /\ pc' = "write" /\ todo = {} /\ todo' = {}
      /\ UNCHANGED <<store, snap, calls, acked, wasted, dropped, staleReads>>
  BY DEF EndRound, history, bounds
<1>3. ViewOK'
  <2>1. View' \subseteq View
    BY <1>2 DEF View, Held, store
  <2>2. QED
    BY <1>2, <2>1, NoCalls, ViewStep DEF Inv, store
<1>4. ASSUME snap.gen = 1 PROVE Earned(work')
  <2>1. work'.phase = Summarize(work.invs)
    BY <1>1, <1>2, <1>4 DEF Inv, WorkOK, Busy
  <2>2. QED
    BY <1>1, <2>1 DEF Earned, Summarize
<1>5. \A t \in Triggers : Called(t)' <=> Called(t)
  BY <1>1, <1>2 DEF Called, Busy
<1>6. WorkOK'
  BY <1>1, <1>2, <1>4, <1>5 DEF Inv, WorkOK, Busy
<1>7. Counted' /\ UpToDate'
  BY <1>2, <1>5 DEF Inv, Counted, UpToDate, Busy, store
<1>8. QED
  BY <1>3, <1>6, <1>7 DEF Inv

LEMMA WriteInv ==
  ASSUME Inv, TypeOK', WriteStatus
  PROVE  Inv'
<1>1. /\ TypeOK /\ Busy /\ pc = "write" /\ event \in Object /\ snap \in View
      /\ event.rv = snap.rv
  BY DEF Inv, TypeOK, WriteStatus, WriteAccepted, Busy, View, Held
<1>2. event = snap
  BY <1>1, ObjectFields DEF Inv, ViewOK, Known, Follows
<1> DEFINE obj == [event EXCEPT !.status = work]
<1>3. obj \in Object /\ Publish(obj) /\ Return
  BY <1>1 DEF WriteStatus, Object, TypeOK
<1>4. /\ event'.status = work /\ event'.gen = event.gen
      /\ UNCHANGED <<calls, acked, wasted>>
  BY <1>1 DEF WriteStatus, Publish, Object
<1>5. \A t \in Triggers : dropped'[t] =
        IF t \in Named(event.status.invs) \ Named(work.invs) THEN dropped[t] + 1 ELSE dropped[t]
  BY DEF WriteStatus
<1> HIDE DEF obj
<1>6. /\ RecordsOK(calls, acked, work.invs) /\ work.observed = event.gen
      /\ (event.gen = 1 => Earned(work)) /\ event.gen >= 1 /\ event.gen \in Nat
  BY <1>1, <1>2, ObjectFields DEF Inv, WorkOK, ViewOK, Claims
<1>7. Claims(calls', acked', event')
  <2>1. work.observed # 0 /\ work.observed <= event.gen
    BY <1>6
  <2>2. QED
    BY <1>4, <1>6, <2>1 DEF Claims
<1>8. /\ View' \subseteq View \union {event'} /\ event'.rv > event.rv
      /\ event' = IF watch' = <<>> THEN cache' ELSE watch'[Len(watch')]
  BY <1>1, <1>3, PublishView DEF Return
<1>9. ViewOK'
  <2>1. ~ Closed(event, "Processed")
    BY <1>1, <1>2 DEF Inv, WorkOK, NeedsRouting
  <2>2. event.rv < event'.rv /\ event.gen <= event'.gen
    BY <1>1, <1>4, <1>6, <1>8, ObjectFields DEF TypeOK
  <2>3. Follows(event, event')
    BY <2>1, <2>2 DEF Follows
  <2>4. QED
    BY <1>1, <1>4, <1>7, <1>8, <2>3, NoCalls, ViewStep
<1>10. ASSUME NEW t \in Triggers
       PROVE  calls[t] <= event'.status.invs[t].attempts + RetryLimit * dropped'[t] + wasted'
  <2> DEFINE old     == event.status.invs[t]
             new     == work.invs[t]
             product == RetryLimit * dropped[t]
  <2>1. /\ old.attempts \in Nat /\ new.attempts \in Nat /\ product \in Nat
        /\ calls[t] \in Nat /\ wasted \in Nat /\ dropped[t] \in Nat
        /\ RetryLimit * (dropped[t] + 1) = product + RetryLimit
    BY <1>1, ObjectFields, StatusFields, ProductOK DEF TypeOK
  <2>2. calls[t] <= old.attempts + product + wasted + (IF Called(t) THEN 1 ELSE 0)
    BY DEF Inv, Counted
  <2>3. RecordOK(calls, acked, t, old) /\ old.attempts <= RetryLimit
    BY <1>1, <1>2 DEF Inv, ViewOK, Claims, RecordsOK, RecordOK
  <2>4. Called(t) <=> new.attempts = old.attempts + 1
    BY <1>1, <1>2 DEF Called
  <2>5. new = None \/ new.attempts = old.attempts \/ Called(t)
    BY <1>1, <1>2 DEF Inv, WorkOK
  <2>6. CASE new = None /\ old # None
    <3>1. dropped'[t] = dropped[t] + 1 /\ new.attempts = 0
      BY <1>5, <2>6, NoneOK DEF Named
    <3> HIDE DEF old, new, product
    <3>2. ~ Called(t)
      BY <2>1, <2>4, <3>1
    <3>3. calls[t] <= 0 + (product + RetryLimit) + wasted
      BY <2>1, <2>2, <2>3, <3>2, ConstantsOK
    <3>4. QED
      BY <1>4, <2>1, <3>1, <3>3 DEF new
  <2>7. CASE new # None \/ old = None
    <3>1. dropped'[t] = dropped[t]
      BY <1>5, <2>7 DEF Named
    <3>2. new = None => old.attempts = 0 /\ new.attempts = 0
      BY <2>7, NoneOK
    <3> HIDE DEF old, new, product
    <3>3. calls[t] <= new.attempts + product + wasted
      BY <2>1, <2>2, <2>4, <2>5, <3>2
    <3>4. QED
      BY <1>4, <3>1, <3>3 DEF new, product
  <2>8. QED
    BY <2>6, <2>7
<1>11. QED
  BY <1>3, <1>4, <1>8, <1>9, <1>10, EndInv

LEMMA NoWriteInv ==
  ASSUME Inv, TypeOK', SkipWrite \/ WriteRefused
  PROVE  Inv'
<1>1. /\ Return /\ UNCHANGED <<store, calls, acked, dropped>> /\ TypeOK
      /\ wasted' = wasted \/ wasted' = wasted + 1
  BY DEF SkipWrite, WriteRefused, history, Inv
<1>2. View' \subseteq View
  BY <1>1 DEF Return, View, Held, store
<1>3. ViewOK'
  BY <1>1, <1>2, NoCalls, ViewStep DEF store
<1>4. event' = IF watch' = <<>> THEN cache' ELSE watch'[Len(watch')]
  BY <1>1 DEF Inv, UpToDate, store
<1>5. ASSUME NEW t \in Triggers
      PROVE  calls[t] <= event'.status.invs[t].attempts + RetryLimit * dropped'[t] + wasted'
  <2>1. CASE SkipWrite
    <3>1. work = snap.status /\ wasted' = wasted
      BY <2>1 DEF SkipWrite, history
    <3>2. snap.status.invs[t].attempts \in Nat
      BY <1>1, ObjectFields, StatusFields DEF TypeOK
    <3>3. ~ Called(t)
      BY <3>1, <3>2 DEF Called
    <3>4. QED
      BY <1>1, <3>1, <3>3, Uncounted DEF store
  <2>2. CASE WriteRefused
    BY <1>1, <2>2, Uncounted DEF WriteRefused, store
  <2>3. QED
    BY <2>1, <2>2
<1>6. QED
  BY <1>1, <1>3, <1>4, <1>5, EndInv

LEMMA NextInv == Inv /\ [Next]_vars => Inv'
<1> SUFFICES ASSUME Inv, [Next]_vars PROVE Inv'
  OBVIOUS
<1>1. TypeOK'
  <2>1. Typed
    <3>1. event \in Object /\ Claims(calls, acked, event)
      BY DEF Inv, TypeOK, ViewOK, View
    <3>2. QED
      BY <3>1 DEF Claims, Inv, Typed
  <2>2. QED
    BY <2>1, TypeStep DEF Typed
<1>2. CASE UNCHANGED vars
  BY <1>1, <1>2, IdleInv DEF vars, store
<1>3. QED
  BY <1>1, <1>2, WorldInv, CrashInv, TakeInv, ExpireInv, DeleteInv, StartInv, LoopInv, EndRoundInv,
     WriteInv, NoWriteInv DEF Next, Environment, Controller

LEMMA InitInv == Init => Inv
<1> SUFFICES ASSUME Init PROVE Inv
  OBVIOUS
<1>1. TypeOK /\ ~ Busy /\ pc = "idle" /\ todo = {}
  BY TypeInit DEF Typed, Init, Busy
<1>2. /\ event.status = NoStatus /\ event.gen = 1 /\ cache = event /\ watch = <<>>
      /\ calls = [t \in Triggers |-> 0] /\ wasted = 0 /\ dropped = [t \in Triggers |-> 0]
  BY DEF Init
<1>3. View = {event}
  BY <1>1, <1>2 DEF View, Held
<1>4. NoStatus.invs = NoRecords /\ NoStatus.observed = 0 /\ NoStatus.phase = ""
  BY DEF NoStatus
<1>5. \A t \in Triggers : NoRecords[t] = None
  BY DEF NoRecords
<1>6. Claims(calls, acked, event)
  <2>1. \A t \in Triggers : RecordOK(calls, acked, t, None)
    BY <1>2, NoneOK, ConstantsOK DEF RecordOK
  <2>2. RecordsOK(calls, acked, NoRecords)
    BY <1>5, <2>1 DEF RecordsOK
  <2>3. Earned(NoStatus)
    BY <1>4 DEF Earned
  <2>4. event.gen >= 1 /\ 0 <= event.gen
    BY <1>2
  <2>5. QED
    BY <1>2, <1>4, <2>2, <2>3, <2>4 DEF Claims
<1>7. ViewOK
  <2>1. event.rv <= event.rv
    BY <1>1, ObjectFields DEF TypeOK
  <2>2. QED
    BY <1>3, <1>6, <2>1 DEF ViewOK, Known
<1>8. WorkOK /\ UpToDate
  BY <1>1, <1>2 DEF WorkOK, UpToDate
<1>9. Counted
  <2>1. \A t \in Triggers : ~ Called(t) /\ event.status.invs[t].attempts = 0
    BY <1>1, <1>2, <1>4, <1>5, NoneOK DEF Called
  <2>2. RetryLimit * 0 = 0
    BY ConstantsOK
  <2>3. QED
    BY <1>2, <2>1, <2>2 DEF Counted
<1>10. QED
  BY <1>1, <1>7, <1>8, <1>9 DEF Inv

\* Records, calls and counters stay in step, whatever dies, is refused or comes late.
THEOREM Invariance == Spec => []Inv
BY InitInv, NextInv, PTL DEF Spec
-----------------------------------------------------------------------------
(* What follows from it.                                                   *)

\* A verdict of the first generation is earned, for any triggers and retry limit.
THEOREM EarnedVerdict == Spec => []VerdictIsEarned
<1>1. Inv => VerdictIsEarned
  <2> SUFFICES ASSUME Inv, event.gen = 1 PROVE
         /\ Verdict("Processed") => Named(event.status.invs) \subseteq acked
         /\ Verdict("Failed") =>
              \E t \in Named(event.status.invs) :
                event.status.invs[t].phase = "Failed" /\ calls[t] >= RetryLimit
    BY DEF VerdictIsEarned
  <2>1. Earned(event.status) /\ RecordsOK(calls, acked, event.status.invs)
    BY DEF Inv, ViewOK, View, Claims
  <2>2. Verdict("Processed") => Named(event.status.invs) \subseteq acked
    BY <2>1 DEF Verdict, Earned, RecordsOK, RecordOK, Named
  <2>3. ASSUME Verdict("Failed")
        PROVE  \E t \in Named(event.status.invs) :
                 event.status.invs[t].phase = "Failed" /\ calls[t] >= RetryLimit
    <3>1. PICK t \in Named(event.status.invs) : event.status.invs[t].phase = "Failed"
      BY <2>1, <2>3 DEF Verdict, Earned
    <3>2. t \in Triggers
      BY DEF Named
    <3>3. RetryLimit <= calls[t]
      BY <2>1, <3>1, <3>2 DEF RecordsOK, RecordOK
    <3>4. calls[t] \in Nat
      BY <3>2 DEF Inv, TypeOK
    <3>5. QED
      BY <3>1, <3>3, <3>4, ConstantsOK
  <2>4. QED
    BY <2>2, <2>3
<1>2. QED
  BY <1>1, Invariance, PTL

\* The attempts of a trigger stay within their budget, for any number of crashes,
\* conflicts and edits.
THEOREM Budgeted == Spec => []AttemptBudget
<1>1. Inv => AttemptBudget
  <2> SUFFICES ASSUME Inv, NEW t \in Triggers
               PROVE  calls[t] <= RetryLimit * (1 + dropped[t]) + wasted
                                  + (IF Busy THEN 1 ELSE 0)
    BY DEF AttemptBudget
  <2> DEFINE product == RetryLimit * dropped[t]
  <2>1. /\ calls[t] \in Nat /\ event.status.invs[t].attempts \in Nat /\ dropped[t] \in Nat
        /\ wasted \in Nat /\ product \in Nat
        /\ RetryLimit * (dropped[t] + 1) = product + RetryLimit
    BY ObjectFields, StatusFields, ProductOK DEF Inv, TypeOK
  <2>2. RetryLimit * (1 + dropped[t]) = product + RetryLimit
    <3>1. 1 + dropped[t] = dropped[t] + 1
      BY <2>1
    <3>2. QED
      BY <2>1, <3>1
  <2>3. event.status.invs[t].attempts <= RetryLimit
    BY DEF Inv, ViewOK, View, Claims, RecordsOK, RecordOK
  <2>4. calls[t] <= event.status.invs[t].attempts + product + wasted
                    + (IF Called(t) THEN 1 ELSE 0)
    BY DEF Inv, Counted
  <2>5. Called(t) => Busy
    BY DEF Called
  <2> HIDE DEF product
  <2>6. calls[t] <= product + RetryLimit + wasted + (IF Busy THEN 1 ELSE 0)
    BY <2>1, <2>3, <2>4, <2>5, ConstantsOK
  <2>7. QED
    BY <2>2, <2>6
<1>2. QED
  BY <1>1, Invariance, PTL

\* The steps that call OCI, for a trigger the loop had not reached.
LEMMA CallStep ==
  ASSUME Inv, Next, NEW t \in Triggers, calls'[t] # calls[t]
  PROVE  t \in todo /\ Busy
<1>1. PICK u \in Triggers, ok \in BOOLEAN : Attempt(u, ok)
  BY DEF Next, Environment, Controller, EditSpec, DeleteEvent, EditTrigger, FunctionChanges, Crash,
     DeliverWatch, TimerFires, NothingToDo, AwaitTTL, ExpireTTL, DeleteExpired, StartUnmatched, StartRound,
     WaitForFunction, EndRound, SkipWrite, WriteStatus, WriteRefused, TakeKey, history
<1>2. calls' = [calls EXCEPT ![u] = calls[u] + 1] /\ Reach(u)
  BY <1>1 DEF Attempt
<1>3. t = u
  BY <1>2 DEF Inv, TypeOK
<1>4. QED
  BY <1>2, <1>3 DEF Reach, Busy

\* While no read was stale, OCI is not called for a success that is persisted.
THEOREM NeverReinvoked == Spec => SucceededNeverReinvoked
<1>1. Inv /\ [Next]_vars =>
        [staleReads = 0 => \A t \in Triggers : RecordedSuccess(t) => calls'[t] = calls[t]]_vars
  <2>1. SUFFICES ASSUME Inv, Next, staleReads = 0, NEW t \in Triggers, RecordedSuccess(t),
                        calls'[t] # calls[t]
                 PROVE  FALSE
    OBVIOUS
  <2>2. t \in todo /\ Busy
    BY <2>1, CallStep
  <2>3. snap.status.invs[t].phase # "Succeeded" /\ snap.status = event.status
    BY <2>1, <2>2 DEF Inv, WorkOK, UpToDate
  <2>4. QED
    BY <2>1, <2>3 DEF RecordedSuccess
<1>2. QED
  BY <1>1, Invariance, PTL DEF Spec, SucceededNeverReinvoked

\* The TTL is applied to a processed generation, as long as no read was stale, and
\* what the delete takes is such a one, or was edited after it was read.
THEOREM ExpiresOnlyProcessed == Spec => OnlyProcessedExpires
<1>1. ASSUME Inv, [Next]_vars, pc = "idle", pc' = "expire", staleReads' = 0
      PROVE  Verdict("Processed")
  <2>1. ExpireTTL
    BY <1>1 DEF Next, Environment, Controller, EditSpec, DeleteEvent, EditTrigger, FunctionChanges,
       Crash, Return, DeliverWatch, TimerFires, NothingToDo, AwaitTTL, DeleteExpired, StartUnmatched,
       StartRound, WaitForFunction, Attempt, Reach, EndRound, SkipWrite, WriteStatus, WriteRefused, vars
  <2>2. Closed(cache, "Processed") /\ watch = <<>>
    BY <1>1, <2>1, TakeType DEF ExpireTTL, Inv
  <2>3. cache = event
    BY <1>1, <2>2 DEF Inv, UpToDate
  <2>4. QED
    BY <2>2, <2>3 DEF Closed, Verdict
<1>2. ASSUME Inv, [Next]_vars, pc = "expire", event.live, ~ event'.live, pc' = "idle"
      PROVE  Verdict("Processed") \/ event.gen > snap.gen
  <2>1. snap \in View /\ snap \in Object /\ event \in Object
    BY <1>2 DEF View, Held, Inv, TypeOK
  <2>2. Known(snap) /\ Closed(snap, "Processed")
    BY <1>2, <2>1 DEF Inv, ViewOK, WorkOK
  <2>3. snap.gen \in Nat /\ event.gen \in Nat
    BY <2>1, ObjectFields
  <2>4. QED
    BY <2>2, <2>3 DEF Known, Follows, Closed, Verdict
<1>3. Inv /\ [Next]_vars =>
        [/\ pc = "idle" /\ pc' = "expire" /\ event.live /\ staleReads' = 0
              => Verdict("Processed")
         /\ pc = "expire" /\ event.live /\ ~ event'.live /\ pc' = "idle"
              => Verdict("Processed") \/ event.gen > snap.gen]_vars
  BY <1>1, <1>2
<1>4. QED
  BY <1>3, Invariance, PTL DEF Spec, OnlyProcessedExpires
=============================================================================
