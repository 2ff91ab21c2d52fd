------------------------- MODULE SysOrchestrdProofs -------------------------
(***************************************************************************)
(* Proofs about SysOrchestrd: the types, and in unit mode the fuse and the *)
(* reported state, for every threshold, channel capacity and number of     *)
(* events.                                                                 *)
(***************************************************************************)
EXTENDS SysOrchestrd, TLAPS

USE ConstantsAssumption

-----------------------------------------------------------------------------
(* Types. *)

(* The lists a call works through hold only names the daemon may come to    *)
(* use (reverseServiceOrder, startOrderForGroupUnits).                      *)
LEMMA ListsTyped ==
  /\ Members \in Seq(Names)
  /\ StartOrder \in Seq(Names)
  /\ Reverse(Members) \in Seq(Names)
  /\ Reverse(<<>>) = <<>>
  /\ Members[1] \in Names
  /\ \A s \in {<<>>, Members, StartOrder, Reverse(Members)} : s \in Seq(Names)
<1>1. Members \in Seq(Names) /\ StartOrder \in Seq(Names)
  BY DEF Names, ToSet
<1>2. Reverse(Members) \in Seq(Names)
  BY <1>1 DEF Reverse
<1>3. Reverse(<<>>) = <<>>
  BY DEF Reverse
<1>4. Members[1] \in Names
  BY DEF Names, ToSet
<1>5. <<>> \in Seq(Names)
  OBVIOUS
<1>6. ASSUME NEW s \in {<<>>, Members, StartOrder, Reverse(Members)}
      PROVE  s \in Seq(Names)
  BY <1>1, <1>2, <1>5, <1>6
<1> QED
  BY <1>1, <1>2, <1>3, <1>4, <1>6

(* The initial states of the daemon are typed (main, run).                  *)
LEMMA TypeInit == Init => TypeOK
<1> SUFFICES ASSUME Init PROVE TypeOK
  OBVIOUS
<1>1. FieldType
  BY ListsTyped DEF Init, FieldType, States
<1>2. CallType
  BY DEF Init, CallType, Threads, Pcs, Events
<1>3. ListType
  BY DEF Init, ListType
<1>4. EnvType
  <2>1. events \in Seq(Events) /\ Len(events) <= EventCap
    BY DEF Init
  <2> QED
    BY <2>1 DEF Init, EnvType
<1> QED
  BY <1>1, <1>2, <1>3, <1>4 DEF TypeOK

(* Moving on in a call, or returning from it, keeps its locals typed.       *)
LEMMA ReturnTyped ==
  ASSUME TypeOK, NEW t \in Threads, NEW p \in Pcs, ReturnTo(t, p)
  PROVE  CallType' /\ ListType' /\ watch' \in {"none", "off", "on"}
<1>1. CallType'
  BY DEF TypeOK, CallType, ReturnTo, Set, Pcs, Events, Threads
<1>2. ListType'
  BY DEF TypeOK, ListType, ReturnTo, Set
<1>3. watch' \in {"none", "off", "on"}
  BY DEF TypeOK, EnvType, ReturnTo
<1> QED
  BY <1>1, <1>2, <1>3

LEMMA HomeTyped ==
  ASSUME NEW t \in Threads
  PROVE  Home(t) \in Pcs
BY DEF Home, Pcs

(* A step of the unit's synchronisation keeps the types (initialSync).      *)
LEMMA SyncUnitTyped == TypeOK /\ SyncUnit => TypeOK'
<1> SUFFICES ASSUME TypeOK, SyncUnit PROVE TypeOK'
  OBVIOUS
<1> USE DEF objVars, fuseVars, envVars, chanVars, ghostVars, callVars, listVars
<1>1. CASE SyncAgain
  <2>1. CallType' /\ ListType' /\ watch' \in {"none", "off", "on"}
    BY <1>1, ReturnTyped DEF SyncAgain, Threads, Pcs
  <2> QED
    BY <1>1, <2>1 DEF SyncAgain, TypeOK, FieldType, EnvType
<1>2. CASE QueryUnitFails
  <2>1. FieldType' 
    BY <1>2 DEF QueryUnitFails, TypeOK, FieldType, States
  <2>2. ListType' 
    BY <1>2 DEF QueryUnitFails, TypeOK, ListType
  <2>3. EnvType'
    BY <1>2 DEF QueryUnitFails, TypeOK, EnvType
  <2>4. retrying' \in [Threads -> BOOLEAN]
    BY <1>2 DEF QueryUnitFails, TypeOK, CallType, Go, Set, Threads
  <2>5. pc' \in [Threads -> Pcs]
    BY <1>2 DEF QueryUnitFails, TypeOK, CallType, Go, Set, Threads, Pcs
  <2>6. UNCHANGED <<why, act, event, then, attempt, load>>
    BY <1>2 DEF QueryUnitFails
  <2> QED
    BY <2>1, <2>2, <2>3, <2>4, <2>5, <2>6 DEF TypeOK, CallType
<1>3. CASE QueryUnitRunning
  <2>1. CallType' /\ ListType' /\ watch' \in {"none", "off", "on"}
    BY <1>3, ReturnTyped, HomeTyped DEF QueryUnitRunning, Return, Threads
  <2> QED
    BY <1>3, <2>1 DEF QueryUnitRunning, RefreshGroups, TypeOK, FieldType, EnvType, States
<1>4. CASE QueryUnitStopped
  <2>1. FieldType' /\ ListType' /\ EnvType'
    BY <1>4 DEF QueryUnitStopped, RefreshGroups, TypeOK, FieldType, ListType, EnvType, States
  <2>2. CallType'
    BY <1>4 DEF QueryUnitStopped, TypeOK, CallType, Go, Set, Pcs, Threads
  <2> QED
    BY <2>1, <2>2 DEF TypeOK
<1> QED
  BY <1>1, <1>2, <1>3, <1>4 DEF SyncUnit

(* So does a step of a command (attemptStartWithRetry, runGroupAction,      *)
(* runServicectl).                                                          *)
LEMMA CommandTyped ==
  ASSUME TypeOK, NEW t \in Threads, Command(t)
  PROVE  TypeOK'
<1> USE DEF objVars, fuseVars, envVars, chanVars, ghostVars, callVars, listVars
<1>1. CASE Suppressed(t)
  <2>1. CallType' /\ ListType' /\ watch' \in {"none", "off", "on"}
    BY <1>1, ReturnTyped, HomeTyped DEF Suppressed, GiveUp, Threads, Pcs
  <2>2. FieldType'
    BY <1>1 DEF Suppressed, TypeOK, FieldType
  <2>3. EnvType'
    BY <1>1, <2>1 DEF Suppressed, TypeOK, EnvType
  <2> QED
    BY <2>1, <2>2, <2>3 DEF TypeOK
<1>2. CASE Attempt(t)
  <2>1. FieldType'
    BY <1>2 DEF Attempt, TypeOK, FieldType
  <2>2. CallType'
    BY <1>2 DEF Attempt, TypeOK, CallType, Go, Threads, Pcs, Set
  <2>3. ListType'
    BY <1>2 DEF Attempt, TypeOK, ListType
  <2>4. EnvType'
    BY <1>2 DEF Attempt, TypeOK, EnvType
  <2> QED
    BY <2>1, <2>2, <2>3, <2>4 DEF TypeOK
<1>3. CASE Run(t)
  <2>1. FieldType'
    BY <1>3 DEF Run, TypeOK, FieldType
  <2>2. CallType'
    BY <1>3 DEF Run, TypeOK, CallType, Go, Threads, Pcs
  <2>3. ListType'
    <3>1. order[t] \in Seq(Names)
      <4>1. order[t] \in {<<>>, Members, StartOrder, Reverse(Members)}
        BY DEF TypeOK, ListType
      <4> QED
        BY <4>1, ListsTyped
    <3>2. /\ todo' = [todo EXCEPT ![t] = order[t]]
          /\ did' = [did EXCEPT ![t] = {}]
          /\ order' = order
      BY <1>3 DEF Run, Set
    <3> QED
      BY <3>1, <3>2 DEF TypeOK, ListType
  <2>4. EnvType'
    BY <1>3 DEF Run, TypeOK, EnvType
  <2> QED
    BY <2>1, <2>2, <2>3, <2>4 DEF TypeOK
<1>4. CASE StopList(t)
  <2>1. FieldType'
    BY <1>4, ListsTyped DEF StopList, TypeOK, FieldType
  <2>2. CallType'
    BY <1>4 DEF StopList, TypeOK, CallType, Go, Threads, Pcs
  <2>3. ListType'
    <3>1. /\ Reverse(groupUnits) \in {<<>>, Reverse(Members)}
          /\ Reverse(groupUnits) \in Seq(Names)
      <4>1. groupUnits = <<>> \/ groupUnits = Members
        BY DEF TypeOK, FieldType
      <4> QED
        BY <4>1, ListsTyped
    <3>2. /\ order' = [order EXCEPT ![t] = Reverse(groupUnits)]
          /\ did' = [did EXCEPT ![t] = {}]
          /\ todo' = order'
      BY <1>4 DEF StopList, Set
    <3>3. order' \in [Threads -> Seq(Names)]
      <4>1. order \in [Threads -> Seq(Names)]
        <5>1. order \in [Threads -> {<<>>, Members, StartOrder, Reverse(Members)}]
          BY DEF TypeOK, ListType
        <5>2. \A u \in Threads : order[u] \in Seq(Names)
          BY <5>1, ListsTyped
        <5> QED
          BY <5>1, <5>2
      <4> QED
        BY <3>1, <3>2, <4>1
    <3>4. order' \in [Threads -> {<<>>, Members, StartOrder, Reverse(Members)}]
      BY <3>1, <3>2 DEF TypeOK, ListType
    <3> QED
      BY <3>2, <3>3, <3>4 DEF TypeOK, ListType
  <2>4. EnvType'
    BY <1>4 DEF StopList, TypeOK, EnvType
  <2> QED
    BY <2>1, <2>2, <2>3, <2>4 DEF TypeOK
<1>5. CASE NextUnit(t)
  <2>1. FieldType'
    BY <1>5 DEF NextUnit, TypeOK, FieldType, ListType
  <2>2. CallType'
    BY <1>5 DEF NextUnit, TypeOK, CallType, Go, Threads, Pcs, AfterRun
  <2>3. ListType'
    <3>1. CASE todo' = todo
      BY <1>5, <3>1 DEF NextUnit, TypeOK, ListType
    <3>2. CASE todo[t] # <<>> /\ todo' = [todo EXCEPT ![t] = Tail(@)]
      <4>1. Tail(todo[t]) \in Seq(Names)
        BY <3>2 DEF TypeOK, ListType
      <4>2. todo' \in [Threads -> Seq(Names)]
        BY <3>2, <4>1 DEF TypeOK, ListType
      <4> QED
        BY <1>5, <4>2 DEF NextUnit, TypeOK, ListType
    <3> QED
      BY <1>5, <3>1, <3>2 DEF NextUnit
  <2>4. EnvType'
    BY <1>5 DEF NextUnit, TypeOK, EnvType
  <2> QED
    BY <2>1, <2>2, <2>3, <2>4 DEF TypeOK
<1>6. CASE RunServicectlOk(t)
  <2>1. FieldType'
    BY <1>6 DEF RunServicectlOk, TypeOK, FieldType
  <2>2. CallType'
    BY <1>6 DEF RunServicectlOk, TypeOK, CallType, Go, Threads, Pcs, AfterRun
  <2>3. ListType'
    BY <1>6 DEF RunServicectlOk, TypeOK, ListType, FieldType
  <2>4. EnvType'
    <3>1. last' \in {"none", "start", "stop", "failed"}
      BY <1>6 DEF RunServicectlOk, TypeOK, EnvType, CallType
    <3>2. streak' \in Nat
      BY <1>6 DEF RunServicectlOk, TypeOK, EnvType
    <3>3. UNCHANGED <<events, watch, found, enabled, published, sigterm>>
      BY <1>6 DEF RunServicectlOk
    <3> QED
      BY <3>1, <3>2, <3>3 DEF TypeOK, EnvType
  <2> QED
    BY <2>1, <2>2, <2>3, <2>4 DEF TypeOK
<1>7. CASE RunServicectlFails(t)
  <2>1. FieldType'
    BY <1>7 DEF RunServicectlFails, TypeOK, FieldType
  <2>2. CallType'
    BY <1>7 DEF RunServicectlFails, TypeOK, CallType, Go, Threads, Pcs, Set
  <2>3. ListType'
    BY <1>7 DEF RunServicectlFails, TypeOK, ListType
  <2>4. EnvType'
    BY <1>7 DEF RunServicectlFails, TypeOK, EnvType
  <2> QED
    BY <2>1, <2>2, <2>3, <2>4 DEF TypeOK
<1> QED
  BY <1>1, <1>2, <1>3, <1>4, <1>5, <1>6, <1>7 DEF Command

(* So does a step of the fuse (recordAttemptSuccess, recordAttemptFailure,  *)
(* clearFuse).                                                              *)
LEMMA RecordTyped ==
  ASSUME TypeOK, NEW t \in Threads, Record(t)
  PROVE  TypeOK'
<1> USE DEF objVars, fuseVars, envVars, chanVars, ghostVars, callVars, listVars
<1>1. CASE RecordSuccess(t)
  <2>1. FieldType'
    BY <1>1 DEF RecordSuccess, TypeOK, FieldType
  <2>2. CallType'
    BY <1>1 DEF RecordSuccess, TypeOK, CallType, Go, Threads, Pcs
  <2>3. ListType'
    BY <1>1 DEF RecordSuccess, TypeOK, ListType
  <2>4. EnvType'
    BY <1>1 DEF RecordSuccess, TypeOK, EnvType
  <2> QED
    BY <2>1, <2>2, <2>3, <2>4 DEF TypeOK
<1>2. CASE RecordSuccessDone(t)
  <2>1. CallType' /\ ListType' /\ watch' \in {"none", "off", "on"}
    BY <1>2, ReturnTyped, HomeTyped DEF RecordSuccessDone, Return, Threads, Pcs
  <2>2. FieldType'
    BY <1>2 DEF RecordSuccessDone, TypeOK, FieldType, States
  <2>3. EnvType'
    BY <1>2, <2>1 DEF RecordSuccessDone, TypeOK, EnvType
  <2> QED
    BY <2>1, <2>2, <2>3 DEF TypeOK
<1>3. CASE CountLoad(t)
  <2>1. FieldType'
    BY <1>3 DEF CountLoad, TypeOK, FieldType
  <2>2. CallType'
    BY <1>3 DEF CountLoad, TypeOK, CallType, Go, Threads, Pcs, FieldType, Set
  <2>3. ListType'
    BY <1>3 DEF CountLoad, TypeOK, ListType
  <2>4. EnvType'
    BY <1>3 DEF CountLoad, TypeOK, EnvType
  <2> QED
    BY <2>1, <2>2, <2>3, <2>4 DEF TypeOK
<1>4. CASE CountStore(t)
  <2>1. FieldType'
    BY <1>4 DEF CountStore, TypeOK, FieldType, CallType
  <2>2. CallType'
    BY <1>4 DEF CountStore, TypeOK, CallType, Go, Threads, Pcs, Set
  <2>3. ListType'
    BY <1>4 DEF CountStore, TypeOK, ListType
  <2>4. EnvType'
    BY <1>4 DEF CountStore, TypeOK, EnvType
  <2> QED
    BY <2>1, <2>2, <2>3, <2>4 DEF TypeOK
<1>5. CASE CheckThreshold(t)
  <2>1. FieldType'
    BY <1>5 DEF CheckThreshold, TypeOK, FieldType, States
  <2>2. CallType'
    BY <1>5 DEF CheckThreshold, TypeOK, CallType, Go, Threads, Pcs
  <2>3. ListType'
    BY <1>5 DEF CheckThreshold, TypeOK, ListType
  <2>4. EnvType'
    BY <1>5 DEF CheckThreshold, TypeOK, EnvType
  <2> QED
    BY <2>1, <2>2, <2>3, <2>4 DEF TypeOK
<1>6. CASE Fuse(t)
  <2>1. FieldType'
    BY <1>6 DEF Fuse, TypeOK, FieldType, States
  <2>2. CallType'
    BY <1>6 DEF Fuse, TypeOK, CallType, Go, Threads, Pcs
  <2>3. ListType'
    BY <1>6 DEF Fuse, TypeOK, ListType
  <2>4. EnvType'
    BY <1>6 DEF Fuse, TypeOK, EnvType
  <2> QED
    BY <2>1, <2>2, <2>3, <2>4 DEF TypeOK
<1>7. CASE Retry(t)
  <2>1. CallType' /\ ListType' /\ watch' \in {"none", "off", "on"}
    <3>1. CASE GiveUp(t) \/ Return(t)
      BY <3>1, ReturnTyped, HomeTyped DEF GiveUp, Return, Pcs
    <3>2. CASE /\ attempt[t] + 1 < MaxFailures
               /\ attempt' = [attempt EXCEPT ![t] = @ + 1]
               /\ Go(t, "run")
               /\ UNCHANGED <<why, act, event, then, retrying, load, listVars, watch>>
      <4>1. CallType'
        <5>1. attempt' \in [Threads -> 0 .. MaxFailures - 1]
          BY <3>2 DEF TypeOK, CallType
        <5>2. pc' \in [Threads -> Pcs]
          BY <3>2 DEF TypeOK, CallType, Go, Pcs
        <5> QED
          BY <3>2, <5>1, <5>2 DEF TypeOK, CallType
      <4>2. ListType' /\ watch' \in {"none", "off", "on"}
        BY <3>2 DEF TypeOK, ListType, EnvType
      <4> QED
        BY <4>1, <4>2
    <3> QED
      BY <1>7, <3>1, <3>2 DEF Retry
  <2>2. FieldType'
    BY <1>7 DEF Retry, TypeOK, FieldType
  <2>3. EnvType'
    BY <1>7, <2>1 DEF Retry, TypeOK, EnvType
  <2> QED
    BY <2>1, <2>2, <2>3 DEF TypeOK
<1>8. CASE ClearFuse(t)
  <2>1. FieldType'
    BY <1>8 DEF ClearFuse, TypeOK, FieldType
  <2>2. CallType'
    BY <1>8 DEF ClearFuse, TypeOK, CallType, Go, Threads, Pcs
  <2>3. ListType'
    BY <1>8 DEF ClearFuse, TypeOK, ListType
  <2>4. EnvType'
    BY <1>8 DEF ClearFuse, TypeOK, EnvType
  <2> QED
    BY <2>1, <2>2, <2>3, <2>4 DEF TypeOK
<1>9. CASE ClearFuseDone(t)
  <2>1. FieldType'
    BY <1>9 DEF ClearFuseDone, TypeOK, FieldType, States
  <2>2. CallType'
    BY <1>9 DEF ClearFuseDone, TypeOK, CallType, Go, Threads, Pcs
  <2>3. ListType'
    BY <1>9 DEF ClearFuseDone, TypeOK, ListType
  <2>4. EnvType'
    BY <1>9 DEF ClearFuseDone, TypeOK, EnvType
  <2> QED
    BY <2>1, <2>2, <2>3, <2>4 DEF TypeOK
<1> QED
  BY <1>1, <1>2, <1>3, <1>4, <1>5, <1>6, <1>7, <1>8, <1>9 DEF Record

(* So does a step of the group's synchronisation (initialGroupSync,         *)
(* handleGroupScopedChange).                                                *)
LEMMA SyncGroupTyped ==
  ASSUME TypeOK, NEW t \in Threads, SyncGroup(t)
  PROVE  TypeOK'
<1> USE DEF objVars, fuseVars, envVars, chanVars, ghostVars, callVars, listVars
<1>1. CASE QueryGroupFails(t)
  <2>1. CallType' /\ ListType' /\ watch' \in {"none", "off", "on"}
    BY <1>1, ReturnTyped, HomeTyped DEF QueryGroupFails, Return, Threads, Pcs
  <2>2. FieldType'
    BY <1>1 DEF QueryGroupFails, TypeOK, FieldType, States
  <2>3. EnvType'
    BY <1>1, <2>1 DEF QueryGroupFails, TypeOK, EnvType
  <2> QED
    BY <2>1, <2>2, <2>3 DEF TypeOK
<1>2. CASE QueryGroupOk(t)
  <2>1. CallType' /\ ListType' /\ watch' \in {"none", "off", "on"}
    <3>1. CASE Return(t)
      BY <3>1, ReturnTyped, HomeTyped DEF Return
    <3>2. CASE /\ then' \in {then, Set(then, t, "order")}
               /\ act' \in {Set(act, t, "start"), Set(act, t, "stop")}
               /\ Go(t, "clear") \/ Go(t, "stoplist")
               /\ UNCHANGED <<why, event, retrying, attempt, load, listVars, watch>>
      <4>1. CallType'
        <5>1. then' \in [Threads -> {"loop", "scoped", "order"}]
          BY <3>2 DEF TypeOK, CallType, Set
        <5>2. act' \in [Threads -> {"start", "stop"}]
          BY <3>2 DEF TypeOK, CallType, Set
        <5>3. pc' \in [Threads -> Pcs]
          BY <3>2 DEF TypeOK, CallType, Go, Pcs
        <5> QED
          BY <3>2, <5>1, <5>2, <5>3 DEF TypeOK, CallType
      <4>2. ListType' /\ watch' \in {"none", "off", "on"}
        BY <3>2 DEF TypeOK, ListType, EnvType
      <4> QED
        BY <4>1, <4>2
    <3> QED
      BY <1>2, <3>1, <3>2 DEF QueryGroupOk
  <2>2. FieldType'
    BY <1>2 DEF QueryGroupOk, TypeOK, FieldType, States
  <2>3. EnvType'
    BY <1>2, <2>1 DEF QueryGroupOk, TypeOK, EnvType
  <2> QED
    BY <2>1, <2>2, <2>3 DEF TypeOK
<1>3. CASE StartOrderOk(t)
  <2>1. FieldType'
    BY <1>3 DEF StartOrderOk, TypeOK, FieldType, States
  <2>2. CallType'
    BY <1>3 DEF StartOrderOk, TypeOK, CallType, Go, Threads, Pcs
  <2>3. ListType'
    BY <1>3 DEF StartOrderOk, TypeOK, ListType, FieldType, Set
  <2>4. EnvType'
    BY <1>3 DEF StartOrderOk, TypeOK, EnvType
  <2> QED
    BY <2>1, <2>2, <2>3, <2>4 DEF TypeOK
<1>4. CASE StartOrderFails(t)
  <2>1. FieldType'
    BY <1>4 DEF StartOrderFails, TypeOK, FieldType, States
  <2>2. CallType'
    BY <1>4 DEF StartOrderFails, TypeOK, CallType, Go, Threads, Pcs, Set
  <2>3. ListType'
    BY <1>4 DEF StartOrderFails, TypeOK, ListType
  <2>4. EnvType'
    BY <1>4 DEF StartOrderFails, TypeOK, EnvType
  <2> QED
    BY <2>1, <2>2, <2>3, <2>4 DEF TypeOK
<1> QED
  BY <1>1, <1>2, <1>3, <1>4 DEF SyncGroup

(* So does a case of main's select (run, handleEvent).                       *)
LEMMA SelectTyped ==
  ASSUME TypeOK, Select \/ HandleScoped \/ Tick
  PROVE  TypeOK'
<1> USE DEF objVars, fuseVars, envVars, chanVars, ghostVars, callVars, listVars
<1>1. CASE HandleReport
  <2>1. FieldType'
    <3>1. state' \in States
      BY <1>1 DEF HandleReport, Reports, States
    <3> QED
      BY <1>1, <3>1 DEF HandleReport, TypeOK, FieldType
  <2>2. CallType'
    BY <1>1 DEF HandleReport, TypeOK, CallType, Go, Threads, Pcs
  <2>3. ListType'
    BY <1>1 DEF HandleReport, TypeOK, ListType
  <2>4. EnvType'
    BY <1>1 DEF HandleReport, TypeOK, EnvType, TakeEvent
  <2> QED
    BY <2>1, <2>2, <2>3, <2>4 DEF TypeOK
<1>2. CASE HandleChange
  <2>1. FieldType'
    BY <1>2 DEF HandleChange, TypeOK, FieldType
  <2>2. CallType'
    BY <1>2 DEF HandleChange, TypeOK, CallType, Go, Threads, Pcs, Set, Events
  <2>3. ListType'
    BY <1>2 DEF HandleChange, TypeOK, ListType
  <2>4. EnvType'
    BY <1>2 DEF HandleChange, TypeOK, EnvType, TakeEvent
  <2> QED
    BY <2>1, <2>2, <2>3, <2>4 DEF TypeOK
<1>3. CASE Shutdown
  <2>1. FieldType'
    BY <1>3 DEF Shutdown, TypeOK, FieldType, States
  <2>2. CallType'
    BY <1>3 DEF Shutdown, TypeOK, CallType, Go, Threads, Pcs, Set
  <2>3. ListType'
    BY <1>3 DEF Shutdown, TypeOK, ListType
  <2>4. EnvType'
    BY <1>3 DEF Shutdown, TypeOK, EnvType
  <2> QED
    BY <2>1, <2>2, <2>3, <2>4 DEF TypeOK
<1>4. CASE HandleScoped
  <2>1. CallType' /\ ListType' /\ watch' \in {"none", "off", "on"}
    <3>1. CASE Return("main")
      BY <3>1, ReturnTyped, HomeTyped DEF Return, Threads
    <3>2. CASE /\ act' \in {act, Set(act, "main", "stop")}
               /\ Go("main", "gquery") \/ Go("main", "uquery") \/ Go("main", "exec")
               /\ UNCHANGED <<why, event, then, retrying, attempt, load, listVars, watch>>
      <4>1. CallType'
        <5>1. act' \in [Threads -> {"start", "stop"}]
          BY <3>2 DEF TypeOK, CallType, Set
        <5>2. pc' \in [Threads -> Pcs]
          BY <3>2 DEF TypeOK, CallType, Go, Pcs
        <5> QED
          BY <3>2, <5>1, <5>2 DEF TypeOK, CallType
      <4>2. ListType' /\ watch' \in {"none", "off", "on"}
        BY <3>2 DEF TypeOK, ListType, EnvType
      <4> QED
        BY <4>1, <4>2
    <3> QED
      BY <1>4, <3>1, <3>2 DEF HandleScoped
  <2>2. FieldType'
    BY <1>4 DEF HandleScoped, TypeOK, FieldType, States
  <2>3. EnvType'
    BY <1>4, <2>1 DEF HandleScoped, TypeOK, EnvType
  <2> QED
    BY <2>1, <2>2, <2>3 DEF TypeOK
<1>5. CASE Tick
  <2>1. FieldType'
    BY <1>5 DEF Tick, TypeOK, FieldType
  <2>2. CallType'
    BY <1>5 DEF Tick, TypeOK, CallType, Go, Threads, Pcs
  <2>3. ListType'
    BY <1>5 DEF Tick, TypeOK, ListType
  <2>4. EnvType'
    BY <1>5 DEF Tick, TypeOK, EnvType
  <2> QED
    BY <2>1, <2>2, <2>3, <2>4 DEF TypeOK
<1> QED
  BY <1>1, <1>2, <1>3, <1>4, <1>5 DEF Select

(* So does a step of the watcher or of the environment.                      *)
LEMMA EnvironmentTyped ==
  ASSUME TypeOK, Environment
  PROVE  TypeOK'
<1> USE DEF objVars, fuseVars, envVars, chanVars, ghostVars, callVars, listVars
<1>1. CASE WatchConnect
  <2>1. FieldType'
    BY <1>1 DEF WatchConnect, TypeOK, FieldType
  <2>2. CallType'
    BY <1>1 DEF WatchConnect, TypeOK, CallType, Go, Threads, Pcs
  <2>3. ListType'
    BY <1>1 DEF WatchConnect, TypeOK, ListType
  <2>4. EnvType'
    BY <1>1 DEF WatchConnect, TypeOK, EnvType
  <2> QED
    BY <2>1, <2>2, <2>3, <2>4 DEF TypeOK
<1>2. CASE WatchBreak
  <2>1. FieldType'
    BY <1>2 DEF WatchBreak, TypeOK, FieldType
  <2>2. CallType'
    BY <1>2 DEF WatchBreak, TypeOK, CallType, Go, Threads, Pcs
  <2>3. ListType'
    BY <1>2 DEF WatchBreak, TypeOK, ListType
  <2>4. EnvType'
    BY <1>2 DEF WatchBreak, TypeOK, EnvType
  <2> QED
    BY <2>1, <2>2, <2>3, <2>4 DEF TypeOK
<1>3. CASE (\E e \in Events : Publish(e))
  <2>1. FieldType'
    BY <1>3 DEF Publish, TypeOK, FieldType
  <2>2. CallType'
    BY <1>3 DEF Publish, TypeOK, CallType, Go, Threads, Pcs
  <2>3. ListType'
    BY <1>3 DEF Publish, TypeOK, ListType
  <2>4. EnvType'
    <3> PICK e \in Events : Publish(e)
      BY <1>3
    <3>1. events' \in Seq(Events) /\ Len(events') <= EventCap
      <4>1. CASE events' = events
        BY <4>1 DEF TypeOK, EnvType
      <4>2. CASE Len(events) < EventCap /\ events' = Append(events, e)
        <5>1. events \in Seq(Events)
          BY DEF TypeOK, EnvType
        <5> QED
          BY <4>2, <5>1
      <4> QED
        BY <4>1, <4>2 DEF Publish
    <3>2. watch' \in {"none", "off", "on"}
      BY DEF Publish, TypeOK, EnvType
    <3>3. published' \in Nat /\ enabled' \in BOOLEAN
      <4>1. published' \in Nat
        BY DEF Publish, TypeOK, EnvType
      <4>2. enabled \in BOOLEAN
        BY DEF TypeOK, EnvType
      <4>3. enabled' = IF e \in GroupChanges THEN e = "enabled" ELSE enabled
        BY DEF Publish
      <4> QED
        BY <4>1, <4>2, <4>3
    <3>4. UNCHANGED <<found, sigterm, last, streak>>
      BY DEF Publish
    <3> QED
      BY <3>1, <3>2, <3>3, <3>4 DEF TypeOK, EnvType
  <2> QED
    BY <2>1, <2>2, <2>3, <2>4 DEF TypeOK
<1>4. CASE GroupFile
  <2>1. FieldType'
    BY <1>4 DEF GroupFile, TypeOK, FieldType
  <2>2. CallType'
    BY <1>4 DEF GroupFile, TypeOK, CallType, Go, Threads, Pcs
  <2>3. ListType'
    BY <1>4 DEF GroupFile, TypeOK, ListType
  <2>4. EnvType'
    BY <1>4 DEF GroupFile, TypeOK, EnvType
  <2> QED
    BY <2>1, <2>2, <2>3, <2>4 DEF TypeOK
<1>5. CASE Sigterm
  <2>1. FieldType'
    BY <1>5 DEF Sigterm, TypeOK, FieldType
  <2>2. CallType'
    BY <1>5 DEF Sigterm, TypeOK, CallType, Go, Threads, Pcs
  <2>3. ListType'
    BY <1>5 DEF Sigterm, TypeOK, ListType
  <2>4. EnvType'
    BY <1>5 DEF Sigterm, TypeOK, EnvType
  <2> QED
    BY <2>1, <2>2, <2>3, <2>4 DEF TypeOK
<1> QED
  BY <1>1, <1>2, <1>3, <1>4, <1>5 DEF Environment

(* Every step of the daemon and of its environment keeps the types.         *)
LEMMA TypeStep == TypeOK /\ [Next]_vars => TypeOK'
<1> SUFFICES ASSUME TypeOK, [Next]_vars PROVE TypeOK'
  OBVIOUS
<1>1. CASE Main
  BY <1>1, SyncUnitTyped, SelectTyped, CommandTyped, RecordTyped, SyncGroupTyped
     DEF Main, Call, Threads
<1>2. CASE Select \/ Tick
  BY <1>2, SelectTyped
<1>3. CASE Call("maint")
  BY <1>3, CommandTyped, RecordTyped, SyncGroupTyped DEF Call, Threads
<1>4. CASE Environment
  BY <1>4, EnvironmentTyped
<1>5. CASE UNCHANGED vars
  <2> USE DEF objVars, fuseVars, envVars, chanVars, ghostVars, callVars, listVars
  <2>1. FieldType'
    BY <1>5 DEF vars, TypeOK, FieldType
  <2>2. CallType'
    BY <1>5 DEF vars, TypeOK, CallType
  <2>3. ListType'
    BY <1>5 DEF vars, TypeOK, ListType
  <2>4. EnvType'
    BY <1>5 DEF vars, TypeOK, EnvType
  <2> QED
    BY <2>1, <2>2, <2>3, <2>4 DEF TypeOK
<1> QED
  BY <1>1, <1>2, <1>3, <1>4, <1>5 DEF Next, Terminated

(* The daemon's fields and the locals of both goroutines keep their types;  *)
(* no call makes more than maxFailures attempts (attemptStartWithRetry).    *)
THEOREM TypeCorrect == Spec => []TypeOK
<1> QED
  BY TypeInit, TypeStep, PTL DEF Spec

-----------------------------------------------------------------------------
(* The daemon of a unit: the fuse and the reported state. *)

(* In unit mode there is one goroutine, and where it is says on whose       *)
(* behalf it works (run, initialSync, handleGroupChange).                   *)
Control ==
  /\ pc["maint"] = "none"
  /\ pc["main"] \in {"again", "uquery", "loop", "clear", "reset", "scoped", "attempt", "run",
                     "exec", "success", "unfuse", "count", "store", "check", "fuse", "retry",
                     "end"}
  /\ then["main"] \in {"loop", "scoped"}
  /\ pc["main"] \in {"loop", "clear", "reset", "scoped"} => why["main"] = "event"
  /\ pc["main"] = "again" => why["main"] = "boot"
  /\ why["main"] # "tick"
  /\ why["main"] = "exit" => pc["main"] \in {"exec", "end"} /\ act["main"] = "stop"
  /\ pc["main"] \in {"attempt", "run"} => act["main"] = "start"
  /\ pc["main"] \in {"count", "store", "check", "fuse", "retry"} /\ retrying["main"]
       => act["main"] = "start"

(* The fuse is open exactly when the count has reached the threshold, and   *)
(* the count covers every start that failed.                                *)
Settled == (fused <=> failureCount = MaxFailures) /\ streak <= failureCount

(* Nothing has failed since the fuse was cleared.                           *)
Clear == ~fused /\ failureCount = 0 /\ streak = 0

FusePart ==
  /\ failureCount <= MaxFailures
  /\ streak <= MaxFailures
  /\ pc["main"] \in {"again", "loop", "uquery", "attempt", "clear", "retry"} => Settled
  /\ pc["main"] = "run" \/ (pc["main"] = "exec" /\ act["main"] = "start")
       => Settled /\ ~fused
  /\ ( \/ pc["main"] = "scoped"
       \/ pc["main"] \in {"uquery", "attempt"} /\ why["main"] = "event"
       \/ pc["main"] = "exec" /\ act["main"] = "stop" /\ why["main"] # "exit" )
       => Clear
  /\ pc["main"] \in {"count", "store"}
       => ~fused /\ failureCount < MaxFailures /\ streak <= failureCount + 1
  /\ pc["main"] = "store" => load["main"] = failureCount
  /\ pc["main"] = "check" => ~fused /\ streak <= failureCount
  /\ pc["main"] = "fuse" => failureCount = MaxFailures
  /\ pc["main"] = "reset" => ~fused
  /\ pc["main"] \in {"success", "unfuse"} => streak = 0
  /\ pc["main"] = "unfuse" => failureCount = 0

(* Whoever leaves "starting" behind has started the unit.                   *)
StartPart ==
  ~sigterm /\ state = "starting" =>
    /\ ( \/ pc["main"] \in {"loop", "clear", "scoped"}
         \/ pc["main"] = "uquery" /\ why["main"] = "event" )
         => last = "start"
    /\ pc["main"] \in {"success", "unfuse"} => last = act["main"]
    /\ pc["main"] # "retry"

UnitInv == ~groupMode => Control /\ FusePart /\ StartPart

(* The mode is chosen by the command line, once (main).                     *)
LEMMA ModeFixed == Next => groupMode' = groupMode
<1> SUFFICES ASSUME Next PROVE groupMode' = groupMode
  OBVIOUS
<1> USE DEF objVars
<1>1. CASE SyncUnit \/ HandleScoped \/ Select \/ Tick
  BY <1>1 DEF SyncUnit, Select, SyncAgain, QueryUnitFails, QueryUnitRunning, QueryUnitStopped,
     HandleScoped, HandleReport, HandleChange, Shutdown, Tick
<1>2. ASSUME NEW t \in Threads, Call(t) PROVE groupMode' = groupMode
  <2>1. CASE Command(t)
    BY <2>1 DEF Command, Suppressed, Attempt, Run, StopList, NextUnit, RunServicectlOk,
       RunServicectlFails
  <2>2. CASE Record(t)
    BY <2>2 DEF Record, RecordSuccess, RecordSuccessDone, CountLoad, CountStore,
       CheckThreshold, Fuse, Retry, ClearFuse, ClearFuseDone
  <2>3. CASE SyncGroup(t)
    BY <2>3 DEF SyncGroup, QueryGroupFails, QueryGroupOk, StartOrderOk, StartOrderFails
  <2> QED
    BY <1>2, <2>1, <2>2, <2>3 DEF Call
<1>3. CASE Environment
  BY <1>3 DEF Environment, WatchConnect, WatchBreak, Publish, GroupFile, Sigterm
<1>4. CASE Terminated
  BY <1>4 DEF Terminated, vars
<1> QED
  BY <1>1, <1>2, <1>3, <1>4 DEF Next, Main, Threads

(* Every step of a unit's daemon keeps these facts.                         *)
LEMMA UnitStep ==
  ASSUME TypeOK, TypeOK', ~groupMode, Control, FusePart, StartPart, Next
  PROVE  groupMode' = groupMode /\ Control' /\ FusePart' /\ StartPart'
<1> USE DEF objVars, fuseVars, envVars, chanVars, ghostVars, callVars, listVars,
            At, Ended, Set, Threads
<1>0. /\ pc \in [Threads -> Pcs] /\ failureCount \in Nat /\ streak \in Nat
      /\ why \in [Threads -> {"boot", "event", "tick", "exit"}]
      /\ act \in [Threads -> {"start", "stop"}]
      /\ then \in [Threads -> {"loop", "scoped", "order"}]
      /\ retrying \in [Threads -> BOOLEAN]
      /\ load \in [Threads -> Nat]
      /\ state \in States
  BY DEF TypeOK, FieldType, CallType, EnvType
<1>1. CASE SyncAgain
  <2>1. groupMode' = groupMode /\ Control'
    BY <1>0, <1>1 DEF Control, SyncAgain, ReturnTo
  <2>2. FusePart'
    BY <1>0, <1>1 DEF Control, FusePart, Settled, Clear, SyncAgain, ReturnTo
  <2>3. StartPart'
    BY <1>0, <1>1 DEF Control, FusePart, Settled, Clear, StartPart, SyncAgain, ReturnTo
  <2> QED
    BY <2>1, <2>2, <2>3
<1>2. CASE QueryUnitFails
  <2>1. groupMode' = groupMode /\ Control'
    BY <1>0, <1>2 DEF Control, QueryUnitFails, Go
  <2>2. FusePart'
    <3>1. CASE why["main"] = "boot"
      BY <1>0, <1>2, <3>1 DEF Control, FusePart, Settled, Clear, QueryUnitFails, Go
    <3>2. CASE why["main"] = "event"
      <4>1. pc["main"] = "uquery" /\ UNCHANGED <<failureCount, fused, streak>>
        BY <1>2 DEF QueryUnitFails
      <4>2. ~fused /\ failureCount = 0 /\ streak = 0
        BY <3>2, <4>1 DEF FusePart, Clear
      <4>3. pc'["main"] = "count"
        BY <1>0, <1>2, <3>2 DEF QueryUnitFails, Go
      <4> QED
        BY <4>1, <4>2, <4>3 DEF FusePart
    <3> QED
      BY <1>2, <3>1, <3>2 DEF QueryUnitFails
  <2>3. StartPart'
    BY <1>0, <1>2 DEF Control, FusePart, Settled, Clear, StartPart, QueryUnitFails, Go
  <2> QED
    BY <2>1, <2>2, <2>3
<1>3. CASE QueryUnitRunning
  <2>1. groupMode' = groupMode /\ Control'
    BY <1>0, <1>3 DEF Control, QueryUnitRunning, Return, ReturnTo, Home, RefreshGroups
  <2>2. FusePart'
    BY <1>0, <1>3 DEF Control, FusePart, Settled, Clear, QueryUnitRunning, Return, ReturnTo, Home, RefreshGroups
  <2>3. StartPart'
    BY <1>0, <1>3 DEF Control, FusePart, Settled, Clear, StartPart, QueryUnitRunning, Return, ReturnTo, Home, RefreshGroups
  <2> QED
    BY <2>1, <2>2, <2>3
<1>4. CASE QueryUnitStopped
  <2>1. groupMode' = groupMode /\ Control'
    BY <1>0, <1>4 DEF Control, QueryUnitStopped, Go, RefreshGroups
  <2>2. FusePart'
    BY <1>0, <1>4 DEF Control, FusePart, Settled, Clear, QueryUnitStopped, Go, RefreshGroups
  <2>3. StartPart'
    BY <1>0, <1>4 DEF Control, FusePart, Settled, Clear, StartPart, QueryUnitStopped, Go, RefreshGroups
  <2> QED
    BY <2>1, <2>2, <2>3
<1>5. CASE HandleScoped
  <2>1. groupMode' = groupMode /\ Control'
    BY <1>0, <1>5 DEF Control, HandleScoped, Go, Return, ReturnTo, Home
  <2>2. FusePart'
    <3>1. /\ ~fused /\ failureCount = 0 /\ streak = 0
          /\ UNCHANGED <<failureCount, fused, streak>>
      <4>1. pc["main"] = "scoped" /\ UNCHANGED <<failureCount, fused, streak>>
        BY <1>5 DEF HandleScoped
      <4> QED
        BY <4>1 DEF FusePart, Clear
    <3>2. pc'["main"] \in {"loop", "uquery", "exec"}
      BY <1>0, <1>5 DEF HandleScoped, Go, Return, ReturnTo, Home
    <3>3. pc'["main"] = "exec" => act'["main"] = "stop"
      BY <1>0, <1>5 DEF HandleScoped, Go, Return, ReturnTo, Home
    <3> QED
      BY <1>0, <3>1, <3>2, <3>3 DEF FusePart, Settled, Clear
  <2>3. StartPart'
    <3>1. /\ UNCHANGED <<last, sigterm>>
          /\ state' = state \/ state' = "stopping"
      BY <1>5 DEF HandleScoped
    <3>2. pc'["main"] \in {"loop", "uquery", "exec"}
      BY <1>0, <1>5 DEF HandleScoped, Go, Return, ReturnTo, Home
    <3>3. pc["main"] = "scoped"
      BY <1>5 DEF HandleScoped
    <3>4. CASE state' = "stopping"
      BY <3>4 DEF StartPart
    <3>5. CASE state' = state
      BY <3>1, <3>2, <3>3, <3>5 DEF StartPart
    <3> QED
      BY <3>1, <3>4, <3>5
  <2> QED
    BY <2>1, <2>2, <2>3
<1>6. CASE Suppressed("main")
  <2>1. groupMode' = groupMode /\ Control'
    BY <1>0, <1>6 DEF Control, Suppressed, GiveUp, ReturnTo, Home
  <2>2. FusePart'
    BY <1>0, <1>6 DEF Control, FusePart, Settled, Clear, Suppressed, GiveUp, ReturnTo, Home
  <2>3. StartPart'
    BY <1>0, <1>6 DEF Control, FusePart, Settled, Clear, StartPart, Suppressed, GiveUp, ReturnTo, Home
  <2> QED
    BY <2>1, <2>2, <2>3
<1>7. CASE Attempt("main")
  <2>1. groupMode' = groupMode /\ Control'
    BY <1>0, <1>7 DEF Control, Attempt, Go
  <2>2. FusePart'
    BY <1>0, <1>7 DEF Control, FusePart, Settled, Clear, Attempt, Go
  <2>3. StartPart'
    BY <1>0, <1>7 DEF Control, FusePart, Settled, Clear, StartPart, Attempt, Go
  <2> QED
    BY <2>1, <2>2, <2>3
<1>8. CASE Run("main")
  <2>1. groupMode' = groupMode /\ Control'
    BY <1>0, <1>8 DEF Control, Run, Go
  <2>2. FusePart'
    BY <1>0, <1>8 DEF Control, FusePart, Settled, Clear, Run, Go
  <2>3. StartPart'
    BY <1>0, <1>8 DEF Control, FusePart, Settled, Clear, StartPart, Run, Go
  <2> QED
    BY <2>1, <2>2, <2>3
<1>9. CASE RunServicectlOk("main")
  <2>1. groupMode' = groupMode /\ Control'
    BY <1>0, <1>9 DEF Control, RunServicectlOk, Go, AfterRun
  <2>2. FusePart'
    BY <1>0, <1>9 DEF Control, FusePart, Settled, Clear, RunServicectlOk, Go, AfterRun
  <2>3. StartPart'
    BY <1>0, <1>9 DEF Control, FusePart, Settled, Clear, StartPart, RunServicectlOk, Go, AfterRun
  <2> QED
    BY <2>1, <2>2, <2>3
<1>10. CASE RunServicectlFails("main")
  <2>1. groupMode' = groupMode /\ Control'
    BY <1>0, <1>10 DEF Control, RunServicectlFails, Go
  <2>2. FusePart'
    BY <1>0, <1>10 DEF Control, FusePart, Settled, Clear, RunServicectlFails, Go
  <2>3. StartPart'
    BY <1>0, <1>10 DEF Control, FusePart, Settled, Clear, StartPart, RunServicectlFails, Go
  <2> QED
    BY <2>1, <2>2, <2>3
<1>11. CASE RecordSuccess("main")
  <2>1. groupMode' = groupMode /\ Control'
    BY <1>0, <1>11 DEF Control, RecordSuccess, Go
  <2>2. FusePart'
    BY <1>0, <1>11 DEF Control, FusePart, Settled, Clear, RecordSuccess, Go
  <2>3. StartPart'
    BY <1>0, <1>11 DEF Control, FusePart, Settled, Clear, StartPart, RecordSuccess, Go
  <2> QED
    BY <2>1, <2>2, <2>3
<1>12. CASE RecordSuccessDone("main")
  <2>1. groupMode' = groupMode /\ Control'
    BY <1>0, <1>12 DEF Control, RecordSuccessDone, Return, ReturnTo, Home
  <2>2. FusePart'
    BY <1>0, <1>12 DEF Control, FusePart, Settled, Clear, RecordSuccessDone, Return, ReturnTo, Home
  <2>3. StartPart'
    BY <1>0, <1>12 DEF Control, FusePart, Settled, Clear, StartPart, RecordSuccessDone, Return, ReturnTo, Home
  <2> QED
    BY <2>1, <2>2, <2>3
<1>13. CASE CountLoad("main")
  <2>1. groupMode' = groupMode /\ Control'
    BY <1>0, <1>13 DEF Control, CountLoad, Go
  <2>2. FusePart'
    BY <1>0, <1>13 DEF Control, FusePart, Settled, Clear, CountLoad, Go
  <2>3. StartPart'
    BY <1>0, <1>13 DEF Control, FusePart, Settled, Clear, StartPart, CountLoad, Go
  <2> QED
    BY <2>1, <2>2, <2>3
<1>14. CASE CountStore("main")
  <2>1. groupMode' = groupMode /\ Control'
    BY <1>0, <1>14 DEF Control, CountStore, Go
  <2>2. FusePart'
    BY <1>0, <1>14 DEF Control, FusePart, Settled, Clear, CountStore, Go
  <2>3. StartPart'
    BY <1>0, <1>14 DEF Control, FusePart, Settled, Clear, StartPart, CountStore, Go
  <2> QED
    BY <2>1, <2>2, <2>3
<1>15. CASE CheckThreshold("main")
  <2>1. groupMode' = groupMode /\ Control'
    BY <1>0, <1>15 DEF Control, CheckThreshold, Go
  <2>2. FusePart'
    BY <1>0, <1>15 DEF Control, FusePart, Settled, Clear, CheckThreshold, Go
  <2>3. StartPart'
    BY <1>0, <1>15 DEF Control, FusePart, Settled, Clear, StartPart, CheckThreshold, Go
  <2> QED
    BY <2>1, <2>2, <2>3
<1>16. CASE Fuse("main")
  <2>1. groupMode' = groupMode /\ Control'
    BY <1>0, <1>16 DEF Control, Fuse, Go
  <2>2. FusePart'
    BY <1>0, <1>16 DEF Control, FusePart, Settled, Clear, Fuse, Go
  <2>3. StartPart'
    BY <1>0, <1>16 DEF Control, FusePart, Settled, Clear, StartPart, Fuse, Go
  <2> QED
    BY <2>1, <2>2, <2>3
<1>17. CASE Retry("main")
  <2>1. groupMode' = groupMode /\ Control'
    <3>1. CASE /\ retrying["main"]
               /\ Go("main", "run")
               /\ UNCHANGED <<why, act, event, then, retrying, load, listVars, watch>>
      <4>1. /\ UNCHANGED <<groupMode, then, why, act>>
            /\ pc["main"] = "retry"
        BY <1>17, <3>1 DEF Retry
      <4>2. pc'["main"] = "run" /\ pc'["maint"] = pc["maint"]
        BY <1>0, <3>1 DEF Go
      <4>3. act["main"] = "start"
        BY <4>1, <3>1 DEF Control
      <4> QED
        BY <4>1, <4>2, <4>3 DEF Control
    <3>2. CASE GiveUp("main")
      BY <1>0, <1>17, <3>2 DEF Control, Retry, GiveUp, ReturnTo, Home
    <3>3. CASE Return("main")
      BY <1>0, <1>17, <3>3 DEF Control, Retry, Return, ReturnTo, Home
    <3> QED
      BY <1>17, <3>1, <3>2, <3>3 DEF Retry
  <2>2. FusePart'
    BY <1>0, <1>17 DEF Control, FusePart, Settled, Clear, Retry, Go, GiveUp, Return, ReturnTo, Home
  <2>3. StartPart'
    BY <1>0, <1>17 DEF Control, FusePart, Settled, Clear, StartPart, Retry, Go, GiveUp, Return, ReturnTo, Home
  <2> QED
    BY <2>1, <2>2, <2>3
<1>18. CASE ClearFuse("main")
  <2>1. groupMode' = groupMode /\ Control'
    BY <1>0, <1>18 DEF Control, ClearFuse, Go
  <2>2. FusePart'
    BY <1>0, <1>18 DEF Control, FusePart, Settled, Clear, ClearFuse, Go
  <2>3. StartPart'
    BY <1>0, <1>18 DEF Control, FusePart, Settled, Clear, StartPart, ClearFuse, Go
  <2> QED
    BY <2>1, <2>2, <2>3
<1>19. CASE ClearFuseDone("main")
  <2>1. groupMode' = groupMode /\ Control'
    BY <1>0, <1>19 DEF Control, ClearFuseDone, Go
  <2>2. FusePart'
    BY <1>0, <1>19 DEF Control, FusePart, Settled, Clear, ClearFuseDone, Go
  <2>3. StartPart'
    BY <1>0, <1>19 DEF Control, FusePart, Settled, Clear, StartPart, ClearFuseDone, Go
  <2> QED
    BY <2>1, <2>2, <2>3
<1>20. CASE HandleReport
  <2>1. groupMode' = groupMode /\ Control'
    BY <1>0, <1>20 DEF Control, HandleReport, TakeEvent, Reports
  <2>2. FusePart'
    BY <1>0, <1>20 DEF Control, FusePart, Settled, Clear, HandleReport, TakeEvent, Reports
  <2>3. StartPart'
    BY <1>0, <1>20 DEF Control, FusePart, Settled, Clear, StartPart, HandleReport, TakeEvent, Reports
  <2> QED
    BY <2>1, <2>2, <2>3
<1>21. CASE HandleChange
  <2>1. groupMode' = groupMode /\ Control'
    BY <1>0, <1>21 DEF Control, HandleChange, TakeEvent, Go
  <2>2. FusePart'
    BY <1>0, <1>21 DEF Control, FusePart, Settled, Clear, HandleChange, TakeEvent, Go
  <2>3. StartPart'
    BY <1>0, <1>21 DEF Control, FusePart, Settled, Clear, StartPart, HandleChange, TakeEvent, Go
  <2> QED
    BY <2>1, <2>2, <2>3
<1>22. CASE Shutdown
  <2>1. groupMode' = groupMode /\ Control'
    BY <1>0, <1>22 DEF Control, Shutdown, Go
  <2>2. FusePart'
    BY <1>0, <1>22 DEF Control, FusePart, Settled, Clear, Shutdown, Go
  <2>3. StartPart'
    BY <1>0, <1>22 DEF Control, FusePart, Settled, Clear, StartPart, Shutdown, Go
  <2> QED
    BY <2>1, <2>2, <2>3
<1>23. CASE WatchConnect
  <2>1. groupMode' = groupMode /\ Control'
    BY <1>0, <1>23 DEF Control, WatchConnect
  <2>2. FusePart'
    BY <1>0, <1>23 DEF Control, FusePart, Settled, Clear, WatchConnect
  <2>3. StartPart'
    BY <1>0, <1>23 DEF Control, FusePart, Settled, Clear, StartPart, WatchConnect
  <2> QED
    BY <2>1, <2>2, <2>3
<1>24. CASE WatchBreak
  <2>1. groupMode' = groupMode /\ Control'
    BY <1>0, <1>24 DEF Control, WatchBreak
  <2>2. FusePart'
    BY <1>0, <1>24 DEF Control, FusePart, Settled, Clear, WatchBreak
  <2>3. StartPart'
    BY <1>0, <1>24 DEF Control, FusePart, Settled, Clear, StartPart, WatchBreak
  <2> QED
    BY <2>1, <2>2, <2>3
<1>25. CASE (\E e \in Events : Publish(e))
  <2>1. groupMode' = groupMode /\ Control'
    BY <1>0, <1>25 DEF Control, Publish
  <2>2. FusePart'
    BY <1>0, <1>25 DEF Control, FusePart, Settled, Clear, Publish
  <2>3. StartPart'
    BY <1>0, <1>25 DEF Control, FusePart, Settled, Clear, StartPart, Publish
  <2> QED
    BY <2>1, <2>2, <2>3
<1>26. CASE Sigterm
  <2>1. groupMode' = groupMode /\ Control'
    BY <1>0, <1>26 DEF Control, Sigterm
  <2>2. FusePart'
    BY <1>0, <1>26 DEF Control, FusePart, Settled, Clear, Sigterm
  <2>3. StartPart'
    BY <1>0, <1>26 DEF Control, FusePart, Settled, Clear, StartPart, Sigterm
  <2> QED
    BY <2>1, <2>2, <2>3
<1>27. Main \/ Select \/ Tick \/ Call("maint") \/ Environment \/ Terminated
  BY DEF Next
<1>28. ~Tick /\ ~Call("maint")
  BY DEF Control, Tick, Call, Command, Record, SyncGroup, Suppressed, Attempt, Run, StopList,
         NextUnit, RunServicectlOk, RunServicectlFails, RecordSuccess, RecordSuccessDone,
         CountLoad, CountStore, CheckThreshold, Fuse, Retry, ClearFuse, ClearFuseDone,
         QueryGroupFails, QueryGroupOk, StartOrderOk, StartOrderFails
<1>29. ~SyncGroup("main") /\ ~StopList("main") /\ ~NextUnit("main") /\ ~GroupFile
  BY DEF Control, SyncGroup, StopList, NextUnit, GroupFile,
         QueryGroupFails, QueryGroupOk, StartOrderOk, StartOrderFails
<1>30. CASE Terminated
  BY <1>30 DEF Terminated, vars, Control, FusePart, Settled, Clear, StartPart
<1>31. CASE Main
  <2>1. SyncUnit \/ HandleScoped \/ Command("main") \/ Record("main")
    BY <1>31, <1>29 DEF Main, Call
  <2>2. CASE SyncUnit \/ HandleScoped
    BY <2>2, <1>1, <1>2, <1>3, <1>4, <1>5 DEF SyncUnit
  <2>3. CASE Command("main")
    BY <2>3, <1>29, <1>6, <1>7, <1>8, <1>9, <1>10 DEF Command
  <2>4. CASE Record("main")
    BY <2>4, <1>11, <1>12, <1>13, <1>14, <1>15, <1>16, <1>17, <1>18, <1>19 DEF Record
  <2> QED
    BY <2>1, <2>2, <2>3, <2>4
<1>32. CASE Select
  BY <1>32, <1>20, <1>21, <1>22 DEF Select
<1>33. CASE Environment
  BY <1>33, <1>29, <1>23, <1>24, <1>25, <1>26 DEF Environment
<1> QED
  BY <1>27, <1>28, <1>30, <1>31, <1>32, <1>33

(* They hold of a daemon that starts.                                       *)
LEMMA UnitInit == Init => UnitInv
<1> SUFFICES ASSUME Init, ~groupMode PROVE Control /\ FusePart /\ StartPart
  BY DEF UnitInv
<1>1. pc["main"] = "again" /\ pc["maint"] = "none" /\ why["main"] = "boot"
      /\ then["main"] = "loop"
  BY DEF Init, Threads
<1>2. Control
  BY <1>1 DEF Control
<1>3. FusePart /\ StartPart
  BY <1>1 DEF Init, FusePart, Settled, Clear, StartPart
<1> QED
  BY <1>2, <1>3

(* The invariant of the daemon of a unit, with its types.                   *)
LEMMA UnitCorrect == Spec => [](TypeOK /\ UnitInv)
<1>1. Init => TypeOK /\ UnitInv
  BY TypeInit, UnitInit
<1>2. TypeOK /\ UnitInv /\ [Next]_vars => (TypeOK /\ UnitInv)'
  <2> SUFFICES ASSUME TypeOK, UnitInv, [Next]_vars PROVE TypeOK' /\ UnitInv'
    OBVIOUS
  <2>1. TypeOK'
    BY TypeStep
  <2>2. CASE Next
    <3>1. CASE groupMode
      <4>1. groupMode'
        BY <2>2, <3>1, ModeFixed
      <4> QED
        BY <2>1, <4>1 DEF UnitInv
    <3>2. CASE ~groupMode
      BY <2>1, <2>2, <3>2, UnitStep DEF UnitInv
    <3> QED
      BY <2>1, <3>1, <3>2
  <2>3. CASE UNCHANGED vars
    BY <2>1, <2>3 DEF vars, objVars, fuseVars, envVars, chanVars, ghostVars, callVars,
       listVars, UnitInv, Control, FusePart, Settled, Clear, StartPart
  <2> QED
    BY <2>2, <2>3
<1> QED
  BY <1>1, <1>2, PTL DEF Spec

(* Between two successes or clearings of the fuse, no more than             *)
(* maxFailures starts of a unit fail, whatever the threshold and however    *)
(* many events arrive (attemptStartWithRetry, recordAttemptFailure).        *)
THEOREM StormCorrect == Spec => []NoStartStorm
<1>1. TypeOK /\ UnitInv => NoStartStorm
  BY DEF UnitInv, FusePart, NoStartStorm
<1> QED
  BY <1>1, UnitCorrect, PTL

(* A unit's daemon at rest that reports "starting" has started the unit     *)
(* (initialSync, handleGroupChange).                                        *)
THEOREM StartingCorrect == Spec => []StartingMeansStarted
<1>1. UnitInv => StartingMeansStarted
  <2> SUFFICES ASSUME UnitInv, ~groupMode, ~sigterm, pc["main"] = "loop", state = "starting"
               PROVE  last = "start"
    BY DEF StartingMeansStarted
  <2> QED
    BY DEF UnitInv, StartPart
<1> QED
  BY <1>1, UnitCorrect, PTL

=============================================================================
