---------------------------- MODULE SysOrchestrd ----------------------------
(***************************************************************************)
(* sys-orchestrd (cmd/sys-orchestrd): the orchestrator of one unit or of   *)
(* one group.  It brings its object up when it starts, follows the events  *)
(* of sysvisiond, retries failing starts until a fuse opens, and stops its *)
(* object on SIGTERM.                                                      *)
(*                                                                         *)
(* Two goroutines change the daemon's fields, and no lock protects them:   *)
(* "main" (run or runGroup and everything it calls) and, in group mode,    *)
(* "maint" (maintainMissingGroup).  Both execute the same functions, so an *)
(* action takes the goroutine as its parameter, and a step is one access   *)
(* to the shared fields.  The third goroutine, watchEvents, only fills the *)
(* channel.                                                                *)
(*                                                                         *)
(* Left out: reasons and log lines, the datagrams of publishState (nobody  *)
(* answers them; they carry what writeState wrote), Permanent (never read  *)
(* by the code), and torn reads of multi-word values.                      *)
(***************************************************************************)
EXTENDS Integers, Sequences, FiniteSets, SequencesExt

CONSTANTS
  Members,      \* the units of the group, as its definition lists them
  StartOrder,   \* what `servicectl group-start-order` prints
  MaxFailures,  \* SERVICECTL_ORCHESTRD_MAX_FAILURES, 3 by default
  EventCap,     \* capacity of the events channel, 32 in the code
  MaxEvents,    \* bound: events published in one run of a unit's daemon
  MaxGroupEvents \* bound: the same for a group's

ASSUME ConstantsAssumption ==
  /\ Members \in Seq(STRING) /\ Members # <<>>
  /\ StartOrder \in Seq(STRING) /\ StartOrder # <<>>
  /\ MaxFailures \in Nat \ {0}
  /\ EventCap \in Nat \ {0}
  /\ MaxEvents \in Nat /\ MaxGroupEvents \in Nat

Threads == {"main", "maint"}

\* The units the daemon may come to name.
Names == ToSet(Members) \cup ToSet(StartOrder)

(* What an event asks for.  sys-notifyd: "failure", "ready", "stopping".    *)
(* servicectl: "stopped".  sys-propertyd: "property" (PropertyChanged), and *)
(* GroupChanged of the group ("enabled", "disabled") or of another one.     *)
Reports == {"failure", "ready", "stopping", "stopped"}
GroupChanges == {"enabled", "disabled"}
Events == Reports \cup GroupChanges \cup {"property", "otherGroup"}

States == {"waiting", "starting", "running", "stopping", "failed"}

Pcs == {"none", "again", "uquery", "loop", "tick", "gquery", "clear", "reset",
        "scoped", "order", "attempt", "run", "stoplist", "next", "exec",
        "success", "unfuse", "count", "store", "check", "fuse", "retry", "end"}

VARIABLES
  groupMode,     \* started with --group
  state,         \* d.state, as written to the state file
  unit,          \* d.unit
  failureCount, fused,
  groups,        \* d.groups contains the group of this model
  groupUnits,    \* d.groupUnits
  pc,            \* of each goroutine
  why,           \* what it executes: "boot", "event", "tick" or "exit"
  act,           \* "start" or "stop"
  event,         \* the event main handles
  then,          \* where clearFuse returns to
  retrying,      \* a failure recorded now belongs to attemptStartWithRetry
  attempt,       \* attempts made in attemptStartWithRetry
  load,          \* failureCount as loaded by failureCount++
  order, todo,   \* runGroupAction: its units, and those still to do
  did,           \* ghost: the units its commands named
  events,        \* the events channel
  watch,         \* watchEvents: "none", "off" or "on"
  found, enabled,   \* the group as sysvisiond reports it
  published,     \* number of events published
  sigterm,
  last,          \* ghost, unit mode: the last servicectl command, or that it failed
  streak         \* ghost, unit mode: starts failed since a success or a clearing

fuseVars == <<failureCount, fused>>
objVars == <<groupMode, unit, groups, groupUnits>>
callVars == <<why, act, event, then, retrying, attempt, load>>
listVars == <<order, todo, did>>
envVars == <<found, enabled, published, sigterm>>
chanVars == <<events, watch>>
ghostVars == <<last, streak>>
vars == <<state, pc, fuseVars, objVars, callVars, listVars, envVars, chanVars, ghostVars>>

FieldType ==
  /\ groupMode \in BOOLEAN
  /\ state \in States
  /\ unit \in Names
  /\ failureCount \in Nat /\ fused \in BOOLEAN
  /\ groups \in BOOLEAN
  /\ groupUnits \in {<<>>, Members}

CallType ==
  /\ pc \in [Threads -> Pcs]
  /\ why \in [Threads -> {"boot", "event", "tick", "exit"}]
  /\ act \in [Threads -> {"start", "stop"}]
  /\ event \in Events
  /\ then \in [Threads -> {"loop", "scoped", "order"}]
  /\ retrying \in [Threads -> BOOLEAN]
  /\ attempt \in [Threads -> 0 .. MaxFailures - 1]
  /\ load \in [Threads -> Nat]

ListType ==
  /\ order \in [Threads -> {<<>>, Members, StartOrder, Reverse(Members)}]
  /\ todo \in [Threads -> Seq(Names)]
  /\ did \in [Threads -> SUBSET Names]

EnvType ==
  /\ events \in Seq(Events) /\ Len(events) <= EventCap
  /\ watch \in {"none", "off", "on"}
  /\ found \in BOOLEAN /\ enabled \in BOOLEAN
  /\ published \in Nat
  /\ sigterm \in BOOLEAN
  /\ last \in {"none", "start", "stop", "failed"}
  /\ streak \in Nat

TypeOK == FieldType /\ CallType /\ ListType /\ EnvType

\* main: the fields of a daemon that starts, by --unit or by --group.
Init ==
  /\ groupMode \in BOOLEAN
  /\ state = "waiting"
  /\ unit = Members[1]
  /\ failureCount = 0 /\ fused = FALSE
  /\ groups = FALSE
  /\ groupUnits = <<>>
  /\ pc = [t \in Threads |-> IF t = "maint" THEN "none"
                             ELSE IF groupMode THEN "gquery" ELSE "again"]
  /\ why = [t \in Threads |-> IF t = "main" THEN "boot" ELSE "tick"]
  /\ act = [t \in Threads |-> "start"]
  /\ event = "property"
  /\ then = [t \in Threads |-> "loop"]
  /\ retrying = [t \in Threads |-> FALSE]
  /\ attempt = [t \in Threads |-> 0]
  /\ load = [t \in Threads |-> 0]
  /\ order = [t \in Threads |-> <<>>]
  /\ todo = [t \in Threads |-> <<>>]
  /\ did = [t \in Threads |-> {}]
  /\ events = <<>> /\ watch = "none"
  /\ found \in BOOLEAN /\ enabled \in BOOLEAN
  /\ published = 0
  /\ sigterm = FALSE
  /\ last = "none" /\ streak = 0

Ended == pc["main"] = "end"

\* Goroutine t is at p, and the process lives.
At(t, p) == ~Ended /\ pc[t] = p
Go(t, p) == pc' = [pc EXCEPT ![t] = p]
Set(f, t, v) == [f EXCEPT ![t] = v]

\* Where t goes when its call returns: main's select, or the ticker.  The locals
\* of the call are gone.  When main gets there for the first time it starts the
\* other goroutines.
Home(t) == IF t = "main" THEN "loop" ELSE "tick"
ReturnTo(t, p) ==
  /\ pc' = [u \in Threads |-> IF u = t THEN p
                              ELSE IF p = "loop" /\ groupMode /\ pc[u] = "none"
                                   THEN "tick" ELSE pc[u]]
  /\ watch' = IF p = "loop" /\ watch = "none" THEN "off" ELSE watch
  /\ why' = IF p = "loop" THEN Set(why, t, "event") ELSE why
  /\ act' = Set(act, t, "start")
  /\ event' = IF t = "main" THEN "property" ELSE event
  /\ then' = Set(then, t, "loop")
  /\ retrying' = Set(retrying, t, FALSE)
  /\ attempt' = Set(attempt, t, 0)
  /\ load' = Set(load, t, 0)
  /\ order' = Set(order, t, <<>>)
  /\ todo' = Set(todo, t, <<>>)
  /\ did' = Set(did, t, {})
Return(t) == ReturnTo(t, Home(t))

-----------------------------------------------------------------------------
(* initialSync and the unit query (unit mode, main only). *)

\* Faulty variant: the loop does not look at the context.
SyncAgainForever ==
  /\ At("main", "again")
  /\ ReturnTo("main", "uquery")
  /\ UNCHANGED <<state, fuseVars, objVars, envVars, events, ghostVars>>

\* for ctx.Err() == nil, with the pause of one second that precedes it.
SyncAgain ==
  /\ At("main", "again")
  /\ ReturnTo("main", IF sigterm THEN "loop" ELSE "uquery")
  /\ UNCHANGED <<state, fuseVars, objVars, envVars, events, ghostVars>>

\* The query fails: initialSync tries again, handleGroupChange counts a failure.
QueryUnitFails ==
  /\ At("main", "uquery")
  /\ \/ why["main"] = "boot" /\ state' = "waiting" /\ Go("main", "again")
                             /\ UNCHANGED retrying
     \/ why["main"] = "event" /\ retrying' = Set(retrying, "main", FALSE)
                              /\ Go("main", "count") /\ UNCHANGED state
  /\ UNCHANGED <<fuseVars, objVars, why, act, event, then, attempt, load, listVars,
                 envVars, chanVars, ghostVars>>

\* refreshGroups, called by initialSync only: the unit is a member of the group or
\* not, and a query that fails leaves what was known.
RefreshGroups == groups' \in BOOLEAN

\* snapshotIsRunning: the answer, which may be stale, says the unit is up.
QueryUnitRunning ==
  /\ At("main", "uquery")
  /\ \/ why["main"] = "boot" /\ RefreshGroups /\ state' = "running"
     \/ why["main"] = "event" /\ UNCHANGED <<groups, state>>
  /\ Return("main")
  /\ UNCHANGED <<fuseVars, groupMode, unit, groupUnits, envVars, events, ghostVars>>

QueryUnitStopped ==
  /\ At("main", "uquery")
  /\ \/ why["main"] = "boot" /\ RefreshGroups
     \/ why["main"] = "event" /\ UNCHANGED groups
  /\ state' = "starting"
  /\ act' = Set(act, "main", "start")
  /\ Go("main", "attempt")
  /\ UNCHANGED <<fuseVars, groupMode, unit, groupUnits, why, event, then, retrying,
                 attempt, load, listVars, envVars, chanVars, ghostVars>>

-----------------------------------------------------------------------------
(* attemptStartWithRetry, runGroupAction, runServicectl. *)

\* attemptStartWithRetry returns false; initialSync then goes round again.
GiveUp(t) == ReturnTo(t, IF why[t] = "boot" /\ ~groupMode THEN "again" ELSE Home(t))

Suppressed(t) ==
  /\ At(t, "attempt")
  /\ fused
  /\ GiveUp(t)
  /\ UNCHANGED <<state, fuseVars, objVars, envVars, events, ghostVars>>

\* Faulty variant: the fuse is not consulted before the first attempt.
AttemptIgnoresFuse(t) ==
  /\ At(t, "attempt")
  /\ attempt' = Set(attempt, t, 0)
  /\ Go(t, "run")
  /\ UNCHANGED <<state, fuseVars, objVars, why, act, event, then, retrying, load,
                 listVars, envVars, chanVars, ghostVars>>

Attempt(t) ==
  /\ At(t, "attempt")
  /\ ~fused
  /\ attempt' = Set(attempt, t, 0)
  /\ Go(t, "run")
  /\ UNCHANGED <<state, fuseVars, objVars, why, act, event, then, retrying, load,
                 listVars, envVars, chanVars, ghostVars>>

\* The runner: one servicectl command, or one for every unit of the list.
Run(t) ==
  /\ At(t, "run")
  /\ todo' = Set(todo, t, order[t])
  /\ did' = Set(did, t, {})
  /\ Go(t, IF groupMode THEN "next" ELSE "exec")
  /\ UNCHANGED <<state, fuseVars, objVars, callVars, order, envVars, chanVars, ghostVars>>

\* The list of a stop: reverseServiceOrder(d.groupUnits).
StopList(t) ==
  /\ At(t, "stoplist")
  /\ order' = Set(order, t, Reverse(groupUnits))
  /\ todo' = order'
  /\ did' = Set(did, t, {})
  /\ Go(t, "next")
  /\ UNCHANGED <<state, fuseVars, objVars, callVars, envVars, chanVars, ghostVars>>

\* After the last command: run returns, or the success is recorded.
AfterRun(t) == IF why[t] = "exit" THEN "end" ELSE "success"

\* runGroupAction names the unit in d.unit ...
NextUnit(t) ==
  /\ At(t, "next")
  /\ \/ todo[t] = <<>> /\ Go(t, AfterRun(t)) /\ UNCHANGED <<unit, todo>>
     \/ /\ todo[t] # <<>>
        /\ unit' = Head(todo[t])
        /\ todo' = [todo EXCEPT ![t] = Tail(@)]
        /\ Go(t, "exec")
  /\ UNCHANGED <<state, fuseVars, groupMode, groups, groupUnits, callVars, order, did,
                 envVars, chanVars, ghostVars>>

\* ... and runServicectl reads it there.
RunServicectlOk(t) ==
  /\ At(t, "exec")
  /\ did' = [did EXCEPT ![t] = @ \cup {unit}]
  /\ last' = IF groupMode THEN last ELSE act[t]
  /\ streak' = IF act[t] = "start" THEN 0 ELSE streak
  /\ Go(t, IF groupMode THEN "next" ELSE AfterRun(t))
  /\ UNCHANGED <<state, fuseVars, objVars, callVars, order, todo, envVars, chanVars>>

\* Faulty variant: a failing command ends the call without being recorded.
RunServicectlFailsQuietly(t) ==
  /\ At(t, "exec")
  /\ last' = IF groupMode THEN last ELSE "failed"
  /\ IF why[t] = "exit"
     THEN Go(t, "end") /\ UNCHANGED <<watch, callVars, listVars>>
     ELSE Return(t)
  /\ UNCHANGED <<state, fuseVars, objVars, envVars, events, streak>>

\* runGroupAction gives up at the first failure; the one of an exit is ignored.
RunServicectlFails(t) ==
  /\ At(t, "exec")
  /\ last' = IF groupMode THEN last ELSE "failed"
  /\ streak' = IF groupMode \/ act[t] = "stop" THEN streak ELSE streak + 1
  /\ retrying' = Set(retrying, t, act[t] = "start")
  /\ Go(t, IF why[t] = "exit" THEN "end" ELSE "count")
  /\ UNCHANGED <<state, fuseVars, objVars, why, act, event, then, attempt, load, listVars,
                 envVars, chanVars>>

-----------------------------------------------------------------------------
(* recordAttemptSuccess, recordAttemptFailure, clearFuse. *)

RecordSuccess(t) ==
  /\ At(t, "success")
  /\ failureCount' = 0
  /\ Go(t, "unfuse")
  /\ UNCHANGED <<state, fused, objVars, callVars, listVars, envVars, chanVars, ghostVars>>

\* The caller then writes what it reached; a unit's start leaves that to events.
RecordSuccessDone(t) ==
  /\ At(t, "unfuse")
  /\ fused' = FALSE
  /\ state' = IF act[t] = "stop" THEN "waiting" ELSE IF groupMode THEN "running" ELSE state
  /\ Return(t)
  /\ UNCHANGED <<failureCount, objVars, envVars, events, ghostVars>>

\* failureCount++ is a load and a store.
CountLoad(t) ==
  /\ At(t, "count")
  /\ load' = Set(load, t, failureCount)
  /\ Go(t, "store")
  /\ UNCHANGED <<state, fuseVars, objVars, why, act, event, then, retrying, attempt,
                 listVars, envVars, chanVars, ghostVars>>

CountStore(t) ==
  /\ At(t, "store")
  /\ failureCount' = load[t] + 1
  /\ load' = Set(load, t, 0)
  /\ Go(t, "check")
  /\ UNCHANGED <<state, fused, objVars, why, act, event, then, retrying, attempt, listVars,
                 envVars, chanVars, ghostVars>>

CheckThreshold(t) ==
  /\ At(t, "check")
  /\ \/ failureCount >= MaxFailures /\ Go(t, "fuse") /\ UNCHANGED state
     \/ failureCount < MaxFailures /\ Go(t, "retry") /\ state' = "failed"
  /\ UNCHANGED <<fuseVars, objVars, callVars, listVars, envVars, chanVars, ghostVars>>

Fuse(t) ==
  /\ At(t, "fuse")
  /\ fused' = TRUE
  /\ state' = "failed"
  /\ Go(t, "retry")
  /\ UNCHANGED <<failureCount, objVars, callVars, listVars, envVars, chanVars, ghostVars>>

\* Faulty variant: one attempt too many.
RetryOnceMore(t) ==
  /\ At(t, "retry")
  /\ \/ /\ retrying[t] /\ ~fused /\ attempt[t] < MaxFailures
        /\ attempt' = [attempt EXCEPT ![t] = @ + 1]
        /\ Go(t, "run")
        /\ UNCHANGED <<why, act, event, then, retrying, load, listVars, watch>>
     \/ retrying[t] /\ (fused \/ attempt[t] >= MaxFailures) /\ GiveUp(t)
     \/ ~retrying[t] /\ Return(t)
  /\ UNCHANGED <<state, fuseVars, objVars, envVars, events, ghostVars>>

\* Back in the loop of attemptStartWithRetry, or in a caller that returns.
Retry(t) ==
  /\ At(t, "retry")
  /\ \/ /\ retrying[t] /\ ~fused /\ attempt[t] + 1 < MaxFailures
        /\ attempt' = [attempt EXCEPT ![t] = @ + 1]
        /\ Go(t, "run")
        /\ UNCHANGED <<why, act, event, then, retrying, load, listVars, watch>>
     \/ retrying[t] /\ (fused \/ attempt[t] + 1 >= MaxFailures) /\ GiveUp(t)
     \/ ~retrying[t] /\ Return(t)
  /\ UNCHANGED <<state, fuseVars, objVars, envVars, events, ghostVars>>

ClearFuse(t) ==
  /\ At(t, "clear")
  /\ \/ ~fused /\ failureCount = 0 /\ Go(t, then[t]) /\ UNCHANGED fused
     \/ (fused \/ failureCount # 0) /\ Go(t, "reset") /\ fused' = FALSE
  /\ UNCHANGED <<state, failureCount, objVars, callVars, listVars, envVars, chanVars, ghostVars>>

ClearFuseDone(t) ==
  /\ At(t, "reset")
  /\ failureCount' = 0
  /\ state' = "waiting"
  /\ streak' = 0
  /\ Go(t, then[t])
  /\ UNCHANGED <<fused, objVars, callVars, listVars, envVars, chanVars, last>>

-----------------------------------------------------------------------------
(* initialGroupSync and handleGroupScopedChange (group mode). *)

\* What is asked of the group: by the event, or by the answer itself.
Wanted(t) == IF why[t] = "event" THEN event = "enabled" ELSE enabled

\* The group does not exist, or the query failed.
QueryGroupFails(t) ==
  /\ At(t, "gquery")
  /\ groupUnits' = <<>>
  /\ state' = "waiting"
  /\ Return(t)
  /\ UNCHANGED <<fuseVars, groupMode, unit, groups, envVars, events, ghostVars>>

QueryGroupOk(t) ==
  /\ At(t, "gquery")
  /\ found
  /\ groupUnits' = Members
  /\ \/ /\ Wanted(t)
        /\ then' = Set(then, t, "order")
        /\ act' = Set(act, t, "start")
        /\ Go(t, "clear")
        /\ UNCHANGED <<state, why, event, retrying, attempt, load, listVars, watch>>
     \/ /\ ~Wanted(t) /\ why[t] = "event"
        /\ state' = "stopping"
        /\ act' = Set(act, t, "stop")
        /\ Go(t, "stoplist")
        /\ UNCHANGED <<why, event, then, retrying, attempt, load, listVars, watch>>
     \/ /\ ~Wanted(t) /\ why[t] # "event"
        /\ state' = "waiting"
        /\ Return(t)
  /\ UNCHANGED <<fuseVars, groupMode, unit, groups, envVars, events, ghostVars>>

\* startOrderForGroupUnits: what servicectl prints, or the definition's order.
StartOrderOk(t) ==
  /\ At(t, "order")
  /\ state' = "starting"
  /\ order' \in {Set(order, t, StartOrder), Set(order, t, groupUnits)}
  /\ Go(t, "attempt")
  /\ UNCHANGED <<fuseVars, objVars, callVars, todo, did, envVars, chanVars, ghostVars>>

StartOrderFails(t) ==
  /\ At(t, "order")
  /\ state' = "starting"
  /\ retrying' = Set(retrying, t, FALSE)
  /\ Go(t, "count")
  /\ UNCHANGED <<fuseVars, objVars, why, act, event, then, attempt, load, listVars, envVars,
                 chanVars, ghostVars>>

\* Faulty variant: a definition that vanished is not looked for again.
TickKnownOnly ==
  /\ At("maint", "tick")
  /\ groupUnits # <<>>
  /\ Go("maint", "gquery")
  /\ UNCHANGED <<state, fuseVars, objVars, callVars, listVars, envVars, chanVars, ghostVars>>

\* maintainMissingGroup: a tick while no unit of the group is known.
Tick ==
  /\ At("maint", "tick")
  /\ groupUnits = <<>>
  /\ Go("maint", "gquery")
  /\ UNCHANGED <<state, fuseVars, objVars, callVars, listVars, envVars, chanVars, ghostVars>>

-----------------------------------------------------------------------------
(* main's select. *)

TakeEvent(e) ==
  /\ At("main", "loop")
  /\ events # <<>> /\ e = Head(events)
  /\ events' = Tail(events)

\* handleEvent for sys-notifyd and servicectl: whichever unit the event names.
HandleReport ==
  /\ \E e \in Reports :
       /\ TakeEvent(e)
       /\ state' = CASE e = "failure"  -> "failed"
                     [] e = "ready"    -> "running"
                     [] e = "stopping" -> "stopping"
                     [] e = "stopped"  -> "waiting"
  /\ UNCHANGED <<pc, fuseVars, objVars, callVars, listVars, envVars, watch, ghostVars>>

\* handleEvent for sys-propertyd: clearFuse first.
HandleChange ==
  /\ \E e \in Events \ Reports :
       /\ TakeEvent(e)
       /\ event' = e
       /\ then' = Set(then, "main", IF e = "property" THEN "loop" ELSE "scoped")
  /\ Go("main", "clear")
  /\ UNCHANGED <<state, fuseVars, objVars, why, act, retrying, attempt, load, listVars,
                 envVars, watch, ghostVars>>

\* handleGroupScopedChange, handleGroupChange: is this our group, and what now?
HandleScoped ==
  /\ At("main", "scoped")
  /\ LET ours == event # "otherGroup" /\ (groupMode \/ groups) IN
     \/ ~ours /\ Return("main") /\ UNCHANGED state
     \/ /\ ours /\ (groupMode \/ event = "enabled")
        /\ Go("main", IF groupMode THEN "gquery" ELSE "uquery")
        /\ UNCHANGED <<state, callVars, listVars, watch>>
     \/ /\ ours /\ ~groupMode /\ event = "disabled"
        /\ state' = "stopping"
        /\ act' = Set(act, "main", "stop")
        /\ Go("main", "exec")
        /\ UNCHANGED <<why, event, then, retrying, attempt, load, listVars, watch>>
  /\ UNCHANGED <<fuseVars, objVars, envVars, events, ghostVars>>

\* case <-ctx.Done(): one stop, whose failure is ignored.
Shutdown ==
  /\ At("main", "loop")
  /\ sigterm
  /\ state' = "stopping"
  /\ why' = Set(why, "main", "exit")
  /\ act' = Set(act, "main", "stop")
  /\ Go("main", IF groupMode THEN "stoplist" ELSE "exec")
  /\ UNCHANGED <<fuseVars, objVars, event, then, retrying, attempt, load, listVars, envVars,
                 chanVars, ghostVars>>

-----------------------------------------------------------------------------
(* watchEvents, and the environment. *)

\* watchEventsOnce: the stream starts with what is published from now on.
WatchConnect ==
  /\ ~Ended /\ ~sigterm
  /\ watch = "off"
  /\ watch' = "on"
  /\ UNCHANGED <<state, pc, fuseVars, objVars, callVars, listVars, envVars, events, ghostVars>>

WatchBreak ==
  /\ ~Ended
  /\ watch = "on"
  /\ watch' = "off"
  /\ UNCHANGED <<state, pc, fuseVars, objVars, callVars, listVars, envVars, events, ghostVars>>

\* sysvisiond broadcasts e.  Nobody keeps it for a watcher that is away, and a
\* watcher that does not keep up is cut off.
Publish(e) ==
  /\ ~Ended
  /\ published < IF groupMode THEN MaxGroupEvents ELSE MaxEvents
  /\ published' = published + 1
  /\ enabled' = IF e \in GroupChanges THEN e = "enabled" ELSE enabled
  /\ \/ watch = "on" /\ Len(events) < EventCap
                     /\ events' = Append(events, e) /\ UNCHANGED watch
     \/ watch = "on" /\ Len(events) = EventCap /\ watch' = "off" /\ UNCHANGED events
     \/ watch # "on" /\ UNCHANGED chanVars
  /\ UNCHANGED <<state, pc, fuseVars, objVars, callVars, listVars, found, sigterm, ghostVars>>

\* The definition of the group is written or removed; no event tells.
GroupFile ==
  /\ ~Ended /\ groupMode
  /\ found' = ~found
  /\ UNCHANGED <<state, pc, fuseVars, objVars, callVars, listVars, enabled, published, sigterm,
                 chanVars, ghostVars>>

Sigterm ==
  /\ ~Ended
  /\ ~sigterm /\ sigterm' = TRUE
  /\ UNCHANGED <<state, pc, fuseVars, objVars, callVars, listVars, found, enabled, published,
                 chanVars, ghostVars>>

-----------------------------------------------------------------------------
SyncUnit == SyncAgain \/ QueryUnitFails \/ QueryUnitRunning \/ QueryUnitStopped

Command(t) ==
  \/ Suppressed(t)
  \/ Attempt(t)
  \/ Run(t)
  \/ StopList(t)
  \/ NextUnit(t)
  \/ RunServicectlOk(t)
  \/ RunServicectlFails(t)

Record(t) ==
  \/ RecordSuccess(t)
  \/ RecordSuccessDone(t)
  \/ CountLoad(t)
  \/ CountStore(t)
  \/ CheckThreshold(t)
  \/ Fuse(t)
  \/ Retry(t)
  \/ ClearFuse(t)
  \/ ClearFuseDone(t)

SyncGroup(t) ==
  \/ QueryGroupFails(t)
  \/ QueryGroupOk(t)
  \/ StartOrderOk(t)
  \/ StartOrderFails(t)

\* A goroutine executing a call.
Call(t) == Command(t) \/ Record(t) \/ SyncGroup(t)

Main == SyncUnit \/ HandleScoped \/ Call("main")
Select == HandleReport \/ HandleChange \/ Shutdown
Environment ==
  \/ WatchConnect
  \/ WatchBreak
  \/ \E e \in Events : Publish(e)
  \/ GroupFile
  \/ Sigterm

Terminated == Ended /\ UNCHANGED vars

Next ==
  \/ Main
  \/ Select
  \/ Tick
  \/ Call("maint")
  \/ Environment
  \/ Terminated

Spec == Init /\ [][Next]_vars

(* Fairness.  A goroutine that can run does run, and every servicectl       *)
(* command and query returns.  The cases of main's select are drawn at      *)
(* random, and a query for a group that exists does not fail for ever:      *)
(* strong fairness.                                                         *)
Fairness ==
  /\ WF_vars(Main)
  /\ SF_vars(Shutdown)
  /\ WF_vars(HandleReport \/ HandleChange)
  /\ WF_vars(Tick)
  /\ WF_vars(Call("maint"))
  /\ \A t \in Threads : SF_vars(QueryGroupOk(t))

FairSpec == Spec /\ Fairness

-----------------------------------------------------------------------------
(* Safety. *)

(* Between two successes or property changes, no more than maxFailures      *)
(* starts of a unit fail: neither the retries, nor the rounds of            *)
(* initialSync, nor group events reach servicectl once the fuse is open     *)
(* (attemptStartWithRetry, recordAttemptFailure, clearFuse).                *)
NoStartStorm == ~groupMode => streak <= MaxFailures

(* The orchestrator of a unit at rest that reports "starting" has started   *)
(* it: every failure on the way, of a retry, a query or a stop, has been    *)
(* written over it (initialSync, handleGroupChange).                        *)
StartingMeansStarted ==
  ~groupMode /\ ~sigterm /\ pc["main"] = "loop" /\ state = "starting" => last = "start"

-----------------------------------------------------------------------------
(* Liveness under FairSpec. *)

(* SIGTERM ends the daemon wherever it is: in initialSync with the fuse     *)
(* open, in the retries, or with events waiting.                            *)
SigtermEnds == sigterm ~> Ended

(* A group whose definition appears is found, although no event announces   *)
(* it (maintainMissingGroup).                                               *)
MissingGroupFound == groupMode /\ found ~> (groupUnits # <<>> \/ ~found \/ Ended)
=============================================================================
