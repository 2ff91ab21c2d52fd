----------------------------- MODULE Sysvisiond -----------------------------
(***************************************************************************)
(* sysvisiond (cmd/sysvisiond/main.go): one daemon turns what servicectl   *)
(* and sys-notifyd report into numbered lifecycle events and a snapshot    *)
(* table, and streams the events to watchers.                              *)
(*                                                                         *)
(* Threads: the bridge from servicectl's /v1/events and the notifyd        *)
(* ingress (Sources), the refresh loop and the HTTP queries that refresh   *)
(* (Refreshers, serialised by refreshMu), one /v1/watch handler per        *)
(* watcher.  An action is one critical section of daemon.mu or one step    *)
(* outside it.  The fetch of /v1/units reads one unit at a time.           *)
(*                                                                         *)
(* A unit's state in the manager is up, down or absent from the effective  *)
(* list; ver[u] counts its changes, and so names the process (PID and      *)
(* start time) that is up since the last one.  Left out: names and payload *)
(* text, /v1/meta and the property queries (they only read), PID reuse.    *)
(***************************************************************************)
EXTENDS Integers, Sequences, FiniteSets

CONSTANTS
  NUnits,      \* units 1 .. NUnits, in the order of their names
  Subs,        \* watchers, each of which subscribes once
  Watched,     \* Watched[s]: the units the filter of s lets through
  Queries,     \* queries with refresh=true, each made once
  Buffer,      \* subscriberBuffer, 256 in the code
  MaxChanges,  \* bound: state changes of units
  Unlistable,  \* units that may leave the effective list
  Failures     \* BOOLEAN: requests to servicectl fail, the event stream breaks

ASSUME VisionAssumption ==
  /\ NUnits \in Nat \ {0}
  /\ Watched \in [Subs -> SUBSET (1 .. NUnits)]
  /\ Buffer \in Nat \ {0}
  /\ MaxChanges \in Nat
  /\ Unlistable \subseteq 1 .. NUnits
  /\ Failures \in BOOLEAN
  /\ "loop" \notin Queries /\ "nobody" \notin Queries

Units == 1 .. NUnits
Sources == {"bridge", "ingress"}
Refreshers == {"loop"} \cup Queries
Nobody == "nobody"

VARIABLES
  up, ver,     \* what servicectl would report of each unit
  note,        \* note[src]: change reports on their way, a unit each
  spc,         \* spc[src]: thread of the source
  connected,   \* the bridge has a stream
  lost,        \* some report was dropped (history)
  norm,        \* normalizer.units: life, instance and generation of each unit
  units,       \* daemon.units: what the queries answer, "none" when not listed
  shown,       \* the version of each unit behind daemon.units (history)
  snapReady, snapErr, readySent,
  refreshCh,   \* a refresh is requested
  pc, asked,   \* pc[r]: refresher; asked[q]: the versions when q was made
  holder,      \* who holds refreshMu
  stage, todo, view,  \* its progress, and the upstream.Units it has decoded
  casting,     \* units whose event it still has to broadcast
  sub, queue,  \* sub[s], queue[s]: the watcher's entry and its channel
  out,         \* out[s]: what the watcher has received (history)
  log          \* everything broadcast (history)

worldVars == <<up, ver>>
sourceVars == <<note, spc, connected, lost>>
tableVars == <<units, shown, snapReady, snapErr>>
workVars == <<holder, stage, todo, view, casting>>
askVars == <<pc, asked>>
watchVars == <<sub, queue, out, log>>
vars == <<worldVars, sourceVars, norm, tableVars, readySent, refreshCh,
          askVars, workVars, watchVars>>

None == [life |-> "none", inst |-> 0, gen |-> 0]
Lives == {"none", "ready", "stopped"}
Entries == [life : Lives, inst : Nat, gen : Nat]

(* A broadcast event: a lifecycle event numbered gen, or a report passed    *)
(* on as it came ("report", gen 0).  mode says whether the event names the  *)
(* daemon's mode.                                                           *)
Events == [unit : Units, life : Lives \cup {"report"}, inst : Nat, gen : Nat,
           mode : BOOLEAN]

NoView == [u \in Units |-> [st |-> "absent", ver |-> 0]]
Views == [st : {"up", "down", "absent"}, ver : Nat]

(* TypeOK: the fields of the daemon and of its normalizer keep their types, *)
(* no channel exceeds its capacity, and only a refresher at work holds      *)
(* refreshMu.                                                               *)
TypeOK ==
  /\ up \in [Units -> {"up", "down", "absent"}]
  /\ ver \in [Units -> Nat]
  /\ note \in [Sources -> Seq(Units)]
  /\ spc \in [Sources -> {"recv", "request"}]
  /\ connected \in BOOLEAN /\ lost \in BOOLEAN
  /\ norm \in [Units -> Entries]
  /\ units \in [Units -> Entries]
  /\ shown \in [Units -> Nat]
  /\ snapReady \in BOOLEAN /\ snapErr \in BOOLEAN /\ readySent \in BOOLEAN
  /\ refreshCh \in BOOLEAN
  /\ pc \in [Refreshers -> {"idle", "want", "busy", "answer", "done"}]
  /\ asked \in [Queries -> [Units -> Nat]]
  /\ holder \in Refreshers \cup {Nobody}
  /\ stage \in {"none", "upstream", "fetch", "stat", "swap", "ready", "cast"}
  /\ todo \subseteq Units /\ casting \subseteq Units
  /\ view \in [Units -> Views]
  /\ sub \in [Subs -> {"off", "open", "cut", "ended", "gone"}]
  /\ queue \in [Subs -> Seq(Events)]
  /\ \A s \in Subs : Len(queue[s]) <= Buffer
  /\ out \in [Subs -> Seq(Events)]
  /\ log \in Seq(Events)
  /\ \A r \in Refreshers : pc[r] = "busy" <=> holder = r

Init ==
  /\ up \in [Units -> {"up", "down"}] /\ ver = [u \in Units |-> 0]
  /\ note = [src \in Sources |-> <<>>]
  /\ spc = [src \in Sources |-> "recv"]
  /\ connected = FALSE /\ lost = FALSE
  /\ norm = [u \in Units |-> None]
  /\ units = [u \in Units |-> None]
  /\ shown = [u \in Units |-> 0]
  /\ snapReady = FALSE /\ snapErr = FALSE /\ readySent = FALSE
  /\ refreshCh = FALSE
  /\ pc = [r \in Refreshers |-> IF r = "loop" THEN "want" ELSE "idle"]
  /\ asked = [q \in Queries |-> [u \in Units |-> 0]]
  /\ holder = Nobody /\ stage = "none" /\ todo = {} /\ casting = {}
  /\ view = NoView
  /\ sub = [s \in Subs |-> "off"]
  /\ queue = [s \in Subs |-> <<>>]
  /\ out = [s \in Subs |-> <<>>]
  /\ log = <<>>

-----------------------------------------------------------------------------
(* Broadcast: the critical section of daemon.mu that feeds the watchers. *)

\* handleWatch's filter, WatchFilter.Matches: the mode is always the daemon's.
Matches(s, e) == e.mode /\ e.unit \in Watched[s]

Feeds(s, e) == sub[s] = "open" /\ Matches(s, e)

\* Faulty variant: a full channel drops the event and keeps the watcher.
BroadcastDrops(e) ==
  /\ queue' = [s \in Subs |-> IF Feeds(s, e) /\ Len(queue[s]) < Buffer
                             THEN Append(queue[s], e) ELSE queue[s]]
  /\ log' = Append(log, e)
  /\ UNCHANGED <<sub, out>>

\* broadcast(event): a watcher whose channel is full is removed.
Broadcast(e) ==
  /\ queue' = [s \in Subs |-> IF Feeds(s, e) /\ Len(queue[s]) < Buffer
                             THEN Append(queue[s], e) ELSE queue[s]]
  /\ sub' = [s \in Subs |-> IF Feeds(s, e) /\ Len(queue[s]) >= Buffer
                           THEN "cut" ELSE sub[s]]
  /\ log' = Append(log, e)
  /\ UNCHANGED out

-----------------------------------------------------------------------------
(* The manager side: units change, and each change is reported through     *)
(* servicectl's event stream or by sys-notifyd.                            *)

Change(u) ==
  /\ ver[u] < MaxChanges
  /\ \E st \in {"up", "down", "absent"} :
       /\ st = up[u] => st = "up"
       /\ st = "absent" => u \in Unlistable
       /\ up' = [up EXCEPT ![u] = st]
  /\ ver' = [ver EXCEPT ![u] = @ + 1]
  /\ \E src \in Sources :
       IF src = "bridge" /\ ~connected
       THEN lost' = TRUE /\ UNCHANGED note
       ELSE note' = [note EXCEPT ![src] = Append(@, u)] /\ UNCHANGED lost
  /\ UNCHANGED <<spc, connected, norm, tableVars, readySent, refreshCh, askVars,
                 workVars, watchVars>>

\* streamServicectlEvents: the request is answered ...
BridgeConnect ==
  /\ ~connected
  /\ connected' = TRUE
  /\ UNCHANGED <<worldVars, note, spc, lost, norm, tableVars, readySent,
                 refreshCh, askVars, workVars, watchVars>>

\* ... and the stream ends, with the events it still held.
BridgeBreak ==
  /\ Failures
  /\ connected /\ spc["bridge"] = "recv"
  /\ connected' = FALSE
  /\ lost' = (lost \/ note["bridge"] # <<>>)
  /\ note' = [note EXCEPT !["bridge"] = <<>>]
  /\ UNCHANGED <<worldVars, spc, norm, tableVars, readySent, refreshCh, askVars,
                 workVars, watchVars>>

\* The loops of streamServicectlEvents and listenNotifydIngressOnce: pass the
\* report on to the watchers, then request a refresh.
SourceReceive(src) ==
  /\ spc[src] = "recv"
  /\ note[src] # <<>>
  /\ note' = [note EXCEPT ![src] = Tail(@)]
  /\ spc' = [spc EXCEPT ![src] = "request"]
  /\ Broadcast([unit |-> Head(note[src]), life |-> "report", inst |-> 0, gen |-> 0,
                mode |-> TRUE])
  /\ UNCHANGED <<worldVars, connected, lost, norm, tableVars, readySent,
                 refreshCh, askVars, workVars>>

\* requestRefresh: the channel holds one token.
SourceRequest(src) ==
  /\ spc[src] = "request"
  /\ spc' = [spc EXCEPT ![src] = "recv"]
  /\ refreshCh' = TRUE
  /\ UNCHANGED <<worldVars, note, connected, lost, norm, tableVars, readySent,
                 askVars, workVars, watchVars>>

-----------------------------------------------------------------------------
(* refreshSnapshots, by the refresh loop or by a query. *)

\* refreshSnapshotsLoop takes the token.
LoopWake ==
  /\ pc["loop"] = "idle"
  /\ refreshCh
  /\ refreshCh' = FALSE
  /\ pc' = [pc EXCEPT !["loop"] = "want"]
  /\ UNCHANGED <<worldVars, sourceVars, norm, tableVars, readySent, asked,
                 workVars, watchVars>>

\* handleUnitsQuery or handleUnitQuery with refresh=true.
Ask(q) ==
  /\ pc[q] = "idle"
  /\ pc' = [pc EXCEPT ![q] = "want"]
  /\ asked' = [asked EXCEPT ![q] = ver]
  /\ UNCHANGED <<worldVars, sourceVars, norm, tableVars, readySent, refreshCh,
                 workVars, watchVars>>

\* Faulty variant: a query that finds a refresh under way makes do with it.
LockCoalesces(r) ==
  /\ pc[r] = "want"
  /\ IF holder = Nobody
     THEN /\ pc' = [pc EXCEPT ![r] = "busy"]
          /\ holder' = r
          /\ stage' = IF r = "loop" THEN "fetch" ELSE "upstream"
          /\ todo' = Units
     ELSE /\ stage = "cast" /\ r # "loop"
          /\ pc' = [pc EXCEPT ![r] = "answer"]
          /\ UNCHANGED <<holder, stage, todo>>
  /\ UNCHANGED <<worldVars, sourceVars, norm, tableVars, readySent, refreshCh,
                 asked, view, casting, watchVars>>

\* refreshMu.Lock; only a query asks servicectl to refresh first.
Lock(r) ==
  /\ pc[r] = "want"
  /\ holder = Nobody
  /\ pc' = [pc EXCEPT ![r] = "busy"]
  /\ holder' = r
  /\ stage' = IF r = "loop" THEN "fetch" ELSE "upstream"
  /\ todo' = Units
  /\ UNCHANGED <<worldVars, sourceVars, norm, tableVars, readySent, refreshCh,
                 asked, view, casting, watchVars>>

RefreshUpstream ==
  /\ stage = "upstream"
  /\ stage' = "fetch"
  /\ UNCHANGED <<worldVars, sourceVars, norm, tableVars, readySent, refreshCh,
                 askVars, holder, todo, view, casting, watchVars>>

\* fetchUnits: servicectl collects its answer unit by unit.
FetchUnit(u) ==
  /\ stage = "fetch"
  /\ u \in todo
  /\ view' = [view EXCEPT ![u] = [st |-> up[u], ver |-> ver[u]]]
  /\ todo' = todo \ {u}
  /\ stage' = IF todo = {u} THEN "stat" ELSE "fetch"
  /\ UNCHANGED <<worldVars, sourceVars, norm, tableVars, readySent, refreshCh,
                 askVars, holder, casting, watchVars>>

\* Faulty variant: a return without the unlock.
UnlockForgets(answer) ==
  /\ stage' = "none"
  /\ todo' = {}
  /\ view' = NoView
  /\ pc' = [pc EXCEPT ![holder] = IF holder = "loop" THEN "idle" ELSE answer]
  /\ UNCHANGED holder

\* The deferred unlock: the loop waits for the next token, a query goes on.
Unlock(answer) ==
  /\ holder' = Nobody
  /\ stage' = "none"
  /\ todo' = {}
  /\ view' = NoView
  /\ pc' = [pc EXCEPT ![holder] = IF holder = "loop" THEN "idle" ELSE answer]

\* One of the two requests fails: the table stays, the error is recorded, and
\* the token that asked for this refresh is spent.
RefreshFail ==
  /\ Failures
  /\ stage \in {"upstream", "fetch"}
  /\ snapErr' = TRUE
  /\ Unlock("done")
  /\ UNCHANGED <<worldVars, sourceVars, norm, units, shown, snapReady,
                 readySent, refreshCh, asked, casting, watchVars>>

\* normalizer.Update for one unit: inst is its ready process, 0 for none.
Advances(prev, inst) ==
  \/ inst # 0 /\ (prev.life # "ready" \/ prev.inst # inst)
  \/ inst = 0 /\ prev.life = "ready"

NextEntry(prev, inst, listed) ==
  [life |-> IF inst # 0 THEN "ready"
            ELSE IF listed \/ prev.life = "ready" THEN "stopped" ELSE prev.life,
   inst |-> inst,
   gen |-> prev.gen + (IF Advances(prev, inst) THEN 1 ELSE 0)]

\* The start times are read from /proc after the fetch: a process that has
\* ended since may be gone, or still be there as a zombie.
Ended == {u \in Units : view[u].st = "up" /\ ver[u] # view[u].ver}

\* Faulty variant: a unit that is ready is announced by every refresh.
NormalizeRecasts ==
  /\ stage = "stat"
  /\ stage' = "swap"
  /\ norm' = [u \in Units |->
       NextEntry(norm[u], IF view[u].st = "up" THEN view[u].ver + 1 ELSE 0, view[u].st # "absent")]
  /\ casting' = {u \in Units : view[u].st = "up"}
  /\ UNCHANGED <<worldVars, sourceVars, tableVars, readySent, refreshCh, askVars,
                 holder, todo, view, watchVars>>

\* lifecycleReady over the start times, then normalizer.Update.
Normalize ==
  /\ stage = "stat"
  /\ stage' = "swap"
  /\ \E gone \in SUBSET Ended :
       LET Inst(u) == IF view[u].st = "up" /\ u \notin gone THEN view[u].ver + 1 ELSE 0
       IN  /\ norm' = [u \in Units |-> NextEntry(norm[u], Inst(u), view[u].st # "absent")]
           /\ casting' = {u \in Units : Advances(norm[u], Inst(u))}
  /\ UNCHANGED <<worldVars, sourceVars, tableVars, readySent, refreshCh, askVars,
                 holder, todo, view, watchVars>>

\* Faulty variant: entries that are still listed are merged, not replaced.
SwapMerges ==
  /\ stage = "swap"
  /\ units' = [u \in Units |-> IF view[u].st = "absent" THEN None
                              ELSE IF units[u].life = "ready" THEN units[u] ELSE norm[u]]
  /\ shown' = [u \in Units |-> view[u].ver]
  /\ snapReady' = TRUE
  /\ snapErr' = FALSE
  /\ stage' = "ready"
  /\ UNCHANGED <<worldVars, sourceVars, norm, readySent, refreshCh, askVars,
                 holder, todo, view, casting, watchVars>>

\* The new table replaces the old one.
Swap ==
  /\ stage = "swap"
  /\ units' = [u \in Units |-> IF view[u].st = "absent" THEN None ELSE norm[u]]
  /\ shown' = [u \in Units |-> view[u].ver]
  /\ snapReady' = TRUE
  /\ snapErr' = FALSE
  /\ stage' = "ready"
  /\ UNCHANGED <<worldVars, sourceVars, norm, readySent, refreshCh, askVars,
                 holder, todo, view, casting, watchVars>>

\* notifyReady: a failed write is tried again after the next refresh.
NotifyReady ==
  /\ stage = "ready"
  /\ stage' = "cast"
  /\ readySent' \in IF Failures THEN {readySent, TRUE} ELSE {TRUE}
  /\ UNCHANGED <<worldVars, sourceVars, norm, tableVars, refreshCh, askVars,
                 holder, todo, view, casting, watchVars>>

\* lifecycleEvent: the snapshot of an unlisted unit carries no mode.
LifecycleEvent(u) ==
  [unit |-> u, life |-> norm[u].life, inst |-> norm[u].inst, gen |-> norm[u].gen,
   mode |-> view[u].st # "absent"]

\* The events are broadcast in the order of the unit names.
Cast ==
  /\ stage = "cast"
  /\ \E u \in casting :
       /\ \A v \in casting : u <= v
       /\ casting' = casting \ {u}
       /\ Broadcast(LifecycleEvent(u))
  /\ UNCHANGED <<worldVars, sourceVars, norm, tableVars, readySent, refreshCh,
                 askVars, holder, stage, todo, view>>

\* Faulty variant: requests made during the refresh count as served by it.
FinishDrains ==
  /\ stage = "cast" /\ casting = {}
  /\ Unlock("answer")
  /\ refreshCh' = FALSE
  /\ UNCHANGED <<worldVars, sourceVars, norm, tableVars, readySent, asked,
                 casting, watchVars>>

Finish ==
  /\ stage = "cast" /\ casting = {}
  /\ Unlock("answer")
  /\ UNCHANGED <<worldVars, sourceVars, norm, tableVars, readySent, refreshCh,
                 asked, casting, watchVars>>

\* The query encodes the table it finds.
Answer(q) ==
  /\ pc[q] = "answer"
  /\ pc' = [pc EXCEPT ![q] = "done"]
  /\ UNCHANGED <<worldVars, sourceVars, norm, tableVars, readySent, refreshCh,
                 asked, workVars, watchVars>>

Refresh ==
  \/ RefreshUpstream
  \/ \E u \in Units : FetchUnit(u)
  \/ RefreshFail
  \/ Normalize
  \/ Swap
  \/ NotifyReady
  \/ Cast
  \/ Finish

-----------------------------------------------------------------------------
(* handleWatch: subscribe, the delivery loop, unsubscribe. *)

WatchStep == UNCHANGED <<worldVars, sourceVars, norm, tableVars, readySent,
                         refreshCh, askVars, workVars, log>>

Subscribe(s) ==
  /\ sub[s] = "off"
  /\ sub' = [sub EXCEPT ![s] = "open"]
  /\ UNCHANGED <<queue, out>>
  /\ WatchStep

\* A closed channel still yields what it holds.
Deliver(s) ==
  /\ sub[s] \in {"open", "cut"}
  /\ queue[s] # <<>>
  /\ out' = [out EXCEPT ![s] = Append(@, Head(queue[s]))]
  /\ queue' = [queue EXCEPT ![s] = Tail(@)]
  /\ UNCHANGED sub
  /\ WatchStep

EndOfStream(s) ==
  /\ sub[s] = "cut" /\ queue[s] = <<>>
  /\ sub' = [sub EXCEPT ![s] = "ended"]
  /\ UNCHANGED <<queue, out>>
  /\ WatchStep

\* The client goes away, or a write to it fails.
Disconnect(s) ==
  /\ sub[s] \in {"open", "cut"}
  /\ sub' = [sub EXCEPT ![s] = "gone"]
  /\ queue' = [queue EXCEPT ![s] = <<>>]
  /\ UNCHANGED out
  /\ WatchStep

Watch(s) ==
  \/ Subscribe(s)
  \/ Deliver(s)
  \/ EndOfStream(s)
  \/ Disconnect(s)

-----------------------------------------------------------------------------
Next ==
  \/ \E u \in Units : Change(u)
  \/ BridgeConnect
  \/ BridgeBreak
  \/ \E src \in Sources : SourceReceive(src) \/ SourceRequest(src)
  \/ LoopWake
  \/ \E r \in Refreshers : Lock(r)
  \/ Refresh
  \/ \E q \in Queries : Ask(q) \/ Answer(q)
  \/ \E s \in Subs : Watch(s)

Spec == Init /\ [][Next]_vars

(* Fairness: the daemon's own goroutines run.  Units, clients and watchers  *)
(* owe nothing; a Go mutex is granted to every goroutine that waits for it. *)
Fairness ==
  /\ \A src \in Sources : WF_vars(SourceReceive(src) \/ SourceRequest(src))
  /\ WF_vars(LoopWake)
  /\ \A r \in Refreshers : SF_vars(Lock(r))
  /\ WF_vars(Refresh)

FairSpec == Spec /\ Fairness

-----------------------------------------------------------------------------
(* Properties. *)

Lifecycle(e) == e.life # "report"

(* Within the daemon's epoch the events of a unit carry strictly increasing *)
(* generations, whoever triggered the refreshes and however often the unit  *)
(* left the list in between (normalizer.Update under refreshMu, then        *)
(* broadcast).                                                              *)
GenerationOrder ==
  \A i, j \in DOMAIN log :
    i < j /\ log[i].unit = log[j].unit /\ Lifecycle(log[i]) /\ Lifecycle(log[j])
    => log[i].gen < log[j].gen

(* A watcher that queries the unit after an event finds an entry at least   *)
(* as new as the event, and one that agrees with it when the generations    *)
(* are equal (refreshSnapshots replaces the table before it broadcasts).    *)
SnapshotNotBehind ==
  \A i \in DOMAIN log :
    LET e == log[i]
        entry == units[e.unit]
    IN  Lifecycle(e) /\ entry.life # "none"
        => /\ e.gen <= entry.gen
           /\ e.gen = entry.gen => e.life = entry.life /\ e.inst = entry.inst

(* A query with refresh=true answers with a table read from servicectl      *)
(* after the query was made, also when other refreshes were under way       *)
(* (handleUnitsQuery, handleUnitQuery, refreshMu).                          *)
FreshAnswers ==
  \A q \in Queries : pc[q] = "answer" => \A u \in Units : asked[q][u] <= shown[u]

(* The stream of each watcher: every matching event in order, none missing  *)
(* while it is subscribed (broadcast, handleWatch, unsubscribe).            *)
Stream == INSTANCE VisionStream WITH
  state <- sub,
  published <- [s \in Subs |-> out[s] \o queue[s]],
  received <- out

StreamPromise == Stream!StreamSpec

\* The table says what servicectl would say.
TableCurrent ==
  \A u \in Units :
    CASE up[u] = "up" -> units[u].life = "ready" /\ units[u].inst = ver[u] + 1
      [] up[u] = "down" -> units[u].life = "stopped"
      [] up[u] = "absent" -> units[u].life = "none"

(* Once the units stop changing the table becomes current and stays so: no  *)
(* request for a refresh is missed, although the channel holds only one     *)
(* token.  The exceptions are those the daemon can do nothing about or      *)
(* reports: a change nobody told it of, and a failed refresh.               *)
Converges == <>[](TableCurrent \/ snapErr \/ lost)
=============================================================================
