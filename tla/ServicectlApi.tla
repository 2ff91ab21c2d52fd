--------------------------- MODULE ServicectlApi ----------------------------
(***************************************************************************)
(* servicectl-api (servicectl_api.go): the event hub, the three writers of *)
(* the runner list, and startup.                                           *)
(*                                                                         *)
(* The runner list of sys-propertyd is written by the ingress (datagrams   *)
(* of finished commands), by the observer of Dinit (Controller.Observe     *)
(* with the callback of observeDinit) and by refreshes (a scan of all      *)
(* units, then a replacement).  Only refreshes exclude each other.         *)
(***************************************************************************)
EXTENDS Integers, Sequences, FiniteSets

CONSTANTS
  Units,
  Clients,     \* those that ask for refreshes
  Streams,     \* those that watch /v1/events
  Cap,         \* capacity of a subscriber's channel (32)
  MaxChanges,  \* bound: changes of the units' states in Dinit
  MaxFaults    \* bound: failing requests and connections

Parameters == Cap \in Nat /\ "main" \notin Clients /\ "none" \notin Clients

VARIABLES
  running,    \* Dinit: the units that are up
  runners,    \* sys-propertyd: the runner list
  main,       \* servicectlAPIServer
  sockets,    \* the sockets that listen
  refreshed,  \* refreshPropertyLists has succeeded
  refresh,    \* who holds s.mu in refreshPropertyLists, and its scan
  waiting,    \* clients whose request is to refresh
  observer,   \* Controller.Observe
  datagrams,  \* the ingress socket
  subs,       \* the streams, with the number of events published since each was opened
  changes, faults,
  stale       \* ghost: units whose entry was last written with an outdated value

env == <<running, changes, faults>>
startup == <<main, sockets, refreshed>>
lists == <<runners, stale>>
vars == <<env, startup, lists, refresh, waiting, observer, datagrams, subs>>

NoRefresh == [by |-> "none", todo |-> {}, found |-> {}]
Unknown == {"nil"}

Init ==
  /\ running \in SUBSET Units /\ runners \in SUBSET Units
  /\ main = "refresh" /\ sockets = {} /\ refreshed = FALSE
  /\ refresh = NoRefresh /\ waiting = {"main"}
  /\ observer = [pc |-> "list", previous |-> Unknown, rows |-> {}, todo |-> {}, event |-> FALSE]
  /\ datagrams = <<>>
  /\ subs = [c \in Streams |-> [state |-> "none", sent |-> 0, ch |-> <<>>, got |-> 0, closes |-> 0]]
  /\ changes = 0 /\ faults = 0 /\ stale = {u \in Units : (u \in runners) # (u \in running)}

Alive == main \notin {"failed", "ended"}
Fault == faults < MaxFaults /\ faults' = faults + 1

-----------------------------------------------------------------------------
(* Dinit, and the command line that reports what it has done. *)

\* An unreported change, or a command that sends its event if it can.
Change(u) ==
  /\ changes < MaxChanges /\ changes' = changes + 1
  /\ running' = IF u \in running THEN running \ {u} ELSE running \cup {u}
  /\ stale' = stale \ {u}
  /\ \/ "ingress" \in sockets /\ Alive
        /\ datagrams' = Append(datagrams, [unit |-> u, present |-> u \in running'])
     \/ UNCHANGED datagrams
  /\ observer' = [observer EXCEPT !.event = TRUE]
  /\ UNCHANGED <<faults, runners, startup, refresh, waiting, subs>>

-----------------------------------------------------------------------------
(* servicectlEventHub *)

\* publish: a subscriber whose channel is full is removed and its channel closed.
Publish(s) ==
  IF s.state # "subscribed" THEN s
  ELSE IF Len(s.ch) < Cap THEN [s EXCEPT !.sent = @ + 1, !.ch = Append(@, s.sent + 1)]
  ELSE [s EXCEPT !.sent = @ + 1, !.state = "dropped", !.closes = @ + 1]

PublishEvent == subs' = [c \in Streams |-> Publish(subs[c])]

Subscribe(c) ==
  /\ Alive /\ "api" \in sockets /\ subs[c].state = "none"
  /\ subs' = [subs EXCEPT ![c].state = "subscribed"]
  /\ UNCHANGED <<env, startup, lists, refresh, waiting, observer, datagrams>>

\* The stream writes the next event, and ends when it finds the channel closed.
StreamWrite(c) ==
  /\ Alive /\ subs[c].ch # <<>> /\ subs[c].state # "gone"
  /\ subs' = [subs EXCEPT ![c].ch = Tail(@), ![c].got = Head(subs[c].ch)]
  /\ UNCHANGED <<env, startup, lists, refresh, waiting, observer, datagrams>>

UnsubscribeAlways(s) ==   \* faulty variant: it does not look whether the hub still has the subscriber
  [s EXCEPT !.state = "gone", !.closes = @ + 1]

\* unsubscribe: the channel is closed unless publish has done it.
Unsubscribe(s) ==
  [s EXCEPT !.state = "gone", !.closes = IF s.state = "subscribed" THEN @ + 1 ELSE @]

\* The client has gone, a write fails, or the closed channel is empty.
StreamEnd(c) ==
  /\ Alive /\ subs[c].state \in {"subscribed", "dropped"}
  /\ subs' = [subs EXCEPT ![c] = Unsubscribe(@)]
  /\ UNCHANGED <<env, startup, lists, refresh, waiting, observer, datagrams>>

-----------------------------------------------------------------------------
(* Ingress: the reported change goes to sys-propertyd, whatever it says. *)

Outdated(u, present) == IF present = (u \in running) THEN stale \ {u} ELSE stale \cup {u}
Listed(u, present) == IF present THEN runners \cup {u} ELSE runners \ {u}

Ingress ==
  /\ Alive /\ datagrams # <<>>
  /\ datagrams' = Tail(datagrams)
  /\ LET d == Head(datagrams)
     IN  \/ /\ runners' = Listed(d.unit, d.present) /\ stale' = Outdated(d.unit, d.present)
            /\ UNCHANGED faults
         \/ Fault /\ UNCHANGED lists
  /\ PublishEvent
  /\ UNCHANGED <<running, changes, startup, refresh, waiting, observer>>

-----------------------------------------------------------------------------
(* Observe: a snapshot, and a callback when it differs from the last one. *)

Snapshot ==
  /\ Alive /\ observer.pc = "list"
  /\ observer' = IF observer.previous = running
                 THEN [observer EXCEPT !.pc = "wait"]
                 ELSE [observer EXCEPT !.pc = "row", !.previous = running, !.rows = running, !.todo = Units]
  /\ UNCHANGED <<env, startup, lists, refresh, waiting, datagrams, subs>>

\* The connection is given up, with the events it has delivered.
SnapshotFails ==
  /\ Alive /\ observer.pc = "list" /\ Fault
  /\ observer' = [observer EXCEPT !.pc = "wait", !.previous = Unknown, !.event = FALSE]
  /\ PublishEvent
  /\ UNCHANGED <<running, changes, startup, lists, refresh, waiting, datagrams>>

\* A row that cannot be written is not tried again.
WriteRow(u) ==
  /\ Alive /\ observer.pc = "row" /\ u \in observer.todo
  /\ observer' = [observer EXCEPT !.todo = @ \ {u}]
  /\ \/ /\ runners' = Listed(u, u \in observer.rows) /\ stale' = Outdated(u, u \in observer.rows)
        /\ UNCHANGED faults
     \/ Fault /\ stale' = stale \cup {u} /\ UNCHANGED runners
  /\ UNCHANGED <<running, changes, startup, refresh, waiting, datagrams, subs>>

RowsWritten ==
  /\ Alive /\ observer.pc = "row" /\ observer.todo = {}
  /\ observer' = [observer EXCEPT !.pc = "wait", !.rows = {}]
  /\ PublishEvent
  /\ UNCHANGED <<env, startup, lists, refresh, waiting, datagrams>>

\* The ticker, or the end of the connection.
Tick ==
  /\ Alive /\ observer.pc = "wait"
  /\ observer' = [observer EXCEPT !.pc = "list"]
  /\ UNCHANGED <<env, startup, lists, refresh, waiting, datagrams, subs>>

DinitEventKeeps ==   \* faulty variant: only a snapshot that differs counts
  /\ Alive /\ observer.pc = "wait" /\ observer.event
  /\ observer' = [observer EXCEPT !.pc = "list", !.event = FALSE]
  /\ UNCHANGED <<env, startup, lists, refresh, waiting, datagrams, subs>>

\* An event discards the last snapshot: a unit may have changed and changed back.
DinitEvent ==
  /\ Alive /\ observer.pc = "wait" /\ observer.event
  /\ observer' = [observer EXCEPT !.pc = "list", !.previous = Unknown, !.event = FALSE]
  /\ UNCHANGED <<env, startup, lists, refresh, waiting, datagrams, subs>>

-----------------------------------------------------------------------------
(* refreshPropertyLists, at startup and for /v1/refresh and /v1/units?refresh. *)

Request(c) ==
  /\ Alive /\ "api" \in sockets /\ c \notin waiting /\ refresh.by # c
  /\ changes < MaxChanges   \* bound
  /\ waiting' = waiting \cup {c}
  /\ UNCHANGED <<env, startup, lists, refresh, observer, datagrams, subs>>

Lock(c) ==
  /\ Alive /\ c \in waiting /\ refresh.by = "none"
  /\ refresh' = [by |-> c, todo |-> Units, found |-> {}] /\ waiting' = waiting \ {c}
  /\ UNCHANGED <<env, startup, lists, observer, datagrams, subs>>

ScanRunnerUnit(u) ==
  /\ Alive /\ u \in refresh.todo
  /\ refresh' = [refresh EXCEPT !.todo = @ \ {u},
                                !.found = IF u \in running THEN @ \cup {u} ELSE @]
  /\ UNCHANGED <<env, startup, lists, waiting, observer, datagrams, subs>>

ReplaceRunnerList ==
  /\ Alive /\ refresh.by # "none" /\ refresh.todo = {}
  /\ runners' = refresh.found
  /\ stale' = {u \in Units : (u \in refresh.found) # (u \in running)}
  /\ refresh' = NoRefresh
  /\ refreshed' = TRUE /\ main' = IF refresh.by = "main" THEN "sockets" ELSE main
  /\ UNCHANGED <<env, sockets, waiting, observer, datagrams, subs>>

\* A client is answered with an error; at startup it is the end.
RefreshFails ==
  /\ Alive /\ refresh.by # "none" /\ Fault
  /\ refresh' = NoRefresh /\ main' = IF refresh.by = "main" THEN "failed" ELSE main
  /\ UNCHANGED <<running, changes, sockets, refreshed, lists, waiting, observer, datagrams, subs>>

-----------------------------------------------------------------------------
(* servicectlAPIServer *)

Listen(s) ==
  /\ main = "sockets" /\ s \notin sockets
  /\ sockets' = sockets \cup {s}
  /\ UNCHANGED <<env, main, refreshed, lists, refresh, waiting, observer, datagrams, subs>>

Ready ==
  /\ main = "sockets" /\ sockets = {"ingress", "api"}
  /\ main' = "ready"
  /\ UNCHANGED <<env, sockets, refreshed, lists, refresh, waiting, observer, datagrams, subs>>

\* Either server returns; the sockets are removed with it.
ServerFails ==
  /\ main \in {"sockets", "ready"} /\ Fault
  /\ main' = IF main = "ready" THEN "ended" ELSE "failed"
  /\ sockets' = {} /\ datagrams' = <<>>
  /\ UNCHANGED <<running, changes, refreshed, lists, refresh, waiting, observer, subs>>

-----------------------------------------------------------------------------
Observer == Snapshot \/ RowsWritten \/ Tick \/ DinitEvent \/ \E u \in Units : WriteRow(u)
Refresher == ReplaceRunnerList \/ \E u \in Units : ScanRunnerUnit(u)

Next ==
  \/ \E u \in Units : Change(u)
  \/ \E c \in Streams : Subscribe(c) \/ StreamWrite(c) \/ StreamEnd(c)
  \/ \E c \in Clients : Request(c)
  \/ \E c \in Clients \cup {"main"} : Lock(c)
  \/ Ingress \/ Observer \/ SnapshotFails \/ Refresher \/ RefreshFails
  \/ \E s \in {"ingress", "api"} : Listen(s)
  \/ Ready \/ ServerFails

Fairness ==
  /\ WF_vars(Observer) /\ SF_vars(DinitEvent) /\ WF_vars(Ingress) /\ WF_vars(Refresher)
  /\ \A c \in Clients \cup {"main"} : SF_vars(Lock(c))

Spec == Init /\ [][Next]_vars /\ Fairness

-----------------------------------------------------------------------------
TypeOK ==
  /\ running \subseteq Units /\ runners \subseteq Units /\ refresh.found \subseteq Units
  /\ \A c \in Streams : Len(subs[c].ch) <= Cap

(* The readiness line is written only when the lists have been filled and    *)
(* both sockets listen: whoever waits for it can query and can report.       *)
ReadyMeansServing == main = "ready" => refreshed /\ sockets = {"ingress", "api"}

(* A stream carries the events published since it was opened, in order and   *)
(* without a gap, up to the point where it ends: a client that is too slow   *)
(* is cut off, and does not miss an event without noticing.                  *)
StreamsHaveNoGaps ==
  \A c \in Streams :
    /\ \A i \in DOMAIN subs[c].ch : subs[c].ch[i] = subs[c].got + i
    /\ subs[c].state = "subscribed" => subs[c].got + Len(subs[c].ch) = subs[c].sent

(* A channel is closed exactly once, by publish or by unsubscribe, whichever *)
(* comes first; a second close would be a panic that ends the daemon.        *)
ClosedOnce == \A c \in Streams : subs[c].closes = (IF subs[c].state \in {"dropped", "gone"} THEN 1 ELSE 0)

Agreed ==
  \A u \in Units : (u \in runners) = (u \in running) \/ u \in stale \/ ~Alive

(* The runner list comes to agree with Dinit and stays so: the observer      *)
(* sees every change, lost connections included.  Excepted are the units     *)
(* whose entry another writer overwrote with an outdated value, or whose     *)
(* update failed: nothing repairs these before the next change.              *)
RunnersConverge == <>[]Agreed
=============================================================================
