----------------------------- MODULE MCDaemons ------------------------------
(***************************************************************************)
(* DaemonParts on small instances, with the fairness of each component's   *)
(* module.  A client of servicectl-api either asks for refreshes or        *)
(* watches the events.                                                     *)
(***************************************************************************)
EXTENDS DaemonParts

CONSTANT Void   \* a model value: what the variables of the other components are

VARIABLE away   \* of servicectl-api: the kind of client that stays away

\* Of three connections, two are of a user.
User1Or2(c) == IF c = "c" THEN 2 ELSE 1

vars == <<part, away, read, reader, queue, spillMode, disk, file, gone,
          writer, scan, conn, backoff, up, delivered, lost, late, faults,
          cancelled, listener, active, acceptor, checked, total, perUid,
          missed, running, runners, main, sockets, refreshed, refresh,
          waiting, observer, datagrams, subs, changes, stale, plane, pc,
          polls, lock, starting, ready, started, lapses>>

NotLogd == <<cancelled, listener, active, acceptor, checked, total, perUid,
             missed, running, runners, main, sockets, refreshed, refresh,
             waiting, observer, datagrams, subs, changes, stale, plane, pc,
             polls, lock, starting, ready, started, lapses, away>>
NotBroker == <<read, reader, queue, spillMode, disk, file, gone, writer, scan,
               backoff, up, delivered, lost, late, faults, running, runners,
               main, sockets, refreshed, refresh, waiting, observer,
               datagrams, subs, changes, stale, plane, pc, polls, lock,
               starting, ready, started, lapses, away>>
NotApi == <<read, reader, queue, spillMode, disk, file, gone, writer, scan,
            conn, backoff, up, delivered, lost, late, cancelled, listener,
            active, acceptor, checked, total, perUid, missed, plane, pc,
            polls, lock, starting, ready, started, lapses, away>>
NotUser == <<read, reader, queue, spillMode, disk, file, gone, writer, scan,
             conn, backoff, up, delivered, lost, late, cancelled, listener,
             active, acceptor, checked, total, perUid, missed, running,
             runners, main, sockets, refreshed, refresh, waiting, observer,
             datagrams, subs, changes, stale, away>>

Init ==
  \/ /\ LogdInit
     /\ cancelled = Void /\ listener = Void /\ active = Void
     /\ acceptor = Void /\ checked = Void /\ total = Void /\ perUid = Void
     /\ missed = Void /\ running = Void /\ runners = Void /\ main = Void
     /\ sockets = Void /\ refreshed = Void /\ refresh = Void /\ waiting = Void
     /\ observer = Void /\ datagrams = Void /\ subs = Void /\ changes = Void
     /\ stale = Void /\ plane = Void /\ pc = Void /\ polls = Void
     /\ lock = Void /\ starting = Void /\ ready = Void /\ started = Void
     /\ lapses = Void /\ away = Void
  \/ /\ BrokerInit
     /\ read = Void /\ reader = Void /\ queue = Void /\ spillMode = Void
     /\ disk = Void /\ file = Void /\ gone = Void /\ writer = Void
     /\ scan = Void /\ backoff = Void /\ up = Void /\ delivered = Void
     /\ lost = Void /\ late = Void /\ faults = Void /\ running = Void
     /\ runners = Void /\ main = Void /\ sockets = Void /\ refreshed = Void
     /\ refresh = Void /\ waiting = Void /\ observer = Void
     /\ datagrams = Void /\ subs = Void /\ changes = Void /\ stale = Void
     /\ plane = Void /\ pc = Void /\ polls = Void /\ lock = Void
     /\ starting = Void /\ ready = Void /\ started = Void /\ lapses = Void
     /\ away = Void
  \/ /\ ApiInit
     /\ away \in {"streams", "clients"}
     /\ read = Void /\ reader = Void /\ queue = Void /\ spillMode = Void
     /\ disk = Void /\ file = Void /\ gone = Void /\ writer = Void
     /\ scan = Void /\ conn = Void /\ backoff = Void /\ up = Void
     /\ delivered = Void /\ lost = Void /\ late = Void /\ cancelled = Void
     /\ listener = Void /\ active = Void /\ acceptor = Void /\ checked = Void
     /\ total = Void /\ perUid = Void /\ missed = Void /\ plane = Void
     /\ pc = Void /\ polls = Void /\ lock = Void /\ starting = Void
     /\ ready = Void /\ started = Void /\ lapses = Void
  \/ /\ UserInit
     /\ read = Void /\ reader = Void /\ queue = Void /\ spillMode = Void
     /\ disk = Void /\ file = Void /\ gone = Void /\ writer = Void
     /\ scan = Void /\ conn = Void /\ backoff = Void /\ up = Void
     /\ delivered = Void /\ lost = Void /\ late = Void /\ cancelled = Void
     /\ listener = Void /\ active = Void /\ acceptor = Void /\ checked = Void
     /\ total = Void /\ perUid = Void /\ missed = Void /\ running = Void
     /\ runners = Void /\ main = Void /\ sockets = Void /\ refreshed = Void
     /\ refresh = Void /\ waiting = Void /\ observer = Void
     /\ datagrams = Void /\ subs = Void /\ changes = Void /\ stale = Void
     /\ away = Void

\* Nobody subscribes; or nobody asks, while Dinit changes less.
Kept ==
  IF away = "streams" THEN \A w \in Streams : subs'[w].state = "none"
  ELSE waiting' \subseteq {"main"} /\ changes' <= 1

Next ==
  \/ LogdNext /\ UNCHANGED NotLogd
  \/ BrokerNext /\ UNCHANGED NotBroker
  \/ ApiNext /\ Kept /\ UNCHANGED NotApi
  \/ UserNext /\ UNCHANGED NotUser

LogdStep(A) == part = "worker" /\ A /\ UNCHANGED <<part, NotLogd>>
BrokerStep(A) == part = "broker" /\ A /\ UNCHANGED <<part, NotBroker>>
ApiStep(A) == part = "api" /\ away = "streams" /\ A /\ UNCHANGED <<part, NotApi>>
UserStep(A) == part = "user" /\ A /\ UNCHANGED <<part, NotUser>>

\* What each component's module assumes of its scheduling.
Fairness ==
  /\ WF_vars(LogdStep(Logd!ReaderStep)) /\ WF_vars(LogdStep(Logd!WriterStep))
  /\ WF_vars(LogdStep(Logd!PartsRecover))
  /\ WF_vars(BrokerStep(Broker!Accept)) /\ WF_vars(BrokerStep(Broker!Acquire))
  /\ WF_vars(BrokerStep(Broker!Register)) /\ WF_vars(BrokerStep(Broker!Return))
  /\ WF_vars(BrokerStep(Broker!CloseAll))
  /\ \A c \in Conns : WF_vars(BrokerStep(Broker!Release(c)))
  /\ WF_vars(ApiStep(Api!Observer)) /\ SF_vars(ApiStep(Api!DinitEvent))
  /\ WF_vars(ApiStep(Api!Ingress)) /\ WF_vars(ApiStep(Api!Refresher))
  /\ \A c \in Clients \cup {"main"} : SF_vars(ApiStep(Api!Lock(c)))
  /\ \A c \in Callers : WF_vars(UserStep(User!Caller(c)))

Spec == Init /\ [][Next]_vars /\ Fairness

-----------------------------------------------------------------------------
\* What each comes to: when the service has ended, the worker delivers what is
\* left and ends; runBroker returns once it is told to, although its workers
\* would go on; the runner list comes to agree with Dinit, but for entries
\* written last with an outdated value; and no invocation of servicectl --user
\* waits for the lock for ever.
DaemonsConverge ==
  /\ <>(part = "worker" => Logd!Drained)
  /\ (part = "broker" /\ cancelled) ~> Broker!Returned
  /\ <>[](part = "api" /\ away = "streams" => Api!Agreed)
  /\ <>(part = "user" => User!AllReturned)
=============================================================================
