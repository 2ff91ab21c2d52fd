----------------------------- MODULE DaemonParts -----------------------------
(***************************************************************************)
(* The smaller daemons, each on its own: a behaviour is one of the worker  *)
(* of sys-logd (SysLogd), of its broker (LogBroker), of servicectl-api     *)
(* (ServicectlApi) or of the invocations that bring up a user's Dinit      *)
(* (UserDinit).  DaemonProofs proves what each keeps; MCDaemons checks it, *)
(* and what each comes to under fairness.                                  *)
(***************************************************************************)
EXTENDS Integers

CONSTANTS
  NLines, QueueSize, MaxLines, Rotations, LogFaults,   \* of SysLogd
  Conns, UidOf(_), MaxTotal, MaxPerUid,                \* of LogBroker
  Services, Clients, Streams, Cap, MaxChanges, ApiFaults,   \* of ServicectlApi
  Callers, MaxPolls, MaxDinits, UserFaults             \* of UserDinit

VARIABLES
  part,   \* the component that runs
  read, reader, queue, spillMode, disk, file, gone, writer, scan, conn,
  backoff, up, delivered, lost, late, faults, cancelled, listener, active,
  acceptor, checked, total, perUid, missed, running, runners, main, sockets,
  refreshed, refresh, waiting, observer, datagrams, subs, changes, stale,
  plane, pc, polls, lock, starting, ready, started, lapses

Logd == INSTANCE SysLogd WITH MaxFaults <- LogFaults
Broker == INSTANCE LogBroker
Api == INSTANCE ServicectlApi WITH Units <- Services, MaxFaults <- ApiFaults
User == INSTANCE UserDinit WITH MaxFaults <- UserFaults

ASSUME DaemonAssumption ==
  Logd!Parameters /\ Broker!Parameters /\ Api!Parameters /\ User!Parameters

daemonVars == <<part, Logd!vars, Broker!vars, Api!vars, User!vars>>

LogdInit == part = "worker" /\ Logd!Init
BrokerInit == part = "broker" /\ Broker!Init
ApiInit == part = "api" /\ Api!Init
UserInit == part = "user" /\ User!Init
DaemonInit == LogdInit \/ BrokerInit \/ ApiInit \/ UserInit

LogdNext == part = "worker" /\ Logd!Next /\ UNCHANGED part
BrokerNext == part = "broker" /\ Broker!Next /\ UNCHANGED part
ApiNext == part = "api" /\ Api!Next /\ UNCHANGED part
UserNext == part = "user" /\ User!Next /\ UNCHANGED part
DaemonNext == LogdNext \/ BrokerNext \/ ApiNext \/ UserNext

DaemonSpec == DaemonInit /\ [][DaemonNext]_daemonVars

-----------------------------------------------------------------------------
(* sys-logd: the worker loses no line that was read, and spill mode ends     *)
(* only when the spilled lines are replayed, however the reader, the writer  *)
(* and failures of the broker, of syslog and of the disk interleave; the     *)
(* broker's limiter counts exactly the connections that hold a slot,         *)
(* whichever way they end (spill.go, worker.go, broker.go).                  *)
LogdSound ==
  /\ part = "worker" => Logd!TypeOK /\ Logd!NothingVanishes /\ Logd!SpillIsReplayed
  /\ part = "broker" => Broker!TypeOK /\ Broker!SlotsExact

(* servicectl-api: its readiness line means filled lists and open sockets,   *)
(* and a stream of events has no gap before its end and is closed once       *)
(* (servicectl_api.go).                                                      *)
ApiSound ==
  part = "api" => /\ Api!TypeOK /\ Api!ReadyMeansServing
                  /\ Api!StreamsHaveNoGaps /\ Api!ClosedOnce

(* servicectl --user: two invocations do not start a Dinit each              *)
(* (ensureUserModeReady).                                                    *)
UserSound == part = "user" => User!TypeOK /\ User!OneDinit
=============================================================================
