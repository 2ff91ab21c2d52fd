---------------------------- MODULE MCSysNotifyd ----------------------------
(***************************************************************************)
(* Finite instances of SysNotifyd for TLC.  A behaviour is one of two      *)
(* daemons: the one the constants describe, or the one that Eager (for the *)
(* safety run) or Plain (for the liveness run) describes.                  *)
(***************************************************************************)
EXTENDS SysNotifyd

VARIABLE scenario

\* A backend that becomes ready.
ReadyOnly == {<<"READY">>}

\* A backend that hands its main process over to a helper.
Handover == {<<"MAINPID">>}

\* A backend that uses the whole protocol, several lines to a datagram.
FullProtocol == {<<"MAINPID", "READY">>, <<"WATCHDOG_USEC", "RELOADING", "STOPPING">>}

\* An eager notify service with a helper process, the watchdog and SIGTERM.
Eager == INSTANCE SysNotifyd WITH
  StartNow <- TRUE, Payloads <- FullProtocol, Helpers <- {1}, Inputs <- {"sigterm"}

\* A lazily activated service that does not notify.
Plain == INSTANCE SysNotifyd WITH
  MaxGen <- 2, Notify <- FALSE, Payloads <- ReadyOnly, Helpers <- {},
  Inputs <- {"traffic", "sigterm"}, NotifyQMax <- 0

allVars == <<vars, scenario>>

SafetyInit ==
  \/ scenario = "given" /\ Init
  \/ scenario = "eager" /\ Eager!Init

SafetyNext ==
  \/ scenario = "given" /\ Next /\ UNCHANGED scenario
  \/ scenario = "eager" /\ Eager!Next /\ UNCHANGED scenario

SafetySpec == SafetyInit /\ [][SafetyNext]_allVars

\* A step of the daemon of the constants, A, or of the plain one, B.
Either(A, B) ==
  /\ \/ scenario = "given" /\ A
     \/ scenario = "plain" /\ B
  /\ UNCHANGED scenario

LiveInit ==
  \/ scenario = "given" /\ Init
  \/ scenario = "plain" /\ Plain!Init

LiveNext ==
  \/ scenario = "given" /\ Next /\ UNCHANGED scenario
  \/ scenario = "plain" /\ Plain!Next /\ UNCHANGED scenario

\* FairSpec, for whichever of the two runs; less is asked of the goroutines of
\* the generations, of which the plain daemon has two: some of them run.
LiveSpec ==
  /\ LiveInit
  /\ [][LiveNext]_allVars
  /\ WF_allVars(Either(MainRun, Plain!MainRun))
  /\ SF_allVars(Either(HandleStartReq, Plain!HandleStartReq))
  /\ SF_allVars(Either(HandleChildExit, Plain!HandleChildExit))
  /\ SF_allVars(Either(HandleWatchdogTimeout, Plain!HandleWatchdogTimeout))
  /\ SF_allVars(Either(StopChildBegin, Plain!StopChildBegin))
  /\ WF_allVars(Either(\E g \in Gens : Reap(g), \E g \in Plain!Gens : Plain!Reap(g)))
  /\ WF_allVars(Either(\E g \in Gens : SendExit(g), \E g \in Plain!Gens : Plain!SendExit(g)))
  /\ WF_allVars(Either(\E g \in Gens : Monitor(g), \E g \in Plain!Gens : Plain!Monitor(g)))
  /\ WF_allVars(Either(Reader, Plain!Reader))
  /\ SF_allVars(Either(WatchdogSet, Plain!WatchdogSet))
  /\ WF_allVars(Either(ActivationLoop, Plain!ActivationLoop))

-----------------------------------------------------------------------------
(* TrafficServed of the service that does not notify: waiting traffic gets  *)
(* a backend, the second after the first has gone (activationLoop,          *)
(* startChildIfNeeded).                                                     *)
PlainTrafficServed == (scenario = "plain" /\ traffic) ~> Plain!TrafficTaken
=============================================================================
