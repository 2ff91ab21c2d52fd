--------------------------- MODULE DbusActivation ---------------------------
(***************************************************************************)
(* Activation of a D-Bus name by sys-dbusd (internal/dbusactivation,       *)
(* cmd/sys-dbusd).  The bus daemon runs a helper for each activation; the  *)
(* helper connects, passes its environment and asks for the name.  All     *)
(* requests for a name share one job, which resolves the name to a route,  *)
(* starts a process or a managed unit, and waits until the name has an     *)
(* owner, the process ends, or the time is over.  Requests can be          *)
(* cancelled, and the name can get and lose its owner at any time.         *)
(*                                                                         *)
(* One name is modelled.  The bus, the processes and the units are         *)
(* external.                                                               *)
(***************************************************************************)
EXTENDS Integers, FiniteSets

CONSTANTS
  Helpers,   \* each makes one connection and one request
  MaxJobs,   \* bound: jobs; those who find none left do not ask
  MaxFaults  \* bound: of all kinds

ASSUME DbusAssumption ==
  /\ "none" \notin Helpers
  /\ MaxJobs \in Nat /\ MaxFaults \in Nat

Jobs == 1 .. MaxJobs
Owners == Jobs \cup {0}   \* the process started by a job, or the managed unit

VARIABLES
  index,    \* where the definition of the name leads to
  svc,      \* of each of Owners
  killed,   \* processes told to end
  conn,     \* of each helper
  env,      \* serverConnection.environment: of no helper, or of one
  store,    \* EnvironmentStore, of the helpers' frontend
  req,      \* the request of each helper: see NoRequest
  job,      \* jobs[busName]: see NoJob
  results,  \* of each job, once done is closed
  started,  \* ghost: the environment of each process started, and the requester
  owned,    \* ghost: the jobs during which the name had an owner
  faults

external == <<svc, killed>>
server == <<conn, env, store>>
engine == <<req, job, results>>
vars == <<index, external, server, engine, started, owned, faults>>

NoRequest == [pc |-> "idle", env |-> "none", job |-> 0, cancelled |-> FALSE, result |-> "none"]
NoJob == [n |-> 0, pc |-> "none", by |-> "none", env |-> "none", route |-> "none",
          changes |-> FALSE, expired |-> FALSE, succeeded |-> FALSE, result |-> "none"]

Processes == {"none", "running", "named", "gone"}
Results == {"unknown", "backend", "exec", "exited", "timeout", "success"}
Requests == [pc : {"idle", "owner", "lock", "wait", "reply", "done", "lost"},
             env : Helpers \cup {"none"}, job : Jobs \cup {0}, cancelled : BOOLEAN,
             result : Results \cup {"failed", "none"}]
RunningJobs == [n : Jobs, by : Helpers, env : Helpers \cup {"none"},
                pc : {"resolve", "watch", "owner", "start", "install", "dinit", "control",
                      "select", "exit", "over", "close"},
                route : {"none", "native", "managed"}, changes : BOOLEAN, expired : BOOLEAN,
                succeeded : BOOLEAN, result : Results \cup {"none"}]

TypeOK ==
  /\ index \in {"native", "managed", "unknown"}
  /\ svc \in [Owners -> Processes] /\ killed \subseteq Jobs
  /\ conn \in [Helpers -> {"none", "open", "closed"}]
  /\ env \in [Helpers -> Helpers \cup {"none"}] /\ store \in Helpers \cup {"none"}
  /\ req \in [Helpers -> Requests]
  /\ job \in RunningJobs \cup {NoJob}
  /\ results \in [Jobs -> Results \cup {"none"}]
  /\ started \in [Jobs -> [env : Helpers \cup {"none"}, by : Helpers \cup {"none"}]]
  /\ owned \subseteq Jobs /\ faults \in 0 .. MaxFaults

Owned == \E p \in Owners : svc[p] = "named"

Init ==
  /\ index \in {"native", "managed", "unknown"}
  /\ svc \in [Owners -> {"none", "running"}] /\ \A n \in Jobs : svc[n] = "none"
  /\ killed = {}
  /\ conn = [h \in Helpers |-> "none"] /\ env = [h \in Helpers |-> "none"] /\ store = "none"
  /\ req = [h \in Helpers |-> NoRequest] /\ job = NoJob /\ results = [n \in Jobs |-> "none"]
  /\ started = [n \in Jobs |-> [env |-> "none", by |-> "none"]] /\ owned = {} /\ faults = 0

Fault == faults < MaxFaults /\ faults' = faults + 1

-----------------------------------------------------------------------------
(* The bus and the services. *)

\* Watch ... stop: the job is told of a new owner.
Watching == job.pc \in {"owner", "start", "install", "dinit", "control", "select", "exit"}

AcquireName(p) ==
  /\ svc[p] = "running" /\ ~Owned
  /\ svc' = [svc EXCEPT ![p] = "named"]
  /\ job' = IF Watching THEN [job EXCEPT !.changes = TRUE] ELSE job
  /\ owned' = IF job = NoJob THEN owned ELSE owned \cup {job.n}
  /\ UNCHANGED <<index, killed, server, req, results, started, faults>>

ServiceExits(p) ==
  /\ svc[p] \in {"running", "named"}
  /\ IF p \in killed THEN UNCHANGED faults ELSE Fault
  /\ svc' = [svc EXCEPT ![p] = "gone"]
  /\ UNCHANGED <<index, killed, server, engine, started, owned>>

-----------------------------------------------------------------------------
(* The connections: handleConnection. *)

\* The context of a request is cancelled.
Cancelled(h) == req' = [req EXCEPT ![h].cancelled = TRUE] /\ UNCHANGED job

\* Hello: the peer is authorized for its frontend, or the connection is closed.
Hello(h) ==
  /\ conn[h] = "none"
  /\ conn' \in {[conn EXCEPT ![h] = "open"], [conn EXCEPT ![h] = "closed"]}
  /\ UNCHANGED <<index, external, env, store, engine, started, owned, faults>>

\* SetEnvironment: what passes the filter replaces that of the frontend and of the connection.
SetEnvironment(h) ==
  /\ conn[h] = "open" /\ env[h] = "none"
  /\ \/ env' = [env EXCEPT ![h] = h] /\ store' = h /\ UNCHANGED conn
     \/ conn' = [conn EXCEPT ![h] = "closed"] /\ UNCHANGED <<env, store>> \* refused; the helper ends
  /\ UNCHANGED <<index, external, engine, started, owned, faults>>

\* Activate: the request is entered, and a goroutine started for it.
Activate(h) ==
  /\ conn[h] = "open" /\ env[h] # "none" /\ req[h].pc = "idle"
  /\ job # NoJob \/ \E n \in Jobs : results[n] = "none"
  /\ req' = [req EXCEPT ![h].pc = "owner", ![h].env = env[h]]
  /\ UNCHANGED <<index, external, server, job, results, started, owned, faults>>

CancelRequest(h) ==
  /\ conn[h] = "open" /\ req[h].pc \in {"owner", "lock", "wait"} /\ Fault
  /\ Cancelled(h)
  /\ UNCHANGED <<index, external, server, results, started, owned>>

\* The helper gives up, or sends what it must not: the connection ends, and cancelAll.
Disconnect(h) ==
  /\ conn[h] = "open" /\ Fault
  /\ conn' = [conn EXCEPT ![h] = "closed"]
  /\ Cancelled(h)
  /\ UNCHANGED <<index, external, env, store, results, started, owned>>

\* Reload, SIGHUP: the index is built anew, or an error leaves it as it is.
Reload ==
  /\ Fault
  /\ index' \in {"native", "managed", "unknown"}
  /\ UNCHANGED <<external, server, engine, started, owned>>

\* SIGTERM: sys-dbusd ends, with whatever it was doing.
Shutdown ==
  /\ Fault
  /\ conn' = [h \in Helpers |-> "closed"]
  /\ req' = [h \in Helpers |-> [req[h] EXCEPT !.pc = IF @ = "done" THEN "done" ELSE "lost"]]
  /\ job' = NoJob
  /\ UNCHANGED <<index, external, env, store, results, started, owned>>

-----------------------------------------------------------------------------
(* Engine.Activate, in the goroutine of a request. *)

Return(h, result) == req' = [req EXCEPT ![h].pc = "reply", ![h].result = result]

RequestOwner(h) ==
  /\ req[h].pc = "owner"
  /\ \/ Owned /\ Return(h, "success") /\ UNCHANGED faults
     \/ ~Owned /\ req' = [req EXCEPT ![h].pc = "lock"] /\ UNCHANGED faults
     \/ req[h].cancelled /\ Return(h, "backend") /\ UNCHANGED faults
     \/ Fault /\ Return(h, "backend")
  /\ UNCHANGED <<index, external, server, job, results, started, owned>>

IsNextJob(n) == results[n] = "none" /\ \A k \in 1 .. n - 1 : results[k] # "none"

\* The job of the name is joined; if there is none, one is made.
Join(h) ==
  /\ req[h].pc = "lock"
  /\ \/ /\ job # NoJob
        /\ req' = [req EXCEPT ![h].pc = "wait", ![h].job = job.n, ![h].env = "none"]
        /\ UNCHANGED <<job, owned>>
     \/ /\ job = NoJob
        /\ \E n \in Jobs :
             /\ IsNextJob(n)
             /\ job' = [NoJob EXCEPT !.n = n, !.pc = "resolve", !.by = h, !.env = req[h].env]
             /\ req' = [req EXCEPT ![h].pc = "wait", ![h].job = n, ![h].env = "none"]
             /\ owned' = IF Owned THEN owned \cup {n} ELSE owned
     \/ /\ job = NoJob /\ \A n \in Jobs : results[n] # "none"   \* the bound
        /\ Return(h, "backend")
        /\ UNCHANGED <<job, owned>>
  /\ UNCHANGED <<index, external, server, results, started, faults>>

Wait(h) ==
  /\ req[h].pc = "wait"
  /\ \/ results[req[h].job] # "none" /\ Return(h, results[req[h].job])
     \/ req[h].cancelled /\ Return(h, "failed")
  /\ UNCHANGED <<index, external, server, job, results, started, owned, faults>>

\* removeRequest, writeResult
Reply(h) ==
  /\ req[h].pc = "reply"
  /\ req' = [req EXCEPT ![h].pc = IF conn[h] = "open" THEN "done" ELSE "lost"]
  /\ UNCHANGED <<index, external, server, job, results, started, owned, faults>>

-----------------------------------------------------------------------------
(* runJob, activateJob. *)

Goto(pc) == job' = [job EXCEPT !.pc = pc]
End(result, ok) ==
  job' = [NoJob EXCEPT !.n = job.n, !.pc = "over", !.by = job.by, !.result = result, !.succeeded = ok]
Over(result) == End(result, FALSE)
Success == End("success", TRUE)

\* What may fail fails by itself, or because the time is over.
Fails == IF job.expired THEN UNCHANGED faults ELSE Fault

jobRest == <<index, killed, server, req, results, owned>>

Resolve ==
  /\ job.pc = "resolve"
  /\ \/ index = "unknown" /\ Over("unknown")
     \/ index # "unknown" /\ job' = [job EXCEPT !.pc = "watch", !.route = index]
  /\ UNCHANGED <<jobRest, svc, started, faults>>

Watch ==
  /\ job.pc = "watch"
  /\ \/ Goto("owner") /\ UNCHANGED faults
     \/ Over("backend") /\ Fails
  /\ UNCHANGED <<jobRest, svc, started>>

JobOwner ==
  /\ job.pc = "owner"
  /\ \/ Owned /\ Over("success") /\ UNCHANGED faults
     \/ ~Owned /\ Goto("start") /\ UNCHANGED faults
     \/ Over("backend") /\ Fails
  /\ UNCHANGED <<jobRest, svc, started>>

EnvironmentOfRequest == job.env

\* NativeStarter: a process, with the environment of the request.
StartNative ==
  /\ job.pc = "start" /\ job.route = "native"
  /\ \/ /\ ~job.expired
        /\ svc' = [svc EXCEPT ![job.n] = "running"]
        /\ started' = [started EXCEPT ![job.n] = [env |-> EnvironmentOfRequest, by |-> job.by]]
        /\ Goto("select")
        /\ UNCHANGED faults
     \/ Over("exec") /\ Fails /\ UNCHANGED <<svc, started>>
  /\ UNCHANGED jobRest

\* ManagedStarter: servicectl start, Dinit's start, and the control socket of sys-notifyd.
StartManaged ==
  /\ job.route = "managed"
  /\ \/ job.pc = "start" /\ Goto("install") /\ UNCHANGED <<svc, faults>>
     \/ job.pc = "install" /\ Goto("dinit") /\ UNCHANGED <<svc, faults>>
     \/ job.pc = "dinit" /\ Goto("control") /\ UNCHANGED <<svc, faults>>
     \/ /\ job.pc = "control" /\ Goto("select")
        /\ svc' = [svc EXCEPT ![0] = IF @ \in {"none", "gone"} THEN "running" ELSE @]
        /\ UNCHANGED faults
     \/ /\ job.pc \in {"install", "dinit", "control"}
        /\ Over("exec") /\ Fails
        /\ UNCHANGED svc
  /\ UNCHANGED <<jobRest, started>>

\* The select of activateJob: when several are ready, any one is taken.
Select ==
  /\ job.pc = "select"
  /\ \/ job.expired /\ \E r \in {"timeout", "backend"} : Over(r)
     \/ job.changes /\ Success
     \/ job.route = "native" /\ svc[job.n] = "gone" /\ Goto("exit")
  /\ UNCHANGED <<jobRest, svc, started, faults>>

\* The process has ended: it may have left another that owns the name.
ExitOwner ==
  /\ job.pc = "exit"
  /\ \/ Owned /\ Success /\ UNCHANGED faults
     \/ ~Owned /\ Over("exited") /\ UNCHANGED faults
     \/ Over("backend") /\ Fails
  /\ UNCHANGED <<jobRest, svc, started>>

FinishTimeout ==   \* faulty variant: only a timeout stops what was started
  /\ job.pc = "over"
  /\ killed' = IF job.result = "timeout" /\ svc[job.n] # "none" THEN killed \cup {job.n} ELSE killed
  /\ Goto("close")
  /\ UNCHANGED <<index, svc, server, req, results, started, owned, faults>>

\* The deferred calls: a process that was started in vain is killed.
Finish ==
  /\ job.pc = "over"
  /\ killed' = IF ~job.succeeded /\ svc[job.n] # "none" THEN killed \cup {job.n} ELSE killed
  /\ Goto("close")
  /\ UNCHANGED <<index, svc, server, req, results, started, owned, faults>>

CloseSuccess ==   \* faulty variant: done is not closed on an error
  /\ job.pc = "close"
  /\ results' = IF job.succeeded THEN [results EXCEPT ![job.n] = job.result] ELSE results
  /\ job' = NoJob
  /\ UNCHANGED <<index, external, server, req, started, owned, faults>>

\* runJob: the result is published, and the job is no longer to be joined.
Close ==
  /\ job.pc = "close"
  /\ results' = [results EXCEPT ![job.n] = job.result]
  /\ job' = NoJob
  /\ UNCHANGED <<index, external, server, req, started, owned, faults>>

Expire ==
  /\ job.pc \in {"watch", "owner", "start", "install", "dinit", "control", "select", "exit"} /\ ~job.expired
  /\ job' = [job EXCEPT !.expired = TRUE]
  /\ UNCHANGED <<jobRest, svc, started, faults>>

-----------------------------------------------------------------------------
RequestStep(h) == RequestOwner(h) \/ Join(h) \/ Wait(h) \/ Reply(h)
JobStep ==
  \/ Resolve \/ Watch \/ JobOwner \/ StartNative \/ StartManaged \/ Select \/ ExitOwner
  \/ Finish \/ Close

Next ==
  \/ \E p \in Owners : AcquireName(p) \/ ServiceExits(p)
  \/ \E h \in Helpers :
       \/ Hello(h) \/ SetEnvironment(h) \/ Activate(h) \/ CancelRequest(h) \/ Disconnect(h)
       \/ RequestStep(h)
  \/ Reload \/ Shutdown \/ JobStep \/ Expire

\* Goroutines run, the bus answers, and the timeout of a job passes.
Spec ==
  /\ Init /\ [][Next]_vars
  /\ WF_vars(JobStep) /\ WF_vars(Expire) /\ \A h \in Helpers : WF_vars(RequestStep(h))

-----------------------------------------------------------------------------
(* The watch comes before the second look at the owner, so that no new owner *)
(* is missed: a job that waits while the name is owned has been told.        *)
NoLostWakeup == job.pc = "select" /\ Owned => job.changes

(* Whichever of its eight ends a job has: a process started in vain has been *)
(* killed before the failure is published, and one that was started well is  *)
(* not.                                                                      *)
FailedIsStopped ==
  \A n \in Jobs :
    /\ results[n] \notin {"none", "success"} /\ svc[n] \in {"running", "named"} => n \in killed
    /\ results[n] = "success" => n \notin killed

(* A job succeeds only if the name had an owner while it ran, and who asked  *)
(* is answered what the job he joined came to, unless he cancelled.          *)
SuccessMeansOwned ==
  /\ \A n \in Jobs : results[n] = "success" => n \in owned
  /\ \A h \in Helpers : req[h].pc = "done" /\ req[h].job # 0 /\ ~req[h].cancelled
                          => req[h].result = results[req[h].job]

(* The process gets the environment of the helper that asked for it, even if *)
(* another helper has set its own in the store of their frontend since.      *)
EnvironmentIsOwn ==
  \A n \in Jobs : svc[n] # "none" => started[n].env = started[n].by

(* One requester that cancels or disconnects does not fail the others.       *)
CancelIsolated == \A h \in Helpers : req[h].result = "failed" => req[h].cancelled

(* A job does what it should whatever overtakes it (engine.go activateJob):  *)
(* it misses no owner, leaves no process behind when it fails, ends none     *)
(* that it reports as good, and starts it in the requester's environment.    *)
JobsSound == TypeOK /\ NoLostWakeup /\ FailedIsStopped /\ EnvironmentIsOwn

(* Every request is answered, or its connection or sys-dbusd has ended.      *)
Answered == \A h \in Helpers : req[h].pc = "owner" ~> req[h].pc \in {"done", "lost"}

(* Every request gets a true answer (engine.go Activate): all who joined a   *)
(* job are told what it came to, success means that there was an owner, only *)
(* who cancelled is told so, and nobody waits for ever.                      *)
AnswersTrue == SuccessMeansOwned /\ CancelIsolated
RequestsAnswered == []AnswersTrue /\ Answered
=============================================================================
