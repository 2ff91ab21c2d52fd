------------------------ MODULE DbusActivationProofs ------------------------
(***************************************************************************)
(* Proofs about DbusActivation: what a job does whatever overtakes it, and *)
(* that the answers are true, for any number of helpers, jobs and faults.  *)
(***************************************************************************)
EXTENDS DbusActivation, TLAPS

USE DbusAssumption

-----------------------------------------------------------------------------
(* The inductive invariant. *)

\* sys-dbusd has ended, or everybody has been answered: no job is made any more.
Down == \A h \in Helpers : conn[h] = "closed" /\ req[h].pc \in {"done", "lost"}

Ended == {"over", "close"}

\* The job that runs has no result yet, and has heard of every owner.
Heard ==
  /\ results[job.n] = "none"
  /\ Owned \/ job.changes => job.n \in owned
  /\ Owned /\ job.pc \in {"start", "install", "dinit", "control", "select", "exit"} => job.changes

\* What it has started, and in whose environment.
Running ==
  /\ job.pc \notin Ended => job.env = job.by
  /\ job.pc \in {"resolve", "watch", "owner", "start", "install", "dinit", "control"} => svc[job.n] = "none"
  /\ job.pc # "close" => job.n \notin killed

\* What it comes to.
Outcome ==
  job.pc \in Ended =>
    /\ job.result # "none"
    /\ job.succeeded => job.result = "success"
    /\ job.result = "success" => job.n \in owned /\ (job.succeeded \/ svc[job.n] = "none")
    /\ job.pc = "close" => IF job.result = "success" THEN job.n \notin killed
                           ELSE svc[job.n] \in {"running", "named"} => job.n \in killed

JobSound == job # NoJob => Heard /\ Running /\ Outcome

\* A job that is still to be made starts from nothing.
Unused ==
  \A n \in Jobs : results[n] = "none" /\ (job = NoJob \/ job.n # n) => Down \/ (svc[n] = "none" /\ n \notin killed)

RequestFor(h) ==
  LET q == req[h] IN
  /\ env[h] \in {"none", h}
  /\ q.pc \in {"owner", "lock"} => q.env = h
  /\ q.pc \in {"idle", "owner", "lock"} => q.job = 0
  /\ q.pc \in {"idle", "owner", "lock", "wait"} => q.result = "none"
  /\ q.pc = "wait" => q.job \in Jobs
  /\ q.result = "failed" => q.cancelled
  /\ q.pc \in {"reply", "done"} /\ q.job # 0 /\ ~q.cancelled
       => q.result = results[q.job] /\ results[q.job] # "none"

RequestsSound == \A h \in Helpers : RequestFor(h)

ResultsOwned == \A n \in Jobs : results[n] = "success" => n \in owned

ActivationSound ==
  /\ TypeOK /\ JobSound /\ Unused /\ RequestsSound
  /\ FailedIsStopped /\ EnvironmentIsOwn /\ ResultsOwned

-----------------------------------------------------------------------------
(* Types. *)

\* The ways in which a step leaves a job.
LEMMA JobTypes ==
  ASSUME TypeOK
  PROVE  /\ job.pc # "none" => job \in RunningJobs /\ job # NoJob
         /\ job # NoJob => job \in RunningJobs /\ job.pc # "none"
         /\ job = NoJob => job.pc = "none"
         /\ job \in RunningJobs =>
              /\ \A pc \in {"owner", "start", "install", "dinit", "control", "select", "exit", "close"} :
                   Goto(pc) => job' \in RunningJobs /\ job' = [job EXCEPT !.pc = pc]
              /\ \A r \in Results, ok \in BOOLEAN :
                   End(r, ok) => /\ job' \in RunningJobs /\ job'.pc = "over" /\ job'.n = job.n
                                 /\ job'.result = r /\ job'.succeeded = ok /\ job'.changes = FALSE
<1>1. job \in RunningJobs \cup {NoJob} /\ NoJob.pc = "none"
  BY DEF TypeOK, NoJob
<1>2. job \in RunningJobs => job.pc # "none"
  BY DEF RunningJobs
<1>3. ASSUME job \in RunningJobs,
             NEW pc \in {"owner", "start", "install", "dinit", "control", "select", "exit", "close"}, Goto(pc)
      PROVE  job' \in RunningJobs /\ job' = [job EXCEPT !.pc = pc]
  BY <1>3 DEF Goto, RunningJobs
<1>4. ASSUME job \in RunningJobs, NEW r \in Results, NEW ok \in BOOLEAN, End(r, ok)
      PROVE  /\ job' \in RunningJobs /\ job'.pc = "over" /\ job'.n = job.n
             /\ job'.result = r /\ job'.succeeded = ok /\ job'.changes = FALSE
  BY <1>4 DEF End, RunningJobs, NoJob
<1> QED
  BY <1>1, <1>2, <1>3, <1>4

LEMMA FaultTypes == TypeOK /\ Fault => faults' \in 0 .. MaxFaults
BY DEF TypeOK, Fault

LEMMA TypeInit == Init => TypeOK
BY DEF Init, TypeOK, Processes, Requests, NoRequest, Owners, Jobs

\* The steps of the bus, of the connections and of requests.
LEMMA ServerTyped ==
  ASSUME TypeOK,
         \/ \E p \in Owners : AcquireName(p) \/ ServiceExits(p)
         \/ \E h \in Helpers :
              Hello(h) \/ SetEnvironment(h) \/ Activate(h) \/ CancelRequest(h) \/ Disconnect(h)
         \/ Reload \/ Shutdown
  PROVE  TypeOK'
<1> USE DEF external, server, engine
<1>0. req \in [Helpers -> Requests]
  BY DEF TypeOK
<1>1. ASSUME NEW p \in Owners, AcquireName(p) PROVE TypeOK'
  <2>1. job' \in RunningJobs \cup {NoJob}
    <3>1. CASE job = NoJob
      BY <1>1, <3>1 DEF AcquireName, Watching, NoJob
    <3>2. CASE job \in RunningJobs
      BY <1>1, <3>2 DEF AcquireName, Watching, RunningJobs
    <3> QED
      BY <3>1, <3>2 DEF TypeOK
  <2>2. owned' \subseteq Jobs
    BY <1>1 DEF AcquireName, TypeOK, RunningJobs
  <2> QED
    BY <1>1, <2>1, <2>2 DEF AcquireName, TypeOK, Processes
<1>2. ASSUME NEW p \in Owners, ServiceExits(p) PROVE TypeOK'
  BY <1>2, FaultTypes DEF ServiceExits, TypeOK, Processes
<1>3. ASSUME NEW h \in Helpers, Hello(h) \/ SetEnvironment(h) PROVE TypeOK'
  BY <1>3 DEF Hello, SetEnvironment, TypeOK
<1>4. ASSUME NEW h \in Helpers, Activate(h) PROVE TypeOK'
  <2>1. req' \in [Helpers -> Requests]
    BY <1>0, <1>4, SMTT(20) DEF Activate, TypeOK, Requests
  <2> QED
    BY <1>4, <2>1 DEF Activate, TypeOK
<1>5. ASSUME NEW h \in Helpers, CancelRequest(h) \/ Disconnect(h) PROVE TypeOK'
  <2>1. req' \in [Helpers -> Requests]
    <3>1. req' = [req EXCEPT ![h].cancelled = TRUE] /\ req[h] \in Requests
      BY <1>0, <1>5 DEF CancelRequest, Disconnect, Cancelled
    <3>2. [req[h] EXCEPT !.cancelled = TRUE] \in Requests
      BY <3>1 DEF Requests
    <3> QED
      BY <1>0, <3>1, <3>2
  <2> QED
    BY <1>5, <2>1, FaultTypes DEF CancelRequest, Disconnect, Cancelled, TypeOK
<1>6. CASE Reload
  BY <1>6, FaultTypes DEF Reload, TypeOK
<1>7. CASE Shutdown
  <2>1. req' \in [Helpers -> Requests]
    BY <1>0, <1>7 DEF Shutdown, Requests
  <2> QED
    BY <1>7, <2>1, FaultTypes DEF Shutdown, TypeOK
<1> QED
  BY <1>1, <1>2, <1>3, <1>4, <1>5, <1>6, <1>7

LEMMA RequestTyped ==
  ASSUME TypeOK, NEW h \in Helpers, RequestFor(h), RequestStep(h)
  PROVE  TypeOK'
<1> USE DEF external, server, engine
<1>0. req \in [Helpers -> Requests]
  BY DEF TypeOK
<1>1. ASSUME NEW r \in Results \cup {"failed"}, Return(h, r) PROVE req' \in [Helpers -> Requests]
  <2>1. req' = [req EXCEPT ![h].pc = "reply", ![h].result = r] /\ req[h] \in Requests
    BY <1>0, <1>1 DEF Return
  <2>2. [req[h] EXCEPT !.pc = "reply", !.result = r] \in Requests
    BY <1>1, <2>1 DEF Requests
  <2> QED
    BY <1>0, <2>1, <2>2
<1>2. CASE RequestOwner(h)
  <2>1. req' \in [Helpers -> Requests]
    <3>1. CASE req' = [req EXCEPT ![h].pc = "lock"]
      BY <1>0, <3>1 DEF TypeOK, Requests
    <3> QED
      BY <1>1, <1>2, <3>1 DEF RequestOwner, Results
  <2> QED
    BY <1>2, <2>1, FaultTypes DEF RequestOwner, TypeOK
<1>3. CASE Join(h)
  <2>1. CASE job # NoJob /\ req' = [req EXCEPT ![h].pc = "wait", ![h].job = job.n, ![h].env = "none"] /\ UNCHANGED <<job, owned>>
    <3>1. job.n \in Jobs
      BY <2>1 DEF TypeOK, RunningJobs
    <3>2. req' \in [Helpers -> Requests]
      <4>1. req[h] \in Requests
        BY <1>0
      <4>2. [req[h] EXCEPT !.pc = "wait", !.job = job.n, !.env = "none"] \in Requests
        BY <3>1, <4>1 DEF Requests
      <4> QED
        BY <1>0, <2>1, <4>2
    <3> QED
      BY <1>3, <2>1, <3>2 DEF Join, TypeOK
  <2>2. ASSUME NEW n \in Jobs,
               job' = [NoJob EXCEPT !.n = n, !.pc = "resolve", !.by = h, !.env = req[h].env],
               req' = [req EXCEPT ![h].pc = "wait", ![h].job = n, ![h].env = "none"],
               owned' = IF Owned THEN owned \cup {n} ELSE owned
        PROVE  TypeOK'
    <3>1. req' \in [Helpers -> Requests] /\ req[h].env \in Helpers \cup {"none"}
      <4>1. req[h] \in Requests
        BY <1>0
      <4>2. [req[h] EXCEPT !.pc = "wait", !.job = n, !.env = "none"] \in Requests
        BY <2>2, <4>1 DEF Requests
      <4>3. req[h].env \in Helpers \cup {"none"}
        BY <4>1 DEF Requests
      <4> QED
        BY <1>0, <2>2, <4>2, <4>3
    <3>2. job' \in RunningJobs
      BY <2>2, <3>1 DEF RunningJobs, NoJob
    <3> QED
      BY <1>3, <2>2, <3>1, <3>2 DEF Join, TypeOK
  <2>3. CASE Return(h, "backend") /\ UNCHANGED <<job, owned>>
    BY <1>1, <1>3, <2>3 DEF Join, TypeOK, Results
  <2> QED
    BY <1>3, <2>1, <2>2, <2>3 DEF Join
<1>4. CASE Wait(h)
  <2>1. ASSUME NEW n \in Jobs, n = req[h].job, results[n] # "none", Return(h, results[n])
        PROVE  req' \in [Helpers -> Requests]
    BY <1>1, <2>1 DEF TypeOK
  <2>2. req' \in [Helpers -> Requests]
    <3>1. CASE results[req[h].job] # "none" /\ Return(h, results[req[h].job])
      <4>1. req[h].job \in Jobs
        BY <1>4 DEF Wait, RequestFor
      <4>2. results[req[h].job] # "none" /\ Return(h, results[req[h].job])
        BY <3>1
      <4> QED
        BY <2>1, <4>1, <4>2
    <3>2. CASE Return(h, "failed")
      BY <1>1, <3>2
    <3> QED
      BY <1>4, <3>1, <3>2 DEF Wait
  <2> QED
    BY <1>4, <2>2 DEF Wait, TypeOK
<1>5. CASE Reply(h)
  <2>1. req' \in [Helpers -> Requests]
    BY <1>0, <1>5 DEF Reply, TypeOK, Requests
  <2> QED
    BY <1>5, <2>1 DEF Reply, TypeOK
<1> QED
  BY <1>2, <1>3, <1>4, <1>5 DEF RequestStep

LEMMA JobTyped ==
  ASSUME TypeOK, JobStep \/ Expire
  PROVE  TypeOK'
<1> USE DEF external, server, engine, jobRest
<1>0. job \in RunningJobs
  BY JobTypes DEF JobStep, Expire, Resolve, Watch, JobOwner, StartNative, StartManaged, Select, ExitOwner,
                  Finish, Close
<1>1. ASSUME NEW pc \in {"owner", "start", "install", "dinit", "control", "select", "exit", "close"}, Goto(pc)
      PROVE  job' \in RunningJobs
  BY <1>0, <1>1, JobTypes
<1>2. ASSUME NEW r \in Results, Over(r) \/ (r = "success" /\ Success) PROVE job' \in RunningJobs
  BY <1>0, <1>2, JobTypes DEF Over, Success
<1>3. Fails => faults' \in 0 .. MaxFaults
  BY FaultTypes DEF Fails, TypeOK
<1>4. CASE Resolve
  <2>1. job' \in RunningJobs
    <3>1. CASE job' = [job EXCEPT !.pc = "watch", !.route = index] /\ index # "unknown"
      <4>1. index \in {"native", "managed"}
        BY <3>1 DEF TypeOK
      <4> QED
        BY <1>0, <3>1, <4>1 DEF RunningJobs
    <3> QED
      BY <1>2, <1>4, <3>1 DEF Resolve, Results
  <2> QED
    BY <1>4, <2>1 DEF Resolve, TypeOK
<1>5. CASE Watch
  BY <1>1, <1>2, <1>3, <1>5 DEF Watch, TypeOK, Results
<1>6. CASE JobOwner
  BY <1>1, <1>2, <1>3, <1>6 DEF JobOwner, TypeOK, Results
<1>7. CASE StartNative
  <2>1. job' \in RunningJobs
    BY <1>1, <1>2, <1>7 DEF StartNative, Results
  <2>2. job.env \in Helpers \cup {"none"} /\ job.by \in Helpers
    BY <1>0 DEF RunningJobs
  <2>3. started' \in [Jobs -> [env : Helpers \cup {"none"}, by : Helpers \cup {"none"}]]
    BY <1>7, <2>2 DEF StartNative, EnvironmentOfRequest, TypeOK
  <2>4. svc' \in [Owners -> Processes]
    BY <1>7 DEF StartNative, TypeOK, Processes
  <2> QED
    BY <1>3, <1>7, <2>1, <2>3, <2>4 DEF StartNative, TypeOK
<1>8. CASE StartManaged
  <2>1. job' \in RunningJobs
    BY <1>1, <1>2, <1>8 DEF StartManaged, Results
  <2>2. svc' \in [Owners -> Processes]
    BY <1>8 DEF StartManaged, TypeOK, Processes
  <2> QED
    BY <1>3, <1>8, <2>1, <2>2 DEF StartManaged, TypeOK
<1>9. CASE Select
  <2>1. job' \in RunningJobs
    BY <1>1, <1>2, <1>9 DEF Select, Results
  <2> QED
    BY <1>9, <2>1 DEF Select, TypeOK
<1>10. CASE ExitOwner
  BY <1>1, <1>2, <1>3, <1>10 DEF ExitOwner, TypeOK, Results
<1>11. CASE Finish
  <2>1. killed' \subseteq Jobs
    BY <1>0, <1>11 DEF Finish, TypeOK, RunningJobs
  <2> QED
    BY <1>1, <1>11, <2>1 DEF Finish, TypeOK
<1>12. CASE Close
  <2>1. results' \in [Jobs -> Results \cup {"none"}]
    BY <1>0, <1>12 DEF Close, TypeOK, RunningJobs
  <2> QED
    BY <1>12, <2>1 DEF Close, TypeOK
<1>13. CASE Expire
  <2>1. job' \in RunningJobs
    BY <1>0, <1>13 DEF Expire, RunningJobs
  <2> QED
    BY <1>13, <2>1 DEF Expire, TypeOK
<1> QED
  BY <1>4, <1>5, <1>6, <1>7, <1>8, <1>9, <1>10, <1>11, <1>12, <1>13 DEF JobStep

LEMMA TypeNext == TypeOK /\ RequestsSound /\ [Next]_vars => TypeOK'
<1> SUFFICES ASSUME TypeOK, RequestsSound, [Next]_vars PROVE TypeOK'
  OBVIOUS
<1>1. CASE UNCHANGED vars
  BY <1>1 DEF TypeOK, vars, external, server, engine
<1>2. ASSUME NEW h \in Helpers, RequestStep(h) PROVE TypeOK'
  BY <1>2, RequestTyped DEF RequestsSound
<1> QED
  BY <1>1, <1>2, ServerTyped, JobTyped DEF Next

-----------------------------------------------------------------------------
(* The invariant, step by step. *)

\* Nobody asks again once everybody has been answered.
LEMMA DownKept ==
  ASSUME TypeOK, Down, [Next]_vars
  PROVE  Down'
<1> USE DEF external, server, engine, jobRest
<1>0. /\ req \in [Helpers -> Requests] /\ conn \in [Helpers -> {"none", "open", "closed"}]
      /\ \A h \in Helpers : conn[h] = "closed" /\ req[h].pc \in {"done", "lost"}
  BY DEF TypeOK, Down
<1>1. CASE UNCHANGED <<conn, req>>
  BY <1>0, <1>1 DEF Down
<1>2. ASSUME NEW h \in Helpers,
             Hello(h) \/ SetEnvironment(h) \/ Activate(h) \/ CancelRequest(h) \/ Disconnect(h)
      PROVE  FALSE
  BY <1>0, <1>2 DEF Hello, SetEnvironment, Activate, CancelRequest, Disconnect
<1>3. ASSUME NEW h \in Helpers, RequestStep(h) PROVE FALSE
  BY <1>0, <1>3 DEF RequestStep, RequestOwner, Join, Wait, Reply
<1>4. CASE Shutdown
  <2>1. \A h \in Helpers : req[h] \in Requests
    BY <1>0
  <2> QED
    BY <1>0, <1>4, <2>1 DEF Shutdown, Down, Requests
<1>5. ASSUME NEW p \in Owners, AcquireName(p) \/ ServiceExits(p) PROVE UNCHANGED <<conn, req>>
  BY <1>5 DEF AcquireName, ServiceExits
<1>6. CASE Reload \/ Expire
  BY <1>1, <1>6 DEF Reload, Expire
<1>7. CASE JobStep
  BY <1>1, <1>7 DEF JobStep, Resolve, Watch, JobOwner, StartNative, StartManaged, Select, ExitOwner, Finish, Close
<1>8. CASE UNCHANGED vars
  BY <1>1, <1>8 DEF vars
<1> QED
  BY <1>1, <1>2, <1>3, <1>4, <1>5, <1>6, <1>7, <1>8 DEF Next

\* What a step that leaves the jobs alone cannot disturb.
LEMMA JobsFrame ==
  ASSUME ActivationSound, [Next]_vars, UNCHANGED <<external, job, results, started, owned>>
  PROVE  JobSound' /\ Unused' /\ FailedIsStopped' /\ EnvironmentIsOwn' /\ ResultsOwned'
<1> USE DEF ActivationSound, external
<1>1. JobSound'
  BY DEF JobSound, Heard, Running, Outcome, Owned
<1>2. Unused'
  BY DownKept DEF Unused
<1>3. FailedIsStopped' /\ EnvironmentIsOwn' /\ ResultsOwned'
  BY DEF FailedIsStopped, EnvironmentIsOwn, ResultsOwned
<1> QED
  BY <1>1, <1>2, <1>3

\* A request of which, as of its environment and its job, nothing has changed.
LEMMA RequestFrame ==
  ASSUME NEW h \in Helpers, RequestFor(h), env'[h] = env[h], req'[h] = req[h],
         \A n \in Jobs : results[n] # "none" => results'[n] = results[n],
         req[h] \in Requests
  PROVE  RequestFor(h)'
<1>1. req[h].job \in Jobs \cup {0}
  BY DEF Requests
<1> QED
  BY <1>1 DEF RequestFor

\* The name gets an owner, or loses one.
LEMMA OwnerStep ==
  ASSUME ActivationSound, [Next]_vars, NEW p \in Owners, AcquireName(p) \/ ServiceExits(p)
  PROVE  /\ JobSound' /\ Unused' /\ RequestsSound'
         /\ FailedIsStopped' /\ EnvironmentIsOwn' /\ ResultsOwned'
<1> USE DEF external, server, engine
<1>1. /\ UNCHANGED <<killed, results, started, req, env>>
      /\ svc \in [Owners -> Processes] /\ Jobs \subseteq Owners
      /\ svc' \in [Owners -> Processes]
      /\ \A n \in Owners \ {p} : svc'[n] = svc[n]
      /\ svc[p] \in {"running", "named"} /\ owned \subseteq owned'
  BY DEF ActivationSound, AcquireName, ServiceExits, TypeOK, Owners, Processes
<1>2. \A n \in Jobs : svc'[n] = svc[n] \/ (svc[n] \in {"running", "named"} /\ svc'[n] # "none")
  BY DEF AcquireName, ServiceExits, ActivationSound, TypeOK, Owners
<1>3. EnvironmentIsOwn' /\ ResultsOwned' /\ FailedIsStopped'
  BY <1>1, <1>2 DEF ActivationSound, EnvironmentIsOwn, ResultsOwned, FailedIsStopped, Processes
<1>4. RequestsSound'
  BY <1>1 DEF ActivationSound, RequestsSound, RequestFor
<1>5. (Watching /\ job' = [job EXCEPT !.changes = TRUE]) \/ job' = job
  BY DEF AcquireName, ServiceExits
<1>6. job = NoJob => job' = NoJob
  BY <1>5 DEF Watching, NoJob
<1>7. job # NoJob => job' # NoJob /\ job' \in RunningJobs /\ job'.n = job.n
  <2>1. job # NoJob => job \in RunningJobs /\ job.n \in Jobs
    BY JobTypes DEF ActivationSound, RunningJobs
  <2>2. job # NoJob => job' \in RunningJobs /\ job'.n = job.n
    BY <1>5, <2>1 DEF RunningJobs
  <2> QED
    BY <2>1, <2>2 DEF NoJob, Jobs
<1>8. Unused'
  BY <1>1, <1>2, <1>6, <1>7, DownKept DEF ActivationSound, Unused
<1>9. ASSUME job # NoJob PROVE Heard' /\ Running' /\ Outcome'
  <2>0. job \in RunningJobs /\ job.n \in Jobs /\ Heard /\ Running /\ Outcome
    BY <1>9, JobTypes DEF ActivationSound, JobSound, RunningJobs
  <2>1. /\ job'.n = job.n /\ job'.pc = job.pc /\ job'.env = job.env /\ job'.by = job.by
        /\ job'.result = job.result /\ job'.succeeded = job.succeeded
    BY <1>5, <2>0 DEF RunningJobs
  <2>2. Running' /\ Outcome'
    BY <1>1, <1>2, <2>0, <2>1 DEF Running, Outcome
  <2>3. CASE AcquireName(p)
    <3>1. job.n \in owned' /\ results'[job.n] = "none"
      BY <1>1, <1>9, <2>0, <2>3 DEF AcquireName, Heard
    <3>2. job.pc \in {"start", "install", "dinit", "control", "select", "exit"} => job'.changes
      BY <2>0, <2>3 DEF AcquireName, Watching, RunningJobs
    <3> QED
      BY <2>1, <2>2, <3>1, <3>2 DEF Heard
  <2>4. CASE ServiceExits(p)
    <3>1. Owned' => Owned
      BY <2>4, <1>1 DEF ServiceExits, Owned
    <3>2. job' = job /\ owned' = owned
      BY <2>4 DEF ServiceExits
    <3> QED
      BY <1>1, <2>0, <2>2, <3>1, <3>2 DEF Heard
  <2> QED
    BY <2>3, <2>4
<1> QED
  BY <1>3, <1>4, <1>6, <1>8, <1>9 DEF JobSound

LEMMA ServerStep ==
  ASSUME ActivationSound, [Next]_vars,
         \/ \E h \in Helpers :
              Hello(h) \/ SetEnvironment(h) \/ Activate(h) \/ CancelRequest(h) \/ Disconnect(h)
         \/ Reload
  PROVE  /\ JobSound' /\ Unused' /\ RequestsSound'
         /\ FailedIsStopped' /\ EnvironmentIsOwn' /\ ResultsOwned'
<1> USE DEF external, server, engine
<1>0. /\ req \in [Helpers -> Requests] /\ env \in [Helpers -> Helpers \cup {"none"}]
      /\ \A h \in Helpers : RequestFor(h) /\ req[h] \in Requests
  BY DEF ActivationSound, TypeOK, RequestsSound
<1>1. UNCHANGED <<external, job, results, started, owned>>
  BY DEF Hello, SetEnvironment, Activate, CancelRequest, Disconnect, Cancelled, Reload
<1>2. JobSound' /\ Unused' /\ FailedIsStopped' /\ EnvironmentIsOwn' /\ ResultsOwned'
  BY <1>1, JobsFrame
<1>3. ASSUME NEW h \in Helpers, NEW g \in Helpers, Hello(h) PROVE RequestFor(g)'
  BY <1>0, <1>1, <1>3, RequestFrame DEF Hello
<1>4. ASSUME NEW h \in Helpers, NEW g \in Helpers, SetEnvironment(h) PROVE RequestFor(g)'
  <2>1. UNCHANGED <<req, results>> /\ env'[g] \in {"none", g}
    BY <1>0, <1>4 DEF SetEnvironment, RequestFor
  <2> QED
    BY <1>0, <2>1 DEF RequestFor
<1>5. ASSUME NEW h \in Helpers, NEW g \in Helpers, Activate(h) PROVE RequestFor(g)'
  <2>1. CASE g # h
    BY <1>0, <1>1, <1>5, <2>1, RequestFrame DEF Activate
  <2>2. CASE g = h
    <3>1. req'[h] = [req[h] EXCEPT !.pc = "owner", !.env = env[h]] /\ UNCHANGED <<env, results>>
      BY <1>0, <1>5 DEF Activate
    <3>2. /\ req'[h].pc = "owner" /\ req'[h].env = env[h] /\ req'[h].job = req[h].job
          /\ req'[h].result = req[h].result
      BY <1>0, <3>1 DEF Requests
    <3>3. env[h] = h /\ req[h].job = 0 /\ req[h].result = "none"
      BY <1>0, <1>5 DEF RequestFor, Activate
    <3> QED
      BY <2>2, <3>1, <3>2, <3>3 DEF RequestFor
  <2> QED
    BY <2>1, <2>2
<1>6. ASSUME NEW h \in Helpers, NEW g \in Helpers, CancelRequest(h) \/ Disconnect(h) PROVE RequestFor(g)'
  <2>1. req' = [req EXCEPT ![h].cancelled = TRUE] /\ UNCHANGED <<env, results>>
    BY <1>6 DEF CancelRequest, Disconnect, Cancelled
  <2>2. CASE g # h
    BY <1>0, <1>1, <2>1, <2>2, RequestFrame
  <2>3. CASE g = h
    <3>1. /\ req'[h].pc = req[h].pc /\ req'[h].env = req[h].env /\ req'[h].job = req[h].job
          /\ req'[h].result = req[h].result /\ req'[h].cancelled
      BY <1>0, <2>1 DEF Requests
    <3> QED
      BY <1>0, <2>1, <2>3, <3>1 DEF RequestFor
  <2> QED
    BY <2>2, <2>3
<1>7. ASSUME NEW g \in Helpers, Reload PROVE RequestFor(g)'
  BY <1>0, <1>7, RequestFrame DEF Reload
<1>8. RequestsSound'
  BY <1>3, <1>4, <1>5, <1>6, <1>7 DEF RequestsSound
<1> QED
  BY <1>2, <1>8

LEMMA ShutdownStep ==
  ASSUME ActivationSound, [Next]_vars, Shutdown
  PROVE  /\ JobSound' /\ Unused' /\ RequestsSound'
         /\ FailedIsStopped' /\ EnvironmentIsOwn' /\ ResultsOwned'
<1> USE DEF external
<1>0. req \in [Helpers -> Requests] /\ \A h \in Helpers : RequestFor(h) /\ req[h] \in Requests
  BY DEF ActivationSound, TypeOK, RequestsSound
<1>1. /\ UNCHANGED <<svc, killed, env, results, started, owned>>
      /\ job' = NoJob
  BY DEF Shutdown
<1>2. JobSound' /\ FailedIsStopped' /\ EnvironmentIsOwn' /\ ResultsOwned'
  BY <1>1 DEF ActivationSound, JobSound, FailedIsStopped, EnvironmentIsOwn, ResultsOwned
<1>3. ASSUME NEW h \in Helpers
      PROVE  /\ conn'[h] = "closed" /\ req'[h].pc = (IF req[h].pc = "done" THEN "done" ELSE "lost")
             /\ req'[h].env = req[h].env /\ req'[h].job = req[h].job
             /\ req'[h].result = req[h].result /\ req'[h].cancelled = req[h].cancelled
  BY <1>0 DEF Shutdown, Requests
<1>4. Unused'
  BY <1>3 DEF Unused, Down
<1>5. RequestsSound'
  BY <1>0, <1>1, <1>3 DEF RequestsSound, RequestFor
<1> QED
  BY <1>2, <1>4, <1>5

\* A request goes on: jobs are only made, and only where there is none.
LEMMA RequestJobs ==
  ASSUME ActivationSound, [Next]_vars, NEW h \in Helpers, RequestStep(h)
  PROVE  JobSound' /\ Unused' /\ FailedIsStopped' /\ EnvironmentIsOwn' /\ ResultsOwned'
<1> USE DEF external, server, engine
<1>1. CASE UNCHANGED <<external, job, results, started, owned>>
  BY <1>1, JobsFrame
<1>2. ASSUME NEW n \in Jobs, Join(h), job = NoJob, IsNextJob(n),
             job' = [NoJob EXCEPT !.n = n, !.pc = "resolve", !.by = h, !.env = req[h].env],
             owned' = IF Owned THEN owned \cup {n} ELSE owned
      PROVE  JobSound' /\ Unused' /\ FailedIsStopped' /\ EnvironmentIsOwn' /\ ResultsOwned'
  <2>0. UNCHANGED <<svc, killed, results, started>> /\ results[n] = "none" /\ req[h].pc = "lock"
    BY <1>2 DEF Join, IsNextJob
  <2>1. /\ job'.n = n /\ job'.pc = "resolve" /\ job'.by = h /\ job'.env = req[h].env
        /\ job'.changes = FALSE
    BY <1>2 DEF NoJob
  <2>2. ~Down /\ req[h].env = h
    BY <2>0 DEF ActivationSound, RequestsSound, RequestFor, Down
  <2>3. svc[n] = "none" /\ n \notin killed
    BY <1>2, <2>0, <2>2 DEF ActivationSound, Unused
  <2>4. Owned' <=> Owned
    BY <2>0 DEF Owned
  <2>5. Heard' /\ Running' /\ Outcome'
    BY <1>2, <2>0, <2>1, <2>2, <2>3, <2>4 DEF Heard, Running, Outcome, Ended
  <2>6. Unused'
    <3>1. \A m \in Jobs : results[m] = "none" => svc[m] = "none" /\ m \notin killed
      BY <1>2, <2>2 DEF ActivationSound, Unused
    <3> QED
      BY <2>0, <3>1 DEF Unused
  <2>7. owned \subseteq owned'
    BY <1>2
  <2> QED
    BY <2>0, <2>5, <2>6, <2>7 DEF JobSound, ActivationSound, FailedIsStopped, EnvironmentIsOwn, ResultsOwned
<1>3. CASE Join(h)
  BY <1>1, <1>2, <1>3 DEF Join
<1>4. CASE RequestOwner(h) \/ Wait(h) \/ Reply(h)
  BY <1>1, <1>4 DEF RequestOwner, Wait, Reply
<1> QED
  BY <1>3, <1>4 DEF RequestStep

LEMMA RequestAnswers ==
  ASSUME ActivationSound, [Next]_vars, NEW h \in Helpers, RequestStep(h)
  PROVE  RequestsSound'
<1> USE DEF external, server, engine
<1>0. /\ req \in [Helpers -> Requests] /\ results \in [Jobs -> Results \cup {"none"}]
      /\ \A g \in Helpers : RequestFor(g) /\ req[g] \in Requests
  BY DEF ActivationSound, TypeOK, RequestsSound
<1>1. UNCHANGED <<env, results>>
  BY DEF RequestStep, RequestOwner, Join, Wait, Reply
<1>2. ASSUME NEW g \in Helpers, g # h PROVE RequestFor(g)'
  <2>1. req'[g] = req[g]
    BY <1>0, <1>2 DEF RequestStep, RequestOwner, Join, Wait, Reply, Return
  <2> QED
    BY <1>0, <1>1, <2>1, RequestFrame
<1> SUFFICES RequestFor(h)'
  BY <1>2 DEF RequestsSound
<1>3. ASSUME NEW r, Return(h, r)
      PROVE  /\ req'[h].pc = "reply" /\ req'[h].result = r /\ req'[h].job = req[h].job
             /\ req'[h].cancelled = req[h].cancelled
  <2>1. req'[h] = [req[h] EXCEPT !.pc = "reply", !.result = r]
    BY <1>0, <1>3 DEF Return
  <2> QED
    BY <1>0, <2>1 DEF Requests
<1>4. CASE RequestOwner(h)
  <2>1. req[h].job = 0 /\ req[h].result = "none" /\ req[h].env = h
    BY <1>0, <1>4 DEF RequestOwner, RequestFor
  <2>2. CASE Return(h, "success") \/ Return(h, "backend")
    <3>1. req'[h].pc = "reply" /\ req'[h].job = 0 /\ req'[h].result # "failed"
      BY <1>3, <2>1, <2>2
    <3> QED
      BY <1>0, <1>1, <3>1 DEF RequestFor
  <2>3. CASE req' = [req EXCEPT ![h].pc = "lock"]
    <3>1. /\ req'[h].pc = "lock" /\ req'[h].job = 0 /\ req'[h].result = "none" /\ req'[h].env = h
      BY <1>0, <2>1, <2>3 DEF Requests
    <3> QED
      BY <1>0, <1>1, <3>1 DEF RequestFor
  <2> QED
    BY <1>4, <2>2, <2>3 DEF RequestOwner
<1>5. CASE Join(h)
  <2>1. req[h].job = 0 /\ req[h].result = "none"
    BY <1>0, <1>5 DEF Join, RequestFor
  <2>2. ASSUME NEW n \in Jobs, req' = [req EXCEPT ![h].pc = "wait", ![h].job = n, ![h].env = "none"]
        PROVE  RequestFor(h)'
    <3>1. req'[h] = [req[h] EXCEPT !.pc = "wait", !.job = n, !.env = "none"]
      BY <1>0, <2>2
    <3>2. req'[h].pc = "wait" /\ req'[h].job = n /\ req'[h].result = "none"
      BY <1>0, <2>1, <3>1 DEF Requests
    <3> QED
      BY <1>0, <1>1, <3>2 DEF RequestFor
  <2>3. CASE Return(h, "backend")
    <3>1. req'[h].pc = "reply" /\ req'[h].job = 0 /\ req'[h].result # "failed"
      BY <1>3, <2>1, <2>3
    <3> QED
      BY <1>0, <1>1, <3>1 DEF RequestFor
  <2>4. job # NoJob => job.n \in Jobs
    BY JobTypes DEF ActivationSound, RunningJobs
  <2> QED
    BY <1>5, <2>2, <2>3, <2>4 DEF Join
<1>6. CASE Wait(h)
  <2>1. req[h].job \in Jobs
    BY <1>0, <1>6 DEF Wait, RequestFor
  <2>2. CASE results[req[h].job] # "none" /\ Return(h, results[req[h].job])
    <3>1. /\ req'[h].pc = "reply" /\ req'[h].job = req[h].job
          /\ req'[h].result = results[req[h].job] /\ results[req[h].job] # "none"
      BY <1>3, <2>2
    <3>2. results[req[h].job] # "failed"
      BY <1>0, <2>1 DEF Results
    <3> QED
      BY <1>0, <1>1, <3>1, <3>2 DEF RequestFor
  <2>3. CASE req[h].cancelled /\ Return(h, "failed")
    <3>1. req'[h].pc = "reply" /\ req'[h].cancelled
      BY <1>3, <2>3
    <3> QED
      BY <1>0, <1>1, <3>1 DEF RequestFor
  <2> QED
    BY <1>6, <2>2, <2>3 DEF Wait
<1>7. CASE Reply(h)
  <2>1. req'[h] = [req[h] EXCEPT !.pc = IF conn[h] = "open" THEN "done" ELSE "lost"] /\ req[h].pc = "reply"
    BY <1>0, <1>7 DEF Reply
  <2>2. /\ req'[h].pc \in {"done", "lost"} /\ req'[h].job = req[h].job
        /\ req'[h].result = req[h].result /\ req'[h].cancelled = req[h].cancelled
    BY <1>0, <2>1 DEF Requests
  <2> QED
    BY <1>0, <1>1, <2>1, <2>2 DEF RequestFor
<1> QED
  BY <1>4, <1>5, <1>6, <1>7 DEF RequestStep

-----------------------------------------------------------------------------
(* The steps of a job. *)

Watched == {"start", "install", "dinit", "control", "select", "exit"}
Unstarted == {"resolve", "watch", "owner", "start", "install", "dinit", "control"}

\* What a step of a job cannot disturb, if it keeps to its own process.
LEMMA OwnProcess ==
  ASSUME ActivationSound, [Next]_vars, UNCHANGED <<req, env, results, owned>>,
         job # NoJob, job' # NoJob, job'.n = job.n,
         \A n \in Jobs : n # job.n => /\ svc'[n] = svc[n] /\ started'[n] = started[n]
                                      /\ n \in killed' => n \in killed,
         killed \subseteq killed',
         svc'[job.n] # "none" => started'[job.n].env = started'[job.n].by
  PROVE  Unused' /\ RequestsSound' /\ FailedIsStopped' /\ EnvironmentIsOwn' /\ ResultsOwned'
<1>1. job.n \in Jobs /\ results[job.n] = "none"
  BY JobTypes DEF ActivationSound, JobSound, Heard, RunningJobs
<1>2. Unused'
  BY <1>1, DownKept DEF ActivationSound, Unused
<1>3. RequestsSound'
  BY DEF ActivationSound, RequestsSound, RequestFor
<1>4. FailedIsStopped'
  BY <1>1 DEF ActivationSound, FailedIsStopped
<1>5. EnvironmentIsOwn' /\ ResultsOwned'
  BY <1>1 DEF ActivationSound, EnvironmentIsOwn, ResultsOwned
<1> QED
  BY <1>2, <1>3, <1>4, <1>5

\* A job ends.
LEMMA JobOver ==
  ASSUME ActivationSound, job # NoJob, job.pc \notin Ended, NEW r \in Results, NEW ok \in BOOLEAN, End(r, ok),
         UNCHANGED <<svc, killed, owned, results>>,
         ok => r = "success",
         r = "success" => job.n \in owned /\ (ok \/ svc[job.n] = "none")
  PROVE  JobSound' /\ job' # NoJob /\ job'.n = job.n
<1>1. /\ job'.pc = "over" /\ job'.n = job.n /\ job'.result = r /\ job'.succeeded = ok /\ job'.changes = FALSE
      /\ job' # NoJob /\ job.n \in Jobs
  <2>1. job \in RunningJobs
    BY JobTypes DEF ActivationSound
  <2>2. job.n \in Jobs
    BY <2>1 DEF RunningJobs
  <2>3. /\ job'.pc = "over" /\ job'.n = job.n /\ job'.result = r /\ job'.succeeded = ok /\ job'.changes = FALSE
    BY DEF End, NoJob
  <2>4. job' # NoJob
    BY <2>3 DEF NoJob
  <2> QED
    BY <2>2, <2>3, <2>4
<1>2. Heard /\ Running
  BY DEF ActivationSound, JobSound
<1>3. Owned' <=> Owned
  BY DEF Owned
<1>4. Heard'
  BY <1>1, <1>2, <1>3 DEF Heard
<1>5. Running'
  BY <1>1, <1>2 DEF Running, Ended
<1>6. Outcome'
  BY <1>1, <1>2 DEF Outcome, Ended, Results
<1> QED
  BY <1>1, <1>4, <1>5, <1>6 DEF JobSound

\* A job goes on.
LEMMA JobGoes ==
  ASSUME ActivationSound, job # NoJob, job.pc \notin Ended, job' # NoJob, UNCHANGED <<killed, owned, results>>,
         job'.n = job.n, job'.env = job.env, job'.by = job.by, job'.changes = job.changes,
         job'.pc \notin Ended,
         Owned' <=> Owned,
         job'.pc \in Watched => job.pc \in Watched \/ ~Owned,
         job'.pc \in Unstarted => job.pc \in Unstarted /\ svc'[job.n] = svc[job.n]
  PROVE  JobSound'
<1>1. Heard /\ Running
  BY DEF ActivationSound, JobSound
<1>2. Heard'
  BY <1>1 DEF Heard, Watched
<1>3. Running'
  BY <1>1 DEF Running, Unstarted, Ended
<1>4. Outcome'
  BY DEF Outcome
<1> QED
  BY <1>2, <1>3, <1>4 DEF JobSound

JobKept == /\ JobSound' /\ Unused' /\ RequestsSound'
           /\ FailedIsStopped' /\ EnvironmentIsOwn' /\ ResultsOwned'

\* Looking for a route, and whether the name has an owner.
LEMMA LookStep ==
  ASSUME ActivationSound, [Next]_vars, Resolve \/ Watch \/ JobOwner \/ Select \/ ExitOwner \/ Expire
  PROVE  JobKept
<1> USE DEF jobRest
<1>0. /\ job \in RunningJobs /\ job # NoJob /\ job.n \in Jobs /\ job.pc \notin Ended
      /\ Heard /\ Running
  <2>1. job.pc # "none" /\ job.pc \notin Ended
    BY DEF Resolve, Watch, JobOwner, Select, ExitOwner, Expire, Ended
  <2>2. job \in RunningJobs /\ job # NoJob
    BY <2>1, JobTypes DEF ActivationSound
  <2> QED
    BY <2>1, <2>2 DEF RunningJobs, ActivationSound, JobSound
<1>1. UNCHANGED <<svc, killed, owned, results, started, req, env>> /\ (Owned' <=> Owned)
  BY DEF Resolve, Watch, JobOwner, Select, ExitOwner, Expire, server, Owned
<1>2. svc[job.n] # "none" => started[job.n].env = started[job.n].by
  BY <1>0 DEF ActivationSound, EnvironmentIsOwn
<1>3. ASSUME job' # NoJob, job'.n = job.n, JobSound' PROVE JobKept
  BY <1>0, <1>1, <1>2, <1>3, OwnProcess DEF JobKept
<1>4. ASSUME NEW r \in Results \ {"success"}, Over(r) PROVE JobKept
  BY <1>0, <1>1, <1>3, <1>4, JobOver DEF Over
<1>5. ASSUME NEW pc \in {"owner", "start", "exit"}, Goto(pc),
             pc \in Watched => job.pc \in Watched \/ ~Owned, pc \in Unstarted => job.pc \in Unstarted
      PROVE  JobKept
  <2>1. job' = [job EXCEPT !.pc = pc] /\ job' \in RunningJobs
    BY <1>0, <1>5, JobTypes DEF ActivationSound
  <2>2. /\ job'.n = job.n /\ job'.env = job.env /\ job'.by = job.by /\ job'.changes = job.changes
        /\ job'.pc = pc
    BY <1>0, <2>1 DEF RunningJobs
  <2>3. job' # NoJob /\ pc \notin Ended
    BY <1>0, <2>2 DEF NoJob, Jobs, Ended
  <2> QED
    BY <1>0, <1>1, <1>3, <1>5, <2>2, <2>3, JobGoes
<1>6. CASE Resolve
  <2>1. CASE job' = [job EXCEPT !.pc = "watch", !.route = index]
    <3>1. /\ job'.n = job.n /\ job'.env = job.env /\ job'.by = job.by /\ job'.changes = job.changes
          /\ job'.pc = "watch"
      BY <1>0, <2>1 DEF RunningJobs
    <3>2. job' # NoJob /\ job.pc = "resolve"
      BY <1>0, <1>6, <3>1 DEF NoJob, Jobs, Resolve
    <3> QED
      BY <1>0, <1>1, <1>3, <3>1, <3>2, JobGoes DEF Ended, Watched, Unstarted
  <2> QED
    BY <1>4, <1>6, <2>1 DEF Resolve, Results
<1>7. CASE Watch
  BY <1>4, <1>5, <1>7 DEF Watch, Results, Watched, Unstarted
<1>8. CASE JobOwner
  <2>1. CASE Owned /\ Over("success")
    <3>1. job.n \in owned /\ svc[job.n] = "none"
      BY <1>0, <1>8, <2>1 DEF JobOwner, Heard, Running
    <3> QED
      BY <1>0, <1>1, <1>3, <2>1, <3>1, JobOver DEF Over, Results
  <2> QED
    BY <1>4, <1>5, <1>8, <2>1 DEF JobOwner, Results, Watched, Unstarted
<1>9. ASSUME Success, job.changes \/ Owned PROVE JobKept
  <2>1. job.n \in owned
    BY <1>0, <1>9 DEF Heard
  <2> QED
    BY <1>0, <1>1, <1>3, <1>9, <2>1, JobOver DEF Success, Results
<1>10. CASE Select
  BY <1>4, <1>5, <1>9, <1>10 DEF Select, Results, Watched, Unstarted
<1>11. CASE ExitOwner
  BY <1>4, <1>9, <1>11 DEF ExitOwner, Results
<1>12. CASE Expire
  <2>1. /\ job'.n = job.n /\ job'.env = job.env /\ job'.by = job.by /\ job'.changes = job.changes
        /\ job'.pc = job.pc
    BY <1>0, <1>12 DEF RunningJobs, Expire
  <2>2. job' # NoJob
    BY <1>0, <2>1 DEF NoJob, Jobs
  <2> QED
    BY <1>0, <1>1, <1>3, <2>1, <2>2, JobGoes
<1> QED
  BY <1>6, <1>7, <1>8, <1>10, <1>11, <1>12

\* Something is started.
LEMMA StartStep ==
  ASSUME ActivationSound, [Next]_vars, StartNative \/ StartManaged
  PROVE  JobKept
<1> USE DEF jobRest
<1>0. /\ job \in RunningJobs /\ job # NoJob /\ job.n \in Jobs
      /\ job.pc \in {"start", "install", "dinit", "control"} /\ Heard /\ Running
  <2>1. job.pc \in {"start", "install", "dinit", "control"}
    BY DEF StartNative, StartManaged
  <2>2. job \in RunningJobs /\ job # NoJob
    BY <2>1, JobTypes DEF ActivationSound
  <2> QED
    BY <2>1, <2>2 DEF RunningJobs, ActivationSound, JobSound
<1>1. /\ UNCHANGED <<killed, owned, results, req, env>> /\ svc \in [Owners -> Processes]
      /\ svc[job.n] = "none" /\ job.env = job.by /\ 0 \in Owners /\ job.n \in Owners /\ job.n # 0
      /\ started \in [Jobs -> [env : Helpers \cup {"none"}, by : Helpers \cup {"none"}]]
  BY <1>0 DEF StartNative, StartManaged, server, Running, Ended, ActivationSound, TypeOK, Owners, Jobs
<1>2. ASSUME Over("exec"), UNCHANGED <<svc, started>> PROVE JobKept
  <2>1. JobSound' /\ job' # NoJob /\ job'.n = job.n
    BY <1>0, <1>1, <1>2, JobOver DEF Over, Results, Ended
  <2> QED
    BY <1>0, <1>1, <1>2, <2>1, OwnProcess DEF JobKept
<1>3. ASSUME NEW pc \in {"install", "dinit", "control", "select"}, Goto(pc),
             \A n \in Owners : (n # job.n \/ pc # "select") /\ svc'[n] # svc[n]
                                 => svc[n] \in {"none", "gone"} /\ svc'[n] = "running" /\ n = 0,
             svc'[job.n] \in {svc[job.n], "running"}, pc # "select" => svc'[job.n] = svc[job.n],
             \A n \in Jobs : n # job.n => started'[n] = started[n],
             svc'[job.n] # "none" => started'[job.n].env = started'[job.n].by
      PROVE  JobKept
  <2>1. job' = [job EXCEPT !.pc = pc] /\ job' \in RunningJobs
    BY <1>0, <1>3, JobTypes DEF ActivationSound
  <2>2. /\ job'.n = job.n /\ job'.env = job.env /\ job'.by = job.by /\ job'.changes = job.changes
        /\ job'.pc = pc
    BY <1>0, <2>1 DEF RunningJobs
  <2>3. job' # NoJob /\ pc \notin Ended /\ pc \in Watched /\ job.pc \in Watched /\ job.pc \in Unstarted
        /\ job.pc \notin Ended /\ (pc \in Unstarted => pc # "select")
    BY <1>0, <1>3, <2>2 DEF NoJob, Jobs, Ended, Watched, Unstarted
  <2>4. Owned' <=> Owned
    BY <1>1, <1>3 DEF Owned
  <2>5. JobSound'
    BY <1>0, <1>1, <1>3, <2>2, <2>3, <2>4, JobGoes
  <2>6. \A n \in Jobs : n # job.n => svc'[n] = svc[n]
    BY <1>3 DEF Owners, Jobs
  <2> QED
    BY <1>0, <1>1, <1>3, <2>2, <2>3, <2>5, <2>6, OwnProcess DEF JobKept
<1>4. CASE StartNative
  <2>1. CASE Goto("select") /\ svc' = [svc EXCEPT ![job.n] = "running"]
             /\ started' = [started EXCEPT ![job.n] = [env |-> job.env, by |-> job.by]]
    <3>1. /\ \A n \in Owners \ {job.n} : svc'[n] = svc[n]
          /\ svc'[job.n] = "running"
      BY <1>1, <2>1
    <3>2. /\ \A n \in Jobs : n # job.n => started'[n] = started[n]
          /\ started'[job.n].env = started'[job.n].by
      BY <1>0, <1>1, <2>1
    <3> QED
      BY <1>3, <2>1, <3>1, <3>2
  <2> QED
    BY <1>2, <1>4, <2>1 DEF StartNative, EnvironmentOfRequest
<1>5. CASE StartManaged
  <2>1. UNCHANGED started
    BY <1>5 DEF StartManaged
  <2>2. ASSUME NEW pc \in {"install", "dinit", "control"}, Goto(pc), UNCHANGED svc PROVE JobKept
    BY <1>1, <1>3, <2>1, <2>2
  <2>3. CASE Goto("select") /\ svc' = [svc EXCEPT ![0] = IF @ \in {"none", "gone"} THEN "running" ELSE @]
    <3>1. /\ \A n \in Owners \ {0} : svc'[n] = svc[n]
          /\ svc'[0] # svc[0] => svc[0] \in {"none", "gone"} /\ svc'[0] = "running"
      BY <1>1, <2>3
    <3> QED
      BY <1>1, <1>3, <2>1, <2>3, <3>1
  <2> QED
    BY <1>2, <1>5, <2>1, <2>2, <2>3 DEF StartManaged
<1> QED
  BY <1>4, <1>5

\* What was started in vain is killed, and the result is published.
LEMMA EndStep ==
  ASSUME ActivationSound, [Next]_vars, Finish \/ Close
  PROVE  JobKept
<1> USE DEF server
<1>0. /\ job \in RunningJobs /\ job # NoJob /\ job.n \in Jobs /\ Heard /\ Running /\ Outcome
      /\ job.pc \in Ended
  <2>1. job.pc \in Ended
    BY DEF Finish, Close, Ended
  <2>2. job \in RunningJobs /\ job # NoJob
    BY <2>1, JobTypes DEF ActivationSound, Ended
  <2> QED
    BY <2>1, <2>2 DEF RunningJobs, ActivationSound, JobSound
<1>1. CASE Finish
  <2>1. job' = [job EXCEPT !.pc = "close"]
    BY <1>1 DEF Finish, Goto
  <2>2. /\ job'.n = job.n /\ job'.result = job.result /\ job'.succeeded = job.succeeded
        /\ job'.changes = job.changes /\ job'.pc = "close"
    BY <1>0, <2>1 DEF RunningJobs
  <2>3. job' # NoJob
    BY <2>2 DEF NoJob
  <2>4. /\ UNCHANGED <<svc, owned, results, started, req, env>> /\ (Owned' <=> Owned)
        /\ killed' = IF ~job.succeeded /\ svc[job.n] # "none" THEN killed \cup {job.n} ELSE killed
        /\ job.pc = "over"
    BY <1>1 DEF Finish, Owned
  <2>5. Heard'
    BY <1>0, <2>2, <2>4 DEF Heard
  <2>6. Running'
    BY <2>2 DEF Running, Ended
  <2>7. Outcome'
    <3>1. CASE job.result = "success"
      <4>1. job.n \notin killed' /\ job.n \in owned
        BY <1>0, <2>4, <3>1 DEF Outcome, Running
      <4> QED
        BY <1>0, <2>2, <2>4, <3>1, <4>1 DEF Outcome
    <3>2. CASE job.result # "success"
      <4>1. svc[job.n] \in {"running", "named"} => job.n \in killed'
        BY <1>0, <2>4, <3>2 DEF Outcome
      <4> QED
        BY <1>0, <2>2, <2>4, <3>2, <4>1 DEF Outcome
    <3> QED
      BY <3>1, <3>2
  <2>8. svc[job.n] # "none" => started[job.n].env = started[job.n].by
    BY <1>0 DEF ActivationSound, EnvironmentIsOwn
  <2>9. JobSound'
    BY <2>5, <2>6, <2>7 DEF JobSound
  <2> QED
    BY <1>0, <2>2, <2>3, <2>4, <2>8, <2>9, OwnProcess DEF JobKept
<1>2. CASE Close
  <2>1. /\ UNCHANGED <<svc, killed, owned, started, req, env>> /\ job' = NoJob
        /\ results' = [results EXCEPT ![job.n] = job.result] /\ job.pc = "close"
    BY <1>2 DEF Close, external
  <2>2. /\ results \in [Jobs -> Results \cup {"none"}] /\ results[job.n] = "none"
        /\ results'[job.n] = job.result /\ job.result # "none"
        /\ \A n \in Jobs : n # job.n => results'[n] = results[n]
    BY <1>0, <2>1 DEF ActivationSound, TypeOK, Heard, Outcome
  <2>3. JobSound'
    BY <2>1 DEF JobSound
  <2>4. Unused'
    BY <2>1, <2>2, DownKept DEF ActivationSound, Unused
  <2>5. RequestsSound'
    <3>1. ASSUME NEW h \in Helpers PROVE RequestFor(h)'
      <4>1. RequestFor(h) /\ req[h] \in Requests
        BY DEF ActivationSound, RequestsSound, TypeOK
      <4>2. \A n \in Jobs : results[n] # "none" => results'[n] = results[n]
        BY <2>2
      <4> QED
        BY <2>1, <4>1, <4>2, RequestFrame
    <3> QED
      BY <3>1 DEF RequestsSound
  <2>6. /\ svc[job.n] \in {"running", "named"} /\ job.result # "success" => job.n \in killed
        /\ job.result = "success" => job.n \notin killed /\ job.n \in owned
    BY <1>0, <2>1 DEF Outcome, Ended
  <2>7. FailedIsStopped'
    BY <2>1, <2>2, <2>6 DEF ActivationSound, FailedIsStopped
  <2>8. EnvironmentIsOwn' /\ ResultsOwned'
    BY <2>1, <2>2, <2>6 DEF ActivationSound, EnvironmentIsOwn, ResultsOwned
  <2> QED
    BY <2>3, <2>4, <2>5, <2>7, <2>8 DEF JobKept
<1> QED
  BY <1>1, <1>2

-----------------------------------------------------------------------------
LEMMA SoundInit == Init => ActivationSound
<1> SUFFICES ASSUME Init PROVE ActivationSound
  OBVIOUS
<1>1. JobSound /\ Unused
  BY DEF Init, JobSound, Unused
<1>2. RequestsSound
  BY DEF Init, RequestsSound, RequestFor, NoRequest
<1>3. FailedIsStopped /\ EnvironmentIsOwn /\ ResultsOwned
  BY DEF Init, FailedIsStopped, EnvironmentIsOwn, ResultsOwned
<1> QED
  BY <1>1, <1>2, <1>3, TypeInit DEF ActivationSound

LEMMA SoundNext == ActivationSound /\ [Next]_vars => ActivationSound'
<1> SUFFICES ASSUME ActivationSound, [Next]_vars PROVE ActivationSound'
  OBVIOUS
<1>1. TypeOK'
  BY TypeNext DEF ActivationSound
<1>2. JobKept
  <2>1. CASE UNCHANGED vars
    BY <2>1, JobsFrame DEF vars, external, server, engine, JobKept, ActivationSound, RequestsSound, RequestFor
  <2>2. ASSUME NEW h \in Helpers, RequestStep(h) PROVE JobKept
    BY <2>2, RequestJobs, RequestAnswers DEF JobKept
  <2>3. CASE JobStep
    BY <2>3, LookStep, StartStep, EndStep DEF JobStep
  <2> QED
    BY <2>1, <2>2, <2>3, OwnerStep, ServerStep, ShutdownStep, LookStep DEF Next, JobKept
<1> QED
  BY <1>1, <1>2 DEF ActivationSound, JobKept

LEMMA SoundSpec == Spec => []ActivationSound
<1> QED
  BY SoundInit, SoundNext, PTL DEF Spec

(* A job misses no owner, leaves no process behind when it fails, ends none  *)
(* that it reports as good, and starts it in the environment of whoever      *)
(* asked, in spite of cancelled requests, expired times, reloads, processes  *)
(* that end and the end of sys-dbusd (engine.go activateJob).                *)
THEOREM JobsCorrect == Spec => []JobsSound
<1>1. ActivationSound => JobsSound
  <2> SUFFICES ASSUME ActivationSound PROVE NoLostWakeup
    BY DEF ActivationSound, JobsSound
  <2>1. job.pc = "select" => Heard
    BY JobTypes DEF ActivationSound, JobSound
  <2> QED
    BY <2>1 DEF NoLostWakeup, Heard
<1> QED
  BY <1>1, SoundSpec, PTL

(* Who asks gets a true answer: the name had an owner if the job is said to  *)
(* have succeeded, all who joined it are told the same, and only who         *)
(* cancelled is told that he did (engine.go Activate, runJob).               *)
THEOREM AnswersCorrect == Spec => []AnswersTrue
<1>1. ActivationSound => AnswersTrue
  <2> SUFFICES ASSUME ActivationSound PROVE AnswersTrue
    OBVIOUS
  <2>1. \A h \in Helpers : RequestFor(h)
    BY DEF ActivationSound, RequestsSound
  <2>2. SuccessMeansOwned
    BY <2>1 DEF SuccessMeansOwned, RequestFor, ActivationSound, ResultsOwned
  <2>3. CancelIsolated
    BY <2>1 DEF CancelIsolated, RequestFor
  <2> QED
    BY <2>2, <2>3 DEF AnswersTrue
<1> QED
  BY <1>1, SoundSpec, PTL

=============================================================================
