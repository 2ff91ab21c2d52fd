------------------------------ MODULE UserDinit -----------------------------
(***************************************************************************)
(* ensureUserModeReady (main.go): every servicectl --user makes sure that  *)
(* a Dinit of the user runs.  It looks whether one answers and starts one  *)
(* otherwise, under a lock on dinit-user.lock that the kernel releases     *)
(* when its holder ends.  A Dinit answers some time after it was started.  *)
(***************************************************************************)
EXTENDS Integers, FiniteSets

CONSTANTS
  Callers,   \* invocations of servicectl --user
  MaxPolls,  \* bound: for range 20
  MaxDinits, \* bound: instances
  MaxFaults  \* bound: callers killed, instances that end, lists that fail

Parameters == "none" \notin Callers

VARIABLES
  plane,     \* the system plane: meta answered, events connected, sockets exist
  pc, polls, \* of each caller
  lock,      \* the caller that holds dinit-user.lock, or NoOne
  starting, ready, \* instances of Dinit
  started,   \* number of instances so far
  faults,
  lapses     \* ghost: callers that gave up, or lists that failed, while an instance ran

vars == <<plane, pc, polls, lock, starting, ready, started, faults, lapses>>
NoOne == "none"

Init ==
  /\ plane \in [meta : BOOLEAN, connected : BOOLEAN, sockets : BOOLEAN]
  /\ pc = [c \in Callers |-> "gate"] /\ polls = [c \in Callers |-> 0] /\ lock = NoOne
  /\ starting = {} /\ ready = {} /\ started = 0 /\ faults = 0 /\ lapses = 0

TypeOK ==
  /\ plane \in [meta : BOOLEAN, connected : BOOLEAN, sockets : BOOLEAN]
  /\ pc \in [Callers -> {"gate", "lock", "list", "spawn", "poll", "ready", "error", "killed"}]
  /\ polls \in [Callers -> Nat] /\ lock \in Callers \cup {NoOne}
  /\ started \in Nat /\ starting \subseteq 1 .. started /\ ready \subseteq 1 .. started
  /\ faults \in Nat /\ lapses \in Nat

GoTo(c, l) == pc' = [pc EXCEPT ![c] = l]
Running == starting \cup ready

\* userActivationGateReady
GateReady == IF plane.meta THEN plane.connected ELSE plane.sockets

Gate(c) ==
  /\ pc[c] = "gate" /\ GoTo(c, IF GateReady THEN "lock" ELSE "error")
  /\ UNCHANGED <<plane, polls, lock, starting, ready, started, faults, lapses>>

LockShared(c) ==   \* faulty variant: the lock is not exclusive
  /\ pc[c] = "lock" /\ lock' = c /\ GoTo(c, "list")
  /\ UNCHANGED <<plane, polls, starting, ready, started, faults, lapses>>

Lock(c) ==
  /\ pc[c] = "lock" /\ lock = NoOne /\ lock' = c /\ GoTo(c, "list")
  /\ UNCHANGED <<plane, polls, starting, ready, started, faults, lapses>>

Unlock(c) == lock' = IF lock = c THEN NoOne ELSE lock

\* The first list: an instance that answers gets the session's environment and
\* the generated logger definitions are brought up to date.
List(c) ==
  /\ pc[c] = "list"
  /\ IF ready # {} THEN GoTo(c, "ready") /\ Unlock(c) ELSE GoTo(c, "spawn") /\ UNCHANGED lock
  /\ UNCHANGED <<plane, polls, starting, ready, started, faults, lapses>>

\* startUserDinitInstance
Spawn(c) ==
  /\ pc[c] = "spawn" /\ started < MaxDinits
  /\ started' = started + 1 /\ starting' = starting \cup {started + 1}
  /\ GoTo(c, "poll")
  /\ UNCHANGED <<plane, polls, lock, ready, faults, lapses>>

SpawnFails(c) ==
  /\ pc[c] = "spawn" /\ GoTo(c, "error") /\ Unlock(c)
  /\ UNCHANGED <<plane, polls, starting, ready, started, faults, lapses>>

Poll(c) ==
  /\ pc[c] = "poll"
  /\ IF ready # {} THEN GoTo(c, "ready") /\ Unlock(c) /\ UNCHANGED polls
     ELSE polls[c] < MaxPolls /\ polls' = [polls EXCEPT ![c] = @ + 1] /\ UNCHANGED <<pc, lock>>
  /\ UNCHANGED <<plane, starting, ready, started, faults, lapses>>

GiveUp(c) ==
  /\ pc[c] = "poll" /\ polls[c] = MaxPolls /\ GoTo(c, "error") /\ Unlock(c)
  /\ lapses' = lapses + 1
  /\ UNCHANGED <<plane, polls, starting, ready, started, faults>>

-----------------------------------------------------------------------------
(* Faults, and the instances. *)

Killed(c) ==
  /\ pc[c] \notin {"ready", "error", "killed"} /\ faults < MaxFaults /\ faults' = faults + 1
  /\ GoTo(c, "killed") /\ Unlock(c)
  /\ lapses' = IF pc[c] = "poll" THEN lapses + 1 ELSE lapses
  /\ UNCHANGED <<plane, polls, starting, ready, started>>

\* An instance is there but the request fails.
ListFails(c) ==
  /\ pc[c] = "list" /\ ready # {} /\ faults < MaxFaults /\ faults' = faults + 1
  /\ GoTo(c, "spawn") /\ lapses' = lapses + 1
  /\ UNCHANGED <<plane, polls, lock, starting, ready, started>>

Answers(i) ==
  /\ i \in starting /\ starting' = starting \ {i} /\ ready' = ready \cup {i}
  /\ UNCHANGED <<plane, pc, polls, lock, started, faults, lapses>>

Ends(i) ==
  /\ i \in Running /\ faults < MaxFaults /\ faults' = faults + 1
  /\ starting' = starting \ {i} /\ ready' = ready \ {i}
  /\ UNCHANGED <<plane, pc, polls, lock, started, lapses>>

Caller(c) == Gate(c) \/ Lock(c) \/ List(c) \/ Spawn(c) \/ SpawnFails(c) \/ Poll(c) \/ GiveUp(c)

Next ==
  \/ \E c \in Callers : Caller(c) \/ Killed(c) \/ ListFails(c)
  \/ \E i \in 1 .. MaxDinits : Answers(i) \/ Ends(i)

Spec == Init /\ [][Next]_vars /\ \A c \in Callers : WF_vars(Caller(c))

-----------------------------------------------------------------------------
(* The lock keeps two invocations from starting a Dinit each: there is never *)
(* more than one, but for those of invocations that ended or gave up before  *)
(* their instance answered, and for an instance whose answer was lost.       *)
OneDinit == Cardinality(Running) <= 1 + lapses

AllReturned == \A c \in Callers : pc[c] \in {"ready", "error", "killed"}

(* Every invocation comes to an end: nobody waits for the lock for ever.     *)
CallersReturn == <>AllReturned
=============================================================================
