---------------------------- MODULE CommandProofs ----------------------------
(***************************************************************************)
(* What servicectl's commands keep, proved for every value of the          *)
(* parameters: enablement (EnablePlane), the start and restart of units    *)
(* (UnitStart), the removal of stale sockets (SocketHolders), the D-Bus    *)
(* activation configuration (ActivationConfig), the migration into a       *)
(* cgroup (CgroupMigrate), the status of a unit (StatusModel) and the      *)
(* definitions of groups and targets (PropertyDefinitions).  The           *)
(* theorems are at the end.                                                *)
(***************************************************************************)
EXTENDS CommandParts, Sequences, FiniteSetTheorems, TLAPS

-----------------------------------------------------------------------------
(* ActivationConfig. *)

(* What a command that runs knows of the files, so that it may stop at any   *)
(* step and leave the administrator's content where a later one finds it.    *)
ContentKnown ==
  /\ edits \in Nat
  /\ ~spoiled =>
      /\ pc \in {"idle", "config", "restore", "forget"} =>
           admin = IF manifest.ok /\ file = Config!Managed THEN manifest.prev ELSE file
      /\ pc \in {"config", "manifest"} => ~manifest.ok
      /\ pc \in {"config", "manifest", "rollback"} => prev = admin
      /\ pc = "rollback" /\ manifest.ok => manifest.prev = prev
      /\ pc \in {"restore", "forget"} => manifest.ok /\ admin = manifest.prev
      /\ pc \in {"manifest", "restore"} => file = Config!Managed
      /\ pc = "forget" => file = admin
      /\ pc \in {"idle", "config", "manifest", "rollback", "restore", "forget"}

LEMMA ConfigBegins ==
  ASSUME Config!Init
  PROVE  ContentKnown
BY DEF Config!Init, ContentKnown, Config!None, Config!Absent, Config!Managed

LEMMA ConfigGoesOn ==
  ASSUME ContentKnown, [Config!Next]_(Config!vars)
  PROVE  ContentKnown'
<1> USE DEF ContentKnown, Config!End, Config!disk, Config!Managed, Config!Absent, Config!None
<1>1. CASE Config!ReadFails
  BY <1>1 DEF Config!ReadFails
<1>2. CASE Config!Enable
  BY <1>2 DEF Config!Enable
<1>3. CASE Config!WriteConfig
  BY <1>3 DEF Config!WriteConfig
<1>4. CASE Config!WriteManifest
  BY <1>4 DEF Config!WriteManifest
<1>5. CASE Config!Rollback
  BY <1>5 DEF Config!Rollback
<1>6. CASE Config!RollbackFails
  BY <1>6 DEF Config!RollbackFails
<1>7. CASE Config!Disable
  BY <1>7 DEF Config!Disable
<1>8. CASE Config!Restore
  BY <1>8 DEF Config!Restore
<1>9. CASE Config!Forget
  BY <1>9 DEF Config!Forget
<1>10. CASE Config!Crash
  BY <1>10 DEF Config!Crash
<1>11. ASSUME NEW v, Config!Edit(v) PROVE ContentKnown'
  <2>1. v # Config!Managed /\ edits' \in Nat
    BY <1>11 DEF Config!Edit
  <2>2. /\ file' = v /\ admin' = v /\ spoiled' = (spoiled \/ pc # "idle")
        /\ manifest' = manifest /\ pc' = pc
    BY <1>11 DEF Config!Edit
  <2> QED
    BY <2>1, <2>2
<1>12. ASSUME NEW b \in BOOLEAN, Config!WriteConfigFails(b) PROVE ContentKnown'
  BY <1>12 DEF Config!WriteConfigFails
<1>13. ASSUME NEW b \in BOOLEAN, Config!WriteManifestFails(b) PROVE ContentKnown'
  BY <1>13 DEF Config!WriteManifestFails
<1>14. ASSUME NEW b \in BOOLEAN, Config!RestoreFails(b) PROVE ContentKnown'
  BY <1>14 DEF Config!RestoreFails
<1>15. ASSUME NEW b \in BOOLEAN, Config!ForgetFails(b) PROVE ContentKnown'
  BY <1>15 DEF Config!ForgetFails
<1>16. CASE UNCHANGED Config!vars
  BY <1>16 DEF Config!vars
<1> QED
  BY <1>1, <1>2, <1>3, <1>4, <1>5, <1>6, <1>7, <1>8, <1>9, <1>10, <1>11, <1>12, <1>13, <1>14,
     <1>15, <1>16 DEF Config!Next

-----------------------------------------------------------------------------
(* SocketHolders. *)

Steps == {"term", "kill", "check"}

(* No process that has held a path since the beginning escapes the scan,     *)
(* unless the policy accepts it, nor does the policy's holder become a       *)
(* target while it is one of them.                                           *)
HoldersKnown ==
  LET accepted == IF adaptive /\ ~force THEN {Owner} ELSE {}
  IN  /\ since \subseteq holds /\ holds \subseteq alive
      /\ pc = "scan" => since \ tracked \subseteq found \cup todo /\ (since # {} => path)
      /\ pc \in Steps => since \ tracked \subseteq targets \cup accepted
      /\ pc \in {"remove", "removed"} => since \ tracked \subseteq accepted
      /\ pc \in {"term", "kill"} /\ ~force =>
           enabled /\ (adaptive => Owner \notin targets \cap since)
      /\ pc = "scan" => killed = {}
      /\ Sockets!PolicyKept

LEMMA ProcessesKeepHolders ==
  ASSUME HoldersKnown, NEW p,
         Sockets!Exit(p) \/ Sockets!Release(p) \/ Sockets!Reuse(p) \/ Sockets!Bind(p)
  PROVE  HoldersKnown'
<1>1. since' \subseteq since /\ UNCHANGED <<tracked, force, enabled, adaptive, todo, found, targets, pc, killed>>
  BY DEF Sockets!Exit, Sockets!Release, Sockets!Reuse, Sockets!Bind, Sockets!Gone, Sockets!options, HoldersKnown
<1>2. since' \subseteq holds' /\ holds' \subseteq alive' /\ (path => path')
  BY DEF Sockets!Exit, Sockets!Release, Sockets!Reuse, Sockets!Bind, Sockets!Gone, Sockets!options, HoldersKnown
<1> QED
  BY <1>1, <1>2 DEF HoldersKnown, Sockets!PolicyKept, Steps

LEMMA HoldersBegin ==
  ASSUME Sockets!Init
  PROVE  HoldersKnown
BY DEF Sockets!Init, HoldersKnown, Sockets!PolicyKept, Steps

LEMMA HoldersGoOn ==
  ASSUME HoldersKnown, [Sockets!Next]_(Sockets!vars)
  PROVE  HoldersKnown'
<1> USE DEF HoldersKnown, Sockets!PolicyKept, Sockets!options, Sockets!procs, Steps
<1>1. CASE Sockets!ScanOne
  <2> PICK p : p = Sockets!First(todo)
    OBVIOUS
  <2>1. /\ found' = IF p \in holds \ tracked THEN found \cup {p} ELSE found
        /\ todo' = todo \ {p} /\ pc = "scan"
        /\ UNCHANGED <<tracked, force, enabled, adaptive, alive, holds, since, path, targets, pc, killed>>
    BY <1>1 DEF Sockets!ScanOne
  <2> QED
    BY <2>1
<1>2. CASE Sockets!Decide
  <2>1. /\ pc = "scan" /\ todo = {} /\ since \ tracked \subseteq found /\ killed = {}
        /\ UNCHANGED <<tracked, force, enabled, adaptive, alive, holds, since, path, todo, found, killed>>
    BY <1>2 DEF Sockets!Decide
  <2>2. pc' \in {"remove", "kept", "refused", "term"} /\ (pc' = "remove" => found = {})
    BY <1>2 DEF Sockets!Decide
  <2>3. pc' = "term" => force \/ enabled
    BY <1>2 DEF Sockets!Decide
  <2>4. targets' = IF force THEN found ELSE found \ Sockets!Acceptable
    BY <1>2 DEF Sockets!Decide, Sockets!Remaining
  <2>5. adaptive /\ Owner \in since => Sockets!Acceptable = {Owner}
    BY <2>1 DEF Sockets!Acceptable
  <2>6. Sockets!Acceptable \subseteq (IF adaptive THEN {Owner} ELSE {})
    BY DEF Sockets!Acceptable
  <2> QED
    BY <2>1, <2>2, <2>3, <2>4, <2>5, <2>6
<1>3. CASE Sockets!Term \/ Sockets!Kill
  <2>1. PICK S \in SUBSET (targets \cap alive) : Sockets!Signal(S)
    BY <1>3 DEF Sockets!Term, Sockets!Kill
  <2>2. /\ pc \in {"term", "kill"} /\ pc' \in {"kill", "check"}
        /\ UNCHANGED <<tracked, force, enabled, adaptive, path, todo, found, targets>>
    BY <1>3 DEF Sockets!Term, Sockets!Kill
  <2>3. /\ since' = since \ S /\ holds' = holds \ S /\ alive' = alive \ S
        /\ killed' = killed \cup (S \cap since)
    BY <2>1 DEF Sockets!Signal, Sockets!Gone
  <2>4. killed' # {} /\ ~force => enabled /\ (adaptive => Owner \notin killed')
    BY <2>2, <2>3
  <2> QED
    BY <2>2, <2>3, <2>4
<1>4. CASE Sockets!Check
  BY <1>4 DEF Sockets!Check
<1>5. CASE Sockets!Remove
  BY <1>5 DEF Sockets!Remove
<1>6. ASSUME NEW p, Sockets!Exit(p) \/ Sockets!Release(p) \/ Sockets!Reuse(p) \/ Sockets!Bind(p)
      PROVE  HoldersKnown'
  BY <1>6, ProcessesKeepHolders
<1>7. CASE UNCHANGED Sockets!vars
  BY <1>7 DEF Sockets!vars
<1> QED
  BY <1>1, <1>2, <1>3, <1>4, <1>5, <1>6, <1>7 DEF Sockets!Next

-----------------------------------------------------------------------------
(* CgroupMigrate. *)

\* A process is not older than its parent, and start times are not used twice.
KernelSound ==
  /\ Migrate!TypeOK
  /\ \A p \in Pids :
       /\ proc[p].start <= starts
       /\ proc[p].start = 0 => proc[p] = Migrate!Nobody
       /\ proc[p].start # 0 /\ proc[p].ppid # 0 => proc[proc[p].ppid].start \in 1 .. proc[p].start

\* The main process is moved first.
ProgressSound ==
  /\ mpc = "inspect" => todo \subseteq Pids
  /\ mpc \in {"check", "write", "verify"} => todo \subseteq [pid : Pids, start : 0 .. starts]
  /\ mpc \in {"write", "verify"} => cur \in [pid : Pids, start : 0 .. starts]
  /\ snapshot \subseteq [pid : Pids, start : 0 .. starts, ppid : Pids \cup {0}]
  /\ moved # {} => Migrate!Main \in moved
  /\ moved = {} =>
       /\ mpc \in {"check", "write", "verify", "done"}
       /\ mpc = "check" => todo \subseteq {[pid |-> Migrate!Main, start |-> 1]}
       /\ mpc \in {"write", "verify"} => cur = [pid |-> Migrate!Main, start |-> 1] /\ todo = {}
  /\ mpc # "done" => state = "pending"

\* A process that was moved is in the cgroup; another with its pid is no child.
MovedSound ==
  /\ mpc = "verify" /\ cur.pid \in Migrate!Alive /\ proc[cur.pid].start = cur.start =>
       proc[cur.pid].grouped
  /\ Migrate!Main \in moved /\ proc[Migrate!Main].start = 1 => proc[Migrate!Main].grouped
  /\ ~reused =>
       \A p \in moved : proc[p].start # 0 /\ ~proc[p].grouped => proc[p].ppid = 0

(* While the processes of a round are inspected: those that were there when  *)
(* it began have been seen with their parents or are still to come, and only *)
(* such a process can be outside of the cgroup while its parent is inside.   *)
Seen(p) == \E x \in snapshot : x.pid = p /\ (proc[p].ppid = 0 \/ x.ppid = proc[p].ppid)
ScanSound ==
  mpc = "inspect" =>
    \E old \in 0 .. starts :
      /\ \A p \in Pids : proc[p].start \in 1 .. old => p \in todo \/ Seen(p)
      /\ \A p \in Pids :
           proc[p].start # 0 /\ ~proc[p].grouped /\ proc[p].ppid # 0 /\ proc[proc[p].ppid].grouped =>
             proc[p].start <= old

\* When all are tracked, they are a set in the cgroup that no child leaves.
Family(S) ==
  /\ Migrate!Main \in S /\ \A p \in S : proc[p].start # 0 /\ proc[p].grouped
  /\ \A p \in Pids : proc[p].start # 0 /\ proc[p].ppid \in S => p \in S
TrackedSound ==
  state = "tracked" /\ ~reused /\ proc[Migrate!Main].start = 1 => \E S \in SUBSET Pids : Family(S)

MigrateSound == KernelSound /\ ProgressSound /\ MovedSound /\ ScanSound /\ TrackedSound

MigrateState == <<mpc, todo, cur, snapshot, moved, round, state>>

LEMMA AliveMeansStarted ==
  ASSUME KernelSound, NEW p
  PROVE  p \in Migrate!Alive <=> p \in Pids /\ proc[p].start # 0
BY DEF KernelSound, Migrate!Alive, Migrate!Nobody

LEMMA MigrateBegins ==
  ASSUME Migrate!Parameters, Migrate!Init
  PROVE  MigrateSound
<1>0. PICK children \in SUBSET (Pids \ {Migrate!Main}) :
        proc = [p \in Pids |-> IF p \in children \cup {Migrate!Main}
                               THEN [start |-> 1, ppid |-> IF p = Migrate!Main THEN 0 ELSE Migrate!Main,
                                     grouped |-> FALSE]
                               ELSE Migrate!Nobody]
  BY DEF Migrate!Init
<1>1. \A p \in Pids :
        /\ proc[p] \in [start : 0 .. MaxStarts, ppid : Pids \cup {0}, grouped : BOOLEAN]
        /\ proc[p].start \in {0, 1} /\ (proc[p].start = 0 => proc[p] = Migrate!Nobody)
        /\ proc[p].ppid \in {0, Migrate!Main}
  BY <1>0 DEF Migrate!Parameters, Migrate!Nobody
<1>2. proc[Migrate!Main].start = 1
  BY <1>0 DEF Migrate!Parameters
<1>3. /\ starts = 1 /\ mpc = "check" /\ todo = {[pid |-> Migrate!Main, start |-> 1]}
      /\ snapshot = {} /\ moved = {} /\ round = 0 /\ state = "pending" /\ reused = FALSE
  BY DEF Migrate!Init
<1>4. proc \in [Pids -> [start : 0 .. MaxStarts, ppid : Pids \cup {0}, grouped : BOOLEAN]]
  BY <1>0, <1>1
<1>5. KernelSound
  <2>1. Migrate!TypeOK
    <3>1. 1 \in 1 .. MaxStarts /\ 0 \in 0 .. MaxRounds
      BY DEF Migrate!Parameters
    <3>2. /\ starts \in 1 .. MaxStarts /\ round \in 0 .. MaxRounds /\ moved \subseteq Pids
          /\ mpc = "check" /\ state = "pending" /\ reused \in BOOLEAN
      BY <1>3, <3>1
    <3> QED
      BY <3>2, <1>4 DEF Migrate!TypeOK
  <2> QED
    BY <2>1, <1>1, <1>2, <1>3 DEF KernelSound
<1>6. ProgressSound
  BY <1>3 DEF ProgressSound, Migrate!Parameters
<1> QED
  BY <1>3, <1>5, <1>6 DEF MigrateSound, MovedSound, ScanSound, TrackedSound

(* What a fork changes. *)
LEMMA ForkEffect ==
  ASSUME Migrate!Parameters, KernelSound, NEW p \in Pids \cup {0}, Migrate!Fork(p)
  PROVE  \E q \in Pids :
           /\ proc[q].start = 0 /\ starts' = starts + 1 /\ starts \in Nat \ {0} /\ starts < MaxStarts
           /\ UNCHANGED MigrateState
           /\ proc' = [proc EXCEPT ![q] = [start |-> starts + 1, ppid |-> p,
                                           grouped |-> p # 0 /\ proc[p].grouped]]
           /\ p # 0 => proc[p].start # 0 /\ p # q
           /\ reused' = (reused \/ (p # 0 /\ ~proc[p].grouped /\ q \in moved))
<1>1. /\ p \in Migrate!Alive \cup {0} /\ starts < MaxStarts /\ starts' = starts + 1
      /\ UNCHANGED MigrateState
  BY DEF Migrate!Fork, MigrateState
<1>2. PICK q \in Pids \ Migrate!Alive :
        /\ proc' = [proc EXCEPT ![q] = [start |-> starts + 1, ppid |-> p,
                                        grouped |-> p # 0 /\ proc[p].grouped]]
        /\ reused' = (reused \/ (p # 0 /\ ~(p # 0 /\ proc[p].grouped) /\ q \in moved))
  BY DEF Migrate!Fork
<1>3. proc[q].start = 0 /\ (p # 0 => proc[p].start # 0)
  BY <1>1, <1>2, AliveMeansStarted
<1>4. starts \in Nat \ {0}
  BY DEF KernelSound, Migrate!TypeOK, Migrate!Parameters
<1> QED
  BY <1>1, <1>2, <1>3, <1>4

(* What an exit changes. *)
LEMMA ExitEffect ==
  ASSUME KernelSound, NEW p \in Pids, Migrate!Exit(p)
  PROVE  /\ proc[p].start # 0 /\ UNCHANGED <<MigrateState, starts, reused>>
         /\ proc' = [q \in Pids |-> IF q = p THEN Migrate!Nobody
                                    ELSE IF proc[q].ppid = p THEN [proc[q] EXCEPT !.ppid = 0]
                                    ELSE proc[q]]
BY AliveMeansStarted DEF Migrate!Exit, MigrateState

LEMMA KernelFacts ==
  ASSUME KernelSound
  PROVE  \A p \in Pids :
           /\ proc[p].start \in 0 .. starts /\ starts \in Nat /\ proc[p].ppid \in Pids \cup {0}
           /\ proc[p].start # 0 /\ proc[p].ppid # 0 =>
                /\ proc[p].ppid \in Pids /\ proc[proc[p].ppid].start # 0
                /\ proc[proc[p].ppid].start <= proc[p].start
<1> SUFFICES ASSUME NEW p \in Pids
    PROVE  /\ proc[p].start \in 0 .. starts /\ starts \in Nat /\ proc[p].ppid \in Pids \cup {0}
           /\ proc[p].start # 0 /\ proc[p].ppid # 0 =>
                /\ proc[p].ppid \in Pids /\ proc[proc[p].ppid].start # 0
                /\ proc[proc[p].ppid].start <= proc[p].start
  OBVIOUS
<1>1. starts \in Nat /\ proc[p] \in [start : 0 .. MaxStarts, ppid : Pids \cup {0}, grouped : BOOLEAN]
  BY DEF KernelSound, Migrate!TypeOK
<1>2. proc[p].start <= starts
  BY DEF KernelSound
<1>3. proc[p].start # 0 /\ proc[p].ppid # 0 => proc[proc[p].ppid].start \in 1 .. proc[p].start
  BY DEF KernelSound
<1>4. proc[p].ppid \in Pids \cup {0} /\ proc[p].start \in 0 .. MaxStarts
  BY <1>1
<1> QED
  BY <1>1, <1>2, <1>3, <1>4

LEMMA ForkKeepsMigrate ==
  ASSUME Migrate!Parameters, MigrateSound, NEW p \in Pids \cup {0}, Migrate!Fork(p)
  PROVE  MigrateSound'
<1>0. KernelSound
  BY DEF MigrateSound
<1> PICK q \in Pids :
           /\ proc[q].start = 0 /\ starts' = starts + 1 /\ starts \in Nat \ {0} /\ starts < MaxStarts
           /\ UNCHANGED MigrateState
           /\ proc' = [proc EXCEPT ![q] = [start |-> starts + 1, ppid |-> p,
                                           grouped |-> p # 0 /\ proc[p].grouped]]
           /\ p # 0 => proc[p].start # 0 /\ p # q
           /\ reused' = (reused \/ (p # 0 /\ ~proc[p].grouped /\ q \in moved))
  BY <1>0, ForkEffect
<1>1. proc \in [Pids -> [start : 0 .. MaxStarts, ppid : Pids \cup {0}, grouped : BOOLEAN]]
  BY <1>0 DEF KernelSound, Migrate!TypeOK
<1>2. /\ proc'[q].start = starts + 1 /\ proc'[q].ppid = p
      /\ proc'[q].grouped <=> p # 0 /\ proc[p].grouped
  BY <1>1
<1>3. \A r \in Pids \ {q} : proc'[r] = proc[r]
  BY <1>1
<1>4. \A r \in Pids : proc[r].start # 0 => proc[r].ppid # q /\ proc'[r] = proc[r]
  BY <1>0, <1>3, KernelFacts DEF Migrate!Parameters
<1>5. KernelSound'
  <2>1. proc' \in [Pids -> [start : 0 .. MaxStarts, ppid : Pids \cup {0}, grouped : BOOLEAN]]
    <3>1. starts + 1 \in 0 .. MaxStarts /\ (p # 0 /\ proc[p].grouped) \in BOOLEAN
      BY DEF Migrate!Parameters
    <3>2. [start |-> starts + 1, ppid |-> p, grouped |-> p # 0 /\ proc[p].grouped]
            \in [start : 0 .. MaxStarts, ppid : Pids \cup {0}, grouped : BOOLEAN]
      BY <3>1, Zenon
    <3> QED
      BY <3>2, <1>1, Zenon
  <2>2. Migrate!TypeOK'
    <3>1. starts' \in 1 .. MaxStarts
      BY DEF Migrate!Parameters
    <3>2. UNCHANGED <<moved, round, mpc, state>> /\ reused' \in BOOLEAN
      BY <1>0 DEF MigrateState, KernelSound, Migrate!TypeOK
    <3> QED
      BY <2>1, <3>1, <3>2, <1>0 DEF KernelSound, Migrate!TypeOK
  <2>3. ASSUME NEW r \in Pids
        PROVE  /\ proc'[r].start <= starts'
               /\ proc'[r].start = 0 => proc'[r] = Migrate!Nobody
               /\ proc'[r].start # 0 /\ proc'[r].ppid # 0 => proc'[proc'[r].ppid].start \in 1 .. proc'[r].start
    <3>1. CASE r = q
      <4>1. p # 0 => proc'[p] = proc[p] /\ proc[p].start \in 1 .. starts
        BY <1>0, <1>3, KernelFacts
      <4> QED
        BY <3>1, <4>1, <1>2
    <3>2. CASE r # q
      <4>1. proc'[r] = proc[r] /\ proc[r].start <= starts /\ (proc[r].start = 0 => proc[r] = Migrate!Nobody)
        BY <3>2, <1>3, <1>0 DEF KernelSound
      <4>2. proc[r].start # 0 /\ proc[r].ppid # 0 => 
              proc'[proc[r].ppid].start = proc[proc[r].ppid].start /\ proc[proc[r].ppid].start \in 1 .. proc[r].start
        BY <1>0, <1>4, <1>3, KernelFacts DEF KernelSound
      <4>3. proc[r].start \in 0 .. starts
        BY <1>0, KernelFacts
      <4> QED
        BY <4>1, <4>2, <4>3
    <3> QED
      BY <3>1, <3>2
  <2> QED
    BY <2>2, <2>3 DEF KernelSound
<1>6. ProgressSound'
  <2>1. 0 .. starts \subseteq 0 .. starts'
    OBVIOUS
  <2>2. \A T : T \subseteq [pid : Pids, start : 0 .. starts] => T \subseteq [pid : Pids, start : 0 .. starts']
    BY <2>1
  <2>3. \A x : x \in [pid : Pids, start : 0 .. starts] => x \in [pid : Pids, start : 0 .. starts']
    BY <2>1
  <2>4. \A T : T \subseteq [pid : Pids, start : 0 .. starts, ppid : Pids \cup {0}] =>
                 T \subseteq [pid : Pids, start : 0 .. starts', ppid : Pids \cup {0}]
    BY <2>1
  <2> QED
    BY <2>2, <2>3, <2>4 DEF MigrateSound, ProgressSound, MigrateState
<1>7. MovedSound'
  <2>1. mpc = "verify" => cur.start # starts + 1
    BY DEF MigrateSound, ProgressSound
  <2>2. \A r : r \in Migrate!Alive' <=> r \in Pids /\ proc'[r].start # 0
    <3>1. \A r \in Pids : proc'[r] # Migrate!Nobody <=> proc'[r].start # 0
      BY <1>5 DEF KernelSound, Migrate!Nobody
    <3> QED
      BY <3>1 DEF Migrate!Alive
  <2>3. mpc' = "verify" /\ cur'.pid \in Migrate!Alive' /\ proc'[cur'.pid].start = cur'.start =>
          proc'[cur'.pid].grouped
    <3>1. \A r : r \in Migrate!Alive <=> r \in Pids /\ proc[r].start # 0
      BY <1>0, AliveMeansStarted
    <3> QED
      BY <2>1, <2>2, <3>1, <1>2, <1>3 DEF MigrateSound, MovedSound, MigrateState
  <2>4. Migrate!Main \in moved' /\ proc'[Migrate!Main].start = 1 => proc'[Migrate!Main].grouped
    BY <1>2, <1>3 DEF MigrateSound, MovedSound, MigrateState, Migrate!Parameters
  <2>5. ASSUME ~reused', NEW r \in moved', proc'[r].start # 0, ~proc'[r].grouped PROVE proc'[r].ppid = 0
    <3>1. r \in moved /\ r \in Pids
      BY <1>0 DEF MigrateState, KernelSound, Migrate!TypeOK
    <3> QED
      BY <2>5, <3>1, <1>2, <1>3 DEF MigrateSound, MovedSound
  <2> QED
    BY <2>3, <2>4, <2>5 DEF MovedSound
<1>8. ScanSound'
  <2> SUFFICES ASSUME mpc = "inspect"
               PROVE  ScanSound'
    BY DEF ScanSound, MigrateState
  <2> PICK old \in 0 .. starts :
        /\ \A r \in Pids : proc[r].start \in 1 .. old => r \in todo \/ Seen(r)
        /\ \A r \in Pids :
             proc[r].start # 0 /\ ~proc[r].grouped /\ proc[r].ppid # 0 /\ proc[proc[r].ppid].grouped =>
               proc[r].start <= old
    BY DEF MigrateSound, ScanSound
  <2>1. old \in 0 .. starts'
    OBVIOUS
  <2>2. ASSUME NEW r \in Pids, proc'[r].start \in 1 .. old PROVE r \in todo' \/ Seen(r)'
    <3>1. r # q /\ proc'[r] = proc[r]
      BY <2>2, <1>2, <1>3
    <3> QED
      BY <2>2, <3>1 DEF Seen, MigrateState
  <2>3. ASSUME NEW r \in Pids, proc'[r].start # 0, ~proc'[r].grouped, proc'[r].ppid # 0,
               proc'[proc'[r].ppid].grouped
        PROVE  proc'[r].start <= old
    <3>1. r # q
      BY <2>3, <1>2, <1>3
    <3>2. proc'[r] = proc[r] /\ proc[r].ppid \in Pids \ {q}
      BY <3>1, <2>3, <1>0, <1>3, <1>4, KernelFacts
    <3> QED
      BY <2>3, <3>2, <1>3
  <2> QED
    BY <2>1, <2>2, <2>3 DEF ScanSound
<1>9. TrackedSound'
  <2>a. proc'[Migrate!Main].start = 1 => proc[Migrate!Main].start = 1
    BY <1>2, <1>3 DEF Migrate!Parameters
  <2>b. state' = state /\ (~reused' => ~reused)
    BY DEF MigrateState
  <2> SUFFICES ASSUME state = "tracked", ~reused, proc[Migrate!Main].start = 1
               PROVE  \E S \in SUBSET Pids : Family(S)'
    BY <2>a, <2>b, Zenon DEF TrackedSound
  <2> PICK S \in SUBSET Pids : Family(S)
    BY DEF MigrateSound, TrackedSound
  <2> DEFINE T == IF p \in S THEN S \cup {q} ELSE S
  <2>0. q \notin S /\ 0 \notin S
    BY DEF Family, Migrate!Parameters
  <2>1. Migrate!Main \in T /\ T \in SUBSET Pids
    BY DEF Family
  <2>2. \A r \in S : proc'[r].start # 0 /\ proc'[r].grouped
    BY <1>3, <2>0 DEF Family
  <2>3. p \in S => proc'[q].start # 0 /\ proc'[q].grouped
    BY <1>2, <2>0 DEF Family
  <2>4. \A r \in Pids : proc'[r].start # 0 /\ proc'[r].ppid \in T => r \in T
    BY <1>2, <1>3, <1>4, <2>0 DEF Family
  <2> HIDE DEF T
  <2>5. \A r \in T : proc'[r].start # 0 /\ proc'[r].grouped
    BY <2>2, <2>3 DEF T
  <2> QED
    BY <2>1, <2>4, <2>5 DEF Family
<1> QED
  BY <1>5, <1>6, <1>7, <1>8, <1>9 DEF MigrateSound

LEMMA ExitKeepsMigrate ==
  ASSUME Migrate!Parameters, MigrateSound, NEW p \in Pids, Migrate!Exit(p)
  PROVE  MigrateSound'
<1>0. KernelSound
  BY DEF MigrateSound
<1>1. /\ proc[p].start # 0 /\ UNCHANGED <<MigrateState, starts, reused>>
      /\ proc' = [q \in Pids |-> IF q = p THEN Migrate!Nobody
                                 ELSE IF proc[q].ppid = p THEN [proc[q] EXCEPT !.ppid = 0]
                                 ELSE proc[q]]
  BY <1>0, ExitEffect
<1>2. proc'[p] = Migrate!Nobody /\ proc'[p].start = 0
  BY <1>1 DEF Migrate!Nobody
<1>3. \A q \in Pids \ {p} :
        /\ proc'[q] \in [start : 0 .. MaxStarts, ppid : Pids \cup {0}, grouped : BOOLEAN]
        /\ proc'[q].start = proc[q].start /\ proc'[q].grouped = proc[q].grouped
        /\ proc'[q].ppid = IF proc[q].ppid = p THEN 0 ELSE proc[q].ppid
        /\ proc[q].start = 0 => proc[q].ppid # p /\ proc'[q] = Migrate!Nobody
  <2> SUFFICES ASSUME NEW q \in Pids \ {p}
        PROVE  /\ proc'[q] \in [start : 0 .. MaxStarts, ppid : Pids \cup {0}, grouped : BOOLEAN]
               /\ proc'[q].start = proc[q].start /\ proc'[q].grouped = proc[q].grouped
               /\ proc'[q].ppid = IF proc[q].ppid = p THEN 0 ELSE proc[q].ppid
               /\ proc[q].start = 0 => proc[q].ppid # p /\ proc'[q] = Migrate!Nobody
    OBVIOUS
  <2>1. /\ proc[q] \in [start : 0 .. MaxStarts, ppid : Pids \cup {0}, grouped : BOOLEAN]
        /\ proc[q].start = 0 => proc[q] = Migrate!Nobody
    BY <1>0 DEF KernelSound, Migrate!TypeOK
  <2>2. proc[q].start = 0 => proc[q].ppid # p
    BY <2>1 DEF Migrate!Nobody, Migrate!Parameters
  <2>3. proc'[q] = IF proc[q].ppid = p THEN [proc[q] EXCEPT !.ppid = 0] ELSE proc[q]
    BY <1>1
  <2> QED
    BY <2>1, <2>2, <2>3
<1>4. UNCHANGED <<mpc, todo, cur, snapshot, moved, round, state, starts, reused>>
  BY <1>1 DEF MigrateState
<1> HIDE <1>1
<1>5. KernelSound'
  <2>1. proc' \in [Pids -> [start : 0 .. MaxStarts, ppid : Pids \cup {0}, grouped : BOOLEAN]]
    <3>1. proc'[p] \in [start : 0 .. MaxStarts, ppid : Pids \cup {0}, grouped : BOOLEAN]
      BY <1>2 DEF Migrate!Nobody, Migrate!Parameters
    <3>2. \A q \in Pids : proc'[q] \in [start : 0 .. MaxStarts, ppid : Pids \cup {0}, grouped : BOOLEAN]
      BY <3>1, <1>3
    <3>3. proc' = [q \in Pids |-> proc'[q]]
      BY <1>1
    <3> QED
      BY <3>2, <3>3
  <2>2. Migrate!TypeOK'
    BY <2>1, <1>4, <1>0 DEF KernelSound, Migrate!TypeOK
  <2>3. ASSUME NEW r \in Pids
        PROVE  /\ proc'[r].start <= starts'
               /\ proc'[r].start = 0 => proc'[r] = Migrate!Nobody
               /\ proc'[r].start # 0 /\ proc'[r].ppid # 0 => proc'[proc'[r].ppid].start \in 1 .. proc'[r].start
    <3>1. CASE r = p
      BY <3>1, <1>0, <1>2, <1>4, KernelFacts
    <3>2. CASE r # p
      <4>1. proc'[r].start = proc[r].start /\ proc[r].start <= starts' /\ (proc[r].start = 0 => proc'[r] = Migrate!Nobody)
        BY <3>2, <1>3, <1>4, <1>0 DEF KernelSound
      <4>2. ASSUME proc[r].start # 0, proc'[r].ppid # 0
            PROVE  proc'[proc'[r].ppid].start \in 1 .. proc[r].start
        <5>1. proc'[r].ppid = proc[r].ppid /\ proc[r].ppid # p /\ proc[r].ppid # 0
          BY <4>2, <3>2, <1>3
        <5>2. proc[r].ppid \in Pids \ {p} /\ proc[proc[r].ppid].start \in 1 .. proc[r].start
          BY <5>1, <4>2, <1>0, KernelFacts DEF KernelSound
        <5> QED
          BY <5>1, <5>2, <1>3
      <4> QED
        BY <4>1, <4>2
    <3> QED
      BY <3>1, <3>2
  <2> QED
    BY <2>2, <2>3 DEF KernelSound
<1>6. ProgressSound'
  BY <1>4 DEF MigrateSound, ProgressSound
<1>a. \A r \in Pids : proc'[r].start # 0 => r # p
  BY <1>2
<1>7. MovedSound'
  <2>1. \A r : r \in Migrate!Alive' => r \in Migrate!Alive /\ r # p
    <3>1. \A r \in Pids : proc'[r] # Migrate!Nobody => proc'[r].start # 0
      BY <1>5 DEF KernelSound, Migrate!Nobody
    <3>2. \A r : r \in Migrate!Alive <=> r \in Pids /\ proc[r].start # 0
      BY <1>0, AliveMeansStarted
    <3> QED
      BY <3>1, <3>2, <1>a, <1>3 DEF Migrate!Alive
  <2>2. mpc' = "verify" /\ cur'.pid \in Migrate!Alive' /\ proc'[cur'.pid].start = cur'.start =>
          proc'[cur'.pid].grouped
    <3>1. Migrate!Alive \subseteq Pids
      BY DEF Migrate!Alive
    <3> QED
      BY <2>1, <3>1, <1>3, <1>4 DEF MigrateSound, MovedSound
  <2>3. Migrate!Main \in moved' /\ proc'[Migrate!Main].start = 1 => proc'[Migrate!Main].grouped
    BY <1>a, <1>3, <1>4 DEF MigrateSound, MovedSound, Migrate!Parameters
  <2>4. ASSUME ~reused', NEW r \in moved', proc'[r].start # 0, ~proc'[r].grouped PROVE proc'[r].ppid = 0
    <3>1. r \in moved /\ r \in Pids
      BY <1>0, <1>4 DEF KernelSound, Migrate!TypeOK
    <3> QED
      BY <2>4, <3>1, <1>a, <1>3, <1>4 DEF MigrateSound, MovedSound
  <2> QED
    BY <2>2, <2>3, <2>4 DEF MovedSound
<1>8. ScanSound'
  <2> SUFFICES ASSUME mpc = "inspect"
               PROVE  ScanSound'
    BY <1>4 DEF ScanSound
  <2> PICK old \in 0 .. starts :
        /\ \A r \in Pids : proc[r].start \in 1 .. old => r \in todo \/ Seen(r)
        /\ \A r \in Pids :
             proc[r].start # 0 /\ ~proc[r].grouped /\ proc[r].ppid # 0 /\ proc[proc[r].ppid].grouped =>
               proc[r].start <= old
    BY DEF MigrateSound, ScanSound
  <2>1. ASSUME NEW r \in Pids, proc'[r].start \in 1 .. old PROVE r \in todo' \/ Seen(r)'
    <3>1. r # p
      BY <2>1, <1>2
    <3>2. proc[r].start \in 1 .. old /\ (proc'[r].ppid = 0 \/ proc'[r].ppid = proc[r].ppid)
      BY <2>1, <3>1, <1>3
    <3> QED
      BY <3>2, <1>4 DEF Seen
  <2>2. ASSUME NEW r \in Pids, proc'[r].start # 0, ~proc'[r].grouped, proc'[r].ppid # 0,
               proc'[proc'[r].ppid].grouped
        PROVE  proc'[r].start <= old
    <3>1. r # p
      BY <2>2, <1>2
    <3>2. proc'[r].start = proc[r].start /\ proc'[r].ppid = proc[r].ppid /\ proc[r].ppid # p
          /\ ~proc[r].grouped
      BY <2>2, <3>1, <1>3
    <3>3. proc[r].ppid \in Pids \ {p}
      BY <2>2, <3>2, <1>0, KernelFacts
    <3> QED
      BY <2>2, <3>2, <3>3, <1>3
  <2> QED
    BY <2>1, <2>2, <1>4 DEF ScanSound
<1>9. TrackedSound'
  <2>a. proc'[Migrate!Main].start = 1 => Migrate!Main # p /\ proc[Migrate!Main].start = 1
    BY <1>2, <1>3 DEF Migrate!Parameters
  <2> SUFFICES ASSUME state = "tracked", ~reused, proc[Migrate!Main].start = 1, Migrate!Main # p
               PROVE  \E S \in SUBSET Pids : Family(S)'
    BY <2>a, <1>4, Zenon DEF TrackedSound
  <2> PICK S \in SUBSET Pids : Family(S)
    BY DEF MigrateSound, TrackedSound
  <2> DEFINE T == S \ {p}
  <2>0. 0 \notin S
    BY DEF Migrate!Parameters
  <2>1. Migrate!Main \in T /\ T \in SUBSET Pids
    BY DEF Family
  <2>2. \A r \in T : proc'[r].start # 0 /\ proc'[r].grouped
    BY <1>3 DEF Family
  <2>3. \A r \in Pids : proc'[r].start # 0 /\ proc'[r].ppid \in T => r \in T
    BY <1>a, <1>3, <2>0 DEF Family
  <2> HIDE DEF T
  <2> QED
    BY <2>1, <2>2, <2>3 DEF Family
<1> QED
  BY <1>5, <1>6, <1>7, <1>8, <1>9 DEF MigrateSound

\* A step of the migrator that writes nothing.
LEMMA KernelFrame ==
  ASSUME KernelSound, UNCHANGED <<proc, starts, reused>>, moved' \subseteq Pids, round' \in 0 .. MaxRounds,
         mpc' \in {"list", "inspect", "check", "write", "verify", "done"},
         state' \in {"pending", "tracked", "partial", "degraded"}
  PROVE  KernelSound'
BY DEF KernelSound, Migrate!TypeOK

LEMMA ListKeepsMigrate ==
  ASSUME Migrate!Parameters, MigrateSound, Migrate!ListPIDs
  PROVE  MigrateSound'
<1>0. KernelSound /\ ProgressSound /\ MovedSound /\ TrackedSound /\ moved \subseteq Pids
  BY DEF MigrateSound, KernelSound, Migrate!TypeOK
<1>1. mpc = "list" /\ UNCHANGED <<proc, starts, moved, reused>> /\ state = "pending" /\ moved # {}
  BY <1>0 DEF Migrate!ListPIDs, Migrate!kernel, ProgressSound
<1>2. CASE round < MaxRounds /\ round' = round + 1 /\ mpc' = "inspect" /\ todo' = Migrate!Alive
           /\ snapshot' = {} /\ UNCHANGED <<cur, state>>
  <2>1. KernelSound'
    <3>1. round' \in 0 .. MaxRounds
      BY <1>0, <1>2 DEF KernelSound, Migrate!TypeOK, Migrate!Parameters
    <3> QED
      BY <1>0, <1>1, <1>2, <3>1, KernelFrame
  <2>2. todo' \subseteq Pids
    BY <1>2 DEF Migrate!Alive
  <2>3. ProgressSound'
    BY <1>0, <1>1, <1>2, <2>2 DEF ProgressSound
  <2>4. MovedSound'
    BY <1>0, <1>1, <1>2 DEF MovedSound
  <2>5. ScanSound'
    <3>1. \A p \in Pids : proc[p].start # 0 => p \in todo'
      BY <1>0, <1>2, AliveMeansStarted
    <3>2. starts \in Nat /\ \A p \in Pids : proc[p].start <= starts
      BY <1>0 DEF KernelSound, Migrate!TypeOK
    <3>3. starts \in 0 .. starts'
      BY <1>1, <3>2
    <3> QED
      BY <1>1, <3>1, <3>2, <3>3 DEF ScanSound
  <2> QED
    BY <1>1, <1>2, <2>1, <2>3, <2>4, <2>5 DEF MigrateSound, TrackedSound
<1>3. CASE Migrate!End("partial") /\ UNCHANGED <<round, snapshot>>
  <2>1. mpc' = "done" /\ state' = "partial" /\ todo' = {}
    BY <1>3 DEF Migrate!End
  <2>2. KernelSound'
    <3>1. round' \in 0 .. MaxRounds
      BY <1>0, <1>3 DEF KernelSound, Migrate!TypeOK
    <3> QED
      BY <1>0, <1>1, <2>1, <3>1, KernelFrame
  <2> QED
    BY <1>0, <1>1, <1>3, <2>1, <2>2 DEF MigrateSound, ProgressSound, MovedSound, ScanSound, TrackedSound
<1> QED
  BY <1>2, <1>3 DEF Migrate!ListPIDs

LEMMA InspectKeepsMigrate ==
  ASSUME Migrate!Parameters, MigrateSound, Migrate!Inspect
  PROVE  MigrateSound'
<1>0. KernelSound /\ ProgressSound /\ MovedSound /\ ScanSound /\ moved \subseteq Pids /\ round \in 0 .. MaxRounds
  BY DEF MigrateSound, KernelSound, Migrate!TypeOK
<1>1. mpc = "inspect" /\ UNCHANGED <<proc, starts, moved, round, reused>> /\ state = "pending" /\ moved # {}
      /\ todo \subseteq Pids
  BY <1>0 DEF Migrate!Inspect, Migrate!kernel, ProgressSound
<1>p. PICK p : p = CHOOSE q \in todo : \A o \in todo : q <= o
  OBVIOUS
<1>2. CASE p \in Migrate!Alive /\ todo' = todo \ {p} /\ UNCHANGED <<mpc, cur, state>>
           /\ snapshot' = snapshot \cup {[pid |-> p, start |-> proc[p].start, ppid |-> proc[p].ppid]}
  <2>1. KernelSound'
    BY <1>0, <1>1, <1>2, KernelFrame
  <2>2. snapshot' \subseteq [pid : Pids, start : 0 .. starts, ppid : Pids \cup {0}]
    <3>1. p \in Pids
      BY <1>2 DEF Migrate!Alive
    <3>2. [pid |-> p, start |-> proc[p].start, ppid |-> proc[p].ppid]
             \in [pid : Pids, start : 0 .. starts, ppid : Pids \cup {0}]
      BY <1>0, <3>1, KernelFacts
    <3> QED
      BY <1>2, <3>2, <1>0 DEF ProgressSound
  <2>3. ProgressSound'
    BY <1>0, <1>1, <1>2, <2>2 DEF ProgressSound
  <2>4. MovedSound'
    BY <1>0, <1>1, <1>2 DEF MovedSound
  <2>5. ASSUME NEW q \in Pids, q \in todo \/ Seen(q) PROVE q \in todo' \/ Seen(q)'
    <3>1. CASE q = p
      <4>1. [pid |-> p, start |-> proc[p].start, ppid |-> proc[p].ppid] \in snapshot'
        BY <1>2
      <4> DEFINE x == [pid |-> p, start |-> proc[p].start, ppid |-> proc[p].ppid]
      <4>2. x \in snapshot' /\ x.pid = q /\ x.ppid = proc'[q].ppid
        BY <4>1, <3>1, <1>1
      <4> QED
        BY <4>2 DEF Seen
    <3>2. CASE q # p
      BY <2>5, <3>2, <1>1, <1>2 DEF Seen
    <3> QED
      BY <3>1, <3>2
  <2>6. ScanSound'
    BY <1>0, <1>1, <1>2, <2>5 DEF ScanSound
  <2> QED
    BY <1>1, <1>2, <2>1, <2>3, <2>4, <2>6 DEF MigrateSound, TrackedSound
<1>3. CASE p \notin Migrate!Alive /\ todo' = todo \ {p} /\ UNCHANGED <<snapshot, mpc, cur, state>>
  <2>1. KernelSound'
    BY <1>0, <1>1, <1>3, KernelFrame
  <2>2. ProgressSound'
    BY <1>0, <1>1, <1>3 DEF ProgressSound
  <2>3. MovedSound'
    BY <1>0, <1>1, <1>3 DEF MovedSound
  <2>4. \A q \in Pids : proc[q].start # 0 => q # p
    BY <1>0, <1>3, AliveMeansStarted
  <2>5. ScanSound'
    <3> PICK old \in 0 .. starts :
          /\ \A r \in Pids : proc[r].start \in 1 .. old => r \in todo \/ Seen(r)
          /\ \A r \in Pids :
               proc[r].start # 0 /\ ~proc[r].grouped /\ proc[r].ppid # 0 /\ proc[proc[r].ppid].grouped =>
                 proc[r].start <= old
      BY <1>0, <1>1 DEF ScanSound
    <3>1. \A r \in Pids : proc'[r].start \in 1 .. old => r \in todo' \/ Seen(r)'
      BY <2>4, <1>1, <1>3 DEF Seen
    <3> QED
      BY <3>1, <1>1 DEF ScanSound
  <2> QED
    BY <1>1, <1>3, <2>1, <2>2, <2>3, <2>5 DEF MigrateSound, TrackedSound
<1>4. CASE Migrate!End("degraded") /\ UNCHANGED snapshot
  <2>1. mpc' = "done" /\ state' = "degraded" /\ todo' = {}
    BY <1>4 DEF Migrate!End
  <2>2. KernelSound'
    BY <1>0, <1>1, <2>1, KernelFrame
  <2> QED
    BY <1>0, <1>1, <1>4, <2>1, <2>2 DEF MigrateSound, ProgressSound, MovedSound, ScanSound, TrackedSound
<1> QED
  BY <1>p, <1>2, <1>3, <1>4 DEF Migrate!Inspect

(* When a round shows nothing new, the pids moved are closed under the       *)
(* children of the snapshot, and with the processes that began later in the  *)
(* cgroup they are a family.                                                 *)
LEMMA FamilyFound ==
  ASSUME Migrate!Parameters, KernelSound, ProgressSound, MovedSound, ScanSound,
         mpc = "inspect", todo = {}, ~reused, proc[Migrate!Main].start = 1,
         Migrate!Pending(Migrate!Descendants(Migrate!Main, snapshot)) = {}
  PROVE  \E S \in SUBSET Pids : Family(S)
<1> DEFINE below == Migrate!Descendants(Migrate!Main, snapshot)
           D == {Migrate!Main} \cup {x.pid : x \in below}
<1>1. Migrate!Main \in moved /\ Migrate!Main \in Pids /\ proc[Migrate!Main].grouped
  BY DEF ProgressSound, MovedSound, Migrate!Parameters
<1>2. D \subseteq moved
  <2>1. \A x \in below : x.pid \in moved
    BY DEF Migrate!Pending
  <2> QED
    BY <2>1, <1>1
<1>3. ASSUME NEW x \in snapshot, x.ppid \in D PROVE x.pid \in D
  <2>1. CASE x.pid = Migrate!Main
    BY <2>1
  <2>2. CASE x.pid # Migrate!Main
    <3>1. ASSUME NEW S \in SUBSET ({Migrate!Main} \cup {p.pid : p \in snapshot}),
                 Migrate!Main \in S, \A p \in snapshot : p.ppid \in S => p.pid \in S
          PROVE  x.pid \in S
      <4>1. \A y \in below : y.pid \in S
        BY <3>1 DEF Migrate!Descendants
      <4>2. x.ppid \in S
        BY <1>3, <3>1, <4>1
      <4> QED
        BY <3>1, <4>2
    <3>2. x \in below
      BY <2>2, <3>1 DEF Migrate!Descendants
    <3> QED
      BY <3>2
  <2> QED
    BY <2>1, <2>2
<1> HIDE DEF D
<1>4. Migrate!Main \in D
  BY DEF D
<1> PICK old \in 0 .. starts :
      /\ \A r \in Pids : proc[r].start \in 1 .. old => Seen(r)
      /\ \A r \in Pids :
           proc[r].start # 0 /\ ~proc[r].grouped /\ proc[r].ppid # 0 /\ proc[proc[r].ppid].grouped =>
             proc[r].start <= old
  BY DEF ScanSound
<1> DEFINE S == {p \in Pids : p = Migrate!Main \/ (/\ proc[p].start # 0 /\ proc[p].grouped
                                                   /\ proc[p].start <= old => p \in D)}
<1>5. \A p \in S : proc[p].start # 0 /\ proc[p].grouped
  BY <1>1
<1>6. ASSUME NEW q \in Pids, proc[q].start # 0, proc[q].ppid \in S PROVE q \in S
  <2>1. proc[q].ppid \in Pids /\ proc[q].ppid # 0 /\ proc[proc[q].ppid].start \in 1 .. proc[q].start
    BY <1>6, KernelFacts DEF Migrate!Parameters, KernelSound
  <2>2. proc[q].start \in Nat \ {0} /\ proc[proc[q].ppid].grouped
    BY <1>5, <1>6, KernelFacts
  <2>3. CASE proc[q].start <= old
    <3>1. proc[q].ppid \in D
      BY <2>1, <2>2, <2>3, <1>4, <1>6
    <3>2. Seen(q)
      BY <2>2, <2>3
    <3>3. q \in D
      BY <3>1, <3>2, <2>1, <1>3 DEF Seen
    <3>4. proc[q].grouped
      BY <3>3, <1>2, <1>6, <2>1 DEF MovedSound
    <3> QED
      BY <3>3, <3>4, <1>6
  <2>4. CASE ~(proc[q].start <= old)
    BY <2>1, <2>2, <2>4, <1>6
  <2> QED
    BY <2>3, <2>4
<1>7. Migrate!Main \in S /\ S \in SUBSET Pids
  BY <1>1
<1> HIDE DEF S
<1> QED
  BY <1>5, <1>6, <1>7 DEF Family

LEMMA SelectKeepsMigrate ==
  ASSUME Migrate!Parameters, MigrateSound, Migrate!Select
  PROVE  MigrateSound'
<1>0. KernelSound /\ ProgressSound /\ MovedSound /\ ScanSound /\ moved \subseteq Pids /\ round \in 0 .. MaxRounds
  BY DEF MigrateSound, KernelSound, Migrate!TypeOK
<1>1. /\ mpc = "inspect" /\ todo = {} /\ snapshot' = {} /\ UNCHANGED <<proc, starts, moved, round, reused>>
      /\ state = "pending" /\ moved # {}
  BY <1>0 DEF Migrate!Select, Migrate!kernel, ProgressSound
<1> DEFINE new == Migrate!Pending(Migrate!Descendants(Migrate!Main, snapshot))
<1>2. CASE todo' = {[pid |-> p.pid, start |-> p.start] : p \in new} /\ mpc' = "check" /\ UNCHANGED <<cur, state>>
  <2>1. KernelSound'
    BY <1>0, <1>1, <1>2, KernelFrame
  <2>2. new \subseteq snapshot
    BY DEF Migrate!Pending, Migrate!Descendants
  <2> HIDE DEF new
  <2>3. todo' \subseteq [pid : Pids, start : 0 .. starts]
    <3>1. \A p \in new : p.pid \in Pids /\ p.start \in 0 .. starts
      BY <2>2, <1>0 DEF ProgressSound
    <3> QED
      BY <3>1, <1>2
  <2>4. ProgressSound'
    BY <1>0, <1>1, <1>2, <2>3 DEF ProgressSound
  <2> QED
    BY <1>0, <1>1, <1>2, <2>1, <2>4 DEF MigrateSound, MovedSound, ScanSound, TrackedSound
<1>3. CASE new = {} /\ Migrate!End("tracked")
  <2>1. mpc' = "done" /\ state' = "tracked" /\ todo' = {}
    BY <1>3 DEF Migrate!End
  <2>2. KernelSound'
    BY <1>0, <1>1, <2>1, KernelFrame
  <2>3. ~reused /\ proc[Migrate!Main].start = 1 => \E S \in SUBSET Pids : Family(S)
    BY <1>0, <1>1, <1>3, FamilyFound
  <2>4. TrackedSound'
    BY <2>3, <1>1 DEF TrackedSound, Family
  <2> QED
    BY <1>0, <1>1, <2>1, <2>2, <2>4 DEF MigrateSound, ProgressSound, MovedSound, ScanSound
<1> QED
  BY <1>2, <1>3 DEF Migrate!Select

LEMMA CheckKeepsMigrate ==
  ASSUME Migrate!Parameters, MigrateSound, NEW t \in todo, Migrate!Check(t)
  PROVE  MigrateSound'
<1>0. KernelSound /\ ProgressSound /\ MovedSound /\ TrackedSound /\ moved \subseteq Pids /\ round \in 0 .. MaxRounds
  BY DEF MigrateSound, KernelSound, Migrate!TypeOK
<1>1. mpc = "check" /\ UNCHANGED <<proc, starts, snapshot, moved, round, reused>> /\ state = "pending"
  BY <1>0 DEF Migrate!Check, Migrate!kernel, ProgressSound
<1>2. t \in [pid : Pids, start : 0 .. starts] /\ todo \ {t} \subseteq [pid : Pids, start : 0 .. starts]
  BY <1>0, <1>1 DEF ProgressSound
<1>3. moved = {} => t = [pid |-> Migrate!Main, start |-> 1] /\ todo \ {t} = {}
  BY <1>0, <1>1 DEF ProgressSound
<1>4. CASE cur' = t /\ todo' = todo \ {t} /\ mpc' = "write" /\ UNCHANGED state
  <2>1. KernelSound'
    BY <1>0, <1>1, <1>4, KernelFrame
  <2>2. ProgressSound'
    BY <1>0, <1>1, <1>2, <1>3, <1>4 DEF ProgressSound
  <2> QED
    BY <1>0, <1>1, <1>4, <2>1, <2>2 DEF MigrateSound, MovedSound, ScanSound, TrackedSound
<1>5. CASE moved = {} /\ Migrate!End("degraded")
  <2>1. mpc' = "done" /\ state' = "degraded" /\ todo' = {}
    BY <1>5 DEF Migrate!End
  <2>2. KernelSound'
    BY <1>0, <1>1, <2>1, KernelFrame
  <2> QED
    BY <1>0, <1>1, <2>1, <2>2 DEF MigrateSound, ProgressSound, MovedSound, ScanSound, TrackedSound
<1>6. CASE moved # {} /\ Migrate!GoOn(todo \ {t}) /\ UNCHANGED state
  <2>1. mpc' \in {"list", "check"} /\ todo' = todo \ {t}
    BY <1>6 DEF Migrate!GoOn
  <2>2. KernelSound'
    BY <1>0, <1>1, <1>6, <2>1, KernelFrame
  <2>3. ProgressSound'
    BY <1>0, <1>1, <1>2, <1>6, <2>1 DEF ProgressSound
  <2> QED
    BY <1>0, <1>1, <1>6, <2>1, <2>2, <2>3 DEF MigrateSound, MovedSound, ScanSound, TrackedSound
<1> QED
  BY <1>4, <1>5, <1>6 DEF Migrate!Check

LEMMA SkipKeepsMigrate ==
  ASSUME Migrate!Parameters, MigrateSound, mpc \in {"write", "verify"}, Migrate!Skip,
         UNCHANGED <<proc, starts, snapshot, moved, round, reused>>
  PROVE  MigrateSound'
<1>0. KernelSound /\ ProgressSound /\ MovedSound /\ TrackedSound /\ moved \subseteq Pids /\ round \in 0 .. MaxRounds
      /\ state = "pending"
  BY DEF MigrateSound, KernelSound, Migrate!TypeOK, ProgressSound
<1>1. CASE moved = {} /\ Migrate!End("degraded")
  <2>1. mpc' = "done" /\ state' = "degraded" /\ todo' = {}
    BY <1>1 DEF Migrate!End
  <2>2. KernelSound'
    BY <1>0, <2>1, KernelFrame
  <2> QED
    BY <1>0, <2>1, <2>2 DEF MigrateSound, ProgressSound, MovedSound, ScanSound, TrackedSound
<1>2. CASE moved # {} /\ Migrate!GoOn(todo) /\ UNCHANGED state
  <2>1. mpc' \in {"list", "check"} /\ todo' = todo
    BY <1>2 DEF Migrate!GoOn
  <2>2. KernelSound'
    BY <1>0, <1>2, <2>1, KernelFrame
  <2>3. ProgressSound'
    BY <1>0, <1>2, <2>1 DEF ProgressSound
  <2> QED
    BY <1>0, <1>2, <2>1, <2>2, <2>3 DEF MigrateSound, MovedSound, ScanSound, TrackedSound
<1> QED
  BY <1>1, <1>2 DEF Migrate!Skip

LEMMA MoveKeepsMigrate ==
  ASSUME Migrate!Parameters, MigrateSound, Migrate!MovePID
  PROVE  MigrateSound'
<1>0. KernelSound /\ ProgressSound /\ MovedSound /\ TrackedSound /\ moved \subseteq Pids /\ round \in 0 .. MaxRounds
  BY DEF MigrateSound, KernelSound, Migrate!TypeOK
<1>1. mpc = "write" /\ UNCHANGED <<starts, snapshot, moved, round, reused>> /\ state = "pending"
  BY <1>0 DEF Migrate!MovePID, ProgressSound
<1>2. CASE cur.pid \in Migrate!Alive /\ proc' = [proc EXCEPT ![cur.pid].grouped = TRUE]
           /\ mpc' = "verify" /\ UNCHANGED <<todo, cur, state>>
  <2>1. proc \in [Pids -> [start : 0 .. MaxStarts, ppid : Pids \cup {0}, grouped : BOOLEAN]]
    BY <1>0 DEF KernelSound, Migrate!TypeOK
  <2>2. cur.pid \in Pids /\ proc[cur.pid].start # 0
    BY <1>0, <1>2, AliveMeansStarted
  <2>a. PICK p \in Pids : p = cur.pid
    BY <2>2
  <2>3. /\ proc'[p] \in [start : 0 .. MaxStarts, ppid : Pids \cup {0}, grouped : BOOLEAN]
        /\ proc'[p].start = proc[p].start /\ proc'[p].ppid = proc[p].ppid /\ proc'[p].grouped = TRUE
        /\ \A q \in Pids \ {p} : proc'[q] = proc[q]
    BY <1>2, <2>1, <2>a
  <2>4. proc' \in [Pids -> [start : 0 .. MaxStarts, ppid : Pids \cup {0}, grouped : BOOLEAN]]
    <3>1. \A q \in Pids : proc'[q] \in [start : 0 .. MaxStarts, ppid : Pids \cup {0}, grouped : BOOLEAN]
      BY <2>1, <2>3
    <3>2. proc' = [q \in Pids |-> proc'[q]]
      BY <1>2, <2>1
    <3> QED
      BY <3>1, <3>2
  <2>5. \A q \in Pids : /\ proc'[q].start = proc[q].start /\ proc'[q].ppid = proc[q].ppid
                        /\ proc[q].grouped => proc'[q].grouped
                        /\ proc[q].start = 0 => proc'[q] = proc[q]
    BY <2>2, <2>a, <2>3
  <2>6. KernelSound'
    <3>1. Migrate!TypeOK'
      BY <1>0, <1>1, <1>2, <2>4 DEF KernelSound, Migrate!TypeOK
    <3>2. ASSUME NEW q \in Pids
          PROVE  /\ proc'[q].start <= starts'
                 /\ proc'[q].start = 0 => proc'[q] = Migrate!Nobody
                 /\ proc'[q].start # 0 /\ proc'[q].ppid # 0 => proc'[proc'[q].ppid].start \in 1 .. proc'[q].start
      <4>1. proc[q].start # 0 /\ proc[q].ppid # 0 => proc[q].ppid \in Pids
        BY <1>0, KernelFacts
      <4>2. /\ proc[q].start <= starts
            /\ proc[q].start = 0 => proc[q] = Migrate!Nobody
            /\ proc[q].start # 0 /\ proc[q].ppid # 0 => proc[proc[q].ppid].start \in 1 .. proc[q].start
        BY <1>0 DEF KernelSound
      <4> QED
        BY <4>1, <4>2, <2>5, <1>1
    <3> QED
      BY <3>1, <3>2 DEF KernelSound
  <2>7. ProgressSound'
    BY <1>0, <1>1, <1>2 DEF ProgressSound
  <2>8. MovedSound'
    <3>1. Migrate!Main \in moved' /\ proc'[Migrate!Main].start = 1 => proc'[Migrate!Main].grouped
      BY <1>0, <1>1, <2>5 DEF MovedSound, Migrate!Parameters
    <3>2. proc'[cur'.pid].grouped
      BY <1>2, <2>3, <2>a
    <3>3. ~reused' => \A q \in moved' : proc'[q].start # 0 /\ ~proc'[q].grouped => proc'[q].ppid = 0
      BY <1>0, <1>1, <2>5 DEF MovedSound
    <3> QED
      BY <3>1, <3>2, <3>3 DEF MovedSound
  <2> QED
    BY <1>1, <1>2, <2>6, <2>7, <2>8 DEF MigrateSound, ScanSound, TrackedSound
<1>3. CASE Migrate!Skip /\ UNCHANGED proc
  BY <1>1, <1>3, SkipKeepsMigrate
<1> QED
  BY <1>2, <1>3 DEF Migrate!MovePID

LEMMA VerifyKeepsMigrate ==
  ASSUME Migrate!Parameters, MigrateSound, Migrate!Verify
  PROVE  MigrateSound'
<1>0. KernelSound /\ ProgressSound /\ MovedSound /\ TrackedSound /\ moved \subseteq Pids /\ round \in 0 .. MaxRounds
  BY DEF MigrateSound, KernelSound, Migrate!TypeOK
<1>1. mpc = "verify" /\ UNCHANGED <<proc, starts, snapshot, round, reused>> /\ state = "pending"
  BY <1>0 DEF Migrate!Verify, Migrate!kernel, ProgressSound
<1>2. CASE Migrate!Same(cur) /\ moved' = moved \cup {cur.pid} /\ Migrate!GoOn(todo) /\ UNCHANGED state
  <2>1. cur.pid \in Pids /\ cur.pid \in Migrate!Alive /\ proc[cur.pid].start = cur.start
    BY <1>0, <1>1, <1>2 DEF ProgressSound, Migrate!Same
  <2>2. proc[cur.pid].grouped
    BY <1>0, <1>1, <2>1 DEF MovedSound
  <2>3. mpc' \in {"list", "check"} /\ todo' = todo
    BY <1>2 DEF Migrate!GoOn
  <2>4. KernelSound'
    BY <1>0, <1>1, <1>2, <2>1, <2>3, KernelFrame
  <2>5. Migrate!Main \in moved'
    BY <1>0, <1>1, <1>2 DEF ProgressSound
  <2>6. ProgressSound'
    BY <1>0, <1>1, <1>2, <2>3, <2>5 DEF ProgressSound
  <2>7. MovedSound'
    <3>1. proc[Migrate!Main].start = 1 => proc[Migrate!Main].grouped
      <4>1. CASE Migrate!Main \in moved
        BY <4>1, <1>0 DEF MovedSound
      <4>2. CASE Migrate!Main \notin moved
        BY <4>2, <2>2, <2>5, <1>2
      <4> QED
        BY <4>1, <4>2
    <3>2. ~reused => \A q \in moved' : proc[q].start # 0 /\ ~proc[q].grouped => proc[q].ppid = 0
      BY <1>0, <1>2, <2>2 DEF MovedSound
    <3> QED
      BY <1>1, <2>3, <3>1, <3>2 DEF MovedSound
  <2> QED
    BY <1>1, <1>2, <2>3, <2>4, <2>6, <2>7 DEF MigrateSound, ScanSound, TrackedSound
<1>3. CASE Migrate!Skip /\ UNCHANGED moved
  BY <1>1, <1>3, SkipKeepsMigrate
<1> QED
  BY <1>2, <1>3 DEF Migrate!Verify

LEMMA DeadlineKeepsMigrate ==
  ASSUME Migrate!Parameters, MigrateSound, Migrate!DeadlinePasses
  PROVE  MigrateSound'
<1>0. KernelSound /\ ProgressSound /\ MovedSound /\ moved \subseteq Pids /\ round \in 0 .. MaxRounds
  BY DEF MigrateSound, KernelSound, Migrate!TypeOK
<1>1. UNCHANGED <<proc, starts, snapshot, moved, round, reused>>
  BY DEF Migrate!DeadlinePasses, Migrate!kernel
<1>2. mpc' = "done" /\ state' \in {"degraded", "partial"} /\ todo' = {}
  BY DEF Migrate!DeadlinePasses, Migrate!End
<1>3. KernelSound'
  BY <1>0, <1>1, <1>2, KernelFrame
<1> QED
  BY <1>0, <1>1, <1>2, <1>3 DEF MigrateSound, ProgressSound, MovedSound, ScanSound, TrackedSound

LEMMA FamilyMeansTracked ==
  ASSUME MigrateSound PROVE Migrate!TrackedIsComplete
<1> SUFFICES ASSUME state = "tracked", ~reused, proc[Migrate!Main].start = 1
    PROVE  /\ proc[Migrate!Main].grouped
           /\ \A d \in Migrate!Descendants(Migrate!Main, {[pid |-> p, ppid |-> proc[p].ppid] : p \in Migrate!Alive}) :
                proc[d.pid].grouped
  BY DEF Migrate!TrackedIsComplete
<1> DEFINE P == {[pid |-> p, ppid |-> proc[p].ppid] : p \in Migrate!Alive}
<1> PICK S \in SUBSET Pids : Family(S)
  BY DEF MigrateSound, TrackedSound
<1>1. \A p : p \in Migrate!Alive <=> p \in Pids /\ proc[p].start # 0
  BY AliveMeansStarted DEF MigrateSound
<1>2. S \subseteq {Migrate!Main} \cup {x.pid : x \in P}
  <2> SUFFICES ASSUME NEW p \in S PROVE p \in {x.pid : x \in P}
    OBVIOUS
  <2> DEFINE x == [pid |-> p, ppid |-> proc[p].ppid]
  <2>1. x \in P /\ x.pid = p
    BY <1>1 DEF Family
  <2> HIDE DEF P, x
  <2> QED
    BY <2>1
<1>3. Migrate!Main \in S /\ \A x \in P : x.ppid \in S => x.pid \in S
  BY <1>1 DEF Family
<1> HIDE DEF P
<1>4. \A d \in Migrate!Descendants(Migrate!Main, P) : d.pid \in S
  BY <1>2, <1>3 DEF Migrate!Descendants
<1>5. proc[Migrate!Main].grouped /\ \A d \in Migrate!Descendants(Migrate!Main, P) : proc[d.pid].grouped
  BY <1>3, <1>4 DEF Family
<1> QED
  BY <1>5 DEF P

LEMMA MigrateGoesOn ==
  ASSUME Migrate!Parameters, MigrateSound, [Migrate!Next]_(Migrate!vars)
  PROVE  MigrateSound'
<1>1. CASE Migrate!ListPIDs
  BY <1>1, ListKeepsMigrate
<1>2. CASE Migrate!Inspect
  BY <1>2, InspectKeepsMigrate
<1>3. CASE Migrate!Select
  BY <1>3, SelectKeepsMigrate
<1>4. CASE \E t \in todo : Migrate!Check(t)
  BY <1>4, CheckKeepsMigrate
<1>5. CASE Migrate!MovePID
  BY <1>5, MoveKeepsMigrate
<1>6. CASE Migrate!Verify
  BY <1>6, VerifyKeepsMigrate
<1>7. CASE Migrate!DeadlinePasses
  BY <1>7, DeadlineKeepsMigrate
<1>8. CASE \E p \in Pids \cup {0} : Migrate!Fork(p)
  BY <1>8, ForkKeepsMigrate
<1>9. CASE \E p \in Pids : Migrate!Exit(p)
  BY <1>9, ExitKeepsMigrate
<1>10. CASE UNCHANGED Migrate!vars
  BY <1>10 DEF Migrate!vars, Migrate!kernel, MigrateSound, KernelSound, Migrate!TypeOK, ProgressSound,
     MovedSound, Migrate!Alive, ScanSound, Seen, TrackedSound, Family
<1> QED
  BY <1>1, <1>2, <1>3, <1>4, <1>5, <1>6, <1>7, <1>8, <1>9, <1>10 DEF Migrate!Next, Migrate!Step

-----------------------------------------------------------------------------
(* EnablePlane. *)

PlaneSteps ==
  {"idle", "ensure", "source", "read", "write", "remove", "roots", "deps", "validate",
   "update", "up", "down", "persist", "stop"}
PlaneCommands ==
  [pc : PlaneSteps, action : {"none", "enable", "disable"}, owner : Owners \cup {"none"},
   live : BOOLEAN, read : SUBSET Owners, roots : [units : SUBSET Units, groups : SUBSET Groups]]
Databases == [owners : SUBSET Owners, deps : [Owners -> SUBSET Owners], ok : BOOLEAN]

Busy(c) == cmd[c].pc # "idle"
Doing(c, what, steps) == cmd[c].pc \in steps /\ cmd[c].action = what

\* Types, and which command is at which step.
StepsSound ==
  \A c \in Commands :
    /\ ~Busy(c) => cmd[c] = Idle
    /\ Busy(c) => cmd[c].owner \in Owners /\ cmd[c].action \in {"enable", "disable"}
    /\ cmd[c].pc \in {"ensure", "source", "up"} => cmd[c].action = "enable"
    /\ cmd[c].pc \in {"down", "remove", "stop"} => cmd[c].action = "disable"
    /\ cmd[c].pc \in {"update", "up"} => cmd[c].live
CommandsSound ==
  /\ TypeOK /\ cmd \in [Commands -> PlaneCommands] /\ StepsSound
  /\ compiled \in Databases /\ live \in Databases /\ api.read \subseteq Units
  /\ acked \in [Owners -> {"none", "enabled", "disabled", "stopped"}]
  /\ last \in Owners \cup {"none"}

\* A compiled database has what its members depend on.
Complete(db) == \A o \in db.owners : db.deps[o] \subseteq db.owners
DatabasesSound == Complete(compiled) /\ Complete(live)

(* What a command has done for its owner, which the others do not undo while *)
(* nothing has spoilt the sources: each owner has one command at a time.     *)
Changed == {"roots", "deps", "validate", "update", "up", "persist", "stop"}
Committed(c) ==
  LET o == cmd[c].owner
  IN  /\ Busy(c) => acked[o] = "none"
      /\ Doing(c, "enable", {"read", "write"}) => o \in Done
      /\ Doing(c, "enable", Changed) => o \in bundle
      /\ Doing(c, "disable", Changed \cup {"remove"}) => o \notin bundle
      /\ Doing(c, "disable", Changed) => o \notin Done
      /\ Doing(c, "disable", {"update", "persist", "stop"}) /\ cmd[c].live => o \notin compiled.owners
      /\ Doing(c, "disable", {"persist", "stop"}) /\ cmd[c].live => o \notin live.owners \cup up
      /\ cmd[c].pc = "stop" => o \notin enabled /\ initialized

\* What was announced, with what keeps a stopped orchestrator down.
Realised(o) ==
  /\ acked[o] = "enabled" => o \in bundle /\ o \in enabled
  /\ acked[o] \in {"disabled", "stopped"} => o \notin bundle /\ o \notin enabled
  /\ acked[o] = "stopped" => o \notin up \cup Done \cup compiled.owners \cup live.owners
  /\ acked[o] # "none" => initialized

OwnersSound ==
  ~spoilt =>
    /\ bundle \subseteq Done
    /\ \A c \in Commands : Committed(c)
    /\ \A b, c \in Commands : Busy(c) /\ cmd[b].owner = cmd[c].owner => b = c
    /\ \A o \in Owners : Realised(o)

\* Without overlaps the one command knows what the dependencies are.
Match == \A o \in ProjectedOwners(EnabledRoots) \cap Done : deps[o] = ProjectDependencies(EnabledRoots, o)
Matched == Compiles /\ Match
Matching(c) ==
  /\ cmd[c].pc = "deps" => cmd[c].roots = EnabledRoots
  /\ cmd[c].pc = "validate" => Match
  /\ cmd[c].pc \in {"update", "up", "persist"} => Matched
  /\ cmd[c].pc = "stop" /\ cmd[c].owner \in Units => Matched
MatchSound ==
  ~overlap =>
    /\ \A c \in Commands : Matching(c)
    /\ \A b, c \in Commands : Busy(b) /\ Busy(c) => b = c
    /\ last # "none" => \A c \in Commands : ~Busy(c)
    /\ last \in Units => Matched

PlaneSound == CommandsSound /\ DatabasesSound /\ OwnersSound /\ MatchSound

LEMMA GotoEffect ==
  ASSUME cmd \in [Commands -> PlaneCommands], NEW c \in Commands, NEW step \in PlaneSteps, Goto(c, step)
  PROVE  /\ cmd' \in [Commands -> PlaneCommands] /\ cmd'[c].pc = step
         /\ cmd'[c].action = cmd[c].action /\ cmd'[c].owner = cmd[c].owner /\ cmd'[c].live = cmd[c].live
         /\ \A b \in Commands \ {c} : cmd'[b] = cmd[b]
<1>1. cmd[c] \in PlaneCommands
  OBVIOUS
<1>2. /\ [cmd[c] EXCEPT !.pc = step] \in PlaneCommands /\ [cmd[c] EXCEPT !.pc = step].pc = step
      /\ [cmd[c] EXCEPT !.pc = step].action = cmd[c].action
      /\ [cmd[c] EXCEPT !.pc = step].owner = cmd[c].owner
      /\ [cmd[c] EXCEPT !.pc = step].live = cmd[c].live
  BY <1>1 DEF PlaneCommands
<1>3. cmd' = [cmd EXCEPT ![c] = [cmd[c] EXCEPT !.pc = step]]
  BY DEF Goto
<1> QED
  BY <1>2, <1>3

LEMMA EndEffect ==
  ASSUME cmd \in [Commands -> PlaneCommands], NEW c \in Commands, End(c)
  PROVE  /\ cmd' \in [Commands -> PlaneCommands] /\ cmd'[c] = Idle /\ ~Busy(c)'
         /\ cmd'[c].owner = "none"
         /\ \A b \in Commands \ {c} : cmd'[b] = cmd[b]
<1>1. Idle \in PlaneCommands
  BY DEF Idle, PlaneCommands, PlaneSteps, NoRoots
<1> QED
  BY <1>1 DEF End, Busy, Idle

\* A step of one command leaves the others where they are.
LEMMA StepsKept ==
  ASSUME StepsSound, NEW c \in Commands, \A b \in Commands \ {c} : cmd'[b] = cmd[b],
         \/ cmd'[c] = Idle
         \/ /\ Busy(c) /\ Busy(c)' /\ cmd'[c].owner \in Owners /\ cmd'[c].action \in {"enable", "disable"}
            /\ cmd'[c].pc \in {"ensure", "source", "up"} => cmd'[c].action = "enable"
            /\ cmd'[c].pc \in {"down", "remove", "stop"} => cmd'[c].action = "disable"
            /\ cmd'[c].pc \in {"update", "up"} => cmd'[c].live
  PROVE  StepsSound'
<1> SUFFICES ASSUME NEW b \in Commands
    PROVE  /\ ~Busy(b)' => cmd'[b] = Idle
           /\ Busy(b)' => cmd'[b].owner \in Owners /\ cmd'[b].action \in {"enable", "disable"}
           /\ cmd'[b].pc \in {"ensure", "source", "up"} => cmd'[b].action = "enable"
           /\ cmd'[b].pc \in {"down", "remove", "stop"} => cmd'[b].action = "disable"
           /\ cmd'[b].pc \in {"update", "up"} => cmd'[b].live
  BY DEF StepsSound
<1>1. CASE b = c
  BY <1>1 DEF Busy, Idle
<1>2. CASE b # c
  BY <1>2 DEF StepsSound, Busy
<1> QED
  BY <1>1, <1>2

(* What a step on one owner must leave alone of another, and the databases   *)
(* and the live state, in which others appear only from where they were.     *)
Untouched(o) ==
  /\ o \in bundle' <=> o \in bundle
  /\ dirs'[o] = dirs[o] /\ acked'[o] = acked[o]
  /\ o \in enabled' <=> o \in enabled
Follows ==
  /\ initialized => initialized'
  /\ compiled'.owners \subseteq compiled.owners \cup Done
  /\ live'.owners \subseteq live.owners \cup compiled.owners
  /\ up' \subseteq up \cup live.owners

LEMMA OthersKept ==
  ASSUME CommandsSound, NEW o \in Owners, Untouched(o), Follows, Realised(o)
  PROVE  /\ Realised(o)'
         /\ \A b \in Commands : cmd[b].owner = o /\ cmd'[b] = cmd[b] /\ Committed(b) => Committed(b)'
<1>1. o \in Done' <=> o \in Done
  BY DEF Done, Untouched
<1>2. Realised(o)'
  BY <1>1 DEF Realised, Untouched, Follows
<1>3. ASSUME NEW b \in Commands, cmd[b].owner = o, cmd'[b] = cmd[b], Committed(b)
      PROVE  Committed(b)'
  BY <1>1, <1>3 DEF Committed, Untouched, Follows, Busy, Doing, Changed
<1> QED
  BY <1>2, <1>3

LEMMA OwnersKept ==
  ASSUME Parameters, CommandsSound, OwnersSound, NEW c \in Commands, Busy(c), NEW w \in Owners, w = cmd[c].owner,
         \A b \in Commands \ {c} : cmd'[b] = cmd[b],
         cmd'[c] = Idle \/ (cmd'[c].owner = w /\ (~spoilt' => Committed(c)')),
         ~spoilt' => /\ ~spoilt /\ Follows /\ bundle' \subseteq Done'
                     /\ \A o \in Owners \ {w} : Untouched(o)
                     /\ acked' = acked \/ Realised(w)'
  PROVE  OwnersSound'
<1> SUFFICES ASSUME ~spoilt'
    PROVE  /\ bundle' \subseteq Done' /\ (\A b \in Commands : Committed(b)')
           /\ \A a, b \in Commands : Busy(b)' /\ cmd'[a].owner = cmd'[b].owner => a = b
           /\ \A o \in Owners : Realised(o)'
  BY DEF OwnersSound
<1>1. \A b \in Commands : cmd[b].owner \in Owners \/ cmd[b] = Idle
  BY DEF CommandsSound, StepsSound
<1>2. ASSUME NEW o \in Owners PROVE Realised(o)'
  <2>1. CASE o = w
    <3>1. acked[w] = "none"
      BY DEF OwnersSound, Committed
    <3>2. acked' = acked => Realised(w)'
      BY <3>1 DEF Realised
    <3> QED
      BY <2>1, <3>2
  <2>2. CASE o # w
    BY <2>2, OthersKept DEF OwnersSound
  <2> QED
    BY <2>1, <2>2
<1>3. ASSUME NEW b \in Commands, cmd'[b] = Idle PROVE Committed(b)'
  BY <1>3 DEF Committed, Idle, Busy, Doing, Changed
<1>4. ASSUME NEW b \in Commands \ {c} PROVE Committed(b)'
  <2>1. CASE cmd[b] = Idle
    BY <2>1, <1>3
  <2>2. CASE cmd[b].owner \in Owners
    <3>1. cmd[b].owner # w
      BY DEF OwnersSound
    <3> QED
      BY <2>2, <3>1, OthersKept DEF OwnersSound
  <2> QED
    BY <2>1, <2>2, <1>1
<1>5. \A b \in Commands : Committed(b)'
  BY <1>3, <1>4
<1>6. ASSUME NEW a \in Commands, NEW b \in Commands, Busy(b)', cmd'[a].owner = cmd'[b].owner PROVE a = b
  <2>1. b # c => cmd'[b] = cmd[b] /\ Busy(b)
    BY <1>6 DEF Busy
  <2>2. b = c => cmd'[b].owner = cmd[b].owner /\ Busy(b)
    BY <1>6 DEF Busy, Idle
  <2>3. CASE a # c \/ cmd'[c] # Idle
    <3>1. cmd'[a].owner = cmd[a].owner
      BY <2>3
    <3> QED
      BY <3>1, <2>1, <2>2, <1>6 DEF OwnersSound
  <2>4. CASE a = c /\ cmd'[c] = Idle
    <3>1. b # c /\ cmd[b].owner = "none" /\ Busy(b)
      BY <2>4, <2>1, <1>6 DEF Busy, Idle
    <3>2. cmd[b].owner \in Owners /\ "none" \notin Owners
      BY <3>1 DEF CommandsSound, StepsSound, Parameters
    <3> QED
      BY <3>1, <3>2
  <2> QED
    BY <2>3, <2>4
<1> QED
  BY <1>2, <1>5, <1>6

\* Who depends on whom is read from the sources and the enabled groups only.
LEMMA MatchFrame ==
  ASSUME UNCHANGED <<core, dirs, deps, bundle>>, enabled' \cap Groups = enabled \cap Groups
  PROVE  EnabledRoots' = EnabledRoots /\ (Match <=> Match') /\ (Compiles <=> Compiles')
<1>1. Done' = Done
  BY DEF Done
<1>2. EnabledRoots' = EnabledRoots
  BY <1>1 DEF EnabledRoots, StandaloneUnits
<1>3. Match <=> Match'
  BY <1>1, <1>2 DEF Match, ProjectedOwners, ProjectDependencies, OwnersOf
<1>4. Compiles <=> Compiles'
  BY <1>1 DEF Compiles, Below
<1> QED
  BY <1>2, <1>3, <1>4

LEMMA MatchKept ==
  ASSUME Parameters, CommandsSound, MatchSound, NEW c \in Commands, Busy(c), \A b \in Commands \ {c} : cmd'[b] = cmd[b],
         ~overlap' => /\ ~overlap /\ Matching(c)'
                      /\ last' = last \/ (~Busy(c)' /\ (last' \in Units => Matched'))
  PROVE  MatchSound'
<1> SUFFICES ASSUME ~overlap'
    PROVE  /\ \A b \in Commands : Matching(b)'
           /\ \A a, b \in Commands : Busy(a)' /\ Busy(b)' => a = b
           /\ last' # "none" => \A b \in Commands : ~Busy(b)'
           /\ last' \in Units => Matched'
  BY DEF MatchSound
<1>1. \A b \in Commands \ {c} : ~Busy(b) /\ ~Busy(b)'
  BY DEF MatchSound, Busy
<1>2. \A b \in Commands \ {c} : Matching(b)'
  BY <1>1 DEF Matching, Busy
<1>3. last = "none" /\ "none" \notin Units
  BY DEF MatchSound, Parameters, Owners
<1>4. \A b \in Commands : Busy(b)' => b = c
  BY <1>1
<1>5. last' # "none" => \A b \in Commands : ~Busy(b)'
  BY <1>1, <1>3
<1>6. last' \in Units => Matched'
  BY <1>3
<1> QED
  BY <1>2, <1>4, <1>5, <1>6

\* A step that changes neither the sources nor what is announced or enabled.
LEMMA OwnersQuiet ==
  ASSUME Parameters, CommandsSound, OwnersSound, NEW c \in Commands, Busy(c), NEW w \in Owners, w = cmd[c].owner,
         \A b \in Commands \ {c} : cmd'[b] = cmd[b],
         cmd'[c] = Idle \/ (cmd'[c].owner = w /\ (~spoilt => Committed(c)')),
         UNCHANGED <<dirs, bundle, enabled, initialized, acked, spoilt>>, Follows
  PROVE  OwnersSound'
<1>1. \A o \in Owners : Untouched(o)
  BY DEF Untouched
<1>2. ~spoilt => bundle' \subseteq Done'
  BY DEF OwnersSound, Done
<1> QED
  BY <1>1, <1>2, OwnersKept

LEMMA BusyOwner ==
  ASSUME CommandsSound, NEW c \in Commands, Busy(c)
  PROVE  /\ cmd[c].owner \in Owners /\ cmd[c].action \in {"enable", "disable"} /\ cmd[c] \in PlaneCommands
         /\ cmd \in [Commands -> PlaneCommands]
         /\ ~spoilt /\ OwnersSound => Committed(c) /\ bundle \subseteq Done
BY DEF CommandsSound, StepsSound, OwnersSound

LEMMA AbortKeepsPlane ==
  ASSUME Parameters, PlaneSound, NEW c \in Commands, Abort(c)
  PROVE  PlaneSound'
<1>0. CommandsSound /\ DatabasesSound /\ OwnersSound /\ MatchSound /\ cmd \in [Commands -> PlaneCommands]
  BY DEF PlaneSound, CommandsSound
<1>1. /\ UNCHANGED <<core, dirs, deps, bundle, compiled, live, up, running, enabled, initialized, api,
                     spoilt, overlap, last, acked>>
      /\ End(c) /\ Busy(c)
  BY <1>0 DEF Abort, sources, s6, propertyd, ghosts, announced, CommandsSound, StepsSound
<1>2. PICK w \in Owners : w = cmd[c].owner
  BY <1>0, <1>1, BusyOwner
<1>3. /\ cmd' \in [Commands -> PlaneCommands] /\ cmd'[c] = Idle /\ ~Busy(c)'
      /\ \A b \in Commands \ {c} : cmd'[b] = cmd[b]
  BY <1>0, <1>1, EndEffect
<1>4. CommandsSound'
  BY <1>0, <1>1, <1>3, StepsKept DEF CommandsSound, TypeOK
<1>5. OwnersSound'
  BY <1>0, <1>1, <1>2, <1>3, OwnersQuiet DEF Follows
<1>6. MatchSound'
  BY <1>0, <1>1, <1>3, MatchKept DEF Matching, Busy
<1> QED
  BY <1>0, <1>1, <1>4, <1>5, <1>6 DEF PlaneSound, DatabasesSound

LEMMA EnsureKeepsPlane ==
  ASSUME Parameters, PlaneSound, NEW c \in Commands, EnsureS6Bundle(c)
  PROVE  PlaneSound'
<1>0. CommandsSound /\ DatabasesSound /\ OwnersSound /\ MatchSound /\ cmd \in [Commands -> PlaneCommands]
  BY DEF PlaneSound, CommandsSound
<1>1. /\ UNCHANGED <<dirs, deps, bundle, compiled, live, up, running, enabled, initialized, api,
                     spoilt, overlap, last, acked>>
      /\ cmd[c].pc = "ensure" /\ Busy(c) /\ (Goto(c, "source") \/ End(c)) /\ core' \in {"none", "partial", "done"}
  BY <1>0 DEF EnsureS6Bundle, At, Busy, s6, propertyd, ghosts, announced, CommandsSound, TypeOK
<1>2. PICK w \in Owners : w = cmd[c].owner
  BY <1>0, <1>1, BusyOwner
<1>3. CASE Goto(c, "source")
  <2>1. /\ cmd' \in [Commands -> PlaneCommands] /\ cmd'[c].pc = "source"
        /\ cmd'[c].action = cmd[c].action /\ cmd'[c].owner = w
        /\ \A b \in Commands \ {c} : cmd'[b] = cmd[b]
    BY <1>0, <1>2, <1>3, GotoEffect DEF PlaneSteps
  <2>2. cmd[c].action = "enable"
    BY <1>0, <1>1 DEF CommandsSound, StepsSound
  <2>3. StepsSound'
    BY <1>0, <1>1, <2>1, <2>2, StepsKept DEF CommandsSound, Busy
  <2>4. CommandsSound'
    BY <1>0, <1>1, <2>1, <2>3 DEF CommandsSound, TypeOK
  <2>5. ~spoilt => Committed(c)'
    BY <1>0, <1>1, <1>2, <2>1, BusyOwner DEF Committed, Doing, Changed
  <2>6. OwnersSound'
    BY <1>0, <1>1, <1>2, <2>1, <2>5, OwnersQuiet DEF Follows
  <2>7. MatchSound'
    BY <1>0, <1>1, <2>1, MatchKept DEF Matching
  <2> QED
    BY <1>0, <1>1, <2>4, <2>6, <2>7 DEF PlaneSound, DatabasesSound
<1>4. CASE End(c)
  <2>1. /\ cmd' \in [Commands -> PlaneCommands] /\ cmd'[c] = Idle /\ ~Busy(c)'
        /\ \A b \in Commands \ {c} : cmd'[b] = cmd[b]
    BY <1>0, <1>4, EndEffect
  <2>2. CommandsSound'
    BY <1>0, <1>1, <2>1, StepsKept DEF CommandsSound, TypeOK
  <2>3. OwnersSound'
    BY <1>0, <1>1, <1>2, <2>1, OwnersQuiet DEF Follows
  <2>4. MatchSound'
    BY <1>0, <1>1, <2>1, MatchKept DEF Matching, Busy
  <2> QED
    BY <1>0, <1>1, <2>2, <2>3, <2>4 DEF PlaneSound, DatabasesSound
<1> QED
  BY <1>1, <1>3, <1>4

LEMMA WriteSourceKeepsPlane ==
  ASSUME Parameters, PlaneSound, NEW c \in Commands, WriteSource(c)
  PROVE  PlaneSound'
<1>0. CommandsSound /\ DatabasesSound /\ OwnersSound /\ MatchSound /\ cmd \in [Commands -> PlaneCommands]
      /\ dirs \in [Owners -> {"none", "partial", "done"}] /\ deps \in [Owners -> SUBSET Owners]
  BY DEF PlaneSound, CommandsSound, TypeOK
<1>1. /\ UNCHANGED <<core, bundle, compiled, live, up, running, enabled, initialized, api, overlap, last, acked>>
      /\ cmd[c].pc = "source" /\ Busy(c)
  BY DEF WriteSource, At, Busy, s6, propertyd, announced
<1>2. PICK w \in Owners : w = cmd[c].owner
  BY <1>0, <1>1, BusyOwner
<1>a. cmd[c].action = "enable" /\ (~spoilt => Committed(c) /\ bundle \subseteq Done)
  BY <1>0, <1>1, BusyOwner DEF CommandsSound, StepsSound
<1>3. CASE /\ dirs' = [dirs EXCEPT ![w] = "done"] /\ deps' = [deps EXCEPT ![w] = {}]
           /\ Goto(c, "read") /\ UNCHANGED spoilt
  <2>1. /\ cmd' \in [Commands -> PlaneCommands] /\ cmd'[c].pc = "read"
        /\ cmd'[c].action = "enable" /\ cmd'[c].owner = w
        /\ \A b \in Commands \ {c} : cmd'[b] = cmd[b]
    BY <1>0, <1>2, <1>3, <1>a, GotoEffect DEF PlaneSteps
  <2>2. StepsSound'
    BY <1>0, <1>1, <2>1, StepsKept DEF CommandsSound, Busy
  <2>3. dirs' \in [Owners -> {"none", "partial", "done"}] /\ deps' \in [Owners -> SUBSET Owners]
    BY <1>0, <1>3
  <2>4. CommandsSound'
    BY <1>0, <1>1, <2>1, <2>2, <2>3 DEF CommandsSound, TypeOK
  <2>5. Done' = Done \cup {w} /\ \A o \in Owners \ {w} : dirs'[o] = dirs[o]
    BY <1>0, <1>3 DEF Done
  <2>6. ~spoilt => Committed(c)'
    BY <1>1, <1>2, <1>a, <2>1, <2>5 DEF Committed, Doing, Changed, Busy
  <2>7. \A o \in Owners \ {w} : Untouched(o)
    BY <1>1, <2>5 DEF Untouched
  <2>8. OwnersSound'
    BY <1>0, <1>1, <1>2, <1>3, <1>a, <2>1, <2>5, <2>6, <2>7, OwnersKept DEF Follows
  <2>9. MatchSound'
    BY <1>0, <1>1, <2>1, MatchKept DEF Matching
  <2> QED
    BY <1>0, <1>1, <2>4, <2>8, <2>9 DEF PlaneSound, DatabasesSound
<1>4. CASE /\ dirs' = [dirs EXCEPT ![w] = "partial"] /\ spoilt' = (spoilt \/ w \in bundle)
           /\ End(c) /\ UNCHANGED deps
  <2>1. /\ cmd' \in [Commands -> PlaneCommands] /\ cmd'[c] = Idle /\ ~Busy(c)'
        /\ \A b \in Commands \ {c} : cmd'[b] = cmd[b]
    BY <1>0, <1>4, EndEffect
  <2>2. dirs' \in [Owners -> {"none", "partial", "done"}]
    BY <1>0, <1>4
  <2>3. CommandsSound'
    BY <1>0, <1>1, <1>4, <2>1, <2>2, StepsKept DEF CommandsSound, TypeOK
  <2>4. Done' = Done \ {w} /\ \A o \in Owners \ {w} : dirs'[o] = dirs[o]
    BY <1>0, <1>4 DEF Done
  <2>5. \A o \in Owners \ {w} : Untouched(o)
    BY <1>1, <2>4 DEF Untouched
  <2>a. ~spoilt' => ~spoilt /\ w \notin bundle
    BY <1>4
  <2>b. Follows /\ (~spoilt' => bundle' \subseteq Done')
    BY <1>1, <1>a, <2>a, <2>4 DEF Follows
  <2>6. OwnersSound'
    BY <1>0, <1>1, <1>2, <2>a, <2>b, <2>1, <2>5, OwnersKept
  <2>7. MatchSound'
    BY <1>0, <1>1, <2>1, MatchKept DEF Matching, Busy
  <2> QED
    BY <1>0, <1>1, <2>3, <2>6, <2>7 DEF PlaneSound, DatabasesSound
<1> QED
  BY <1>2, <1>3, <1>4 DEF WriteSource

LEMMA ReadBundleKeepsPlane ==
  ASSUME Parameters, PlaneSound, NEW c \in Commands, ReadBundle(c)
  PROVE  PlaneSound'
<1>0. CommandsSound /\ DatabasesSound /\ OwnersSound /\ MatchSound /\ cmd \in [Commands -> PlaneCommands]
      /\ bundle \subseteq Owners
  BY DEF PlaneSound, CommandsSound, TypeOK
<1>1. /\ UNCHANGED <<core, dirs, deps, bundle, compiled, live, up, running, enabled, initialized, api,
                     spoilt, overlap, last, acked>>
      /\ cmd[c].pc = "read" /\ Busy(c) /\ cmd' = [cmd EXCEPT ![c].pc = "write", ![c].read = bundle]
  BY DEF ReadBundle, At, Busy, sources, s6, propertyd, ghosts, announced
<1>2. PICK w \in Owners : w = cmd[c].owner
  BY <1>0, <1>1, BusyOwner
<1>3. /\ cmd' \in [Commands -> PlaneCommands] /\ cmd'[c].pc = "write"
      /\ cmd'[c].action = cmd[c].action /\ cmd'[c].owner = w
      /\ \A b \in Commands \ {c} : cmd'[b] = cmd[b]
  <2>1. PICK x : x = [cmd[c] EXCEPT !.pc = "write", !.read = bundle]
    OBVIOUS
  <2>2. x \in PlaneCommands /\ x.pc = "write" /\ x.action = cmd[c].action /\ x.owner = cmd[c].owner
    BY <1>0, <2>1, ZenonT(40) DEF PlaneCommands, PlaneSteps
  <2>3. cmd' = [cmd EXCEPT ![c] = x]
    BY <1>1, <2>1
  <2> QED
    BY <1>0, <1>2, <2>2, <2>3
<1>4. CommandsSound'
  <2>1. StepsSound'
    BY <1>0, <1>1, <1>3, BusyOwner, StepsKept DEF CommandsSound, Busy
  <2> QED
    BY <1>0, <1>1, <1>3, <2>1 DEF CommandsSound, TypeOK
<1>5. ~spoilt => Committed(c)'
  BY <1>0, <1>1, <1>2, <1>3, BusyOwner DEF Committed, Doing, Changed, Done
<1>6. OwnersSound'
  BY <1>0, <1>1, <1>2, <1>3, <1>5, OwnersQuiet DEF Follows
<1>7. MatchSound'
  BY <1>0, <1>1, <1>3, MatchKept DEF Matching
<1> QED
  BY <1>0, <1>1, <1>4, <1>6, <1>7 DEF PlaneSound, DatabasesSound

LEMMA WriteBundleKeepsPlane ==
  ASSUME Parameters, PlaneSound, NEW c \in Commands, WriteBundle(c)
  PROVE  PlaneSound'
<1>0. CommandsSound /\ DatabasesSound /\ OwnersSound /\ MatchSound /\ cmd \in [Commands -> PlaneCommands]
      /\ bundle \subseteq Owners
  BY DEF PlaneSound, CommandsSound, TypeOK
<1>1. /\ UNCHANGED <<core, dirs, deps, compiled, live, up, running, enabled, initialized, api,
                     overlap, last, acked>>
      /\ cmd[c].pc = "write" /\ Busy(c)
  BY DEF WriteBundle, At, Busy, s6, propertyd, announced
<1>2. PICK w \in Owners : w = cmd[c].owner
  BY <1>0, <1>1, BusyOwner
<1>a. /\ cmd[c].action \in {"enable", "disable"} /\ cmd[c].read \subseteq Owners
      /\ ~spoilt => Committed(c) /\ bundle \subseteq Done
  BY <1>0, <1>1, BusyOwner DEF PlaneCommands
<1>3. CASE /\ bundle' = IF cmd[c].action = "enable" THEN cmd[c].read \cup {w} ELSE cmd[c].read \ {w}
           /\ cmd' = [cmd EXCEPT ![c].pc = IF cmd[c].action = "enable" THEN "roots" ELSE "remove", ![c].read = {}]
           /\ spoilt' = (spoilt \/ bundle # cmd[c].read)
  <2>1. /\ cmd' \in [Commands -> PlaneCommands]
        /\ cmd'[c].pc = IF cmd[c].action = "enable" THEN "roots" ELSE "remove"
        /\ cmd'[c].action = cmd[c].action /\ cmd'[c].owner = w
        /\ \A b \in Commands \ {c} : cmd'[b] = cmd[b]
    <3>0. PICK s \in {"roots", "remove"} : s = IF cmd[c].action = "enable" THEN "roots" ELSE "remove"
      OBVIOUS
    <3>1. PICK x : x = [cmd[c] EXCEPT !.pc = s, !.read = {}]
      OBVIOUS
    <3>a. s \in PlaneSteps /\ cmd[c] \in PlaneCommands
      BY <1>0, <3>0 DEF PlaneSteps
    <3>2. x \in PlaneCommands /\ x.pc = s /\ x.action = cmd[c].action /\ x.owner = cmd[c].owner
      BY <3>a, <3>1 DEF PlaneCommands
    <3>3. cmd' = [cmd EXCEPT ![c] = x]
      BY <1>3, <3>0, <3>1
    <3> QED
      BY <1>0, <1>2, <3>0, <3>2, <3>3
  <2>2. StepsSound'
    BY <1>0, <1>1, <1>a, <2>1, StepsKept DEF CommandsSound, Busy
  <2>3. CommandsSound'
    BY <1>0, <1>1, <1>3, <1>a, <2>1, <2>2 DEF CommandsSound, TypeOK
  <2>4. ~spoilt' => ~spoilt /\ bundle = cmd[c].read
    BY <1>3
  <2>5. ~spoilt' => bundle' \subseteq Done' /\ Committed(c)'
    <3>1. ~spoilt' /\ cmd[c].action = "enable" => w \in Done /\ bundle' = bundle \cup {w}
      BY <1>1, <1>2, <1>3, <1>a, <2>4 DEF Committed, Doing
    <3>2. ~spoilt' /\ cmd[c].action = "disable" => bundle' = bundle \ {w}
      BY <1>3, <2>4
    <3>3. Done' = Done
      BY <1>1 DEF Done
    <3>4. ~spoilt => acked'[w] = "none"
      BY <1>1, <1>2, <1>a DEF Committed
    <3> QED
      BY <1>a, <2>1, <2>4, <3>1, <3>2, <3>3, <3>4 DEF Committed, Doing, Changed
  <2>6. ~spoilt' => \A o \in Owners \ {w} : Untouched(o)
    BY <1>1, <1>3, <2>4 DEF Untouched
  <2>7. Follows
    BY <1>1 DEF Follows
  <2>8. OwnersSound'
    BY <1>0, <1>1, <1>2, <2>1, <2>4, <2>5, <2>6, <2>7, OwnersKept
  <2>9. MatchSound'
    BY <1>0, <1>1, <2>1, MatchKept DEF Matching
  <2> QED
    BY <1>0, <1>1, <2>3, <2>8, <2>9 DEF PlaneSound, DatabasesSound
<1>4. CASE End(c) /\ bundle' \in {bundle, {}} /\ ((bundle' = bundle /\ spoilt' = spoilt) \/ spoilt')
  <2>1. /\ cmd' \in [Commands -> PlaneCommands] /\ cmd'[c] = Idle /\ ~Busy(c)'
        /\ \A b \in Commands \ {c} : cmd'[b] = cmd[b]
    BY <1>0, <1>4, EndEffect
  <2>2. CommandsSound'
    BY <1>0, <1>1, <1>4, <2>1, StepsKept DEF CommandsSound, TypeOK
  <2>3. Follows
    BY <1>1 DEF Follows
  <2>4. ~spoilt' => ~spoilt /\ bundle' \subseteq Done' /\ \A o \in Owners \ {w} : Untouched(o)
    BY <1>1, <1>4, <1>a DEF Untouched, Done
  <2>5. OwnersSound'
    BY <1>0, <1>1, <1>2, <2>1, <2>3, <2>4, OwnersKept
  <2>6. MatchSound'
    BY <1>0, <1>1, <2>1, MatchKept DEF Matching, Busy
  <2> QED
    BY <1>0, <1>1, <2>2, <2>5, <2>6 DEF PlaneSound, DatabasesSound
<1> QED
  BY <1>2, <1>3, <1>4 DEF WriteBundle

LEMMA RemoveSourceKeepsPlane ==
  ASSUME Parameters, PlaneSound, NEW c \in Commands, RemoveSource(c)
  PROVE  PlaneSound'
<1>0. CommandsSound /\ DatabasesSound /\ OwnersSound /\ MatchSound /\ cmd \in [Commands -> PlaneCommands]
      /\ dirs \in [Owners -> {"none", "partial", "done"}] /\ deps \in [Owners -> SUBSET Owners]
  BY DEF PlaneSound, CommandsSound, TypeOK
<1>1. /\ UNCHANGED <<core, bundle, compiled, live, up, running, enabled, initialized, api,
                     spoilt, overlap, last, acked>>
      /\ cmd[c].pc = "remove" /\ Busy(c) /\ Goto(c, "roots")
  BY DEF RemoveSource, At, Busy, s6, propertyd, ghosts, announced
<1>2. PICK w \in Owners : w = cmd[c].owner
  BY <1>0, <1>1, BusyOwner
<1>a. cmd[c].action = "disable" /\ (~spoilt => Committed(c) /\ bundle \subseteq Done)
  BY <1>0, <1>1, BusyOwner DEF CommandsSound, StepsSound
<1>b. dirs' = [dirs EXCEPT ![w] = "none"] /\ deps' = [deps EXCEPT ![w] = {}]
  BY <1>2 DEF RemoveSource
<1>3. /\ cmd' \in [Commands -> PlaneCommands] /\ cmd'[c].pc = "roots"
      /\ cmd'[c].action = "disable" /\ cmd'[c].owner = w
      /\ \A b \in Commands \ {c} : cmd'[b] = cmd[b]
  BY <1>0, <1>1, <1>2, <1>a, GotoEffect DEF PlaneSteps
<1>4. CommandsSound'
  <2>1. StepsSound'
    BY <1>0, <1>1, <1>3, StepsKept DEF CommandsSound, Busy
  <2>2. dirs' \in [Owners -> {"none", "partial", "done"}] /\ deps' \in [Owners -> SUBSET Owners]
    BY <1>0, <1>b
  <2> QED
    BY <1>0, <1>1, <1>3, <2>1, <2>2 DEF CommandsSound, TypeOK
<1>5. Done' = Done \ {w} /\ \A o \in Owners \ {w} : dirs'[o] = dirs[o]
  BY <1>0, <1>b DEF Done
<1>6. ~spoilt => w \notin bundle /\ acked[w] = "none"
  BY <1>1, <1>2, <1>a DEF Committed, Doing
<1>7. ~spoilt => Committed(c)' /\ bundle' \subseteq Done'
  BY <1>1, <1>a, <1>3, <1>5, <1>6 DEF Committed, Doing, Changed
<1>8. Follows /\ \A o \in Owners \ {w} : Untouched(o)
  BY <1>1, <1>5 DEF Follows, Untouched
<1>9. OwnersSound'
  BY <1>0, <1>1, <1>2, <1>3, <1>7, <1>8, OwnersKept
<1>10. MatchSound'
  BY <1>0, <1>1, <1>3, MatchKept DEF Matching
<1> QED
  BY <1>0, <1>1, <1>4, <1>9, <1>10 DEF PlaneSound, DatabasesSound

LEMMA ReadRootsKeepsPlane ==
  ASSUME Parameters, PlaneSound, NEW c \in Commands, ReadRoots(c)
  PROVE  PlaneSound'
<1>0. CommandsSound /\ DatabasesSound /\ OwnersSound /\ MatchSound /\ cmd \in [Commands -> PlaneCommands]
  BY DEF PlaneSound, CommandsSound
<1>1. /\ UNCHANGED <<core, dirs, deps, bundle, compiled, live, up, running, enabled, initialized, api,
                     spoilt, overlap, last, acked>>
      /\ cmd[c].pc = "roots" /\ Busy(c) /\ cmd' = [cmd EXCEPT ![c].pc = "deps", ![c].roots = EnabledRoots]
  BY DEF ReadRoots, At, Busy, sources, s6, propertyd, ghosts, announced
<1>2. PICK w \in Owners : w = cmd[c].owner
  BY <1>0, <1>1, BusyOwner
<1>3. /\ cmd' \in [Commands -> PlaneCommands] /\ cmd'[c].pc = "deps" /\ cmd'[c].roots = EnabledRoots
      /\ cmd'[c].action = cmd[c].action /\ cmd'[c].owner = w
      /\ \A b \in Commands \ {c} : cmd'[b] = cmd[b]
  <2>1. PICK r : r = EnabledRoots
    OBVIOUS
  <2>2. r \in [units : SUBSET Units, groups : SUBSET Groups]
    BY <2>1 DEF EnabledRoots, StandaloneUnits
  <2>3. PICK x : x = [cmd[c] EXCEPT !.pc = "deps", !.roots = r]
    OBVIOUS
  <2>a. "deps" \in PlaneSteps /\ cmd[c] \in PlaneCommands
    BY <1>0 DEF PlaneSteps
  <2>4. x \in PlaneCommands /\ x.pc = "deps" /\ x.action = cmd[c].action /\ x.owner = cmd[c].owner /\ x.roots = r
    BY <2>a, <2>2, <2>3 DEF PlaneCommands
  <2>5. cmd' = [cmd EXCEPT ![c] = x]
    BY <1>1, <2>1, <2>3
  <2> QED
    BY <1>0, <1>2, <2>1, <2>4, <2>5
<1>4. CommandsSound'
  <2>1. StepsSound'
    BY <1>0, <1>1, <1>3, BusyOwner, StepsKept DEF CommandsSound, Busy
  <2> QED
    BY <1>0, <1>1, <1>3, <2>1 DEF CommandsSound, TypeOK
<1>5. ~spoilt => Committed(c)'
  BY <1>0, <1>1, <1>2, <1>3, BusyOwner DEF Committed, Doing, Changed, Done
<1>6. OwnersSound'
  BY <1>0, <1>1, <1>2, <1>3, <1>5, OwnersQuiet DEF Follows
<1>7. EnabledRoots' = EnabledRoots
  BY <1>1, MatchFrame
<1>8. MatchSound'
  BY <1>0, <1>1, <1>3, <1>7, MatchKept DEF Matching
<1> QED
  BY <1>0, <1>1, <1>4, <1>6, <1>8 DEF PlaneSound, DatabasesSound

LEMMA ProjectTypes ==
  ASSUME NEW roots \in [units : SUBSET Units, groups : SUBSET Groups], NEW o
  PROVE  ProjectDependencies(roots, o) \subseteq Owners
<1>1. \A u : OwnersOf(roots, u) \subseteq Owners
  BY DEF OwnersOf, Owners
<1> QED
  BY <1>1 DEF ProjectDependencies

LEMMA WriteDepsKeepsPlane ==
  ASSUME Parameters, PlaneSound, NEW c \in Commands, WriteDeps(c)
  PROVE  PlaneSound'
<1>0. CommandsSound /\ DatabasesSound /\ OwnersSound /\ MatchSound /\ cmd \in [Commands -> PlaneCommands]
      /\ deps \in [Owners -> SUBSET Owners]
  BY DEF PlaneSound, CommandsSound, TypeOK
<1>1. /\ UNCHANGED <<core, dirs, bundle, compiled, live, up, running, enabled, initialized, api,
                     spoilt, overlap, last, acked>>
      /\ cmd[c].pc = "deps" /\ Busy(c) /\ cmd' = [cmd EXCEPT ![c].pc = "validate", ![c].roots = NoRoots]
  BY DEF WriteDeps, At, Busy, s6, propertyd, ghosts, announced
<1>a. PICK roots \in [units : SUBSET Units, groups : SUBSET Groups] : roots = cmd[c].roots
  BY <1>0 DEF PlaneCommands
<1>b. deps' = [o \in Owners |-> IF o \in ProjectedOwners(roots) \cap Done
                                THEN ProjectDependencies(roots, o) ELSE deps[o]]
  BY <1>a DEF WriteDeps
<1>2. PICK w \in Owners : w = cmd[c].owner
  BY <1>0, <1>1, BusyOwner
<1>3. /\ cmd' \in [Commands -> PlaneCommands] /\ cmd'[c].pc = "validate"
      /\ cmd'[c].action = cmd[c].action /\ cmd'[c].owner = w
      /\ \A b \in Commands \ {c} : cmd'[b] = cmd[b]
  <2>1. PICK r : r = NoRoots
    OBVIOUS
  <2>2. r \in [units : SUBSET Units, groups : SUBSET Groups]
    BY <2>1 DEF NoRoots
  <2>3. PICK x : x = [cmd[c] EXCEPT !.pc = "validate", !.roots = r]
    OBVIOUS
  <2>4. x \in PlaneCommands /\ x.pc = "validate" /\ x.action = cmd[c].action /\ x.owner = cmd[c].owner
    BY <1>0, <2>2, <2>3, ZenonT(40) DEF PlaneCommands, PlaneSteps
  <2>5. cmd' = [cmd EXCEPT ![c] = x]
    BY <1>1, <2>1, <2>3
  <2> QED
    BY <1>0, <1>2, <2>4, <2>5
<1>4. CommandsSound'
  <2>1. StepsSound'
    BY <1>0, <1>1, <1>3, BusyOwner, StepsKept DEF CommandsSound, Busy
  <2>2. \A o \in Owners : ProjectDependencies(roots, o) \in SUBSET Owners
    BY ProjectTypes
  <2>3. deps' \in [Owners -> SUBSET Owners]
    BY <1>0, <1>b, <2>2
  <2> QED
    BY <1>0, <1>1, <1>3, <2>1, <2>3 DEF CommandsSound, TypeOK
<1>5. ~spoilt => Committed(c)'
  BY <1>0, <1>1, <1>2, <1>3, BusyOwner DEF Committed, Doing, Changed, Done
<1>6. OwnersSound'
  BY <1>0, <1>1, <1>2, <1>3, <1>5, OwnersQuiet DEF Follows
<1>7. ~overlap => Match'
  <2> SUFFICES ASSUME ~overlap PROVE Match'
    OBVIOUS
  <2>1. roots = EnabledRoots
    BY <1>0, <1>1, <1>a DEF MatchSound, Matching
  <2>2. EnabledRoots' = roots /\ Done' = Done
    BY <1>1, <2>1 DEF EnabledRoots, StandaloneUnits, Done
  <2>3. Done \subseteq Owners
    BY DEF Done
  <2>4. \A o \in ProjectedOwners(roots) \cap Done : deps'[o] = ProjectDependencies(roots, o)
    BY <1>b, <2>3
  <2>5. Match' <=> \A o \in ProjectedOwners(roots) \cap Done : deps'[o] = ProjectDependencies(roots, o)
    BY <2>2 DEF Match, ProjectedOwners, ProjectDependencies, OwnersOf
  <2> QED
    BY <2>4, <2>5
<1>8. MatchSound'
  BY <1>0, <1>1, <1>3, <1>7, MatchKept DEF Matching
<1> QED
  BY <1>0, <1>1, <1>4, <1>6, <1>8 DEF PlaneSound, DatabasesSound

LEMMA ValidateKeepsPlane ==
  ASSUME Parameters, PlaneSound, NEW c \in Commands, ValidateS6Sources(c)
  PROVE  PlaneSound'
<1>0. CommandsSound /\ DatabasesSound /\ OwnersSound /\ MatchSound /\ cmd \in [Commands -> PlaneCommands]
      /\ deps \in [Owners -> SUBSET Owners]
  BY DEF PlaneSound, CommandsSound, TypeOK
<1>1. /\ UNCHANGED <<core, dirs, deps, bundle, live, up, running, enabled, initialized, api,
                     spoilt, overlap, last, acked>>
      /\ cmd[c].pc = "validate" /\ Busy(c)
  BY DEF ValidateS6Sources, At, Busy, sources, propertyd, ghosts, announced
<1>2. PICK w \in Owners : w = cmd[c].owner
  BY <1>0, <1>1, BusyOwner
<1>3. CASE /\ Compiles /\ compiled' = [owners |-> Done, deps |-> deps, ok |-> TRUE]
           /\ Goto(c, IF cmd[c].live THEN "update" ELSE "persist")
  <2>0. compiled' \in Databases /\ compiled'.owners = Done /\ Complete(compiled)'
    <3>1. Done \in SUBSET Owners /\ \A o \in Done : deps[o] \subseteq Done
      BY <1>3 DEF Done, Compiles
    <3> QED
      BY <1>0, <1>3, <3>1 DEF Databases, Complete
  <2>1. /\ cmd' \in [Commands -> PlaneCommands] /\ cmd'[c].pc = IF cmd[c].live THEN "update" ELSE "persist"
        /\ cmd'[c].action = cmd[c].action /\ cmd'[c].owner = w /\ cmd'[c].live = cmd[c].live
        /\ \A b \in Commands \ {c} : cmd'[b] = cmd[b]
    <3>1. PICK s \in PlaneSteps : s = IF cmd[c].live THEN "update" ELSE "persist"
      BY DEF PlaneSteps
    <3> QED
      BY <1>0, <1>2, <1>3, <3>1, GotoEffect
  <2>2. StepsSound'
    BY <1>0, <1>1, <2>1, BusyOwner, StepsKept DEF CommandsSound, Busy
  <2>3. CommandsSound'
    BY <1>0, <1>1, <2>0, <2>1, <2>2 DEF CommandsSound, TypeOK
  <2>4. ~spoilt => Committed(c)'
    BY <1>0, <1>1, <1>2, <2>0, <2>1, BusyOwner DEF Committed, Doing, Changed, Done
  <2>5. Follows
    BY <1>1, <2>0 DEF Follows
  <2>6. OwnersSound'
    BY <1>0, <1>1, <1>2, <2>1, <2>4, <2>5, OwnersQuiet
  <2>7. ~overlap => Matched'
    BY <1>0, <1>1, <1>3, MatchFrame DEF MatchSound, Matching, Matched
  <2>8. MatchSound'
    BY <1>0, <1>1, <2>1, <2>7, MatchKept DEF Matching
  <2> QED
    BY <1>0, <1>1, <2>0, <2>3, <2>6, <2>8 DEF PlaneSound, DatabasesSound, Complete
<1>4. CASE compiled' = NoDatabase /\ End(c)
  <2>0. compiled' \in Databases /\ compiled'.owners = {}
    BY <1>4 DEF NoDatabase, Databases
  <2>1. /\ cmd' \in [Commands -> PlaneCommands] /\ cmd'[c] = Idle /\ ~Busy(c)'
        /\ \A b \in Commands \ {c} : cmd'[b] = cmd[b]
    BY <1>0, <1>4, EndEffect
  <2>2. CommandsSound'
    BY <1>0, <1>1, <2>0, <2>1, StepsKept DEF CommandsSound, TypeOK
  <2>3. Follows
    BY <1>1, <2>0 DEF Follows
  <2>4. OwnersSound'
    BY <1>0, <1>1, <1>2, <2>1, <2>3, OwnersQuiet
  <2>5. MatchSound'
    BY <1>0, <1>1, <2>1, MatchKept DEF Matching, Busy
  <2> QED
    BY <1>0, <1>1, <2>0, <2>2, <2>4, <2>5 DEF PlaneSound, DatabasesSound, Complete
<1> QED
  BY <1>3, <1>4 DEF ValidateS6Sources

LEMMA LiveUpdateKeepsPlane ==
  ASSUME Parameters, PlaneSound, NEW c \in Commands, LiveUpdateS6(c)
  PROVE  PlaneSound'
<1>0. CommandsSound /\ DatabasesSound /\ OwnersSound /\ MatchSound /\ cmd \in [Commands -> PlaneCommands]
      /\ up \subseteq Owners /\ compiled \in Databases
  BY DEF PlaneSound, CommandsSound, TypeOK
<1>1. /\ UNCHANGED <<core, dirs, deps, bundle, compiled, running, enabled, initialized, api,
                     spoilt, overlap, last, acked>>
      /\ cmd[c].pc = "update" /\ Busy(c)
  BY DEF LiveUpdateS6, At, Busy, sources, propertyd, ghosts, announced
<1>2. PICK w \in Owners : w = cmd[c].owner
  BY <1>0, <1>1, BusyOwner
<1>3. CASE /\ live' = compiled /\ up' = up \cap compiled.owners
           /\ Goto(c, IF cmd[c].action = "enable" THEN "up" ELSE "persist")
  <2>1. /\ cmd' \in [Commands -> PlaneCommands]
        /\ cmd'[c].pc = IF cmd[c].action = "enable" THEN "up" ELSE "persist"
        /\ cmd'[c].action = cmd[c].action /\ cmd'[c].owner = w /\ cmd'[c].live = cmd[c].live
        /\ \A b \in Commands \ {c} : cmd'[b] = cmd[b]
    <3>1. PICK s \in PlaneSteps : s = IF cmd[c].action = "enable" THEN "up" ELSE "persist"
      BY DEF PlaneSteps
    <3> QED
      BY <1>0, <1>2, <1>3, <3>1, GotoEffect
  <2>2. cmd[c].live
    BY <1>0, <1>1 DEF CommandsSound, StepsSound
  <2>3. StepsSound'
    BY <1>0, <1>1, <2>1, <2>2, BusyOwner, StepsKept DEF CommandsSound, Busy
  <2>4. CommandsSound'
    BY <1>0, <1>1, <1>3, <2>1, <2>3 DEF CommandsSound, TypeOK
  <2>5. ~spoilt => Committed(c)'
    BY <1>0, <1>1, <1>2, <1>3, <2>1, <2>2, BusyOwner DEF Committed, Doing, Changed, Done
  <2>6. Follows
    BY <1>1, <1>3 DEF Follows
  <2>7. OwnersSound'
    BY <1>0, <1>1, <1>2, <2>1, <2>5, <2>6, OwnersQuiet
  <2>8. ~overlap => Matched'
    BY <1>0, <1>1, MatchFrame DEF MatchSound, Matching, Matched
  <2>9. MatchSound'
    BY <1>0, <1>1, <2>1, <2>8, MatchKept DEF Matching
  <2> QED
    BY <1>0, <1>1, <1>3, <2>4, <2>7, <2>9 DEF PlaneSound, DatabasesSound, Complete
<1>4. CASE End(c) /\ UNCHANGED <<live, up>>
  <2>1. /\ cmd' \in [Commands -> PlaneCommands] /\ cmd'[c] = Idle /\ ~Busy(c)'
        /\ \A b \in Commands \ {c} : cmd'[b] = cmd[b]
    BY <1>0, <1>4, EndEffect
  <2>2. CommandsSound'
    BY <1>0, <1>1, <1>4, <2>1, StepsKept DEF CommandsSound, TypeOK
  <2>3. OwnersSound'
    BY <1>0, <1>1, <1>2, <1>4, <2>1, OwnersQuiet DEF Follows
  <2>4. MatchSound'
    BY <1>0, <1>1, <2>1, MatchKept DEF Matching, Busy
  <2> QED
    BY <1>0, <1>1, <1>4, <2>2, <2>3, <2>4 DEF PlaneSound, DatabasesSound, Complete
<1> QED
  BY <1>3, <1>4 DEF LiveUpdateS6

\* What the members of a complete database need is in it.
LEMMA BelowComplete ==
  ASSUME NEW db \in Databases, Complete(db), NEW o \in db.owners
  PROVE  Below(db.deps, o) \subseteq db.owners
BY DEF Databases, Complete, Below

LEMMA LiveStartKeepsPlane ==
  ASSUME Parameters, PlaneSound, NEW c \in Commands, LiveStartS6(c)
  PROVE  PlaneSound'
<1>0. CommandsSound /\ DatabasesSound /\ OwnersSound /\ MatchSound /\ cmd \in [Commands -> PlaneCommands]
      /\ up \subseteq Owners /\ live \in Databases
  BY DEF PlaneSound, CommandsSound, TypeOK
<1>1. /\ UNCHANGED <<core, dirs, deps, bundle, compiled, live, running, enabled, initialized, api,
                     spoilt, overlap, last, acked>>
      /\ cmd[c].pc = "up" /\ Busy(c)
  BY DEF LiveStartS6, At, Busy, sources, propertyd, ghosts, announced
<1>2. PICK w \in Owners : w = cmd[c].owner
  BY <1>0, <1>1, BusyOwner
<1>3. CASE /\ w \in live.owners /\ up' = up \cup {w} \cup Below(live.deps, w) /\ Goto(c, "persist")
  <2>0. up' \subseteq up \cup live.owners /\ live.owners \subseteq Owners
    BY <1>0, <1>3, BelowComplete DEF DatabasesSound, Databases
  <2>1. /\ cmd' \in [Commands -> PlaneCommands] /\ cmd'[c].pc = "persist"
        /\ cmd'[c].action = cmd[c].action /\ cmd'[c].owner = w /\ cmd'[c].live = cmd[c].live
        /\ \A b \in Commands \ {c} : cmd'[b] = cmd[b]
    BY <1>0, <1>2, <1>3, GotoEffect DEF PlaneSteps
  <2>2. cmd[c].action = "enable"
    BY <1>0, <1>1 DEF CommandsSound, StepsSound
  <2>3. StepsSound'
    BY <1>0, <1>1, <2>1, <2>2, StepsKept DEF CommandsSound, Busy
  <2>4. CommandsSound'
    BY <1>0, <1>1, <2>0, <2>1, <2>3 DEF CommandsSound, TypeOK
  <2>5. ~spoilt => Committed(c)'
    BY <1>0, <1>1, <1>2, <2>1, <2>2, BusyOwner DEF Committed, Doing, Changed
  <2>6. Follows
    BY <1>1, <2>0 DEF Follows
  <2>7. OwnersSound'
    BY <1>0, <1>1, <1>2, <2>1, <2>5, <2>6, OwnersQuiet
  <2>8. ~overlap => Matched'
    BY <1>0, <1>1, MatchFrame DEF MatchSound, Matching, Matched
  <2>9. MatchSound'
    BY <1>0, <1>1, <2>1, <2>8, MatchKept DEF Matching
  <2> QED
    BY <1>0, <1>1, <2>4, <2>7, <2>9 DEF PlaneSound, DatabasesSound
<1>4. CASE End(c) /\ UNCHANGED up
  <2>1. /\ cmd' \in [Commands -> PlaneCommands] /\ cmd'[c] = Idle /\ ~Busy(c)'
        /\ \A b \in Commands \ {c} : cmd'[b] = cmd[b]
    BY <1>0, <1>4, EndEffect
  <2>2. CommandsSound'
    BY <1>0, <1>1, <1>4, <2>1, StepsKept DEF CommandsSound, TypeOK
  <2>3. OwnersSound'
    BY <1>0, <1>1, <1>2, <1>4, <2>1, OwnersQuiet DEF Follows
  <2>4. MatchSound'
    BY <1>0, <1>1, <2>1, MatchKept DEF Matching, Busy
  <2> QED
    BY <1>0, <1>1, <2>2, <2>3, <2>4 DEF PlaneSound, DatabasesSound
<1> QED
  BY <1>2, <1>3, <1>4 DEF LiveStartS6

LEMMA LiveStopKeepsPlane ==
  ASSUME Parameters, PlaneSound, NEW c \in Commands, LiveStopS6(c)
  PROVE  PlaneSound'
<1>0. CommandsSound /\ DatabasesSound /\ OwnersSound /\ MatchSound /\ cmd \in [Commands -> PlaneCommands]
      /\ up \subseteq Owners
  BY DEF PlaneSound, CommandsSound, TypeOK
<1>1. /\ UNCHANGED <<core, dirs, deps, bundle, compiled, live, running, enabled, initialized, api,
                     spoilt, overlap, last, acked>>
      /\ cmd[c].pc = "down" /\ Busy(c) /\ (Goto(c, "read") \/ End(c)) /\ up' \subseteq up
  BY DEF LiveStopS6, At, Busy, sources, propertyd, ghosts, announced
<1>2. PICK w \in Owners : w = cmd[c].owner
  BY <1>0, <1>1, BusyOwner
<1>a. Follows
  BY <1>1 DEF Follows
<1>3. CASE Goto(c, "read")
  <2>1. /\ cmd' \in [Commands -> PlaneCommands] /\ cmd'[c].pc = "read"
        /\ cmd'[c].action = cmd[c].action /\ cmd'[c].owner = w
        /\ \A b \in Commands \ {c} : cmd'[b] = cmd[b]
    BY <1>0, <1>2, <1>3, GotoEffect DEF PlaneSteps
  <2>2. cmd[c].action = "disable"
    BY <1>0, <1>1 DEF CommandsSound, StepsSound
  <2>3. StepsSound'
    BY <1>0, <1>1, <2>1, <2>2, StepsKept DEF CommandsSound, Busy
  <2>4. CommandsSound'
    BY <1>0, <1>1, <2>1, <2>3 DEF CommandsSound, TypeOK
  <2>5. ~spoilt => Committed(c)'
    BY <1>0, <1>1, <1>2, <2>1, <2>2, BusyOwner DEF Committed, Doing, Changed
  <2>6. OwnersSound'
    BY <1>0, <1>1, <1>2, <1>a, <2>1, <2>5, OwnersQuiet
  <2>7. MatchSound'
    BY <1>0, <1>1, <2>1, MatchKept DEF Matching
  <2> QED
    BY <1>0, <1>1, <2>4, <2>6, <2>7 DEF PlaneSound, DatabasesSound
<1>4. CASE End(c)
  <2>1. /\ cmd' \in [Commands -> PlaneCommands] /\ cmd'[c] = Idle /\ ~Busy(c)'
        /\ \A b \in Commands \ {c} : cmd'[b] = cmd[b]
    BY <1>0, <1>4, EndEffect
  <2>2. CommandsSound'
    BY <1>0, <1>1, <2>1, StepsKept DEF CommandsSound, TypeOK
  <2>3. OwnersSound'
    BY <1>0, <1>1, <1>2, <1>a, <2>1, OwnersQuiet
  <2>4. MatchSound'
    BY <1>0, <1>1, <2>1, MatchKept DEF Matching, Busy
  <2> QED
    BY <1>0, <1>1, <2>2, <2>3, <2>4 DEF PlaneSound, DatabasesSound
<1> QED
  BY <1>1, <1>3, <1>4

LEMMA PersistKeepsPlane ==
  ASSUME Parameters, PlaneSound, NEW c \in Commands, Persist(c)
  PROVE  PlaneSound'
<1>0. CommandsSound /\ DatabasesSound /\ OwnersSound /\ MatchSound /\ cmd \in [Commands -> PlaneCommands]
      /\ enabled \subseteq Owners /\ acked \in [Owners -> {"none", "enabled", "disabled", "stopped"}]
  BY DEF PlaneSound, CommandsSound, TypeOK
<1>1. /\ UNCHANGED <<core, dirs, deps, bundle, compiled, live, up, running, api, spoilt, overlap>>
      /\ cmd[c].pc = "persist" /\ Busy(c) /\ initialized'
  BY DEF Persist, SetEnabled, At, Busy, sources, s6
<1>2. PICK w \in Owners : w = cmd[c].owner
  BY <1>0, <1>1, BusyOwner
<1>a. cmd[c].action \in {"enable", "disable"} /\ (~spoilt => Committed(c) /\ bundle \subseteq Done)
  BY <1>0, <1>1, BusyOwner
<1>b. enabled' = IF cmd[c].action = "enable" THEN enabled \cup {w} ELSE enabled \ {w}
  BY <1>2 DEF Persist, SetEnabled
<1>c. Follows /\ Done' = Done /\ enabled' \subseteq Owners
  BY <1>0, <1>1, <1>b DEF Follows, Done
<1>d. w \in Units => EnabledRoots' = EnabledRoots /\ (Match <=> Match') /\ (Compiles <=> Compiles')
  <2>1. w \in Units => enabled' \cap Groups = enabled \cap Groups
    BY <1>b DEF Parameters
  <2> QED
    BY <1>1, <2>1, MatchFrame
<1>e. ~overlap /\ w \in Units => Matched'
  BY <1>0, <1>1, <1>d DEF MatchSound, Matching, Matched
<1>3. CASE cmd[c].action = "enable"
  <2>0. PICK word \in {"none", "enabled"} : last' = w /\ acked' = [acked EXCEPT ![w] = word]
    BY <1>2, <1>3 DEF Persist, Announce
  <2>1. /\ cmd' \in [Commands -> PlaneCommands] /\ cmd'[c] = Idle /\ ~Busy(c)'
        /\ \A b \in Commands \ {c} : cmd'[b] = cmd[b]
    BY <1>0, <1>3, EndEffect DEF Persist
  <2>2. CommandsSound'
    <3>1. acked' \in [Owners -> {"none", "enabled", "disabled", "stopped"}]
      BY <1>0, <2>0
    <3> QED
      BY <1>0, <1>1, <1>c, <2>0, <2>1, <3>1, StepsKept DEF CommandsSound, TypeOK
  <2>3. ~spoilt => w \in bundle
    BY <1>1, <1>2, <1>3, <1>a DEF Committed, Doing, Changed
  <2>4. ~spoilt => Realised(w)'
    BY <1>0, <1>1, <1>3, <1>b, <2>0, <2>3 DEF Realised
  <2>5. \A o \in Owners \ {w} : Untouched(o)
    BY <1>0, <1>1, <1>b, <2>0 DEF Untouched
  <2>6. OwnersSound'
    BY <1>0, <1>1, <1>2, <1>a, <1>c, <2>1, <2>4, <2>5, OwnersKept
  <2>7. MatchSound'
    BY <1>0, <1>1, <1>e, <2>0, <2>1, MatchKept DEF Matching, Busy
  <2> QED
    BY <1>0, <1>1, <2>2, <2>6, <2>7 DEF PlaneSound, DatabasesSound
<1>4. CASE cmd[c].action = "disable"
  <2>0. UNCHANGED <<last, acked>> /\ Goto(c, "stop")
    BY <1>4 DEF Persist, announced
  <2>1. /\ cmd' \in [Commands -> PlaneCommands] /\ cmd'[c].pc = "stop"
        /\ cmd'[c].action = "disable" /\ cmd'[c].owner = w /\ cmd'[c].live = cmd[c].live
        /\ \A b \in Commands \ {c} : cmd'[b] = cmd[b]
    BY <1>0, <1>2, <1>4, <2>0, GotoEffect DEF PlaneSteps
  <2>2. StepsSound'
    BY <1>0, <1>1, <2>1, StepsKept DEF CommandsSound, Busy
  <2>3. CommandsSound'
    BY <1>0, <1>1, <1>c, <2>0, <2>1, <2>2 DEF CommandsSound, TypeOK
  <2>4. ~spoilt => Committed(c)'
    BY <1>1, <1>2, <1>4, <1>a, <1>b, <1>c, <2>0, <2>1 DEF Committed, Doing, Changed
  <2>5. \A o \in Owners \ {w} : Untouched(o)
    BY <1>1, <1>b, <2>0 DEF Untouched
  <2>6. OwnersSound'
    BY <1>0, <1>1, <1>2, <1>a, <1>c, <2>0, <2>1, <2>4, <2>5, OwnersKept
  <2>7. MatchSound'
    BY <1>0, <1>1, <1>e, <2>0, <2>1, MatchKept DEF Matching
  <2> QED
    BY <1>0, <1>1, <2>3, <2>6, <2>7 DEF PlaneSound, DatabasesSound
<1> QED
  BY <1>a, <1>3, <1>4

LEMMA StopUnitsKeepsPlane ==
  ASSUME Parameters, PlaneSound, NEW c \in Commands, StopUnits(c)
  PROVE  PlaneSound'
<1>0. CommandsSound /\ DatabasesSound /\ OwnersSound /\ MatchSound /\ cmd \in [Commands -> PlaneCommands]
      /\ running \subseteq Units /\ acked \in [Owners -> {"none", "enabled", "disabled", "stopped"}]
  BY DEF PlaneSound, CommandsSound, TypeOK
<1>1. /\ UNCHANGED <<core, dirs, deps, bundle, compiled, live, up, enabled, initialized, api, spoilt, overlap>>
      /\ cmd[c].pc = "stop" /\ Busy(c) /\ End(c) /\ Announce(c) /\ running' \subseteq running
  BY DEF StopUnits, At, Busy, sources, propertyd
<1>2. PICK w \in Owners : w = cmd[c].owner
  BY <1>0, <1>1, BusyOwner
<1>a. cmd[c].action = "disable" /\ (~spoilt => Committed(c) /\ bundle \subseteq Done)
  BY <1>0, <1>1, BusyOwner DEF CommandsSound, StepsSound
<1>b. PICK word \in {"none", "disabled", "stopped"} :
        last' = w /\ acked' = [acked EXCEPT ![w] = word] /\ (word = "stopped" => cmd[c].live)
  BY <1>1, <1>2, <1>a DEF Announce
<1>3. /\ cmd' \in [Commands -> PlaneCommands] /\ cmd'[c] = Idle /\ ~Busy(c)'
      /\ \A b \in Commands \ {c} : cmd'[b] = cmd[b]
  BY <1>0, <1>1, EndEffect
<1>4. CommandsSound'
  <2>1. acked' \in [Owners -> {"none", "enabled", "disabled", "stopped"}]
    BY <1>0, <1>b
  <2> QED
    BY <1>0, <1>1, <1>b, <1>3, <2>1, StepsKept DEF CommandsSound, TypeOK
<1>5. ~spoilt => Realised(w)'
  <2>1. ~spoilt => /\ w \notin bundle /\ w \notin enabled /\ initialized /\ w \notin Done
                   /\ cmd[c].live => w \notin compiled.owners \cup live.owners \cup up
    BY <1>1, <1>2, <1>a DEF Committed, Doing, Changed
  <2>2. Done' = Done
    BY <1>1 DEF Done
  <2> QED
    BY <1>0, <1>1, <1>b, <2>1, <2>2 DEF Realised
<1>6. Follows /\ Done' = Done /\ \A o \in Owners \ {w} : Untouched(o)
  BY <1>0, <1>1, <1>b DEF Follows, Untouched, Done
<1>7. OwnersSound'
  BY <1>0, <1>1, <1>2, <1>a, <1>3, <1>5, <1>6, OwnersKept
<1>8. ~overlap /\ w \in Units => Matched'
  BY <1>0, <1>1, <1>2, MatchFrame DEF MatchSound, Matching, Matched
<1>9. MatchSound'
  BY <1>0, <1>1, <1>b, <1>3, <1>8, MatchKept DEF Matching, Busy
<1> QED
  BY <1>0, <1>1, <1>4, <1>7, <1>9 DEF PlaneSound, DatabasesSound

LEMMA BeginKeepsPlane ==
  ASSUME Parameters, PlaneSound, NEW c \in Commands, NEW o \in Owners,
         Begin(c, "enable", o, "ensure") \/ Begin(c, "disable", o, "down")
  PROVE  PlaneSound'
<1>0. CommandsSound /\ DatabasesSound /\ OwnersSound /\ MatchSound /\ cmd \in [Commands -> PlaneCommands]
      /\ acked \in [Owners -> {"none", "enabled", "disabled", "stopped"}]
  BY DEF PlaneSound, CommandsSound
<1>1. /\ UNCHANGED <<core, dirs, deps, bundle, compiled, live, up, running, enabled, initialized, api>>
      /\ cmd[c] = Idle /\ last' = "none" /\ acked' = [acked EXCEPT ![o] = "none"]
      /\ overlap' = (overlap \/ \E b \in Commands : cmd[b] # Idle)
      /\ spoilt' = (spoilt \/ \E b \in Commands : cmd[b] # Idle /\ cmd[b].owner = o)
  BY DEF Begin, sources, s6, propertyd
<1>2. /\ cmd' \in [Commands -> PlaneCommands] /\ cmd'[c].owner = o
      /\ \/ cmd'[c].pc = "ensure" /\ cmd'[c].action = "enable"
         \/ cmd'[c].pc \in {"down", "read"} /\ cmd'[c].action = "disable"
      /\ \A b \in Commands \ {c} : cmd'[b] = cmd[b]
  <2>1. ASSUME NEW what \in {"enable", "disable"}, NEW pc0 \in PlaneSteps, NEW l \in BOOLEAN,
               cmd' = [cmd EXCEPT ![c] = [Idle EXCEPT !.pc = pc0, !.action = what, !.owner = o, !.live = l]]
        PROVE  /\ cmd' \in [Commands -> PlaneCommands] /\ cmd'[c].owner = o
               /\ cmd'[c].pc = pc0 /\ cmd'[c].action = what
               /\ \A b \in Commands \ {c} : cmd'[b] = cmd[b]
    <3>1. PICK x : x = [Idle EXCEPT !.pc = pc0, !.action = what, !.owner = o, !.live = l]
      OBVIOUS
    <3>2. x \in PlaneCommands /\ x.pc = pc0 /\ x.action = what /\ x.owner = o
      BY <3>1 DEF Idle, PlaneCommands, NoRoots
    <3> QED
      BY <1>0, <2>1, <3>1, <3>2
  <2>2. CASE Begin(c, "enable", o, "ensure")
    <3>1. PICK l \in BOOLEAN :
            cmd' = [cmd EXCEPT ![c] = [Idle EXCEPT !.pc = "ensure", !.action = "enable", !.owner = o, !.live = l]]
      BY <2>2 DEF Begin
    <3> QED
      BY <2>1, <3>1 DEF PlaneSteps
  <2>3. CASE Begin(c, "disable", o, "down")
    <3>1. PICK l \in BOOLEAN, p \in {"read", "down"} :
            cmd' = [cmd EXCEPT ![c] = [Idle EXCEPT !.pc = p, !.action = "disable", !.owner = o, !.live = l]]
      BY <2>3 DEF Begin
    <3> QED
      BY <2>1, <3>1 DEF PlaneSteps
  <2> QED
    BY <2>2, <2>3
<1>3. \A b \in Commands : cmd[b] # Idle <=> Busy(b)
  BY <1>0 DEF CommandsSound, StepsSound, Busy, Idle
<1>4. CommandsSound'
  <2>1. StepsSound'
    <3> SUFFICES ASSUME NEW b \in Commands
        PROVE  /\ ~Busy(b)' => cmd'[b] = Idle
               /\ Busy(b)' => cmd'[b].owner \in Owners /\ cmd'[b].action \in {"enable", "disable"}
               /\ cmd'[b].pc \in {"ensure", "source", "up"} => cmd'[b].action = "enable"
               /\ cmd'[b].pc \in {"down", "remove", "stop"} => cmd'[b].action = "disable"
               /\ cmd'[b].pc \in {"update", "up"} => cmd'[b].live
      BY DEF StepsSound
    <3>1. CASE b = c
      BY <3>1, <1>2 DEF Busy
    <3>2. CASE b # c
      BY <3>2, <1>0, <1>2 DEF CommandsSound, StepsSound, Busy
    <3> QED
      BY <3>1, <3>2
  <2>2. acked' \in [Owners -> {"none", "enabled", "disabled", "stopped"}]
    BY <1>0, <1>1
  <2> QED
    BY <1>0, <1>1, <1>2, <2>1, <2>2 DEF CommandsSound, TypeOK
<1>5. OwnersSound'
  <2> SUFFICES ASSUME ~spoilt'
      PROVE  /\ bundle' \subseteq Done' /\ (\A b \in Commands : Committed(b)')
             /\ \A a, b \in Commands : Busy(b)' /\ cmd'[a].owner = cmd'[b].owner => a = b
             /\ \A p \in Owners : Realised(p)'
    BY DEF OwnersSound
  <2>1. ~spoilt /\ \A b \in Commands : Busy(b) => cmd[b].owner # o
    BY <1>1, <1>3
  <2>2. Follows /\ Done' = Done /\ \A p \in Owners \ {o} : Untouched(p)
    BY <1>0, <1>1 DEF Follows, Untouched, Done
  <2>3. acked'[o] = "none"
    BY <1>0, <1>1
  <2>4. ASSUME NEW p \in Owners PROVE Realised(p)'
    <3>1. CASE p = o
      BY <3>1, <2>3 DEF Realised
    <3>2. CASE p # o
      BY <3>2, <1>0, <2>1, <2>2, OthersKept DEF OwnersSound
    <3> QED
      BY <3>1, <3>2
  <2>5. Committed(c)'
    BY <1>2, <2>3 DEF Committed, Doing, Changed, Busy
  <2>6. ASSUME NEW b \in Commands \ {c} PROVE Committed(b)'
    <3>1. CASE ~Busy(b)
      BY <3>1, <1>2 DEF Committed, Doing, Changed, Busy
    <3>2. CASE Busy(b)
      <4>1. cmd[b].owner \in Owners \ {o}
        BY <3>2, <1>0, <2>1 DEF CommandsSound, StepsSound
      <4> QED
        BY <4>1, <1>0, <1>2, <2>1, <2>2, OthersKept DEF OwnersSound
    <3> QED
      BY <3>1, <3>2
  <2>7. ASSUME NEW a \in Commands, NEW b \in Commands, Busy(b)', cmd'[a].owner = cmd'[b].owner PROVE a = b
    <3>1. \A d \in Commands \ {c} : cmd'[d].owner # o
      <4>1. ASSUME NEW d \in Commands \ {c}, ~Busy(d) PROVE cmd'[d].owner # o
        <5>1. cmd'[d].owner = "none"
          BY <4>1, <1>2, <1>3 DEF Idle
        <5> QED
          BY <5>1 DEF Parameters
      <4> QED
        BY <4>1, <1>2, <2>1
    <3>2. a = c <=> b = c
      BY <2>7, <3>1, <1>2
    <3> QED
      BY <2>7, <3>2, <1>0, <1>2, <2>1 DEF OwnersSound, Busy
  <2> QED
    BY <1>0, <1>1, <2>1, <2>2, <2>4, <2>5, <2>6, <2>7 DEF OwnersSound
<1>6. MatchSound'
  <2> SUFFICES ASSUME ~overlap'
      PROVE  /\ \A b \in Commands : Matching(b)'
             /\ \A a, b \in Commands : Busy(a)' /\ Busy(b)' => a = b
    BY <1>1 DEF MatchSound, Parameters, Owners
  <2>1. \A b \in Commands \ {c} : ~Busy(b)'
    BY <1>1, <1>2, <1>3 DEF Busy
  <2>2. \A b \in Commands : Matching(b)'
    BY <1>2, <2>1 DEF Matching, Busy
  <2> QED
    BY <2>1, <2>2
<1> QED
  BY <1>0, <1>1, <1>4, <1>5, <1>6 DEF PlaneSound, DatabasesSound

\* The steps of sys-orchestrd and of servicectl-api.
LEMMA OrchestratorKeepsPlane ==
  ASSUME Parameters, PlaneSound, NEW o \in Owners, OrchestratorStarts(o)
  PROVE  PlaneSound'
<1>0. CommandsSound /\ DatabasesSound /\ OwnersSound /\ MatchSound
  BY DEF PlaneSound
<1>1. UNCHANGED <<core, dirs, deps, bundle, compiled, live, up, enabled, initialized, cmd, api,
                  spoilt, overlap, last, acked>>
  BY DEF OrchestratorStarts, sources, propertyd, ghosts, announced
<1>2. running' \subseteq Units
  <2>1. UnitsOf(o) \subseteq Units
    BY DEF UnitsOf, Parameters, Owners
  <2> QED
    BY <1>0, <2>1 DEF OrchestratorStarts, CommandsSound, TypeOK
<1>3. CommandsSound' /\ DatabasesSound'
  BY <1>0, <1>1, <1>2 DEF CommandsSound, TypeOK, StepsSound, Busy, DatabasesSound
<1>4. Done' = Done
  BY <1>1 DEF Done
<1>5. OwnersSound'
  BY <1>0, <1>1, <1>4 DEF OwnersSound, Committed, Realised, Busy, Doing, Changed
<1>6. MatchSound'
  BY <1>0, <1>1, MatchFrame DEF MatchSound, Matching, Matched, Busy
<1> QED
  BY <1>3, <1>5, <1>6 DEF PlaneSound

LEMMA ApiReadKeepsPlane ==
  ASSUME Parameters, PlaneSound, ApiQueryLists \/ ApiReadBundle
  PROVE  PlaneSound'
<1>0. CommandsSound /\ DatabasesSound /\ OwnersSound /\ MatchSound
  BY DEF PlaneSound
<1>1. UNCHANGED <<core, dirs, deps, bundle, compiled, live, up, running, enabled, initialized, cmd,
                  spoilt, overlap, last, acked>>
  BY DEF ApiQueryLists, ApiReadBundle, sources, s6, propertyd, ghosts, announced
<1>2. api'.read \subseteq Units
  <2>1. CASE ApiQueryLists
    <3>1. api'.read = api.read \/ api'.read = {}
      BY <2>1 DEF ApiQueryLists
    <3> QED
      BY <1>0, <3>1 DEF CommandsSound
  <2>2. CASE ApiReadBundle
    BY <2>2 DEF ApiReadBundle, StandaloneUnits
  <2> QED
    BY <2>1, <2>2
<1>3. CommandsSound' /\ DatabasesSound'
  BY <1>0, <1>1, <1>2 DEF CommandsSound, TypeOK, StepsSound, Busy, DatabasesSound
<1>4. Done' = Done
  BY <1>1 DEF Done
<1>5. OwnersSound'
  BY <1>0, <1>1, <1>4 DEF OwnersSound, Committed, Realised, Busy, Doing, Changed
<1>6. MatchSound'
  BY <1>0, <1>1, MatchFrame DEF MatchSound, Matching, Matched, Busy
<1> QED
  BY <1>3, <1>5, <1>6 DEF PlaneSound

(* The list is filled while nothing has been announced: what was announced   *)
(* has set initialized, and then the filling counts as spoiling.             *)
LEMMA ApiReplaceKeepsPlane ==
  ASSUME Parameters, PlaneSound, ApiReplaceList
  PROVE  PlaneSound'
<1>0. CommandsSound /\ DatabasesSound /\ OwnersSound /\ MatchSound
  BY DEF PlaneSound
<1>1. UNCHANGED <<core, dirs, deps, bundle, compiled, live, up, running, cmd, overlap, last, acked>>
  BY DEF ApiReplaceList, sources, s6, announced
<1>2. \/ /\ enabled' = (enabled \cap Groups) \cup api.read
         /\ ~spoilt' => ~spoilt /\ ~initialized
      \/ UNCHANGED <<enabled, initialized, spoilt>>
  BY DEF ApiReplaceList, propertyd
<1>3. api'.read = {}
  BY DEF ApiReplaceList, Off
<1>4. enabled' \subseteq Owners /\ enabled' \cap Groups = enabled \cap Groups
  <2>1. api.read \subseteq Units /\ enabled \subseteq Owners /\ Units \cap Groups = {}
    BY <1>0 DEF CommandsSound, TypeOK, Parameters
  <2> QED
    BY <1>2, <2>1 DEF Owners
<1>5. CommandsSound' /\ DatabasesSound'
  BY <1>0, <1>1, <1>3, <1>4 DEF CommandsSound, TypeOK, StepsSound, Busy, DatabasesSound
<1>6. Done' = Done
  BY <1>1 DEF Done
<1>7. OwnersSound'
  <2>1. CASE UNCHANGED <<enabled, initialized, spoilt>>
    BY <2>1, <1>0, <1>1, <1>6 DEF OwnersSound, Committed, Realised, Busy, Doing, Changed
  <2>2. CASE ~spoilt' => ~spoilt /\ ~initialized
    <3> SUFFICES ASSUME ~spoilt'
        PROVE  /\ bundle' \subseteq Done' /\ (\A c \in Commands : Committed(c)')
               /\ \A b, c \in Commands : Busy(c)' /\ cmd'[b].owner = cmd'[c].owner => b = c
               /\ \A o \in Owners : Realised(o)'
      BY DEF OwnersSound
    <3>1. ~spoilt /\ ~initialized
      BY <2>2
    <3>2. ASSUME NEW o \in Owners PROVE Realised(o)'
      BY <1>0, <1>1, <3>1 DEF OwnersSound, Realised
    <3>3. ASSUME NEW c \in Commands PROVE Committed(c)'
      BY <1>0, <1>1, <1>6, <3>1 DEF OwnersSound, Committed, Busy, Doing, Changed
    <3> QED
      BY <1>0, <1>1, <1>6, <3>1, <3>2, <3>3 DEF OwnersSound, Busy
  <2> QED
    BY <1>2, <2>1, <2>2
<1>8. MatchSound'
  BY <1>0, <1>1, <1>4, MatchFrame DEF MatchSound, Matching, Matched, Busy
<1> QED
  BY <1>5, <1>7, <1>8 DEF PlaneSound

LEMMA PlaneBegins ==
  ASSUME Parameters, Init
  PROVE  PlaneSound
<1>1. PICK old \in SUBSET Legacy :
        /\ core = IF old = {} THEN "none" ELSE "done"
        /\ dirs = [o \in Owners |-> IF o \in old THEN "done" ELSE "none"]
        /\ deps = [o \in Owners |-> IF o \in old THEN Wants[o] \cap old ELSE {}]
        /\ bundle = old /\ up = old /\ running = old
        /\ compiled = NoDatabase /\ live = [owners |-> old, deps |-> deps, ok |-> TRUE]
  BY DEF Init
<1>2. /\ enabled = {} /\ cmd = [c \in Commands |-> Idle] /\ api = Off
      /\ last = "none" /\ acked = [o \in Owners |-> "none"]
  BY DEF Init
<1>3. old \subseteq Units /\ old \subseteq Owners /\ "none" \notin Units
  BY DEF Parameters, Owners
<1>4. dirs \in [Owners -> {"none", "partial", "done"}] /\ deps \in [Owners -> SUBSET Owners] /\ Done = old
  BY <1>1, <1>3 DEF Done
<1>5. compiled \in Databases /\ live \in Databases /\ Complete(compiled) /\ Complete(live)
  <2>1. compiled \in Databases /\ Complete(compiled)
    BY <1>1 DEF NoDatabase, Databases, Complete
  <2>2. live \in Databases
    BY <1>1, <1>3, <1>4 DEF Databases
  <2>3. \A o \in old : deps[o] \subseteq old
    BY <1>1, <1>3
  <2> QED
    BY <1>1, <2>1, <2>2, <2>3 DEF Complete
<1>6. Idle \in PlaneCommands /\ \A c \in Commands : cmd[c] = Idle /\ ~Busy(c) /\ cmd[c].pc = "idle"
  BY <1>2 DEF Idle, PlaneCommands, PlaneSteps, NoRoots, Busy
<1>7. CommandsSound
  <2>1. StepsSound
    BY <1>6 DEF StepsSound
  <2>2. TypeOK
    BY <1>1, <1>2, <1>3, <1>4 DEF TypeOK
  <2>3. api.read = {}
    BY <1>2 DEF Off
  <2>4. cmd \in [Commands -> PlaneCommands]
    BY <1>2, <1>6
  <2> QED
    BY <1>2, <1>5, <2>1, <2>2, <2>3, <2>4 DEF CommandsSound
<1>8. OwnersSound
  <2>1. \A c \in Commands : Committed(c)
    BY <1>6 DEF Committed, Doing, Changed
  <2>2. \A o \in Owners : Realised(o)
    BY <1>2 DEF Realised
  <2> QED
    BY <1>1, <1>4, <1>6, <2>1, <2>2 DEF OwnersSound
<1>9. MatchSound
  BY <1>2, <1>3, <1>6 DEF MatchSound, Matching
<1> QED
  BY <1>5, <1>7, <1>8, <1>9 DEF PlaneSound, DatabasesSound

LEMMA PlaneGoesOn ==
  ASSUME Parameters, PlaneSound, [Next]_vars
  PROVE  PlaneSound'
<1>1. ASSUME NEW c \in Commands, CommandStep(c) PROVE PlaneSound'
  <2>1. CASE EnsureS6Bundle(c)
    BY <2>1, EnsureKeepsPlane
  <2>2. CASE WriteSource(c)
    BY <2>2, WriteSourceKeepsPlane
  <2>3. CASE ReadBundle(c)
    BY <2>3, ReadBundleKeepsPlane
  <2>4. CASE WriteBundle(c)
    BY <2>4, WriteBundleKeepsPlane
  <2>5. CASE RemoveSource(c)
    BY <2>5, RemoveSourceKeepsPlane
  <2>6. CASE ReadRoots(c)
    BY <2>6, ReadRootsKeepsPlane
  <2>7. CASE WriteDeps(c)
    BY <2>7, WriteDepsKeepsPlane
  <2>8. CASE ValidateS6Sources(c)
    BY <2>8, ValidateKeepsPlane
  <2>9. CASE LiveUpdateS6(c)
    BY <2>9, LiveUpdateKeepsPlane
  <2>10. CASE LiveStartS6(c)
    BY <2>10, LiveStartKeepsPlane
  <2>11. CASE LiveStopS6(c)
    BY <2>11, LiveStopKeepsPlane
  <2>12. CASE Persist(c)
    BY <2>12, PersistKeepsPlane
  <2>13. CASE StopUnits(c)
    BY <2>13, StopUnitsKeepsPlane
  <2> QED
    BY <1>1, <2>1, <2>2, <2>3, <2>4, <2>5, <2>6, <2>7, <2>8, <2>9, <2>10, <2>11, <2>12, <2>13 DEF CommandStep
<1>2. ASSUME NEW c \in Commands, NEW o \in Owners,
             EnableUnit(c, o) \/ DisableUnit(c, o) \/ EnableGroup(c, o) \/ DisableGroup(c, o)
      PROVE  PlaneSound'
  BY <1>2, BeginKeepsPlane DEF EnableUnit, DisableUnit, EnableGroup, DisableGroup
<1>3. CASE UNCHANGED vars
  <2>1. UNCHANGED <<core, dirs, deps, bundle, compiled, live, up, running, enabled, initialized, cmd, api,
                    spoilt, overlap, last, acked>>
    BY <1>3 DEF vars, sources, s6, propertyd, ghosts, announced
  <2>2. CommandsSound' /\ DatabasesSound'
    BY <2>1 DEF PlaneSound, CommandsSound, TypeOK, StepsSound, Busy, DatabasesSound
  <2>3. OwnersSound'
    BY <2>1 DEF PlaneSound, OwnersSound, Committed, Realised, Busy, Doing, Changed, Done
  <2>4. MatchSound'
    BY <2>1, MatchFrame DEF PlaneSound, MatchSound, Matching, Matched, Busy
  <2> QED
    BY <2>2, <2>3, <2>4 DEF PlaneSound
<1>4. CASE \E c \in Commands :
             \/ \E u \in Units : EnableUnit(c, u) \/ DisableUnit(c, u)
             \/ \E g \in Groups : EnableGroup(c, g) \/ DisableGroup(c, g)
             \/ CommandStep(c) \/ Abort(c)
  BY <1>1, <1>2, <1>4, AbortKeepsPlane DEF Owners
<1>5. CASE \E o \in Owners : OrchestratorStarts(o)
  BY <1>5, OrchestratorKeepsPlane
<1>6. CASE ApiQueryLists \/ ApiReadBundle \/ ApiReplaceList
  BY <1>6, ApiReadKeepsPlane, ApiReplaceKeepsPlane
<1> QED
  BY <1>3, <1>4, <1>5, <1>6 DEF Next

-----------------------------------------------------------------------------
(* StatusModel. *)

(* A manifest's fields, with finitely many relationships.                    *)
Drawn(m) ==
  /\ m = [complete |-> m.complete, unit |-> m.unit, mode |-> m.mode, owner |-> m.owner,
          applicable |-> m.applicable, scope |-> m.scope, rels |-> m.rels]
  /\ IsFiniteSet(m.rels)

StatusKnown ==
  /\ Status!TypeOK /\ Status!BuiltManifestsValidate
  /\ pc \in {"answer", "probe"} => Drawn(manifest)
  /\ pc = "probe" => Status!ValidateManifestIdentity(manifest)
  /\ pc # "done" => results = <<>>
  /\ Status!HealthFollowsEvidence

(* The instance of FiniteSets that the module has is the same one.           *)
LEMMA SameCardinality == ASSUME NEW S PROVE Status!Cardinality(S) = Cardinality(S)
  BY Zenon DEF Status!Cardinality, Cardinality

(* A walk that reaches every node: no set of nodes is cut off.               *)
LEMMA ReachedIsWhole ==
  ASSUME NEW nodes, NEW edges, NEW root, Status!Reached(nodes, edges, root) = nodes,
         \A e \in edges : e.from \in nodes,
         NEW cut \in SUBSET nodes, cut # {}, cut # nodes
  PROVE  \E e \in edges : (e.from \in cut) # (e.to \in cut)
<1> SUFFICES ASSUME \A e \in edges : e.from \in cut <=> e.to \in cut PROVE FALSE
  OBVIOUS
<1> DEFINE side == IF root \in cut THEN nodes \ cut ELSE cut
           Apart == {S \in SUBSET (nodes \ {root}) : \A e \in edges : e.to \in S => e.from \in S}
<1>1. side \in SUBSET (nodes \ {root}) /\ side # {}
  OBVIOUS
<1>2. \A e \in edges : e.to \in side => e.from \in side
  OBVIOUS
<1>3. side \in Apart
  BY <1>1, <1>2
<1>4. nodes \ UNION Apart = nodes
  BY DEF Status!Reached
<1>5. PICK n \in nodes : n \in side
  BY <1>1
<1>6. n \in UNION Apart
  BY <1>3, <1>5
<1> HIDE DEF Apart
<1> QED
  BY <1>4, <1>6

(* The edges of a branch-free path with one root are as many as its nodes    *)
(* other than the root.                                                      *)
LEMMA PathIsChain ==
  ASSUME NEW rels, IsFiniteSet(rels), Status!PrimaryPath(rels)
  PROVE  LET edges == Status!Primary(rels)
             nodes == Status!Ends(edges)
         IN  /\ Cardinality(edges) = Cardinality(nodes) - 1
             /\ \A cut \in SUBSET nodes : cut # {} /\ cut # nodes =>
                  \E e \in edges : (e.from \in cut) # (e.to \in cut)
             /\ \A d, e \in edges : d.from = e.from \/ d.to = e.to => d = e
             /\ "service" \in nodes
             /\ \A e \in edges : e.from # "service"
<1> DEFINE edges == Status!Primary(rels)
           nodes == Status!Ends(edges)
           roots == Status!Roots(edges)
<1>1. /\ \A d, e \in edges : d.from = e.from \/ d.to = e.to => d = e
      /\ Cardinality(roots) = 1 /\ Status!Terminals(edges) = {"service"}
      /\ \A r \in roots : Status!Reached(nodes, edges, r) = nodes
  BY SameCardinality DEF Status!PrimaryPath, Status!Walk
<1>2. IsFiniteSet(edges)
  BY FS_Subset DEF Status!Primary
<1>3. \A e \in edges : e.from \in nodes /\ e.to \in nodes
  BY DEF Status!Ends
<1>4. \A n \in nodes : \E e \in edges : n = e.from \/ n = e.to
  BY DEF Status!Ends
<1>r. /\ roots = {n \in nodes : \A e \in edges : e.to # n}
      /\ Status!Terminals(edges) = {n \in nodes : \A e \in edges : e.from # n}
  BY DEF Status!Roots, Status!Terminals
<1> HIDE DEF edges, nodes, roots
<1>5. IsFiniteSet(nodes)
  <2> DEFINE f == [e \in edges |-> e.from]
             g == [e \in edges |-> e.to]
             A == {e.from : e \in edges}
             B == {e.to : e \in edges}
  <2>1. f \in Surjection(edges, A)
    BY DEF Surjection
  <2>2. g \in Surjection(edges, B)
    BY DEF Surjection
  <2>3. IsFiniteSet(A) /\ IsFiniteSet(B)
    <3> HIDE DEF f, g, A, B
    <3> QED
      BY <1>2, <2>1, <2>2, FS_Surjection
  <2>4. IsFiniteSet(A \cup B)
    BY <2>3, FS_Union
  <2>5. nodes = A \cup B
    BY DEF nodes, Status!Ends
  <2> QED
    BY <2>4, <2>5
<1>6. PICK root : roots = {root}
  <2>1. IsFiniteSet(roots)
    BY <1>r, <1>5, FS_Subset
  <2> QED
    BY <1>1, <2>1, FS_Singleton
<1>7. Cardinality(edges) = Cardinality(nodes \ {root})
  <2> DEFINE others == nodes \ {root}
             f == [e \in edges |-> e.to]
  <2>1. \A e \in edges : e.to \in others
    BY <1>r, <1>3, <1>6
  <2>2. f \in Injection(edges, others)
    BY <1>1, <2>1 DEF Injection, IsInjective
  <2>3. \A n \in others : \E e \in edges : f[e] = n
    BY <1>r, <1>6
  <2>4. f \in Surjection(edges, others)
    BY <2>1, <2>3 DEF Surjection
  <2>5. ExistsBijection(edges, others)
    BY <2>2, <2>4 DEF ExistsBijection, Bijection
  <2>6. Cardinality(edges) = Cardinality(others)
    <3> HIDE DEF others
    <3> QED
      BY <1>2, <2>5, FS_Bijection
  <2> QED
    BY <2>6
<1>8. Cardinality(nodes \ {root}) = Cardinality(nodes) - 1
  BY <1>r, <1>5, <1>6, FS_RemoveElement
<1>9. \A cut \in SUBSET nodes : cut # {} /\ cut # nodes =>
        \E e \in edges : (e.from \in cut) # (e.to \in cut)
  <2>1. Status!Reached(nodes, edges, root) = nodes
    BY <1>1, <1>6
  <2> QED
    BY <1>3, <2>1, ReachedIsWhole
<1>10. "service" \in nodes /\ \A e \in edges : e.from # "service"
  BY <1>r, <1>1
<1> QED
  BY <1>1, <1>7, <1>8, <1>9, <1>10 DEF nodes, edges

(* Severity is a total order: the aggregate of healths is the severest.      *)
LEMMA SeverestHealth ==
  ASSUME NEW healths, healths \subseteq {"failed", "degraded", "unknown", "healthy"}
  PROVE  Status!AggregateHealth(healths) =
           IF "failed" \in healths THEN "failed"
           ELSE IF "degraded" \in healths THEN "degraded"
           ELSE IF "unknown" \in healths THEN "unknown" ELSE "healthy"
<1> DEFINE Severest(h) == \A g \in healths : Status!HealthRank(g) <= Status!HealthRank(h)
           severest == IF "failed" \in healths THEN "failed"
                       ELSE IF "degraded" \in healths THEN "degraded"
                       ELSE IF "unknown" \in healths THEN "unknown" ELSE "healthy"
           all == {"failed", "degraded", "unknown", "healthy"}
<1>1. /\ Status!HealthRank("failed") = 3 /\ Status!HealthRank("degraded") = 2
      /\ Status!HealthRank("unknown") = 1 /\ Status!HealthRank("healthy") = 0
  BY DEF Status!HealthRank
<1>2. severest \in healths \cup {"healthy"} /\ Severest(severest)
  BY <1>1
<1>3. ASSUME NEW h \in healths \cup {"healthy"}, Severest(h) PROVE h = severest
  BY <1>1, <1>3
<1>4. Status!AggregateHealth(healths) = CHOOSE h \in healths \cup {"healthy"} : Severest(h)
  BY DEF Status!AggregateHealth
<1> HIDE DEF severest, Severest
<1>5. Status!AggregateHealth(healths) = severest
  BY <1>2, <1>3, <1>4
<1> QED
  BY <1>5 DEF severest

(* What finalizing makes of the results, when the service is among them and  *)
(* every other component has a result of a probe.                            *)
LEMMA FinalizeFollows ==
  ASSUME NEW res, "service" \in DOMAIN res,
         \A c \in DOMAIN res \ {"service"} :
           res[c] \in {"healthy", "unhealthy", "notfound", "error", "timeout"}
  PROVE  LET runtime == Status!CanonicalRuntimeState(snap)
             parts == DOMAIN res \ {"service"}
             Saw(cs, rs) == \E c \in cs : res[c] \in rs
             made == Status!Finalize(res)
         IN  /\ made.aggregate =
                  IF runtime = "failed" THEN "failed"
                  ELSE IF Saw(parts, {"notfound", "unhealthy"}) THEN "degraded"
                  ELSE IF runtime = "unknown" \/ Saw(DOMAIN res, {"timeout", "stale", "error"})
                         THEN "unknown" ELSE "healthy"
             /\ made.orchestration # "failed"
             /\ made.exit = 0 => /\ runtime \notin {"failed", "unknown"}
                                 /\ \A c \in parts : res[c] = "healthy"
<1> DEFINE runtime == Status!CanonicalRuntimeState(snap)
           parts == DOMAIN res \ {"service"}
           silent == {"timeout", "stale", "error"}
           Of(cs) == {Status!DeriveNodeHealth(c, res[c], runtime) : c \in cs}
                       \cup UNION {Status!Diagnostics(c, res[c]) : c \in cs}
           aggregate == Status!AggregateHealth(Of(DOMAIN res))
           made == Status!Finalize(res)
<1>1. /\ made.aggregate = aggregate
      /\ made.orchestration = Status!AggregateHealth(Of(parts))
      /\ made.exit = IF aggregate = "healthy" THEN 0 ELSE 3
  BY DEF Status!Finalize
<1>2. \A c \in parts :
        LET health == Status!DeriveNodeHealth(c, res[c], runtime)
        IN  /\ health = IF res[c] \in {"notfound", "unhealthy"} THEN "degraded"
                        ELSE IF res[c] \in silent THEN "unknown" ELSE "healthy"
            /\ Status!Diagnostics(c, res[c]) = {health} \ {"healthy"}
  BY DEF Status!DeriveNodeHealth, Status!HealthFromEvidence, Status!Diagnostics
<1>3. /\ Status!DeriveNodeHealth("service", res["service"], runtime) =
           IF runtime \in {"failed", "unknown"} THEN runtime ELSE "healthy"
      /\ Status!Diagnostics("service", res["service"]) =
           IF res["service"] \in silent THEN {"unknown"} ELSE {}
  BY DEF Status!DeriveNodeHealth, Status!Diagnostics
<1> HIDE DEF runtime
<1>4. \A h : h \in Of(parts) <=>
        \E c \in parts : h = IF res[c] \in {"notfound", "unhealthy"} THEN "degraded"
                             ELSE IF res[c] \in silent THEN "unknown" ELSE "healthy"
  BY <1>2
<1>5. \A h : h \in Of(DOMAIN res) <=>
        \/ h \in Of(parts)
        \/ h = IF runtime \in {"failed", "unknown"} THEN runtime ELSE "healthy"
        \/ h = "unknown" /\ res["service"] \in silent
  BY <1>3
<1> HIDE DEF Of, made, aggregate
<1>6. Of(parts) \subseteq {"degraded", "unknown", "healthy"}
  BY <1>4
<1>7. Of(DOMAIN res) \subseteq {"failed", "degraded", "unknown", "healthy"}
  BY <1>5, <1>6
<1>8. Status!AggregateHealth(Of(parts)) # "failed"
  BY <1>6, SeverestHealth
<1>9. aggregate = IF "failed" \in Of(DOMAIN res) THEN "failed"
                  ELSE IF "degraded" \in Of(DOMAIN res) THEN "degraded"
                  ELSE IF "unknown" \in Of(DOMAIN res) THEN "unknown" ELSE "healthy"
  BY <1>7, SeverestHealth DEF aggregate
<1>10. /\ "failed" \in Of(DOMAIN res) <=> runtime = "failed"
       /\ "degraded" \in Of(DOMAIN res) <=> \E c \in parts : res[c] \in {"notfound", "unhealthy"}
       /\ "unknown" \in Of(DOMAIN res) <=>
            runtime = "unknown" \/ \E c \in DOMAIN res : res[c] \in silent
  BY <1>4, <1>5
<1>11. made.exit = 0 => aggregate = "healthy"
  BY <1>1
<1>12. aggregate = "healthy" => /\ runtime \notin {"failed", "unknown"}
                                /\ \A c \in parts : res[c] = "healthy"
  BY <1>9, <1>10
<1> QED
  BY <1>1, <1>8, <1>9, <1>10, <1>11, <1>12 DEF runtime, made

(* The relationships that are drawn, one by one.                             *)
LEMMA RelationshipFields ==
  ASSUME NEW ns, NEW a, NEW b, NEW relation, NEW primary
  PROVE  LET r == Status!Relationship(ns, a, b, relation, primary)
         IN  r.ns = ns /\ r.from = a /\ r.to = b /\ r.relation = relation /\ r.primary = primary
BY DEF Status!Relationship

Controls(a, relation, b) == Status!Relationship("control", a, b, relation, TRUE)

LEMMA TurnedFields ==
  ASSUME NEW r
  PROVE  Status!Turned(r).from = r.to /\ Status!Turned(r).to = r.from
BY DEF Status!Turned, Status!Relationship

LEMMA ControlEdges ==
  ASSUME NEW u, NEW e
  PROVE  e \in Status!BuildControl(u) <=>
           \/ e = Controls("servicectl-api", "controls", "s6")
           \/ e = Controls("s6", "supervises", "sys-orchestrd")
           \/ e = Controls("sys-orchestrd", "controls", "dinit")
           \/ IF u.helper THEN \/ e = Controls("dinit", "supervises", "sys-notifyd")
                               \/ e = Controls("sys-notifyd", "supervises", "service")
                          ELSE e = Controls("dinit", "supervises", "service")
BY DEF Status!BuildControl, Controls

LEMMA ControlFields ==
  ASSUME NEW a, NEW relation, NEW b
  PROVE  LET r == Controls(a, relation, b)
         IN  r.ns = "control" /\ r.from = a /\ r.to = b /\ r.relation = relation /\ r.primary
BY DEF Status!Relationship, Controls

LEMMA AroundEdges ==
  ASSUME NEW u, NEW e
  PROVE  e \in Status!BuildAround(u) <=>
           \/ e = Status!Relationship("bus", "sys-orchestrd", "sysvbus", "observes", FALSE)
           \/ e = Status!Relationship("observation", "sysvisiond", "service", "observes", FALSE)
           \/ e = Status!Relationship("accounting", "sys-cgroupd", "service", "accounts", FALSE)
           \/ u.bus /\ e = Status!Relationship("bus", "dbus", "service", "activates", FALSE)
BY DEF Status!BuildAround

LEMMA AroundFields ==
  ASSUME NEW u
  PROVE  /\ \E e \in Status!BuildAround(u) : e.from = "sys-orchestrd" /\ e.to = "sysvbus"
         /\ \E e \in Status!BuildAround(u) : e.from = "sysvisiond" /\ e.to = "service"
         /\ \E e \in Status!BuildAround(u) : e.from = "sys-cgroupd" /\ e.to = "service"
         /\ u.bus => \E e \in Status!BuildAround(u) : e.from = "dbus" /\ e.to = "service"
         /\ \A e \in Status!BuildAround(u) :
              /\ e.from \in Status!Components(u) /\ e.to \in Status!Components(u)
              /\ ~e.primary /\ e.ns \in Status!Namespaces
              /\ Status!RelationUsesNamespace(e)
<1> DEFINE e1 == Status!Relationship("bus", "sys-orchestrd", "sysvbus", "observes", FALSE)
           e2 == Status!Relationship("observation", "sysvisiond", "service", "observes", FALSE)
           e3 == Status!Relationship("accounting", "sys-cgroupd", "service", "accounts", FALSE)
           e4 == Status!Relationship("bus", "dbus", "service", "activates", FALSE)
<1>1. /\ e1.ns = "bus" /\ e1.from = "sys-orchestrd" /\ e1.to = "sysvbus"
      /\ e1.relation = "observes" /\ ~e1.primary
  BY DEF Status!Relationship
<1>2. /\ e2.ns = "observation" /\ e2.from = "sysvisiond" /\ e2.to = "service"
      /\ e2.relation = "observes" /\ ~e2.primary
  BY DEF Status!Relationship
<1>3. /\ e3.ns = "accounting" /\ e3.from = "sys-cgroupd" /\ e3.to = "service"
      /\ e3.relation = "accounts" /\ ~e3.primary
  BY DEF Status!Relationship
<1>4. /\ e4.ns = "bus" /\ e4.from = "dbus" /\ e4.to = "service"
      /\ e4.relation = "activates" /\ ~e4.primary
  BY DEF Status!Relationship
<1>5. \A e : e \in Status!BuildAround(u) <=> e = e1 \/ e = e2 \/ e = e3 \/ (u.bus /\ e = e4)
  BY AroundEdges
<1> HIDE DEF e1, e2, e3, e4
<1> QED
  BY <1>1, <1>2, <1>3, <1>4, <1>5 DEF Status!Components, Status!Namespaces, Status!RelationUsesNamespace

LEMMA FiniteDrawing ==
  ASSUME NEW u
  PROVE  IsFiniteSet(Status!BuildControl(u) \cup Status!BuildAround(u))
<1>1. ASSUME NEW a, NEW b PROVE IsFiniteSet({a, b})
  <2>1. IsFiniteSet({a} \cup {b})
    BY FS_Singleton, FS_Union
  <2>2. {a} \cup {b} = {a, b}
    OBVIOUS
  <2> QED
    BY <2>1, <2>2
<1>2. ASSUME NEW a, NEW b, NEW c PROVE IsFiniteSet({a, b, c})
  <2>1. IsFiniteSet({a, b}) /\ IsFiniteSet({c})
    BY <1>1, FS_Singleton
  <2>2. IsFiniteSet({a, b} \cup {c})
    BY <2>1, FS_Union
  <2>3. {a, b} \cup {c} = {a, b, c}
    OBVIOUS
  <2> QED
    BY <2>2, <2>3
<1>3. IsFiniteSet(Status!BuildControl(u))
  <2> DEFINE first == {Controls("servicectl-api", "controls", "s6"), Controls("s6", "supervises", "sys-orchestrd"),
                       Controls("sys-orchestrd", "controls", "dinit")}
             more == IF u.helper THEN {Controls("dinit", "supervises", "sys-notifyd"),
                                       Controls("sys-notifyd", "supervises", "service")}
                     ELSE {Controls("dinit", "supervises", "service")}
  <2>1. Status!BuildControl(u) = first \cup more
    BY ControlEdges
  <2>2. IsFiniteSet(first)
    BY <1>2
  <2>3. IsFiniteSet(more)
    BY <1>1, FS_Singleton
  <2> HIDE DEF first, more
  <2> QED
    BY <2>1, <2>2, <2>3, FS_Union
<1>4. IsFiniteSet(Status!BuildAround(u))
  <2> DEFINE first == {Status!Relationship("bus", "sys-orchestrd", "sysvbus", "observes", FALSE),
                       Status!Relationship("observation", "sysvisiond", "service", "observes", FALSE),
                       Status!Relationship("accounting", "sys-cgroupd", "service", "accounts", FALSE)}
             more == IF u.bus THEN {Status!Relationship("bus", "dbus", "service", "activates", FALSE)} ELSE {}
  <2>1. Status!BuildAround(u) = first \cup more
    BY AroundEdges
  <2>2. IsFiniteSet(first)
    BY <1>2
  <2>3. IsFiniteSet(more)
    BY FS_EmptySet, FS_Singleton
  <2> HIDE DEF first, more
  <2> QED
    BY <2>1, <2>2, <2>3, FS_Union
<1> QED
  BY <1>3, <1>4, FS_Union

(* The nodes of the chain.                                                   *)
Chain(u) ==
  {"servicectl-api", "s6", "sys-orchestrd", "dinit", "service"} \cup
  (IF u.helper THEN {"sys-notifyd"} ELSE {})

LEMMA ControlIsPath ==
  ASSUME NEW u, NEW edges, edges = Status!BuildControl(u)
  PROVE  /\ Status!Ends(edges) = Chain(u)
         /\ \A d, e \in edges : d.from = e.from \/ d.to = e.to => d = e
         /\ Status!Roots(edges) = {"servicectl-api"}
         /\ Status!Terminals(edges) = {"service"}
         /\ Status!Walk(edges, "servicectl-api") = Chain(u)
<1> DEFINE Has(a, b) == \E e \in edges : e.from = a /\ e.to = b
<1>1. /\ Has("servicectl-api", "s6") /\ Has("s6", "sys-orchestrd")
      /\ Has("sys-orchestrd", "dinit")
      /\ IF u.helper THEN Has("dinit", "sys-notifyd") /\ Has("sys-notifyd", "service")
                     ELSE Has("dinit", "service")
  BY ControlEdges, ControlFields
<1>2. \A e \in edges :
        \/ e.from = "servicectl-api" /\ e.to = "s6"
        \/ e.from = "s6" /\ e.to = "sys-orchestrd"
        \/ e.from = "sys-orchestrd" /\ e.to = "dinit"
        \/ e.from = "dinit" /\ e.to = IF u.helper THEN "sys-notifyd" ELSE "service"
        \/ u.helper /\ e.from = "sys-notifyd" /\ e.to = "service"
  BY ControlEdges, ControlFields
<1>3. \A d, e \in edges : d.from = e.from \/ d.to = e.to => d = e
  BY ControlEdges, ControlFields
<1>4. Status!Ends(edges) = Chain(u)
  <2>1. \A n \in Chain(u) : \E e \in edges : n = e.from \/ n = e.to
    BY <1>1 DEF Chain
  <2>2. \A e \in edges : e.from \in Chain(u) /\ e.to \in Chain(u)
    BY <1>2 DEF Chain
  <2> QED
    BY <2>1, <2>2 DEF Status!Ends
<1>5. Status!Roots(edges) = {"servicectl-api"}
  BY <1>1, <1>2, <1>4 DEF Status!Roots, Chain
<1>6. Status!Terminals(edges) = {"service"}
  BY <1>1, <1>2, <1>4 DEF Status!Terminals, Chain
<1>7. Status!Walk(edges, "servicectl-api") = Chain(u)
  <2>1. ASSUME NEW S \in SUBSET (Chain(u) \ {"servicectl-api"}),
               \A e \in edges : e.to \in S => e.from \in S
        PROVE  S = {}
    <3>1. "servicectl-api" \notin S
      OBVIOUS
    <3>2. "s6" \notin S
      BY <1>1, <2>1, <3>1
    <3>3. "sys-orchestrd" \notin S
      BY <1>1, <2>1, <3>2
    <3>4. "dinit" \notin S
      BY <1>1, <2>1, <3>3
    <3>5. u.helper => "sys-notifyd" \notin S
      BY <1>1, <2>1, <3>4
    <3>6. "service" \notin S
      BY <1>1, <2>1, <3>4, <3>5
    <3> QED
      BY <3>2, <3>3, <3>4, <3>5, <3>6 DEF Chain
  <2>2. UNION {S \in SUBSET (Chain(u) \ {"servicectl-api"}) : \A e \in edges : e.to \in S => e.from \in S} = {}
    BY <2>1
  <2> QED
    BY <1>4, <2>2 DEF Status!Walk, Status!Reached
<1> QED
  BY <1>3, <1>4, <1>5, <1>6, <1>7

(* From the service every component is reached along relationships, in       *)
(* either direction.                                                         *)
LEMMA DrawingConnected ==
  ASSUME NEW u, NEW rels, rels = Status!BuildControl(u) \cup Status!BuildAround(u)
  PROVE  Status!Connected(Status!Components(u), rels)
<1> DEFINE ways == rels \cup {Status!Turned(r) : r \in rels}
           comps == Status!Components(u)
<1>1. \A r \in rels : \A S : (\A e \in ways : e.to \in S => e.from \in S) => (r.from \in S <=> r.to \in S)
  BY TurnedFields
<1>2. ASSUME NEW S \in SUBSET (comps \ {"service"}),
             \A e \in ways : e.to \in S => e.from \in S
      PROVE  S = {}
  <2> DEFINE Joined(a, b) == a \in S <=> b \in S
  <2>1. \A r \in rels : Joined(r.from, r.to)
    BY <1>1, <1>2
  <2> HIDE DEF ways
  <2>2. \A r : r \in Status!BuildControl(u) \/ r \in Status!BuildAround(u) => r \in rels
    OBVIOUS
  <2>3. /\ Joined("servicectl-api", "s6") /\ Joined("s6", "sys-orchestrd") /\ Joined("sys-orchestrd", "dinit")
        /\ IF u.helper THEN Joined("dinit", "sys-notifyd") /\ Joined("sys-notifyd", "service")
                       ELSE Joined("dinit", "service")
    BY <2>1, <2>2, ControlEdges, ControlFields
  <2>4. /\ Joined("sys-orchestrd", "sysvbus") /\ Joined("sysvisiond", "service")
        /\ Joined("sys-cgroupd", "service") /\ (u.bus => Joined("dbus", "service"))
    <3>1. \A e \in Status!BuildAround(u) : Joined(e.from, e.to)
      BY <2>1, <2>2
    <3>2. PICK e \in Status!BuildAround(u) : e.from = "sys-orchestrd" /\ e.to = "sysvbus"
      BY AroundFields
    <3>3. PICK f \in Status!BuildAround(u) : f.from = "sysvisiond" /\ f.to = "service"
      BY AroundFields
    <3>4. PICK g \in Status!BuildAround(u) : g.from = "sys-cgroupd" /\ g.to = "service"
      BY AroundFields
    <3>5. ASSUME u.bus PROVE \E h \in Status!BuildAround(u) : h.from = "dbus" /\ h.to = "service"
      BY <3>5, AroundFields
    <3> QED
      BY <3>1, <3>2, <3>3, <3>4, <3>5
  <2> QED
    BY <2>3, <2>4 DEF Status!Components
<1> HIDE DEF ways, comps
<1>3. UNION {S \in SUBSET (comps \ {"service"}) : \A e \in ways : e.to \in S => e.from \in S} = {}
  BY <1>2
<1>4. Status!Reached(comps, ways, "service") = comps
  BY <1>3 DEF Status!Reached
<1> QED
  BY <1>4 DEF ways, comps, Status!Connected

(* Every manifest that is built passes the validation.                       *)
LEMMA BuiltIsValid ==
  ASSUME NEW u, NEW owner, NEW m, m = Status!BuildStatusParticipationManifest(u, owner)
  PROVE  Drawn(m) /\ Status!ValidateStatusParticipationManifest(m)
<1> DEFINE control == Status!BuildControl(u)
           around == Status!BuildAround(u)
<1>1. m.complete /\ m.mode = u.mode
  BY DEF Status!BuildStatusParticipationManifest
<1>2. m = [complete |-> m.complete, unit |-> m.unit, mode |-> m.mode, owner |-> m.owner,
           applicable |-> m.applicable, scope |-> m.scope, rels |-> m.rels]
  BY DEF Status!BuildStatusParticipationManifest
<1>3. \A c \in DOMAIN m.scope : m.scope[c] = m.mode \/ (c = "sys-cgroupd" /\ m.scope[c] = "system")
  <2> PICK comps : /\ m.scope = [c \in comps |-> IF c = "sys-cgroupd" THEN "system" ELSE u.mode]
                   /\ m.mode = u.mode
    BY DEF Status!BuildStatusParticipationManifest
  <2> QED
    OBVIOUS
<1>4. CASE owner = Status!Nobody
  <2>1. m.applicable = {} /\ m.rels = {} /\ DOMAIN m.scope = {"service"}
    BY <1>4 DEF Status!BuildStatusParticipationManifest
  <2>2. Drawn(m)
    BY <1>2, <2>1, FS_EmptySet DEF Drawn
  <2>3. Status!Primary(m.rels) = {} /\ "control" \notin m.applicable
    BY <2>1 DEF Status!Primary
  <2>4. Status!Connected(DOMAIN m.scope, m.rels)
    <3> DEFINE ways == m.rels \cup {Status!Turned(r) : r \in m.rels}
    <3>1. Status!Reached({"service"}, ways, "service") = {"service"}
      BY DEF Status!Reached
    <3> QED
      BY <2>1, <3>1 DEF Status!Connected
  <2> QED
    BY <1>1, <1>3, <2>1, <2>2, <2>3, <2>4 DEF Status!ValidateStatusParticipationManifest
<1>5. CASE owner # Status!Nobody
  <2>1. /\ m.applicable = Status!Namespaces /\ m.rels = control \cup around
        /\ DOMAIN m.scope = Status!Components(u)
    BY <1>5 DEF Status!BuildStatusParticipationManifest
  <2>2. \A r \in control :
          /\ r.from \in Status!Components(u) /\ r.to \in Status!Components(u)
          /\ r.primary /\ r.ns = "control" /\ r.relation \in {"controls", "supervises"}
    BY ControlEdges, ControlFields DEF Status!Components
  <2>3. \A r \in around :
          /\ r.from \in Status!Components(u) /\ r.to \in Status!Components(u)
          /\ ~r.primary /\ r.ns \in Status!Namespaces
          /\ Status!RelationUsesNamespace(r)
    BY AroundFields
  <2>4. \A r \in m.rels : Status!RelationUsesNamespace(r)
    BY <2>1, <2>2, <2>3 DEF Status!RelationUsesNamespace
  <2>6. Drawn(m)
    BY <1>2, <2>1, FiniteDrawing DEF Drawn
  <2>7. Status!Primary(m.rels) = control
    BY <2>1, <2>2, <2>3 DEF Status!Primary
  <2>8. control # {}
    BY ControlEdges
  <2>9. Status!PrimaryPath(m.rels)
    <3>1. Status!Cardinality({"servicectl-api"}) = 1
      BY FS_Singleton, SameCardinality
    <3> QED
      BY <2>7, <3>1, ControlIsPath DEF Status!PrimaryPath
  <2>10. Status!Connected(DOMAIN m.scope, m.rels)
    BY <2>1, DrawingConnected
  <2>11. "service" \in DOMAIN m.scope
    BY <2>1 DEF Status!Components
  <2>12. \A r \in m.rels : /\ r.from \in DOMAIN m.scope /\ r.to \in DOMAIN m.scope
                           /\ (r.primary => r.ns = "control") /\ r.ns \in m.applicable
    BY <2>1, <2>2, <2>3 DEF Status!Namespaces
  <2> QED
    BY <1>1, <1>3, <2>4, <2>6, <2>7, <2>8, <2>9, <2>10, <2>11, <2>12
    DEF Status!ValidateStatusParticipationManifest
<1> QED
  BY <1>4, <1>5

LEMMA RedrawnFinite ==
  ASSUME NEW m, IsFiniteSet(m.rels), NEW rels \in Status!Redrawn(m)
  PROVE  IsFiniteSet(rels)
<1>1. ASSUME NEW r \in m.rels PROVE IsFiniteSet(m.rels \ {r})
  BY FS_RemoveElement
<1>2. ASSUME NEW r \in m.rels PROVE IsFiniteSet((m.rels \ {r}) \cup {Status!Turned(r)})
  BY <1>1, FS_AddElement
<1>3. ASSUME NEW r PROVE IsFiniteSet(m.rels \cup {r})
  BY FS_AddElement
<1> QED
  BY <1>1, <1>2, <1>3, Zenon DEF Status!Redrawn

(* However the answer differs from the manifest, it is drawn as one.         *)
LEMMA AnswersDrawn ==
  ASSUME NEW m, Drawn(m), NEW a \in Status!Answers(m)
  PROVE  Drawn(a)
<1> DEFINE Fields(x) == x = [complete |-> x.complete, unit |-> x.unit, mode |-> x.mode, owner |-> x.owner,
                             applicable |-> x.applicable, scope |-> x.scope, rels |-> x.rels]
<1>1. Fields(m) /\ IsFiniteSet(m.rels)
  BY DEF Drawn
<1>2. ASSUME NEW value,
             \/ a = [m EXCEPT !.complete = value] \/ a = [m EXCEPT !.unit = value]
             \/ a = [m EXCEPT !.mode = value] \/ a = [m EXCEPT !.applicable = value]
             \/ a = [m EXCEPT !.scope = value]
      PROVE  Drawn(a)
  <2>1. Fields(a) /\ a.rels = m.rels
    BY <1>1, <1>2
  <2> QED
    BY <1>1, <2>1 DEF Drawn
<1>3. ASSUME NEW rels \in Status!Redrawn(m), a = [m EXCEPT !.rels = rels]
      PROVE  Drawn(a)
  <2>1. Fields(a) /\ a.rels = rels
    BY <1>1, <1>3
  <2>2. IsFiniteSet(rels)
    BY <1>1, <1>3, RedrawnFinite
  <2> QED
    BY <2>1, <2>2 DEF Drawn
<1>4. \/ a = m \/ a = [m EXCEPT !.complete = FALSE] \/ a = [m EXCEPT !.unit = "other"]
      \/ \E value : a = [m EXCEPT !.mode = value]
      \/ \E value : a = [m EXCEPT !.applicable = value]
      \/ \E value : a = [m EXCEPT !.scope = value]
      \/ \E rels \in Status!Redrawn(m) : a = [m EXCEPT !.rels = rels]
  BY DEF Status!Answers
<1> QED
  BY <1>2, <1>3, <1>4

(* The invariant holds in the beginning, and every step keeps it.            *)
LEMMA StatusBegins ==
  ASSUME Status!Parameters, Status!Init
  PROVE  StatusKnown
<1>1. Status!TypeOK
  BY DEF Status!Init, Status!TypeOK, Status!Parameters
<1>2. pc = "resolve" /\ results = <<>>
  BY DEF Status!Init
<1>3. Status!BuiltManifestsValidate
  <2> SUFFICES ASSUME NEW owner
               PROVE  Status!ValidateManifestIdentity(Status!BuildStatusParticipationManifest(unit, owner))
    BY DEF Status!BuiltManifestsValidate
  <2> DEFINE m == Status!BuildStatusParticipationManifest(unit, owner)
  <2>1. m.unit = unit.name /\ m.mode = unit.mode
    BY DEF Status!BuildStatusParticipationManifest
  <2>2. Status!ValidateStatusParticipationManifest(m)
    BY BuiltIsValid
  <2> QED
    BY <2>1, <2>2 DEF Status!ValidateManifestIdentity
<1> QED
  BY <1>1, <1>2, <1>3 DEF StatusKnown, Status!HealthFollowsEvidence

LEMMA BuildersKeepStatus ==
  ASSUME StatusKnown, NEW owner, Status!Built(owner) \/ Status!BuilderFails, pc \in {"lists", "groups", "answer"},
         UNCHANGED <<unit, own, on, runner, changes, snap, results>>
  PROVE  StatusKnown'
<1>1. Status!TypeOK' /\ pc' \in {"answer", "lists", "done"} /\ results = <<>> /\ results' = <<>>
  BY DEF StatusKnown, Status!TypeOK, Status!Built, Status!BuilderFails, Status!End
<1>2. pc' = "answer" => manifest' = Status!BuildStatusParticipationManifest(unit, owner)
  BY DEF Status!Built, Status!BuilderFails, Status!End
<1>3. pc' = "answer" => Drawn(manifest')
  BY <1>2, BuiltIsValid
<1> QED
  BY <1>1, <1>3 DEF StatusKnown, Status!BuiltManifestsValidate, Status!HealthFollowsEvidence, Drawn

LEMMA ProbeKeepsStatus ==
  ASSUME StatusKnown, Status!Probe
  PROVE  StatusKnown'
<1> DEFINE graded == {"unhealthy", "notfound", "error", "timeout"}
           comps == DOMAIN manifest.scope
<1>1. /\ Status!ValidateStatusParticipationManifest(manifest) /\ pc' = "done" /\ pc = "probe"
      /\ UNCHANGED <<unit, own, on, runner, changes, via, lists, snap, manifest>>
  BY DEF Status!Probe, StatusKnown, Status!plane, Status!ValidateManifestIdentity
<1>2. Status!ValidateGraph(manifest) /\ "service" \in comps
  BY <1>1 DEF Status!ValidateStatusParticipationManifest, Status!ValidateGraph
<1>3. PICK bad \in SUBSET comps : \E res \in [bad -> graded] :
        results' = [c \in comps |-> IF c \in bad THEN res[c]
                                  ELSE IF c \in {"service", "sys-notifyd"}
                                         THEN CHOOSE o \in Status!ProbeOutcomes(c) : TRUE
                                         ELSE "healthy"]
  BY DEF Status!Probe
<1>4. DOMAIN results' = comps
  BY <1>3
<1>5. \A c \in comps \ {"service"} : results'[c] \in graded \cup {"healthy"}
  <2>1. (CHOOSE o \in Status!ProbeOutcomes("sys-notifyd") : TRUE) \in {"unhealthy", "error", "healthy"}
    BY DEF Status!ProbeOutcomes, Status!ProbeHelper
  <2> QED
    BY <1>3, <2>1
<1>6. verdict' = Status!Finalize(results')
  BY <1>2 DEF Status!Probe
<1>7. Status!TypeOK'
  BY <1>1 DEF StatusKnown, Status!TypeOK
<1>8. Status!HealthFollowsEvidence'
  BY <1>1, <1>2, <1>4, <1>5, <1>6, FinalizeFollows DEF Status!HealthFollowsEvidence
<1> QED
  BY <1>1, <1>7, <1>8 DEF StatusKnown, Status!BuiltManifestsValidate

LEMMA StatusGoesOn ==
  ASSUME Status!Parameters, StatusKnown, [Status!Next]_(Status!vars)
  PROVE  StatusKnown'
<1>1. CASE Status!Change
  <2>1. /\ pc \in {"groups", "lists"} /\ pc' = pc
        /\ UNCHANGED <<unit, via, lists, snap, manifest, results, verdict>>
    BY <1>1 DEF Status!Change, Status!command
  <2>2. changes' \in 0 .. MaxChanges
    BY <1>1 DEF StatusKnown, Status!TypeOK, Status!Change, Status!Parameters
  <2>3. own' \in BOOLEAN /\ on' \subseteq Holders /\ runner' \in BOOLEAN
    BY <1>1 DEF StatusKnown, Status!TypeOK, Status!Change
  <2> QED
    BY <2>1, <2>2, <2>3 DEF StatusKnown, Status!TypeOK, Status!BuiltManifestsValidate, Status!HealthFollowsEvidence
<1>2. CASE Status!Resolve \/ Status!QuerySnapshot
  <2>1. /\ pc \in {"resolve", "snapshot"} /\ pc' \in {"snapshot", "lists", "done"} /\ results' = results
        /\ (snap' = snap \/ snap' \in Snapshots)
        /\ UNCHANGED <<unit, own, on, runner, changes, via>>
    BY <1>2 DEF Status!Resolve, Status!QuerySnapshot, Status!End, Status!plane
  <2>2. Status!TypeOK'
    BY <2>1 DEF StatusKnown, Status!TypeOK
  <2> QED
    BY <2>1, <2>2 DEF StatusKnown, Status!BuiltManifestsValidate, Status!HealthFollowsEvidence
<1>3. CASE Status!ReadLists
  <2>1. pc = "lists" /\ UNCHANGED <<unit, own, on, runner, changes, snap, results>>
    BY <1>3 DEF Status!ReadLists, Status!plane
  <2>2. CASE Status!BuilderFails \/ \E owner : Status!Built(owner)
    BY <2>1, <2>2, BuildersKeepStatus
  <2>3. CASE pc' = "groups" /\ UNCHANGED <<via, manifest, verdict>>
    <3>1. Status!TypeOK'
      BY <2>1, <2>3 DEF StatusKnown, Status!TypeOK
    <3> QED
      BY <2>1, <2>3, <3>1 DEF StatusKnown, Status!BuiltManifestsValidate, Status!HealthFollowsEvidence
  <2> QED
    BY <1>3, <2>2, <2>3 DEF Status!ReadLists
<1>4. CASE Status!ReadGroups
  BY <1>4, BuildersKeepStatus DEF Status!ReadGroups, Status!plane
<1>5. CASE Status!Answer
  <2>1. pc = "answer" /\ UNCHANGED <<unit, own, on, runner, changes, snap, results>>
    BY <1>5 DEF Status!Answer, Status!plane
  <2>2. PICK m \in Status!Answers(manifest) \cup {manifest} :
          IF Status!ValidateManifestIdentity(m)
            THEN pc' = "probe" /\ manifest' = m /\ UNCHANGED <<via, lists, verdict>>
            ELSE Status!BuilderFails
    BY <1>5 DEF Status!Answer
  <2>3. CASE ~Status!ValidateManifestIdentity(m)
    BY <2>1, <2>2, <2>3, BuildersKeepStatus
  <2>4. CASE Status!ValidateManifestIdentity(m)
    <3>1. pc' = "probe" /\ manifest' = m /\ UNCHANGED <<via, lists, verdict>>
      BY <2>2, <2>4
    <3>2. Drawn(m)
      BY <2>1, AnswersDrawn DEF StatusKnown
    <3>3. Status!TypeOK'
      BY <2>1, <3>1 DEF StatusKnown, Status!TypeOK
    <3>4. Status!ValidateManifestIdentity(manifest)'
      BY <2>1, <2>4, <3>1 DEF Status!ValidateManifestIdentity
    <3>5. Drawn(manifest)'
      BY <3>1, <3>2
    <3> QED
      BY <2>1, <3>1, <3>3, <3>4, <3>5 DEF StatusKnown, Status!BuiltManifestsValidate, Status!HealthFollowsEvidence
  <2> QED
    BY <2>3, <2>4
<1>6. CASE Status!Probe
  BY <1>6, ProbeKeepsStatus
<1>7. CASE UNCHANGED Status!vars
  BY <1>7 DEF Status!vars, StatusKnown, Status!TypeOK, Status!BuiltManifestsValidate, Drawn,
     Status!ValidateManifestIdentity, Status!HealthFollowsEvidence
<1> QED
  BY <1>1, <1>2, <1>3, <1>4, <1>5, <1>6, <1>7 DEF Status!Next

(* What the validation accepts has the shape that is relied on.              *)
LEMMA AcceptedHasShape ==
  ASSUME StatusKnown
  PROVE  Status!AcceptedIsSound
<1> SUFFICES ASSUME pc = "probe" PROVE Status!AcceptedIsSound
  BY DEF Status!AcceptedIsSound
<1> DEFINE comps == DOMAIN manifest.scope
           rels == manifest.rels
           edges == Status!Primary(rels)
<1>1. /\ Drawn(manifest) /\ Status!ValidateStatusParticipationManifest(manifest)
      /\ manifest.unit = unit.name /\ manifest.mode = unit.mode
  BY DEF StatusKnown, Status!ValidateManifestIdentity
<1>2. ASSUME NEW cut \in SUBSET comps, cut # {}, cut # comps
      PROVE  \E e \in rels : (e.from \in cut) # (e.to \in cut)
  <2> DEFINE ways == rels \cup {Status!Turned(r) : r \in rels}
  <2>2. \A r \in rels : r.from \in comps /\ r.to \in comps
    BY <1>1 DEF Status!ValidateStatusParticipationManifest
  <2>3. Status!Reached(comps, ways, "service") = comps
    BY <1>1 DEF Status!ValidateStatusParticipationManifest, Status!Connected
  <2>4. \A e \in ways : e.from \in comps
    BY <2>2, TurnedFields
  <2>5. \A e \in ways : \E r \in rels :
        (e.from = r.from /\ e.to = r.to) \/ (e.from = r.to /\ e.to = r.from)
    BY TurnedFields
  <2> HIDE DEF ways, comps
  <2>6. PICK e \in ways : (e.from \in cut) # (e.to \in cut)
    BY <1>2, <2>3, <2>4, ReachedIsWhole
  <2> QED
    BY <2>5, <2>6
<1>3. ASSUME edges # {}
      PROVE  /\ Status!Cardinality(edges) = Status!Cardinality(Status!Ends(edges)) - 1
             /\ \A cut \in SUBSET Status!Ends(edges) : cut # {} /\ cut # Status!Ends(edges) =>
                  \E e \in edges : (e.from \in cut) # (e.to \in cut)
             /\ \A d, e \in edges : d.from = e.from \/ d.to = e.to => d = e
             /\ "service" \in Status!Ends(edges)
             /\ \A e \in edges : e.from # "service"
  <2>1. Status!PrimaryPath(rels) /\ IsFiniteSet(rels)
    BY <1>1, <1>3 DEF Status!ValidateStatusParticipationManifest, Drawn
  <2> QED
    BY <2>1, PathIsChain, SameCardinality
<1> HIDE DEF edges
<1> QED
  BY <1>1, <1>2, <1>3 DEF Status!AcceptedIsSound, edges

-----------------------------------------------------------------------------
(* UnitStart. *)

(* What u leads to over all its dependencies.                                *)
Beyond(u) == Start!Closure(hard, Start!Deps(hard, u))

(* The calls of reverseRestartClosure's visit and of recursiveInstall, and   *)
(* those of recursiveStart.                                                  *)
CallSet == [unit : Start!AllUnits, todo : SUBSET Start!AllUnits]
FrameSet ==
  [unit : Start!AllUnits, hard : SUBSET Start!AllUnits, soft : SUBSET Start!AllUnits, dep : 0 .. N,
   via : {"none", "hard", "soft"}]

StartTyped ==
  /\ hard \in SUBSET Start!Pairs /\ soft \in SUBSET Start!Pairs /\ external \in SUBSET Start!AllUnits
  /\ up \in SUBSET Start!AllUnits /\ known \in SUBSET Start!AllUnits /\ defs \in SUBSET Start!AllUnits
  /\ action \in {"start", "restart"} /\ before \in SUBSET Start!AllUnits
  /\ met \in SUBSET Start!AllUnits /\ seen \in SUBSET Start!AllUnits /\ visited \in SUBSET Start!AllUnits
  /\ faults \in Nat /\ culprits \in SUBSET Start!AllUnits /\ refused \in BOOLEAN
  /\ stops \in Seq(Start!AllUnits) /\ work \in Seq(Start!AllUnits)
  /\ visits \in Seq(CallSet) /\ inst \in Seq(CallSet) /\ stack \in Seq(FrameSet)
  /\ pc \in {"begin", "visit", "stop", "install", "start", "unwind", "ok", "fail"}

(* What is there at which step of the command.                               *)
Phases ==
  /\ up \subseteq known
  /\ pc = "visit" <=> visits # <<>>
  /\ pc = "install" <=> inst # <<>>
  /\ pc \in {"begin", "visit"} => work = <<>>
  /\ pc \in {"install", "start", "unwind"} => work # <<>> /\ stops = <<>>
  /\ pc = "begin" => stops = <<>> /\ met = {}
  /\ stack # <<>> => pc \in {"install", "start", "unwind"}
  /\ pc = "fail" => stack = <<>>
  /\ pc = "ok" => work = <<>>

(* The unit of a call leads to those of the calls below, and what is up and  *)
(* depends on it is still to be visited, is on its way or precedes it.       *)
VisitsSound(calls_, met_, stops_, up_) ==
  /\ calls_[1].unit = Target
  /\ \A v \in met_ : v \in Start!Range(stops_) \/ \E i \in 1 .. Len(calls_) : v = calls_[i].unit
  /\ \A i, j \in 1 .. Len(calls_) : i < j => calls_[i].unit \in Beyond(calls_[j].unit)
  /\ \A i \in 1 .. Len(calls_) : calls_[i].todo \subseteq Start!Dependents(calls_[i].unit)
  /\ \A i \in 1 .. Len(calls_) : \A v \in up_ \ {Target} :
       calls_[i].unit \in Start!Deps(hard, v) =>
         \/ v \in calls_[i].todo \/ v \in Start!Range(stops_)
         \/ i < Len(calls_) /\ v = calls_[i + 1].unit

VisitsKnown == Start!Acyclic /\ visits # <<>> => VisitsSound(visits, met, stops, up)

(* What is up and depends on a unit is stopped before it.                    *)
StopsInOrder ==
  Start!Acyclic =>
    \A i \in 1 .. Len(stops) : \A v \in up :
      stops[i] \in Start!Deps(hard, v) => \E j \in 1 .. (i - 1) : stops[j] = v

(* What was up is up or is still to be started.                              *)
Restoring ==
  /\ before \ culprits \subseteq up \cup Start!Range(work)
  /\ pc = "stop" => Start!Range(stops) \subseteq Start!Range(work)

(* The unit of the first call of recursiveInstall, which is that of the      *)
(* command or a dependency of the last call of recursiveStart.               *)
First == IF stack = <<>> THEN Head(work) ELSE stack[Len(stack)].dep

(* The calls are of different units, each needed by those below.             *)
InstallsSound(calls_, seen_, first) ==
  /\ calls_ # <<>> => calls_[1].unit = first
  /\ \A i \in 1 .. Len(calls_) :
       /\ calls_[i].unit \in seen_
       /\ calls_[i].todo \subseteq Start!Deps(hard, calls_[i].unit)
       /\ calls_[i].unit \in Start!Below(first)
  /\ \A i, j \in 1 .. Len(calls_) : i < j =>
       calls_[i].unit # calls_[j].unit /\ calls_[j].unit \in Beyond(calls_[i].unit)

InstallsKnown == InstallsSound(inst, seen, First)

(* What a unit needs is installed, or is still to be by one of the calls.    *)
InstalledSound(calls_, seen_, defs_) ==
  /\ \A d \in seen_ : d \in defs_ \/ \E i \in 1 .. Len(calls_) : d = calls_[i].unit
  /\ \A i \in 1 .. Len(calls_) : \A d \in Start!Needs(calls_[i].unit) :
       \/ d \in calls_[i].todo \/ d \in defs_
       \/ i < Len(calls_) /\ d = calls_[i + 1].unit

InstalledInOrder ==
  Start!Acyclic =>
    /\ inst # <<>> => InstalledSound(inst, seen, defs)
    /\ \A u \in defs : Start!Needs(u) \subseteq defs

(* The calls are of different units; up to a call for a dependency that can  *)
(* be done without, each is of a unit that the first one needs.              *)
StartsSound(calls_, visited_, first) ==
  /\ calls_ # <<>> => calls_[1].unit = first
  /\ \A i \in 1 .. Len(calls_) :
       /\ calls_[i].unit \in visited_
       /\ calls_[i].hard \subseteq Start!Deps(hard, calls_[i].unit)
       /\ calls_[i].dep # 0 <=> calls_[i].via # "none"
       /\ calls_[i].via = "hard" => calls_[i].dep \in Start!Needs(calls_[i].unit)
       /\ (\A j \in 1 .. (i - 1) : calls_[j].via # "soft") => calls_[i].unit \in Start!Below(first)
  /\ \A i, j \in 1 .. Len(calls_) : i < j => calls_[i].unit # calls_[j].unit

StartsKnown ==
  /\ StartsSound(stack, visited, Head(work))
  /\ pc = "install" /\ stack # <<>> => stack[Len(stack)].dep # 0

(* A failure that ends the command has its cause below the unit in turn.     *)
CauseKnown ==
  pc = "unwind" /\ Start!Acyclic /\ (\A i \in 1 .. Len(stack) : stack[i].via # "soft") =>
    culprits \cap Start!Below(Head(work)) # {}

(* The inductive invariant.                                                  *)
StartKnown ==
  /\ StartTyped /\ Phases /\ VisitsKnown /\ StopsInOrder /\ Restoring
  /\ InstallsKnown /\ InstalledInOrder /\ StartsKnown /\ CauseKnown
  /\ Start!StopsAccepted /\ Start!FailureHasCause

-----------------------------------------------------------------------------
(* Sequences. *)

LEMMA FrontOf ==
  ASSUME NEW S, NEW s \in Seq(S), s # <<>>
  PROVE  /\ Len(s) \in Nat \ {0} /\ Start!Front(s) \in Seq(S) /\ Len(Start!Front(s)) = Len(s) - 1
         /\ \A i \in 1 .. (Len(s) - 1) : Start!Front(s)[i] = s[i]
         /\ Start!Last(s) = s[Len(s)] /\ Start!Last(s) \in S
<1>1. Len(s) \in Nat \ {0}
  OBVIOUS
<1>2. Start!Front(s) = SubSeq(s, 1, Len(s) - 1)
  BY DEF Start!Front
<1>3. Start!Front(s) \in Seq(S) /\ Len(Start!Front(s)) = Len(s) - 1
  <2> DEFINE n == Len(s) - 1
  <2>1. n \in Nat /\ n <= Len(s)
    BY <1>1
  <2> HIDE DEF n
  <2>2. SubSeq(s, 1, n) \in Seq(S)
    BY <2>1
  <2>3. Len(SubSeq(s, 1, n)) = n
    BY <2>1
  <2> QED
    BY <1>2, <2>2, <2>3 DEF n
<1>4. ASSUME NEW i \in 1 .. (Len(s) - 1) PROVE Start!Front(s)[i] = s[i]
  <2>1. i \in Nat /\ 1 <= i /\ i <= Len(s) - 1 /\ (1 + i) - 1 = i /\ i \in 1 .. ((Len(s) - 1) - 1) + 1
    BY <1>1
  <2> QED
    BY <1>1, <1>2, <2>1
<1>5. Start!Last(s) = s[Len(s)] /\ Start!Last(s) \in S
  BY <1>1 DEF Start!Last
<1> QED
  BY <1>1, <1>3, <1>4, <1>5

LEMMA TopReplaced ==
  ASSUME NEW S, NEW s \in Seq(S), s # <<>>, NEW x \in S
  PROVE  LET t == Append(Start!Front(s), x)
         IN  /\ t \in Seq(S) /\ Len(t) = Len(s) /\ t[Len(s)] = x
             /\ \A i \in 1 .. (Len(s) - 1) : t[i] = s[i]
BY FrontOf

LEMMA Pushed ==
  ASSUME NEW S, NEW s \in Seq(S), NEW x \in S
  PROVE  LET t == Append(s, x)
         IN  /\ t \in Seq(S) /\ Len(t) = Len(s) + 1 /\ t[Len(s) + 1] = x /\ t # <<>>
             /\ \A i \in 1 .. Len(s) : t[i] = s[i]
OBVIOUS

LEMMA RangeOf ==
  ASSUME NEW S, NEW s \in Seq(S), NEW v
  PROVE  v \in Start!Range(s) <=> \E i \in 1 .. Len(s) : s[i] = v
BY DEF Start!Range

LEMMA RangePushed ==
  ASSUME NEW S, NEW s \in Seq(S), NEW x \in S
  PROVE  Start!Range(Append(s, x)) = Start!Range(s) \cup {x}
<1> DEFINE t == Append(s, x)
<1>1. /\ t \in Seq(S) /\ Len(t) = Len(s) + 1 /\ t[Len(s) + 1] = x /\ Len(s) \in Nat
      /\ \A i \in 1 .. Len(s) : t[i] = s[i]
  OBVIOUS
<1> HIDE DEF t
<1>2. \A v : v \in Start!Range(t) <=> \E i \in 1 .. Len(t) : t[i] = v
  BY <1>1, RangeOf
<1>3. \A v : v \in Start!Range(s) <=> \E i \in 1 .. Len(s) : s[i] = v
  BY RangeOf
<1>4. \A v : v \in Start!Range(t) => v \in Start!Range(s) \cup {x}
  BY <1>1, <1>2, <1>3
<1>5. \A v : v \in Start!Range(s) \cup {x} => v \in Start!Range(t)
  BY <1>1, <1>2, <1>3
<1> QED
  BY <1>4, <1>5 DEF t

LEMMA RangeReversed ==
  ASSUME NEW S, NEW s \in Seq(S)
  PROVE  Start!Reverse(s) \in Seq(S) /\ Len(Start!Reverse(s)) = Len(s) /\ Start!Range(Start!Reverse(s)) = Start!Range(s)
<1>1. Start!Reverse(s) \in Seq(S) /\ Len(Start!Reverse(s)) = Len(s) /\ DOMAIN Start!Reverse(s) = 1 .. Len(s)
  BY DEF Start!Reverse
<1>2. \A i \in 1 .. Len(s) : Start!Reverse(s)[i] = s[Len(s) - i + 1] /\ Len(s) - i + 1 \in 1 .. Len(s)
  BY DEF Start!Reverse
<1>3. \A i \in 1 .. Len(s) : s[i] = Start!Reverse(s)[Len(s) - i + 1] /\ Len(s) - i + 1 \in 1 .. Len(s)
  BY DEF Start!Reverse
<1>4. ASSUME NEW v \in Start!Range(Start!Reverse(s)) PROVE v \in Start!Range(s)
  <2>1. PICK i \in 1 .. Len(s) : Start!Reverse(s)[i] = v
    BY <1>1 DEF Start!Range
  <2>2. s[Len(s) - i + 1] = v /\ Len(s) - i + 1 \in 1 .. Len(s)
    BY <1>2, <2>1
  <2> QED
    BY <2>2, RangeOf
<1>5. ASSUME NEW v \in Start!Range(s) PROVE v \in Start!Range(Start!Reverse(s))
  <2>1. PICK i \in 1 .. Len(s) : s[i] = v
    BY DEF Start!Range
  <2>2. Start!Reverse(s)[Len(s) - i + 1] = v /\ Len(s) - i + 1 \in 1 .. Len(s)
    BY <1>3, <2>1
  <2> QED
    BY <2>2, <1>1, RangeOf
<1> QED
  BY <1>1, <1>4, <1>5

LEMMA RangeHead ==
  ASSUME NEW S, NEW s \in Seq(S), s # <<>>
  PROVE  /\ Head(s) \in S /\ Tail(s) \in Seq(S) /\ Head(s) = s[1]
         /\ Start!Range(s) = {Head(s)} \cup Start!Range(Tail(s)) /\ Len(Tail(s)) = Len(s) - 1
         /\ \A i \in 1 .. (Len(s) - 1) : Tail(s)[i] = s[i + 1]
<1>1. /\ Head(s) \in S /\ Tail(s) \in Seq(S) /\ Len(Tail(s)) = Len(s) - 1 /\ Len(s) \in Nat \ {0}
      /\ Head(s) = s[1]
  OBVIOUS
<1>2. \A i \in 1 .. (Len(s) - 1) : Tail(s)[i] = s[i + 1]
  OBVIOUS
<1>3. \A v : v \in Start!Range(Tail(s)) => v \in Start!Range(s)
  BY <1>1, <1>2 DEF Start!Range
<1>4. ASSUME NEW v \in Start!Range(s), v # s[1] PROVE v \in Start!Range(Tail(s))
  <2>1. PICK i \in 1 .. Len(s) : s[i] = v
    BY DEF Start!Range
  <2>2. i - 1 \in 1 .. (Len(s) - 1) /\ (i - 1) + 1 = i
    BY <2>1, <1>1, <1>4
  <2>3. Tail(s)[i - 1] = v
    BY <2>1, <2>2, <1>2
  <2> QED
    BY <2>2, <2>3, <1>1, RangeOf
<1>5. s[1] \in Start!Range(s)
  BY <1>1 DEF Start!Range
<1> QED
  BY <1>1, <1>2, <1>3, <1>4, <1>5

LEMMA DistinctIsShort ==
  ASSUME N \in Nat, NEW f, NEW n \in Nat, \A i \in 1 .. n : f[i] \in Start!AllUnits,
         \A i, j \in 1 .. n : i < j => f[i] # f[j]
  PROVE  n <= N
<1> DEFINE g == [i \in 1 .. n |-> f[i]]
<1>1. g \in [1 .. n -> 1 .. N]
  BY DEF Start!AllUnits
<1>2. \A i, j \in 1 .. n : g[i] = g[j] => i = j
  OBVIOUS
<1>3. IsFiniteSet(1 .. n) /\ Cardinality(1 .. n) = n /\ IsFiniteSet(1 .. N) /\ Cardinality(1 .. N) = N
  BY FS_Interval
<1>4. ~(Cardinality(1 .. N) < Cardinality(1 .. n))
  <2> SUFFICES ASSUME Cardinality(1 .. N) < Cardinality(1 .. n) PROVE FALSE
    OBVIOUS
  <2>1. \E x, y \in 1 .. n : x # y /\ g[x] = g[y]
    <3> HIDE DEF g
    <3> QED
      BY <1>1, <1>3, FS_PigeonHole, Zenon
  <2> QED
    BY <1>2, <2>1
<1> QED
  BY <1>3, <1>4

-----------------------------------------------------------------------------
(* The graph. *)

LEMMA DepsOf ==
  ASSUME NEW rel \in SUBSET Start!Pairs, NEW u
  PROVE  /\ Start!Deps(rel, u) \subseteq Start!AllUnits
         /\ \A v : v \in Start!Deps(rel, u) => u \in Start!AllUnits /\ v \in Start!AllUnits /\ u # v /\ <<u, v>> \in rel
         /\ \A v : <<u, v>> \in rel => v \in Start!Deps(rel, u)
<1>1. \A e \in rel : e = <<e[1], e[2]>> /\ e[1] \in Start!AllUnits /\ e[2] \in Start!AllUnits /\ e[1] # e[2]
  BY DEF Start!Pairs
<1>2. ASSUME NEW v \in Start!Deps(rel, u) PROVE u \in Start!AllUnits /\ v \in Start!AllUnits /\ u # v /\ <<u, v>> \in rel
  <2>1. PICK e \in rel : e[1] = u /\ e[2] = v
    BY DEF Start!Deps
  <2> QED
    BY <2>1, <1>1
<1>3. ASSUME NEW v, <<u, v>> \in rel PROVE v \in Start!Deps(rel, u)
  BY <1>3 DEF Start!Deps
<1> QED
  BY <1>2, <1>3

LEMMA ClosureHolds ==
  ASSUME NEW rel, NEW S \in SUBSET Start!AllUnits
  PROVE  S \subseteq Start!Closure(rel, S) /\ Start!Closure(rel, S) \subseteq Start!AllUnits
BY DEF Start!Closure

LEMMA ClosureLeads ==
  ASSUME NEW rel \in SUBSET Start!Pairs, NEW S, NEW u \in Start!Closure(rel, S)
  PROVE  Start!Deps(rel, u) \subseteq Start!Closure(rel, S)
BY DepsOf DEF Start!Closure

LEMMA ClosureIsLeast ==
  ASSUME NEW rel, NEW S, NEW T, S \subseteq Start!Closure(rel, T)
  PROVE  Start!Closure(rel, S) \subseteq Start!Closure(rel, T)
BY DEF Start!Closure

LEMMA ClosureGrows ==
  ASSUME NEW rel \in SUBSET Start!Pairs, NEW sub \in SUBSET rel, NEW S, NEW T, S \subseteq T
  PROVE  Start!Closure(sub, S) \subseteq Start!Closure(rel, T)
<1>1. \A u : Start!Deps(sub, u) \subseteq Start!Deps(rel, u)
  BY DEF Start!Deps
<1> QED
  BY <1>1 DEF Start!Closure

GraphTyped == hard \in SUBSET Start!Pairs /\ external \in SUBSET Start!AllUnits

(* What a unit leads to, over all its dependencies. *)
LEMMA BeyondFacts ==
  ASSUME GraphTyped
  PROVE  /\ \A u, v : v \in Start!Deps(hard, u) =>
              u \in Start!AllUnits /\ v \in Start!AllUnits /\ u # v /\ v \in Beyond(u) /\ u \in Start!Dependents(v)
         /\ \A u, v : u \in Start!Dependents(v) => v \in Start!Deps(hard, u)
         /\ \A u, v, w : v \in Beyond(u) /\ w \in Start!Deps(hard, v) => w \in Beyond(u)
         /\ \A u, v, w : v \in Start!Deps(hard, u) /\ w \in Beyond(v) => w \in Beyond(u)
         /\ Start!Acyclic => \A u \in Start!AllUnits : u \notin Beyond(u)
<1> USE DEF GraphTyped
<1>1. ASSUME NEW u, NEW v \in Start!Deps(hard, u)
      PROVE  u \in Start!AllUnits /\ v \in Start!AllUnits /\ u # v /\ v \in Beyond(u) /\ u \in Start!Dependents(v)
  BY DepsOf, ClosureHolds DEF Beyond, Start!Dependents
<1>2. ASSUME NEW u, NEW v, NEW w, v \in Beyond(u), w \in Start!Deps(hard, v) PROVE w \in Beyond(u)
  BY <1>2, ClosureLeads DEF Beyond
<1>3. ASSUME NEW u, NEW v, NEW w, v \in Start!Deps(hard, u), w \in Beyond(v) PROVE w \in Beyond(u)
  <2>1. Start!Deps(hard, v) \subseteq Start!Closure(hard, Start!Deps(hard, u))
    BY <1>3, <1>1, ClosureLeads DEF Beyond
  <2> QED
    BY <2>1, <1>3, ClosureIsLeast DEF Beyond
<1>4. \A u, v : u \in Start!Dependents(v) => v \in Start!Deps(hard, u)
  BY DEF Start!Dependents
<1>5. Start!Acyclic => \A u \in Start!AllUnits : u \notin Beyond(u)
  BY DEF Start!Acyclic, Start!Cyclic, Beyond
<1> QED
  BY <1>1, <1>2, <1>3, <1>4, <1>5

(* What a unit needs, directly or not. *)
LEMMA BelowFacts ==
  ASSUME GraphTyped
  PROVE  /\ \A u, v : v \in Start!Needs(u) => v \in Start!Deps(hard, u) /\ v \notin external
         /\ \A u, v : v \in Start!Deps(hard, u) /\ v \notin external => v \in Start!Needs(u)
         /\ \A u : Start!Below(u) \subseteq Start!AllUnits
         /\ \A u \in Start!AllUnits : u \in Start!Below(u)
         /\ \A u, v, w : v \in Start!Below(u) /\ w \in Start!Needs(v) => w \in Start!Below(u)
         /\ \A u, v, w : v \in Start!Below(u) /\ w \in Start!Below(v) => w \in Start!Below(u)
<1> USE DEF GraphTyped
<1>1. Start!DependsOn \in SUBSET Start!Pairs /\ Start!DependsOn \subseteq hard
  BY DEF Start!DependsOn
<1>2. ASSUME NEW u, NEW v \in Start!Needs(u) PROVE v \in Start!Deps(hard, u) /\ v \notin external
  <2>1. <<u, v>> \in Start!DependsOn
    BY <1>1, DepsOf DEF Start!Needs
  <2> QED
    BY <2>1, DepsOf DEF Start!DependsOn
<1>3. ASSUME NEW u, NEW v \in Start!Deps(hard, u), v \notin external PROVE v \in Start!Needs(u)
  <2>1. <<u, v>> \in Start!DependsOn
    BY <1>3, DepsOf DEF Start!DependsOn
  <2> QED
    BY <2>1, <1>1, DepsOf DEF Start!Needs
<1>4. \A u : Start!Below(u) \subseteq Start!AllUnits
  BY DEF Start!Below, Start!Closure
<1>5. ASSUME NEW u \in Start!AllUnits PROVE u \in Start!Below(u)
  BY ClosureHolds DEF Start!Below
<1>6. ASSUME NEW u, NEW v, NEW w, v \in Start!Below(u), w \in Start!Needs(v) PROVE w \in Start!Below(u)
  BY <1>6, <1>1, ClosureLeads DEF Start!Below, Start!Needs
<1>7. ASSUME NEW u, NEW v, NEW w, v \in Start!Below(u), w \in Start!Below(v) PROVE w \in Start!Below(u)
  BY <1>7, ClosureIsLeast DEF Start!Below
<1> QED
  BY <1>2, <1>3, <1>4, <1>5, <1>6, <1>7

(* A graph without cycles is loaded whatever the unit. *)
LEMMA AcyclicLoads ==
  ASSUME GraphTyped, Start!Acyclic, NEW v \in Start!AllUnits
  PROVE  ~Start!Cyclic(Start!DependsOn, v)
<1>1. Start!DependsOn \in SUBSET hard /\ hard \in SUBSET Start!Pairs
  BY DEF Start!DependsOn, GraphTyped
<1>2. Start!Deps(Start!DependsOn, v) \subseteq Start!Deps(hard, v)
  BY <1>1 DEF Start!Deps
<1>3. Start!Closure(Start!DependsOn, Start!Deps(Start!DependsOn, v)) \subseteq Start!Closure(hard, Start!Deps(hard, v))
  BY <1>1, <1>2, ClosureGrows
<1> QED
  BY <1>3 DEF Start!Acyclic, Start!Cyclic

LEMMA GraphStays ==
  ASSUME UNCHANGED Start!graph
  PROVE  /\ (Start!Acyclic <=> Start!Acyclic') /\ (GraphTyped <=> GraphTyped')
         /\ Start!DependsOn' = Start!DependsOn
         /\ \A u : /\ Start!Needs(u)' = Start!Needs(u) /\ Start!Below(u)' = Start!Below(u) /\ Beyond(u)' = Beyond(u)
                   /\ Start!Dependents(u)' = Start!Dependents(u) /\ Start!Deps(hard, u)' = Start!Deps(hard, u)
BY DEF Start!graph, Start!Acyclic, GraphTyped, Start!DependsOn, Start!Needs, Start!Below,
   Beyond, Start!Dependents

-----------------------------------------------------------------------------
(* What the calls of a command are, and what a step does to them. *)

LEMMA CallsTyped ==
  ASSUME StartTyped
  PROVE  /\ \A u \in Start!AllUnits : Start!Visit(u) \in CallSet /\ Start!Visit(u).unit = u
                                /\ Start!Visit(u).todo = Start!Dependents(u) \ {Target}
         /\ \A u \in Start!AllUnits : [unit |-> u, todo |-> Start!Deps(hard, u)] \in CallSet
         /\ \A u \in Start!AllUnits :
              /\ Start!Frame(u) \in FrameSet
              /\ Start!Frame(u).unit = u /\ Start!Frame(u).hard = Start!Deps(hard, u)
              /\ Start!Frame(u).dep = 0 /\ Start!Frame(u).via = "none"
         /\ \A c \in FrameSet :
              /\ Start!Done(c) \in FrameSet
              /\ Start!Done(c).unit = c.unit /\ Start!Done(c).hard = c.hard
              /\ Start!Done(c).dep = 0 /\ Start!Done(c).via = "none"
<1>1. GraphTyped /\ N \in Nat
  BY PartsAssumption DEF StartTyped, GraphTyped, Start!Parameters
<1>2. \A u : Start!Deps(hard, u) \in SUBSET Start!AllUnits /\ Start!Deps(soft, u) \in SUBSET Start!AllUnits
             /\ Start!Dependents(u) \in SUBSET Start!AllUnits
  BY DepsOf DEF StartTyped, Start!Dependents
<1>3. \A u \in Start!AllUnits : Start!Visit(u) \in CallSet /\ Start!Visit(u).unit = u
                          /\ Start!Visit(u).todo = Start!Dependents(u) \ {Target}
  BY <1>2 DEF Start!Visit, CallSet
<1>4. \A u \in Start!AllUnits : [unit |-> u, todo |-> Start!Deps(hard, u)] \in CallSet
  BY <1>2 DEF CallSet
<1>5. \A u \in Start!AllUnits :
        /\ Start!Frame(u) \in FrameSet
        /\ Start!Frame(u).unit = u /\ Start!Frame(u).hard = Start!Deps(hard, u)
        /\ Start!Frame(u).dep = 0 /\ Start!Frame(u).via = "none"
  BY <1>1, <1>2 DEF Start!Frame, FrameSet
<1>6. \A c \in FrameSet :
        /\ Start!Done(c) \in FrameSet
        /\ Start!Done(c).unit = c.unit /\ Start!Done(c).hard = c.hard
        /\ Start!Done(c).dep = 0 /\ Start!Done(c).via = "none"
  <2> SUFFICES ASSUME NEW c \in FrameSet
               PROVE  /\ Start!Done(c) \in FrameSet
                      /\ Start!Done(c).unit = c.unit /\ Start!Done(c).hard = c.hard
                      /\ Start!Done(c).dep = 0 /\ Start!Done(c).via = "none"
    OBVIOUS
  <2>1. /\ c = [unit |-> c.unit, hard |-> c.hard, soft |-> c.soft, dep |-> c.dep, via |-> c.via]
        /\ c.unit \in Start!AllUnits /\ c.hard \in SUBSET Start!AllUnits /\ c.soft \in SUBSET Start!AllUnits
    BY DEF FrameSet
  <2>2. Start!Done(c) = [unit |-> c.unit, hard |-> c.hard, soft |-> c.soft, dep |-> 0, via |-> "none"]
    <3>1. Start!Done(c) \in [unit : Start!AllUnits, hard : SUBSET Start!AllUnits, soft : SUBSET Start!AllUnits, dep : {0}, via : {"none"}]
      BY DEF Start!Done, FrameSet
    <3>2. Start!Done(c).unit = c.unit /\ Start!Done(c).hard = c.hard /\ Start!Done(c).soft = c.soft
      BY DEF Start!Done, FrameSet
    <3> QED
      BY <3>1, <3>2
  <2>3. 0 \in 0 .. N
    BY <1>1
  <2> QED
    BY <2>1, <2>2, <2>3 DEF FrameSet
<1> QED
  BY <1>3, <1>4, <1>5, <1>6

LEMMA LastCall ==
  ASSUME NEW s \in Seq(CallSet), s # <<>>
  PROVE  /\ Start!Front(s) \in Seq(CallSet) /\ Len(s) \in Nat \ {0} /\ Len(Start!Front(s)) = Len(s) - 1
         /\ Start!Last(s) = s[Len(s)] /\ Start!Last(s) \in CallSet /\ Start!Last(s).unit \in Start!AllUnits
         /\ Start!Last(s).todo \subseteq Start!AllUnits
         /\ Len(s) = 1 <=> Start!Front(s) = <<>>
         /\ \A i \in 1 .. (Len(s) - 1) : Start!Front(s)[i] = s[i]
<1>1. /\ Start!Front(s) \in Seq(CallSet) /\ Len(s) \in Nat \ {0} /\ Len(Start!Front(s)) = Len(s) - 1
      /\ Start!Last(s) = s[Len(s)] /\ Start!Last(s) \in CallSet
      /\ \A i \in 1 .. (Len(s) - 1) : Start!Front(s)[i] = s[i]
  BY FrontOf
<1>2. Len(s) = 1 <=> Start!Front(s) = <<>>
  BY <1>1
<1>3. Start!Last(s).unit \in Start!AllUnits /\ Start!Last(s).todo \subseteq Start!AllUnits
  BY <1>1 DEF CallSet
<1> QED
  BY <1>1, <1>2, <1>3

(* The call at the top of a sequence of calls has d behind it, and the calls *)
(* below are as they were.                                                   *)
TopGoesOn(s, t, d) ==
  /\ s # <<>> /\ Len(s) \in Nat \ {0} /\ t \in Seq(CallSet) /\ Len(t) >= Len(s) /\ t # <<>>
  /\ d \in s[Len(s)].todo /\ d \in Start!AllUnits
  /\ t[Len(s)].unit = s[Len(s)].unit /\ t[Len(s)].todo = s[Len(s)].todo \ {d}
  /\ \A i \in 1 .. (Len(s) - 1) : t[i] = s[i]

TopWithout(s, d) == Append(Start!Front(s), [Start!Last(s) EXCEPT !.todo = @ \ {d}])

LEMMA TopGoesOnHolds ==
  ASSUME NEW s \in Seq(CallSet), s # <<>>, NEW d \in Start!Last(s).todo
  PROVE  /\ TopGoesOn(s, TopWithout(s, d), d) /\ Len(TopWithout(s, d)) = Len(s)
         /\ \A c \in CallSet : LET t == Append(TopWithout(s, d), c)
                               IN  TopGoesOn(s, t, d) /\ Len(t) = Len(s) + 1 /\ t[Len(s) + 1] = c
<1> DEFINE x == [Start!Last(s) EXCEPT !.todo = @ \ {d}]
<1> DEFINE r == TopWithout(s, d)
<1>0. r = Append(Start!Front(s), x)
  BY DEF TopWithout
<1>1. /\ Len(s) \in Nat \ {0} /\ Start!Last(s) = s[Len(s)] /\ Start!Last(s) \in CallSet
  BY FrontOf
<1>2. x \in CallSet /\ x.unit = s[Len(s)].unit /\ x.todo = s[Len(s)].todo \ {d} /\ d \in Start!AllUnits
  BY <1>1 DEF CallSet
<1> HIDE DEF x, r
<1>3. /\ r \in Seq(CallSet) /\ Len(r) = Len(s) /\ r[Len(s)] = x
      /\ \A i \in 1 .. (Len(s) - 1) : r[i] = s[i]
  BY <1>0, <1>2, TopReplaced
<1>4. TopGoesOn(s, r, d)
  BY <1>1, <1>2, <1>3 DEF TopGoesOn
<1>5. ASSUME NEW c \in CallSet, NEW t, t = Append(r, c)
      PROVE  TopGoesOn(s, t, d) /\ Len(t) = Len(s) + 1 /\ t[Len(s) + 1] = c
  <2>1. /\ t \in Seq(CallSet) /\ Len(t) = Len(r) + 1 /\ t[Len(r) + 1] = c /\ t # <<>>
        /\ \A i \in 1 .. Len(r) : t[i] = r[i]
    BY <1>3, <1>5, Pushed
  <2> QED
    <3>1. /\ Len(r) = Len(s) /\ Len(s) \in 1 .. Len(r) /\ Len(t) >= Len(s) /\ Len(t) = Len(s) + 1
          /\ \A i \in 1 .. (Len(s) - 1) : i \in 1 .. Len(r)
      BY <2>1, <1>1, <1>3
    <3>2. t[Len(s) + 1] = c /\ t[Len(s)] = x /\ \A i \in 1 .. (Len(s) - 1) : t[i] = s[i]
      BY <2>1, <1>3, <3>1
    <3> QED
      BY <2>1, <1>1, <1>2, <3>1, <3>2 DEF TopGoesOn
<1> QED
  BY <1>3, <1>4, <1>5 DEF r

LEMMA VisitDependentDoes ==
  ASSUME StartTyped, NEW d, Start!VisitDependent(d), visits # <<>>
  PROVE  /\ pc = "visit" /\ TopGoesOn(visits, visits', d)
         /\ \/ (d \in met \/ d \notin up) /\ Len(visits') = Len(visits) /\ met' = met
            \/ /\ d \notin met /\ d \in up /\ met' = met \cup {d}
               /\ Len(visits') = Len(visits) + 1
               /\ visits'[Len(visits) + 1].unit = d
               /\ visits'[Len(visits) + 1].todo = Start!Dependents(d) \ {Target}
<1> DEFINE r == TopWithout(visits, d)
<1>1. visits \in Seq(CallSet) /\ d \in Start!Last(visits).todo /\ pc = "visit"
  BY DEF StartTyped, Start!VisitDependent, Start!Visiting
<1>2. \/ (d \in met \/ d \notin up) /\ visits' = r /\ met' = met
      \/ d \notin met /\ d \in up /\ visits' = Append(r, Start!Visit(d)) /\ met' = met \cup {d}
  BY DEF Start!VisitDependent, Start!Visiting, TopWithout
<1> HIDE DEF r
<1>3. /\ TopGoesOn(visits, r, d) /\ Len(r) = Len(visits)
      /\ \A c \in CallSet : /\ TopGoesOn(visits, Append(r, c), d)
                            /\ Len(Append(r, c)) = Len(visits) + 1 /\ Append(r, c)[Len(visits) + 1] = c
  BY <1>1, TopGoesOnHolds DEF r
<1>4. d \in Start!AllUnits
  BY <1>3 DEF TopGoesOn
<1>5. Start!Visit(d) \in CallSet /\ Start!Visit(d).unit = d /\ Start!Visit(d).todo = Start!Dependents(d) \ {Target}
  BY <1>4, CallsTyped
<1>6. CASE (d \in met \/ d \notin up) /\ visits' = r /\ met' = met
  BY <1>1, <1>3, <1>6
<1>7. CASE d \notin met /\ d \in up /\ visits' = Append(r, Start!Visit(d)) /\ met' = met \cup {d}
  BY <1>1, <1>3, <1>5, <1>7
<1> QED
  BY <1>2, <1>6, <1>7

LEMMA InstallDependencyDoes ==
  ASSUME StartTyped, NEW d, Start!InstallDependency(d), inst # <<>>
  PROVE  /\ pc = "install" /\ TopGoesOn(inst, inst', d)
         /\ \/ (d \in external \/ d \in seen) /\ Len(inst') = Len(inst) /\ seen' = seen
            \/ /\ d \notin external /\ d \notin seen /\ seen' = seen \cup {d}
               /\ Len(inst') = Len(inst) + 1
               /\ inst'[Len(inst) + 1].unit = d
               /\ inst'[Len(inst) + 1].todo = Start!Deps(hard, d)
<1> DEFINE r == TopWithout(inst, d)
           f == [unit |-> d, todo |-> Start!Deps(hard, d)]
<1>1. inst \in Seq(CallSet) /\ d \in Start!Last(inst).todo /\ pc = "install"
  BY DEF StartTyped, Start!InstallDependency, Start!Top
<1>2. \/ (d \in external \/ d \in seen) /\ inst' = r /\ seen' = seen
      \/ d \notin external /\ d \notin seen /\ inst' = Append(r, f) /\ seen' = seen \cup {d}
  BY DEF Start!InstallDependency, Start!Top, TopWithout
<1> HIDE DEF r
<1>3. /\ TopGoesOn(inst, r, d) /\ Len(r) = Len(inst)
      /\ \A c \in CallSet : /\ TopGoesOn(inst, Append(r, c), d)
                            /\ Len(Append(r, c)) = Len(inst) + 1 /\ Append(r, c)[Len(inst) + 1] = c
  BY <1>1, TopGoesOnHolds DEF r
<1>4. d \in Start!AllUnits
  BY <1>3 DEF TopGoesOn
<1>5. f \in CallSet /\ f.unit = d /\ f.todo = Start!Deps(hard, d)
  BY <1>4, CallsTyped
<1> HIDE DEF f
<1>6. CASE (d \in external \/ d \in seen) /\ inst' = r /\ seen' = seen
  BY <1>1, <1>3, <1>6
<1>7. CASE d \notin external /\ d \notin seen /\ inst' = Append(r, f) /\ seen' = seen \cup {d}
  BY <1>1, <1>3, <1>5, <1>7
<1> QED
  BY <1>2, <1>6, <1>7

(* The last of the calls is the same call, further on, and those below it    *)
(* are as they were.                                                         *)
CallGoesOn(s, t) ==
  /\ s # <<>> /\ Len(s) \in Nat \ {0} /\ t \in Seq(FrameSet) /\ Len(t) = Len(s) /\ t # <<>>
  /\ t[Len(s)].unit = s[Len(s)].unit /\ t[Len(s)].hard \subseteq s[Len(s)].hard
  /\ \A i \in 1 .. (Len(s) - 1) : t[i] = s[i]

LEMMA DoneGoesOn ==
  ASSUME StartTyped, NEW s \in Seq(FrameSet), s # <<>>
  PROVE  LET t == Append(Start!Front(s), Start!Done(Start!Last(s)))
         IN  CallGoesOn(s, t) /\ t[Len(s)].dep = 0 /\ t[Len(s)].via = "none"
<1> DEFINE t == Append(Start!Front(s), Start!Done(Start!Last(s)))
<1>1. /\ Len(s) \in Nat \ {0} /\ Start!Last(s) = s[Len(s)] /\ Start!Last(s) \in FrameSet
  BY FrontOf
<1>2. /\ Start!Done(Start!Last(s)) \in FrameSet /\ Start!Done(Start!Last(s)).unit = s[Len(s)].unit
      /\ Start!Done(Start!Last(s)).hard = s[Len(s)].hard
      /\ Start!Done(Start!Last(s)).dep = 0 /\ Start!Done(Start!Last(s)).via = "none"
  BY <1>1, CallsTyped
<1>3. /\ t \in Seq(FrameSet) /\ Len(t) = Len(s) /\ t[Len(s)] = Start!Done(Start!Last(s))
      /\ \A i \in 1 .. (Len(s) - 1) : t[i] = s[i]
  BY <1>2, TopReplaced
<1> HIDE DEF t
<1>4. CallGoesOn(s, t) /\ t[Len(s)].dep = 0 /\ t[Len(s)].via = "none"
  BY <1>1, <1>2, <1>3 DEF CallGoesOn
<1> QED
  BY <1>4 DEF t

LEMMA AfterInstallDoes ==
  ASSUME StartTyped, Start!AfterInstall, stack # <<>>
  PROVE  /\ pc = "start" /\ stack[Len(stack)].dep \in Start!AllUnits
         /\ \/ /\ CallGoesOn(stack, stack') /\ visited' = visited
               /\ stack'[Len(stack)].dep = 0 /\ stack'[Len(stack)].via = "none"
            \/ \E d \in Start!AllUnits :
                 /\ d = stack[Len(stack)].dep /\ d \notin visited /\ visited' = visited \cup {d}
                 /\ stack' \in Seq(FrameSet) /\ Len(stack') = Len(stack) + 1 /\ stack' # <<>>
                 /\ stack'[Len(stack) + 1] = Start!Frame(d)
                 /\ \A i \in 1 .. Len(stack) : stack'[i] = stack[i]
<1>1. /\ stack \in Seq(FrameSet) /\ Len(stack) \in Nat \ {0} /\ Start!Call = stack[Len(stack)]
      /\ Start!Call \in FrameSet
  BY FrontOf DEF StartTyped, Start!Call
<1>2. pc = "start" /\ Start!Call.dep # 0
  BY DEF Start!AfterInstall
<1>3. Start!Call.dep \in Start!AllUnits
  <2>1. Start!Call.dep \in 0 .. N /\ N \in Nat
    BY <1>1, PartsAssumption DEF FrameSet, Start!Parameters
  <2> QED
    BY <2>1, <1>2 DEF Start!AllUnits
<1>4. \/ stack' = Append(Start!Front(stack), Start!Done(Start!Last(stack))) /\ visited' = visited
      \/ /\ Start!Call.dep \notin visited /\ visited' = visited \cup {Start!Call.dep}
         /\ stack' = Append(stack, Start!Frame(Start!Call.dep))
  BY DEF Start!AfterInstall, Start!With, Start!Call
<1>5. Start!Frame(Start!Call.dep) \in FrameSet
  BY <1>3, CallsTyped
<1>6. CASE stack' = Append(Start!Front(stack), Start!Done(Start!Last(stack))) /\ visited' = visited
  BY <1>1, <1>2, <1>3, <1>6, DoneGoesOn
<1>7. CASE /\ Start!Call.dep \notin visited /\ visited' = visited \cup {Start!Call.dep}
           /\ stack' = Append(stack, Start!Frame(Start!Call.dep))
  <2>1. /\ stack' \in Seq(FrameSet) /\ Len(stack') = Len(stack) + 1 /\ stack' # <<>>
        /\ stack'[Len(stack) + 1] = Start!Frame(Start!Call.dep)
        /\ \A i \in 1 .. Len(stack) : stack'[i] = stack[i]
    BY <1>1, <1>5, <1>7, Pushed
  <2> QED
    BY <1>1, <1>2, <1>3, <1>7, <2>1
<1> QED
  BY <1>4, <1>6, <1>7

LEMMA NextDependencyDoes ==
  ASSUME StartTyped, NEW d, Start!NextDependency(d)
  PROVE  /\ pc = "start" /\ CallGoesOn(stack, stack') /\ stack[Len(stack)].dep = 0
         /\ stack[Len(stack)].hard \subseteq Start!AllUnits /\ d \in Start!AllUnits
         /\ \/ /\ d \in external /\ UNCHANGED <<inst, seen, pc>>
               /\ stack'[Len(stack)].dep = 0 /\ stack'[Len(stack)].via = stack[Len(stack)].via
            \/ /\ d \notin external /\ stack'[Len(stack)].dep = d
               /\ \/ d \in stack[Len(stack)].hard /\ stack'[Len(stack)].via = "hard"
                  \/ stack'[Len(stack)].via = "soft"
               /\ inst' = <<[unit |-> d, todo |-> Start!Deps(hard, d)]>> /\ seen' = {d} /\ pc' = "install"
<1> DEFINE n == Len(stack)
           rest == [Start!Call EXCEPT !.hard = @ \ {d}, !.soft = @ \ {d}]
           f == [rest EXCEPT !.dep = d, !.via = IF d \in Start!Call.hard THEN "hard" ELSE "soft"]
<1>1. /\ stack # <<>> /\ stack \in Seq(FrameSet) /\ n \in Nat \ {0} /\ Start!Call = stack[n]
      /\ Start!Call \in FrameSet /\ pc = "start" /\ Start!Call.dep = 0 /\ Start!Last(stack) = Start!Call
  BY FrontOf DEF StartTyped, Start!Call, Start!NextDependency
<1>2. d \in Start!Call.hard \/ d \in Start!Call.soft
  BY DEF Start!NextDependency
<1>3. Start!Call.hard \subseteq Start!AllUnits /\ d \in Start!AllUnits /\ d \in 0 .. N
  <2>1. Start!Call.hard \subseteq Start!AllUnits /\ d \in Start!AllUnits
    BY <1>1, <1>2 DEF FrameSet
  <2> QED
    BY <2>1, PartsAssumption DEF Start!AllUnits, Start!Parameters
<1>4. /\ rest \in FrameSet /\ rest.unit = Start!Call.unit /\ rest.hard = Start!Call.hard \ {d}
      /\ rest.dep = Start!Call.dep /\ rest.via = Start!Call.via
  BY <1>1 DEF FrameSet
<1>5. \/ d \in external /\ stack' = Start!With(rest) /\ UNCHANGED <<inst, seen, pc>>
      \/ /\ d \notin external /\ stack' = Start!With(f)
         /\ inst' = <<[unit |-> d, todo |-> Start!Deps(hard, d)]>> /\ seen' = {d} /\ pc' = "install"
  BY DEF Start!NextDependency
<1> HIDE DEF rest
<1>6. /\ f \in FrameSet /\ f.unit = Start!Call.unit /\ f.hard = Start!Call.hard \ {d} /\ f.dep = d
      /\ \/ d \in Start!Call.hard /\ f.via = "hard"
         \/ f.via = "soft"
  BY <1>3, <1>4 DEF FrameSet
<1> HIDE DEF f
<1>7. ASSUME NEW g \in FrameSet, g.unit = Start!Call.unit, g.hard = Start!Call.hard \ {d}, stack' = Start!With(g)
      PROVE  CallGoesOn(stack, stack') /\ stack'[n] = g
  <2>1. LET t == Append(Start!Front(stack), g)
        IN  /\ t \in Seq(FrameSet) /\ Len(t) = Len(stack) /\ t[Len(stack)] = g
            /\ \A i \in 1 .. (Len(stack) - 1) : t[i] = stack[i]
    BY <1>1, TopReplaced
  <2>2. /\ stack' \in Seq(FrameSet) /\ Len(stack') = Len(stack) /\ stack'[Len(stack)] = g
        /\ \A i \in 1 .. (Len(stack) - 1) : stack'[i] = stack[i]
    BY <2>1, <1>7 DEF Start!With
  <2> QED
    BY <2>2, <1>1, <1>7 DEF CallGoesOn
<1>8. CASE d \in external /\ stack' = Start!With(rest) /\ UNCHANGED <<inst, seen, pc>>
  BY <1>1, <1>3, <1>4, <1>7, <1>8
<1>9. CASE /\ d \notin external /\ stack' = Start!With(f)
           /\ inst' = <<[unit |-> d, todo |-> Start!Deps(hard, d)]>> /\ seen' = {d} /\ pc' = "install"
  BY <1>1, <1>3, <1>6, <1>7, <1>9
<1> QED
  BY <1>5, <1>8, <1>9

(* What is left of the calls when the last of them has returned. *)
LEMMA FrontGoesOn ==
  ASSUME StartTyped, NEW s \in Seq(FrameSet), s # <<>>
  PROVE  /\ Start!Front(s) \in Seq(FrameSet) /\ Len(Start!Front(s)) = Len(s) - 1 /\ Len(s) \in Nat \ {0}
         /\ \A i \in 1 .. (Len(s) - 1) : Start!Front(s)[i] = s[i]
BY FrontOf

LEMMA ReturnDoes ==
  ASSUME StartTyped, stack # <<>>, Start!Return
  PROVE  /\ Len(stack) \in Nat \ {0}
         /\ \/ /\ Len(stack) = 1 /\ stack' = <<>> /\ visited' = {} /\ work' = Tail(work)
               /\ pc' = "stop"
            \/ /\ Len(stack) > 1 /\ CallGoesOn(Start!Front(stack), stack')
               /\ stack'[Len(stack) - 1].dep = 0 /\ stack'[Len(stack) - 1].via = "none"
               /\ UNCHANGED <<visited, work, pc>>
<1>1. stack \in Seq(FrameSet)
  BY DEF StartTyped
<1>2. Start!Front(stack) \in Seq(FrameSet) /\ Len(Start!Front(stack)) = Len(stack) - 1 /\ Len(stack) \in Nat \ {0}
  BY <1>1, FrontGoesOn
<1>3. CASE Len(stack) = 1
  BY <1>2, <1>3 DEF Start!Return
<1>4. CASE Len(stack) # 1
  <2>1. /\ stack' = Append(Start!Front(Start!Front(stack)), Start!Done(Start!Last(Start!Front(stack))))
        /\ UNCHANGED <<visited, work, pc>>
    BY <1>4 DEF Start!Return
  <2>2. Start!Front(stack) # <<>>
    BY <1>2, <1>4
  <2> QED
    <3> DEFINE s == Start!Front(stack)
    <3>1. /\ s \in Seq(FrameSet) /\ s # <<>> /\ Len(s) = Len(stack) - 1
          /\ stack' = Append(Start!Front(s), Start!Done(Start!Last(s)))
      BY <1>2, <2>1, <2>2
    <3> HIDE DEF s
    <3>2. CallGoesOn(s, stack') /\ stack'[Len(s)].dep = 0 /\ stack'[Len(s)].via = "none"
      BY <3>1, DoneGoesOn
    <3>3. Len(stack) > 1 /\ Len(stack) \in Nat \ {0}
      BY <1>2, <1>4
    <3> QED
      BY <2>1, <3>1, <3>2, <3>3 DEF s
<1> QED
  BY <1>2, <1>3, <1>4

LEMMA UnwindDoes ==
  ASSUME StartTyped, Start!Unwind
  PROVE  /\ pc = "unwind"
         /\ \/ stack = <<>> /\ stack' = <<>> /\ pc' = "fail"
            \/ /\ stack # <<>> /\ stack[Len(stack)].via = "soft" /\ pc' = "start"
               /\ CallGoesOn(stack, stack')
               /\ stack'[Len(stack)].dep = 0 /\ stack'[Len(stack)].via = "none"
            \/ /\ stack # <<>> /\ stack[Len(stack)].via # "soft" /\ pc' = "unwind"
               /\ stack' = Start!Front(stack)
<1>1. stack \in Seq(FrameSet)
  BY DEF StartTyped
<1>2. CASE stack = <<>>
  BY <1>2 DEF Start!Unwind
<1>3. CASE stack # <<>>
  <2>1. Start!Call = Start!Last(stack) /\ Start!Last(stack) = stack[Len(stack)]
    BY <1>1, <1>3, FrontOf DEF Start!Call
  <2>2. \/ Start!Call.via = "soft" /\ pc' = "start" /\ stack' = Append(Start!Front(stack), Start!Done(Start!Last(stack)))
        \/ Start!Call.via # "soft" /\ pc' = "unwind" /\ stack' = Start!Front(stack)
    BY <1>3 DEF Start!Unwind, Start!With, Start!Call
  <2> QED
    BY <1>1, <1>3, <2>1, <2>2, DoneGoesOn DEF Start!Unwind
<1> QED
  BY <1>2, <1>3

-----------------------------------------------------------------------------
(* What holds of the calls and of the phases of a command. *)

LEMMA StartTypedStays ==
  ASSUME StartTyped, Phases, Start!Next
  PROVE  StartTyped'
<1>1. CASE Start!Begin
  <2>1. Target \in Start!AllUnits
    BY PartsAssumption DEF Start!Parameters
  <2>2. Start!Visit(Target) \in CallSet
    BY <2>1, CallsTyped
  <2>3. visits' \in Seq(CallSet) /\ work' \in Seq(Start!AllUnits)
    <3> DEFINE f == Start!Visit(Target)
    <3>1. visits' = <<f>> \/ visits' = visits
      BY <1>1 DEF Start!Begin
    <3>2. work' = <<Target>> \/ work' = work
      BY <1>1 DEF Start!Begin
    <3>3. f \in CallSet
      BY <2>2
    <3> HIDE DEF f
    <3> QED
      <4>1. <<f>> \in Seq(CallSet)
        BY <3>3
      <4>2. <<Target>> \in Seq(Start!AllUnits)
        BY <2>1
      <4>3. visits \in Seq(CallSet) /\ work \in Seq(Start!AllUnits)
        BY DEF StartTyped
      <4> QED
        BY <3>1, <3>2, <4>1, <4>2, <4>3
  <2>4. pc' \in {"visit", "stop"}
    BY <1>1 DEF Start!Begin
  <2> QED
    BY <1>1, <2>3, <2>4 DEF Start!Begin, StartTyped, Start!graph, Start!dinit, Start!calls,
       Start!ghosts
<1>2. ASSUME NEW d \in Start!AllUnits, Start!VisitDependent(d) PROVE StartTyped'
  <2>1. visits # <<>>
    BY <1>2 DEF Start!VisitDependent, Phases
  <2>2. visits' \in Seq(CallSet) /\ met' \in SUBSET Start!AllUnits
    <3>1. visits' \in Seq(CallSet)
      BY <1>2, <2>1, VisitDependentDoes DEF TopGoesOn
    <3>2. met' = met \/ met' = met \cup {d}
      BY <1>2 DEF Start!VisitDependent
    <3> QED
      BY <3>1, <3>2 DEF StartTyped
  <2> QED
    BY <1>2, <2>2 DEF Start!VisitDependent, StartTyped, Start!graph, Start!dinit, Start!calls,
       Start!ghosts
<1>3. CASE Start!VisitReturns
  <2>1. visits # <<>> /\ visits \in Seq(CallSet) /\ stops \in Seq(Start!AllUnits)
    BY <1>3 DEF Start!VisitReturns, Phases, StartTyped
  <2>2. Start!Front(visits) \in Seq(CallSet) /\ Start!Last(visits).unit \in Start!AllUnits
    BY <2>1, LastCall
  <2>3. visits' \in Seq(CallSet) /\ stops' \in Seq(Start!AllUnits)
    BY <1>3, <2>1, <2>2 DEF Start!VisitReturns, Start!Visiting
  <2>4. Start!Reverse(stops') \in Seq(Start!AllUnits)
    BY <2>3, RangeReversed
  <2>5. work' \in Seq(Start!AllUnits) /\ pc' \in {"visit", "stop"}
    BY <1>3, <2>4 DEF Start!VisitReturns, StartTyped
  <2> QED
    BY <1>3, <2>3, <2>5 DEF Start!VisitReturns, StartTyped, Start!graph, Start!dinit,
       Start!calls, Start!ghosts
<1>4. CASE Start!StopNext
  <2>1. stops' \in Seq(Start!AllUnits)
    <3>1. stops \in Seq(Start!AllUnits) /\ stops # <<>>
      BY <1>4 DEF Start!StopNext, StartTyped
    <3>2. Tail(stops) \in Seq(Start!AllUnits)
      BY <3>1, RangeHead
    <3>3. stops' = stops \/ stops' = Tail(stops)
      BY <1>4 DEF Start!StopNext
    <3> QED
      BY <3>1, <3>2, <3>3
  <2>2. /\ up' \in SUBSET Start!AllUnits /\ refused' \in BOOLEAN /\ pc' \in {"stop", "fail"}
    BY <1>4 DEF Start!StopNext, StartTyped
  <2> QED
    BY <1>4, <2>1, <2>2 DEF Start!StopNext, StartTyped, Start!graph, Start!closure, Start!calls
<1>5. CASE Start!NextUnit
  <2>1. CASE work = <<>>
    BY <1>5, <2>1 DEF Start!NextUnit, StartTyped, Start!graph, Start!dinit, Start!closure,
       Start!ghosts
  <2>2. CASE work # <<>>
    <3>1. Head(work) \in Start!AllUnits
      BY <2>2, RangeHead DEF StartTyped
    <3>2. [unit |-> Head(work), todo |-> Start!Deps(hard, Head(work))] \in CallSet
      BY <3>1, CallsTyped
    <3>3. inst' \in Seq(CallSet) /\ seen' \in SUBSET Start!AllUnits /\ pc' = "install"
      <4>1. /\ inst' = <<[unit |-> Head(work), todo |-> Start!Deps(hard, Head(work))]>>
            /\ seen' = {Head(work)} /\ pc' = "install"
        BY <1>5, <2>2 DEF Start!NextUnit
      <4> DEFINE f == [unit |-> Head(work), todo |-> Start!Deps(hard, Head(work))]
      <4>2. f \in CallSet /\ inst' = <<f>>
        BY <3>2, <4>1
      <4> HIDE DEF f
      <4>3. <<f>> \in Seq(CallSet)
        BY <4>2
      <4> QED
        BY <3>1, <4>1, <4>2, <4>3
    <3> QED
      BY <1>5, <3>3 DEF Start!NextUnit, StartTyped, Start!graph, Start!dinit, Start!closure,
         Start!ghosts
  <2> QED
    BY <2>1, <2>2
<1>6. ASSUME NEW d \in Start!AllUnits, Start!InstallDependency(d) PROVE StartTyped'
  <2>1. inst # <<>>
    BY <1>6 DEF Start!InstallDependency, Phases
  <2>2. inst' \in Seq(CallSet) /\ seen' \in SUBSET Start!AllUnits
    <3>1. inst' \in Seq(CallSet)
      BY <1>6, <2>1, InstallDependencyDoes DEF TopGoesOn
    <3>2. seen' = seen \/ seen' = seen \cup {d}
      BY <1>6 DEF Start!InstallDependency
    <3> QED
      BY <3>1, <3>2 DEF StartTyped
  <2> QED
    BY <1>6, <2>2 DEF Start!InstallDependency, StartTyped, Start!graph, Start!dinit,
       Start!closure, Start!ghosts
<1>7. CASE Start!InstallSelf
  <2>1. inst # <<>> /\ inst \in Seq(CallSet)
    BY <1>7 DEF Start!InstallSelf, Phases, StartTyped
  <2>2. Start!Front(inst) \in Seq(CallSet) /\ Start!Last(inst).unit \in Start!AllUnits
    BY <2>1, LastCall
  <2>3. inst' \in Seq(CallSet) /\ defs' \in SUBSET Start!AllUnits /\ pc' \in {"install", "start"}
    BY <1>7, <2>2 DEF Start!InstallSelf, Start!Top, StartTyped
  <2> QED
    BY <1>7, <2>3 DEF Start!InstallSelf, StartTyped, Start!graph, Start!dinit, Start!closure,
       Start!ghosts
<1>8. CASE Start!InstallFails
  <2>1. inst # <<>> /\ inst \in Seq(CallSet)
    BY <1>8 DEF Start!InstallFails, Phases, StartTyped
  <2>2. Start!Last(inst).unit \in Start!AllUnits
    BY <2>1, LastCall
  <2>3. /\ inst' \in Seq(CallSet) /\ culprits' \in SUBSET Start!AllUnits /\ faults' \in Nat
        /\ stack' = stack /\ pc' = "unwind"
    <3>1. inst' = <<>> /\ culprits' = culprits \cup {Start!Last(inst).unit} /\ faults' = faults + 1
      BY <1>8 DEF Start!InstallFails, Start!Top
    <3>2. stack' = stack /\ pc' = "unwind"
      BY <1>8 DEF Start!InstallFails, Start!Failed
    <3>3. <<>> \in Seq(CallSet)
      OBVIOUS
    <3> QED
      BY <2>2, <3>1, <3>2, <3>3 DEF StartTyped
  <2> QED
    BY <1>8, <2>3 DEF Start!InstallFails, StartTyped, Start!graph, Start!dinit, Start!closure
<1>9. CASE Start!AfterInstall
  <2>1. CASE stack = <<>>
    <3>1. work # <<>>
      BY <1>9 DEF Start!AfterInstall, Phases
    <3>2. Head(work) \in Start!AllUnits
      BY <3>1, RangeHead DEF StartTyped
    <3>3. Start!Frame(Head(work)) \in FrameSet
      BY <3>2, CallsTyped
    <3>4. stack' \in Seq(FrameSet) /\ visited' \in SUBSET Start!AllUnits
      <4>1. stack' = <<Start!Frame(Head(work))>> /\ visited' = {Head(work)}
        BY <1>9, <2>1 DEF Start!AfterInstall
      <4> QED
        BY <3>2, <3>3, <4>1
    <3> QED
      BY <1>9, <3>4 DEF Start!AfterInstall, StartTyped, Start!graph, Start!dinit,
         Start!closure, Start!ghosts
  <2>2. CASE stack # <<>>
    <3>1. stack' \in Seq(FrameSet) /\ visited' \in SUBSET Start!AllUnits
      BY <1>9, <2>2, AfterInstallDoes DEF StartTyped, CallGoesOn
    <3> QED
      BY <1>9, <3>1 DEF Start!AfterInstall, StartTyped, Start!graph, Start!dinit,
         Start!closure, Start!ghosts
  <2> QED
    BY <2>1, <2>2
<1>10. ASSUME NEW d \in Start!AllUnits, Start!NextDependency(d) PROVE StartTyped'
  <2>1. stack' \in Seq(FrameSet)
    BY <1>10, NextDependencyDoes DEF CallGoesOn
  <2>2. [unit |-> d, todo |-> Start!Deps(hard, d)] \in CallSet
    BY CallsTyped
  <2>3. <<[unit |-> d, todo |-> Start!Deps(hard, d)]>> \in Seq(CallSet)
    BY <2>2
  <2>4. inst' \in Seq(CallSet) /\ seen' \in SUBSET Start!AllUnits /\ pc' \in {pc, "install"}
    BY <1>10, <2>3, NextDependencyDoes DEF StartTyped
  <2> QED
    BY <1>10, <2>1, <2>4 DEF Start!NextDependency, StartTyped, Start!graph, Start!dinit,
       Start!closure, Start!ghosts
<1>11. CASE Start!Unwind
  <2>1. stack' \in Seq(FrameSet) /\ pc' \in {"fail", "start", "unwind"}
    BY <1>11, UnwindDoes, FrontGoesOn DEF StartTyped, CallGoesOn
  <2> QED
    BY <1>11, <2>1 DEF Start!Unwind, StartTyped, Start!graph, Start!dinit, Start!closure,
       Start!ghosts
<1>12. CASE Start!StartSelf
  <2>1. stack # <<>> /\ stack \in Seq(FrameSet) /\ Start!Below(Start!Call.unit) \subseteq Start!AllUnits
    BY <1>12, BelowFacts DEF Start!StartSelf, StartTyped, GraphTyped
  <2>2. up' \in SUBSET Start!AllUnits /\ known' \in SUBSET Start!AllUnits
    BY <1>12, <2>1 DEF Start!StartSelf, StartTyped, Start!dinit
  <2>3. Start!Return \/ (Start!Failed(Start!Front(stack)) /\ UNCHANGED <<visited, work>>)
    BY <1>12 DEF Start!StartSelf
  <2>4. /\ stack' \in Seq(FrameSet) /\ visited' \in SUBSET Start!AllUnits /\ work' \in Seq(Start!AllUnits)
        /\ pc' \in {"stop", pc, "unwind"}
    <3>1. CASE Start!Return
      <4>1. work # <<>>
        BY <1>12 DEF Start!StartSelf, Phases
      <4>2. Tail(work) \in Seq(Start!AllUnits)
        BY <4>1, RangeHead DEF StartTyped
      <4> QED
        <5>1. \/ stack' = <<>> /\ visited' = {} /\ work' = Tail(work) /\ pc' = "stop"
              \/ stack' \in Seq(FrameSet) /\ UNCHANGED <<visited, work, pc>>
          BY <2>1, <3>1, ReturnDoes DEF CallGoesOn
        <5>2. <<>> \in Seq(FrameSet)
          OBVIOUS
        <5> QED
          BY <4>2, <5>1, <5>2 DEF StartTyped
    <3>2. CASE Start!Failed(Start!Front(stack)) /\ UNCHANGED <<visited, work>>
      BY <2>1, <3>2, FrontGoesOn DEF Start!Failed, StartTyped
    <3> QED
      BY <2>3, <3>1, <3>2
  <2> QED
    BY <1>12, <2>2, <2>4 DEF Start!StartSelf, StartTyped, Start!graph, Start!closure,
       Start!ghosts
<1>13. ASSUME NEW v \in Start!AllUnits, Start!StartFails(v) PROVE StartTyped'
  <2>1. stack # <<>> /\ stack \in Seq(FrameSet)
        /\ Start!Below(Start!Call.unit) \subseteq Start!AllUnits /\ Start!Below(v) \subseteq Start!AllUnits
    BY <1>13, BelowFacts DEF Start!StartFails, StartTyped, GraphTyped
  <2>2. /\ up' \in SUBSET Start!AllUnits /\ known' \in SUBSET Start!AllUnits
        /\ culprits' \in SUBSET Start!AllUnits /\ faults' \in Nat
    <3>1. /\ up' = up \cup (Start!Below(v) \ {v}) /\ known' = known \cup Start!Below(Start!Call.unit)
          /\ culprits' = culprits \cup {v} /\ faults' = faults + 1
      BY <1>13 DEF Start!StartFails
    <3> QED
      BY <2>1, <3>1 DEF StartTyped
  <2>3. stack' \in Seq(FrameSet) /\ pc' = "unwind"
    BY <1>13, <2>1, FrontGoesOn DEF Start!StartFails, Start!Failed
  <2> QED
    BY <1>13, <2>2, <2>3 DEF Start!StartFails, StartTyped, Start!graph, Start!closure
<1>14. ASSUME NEW u \in Start!AllUnits, Start!Crash(u) PROVE StartTyped'
  <2>1. Start!Above(u) \subseteq Start!AllUnits
    BY DEF Start!Above
  <2>2. up' \in SUBSET Start!AllUnits /\ culprits' \in SUBSET Start!AllUnits /\ faults' \in Nat
    <3>1. up' = up \ Start!Above(u) /\ culprits' = culprits \cup Start!Above(u) /\ faults' = faults + 1
      BY <1>14 DEF Start!Crash
    <3> QED
      BY <2>1, <3>1 DEF StartTyped
  <2> QED
    BY <1>14, <2>2 DEF Start!Crash, StartTyped, Start!graph, Start!closure, Start!calls
<1> QED
  BY <1>1, <1>2, <1>3, <1>4, <1>5, <1>6, <1>7, <1>8, <1>9, <1>10, <1>11, <1>12, <1>13, <1>14
  DEF Start!Next


LEMMA PhasesStay ==
  ASSUME StartTyped, Phases, Start!Next
  PROVE  Phases'
<1>1. CASE Start!Begin
  BY <1>1 DEF Start!Begin, Phases, Start!graph, Start!dinit, Start!closure, Start!calls,
     Start!ghosts
<1>2. ASSUME NEW d \in Start!AllUnits, Start!VisitDependent(d) PROVE Phases'
  <2>1. visits # <<>>
    BY <1>2 DEF Start!VisitDependent, Phases
  <2>2. visits' # <<>>
    BY <1>2, <2>1, VisitDependentDoes DEF TopGoesOn
  <2> QED
    BY <1>2, <2>2 DEF Start!VisitDependent, Phases, Start!graph, Start!dinit, Start!closure,
       Start!calls, Start!ghosts
<1>3. CASE Start!VisitReturns
  <2>1. visits # <<>> /\ visits \in Seq(CallSet) /\ stops \in Seq(Start!AllUnits)
    BY <1>3 DEF Start!VisitReturns, Phases, StartTyped
  <2>2. Len(visits) = 1 <=> visits' = <<>>
    BY <1>3, <2>1, LastCall DEF Start!VisitReturns
  <2>3. Len(visits) = 1 => pc' = "stop"
    BY <1>3 DEF Start!VisitReturns
  <2>4. Len(visits) # 1 => pc' = "visit" /\ work' = work
    BY <1>3 DEF Start!VisitReturns
  <2> QED
    BY <1>3, <2>2, <2>3, <2>4 DEF Start!VisitReturns, Phases, Start!graph, Start!dinit,
       Start!closure, Start!calls, Start!ghosts
<1>4. CASE Start!StopNext
  BY <1>4 DEF Start!StopNext, Phases, Start!graph, Start!dinit, Start!closure, Start!calls,
     Start!ghosts
<1>5. CASE Start!NextUnit
  <2>1. work = <<>> => pc' = "ok" /\ inst' = inst
    BY <1>5 DEF Start!NextUnit
  <2>2. work # <<>> => pc' = "install" /\ inst' # <<>>
    BY <1>5 DEF Start!NextUnit
  <2> QED
    BY <1>5, <2>1, <2>2 DEF Start!NextUnit, Phases, Start!graph, Start!dinit, Start!closure,
       Start!calls, Start!ghosts
<1>6. ASSUME NEW d \in Start!AllUnits, Start!InstallDependency(d) PROVE Phases'
  <2>1. inst # <<>>
    BY <1>6 DEF Start!InstallDependency, Phases
  <2>2. inst' # <<>>
    BY <1>6, <2>1, InstallDependencyDoes DEF TopGoesOn
  <2> QED
    BY <1>6, <2>2 DEF Start!InstallDependency, Phases, Start!graph, Start!dinit, Start!closure,
       Start!calls, Start!ghosts
<1>7. CASE Start!InstallSelf
  <2>1. inst # <<>> /\ inst \in Seq(CallSet)
    BY <1>7 DEF Start!InstallSelf, Phases, StartTyped
  <2>2. Len(inst) = 1 <=> inst' = <<>>
    BY <1>7, <2>1, LastCall DEF Start!InstallSelf
  <2>3. pc' = IF Len(inst) = 1 THEN "start" ELSE "install"
    BY <1>7 DEF Start!InstallSelf
  <2> QED
    BY <1>7, <2>2, <2>3 DEF Start!InstallSelf, Phases, Start!graph, Start!dinit, Start!closure,
       Start!calls, Start!ghosts
<1>8. CASE Start!InstallFails
  BY <1>8 DEF Start!InstallFails, Start!Failed, Phases, Start!graph, Start!dinit,
     Start!closure, Start!calls, Start!ghosts
<1>9. CASE Start!AfterInstall
  BY <1>9 DEF Start!AfterInstall, Phases, Start!graph, Start!dinit, Start!closure, Start!calls,
     Start!ghosts
<1>10. ASSUME NEW d \in Start!AllUnits, Start!NextDependency(d) PROVE Phases'
  <2>1. /\ pc = "start" /\ stack # <<>>
        /\ (inst' = inst /\ pc' = pc) \/ (inst' # <<>> /\ pc' = "install")
    <3>1. pc = "start" /\ stack # <<>>
      BY <1>10 DEF Start!NextDependency
    <3>2. \/ inst' = inst /\ pc' = pc
          \/ inst' = <<[unit |-> d, todo |-> Start!Deps(hard, d)]>> /\ pc' = "install"
      BY <1>10 DEF Start!NextDependency
    <3>3. <<[unit |-> d, todo |-> Start!Deps(hard, d)]>> # <<>>
      OBVIOUS
    <3> QED
      BY <3>1, <3>2, <3>3
  <2> QED
    BY <1>10, <2>1 DEF Start!NextDependency, Phases, Start!graph, Start!dinit, Start!closure,
       Start!calls, Start!ghosts
<1>11. CASE Start!Unwind
  <2>1. pc = "unwind" /\ (pc' \in {"start", "unwind"} \/ (pc' = "fail" /\ stack' = <<>>))
    BY <1>11, UnwindDoes
  <2> QED
    BY <1>11, <2>1 DEF Start!Unwind, Phases, Start!graph, Start!dinit, Start!closure,
       Start!calls, Start!ghosts
<1>12. CASE Start!StartSelf
  <2>1. stack # <<>> /\ stack \in Seq(FrameSet)
    BY <1>12 DEF Start!StartSelf, StartTyped
  <2>2. up' \subseteq known'
    BY <1>12 DEF Start!StartSelf, Phases, Start!dinit
  <2>3. \/ stack' = <<>> /\ pc' = "stop"
        \/ pc' = "start" /\ work' = work
        \/ pc' = "unwind" /\ work' = work
    BY <1>12, <2>1, ReturnDoes DEF Start!StartSelf, Start!Failed
  <2> QED
    BY <1>12, <2>2, <2>3 DEF Start!StartSelf, Phases, Start!graph, Start!closure, Start!ghosts
<1>13. ASSUME NEW v \in Start!AllUnits, Start!StartFails(v) PROVE Phases'
  <2>1. \A w : w \in Start!Below(v) => w \in Start!Below(Start!Call.unit)
    BY <1>13, BelowFacts DEF Start!StartFails, StartTyped, GraphTyped
  <2> QED
    BY <1>13, <2>1 DEF Start!StartFails, Start!Failed, Phases, Start!graph, Start!closure
<1>14. ASSUME NEW u \in Start!AllUnits, Start!Crash(u) PROVE Phases'
  BY <1>14 DEF Start!Crash, Phases, Start!graph, Start!closure, Start!calls
<1> QED
  BY <1>1, <1>2, <1>3, <1>4, <1>5, <1>6, <1>7, <1>8, <1>9, <1>10, <1>11, <1>12, <1>13, <1>14
  DEF Start!Next

-----------------------------------------------------------------------------
(* The units to be stopped are found after those that depend on them. *)

LEMMA VisitsSoundStays ==
  ASSUME UNCHANGED Start!graph, Start!Acyclic /\ visits' # <<>> => VisitsSound(visits', met', stops', up')
  PROVE  VisitsKnown'
BY GraphStays DEF VisitsKnown, VisitsSound

LEMMA VisitDependentStays ==
  ASSUME StartTyped, Phases, VisitsKnown, NEW d \in Start!AllUnits, Start!VisitDependent(d), Start!Acyclic
  PROVE  VisitsSound(visits', met', stops', up')
<1> DEFINE n == Len(visits)
           u == visits[n].unit
<1>1. visits # <<>> /\ VisitsSound(visits, met, stops, up) /\ stops' = stops /\ up' = up
  BY DEF Start!VisitDependent, Phases, VisitsKnown, Start!dinit
<1>2. /\ TopGoesOn(visits, visits', d)
      /\ \/ (d \in met \/ d \notin up) /\ Len(visits') = n /\ met' = met
         \/ /\ d \notin met /\ d \in up /\ met' = met \cup {d}
            /\ Len(visits') = n + 1
            /\ visits'[n + 1].unit = d
            /\ visits'[n + 1].todo = Start!Dependents(d) \ {Target}
  BY <1>1, VisitDependentDoes
<1>3. GraphTyped
  BY DEF StartTyped, GraphTyped
<1>4. /\ n \in Nat \ {0} /\ n \in 1 .. n
      /\ visits'[n].unit = u /\ visits'[n].todo = visits[n].todo \ {d} /\ d \in visits[n].todo
      /\ \A i \in 1 .. (n - 1) : visits'[i] = visits[i]
  BY <1>2 DEF TopGoesOn
<1>5. u \in Start!Deps(hard, d) /\ u # d
  BY <1>1, <1>3, <1>4, BeyondFacts DEF VisitsSound
<1> HIDE DEF u
<1>6. \A i \in 1 .. n : visits'[i].unit = visits[i].unit /\ visits'[i].todo \subseteq visits[i].todo
  <2> SUFFICES ASSUME NEW i \in 1 .. n
               PROVE  visits'[i].unit = visits[i].unit /\ visits'[i].todo \subseteq visits[i].todo
    OBVIOUS
  <2>1. CASE i = n
    BY <1>4, <2>1 DEF u
  <2>2. CASE i # n
    <3>1. i \in 1 .. (n - 1)
      BY <1>4, <2>2
    <3> QED
      BY <1>4, <3>1
  <2> QED
    BY <2>1, <2>2
<1>7. \A i \in 1 .. n : visits[i].unit \in Beyond(d)
  <2> SUFFICES ASSUME NEW i \in 1 .. n PROVE visits[i].unit \in Beyond(d)
    OBVIOUS
  <2>1. CASE i = n
    BY <1>3, <1>5, <2>1, BeyondFacts DEF u
  <2>2. CASE i # n
    <3>1. visits[i].unit \in Beyond(u)
      BY <1>1, <1>4, <2>2 DEF VisitsSound, u
    <3> QED
      BY <1>3, <1>5, <3>1, BeyondFacts
  <2> QED
    BY <2>1, <2>2
<1>8. \A i \in 1 .. n : visits[i].unit # d
  BY <1>3, <1>7, BeyondFacts
<1>9. visits'[1].unit = Target
  BY <1>1, <1>4, <1>6 DEF VisitsSound
<1>10. n <= Len(visits') /\ Len(visits') \in Nat /\ (Len(visits') = n \/ Len(visits') = n + 1)
  BY <1>2, <1>4
<1>11. ASSUME NEW v \in met'
       PROVE  v \in Start!Range(stops) \/ \E i \in 1 .. Len(visits') : v = visits'[i].unit
  <2>1. CASE v \in met
    <3>1. v \in Start!Range(stops) \/ \E i \in 1 .. n : v = visits[i].unit
      BY <1>1, <2>1 DEF VisitsSound
    <3>2. \A i \in 1 .. n : i \in 1 .. Len(visits') /\ visits'[i].unit = visits[i].unit
      BY <1>6, <1>10, <1>4
    <3> QED
      BY <3>1, <3>2
  <2>2. CASE v \notin met
    <3>1. v = d /\ Len(visits') = n + 1 /\ visits'[n + 1].unit = d
      BY <1>2, <1>11, <2>2
    <3>2. n + 1 \in 1 .. Len(visits')
      BY <1>4, <3>1
    <3> QED
      BY <3>1, <3>2
  <2> QED
    BY <2>1, <2>2
<1>12. ASSUME NEW i \in 1 .. Len(visits'), NEW j \in 1 .. Len(visits'), i < j
       PROVE  visits'[i].unit \in Beyond(visits'[j].unit)
  <2>1. i \in 1 .. n /\ visits'[i].unit = visits[i].unit
    BY <1>4, <1>6, <1>10, <1>12
  <2>2. CASE j \in 1 .. n
    BY <1>1, <1>6, <1>12, <2>1, <2>2 DEF VisitsSound
  <2>3. CASE j \notin 1 .. n
    <3>1. j = n + 1 /\ Len(visits') = n + 1
      BY <1>4, <1>10, <2>3
    <3>2. visits'[j].unit = d
      BY <1>2, <1>4, <3>1
    <3> QED
      BY <1>7, <2>1, <3>2
  <2> QED
    BY <2>2, <2>3
<1>13. ASSUME NEW i \in 1 .. Len(visits')
       PROVE  visits'[i].todo \subseteq Start!Dependents(visits'[i].unit)
  <2>1. CASE i \in 1 .. n
    BY <1>1, <1>6, <2>1 DEF VisitsSound
  <2>2. CASE i \notin 1 .. n
    <3>1. i = n + 1 /\ Len(visits') = n + 1
      BY <1>4, <1>10, <2>2
    <3>2. visits'[i].unit = d /\ visits'[i].todo = Start!Dependents(d) \ {Target}
      BY <1>2, <1>4, <3>1
    <3> QED
      BY <3>2
  <2> QED
    BY <2>1, <2>2
<1>14. ASSUME NEW i \in 1 .. Len(visits'), NEW v \in up \ {Target},
              visits'[i].unit \in Start!Deps(hard, v)
       PROVE  \/ v \in visits'[i].todo \/ v \in Start!Range(stops)
              \/ i < Len(visits') /\ v = visits'[i + 1].unit
  <2>1. CASE i \in 1 .. (n - 1)
    <3>1. i \in 1 .. n /\ i + 1 \in 1 .. n /\ i < n /\ i < Len(visits')
      BY <1>4, <1>10, <2>1
    <3>2. v \in visits[i].todo \/ v \in Start!Range(stops) \/ v = visits[i + 1].unit
      BY <1>1, <1>6, <1>14, <3>1 DEF VisitsSound
    <3>3. visits'[i] = visits[i] /\ visits'[i + 1].unit = visits[i + 1].unit
      BY <1>4, <1>6, <2>1, <3>1
    <3> QED
      BY <3>1, <3>2, <3>3
  <2>2. CASE i = n
    <3>1. u \in Start!Deps(hard, v)
      BY <1>4, <1>14, <2>2
    <3>2. v \in visits[n].todo \/ v \in Start!Range(stops)
      BY <1>1, <1>4, <3>1 DEF VisitsSound, u
    <3>3. CASE v # d
      BY <1>4, <2>2, <3>2, <3>3
    <3>4. CASE v = d
      <4>1. CASE Len(visits') = n
        <5>1. d \in met
          BY <1>2, <1>4, <3>4, <4>1
        <5>2. d \in Start!Range(stops) \/ \E k \in 1 .. n : d = visits[k].unit
          BY <1>1, <5>1 DEF VisitsSound
        <5> QED
          BY <1>8, <3>4, <5>2
      <4>2. CASE Len(visits') = n + 1
        <5>1. visits'[n + 1].unit = d
          BY <1>2, <1>4, <4>2
        <5> QED
          BY <1>4, <2>2, <3>4, <4>2, <5>1
      <4> QED
        BY <1>10, <4>1, <4>2
    <3> QED
      BY <3>3, <3>4
  <2>3. CASE i = n + 1
    <3>1. Len(visits') = n + 1
      BY <1>4, <1>10, <2>3
    <3>2. visits'[i].unit = d /\ visits'[i].todo = Start!Dependents(d) \ {Target}
      BY <1>2, <1>4, <2>3, <3>1
    <3> QED
      BY <1>3, <1>14, <3>2, BeyondFacts
  <2> QED
    BY <1>4, <1>10, <2>1, <2>2, <2>3
<1> QED
  BY <1>1, <1>9, <1>11, <1>12, <1>13, <1>14 DEF VisitsSound

LEMMA VisitReturnsStays ==
  ASSUME StartTyped, Phases, VisitsKnown, StopsInOrder, Start!VisitReturns, Start!Acyclic
  PROVE  /\ visits' # <<>> => VisitsSound(visits', met', stops', up')
         /\ \A i \in 1 .. Len(stops') : \A v \in up' :
              stops'[i] \in Start!Deps(hard, v) => \E j \in 1 .. (i - 1) : stops'[j] = v
<1> DEFINE n == Len(visits)
           u == visits[n].unit
<1>1. visits # <<>> /\ VisitsSound(visits, met, stops, up) /\ met' = met /\ up' = up
  BY DEF Start!VisitReturns, Phases, VisitsKnown, Start!dinit
<1>2. /\ visits \in Seq(CallSet) /\ stops \in Seq(Start!AllUnits) /\ GraphTyped
  BY DEF StartTyped, GraphTyped
<1>3. /\ Len(Start!Front(visits)) = n - 1 /\ n \in Nat \ {0} /\ n \in 1 .. n /\ Start!Last(visits) = visits[n]
      /\ u \in Start!AllUnits /\ Start!Front(visits) \in Seq(CallSet) /\ (n = 1 <=> Start!Front(visits) = <<>>)
      /\ \A i \in 1 .. (n - 1) : Start!Front(visits)[i] = visits[i]
  BY <1>1, <1>2, LastCall
<1>4. visits' = Start!Front(visits) /\ stops' = Append(stops, u) /\ visits[n].todo = {}
  BY <1>3 DEF Start!VisitReturns, Start!Visiting
<1>5. ASSUME NEW v \in up \ {Target}, u \in Start!Deps(hard, v) PROVE v \in Start!Range(stops)
  <2>1. \/ v \in visits[n].todo \/ v \in Start!Range(stops)
        \/ n < Len(visits) /\ v = visits[n + 1].unit
    BY <1>1, <1>3, <1>5 DEF VisitsSound
  <2> QED
    BY <1>3, <1>4, <2>1
<1>6. u \notin Start!Deps(hard, Target)
  <2> SUFFICES ASSUME u \in Start!Deps(hard, Target) PROVE FALSE
    OBVIOUS
  <2>1. Target # u /\ Target \in Start!AllUnits
    BY <1>2, BeyondFacts
  <2>2. visits[1].unit = Target
    BY <1>1 DEF VisitsSound
  <2>3. 1 < n /\ 1 \in 1 .. n
    BY <1>3, <2>1, <2>2
  <2>4. Target \in Beyond(u)
    BY <1>1, <1>3, <2>2, <2>3 DEF VisitsSound
  <2> QED
    BY <1>2, <2>1, <2>4, BeyondFacts
<1> HIDE DEF u
<1>7. /\ stops' \in Seq(Start!AllUnits) /\ Len(stops') = Len(stops) + 1 /\ stops'[Len(stops) + 1] = u
      /\ Len(stops) \in Nat /\ \A i \in 1 .. Len(stops) : stops'[i] = stops[i]
  BY <1>2, <1>3, <1>4, Pushed
<1>8. Start!Range(stops') = Start!Range(stops) \cup {u}
  BY <1>2, <1>3, <1>4, RangePushed
<1>9. ASSUME visits' # <<>> PROVE VisitsSound(visits', met', stops', up')
  <2>1. /\ n > 1 /\ Len(visits') = n - 1 /\ n - 1 \in Nat /\ 1 \in 1 .. (n - 1)
        /\ \A i \in 1 .. (n - 1) : visits'[i] = visits[i] /\ i \in 1 .. n
    BY <1>3, <1>4, <1>9
  <2>2. visits'[1].unit = Target
    BY <1>1, <2>1 DEF VisitsSound
  <2>3. ASSUME NEW v \in met
        PROVE  v \in Start!Range(stops') \/ \E i \in 1 .. Len(visits') : v = visits'[i].unit
    <3>1. v \in Start!Range(stops) \/ \E i \in 1 .. n : v = visits[i].unit
      BY <1>1 DEF VisitsSound
    <3>2. ASSUME NEW i \in 1 .. n, v = visits[i].unit
          PROVE  v \in Start!Range(stops') \/ \E k \in 1 .. Len(visits') : v = visits'[k].unit
      <4>1. CASE i = n
        BY <1>8, <3>2, <4>1 DEF u
      <4>2. CASE i # n
        <5>1. i \in 1 .. (n - 1)
          BY <1>3, <4>2
        <5> QED
          BY <2>1, <3>2, <5>1
      <4> QED
        BY <4>1, <4>2
    <3> QED
      BY <1>8, <3>1, <3>2
  <2>4. \A i, j \in 1 .. Len(visits') : i < j => visits'[i].unit \in Beyond(visits'[j].unit)
    BY <1>1, <2>1 DEF VisitsSound
  <2>5. \A i \in 1 .. Len(visits') : visits'[i].todo \subseteq Start!Dependents(visits'[i].unit)
    BY <1>1, <2>1 DEF VisitsSound
  <2>6. ASSUME NEW i \in 1 .. Len(visits'), NEW v \in up \ {Target},
               visits'[i].unit \in Start!Deps(hard, v)
        PROVE  \/ v \in visits'[i].todo \/ v \in Start!Range(stops')
               \/ i < Len(visits') /\ v = visits'[i + 1].unit
    <3>1. i \in 1 .. n /\ i \in 1 .. (n - 1) /\ visits'[i] = visits[i]
      BY <2>1
    <3>2. v \in visits[i].todo \/ v \in Start!Range(stops) \/ (i < n /\ v = visits[i + 1].unit)
      BY <1>1, <2>6, <3>1 DEF VisitsSound
    <3>3. CASE i < n /\ v = visits[i + 1].unit
      <4>1. CASE i + 1 = n
        BY <1>8, <3>3, <4>1 DEF u
      <4>2. CASE i + 1 # n
        <5>1. i + 1 \in 1 .. (n - 1) /\ i < n - 1
          BY <1>3, <3>1, <3>3, <4>2
        <5> QED
          BY <2>1, <3>3, <5>1
      <4> QED
        BY <4>1, <4>2
    <3> QED
      BY <1>8, <3>1, <3>2, <3>3
  <2> QED
    BY <1>1, <2>2, <2>3, <2>4, <2>5, <2>6 DEF VisitsSound
<1>10. ASSUME NEW i \in 1 .. Len(stops'), NEW v \in up, stops'[i] \in Start!Deps(hard, v)
       PROVE  \E j \in 1 .. (i - 1) : stops'[j] = v
  <2>1. CASE i \in 1 .. Len(stops)
    <3>1. PICK j \in 1 .. (i - 1) : stops[j] = v
      BY <1>7, <1>10, <2>1 DEF StopsInOrder
    <3>2. j \in 1 .. Len(stops)
      BY <1>7, <2>1, <3>1
    <3> QED
      BY <1>7, <3>1, <3>2
  <2>2. CASE i \notin 1 .. Len(stops)
    <3>1. i = Len(stops) + 1
      BY <1>7, <2>2
    <3>2. u \in Start!Deps(hard, v)
      BY <1>7, <1>10, <3>1
    <3>3. v \in Start!Range(stops)
      BY <1>5, <1>6, <3>2
    <3>4. PICK j \in 1 .. Len(stops) : stops[j] = v
      BY <1>2, <3>3, RangeOf
    <3>5. j \in 1 .. (i - 1) /\ stops'[j] = v
      BY <1>7, <3>1, <3>4
    <3> QED
      BY <3>5
  <2> QED
    BY <2>1, <2>2
<1> QED
  BY <1>1, <1>9, <1>10

LEMMA BeginVisits ==
  ASSUME StartTyped, Phases, Start!Begin
  PROVE  visits' # <<>> => VisitsSound(visits', met', stops', up')
<1> SUFFICES ASSUME visits' # <<>> PROVE VisitsSound(visits', met', stops', up')
  OBVIOUS
<1>1. Target \in Start!AllUnits /\ GraphTyped
  BY PartsAssumption DEF Start!Parameters, StartTyped, GraphTyped
<1>2. visits = <<>> /\ met = {} /\ UNCHANGED <<met, stops, up>>
  BY DEF Start!Begin, Phases, Start!dinit
<1>3. visits' = <<Start!Visit(Target)>>
  BY <1>2 DEF Start!Begin
<1> DEFINE f == Start!Visit(Target)
<1>4. f.unit = Target /\ f.todo = Start!Dependents(Target) \ {Target} /\ visits' = <<f>>
  BY <1>1, <1>3, CallsTyped
<1> HIDE DEF f
<1>5. Len(visits') = 1 /\ visits'[1] = f
  BY <1>4
<1>6. \A i \in 1 .. Len(visits') : i = 1
  BY <1>5
<1>7. \A v : Target \in Start!Deps(hard, v) => v \in Start!Dependents(Target)
  BY <1>1, BeyondFacts
<1>8. \A i, j \in 1 .. Len(visits') : ~(i < j)
  BY <1>5
<1> QED
  BY <1>2, <1>4, <1>5, <1>6, <1>7, <1>8 DEF VisitsSound

LEMMA FewerUp ==
  ASSUME NEW calls_, NEW met_, NEW stops_, NEW up_, NEW less, less \subseteq up_,
         VisitsSound(calls_, met_, stops_, up_)
  PROVE  VisitsSound(calls_, met_, stops_, less)
BY DEF VisitsSound

(* The steps that leave the visits alone take place outside of them.         *)
LEMMA OtherSteps ==
  ASSUME Start!Next
  PROVE  /\ UNCHANGED Start!graph
         /\ \/ Start!Begin \/ Start!VisitReturns \/ \E d \in Start!AllUnits : Start!VisitDependent(d)
            \/ \E u \in Start!AllUnits : Start!Crash(u)
            \/ pc # "visit" /\ visits' = visits
         /\ \/ Start!VisitReturns \/ Start!StopNext \/ (stops' = stops /\ up' \subseteq up)
            \/ pc = "start" /\ stops' = stops
         /\ Start!StopNext \/ refused' = refused
<1> USE DEF Start!graph, Start!dinit, Start!closure, Start!calls, Start!ghosts
<1>1. CASE Start!Begin
  BY <1>1 DEF Start!Begin
<1>2. ASSUME NEW d \in Start!AllUnits, Start!VisitDependent(d) PROVE UNCHANGED <<Start!graph, stops, up, refused>>
  BY <1>2 DEF Start!VisitDependent
<1>3. CASE Start!VisitReturns
  BY <1>3 DEF Start!VisitReturns
<1>4. CASE Start!StopNext
  BY <1>4 DEF Start!StopNext
<1>5. CASE Start!NextUnit
  BY <1>5 DEF Start!NextUnit
<1>6. ASSUME NEW d \in Start!AllUnits, Start!InstallDependency(d)
      PROVE  UNCHANGED <<Start!graph, stops, up, refused, visits>> /\ pc # "visit"
  BY <1>6 DEF Start!InstallDependency
<1>7. CASE Start!InstallSelf
  BY <1>7 DEF Start!InstallSelf
<1>8. CASE Start!InstallFails
  BY <1>8 DEF Start!InstallFails
<1>9. CASE Start!AfterInstall
  BY <1>9 DEF Start!AfterInstall
<1>10. ASSUME NEW d \in Start!AllUnits, Start!NextDependency(d)
       PROVE  UNCHANGED <<Start!graph, stops, up, refused, visits>> /\ pc # "visit"
  BY <1>10 DEF Start!NextDependency
<1>11. CASE Start!Unwind
  BY <1>11 DEF Start!Unwind
<1>12. CASE Start!StartSelf
  BY <1>12 DEF Start!StartSelf
<1>13. ASSUME NEW v \in Start!AllUnits, Start!StartFails(v)
       PROVE  UNCHANGED <<Start!graph, stops, refused, visits>> /\ pc = "start"
  BY <1>13 DEF Start!StartFails
<1>14. ASSUME NEW u \in Start!AllUnits, Start!Crash(u)
       PROVE  UNCHANGED <<Start!graph, stops, refused, visits>> /\ up' \subseteq up
  BY <1>14 DEF Start!Crash
<1> QED
  BY <1>1, <1>2, <1>3, <1>4, <1>5, <1>6, <1>7, <1>8, <1>9, <1>10, <1>11, <1>12, <1>13, <1>14
  DEF Start!Next

LEMMA VisitsStay ==
  ASSUME StartTyped, Phases, VisitsKnown, StopsInOrder, Start!Next
  PROVE  VisitsKnown'
<1>1. UNCHANGED Start!graph /\ (Start!Acyclic <=> Start!Acyclic')
  BY OtherSteps, GraphStays
<1> SUFFICES ASSUME Start!Acyclic, visits' # <<>> PROVE VisitsSound(visits', met', stops', up')
  BY <1>1, VisitsSoundStays
<1>2. CASE Start!Begin
  BY <1>2, BeginVisits
<1>3. CASE Start!VisitReturns
  BY <1>3, VisitReturnsStays
<1>4. CASE \E d \in Start!AllUnits : Start!VisitDependent(d)
  BY <1>4, VisitDependentStays
<1>5. ASSUME NEW u \in Start!AllUnits, Start!Crash(u) PROVE VisitsSound(visits', met', stops', up')
  <2>1. UNCHANGED <<visits, met, stops>> /\ up' \subseteq up
    BY <1>5 DEF Start!Crash, Start!closure
  <2>2. VisitsSound(visits, met, stops, up)
    BY <2>1 DEF VisitsKnown
  <2> QED
    BY <2>1, <2>2, FewerUp
<1>6. CASE pc # "visit" /\ visits' = visits
  BY <1>6 DEF Phases
<1> QED
  BY <1>2, <1>3, <1>4, <1>5, <1>6, OtherSteps

LEMMA StopsStay ==
  ASSUME StartTyped, Phases, VisitsKnown, StopsInOrder, Start!StopsAccepted, Start!Next
  PROVE  StopsInOrder' /\ Start!StopsAccepted'
<1>1. UNCHANGED Start!graph /\ (Start!Acyclic <=> Start!Acyclic') /\ \A u : Start!Deps(hard', u) = Start!Deps(hard, u)
  BY OtherSteps, GraphStays DEF Start!graph
<1>2. stops \in Seq(Start!AllUnits) /\ GraphTyped
  BY DEF StartTyped, GraphTyped
<1> SUFFICES ASSUME Start!Acyclic
             PROVE  /\ \A i \in 1 .. Len(stops') : \A v \in up' :
                         stops'[i] \in Start!Deps(hard, v) => \E j \in 1 .. (i - 1) : stops'[j] = v
                    /\ ~refused'
  BY <1>1 DEF StopsInOrder, Start!StopsAccepted
<1>3. CASE Start!VisitReturns
  <2>1. refused' = refused
    BY <1>3 DEF Start!VisitReturns, Start!ghosts
  <2> QED
    BY <1>3, <2>1, VisitReturnsStays DEF Start!StopsAccepted
<1>4. CASE Start!StopNext
  <2> DEFINE h == Head(stops)
  <2>1. /\ stops # <<>> /\ h = stops[1] /\ Len(Tail(stops)) = Len(stops) - 1 /\ Len(stops) \in Nat
        /\ \A i \in 1 .. (Len(stops) - 1) : Tail(stops)[i] = stops[i + 1]
    <3>1. stops # <<>>
      BY <1>4 DEF Start!StopNext
    <3> QED
      BY <1>2, <3>1, RangeHead
  <2>2. \A v \in up : h \notin Start!Deps(hard, v)
    <3> SUFFICES ASSUME NEW v \in up, h \in Start!Deps(hard, v) PROVE FALSE
      OBVIOUS
    <3>1. 1 \in 1 .. Len(stops) /\ stops[1] \in Start!Deps(hard, v)
      BY <1>2, <2>1
    <3>2. \E j \in 1 .. (1 - 1) : stops[j] = v
      BY <3>1 DEF StopsInOrder
    <3> QED
      BY <3>2
  <2>3. ~ \E v \in up : h \in Start!Needs(v)
    BY <1>2, <2>2, BelowFacts
  <2>4. /\ stops' = Tail(stops) /\ refused' = refused
        /\ (h \notin known /\ up' = up) \/ up' = up \ {h}
    BY <1>4, <2>3 DEF Start!StopNext
  <2>5. h \notin up' /\ up' \subseteq up
    BY <2>4 DEF Phases
  <2> HIDE DEF h
  <2>6. ASSUME NEW i \in 1 .. Len(stops'), NEW v \in up', stops'[i] \in Start!Deps(hard, v)
        PROVE  \E j \in 1 .. (i - 1) : stops'[j] = v
    <3>1. i \in 1 .. (Len(stops) - 1) /\ i + 1 \in 1 .. Len(stops) /\ stops'[i] = stops[i + 1]
      BY <2>1, <2>4
    <3>2. PICK j \in 1 .. ((i + 1) - 1) : stops[j] = v
      BY <2>5, <2>6, <3>1 DEF StopsInOrder
    <3>3. j # 1
      BY <2>1, <2>5, <3>2
    <3>4. j - 1 \in 1 .. (i - 1) /\ j - 1 \in 1 .. (Len(stops) - 1) /\ (j - 1) + 1 = j
      BY <3>1, <3>2, <3>3, <2>1
    <3>5. stops'[j - 1] = v
      BY <2>1, <2>4, <3>2, <3>4
    <3> QED
      BY <3>4, <3>5
  <2> QED
    BY <2>4, <2>6 DEF Start!StopsAccepted
<1>5. CASE stops' = stops /\ up' \subseteq up /\ refused' = refused
  BY <1>5 DEF StopsInOrder, Start!StopsAccepted
<1>6. CASE pc = "start" /\ stops' = stops /\ refused' = refused
  <2>1. stops' = <<>>
    BY <1>6 DEF Phases
  <2>2. Len(stops') = 0
    BY <2>1
  <2> QED
    BY <1>6, <2>2 DEF Start!StopsAccepted
<1> QED
  BY <1>3, <1>4, <1>5, <1>6, OtherSteps

-----------------------------------------------------------------------------
(* The calls of recursiveStart. *)

LEMMA StartsSoundStays ==
  ASSUME UNCHANGED Start!graph, NEW f, StartsSound(stack', visited', f), f = Head(work)' \/ stack' = <<>>,
         pc' = "install" /\ stack' # <<>> => stack'[Len(stack')].dep # 0
  PROVE  StartsKnown'
<1>1. CASE f = Head(work)'
  BY <1>1, GraphStays DEF StartsKnown, StartsSound
<1>2. CASE stack' = <<>>
  <2>1. Len(stack') = 0
    BY <1>2
  <2>2. \A i \in 1 .. Len(stack') : FALSE
    BY <2>1
  <2> QED
    BY <1>2, <2>2 DEF StartsKnown, StartsSound
<1> QED
  BY <1>1, <1>2

LEMMA NothingStarted ==
  ASSUME NEW v, NEW f
  PROVE  StartsSound(<<>>, v, f)
<1>1. \A i \in 1 .. Len(<<>>) : FALSE
  OBVIOUS
<1> QED
  BY <1>1 DEF StartsSound

LEMMA StartsGoOn ==
  ASSUME NEW s, NEW t, NEW v, NEW f, StartsSound(s, v, f), CallGoesOn(s, t),
         t[Len(s)].dep # 0 <=> t[Len(s)].via # "none",
         t[Len(s)].via = "hard" => t[Len(s)].dep \in Start!Needs(t[Len(s)].unit)
  PROVE  StartsSound(t, v, f)
<1> DEFINE n == Len(s)
<1>1. /\ n \in Nat \ {0} /\ n \in 1 .. n /\ 1 \in 1 .. n /\ Len(t) = n /\ s # <<>>
      /\ t[n].unit = s[n].unit /\ t[n].hard \subseteq s[n].hard
      /\ \A i \in 1 .. (n - 1) : t[i] = s[i]
  BY DEF CallGoesOn
<1>2. \A i \in 1 .. n : i = n \/ i \in 1 .. (n - 1)
  BY <1>1
<1>3. \A i \in 1 .. n : t[i].unit = s[i].unit /\ t[i].hard \subseteq s[i].hard
  BY <1>1, <1>2
<1>4. ASSUME NEW i \in 1 .. n, \A j \in 1 .. (i - 1) : t[j].via # "soft"
      PROVE  t[i].unit \in Start!Below(f)
  <2>1. \A j \in 1 .. (i - 1) : t[j] = s[j]
    BY <1>1
  <2>2. s[i].unit \in Start!Below(f)
    BY <1>4, <2>1 DEF StartsSound
  <2> QED
    BY <1>3, <2>2
<1>5. t[1].unit = f
  BY <1>1, <1>3 DEF StartsSound
<1>6. ASSUME NEW i \in 1 .. n
      PROVE  /\ t[i].unit \in v /\ t[i].hard \subseteq Start!Deps(hard, t[i].unit)
             /\ t[i].dep # 0 <=> t[i].via # "none"
             /\ t[i].via = "hard" => t[i].dep \in Start!Needs(t[i].unit)
  <2>1. t[i].unit \in v /\ t[i].hard \subseteq Start!Deps(hard, t[i].unit)
    BY <1>3 DEF StartsSound
  <2>2. CASE i = n
    BY <2>1, <2>2
  <2>3. CASE i \in 1 .. (n - 1)
    BY <1>1, <2>1, <2>3 DEF StartsSound
  <2> QED
    BY <1>2, <2>2, <2>3
<1>7. \A i, j \in 1 .. n : i < j => t[i].unit # t[j].unit
  BY <1>3 DEF StartsSound
<1> QED
  BY <1>1, <1>4, <1>5, <1>6, <1>7 DEF StartsSound

LEMMA StartsReturn ==
  ASSUME StartTyped, NEW s \in Seq(FrameSet), s # <<>>, NEW v, NEW f, StartsSound(s, v, f)
  PROVE  StartsSound(Start!Front(s), v, f)
<1>1. /\ Len(Start!Front(s)) = Len(s) - 1 /\ Len(s) \in Nat \ {0}
      /\ \A i \in 1 .. (Len(s) - 1) : Start!Front(s)[i] = s[i] /\ i \in 1 .. Len(s)
      /\ Start!Front(s) \in Seq(FrameSet)
  BY FrontGoesOn
<1>2. Start!Front(s) # <<>> => 1 \in 1 .. (Len(s) - 1)
  BY <1>1
<1>3. Start!Front(s) # <<>> => Start!Front(s)[1].unit = f
  BY <1>1, <1>2 DEF StartsSound
<1>4. ASSUME NEW i \in 1 .. (Len(s) - 1), \A j \in 1 .. (i - 1) : Start!Front(s)[j].via # "soft"
      PROVE  Start!Front(s)[i].unit \in Start!Below(f)
  <2>1. \A j \in 1 .. (i - 1) : Start!Front(s)[j] = s[j]
    BY <1>1
  <2> QED
    BY <1>1, <1>4, <2>1 DEF StartsSound
<1> QED
  BY <1>1, <1>3, <1>4 DEF StartsSound

LEMMA StartsCall ==
  ASSUME StartTyped, NEW v, NEW f, StartsSound(stack, v, f), stack # <<>>,
         NEW d \in Start!AllUnits \ v, d = stack[Len(stack)].dep,
         NEW t \in Seq(FrameSet), Len(t) = Len(stack) + 1, t[Len(stack) + 1] = Start!Frame(d), t # <<>>,
         \A i \in 1 .. Len(stack) : t[i] = stack[i]
  PROVE  StartsSound(t, v \cup {d}, f)
<1> DEFINE n == Len(stack)
<1>1. /\ n \in Nat \ {0} /\ n \in 1 .. n /\ 1 \in 1 .. n /\ GraphTyped /\ stack[n] \in FrameSet
  BY FrontOf DEF StartTyped, GraphTyped
<1>2. /\ Start!Frame(d).unit = d /\ Start!Frame(d).hard = Start!Deps(hard, d)
      /\ Start!Frame(d).dep = 0 /\ Start!Frame(d).via = "none"
  BY CallsTyped
<1>3. \A i \in 1 .. Len(t) : i \in 1 .. n \/ i = n + 1
  BY <1>1
<1>4. t[1].unit = f
  BY <1>1 DEF StartsSound
<1>5. ASSUME NEW i \in 1 .. n
      PROVE  /\ t[i].unit \in v /\ t[i].hard \subseteq Start!Deps(hard, t[i].unit)
             /\ t[i].dep # 0 <=> t[i].via # "none"
             /\ t[i].via = "hard" => t[i].dep \in Start!Needs(t[i].unit)
             /\ (\A j \in 1 .. (i - 1) : t[j].via # "soft") => t[i].unit \in Start!Below(f)
  <2>1. \A j \in 1 .. (i - 1) : t[j] = stack[j]
    BY <1>1
  <2> QED
    BY <1>5, <2>1 DEF StartsSound
<1>6. ASSUME \A j \in 1 .. n : t[j].via # "soft" PROVE d \in Start!Below(f)
  <2>1. stack[n].via # "soft" /\ stack[n].unit \in Start!Below(f)
    <3>1. \A j \in 1 .. (n - 1) : stack[j].via # "soft"
      BY <1>1, <1>6
    <3> QED
      BY <1>1, <1>6, <3>1 DEF StartsSound
  <2>2. d # 0
    BY PartsAssumption DEF Start!AllUnits, Start!Parameters
  <2>3. stack[n].via = "hard"
    BY <1>1, <2>1, <2>2 DEF StartsSound, FrameSet
  <2>4. d \in Start!Needs(stack[n].unit)
    BY <1>1, <2>3 DEF StartsSound
  <2> QED
    BY <1>1, <2>1, <2>4, BelowFacts
<1>7. ASSUME NEW i \in 1 .. Len(t), NEW j \in 1 .. Len(t), i < j PROVE t[i].unit # t[j].unit
  <2>1. i \in 1 .. n
    BY <1>1, <1>3, <1>7
  <2>2. CASE j \in 1 .. n
    BY <1>7, <2>1, <2>2 DEF StartsSound
  <2>3. CASE j = n + 1
    BY <1>2, <1>5, <2>1, <2>3
  <2> QED
    BY <1>3, <2>2, <2>3
<1>8. ASSUME NEW i \in 1 .. Len(t)
      PROVE  /\ t[i].unit \in v \cup {d} /\ t[i].hard \subseteq Start!Deps(hard, t[i].unit)
             /\ t[i].dep # 0 <=> t[i].via # "none"
             /\ t[i].via = "hard" => t[i].dep \in Start!Needs(t[i].unit)
             /\ (\A j \in 1 .. (i - 1) : t[j].via # "soft") => t[i].unit \in Start!Below(f)
  <2>1. CASE i \in 1 .. n
    BY <1>5, <2>1
  <2>2. CASE i = n + 1
    <3>1. t[i] = Start!Frame(d) /\ 1 .. (i - 1) = 1 .. n
      BY <1>1, <2>2
    <3> QED
      BY <1>2, <1>6, <3>1
  <2> QED
    BY <1>3, <2>1, <2>2
<1> QED
  BY <1>4, <1>7, <1>8 DEF StartsSound

LEMMA StartsBegin ==
  ASSUME StartTyped, NEW f \in Start!AllUnits
  PROVE  StartsSound(<<Start!Frame(f)>>, {f}, f)
<1> DEFINE g == Start!Frame(f)
<1>1. /\ g.unit = f /\ g.hard = Start!Deps(hard, f) /\ g.dep = 0 /\ g.via = "none"
  BY CallsTyped
<1>2. f \in Start!Below(f)
  BY BelowFacts DEF StartTyped, GraphTyped
<1> HIDE DEF g
<1>3. Len(<<g>>) = 1 /\ <<g>>[1] = g
  OBVIOUS
<1>4. \A i \in 1 .. Len(<<g>>) : i = 1
  BY <1>3
<1>5. StartsSound(<<g>>, {f}, f)
  BY <1>1, <1>2, <1>3, <1>4 DEF StartsSound
<1> QED
  BY <1>5 DEF g

(* What is called at which step. *)
LEMMA StartSteps ==
  ASSUME StartTyped, Phases, Start!Next
  PROVE  \/ Start!AfterInstall \/ Start!Unwind \/ Start!StartSelf
         \/ \E d \in Start!AllUnits : Start!NextDependency(d) \/ Start!StartFails(d)
         \/ /\ UNCHANGED <<stack, visited, work>> /\ (pc' = pc \/ pc' # "install")
            /\ Start!InstallFails \/ pc' # "unwind" \/ (pc' = pc /\ culprits \subseteq culprits')
            /\ pc' # "fail" \/ pc = "fail"
         \/ stack = <<>> /\ stack' = <<>> /\ pc' # "unwind" /\ (pc' = "fail" => refused')
<1> USE DEF Start!graph, Start!dinit, Start!closure, Start!calls, Start!ghosts
<1> DEFINE Alone == stack = <<>> /\ stack' = <<>> /\ pc' # "unwind" /\ (pc' = "fail" => refused')
           Same == /\ UNCHANGED <<stack, visited, work>> /\ (pc' = pc \/ pc' # "install")
                   /\ Start!InstallFails \/ pc' # "unwind" \/ (pc' = pc /\ culprits \subseteq culprits')
                   /\ pc' # "fail" \/ pc = "fail"
<1>0. pc \in {"begin", "visit", "stop"} => stack = <<>>
  BY DEF Phases
<1>1. CASE Start!Begin
  <2>1. Alone
    BY <1>0, <1>1 DEF Start!Begin
  <2> QED
    BY <2>1
<1>2. ASSUME NEW d \in Start!AllUnits, Start!VisitDependent(d) PROVE Alone
  BY <1>0, <1>2 DEF Start!VisitDependent
<1>3. CASE Start!VisitReturns
  <2>1. Alone
    BY <1>0, <1>3 DEF Start!VisitReturns
  <2> QED
    BY <2>1
<1>4. CASE Start!StopNext
  <2>1. Alone
    BY <1>0, <1>4 DEF Start!StopNext
  <2> QED
    BY <2>1
<1>5. CASE Start!NextUnit
  <2>1. Alone
    BY <1>0, <1>5 DEF Start!NextUnit
  <2> QED
    BY <2>1
<1>6. ASSUME NEW d \in Start!AllUnits, Start!InstallDependency(d) PROVE Same
  BY <1>6 DEF Start!InstallDependency
<1>7. CASE Start!InstallSelf
  <2>1. Same
    BY <1>7 DEF Start!InstallSelf
  <2> QED
    BY <2>1
<1>8. CASE Start!InstallFails
  <2>1. Same
    BY <1>8 DEF Start!InstallFails, Start!Failed
  <2> QED
    BY <2>1
<1>9. ASSUME NEW u \in Start!AllUnits, Start!Crash(u) PROVE Same
  BY <1>9 DEF Start!Crash
<1> HIDE DEF Alone, Same
<1> QED
  BY <1>1, <1>2, <1>3, <1>4, <1>5, <1>6, <1>7, <1>8, <1>9 DEF Start!Next, Alone, Same

LEMMA StartsStay ==
  ASSUME StartTyped, Phases, StartsKnown, Start!Next
  PROVE  StartsKnown'
<1> DEFINE n == Len(stack)
           f == Head(work)
<1>1. UNCHANGED Start!graph /\ stack \in Seq(FrameSet) /\ StartsSound(stack, visited, f)
  BY OtherSteps DEF StartTyped, StartsKnown
<1>2. stack # <<>> => /\ n \in Nat \ {0} /\ n \in 1 .. n /\ Start!Last(stack) = stack[n]
                      /\ stack[n] \in FrameSet
  <2> SUFFICES ASSUME stack # <<>>
               PROVE  /\ n \in Nat \ {0} /\ n \in 1 .. n /\ Start!Last(stack) = stack[n]
                      /\ stack[n] \in FrameSet
    OBVIOUS
  <2>1. n \in Nat \ {0} /\ Start!Last(stack) = stack[n] /\ Start!Last(stack) \in FrameSet
    BY <1>1, FrontOf
  <2> QED
    <3> HIDE DEF n
    <3> QED
      BY <2>1
<1>3. CASE Start!AfterInstall
  <2>1. UNCHANGED <<work, pc>> /\ pc = "start" /\ f' = f /\ work # <<>>
    BY <1>3 DEF Start!AfterInstall, Phases
  <2>2. CASE stack = <<>>
    <3>1. stack' = <<Start!Frame(f)>> /\ visited' = {f}
      BY <1>3, <2>2 DEF Start!AfterInstall
    <3>2. f \in Start!AllUnits
      BY <2>1, RangeHead DEF StartTyped
    <3>3. StartsSound(stack', visited', f)
      BY <3>1, <3>2, StartsBegin
    <3> QED
      BY <1>1, <2>1, <3>3, StartsSoundStays
  <2>3. CASE stack # <<>>
    <3>1. CASE /\ CallGoesOn(stack, stack') /\ visited' = visited
               /\ stack'[n].dep = 0 /\ stack'[n].via = "none"
      <4>1. StartsSound(stack', visited', f)
        BY <1>1, <3>1, StartsGoOn
      <4> QED
        BY <1>1, <2>1, <4>1, StartsSoundStays
    <3>2. ASSUME NEW d \in Start!AllUnits,
                 /\ d = stack[n].dep /\ d \notin visited /\ visited' = visited \cup {d}
                 /\ stack' \in Seq(FrameSet) /\ Len(stack') = n + 1 /\ stack' # <<>>
                 /\ stack'[n + 1] = Start!Frame(d)
                 /\ \A i \in 1 .. n : stack'[i] = stack[i]
          PROVE  StartsKnown'
      <4>1. StartsSound(stack', visited \cup {d}, f)
        BY <1>1, <2>3, <3>2, StartsCall
      <4> QED
        BY <1>1, <2>1, <3>2, <4>1, StartsSoundStays
    <3> QED
      BY <1>3, <2>3, <3>1, <3>2, AfterInstallDoes
  <2> QED
    BY <2>2, <2>3
<1>4. ASSUME NEW d \in Start!AllUnits, Start!NextDependency(d) PROVE StartsKnown'
  <2>1. UNCHANGED <<work, visited>> /\ f' = f /\ stack # <<>>
    BY <1>4 DEF Start!NextDependency
  <2>2. /\ pc = "start" /\ CallGoesOn(stack, stack') /\ stack[n].dep = 0
        /\ \/ /\ d \in external /\ pc' = pc
              /\ stack'[n].dep = 0 /\ stack'[n].via = stack[n].via
           \/ /\ d \notin external /\ stack'[n].dep = d
              /\ \/ d \in stack[n].hard /\ stack'[n].via = "hard"
                 \/ stack'[n].via = "soft"
    BY <1>4, NextDependencyDoes
  <2>3. d # 0
    BY PartsAssumption DEF Start!AllUnits, Start!Parameters
  <2>4. /\ Len(stack') = n /\ stack'[n].unit = stack[n].unit
        /\ stack[n].hard \subseteq Start!Deps(hard, stack[n].unit)
        /\ stack[n].via = "none"
    BY <1>1, <1>2, <2>1, <2>2 DEF CallGoesOn, StartsSound
  <2>5. \A e : e \in stack[n].hard /\ e \notin external => e \in Start!Needs(stack[n].unit)
    BY <2>4, BelowFacts DEF StartTyped, GraphTyped
  <2>6. /\ stack'[n].dep # 0 <=> stack'[n].via # "none"
        /\ stack'[n].via = "hard" => stack'[n].dep \in Start!Needs(stack'[n].unit)
        /\ pc' # "install" \/ stack'[Len(stack')].dep # 0
    BY <2>2, <2>3, <2>4, <2>5
  <2>7. StartsSound(stack', visited', f)
    BY <1>1, <2>1, <2>2, <2>6, StartsGoOn
  <2> QED
    BY <1>1, <2>1, <2>6, <2>7, StartsSoundStays
<1>5. CASE Start!Unwind
  <2>1. UNCHANGED <<work, visited>> /\ f' = f
    BY <1>5 DEF Start!Unwind
  <2>2. StartsSound(stack', visited', f) /\ pc' # "install"
    <3>1. CASE stack = <<>> /\ stack' = <<>> /\ pc' = "fail"
      BY <3>1, NothingStarted
    <3>2. CASE /\ stack # <<>> /\ pc' = "start" /\ CallGoesOn(stack, stack')
               /\ stack'[n].dep = 0 /\ stack'[n].via = "none"
      BY <1>1, <2>1, <3>2, StartsGoOn
    <3>3. CASE stack # <<>> /\ pc' = "unwind" /\ stack' = Start!Front(stack)
      BY <1>1, <2>1, <3>3, StartsReturn
    <3> QED
      BY <1>5, <3>1, <3>2, <3>3, UnwindDoes
  <2> QED
    BY <1>1, <2>1, <2>2, StartsSoundStays
<1>6. CASE Start!StartSelf
  <2>1. stack # <<>> /\ pc = "start"
    BY <1>6 DEF Start!StartSelf
  <2>2. Start!Return \/ (stack' = Start!Front(stack) /\ pc' = "unwind" /\ UNCHANGED <<visited, work>>)
    BY <1>6 DEF Start!StartSelf, Start!Failed
  <2>3. CASE stack' = Start!Front(stack) /\ pc' = "unwind" /\ UNCHANGED <<visited, work>>
    <3>1. StartsSound(stack', visited', f) /\ f' = f
      BY <1>1, <2>1, <2>3, StartsReturn
    <3> QED
      BY <1>1, <2>3, <3>1, StartsSoundStays
  <2>4. CASE stack' = <<>> /\ pc' = "stop"
    <3>1. StartsSound(stack', visited', f)
      BY <2>4, NothingStarted
    <3> QED
      BY <1>1, <2>4, <3>1, StartsSoundStays
  <2>5. CASE /\ Len(stack) > 1 /\ CallGoesOn(Start!Front(stack), stack')
             /\ stack'[Len(stack) - 1].dep = 0 /\ stack'[Len(stack) - 1].via = "none"
             /\ UNCHANGED <<visited, work, pc>>
    <3>1. Len(Start!Front(stack)) = Len(stack) - 1 /\ f' = f
      BY <1>1, <2>1, <2>5, FrontOf
    <3>2. StartsSound(Start!Front(stack), visited', f)
      BY <1>1, <2>1, <2>5, StartsReturn
    <3>3. StartsSound(stack', visited', f)
      BY <2>5, <3>1, <3>2, StartsGoOn
    <3> QED
      BY <1>1, <2>1, <2>5, <3>1, <3>3, StartsSoundStays
  <2> QED
    BY <2>1, <2>2, <2>3, <2>4, <2>5, ReturnDoes
<1>7. ASSUME NEW v \in Start!AllUnits, Start!StartFails(v) PROVE StartsKnown'
  <2>1. /\ stack # <<>> /\ stack' = Start!Front(stack) /\ pc' = "unwind" /\ UNCHANGED <<visited, work>>
        /\ f' = f
    BY <1>7 DEF Start!StartFails, Start!Failed
  <2>2. StartsSound(stack', visited', f)
    BY <1>1, <2>1, StartsReturn
  <2> QED
    BY <1>1, <2>1, <2>2, StartsSoundStays
<1>8. CASE UNCHANGED <<stack, visited, work>> /\ (pc' = pc \/ pc' # "install")
  <2>1. f' = f /\ StartsSound(stack', visited', f)
    BY <1>1, <1>8
  <2>2. pc' = "install" /\ stack' # <<>> => stack'[Len(stack')].dep # 0
    BY <1>8 DEF StartsKnown
  <2> QED
    BY <1>1, <2>1, <2>2, StartsSoundStays
<1>9. CASE stack = <<>> /\ stack' = <<>>
  <2>1. StartsSound(stack', visited', f)
    BY <1>9, NothingStarted
  <2> QED
    BY <1>1, <1>9, <2>1, StartsSoundStays
<1> QED
  BY <1>3, <1>4, <1>5, <1>6, <1>7, <1>8, <1>9, StartSteps

-----------------------------------------------------------------------------
(* A command fails because of a unit that it needs. *)

LEMMA NoStepAfterTheEnd ==
  ASSUME Start!Next
  PROVE  pc \notin {"ok", "fail"}
BY DEF Start!Next, Start!Begin, Start!VisitDependent, Start!VisitReturns, Start!StopNext,
   Start!NextUnit, Start!InstallDependency, Start!InstallSelf,
       Start!InstallFails, Start!AfterInstall, Start!Unwind, Start!NextDependency, Start!StartSelf, Start!StartFails, Start!Crash

NoneSoft(s) == \A i \in 1 .. Len(s) : s[i].via # "soft"

LEMMA TopIsNeeded ==
  ASSUME StartTyped, StartsKnown, stack # <<>>, NoneSoft(Start!Front(stack))
  PROVE  /\ stack[Len(stack)].unit \in Start!Below(Head(work))
         /\ NoneSoft(stack) /\ stack[Len(stack)].dep # 0 =>
              stack[Len(stack)].dep \in Start!Below(Head(work))
<1> DEFINE n == Len(stack)
           f == Head(work)
<1>1. /\ n \in Nat \ {0} /\ Len(Start!Front(stack)) = n - 1 /\ stack[n] \in FrameSet
      /\ \A i \in 1 .. (n - 1) : Start!Front(stack)[i] = stack[i]
  BY FrontOf DEF StartTyped
<1>2. n \in 1 .. n /\ \A j \in 1 .. (n - 1) : stack[j].via # "soft"
  BY <1>1 DEF NoneSoft
<1>3. GraphTyped
  BY DEF StartTyped, GraphTyped
<1>4. /\ stack[n].unit \in Start!Below(f)
      /\ stack[n].dep # 0 <=> stack[n].via # "none"
      /\ stack[n].via = "hard" => stack[n].dep \in Start!Needs(stack[n].unit)
  BY <1>2 DEF StartsKnown, StartsSound
<1>5. ASSUME NoneSoft(stack), stack[n].dep # 0 PROVE stack[n].dep \in Start!Below(f)
  <2>1. stack[n].via # "soft" /\ stack[n].via \in {"none", "hard", "soft"}
    BY <1>1, <1>2, <1>5 DEF NoneSoft, FrameSet
  <2>2. stack[n].via = "hard"
    BY <1>4, <1>5, <2>1
  <2>3. stack[n].dep \in Start!Needs(stack[n].unit)
    BY <1>4, <2>2
  <2> QED
    BY <1>3, <1>4, <2>3, BelowFacts
<1> QED
  BY <1>4, <1>5

LEMMA CauseStays ==
  ASSUME StartTyped, Phases, InstallsKnown, StartsKnown, CauseKnown, Start!Next
  PROVE  CauseKnown'
<1> DEFINE n == Len(stack)
           f == Head(work)
<1>1. UNCHANGED Start!graph /\ (Start!Acyclic <=> Start!Acyclic') /\ (\A u : Start!Below(u)' = Start!Below(u)) /\ GraphTyped
      /\ stack \in Seq(FrameSet)
  BY OtherSteps, GraphStays DEF StartTyped, GraphTyped
<1>2. (pc' = "unwind" /\ Start!Acyclic /\ NoneSoft(stack') => work' = work /\ culprits' \cap Start!Below(f) # {})
        => CauseKnown'
  BY <1>1 DEF CauseKnown, NoneSoft
<1> SUFFICES ASSUME pc' = "unwind", Start!Acyclic, NoneSoft(stack')
             PROVE  work' = work /\ culprits' \cap Start!Below(f) # {}
  BY <1>2
<1>3. pc = "unwind" /\ NoneSoft(stack) => culprits \cap Start!Below(f) # {}
  BY DEF CauseKnown, NoneSoft
<1>4. CASE Start!AfterInstall
  BY <1>4 DEF Start!AfterInstall
<1>5. CASE Start!Unwind
  <2>1. work' = work /\ culprits' = culprits
    BY <1>5 DEF Start!Unwind, Start!ghosts
  <2>2. pc = "unwind" /\ stack # <<>> /\ stack[n].via # "soft" /\ stack' = Start!Front(stack)
    BY <1>5, UnwindDoes
  <2>3. /\ n \in Nat \ {0} /\ Len(Start!Front(stack)) = n - 1
        /\ \A i \in 1 .. (n - 1) : Start!Front(stack)[i] = stack[i]
    BY <1>1, <2>2, FrontOf
  <2>4. NoneSoft(stack)
    BY <2>2, <2>3 DEF NoneSoft
  <2> QED
    BY <1>3, <2>1, <2>2, <2>4
<1>6. CASE Start!StartSelf
  <2>1. pc = "start" /\ stack # <<>>
    BY <1>6 DEF Start!StartSelf
  <2>2. \/ Start!Return
        \/ ~(\A v \in Start!Below(Start!Call.unit) : ~Start!Cyclic(Start!DependsOn, v))
    BY <1>6 DEF Start!StartSelf
  <2>3. \A v \in Start!Below(Start!Call.unit) : ~Start!Cyclic(Start!DependsOn, v)
    BY <1>1, AcyclicLoads, BelowFacts
  <2>4. pc' = "stop" \/ pc' = pc
    BY <2>1, <2>2, <2>3, ReturnDoes
  <2> QED
    BY <2>1, <2>4
<1>7. ASSUME NEW d \in Start!AllUnits, Start!NextDependency(d) PROVE FALSE
  BY <1>7, NextDependencyDoes
<1>8. ASSUME NEW v \in Start!AllUnits, Start!StartFails(v)
      PROVE  work' = work /\ culprits' \cap Start!Below(f) # {}
  <2>1. /\ stack # <<>> /\ stack' = Start!Front(stack) /\ work' = work
        /\ v \in Start!Below(Start!Call.unit) /\ culprits' = culprits \cup {v}
    BY <1>8 DEF Start!StartFails, Start!Failed
  <2>2. Start!Call = stack[n]
    BY <1>1, <2>1, FrontOf DEF Start!Call
  <2>3. stack[n].unit \in Start!Below(f)
    BY <2>1, TopIsNeeded
  <2>4. v \in Start!Below(f)
    BY <1>1, <2>1, <2>2, <2>3, BelowFacts
  <2> QED
    BY <2>1, <2>4
<1>9. CASE Start!InstallFails
  <2>1. /\ work' = work /\ stack' = stack /\ pc = "install"
        /\ culprits' = culprits \cup {Start!Last(inst).unit}
    BY <1>9 DEF Start!InstallFails, Start!Failed, Start!Top
  <2>2. inst # <<>> /\ inst \in Seq(CallSet)
    BY <2>1 DEF Phases, StartTyped
  <2>3. Start!Last(inst) = inst[Len(inst)] /\ Len(inst) \in 1 .. Len(inst)
    BY <2>2, LastCall
  <2>4. Start!Last(inst).unit \in Start!Below(IF stack = <<>> THEN f ELSE stack[n].dep)
    BY <2>3 DEF InstallsKnown, InstallsSound, First
  <2>5. CASE stack = <<>>
    BY <2>1, <2>4, <2>5
  <2>6. CASE stack # <<>>
    <3>1. NoneSoft(stack) /\ stack[n].dep # 0
      BY <2>1, <2>6 DEF StartsKnown
    <3>2. NoneSoft(Start!Front(stack))
      <4>1. /\ n \in Nat \ {0} /\ Len(Start!Front(stack)) = n - 1
            /\ \A i \in 1 .. (n - 1) : Start!Front(stack)[i] = stack[i]
        BY <1>1, <2>6, FrontOf
      <4> QED
        BY <3>1, <4>1 DEF NoneSoft
    <3>3. stack[n].dep \in Start!Below(f)
      BY <2>6, <3>1, <3>2, TopIsNeeded
    <3>4. Start!Last(inst).unit \in Start!Below(f)
      BY <1>1, <2>4, <2>6, <3>3, BelowFacts
    <3> QED
      BY <2>1, <3>4
  <2> QED
    BY <2>5, <2>6
<1>10. CASE UNCHANGED <<stack, visited, work>> /\ pc' = pc /\ culprits \subseteq culprits'
  <2>1. NoneSoft(stack) /\ work' = work
    BY <1>10
  <2> QED
    BY <1>3, <1>10, <2>1
<1> QED
  BY <1>4, <1>5, <1>6, <1>7, <1>8, <1>9, <1>10, StartSteps

LEMMA FailureCauseStays ==
  ASSUME StartTyped, Phases, CauseKnown, Start!FailureHasCause, Start!Next
  PROVE  Start!FailureHasCause'
<1>1. UNCHANGED Start!graph /\ (Start!Acyclic <=> Start!Acyclic') /\ (\A u : Start!Below(u)' = Start!Below(u))
  BY OtherSteps, GraphStays
<1> SUFFICES ASSUME pc' = "fail", Start!Acyclic, ~refused'
             PROVE  \E u \in Start!Range(work') \cup {Target} : culprits' \cap Start!Below(u) # {}
  BY <1>1 DEF Start!FailureHasCause
<1>2. pc # "fail"
  BY NoStepAfterTheEnd
<1>3. Start!Unwind
  <2>1. ~Start!AfterInstall
    BY DEF Start!AfterInstall
  <2>2. ~Start!StartSelf
    <3> SUFFICES ASSUME Start!StartSelf PROVE FALSE
      OBVIOUS
    <3>1. stack # <<>> /\ pc = "start" /\ (Start!Return \/ Start!Failed(Start!Front(stack)))
      BY DEF Start!StartSelf
    <3> QED
      BY <3>1, ReturnDoes DEF Start!Failed
  <2>3. ASSUME NEW d \in Start!AllUnits PROVE ~Start!NextDependency(d) /\ ~Start!StartFails(d)
    BY NextDependencyDoes DEF Start!StartFails, Start!Failed
  <2> QED
    BY <1>2, <2>1, <2>2, <2>3, StartSteps
<1>4. work' = work /\ culprits' = culprits /\ pc = "unwind"
  BY <1>3 DEF Start!Unwind, Start!ghosts
<1>5. stack = <<>>
  BY <1>3, UnwindDoes
<1>6. NoneSoft(stack) /\ work # <<>> /\ work \in Seq(Start!AllUnits)
  BY <1>4, <1>5 DEF NoneSoft, Phases, StartTyped
<1>7. culprits \cap Start!Below(Head(work)) # {}
  BY <1>4, <1>6 DEF CauseKnown, NoneSoft
<1>8. Head(work) \in Start!Range(work)
  BY <1>6, RangeHead
<1> QED
  BY <1>4, <1>7, <1>8

-----------------------------------------------------------------------------
(* What was up is up, or is still to be started. *)

LEMMA UnitsGoOn ==
  ASSUME StartTyped, Phases, Start!Next
  PROVE  \/ Start!Begin \/ Start!VisitReturns \/ Start!StopNext \/ Start!StartSelf
         \/ /\ work' = work /\ stops' = stops /\ before' = before
            /\ before \ culprits \subseteq up \cup Start!Range(work) =>
                 before \ culprits' \subseteq up' \cup Start!Range(work)
            /\ pc' = "stop" => pc = "stop"
<1> USE DEF Start!graph, Start!dinit, Start!closure, Start!calls, Start!ghosts
<1> DEFINE Same == UNCHANGED <<work, stops, before, culprits, up>> /\ (pc' = "stop" => pc = "stop")
           Goes == /\ work' = work /\ stops' = stops /\ before' = before
                   /\ before \ culprits \subseteq up \cup Start!Range(work) =>
                        before \ culprits' \subseteq up' \cup Start!Range(work)
                   /\ pc' = "stop" => pc = "stop"
<1> SUFFICES Start!Begin \/ Start!VisitReturns \/ Start!StopNext \/ Start!StartSelf \/ Goes
  OBVIOUS
<1>1. Same => Goes
  OBVIOUS
<1>2. ASSUME NEW d \in Start!AllUnits, Start!VisitDependent(d) PROVE Same
  BY <1>2 DEF Start!VisitDependent
<1>3. CASE Start!NextUnit
  <2>1. Same
    BY <1>3 DEF Start!NextUnit
  <2> QED
    BY <1>1, <2>1
<1>4. ASSUME NEW d \in Start!AllUnits, Start!InstallDependency(d) PROVE Same
  BY <1>4 DEF Start!InstallDependency
<1>5. CASE Start!InstallSelf
  <2>1. Same
    BY <1>5 DEF Start!InstallSelf
  <2> QED
    BY <1>1, <2>1
<1>6. CASE Start!InstallFails
  <2>1. UNCHANGED <<work, stops, before, up>> /\ pc' = "unwind" /\ culprits \subseteq culprits'
    BY <1>6 DEF Start!InstallFails, Start!Failed
  <2>2. Goes
    BY <2>1
  <2> QED
    BY <2>2
<1>7. CASE Start!AfterInstall
  <2>1. Same
    BY <1>7 DEF Start!AfterInstall
  <2> QED
    BY <1>1, <2>1
<1>8. ASSUME NEW d \in Start!AllUnits, Start!NextDependency(d) PROVE Same
  <2>1. UNCHANGED <<work, stops, before, culprits, up>>
    BY <1>8 DEF Start!NextDependency
  <2>2. pc' = pc \/ pc' = "install"
    BY <1>8, NextDependencyDoes
  <2> QED
    BY <2>1, <2>2
<1>9. CASE Start!Unwind
  <2>1. Same
    BY <1>9 DEF Start!Unwind
  <2> QED
    BY <1>1, <2>1
<1>10. ASSUME NEW v \in Start!AllUnits, Start!StartFails(v) PROVE Goes
  <2>1. /\ UNCHANGED <<work, stops, before>> /\ pc' = "unwind" /\ culprits \subseteq culprits'
        /\ up \subseteq up'
    BY <1>10 DEF Start!StartFails, Start!Failed
  <2> QED
    BY <2>1
<1>11. ASSUME NEW u \in Start!AllUnits, Start!Crash(u) PROVE Goes
  <2>1. /\ UNCHANGED <<work, stops, before, pc>> /\ culprits' = culprits \cup Start!Above(u)
        /\ up' = up \ Start!Above(u)
    BY <1>11 DEF Start!Crash
  <2> QED
    BY <2>1
<1> HIDE DEF Same, Goes
<1> QED
  BY <1>1, <1>2, <1>3, <1>4, <1>5, <1>6, <1>7, <1>8, <1>9, <1>10, <1>11 DEF Start!Next

LEMMA RestoringStays ==
  ASSUME StartTyped, Phases, StartsKnown, Restoring, Start!Next
  PROVE  Restoring'
<1> USE DEF Start!graph, Start!dinit, Start!closure, Start!calls, Start!ghosts
<1>1. stops \in Seq(Start!AllUnits) /\ work \in Seq(Start!AllUnits) /\ stack \in Seq(FrameSet) /\ GraphTyped
  BY DEF StartTyped, GraphTyped
<1>2. Start!Range(<<>>) = {}
  BY DEF Start!Range
<1>3. CASE Start!Begin
  <2>1. work = <<>> /\ stops = <<>> /\ UNCHANGED <<before, culprits, up, stops>>
    BY <1>3 DEF Start!Begin, Phases
  <2> QED
    BY <1>2, <2>1 DEF Restoring
<1>4. CASE Start!VisitReturns
  <2>1. work = <<>> /\ visits # <<>> /\ UNCHANGED <<before, culprits, up>> /\ pc = "visit"
    BY <1>4 DEF Start!VisitReturns, Phases
  <2>2. before \ culprits \subseteq up
    BY <1>2, <2>1 DEF Restoring
  <2>3. CASE Len(visits) = 1
    <3>1. work' = Start!Reverse(stops')
      BY <1>4, <2>3 DEF Start!VisitReturns
    <3>2. stops' \in Seq(Start!AllUnits)
      BY <1>4, StartTypedStays DEF Start!Next, StartTyped
    <3>3. Start!Range(work') = Start!Range(stops')
      BY <3>1, <3>2, RangeReversed
    <3> QED
      BY <2>1, <2>2, <3>3 DEF Restoring
  <2>4. CASE Len(visits) # 1
    <3>1. pc' = pc /\ work' = work
      BY <1>4, <2>4 DEF Start!VisitReturns
    <3> QED
      BY <2>1, <2>2, <3>1 DEF Restoring
  <2> QED
    BY <2>3, <2>4
<1>5. CASE Start!StopNext
  <2>1. stops # <<>> /\ pc = "stop" /\ UNCHANGED <<before, culprits, work>>
    BY <1>5 DEF Start!StopNext
  <2>2. Head(stops) \in Start!Range(work) /\ Start!Range(Tail(stops)) \subseteq Start!Range(work)
    BY <1>1, <2>1, RangeHead DEF Restoring
  <2>3. /\ up' = up \/ up' = up \ {Head(stops)}
        /\ stops' = stops \/ stops' = Tail(stops)
    BY <1>5 DEF Start!StopNext
  <2> QED
    BY <2>1, <2>2, <2>3 DEF Restoring
<1>6. CASE Start!StartSelf
  <2>1. /\ stack # <<>> /\ pc = "start" /\ stops = <<>> /\ work # <<>>
        /\ UNCHANGED <<before, culprits, stops>>
    BY <1>6 DEF Start!StartSelf, Phases
  <2>2. /\ up \subseteq up'
        /\ \/ Start!Return /\ (Start!Call.unit \in up \/ up' = up \cup Start!Below(Start!Call.unit))
           \/ work' = work /\ pc' = "unwind"
    BY <1>6 DEF Start!StartSelf, Start!Failed
  <2>3. Start!Range(stops') = {}
    BY <1>2, <2>1
  <2>4. CASE work' = work
    BY <2>1, <2>2, <2>3, <2>4 DEF Restoring
  <2>5. CASE Start!Return /\ work' # work
    <3>1. Len(stack) = 1 /\ work' = Tail(work)
      BY <2>1, <2>5, ReturnDoes
    <3>2. Start!Call = stack[1]
      BY <1>1, <2>1, <3>1, FrontOf DEF Start!Call
    <3>3. stack[1].unit = Head(work) /\ Head(work) \in Start!AllUnits
      BY <1>1, <2>1, RangeHead DEF StartsKnown, StartsSound
    <3>4. Head(work) \in Start!Below(Head(work))
      BY <1>1, <3>3, BelowFacts
    <3>5. Head(work) \in up'
      BY <2>2, <2>5, <3>2, <3>3, <3>4
    <3>6. Start!Range(work) = {Head(work)} \cup Start!Range(Tail(work))
      BY <1>1, <2>1, RangeHead
    <3> QED
      BY <2>1, <2>2, <2>3, <3>1, <3>5, <3>6 DEF Restoring
  <2> QED
    BY <2>2, <2>4, <2>5
<1>7. CASE /\ work' = work /\ stops' = stops /\ before' = before
           /\ before \ culprits \subseteq up \cup Start!Range(work) =>
                before \ culprits' \subseteq up' \cup Start!Range(work)
           /\ pc' = "stop" => pc = "stop"
  BY <1>7 DEF Restoring
<1> QED
  BY <1>3, <1>4, <1>5, <1>6, <1>7, UnitsGoOn

-----------------------------------------------------------------------------
(* A definition is installed after those that it depends on. *)

LEMMA InstallsSoundStays ==
  ASSUME UNCHANGED Start!graph, NEW f, InstallsSound(inst', seen', f), f = First' \/ inst' = <<>>
  PROVE  InstallsKnown'
<1>1. /\ \A u : Start!Below(u)' = Start!Below(u) /\ Beyond(u)' = Beyond(u) /\ Start!Deps(hard, u)' = Start!Deps(hard, u)
  BY GraphStays
<1>2. CASE f = First'
  BY <1>1, <1>2 DEF InstallsKnown, InstallsSound, First
<1>3. CASE inst' = <<>>
  <2>1. Len(inst') = 0
    BY <1>3
  <2> QED
    BY <1>3, <2>1 DEF InstallsKnown, InstallsSound
<1> QED
  BY <1>2, <1>3

LEMMA InstalledSoundStays ==
  ASSUME UNCHANGED Start!graph,
         Start!Acyclic => /\ inst' # <<>> => InstalledSound(inst', seen', defs')
                    /\ \A u \in defs' : Start!Needs(u) \subseteq defs'
  PROVE  InstalledInOrder'
<1>1. (Start!Acyclic <=> Start!Acyclic') /\ \A u : Start!Needs(u)' = Start!Needs(u)
  BY GraphStays
<1> QED
  BY <1>1 DEF InstalledInOrder, InstalledSound

LEMMA NothingInstalled ==
  ASSUME NEW v, NEW f
  PROVE  InstallsSound(<<>>, v, f)
<1>1. Len(<<>>) = 0
  OBVIOUS
<1> QED
  BY <1>1 DEF InstallsSound

LEMMA FirstInstall ==
  ASSUME StartTyped, NEW f \in Start!AllUnits, NEW s, s = <<[unit |-> f, todo |-> Start!Deps(hard, f)]>>, NEW ds
  PROVE  s # <<>> /\ InstallsSound(s, {f}, f) /\ InstalledSound(s, {f}, ds)
<1>1. /\ s # <<>> /\ Len(s) = 1 /\ s[1].unit = f /\ s[1].todo = Start!Deps(hard, f)
  OBVIOUS
<1>2. f \in Start!Below(f) /\ \A v : v \in Start!Needs(f) => v \in Start!Deps(hard, f)
  BY BelowFacts DEF StartTyped, GraphTyped
<1>3. \A i : i \in 1 .. Len(s) <=> i = 1
  BY <1>1
<1>4. InstallsSound(s, {f}, f)
  BY <1>1, <1>2, <1>3 DEF InstallsSound
<1>5. InstalledSound(s, {f}, ds)
  BY <1>1, <1>2, <1>3 DEF InstalledSound
<1> QED
  BY <1>1, <1>4, <1>5

LEMMA InstallGoesOn ==
  ASSUME StartTyped, Phases, InstallsSound(inst, seen, First), NEW d \in Start!AllUnits, Start!InstallDependency(d)
  PROVE  /\ InstallsSound(inst', seen', First)
         /\ Start!Acyclic /\ InstalledSound(inst, seen, defs) => InstalledSound(inst', seen', defs)
<1> DEFINE n == Len(inst)
           u == inst[n].unit
           f == First
<1>1. inst # <<>> /\ GraphTyped
  BY DEF Start!InstallDependency, Phases, StartTyped, GraphTyped
<1>2. /\ TopGoesOn(inst, inst', d)
      /\ \/ (d \in external \/ d \in seen) /\ Len(inst') = n /\ seen' = seen
         \/ /\ d \notin external /\ d \notin seen /\ seen' = seen \cup {d}
            /\ Len(inst') = n + 1
            /\ inst'[n + 1].unit = d
            /\ inst'[n + 1].todo = Start!Deps(hard, d)
  BY <1>1, InstallDependencyDoes
<1>3. /\ n \in Nat \ {0} /\ n \in 1 .. n /\ inst' # <<>>
      /\ inst'[n].unit = u /\ inst'[n].todo = inst[n].todo \ {d} /\ d \in inst[n].todo
      /\ \A i \in 1 .. (n - 1) : inst'[i] = inst[i]
  BY <1>2 DEF TopGoesOn
<1>4. d \in Start!Deps(hard, u) /\ u \in Start!Below(f)
  BY <1>3 DEF InstallsSound
<1> HIDE DEF u, f
<1>5. \A i \in 1 .. n : inst'[i].unit = inst[i].unit /\ inst'[i].todo \subseteq inst[i].todo
  <2> SUFFICES ASSUME NEW i \in 1 .. n
               PROVE  inst'[i].unit = inst[i].unit /\ inst'[i].todo \subseteq inst[i].todo
    OBVIOUS
  <2>1. CASE i = n
    BY <1>3, <2>1 DEF u
  <2>2. CASE i # n
    <3>1. i \in 1 .. (n - 1)
      BY <1>3, <2>2
    <3> QED
      BY <1>3, <3>1
  <2> QED
    BY <2>1, <2>2
<1>6. \A i \in 1 .. n : d \in Beyond(inst[i].unit)
  <2> SUFFICES ASSUME NEW i \in 1 .. n PROVE d \in Beyond(inst[i].unit)
    OBVIOUS
  <2>1. CASE i = n
    BY <1>1, <1>4, <2>1, BeyondFacts DEF u
  <2>2. CASE i # n
    <3>1. u \in Beyond(inst[i].unit)
      BY <1>3, <2>2 DEF InstallsSound, u
    <3> QED
      BY <1>1, <1>4, <3>1, BeyondFacts
  <2> QED
    BY <2>1, <2>2
<1>7. n <= Len(inst') /\ Len(inst') \in Nat /\ (Len(inst') = n \/ Len(inst') = n + 1)
  BY <1>2, <1>3
<1>8. \A i \in 1 .. Len(inst') : i \in 1 .. n \/ (i = n + 1 /\ Len(inst') = n + 1)
  BY <1>3, <1>7
<1>9. InstallsSound(inst', seen', f)
  <2>1. inst'[1].unit = f
    <3>1. 1 \in 1 .. n
      BY <1>3
    <3> QED
      BY <1>1, <1>5, <3>1 DEF InstallsSound, f
  <2>2. ASSUME NEW i \in 1 .. Len(inst')
        PROVE  /\ inst'[i].unit \in seen'
               /\ inst'[i].todo \subseteq Start!Deps(hard, inst'[i].unit)
               /\ inst'[i].unit \in Start!Below(f)
    <3>1. CASE i \in 1 .. n
      <4>1. /\ inst[i].unit \in seen /\ inst[i].todo \subseteq Start!Deps(hard, inst[i].unit)
            /\ inst[i].unit \in Start!Below(f)
        BY <3>1 DEF InstallsSound, f
      <4>2. seen \subseteq seen'
        BY <1>2
      <4> QED
        BY <1>5, <3>1, <4>1, <4>2
    <3>2. CASE i = n + 1 /\ Len(inst') = n + 1
      <4>1. /\ d \notin external /\ d \in seen' /\ inst'[i].unit = d /\ inst'[i].todo = Start!Deps(hard, d)
        BY <1>2, <1>3, <3>2
      <4>2. d \in Start!Below(f)
        BY <1>1, <1>4, <4>1, BelowFacts
      <4> QED
        BY <4>1, <4>2
    <3> QED
      BY <1>8, <3>1, <3>2
  <2>3. ASSUME NEW i \in 1 .. Len(inst'), NEW j \in 1 .. Len(inst'), i < j
        PROVE  inst'[i].unit # inst'[j].unit /\ inst'[j].unit \in Beyond(inst'[i].unit)
    <3>1. i \in 1 .. n /\ inst'[i].unit = inst[i].unit
      BY <1>3, <1>5, <1>7, <2>3
    <3>2. CASE j \in 1 .. n
      BY <1>5, <2>3, <3>1, <3>2 DEF InstallsSound
    <3>3. CASE j = n + 1 /\ Len(inst') = n + 1
      <4>1. d \notin seen /\ inst'[j].unit = d
        BY <1>2, <1>3, <3>3
      <4>2. inst[i].unit \in seen
        BY <3>1 DEF InstallsSound
      <4> QED
        BY <1>6, <3>1, <4>1, <4>2
    <3> QED
      BY <1>8, <3>2, <3>3
  <2> QED
    BY <2>1, <2>2, <2>3 DEF InstallsSound
<1>10. ASSUME Start!Acyclic, InstalledSound(inst, seen, defs)
       PROVE  InstalledSound(inst', seen', defs)
  <2>1. ASSUME NEW v \in seen'
        PROVE  v \in defs \/ \E i \in 1 .. Len(inst') : v = inst'[i].unit
    <3>1. CASE v \in seen
      <4>1. v \in defs \/ \E i \in 1 .. n : v = inst[i].unit
        BY <1>10, <3>1 DEF InstalledSound
      <4>2. \A i \in 1 .. n : i \in 1 .. Len(inst') /\ inst'[i].unit = inst[i].unit
        BY <1>3, <1>5, <1>7
      <4> QED
        BY <4>1, <4>2
    <3>2. CASE v \notin seen
      <4>1. v = d /\ Len(inst') = n + 1 /\ inst'[n + 1].unit = d
        BY <1>2, <2>1, <3>2
      <4>2. n + 1 \in 1 .. Len(inst')
        BY <1>3, <4>1
      <4> QED
        BY <4>1, <4>2
    <3> QED
      BY <3>1, <3>2
  <2>2. ASSUME NEW i \in 1 .. Len(inst'), NEW v \in Start!Needs(inst'[i].unit)
        PROVE  \/ v \in inst'[i].todo \/ v \in defs
               \/ i < Len(inst') /\ v = inst'[i + 1].unit
    <3>1. CASE i \in 1 .. (n - 1)
      <4>1. i \in 1 .. n /\ i + 1 \in 1 .. n /\ i < n /\ i < Len(inst')
        BY <1>3, <1>7, <3>1
      <4>2. inst'[i] = inst[i] /\ inst'[i + 1].unit = inst[i + 1].unit
        BY <1>3, <1>5, <3>1, <4>1
      <4>3. v \in inst[i].todo \/ v \in defs \/ v = inst[i + 1].unit
        BY <1>10, <2>2, <4>1, <4>2 DEF InstalledSound
      <4> QED
        BY <4>1, <4>2, <4>3
    <3>2. CASE i = n
      <4>1. v \in Start!Needs(u) /\ v \notin external
        BY <1>1, <1>3, <2>2, <3>2, BelowFacts
      <4>2. v \in inst[n].todo \/ v \in defs
        BY <1>3, <1>10, <4>1 DEF InstalledSound, u
      <4>3. CASE v # d
        BY <1>3, <3>2, <4>2, <4>3
      <4>4. CASE v = d /\ Len(inst') = n
        <5>1. d \in seen
          BY <1>2, <1>3, <4>1, <4>4
        <5>2. d \in defs \/ \E k \in 1 .. n : d = inst[k].unit
          BY <1>10, <5>1 DEF InstalledSound
        <5>3. \A k \in 1 .. n : d # inst[k].unit
          BY <1>1, <1>6, <1>10, BeyondFacts
        <5> QED
          BY <4>4, <5>2, <5>3
      <4>5. CASE v = d /\ Len(inst') = n + 1
        <5>1. inst'[n + 1].unit = d
          BY <1>2, <1>3, <4>5
        <5> QED
          BY <1>3, <3>2, <4>5, <5>1
      <4> QED
        BY <1>7, <4>3, <4>4, <4>5
    <3>3. CASE i = n + 1
      <4>1. Len(inst') = n + 1
        BY <1>3, <1>7, <3>3
      <4>2. inst'[i].unit = d /\ inst'[i].todo = Start!Deps(hard, d)
        BY <1>2, <1>3, <3>3, <4>1
      <4> QED
        BY <1>1, <2>2, <4>2, BelowFacts
    <3> QED
      BY <1>3, <1>7, <3>1, <3>2, <3>3
  <2> QED
    BY <2>1, <2>2 DEF InstalledSound
<1> QED
  BY <1>9, <1>10 DEF f

LEMMA InstallReturns ==
  ASSUME StartTyped, Phases, InstallsSound(inst, seen, First), Start!InstallSelf
  PROVE  /\ InstallsSound(inst', seen', First)
         /\ Start!Acyclic /\ InstalledSound(inst, seen, defs) /\ (\A u \in defs : Start!Needs(u) \subseteq defs) =>
              /\ InstalledSound(inst', seen', defs')
              /\ \A u \in defs' : Start!Needs(u) \subseteq defs'
<1> DEFINE n == Len(inst)
           u == inst[n].unit
           f == First
<1>1. inst # <<>> /\ GraphTyped /\ inst \in Seq(CallSet)
  BY DEF Start!InstallSelf, Phases, StartTyped, GraphTyped
<1>2. /\ n \in Nat \ {0} /\ n \in 1 .. n /\ Len(Start!Front(inst)) = n - 1 /\ Start!Last(inst) = inst[n]
      /\ \A i \in 1 .. (n - 1) : Start!Front(inst)[i] = inst[i] /\ i \in 1 .. n
      /\ Start!Front(inst) # <<>> => n - 1 >= 1
  <2>1. /\ n \in Nat \ {0} /\ Len(Start!Front(inst)) = n - 1 /\ Start!Last(inst) = inst[n]
        /\ \A i \in 1 .. (n - 1) : Start!Front(inst)[i] = inst[i]
        /\ n = 1 <=> Start!Front(inst) = <<>>
    BY <1>1, LastCall
  <2> HIDE DEF n
  <2> QED
    BY <2>1
<1>3. inst' = Start!Front(inst) /\ seen' = seen /\ inst[n].todo = {} /\ defs' = defs \cup {u}
  BY <1>2 DEF Start!InstallSelf, Start!Top
<1> HIDE DEF u, f
<1>4. Len(inst') = n - 1 /\ \A i \in 1 .. (n - 1) : inst'[i] = inst[i] /\ i \in 1 .. n
  BY <1>2, <1>3
<1>5. InstallsSound(inst', seen', f)
  <2>1. inst' # <<>> => inst'[1].unit = f
    BY <1>1, <1>2, <1>3, <1>4 DEF InstallsSound, f
  <2>2. \A i \in 1 .. Len(inst') :
          /\ inst'[i].unit \in seen'
          /\ inst'[i].todo \subseteq Start!Deps(hard, inst'[i].unit)
          /\ inst'[i].unit \in Start!Below(f)
    BY <1>3, <1>4 DEF InstallsSound, f
  <2>3. \A i, j \in 1 .. Len(inst') : i < j =>
          inst'[i].unit # inst'[j].unit /\ inst'[j].unit \in Beyond(inst'[i].unit)
    BY <1>3, <1>4 DEF InstallsSound
  <2> QED
    BY <2>1, <2>2, <2>3 DEF InstallsSound
<1>6. ASSUME Start!Acyclic, InstalledSound(inst, seen, defs), \A v \in defs : Start!Needs(v) \subseteq defs
      PROVE  /\ InstalledSound(inst', seen', defs')
             /\ \A v \in defs' : Start!Needs(v) \subseteq defs'
  <2>1. \A v \in Start!Needs(u) : v \in defs
    BY <1>2, <1>3, <1>6 DEF InstalledSound, u
  <2>2. \A v \in defs' : Start!Needs(v) \subseteq defs'
    BY <1>3, <1>6, <2>1
  <2>3. ASSUME NEW v \in seen'
        PROVE  v \in defs' \/ \E i \in 1 .. Len(inst') : v = inst'[i].unit
    <3>1. CASE v \in defs
      BY <1>3, <3>1
    <3>2. CASE v \notin defs
      <4>1. PICK i \in 1 .. n : v = inst[i].unit
        BY <1>3, <1>6, <2>3, <3>2 DEF InstalledSound
      <4>2. CASE i = n
        BY <1>3, <4>1, <4>2 DEF u
      <4>3. CASE i # n
        <5>1. i \in 1 .. (n - 1)
          BY <1>2, <4>3
        <5> QED
          BY <1>4, <4>1, <5>1
      <4> QED
        BY <4>2, <4>3
    <3> QED
      BY <3>1, <3>2
  <2>4. ASSUME NEW i \in 1 .. Len(inst'), NEW v \in Start!Needs(inst'[i].unit)
        PROVE  \/ v \in inst'[i].todo \/ v \in defs'
               \/ i < Len(inst') /\ v = inst'[i + 1].unit
    <3>1. i \in 1 .. (n - 1) /\ i \in 1 .. n /\ inst'[i] = inst[i]
      BY <1>4
    <3>2. v \in inst[i].todo \/ v \in defs \/ v = inst[i + 1].unit
      BY <1>6, <2>4, <3>1 DEF InstalledSound
    <3>3. CASE v = inst[i + 1].unit
      <4>1. CASE i + 1 = n
        BY <1>3, <3>3, <4>1 DEF u
      <4>2. CASE i + 1 # n
        <5>1. i + 1 \in 1 .. (n - 1) /\ i < n - 1
          BY <1>2, <3>1, <4>2
        <5> QED
          BY <1>4, <3>3, <5>1
      <4> QED
        BY <4>1, <4>2
    <3> QED
      BY <1>3, <3>1, <3>2, <3>3
  <2> QED
    BY <2>2, <2>3, <2>4 DEF InstalledSound
<1> QED
  BY <1>5, <1>6 DEF f

(* What the steps do to an installation. *)
LEMMA InstallSteps ==
  ASSUME StartTyped, Phases, Start!Next
  PROVE  \/ \E d \in Start!AllUnits : Start!InstallDependency(d)
         \/ Start!InstallSelf
         \/ /\ defs' = defs
            /\ \/ inst' = <<>>
               \/ UNCHANGED <<inst, seen, stack, work>>
               \/ \E f \in Start!AllUnits :
                    /\ inst' = <<[unit |-> f, todo |-> Start!Deps(hard, f)]>> /\ seen' = {f}
                    /\ f = First'
<1> DEFINE Goes == /\ defs' = defs
                   /\ \/ inst' = <<>>
                      \/ UNCHANGED <<inst, seen, stack, work>>
                      \/ \E f \in Start!AllUnits :
                           /\ inst' = <<[unit |-> f, todo |-> Start!Deps(hard, f)]>> /\ seen' = {f}
                           /\ f = First'
<1> SUFFICES ASSUME ~Start!InstallSelf, \A d \in Start!AllUnits : ~Start!InstallDependency(d) PROVE Goes
  OBVIOUS
<1>0. pc # "install" => inst = <<>>
  BY DEF Phases
<1>1. CASE Start!Begin
  BY <1>0, <1>1 DEF Start!Begin, Start!calls
<1>2. ASSUME NEW d \in Start!AllUnits, Start!VisitDependent(d) PROVE Goes
  BY <1>0, <1>2 DEF Start!VisitDependent, Start!calls
<1>3. CASE Start!VisitReturns
  BY <1>0, <1>3 DEF Start!VisitReturns, Start!calls
<1>4. CASE Start!StopNext
  BY <1>0, <1>4 DEF Start!StopNext, Start!calls
<1>5. CASE Start!NextUnit
  <2>1. CASE work = <<>>
    BY <1>0, <1>5, <2>1 DEF Start!NextUnit
  <2>2. CASE work # <<>>
    <3>1. Head(work) \in Start!AllUnits
      BY <2>2, RangeHead DEF StartTyped
    <3>2. /\ inst' = <<[unit |-> Head(work), todo |-> Start!Deps(hard, Head(work))]>>
          /\ seen' = {Head(work)} /\ defs' = defs /\ stack' = stack /\ work' = work /\ pc = "stop"
      BY <1>5, <2>2 DEF Start!NextUnit
    <3>3. stack = <<>>
      BY <3>2 DEF Phases
    <3>4. First' = Head(work)
      BY <3>2, <3>3 DEF First
    <3> QED
      BY <3>1, <3>2, <3>4
  <2> QED
    BY <2>1, <2>2
<1>6. CASE Start!InstallFails
  BY <1>6 DEF Start!InstallFails
<1>7. CASE Start!AfterInstall
  BY <1>0, <1>7 DEF Start!AfterInstall
<1>8. ASSUME NEW d \in Start!AllUnits, Start!NextDependency(d) PROVE Goes
  <2>1. defs' = defs /\ inst = <<>>
    BY <1>0, <1>8 DEF Start!NextDependency
  <2>2. CASE inst' = inst
    BY <2>1, <2>2
  <2>3. CASE inst' # inst
    <3>1. /\ inst' = <<[unit |-> d, todo |-> Start!Deps(hard, d)]>> /\ seen' = {d}
          /\ CallGoesOn(stack, stack') /\ stack'[Len(stack)].dep = d
      BY <1>8, <2>3, NextDependencyDoes
    <3>2. First' = d
      BY <3>1 DEF First, CallGoesOn
    <3> QED
      BY <2>1, <3>1, <3>2
  <2> QED
    BY <2>2, <2>3
<1>9. CASE Start!Unwind
  BY <1>0, <1>9 DEF Start!Unwind
<1>10. CASE Start!StartSelf
  BY <1>0, <1>10 DEF Start!StartSelf
<1>11. ASSUME NEW v \in Start!AllUnits, Start!StartFails(v) PROVE Goes
  BY <1>0, <1>11 DEF Start!StartFails
<1>12. ASSUME NEW u \in Start!AllUnits, Start!Crash(u) PROVE Goes
  BY <1>12 DEF Start!Crash, Start!calls
<1> HIDE DEF Goes
<1> QED
  BY <1>1, <1>2, <1>3, <1>4, <1>5, <1>6, <1>7, <1>8, <1>9, <1>10, <1>11, <1>12 DEF Start!Next

LEMMA InstallsStay ==
  ASSUME StartTyped, Phases, InstallsKnown, InstalledInOrder, Start!Next
  PROVE  InstallsKnown' /\ InstalledInOrder'
<1>1. UNCHANGED Start!graph /\ InstallsSound(inst, seen, First)
  BY OtherSteps DEF InstallsKnown, First
<1>2. ASSUME NEW d \in Start!AllUnits, Start!InstallDependency(d) PROVE InstallsKnown' /\ InstalledInOrder'
  <2>1. UNCHANGED <<stack, work, defs>> /\ inst # <<>>
    BY <1>2 DEF Start!InstallDependency, Phases
  <2>2. First' = First
    BY <2>1 DEF First
  <2>3. /\ InstallsSound(inst', seen', First)
        /\ Start!Acyclic /\ InstalledSound(inst, seen, defs) => InstalledSound(inst', seen', defs)
    BY <1>1, <1>2, InstallGoesOn
  <2> QED
    BY <1>1, <2>1, <2>2, <2>3, InstallsSoundStays, InstalledSoundStays DEF InstalledInOrder
<1>3. CASE Start!InstallSelf
  <2>1. UNCHANGED <<stack, work>> /\ inst # <<>>
    BY <1>3 DEF Start!InstallSelf, Phases
  <2>2. First' = First
    BY <2>1 DEF First
  <2>3. /\ InstallsSound(inst', seen', First)
        /\ Start!Acyclic /\ InstalledSound(inst, seen, defs) /\ (\A u \in defs : Start!Needs(u) \subseteq defs) =>
             /\ InstalledSound(inst', seen', defs')
             /\ \A u \in defs' : Start!Needs(u) \subseteq defs'
    BY <1>1, <1>3, InstallReturns
  <2> QED
    BY <1>1, <2>1, <2>2, <2>3, InstallsSoundStays, InstalledSoundStays DEF InstalledInOrder
<1>4. CASE defs' = defs /\ inst' = <<>>
  <2>1. InstallsSound(inst', seen', First)
    BY <1>4, NothingInstalled
  <2> QED
    BY <1>1, <1>4, <2>1, InstallsSoundStays, InstalledSoundStays DEF InstalledInOrder
<1>5. CASE defs' = defs /\ UNCHANGED <<inst, seen, stack, work>>
  <2>1. InstallsSound(inst', seen', First) /\ First' = First
    BY <1>1, <1>5 DEF First
  <2> QED
    BY <1>1, <1>5, <2>1, InstallsSoundStays, InstalledSoundStays DEF InstalledInOrder
<1>6. ASSUME NEW f \in Start!AllUnits, defs' = defs,
             inst' = <<[unit |-> f, todo |-> Start!Deps(hard, f)]>>, seen' = {f}, f = First'
      PROVE  InstallsKnown' /\ InstalledInOrder'
  <2>1. InstallsSound(inst', {f}, f) /\ InstalledSound(inst', {f}, defs)
    BY <1>6, FirstInstall
  <2> QED
    BY <1>1, <1>6, <2>1, InstallsSoundStays, InstalledSoundStays DEF InstalledInOrder
<1> QED
  BY <1>2, <1>3, <1>4, <1>5, <1>6, InstallSteps

-----------------------------------------------------------------------------
(* The invariant. *)

LEMMA StartInitially ==
  ASSUME Start!Init
  PROVE  StartKnown
<1>1. Len(<<>>) = 0 /\ Start!Range(<<>>) = {}
  BY DEF Start!Range
<1>2. /\ visits = <<>> /\ stops = <<>> /\ work = <<>> /\ inst = <<>> /\ stack = <<>>
      /\ met = {} /\ seen = {} /\ visited = {} /\ pc = "begin" /\ faults = 0 /\ culprits = {}
      /\ refused = FALSE /\ before = up /\ defs = up
      /\ up \subseteq Start!AllUnits /\ up \subseteq known /\ known \subseteq Start!AllUnits
      /\ \A u \in up : Start!Needs(u) \subseteq up
  BY DEF Start!Init
<1>3. StartTyped
  <2>1. hard \in SUBSET Start!Pairs /\ soft \in SUBSET Start!Pairs /\ external \in SUBSET Start!AllUnits
        /\ action \in {"start", "restart"}
    BY PartsAssumption DEF Start!Init, Start!Parameters
  <2>2. /\ <<>> \in Seq(Start!AllUnits) /\ <<>> \in Seq(CallSet) /\ <<>> \in Seq(FrameSet)
    OBVIOUS
  <2> QED
    BY <1>2, <2>1, <2>2 DEF StartTyped
<1>4. Phases
  BY <1>2 DEF Phases
<1>5. VisitsKnown /\ StopsInOrder /\ Restoring
  BY <1>1, <1>2 DEF VisitsKnown, StopsInOrder, Restoring
<1>6. InstallsKnown /\ InstalledInOrder
  <2>1. InstallsSound(<<>>, {}, First)
    BY NothingInstalled
  <2> QED
    BY <1>2, <2>1 DEF InstallsKnown, InstalledInOrder, First
<1>7. StartsKnown /\ CauseKnown
  <2>1. StartsSound(<<>>, {}, Head(work))
    BY NothingStarted
  <2> QED
    BY <1>2, <2>1 DEF StartsKnown, CauseKnown
<1>8. Start!StopsAccepted /\ Start!FailureHasCause
  BY <1>2 DEF Start!StopsAccepted, Start!FailureHasCause
<1> QED
  BY <1>3, <1>4, <1>5, <1>6, <1>7, <1>8 DEF StartKnown

LEMMA StartStep ==
  ASSUME StartKnown, [Start!Next]_(Start!vars)
  PROVE  StartKnown'
<1> USE DEF StartKnown
<1>1. CASE Start!Next
  <2>1. StartTyped'
    BY <1>1, StartTypedStays
  <2>2. Phases'
    BY <1>1, PhasesStay
  <2>3. VisitsKnown'
    BY <1>1, VisitsStay
  <2>4. StopsInOrder' /\ Start!StopsAccepted'
    BY <1>1, StopsStay
  <2>5. Restoring'
    BY <1>1, RestoringStays
  <2>6. InstallsKnown' /\ InstalledInOrder'
    BY <1>1, InstallsStay
  <2>7. StartsKnown'
    BY <1>1, StartsStay
  <2>8. CauseKnown' /\ Start!FailureHasCause'
    BY <1>1, CauseStays, FailureCauseStays
  <2> QED
    BY <2>1, <2>2, <2>3, <2>4, <2>5, <2>6, <2>7, <2>8
<1>2. CASE UNCHANGED Start!vars
  <2>1. UNCHANGED Start!graph
    BY <1>2 DEF Start!vars
  <2>2. /\ UNCHANGED <<hard, soft, external, up, known, defs, action, before, visits, met, stops, work>>
        /\ UNCHANGED <<inst, seen, stack, visited, pc, faults, culprits, refused>>
    BY <1>2 DEF Start!vars, Start!graph, Start!dinit, Start!closure, Start!calls, Start!ghosts
  <2>3. StartTyped' /\ Phases'
    BY <2>2 DEF StartTyped, Phases
  <2>4. VisitsKnown'
    BY <2>1, <2>2, VisitsSoundStays DEF VisitsKnown
  <2>5. StopsInOrder' /\ Start!StopsAccepted' /\ Restoring'
    BY <2>1, <2>2, GraphStays DEF StopsInOrder, Start!StopsAccepted, Restoring
  <2>6. InstallsKnown' /\ InstalledInOrder'
    <3>1. InstallsSound(inst', seen', First) /\ First = First'
      BY <2>2 DEF InstallsKnown, First
    <3> QED
      BY <2>1, <2>2, <3>1, InstallsSoundStays, InstalledSoundStays DEF InstalledInOrder
  <2>7. StartsKnown'
    <3>1. StartsSound(stack', visited', Head(work)) /\ Head(work) = Head(work)'
          /\ (pc' = "install" /\ stack' # <<>> => stack'[Len(stack')].dep # 0)
      BY <2>2 DEF StartsKnown
    <3> QED
      BY <2>1, <3>1, StartsSoundStays
  <2>8. CauseKnown' /\ Start!FailureHasCause'
    BY <2>1, <2>2, GraphStays DEF CauseKnown, Start!FailureHasCause
  <2> QED
    BY <2>3, <2>4, <2>5, <2>6, <2>7, <2>8
<1> QED
  BY <1>1, <1>2

LEMMA StartKnownIsSound ==
  ASSUME StartKnown
  PROVE  /\ Start!RecursionBounded /\ Start!DependenciesInstalledFirst /\ Start!StopsAccepted
         /\ Start!RestartRestores /\ Start!FailureHasCause
<1> USE DEF StartKnown
<1>1. N \in Nat
  BY PartsAssumption DEF Start!Parameters
<1>2. Len(stack) <= N
  <2> DEFINE f == [i \in 1 .. Len(stack) |-> stack[i].unit]
  <2>1. Len(stack) \in Nat /\ \A i \in 1 .. Len(stack) : f[i] \in Start!AllUnits
    <3>1. stack \in Seq(FrameSet) /\ \A c \in FrameSet : c.unit \in Start!AllUnits
      BY DEF StartTyped, FrameSet
    <3>2. Len(stack) \in Nat /\ \A i \in 1 .. Len(stack) : stack[i] \in FrameSet
      BY <3>1
    <3> QED
      BY <3>1, <3>2
  <2>2. \A i, j \in 1 .. Len(stack) : i < j => f[i] # f[j]
    BY DEF StartsKnown, StartsSound
  <2> HIDE DEF f
  <2> QED
    BY <1>1, <2>1, <2>2, DistinctIsShort
<1>3. Len(inst) <= N
  <2> DEFINE f == [i \in 1 .. Len(inst) |-> inst[i].unit]
  <2>1. Len(inst) \in Nat /\ \A i \in 1 .. Len(inst) : f[i] \in Start!AllUnits
    <3>1. inst \in Seq(CallSet) /\ \A c \in CallSet : c.unit \in Start!AllUnits
      BY DEF StartTyped, CallSet
    <3>2. Len(inst) \in Nat /\ \A i \in 1 .. Len(inst) : inst[i] \in CallSet
      BY <3>1
    <3> QED
      BY <3>1, <3>2
  <2>2. \A i, j \in 1 .. Len(inst) : i < j => f[i] # f[j]
    BY DEF InstallsKnown, InstallsSound
  <2> HIDE DEF f
  <2> QED
    BY <1>1, <2>1, <2>2, DistinctIsShort
<1>4. Start!DependenciesInstalledFirst
  BY DEF InstalledInOrder, Start!DependenciesInstalledFirst
<1>5. Start!RestartRestores
  <2>1. Start!Range(<<>>) = {}
    BY DEF Start!Range
  <2> QED
    BY <2>1 DEF Restoring, Phases, Start!RestartRestores
<1> QED
  BY <1>2, <1>3, <1>4, <1>5 DEF Start!RecursionBounded

-----------------------------------------------------------------------------
(* PropertyDefinitions. *)

(* What a walk of resolveTargetServices has collected: it has entered only   *)
(* targets that every closed set around its own target holds, and what these *)
(* pull in is collected, entered or pending.                                 *)
Around(t, S) == t \in S /\ \A x \in S : imported[x] \cap TargetNames \subseteq S

Walks ==
  [left : SUBSET TargetNames, of : TargetNames, visited : SUBSET TargetNames,
   pending : SUBSET TargetNames, units : SUBSET Services]

WalkSound(w) ==
  /\ w \in Walks
  /\ w.visited \cap w.pending = {} /\ w.of \in w.visited \cup w.pending
  /\ \A v \in w.visited : imported[v] \cap TargetNames \subseteq w.visited \cup w.pending
  /\ \A S \in SUBSET TargetNames : Around(w.of, S) => w.visited \cup w.pending \subseteq S
  /\ w.units = {s \in Services : \E v \in w.visited : s \in imported[v]}

ImportedRight(t) ==
  (IF t \in DOMAIN read.groups THEN read.groups[t] ELSE {}) = Defs!Reached(t)

(* The targets that a walk is still to be made for. *)
Unresolved == walk.left \cup {walk.of}

DefsTyped ==
  /\ deps \in [TargetNames -> SUBSET (TargetNames \cup Services)]
  /\ imported \in [TargetNames -> SUBSET (TargetNames \cup Services)]
  /\ sections \in Seq(Sections)
  /\ phase \in {"import", "resolve", "groups", "targets", "idle", "down"}
  /\ DOMAIN read.groups \subseteq Defs!GroupNames
  /\ DOMAIN defs.groups \subseteq Defs!GroupNames

DefsKnown ==
  /\ DefsTyped
  /\ \A t \in DOMAIN defs.targets : defs.targets[t] \in DOMAIN defs.groups
  /\ phase \in {"import", "idle"} => DOMAIN read.groups = {}
  /\ phase = "resolve" =>
       /\ WalkSound(walk) /\ walk.of \notin walk.left
       /\ DOMAIN read.groups \subseteq TargetNames \ Unresolved
       /\ \A t \in TargetNames \ Unresolved : ImportedRight(t)
  /\ phase = "groups" => \A t \in TargetNames : ImportedRight(t)

LEMMA WalkStarts ==
  ASSUME NEW left \in SUBSET TargetNames, Defs!Resolve(left)
  PROVE  \/ left = {} /\ phase' = "groups"
         \/ /\ phase' = "resolve" /\ walk'.of \in left /\ walk'.left = left \ {walk'.of}
            /\ WalkSound(walk)'
<1>1. CASE left = {}
  BY <1>1 DEF Defs!Resolve
<1>2. CASE left # {}
  <2> DEFINE t == CHOOSE n \in left : TRUE
  <2>1. t \in left
    BY <1>2
  <2>2. /\ phase' = "resolve"
        /\ walk' = [left |-> left \ {t}, of |-> t, visited |-> {}, pending |-> {t}, units |-> {}]
    BY <1>2 DEF Defs!Resolve
  <2> HIDE DEF t
  <2>3. WalkSound(walk)'
    BY <2>1, <2>2 DEF WalkSound, Walks, Around
  <2> QED
    BY <2>1, <2>2, <2>3
<1> QED
  BY <1>1, <1>2

LEMMA WalkCollects ==
  ASSUME WalkSound(walk), walk.pending = {}
  PROVE  walk.units = Defs!Reached(walk.of)
<1>1. walk.visited \in SUBSET TargetNames /\ Around(walk.of, walk.visited)
  BY DEF WalkSound, Walks, Around
<1>2. ASSUME NEW s \in Services, \E v \in walk.visited : s \in imported[v],
             NEW S \in SUBSET TargetNames, Around(walk.of, S)
      PROVE  \E x \in S : s \in imported[x]
  BY <1>2 DEF WalkSound
<1>3. ASSUME NEW s \in Services
      PROVE  (\E v \in walk.visited : s \in imported[v])
               <=> \A S \in SUBSET TargetNames : Around(walk.of, S) => \E x \in S : s \in imported[x]
  BY <1>1, <1>2
<1> QED
  BY <1>3 DEF WalkSound, Defs!Reached, Around

(* A call for a target that is pending collects its services and leaves the  *)
(* targets it pulls in to further calls, unless they were entered before.    *)
LEMMA WalkGoesOn ==
  ASSUME DefsTyped, WalkSound(walk), NEW t \in TargetNames, Defs!Visit(t)
  PROVE  WalkSound(walk)' /\ UNCHANGED <<walk.of, walk.left>>
<1> DEFINE pulled == imported[t] \cap TargetNames
           entered == walk.visited \cup {t}
           calls == (walk.pending \cup pulled) \ entered
           services == walk.units \cup (imported[t] \cap Services)
<1>1. /\ t \in walk.pending /\ UNCHANGED imported
      /\ walk' = [walk EXCEPT !.visited = entered, !.units = services, !.pending = calls]
  BY DEF Defs!Visit
<1>2. walk \in Walks
  BY DEF WalkSound
<1>3. /\ walk' \in Walks /\ UNCHANGED <<walk.of, walk.left>>
      /\ walk'.visited = entered /\ walk'.pending = calls /\ walk'.units = services
  BY <1>1, <1>2 DEF Walks
<1>4. entered \cup calls = walk.visited \cup walk.pending \cup pulled
  BY <1>1
<1>5. ASSUME NEW S \in SUBSET TargetNames, Around(walk.of, S)
      PROVE  entered \cup calls \subseteq S
  <2>1. walk.visited \cup walk.pending \subseteq S
    BY <1>5 DEF WalkSound
  <2>2. pulled \subseteq S
    BY <1>1, <1>5, <2>1 DEF Around
  <2> QED
    BY <1>4, <2>1, <2>2
<1>6. ASSUME NEW v \in entered
      PROVE  imported[v] \cap TargetNames \subseteq entered \cup calls
  BY <1>4 DEF WalkSound
<1>7. services = {s \in Services : \E v \in entered : s \in imported[v]}
  <2>1. walk.units = {s \in Services : \E v \in walk.visited : s \in imported[v]}
    BY DEF WalkSound
  <2> QED
    BY <2>1
<1>8. walk.of \in entered \cup calls /\ entered \cap calls = {}
  BY <1>4 DEF WalkSound
<1> HIDE DEF entered, calls, services
<1>9. ASSUME NEW S \in SUBSET TargetNames, Around(walk.of, S)'
      PROVE  entered \cup calls \subseteq S
  BY <1>1, <1>3, <1>5, <1>9 DEF Around
<1> QED
  BY <1>1, <1>3, <1>6, <1>7, <1>8, <1>9 DEF WalkSound

LEMMA ParsedNames ==
  ASSUME NEW ss \in Seq(Sections)
  PROVE  DOMAIN Defs!ParseGroupConfig(ss).groups \subseteq Defs!GroupNames
<1>0. \A i \in DOMAIN ss : ss[i] \in Sections
  OBVIOUS
<1>1. ASSUME NEW i \in Defs!Flushed(ss) PROVE ss[i].name \in Defs!GroupNames
  <2>0. i \in DOMAIN ss /\ ss[i].name # ""
    BY DEF Defs!Flushed
  <2>1. ss[i] \in Sections
    BY <1>0, <2>0
  <2>2. ss[i].name \in {s.name : s \in Sections}
    BY <2>1
  <2> QED
    BY <2>0, <2>2 DEF Defs!GroupNames
<1>2. DOMAIN Defs!ParseGroupConfig(ss).groups = {ss[i].name : i \in Defs!Flushed(ss)}
  BY DEF Defs!ParseGroupConfig
<1> QED
  BY <1>1, <1>2

LEMMA OverrideDomain ==
  ASSUME NEW f, NEW g
  PROVE  DOMAIN Defs!Override(f, g) = DOMAIN f \cup DOMAIN g
BY DEF Defs!Override

LEMMA DefsBegin ==
  ASSUME Defs!Init
  PROVE  DefsKnown
<1>1. /\ deps = Defs!NoImport /\ imported = Defs!NoImport /\ sections = <<>>
      /\ phase = "import" /\ read = Defs!Nothing /\ defs = Defs!Unloaded
  BY DEF Defs!Init
<1>2. /\ DOMAIN read.groups = {} /\ DOMAIN defs.groups = {} /\ DOMAIN defs.targets = {}
  BY <1>1 DEF Defs!Nothing, Defs!Unloaded, Defs!NoEntries
<1>3. DefsTyped
  BY <1>1, <1>2 DEF DefsTyped, Defs!NoImport
<1> QED
  BY <1>1, <1>2, <1>3 DEF DefsKnown

LEMMA DefsGoOn ==
  ASSUME Defs!Parameters, DefsKnown, [Defs!Next]_(Defs!vars)
  PROVE  DefsKnown'
<1>0. DefsTyped
  BY DEF DefsKnown
<1>n. /\ DOMAIN Defs!Nothing.groups = {} /\ DOMAIN Defs!Nothing.targets = {}
      /\ Defs!NoImport \in [TargetNames -> SUBSET (TargetNames \cup Services)]
  BY DEF Defs!Nothing, Defs!NoEntries, Defs!NoImport
<1>1. CASE Defs!Edit
  <2>1. UNCHANGED <<phase, imported, walk, read, defs>>
    BY <1>1 DEF Defs!Edit
  <2>2. \/ \E t \in TargetNames : \E d \in (TargetNames \ {t}) \cup Services :
             deps' = [deps EXCEPT ![t] = IF d \in @ THEN @ \ {d} ELSE @ \cup {d}]
        \/ deps' = deps
    BY <1>1 DEF Defs!Edit
  <2>3. deps' \in [TargetNames -> SUBSET (TargetNames \cup Services)]
    BY <1>0, <2>2 DEF DefsTyped
  <2>4. \/ \E s \in Sections : sections' = Append(sections, s)
        \/ sections # <<>> /\ sections' = Tail(sections)
        \/ sections' = sections
    BY <1>1 DEF Defs!Edit
  <2>5. sections' \in Seq(Sections)
    <3>1. sections \in Seq(Sections)
      BY <1>0 DEF DefsTyped
    <3> QED
      BY <2>4, <3>1
  <2>6. DefsTyped'
    BY <1>0, <2>1, <2>3, <2>5 DEF DefsTyped, Defs!GroupNames
  <2> QED
    BY <2>1, <2>6 DEF DefsKnown, WalkSound, Around, ImportedRight, Defs!Reached, Unresolved
<1>2. CASE Defs!Reload
  <2>1. phase = "idle" /\ phase' = "import" /\ UNCHANGED <<deps, sections, imported, walk, read, defs>>
    BY <1>2 DEF Defs!Reload
  <2>2. DefsTyped'
    BY <1>0, <2>1 DEF DefsTyped, Defs!GroupNames
  <2> QED
    BY <2>1, <2>2 DEF DefsKnown
<1>3. CASE Defs!ReloadImport
  <2>1. /\ phase = "import" /\ Defs!Resolve(TargetNames) /\ imported' = deps
        /\ UNCHANGED <<deps, sections, read, defs>>
    BY <1>3 DEF Defs!ReloadImport
  <2>2. \/ TargetNames = {} /\ phase' = "groups"
        \/ /\ phase' = "resolve" /\ walk'.of \in TargetNames /\ walk'.left = TargetNames \ {walk'.of}
           /\ WalkSound(walk)'
    BY <2>1, WalkStarts
  <2>3. DefsTyped'
    BY <1>0, <2>1, <2>2 DEF DefsTyped, Defs!GroupNames
  <2>4. DOMAIN read'.groups = {}
    BY <2>1 DEF DefsKnown
  <2>5. phase' = "resolve" => Unresolved' = TargetNames
    BY <2>2 DEF Unresolved
  <2> QED
    BY <2>1, <2>2, <2>3, <2>4, <2>5 DEF DefsKnown
<1>4. ASSUME NEW t \in TargetNames, Defs!Visit(t) PROVE DefsKnown'
  <2>1. phase = "resolve" /\ UNCHANGED <<deps, sections, phase, imported, read, defs>>
    BY <1>4 DEF Defs!Visit
  <2>2. WalkSound(walk)' /\ UNCHANGED <<walk.of, walk.left>>
    BY <1>0, <1>4, <2>1, WalkGoesOn DEF DefsKnown
  <2>3. DefsTyped'
    BY <1>0, <2>1 DEF DefsTyped, Defs!GroupNames
  <2>4. Unresolved' = Unresolved /\ \A x \in TargetNames : ImportedRight(x)' <=> ImportedRight(x)
    BY <2>1, <2>2 DEF Unresolved, ImportedRight, Defs!Reached
  <2> QED
    BY <2>1, <2>2, <2>3, <2>4 DEF DefsKnown
<1>5. CASE Defs!TargetResolved
  <2>1. /\ phase = "resolve" /\ walk.pending = {} /\ Defs!Resolve(walk.left)
        /\ UNCHANGED <<deps, sections, imported, defs>>
    BY <1>5 DEF Defs!TargetResolved
  <2>0. walk.of \in TargetNames
    BY <2>1 DEF DefsKnown, WalkSound, Walks
  <2>t. PICK t \in TargetNames : t = walk.of
    BY <2>0
  <2> DEFINE named == {x \in {t} : walk.units # {}}
  <2>2. read' = [groups |-> Defs!Override(read.groups, [x \in named |-> walk.units]),
                 targets |-> Defs!Override(read.targets, [x \in named |-> x])]
    BY <1>5, <2>t DEF Defs!TargetResolved
  <2>3. /\ WalkSound(walk) /\ walk.left \subseteq TargetNames /\ t \notin walk.left
        /\ DOMAIN read.groups \subseteq TargetNames \ Unresolved
        /\ \A x \in TargetNames \ Unresolved : ImportedRight(x)
    BY <2>1, <2>t DEF DefsKnown, WalkSound, Walks
  <2>4. walk.units = Defs!Reached(t)
    BY <2>1, <2>3, <2>t, WalkCollects
  <2>5. /\ DOMAIN read'.groups = DOMAIN read.groups \cup named
        /\ \A x \in DOMAIN read'.groups :
             read'.groups[x] = IF x \in named THEN walk.units ELSE read.groups[x]
    BY <2>2 DEF Defs!Override
  <2>6. \A x \in TargetNames : Defs!Reached(x)' = Defs!Reached(x)
    BY <2>1 DEF Defs!Reached
  <2>7. ImportedRight(t)'
    <3>1. t \notin DOMAIN read.groups
      BY <2>3, <2>t DEF Unresolved
    <3> QED
      BY <2>4, <2>5, <2>6, <3>1 DEF ImportedRight
  <2>8. \A x \in TargetNames \ walk.left : ImportedRight(x)'
    <3>1. ASSUME NEW x \in TargetNames \ walk.left, x # t PROVE ImportedRight(x)'
      <4>1. ImportedRight(x)
        BY <2>3, <2>t, <3>1 DEF Unresolved
      <4> QED
        BY <2>5, <2>6, <3>1, <4>1 DEF ImportedRight
    <3> QED
      BY <2>7, <3>1
  <2>9. DOMAIN read'.groups \subseteq TargetNames \ walk.left
    BY <2>3, <2>5, <2>t DEF Unresolved
  <2>10. TargetNames \subseteq Defs!GroupNames
    BY DEF Defs!GroupNames, Defs!Parameters
  <2>11. \/ walk.left = {} /\ phase' = "groups"
         \/ /\ phase' = "resolve" /\ walk'.of \in walk.left /\ walk'.left = walk.left \ {walk'.of}
            /\ WalkSound(walk)'
    BY <2>1, <2>3, WalkStarts
  <2>12. DefsTyped'
    BY <1>0, <2>1, <2>9, <2>10, <2>11 DEF DefsTyped, Defs!GroupNames
  <2>13. phase' = "resolve" => Unresolved' = walk.left
    BY <2>11 DEF Unresolved
  <2> HIDE DEF named
  <2> QED
    BY <2>1, <2>8, <2>9, <2>11, <2>12, <2>13 DEF DefsKnown
<1>6. CASE Defs!ReloadGroups
  <2>1. /\ phase' = "targets" /\ imported' = Defs!NoImport /\ UNCHANGED <<deps, sections, defs>>
        /\ DOMAIN read'.groups = DOMAIN read.groups \cup DOMAIN Defs!ParseGroupConfig(sections).groups
    BY <1>6, OverrideDomain DEF Defs!ReloadGroups
  <2>2. DOMAIN Defs!ParseGroupConfig(sections).groups \subseteq Defs!GroupNames
    BY <1>0, ParsedNames DEF DefsTyped
  <2>3. DefsTyped'
    BY <1>0, <1>n, <2>1, <2>2 DEF DefsTyped, Defs!GroupNames
  <2> QED
    BY <2>1, <2>3 DEF DefsKnown
<1>7. ASSUME Defs!ReloadFails, UNCHANGED <<deps, sections>> PROVE DefsKnown'
  <2>1. /\ phase' \in {"idle", "down"} /\ read' = Defs!Nothing /\ imported' = Defs!NoImport
        /\ UNCHANGED <<deps, sections, defs>>
    BY <1>7 DEF Defs!ReloadFails
  <2>2. DefsTyped'
    BY <1>0, <1>n, <2>1 DEF DefsTyped, Defs!GroupNames
  <2> QED
    BY <1>n, <2>1, <2>2 DEF DefsKnown
<1>8. CASE Defs!ReloadTargets
  <2> DEFINE aim == Defs!Override(read.targets, aliases)
  <2>1. UNCHANGED <<deps, sections>>
    BY <1>8 DEF Defs!ReloadTargets
  <2>2. CASE Defs!ValidateTargetGroups(read.groups, aim)
    <3>1. /\ defs' = [groups |-> read.groups, targets |-> aim, loaded |-> TRUE]
          /\ phase' = "idle" /\ read' = Defs!Nothing /\ imported' = imported
      BY <1>8, <2>2 DEF Defs!ReloadTargets
    <3>2. \A x \in DOMAIN aim : aim[x] \in DOMAIN read.groups
      BY <2>2 DEF Defs!ValidateTargetGroups
    <3> HIDE DEF aim
    <3>3. DefsTyped'
      BY <1>0, <1>n, <2>1, <3>1 DEF DefsTyped, Defs!GroupNames
    <3> QED
      BY <1>n, <3>1, <3>2, <3>3 DEF DefsKnown
  <2>3. CASE ~Defs!ValidateTargetGroups(read.groups, aim)
    <3>1. Defs!ReloadFails
      BY <1>8, <2>3 DEF Defs!ReloadTargets
    <3> QED
      BY <1>7, <2>1, <3>1
  <2> QED
    BY <2>2, <2>3
<1>9. CASE Defs!FileError
  BY <1>7, <1>9 DEF Defs!FileError
<1>10. CASE UNCHANGED Defs!vars
  <2>1. UNCHANGED <<deps, sections, phase, imported, walk, read, defs>>
    BY <1>10 DEF Defs!vars
  <2>2. DefsTyped'
    BY <1>0, <2>1 DEF DefsTyped, Defs!GroupNames
  <2> QED
    BY <2>1, <2>2 DEF DefsKnown, WalkSound, Around, ImportedRight, Defs!Reached, Unresolved
<1> QED
  BY <1>1, <1>2, <1>3, <1>4, <1>5, <1>6, <1>8, <1>9, <1>10 DEF Defs!Next

LEMMA DefsArrive ==
  ASSUME DefsKnown
  PROVE  Defs!TypeOK /\ Defs!QueriesAgree /\ Defs!ImportIsReachable
<1>1. Defs!TypeOK
  BY DEF DefsKnown, DefsTyped, Defs!TypeOK
<1>2. Defs!QueriesAgree
  BY DEF DefsKnown, Defs!QueriesAgree, Defs!ResolveVirtual, Defs!Group, Defs!UnitGroups
<1>3. Defs!ImportIsReachable
  BY DEF DefsKnown, ImportedRight, Defs!ImportIsReachable
<1> QED
  BY <1>1, <1>2, <1>3

-----------------------------------------------------------------------------
(* The parts together: each keeps its own invariant. *)

PartsKnown ==
  /\ part = "plane" => PlaneSound
  /\ part = "start" => StartKnown
  /\ part = "sockets" => HoldersKnown
  /\ part = "config" => ContentKnown
  /\ part = "migrate" => MigrateSound
  /\ part = "status" => StatusKnown
  /\ part = "defs" => DefsKnown

LEMMA PartsInvariant == PartSpec => []PartsKnown
<1>1. PartInit => PartsKnown
  BY PartsAssumption, PlaneBegins, StartInitially, HoldersBegin, ConfigBegins, MigrateBegins,
     StatusBegins, DefsBegin
  DEF PartInit, PlaneInit, StartInit, SocketsInit, ConfigInit, MigrateInit, StatusInit, DefsInit,
      PartsKnown
<1>2. PartsKnown /\ [PartNext]_partVars => PartsKnown'
  <2> SUFFICES ASSUME PartsKnown, [PartNext]_partVars PROVE PartsKnown'
    OBVIOUS
  <2>1. UNCHANGED part
    BY DEF PartNext, PlaneNext, StartNext, SocketsNext, ConfigNext, MigrateNext, StatusNext, DefsNext,
           partVars
  <2>2. CASE part = "plane"
    <3>1. [Next]_vars
      BY <2>2 DEF PartNext, PlaneNext, StartNext, SocketsNext, ConfigNext, MigrateNext, StatusNext,
                  DefsNext, partVars
    <3> QED
      BY <2>1, <2>2, <3>1, PartsAssumption, PlaneGoesOn DEF PartsKnown
  <2>3. CASE part = "sockets"
    <3>1. [Sockets!Next]_(Sockets!vars)
      BY <2>3 DEF PartNext, PlaneNext, StartNext, SocketsNext, ConfigNext, MigrateNext, StatusNext,
                  DefsNext, partVars
    <3> QED
      BY <2>1, <2>3, <3>1, HoldersGoOn DEF PartsKnown
  <2>4. CASE part = "config"
    <3>1. [Config!Next]_(Config!vars)
      BY <2>4 DEF PartNext, PlaneNext, StartNext, SocketsNext, ConfigNext, MigrateNext, StatusNext,
                  DefsNext, partVars
    <3> QED
      BY <2>1, <2>4, <3>1, ConfigGoesOn DEF PartsKnown
  <2>5. CASE part = "migrate"
    <3>1. [Migrate!Next]_(Migrate!vars)
      BY <2>5 DEF PartNext, PlaneNext, StartNext, SocketsNext, ConfigNext, MigrateNext, StatusNext,
                  DefsNext, partVars
    <3> QED
      BY <2>1, <2>5, <3>1, PartsAssumption, MigrateGoesOn DEF PartsKnown
  <2>6. CASE part = "status"
    <3>1. [Status!Next]_(Status!vars)
      BY <2>6 DEF PartNext, PlaneNext, StartNext, SocketsNext, ConfigNext, MigrateNext, StatusNext,
                  DefsNext, partVars
    <3> QED
      BY <2>1, <2>6, <3>1, PartsAssumption, StatusGoesOn DEF PartsKnown
  <2>7. CASE part = "start"
    <3>1. [Start!Next]_(Start!vars)
      BY <2>7 DEF PartNext, PlaneNext, StartNext, SocketsNext, ConfigNext, MigrateNext, StatusNext,
                  DefsNext, partVars
    <3> QED
      BY <2>1, <2>7, <3>1, StartStep DEF PartsKnown
  <2>8. CASE part = "defs"
    <3>1. [Defs!Next]_(Defs!vars)
      BY <2>8 DEF PartNext, PlaneNext, StartNext, SocketsNext, ConfigNext, MigrateNext, StatusNext,
                  DefsNext, partVars
    <3> QED
      BY <2>1, <2>8, <3>1, PartsAssumption, DefsGoOn DEF PartsKnown
  <2> QED
    BY <2>1, <2>2, <2>3, <2>4, <2>5, <2>6, <2>7, <2>8 DEF PartsKnown
<1> QED
  BY <1>1, <1>2, PTL DEF PartSpec

(* Between two commands the administrator's configuration is in its place or *)
(* in the manifest that goes with the managed file, for any number of        *)
(* commands, edits and failures (enableDaemonActivation,                     *)
(* disableDBusActivation).                                                   *)
THEOREM ConfigCorrect == PartSpec => []AdminContentKept
<1>1. PartsKnown => AdminContentKept
  BY DEF PartsKnown, AdminContentKept, ContentKnown, Config!AdminContentKept, Config!Status
<1> QED
  BY <1>1, PartsInvariant, PTL

(* The paths are removed only when their holders have ended, and only        *)
(* processes that the policy does not protect are killed, however processes  *)
(* come, go and take each other's numbers meanwhile                          *)
(* (cleanupSocketActivationState, staleSocketHolderPIDs,                     *)
(* cleanupStaleSocketHoldersAndPaths).                                       *)
THEOREM HoldersCorrect == PartSpec => []HoldersSound
<1>1. PartsKnown => HoldersSound
  BY DEF PartsKnown, HoldersSound, HoldersKnown, Sockets!HoldersSound, Sockets!RemovedWhenReleased
<1> QED
  BY <1>1, PartsInvariant, PTL

(* When a migration says tracked, no descendant of the main process is       *)
(* outside of the cgroup, then or later, for any number of processes, forks  *)
(* and rounds (internal/cgrouptrack/migrate.go: Migrate, moveAndVerify,      *)
(* processSnapshot).                                                         *)
THEOREM TrackedCorrect == PartSpec => []TrackedIsComplete
<1>1. PartsKnown => TrackedIsComplete
  BY PartsAssumption, FamilyMeansTracked DEF PartsKnown, TrackedIsComplete, MigrateSound, KernelSound
<1> QED
  BY <1>1, PartsInvariant, PTL

(* The command can always fall back on a manifest of its own; whatever       *)
(* servicectl-api sends, a manifest it goes on with is one topology with a   *)
(* single chain to the service; and the health it shows and its exit status  *)
(* follow from the snapshot and the probes, for any snapshots, groups,       *)
(* changes of enablement and failures of probes (status_collect.go,          *)
(* status_manifest.go, internal/statusview/model.go).                        *)
THEOREM StatusCorrect == PartSpec => []StatusSound
<1>1. PartsKnown => StatusSound
  BY AcceptedHasShape DEF PartsKnown, StatusSound, StatusKnown
<1> QED
  BY <1>1, PartsInvariant, PTL

(* A start or restart, for any number of units, any graph of dependencies,   *)
(* cycles included, any external units and any number of failures and        *)
(* crashes: the recursion ends, definitions and stops come in an order that  *)
(* Dinit accepts, a restart that succeeds restores what ran, and one that    *)
(* fails has a cause below a unit it was to start (main.go, deps.go,         *)
(* dinit_gen.go).                                                            *)
THEOREM StartCorrect == PartSpec => []StartSound
<1>1. PartsKnown => StartSound
  BY StartKnownIsSound DEF PartsKnown, StartSound
<1> QED
  BY <1>1, PartsInvariant, PTL

(* main.go, group_cli.go, s6_backend.go, enabled_dag.go: for all units,      *)
(* groups and dependencies, for any number of servicectl processes, aborted  *)
(* anywhere, and of restarts of servicectl-api.  The bundle has no dangling  *)
(* entry and what was announced holds unless something has spoilt it; and    *)
(* after a command on a unit the dependencies are those of the enabled units *)
(* unless commands have overlapped.                                          *)
THEOREM EnablementCorrect == PartSpec => []EnablementKept
<1>1. PlaneSound => EnablementSound
  <2> SUFFICES ASSUME PlaneSound PROVE EnablementSound
    OBVIOUS
  <2>1. TypeOK /\ BundleIsBacked
    BY DEF PlaneSound, CommandsSound, OwnersSound, BundleIsBacked
  <2>2. AckedIsRealised
    BY DEF PlaneSound, OwnersSound, Realised, AckedIsRealised
  <2>3. DependenciesMatch
    BY DEF PlaneSound, MatchSound, Matched, Match, DependenciesMatch
  <2> QED
    BY <2>1, <2>2, <2>3 DEF EnablementSound
<1>2. PartsKnown => EnablementKept
  BY <1>1 DEF PartsKnown, EnablementKept
<1> QED
  BY <1>2, PartsInvariant, PTL

(* After any number of reloads, whatever is edited between their reads and   *)
(* whichever of them fail, each target in use has a group in use, and what   *)
(* a reload has imported for a target are the services that the target       *)
(* reaches, cycles of targets included (reloadDefinitionsLocked,             *)
(* importSystemdTargets, resolveTargetServices, validateTargetGroups).       *)
THEOREM DefinitionsCorrect == PartSpec => []DefinitionsSound
<1>1. PartsKnown => DefinitionsSound
  BY DefsArrive DEF PartsKnown, DefinitionsSound
<1> QED
  BY <1>1, PartsInvariant, PTL
=============================================================================
