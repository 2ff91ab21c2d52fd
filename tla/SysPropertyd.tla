---------------------------- MODULE SysPropertyd ----------------------------
(***************************************************************************)
(* sys-propertyd (cmd/sys-propertyd): the store of properties, of enabled  *)
(* units and groups and of running units, for both modes.  Clients change  *)
(* it over HTTP; what must survive a restart is kept in one text file that *)
(* every change rewrites as a whole.                                       *)
(*                                                                         *)
(* Every handler holds d.mu from its first look at the state to its last   *)
(* event, so that handlers do not interleave: the model executes one       *)
(* request at a time.  What interleaves with a request is the end of the   *)
(* daemon, and the failure of one of the file operations of os.WriteFile   *)
(* (open with O_TRUNC, then write), of which a request consists.           *)
(*                                                                         *)
(* Names are numbered in the order in which they are sorted.  Left out:    *)
(* requests that are refused before they reach the state, queries, the     *)
(* definitions of groups, persistent properties whose key has no           *)
(* "persist." prefix (no client of the repository sets one), and lines     *)
(* prop.<key> without a mode, which no version of the code at hand writes. *)
(***************************************************************************)
EXTENDS Integers, FiniteSets

CONSTANTS
  Units, Groups,   \* the units and groups that may be enabled
  Keys,            \* persistent properties other than persist.group.*
  MaxRequests      \* bound: requests in one run of the model

ASSUME ConstantsAssumption ==
  /\ Units \subseteq Nat /\ Groups \subseteq Nat /\ Keys \subseteq Nat
  /\ IsFiniteSet(Units)
  /\ MaxRequests \in Nat

Modes == {"system", "user"}

(* What a property may be set to: "absent" stands for the values that      *)
(* delete it ("", 0, false), "1" for the ones that count as enabled, "no"  *)
(* for every other one.  "empty" is never set: it is what loadState makes  *)
(* of a line that ends after its '='.                                      *)
Given == {"absent", "1", "no"}
Values == Given \cup {"empty"}

\* util.ExternalManagedValueEnabled
Truthy(v) == v = "1"

VARIABLES
  pc,       \* "down", "idle", "save", "write" or "publish"
  mem,      \* what the file is to hold: see States
  off,      \* enabledUnitsByMode: the entries that are false, which only loadState makes
  runners,  \* runnerUnitsByMode
  file,     \* the lines of the state file
  ask,      \* the last request
  reply,    \* and the answer to it: "none", "ok" or "error"
  requests, \* number of requests so far
  dirty,    \* ghost: the last save failed, and the daemon has not been restarted
  short,    \* ghost: the file was last written by a write that was cut short
  saved     \* ghost: what the file was last meant to hold, or found to hold

memVars == <<mem, off, runners>>
ghostVars == <<dirty, short, saved>>
vars == <<pc, memVars, file, ask, reply, requests, ghostVars>>

\* d.store, enabledUnitsByMode (what is true), enabledGroupsByMode, enabledInitialized.  Of the
\* runtime properties, prop.group.g of every group g.
States ==
  [units   : [Modes -> SUBSET Units],
   groups  : [Modes -> SUBSET Groups],
   init    : [Modes -> BOOLEAN],
   persist : [Keys -> Values],
   runtime : [Modes -> [Groups -> Values]]]

EmptyState ==
  [units   |-> [m \in Modes |-> {}],
   groups  |-> [m \in Modes |-> {}],
   init    |-> [m \in Modes |-> FALSE],
   persist |-> [k \in Keys |-> "absent"],
   runtime |-> [m \in Modes |-> [g \in Groups |-> "absent"]]]

(* A line key=value of the file.  Kinds: "group", "init" and "unit" for     *)
(* enable.<mode>.*, "persist" for persist.*, "legacy" for persist.group.*,  *)
(* which the daemon reads and no longer writes, "prop" for prop.<mode>.*.   *)
Line(kind, mode, name, val) == [kind |-> kind, mode |-> mode, name |-> name, val |-> val]

LineSet == [kind : {"group", "init", "unit", "persist", "legacy", "prop"},
            mode : Modes \cup {"both"}, name : Nat, val : Values]

Asks == [kind : {"unit", "list", "group", "persistGroup", "persist", "runtime",
                 "runner", "runnerList"},
         mode : Modes \cup {"both"}, names : SUBSET Nat, val : Given]

TypeOK ==
  /\ pc \in {"down", "idle", "save", "write", "publish"}
  /\ mem \in States
  /\ off \in [Modes -> SUBSET Units]
  /\ runners \in [Modes -> SUBSET Units]
  /\ file \subseteq LineSet
  /\ ask \in Asks
  /\ reply \in {"none", "ok", "error"}
  /\ requests \in 0 .. MaxRequests
  /\ dirty \in BOOLEAN /\ short \in BOOLEAN
  /\ saved \in States

-----------------------------------------------------------------------------
(* The file. *)

EnableLines(s, m) ==
  (IF s.init[m] THEN {Line("init", m, 0, "1")} ELSE {})
    \cup {Line("unit", m, u, "1") : u \in s.units[m]}
    \cup {Line("group", m, g, "1") : g \in s.groups[m]}

PropLines(s, m) ==
  {Line("prop", m, g, s.runtime[m][g]) : g \in {h \in Groups : s.runtime[m][h] # "absent"}}

PersistLines(s) ==
  {Line("persist", "both", k, s.persist[k]) : k \in {j \in Keys : s.persist[j] # "absent"}}

\* Faulty variant: a mode whose lists are empty leaves no trace.
LinesOfMembers(s) ==
  PersistLines(s)
    \cup UNION {EnableLines(s, m) \cup PropLines(s, m) :
                  m \in {n \in Modes : s.units[n] \cup s.groups[n] # {}}}

\* saveStateLocked: what is written.
Lines(s) == PersistLines(s) \cup UNION {EnableLines(s, m) \cup PropLines(s, m) : m \in Modes}

Has(f, kind, m) == \E l \in f : l.kind = kind /\ l.mode = m

\* The value that the line of a property gives it.
Read(f, kind, m, n) ==
  IF \E l \in f : l.kind = kind /\ l.mode = m /\ l.name = n
  THEN (CHOOSE l \in f : l.kind = kind /\ l.mode = m /\ l.name = n).val
  ELSE "absent"

(* loadState.  Lines are read in sorted order, and a later one overrides:   *)
(* groups come before "initialized", this before units, and legacy lines,   *)
(* which speak for both modes, after all of them.                           *)
LoadGroups(f, m) ==
  {g \in Groups : IF Read(f, "legacy", "both", g) # "absent"
                  THEN Truthy(Read(f, "legacy", "both", g))
                  ELSE Truthy(Read(f, "group", m, g))}

LoadInit(f, m) ==
  \/ Has(f, "unit", m)
  \/ Has(f, "legacy", "both")
  \/ IF Has(f, "init", m) THEN Truthy(Read(f, "init", m, 0)) ELSE Has(f, "group", m)

\* Faulty variant: a mode without a line counts as initialized.
LoadAlwaysInit(f) ==
  [units   |-> [m \in Modes |-> {u \in Units : Truthy(Read(f, "unit", m, u))}],
   groups  |-> [m \in Modes |-> LoadGroups(f, m)],
   init    |-> [m \in Modes |-> TRUE],
   persist |-> [k \in Keys |-> Read(f, "persist", "both", k)],
   runtime |-> [m \in Modes |-> [g \in Groups |-> Read(f, "prop", m, g)]]]

Load(f) ==
  [units   |-> [m \in Modes |-> {u \in Units : Truthy(Read(f, "unit", m, u))}],
   groups  |-> [m \in Modes |-> LoadGroups(f, m)],
   init    |-> [m \in Modes |-> LoadInit(f, m)],
   persist |-> [k \in Keys |-> Read(f, "persist", "both", k)],
   runtime |-> [m \in Modes |-> [g \in Groups |-> Read(f, "prop", m, g)]]]

LoadOff(f) ==
  [m \in Modes |-> {u \in Units : Read(f, "unit", m, u) \notin {"absent", "1"}}]

\* sort.Strings(lines): the place of a line in the file.
KindRank(l) == CASE l.kind = "group"   -> 1
                 [] l.kind = "init"    -> 2
                 [] l.kind = "unit"    -> 3
                 [] l.kind = "persist" -> 7
                 [] l.kind = "legacy"  -> 8
                 [] l.kind = "prop"    -> 9
Rank(l) == KindRank(l) + CASE l.mode = "user" /\ l.kind # "prop" -> 3
                           [] l.mode = "user" /\ l.kind = "prop" -> 1
                           [] OTHER -> 0
Before(a, b) == Rank(a) < Rank(b) \/ (Rank(a) = Rank(b) /\ a.name < b.name)

(* What a write that is cut short leaves: some lines from the beginning,    *)
(* and perhaps the next one up to its '='.  (Cut before the '=' it is       *)
(* skipped by loadState.)                                                   *)
ShortWrites(f) ==
  {{a \in f : Before(a, b)} : b \in f}
    \cup {{a \in f : Before(a, b)} \cup {[b EXCEPT !.val = "empty"]} : b \in f}

-----------------------------------------------------------------------------
\* main and run: the daemon is started with the file it left, if any.
Init ==
  /\ pc = "down"
  /\ mem = EmptyState
  /\ off = [m \in Modes |-> {}]
  /\ runners = [m \in Modes |-> {}]
  /\ \E G \in SUBSET Groups, v \in [Groups -> {"1", "no"}] :
       file = {Line("legacy", "both", g, v[g]) : g \in G}
  /\ ask = [kind |-> "runnerList", mode |-> "both", names |-> {}, val |-> "absent"]
  /\ reply = "none"
  /\ requests = 0
  /\ dirty = FALSE /\ short = FALSE
  /\ saved = Load(file)

Start ==
  /\ pc = "down"
  /\ pc' = "idle"
  /\ mem' = Load(file)
  /\ off' = LoadOff(file)
  /\ runners' = [m \in Modes |-> {}]
  /\ dirty' = FALSE /\ short' = FALSE
  /\ saved' = Load(file)
  /\ UNCHANGED <<file, ask, reply, requests>>

\* The process ends, wherever it is: the lock and the memory are gone.
Crash ==
  /\ pc # "down"
  /\ pc' = "down"
  /\ reply' = "none"
  /\ UNCHANGED <<memVars, file, ask, requests, ghostVars>>

\* A handler takes the lock.
Begin(a) ==
  /\ pc = "idle"
  /\ requests < MaxRequests
  /\ requests' = requests + 1
  /\ ask' = a

\* ... changes what is to be saved, and calls saveStateLocked.
Change(s) ==
  /\ mem' = s
  /\ pc' = "save"
  /\ reply' = "none"
  /\ UNCHANGED <<runners, file, ghostVars>>

\* ... or finds nothing to do: the answer is ok, and nothing is saved.
NothingToDo ==
  /\ reply' = "ok"
  /\ UNCHANGED <<pc, memVars, file, ghostVars>>

\* setMembership
With(S, n, present) == IF present THEN S \cup {n} ELSE S \ {n}

Ask(kind, mode, names, val) ==
  [kind |-> kind, mode |-> mode, names |-> names, val |-> val]
Present(on) == IF on THEN "1" ELSE "absent"

SetEnabledUnit(m, u, on) ==
  /\ Begin(Ask("unit", m, {u}, Present(on)))
  /\ \/ (u \in mem.units[m]) = on /\ mem.init[m] /\ NothingToDo
     \/ /\ (u \in mem.units[m]) # on \/ ~mem.init[m]
        /\ Change([mem EXCEPT !.init[m] = TRUE, !.units[m] = With(@, u, on)])
        /\ off' = [off EXCEPT ![m] = @ \ {u}]

\* membershipEqual(enabledUnitsByMode[m], S): equally long, and every entry of the first
\* is as in the second.
MembershipEqual(m, S) ==
  /\ Cardinality(mem.units[m]) + Cardinality(off[m]) = Cardinality(S)
  /\ mem.units[m] \subseteq S
  /\ off[m] \cap S = {}

\* Faulty variant: the list is added to, and not replaced.
ReplaceEnabledListMerges(m, S) ==
  /\ Begin(Ask("list", m, S, "1"))
  /\ Change([mem EXCEPT !.init[m] = TRUE, !.units[m] = @ \cup S])
  /\ off' = [off EXCEPT ![m] = {}]

ReplaceEnabledList(m, S) ==
  /\ Begin(Ask("list", m, S, "1"))
  /\ \/ MembershipEqual(m, S) /\ mem.init[m] /\ NothingToDo
     \/ /\ ~MembershipEqual(m, S) \/ ~mem.init[m]
        /\ Change([mem EXCEPT !.init[m] = TRUE, !.units[m] = S])
        /\ off' = [off EXCEPT ![m] = {}]

SetEnabledGroup(m, g, on) ==
  /\ Begin(Ask("group", m, {g}, Present(on)))
  /\ \/ (g \in mem.groups[m]) = on /\ mem.init[m] /\ NothingToDo
     \/ /\ (g \in mem.groups[m]) # on \/ ~mem.init[m]
        /\ Change([mem EXCEPT !.init[m] = TRUE, !.groups[m] = With(@, g, on)])
        /\ UNCHANGED off

\* setProperty, key persist.group.g: the old way to enable a group, in both modes.
SetPersistGroup(g, v) ==
  /\ Begin(Ask("persistGroup", "both", {g}, v))
  /\ Change([mem EXCEPT !.init = [m \in Modes |-> TRUE],
                        !.groups = [m \in Modes |-> With(@[m], g, Truthy(v))]])
  /\ UNCHANGED off

\* setProperty, any other persistent key.
SetPersistent(k, v) ==
  /\ Begin(Ask("persist", "both", {k}, v))
  /\ Change([mem EXCEPT !.persist[k] = v])
  /\ UNCHANGED off

\* setProperty, a runtime key of one mode.
SetRuntime(m, g, v) ==
  /\ Begin(Ask("runtime", m, {g}, v))
  /\ Change([mem EXCEPT !.runtime[m][g] = v])
  /\ UNCHANGED off

\* setRunnerUnit, replaceRunnerList: kept in memory only.
SetRunners(m, S) ==
  /\ runners' = [runners EXCEPT ![m] = S]
  /\ reply' = "ok"
  /\ UNCHANGED <<pc, mem, off, file, ghostVars>>

SetRunnerUnit(m, u, on) ==
  /\ Begin(Ask("runner", m, {u}, Present(on)))
  /\ SetRunners(m, With(runners[m], u, on))

ReplaceRunnerList(m, S) ==
  /\ Begin(Ask("runnerList", m, S, "1"))
  /\ SetRunners(m, S)

-----------------------------------------------------------------------------
(* os.WriteFile in saveStateLocked. *)

SaveFailed ==
  /\ pc' = "idle"
  /\ reply' = "error"
  /\ dirty' = TRUE
  /\ UNCHANGED <<memVars, ask, requests, saved>>

OpenFails ==
  /\ pc = "save"
  /\ SaveFailed
  /\ UNCHANGED <<file, short>>

\* O_TRUNC
Open ==
  /\ pc = "save"
  /\ pc' = "write"
  /\ file' = {}
  /\ short' = FALSE
  /\ UNCHANGED <<memVars, ask, reply, requests, dirty, saved>>

WriteFails ==
  /\ pc = "write"
  /\ SaveFailed
  /\ file' \in {{}} \cup ShortWrites(Lines(mem))
  /\ short' = (file' # {})

Write ==
  /\ pc = "write"
  /\ pc' = "publish"
  /\ file' = Lines(mem)
  /\ dirty' = FALSE
  /\ saved' = mem
  /\ UNCHANGED <<memVars, ask, reply, requests, short>>

\* The events, which nobody acknowledges, and the answer.
Publish ==
  /\ pc = "publish"
  /\ pc' = "idle"
  /\ reply' = "ok"
  /\ UNCHANGED <<memVars, file, ask, requests, ghostVars>>

-----------------------------------------------------------------------------
Request ==
  \/ \E m \in Modes :
       \/ \E u \in Units, on \in BOOLEAN : SetEnabledUnit(m, u, on) \/ SetRunnerUnit(m, u, on)
       \/ \E S \in SUBSET Units : ReplaceEnabledList(m, S) \/ ReplaceRunnerList(m, S)
       \/ \E g \in Groups, on \in BOOLEAN : SetEnabledGroup(m, g, on)
       \/ \E g \in Groups, v \in Given : SetRuntime(m, g, v)
  \/ \E g \in Groups, v \in Given : SetPersistGroup(g, v)
  \/ \E k \in Keys, v \in Given : SetPersistent(k, v)

Save == OpenFails \/ Open \/ WriteFails \/ Write \/ Publish

Next == Start \/ Crash \/ Request \/ Save

Spec == Init /\ [][Next]_vars

-----------------------------------------------------------------------------
(* What the clients rely on. *)

(* A mode that has a member counts as initialized, whether or not it is     *)
(* marked so.  It is, except when a write was cut off right behind the '='  *)
(* of "enable.<mode>.initialized=".                                         *)
Settled(s) ==
  [s EXCEPT !.init = [m \in Modes |-> s.init[m] \/ s.units[m] # {} \/ s.groups[m] # {}]]

(* The file and the memory say the same whenever the daemon is at rest or   *)
(* announces a change, unless the last save failed: whatever was changed,   *)
(* in whichever mode, a restart finds it (saveStateLocked, loadState).      *)
Durable == pc \in {"idle", "publish"} /\ ~dirty => Settled(Load(file)) = Settled(mem)

(* What a restart finds is what was saved last, or it is recognisably gone: *)
(* then neither mode is initialized, and servicectl-api fills the enabled   *)
(* lists again (refreshPropertyLists).  Except after a write that was cut   *)
(* short, as by a full disk.                                                *)
LossIsVisible ==
  ~short => \/ Settled(Load(file)) = Settled(saved)
            \/ \A m \in Modes : ~Load(file).init[m]

\* State s is as request a wants it.
Satisfied(a, s) ==
  CASE a.kind = "unit"         -> \A u \in a.names : (u \in s.units[a.mode]) = Truthy(a.val)
    [] a.kind = "list"         -> s.units[a.mode] = a.names
    [] a.kind = "group"        -> \A g \in a.names : (g \in s.groups[a.mode]) = Truthy(a.val)
    [] a.kind = "persistGroup" -> \A g \in a.names, m \in Modes :
                                    (g \in s.groups[m]) = Truthy(a.val)
    [] a.kind = "persist"      -> \A k \in a.names : s.persist[k] = a.val
    [] a.kind = "runtime"      -> \A g \in a.names : s.runtime[a.mode][g] = a.val
    [] OTHER                   -> TRUE

\* Request a replaces a list that has false entries, which membershipEqual counts.
Miscounted(a) == a.kind = "list" /\ off[a.mode] # {}

(* A request that was answered with ok is in force, and while no save has   *)
(* failed the file holds it too.  The exception: false entries, of lines    *)
(* that were cut off at their '=', may make as many entries as the new list *)
(* has, which then passes for the old one.                                  *)
AckedIsKept ==
  pc = "idle" /\ reply = "ok" =>
    \/ Miscounted(ask)
    \/ Satisfied(ask, mem) /\ (~dirty => Satisfied(ask, Load(file)))
=============================================================================
