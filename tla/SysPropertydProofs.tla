------------------------- MODULE SysPropertydProofs -------------------------
(***************************************************************************)
(* Theorems about SysPropertyd, for any units, groups and properties and   *)
(* any number of requests.                                                 *)
(***************************************************************************)
EXTENDS SysPropertyd, FiniteSetTheorems, TLAPS

-----------------------------------------------------------------------------
(* What saveStateLocked writes, loadState reads. *)

\* Read yields the value of a line of that key, if there is one.
LEMMA ReadFinds ==
  ASSUME NEW f, NEW kind, NEW m, NEW n,
         \E l \in f : l.kind = kind /\ l.mode = m /\ l.name = n
  PROVE  \E l \in f : l.kind = kind /\ l.mode = m /\ l.name = n /\ Read(f, kind, m, n) = l.val
<1> DEFINE P(l) == l.kind = kind /\ l.mode = m /\ l.name = n
           c == CHOOSE l \in f : P(l)
<1>1. c \in f /\ P(c)
  BY Zenon
<1>2. Read(f, kind, m, n) = c.val
  BY Zenon DEF Read
<1> QED
  BY <1>1, <1>2, Zenon

\* Read yields "absent" if there is none.
LEMMA ReadMisses ==
  ASSUME NEW f, NEW kind, NEW m, NEW n,
         ~ \E l \in f : l.kind = kind /\ l.mode = m /\ l.name = n
  PROVE  Read(f, kind, m, n) = "absent"
BY Zenon DEF Read

\* A line of the file that saveStateLocked writes.
LEMMA LineOf ==
  ASSUME NEW s \in States, NEW l
  PROVE  l \in Lines(s) <=>
           \/ \E k \in Keys : s.persist[k] # "absent" /\ l = Line("persist", "both", k, s.persist[k])
           \/ \E m \in Modes :
                \/ s.init[m] /\ l = Line("init", m, 0, "1")
                \/ \E u \in s.units[m] : l = Line("unit", m, u, "1")
                \/ \E g \in s.groups[m] : l = Line("group", m, g, "1")
                \/ \E g \in Groups : s.runtime[m][g] # "absent"
                                     /\ l = Line("prop", m, g, s.runtime[m][g])
<1>1. l \in PersistLines(s) <=>
        \E k \in Keys : s.persist[k] # "absent" /\ l = Line("persist", "both", k, s.persist[k])
  BY DEF PersistLines
<1>2. ASSUME NEW m \in Modes
      PROVE  l \in EnableLines(s, m) <=>
               \/ s.init[m] /\ l = Line("init", m, 0, "1")
               \/ \E u \in s.units[m] : l = Line("unit", m, u, "1")
               \/ \E g \in s.groups[m] : l = Line("group", m, g, "1")
  BY DEF EnableLines
<1>3. ASSUME NEW m \in Modes
      PROVE  l \in PropLines(s, m) <=>
               \E g \in Groups : s.runtime[m][g] # "absent"
                                 /\ l = Line("prop", m, g, s.runtime[m][g])
  BY DEF PropLines
<1>4. l \in Lines(s) <=>
        l \in PersistLines(s) \/ \E m \in Modes : l \in EnableLines(s, m) \/ l \in PropLines(s, m)
  BY DEF Lines
<1> QED
  BY <1>1, <1>2, <1>3, <1>4, Zenon

\* What is read back, kind by kind.
LEMMA ReadBack ==
  ASSUME NEW s \in States, NEW m \in Modes
  PROVE  /\ \A u \in Units : Truthy(Read(Lines(s), "unit", m, u)) <=> u \in s.units[m]
         /\ \A g \in Groups : Truthy(Read(Lines(s), "group", m, g)) <=> g \in s.groups[m]
         /\ \A g \in Groups : Read(Lines(s), "prop", m, g) = s.runtime[m][g]
         /\ \A k \in Keys : Read(Lines(s), "persist", "both", k) = s.persist[k]
         /\ \A g \in Groups : Read(Lines(s), "legacy", "both", g) = "absent"
         /\ Has(Lines(s), "unit", m) <=> s.units[m] # {}
         /\ Has(Lines(s), "group", m) <=> s.groups[m] # {}
         /\ Has(Lines(s), "init", m) <=> s.init[m]
         /\ Has(Lines(s), "init", m) => Truthy(Read(Lines(s), "init", m, 0))
         /\ ~Has(Lines(s), "legacy", "both")
<1> DEFINE f == Lines(s)
<1>1. /\ m \in {"system", "user"}
      /\ s.units[m] \subseteq Units /\ s.groups[m] \subseteq Groups
      /\ s.init[m] \in BOOLEAN
      /\ \A g \in Groups : s.runtime[m][g] \in Values
      /\ \A k \in Keys : s.persist[k] \in Values
  BY DEF States, Modes
<1>2. \A l \in f :
        /\ l.kind = "unit" /\ l.mode = m => l.name \in s.units[m] /\ l.val = "1"
        /\ l.kind = "group" /\ l.mode = m => l.name \in s.groups[m] /\ l.val = "1"
        /\ l.kind = "init" /\ l.mode = m => s.init[m] /\ l.name = 0 /\ l.val = "1"
        /\ l.kind = "prop" /\ l.mode = m => l.name \in Groups /\ l.val = s.runtime[m][l.name]
                                            /\ l.val # "absent"
        /\ l.kind = "persist" => l.name \in Keys /\ l.val = s.persist[l.name] /\ l.val # "absent"
        /\ l.kind # "legacy"
  BY LineOf, SMTT(30) DEF Line
<1>3. \A u \in s.units[m] : Line("unit", m, u, "1") \in f
  BY LineOf
<1>4. \A g \in s.groups[m] : Line("group", m, g, "1") \in f
  BY LineOf
<1>5. s.init[m] => Line("init", m, 0, "1") \in f
  BY LineOf
<1>6. \A g \in Groups : s.runtime[m][g] # "absent" => Line("prop", m, g, s.runtime[m][g]) \in f
  BY LineOf
<1>7. \A k \in Keys : s.persist[k] # "absent" => Line("persist", "both", k, s.persist[k]) \in f
  BY LineOf
<1> HIDE DEF f
<1>8. ASSUME NEW u \in Units PROVE Truthy(Read(f, "unit", m, u)) <=> u \in s.units[m]
  <2>1. CASE u \in s.units[m]
    <3>1. \E l \in f : l.kind = "unit" /\ l.mode = m /\ l.name = u
      BY <2>1, <1>3 DEF Line
    <3>2. \E l \in f : l.kind = "unit" /\ l.mode = m /\ l.name = u
                       /\ Read(f, "unit", m, u) = l.val
      BY <3>1, ReadFinds
    <3> QED BY <2>1, <3>2, <1>2 DEF Truthy
  <2>2. CASE u \notin s.units[m]
    BY <2>2, <1>2, ReadMisses DEF Truthy
  <2> QED BY <2>1, <2>2
<1>9. ASSUME NEW g \in Groups PROVE Truthy(Read(f, "group", m, g)) <=> g \in s.groups[m]
  <2>1. CASE g \in s.groups[m]
    <3>1. \E l \in f : l.kind = "group" /\ l.mode = m /\ l.name = g
      BY <2>1, <1>4 DEF Line
    <3>2. \E l \in f : l.kind = "group" /\ l.mode = m /\ l.name = g
                       /\ Read(f, "group", m, g) = l.val
      BY <3>1, ReadFinds
    <3> QED BY <2>1, <3>2, <1>2 DEF Truthy
  <2>2. CASE g \notin s.groups[m]
    BY <2>2, <1>2, ReadMisses DEF Truthy
  <2> QED BY <2>1, <2>2
<1>10. ASSUME NEW g \in Groups PROVE Read(f, "prop", m, g) = s.runtime[m][g]
  <2>1. CASE s.runtime[m][g] # "absent"
    <3>1. \E l \in f : l.kind = "prop" /\ l.mode = m /\ l.name = g
      BY <2>1, <1>6 DEF Line
    <3>2. \E l \in f : l.kind = "prop" /\ l.mode = m /\ l.name = g
                       /\ Read(f, "prop", m, g) = l.val
      BY <3>1, ReadFinds
    <3> QED BY <2>1, <3>2, <1>2
  <2>2. CASE s.runtime[m][g] = "absent"
    BY <2>2, <1>2, ReadMisses
  <2> QED BY <2>1, <2>2
<1>11. ASSUME NEW k \in Keys PROVE Read(f, "persist", "both", k) = s.persist[k]
  <2>1. CASE s.persist[k] # "absent"
    <3>1. \E l \in f : l.kind = "persist" /\ l.mode = "both" /\ l.name = k
      BY <2>1, <1>7 DEF Line
    <3>2. \E l \in f : l.kind = "persist" /\ l.mode = "both" /\ l.name = k
                       /\ Read(f, "persist", "both", k) = l.val
      BY <3>1, ReadFinds
    <3> QED BY <2>1, <3>2, <1>2
  <2>2. CASE s.persist[k] = "absent"
    BY <2>2, <1>2, ReadMisses
  <2> QED BY <2>1, <2>2
<1>12. ASSUME NEW g \in Groups PROVE Read(f, "legacy", "both", g) = "absent"
  BY <1>2, ReadMisses
<1>13. Has(f, "unit", m) <=> s.units[m] # {}
  BY <1>2, <1>3 DEF Has, Line
<1>14. Has(f, "group", m) <=> s.groups[m] # {}
  BY <1>2, <1>4 DEF Has, Line
<1>15. Has(f, "init", m) <=> s.init[m]
  BY <1>1, <1>2, <1>5 DEF Has, Line
<1>16. Has(f, "init", m) => Truthy(Read(f, "init", m, 0))
  BY <1>2, ReadFinds DEF Has, Truthy
<1>17. ~Has(f, "legacy", "both")
  BY <1>2 DEF Has
<1> QED
  BY <1>8, <1>9, <1>10, <1>11, <1>12, <1>13, <1>14, <1>15, <1>16, <1>17 DEF f

\* A state with its init field replaced.
LEMMA InitReplaced ==
  ASSUME NEW s \in States, NEW i
  PROVE  [s EXCEPT !.init = i] = [units |-> s.units, groups |-> s.groups, init |-> i,
                                  persist |-> s.persist, runtime |-> s.runtime]
BY DEF States

\* loadState reads back what saveStateLocked wrote, in both modes,
\* whatever the state.  A mode that has members comes back as initialized.
THEOREM RoundTrip ==
  ASSUME NEW s \in States
  PROVE  Load(Lines(s)) = Settled(s)
<1>1. ASSUME NEW m \in Modes
      PROVE  {u \in Units : Truthy(Read(Lines(s), "unit", m, u))} = s.units[m]
  BY <1>1, ReadBack DEF States
<1>2. ASSUME NEW m \in Modes
      PROVE  LoadGroups(Lines(s), m) = s.groups[m]
  BY <1>2, ReadBack DEF States, LoadGroups
<1>3. ASSUME NEW m \in Modes
      PROVE  LoadInit(Lines(s), m) <=> s.init[m] \/ s.units[m] # {} \/ s.groups[m] # {}
  BY <1>3, ReadBack DEF LoadInit
<1>4. ASSUME NEW m \in Modes
      PROVE  LoadInit(Lines(s), m) = (s.init[m] \/ s.units[m] # {} \/ s.groups[m] # {})
  <2>1. LoadInit(Lines(s), m) \in BOOLEAN
    BY DEF LoadInit, Has, Truthy
  <2>2. (s.init[m] \/ s.units[m] # {} \/ s.groups[m] # {}) \in BOOLEAN
    OBVIOUS
  <2> QED BY <1>3, <2>1, <2>2, Zenon
<1>5. ASSUME NEW m \in Modes, NEW g \in Groups
      PROVE  Read(Lines(s), "prop", m, g) = s.runtime[m][g]
  BY <1>5, ReadBack
<1>6. ASSUME NEW k \in Keys
      PROVE  Read(Lines(s), "persist", "both", k) = s.persist[k]
  BY <1>6, ReadBack DEF Modes
<1>7. /\ s = [units |-> s.units, groups |-> s.groups, init |-> s.init,
              persist |-> s.persist, runtime |-> s.runtime]
      /\ s.units = [m \in Modes |-> s.units[m]]
      /\ s.groups = [m \in Modes |-> s.groups[m]]
      /\ s.persist = [k \in Keys |-> s.persist[k]]
      /\ s.runtime = [m \in Modes |-> [g \in Groups |-> s.runtime[m][g]]]
  BY DEF States
<1>8. [m \in Modes |-> {u \in Units : Truthy(Read(Lines(s), "unit", m, u))}] = s.units
  BY <1>1, <1>7
<1>9. [m \in Modes |-> LoadGroups(Lines(s), m)] = s.groups
  BY <1>2, <1>7
<1>10. [m \in Modes |-> LoadInit(Lines(s), m)]
         = [m \in Modes |-> s.init[m] \/ s.units[m] # {} \/ s.groups[m] # {}]
  BY <1>4, Zenon
<1>11. [k \in Keys |-> Read(Lines(s), "persist", "both", k)] = s.persist
  BY <1>6, <1>7
<1>12. [m \in Modes |-> [g \in Groups |-> Read(Lines(s), "prop", m, g)]] = s.runtime
  BY <1>5, <1>7
<1>13. Settled(s) = [units |-> s.units, groups |-> s.groups,
                     init |-> [m \in Modes |-> s.init[m] \/ s.units[m] # {} \/ s.groups[m] # {}],
                     persist |-> s.persist, runtime |-> s.runtime]
  BY InitReplaced, Zenon DEF Settled
<1> QED
  BY <1>8, <1>9, <1>10, <1>11, <1>12, <1>13, Zenon DEF Load

-----------------------------------------------------------------------------
(* Types. *)

LEMMA ReadType ==
  ASSUME NEW f, f \subseteq LineSet, NEW kind, NEW m, NEW n
  PROVE  Read(f, kind, m, n) \in Values
<1>1. CASE \E l \in f : l.kind = kind /\ l.mode = m /\ l.name = n
  <2>1. \E l \in f : Read(f, kind, m, n) = l.val
    BY <1>1, ReadFinds
  <2> QED BY <2>1 DEF LineSet
<1>2. CASE ~ \E l \in f : l.kind = kind /\ l.mode = m /\ l.name = n
  BY <1>2, ReadMisses DEF Values, Given
<1> QED BY <1>1, <1>2

LEMMA LoadType ==
  ASSUME NEW f, f \subseteq LineSet
  PROVE  Load(f) \in States
<1>1. \A m \in Modes : LoadInit(f, m) \in BOOLEAN
  BY DEF LoadInit, Has, Truthy
<1>2. \A m \in Modes : LoadGroups(f, m) \in SUBSET Groups
  BY DEF LoadGroups
<1>3. \A m \in Modes : {u \in Units : Truthy(Read(f, "unit", m, u))} \in SUBSET Units
  OBVIOUS
<1>4. /\ \A k \in Keys : Read(f, "persist", "both", k) \in Values
      /\ \A m \in Modes, g \in Groups : Read(f, "prop", m, g) \in Values
  BY ReadType
<1>5. [m \in Modes |-> LoadInit(f, m)] \in [Modes -> BOOLEAN]
  BY <1>1
<1>6. [m \in Modes |-> LoadGroups(f, m)] \in [Modes -> SUBSET Groups]
  BY <1>2
<1>7. [m \in Modes |-> {u \in Units : Truthy(Read(f, "unit", m, u))}] \in [Modes -> SUBSET Units]
  BY <1>3
<1>8. [k \in Keys |-> Read(f, "persist", "both", k)] \in [Keys -> Values]
  BY <1>4
<1>9. [m \in Modes |-> [g \in Groups |-> Read(f, "prop", m, g)]] \in [Modes -> [Groups -> Values]]
  BY <1>4
<1> QED
  BY <1>5, <1>6, <1>7, <1>8, <1>9, Zenon DEF Load, States

LEMMA LinesType ==
  ASSUME NEW s \in States
  PROVE  Lines(s) \subseteq LineSet
<1> SUFFICES ASSUME NEW l \in Lines(s) PROVE l \in LineSet
  OBVIOUS
<1> USE ConstantsAssumption
<1>1. CASE \E k \in Keys : s.persist[k] # "absent" /\ l = Line("persist", "both", k, s.persist[k])
  BY <1>1 DEF States, Line, LineSet
<1>2. ASSUME NEW m \in Modes, s.init[m] /\ l = Line("init", m, 0, "1") PROVE l \in LineSet
  BY <1>2 DEF Line, LineSet, Values, Given
<1>3. ASSUME NEW m \in Modes, NEW u \in s.units[m], l = Line("unit", m, u, "1") PROVE l \in LineSet
  <2>1. u \in Nat BY <1>3 DEF States
  <2> QED BY <1>3, <2>1 DEF Line, LineSet, Values, Given
<1>4. ASSUME NEW m \in Modes, NEW g \in s.groups[m], l = Line("group", m, g, "1") PROVE l \in LineSet
  <2>1. g \in Nat BY <1>4 DEF States
  <2> QED BY <1>4, <2>1 DEF Line, LineSet, Values, Given
<1>5. ASSUME NEW m \in Modes, NEW g \in Groups, l = Line("prop", m, g, s.runtime[m][g])
      PROVE  l \in LineSet
  <2>1. g \in Nat /\ s.runtime[m][g] \in Values BY <1>5 DEF States
  <2> QED BY <1>5, <2>1 DEF Line, LineSet
<1> QED
  BY <1>1, <1>2, <1>3, <1>4, <1>5, LineOf

LEMMA ShortWritesType ==
  ASSUME NEW f, f \subseteq LineSet, NEW p \in ShortWrites(f)
  PROVE  p \subseteq LineSet
<1>1. CASE p \in {{a \in f : Before(a, b)} : b \in f}
  BY <1>1
<1>2. CASE p \in {{a \in f : Before(a, b)} \cup {[b EXCEPT !.val = "empty"]} : b \in f}
  <2>1. PICK b \in f : p = {a \in f : Before(a, b)} \cup {[b EXCEPT !.val = "empty"]}
    BY <1>2
  <2>2. [b EXCEPT !.val = "empty"] \in LineSet
    BY DEF LineSet, Values
  <2> QED BY <2>1, <2>2
<1> QED BY <1>1, <1>2 DEF ShortWrites

-----------------------------------------------------------------------------
(* Settled. *)

LEMMA SettledFields ==
  ASSUME NEW s \in States
  PROVE  /\ Settled(s) \in States
         /\ Settled(s).units = s.units /\ Settled(s).groups = s.groups
         /\ Settled(s).persist = s.persist /\ Settled(s).runtime = s.runtime
<1> DEFINE i == [m \in Modes |-> s.init[m] \/ s.units[m] # {} \/ s.groups[m] # {}]
<1>1. i \in [Modes -> BOOLEAN]
  OBVIOUS
<1>2. Settled(s) = [s EXCEPT !.init = i]
  BY DEF Settled
<1> HIDE DEF i
<1> QED
  BY <1>1, <1>2 DEF States

LEMMA SettledTwice ==
  ASSUME NEW s \in States
  PROVE  Settled(Settled(s)) = Settled(s)
<1> DEFINE t == Settled(s)
           i(r) == [m \in Modes |-> r.init[m] \/ r.units[m] # {} \/ r.groups[m] # {}]
<1>1. t \in States /\ t.units = s.units /\ t.groups = s.groups
      /\ t.persist = s.persist /\ t.runtime = s.runtime
  BY SettledFields
<1>2. t = [units |-> s.units, groups |-> s.groups, init |-> i(s),
           persist |-> s.persist, runtime |-> s.runtime]
  BY InitReplaced, Zenon DEF Settled
<1>3. Settled(t) = [units |-> t.units, groups |-> t.groups, init |-> i(t),
                    persist |-> t.persist, runtime |-> t.runtime]
  BY <1>1, InitReplaced, Zenon DEF Settled
<1>4. t.init = i(s)
  BY <1>2
<1>5. \A m \in Modes : t.init[m] = (s.init[m] \/ s.units[m] # {} \/ s.groups[m] # {})
  BY <1>4
<1>6. \A m \in Modes : (t.init[m] \/ t.units[m] # {} \/ t.groups[m] # {}) = t.init[m]
  BY <1>1, <1>5
<1>7. i(t) = i(s)
  BY <1>5, <1>6
<1> QED
  BY <1>1, <1>2, <1>3, <1>7, Zenon

\* Requests ask nothing of the init fields.
LEMMA SatisfiedBySettled ==
  ASSUME NEW s \in States, NEW t \in States, Settled(s) = Settled(t), NEW a \in Asks,
         Satisfied(a, s)
  PROVE  Satisfied(a, t)
<1>1. s.units = t.units /\ s.groups = t.groups /\ s.persist = t.persist /\ s.runtime = t.runtime
  BY SettledFields
<1> QED
  BY <1>1 DEF Satisfied

-----------------------------------------------------------------------------
(* The inductive invariant. *)

\* From the change to the answer, and after it, memory is as the request wants it
\* (unless its list was miscounted), and the answer does not outlive the memory.
Applied ==
  /\ pc \in {"save", "write", "publish"} \/ (pc = "idle" /\ reply = "ok")
     => Miscounted(ask) \/ Satisfied(ask, mem)
  /\ pc = "down" => reply = "none"

Inv == TypeOK /\ Durable /\ LossIsVisible /\ Applied

LEMMA LoadEmpty == \A m \in Modes : ~Load({}).init[m]
<1>1. \A m \in Modes : ~LoadInit({}, m)
  BY DEF LoadInit, Has
<1> QED BY <1>1 DEF Load

LEMMA InitInv == Init => Inv
<1> SUFFICES ASSUME Init PROVE Inv
  OBVIOUS
<1>1. file \subseteq LineSet
  <2>1. PICK G \in SUBSET Groups, v \in [Groups -> {"1", "no"}] :
          file = {Line("legacy", "both", g, v[g]) : g \in G}
    BY DEF Init
  <2>2. ASSUME NEW g \in G PROVE Line("legacy", "both", g, v[g]) \in LineSet
    BY <2>2, ConstantsAssumption DEF Line, LineSet, Values, Given
  <2> QED BY <2>1, <2>2
<1>2. EmptyState \in States
  BY DEF EmptyState, States, Values, Given
<1>3. TypeOK
  <2>1. saved \in States
    BY <1>1, LoadType DEF Init
  <2>2. ask \in Asks
    BY DEF Init, Asks, Given
  <2>3. mem \in States /\ runners \in [Modes -> SUBSET Units] /\ off \in [Modes -> SUBSET Units]
    BY <1>2 DEF Init
  <2>4. pc = "down" /\ reply = "none" /\ requests = 0 /\ dirty = FALSE /\ short = FALSE
    BY DEF Init
  <2>5. 0 \in 0 .. MaxRequests
    BY ConstantsAssumption
  <2> QED
    BY <1>1, <2>1, <2>2, <2>3, <2>4, <2>5 DEF TypeOK
<1>4. Durable /\ LossIsVisible /\ Applied
  BY DEF Init, Durable, LossIsVisible, Applied
<1> QED BY <1>3, <1>4 DEF Inv

LEMMA ChangeStep ==
  ASSUME Inv, NEW a \in Asks, NEW s \in States, Satisfied(a, s), Begin(a), Change(s),
         off' \in [Modes -> SUBSET Units]
  PROVE  Inv'
<1>1. TypeOK'
  BY ConstantsAssumption DEF Inv, TypeOK, Begin, Change, memVars, ghostVars
<1>2. Durable' /\ LossIsVisible'
  BY DEF Inv, Durable, LossIsVisible, Change, ghostVars
<1>3. Applied'
  BY DEF Applied, Begin, Change
<1> QED BY <1>1, <1>2, <1>3 DEF Inv

LEMMA NothingStep ==
  ASSUME Inv, NEW a \in Asks, Miscounted(a) \/ Satisfied(a, mem), Begin(a), NothingToDo
  PROVE  Inv'
<1>1. TypeOK'
  BY ConstantsAssumption DEF Inv, TypeOK, Begin, NothingToDo, memVars, ghostVars
<1>2. Durable' /\ LossIsVisible'
  BY DEF Inv, Durable, LossIsVisible, NothingToDo, memVars, ghostVars
<1>3. Applied'
  BY DEF Applied, Miscounted, Begin, NothingToDo, memVars
<1> QED BY <1>1, <1>2, <1>3 DEF Inv

LEMMA RunnersStep ==
  ASSUME Inv, NEW a \in Asks, a.kind \in {"runner", "runnerList"}, NEW m \in Modes,
         NEW S \in SUBSET Units, Begin(a), SetRunners(m, S)
  PROVE  Inv'
<1>1. TypeOK'
  BY ConstantsAssumption DEF Inv, TypeOK, Begin, SetRunners, ghostVars
<1>2. Durable' /\ LossIsVisible'
  BY DEF Inv, Durable, LossIsVisible, SetRunners, ghostVars
<1>3. Satisfied(a, mem)
  BY DEF Satisfied
<1>4. Applied'
  BY <1>3 DEF Applied, Begin, SetRunners
<1> QED BY <1>1, <1>2, <1>4 DEF Inv

LEMMA RequestStep == Inv /\ Request => Inv'
<1> SUFFICES ASSUME Inv, Request PROVE Inv'
  OBVIOUS
<1> USE ConstantsAssumption
<1>m. /\ mem \in States
      /\ runners \in [Modes -> SUBSET Units] /\ off \in [Modes -> SUBSET Units]
  BY DEF Inv, TypeOK
<1>1. ASSUME NEW m \in Modes, NEW u \in Units, NEW on \in BOOLEAN, SetEnabledUnit(m, u, on)
      PROVE  Inv'
  <2> DEFINE a == Ask("unit", m, {u}, Present(on))
             s == [mem EXCEPT !.init[m] = TRUE, !.units[m] = With(@, u, on)]
  <2>1. a \in Asks /\ a.kind = "unit" /\ a.mode = m /\ a.names = {u} /\ Truthy(a.val) = on
    BY <1>1 DEF Ask, Asks, Present, Given, Truthy
  <2>2. s \in States /\ s.units[m] = With(mem.units[m], u, on)
    BY <1>m, <1>1 DEF States, With
  <2>3. (u \in s.units[m]) = on
    BY <2>2, <1>1 DEF With
  <2>4. CASE (u \in mem.units[m]) = on /\ NothingToDo
    <3>1. Satisfied(a, mem)
      BY <2>1, <2>4 DEF Satisfied
    <3> QED BY <1>1, <2>1, <2>4, <3>1, NothingStep DEF SetEnabledUnit
  <2>5. CASE Change(s) /\ off' = [off EXCEPT ![m] = @ \ {u}]
    <3>1. Satisfied(a, s)
      BY <2>1, <2>3 DEF Satisfied
    <3>2. off' \in [Modes -> SUBSET Units]
      BY <1>m, <2>5
    <3> QED BY <1>1, <2>1, <2>2, <2>5, <3>1, <3>2, ChangeStep DEF SetEnabledUnit
  <2> QED BY <1>1, <2>4, <2>5 DEF SetEnabledUnit
<1>2. ASSUME NEW m \in Modes, NEW S \in SUBSET Units, ReplaceEnabledList(m, S)
      PROVE  Inv'
  <2> DEFINE a == Ask("list", m, S, "1")
             s == [mem EXCEPT !.init[m] = TRUE, !.units[m] = S]
  <2>1. a \in Asks /\ a.kind = "list" /\ a.mode = m /\ a.names = S
    BY <1>2 DEF Ask, Asks, Given
  <2>2. s \in States /\ s.units[m] = S
    BY <1>m, <1>2 DEF States
  <2>3. CASE MembershipEqual(m, S) /\ NothingToDo
    <3>1. ASSUME off[m] = {} PROVE mem.units[m] = S
      <4>1. IsFiniteSet(S) /\ mem.units[m] \in SUBSET S
        BY <1>2, <2>3, FS_Subset DEF MembershipEqual
      <4>2. Cardinality(mem.units[m]) \in Nat /\ Cardinality(off[m]) = 0
        BY <3>1, <4>1, FS_Subset, FS_CardinalityType, FS_EmptySet
      <4> QED BY <2>3, <4>1, <4>2, FS_Subset DEF MembershipEqual
    <3>2. off[m] # {} => Miscounted(a)
      BY <2>1 DEF Miscounted
    <3>3. off[m] = {} => Satisfied(a, mem)
      BY <2>1, <3>1 DEF Satisfied
    <3> QED BY <1>2, <2>1, <2>3, <3>2, <3>3, NothingStep DEF ReplaceEnabledList
  <2>4. CASE Change(s) /\ off' = [off EXCEPT ![m] = {}]
    <3>1. Satisfied(a, s)
      BY <2>1, <2>2 DEF Satisfied
    <3>2. off' \in [Modes -> SUBSET Units]
      BY <1>m, <2>4
    <3> QED BY <1>2, <2>1, <2>2, <2>4, <3>1, <3>2, ChangeStep DEF ReplaceEnabledList
  <2> QED BY <1>2, <2>3, <2>4 DEF ReplaceEnabledList
<1>3. ASSUME NEW m \in Modes, NEW g \in Groups, NEW on \in BOOLEAN, SetEnabledGroup(m, g, on)
      PROVE  Inv'
  <2> DEFINE a == Ask("group", m, {g}, Present(on))
             s == [mem EXCEPT !.init[m] = TRUE, !.groups[m] = With(@, g, on)]
  <2>1. a \in Asks /\ a.kind = "group" /\ a.mode = m /\ a.names = {g} /\ Truthy(a.val) = on
    BY <1>3 DEF Ask, Asks, Present, Given, Truthy
  <2>2. s \in States /\ s.groups[m] = With(mem.groups[m], g, on)
    BY <1>m, <1>3 DEF States, With
  <2>3. (g \in s.groups[m]) = on
    BY <2>2, <1>3 DEF With
  <2>4. CASE (g \in mem.groups[m]) = on /\ NothingToDo
    <3>1. Satisfied(a, mem)
      BY <2>1, <2>4 DEF Satisfied
    <3> QED BY <1>3, <2>1, <2>4, <3>1, NothingStep DEF SetEnabledGroup
  <2>5. CASE Change(s) /\ UNCHANGED off
    <3>1. Satisfied(a, s)
      BY <2>1, <2>3 DEF Satisfied
    <3> QED BY <1>m, <1>3, <2>1, <2>2, <2>5, <3>1, ChangeStep DEF SetEnabledGroup
  <2> QED BY <1>3, <2>4, <2>5 DEF SetEnabledGroup
<1>4. ASSUME NEW g \in Groups, NEW v \in Given, SetPersistGroup(g, v)
      PROVE  Inv'
  <2> DEFINE a == Ask("persistGroup", "both", {g}, v)
             s == [mem EXCEPT !.init = [m \in Modes |-> TRUE],
                              !.groups = [m \in Modes |-> With(@[m], g, Truthy(v))]]
  <2>1. a \in Asks /\ a.kind = "persistGroup" /\ a.names = {g} /\ a.val = v
    BY <1>4 DEF Ask, Asks, Given
  <2>2. s \in States /\ \A m \in Modes : s.groups[m] = With(mem.groups[m], g, Truthy(v))
    BY <1>m, <1>4 DEF States, With
  <2>3. \A m \in Modes : (g \in s.groups[m]) = Truthy(v)
    BY <2>2 DEF With, Truthy
  <2>4. Satisfied(a, s)
    BY <2>1, <2>3 DEF Satisfied
  <2> QED BY <1>m, <1>4, <2>1, <2>2, <2>4, ChangeStep DEF SetPersistGroup
<1>5. ASSUME NEW k \in Keys, NEW v \in Given, SetPersistent(k, v)
      PROVE  Inv'
  <2> DEFINE a == Ask("persist", "both", {k}, v)
             s == [mem EXCEPT !.persist[k] = v]
  <2>1. a \in Asks /\ a.kind = "persist" /\ a.names = {k} /\ a.val = v
    BY <1>5 DEF Ask, Asks, Given
  <2>2. s \in States /\ s.persist[k] = v
    BY <1>m, <1>5 DEF States, Values
  <2>3. Satisfied(a, s)
    BY <2>1, <2>2 DEF Satisfied
  <2> QED BY <1>m, <1>5, <2>1, <2>2, <2>3, ChangeStep DEF SetPersistent
<1>6. ASSUME NEW m \in Modes, NEW g \in Groups, NEW v \in Given, SetRuntime(m, g, v)
      PROVE  Inv'
  <2> DEFINE a == Ask("runtime", m, {g}, v)
             s == [mem EXCEPT !.runtime[m][g] = v]
  <2>1. a \in Asks /\ a.kind = "runtime" /\ a.mode = m /\ a.names = {g} /\ a.val = v
    BY <1>6 DEF Ask, Asks, Given
  <2>2. s \in States /\ s.runtime[m][g] = v
    BY <1>m, <1>6 DEF States, Values
  <2>3. Satisfied(a, s)
    BY <2>1, <2>2 DEF Satisfied
  <2> QED BY <1>m, <1>6, <2>1, <2>2, <2>3, ChangeStep DEF SetRuntime
<1>7. ASSUME NEW m \in Modes, NEW u \in Units, NEW on \in BOOLEAN, SetRunnerUnit(m, u, on)
      PROVE  Inv'
  <2> DEFINE a == Ask("runner", m, {u}, Present(on))
  <2>1. a \in Asks /\ a.kind = "runner"
    BY <1>7 DEF Ask, Asks, Present, Given
  <2>2. With(runners[m], u, on) \in SUBSET Units
    BY <1>m, <1>7 DEF With
  <2> QED BY <1>7, <2>1, <2>2, RunnersStep DEF SetRunnerUnit
<1>8. ASSUME NEW m \in Modes, NEW S \in SUBSET Units, ReplaceRunnerList(m, S)
      PROVE  Inv'
  <2> DEFINE a == Ask("runnerList", m, S, "1")
  <2>1. a \in Asks /\ a.kind = "runnerList"
    BY <1>8 DEF Ask, Asks, Given
  <2> QED BY <1>8, <2>1, RunnersStep DEF ReplaceRunnerList
<1> QED
  BY <1>1, <1>2, <1>3, <1>4, <1>5, <1>6, <1>7, <1>8 DEF Request

LEMMA SaveStep == Inv /\ Save => Inv'
<1> SUFFICES ASSUME Inv, Save PROVE Inv'
  OBVIOUS
<1>m. mem \in States /\ file \subseteq LineSet
  BY DEF Inv, TypeOK
<1>1. CASE OpenFails
  <2>1. TypeOK'
    BY <1>1 DEF Inv, TypeOK, OpenFails, SaveFailed, memVars
  <2>2. Durable' /\ LossIsVisible' /\ Applied'
    BY <1>1 DEF Inv, Durable, LossIsVisible, Applied, Miscounted, OpenFails, SaveFailed, memVars
  <2> QED BY <2>1, <2>2 DEF Inv
<1>2. CASE Open
  <2>1. TypeOK'
    BY <1>2 DEF Inv, TypeOK, Open, memVars
  <2>2. Durable' /\ Applied'
    BY <1>2 DEF Inv, Durable, Applied, Miscounted, Open, memVars
  <2>3. LossIsVisible'
    BY <1>2, LoadEmpty DEF LossIsVisible, Open
  <2> QED BY <2>1, <2>2, <2>3 DEF Inv
<1>3. CASE WriteFails
  <2>1. file' \subseteq LineSet /\ short' \in BOOLEAN
    BY <1>3, <1>m, LinesType, ShortWritesType DEF WriteFails
  <2>2. TypeOK'
    BY <1>3, <2>1 DEF Inv, TypeOK, WriteFails, SaveFailed, memVars
  <2>3. Durable' /\ Applied'
    BY <1>3 DEF Inv, Durable, Applied, Miscounted, WriteFails, SaveFailed, memVars
  <2>4. LossIsVisible'
    <3>1. ~short' => file' = {}
      BY <1>3 DEF WriteFails
    <3> QED BY <3>1, LoadEmpty DEF LossIsVisible
  <2> QED BY <2>2, <2>3, <2>4 DEF Inv
<1>4. CASE Write
  <2>1. Settled(Load(file')) = Settled(mem)
    BY <1>4, <1>m, RoundTrip, SettledTwice DEF Write
  <2>2. TypeOK'
    BY <1>4, <1>m, LinesType DEF Inv, TypeOK, Write, memVars
  <2>3. Durable' /\ LossIsVisible'
    BY <1>4, <2>1 DEF Durable, LossIsVisible, Write, memVars
  <2>4. Applied'
    BY <1>4 DEF Inv, Applied, Miscounted, Write, memVars
  <2> QED BY <2>2, <2>3, <2>4 DEF Inv
<1>5. CASE Publish
  <2>1. TypeOK'
    BY <1>5 DEF Inv, TypeOK, Publish, memVars, ghostVars
  <2>2. Durable' /\ LossIsVisible' /\ Applied'
    BY <1>5 DEF Inv, Durable, LossIsVisible, Applied, Miscounted, Publish, memVars, ghostVars
  <2> QED BY <2>1, <2>2 DEF Inv
<1> QED BY <1>1, <1>2, <1>3, <1>4, <1>5 DEF Save

LEMMA StartStep == Inv /\ Start => Inv'
<1> SUFFICES ASSUME Inv, Start PROVE Inv'
  OBVIOUS
<1>1. Load(file) \in States
  BY LoadType DEF Inv, TypeOK
<1>2. TypeOK'
  BY <1>1 DEF Inv, TypeOK, Start, LoadOff
<1>3. Durable' /\ LossIsVisible'
  BY DEF Durable, LossIsVisible, Start
<1>4. Applied'
  BY DEF Inv, Applied, Miscounted, Start
<1> QED BY <1>2, <1>3, <1>4 DEF Inv

LEMMA CrashStep == Inv /\ Crash => Inv'
<1> SUFFICES ASSUME Inv, Crash PROVE Inv'
  OBVIOUS
<1>1. TypeOK'
  BY DEF Inv, TypeOK, Crash, memVars, ghostVars
<1>2. Durable' /\ LossIsVisible' /\ Applied'
  BY DEF Inv, Durable, LossIsVisible, Applied, Miscounted, Crash, ghostVars
<1> QED BY <1>1, <1>2 DEF Inv

LEMMA StutterStep == Inv /\ UNCHANGED vars => Inv'
BY DEF Inv, TypeOK, Durable, LossIsVisible, Applied, Miscounted, vars, memVars, ghostVars

LEMMA Invariance == Spec => []Inv
<1>1. Init => Inv
  BY InitInv
<1>2. Inv /\ [Next]_vars => Inv'
  BY RequestStep, SaveStep, StartStep, CrashStep, StutterStep DEF Next
<1> QED BY <1>1, <1>2, PTL DEF Spec

LEMMA InvKept == Inv => AckedIsKept
<1> SUFFICES ASSUME Inv, pc = "idle", reply = "ok", ~Miscounted(ask)
             PROVE  Satisfied(ask, mem) /\ (~dirty => Satisfied(ask, Load(file)))
  BY DEF AckedIsKept
<1>1. Satisfied(ask, mem)
  BY DEF Inv, Applied
<1>2. mem \in States /\ Load(file) \in States /\ ask \in Asks
  BY LoadType DEF Inv, TypeOK
<1>3. ~dirty => Settled(Load(file)) = Settled(mem)
  BY DEF Inv, Durable
<1> QED BY <1>1, <1>2, <1>3, SatisfiedBySettled

-----------------------------------------------------------------------------
\* Every variable keeps its type, whatever the file is cut down to.
THEOREM TypeCorrect == Spec => []TypeOK
BY Invariance, PTL DEF Inv

\* Unless the last save failed, a restart finds what the daemon at rest holds.
THEOREM DurableCorrect == Spec => []Durable
BY Invariance, PTL DEF Inv

\* A restart finds what was saved last, or lists marked as not initialized, unless
\* a write was cut short.
THEOREM LossVisible == Spec => []LossIsVisible
BY Invariance, PTL DEF Inv

\* A request that was answered with ok is in force, and in the file unless a save
\* failed, except a list that was miscounted.
THEOREM AckedKept == Spec => []AckedIsKept
<1>1. Inv => AckedIsKept
  BY InvKept
<1> QED BY <1>1, Invariance, PTL
=============================================================================
