---------------------------- MODULE MCSysvisiond ----------------------------
(* Finite instances of Sysvisiond for TLC: what each watcher asks for. *)
EXTENDS Sysvisiond

\* Every watcher without a unit filter, as sys-cgroupd and sys-orchestrd watch.
WatchAll == [s \in Subs |-> Units]

\* Watcher "w" asks for unit 1 only.
WatchFirst == [s \in Subs |-> IF s = "w" THEN {1} ELSE Units]
=============================================================================
