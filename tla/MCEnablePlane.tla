--------------------------- MODULE MCEnablePlane ----------------------------
(* EnablePlane with two units, of which the first wants the second, and a   *)
(* group that holds the second.                                             *)
EXTENDS EnablePlane

MCWants == [u \in Units |-> IF u = "u" THEN {"v"} ELSE {}]
MCMembers == [g \in Groups |-> {"v"}]
MCRank == [g \in Groups |-> 1]
=============================================================================
