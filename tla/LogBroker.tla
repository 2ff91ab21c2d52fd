------------------------------ MODULE LogBroker ------------------------------
(***************************************************************************)
(* The connections of the log broker (cmd/sys-logd/broker.go): the loop    *)
(* that accepts workers within the limits, the goroutine that serves each, *)
(* and the shutdown, which waits for all of them.  A worker that is served *)
(* may go on sending records forever.                                      *)
(***************************************************************************)
EXTENDS Integers, FiniteSets

CONSTANTS
  Conns,      \* connections, each made once
  UidOf(_),   \* the user of a connection
  MaxTotal,   \* MaxConnections
  MaxPerUid   \* MaxConnectionsPerUID

Parameters ==
  /\ IsFiniteSet(Conns) /\ Conns \cap {"accept", "wait", "done"} = {}
  /\ MaxTotal \in Nat /\ MaxPerUid \in Nat

VARIABLES
  cancelled,  \* ctx is done
  listener,   \* it is open
  active,     \* connections the shutdown will close
  acceptor,   \* the connection in hand, or "accept", "wait", "done"
  checked,    \* the acceptor has seen that ctx is not done
  conn,       \* of each connection: see ConnStates
  total, perUid, \* brokerConnectionLimiter
  missed      \* ghost: connections registered after the shutdown looked

vars == <<cancelled, listener, active, acceptor, checked, conn, total, perUid, missed>>

\* held: a slot is taken; hello: served, no packet yet; routed: records are accepted
ConnStates == {"none", "dialed", "refused", "held", "hello", "routed", "closed", "ended"}
Uids == {UidOf(c) : c \in Conns}
Holding == {"held", "hello", "routed", "closed"}

TypeOK ==
  /\ cancelled \in BOOLEAN /\ listener \in BOOLEAN /\ checked \in BOOLEAN
  /\ active \subseteq Conns /\ missed \subseteq Conns
  /\ acceptor \in Conns \cup {"accept", "wait", "done"}
  /\ conn \in [Conns -> ConnStates]
  /\ total \in 0 .. MaxTotal /\ perUid \in [Uids -> 0 .. MaxPerUid]

Init ==
  /\ cancelled = FALSE /\ listener = TRUE /\ checked = FALSE
  /\ active = {} /\ missed = {} /\ acceptor = "accept"
  /\ conn = [c \in Conns |-> "none"]
  /\ total = 0 /\ perUid = [u \in Uids |-> 0]

Dial(c) ==
  /\ conn[c] = "none" /\ listener
  /\ conn' = [conn EXCEPT ![c] = "dialed"]
  /\ UNCHANGED <<cancelled, listener, active, acceptor, checked, total, perUid, missed>>

-----------------------------------------------------------------------------
(* runBroker's loop. *)

\* A connection is accepted, and ctx looked at; or the listener is closed.
Accept ==
  /\ acceptor = "accept"
  /\ \/ /\ listener
        /\ \E c \in Conns :
             /\ conn[c] = "dialed"
             /\ IF cancelled
                THEN acceptor' = "wait" /\ checked' = FALSE /\ conn' = [conn EXCEPT ![c] = "refused"]
                ELSE acceptor' = c /\ checked' = TRUE /\ UNCHANGED conn
     \/ \E c \in Conns : \* its credentials cannot be read
          conn[c] = "dialed" /\ conn' = [conn EXCEPT ![c] = "refused"] /\ UNCHANGED <<acceptor, checked>>
     \/ /\ ~listener
        /\ acceptor' = "wait"
        /\ UNCHANGED <<checked, conn>>
  /\ UNCHANGED <<cancelled, listener, active, total, perUid, missed>>

\* Acquire
Admits(u) == total < MaxTotal /\ perUid[u] < MaxPerUid

Acquire ==
  /\ acceptor \in Conns /\ checked
  /\ LET u == UidOf(acceptor) IN
     \/ /\ Admits(u)
        /\ total' = total + 1 /\ perUid' = [perUid EXCEPT ![u] = @ + 1]
        /\ conn' = [conn EXCEPT ![acceptor] = "held"]
        /\ UNCHANGED acceptor
     \/ /\ ~Admits(u)
        /\ conn' = [conn EXCEPT ![acceptor] = "refused"]
        /\ acceptor' = "accept"
        /\ UNCHANGED <<total, perUid>>
  /\ checked' = FALSE
  /\ UNCHANGED <<cancelled, listener, active, missed>>

\* The connection becomes active, and is served.
Register ==
  /\ acceptor \in Conns /\ ~checked
  /\ active' = active \cup {acceptor}
  /\ conn' = [conn EXCEPT ![acceptor] = "hello"]
  /\ missed' = IF listener THEN missed ELSE missed \cup {acceptor}
  /\ acceptor' = "accept"
  /\ UNCHANGED <<cancelled, listener, checked, total, perUid>>

\* workers.Wait
Return ==
  /\ acceptor = "wait" /\ \A c \in Conns : conn[c] \notin Holding
  /\ acceptor' = "done"
  /\ UNCHANGED <<cancelled, listener, active, checked, conn, total, perUid, missed>>

-----------------------------------------------------------------------------
(* Shutdown. *)

Cancel ==
  /\ ~cancelled
  /\ cancelled' = TRUE
  /\ UNCHANGED <<listener, active, acceptor, checked, conn, total, perUid, missed>>

CloseListener ==   \* faulty variant: connections are left open
  /\ cancelled /\ listener
  /\ listener' = FALSE
  /\ UNCHANGED <<cancelled, active, acceptor, checked, conn, total, perUid, missed>>

\* The listener and the active connections are closed.
CloseAll ==
  /\ cancelled /\ listener
  /\ listener' = FALSE
  /\ conn' = [c \in Conns |-> IF c \in active THEN "closed" ELSE conn[c]]
  /\ UNCHANGED <<cancelled, active, acceptor, checked, total, perUid, missed>>

-----------------------------------------------------------------------------
(* serveBrokerConnection. *)

\* The hello; the route of the peer is resolved (see ResolvePeerRoute), once.
Hello(c) ==
  /\ conn[c] = "hello"
  /\ conn' = [conn EXCEPT ![c] = "routed"]
  /\ UNCHANGED <<cancelled, listener, active, acceptor, checked, total, perUid, missed>>

\* A bad packet, no route, a journal that fails, a timeout, or the peer's end.
Drop(c) ==
  /\ conn[c] \in {"hello", "routed"}
  /\ conn' = [conn EXCEPT ![c] = "closed"]
  /\ UNCHANGED <<cancelled, listener, active, acceptor, checked, total, perUid, missed>>

\* The goroutine ends: its deferred calls.
Release(c) ==
  /\ conn[c] = "closed"
  /\ conn' = [conn EXCEPT ![c] = "ended"]
  /\ active' = active \ {c}
  /\ total' = total - 1 /\ perUid' = [perUid EXCEPT ![UidOf(c)] = @ - 1]
  /\ UNCHANGED <<cancelled, listener, acceptor, checked, missed>>

-----------------------------------------------------------------------------
Next ==
  \/ \E c \in Conns : Dial(c) \/ Hello(c) \/ Drop(c) \/ Release(c)
  \/ Accept \/ Acquire \/ Register \/ Return \/ Cancel \/ CloseAll

Fairness ==
  /\ WF_vars(Accept) /\ WF_vars(Acquire) /\ WF_vars(Register) /\ WF_vars(Return)
  /\ WF_vars(CloseAll) /\ \A c \in Conns : WF_vars(Release(c))
Spec == Init /\ [][Next]_vars /\ Fairness

(* The counts of the limiter are those of the connections that hold a slot,  *)
(* whichever way they ended: none is leaked, so none is refused for nothing. *)
SlotsExact ==
  /\ total = Cardinality({c \in Conns : conn[c] \in Holding})
  /\ \A u \in Uids : perUid[u] = Cardinality({c \in Conns : conn[c] \in Holding /\ UidOf(c) = u})

Returned == acceptor = "done" \/ missed # {}

(* runBroker returns when it is told to, although its workers would go on.   *)
(* Excepted is a connection that was admitted before, and registered after,  *)
(* the shutdown closed the active ones: it keeps the broker until it ends.   *)
ShutdownEnds == cancelled ~> Returned
=============================================================================
