---------------------------- MODULE VisionStream ----------------------------
(***************************************************************************)
(* What sysvisiond's /v1/watch promises a watcher: every matching event    *)
(* published while the watch is open, in the order of publication, with    *)
(* none missing and none twice.  A watcher that cannot keep up is cut off: *)
(* it still receives what was published before, and then the end of the    *)
(* stream, so that it knows it has to start over.                          *)
(***************************************************************************)
EXTENDS Naturals, Sequences

CONSTANTS
  Subs,           \* watchers
  Events,         \* what can be published
  Matches(_, _)   \* Matches(s, e): the filter of s lets e through

VARIABLES
  log,        \* everything published
  state,      \* state[s]: "off", "open", "cut" (no longer fed), "ended", "gone"
  published,  \* published[s]: the matching events since s subscribed
  received    \* received[s]: what s has got of them

streamVars == <<log, state, published, received>>

StreamInit ==
  /\ log = <<>>
  /\ state = [s \in Subs |-> "off"]
  /\ published = [s \in Subs |-> <<>>]
  /\ received = [s \in Subs |-> <<>>]

Open(s) ==
  /\ state[s] = "off"
  /\ state' = [state EXCEPT ![s] = "open"]
  /\ UNCHANGED <<log, published, received>>

\* One event, e, goes to the log.  Each open watcher it matches gets it, or is
\* cut off before it.
Publish ==
  /\ Len(log') = Len(log) + 1
  /\ LET e == log'[Len(log')]
         Gets == {s \in Subs : state[s] = "open" /\ Matches(s, e)}
     IN  /\ e \in Events
         /\ log' = Append(log, e)
         /\ \E slow \in SUBSET Gets :
              /\ state' = [s \in Subs |-> IF s \in slow THEN "cut" ELSE state[s]]
              /\ published' = [s \in Subs |-> IF s \in Gets \ slow
                                             THEN Append(published[s], e)
                                             ELSE published[s]]
  /\ UNCHANGED received

Receive(s) ==
  /\ state[s] \in {"open", "cut"}
  /\ Len(received[s]) < Len(published[s])
  /\ received' = [received EXCEPT ![s] = Append(@, published[s][Len(@) + 1])]
  /\ UNCHANGED <<log, state, published>>

\* The end of the stream: only for a watcher that was cut off, and only after
\* all that was published for it.
End(s) ==
  /\ state[s] = "cut"
  /\ received[s] = published[s]
  /\ state' = [state EXCEPT ![s] = "ended"]
  /\ UNCHANGED <<log, published, received>>

\* The watcher disconnects; what it has not received is dropped.
Leave(s) ==
  /\ state[s] \in {"open", "cut"}
  /\ state' = [state EXCEPT ![s] = "gone"]
  /\ published' = [published EXCEPT ![s] = received[s]]
  /\ UNCHANGED <<log, received>>

StreamNext ==
  \/ Publish
  \/ \E s \in Subs : Open(s) \/ Receive(s) \/ End(s) \/ Leave(s)

StreamSpec == StreamInit /\ [][StreamNext]_streamVars
=============================================================================
