------------------------------- MODULE Consult -------------------------------
(***************************************************************************)
(* What the collect mode (jeeflow/collect.py) promises: the host of a node  *)
(* puts questions, each is answered or withdrawn, no answer is ever lost,   *)
(* and the host alone decides, when no question is open. Only a decision    *)
(* moves the token. A question is a pair <<host, number>>.                  *)
(***************************************************************************)
VARIABLES
  hosts,      \* hosts that have not decided
  open,       \* questions put and not yet answered
  answered,
  decided,    \* hosts that have
  moved       \* hosts whose decision moved the token

vars == <<hosts, open, answered, decided, moved>>

Of(h, questions) == {q \in questions : q[1] = h}

Init == hosts = {} /\ open = {} /\ answered = {} /\ decided = {} /\ moved = {}

Arrive(h) ==
  /\ h \notin hosts \cup decided
  /\ hosts' = hosts \cup {h}
  /\ UNCHANGED <<open, answered, decided, moved>>

Ask(h) ==
  /\ h \in hosts
  /\ open \subseteq open' /\ open' # open
  /\ \A q \in open' \ open : q[1] = h /\ q \notin answered
  /\ UNCHANGED <<hosts, answered, decided, moved>>

Answer(q) ==
  /\ q \in open /\ q[1] \in hosts
  /\ open' = open \ {q} /\ answered' = answered \cup {q}
  /\ UNCHANGED <<hosts, decided, moved>>

Revoke(h) ==
  /\ h \in hosts /\ Of(h, open) # {}
  /\ open' = open \ Of(h, open)
  /\ UNCHANGED <<hosts, answered, decided, moved>>

Decide(h) ==
  /\ h \in hosts /\ Of(h, open) = {}
  /\ hosts' = hosts \ {h} /\ decided' = decided \cup {h}
  /\ moved' = moved \/ moved' = moved \cup {h}
  /\ UNCHANGED <<open, answered>>

Next ==
  \/ \E h \in hosts' : Arrive(h)
  \/ \E h \in hosts : Ask(h) \/ Revoke(h) \/ Decide(h)
  \/ \E q \in open : Answer(q)

Spec == Init /\ [][Next]_vars
=============================================================================
