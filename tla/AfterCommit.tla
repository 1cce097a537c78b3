----------------------------- MODULE AfterCommit -----------------------------
(***************************************************************************)
(* What with_tx and after_commit promise together (base.py, the docstring  *)
(* of with_tx): a callback handed over inside a transaction runs after the *)
(* transaction is committed, in the order the callbacks were handed over,  *)
(* once, whatever another callback does; a transaction that is not         *)
(* answered as committed runs none.                                        *)
(***************************************************************************)
EXTENDS Sequences

CONSTANTS Requests, Callbacks

VARIABLES tx,       \* tx[r]: none, open, committed, ended
          queue,    \* queue[r]: callbacks handed over and not yet run
          ran       \* ran[r]: callbacks that have run, until r is answered

vars == <<tx, queue, ran>>

Init ==
    /\ tx = [r \in Requests |-> "none"]
    /\ queue = [r \in Requests |-> <<>>]
    /\ ran = [r \in Requests |-> {}]

Open(r) ==
    /\ tx[r] = "none"
    /\ tx' = [tx EXCEPT ![r] = "open"]
    /\ UNCHANGED <<queue, ran>>

HandOver(r, k) ==
    /\ tx[r] = "open"
    /\ queue' = [queue EXCEPT ![r] = Append(@, k)]
    /\ UNCHANGED <<tx, ran>>

Commit(r) ==
    /\ tx[r] = "open"
    /\ tx' = [tx EXCEPT ![r] = "committed"]
    /\ UNCHANGED <<queue, ran>>

Run(r) ==
    /\ tx[r] = "committed" /\ queue[r] # <<>>
    /\ Head(queue[r]) \notin ran[r]
    /\ ran' = [ran EXCEPT ![r] = @ \cup {Head(queue[r])}]
    /\ queue' = [queue EXCEPT ![r] = Tail(@)]
    /\ UNCHANGED tx

\* The transaction is rolled back, its commit is not confirmed, or it never began.
Abort(r) ==
    /\ tx[r] \in {"none", "open"}
    /\ tx' = [tx EXCEPT ![r] = "ended"]
    /\ queue' = [queue EXCEPT ![r] = <<>>]
    /\ UNCHANGED ran

\* The answer is given once every callback has had its turn.
End(r) ==
    /\ tx[r] = "committed" /\ queue[r] = <<>>
    /\ tx' = [tx EXCEPT ![r] = "ended"]
    /\ ran' = [ran EXCEPT ![r] = {}]
    /\ UNCHANGED queue

Next == \E r \in Requests :
    \/ Open(r) \/ Commit(r) \/ Run(r) \/ Abort(r) \/ End(r)
    \/ \E k \in Callbacks : HandOver(r, k)

Spec == Init /\ [][Next]_vars
=============================================================================
