------------------------------- MODULE TxScope -------------------------------
(***************************************************************************)
(* One request's way through the two things it enters and leaves like      *)
(* nested "with" blocks: the instance lock (reapply.instance_lock) and the *)
(* transaction (JdbcRepository.with_tx).  Through the facade the           *)
(* transaction is entered first, then the lock, then with_tx again, which  *)
(* joins; a program that calls the engine itself enters the lock first.    *)
(* Callbacks handed over inside run when the outermost with_tx has         *)
(* committed and given its connection back.                                *)
(*                                                                         *)
(* Requests are numbered and each is made once.  Faults of the database    *)
(* (BEGIN, COMMIT and ROLLBACK that raise) are bounded by MaxFaults.       *)
(***************************************************************************)
EXTENDS Integers, SequencesExt

CONSTANTS MaxRequests,
          Connections,      \* the size of the pool
          PerRequest,       \* callbacks one request may hand over
          Overlap,          \* the ways in which requests on the instance may overlap
          AtOnce,           \* how many may
          MaxFaults

ASSUME TxScopeAssumption == MaxRequests \in Nat /\ PerRequest \in Nat

Requests == 1..MaxRequests
Callbacks == Requests \X (1..PerRequest)
Nobody == 0

VARIABLES way,      \* "facade" or "engine"
          pool,     \* free connections
          lock,     \* the request that holds the instance lock, or Nobody
          req,      \* req[r]: [pc, call, at, ok, cbs, given, ran]
          faults

txVars == <<way, pool, lock, req, faults>>

NewReq == [pc |-> "idle", call |-> [kind |-> "none"], at |-> 0, ok |-> TRUE, cbs |-> <<>>, given |-> 0,
           ran |-> {}]

TxInit ==
    /\ way \in {"facade", "engine"}
    /\ pool = Connections
    /\ lock = Nobody
    /\ req = [r \in Requests |-> NewReq]
    /\ faults = 0

(***************************************************************************)
(* What a call enters, outermost first.                                    *)
(***************************************************************************)
Locking == {"submit", "return"}     \* execute, jump to the first task
Blocks(c) ==
    LET engine == IF c.kind \in Locking THEN <<"lock", "tx">> ELSE <<"tx">>
    IN IF way = "facade" THEN <<"tx">> \o engine ELSE engine

Entered(r) == SubSeq(Blocks(req[r].call), 1, req[r].at)
InTx(r) == Contains(Entered(r), "tx")
Under(r) == req[r].pc \notin {"idle", "over"}

\* Seeded fault: every with_tx counts as the outermost one.
Outermost_Fault(r) == Last(Entered(r)) = "tx"

\* with_tx is the outermost when no connection is bound yet.
Outermost(r) ==
    /\ Last(Entered(r)) = "tx"
    /\ ~Contains(Front(Entered(r)), "tx")

Fault == faults < MaxFaults /\ faults' = faults + 1

Begin(r, c) ==
    /\ req[r].pc = "idle"
    /\ \A q \in Requests : q < r => req[q].pc # "idle"
    /\ Cardinality({q \in Requests : Under(q)}) < AtOnce
    /\ \A q \in Requests \ {r} :
         Under(q) => way \in Overlap /\ {c.kind, req[q].call.kind} \subseteq Locking
    /\ req' = [req EXCEPT ![r].pc = "enter", ![r].call = c]
    /\ UNCHANGED <<way, pool, lock, faults>>

(***************************************************************************)
(* Entering.                                                               *)
(***************************************************************************)
Step(r) == Blocks(req[r].call)[req[r].at + 1]
Inside(r) ==
    req' = [req EXCEPT ![r].at = @ + 1,
                       ![r].pc = IF req[r].at + 1 = Len(Blocks(req[r].call)) THEN "body" ELSE @]

Lock(r) ==
    /\ req[r].pc = "enter" /\ Step(r) = "lock"
    /\ lock = Nobody /\ lock' = r
    /\ Inside(r)
    /\ UNCHANGED <<way, pool, faults>>

\* The outermost with_tx takes a connection and begins.
BeginTx(r) ==
    /\ req[r].pc = "enter" /\ Step(r) = "tx" /\ ~InTx(r)
    /\ pool > 0 /\ pool' = pool - 1
    /\ Inside(r)
    /\ UNCHANGED <<way, lock, faults>>

\* Seeded fault: the connection of a BEGIN that fails is kept.
Returned_Fault(n) == n - 1

\* The pool after a connection was taken and given back.
Returned(n) == n

\* BEGIN raises: the connection goes back and the error goes up.
BeginFails(r) ==
    /\ req[r].pc = "enter" /\ Step(r) = "tx" /\ ~InTx(r)
    /\ pool > 0 /\ pool' = Returned(pool)
    /\ Fault
    /\ req' = [req EXCEPT ![r].pc = "leave", ![r].ok = FALSE]
    /\ UNCHANGED <<way, lock>>

\* A with_tx inside joins.
Join(r) ==
    /\ req[r].pc = "enter" /\ Step(r) = "tx" /\ InTx(r)
    /\ Inside(r)
    /\ UNCHANGED <<way, pool, lock, faults>>

(***************************************************************************)
(* Inside.                                                                 *)
(***************************************************************************)
\* run_after_commit, from a listener or an interceptor: the scope takes the
\* callback.
RunAfterCommit(r) ==
    /\ req[r].pc = "acted" /\ req[r].given < PerRequest
    /\ req' = [req EXCEPT ![r].given = @ + 1, ![r].cbs = Append(@, <<r, req[r].given + 1>>)]
    /\ UNCHANGED <<way, pool, lock, faults>>

\* The action answers, or raises.
Answer(r) ==
    /\ req[r].pc = "acted"
    /\ \E ok \in BOOLEAN : /\ req' = [req EXCEPT ![r].pc = "leave", ![r].ok = ok]
                           /\ IF ok THEN UNCHANGED faults ELSE Fault
    /\ UNCHANGED <<way, pool, lock>>

(***************************************************************************)
(* Leaving, innermost first.                                               *)
(***************************************************************************)
Outside(r) == req' = [req EXCEPT ![r].at = @ - 1]

Unlock(r) ==
    /\ req[r].pc = "leave" /\ req[r].at > 0 /\ Last(Entered(r)) = "lock"
    /\ lock' = Nobody
    /\ Outside(r)
    /\ UNCHANGED <<way, pool, faults>>

LeaveJoined(r) ==
    /\ req[r].pc = "leave" /\ req[r].at > 0 /\ Last(Entered(r)) = "tx" /\ ~Outermost(r)
    /\ Outside(r)
    /\ UNCHANGED <<way, pool, lock, faults>>

Leaves(r, ok) ==
    /\ req[r].pc = "leave" /\ req[r].at > 0 /\ Outermost(r) /\ req[r].ok = ok
    /\ pool' = pool + 1

\* COMMIT, then the connection goes back, then the callbacks have their turn.
Commit(r) ==
    /\ Leaves(r, TRUE)
    /\ req' = [req EXCEPT ![r].pc = "fire", ![r].at = @ - 1]
    /\ UNCHANGED <<way, lock, faults>>

\* COMMIT raises: the callbacks are gone with the scope.  Whether the database
\* had committed is not known here.
CommitFails(r) ==
    /\ Leaves(r, TRUE)
    /\ Fault
    /\ req' = [req EXCEPT ![r].ok = FALSE, ![r].cbs = <<>>, ![r].at = @ - 1]
    /\ UNCHANGED <<way, lock>>

\* ROLLBACK; if it raises, another error goes up and the connection goes back alike.
Rollback(r) ==
    /\ Leaves(r, FALSE)
    /\ req' = [req EXCEPT ![r].cbs = <<>>, ![r].at = @ - 1]
    /\ UNCHANGED <<way, lock, faults>>

\* The next callback runs, in a context without a transaction: it takes a
\* connection of its own.  What it raises is printed.
Fire(r) ==
    /\ req[r].pc = "fire" /\ req[r].cbs # <<>>
    /\ pool > 0
    /\ req' = [req EXCEPT ![r].cbs = Tail(@), ![r].ran = @ \cup {Head(req[r].cbs)}]
    /\ UNCHANGED <<way, pool, lock, faults>>

Fired(r) ==
    /\ req[r].pc = "fire" /\ req[r].cbs = <<>>
    /\ req' = [req EXCEPT ![r].pc = "leave", ![r].ran = {}]
    /\ UNCHANGED <<way, pool, lock, faults>>

End(r) ==
    /\ req[r].pc = "leave" /\ req[r].at = 0
    /\ req' = [req EXCEPT ![r] = [NewReq EXCEPT !.pc = "over"]]
    /\ UNCHANGED <<way, pool, lock, faults>>

(***************************************************************************)
(* The promise, and what each request looks like to it.                    *)
(***************************************************************************)
TxOf(r) ==
    IF req[r].pc = "fire" THEN "committed"
    ELSE IF InTx(r) THEN "open"
    ELSE IF req[r].pc \in {"idle", "enter"} THEN "none"
    ELSE "ended"

Promise == INSTANCE AfterCommit
           WITH tx <- [r \in Requests |-> TxOf(r)],
                queue <- [r \in Requests |-> req[r].cbs],
                ran <- [r \in Requests |-> req[r].ran]
=============================================================================
