------------------------------ MODULE InstanceTx ------------------------------
(***************************************************************************)
(* Requests that interleave on one instance over a SQL repository.          *)
(*                                                                         *)
(* execute_process_task (jeeflow/engine.py) takes instance_lock and then   *)
(* opens its transaction; called through JeeflowFacade.flow it joins the    *)
(* transaction flow() has opened, so there the lock lies inside it. Every   *)
(* await may let another request run. The facade's withdraw takes no lock. *)
(*                                                                         *)
(* The flow is start -> fork -> (one task per branch) -> join -> end, with  *)
(* all branches open; Engine has the other flows, one request at a time.   *)
(* The database is external: a transaction reads from the snapshot of its  *)
(* first statement (MySQL) or the latest committed state (PostgreSQL), a   *)
(* write waits for the transaction that wrote the same row before it, and  *)
(* of transactions that wait for one another in a circle one is aborted.   *)
(***************************************************************************)
EXTENDS Naturals, FiniteSets

CONSTANTS
  Branch,
  Request,
  Target,     \* [Request -> Branch \cup {"inst"}]: the row it executes, "inst" to withdraw
  Owner,      \* who opens the transaction: "engine" or "facade"
  Isolation,  \* "snapshot" or "committed"
  None        \* no request

Item == Branch \cup {"inst"}

ASSUME TxAssumption ==
  /\ "inst" \notin Branch /\ IsFiniteSet(Branch)
  /\ Target \in [Request -> Item]
  /\ Owner \in {"engine", "facade"}
  /\ Isolation \in {"snapshot", "committed"}
  /\ None \notin Request

VARIABLES
  db,      \* the committed instance state and task states
  lock,    \* holder of the instance lock
  pc,      \* how far each request is
  snap,    \* committed state at the begin of its transaction
  copy,    \* the aggregate it has loaded (inst.state, inst.tasks)
  writes   \* what it has written and not yet committed, by item

vars == <<db, lock, pc, snap, copy, writes>>

Withdraws(r) == Target[r] = "inst"
View(r) == IF Isolation = "snapshot" THEN snap[r] ELSE db

NoWrites == [i \in {} |-> "doing"]
Written(r) == DOMAIN writes[r]

Goto(r, l) == pc' = [pc EXCEPT ![r] = l]

\* An UPDATE of one row: it needs the row lock, and the rows of one statement
\* loop are locked one by one (in id order, which is left open here).
Write(r, i, v) ==
  /\ \A q \in Request \ {r} : i \notin Written(q)
  /\ writes' = [writes EXCEPT ![r] = [j \in Written(r) \cup {i} |-> IF j = i THEN v ELSE @[j]]]

-----------------------------------------------------------------------------
(* The steps of a request. A definition named after a fault is that fault  *)
(* seeded into the definition after it; the model does not use it.         *)

Lock_NotTaken(r) ==
  /\ ~Withdraws(r)
  /\ \/ Owner = "engine" /\ pc[r] = "idle" /\ Goto(r, "called")
     \/ Owner = "facade" /\ pc[r] = "called" /\ Goto(r, "begun")
  /\ UNCHANGED <<db, lock, snap, copy, writes>>
Lock(r) ==
  /\ ~Withdraws(r)
  /\ lock = None
  /\ lock' = r
  /\ \/ Owner = "engine" /\ pc[r] = "idle" /\ Goto(r, "called")
     \/ Owner = "facade" /\ pc[r] = "called" /\ Goto(r, "begun")
  /\ UNCHANGED <<db, snap, copy, writes>>

\* Both owners read the row (facade: _gate_dynamic_countersign and _pre) right after
\* the begin, which is what fixes a snapshot.
Begin(r) ==
  /\ \/ Withdraws(r) /\ pc[r] = "idle" /\ Goto(r, "begun")
     \/ ~Withdraws(r) /\ Owner = "engine" /\ pc[r] = "called" /\ Goto(r, "begun")
     \/ ~Withdraws(r) /\ Owner = "facade" /\ pc[r] = "idle" /\ Goto(r, "called")
  /\ snap' = [snap EXCEPT ![r] = db]
  /\ UNCHANGED <<db, lock, copy, writes>>

\* _load_and_check reads its row first and then the aggregate, withdraw reads the
\* instance first and then the rows; what is read first must be doing.
Check(r) ==
  /\ pc[r] = "begun"
  /\ IF View(r)[Target[r]] = "doing"
     THEN copy' = [copy EXCEPT ![r][Target[r]] = "doing"] /\ Goto(r, "checked")
     ELSE Goto(r, "failing") /\ UNCHANGED copy
  /\ UNCHANGED <<db, lock, snap, writes>>

Load(r) ==
  /\ pc[r] = "checked"
  /\ copy' = [copy EXCEPT ![r] = [View(r) EXCEPT ![Target[r]] = copy[r][Target[r]]]]
  /\ Goto(r, "loaded")
  /\ UNCHANGED <<db, lock, snap, writes>>

\* complete_task, update_task; the aggregate's copy of the row follows it.
SaveRow(r) ==
  /\ pc[r] = "loaded" /\ ~Withdraws(r)
  /\ Write(r, Target[r], "done")
  /\ copy' = [copy EXCEPT ![r][Target[r]] = "done"]
  /\ Goto(r, "saved")
  /\ UNCHANGED <<db, lock, snap>>

\* update_instance stores the instance row and then every task of the aggregate.
SaveInstance(r) ==
  /\ pc[r] = "saved"
  /\ Write(r, "inst", copy[r]["inst"])
  /\ Goto(r, "cascading")
  /\ UNCHANGED <<db, lock, snap, copy>>

Cascade(r) ==
  /\ pc[r] = "cascading"
  /\ \E b \in Branch \ Written(r) : Write(r, b, copy[r][b])
  /\ UNCHANGED <<db, lock, pc, snap, copy>>

\* merge_ready on the aggregate, then the end node's finish and update_instance.
PassJoin(r) ==
  /\ pc[r] = "cascading" /\ Written(r) = Item
  /\ IF \A b \in Branch : copy[r][b] # "doing"
     THEN Write(r, "inst", "finished") ELSE UNCHANGED writes
  /\ Goto(r, "ended")
  /\ UNCHANGED <<db, lock, snap, copy>>

\* The facade's withdraw stores the rows it withdraws and then the instance; its
\* cascade rewrites the same rows.
OpenRows(r) == {b \in Branch : copy[r][b] = "doing"}
WithdrawRow(r) ==
  /\ pc[r] = "loaded" /\ Withdraws(r)
  /\ \E b \in OpenRows(r) \ Written(r) : Write(r, b, "withdrawn")
  /\ UNCHANGED <<db, lock, pc, snap, copy>>
WithdrawInstance(r) ==
  /\ pc[r] = "loaded" /\ Withdraws(r) /\ OpenRows(r) \subseteq Written(r)
  /\ Write(r, "inst", "withdrawn")
  /\ Goto(r, "ended")
  /\ UNCHANGED <<db, lock, snap, copy>>

\* A statement fails, a lock wait times out, the request is cancelled.
InTx(r) ==
  \/ pc[r] \in {"begun", "checked", "loaded", "saved", "cascading", "ended"}
  \/ pc[r] = "called" /\ Owner = "facade"
Fail(r) ==
  /\ InTx(r)
  /\ Goto(r, "failing")
  /\ UNCHANGED <<db, lock, snap, copy, writes>>

\* The database aborts one of the transactions of a circle of row-lock waits. Of
\* the instance lock it knows nothing.
Wanted(r) ==
  CASE pc[r] = "loaded" /\ ~Withdraws(r) -> {Target[r]}
    [] pc[r] = "loaded" /\ Withdraws(r) ->
         IF OpenRows(r) \subseteq Written(r) THEN {"inst"} ELSE OpenRows(r) \ Written(r)
    [] pc[r] = "saved" -> {"inst"}
    [] pc[r] = "cascading" -> Branch \ Written(r)
    [] OTHER -> {}
Circle(waiting) ==
  \A r \in waiting :
    /\ Wanted(r) # {}
    /\ \A i \in Wanted(r) : \E q \in waiting \ {r} : i \in Written(q)
Abort(r) ==
  /\ \E waiting \in SUBSET Request : r \in waiting /\ Circle(waiting)
  /\ Goto(r, "failing")
  /\ UNCHANGED <<db, lock, snap, copy, writes>>

\* Both end the transaction; the facade's lies outside the lock.
Outside(r) == Owner = "facade" => lock # r
Commit(r) ==
  /\ pc[r] = "ended" /\ Outside(r)
  /\ db' = [i \in Item |-> IF i \in Written(r) THEN writes[r][i] ELSE db[i]]
  /\ writes' = [writes EXCEPT ![r] = NoWrites]
  /\ Goto(r, "committed")
  /\ UNCHANGED <<lock, snap, copy>>
Rollback(r) ==
  /\ pc[r] = "failing" /\ Outside(r)
  /\ writes' = [writes EXCEPT ![r] = NoWrites]
  /\ Goto(r, "failed")
  /\ UNCHANGED <<db, lock, snap, copy>>

Unlock_BeforeCommit(r) ==
  /\ lock = r
  /\ pc[r] \in {"ended", "failing", "failed"}
  /\ lock' = None
  /\ UNCHANGED <<db, pc, snap, copy, writes>>
Unlock_OnSuccess(r) ==
  /\ lock = r
  /\ pc[r] = "committed"
  /\ lock' = None
  /\ UNCHANGED <<db, pc, snap, copy, writes>>
Unlock(r) ==
  /\ lock = r
  /\ pc[r] \in IF Owner = "engine" THEN {"committed", "failed"} ELSE {"ended", "failing"}
  /\ lock' = None
  /\ UNCHANGED <<db, pc, snap, copy, writes>>

-----------------------------------------------------------------------------
Init ==
  /\ db = [i \in Item |-> "doing"]
  /\ lock = None
  /\ pc = [r \in Request |-> "idle"]
  /\ snap = [r \in Request |-> db]
  /\ copy = [r \in Request |-> db]
  /\ writes = [r \in Request |-> NoWrites]

\* What a request goes on to do by itself, failures aside.
Proceed(r) ==
  \/ Lock(r)
  \/ Begin(r)
  \/ Check(r)
  \/ Load(r)
  \/ SaveRow(r)
  \/ SaveInstance(r)
  \/ Cascade(r)
  \/ PassJoin(r)
  \/ WithdrawRow(r)
  \/ WithdrawInstance(r)
  \/ Abort(r)
  \/ Commit(r)
  \/ Rollback(r)
  \/ Unlock(r)

Next == \E r \in Request : Proceed(r) \/ Fail(r)

Spec == Init /\ [][Next]_vars

\* The event loop runs every coroutine that can go on, and the database answers
\* a statement once no other transaction holds the row it writes, or aborts it.
FairSpec == Spec /\ \A r \in Request : WF_vars(Proceed(r))

-----------------------------------------------------------------------------
(* Properties.                                                             *)

\* The rows and the instance state committed by interleaved requests are what the
\* same requests would have committed one after the other (instance_lock's
\* "serialised per instance").
Atomic == INSTANCE InstanceAtomic WITH inst <- db["inst"], task <- [b \in Branch |-> db[b]]
Serialised == Atomic!Spec

\* A row is completed by at most one request, however often it is submitted.
CompletedOnce ==
  \A r, q \in Request : r # q /\ Target[r] = Target[q] => ~(pc[r] = "committed" /\ pc[q] = "committed")

\* A committed vote is never taken back by a request that loaded the rows earlier.
VotesKept == [][\A b \in Branch : db[b] = "done" => db'[b] = "done"]_db

\* Every request is answered, and leaves the lock free: the lock, the row locks of
\* the database and the two orders they are taken in never stop one another.
AllAnswered == \A r \in Request : <>(pc[r] \in {"committed", "failed"} /\ lock # r)
=============================================================================
