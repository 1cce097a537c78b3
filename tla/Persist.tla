------------------------------- MODULE Persist -------------------------------
(***************************************************************************)
(* The business row of an instance (persist.PersistPostInterceptor with a  *)
(* JdbcDynamicTableWriter), written in the transactions of TxScope.  The   *)
(* flow is apply -> check -> end, with a decision before apply or not; the *)
(* post interceptor runs when a task is completed and after every other    *)
(* node has been executed.                                                 *)
(*                                                                         *)
(* A form is a function from fields to values, Absent where the field was  *)
(* not sent.  A row of the table is [form, cols], cols the columns the     *)
(* nodes' states are written to.                                           *)
(***************************************************************************)
EXTENDS TxScope

CONSTANTS Fields,
          MayEdit,      \* the fields that may be edited at a task
          Calls,        \* the calls requests make
          InitialCall,  \* the start an instance may already have had
          Setups        \* [mode, wired, gate]

Tasks == <<"apply", "check">>
NodeNames == Range(Tasks) \cup {"gate", "end"}
Absent == 0
Nothing == [f \in Fields |-> Absent]

SubmitTypes == {"apply", "agree", "disagree", "reject", "return"}

\* A form is sent with a start, or with a request on a task.
StartCalls == [kind : {"start"}, form : [Fields -> Nat]]
TaskCalls ==
    [kind : {"submit", "reject", "return"}, task : Range(Tasks), form : [Fields -> Nat], submitType : SubmitTypes]

ASSUME PersistAssumption ==
    /\ MayEdit \in [Range(Tasks) -> SUBSET Fields]
    /\ Calls \subseteq StartCalls \cup TaskCalls
    /\ InitialCall \in StartCalls
    /\ Setups \subseteq [mode : {"SYNC", "ARCHIVE"}, wired : BOOLEAN, gate : BOOLEAN]

VARIABLES setup,    \* persistMode, tx_conn_provider set, a decision before apply
          db,       \* committed: [inst, rows]
          mine,     \* mine[r]: what the transaction of r sees, its work included
          granted   \* granted[f]: values sent where the field may be edited

vars == <<way, pool, lock, req, faults, setup, db, mine, granted>>

NoInstance == [state |-> "none", doing |-> "none", passed |-> {}, vars |-> Nothing, submitType |-> "apply"]
NoWork == [inst |-> NoInstance, rows |-> <<>>]
NoView == [inst |-> NoInstance, rows |-> <<>>, inserts |-> FALSE]

(***************************************************************************)
(* The interceptor.                                                        *)
(***************************************************************************)
IsTask(node) == node \in Range(Tasks)

\* _merge_exec_into_instance, _extract_fields: what was sent replaces what was there.
Merge(old, new) == [f \in Fields |-> IF new[f] = Absent THEN old[f] ELSE new[f]]

\* Fields a node's declaration lets through; other nodes declare nothing.
Editable(node, form) ==
    [f \in Fields |-> IF ~IsTask(node) \/ f \in MayEdit[node] THEN form[f] ELSE Absent]

\* Seeded fault: every node writes that the instance is under way.
StateCode_Fault(node, inst) == "doing"

\* A task is passed while the instance is doing; other nodes write its state.
StateCode(node, inst) == IF IsTask(node) THEN "doing" ELSE inst.state

NewCols == [n \in NodeNames |-> "null"]

\* Seeded fault: a task that is completed inserts the row.
Exists_Fault(node, rows) == rows # <<>> /\ ~IsTask(node)

\* a_exists: sees what this transaction has written.
Exists(node, rows) == rows # <<>>

\* An UPDATE sets the columns it has data for, an INSERT fills a row of the table.
Updated(row, node, form, code) ==
    [form |-> IF IsTask(node) THEN Merge(row.form, form) ELSE row.form,
     cols |-> [row.cols EXCEPT ![node] = code]]

Inserted(form, cols) == [form |-> form, cols |-> cols]

HandleSync(node, inst, rows) ==
    LET form == Editable(node, inst.vars)
        code == StateCode(node, inst)
    IN IF Exists(node, rows) THEN [i \in DOMAIN rows |-> Updated(rows[i], node, form, code)]
       ELSE Append(rows, Inserted(form, [NewCols EXCEPT ![node] = code]))

HandleArchive(node, inst, rows) ==
    IF /\ node = "end"
       /\ inst.state = "done"
       /\ inst.submitType = "agree"
       /\ ~Exists(node, rows)
    THEN Append(rows, Inserted(inst.vars, NewCols))
    ELSE rows

post_handle(node, inst, rows) ==
    IF setup.mode = "SYNC" THEN HandleSync(node, inst, rows) ELSE HandleArchive(node, inst, rows)

(***************************************************************************)
(* The engine's actions: [ok, inst, rows] from the transaction's view.     *)
(***************************************************************************)
Refused(w) == [ok |-> FALSE, inst |-> w.inst, rows |-> w.rows]

Start(c, w) ==
    LET inst == [NoInstance EXCEPT !.state = "doing", !.doing = "apply", !.vars = c.form]
    IN [ok |-> TRUE, inst |-> inst,
        rows |-> IF setup.gate THEN post_handle("gate", inst, w.rows) ELSE w.rows]

\* Seeded fault: the form is taken as it was sent.
Filtered_Fault(node, form) == form

\* _filter_field_by_perm: fields the task does not let its actors edit are left out.
Filtered(node, form) == Editable(node, form)

Loads(c, w) == w.inst.state = "doing" /\ w.inst.doing = c.task

\* _prepare_execute_task: the task is completed, the form reaches the instance.
Prepared(c, inst) ==
    [inst EXCEPT !.vars = Merge(@, Filtered(c.task, c.form)), !.submitType = c.submitType, !.doing = "none"]

Submit(c, w) ==
    LET inst   == [Prepared(c, w.inst) EXCEPT !.passed = @ \cup {c.task}]
        passed == post_handle(c.task, inst, w.rows)
        final  == [inst EXCEPT !.state = IF c.submitType = "reject" THEN "rejected" ELSE "done"]
    IN IF ~Loads(c, w) THEN Refused(w)
       ELSE IF c.task = "apply" THEN [ok |-> TRUE, inst |-> [inst EXCEPT !.doing = "check"], rows |-> passed]
       ELSE [ok |-> TRUE, inst |-> final, rows |-> post_handle("end", final, passed)]

\* The facade's reject ends the instance without the end node.
Reject(c, w) ==
    IF ~Loads(c, w) THEN Refused(w)
    ELSE [ok |-> TRUE, inst |-> [Prepared(c, w.inst) EXCEPT !.state = "rejected"], rows |-> w.rows]

\* Back to the applicant.
ReturnToFirst(c, w) ==
    IF ~Loads(c, w) THEN Refused(w)
    ELSE [ok |-> TRUE, inst |-> [Prepared(c, w.inst) EXCEPT !.doing = "apply"], rows |-> w.rows]

Do(c, w) ==
    CASE c.kind = "start"  -> Start(c, w)
      [] c.kind = "submit" -> Submit(c, w)
      [] c.kind = "reject" -> Reject(c, w)
      [] c.kind = "return" -> ReturnToFirst(c, w)

\* The fields that count as sent by someone who may edit them.
Grants(c) == IF c.kind = "start" THEN c.form ELSE Editable(c.task, c.form)
Granted(old, c) == [f \in Fields |-> old[f] \cup {Grants(c)[f]}]

(***************************************************************************)
(* The steps: those of TxScope, with what they do to the data.             *)
(***************************************************************************)
NothingGranted == [f \in Fields |-> {}]

\* No instance yet, or one that was started before.
Init ==
    /\ TxInit
    /\ setup \in Setups
    /\ \/ /\ db = NoWork
          /\ granted = NothingGranted
       \/ /\ LET started == Start(InitialCall, NoWork) IN db = [inst |-> started.inst, rows |-> started.rows]
          /\ granted = Granted(NothingGranted, InitialCall)
    /\ mine = [r \in Requests |-> NoView]

\* The instance is started once; only then can a request name a task of it.
Receive(r) ==
    /\ \E c \in Calls : (c.kind = "start") = (db.inst.state = "none") /\ Begin(r, c)
    /\ UNCHANGED <<setup, db, mine, granted>>

\* What a transaction reads is what was committed when it began.
OpenTx(r) ==
    /\ BeginTx(r)
    /\ mine' = [mine EXCEPT ![r] = [inst |-> db.inst, rows |-> db.rows, inserts |-> FALSE]]
    /\ UNCHANGED <<setup, db, granted>>

\* The action.  A writer that is not wired to the transaction commits its rows
\* by itself.
Act(r) ==
    /\ req[r].pc = "body"
    /\ LET c == req[r].call
           view == IF setup.wired THEN mine[r] ELSE [mine[r] EXCEPT !.rows = db.rows]
           done == Do(c, view)
       IN /\ req' = [req EXCEPT ![r].pc = IF done.ok THEN "acted" ELSE "leave", ![r].ok = done.ok]
          /\ mine' = [mine EXCEPT ![r] = [inst |-> done.inst, rows |-> done.rows, inserts |-> view.rows = <<>>]]
          /\ db' = IF setup.wired THEN db ELSE [db EXCEPT !.rows = done.rows]
          /\ granted' = IF done.ok THEN Granted(granted, c) ELSE granted
    /\ UNCHANGED <<way, pool, lock, faults, setup>>

\* The work reaches the database.  Rows of overlapping transactions add up:
\* the table has no unique key.
Committed(r) ==
    [inst |-> mine[r].inst,
     rows |-> IF ~setup.wired THEN db.rows
              ELSE IF mine[r].inserts THEN db.rows \o mine[r].rows
              ELSE mine[r].rows]

Forget(r) == mine' = [mine EXCEPT ![r] = NoView]

CommitTx(r) ==
    /\ Commit(r)
    /\ db' = Committed(r)
    /\ Forget(r)
    /\ UNCHANGED <<setup, granted>>

CommitTxFails(r) ==
    /\ CommitFails(r)
    /\ db' \in {db, Committed(r)}
    /\ Forget(r)
    /\ UNCHANGED <<setup, granted>>

RollbackTx(r) ==
    /\ Rollback(r)
    /\ Forget(r)
    /\ UNCHANGED <<setup, db, granted>>

\* Steps that leave the data alone.
Quietly(r) ==
    \/ Lock(r) \/ BeginFails(r) \/ Join(r) \/ RunAfterCommit(r) \/ Answer(r)
    \/ Unlock(r) \/ LeaveJoined(r) \/ Fire(r) \/ Fired(r) \/ End(r)

Goes(r) ==
    \/ OpenTx(r) \/ Act(r) \/ CommitTx(r) \/ CommitTxFails(r) \/ RollbackTx(r)
    \/ Quietly(r) /\ UNCHANGED <<setup, db, mine, granted>>

Next == \E r \in Requests : Receive(r) \/ Goes(r)

\* The event loop runs whatever can run, the database answers, and a lock or a
\* connection that is free goes to the one who waits for it.
Spec == Init /\ [][Next]_vars /\ \A r \in Requests : WF_vars(Goes(r))

(***************************************************************************)
(* Properties.                                                             *)
(***************************************************************************)
\* An instance has one business row at most, also when a submit is repeated,
\* overlaps another, or comes again after a failure (process_instance_id is not
\* unique in the table; a_exists is all that keeps rows apart).
OneBusinessRow == Len(db.rows) <= 1

\* A value that was only ever sent where the field is read-only or hidden is in
\* no business row, not by way of the instance's variables and a later node
\* either (engine._filter_field_by_perm, persist._is_editable).
RefusedNeverStored ==
    \A i \in DOMAIN db.rows, f \in Fields :
      db.rows[i].form[f] # Absent => db.rows[i].form[f] \in granted[f]

\* A row tells what was committed, neither less nor more: in SYNC mode a task's
\* column is set when the task was passed, and the end's when the flow came to its
\* end, with the state it ended in; in ARCHIVE mode there is a row when the last
\* step agreed and the instance is done.  Whatever failed on the way left nothing.
RowTellsOutcome ==
    setup.wired =>
      LET Col(n) == IF db.rows = <<>> THEN "null" ELSE Head(db.rows).cols[n]
      IN IF setup.mode = "SYNC"
         THEN /\ \A t \in Range(Tasks) : (Col(t) = "doing") = (t \in db.inst.passed)
              /\ db.inst.state = "done" => Col("end") = "done"
              /\ Col("end") \in {"null", db.inst.state}
         ELSE (db.rows # <<>>) = (db.inst.state = "done" /\ db.inst.submitType = "agree")

\* Callbacks keep the promise of with_tx (AfterCommit).
KeepsPromise == Promise!Spec

\* Every request that came is answered: it gets its turn at the lock and the
\* pool, and gives both back whatever fails; so again and again none is under way.
EveryRequestEnds == []<>(\A r \in Requests : ~Under(r))
=============================================================================
