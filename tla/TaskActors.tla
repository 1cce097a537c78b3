----------------------------- MODULE TaskActors -----------------------------
(***************************************************************************)
(* Who may act on a task, who is copied on its instance, and who stands in *)
(* for whom: the rows of wf_process_task_actor, wf_process_cc_instance and *)
(* wf_process_surrogate under the facade's requests, kept by the SQL       *)
(* repository (sql) and by the in-memory one (mem), which get the same     *)
(* requests and are to give the same answers.                              *)
(*                                                                         *)
(* A request runs in one transaction: what it reads first it reads from a  *)
(* snapshot (seen), what it writes hits the rows as they then are.  With   *)
(* Overlap FALSE requests take turns, as they do on the event loop when    *)
(* the repository never suspends; with Overlap TRUE they are requests on   *)
(* connections of their own.                                               *)
(***************************************************************************)
EXTENDS ActorRows

CONSTANTS Requests,     \* the requests that may be under way at one time
          Overlap,      \* may requests run between the reads and writes of another
          Calls,        \* the calls requests make
          NextOperators, \* the lists tf_nextNodeOperator may hold
          Resolved,     \* the lists a node's assignee or handler may resolve to
          OldRows,      \* the actor rows an old task may hold
          Principals,   \* those who name a surrogate, as the ledger writes them
          Fields,       \* the fields a surrogate is saved with
          MaxTime, MaxRecords, MaxCalls

\* A transfer names its target and a reading its reader: the facade refuses others.
CallKinds == {"add", "transfer", "remove", "purge", "complete", "copy", "read"}
ASSUME CallsAssumption ==
    \A c \in Calls :
      /\ c.kind \in CallKinds
      /\ c.raw \in Seq(Value)
      /\ c.kind = "transfer" => c.to \in People
      /\ c.kind = "read" => c.raw # <<>>
ASSUME RowsAssumption ==
    NextOperators \subseteq Seq(Value) /\ Resolved \subseteq Seq(Value) /\ OldRows \subseteq Seq(Value)
ASSUME PrincipalsAssumption == Principals \subseteq Value \ {Blank}
ASSUME FieldsAssumption == \A f \in Fields : f.surrogate \in People \cup {Nobody}

VARIABLES sql, mem,     \* the stores: [task, rows, cc, ledger]
          fired,        \* CC_CREATE events, in order
          req,          \* req[r]: Idle, or the call and the snapshot it reads
          now,          \* the engine's clock
          ids,          \* surrogate ids given out
          calls,        \* requests made (bounds the runs)
          last          \* the last call answered, with both answers

vars == <<sql, mem, fired, req, now, ids, calls, last>>

Idle == [call |-> "none"]
NoTask == [state |-> "none", process |-> AllProcesses, history |-> <<>>, operator |-> NoValue]
NewTask(p) == [NoTask EXCEPT !.state = "doing", !.process = p]
Processes == {"p", "q"}

\* Stores of an instance whose one task is yet to come, or was created long ago.
Store(task, rows) == [task |-> task, rows |-> rows, cc |-> <<>>, ledger |-> {}]

Init ==
    /\ \/ sql = Store(NoTask, <<>>)
       \/ \E rows \in OldRows : sql = Store(NewTask("p"), rows)
    /\ mem = sql
    /\ fired = <<>>
    /\ req = [r \in Requests |-> Idle]
    /\ now = 0 /\ ids = 0 /\ calls = 0
    /\ last = [kind |-> "none"]

(***************************************************************************)
(* Checks of the facade's handlers, on the store as the handler reads it.  *)
(***************************************************************************)
Privileged == {"flow.auto", "flow.admin"}

MayTransfer(st, c) ==
    /\ st.task.state # "none"
    /\ c.operator = c.from \/ c.operator \in Privileged
    /\ st.task.state = "doing"
    /\ Contains(st.rows, Plain(c.from))
    /\ ~Contains(st.rows, Plain(c.to))

\* Seeded fault: rows are matched as they are stored.
Matching_Fault(rows, targets) == Keep(rows, {v \in Named(rows) : v \in Range(targets)})

\* The rows that match the targets by person, taken as they are stored.
Matching(rows, targets) == Keep(rows, {v \in Named(rows) : Trim(v) \in Range(targets)})

\* Seeded fault: rows that stand for nobody count as people who remain.
Remaining_Fault(rows, targets) == Keep(rows, {v \in Range(rows) : Trim(v) \notin Range(targets)})

\* The rows of other people, who stay.
Remaining(rows, targets) == Keep(rows, {v \in Named(rows) : Trim(v) \notin Range(targets)})

MayRemove(st, c) ==
    LET targets == normalize_actors(c.raw)
    IN /\ targets # <<>>
       /\ st.task.state # "none"
       /\ Contains(targets, Plain(c.operator)) \/ c.operator \in Privileged
       /\ st.task.state = "doing"
       /\ Matching(st.rows, targets) # <<>> => Remaining(st.rows, targets) # <<>>

Hop(c) == [from |-> c.from, to |-> c.to]
Transferred(task, c) == [task EXCEPT !.history = Append(@, Hop(c))]

(***************************************************************************)
(* The handlers.  An answer is [ok, st, new], new the people for whom cc   *)
(* rows were created and CC_CREATE is fired.  Over SQL the checks and      *)
(* aggregates come from the snapshot "seen", writes go to the rows "st".   *)
(***************************************************************************)
Ok(st) == [ok |-> TRUE, st |-> st, new |-> <<>>]
Refused(st) == [ok |-> FALSE, st |-> st, new |-> <<>>]

SqlTaskAddActor(c, seen, st) ==
    IF normalize_actors(c.raw) = <<>> THEN Refused(st)
    ELSE Ok([st EXCEPT !.rows = SqlAddTaskActor(@, seen.rows, c.raw)])
MemTaskAddActor(c, st) ==
    IF normalize_actors(c.raw) = <<>> THEN Refused(st)
    ELSE Ok([st EXCEPT !.rows = MemAddTaskActor(@, c.raw)])

\* Seeded fault: the aggregate keeps the actors it was loaded with.
Synced_Fault(rows, c) == rows

\* The actors transfer puts into the aggregate it stores.
Synced(rows, c) == Append(Without(rows, {Plain(c.from)}), Plain(c.to))

\* "look" is what the SELECT of add_task_actor meets: the snapshot or the rows as
\* they are, either way without what this transaction deleted.
SqlTransfer(c, seen, st, look) ==
    IF ~MayTransfer(seen, c) THEN Refused(st)
    ELSE LET Left(rows) == SqlRemoveTaskActor(rows, <<Plain(c.from)>>)
         IN Ok(SqlUpdateTask([st EXCEPT !.rows = SqlAddTaskActor(Left(@), Left(look.rows), <<Plain(c.to)>>)],
                             Transferred(seen.task, c)))
MemTransfer(c, st) ==
    IF ~MayTransfer(st, c) THEN Refused(st)
    ELSE LET rows == MemAddTaskActor(MemRemoveTaskActor(st.rows, <<Plain(c.from)>>), <<Plain(c.to)>>)
         IN Ok(MemUpdateTask([st EXCEPT !.rows = rows], Transferred(st.task, c), Synced(st.rows, c)))

SqlRemove(c, seen, st) ==
    IF ~MayRemove(seen, c) THEN Refused(st)
    ELSE Ok([st EXCEPT !.rows = SqlRemoveTaskActor(@, Matching(seen.rows, normalize_actors(c.raw)))])
MemRemove(c, st) ==
    IF ~MayRemove(st, c) THEN Refused(st)
    ELSE Ok([st EXCEPT !.rows = MemRemoveTaskActor(@, Matching(@, normalize_actors(c.raw)))])

\* An actor completes the task; the rest of the engine's work is Engine's.
MayComplete(st, c) ==
    st.task.state = "doing" /\ (c.operator \in Privileged \/ Contains(st.rows, Plain(c.operator)))
Completed(task, c) == [task EXCEPT !.state = "done", !.operator = Plain(c.operator)]
SqlComplete(c, seen, st) ==
    IF MayComplete(seen, c) THEN Ok(SqlUpdateTask(st, Completed(seen.task, c))) ELSE Refused(st)
MemComplete(c, st) ==
    IF MayComplete(st, c) THEN Ok(MemUpdateTask(st, Completed(st.task, c), st.rows)) ELSE Refused(st)

\* The one way to a cc row: the facade's handler, and the engine's at a start and
\* at a submit.
SqlHandleCc(c, seen, st) ==
    LET fresh == Fresh(seen.cc, c.raw)
    IN IF normalize_actors(c.raw) = <<>> THEN Refused(st)
       ELSE [ok |-> TRUE, st |-> [st EXCEPT !.cc = SqlCreateCc(@, seen.cc, fresh)], new |-> fresh]
MemHandleCc(c, st) ==
    LET fresh == Fresh(st.cc, c.raw)
    IN IF normalize_actors(c.raw) = <<>> THEN Refused(st)
       ELSE [ok |-> TRUE, st |-> [st EXCEPT !.cc = MemCreateCc(@, fresh)], new |-> fresh]

SqlDo(c, seen, st, look) ==
    CASE c.kind = "add"      -> SqlTaskAddActor(c, seen, st)
      [] c.kind = "transfer" -> SqlTransfer(c, seen, st, look)
      [] c.kind = "remove"   -> SqlRemove(c, seen, st)
      [] c.kind = "purge"    -> Ok([st EXCEPT !.rows = SqlRemoveTaskActor(@, c.raw)])
      [] c.kind = "complete" -> SqlComplete(c, seen, st)
      [] c.kind = "copy"     -> SqlHandleCc(c, seen, st)
      [] c.kind = "read"     -> Ok([st EXCEPT !.cc = SqlUpdateCcStatus(@, c.raw[1])])

MemDo(c, st) ==
    CASE c.kind = "add"      -> MemTaskAddActor(c, st)
      [] c.kind = "transfer" -> MemTransfer(c, st)
      [] c.kind = "remove"   -> MemRemove(c, st)
      [] c.kind = "purge"    -> Ok([st EXCEPT !.rows = MemRemoveTaskActor(@, c.raw)])
      [] c.kind = "complete" -> MemComplete(c, st)
      [] c.kind = "copy"     -> MemHandleCc(c, st)
      [] c.kind = "read"     -> Ok([st EXCEPT !.cc = MemUpdateCcStatus(@, c.raw[1])])

(***************************************************************************)
(* The steps.                                                              *)
(***************************************************************************)
Quiet == \A r \in Requests : req[r] = Idle

\* A request starts and reads.
Begin(r, c) ==
    /\ sql.task.state # "none"
    /\ calls < MaxCalls
    /\ IF Overlap THEN req[r] = Idle ELSE Quiet
    /\ req' = [req EXCEPT ![r] = [call |-> c, seen |-> sql]]
    /\ calls' = calls + 1
    /\ UNCHANGED <<sql, mem, fired, now, ids, last>>

\* It writes, commits and fires its events.
Finish(r) ==
    /\ req[r] # Idle
    /\ LET c == req[r].call
           m == MemDo(c, mem)
       IN \E look \in {req[r].seen, sql} :
            LET s == SqlDo(c, req[r].seen, sql, look)
            IN /\ sql' = s.st
               /\ mem' = m.st
               /\ fired' = fired \o s.new
               /\ last' = [kind |-> c.kind, call |-> c, sqlOk |-> s.ok, memOk |-> m.ok, memNew |-> m.new = s.new]
    /\ req' = [req EXCEPT ![r] = Idle]
    /\ UNCHANGED <<now, ids, calls>>

\* _processSurrogate_save without an id and with one, update, remove.
BothLedgers(ledger) ==
    /\ sql' = [sql EXCEPT !.ledger = ledger]
    /\ mem' = [mem EXCEPT !.ledger = ledger]
    /\ calls < MaxCalls /\ calls' = calls + 1
    /\ UNCHANGED <<fired, req, now, last>>

Record(id, operator, f) ==
    [id |-> id, operator |-> operator, processName |-> f.processName, surrogate |-> f.surrogate,
     startTime |-> f.startTime, endTime |-> f.endTime, enabled |-> Enabled(f.enabled)]

SaveSurrogate(operator, f) ==
    /\ sql.task.state = "none" /\ ids < MaxRecords
    /\ ids' = ids + 1
    /\ BothLedgers(sql.ledger \cup {Record(ids + 1, operator, f)})

\* The principal changes when the request names one; "operator" is the old one when
\* it names none.
UpdateSurrogate(s, operator, f) ==
    /\ sql.task.state = "none"
    /\ BothLedgers((sql.ledger \ {s}) \cup {Record(s.id, operator, f)})
    /\ UNCHANGED ids

RemoveSurrogate(s) ==
    /\ sql.task.state = "none"
    /\ BothLedgers(sql.ledger \ {s})
    /\ UNCHANGED ids

Tick ==
    /\ sql.task.state = "none" /\ now < MaxTime
    /\ now' = now + 1
    /\ UNCHANGED <<sql, mem, fired, req, ids, calls, last>>

\* Whoever the request before named as next, normalised; failing that what the node
\* resolves to, which stays as it came.
resolve_actors(next, resolved) ==
    IF normalize_actors(next) # <<>> THEN normalize_actors(next) ELSE resolved

\* The engine creates the task: resolved actors, surrogates, then the rows.
CreateTask(next, resolved, p) ==
    /\ sql.task.state = "none"
    /\ LET base   == resolve_actors(next, resolved)
           sqlHit == [a \in Range(base) |-> SqlGetSurrogate(sql.ledger, a, p, now)]
           memHit == [a \in Range(base) |-> MemGetSurrogate(mem.ledger, a, p, now)]
       IN /\ sql' = SqlSaveTask(sql, NewTask(p), expand(base, sqlHit))
          /\ mem' = MemSaveTask(mem, NewTask(p), expand(base, memHit))
          /\ last' = [kind |-> "create", base |-> base]
    /\ UNCHANGED <<fired, req, now, ids, calls>>

Next ==
    \/ \E r \in Requests : (\E c \in Calls : Begin(r, c)) \/ Finish(r)
    \/ \E operator \in Principals, f \in Fields : SaveSurrogate(operator, f)
    \/ \E s \in sql.ledger :
         \/ \E operator \in Principals, f \in Fields : UpdateSurrogate(s, operator, f)
         \/ RemoveSurrogate(s)
    \/ \E next \in NextOperators, resolved \in Resolved, p \in Processes : CreateTask(next, resolved, p)
    \/ Tick

Spec == Init /\ [][Next]_vars

(***************************************************************************)
(* Properties.                                                             *)
(***************************************************************************)
Answered == "sqlOk" \in DOMAIN last

\* memory.py and repository/base.py promise one answer from both repositories:
\* after the same requests both hold the same task, actors in the same order, cc
\* rows and surrogates, both refuse the same requests, and every list the facade
\* asks for by owner is the same.  (_operator_arg and _parse_m_query leave out
\* blank values; an owner and a condition that name two people are README 5.)
TwinsAgree ==
    /\ sql = mem
    /\ Answered => last.sqlOk = last.memOk /\ last.memNew
    /\ \A v \in Value \ {Blank} : SqlTodo(sql, v) = MemTodo(mem, v) /\ SqlDone(sql, v) = MemDone(mem, v)
    /\ \A v \in Value \ {Blank} :
         /\ \A cond \in {NoCondition, <<v>>} : SqlCcPage(sql, v, cond) = MemCcPage(mem, v, cond)
         /\ SqlCcPage(sql, NoValue, <<v>>) = MemCcPage(mem, NoValue, <<v>>)
    /\ SqlCcPage(sql, NoValue, NoCondition) = MemCcPage(mem, NoValue, NoCondition)

\* No transfer, removal or addition through the facade leaves a task whose rows
\* name nobody (removeTaskActor: at least one stays).  Whoever stays is named, in
\* whatever form the row has; is_allowed knows the plain form only.
NeverEmptied ==
    [][last'.kind # "purge" /\ Persons(sql.rows) # {} => Persons(sql'.rows) # {}]_vars

\* A removal that reports success has removed the person in whatever form the
\* rows hold the name; a deletion straight at the repository at least the form
\* that is written today.
RemovedIsGone ==
    Answered /\ last.sqlOk =>
      /\ last.kind = "remove" =>
           Persons(sql.rows) \cap Persons(normalize_actors(last.call.raw)) = {}
      /\ last.kind = "purge" =>
           \A v \in Range(normalize_actors(last.call.raw)) : ~Contains(sql.rows, v)

\* A person is copied on an instance once, and told once: one row and one
\* CC_CREATE event each, also when the copy is asked for again, with blanks
\* around the name or twice in one request.
CopiedOnce ==
    /\ IsInjective(fired)
    /\ Len(fired) = Len(sql.cc)
    /\ \A i \in DOMAIN fired : fired[i] = sql.cc[i].actor

\* The latest record under a name, as it stands, for a process, when it is in force;
\* and the records that decide: those of the process, failing them those of all.
Word(a, name) ==
    {s \in Newest({t \in sql.ledger : t.operator = a /\ t.processName = name}) : is_effective(s, a, now)}
Deciding(a) == IF Word(a, sql.task.process) # {} THEN Word(a, sql.task.process) ELSE Word(a, AllProcesses)

\* A new task belongs to those it was resolved to, as they were named, and to the
\* surrogates the latest records under those names give: the latest of the process
\* decides, and only when it is not in force the latest for all processes.  Records
\* that came before the latest count for nothing, and a surrogate brings no
\* surrogate of its own.  (A name with blanks around it finds only the records
\* written in the same form.)
LatestWordDecides ==
    last.kind = "create" =>
      Range(sql.rows) = Range(last.base)
                        \cup {Plain(s.surrogate) : s \in UNION {Deciding(a) : a \in Range(last.base)}}
=============================================================================
