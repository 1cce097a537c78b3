----------------------------- MODULE ActorRows ------------------------------
(***************************************************************************)
(* One store of a task, its actor rows, the cc rows of its instance and    *)
(* the surrogate ledger, with the operations and queries of the two        *)
(* repositories on it: Sql... of repository/base.py and ext.py, Mem... of  *)
(* memory.py.  A store is [task, rows, cc, ledger].                        *)
(***************************************************************************)
EXTENDS Surrogates

NoValue == [who |-> Nobody, spaced |-> FALSE]       \* None, NULL

(***************************************************************************)
(* Actor rows.                                                             *)
(***************************************************************************)
\* save_task writes the actors of a new task.
SqlSaveTask(st, task, actorIds) == [st EXCEPT !.task = task, !.rows = actorIds]
MemSaveTask(st, task, actorIds) ==
    [st EXCEPT !.task = task, !.rows = IF actorIds = <<>> THEN @ ELSE actorIds]

\* update_task: SQL leaves the actor rows alone, memory replaces them by the
\* aggregate's actors when it has any.
SqlUpdateTask(st, task) == [st EXCEPT !.task = task]
MemUpdateTask(st, task, actorIds) ==
    [st EXCEPT !.task = task, !.rows = IF actorIds = <<>> THEN @ ELSE actorIds]

\* add_task_actor: the SQL one compares with the rows its SELECT returned.
SqlAddTaskActor(rows, existing, raw) ==
    rows \o Without(normalize_actors(raw), Range(existing))
MemAddTaskActor(rows, raw) == Merge(rows, normalize_actors(raw))

\* remove_task_actor: nothing to delete, nothing done; else every row in a form.
SqlRemoveTaskActor(rows, raw) == Without(rows, actor_delete_forms(raw))
MemRemoveTaskActor(rows, raw) ==
    IF actor_delete_forms(raw) = {} THEN rows ELSE Without(rows, actor_delete_forms(raw))

(***************************************************************************)
(* cc rows.                                                                *)
(***************************************************************************)
CcNames(cc) == [i \in DOMAIN cc |-> cc[i].actor]
CcActors(cc) == Range(CcNames(cc))
Unread(a) == [actor |-> a, read |-> FALSE]

\* Seeded fault: whoever the request names gets a row.
Fresh_Fault(cc, raw) == normalize_actors(raw)

\* create_cc_instance_if_absent: the people who have no row yet.
Fresh(cc, raw) == Without(normalize_actors(raw), CcActors(cc))

\* create_cc_instance skips whom it finds, in the rows of its own SELECT.
SqlCreateCc(cc, existing, actors) ==
    LET absent == Without(normalize_actors(actors), CcActors(existing))
    IN cc \o [i \in DOMAIN absent |-> Unread(absent[i])]
MemCreateCc(cc, actors) ==
    LET copied == Merge(CcNames(cc), normalize_actors(actors))
    IN [i \in DOMAIN copied |-> IF i \in DOMAIN cc THEN cc[i] ELSE Unread(copied[i])]

\* update_cc_status normalises the reader; nobody reads nothing.
Seen(row) == [row EXCEPT !.read = TRUE]
SqlUpdateCcStatus(cc, v) ==
    [i \in DOMAIN cc |-> IF normalize_actors(<<v>>) = <<cc[i].actor>> THEN Seen(cc[i]) ELSE cc[i]]
MemUpdateCcStatus(cc, v) ==
    IF normalize_actors(<<v>>) = <<>> THEN cc
    ELSE [i \in DOMAIN cc |-> IF cc[i].actor = normalize_actors(<<v>>)[1] THEN Seen(cc[i]) ELSE cc[i]]

(***************************************************************************)
(* Lists, by the value that says whose they are.  A condition repeats it   *)
(* as a column of the query, or is absent.                                 *)
(***************************************************************************)
NoCondition == <<>>
BlankValue(v) == v = NoValue \/ v = Blank
HasOwner(owner, cond) == ~BlankValue(owner) \/ (cond # NoCondition /\ ~BlankValue(cond[1]))

\* _build_where on a column of ownership: a blank value lets no row through.
SqlCond(cond, values) == cond # NoCondition => ~BlankValue(cond[1]) /\ cond[1] \in values
\* _match_conditions: an absent value or an absent column is no condition.
MemCond(cond, values) == cond # NoCondition /\ cond[1] # NoValue => cond[1] \in values

SqlTodo(st, owner) == st.task.state = "doing" /\ owner # NoValue /\ owner \in Range(st.rows)
MemTodo(st, owner) ==
    /\ owner # Blank
    /\ st.task.state = "doing"
    /\ owner # NoValue => owner \in Range(st.rows)

SqlDone(st, owner) == st.task.state \notin {"doing", "none"} /\ st.task.operator = owner /\ owner # NoValue
MemDone(st, owner) ==
    /\ owner # Blank
    /\ st.task.state \notin {"doing", "none"}
    /\ owner # NoValue => st.task.operator = owner

\* How often the instance is on the page: once for each joined row in SQL, once in memory.
SqlCcPage(st, owner, cond) ==
    IF ~HasOwner(owner, cond) THEN 0
    ELSE Cardinality({i \in DOMAIN st.cc :
                        /\ BlankValue(owner) \/ st.cc[i].actor = owner
                        /\ SqlCond(cond, {st.cc[i].actor})})
MemCcPage(st, owner, cond) ==
    IF /\ HasOwner(owner, cond)
       /\ st.cc # <<>>
       /\ owner # NoValue => owner \in CcActors(st.cc)
       /\ MemCond(cond, CcActors(st.cc))
    THEN 1 ELSE 0
=============================================================================
