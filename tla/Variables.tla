----------------------------- MODULE Variables ------------------------------
(***************************************************************************)
(* What a request leaves behind for the next one.  A submission runs on    *)
(* three pools of variables laid over one another: those of the instance,  *)
(* those of the task row and the arguments of the request (engine.py       *)
(* _prepare_execute_task).  The result goes whole into the row that is     *)
(* done, in part into the instance, and says who acts on the next row.     *)
(*                                                                         *)
(* One key stands for each kind the code tells apart: x a form field       *)
(* (f_...), op the control key tf_nextNodeOperator, who the injected       *)
(* u_userId.  The flow is a line of task nodes; branches, countersigns and *)
(* add-sign are Engine's.  Requests are those of the facade, each of which *)
(* runs alone.                                                             *)
(***************************************************************************)
EXTENDS Sequences, Integers, FiniteSets

CONSTANTS Path,             \* the task nodes from start to end
          Assigns,          \* ways to assign them: functions from nodes to methods
          Editable,         \* nodes where x may be edited
          ReturnToSource,   \* nodes whose returns are answered directly
          People,
          Dept,             \* the department of each person
          Leaders,          \* [main, dept] -> its leaders, or its main leaders
          Roles,            \* node -> holders of the role of that name
          Applicants,       \* who starts instances
          Entered,          \* the values requests enter for x
          Names,            \* whom requests name for the next node
          MaxRows

ASSUME PathAssumption ==
    /\ Path # <<>>
    /\ \A i, k \in DOMAIN Path : Path[i] = Path[k] => i = k
    /\ Path[1] \notin ReturnToSource        \* refused by parse_flow_model

VARIABLES assign,   \* how the nodes are assigned
          inst,     \* [state, operator, vars]
          rows,     \* the task rows, by id
          given,    \* values of x that came from where x may be edited
          last      \* the last request: its kind, row, names, and the row it created

vars == <<assign, inst, rows, given, last>>

Nodes == {Path[i] : i \in DOMAIN Path}
First == Path[1]
Position(n) == CHOOSE i \in DOMAIN Path : Path[i] = n

\* A key that is missing, and the pool where all are.
None == "none"
NoVars == [x |-> None, op |-> {}, who |-> None]

FlowAuto == "flow.auto"
FlowAdmin == "flow.admin"

(***************************************************************************)
(* The pools.                                                              *)
(***************************************************************************)
\* {**base, **over}
Over(base, over) ==
    [k \in DOMAIN base |-> IF over[k] = NoVars[k] THEN base[k] ELSE over[k]]

\* Seeded fault: the permission of the node is not asked.
Filtered_Fault(args, node) == args

\* What the node lets through of a submission.
Filtered(args, node) == IF node \in Editable THEN args ELSE [args EXCEPT !.x = None]

\* The user's own data, unless the operator stands for no user.
AddUserInfo(operator, v) == IF operator \in {FlowAuto, FlowAdmin} THEN v ELSE [v EXCEPT !.who = operator]

\* Seeded fault: everything but the reserved keys goes into the instance.
Merged_Fault(base, v) == [v EXCEPT !.who = base.who]

\* Seeded fault: only control keys are kept out.
MergedUser_Fault(base, v) == [v EXCEPT !.op = base.op]

\* What an execution leaves in the instance: u_ and tf_ keys stay as they were.
Merged(base, v) == [v EXCEPT !.who = base.who, !.op = base.op]

\* What a row that is brought back carries of the row it repeats.
LineageVars(v) == [v EXCEPT !.op = {}]

(***************************************************************************)
(* Who acts on a row.                                                      *)
(***************************************************************************)
\* by_dept of the person's department; a pseudo user has none.
ByDept(p, main) == IF p \in People THEN Leaders[main, Dept[p]] ELSE {}

\* What the node itself says.  A token of "assignee" that is no key is the actor.
Assigned(method, node, v, i, operator) ==
    CASE method = "applicant"           -> {i.operator}
      [] method = "field"               -> IF v.x = None THEN {"f_x"} ELSE {v.x}
      [] method = "operator"            -> {i.operator}
      [] method = "formField"           -> IF i.vars.x = None THEN {} ELSE {i.vars.x}
      [] method = "deptLeader"          -> ByDept(operator, FALSE)
      [] method = "deptMainLeader"      -> ByDept(operator, TRUE)
      [] method = "applicantDeptLeader" -> ByDept(i.operator, FALSE)
      [] method = "applicantMainLeader" -> ByDept(i.operator, TRUE)
      [] method = "role"                -> Roles[node]
      [] method = "none"                -> {}

\* Whom the request names, or else what the node says.
Resolved(method, node, v, i, operator) ==
    IF v.op # {} THEN v.op ELSE Assigned(method, node, v, i, operator)

Row(node, parent, actors, v, owes) ==
    [node |-> node, state |-> "doing", parent |-> parent, actors |-> actors, by |-> None,
     vars |-> v, owes |-> owes]

NewRow(node, parent, actors, owes) == Row(node, parent, actors, NoVars, owes)

(***************************************************************************)
(* A submission: what precedes every way of completing a row.              *)
(***************************************************************************)
MayExecute(t, operator) ==
    /\ inst.state = "doing"
    /\ rows[t].state = "doing"
    /\ operator \in rows[t].actors \cup {FlowAuto, FlowAdmin}
    /\ Len(rows) < MaxRows

\* The pool the request runs on, over the given instance and rows.
ExecVars(i, row, operator, args) ==
    AddUserInfo(operator, Over(Over(i.vars, row.vars), Filtered(args, row.node)))

Completed(rs, t, operator, v) ==
    [rs EXCEPT ![t].state = "done", ![t].by = operator, ![t].vars = v]

Instance(v) == [inst EXCEPT !.vars = Merged(@, v)]

Said(kind, t, operator, args) ==
    [kind |-> kind, row |-> t, operator |-> operator, named |-> args.op, new |-> Len(rows) + 1]

Given(t, args) ==
    given' = IF rows[t].node \in Editable THEN given \cup {args.x} ELSE given

\* The row behind the completed one, or the end of the instance.
Advance(rs, i, t, v, operator) ==
    LET k == Position(rs[t].node) + 1
    IN IF k > Len(Path) THEN [rows |-> rs, inst |-> [i EXCEPT !.state = "finished"]]
       ELSE [rows |-> Append(rs, NewRow(Path[k], t, Resolved(assign[Path[k]], Path[k], v, i, operator), 0)),
             inst |-> i]

(***************************************************************************)
(* Requests.                                                               *)
(***************************************************************************)
Args == [x : {None} \cup Entered, op : Names, who : {None}]

\* A start stores its arguments whole and assigns the first node.
Started(operator, args) ==
    LET v == AddUserInfo(operator, args)
        i == [state |-> "doing", operator |-> operator, vars |-> v]
    IN [inst |-> i, rows |-> <<NewRow(First, 0, Resolved(assign[First], First, v, i, operator), 0)>>]

Start(operator, args) ==
    /\ inst.state = "none" /\ args.op = {}
    /\ inst' = Started(operator, args).inst
    /\ rows' = Started(operator, args).rows
    /\ given' = {None, args.x}
    /\ last' = [Said("start", 0, operator, args) EXCEPT !.new = 1]
    /\ UNCHANGED assign

\* startAndExecute: flow.auto submits the first row with the same arguments, and
\* whom the start names becomes whom that submission names.
StartAndExecute(operator, args) ==
    /\ inst.state = "none"
    /\ LET s == Started(operator, [args EXCEPT !.op = {}])
           given1 == [s.rows EXCEPT ![1].actors = @ \cup {operator}]
           v == ExecVars(s.inst, given1[1], FlowAuto, args)
           i == [s.inst EXCEPT !.vars = Merged(@, v)]
           a == Advance(Completed(given1, 1, FlowAuto, v), i, 1, v, FlowAuto)
       IN /\ inst' = a.inst
          /\ rows' = a.rows
          /\ last' = [Said("execute", 1, FlowAuto, args) EXCEPT !.new = IF Len(a.rows) > 1 THEN 2 ELSE 0]
    /\ given' = {None, args.x}
    /\ UNCHANGED assign

Execute(t, operator, args) ==
    /\ MayExecute(t, operator) /\ rows[t].owes = 0
    /\ LET v == ExecVars(inst, rows[t], operator, args)
           a == Advance(Completed(rows, t, operator, v), Instance(v), t, v, operator)
       IN /\ inst' = a.inst
          /\ rows' = a.rows
          /\ last' = [Said("execute", t, operator, args) EXCEPT !.new = IF Len(a.rows) > Len(rows) THEN @ ELSE 0]
    /\ Given(t, args)
    /\ UNCHANGED assign

\* The applicant answers a return: the row goes back to where it came from, and
\* to nobody who was named.
Reapply(t, operator, args) ==
    /\ MayExecute(t, operator) /\ rows[t].owes # 0
    /\ LET v == ExecVars(inst, rows[t], operator, args)
           source == rows[rows[t].owes].node
           actors == Resolved(assign[source], source, [v EXCEPT !.op = {}], Instance(v), operator)
       IN /\ inst' = Instance(v)
          /\ rows' = Append(Completed(rows, t, operator, v), NewRow(source, t, actors, 0))
    /\ Given(t, args)
    /\ last' = Said("reapply", t, operator, [args EXCEPT !.op = {}])
    /\ UNCHANGED assign

\* Return to the applicant: the first node, assigned to the applicant.
Return(t, operator, args) ==
    /\ MayExecute(t, operator) /\ rows[t].owes = 0
    /\ LET v == ExecVars(inst, rows[t], operator, args)
           direct == rows[t].node \in ReturnToSource
           actors == Resolved("applicant", First, v, Instance(v), operator)
       IN /\ inst' = Instance(v)
          /\ rows' = Append(Completed(rows, t, operator, v),
                            NewRow(First, t, actors, IF direct THEN t ELSE 0))
    /\ Given(t, args)
    /\ last' = Said("return", t, operator, args)
    /\ UNCHANGED assign

\* The applicant's row goes back to the user who submitted it, others to whoever
\* completed them.
RevivedActor(his) ==
    IF his.node # First THEN his.by
    ELSE IF his.vars.who # None THEN his.vars.who ELSE inst.operator

\* One step back: the row this one came from is repeated, with what it owed.
RollBack(t, operator, args) ==
    /\ MayExecute(t, operator) /\ rows[t].owes = 0
    /\ rows[t].parent # 0
    /\ LET his == rows[rows[t].parent]
           v == ExecVars(inst, rows[t], operator, args)
       IN /\ Position(his.node) < Position(rows[t].node)
          /\ inst' = Instance(v)
          /\ rows' = Append(Completed(rows, t, operator, v),
                            Row(his.node, his.parent, {RevivedActor(his)}, LineageVars(his.vars), his.owes))
    /\ Given(t, args)
    /\ last' = Said("rollback", t, operator, args)
    /\ UNCHANGED assign

Init ==
    /\ assign \in Assigns
    /\ inst = [state |-> "none", operator |-> None, vars |-> NoVars]
    /\ rows = <<>>
    /\ given = {}
    /\ last = [kind |-> "none", row |-> 0, operator |-> None, named |-> {}, new |-> 0]

Next ==
    \E args \in Args :
      \/ \E p \in Applicants : Start(p, args) \/ StartAndExecute(p, args)
      \/ \E t \in DOMAIN rows : \E o \in People \cup {FlowAdmin} :
           \/ Execute(t, o, args)
           \/ Reapply(t, o, args)
           \/ Return(t, o, args)
           \/ RollBack(t, o, args)

Spec == Init /\ [][Next]_vars

(***************************************************************************)
(* Properties.                                                             *)
(***************************************************************************)
\* A new row goes to whom its own request names, or else to whom its node says
\* (a return: to the applicant), never to somebody an earlier request named: the
\* control keys of a submission end with it, also in rows that are brought back
\* (_merge_exec_into_instance, _lineage_vars, execute_reapply).  A row that is
\* brought back goes to the person who completed it, and the applicant's row,
\* which flow.auto submits, to a person all the same.
RowsReachTheirPeople ==
    last.new # 0 =>
      LET new == rows[last.new]
          done == rows[last.row]
      IN IF last.kind = "rollback"
         THEN LET his == rows[done.parent]
              IN IF his.by \in People THEN new.actors = {his.by}
                 ELSE new.node = First => new.actors # {} /\ new.actors \subseteq People
         ELSE new.actors =
                IF last.named # {} THEN last.named
                ELSE Assigned(IF last.kind = "return" THEN "applicant" ELSE assign[new.node],
                              new.node, inst.vars, inst, last.operator)

\* The u_ keys of an instance are the applicant's for good, whoever acts on it,
\* stands in for whom, or has a row brought back (issues/97).
InitiatorKept == inst.state # "none" => inst.vars.who = inst.operator

\* A submission where x is read-only leaves x alone, unless its row was brought
\* back with the value it had; and no value is ever there that did not come from
\* a start or from where x may be edited (issues/26).
FieldsKept ==
    [][/\ inst.state = "doing" =>
            LET done == rows[last'.row]
            IN done.node \notin Editable /\ done.vars.x = None => inst'.vars.x = inst.vars.x
       /\ inst'.vars.x \in given']_vars
=============================================================================
