------------------------------- MODULE Engine -------------------------------
(***************************************************************************)
(* EngineImpl (jeeflow/engine.py) over one process instance: the task rows *)
(* of the instance, its state, and every engine entry that changes them.   *)
(*                                                                         *)
(* A request first changes the rows it is about and then walks the flow    *)
(* with _execute_node. The walk is a depth-first recursion; `todo` is its  *)
(* stack of pending node visits, and no other request is served before it  *)
(* is empty (one request at a time: with the in-memory repository an await *)
(* never suspends; InstanceTx models the requests that do interleave).     *)
(*                                                                         *)
(* Definitions named after a fault (Complete_AsAbandoned) are that fault     *)
(* seeded into the definition that follows them; the model does not use    *)
(* them.                                                                   *)
(*                                                                         *)
(* Row ids are positions in `rows`. Who acts on a row, forms, due times,   *)
(* events, interceptors and cc rows are left out.                          *)
(***************************************************************************)
EXTENDS FlowGraph

CONSTANTS
  Countersign,     \* [Node -> CsTypes], countersignType of a countersign node
  Veto,            \* nodes whose completion condition is ONE_VOTE_VETO
  Members,         \* [Node -> Nat], participants a countersign node resolves
  CsExpr(_, _, _), \* completion condition over (all, active, completed) rows
  ReturnToSource,  \* nodes with reapplyMode RETURN_TO_SOURCE
  AllowRecall,     \* nodes with allowRecall
  AllowAddSign,    \* nodes with allowAddSign
  Detours,         \* nodes on whose rows clients roll back, jump and return
  JumpTargets,     \* the taskName values clients send with submitType 4
  Submits,         \* the submitType values clients send to execute_process_task
  Transactional,   \* does the repository roll a failed request back?
  Ops,             \* the entries clients use
  MaxRows          \* bound: with this many rows only agreeing and reapplying go on

\* "parallel": PARALLEL or RATIO.. without a completion expression; "expression":
\* one of the two with it; "unknown": any other value.
CsTypes == {"none", "parallel", "expression", "sequential", "unknown"}
SubmitTypes == {"agree", "disagree", "reject"}
AllOps == {"execute", "addSign", "reject", "rollback", "jump", "return",
           "reapply", "recall", "withdraw"}

ASSUME EngineAssumption ==
  /\ Countersign \in [Node -> CsTypes]
  /\ Members \in [Node -> Nat]
  /\ {Veto, ReturnToSource, AllowRecall, AllowAddSign, Detours, JumpTargets} \subseteq SUBSET Node
  /\ Submits \subseteq SubmitTypes
  /\ Transactional \in BOOLEAN
  /\ Ops \subseteq AllOps
  /\ MaxRows \in Nat

\* What parse_flow_model refuses: add-sign and recall switches are for plain
\* task nodes that are not a successor of the start node.
ASSUME ParseAssumption ==
  \A n \in AllowRecall \cup AllowAddSign :
    Kind[n] = "task" /\ Countersign[n] = "none" /\ n \notin FirstNodes

VARIABLES
  inst,    \* state of the instance, "none" before it is started
  rows,    \* the task rows in creation order
  loops,   \* per node, the loopCounter_{node} instance variable, -1 if absent
  todo,    \* pending node visits of the current request
  submit,  \* submitType of the current request
  saved    \* <<>> or what a rollback of the current request would restore

vars == <<inst, rows, loops, todo, submit, saved>>

InstanceStates == {"none", "doing", "finished", "withdrawn", "rejected"}
TaskStates == {"doing", "done", "withdrawn", "abandoned"}

Scope == [fork : Node, join : Node, round : Nat, root : Nat]
\* parent 0: no lineage. source # 0: an applicant row that owes a return to the
\* row `source` inside `branch` (_reapplyContext). loop -1: no loopCounter.
Row == [node : Node, state : TaskStates, parent : Nat, scopes : SUBSET Scope,
        source : Nat, branch : SUBSET Scope, loop : Int, recalled : SUBSET Nat]
Token == [node : Node, parent : Nat]

-----------------------------------------------------------------------------
(* Row helpers.                                                            *)

Fresh(n, p, sc) ==
  [node |-> n, state |-> "doing", parent |-> p, scopes |-> sc, source |-> 0,
   branch |-> {}, loop |-> -1, recalled |-> {}]

DoingIds(rs) == {i \in DOMAIN rs : rs[i].state = "doing"}
On(rs, n) == {i \in DOMAIN rs : rs[i].node = n}
DoingOn(rs, n) == DoingIds(rs) \cap On(rs, n)

Complete_AsAbandoned(rs, t) == [rs EXCEPT ![t].state = "abandoned"]
Complete(rs, t) == [rs EXCEPT ![t].state = "done"]
Close_Never(rs, ids, state) == rs
Close(rs, ids, state) ==
  [i \in DOMAIN rs |-> IF i \in ids THEN [rs[i] EXCEPT !.state = state] ELSE rs[i]]

ScopesOf(rs, t) == IF t \in DOMAIN rs THEN rs[t].scopes ELSE {}

\* build_scopes: a range the parent is in already is inherited with its round
\* and root; any other starts a round named by the parent, with this row as root.
BuildScopes_PlaceholderRoot(rs, n, p, self) ==
  {[fork |-> s.fork, join |-> s.join, round |-> p, root |-> 0] : s \in StaticScopes(n)}
BuildScopes_ParentRoot(rs, n, p, self) ==
  {[fork |-> s.fork, join |-> s.join, round |-> p, root |-> p] : s \in StaticScopes(n)}
BuildScopes(rs, n, p, self) ==
  LET Same(q, s) == q.fork = s.fork /\ q.join = s.join
      held == {q \in ScopesOf(rs, p) : \E s \in StaticScopes(n) : Same(q, s)}
      new == {s \in StaticScopes(n) : \A q \in held : ~Same(q, s)}
  IN held \cup {[fork |-> s.fork, join |-> s.join, round |-> p, root |-> self] : s \in new}

\* attach_created: the ranges of a row the walk creates. It is called where the request
\* collects its new rows; a start, whose rows have no parent, does not collect them.
Attached(rs, n, p, self) == IF p = 0 THEN {} ELSE BuildScopes(rs, n, p, self)

\* The row works for the branch `root` of the round of scope s, or is an
\* applicant row whose return will.
Serves_NoApplicant(row, s) ==
  \E q \in row.scopes : q.fork = s.fork /\ q.join = s.join /\ q.round = s.round
Serves(row, s) ==
  \E q \in row.scopes \cup row.branch :
    q.fork = s.fork /\ q.join = s.join /\ q.round = s.round

\* merge_ready: with no scope of its own for the join, the arriving row falls
\* back to "nothing is doing in the whole instance".
MergeReady_StaleArrival(rs, j, arriving) ==
  \A s \in ScopesOf(rs, arriving) : s.join = j =>
    \A i \in DoingIds(rs) \cup {arriving} : ~Serves(rs[i], s)
MergeReady_Always(rs, j, arriving) == TRUE
MergeReady_WholeInstance(rs, j, arriving) == DoingIds(rs) = {}
MergeReady(rs, j, arriving) ==
  LET own == {s \in ScopesOf(rs, arriving) : s.join = j}
  IN IF own = {} THEN DoingIds(rs) = {}
     ELSE \A s \in own : \A i \in DoingIds(rs) : ~Serves(rs[i], s)

\* Rows whose chain of parents contains t.
Descendants_LiveOnly(rs, t) == {i \in DoingIds(rs) : rs[i].parent = t}
Descendants(rs, t) ==
  LET below[i \in 0..Len(rs)] ==
        i # 0 /\ (rs[i].parent = t \/ below[rs[i].parent])
  IN {i \in DOMAIN rs : rs[i].parent = t \/ below[rs[i].parent]}

\* _abandon_add_sign_doing: reject and return clear an add-sign node.
ClearAddSign_Never(rs, n) == rs
ClearAddSign_ClosedToo(rs, n) ==
  IF n \in AllowAddSign THEN Close(rs, On(rs, n), "abandoned") ELSE rs
ClearAddSign(rs, n) ==
  IF n \in AllowAddSign THEN Close(rs, DoingOn(rs, n), "abandoned") ELSE rs

-----------------------------------------------------------------------------
(* Requests.                                                               *)

Visits(ns, p) == [i \in DOMAIN ns |-> [node |-> ns[i], parent |-> p]]

\* The request goes on visiting toks, or is over when there are none.
Walk(toks, st) ==
  /\ todo' = toks
  /\ submit' = IF toks = <<>> THEN "agree" ELSE st
  /\ saved' = IF toks = <<>> \/ ~Transactional THEN <<>>
              ELSE <<[inst |-> inst, rows |-> rows, loops |-> loops]>>

Answer == Walk(<<>>, "agree")

Continue(toks) ==
  /\ todo' = toks
  /\ submit' = IF toks = <<>> THEN "agree" ELSE submit
  /\ saved' = IF toks = <<>> THEN <<>> ELSE saved

Serving(op) ==
  /\ op \in Ops
  /\ todo = <<>>
  /\ op \in {"execute", "reapply"} \/ Len(rows) < MaxRows

\* _load_and_check looks at the row only, never at the state of the instance.
\* An applicant row that owes a return accepts nothing but the reapply.
Open(t) == rows[t].state = "doing" /\ rows[t].source = 0

\* loopCounter of the row, else the one left in the instance variables.
Loop(t) == IF rows[t].loop >= 0 THEN rows[t].loop ELSE loops[rows[t].node]

\* complete_task merges the row's variables into the instance.
MergeLoop(t) == loops' = [loops EXCEPT ![rows[t].node] = Loop(t)]

Start ==
  /\ inst = "none" /\ todo = <<>>
  /\ inst' = "doing"
  /\ \E n \in StartNodes : Walk(Visits(Succ[n], 0), "agree")
  /\ UNCHANGED <<rows, loops>>

\* The gates of execute_process_task, read after the row is completed.
HasNextMember_LastSkipped(t) ==
  Countersign[rows[t].node] = "sequential" /\ Loop(t) >= 0 /\ Loop(t) + 2 < Members[rows[t].node]
HasNextMember(t) ==
  Countersign[rows[t].node] = "sequential" /\ Loop(t) >= 0 /\ Loop(t) + 1 < Members[rows[t].node]

Vetoed(n, st) == n \in Veto /\ st = "disagree"

AddSignGate_Open(rs, n) == TRUE
AddSignGate(rs, n) == n \in AllowAddSign => DoingOn(rs, n) = {}

GateOpen(rs, t, st) ==
  LET n == rs[t].node
      vetoed == Vetoed(n, st)
      quiet == DoingIds(rs) = {}
  IN CASE Countersign[n] = "sequential" -> vetoed \/ (quiet /\ ~HasNextMember(t))
       [] Countersign[n] = "parallel" -> vetoed \/ quiet
       [] Countersign[n] = "expression" ->
            CsExpr(Cardinality(On(rs, n)), Cardinality(DoingOn(rs, n)),
                   Cardinality({i \in On(rs, n) : rs[i].state = "done"}))
       [] Countersign[n] = "unknown" -> TRUE
       [] OTHER -> AddSignGate(rs, n)

NextMemberDue(rs, t, st) ==
  HasNextMember(t) /\ ~Vetoed(rs[t].node, st) /\ DoingIds(rs) = {}

ExecuteProcessTask(t, st) ==
  LET n == rows[t].node
      done == Complete(rows, t)
  IN /\ Serving("execute") /\ Open(t)
     /\ MergeLoop(t)
     /\ \/ /\ GateOpen(done, t, st)
           /\ rows' = IF Countersign[n] = "none" THEN done
                      ELSE Close(done, DoingOn(done, n), "abandoned")
           /\ Walk(Visits(Succ[n], t), st)
        \/ /\ NextMemberDue(done, t, st)
           /\ rows' = Append(done, [Fresh(n, t, {}) EXCEPT !.loop = Loop(t) + 1])
           /\ Answer
        \/ /\ ~GateOpen(done, t, st) /\ ~NextMemberDue(done, t, st)
           /\ rows' = done
           /\ Answer
     /\ UNCHANGED inst

\* Completing a row and naming k further signers keeps the token on the node.
AddSign(t, k) ==
  LET n == rows[t].node
      done == Complete(rows, t)
      signer(i) == Fresh(n, t, BuildScopes(done, n, t, Len(rows) + i))
  IN /\ Serving("addSign") /\ Open(t) /\ n \in AllowAddSign
     /\ rows' = done \o [i \in 1..k |-> signer(i)]
     /\ Answer
     /\ MergeLoop(t)
     /\ UNCHANGED inst

\* execute_and_jump_to_end: the rest of the instance's rows stay as they are.
ExecuteAndJumpToEnd(t) ==
  /\ Serving("reject") /\ Open(t)
  /\ rows' = ClearAddSign(Complete(rows, t), rows[t].node)
  /\ inst' = "rejected"
  /\ Answer
  /\ MergeLoop(t)

\* execute_and_jump_task without a target: guards first, then the parent row is
\* revived as a new row that keeps its lineage, ranges and reapply context.
RollbackToParent(t) ==
  LET his == rows[rows[t].parent]
  IN /\ Serving("rollback") /\ Open(t) /\ rows[t].node \in Detours
     /\ rows[t].parent # 0 /\ CanReject(rows[t].node, his.node)
     /\ rows' = Append(Complete(rows, t),
                       [Fresh(his.node, his.parent, his.scopes) EXCEPT
                          !.source = his.source, !.branch = his.branch])
     /\ Answer
     /\ MergeLoop(t)
     /\ UNCHANGED inst

ExecuteAndJumpTask(t, target) ==
  /\ Serving("jump") /\ Open(t) /\ rows[t].node \in Detours
  /\ rows' = Complete(rows, t)
  /\ Walk(<<[node |-> target, parent |-> t]>>, "agree")
  /\ MergeLoop(t)
  /\ UNCHANGED inst

\* execute_and_jump_to_first_task_node. A RETURN_TO_SOURCE node parks the branch
\* in an applicant row; its configuration is checked after the row is completed.
Returnable(n) ==
  Countersign[n] = "none" /\ n \notin FirstNodes /\ FirstOf({"task"}) # <<>>

ExecuteAndJumpToFirstTaskNode(t) ==
  LET n == rows[t].node
      cleared == ClearAddSign(Complete(rows, t), n)
  IN /\ Serving("return") /\ Open(t) /\ n \in Detours
     /\ \/ /\ n \in ReturnToSource /\ Returnable(n)
           /\ rows' = Append(cleared, [Fresh(FirstOf({"task"})[1], t, {}) EXCEPT
                                         !.source = t, !.branch = rows[t].scopes])
           /\ Answer
           /\ MergeLoop(t)
        \/ /\ n \in ReturnToSource /\ ~Returnable(n)
           /\ IF Transactional THEN UNCHANGED <<rows, loops>>
              ELSE rows' = cleared /\ MergeLoop(t)
           /\ Answer
        \/ /\ n \notin ReturnToSource
           /\ rows' = cleared
           /\ Walk(Visits(FirstOf({"task", "custom"}), t), "agree")
           /\ MergeLoop(t)
     /\ UNCHANGED inst

\* execute_reapply: the return is answered on the node of the source row, in the
\* branch the source row was in.
ExecuteReapply_KeepsContext(t) ==
  LET source == rows[t].source
  IN /\ Serving("reapply")
     /\ rows[t].state = "doing" /\ source # 0
     /\ rows[t].node \in FirstNodes
     /\ rows' = Append(Complete(rows, t),
                       [Fresh(rows[source].node, t, rows[t].branch) EXCEPT
                          !.source = source, !.branch = rows[t].branch])
     /\ Answer
     /\ MergeLoop(t)
     /\ UNCHANGED inst

ExecuteReapply(t) ==
  LET source == rows[t].source
  IN /\ Serving("reapply")
     /\ rows[t].state = "doing" /\ source # 0
     /\ rows[source].state = "done"
     /\ rows[source].node \in ReturnToSource /\ Kind[rows[source].node] = "task"
     /\ rows[t].node \in FirstNodes
     /\ rows' = Append(Complete(rows, t), Fresh(rows[source].node, t, rows[t].branch))
     /\ Answer
     /\ MergeLoop(t)
     /\ UNCHANGED inst

\* recall_task: every row below t may still be doing, none may be done.
RecallTask(t) ==
  LET below == Descendants(rows, t)
      undone == Close(rows, below \cap DoingIds(rows), "abandoned")
  IN /\ Serving("recall") /\ inst = "doing"
     /\ rows[t].state = "done" /\ rows[t].node \in AllowRecall
     /\ \A d \in below : rows[d].state # "done"
     /\ rows' = Append([undone EXCEPT ![t].recalled = @ \cup {Len(rows) + 1}],
                       Fresh(rows[t].node, rows[t].parent, {}))
     /\ Answer
     /\ UNCHANGED <<inst, loops>>

\* The facade's withdraw of the whole instance.
Withdraw ==
  /\ Serving("withdraw") /\ inst = "doing"
  /\ inst' = "withdrawn"
  /\ rows' = Close(rows, DoingIds(rows), "withdrawn")
  /\ Answer
  /\ UNCHANGED loops

-----------------------------------------------------------------------------
(* The walk: _execute_node on the first pending visit.                     *)

At(kind) == todo # <<>> /\ Kind[Head(todo).node] = kind
Here == Head(todo).node
By == Head(todo).parent
\* Depth first: the successors come before the visits already pending.
Descend(ns) == Continue(Visits(ns, By) \o Tail(todo))

\* _create_task with attach_created. A countersign node that resolves nobody
\* still gets one row; a sequential one starts with its first member.
NewRows_AllAtOnce(n) == IF Members[n] = 0 THEN 1 ELSE Members[n]
NewRows(n) == IF Countersign[n] \in {"none", "sequential"} \/ Members[n] = 0 THEN 1 ELSE Members[n]

EnterTask ==
  /\ At("task")
  /\ rows' = rows \o
       [i \in 1..NewRows(Here) |->
          [Fresh(Here, By, Attached(rows, Here, By, Len(rows) + i)) EXCEPT
             !.loop = IF Countersign[Here] = "sequential" THEN 0 ELSE -1]]
  /\ Continue(Tail(todo))
  /\ UNCHANGED <<inst, loops>>

\* A record node leaves a finished row and lets the token through.
EnterCustom ==
  /\ At("custom")
  /\ rows' = Append(rows, [Fresh(Here, By, {}) EXCEPT !.state = "done"])
  /\ Descend(Succ[Here])
  /\ UNCHANGED <<inst, loops>>

EnterFork ==
  /\ At("fork")
  /\ Descend(Succ[Here])
  /\ UNCHANGED <<inst, rows, loops>>

EnterJoin ==
  /\ At("join")
  /\ Descend(IF MergeReady(rows, Here, By) THEN Succ[Here] ELSE <<>>)
  /\ UNCHANGED <<inst, rows, loops>>

\* Which conditions hold is the instance's data: any conditional edge may be the
\* first true one, else the first edge without condition is taken.
DefaultEdges(n) == DOMAIN Succ[n] \ Conditional[n]

EnterDecision ==
  /\ At("decision")
  /\ \E e \in DOMAIN Succ[Here] :
       /\ e \in Conditional[Here] \/ \A d \in DefaultEdges(Here) : e <= d
       /\ Descend(<<Succ[Here][e]>>)
  /\ UNCHANGED <<inst, rows, loops>>

\* No condition holds and there is no default edge: the request fails.
DecisionFails ==
  /\ At("decision") /\ DefaultEdges(Here) = {}
  /\ IF Transactional
     THEN /\ inst' = saved[1].inst
          /\ rows' = saved[1].rows
          /\ loops' = saved[1].loops
     ELSE UNCHANGED <<inst, rows, loops>>
  /\ Continue(<<>>)

EnterEnd_StoresSubmit ==
  /\ At("end")
  /\ inst' = submit
  /\ Continue(Tail(todo))
  /\ UNCHANGED <<rows, loops>>

EnterEnd ==
  /\ At("end")
  /\ inst' = IF submit = "reject" THEN "rejected" ELSE "finished"
  /\ Continue(Tail(todo))
  /\ UNCHANGED <<rows, loops>>

EnterOther ==
  /\ todo # <<>> /\ Kind[Here] \in {"start", "other"}
  /\ Continue(Tail(todo))
  /\ UNCHANGED <<inst, rows, loops>>

-----------------------------------------------------------------------------
Init ==
  /\ inst = "none"
  /\ rows = <<>>
  /\ loops = [n \in Node |-> -1]
  /\ todo = <<>>
  /\ submit = "agree"
  /\ saved = <<>>

Request ==
  \/ Start
  \/ Withdraw
  \/ \E t \in DOMAIN rows :
       \/ \E st \in Submits : ExecuteProcessTask(t, st)
       \/ \E k \in 1..2 : AddSign(t, k)
       \/ ExecuteAndJumpToEnd(t)
       \/ RollbackToParent(t)
       \/ \E target \in JumpTargets : ExecuteAndJumpTask(t, target)
       \/ ExecuteAndJumpToFirstTaskNode(t)
       \/ ExecuteReapply(t)
       \/ RecallTask(t)

Step ==
  \/ EnterTask
  \/ EnterCustom
  \/ EnterFork
  \/ EnterJoin
  \/ EnterDecision
  \/ DecisionFails
  \/ EnterEnd
  \/ EnterOther

Next == Request \/ Step

Spec == Init /\ [][Next]_vars

-----------------------------------------------------------------------------
(* Fairness. The walk is a recursion nothing suspends for good, so a step   *)
(* that can run does; and someone eventually executes or resubmits a row.   *)
(* Nobody is obliged to return, reject, recall or withdraw.                 *)

Participants ==
  \E t \in DOMAIN rows :
    \/ \E st \in Submits : ExecuteProcessTask(t, st)
    \/ ExecuteReapply(t)

FairSpec == Spec /\ WF_vars(Step) /\ WF_vars(Participants)

-----------------------------------------------------------------------------
(* Properties.                                                             *)

TypeOK ==
  /\ inst \in InstanceStates
  /\ rows \in Seq(Row)
  /\ loops \in [Node -> Int]
  /\ todo \in Seq(Token)
  /\ submit \in SubmitTypes
  /\ \/ saved = <<>>
     \/ saved \in [{1} -> [inst : InstanceStates, rows : Seq(Row), loops : [Node -> Int]]]
  /\ Transactional => (todo = <<>>) = (saved = <<>>)

Live == DoingIds(rows)
Settled == todo = <<>>

\* A running instance always has a row somebody can act on: no request leaves it
\* "doing" with an empty to-do list (the shape executeAndJumpTask's comment calls
\* "the instance stays DOING with zero todos").
NoOrphanInstance == Settled /\ inst = "doing" => Live # {}

\* When the end node is reached no row is left to act on.
FinishedIsQuiet == Settled /\ inst = "finished" => Live = {}

\* A terminal state is final: a finished, rejected or withdrawn instance is never
\* moved to another state, by no row that was still open when it ended.
TerminalFinal ==
  [][(inst \in {"finished", "rejected", "withdrawn"}) => inst' = inst]_vars

\* The rows are the approval history. Whatever a request, a failed one included,
\* does to the rows others can have read: a closed row keeps its node, state,
\* lineage, ranges and return context, and only its recall ledger grows.
Visible == IF saved = <<>> THEN rows ELSE saved[1].rows
Keeps(old, new) ==
  /\ Len(old) <= Len(new)
  /\ \A i \in DOMAIN old :
       old[i].state # "doing" =>
         /\ old[i].recalled \subseteq new[i].recalled
         /\ new[i] = [old[i] EXCEPT !.recalled = new[i].recalled]
HistoryImmutable == [][Keeps(Visible, Visible')]_vars

\* Lineage: every row and every pending visit descends from an earlier, completed
\* row, and an applicant row owes its return to an earlier, completed row. So the
\* rollback always finds its history row and the reapply its source row, also
\* after a failed request was rolled back.
Lineage(rs) ==
  \A i \in DOMAIN rs :
    /\ rs[i].parent < i /\ rs[i].source < i
    /\ rs[i].parent # 0 => rs[rs[i].parent].state = "done"
    /\ rs[i].source # 0 => rs[rs[i].source].state = "done"
LineageOK ==
  /\ Lineage(rows)
  /\ saved # <<>> => Lineage(saved[1].rows)
  /\ \A i \in DOMAIN todo :
       /\ todo[i].parent <= Len(rows)
       /\ todo[i].parent # 0 => rows[todo[i].parent].state = "done"

\* The branch positions a row stands for, itself or through the return it owes.
Claims(row) == row.scopes \cup row.branch

\* merge_ready keys the branches of a round by root alone: a branch root belongs
\* to one round of one join, however rows of it were created, returned, revived.
RoundsAgree ==
  \A i, k \in DOMAIN rows : \A s \in Claims(rows[i]), q \in Claims(rows[k]) :
    s.join = q.join /\ s.root = q.root => s = q

\* Two live rows never stand for the same position of the branch structure, so
\* completing one cannot release a join the other still has to pass.
OneTokenPerBranch ==
  Settled => \A i, k \in Live : i # k => Claims(rows[i]) # Claims(rows[k])

Inside(r) ==
  {i \in DOMAIN rows :
     \/ \E s \in StaticScopes(rows[i].node) : s.join = r.join
     \/ \E s \in rows[i].branch : s.join = r.join}
Beyond(n) == {i \in DOMAIN rows : <<rows[i].node, n>> \in Later}

\* A join waits for every branch, counting a branch whose applicant still edits
\* after a return: nothing is live on both sides of it.
JoinHoldsBranches ==
  Settled => \A r \in Ranges :
    Live \cap Inside(r) # {} => Live \cap Beyond(r.join) = {}

\* A join releases once per round: what comes out of it in one passage through the
\* fork was released by the arrival of one row. Rows a reapply or a return put
\* behind the join do not count.
Passage(i, r) ==
  LET p == rows[i].parent
      own == {s \in ScopesOf(rows, p) : s.join = r.join}
  IN IF own = {} THEN p ELSE (CHOOSE s \in own : TRUE).round
Resubmitted(i) == rows[i].parent # 0 /\ rows[rows[i].parent].source # 0
JoinReleasesOnce ==
  \A r \in Ranges :
    LET out == {i \in DOMAIN rows : rows[i].node \in Targets(r.join) /\ ~Resubmitted(i)}
    IN \A i, k \in out : Passage(i, r) = Passage(k, r) => rows[i].parent = rows[k].parent

\* In a flow without decisions, an instance that ran to its end did every task.
NothingSkipped ==
  inst = "finished" =>
    \A n \in Node : Kind[n] = "task" => \E i \in On(rows, n) : rows[i].state = "done"

\* A countersign node without veto is passed only after as many members as it
\* resolves have voted, and, when it waits for all, with no vote outstanding.
EveryMemberVotes ==
  Settled => \A n \in Node \ Veto :
    Countersign[n] \in {"parallel", "sequential"} /\ Live \cap Beyond(n) # {} =>
      /\ DoingOn(rows, n) = {}
      /\ Cardinality({k \in On(rows, n) : rows[k].state = "done"}) >= Members[n]

\* Members of a sequential countersign act one at a time.
OneSequentialAtATime ==
  \A n \in Node : Countersign[n] = "sequential" => Cardinality(DoingOn(rows, n)) <= 1

\* An add-sign node is left only when every signer of it is through: no row beyond
\* it is live while one on it is.
AddSignHolds ==
  Settled => \A n \in AllowAddSign :
    DoingOn(rows, n) # {} => Live \cap Beyond(n) = {}

\* Nothing that came out of a recalled row is alive or was ever completed: its
\* successors were abandoned, and no later request revives or extends them.
Superseded(rs) ==
  \A t \in DOMAIN rs : rs[t].recalled # {} =>
    \A i \in DOMAIN rs : rs[i].parent = t => rs[i].state \notin {"doing", "done"}
RecalledIsSuperseded == Superseded(rows)

\* As long as participants keep acting, an instance comes to an end.
EventuallyEnds == inst = "doing" ~> inst # "doing"
=============================================================================
