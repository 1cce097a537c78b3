# jeeflow-python: verification project

jeeflow is a workflow engine: a flow definition is a graph of nodes, a process
instance is a token (or several) walking it, and a task row is a stop on the way
where a person has to act. This directory holds a TLA+ model of it, checked with
TLC on small instances and, where it matters most, proved with TLAPS for all of
them. Paths below are relative to the repository.

## 1. Inventory of the system

| Component | State | Operations | Interacts with |
|---|---|---|---|
| Flow definition, branch analysis (`jeeflow/model.py`, `jeeflow/reapply.py`) | none, parsed per request | parse, static (fork, join) ranges, first task node, may-roll-back | the engine |
| Engine (`jeeflow/engine.py`, `reapply.py`, `recall.py`, `add_sign.py`) | per instance: state, variables, task rows with lineage, `_branchCtx`, `_reapplyContext`, loop counters | start, execute, reject, roll back, jump, return to applicant, reapply, recall, add-sign; the recursive walk `_execute_node` | repository, events, assignment |
| Instance lock and transactions (`reapply.instance_lock`, `engine._in_tx`, `repository/base.py`) | one `asyncio.Lock` per (engine, instance), one connection per transaction | lock, begin, commit, rollback, join an outer transaction | engine, facade |
| Facade (`jeeflow/facade.py`) | none | dispatches 47 actions inside one transaction each; withdraw, transfer, collect mode, deploy, designs, surrogates, queries | engine, repositories |
| Collect mode (`jeeflow/collect.py`, facade) | member rows under a host row, round and ledger on the host | launch, gate, answer, revoke | engine, facade |
| Task actors and cc (`spi.py`, repositories, facade) | actor rows of a task, cc rows of an instance | add, remove, transfer, create if absent, mark read | facade, engine |
| Events, after-commit callbacks (`extensions.py`, `repository/base.py`) | callbacks of the open transaction | fire, register, run after commit, discard | engine, facade |
| Definitions and designs (`facade.py`, `repository/ext.py`) | versions by name, enabled or not; drafts and their history | deploy, redeploy, remove, enable; save, update | engine (start reads a definition) |
| Surrogates (`surrogate.py`, repositories, facade) | records: who stands in for whom, for which process, when | save, update, remove; the lookup when a task is created | engine |
| Participants (`builtin.py`, engine) | none | resolve a node's actors from the request, the variables, the organisation | engine |
| Instance and row variables (engine) | the instance's pool, one per row | merged on every submission, filtered by field permission | everything above |
| Business rows (`persist.py`) | a row of an application's table per instance | SYNC after each node, ARCHIVE at the end | engine, transaction |
| Id generator (`repository/base.py`) | last millisecond, sequence | next_id | repositories |
| Evaluator, metadata, queries and statistics | none, or constant tables | pure functions, reads | facade |

What is hard here:

* **Joins.** A join must count the branches of its own round although branches
  are returned to the applicant, resubmitted, rolled back and recalled in any
  order, and rows are created in seven different places.
* **Half-done requests.** A request completes its row first and may fail later;
  the SQL repositories roll back, the in-memory one does not.
* **Closed rows are the approval history** and must never be rewritten, but a
  cascade of the aggregate rewrites every row it holds.
* **What outlives a request.** Variables of the instance and of brought-back rows
  carry the last requests' control keys, form values and user data.
* **Two repositories, one answer.** Facade and engine are tested in memory and
  run on SQL, whose rows are older than the code that reads them.
* **Reads before writes.** Deploy, redeploy, remove, transfer and the business row's
  exists / insert decide on rows they read earlier.
* **Interleaving.** Every `await` may let another request of the same instance
  run. Some entries take `instance_lock`, others do not, and the facade takes it
  inside its transaction.

What makes each component correct, and where it stands:

| Component | Correct when | Here |
|---|---|---|
| Branch analysis | a join finds its fork in nested and adjacent ranges | used by every run on forks |
| Engine | joins wait for every branch and release once; no instance is orphaned; terminal states stay; history is immutable; recalls last; every instance can end | `Engine`, `EngineProofs`, `TokenProofs` |
| Lock, transactions | interleaved requests equal some serial order, nobody waits for good | `InstanceTx`, `InstanceAtomic`, `InstanceTxProofs` |
| Collect mode | the host, and only the host, decides, after all answers; no answer is lost; the ledger accounts for every question | `Collect`, `Consult`, `CollectProofs` |
| Actors, cc, surrogates | both repositories answer alike; no request leaves rows that name nobody; one cc row and one event per person; the latest record under a stored name decides who stands in | `Actors`, `Surrogates`, `ActorRows`, `TaskActors`, `TaskActorsProofs` |
| Transactions, after-commit | a callback runs once, after the commit of the outermost transaction, or never; locks and connections come back whatever fails | `TxScope`, `AfterCommit`, `PersistProofs` |
| Business rows | one row per instance, which tells what was committed and nothing that was refused | `Persist`, `PersistProofs` |
| Definitions, designs, ids | the deployed version is the latest, no instance loses its definition, the flag of a design is true, ids are in order | `Definitions`, `TsIds`, `DefinitionsProofs` |
| Variables, participants | rows reach the people their own request or node names; initiator's data and read-only fields stay | `Variables`, `VariablesProofs` |

`PROJECT.json` lists every component with its status, and under `hazards` every
point of the code where one of the above bites, with its line.

## 2. Modules

```
FlowGraph            the graph and its static analysis
  Engine             rows, requests, walk, properties
    FlowShape        conditions on a flow that theorems suppose
    MCNested, MCFork, MCCountersign, MCTasks      instances for TLC
    EngineProofs     theorems for every flow
      TokenProofs    theorems for flows of nested forks
InstanceAtomic       what the instance lock promises
  InstanceTx         how lock, transactions and cascade provide it
    MCInstanceTx     instance for TLC
    InstanceTxProofs theorems
Consult              what the collect mode promises
  Collect            how host row, member rows and gate provide it
    MCCollect        instance for TLC
    CollectProofs    theorems
Actors               names as they come and as rows hold them
  Surrogates         records and the lookup of both repositories
    ActorRows        actor rows, cc rows and lists of both repositories
      TaskActors     the facade's requests on both at once
        MCTaskActors instance for TLC
        TaskActorsProofs theorems
TsIds                the id generator
  Definitions        versions, designs, starts, removals
    MCDefinitions    instance for TLC
    DefinitionsProofs theorems
AfterCommit          what with_tx and after_commit promise
  TxScope            how lock, transaction, pool and callbacks provide it
    Persist          the business row written inside
      MCPersist      instance for TLC
      PersistProofs  theorems about the transaction and the business row
Variables            what one request leaves to the next, and who acts
  MCVariables        instance for TLC
  VariablesProofs    theorems
```

### FlowGraph
`Node`, `Kind`, `Succ` (targets of the out-edges in definition order) and
`Conditional` (which of them carry an expression) are the parsed model. The
work-list searches of `reapply.py` are least fixpoints computed in
`Cardinality(Node)` rounds: `Ahead`, `Behind`, `Distance`. `Distance` is what
`_max_distance_to_join` computes: its name says maximum, its visited set makes
it the shortest path. `ForkOf`, `Ranges` and `StaticScopes` follow
`_fork_for_join` and `static_scopes`. Where several forks are equally near to a join,
the code takes the first by node order; `OneForkPerJoin` says that there are none such.
The instances check it, and only `RoundsAlwaysAgree` and `TokenProofs` use it.

### Engine
One instance. A row of `rows` is a task row: node, state, parent row, branch
ranges (`scopes`, the code's `_branchCtx`), `source` and `branch` (the code's
`_reapplyContext`), loop counter, and the recall ledger. `inst` is the state of
the instance, `loops` the `loopCounter_*` left in its variables, `submit` the
`submitType` of the request the end node looks at.

A request is one action that does everything up to the first node visit;
`_execute_node`'s recursion is the stack `todo`, one action per node kind. Other
requests wait until `todo` is empty: with the in-memory repository no `await`
suspends, so a request runs in one piece; requests that do interleave are
InstanceTx's. `saved` is what a rollback restores; a repository without
transactions is `Transactional = FALSE`.

| Code | Action |
|---|---|
| `start_process_instance_by_id` | `Start` |
| `execute_process_task` with its countersign and add-sign gates | `ExecuteProcessTask`, `AddSign` |
| `execute_and_jump_to_end` | `ExecuteAndJumpToEnd` |
| `execute_and_jump_task` without / with a target | `RollbackToParent` / `ExecuteAndJumpTask` |
| `execute_and_jump_to_first_task_node` | `ExecuteAndJumpToFirstTaskNode` |
| `execute_reapply` | `ExecuteReapply` |
| `recall_task` | `RecallTask` |
| facade `withdraw` | `Withdraw` |
| `_execute_node` by node type | `EnterTask`, `EnterCustom`, `EnterFork`, `EnterJoin`, `EnterDecision`, `DecisionFails`, `EnterEnd`, `EnterOther` |

Abstracted: who acts on a row (any open row may be acted on), forms, due times,
events, cc rows; a condition of a decision may be true or false; a countersign
node resolves `Members[n]` people, none included. Rows a start creates have no branch
ranges (`Attached`): only requests that collect their new rows attach them. Definitions with a fault in
their name (`MergeReady_Always`) are faults seeded to see that the property
notices; the model never uses them.

### InstanceTx, InstanceAtomic
Requests on one instance over a SQL repository, statement by statement: lock,
begin, check the row, load the aggregate, save the row, save the instance, save
each row of its cascade, pass the join, commit, unlock; or fail anywhere, roll
back, unlock. A withdrawal reads the instance, reads the open rows, saves them
one by one and then the instance.
`Owner` says who opens the transaction: the engine entry (lock outside) or the
facade's dispatch (lock inside). The database is external: `Isolation` chooses
snapshot reads (MySQL's default) or the latest committed state (PostgreSQL's),
a write waits while another transaction holds the row (`Write`), and of
transactions that wait for one another in a circle one is aborted (`Abort`).
InstanceAtomic is the specification: every request in one step.

### Collect, Consult
One task node (`review`) in collect mode between `apply` and `final`. `rows` are
the task rows, a member row being one whose parent is a row of the same node;
the host's `ledger` is its `tf_addSignHistory`. A request is two steps: what the
facade reads and refuses before `instance_lock` is taken (`StartAsk`,
`StartRevoke`, and `StartExecute` with the gate), then what it does: `Ask` and
`Revoke` store host and members as they were read and take no lock; an execution
(`Stay`, `Move`, `Reject`, `Return`, `Refuse`) reads again under the lock, as
`recall_task` does in one step. `job` is the request between the two. `Alone` names the
requests clients do not make beside others; `MemberSubmits` and `Recallable`
what members submit and who recalls. Consult is the specification: questions
put, answered, revoked; a decision by the host alone when none is open.

### Actors, Surrogates, ActorRows, TaskActors
A value names a person, plain or with blanks around the id, or nobody: requests
bring all three, and so do rows written before `normalize_actors` existed, the lists an
assignee variable or a handler gives (`_resolve_actors` normalises only
`tf_nextNodeOperator`), and the principals of surrogate records. Rows, principals and the
person who acts are compared as they stand: a surrogate for ` b ` is found for a row
` b ` and not for `b`, and a row ` b ` lets nobody complete (`MayComplete`).
`Surrogates` has the lookup twice, as the in-memory repository computes it and
as the SQL one asks for it; `ActorRows` does the same for actor rows, cc rows
and the lists by owner. Lists are filtered and joined by `Keep` and `Merge`, which take
sets of values and not predicates: the provers cannot instantiate an operator parameter. In `TaskActors` every request goes to both stores, `sql`
and `mem`, and `last` says what each answered. A request first reads (`seen`),
then writes; `Overlap` lets others run in between. `fired` collects the CC_CREATE
events. Time is a tick, ids are given out in order.

| Code | Action |
|---|---|
| `processTask/transfer`, `addTaskActor`, `removeTaskActor`, completion, `createCCInstance`, `updateCCStatus` | `Begin`, `Finish` with the kind of the call |
| `processSurrogate/save`, `update`, `remove` | `SaveSurrogate`, `UpdateSurrogate`, `RemoveSurrogate` |
| `_create_task` with `_resolve_actors` and `_apply_surrogate` | `CreateTask` |

### TsIds, Definitions
The tables of definitions, designs, snapshots and instances, in SQL or in
memory (`repo`). Over SQL a request reads what is committed when it begins
and writes at its end; `Apart` names the pairs that do not overlap. A version
that is not given is stored as 1 (SQL) or as it is (memory); an id that is taken is
refused (SQL) or its row replaced (memory). `published` and
`serial` are history only the properties read. The clock may move, stand still,
or be set back once; ids come from `TsIds`.

### TxScope, AfterCommit, Persist
`TxScope` follows one request through the blocks it enters: `Blocks` is
`tx lock tx` for an execution through the facade, `lock tx` at the engine, `tx`
for a start or a reject at the engine. Only the outermost `tx` takes a connection, begins and
commits; then the connection goes back and the callbacks run, each in a
transaction of its own. BEGIN, COMMIT and the action may raise; a failing COMMIT
may have reached the database. AfterCommit is the specification of the
callbacks; `Promise` is the refinement.
`Persist` puts the flow `apply -> check -> end` and its business row into these
transactions: `mine[r]` is what the transaction of r sees, `db` what is committed.
A writer that is not wired to the transaction (`setup.wired = FALSE`) commits by itself.

### Variables
Three pools are laid over one another on a submission: instance, row, request.
One key stands for each kind the code tells apart: `x` a form field, `op` the
control key `tf_nextNodeOperator`, `who` the injected `u_userId`. `Assigned` has every
built-in handler of `builtin.py` and the assignee token; users, departments and
roles are constants. Start, startAndExecute, execute, reapply, return and
roll back are actions; the flow is a line, tokens are Engine's matter.

## 3. Runs

Passing runs:

| Run | Shows |
|---|---|
| `nested` | `start -> apply -> F1 -> (B / F2 -> (X / Y) -> J2 -> E) -> J1 -> C -> end`, every branch node RETURN_TO_SOURCE, C a countersign nobody is resolved for, up to 8 rows before clients may only agree and reapply: each join waits for all branches, returned ones included (`JoinHoldsBranches`), releases once (`JoinReleasesOnce`), rows of one round agree on it (`RoundsAgree`, `OneTokenPerBranch`), no task is skipped, no instance orphaned, and every instance comes to an end |
| `countersign` | PARALLEL, SEQUENTIAL, veto, expression and unknown type in a line, members disagreeing, jumps back to the start of the line: `EveryMemberVotes`, `OneSequentialAtATime`, nothing live behind the token |
| `tasks` | add-sign in several rounds, a decision with and one without a default, a record node, a node of unknown type; reject, return, rollback, withdrawal: `AddSignHolds`, `TerminalFinal`, `HistoryImmutable` |
| `recall` | recall of a row before a fork and of one behind its join: what came of the recalled row is never live or completed again |
| `locked` | the lock outside the transaction: the statement-level system implements InstanceAtomic (`Serialised`), a double submit counts once |
| `facade` | the lock inside the transaction, a withdrawal beside it: every request is answered, although the lock is awaited with the transaction open and withdrawal and execution take the row locks in opposite orders (rows then instance; row, instance, rows). Without the database's deadlock detection they would not be |
| `collect` | questions in several rounds to one or two people, two executions at a time, revocation, recalled answers, rejection and return by the host: the rows implement Consult (`Consulted`), the ledger numbers its rounds and names everybody asked or revoked (`LedgerAccounts`), host and members never wait for one another for good (`ConsultationEnds`) |
| `actors` | both repositories hold the same and answer the same, over rows in every spelling (`TwinsAgree`); a removal removes (`RemovedIsGone`), nobody is copied or told twice (`CopiedOnce`), the latest surrogate record under a stored name decides (`LatestWordDecides`), no request leaves rows that name nobody (`NeverEmptied`) |
| `definitions` | two requests at a time in SQL and in memory: the name stands for what was deployed last (`LatestIsDeployed`), no handler but `upAndDown` changes the state of a definition whose id the counter has passed (`StateKept`), no instance loses its definition (`InstancesKeepDefinition`), a design that says it is deployed is (`FlagMeansDeployed`), drafts of one millisecond are in order (`DraftsInOrder`). Without any one of the pairs in `MCApart` a property fails; for two of them (replacing beside `redeployDesign`, writing a flag beside `saveNew`) only after a clock was set back and four or five calls, which the proofs found and the run is too short for |
| `persist` | SYNC and ARCHIVE, with and without a decision before the first task, wired and not: one business row (`OneBusinessRow`) that tells what was committed (`RowTellsOutcome`) and holds nothing read-only (`RefusedNeverStored`); callbacks keep AfterCommit (`KeepsPromise`) and every request is answered, whatever fails (`EveryRequestEnds`) |
| `variables` | three assignments of three nodes, each of the handlers in one of them: rows reach whom their own request or node names, also rows brought back (`RowsReachTheirPeople`), the initiator's data stays (`InitiatorKept`), read-only fields stay (`FieldsKept`) |

One run refutes something the repository says (details under `findings`):
`lock_in_tx`, "requests on an instance are serialised": the facade unlocks before it commits.

### Bounds, and why they are enough

* Two branches per fork, two nesting levels: the join logic compares one scope
  with others of the same round, so a wrong count needs two roots; a wrong
  range needs one level inside another.
* `MaxRows` bounds how long clients may make detours. Once it is reached only
  agreeing and reapplying go on, so every run still ends. 6 to 12 rows leave
  room for one full passage plus two to four detours; every counterexample
  found needs at most 8.
* Two members per countersign, two signers per add-sign round.
* `Detours`, `Ops` and `Submits` name what clients do in a run. A rollback, return or
  jump from one of several parallel countersign rows leaves its siblings live
  by intention (comment in `_prepare_execute_task`), so the countersign run
  detours on nodes with one row only. `FirstNodes` and countersign nodes are
  not recallable or open to add-sign because the parser refuses them
  (`ParseAssumption`).
* Collect: two people, two requests at a time, detours (questions, returns,
  recalls) up to 6 rows: two questions of a first host, its return, and a second
  host with a question of its own; the counterexamples of section 5 need fewer.
* Two or three requests on two branches in InstanceTx: a lost update takes a
  writer and a stale reader.
* TaskActors: three people, an old and a surrogate's spelling of each kind, three
  requests and two surrogate records: a stale record needs a later one to hide it.
* Definitions: two names, two versions, one design, three requests of which two overlap:
  a stale write takes one reader and one writer.
* Persist: three requests, one connection or lock to wait for, one fault, two
  callbacks (order needs two): start, submission and its repetition.
* Variables: three nodes and five rows: a key left by the first request meets the
  second, the third, and a row brought back.

### Fairness

`Engine!FairSpec`: the walk goes on by itself (a coroutine that can run does),
and participants, taken together, keep executing or resubmitting some open row.
Nobody has to return, reject, recall or withdraw. `InstanceTx!FairSpec`: each
request's next statement eventually runs once it can; failures are never due.
`Collect!FairSpec`: a request that has begun goes on, and someone keeps agreeing on
some open row; nobody has to ask, revoke, recall, return or reject.

`Persist!Spec`: whatever can run runs, the database answers, a free lock or connection
goes to one who waits. asyncio's lock and pool queues are fair; faults are never due.

Deadlock checking is off: an instance that has ended, and a set of answered
requests, have nothing left to do; the liveness properties see to it that
none stops earlier. The counters of requests, ids and ticks are bounded by
`MaxCalls`, `MaxRecords`, `MaxTime`, `MaxRequests`, `MaxFaults` and `MaxRows`.

## 4. Proofs

Every theorem holds for all values of the constants that satisfy the assumptions
of its module, and for executions of any length: the bounds of section 3 are TLC's only.
A hypothesis beyond that is named with the theorem, and holds in the run that checks
the property.

### Engine

`EngineProofs` proves of `Engine`, for every flow, every configuration and any
number of rows and requests (from `FlowAssumption` and `EngineAssumption`):

| Theorem | Statement |
|---|---|
| `TypeCorrect` | `Spec => []TypeOK` |
| `LineageHolds` | `Spec => []LineageOK` |
| `RecallSupersedes` | `Spec => []RecalledIsSuperseded` |
| `HistoryKept` | `Spec => HistoryImmutable` |
| `WithdrawnIsFinal` | `Spec => [][inst # "withdrawn"]_vars`: a step never leaves a withdrawn instance |
| `Inductive` | `Spec => []IInv`, the invariant behind them |

The argument: rows descend from completed rows and completed rows stay so. That
alone does not keep a recalled row without live children: a later request could
give it one. `IInv` therefore also says that no pending visit and no open or
completed row has a recalled parent (`Sound`). Each request is a chain of small
changes of `rows` (complete one, close some, append some); `Advances` says what
each keeps and composes, so there is one lemma per kind of change and one per
action. Only the recall is not such a change: it gives a row its ledger, and is
allowed to because every row below it is abandoned in the same step
(`LedgerOK`). `saved` satisfies the same invariant, so a failed request can be
rolled back.
`QuietInv` adds what a withdrawal leaves: no open row and no pending visit, so nothing can act.

For flows whose joins close one fork each (`OneForkPerJoin`) it also proves

| Theorem | Statement |
|---|---|
| `RoundsAlwaysAgree` | `Spec => []RoundsAgree`, what `merge_ready` relies on when it counts branches by their roots |

The argument (`BranchInv`): every range a row stands in, or parks for a return, is
one of the ranges of the row it names as its root, and that row has one range
per join. Rows keep their ranges, and the seven places that make rows take them from
`BuildScopes`, copy them from a row, or have none. So two rows agree on a join and a root
only if they got the range from the same row. The invariant speaks of `saved` too.

### Tokens, branches and joins

`TokenProofs` proves what needs a shape of the flow. The shapes are conditions on the
constants, in `FlowShape`, and each instance assumes those its properties need, so TLC
checks that a flow has them:

| Condition | Says | Holds in |
|---|---|---|
| `WellNested` | forks and joins are properly nested, a branch begins with a task or a fork, and a start reaches no fork (`Opening`) | `MCNested`, `MCCountersign`, `MCTasks` |
| `Disciplined` | nodes of several rows lie outside the branches and are left by a detour only if they make one row; inside a branch clients return only to come back, jump nowhere, and recall nothing | the same |
| `SingleRows` | every node has one row at a time | `MCNested` |
| `ThroughJoin` | a task right behind a join is reached through that join alone, by no other edge and no jump, and is no add-sign or sequential countersign node | `MCNested` |
| `PlainFirst` | the applicant's node is no sequential countersign | `MCCountersign` |
| `VotedThrough` | a node where every member votes is a task that is not the applicant's; what lies beyond it is reached from there or through it, and by no jump | `MCCountersign` |
| `OnTheWay` | no choice on the way: no decision, the tasks before a node lie on the one way to it, a branch is left at its last node, inside a branch nothing but the join stops the walk; no jump leads past a task, nobody rejects beside a sibling, a return never fails half way | `MCNested` |
| `RejectsAlone` | instances are rejected only in flows without forks and of one row a node | `MCTasks` |
| `LeadsOn` | no dead end: every node but the end leads on, a failing request is rolled back or cannot fail, a completion expression holds when nobody is left to vote | `MCNested` |

They are what the code can do, no more: section 5 gives for a fork a start reaches, the
record node in a branch, the
recall inside a fork, the countersign in a branch, the rejection beside a sibling and the
refused return without rollback the run in which a property fails. A decision, or a jump
forward, leaves tasks out because it is asked to, hence `OnTheWay`.

| Theorem | Hypothesis | Statement |
|---|---|---|
| `SomebodyCanAct` | `LeadsOn` | `Spec => []NoOrphanInstance` |
| `JoinsHoldBranches` | `WellNested`, `Disciplined` | `Spec => []JoinHoldsBranches` |
| `FinishedLeavesNothing` | the same | `Spec => []FinishedIsQuiet` |
| `AddSignNodeHolds` | the same | `Spec => []AddSignHolds` |
| `JoinsReleaseOnce` | and `ThroughJoin` | `Spec => []JoinReleasesOnce` |
| `OneTokenInEveryBranch` | and `SingleRows` | `Spec => []OneTokenPerBranch` |
| `SequentialIsSequential` | and `PlainFirst` | `Spec => []OneSequentialAtATime` |
| `EverybodyVotes` | and `VotedThrough` | `Spec => []EveryMemberVotes` |
| `EverythingIsDone` | and `OnTheWay` | `Spec => []NothingSkipped` |
| `EndsForGood` | and `RejectsAlone` | `Spec => TerminalFinal` |

The argument for all but the first is `TokenInv`. Of the rows it says that a row stands in
exactly the ranges its node lies in, inherited from its parent (`RowFits`), and that any two
open rows are `Apart`: fellow rows of one node that may have several, or `Parallel`, in one round of
one fork and in different branches of it. An applicant row counts for the place it owes a
return to (`Seat`). That is not inductive while a request walks: a row about to be made has no
place yet. `WalkOK` therefore says of the pending visits what will be needed of their rows: each
visit is apart from every open row and every other visit, and a range the walking row
brings along is one it is still inside of, at the join of, or past, and then `merge_ready` saw nobody
else of that round. A node that is neither task nor fork is visited alone. A row that takes
another's place (a successor, a revived parent, an answered return) is apart from what that one
was apart from; a fork opens one visit per branch, and their rows share a round named by
the walking row; a join is passed when nobody serves the round. Two lemmas about the static
analysis carry it: the searches reach a fixpoint within `Cardinality(Node)` rounds
(`AheadClosed`, `AheadLeast`), and a branch is left only through its join (`BranchOrBeyond`).
From `TokenInv` the properties follow in a few lines each, except `EndsForGood`, which also needs
that who rejects leaves no row open (`EndedInv`), `JoinsReleaseOnce`, `EverybodyVotes` and
`EverythingIsDone`.

`JoinReleasesOnce` speaks of all rows there ever were, `TokenInv` of the open ones. `ReleaseInv` adds
what is known of a round that was released, that is of a row that bears the round (`Bears`) and has a row
right behind the join below it (`Left`): no open row stands in the round any more, nor owes a return into it
(`Over`), and no second row left it; a row right behind a join has a parent that came through
the join (`CameThrough`); and during a walk only the walking row may have left a round it bears,
and then its visits lie beyond the join (`WalkReleased`). It is inductive because ranges
are only handed on: whoever holds a round got it from a row that was open (`Harmless`, `Lands`) or is in a
round just opened, which nobody has left, and a row that leaves a round does so in a walk for
which `TokenInv` has seen that nobody of the round is left. A reapplied row is no
release: it stands where the row it answers stood. `ThroughJoin` is what lets the property
read releases off the rows: an edge past the join, a jump or a further row on the same node would make rows there
that no join released.

`EveryMemberVotes` counts closed rows. `VoteInv` keeps the count (`Tallied`): on a countersign node without
veto a row is open or a vote; a parallel node has a row for every member as soon as it has
one; and the `loopCounter` of a sequential one, in its open row or left in the instance, which the gate
compares with the number of members, is never ahead of the votes. Hence an open gate means
as many votes as members (`GateCounts`), votes are not taken back (`EvolvesVotes`), and what lies beyond
the node, in rows or in pending visits, has passed the gate (`VotesOK`). Returns, rollbacks and
jumps back to the node start a further round whose votes add to the first, so the count says that
enough votes were cast, not by whom. That no vote is outstanding follows from `TokenInv`: an
open row of the node and one beyond it would have to be in different branches (`NoVoteOpen`).

`NothingSkipped` is about branches nobody is in any more. That all tasks before a row are done
(`AllDid` of `Earlier`) is kept by every step but one: past a join it takes that the other branches are
done too. `WorkInv` therefore says also that a range somebody is in, or ever was, has in each of its branches
somebody at work or about to be, or all the branch's tasks done (`Covered`, `Tended`). A fork
enters all its branches in one step; a row that completes goes on to the next node of its branch, and one
that leaves a branch has all of it behind it (`BranchGoesOn`); a returned or rolled back row keeps its place; what is done stays
done (`DidStays`, `Carries`). When `merge_ready` opens the join, nobody is inside its range
(`JoinEmpty`: an open row there would be `Parallel` to the arriving one in a range that is not this join's,
and then in its branch), so all branches are done and with them all that lies before the join (`JoinDone`);
when it does not, the row it waits for is in the branch the join is in (`JoinWaits`, `JoinInBranch`).

The argument for `SomebodyCanAct` (`MannedInv`): a running instance has an open row or a pending visit.
Each request leaves an open row or goes on to a visit, each visit makes a row or leads to another,
a gate or a join that stays closed does so because somebody is at work (`GateHolds`), and a failed request
restores a state that had somebody.

What the attempts found: the applicant's rows, which lie outside every branch, are apart from
the rows of a branch only through the row they owe a return to; and a return from inside a branch
that does not come back (`Detours` without `ReturnToSource`), a jump into a branch or a
rollback of one of several countersign rows leaves two tokens, so `Disciplined` excludes them.

### Instance lock and transactions

`InstanceTxProofs` proves of `InstanceTx`, for any number of branches and
requests and both isolation levels, provided the lock lies outside the
transaction and nobody withdraws (`LockedRequests`; the run `lock_in_tx` and the
withdrawal of section 5 show that neither can be dropped):

| Theorem | Statement |
|---|---|
| `SerialisedHolds` | `Spec => Serialised`, the refinement of InstanceAtomic |
| `CompletedOnceHolds` | `Spec => []CompletedOnce` |

The argument: a request holds the lock from taking it until its transaction has
ended (`Locked`), so nobody else commits meanwhile and what it has read is still
committed (`Current`); what it has written is the row it executes as done, the
other rows as committed, the instance as the join left it (`Drafted`). Its
commit is therefore the atomic execution; every other step is a stutter.

### Collect mode

`CollectProofs` proves of `Collect`, for any people, questions, rounds, hosts and
number of requests, under `TakesTurns`: questions, revocations and recalls do not run
beside other requests, members only answer, and recall no answer after the decision. It is the
setting of the run `collect`; the paragraphs of section 5 on `Alone`, `MemberSubmits` and
`Recallable` show each part to be needed.

| Theorem | Statement |
|---|---|
| `ModeIsAConsultation` | `Spec => Consulted`, the refinement of Consult |
| `LedgerAccountsForMembers` | `Spec => []LedgerAccounts` |

The argument: of the rows that are no members at most one is open, an open member has an
open host, and members have no children (`RowsInv`). So no member moves the token. The
gate is read before the lock but stays true, for no question is put and no answer recalled
while an execution is under way (`JobInv`), and for the same reason a question or a revocation
stores what it read. Every action then changes the state of one kind of row and appends rows
of one kind (`Becomes`): a step of Consult, or a stutter. The ledger needs more
(`LedgerInv`): `LedgerAccounts` counts rounds by the cardinality of the questions before an entry,
so the next round is one more than the last, and no member has a round beyond it.

### Definitions and designs

`DefinitionsProofs` proves of `Definitions`, for any calls, any number of requests that overlap in
any way but the one named, and a clock that may be set back:

| Theorem | Hypothesis | Statement |
|---|---|---|
| `InstancesAreKept` | no `remove` beside a `start` | `Spec => []InstancesKeepDefinition` |
| `StatesAreKept` | no `redeploy` or `redeployDesign` beside a deploy, a `redeployDesign` or `upAndDown` | `Spec => StateKept`; in memory, of definitions whose id the counter has passed (`Issued`) |
| `LastDeployedIsLatest` | no deploy beside a deploy, a `redeploy` or a `redeployDesign` | `Spec => [](repo = "sql" => LatestIsDeployed)` |
| `FlagsMeanDeployed` | no writing of a flag beside the saving of a draft or of a design | `Spec => []FlagMeansDeployed` |
| `DraftsStayInOrder` | fewer than 1000 ids in each millisecond (`Room`, a hypothesis on the behaviour) | `Spec /\ []Room => []DraftsInOrder` |

The argument is the same for each: a handler writes from what it read, so what a handler
under way has read must still say about the tables what the property needs (`StartSees`,
`RemoveSees`, `ReplaceSees`, `DeploySees`, `FlagSees`). The other handlers keep that, except those
the hypothesis keeps apart. `Effect` says of each handler what it may change, once, and
all five proofs use it. `InstancesAreKept` rests on removals only: a removed
definition has no instance among those read, and none has come since.

What the attempts found: the drafts saved by an overlapping request count in the
serial number of the others; an id given twice after a clock was set back makes two more
pairs harmful than the run can reach; and in memory `LatestIsDeployed` cannot be
proved, because it is false for an `update_define` of an id that comes later (section 5).

### Transactions and business rows

`PersistProofs` first proves of the steps of `TxScope`, in `Persist`'s setting, and without a hypothesis:

| Theorem | Statement |
|---|---|
| `ScopesKeepPromise` | `Spec => KeepsPromise`, the refinement of AfterCommit, for any number of requests, callbacks, connections and faults |
| `ScopeAlways` | `Spec => []ScopeInv`, the invariant behind it |

`ScopeInv` places each request among its blocks (`Placed`), says what it holds there
(`Holding`), and that the callbacks still to run are its own, in order, each once, and not run yet
(`Ordered`). Leaving the outermost transaction then is the commit or the rollback of
AfterCommit, running a callback its `Run`, and every other step a stutter.

It goes on with the business row:

| Theorem | Hypothesis | Statement |
|---|---|---|
| `RefusedValuesStayOut` | none | `Spec => []RefusedNeverStored` |
| `OneRowPerInstance` | requests overlap at the engine only (`Overlap \subseteq {"engine"}`) | `Spec => []OneBusinessRow` |
| `RowTellsWhatWasCommitted` | the same | `Spec => []RowTellsOutcome` |

The argument for the first: a form that passes a filter holds only vouched values, and pools are
made of vouched forms (`DataInv`). For the others: `AloneInv` says that two requests are under way only
where the lock is outside the transaction, so at most one is inside one (`OneInTx`);
`WorkInv` says of the committed data, and of what that one transaction sees, that there is one row at
most and that it tells the state, and that the transaction still inserts exactly while no row is
committed. Through the facade, with two connections, the hypothesis is needed (section 5).

### Task actors, cc and surrogates

`TaskActorsProofs` proves of `TaskActors`, for any people, calls, lists, old rows, records and
lengths of a behaviour, when requests take turns (`Overlap = FALSE`, as in the run `actors`;
section 5 says what overlapping ones do):

| Theorem | Statement |
|---|---|
| `TwinsAgreeHolds` | `Spec => []TwinsAgree` |
| `RemovedIsGoneHolds` | `Spec => []RemovedIsGone` |
| `CopiedOnceHolds` | `Spec => []CopiedOnce` |
| `LatestWordDecidesHolds` | `Spec => []LatestWordDecides` |
| `NeverEmptiedHolds` | `Spec => NeverEmptied` |

The lemmas come first: what `Keep`, `Merge`, `normalize_actors` and `expand` return for a list of
any length, by induction on its prefixes (the smallest prefix that fails has a predecessor,
`LeastOf`). From them each handler is shown to give both repositories the same answer and
store when they start from the same store.
That is not inductive alone (`TurnInv`). A request must still see what is stored when it writes
(`TurnsOK`), so one request at a time; cc rows must be plain and distinct, or SQL's join shows an
instance twice where memory shows it once (`StoresOK`); the newest record must be one, and it
is because ids are given out once, although records are rewritten and removed between
(`LedgerOK`); and an event was fired for each cc row, in order (`EventsOK`).

### Variables

`VariablesProofs` proves of `Variables`, for any path, assignment, people and rows, if those
who start instances are people and people are not `flow.auto` or `flow.admin` (`PeopleArePeople`):

| Theorem | Statement |
|---|---|
| `PeopleAreReached` | `Spec => []RowsReachTheirPeople` |
| `InitiatorStays` | `Spec => []InitiatorKept` |
| `ReadOnlyStays` | `Spec => FieldsKept` |

The invariant (`Clean`): neither the instance nor an open row holds a control key, so a submission names
whom its own arguments name; each `x` was given where it may be edited; and a row that a
person completed holds that person's data, so the applicant's row, brought back, reaches whom
it should. A completed row does hold control keys, and `_lineage_vars` drops them when it is
repeated. The proof found a path of one node, where `startAndExecute` ends the instance
and creates no second row, missing from the model; it is there now. If `flow.admin` starts an
instance, no `u_` keys are injected, which is why the hypothesis is needed.

### Only model-checked

* Liveness (`EventuallyEnds`, `AllAnswered`, `ConsultationEnds`, `EveryRequestEnds`): fairness and ENABLED
  are beyond the prover.
* The properties of `TokenProofs` in flows outside `FlowShape`, where they fail or were not tried.
* `TaskActors` with `Overlap`: there `CopiedOnce`, `NeverEmptied` and others fail (section 5).
* `LatestIsDeployed` and the overlaps in memory, Collect outside `TakesTurns`, InstanceTx with a
  withdrawal or the lock inside the transaction: there the properties fail, or hold by the
  bounds of the run only.

## 5. Not modelled, and left out of the runs

Shapes the models have but no passing run includes, because there the
properties do not hold of the code:

* A record node (`snaker:custom`) as a whole branch of a fork. `_exec_custom_node`
  passes the row before the fork on to the join, so the arrival has no range,
  `merge_ready` counts the doing rows of the whole instance, and the join may
  open once for the record node and once more for the other branch
  (`JoinReleasesOnce` fails with `Kind["A"] = "custom"` in MCFork).
* A fork a start reaches, `start -> F -> (A -> A2 / B -> B2) -> J -> C -> end`. A start does
  not set `_NEW_TASKS`, so `attach_created` is not called (`engine.py:1193`) and A and B have no
  ranges. A2 and B2 then open a round each, J releases to C on A2 while B is still open, and
  again on B2: `JoinHoldsBranches` fails on this flow after two executions, and executing it
  on `MemoryRepository` leaves two open rows on C. Branches of one task each fall back to
  counting the doing rows of the instance, and that is right when nothing else is open.
* Recalling a row inside a fork. The row `recall_task` creates has no
  `_branchCtx`, so the join does not wait for it.
* A sequential countersign inside a fork (`Turns = {"A"}` in MCFork). The next
  member is asked only if the whole instance has no doing row, so beside a live
  branch he never is, and the join opens without him (`EveryMemberVotes` fails).
* A RETURN_TO_SOURCE return of a countersign member over a repository without
  rollback (`Turns`, `ReturnToSource` and `Detours` = {"A"}, `Transactional = FALSE`,
  `Ops` with "return"). The row is completed before the return is refused
  (`NoOrphanInstance` fails).
* Launching, revoking and recalling beside other requests over a SQL repository
  (`Alone = {}` in Collect). Launch and revocation take no lock and store rows as
  they were read, and the gate is read before the lock: a decided host is
  reopened, an answer given meanwhile becomes abandoned, a host decides
  while a question is open (`Consulted` fails).
* Recalling an answer after the host has decided (`"late"` in `Recallable`). The
  revived member's answer finds nobody doing on the node and moves the token a
  second time (`Consulted` fails).

* A row recalled twice. The revived row takes the parent of the recalled one, so
  `collect_descendants` does not meet it and nothing forbids recalling the old
  row again: two live rows on one node (`OneTokenPerBranch` fails in MCFork with
  `Ops` of the recall run), although `recall.py:45` speaks of "the only live todo".
* Rejecting from one branch of a fork. The sibling row stays open, `_load_and_check`
  does not look at the instance's state, and executing the row makes a
  rejected instance a finished one (`TerminalFinal` fails in MCFork with "reject"
  in `Submits` and `Ops`), although `engine.py:765` calls the state terminal.
* A collect member who rejects (`"reject"` in `MemberSubmits`). The gate checks only the
  host, so a member's reject ends the instance, although `collect.py:19` leaves
  the decision to the host.
* A withdrawal beside the last execution. It checks a state it read before and
  writes without a condition, so a finished instance becomes withdrawn (InstanceTx, `Facade.cfg`:
  a step from "finished" to "withdrawn" is reachable), which `model.py:214` means to exclude.
* A removal from rows with blanks around a name. It keeps one row that is not blank when
  trimmed, and `facade.py:1762` and `tests/test_remove_task_actor_115.py:400` call that the number of
  people who can complete the task; `is_allowed` (`model.py:344`) compares names as they
  stand. Removing b from ` a `, `b` leaves a task only `flow.auto` and `flow.admin` can complete.
  `NeverEmptied` therefore speaks of names; with the plain names alone it fails in `TaskActors.cfg`.
* Overlapping requests on one task (`Overlap = TRUE` in TaskActors): two removals
  empty it, two transfers leave two successors, two copies or additions two rows
  (the tables have no unique key), and transfer's `update_task` revives a task that
  was completed after it was read (`facade.py:1662`).
* The overlaps in `MCApart`: two deploys give one version twice, a redeploy undoes
  upAndDown, a removal beside a start orphans the instance, a draft saved while
  the design is deployed is called deployed.
* Two submits of one task at once through the facade over a pool of two (`Overlap` with
  "facade", `Connections = 2` in Persist): under snapshot reads both insert a business row.
* A clock set back: `TsIDGenerator` repeats ids, and the INSERT of the second fails.

Assumed of clients and wiring, and not of the code:

* Requests come through the facade or go to the engine (`way`). Facade requests hold a
  connection while they wait for the lock, engine requests hold the lock while
  they wait for a connection: mixed over an exhausted pool they wait for good.
* A listener, interceptor or callback inside the lock does not call the engine on the
  same instance: `asyncio.Lock` is not reentrant.
* The business table exists, and writer and definition loader are injected.
* An action that fails inside a caller's own `with_tx` is not caught there. If it
  is, what it did is committed with the rest, and its callbacks run.
* A start carries no control keys. Start arguments are stored whole, so a
  `tf_nextNodeOperator` given to `start` names the actors of every later node
  (the docstring of `_merge_exec_into_instance` leaves that hop out on purpose).

What the code does and its comments or its other repository do not say, met while modelling:

* `PersistPostInterceptor`'s docstring has the end node write the final state "whether the process
  succeeds or fails" (`persist.py:369` ff.); the facade's reject and withdraw never execute an end
  node, so the column stays empty. The SYNC row is inserted at the first node whose
  post interceptors run, filtered by that node's permissions. Return and reject
  merge fields into the instance without updating the row.
* `facade.py:423` counts versions "from 0"; `save_define` over SQL stores 1 for 0. In memory
  the latest definition of a name is the highest id, over SQL the highest version, and `update_define` of a missing id inserts.
  So in memory a redeploy of an id that was not given yet makes every later deploy older than it,
  and the deploy that is given this id replaces the row, state included (`memory.py:64`): a
  definition that was disabled is enabled again, and `StateKept` fails without `Issued`. The run
  redeploys the id that comes next; one further ahead breaks `LatestIsDeployed` in memory.
* `_ic_cache` and `_ic_root_cache` (`engine.py:155`) are keyed by definition id and never
  cleared: after a redeploy the interceptors of the old content go on running.
* Return assigns the first node "to the applicant" (`engine.py:884`), unless the request
  carries `tf_nextNodeOperator`. A row brought back restores its field values over
  later ones, also at a read-only node. A row whose predecessor `flow.admin`
  completed goes back to `flow.admin`. An assignee token whose variable is missing is
  itself the actor. `flow.auto` has no department, so its leader is nobody.
* The facade turns `submitType` 0 into 1 (`facade.py:577` ff.); the engine itself accepts a
  request without one, and then the end node decides on what an earlier request left (`engine.py:1211`).
* In memory, `find_history_tasks` returns the actors a task was saved with, over SQL the rows
  as they are; paging and order of `page_surrogates` and `page_designs` are ignored in memory;
  lists ascend in memory and descend over SQL; the bounds and rounding of statistics differ,
  and `stats_avg_completed_duration_seconds` of `base.py` subtracts datetimes, which MySQL does
  not give in seconds. `upAndDown`'s state is not looked at by start.

The components marked `not_modelled` in `PROJECT.json`, with reasons: the
evaluator and the metadata are pure tables and functions, queries and statistics
change no state, the demo is wiring. In the engine: interceptors that refuse a node,
due times, and flows with cycles (whose rollback check may not terminate in the code).

## 6. Plan

1. InstanceTx: the entries without the lock (reject, return, jump), callers with
   a transaction of their own.
2. Proofs: flows with decisions, for `NothingSkipped`, where the tasks a choice leaves out would have to be
   named; countersign nodes inside a branch, where the code itself would have to change.
