------------------------------- MODULE Collect -------------------------------
(***************************************************************************)
(* The collect mode of a task node (dynamicCountersign): a submit that      *)
(* names people leaves the host's row open and puts a member row under it   *)
(* for each of them; a gate refuses the host until all of them have         *)
(* answered or were revoked (jeeflow/collect.py, facade.py, engine.py).     *)
(*                                                                         *)
(* The flow is  start -> apply -> review -> final -> end  with the mode on  *)
(* review. A request reads in the facade first (seen), without              *)
(* instance_lock, and acts in a later step; other requests may come in     *)
(* between, except where Alone says that clients wait for one another.     *)
(***************************************************************************)
EXTENDS Naturals, Sequences, FiniteSets

CONSTANTS
  Request,        \* requests under way at a time
  Alone,          \* requests clients do not make beside others: "ask", "revoke", "recall"
  Person,
  Askable,        \* the lists of people a host may name, in which nobody comes twice
  MaxRounds,      \* addSignMaxRounds, 0 for no limit
  HostSubmits,    \* what the holders of host and final rows submit beside "agree"
  MemberSubmits,  \* and the members
  Recallable,     \* who recalls (allowRecall): "host", "member", "late" after the host decided
  MaxRows         \* bound: rows before clients only agree

ASSUME CollectAssumption ==
  /\ Askable \subseteq Seq(Person)
  /\ \A ops \in Askable : ops # <<>> /\ \A i, j \in DOMAIN ops : ops[i] = ops[j] => i = j
  /\ MaxRounds \in Nat /\ MaxRows \in Nat
  /\ HostSubmits \subseteq {"reject", "return"} /\ MemberSubmits \subseteq {"reject", "return"}
  /\ Recallable \subseteq {"host", "member", "late"}

VARIABLES
  inst,   \* state of the instance
  rows,   \* its task rows; the index is the id, parent 0 is none
  job     \* [Request -> what it has read and is about to do]

vars == <<inst, rows, job>>

Row(node, parent, who, round) ==
  [node |-> node, parent |-> parent, who |-> who, state |-> "doing", round |-> round, ledger |-> <<>>]
NoJob == [op |-> "none", row |-> 0, to |-> <<>>, submit |-> "agree", seen |-> <<>>]

Named(ops) == {ops[i] : i \in DOMAIN ops}
DoingOn(rs, n) == {i \in DOMAIN rs : rs[i].node = n /\ rs[i].state = "doing"}
Abandon(row) == [row EXCEPT !.state = "abandoned"]
Close(rs, ids) == [i \in DOMAIN rs |-> IF i \in ids THEN Abandon(rs[i]) ELSE rs[i]]
Complete(rs, t) == [rs EXCEPT ![t].state = "done"]

-----------------------------------------------------------------------------
(* collect.py. A definition named after a fault is that fault seeded into   *)
(* the definition after it; the model does not use it.                     *)

MemberRows(rs, h) == {m \in DOMAIN rs : rs[m].parent = h /\ rs[m].node = rs[h].node}
IsMember(rs, t) == rs[t].parent # 0 /\ rs[rs[t].parent].node = rs[t].node
Pending_AnyRow(rs, h) == {m \in DOMAIN rs : rs[m].parent = h /\ rs[m].state = "doing"}
Pending(rs, h) == {m \in MemberRows(rs, h) : rs[m].state = "doing"}

LastRound_Entries(row) == Len(row.ledger)
LastRound(row) == IF row.ledger = <<>> THEN 0 ELSE row.ledger[Len(row.ledger)].round

Noted(row, round, who, revoked) ==
  [row EXCEPT !.ledger = Append(@, [round |-> round, to |-> who, revoked |-> revoked])]

-----------------------------------------------------------------------------
(* What the facade reads and refuses before anything is written.           *)

Free(r, op) ==
  /\ job[r].op = "none"
  /\ \A q \in Request : job[q].op # "none" => {op, job[q].op} \cap Alone = {}
Take(r, op, t, to, submit) ==
  /\ Free(r, op)
  /\ job' = [job EXCEPT ![r] = [op |-> op, row |-> t, to |-> to, submit |-> submit,
                                 seen |-> IF op = "execute" THEN <<>> ELSE rows]]
  /\ UNCHANGED <<inst, rows>>

Room == Len(rows) < MaxRows

\* _try_dynamic_countersign: nobody who has not answered yet is asked again.
StartAsk(r, h, ops) ==
  /\ rows[h].node = "review" /\ rows[h].state = "doing" /\ ~IsMember(rows, h) /\ Room
  /\ MaxRounds = 0 \/ LastRound(rows[h]) < MaxRounds
  /\ \A m \in Pending(rows, h) : rows[m].who \notin Named(ops)
  /\ Take(r, "ask", h, ops, "agree")

\* _processTask_revokeDynamicCountersign looks for members who have not answered,
\* whatever the state of the host.
StartRevoke(r, h) ==
  /\ rows[h].node = "review" /\ Pending(rows, h) # {}
  /\ Take(r, "revoke", h, <<>>, "agree")

\* _gate_dynamic_countersign refuses every submit of a host with pending members.
Gate_AgreeOnly(t, submit) == submit # "agree" \/ IsMember(rows, t) \/ Pending(rows, t) = {}
Gate(t, submit) == rows[t].node = "review" => IsMember(rows, t) \/ Pending(rows, t) = {}
MaySubmit(t, submit) ==
  \/ submit = "agree"
  \/ /\ rows[t].node # "apply" /\ Room
     /\ submit \in IF IsMember(rows, t) THEN MemberSubmits ELSE HostSubmits
StartExecute(r, t, submit) ==
  /\ rows[t].state = "doing" /\ MaySubmit(t, submit)
  /\ Gate(t, submit)
  /\ Take(r, "execute", t, <<>>, submit)

-----------------------------------------------------------------------------
(* What the request then does.                                             *)

Doing(r, op) == job[r].op = op
Done(r) == job' = [job EXCEPT ![r] = NoJob]

\* create_collect_member_rows, then update_task of the host as it was read.
Ask(r) ==
  LET h == job[r].row
      ops == job[r].to
      host == job[r].seen[h]
      round == LastRound(host) + 1
  IN /\ Doing(r, "ask")
     /\ rows' = [rows EXCEPT ![h] = Noted(host, round, Named(ops), FALSE)]
                \o [i \in DOMAIN ops |-> Row("review", h, ops[i], round)]
     /\ Done(r)
     /\ UNCHANGED inst

\* update_task of each pending member and of the host, as they were read.
Revoke(r) ==
  LET h == job[r].row
      seen == job[r].seen
      revoked == Pending(seen, h)
      host == Noted(seen[h], LastRound(seen[h]), {seen[m].who : m \in revoked}, TRUE)
  IN /\ Doing(r, "revoke")
     /\ rows' = [i \in DOMAIN rows |->
                   CASE i = h -> host
                     [] i \in revoked -> Abandon(seen[i])
                     [] OTHER -> rows[i]]
     /\ Done(r)
     /\ UNCHANGED inst

\* The engine's side of an execution reads once more, under the lock.
Executes(r, submit) == Doing(r, "execute") /\ job[r].submit = submit /\ rows[job[r].row].state = "doing"

\* execute_process_task: the node is left once nobody on it is doing any more.
Stays(r) == LET t == job[r].row IN rows[t].node = "review" /\ DoingOn(Complete(rows, t), "review") # {}
Stay(r) ==
  /\ Executes(r, "agree") /\ Stays(r)
  /\ rows' = Complete(rows, job[r].row)
  /\ Done(r)
  /\ UNCHANGED inst
Move(r) ==
  LET t == job[r].row
  IN /\ Executes(r, "agree") /\ ~Stays(r)
     /\ IF rows[t].node = "final"
        THEN rows' = Complete(rows, t) /\ inst' = "finished"
        ELSE /\ rows' = Append(Complete(rows, t),
                               Row(IF rows[t].node = "apply" THEN "review" ELSE "final", t, "", 0))
             /\ UNCHANGED inst
     /\ Done(r)

\* _abandon_add_sign_doing, on nodes of the collect mode only.
Cleared(t) ==
  IF rows[t].node = "review" THEN Close(Complete(rows, t), DoingOn(Complete(rows, t), "review"))
  ELSE Complete(rows, t)
Reject(r) ==
  /\ Executes(r, "reject")
  /\ rows' = Cleared(job[r].row) /\ inst' = "rejected"
  /\ Done(r)
Return(r) ==
  /\ Executes(r, "return")
  /\ rows' = Append(Cleared(job[r].row), Row("apply", job[r].row, "", 0))
  /\ Done(r)
  /\ UNCHANGED inst

\* Someone else has closed the row meanwhile.
Refuse(r) ==
  /\ Doing(r, "execute") /\ rows[job[r].row].state # "doing"
  /\ Done(r)
  /\ UNCHANGED <<inst, rows>>

\* recall_task of a row of review: nothing that came of it may be done yet. The revived
\* row takes neither the round nor the ledger of the old one.
Below(rs, t) ==
  LET below[i \in 0..Len(rs)] == i # 0 /\ (rs[i].parent = t \/ below[rs[i].parent])
  IN {i \in DOMAIN rs : below[i]}
Role(t) ==
  IF ~IsMember(rows, t) THEN "host" ELSE IF rows[rows[t].parent].state = "doing" THEN "member" ELSE "late"
Recall(r, t) ==
  /\ Free(r, "recall") /\ Room
  /\ inst = "doing" /\ rows[t].node = "review" /\ rows[t].state = "done" /\ Role(t) \in Recallable
  /\ \A d \in Below(rows, t) : rows[d].state # "done"
  /\ rows' = Append(Close(rows, {d \in Below(rows, t) : rows[d].state = "doing"}),
                    Row("review", rows[t].parent, rows[t].who, 0))
  /\ UNCHANGED <<inst, job>>

-----------------------------------------------------------------------------
Init ==
  /\ inst = "doing"
  /\ rows = <<Row("apply", 0, "", 0)>>
  /\ job = [r \in Request |-> NoJob]

Finish(r) == Ask(r) \/ Revoke(r) \/ Stay(r) \/ Move(r) \/ Reject(r) \/ Return(r) \/ Refuse(r)

Next ==
  \E r \in Request :
    \/ Finish(r)
    \/ \E t \in DOMAIN rows :
         \/ \E ops \in Askable : StartAsk(r, t, ops)
         \/ StartRevoke(r, t)
         \/ \E submit \in {"agree", "reject", "return"} : StartExecute(r, t, submit)
         \/ Recall(r, t)

Spec == Init /\ [][Next]_vars

\* A request goes on by itself, and someone keeps agreeing on some open row.
FairSpec ==
  /\ Spec
  /\ WF_vars(\E r \in Request : Finish(r))
  /\ WF_vars(\E r \in Request : \E t \in DOMAIN rows : StartExecute(r, t, "agree"))

-----------------------------------------------------------------------------
(* Properties.                                                             *)

HostRows(state) == {h \in DOMAIN rows : rows[h].node = "review" /\ ~IsMember(rows, h) /\ rows[h].state = state}
Questions(state) ==
  {<<rows[m].parent, m>> : m \in {n \in DOMAIN rows : IsMember(rows, n) /\ rows[n].state = state}}

\* Whatever hosts, members and applicants do, the rows are a consultation: "the decision
\* is always the host's" (collect.py), it is made once, after every question has been
\* answered or revoked, it alone moves the token, and no answer is lost.
Poll == INSTANCE Consult WITH
  hosts <- HostRows("doing"), open <- Questions("doing"), answered <- Questions("done"),
  decided <- HostRows("done"),
  moved <- {rows[f].parent : f \in {n \in DOMAIN rows : rows[n].node = "final"}}
Consulted == Poll!Spec

\* The host's ledger accounts for its member rows: launches are numbered 1, 2, ... (a
\* revocation uses up no round), each names whom its round asked, and each person whose
\* row was abandoned is named by a revocation.
LedgerAccounts ==
  \A h \in HostRows("doing") \cup HostRows("done") :
    LET ledger == rows[h].ledger
        Launches(n) == {i \in 1..n : ~ledger[i].revoked}
        Asked(round) == {rows[m].who : m \in {n \in MemberRows(rows, h) : rows[n].round = round}}
    IN \A i \in DOMAIN ledger :
         /\ ledger[i].round = Cardinality(Launches(i))
         /\ ~ledger[i].revoked => ledger[i].to = Asked(ledger[i].round)
         /\ {rows[m].who : m \in {n \in MemberRows(rows, h) : rows[n].state = "abandoned"}}
              = UNION {ledger[k].to : k \in DOMAIN ledger \ Launches(Len(ledger))}

\* Gate, stay and revocation never leave host and members waiting for one another.
ConsultationEnds == <>(inst # "doing")
=============================================================================
