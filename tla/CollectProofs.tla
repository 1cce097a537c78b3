--------------------------- MODULE CollectProofs ---------------------------
(***************************************************************************)
(* The collect mode keeps what Consult promises (Consulted), and the host's *)
(* ledger accounts for its member rows (LedgerAccounts), for any people,    *)
(* rounds, hosts and number of requests, provided clients take turns with   *)
(* questions, revocations and recalls, members only answer, and recall no   *)
(* answer once the host has decided (TakesTurns; section 5 of the README    *)
(* tells what happens otherwise).                                           *)
(*                                                                         *)
(* The argument. Of the rows that are no members at most one is open (the   *)
(* token), an open member has an open host, and members have no children    *)
(* (RowsInv). So a member never moves the token, and the only row that      *)
(* could answer for others is the host; its gate is read before the lock,   *)
(* but stays true, because no question is put and no answer recalled while  *)
(* an execution is under way (JobInv). For the same reason a question and a *)
(* revocation store what they read. Every action then changes the state of  *)
(* one kind of row and appends rows of one kind (Becomes), which is a step  *)
(* of Consult or a stutter.                                                 *)
(***************************************************************************)
EXTENDS Collect, FiniteSetTheorems, SequenceTheorems, WellFoundedInduction, TLAPS

TakesTurns ==
  /\ {"ask", "revoke", "recall"} \subseteq Alone
  /\ MemberSubmits = {}
  /\ Recallable \subseteq {"member"}

-----------------------------------------------------------------------------
(* The inductive invariant.                                                *)

Nobody == ""
Whom == Person \cup {Nobody}
Entry == [round : Nat, to : SUBSET Whom, revoked : BOOLEAN]
TaskRow == [node : {"apply", "review", "final"}, parent : Nat, who : Whom,
            state : {"doing", "done", "abandoned"}, round : Nat, ledger : Seq(Entry)]
Job == [op : {"none", "ask", "revoke", "execute"}, row : Nat, to : Askable \cup {<<>>},
        submit : {"agree", "reject", "return"}, seen : Seq(TaskRow)]

TypeInv ==
  /\ inst \in {"doing", "finished", "rejected"}
  /\ rows \in Seq(TaskRow)
  /\ job \in [Request -> Job]

\* Where the row of a node comes from.
Comes(rs, i) ==
  /\ rs[i].parent < i
  /\ CASE rs[i].node = "apply" ->
            rs[i].parent # 0 => rs[rs[i].parent].node \in {"review", "final"}
       [] rs[i].node = "final" -> rs[i].parent # 0 /\ rs[rs[i].parent].node = "review"
       [] OTHER -> rs[i].parent # 0 /\ rs[rs[i].parent].node \in {"apply", "review"}

\* One token; members under an open host, and nothing under members.
RowsInv ==
  /\ \A i \in 1..Len(rows) : Comes(rows, i)
  /\ \A i \in 1..Len(rows) : rows[i].parent # 0 => ~IsMember(rows, rows[i].parent)
  /\ \A i \in 1..Len(rows) :
       IsMember(rows, i) /\ rows[i].state = "doing" => rows[rows[i].parent].state = "doing"
  /\ \A i, k \in 1..Len(rows) :
       /\ rows[i].state = "doing" /\ ~IsMember(rows, i)
       /\ rows[k].state = "doing" /\ ~IsMember(rows, k)
       => i = k
  /\ \A i \in 1..Len(rows) : ~IsMember(rows, i) => rows[i].state # "abandoned"

\* Questions and revocations are under way alone, with what they read; the gate of
\* an execution still holds.
AloneOn(r) ==
  /\ job[r].seen = rows
  /\ \A q \in Request : q # r => job[q].op = "none"
  /\ job[r].row \in 1..Len(rows) /\ rows[job[r].row].node = "review"
JobInv ==
  \A r \in Request :
    /\ job[r].op = "ask" =>
         /\ AloneOn(r) /\ job[r].to \in Askable
         /\ rows[job[r].row].state = "doing" /\ ~IsMember(rows, job[r].row)
    /\ job[r].op = "revoke" => AloneOn(r) /\ Pending(rows, job[r].row) # {}
    /\ job[r].op = "execute" =>
         /\ job[r].row \in 1..Len(rows)
         /\ IsMember(rows, job[r].row) => job[r].submit = "agree"
         /\ rows[job[r].row].node = "apply" => job[r].submit = "agree"
         /\ rows[job[r].row].node = "review" /\ ~IsMember(rows, job[r].row) =>
              Pending(rows, job[r].row) = {}

ConsultInv == TypeInv /\ RowsInv /\ JobInv

\* The ledger: what LedgerAccounts says, of every host, and the rounds of its members.
Host(rs, h) == rs[h].node = "review" /\ ~IsMember(rs, h)
Launched(ledger, n) == {i \in 1..n : ~ledger[i].revoked}
AskedIn(rs, h, round) == {rs[m].who : m \in {n \in MemberRows(rs, h) : rs[n].round = round}}
Dropped(rs, h) == {rs[m].who : m \in {n \in MemberRows(rs, h) : rs[n].state = "abandoned"}}
Recorded(ledger) == UNION {ledger[k].to : k \in DOMAIN ledger \ Launched(ledger, Len(ledger))}

Accounts(rs, h) ==
  /\ \A i \in DOMAIN rs[h].ledger :
       /\ rs[h].ledger[i].round = Cardinality(Launched(rs[h].ledger, i))
       /\ ~rs[h].ledger[i].revoked => rs[h].ledger[i].to = AskedIn(rs, h, rs[h].ledger[i].round)
  /\ Dropped(rs, h) = Recorded(rs[h].ledger)
  /\ \A m \in MemberRows(rs, h) : rs[m].round <= LastRound(rs[h])
LedgerInv == \A h \in 1..Len(rows) : Host(rows, h) => Accounts(rows, h)

-----------------------------------------------------------------------------
(* What the actions make of the rows.                                      *)

\* The rows of T take the state s, led's ledger gets the entry e, and more is appended.
Becomes(T, s, led, e, more) ==
  /\ rows' \in Seq(TaskRow) /\ more \in Seq(TaskRow)
  /\ Len(rows') = Len(rows) + Len(more)
  /\ \A i \in 1..Len(rows) :
       /\ rows'[i].node = rows[i].node /\ rows'[i].parent = rows[i].parent
       /\ rows'[i].who = rows[i].who /\ rows'[i].round = rows[i].round
       /\ rows'[i].state = IF i \in T THEN s ELSE rows[i].state
       /\ rows'[i].ledger = IF i = led THEN Append(rows[i].ledger, e) ELSE rows[i].ledger
  /\ \A k \in 1..Len(more) : rows'[Len(rows) + k] = more[k]

\* A question: members appear under an open host. A launch notes a new round.
Puts(h, led, e, more) ==
  /\ Becomes({}, "doing", led, e, more)
  /\ h \in 1..Len(rows) /\ Host(rows, h) /\ rows[h].state = "doing" /\ Len(more) # 0
  /\ \A k \in 1..Len(more) :
       /\ more[k].node = "review" /\ more[k].parent = h /\ more[k].state = "doing"
       /\ more[k].ledger = <<>>
  /\ \/ led = 0 /\ \A k \in 1..Len(more) : more[k].round = 0
     \/ /\ led = h
        /\ e = [round |-> LastRound(rows[h]) + 1, to |-> {more[k].who : k \in 1..Len(more)},
                revoked |-> FALSE]
        /\ \A k \in 1..Len(more) : more[k].round = LastRound(rows[h]) + 1

\* A revocation: the open members of a host are dropped and noted.
Drops(h, e) ==
  /\ Becomes(Pending(rows, h), "abandoned", h, e, <<>>)
  /\ h \in 1..Len(rows) /\ Pending(rows, h) # {}
  /\ e = [round |-> LastRound(rows[h]), to |-> {rows[m].who : m \in Pending(rows, h)},
          revoked |-> TRUE]

\* An answer: a member under an open host is through.
Answers(t) ==
  /\ Becomes({t}, "done", 0, 0, <<>>)
  /\ t \in 1..Len(rows) /\ IsMember(rows, t) /\ rows[t].state = "doing"

\* The nodes a submission, a return and a decision lead to.
Follows(n, next) ==
  \/ n = "apply" /\ next = "review"
  \/ n = "review" /\ next \in {"final", "apply"}
  \/ n = "final" /\ next = "apply"

\* A decision, or a step before or after the node: the token is through, and goes on
\* to one other row at most.
Passes(t, more) ==
  /\ Becomes({t}, "done", 0, 0, more)
  /\ t \in 1..Len(rows) /\ ~IsMember(rows, t) /\ rows[t].state = "doing"
  /\ Host(rows, t) => Pending(rows, t) = {}
  /\ \/ more = <<>>
     \/ /\ Len(more) = 1 /\ more[1].parent = t /\ more[1].state = "doing"
        /\ more[1].ledger = <<>>
        /\ Follows(rows[t].node, more[1].node)

Change ==
  \/ rows' = rows
  \/ \E h, led, e, more : Puts(h, led, e, more)
  \/ \E h, e : Drops(h, e)
  \/ \E t : Answers(t)
  \/ \E t, more : Passes(t, more)

-----------------------------------------------------------------------------
(* Rows.                                                                   *)

LEMMA FunctionIsSeq ==
  ASSUME NEW S, NEW n \in Nat, NEW f \in [1..n -> S]
  PROVE  f \in Seq(S) /\ Len(f) = n /\ DOMAIN f = 1..n
<1>1. f \in Seq(S)
  BY SeqDef
<1>2. DOMAIN f = 1..n
  OBVIOUS
<1>. QED
  BY <1>1, <1>2, LenProperties

\* What a sequence of rows is.
LEMMA RowsAre ==
  ASSUME TypeInv
  PROVE  /\ rows \in Seq(TaskRow) /\ DOMAIN rows = 1..Len(rows) /\ Len(rows) \in Nat
         /\ \A i \in 1..Len(rows) :
              /\ rows[i] \in TaskRow /\ rows[i].parent \in Nat /\ rows[i].who \in Whom
              /\ rows[i].node \in {"apply", "review", "final"}
              /\ rows[i].state \in {"doing", "done", "abandoned"}
              /\ rows[i].round \in Nat /\ rows[i].ledger \in Seq(Entry)
<1>1. rows \in Seq(TaskRow)
  BY DEF TypeInv
<1>2. DOMAIN rows = 1..Len(rows) /\ Len(rows) \in Nat
  BY <1>1
<1>3. \A i \in 1..Len(rows) : rows[i] \in TaskRow
  BY <1>1
<1>4. \A i \in 1..Len(rows) :
        /\ rows[i].parent \in Nat /\ rows[i].who \in Whom
        /\ rows[i].node \in {"apply", "review", "final"}
        /\ rows[i].state \in {"doing", "done", "abandoned"}
        /\ rows[i].round \in Nat /\ rows[i].ledger \in Seq(Entry)
  <2> SUFFICES ASSUME NEW i \in 1..Len(rows)
               PROVE  /\ rows[i].parent \in Nat /\ rows[i].who \in Whom
                      /\ rows[i].node \in {"apply", "review", "final"}
                      /\ rows[i].state \in {"doing", "done", "abandoned"}
                      /\ rows[i].round \in Nat /\ rows[i].ledger \in Seq(Entry)
    OBVIOUS
  <2>1. rows[i] \in TaskRow
    BY <1>3
  <2>. QED
    BY <2>1 DEF TaskRow
<1>. QED
  BY <1>1, <1>2, <1>3, <1>4

\* Parents, and what a member is.
LEMMA MembersAre ==
  ASSUME TypeInv, RowsInv
  PROVE  /\ \A i \in 1..Len(rows) : rows[i].parent < i
         /\ \A i \in 1..Len(rows) : rows[i].parent # 0 => rows[i].parent \in 1..Len(rows)
         /\ \A i \in 1..Len(rows) : IsMember(rows, i) =>
              /\ rows[i].node = "review" /\ rows[i].parent \in 1..Len(rows)
              /\ Host(rows, rows[i].parent)
         /\ \A h \in 1..Len(rows) : MemberRows(rows, h) =
              {m \in 1..Len(rows) : rows[m].parent = h /\ IsMember(rows, m)}
<1>1. \A i \in 1..Len(rows) : rows[i].parent < i /\ rows[i].parent \in Nat
  BY RowsAre DEF RowsInv, Comes
<1>2. \A i \in 1..Len(rows) : rows[i].parent # 0 => rows[i].parent \in 1..Len(rows)
  BY <1>1, RowsAre
<1>3. ASSUME NEW i \in 1..Len(rows), IsMember(rows, i)
      PROVE  /\ rows[i].node = "review" /\ rows[i].parent \in 1..Len(rows)
             /\ Host(rows, rows[i].parent)
  <2>1. /\ rows[i].parent # 0 /\ rows[rows[i].parent].node = rows[i].node
        /\ rows[i].parent \in 1..Len(rows) /\ ~IsMember(rows, rows[i].parent)
    BY <1>2, <1>3 DEF IsMember, RowsInv
  <2>2. rows[i].node = "review"
    BY <2>1, RowsAre DEF RowsInv, Comes
  <2>. QED
    BY <2>1, <2>2 DEF Host
<1>4. \A h \in 1..Len(rows) : MemberRows(rows, h) =
        {m \in 1..Len(rows) : rows[m].parent = h /\ IsMember(rows, m)}
  BY RowsAre DEF MemberRows, IsMember
<1>. QED
  BY <1>1, <1>2, <1>3, <1>4

-----------------------------------------------------------------------------
(* Each action is such a change.                                           *)

\* A row in another state, with another ledger.
LEMMA RowState ==
  ASSUME NEW row \in TaskRow, NEW s \in {"doing", "done", "abandoned"}, NEW q,
         q = [row EXCEPT !.state = s]
  PROVE  /\ q \in TaskRow /\ q.node = row.node /\ q.parent = row.parent /\ q.who = row.who
         /\ q.round = row.round /\ q.state = s /\ q.ledger = row.ledger
BY DEF TaskRow

LEMMA RowNoted ==
  ASSUME NEW row \in TaskRow, NEW e \in Entry, NEW q,
         q = [row EXCEPT !.ledger = Append(row.ledger, e)]
  PROVE  /\ q \in TaskRow /\ q.node = row.node /\ q.parent = row.parent /\ q.who = row.who
         /\ q.round = row.round /\ q.state = row.state /\ q.ledger = Append(row.ledger, e)
<1>1. Append(row.ledger, e) \in Seq(Entry)
  BY DEF TaskRow
<1>2. PICK l : l = Append(row.ledger, e) /\ l \in Seq(Entry)
  BY <1>1
<1>3. q = [row EXCEPT !.ledger = l]
  BY <1>2
<1>4. /\ q \in TaskRow /\ q.node = row.node /\ q.parent = row.parent /\ q.who = row.who
      /\ q.round = row.round /\ q.state = row.state /\ q.ledger = l
  BY <1>2, <1>3 DEF TaskRow
<1>. QED
  BY <1>2, <1>4

LEMMA NewRow ==
  ASSUME NEW n \in {"apply", "review", "final"}, NEW p \in Nat, NEW w \in Whom, NEW k \in Nat
  PROVE  /\ Row(n, p, w, k) \in TaskRow
         /\ Row(n, p, w, k).node = n /\ Row(n, p, w, k).parent = p /\ Row(n, p, w, k).who = w
         /\ Row(n, p, w, k).round = k /\ Row(n, p, w, k).state = "doing"
         /\ Row(n, p, w, k).ledger = <<>>
<1>1. <<>> \in Seq(Entry)
  OBVIOUS
<1>. QED
  BY <1>1 DEF Row, TaskRow

\* An index is a number; the row that follows another is for nobody in particular.
LEMMA IndexIs ==
  ASSUME NEW n \in Nat, NEW t \in 1..n
  PROVE  t \in Nat
OBVIOUS

LEMMA NextRow ==
  ASSUME NEW t \in Nat, NEW n \in {"apply", "review", "final"}
  PROVE  /\ Row(n, t, Nobody, 0) \in TaskRow /\ Row(n, t, Nobody, 0).node = n
         /\ Row(n, t, Nobody, 0).parent = t /\ Row(n, t, Nobody, 0).state = "doing"
         /\ Row(n, t, Nobody, 0).ledger = <<>>
<1>1. Nobody \in Whom
  BY Zenon DEF Whom, Nobody
<1>. QED
  BY <1>1, NewRow

LEMMA OneRow ==
  ASSUME NEW row \in TaskRow
  PROVE  <<row>> \in Seq(TaskRow) /\ Len(<<row>>) = 1 /\ <<row>>[1] = row
OBVIOUS

\* Rows changed one by one, with others behind them.
LEMMA RowsBecome ==
  ASSUME TypeInv, NEW T, NEW s, NEW led, NEW e, NEW more \in Seq(TaskRow),
         NEW mid \in Seq(TaskRow), Len(mid) = Len(rows), rows' = mid \o more,
         \A i \in 1..Len(rows) :
           /\ mid[i].node = rows[i].node /\ mid[i].parent = rows[i].parent
           /\ mid[i].who = rows[i].who /\ mid[i].round = rows[i].round
           /\ mid[i].state = IF i \in T THEN s ELSE rows[i].state
           /\ mid[i].ledger = IF i = led THEN Append(rows[i].ledger, e) ELSE rows[i].ledger
  PROVE  Becomes(T, s, led, e, more)
<1>1. rows \in Seq(TaskRow) /\ Len(rows) \in Nat /\ Len(more) \in Nat
  BY DEF TypeInv
<1>2. /\ rows' \in Seq(TaskRow) /\ Len(rows') = Len(rows) + Len(more)
      /\ \A i \in 1..Len(rows) + Len(more) :
           rows'[i] = IF i <= Len(rows) THEN mid[i] ELSE more[i - Len(rows)]
  <2>1. PICK new : new = mid \o more
    OBVIOUS
  <2>2. /\ new \in Seq(TaskRow) /\ Len(new) = Len(mid) + Len(more)
        /\ \A i \in 1..Len(mid) + Len(more) :
             new[i] = IF i <= Len(mid) THEN mid[i] ELSE more[i - Len(mid)]
    BY <2>1, ConcatProperties
  <2>. QED
    BY <2>1, <2>2
<1>3. \A i \in 1..Len(rows) : rows'[i] = mid[i]
  BY <1>1, <1>2
<1>4. \A k \in 1..Len(more) : rows'[Len(rows) + k] = more[k]
  <2> TAKE k \in 1..Len(more)
  <2>1. Len(rows) + k \in 1..Len(rows) + Len(more) /\ ~(Len(rows) + k <= Len(rows))
        /\ Len(rows) + k - Len(rows) = k
    BY <1>1
  <2>. QED
    BY <1>2, <2>1
<1>. QED
  BY <1>2, <1>3, <1>4 DEF Becomes

\* The last launch's round, and whom a list names.
LEMMA RoundIs ==
  ASSUME NEW row \in TaskRow
  PROVE  LastRound(row) \in Nat
<1>1. row.ledger \in Seq(Entry)
  BY DEF TaskRow
<1>2. CASE row.ledger = <<>>
  BY <1>2 DEF LastRound
<1>3. CASE row.ledger # <<>>
  <2>1. row.ledger[Len(row.ledger)] \in Entry
    BY <1>1, <1>3
  <2>. QED
    BY <1>3, <2>1 DEF LastRound, Entry
<1>. QED
  BY <1>2, <1>3

\* The rows a launch creates.
LEMMA AskIs ==
  ASSUME ConsultInv, NEW r \in Request, Ask(r)
  PROVE  \E h, e, more : Puts(h, h, e, more)
<1>1. PICK h, ops, k : h = job[r].row /\ ops = job[r].to /\ k = LastRound(rows[h]) + 1
  OBVIOUS
<1>2. /\ job[r].seen = rows /\ h \in 1..Len(rows) /\ rows[h].node = "review"
      /\ ops \in Askable /\ rows[h].state = "doing" /\ ~IsMember(rows, h)
  BY <1>1 DEF ConsultInv, JobInv, AloneOn, Ask, Doing
<1>3. /\ ops \in Seq(Person) /\ ops # <<>> /\ DOMAIN ops = 1..Len(ops) /\ Len(ops) \in Nat
      /\ \A i \in 1..Len(ops) : ops[i] \in Whom
  <2>1. ops \in Seq(Person) /\ ops # <<>>
    BY <1>2, CollectAssumption
  <2>2. DOMAIN ops = 1..Len(ops) /\ Len(ops) \in Nat /\ \A i \in 1..Len(ops) : ops[i] \in Person
    BY <2>1
  <2>. QED
    BY <2>1, <2>2 DEF Whom
<1>4. /\ rows \in Seq(TaskRow) /\ DOMAIN rows = 1..Len(rows) /\ Len(rows) \in Nat
      /\ rows[h] \in TaskRow /\ h \in Nat
  BY <1>2, RowsAre DEF ConsultInv
<1>5. k \in Nat
  BY <1>1, <1>4, RoundIs
<1>6. PICK e : e = [round |-> k, to |-> Named(ops), revoked |-> FALSE]
  OBVIOUS
<1>7. e \in Entry
  <2>1. Named(ops) \in SUBSET Whom
    BY <1>3 DEF Named
  <2>. QED
    BY <1>5, <1>6, <2>1 DEF Entry
<1>8. PICK host : host = [rows[h] EXCEPT !.ledger = Append(rows[h].ledger, e)]
  OBVIOUS
<1>9. PICK more : more = [i \in 1..Len(ops) |-> Row("review", h, ops[i], k)]
  OBVIOUS
<1>10. PICK mid : mid = [rows EXCEPT ![h] = host]
  OBVIOUS
<1>11. rows' = mid \o more
  BY <1>1, <1>2, <1>3, <1>6, <1>8, <1>9, <1>10 DEF Ask, Noted
<1>12. \A i \in 1..Len(ops) :
         /\ more[i] \in TaskRow /\ more[i].node = "review" /\ more[i].parent = h
         /\ more[i].state = "doing" /\ more[i].ledger = <<>> /\ more[i].round = k
         /\ more[i].who = ops[i]
  BY <1>3, <1>4, <1>5, <1>9, NewRow
<1>13. more \in Seq(TaskRow) /\ Len(more) = Len(ops)
  <2>1. more \in [1..Len(ops) -> TaskRow]
    BY <1>9, <1>12
  <2>. QED
    BY <1>3, <2>1, FunctionIsSeq
<1>14. /\ host \in TaskRow /\ host.node = rows[h].node /\ host.parent = rows[h].parent
       /\ host.who = rows[h].who /\ host.round = rows[h].round /\ host.state = rows[h].state
       /\ host.ledger = Append(rows[h].ledger, e)
  BY <1>4, <1>7, <1>8, RowNoted
<1>15. /\ mid \in Seq(TaskRow) /\ Len(mid) = Len(rows)
       /\ \A i \in 1..Len(rows) : mid[i] = IF i = h THEN host ELSE rows[i]
  BY <1>2, <1>4, <1>10, <1>14, ExceptSeq
<1>16. \A i \in 1..Len(rows) :
         /\ mid[i].node = rows[i].node /\ mid[i].parent = rows[i].parent
         /\ mid[i].who = rows[i].who /\ mid[i].round = rows[i].round
         /\ mid[i].state = IF i \in {} THEN "doing" ELSE rows[i].state
         /\ mid[i].ledger = IF i = h THEN Append(rows[i].ledger, e) ELSE rows[i].ledger
  BY <1>14, <1>15
<1>17. Becomes({}, "doing", h, e, more)
  BY <1>11, <1>13, <1>15, <1>16, RowsBecome DEF ConsultInv
<1>18. e = [round |-> LastRound(rows[h]) + 1, to |-> {more[i].who : i \in 1..Len(more)}, revoked |-> FALSE]
  <2>1. Named(ops) = {more[i].who : i \in 1..Len(more)}
    BY <1>3, <1>12, <1>13 DEF Named
  <2>. QED
    BY <1>1, <1>6, <2>1
<1>19. Puts(h, h, e, more)
  BY <1>1, <1>2, <1>3, <1>12, <1>13, <1>17, <1>18 DEF Puts, Host
<1>. QED
  BY <1>19

\* Rows given one by one, as Revoke and Close do.
LEMMA RowsOneByOne ==
  ASSUME TypeInv, NEW mid, mid = [i \in 1..Len(rows) |-> mid[i]],
         \A i \in 1..Len(rows) : mid[i] \in TaskRow
  PROVE  mid \in Seq(TaskRow) /\ Len(mid) = Len(rows)
<1>1. Len(rows) \in Nat
  BY DEF TypeInv
<1>2. mid \in [1..Len(rows) -> TaskRow]
  OBVIOUS
<1>. QED
  BY <1>1, <1>2, FunctionIsSeq

\* Nothing appended.
LEMMA NothingMore ==
  ASSUME NEW mid \in Seq(TaskRow)
  PROVE  mid = mid \o <<>> /\ <<>> \in Seq(TaskRow) /\ Len(<<>>) = 0
<1>1. mid \o <<>> = mid
  BY ConcatEmptySeq
<1>. QED
  BY <1>1

\* The members a revocation drops are the host's, and their host is open.
LEMMA RevokeIs ==
  ASSUME ConsultInv, NEW r \in Request, Revoke(r)
  PROVE  \E h, e : Drops(h, e)
<1>1. PICK h, T : h = job[r].row /\ T = Pending(rows, h)
  OBVIOUS
<1>2. job[r].seen = rows /\ h \in 1..Len(rows) /\ T # {}
  BY <1>1 DEF ConsultInv, JobInv, AloneOn, Revoke, Doing
<1>3. /\ rows \in Seq(TaskRow) /\ DOMAIN rows = 1..Len(rows) /\ Len(rows) \in Nat
      /\ \A i \in 1..Len(rows) : rows[i] \in TaskRow /\ rows[i].who \in Whom /\ rows[i].parent < i
      /\ rows[h] \in TaskRow
  BY <1>2, RowsAre, MembersAre DEF ConsultInv
<1>4. T \subseteq 1..Len(rows) /\ h \notin T
  <2>1. \A m \in T : m \in 1..Len(rows) /\ rows[m].parent = h
    BY <1>1, <1>3 DEF Pending, MemberRows
  <2>. QED
    BY <1>2, <1>3, <2>1
<1>5. PICK k, named, e :
        /\ k = LastRound(rows[h]) /\ named = {rows[m].who : m \in T}
        /\ e = [round |-> k, to |-> named, revoked |-> TRUE]
  OBVIOUS
<1>6. e \in Entry
  <2>1. k \in Nat
    BY <1>3, <1>5, RoundIs
  <2>2. named \in SUBSET Whom
    BY <1>3, <1>4, <1>5
  <2>. QED
    BY <1>5, <2>1, <2>2 DEF Entry
<1>7. PICK host : host = [rows[h] EXCEPT !.ledger = Append(rows[h].ledger, e)]
  OBVIOUS
<1>8. PICK mid : mid = [i \in 1..Len(rows) |->
                          CASE i = h -> host
                            [] i \in T -> Abandon(rows[i])
                            [] OTHER -> rows[i]]
  OBVIOUS
<1>9. rows' = mid
  <2>1. host = Noted(rows[h], LastRound(rows[h]), {rows[m].who : m \in T}, TRUE)
    BY <1>5, <1>7 DEF Noted
  <2>2. rows' = [i \in DOMAIN rows |->
                   CASE i = h -> Noted(rows[h], LastRound(rows[h]), {rows[m].who : m \in T}, TRUE)
                     [] i \in T -> Abandon(rows[i])
                     [] OTHER -> rows[i]]
    <3>1. rows' = [i \in DOMAIN rows |->
                     CASE i = job[r].row ->
                            Noted(job[r].seen[job[r].row], LastRound(job[r].seen[job[r].row]),
                                  {job[r].seen[m].who : m \in Pending(job[r].seen, job[r].row)}, TRUE)
                       [] i \in Pending(job[r].seen, job[r].row) -> Abandon(job[r].seen[i])
                       [] OTHER -> rows[i]]
      BY Zenon DEF Revoke
    <3>2. job[r].row = h /\ job[r].seen = rows /\ Pending(rows, h) = T
      BY <1>1, <1>2
    <3>3. {job[r].seen[m].who : m \in Pending(job[r].seen, job[r].row)} = {rows[m].who : m \in T}
      BY <3>2
    <3>. QED
      BY <3>1, <3>2, <3>3
  <2>. QED
    BY <1>3, <1>8, <2>1, <2>2
<1>10. /\ host \in TaskRow /\ host.node = rows[h].node /\ host.parent = rows[h].parent
       /\ host.who = rows[h].who /\ host.round = rows[h].round /\ host.state = rows[h].state
       /\ host.ledger = Append(rows[h].ledger, e)
  BY <1>3, <1>6, <1>7, RowNoted
<1>11. \A i \in 1..Len(rows) :
         /\ i = h => mid[i] = host
         /\ i \in T => mid[i] = Abandon(rows[i])
         /\ i # h /\ i \notin T => mid[i] = rows[i]
  BY <1>4, <1>8
<1>12. ASSUME NEW i \in 1..Len(rows)
       PROVE  /\ mid[i] \in TaskRow
              /\ mid[i].node = rows[i].node /\ mid[i].parent = rows[i].parent
              /\ mid[i].who = rows[i].who /\ mid[i].round = rows[i].round
              /\ mid[i].state = IF i \in T THEN "abandoned" ELSE rows[i].state
              /\ mid[i].ledger = IF i = h THEN Append(rows[i].ledger, e) ELSE rows[i].ledger
  <2>1. CASE i = h
    BY <1>4, <1>10, <1>11, <2>1
  <2>2. CASE i \in T
    <3>1. PICK q : q = [rows[i] EXCEPT !.state = "abandoned"]
      OBVIOUS
    <3>2. /\ q \in TaskRow /\ q.node = rows[i].node /\ q.parent = rows[i].parent
          /\ q.who = rows[i].who /\ q.round = rows[i].round /\ q.state = "abandoned"
          /\ q.ledger = rows[i].ledger
      BY <1>3, <3>1, RowState
    <3>3. mid[i] = q /\ i # h
      BY <1>4, <1>11, <2>2, <3>1 DEF Abandon
    <3>. QED
      BY <2>2, <3>2, <3>3
  <2>3. CASE i # h /\ i \notin T
    BY <1>3, <1>11, <2>3
  <2>. QED
    BY <2>1, <2>2, <2>3
<1>13. mid \in Seq(TaskRow) /\ Len(mid) = Len(rows)
  <2>1. mid = [i \in 1..Len(rows) |-> mid[i]]
    BY <1>8
  <2>. QED
    BY <1>12, <2>1, RowsOneByOne DEF ConsultInv
<1>14. Becomes(T, "abandoned", h, e, <<>>)
  <2>1. rows' = mid \o <<>> /\ <<>> \in Seq(TaskRow)
    BY <1>9, <1>13, NothingMore
  <2>. QED
    BY <1>12, <1>13, <2>1, RowsBecome DEF ConsultInv
<1>15. Drops(h, e)
  BY <1>1, <1>2, <1>5, <1>14 DEF Drops
<1>. QED
  BY <1>15

\* Completing a row, with rows behind it.
LEMMA CompleteIs ==
  ASSUME TypeInv, NEW t \in 1..Len(rows), NEW more \in Seq(TaskRow),
         rows' = Complete(rows, t) \o more
  PROVE  Becomes({t}, "done", 0, 0, more)
<1>1. PICK mid, q : mid = Complete(rows, t) /\ q = [rows[t] EXCEPT !.state = "done"]
  OBVIOUS
<1>2. rows \in Seq(TaskRow) /\ rows[t] \in TaskRow
  BY RowsAre
<1>3. /\ q \in TaskRow /\ q.node = rows[t].node /\ q.parent = rows[t].parent /\ q.who = rows[t].who
      /\ q.round = rows[t].round /\ q.state = "done" /\ q.ledger = rows[t].ledger
  BY <1>1, <1>2, RowState
<1>4. mid = [rows EXCEPT ![t] = q]
  BY <1>1 DEF Complete
<1>5. /\ mid \in Seq(TaskRow) /\ Len(mid) = Len(rows)
      /\ \A i \in 1..Len(rows) : mid[i] = IF i = t THEN q ELSE rows[i]
  BY <1>2, <1>3, <1>4, ExceptSeq
<1>6. \A i \in 1..Len(rows) :
        /\ mid[i].node = rows[i].node /\ mid[i].parent = rows[i].parent
        /\ mid[i].who = rows[i].who /\ mid[i].round = rows[i].round
        /\ mid[i].state = IF i \in {t} THEN "done" ELSE rows[i].state
        /\ mid[i].ledger = IF i = 0 THEN Append(rows[i].ledger, 0) ELSE rows[i].ledger
  BY <1>3, <1>5
<1>. QED
  BY <1>1, <1>5, <1>6, RowsBecome

\* An execution on a row: which row it is, and what else is open on the node.
LEMMA Executed ==
  ASSUME ConsultInv, NEW r \in Request, NEW s, Executes(r, s), NEW t, t = job[r].row
  PROVE  /\ t \in 1..Len(rows) /\ rows[t].state = "doing" /\ job[r].submit = s
         /\ IsMember(rows, t) => s = "agree"
         /\ rows[t].node = "apply" => s = "agree"
         /\ Host(rows, t) => Pending(rows, t) = {}
         /\ Host(rows, t) => DoingOn(Complete(rows, t), "review") = {}
         /\ IsMember(rows, t) => DoingOn(Complete(rows, t), "review") # {}
<1>1. /\ t \in 1..Len(rows) /\ rows[t].state = "doing" /\ job[r].submit = s
      /\ IsMember(rows, t) => s = "agree"
      /\ rows[t].node = "apply" => s = "agree"
      /\ Host(rows, t) => Pending(rows, t) = {}
  BY DEF ConsultInv, JobInv, Executes, Doing, Host
<1>2. PICK mid : mid = Complete(rows, t)
  OBVIOUS
<1>3. /\ DOMAIN mid = 1..Len(rows) /\ mid[t].state = "done"
      /\ \A i \in 1..Len(rows) : mid[i].node = rows[i].node
      /\ \A i \in 1..Len(rows) : i # t => mid[i] = rows[i]
  <2>1. rows \in Seq(TaskRow) /\ DOMAIN rows = 1..Len(rows) /\ rows[t] \in TaskRow
    BY <1>1, RowsAre DEF ConsultInv
  <2>2. PICK q : q = [rows[t] EXCEPT !.state = "done"]
    OBVIOUS
  <2>3. q.state = "done" /\ q.node = rows[t].node
    BY <2>1, <2>2, RowState
  <2>4. mid = [rows EXCEPT ![t] = q]
    BY <1>2, <2>2 DEF Complete
  <2>. QED
    BY <1>1, <2>1, <2>3, <2>4
<1>4. ASSUME Host(rows, t), NEW i \in DoingOn(mid, "review")
      PROVE  FALSE
  <2>1. i \in 1..Len(rows) /\ i # t /\ rows[i].node = "review" /\ rows[i].state = "doing"
    BY <1>3 DEF DoingOn
  <2>2. CASE ~IsMember(rows, i)
    BY <1>1, <1>4, <2>1, <2>2 DEF ConsultInv, RowsInv, Host
  <2>3. CASE IsMember(rows, i)
    <3>1. /\ rows[i].parent \in 1..Len(rows) /\ Host(rows, rows[i].parent)
          /\ rows[rows[i].parent].state = "doing"
      BY <2>1, <2>3, MembersAre DEF ConsultInv, RowsInv
    <3>2. rows[i].parent = t
      BY <1>1, <1>4, <3>1 DEF ConsultInv, RowsInv, Host
    <3>3. i \in Pending(rows, t)
      BY <1>1, <2>1, <2>3, <3>2, MembersAre DEF ConsultInv, Pending
    <3>. QED
      BY <1>1, <1>4, <3>3
  <2>. QED
    BY <2>2, <2>3
<1>5. ASSUME IsMember(rows, t)
      PROVE  DoingOn(mid, "review") # {}
  <2>1. /\ rows[t].parent \in 1..Len(rows) /\ Host(rows, rows[t].parent)
        /\ rows[rows[t].parent].state = "doing"
    BY <1>1, <1>5, MembersAre DEF ConsultInv, RowsInv
  <2>2. rows[t].parent # t
    BY <1>1, <2>1, <1>5 DEF Host
  <2>3. rows[t].parent \in DoingOn(mid, "review")
    BY <1>3, <2>1, <2>2 DEF DoingOn, Host
  <2>. QED
    BY <2>3
<1>. QED
  BY <1>1, <1>2, <1>4, <1>5

\* Who stays is a member: the host has nobody beside it on the node.
LEMMA StayIs ==
  ASSUME ConsultInv, NEW r \in Request, Stay(r)
  PROVE  \E t : Answers(t)
<1>1. PICK t : t = job[r].row
  OBVIOUS
<1>2. /\ Executes(r, "agree") /\ rows' = Complete(rows, t) /\ rows[t].node = "review"
      /\ DoingOn(Complete(rows, t), "review") # {}
  BY <1>1 DEF Stay, Stays
<1>3. t \in 1..Len(rows) /\ rows[t].state = "doing" /\ IsMember(rows, t)
  BY <1>1, <1>2, Executed DEF Host
<1>4. Becomes({t}, "done", 0, 0, <<>>)
  <2>1. rows' \in Seq(TaskRow)
    <3>1. PICK q : q = [rows[t] EXCEPT !.state = "done"]
      OBVIOUS
    <3>2. rows[t] \in TaskRow /\ rows \in Seq(TaskRow)
      BY <1>3, RowsAre DEF ConsultInv
    <3>3. q \in TaskRow
      BY <3>1, <3>2, RowState
    <3>. QED
      BY <1>2, <1>3, <3>1, <3>2, <3>3, ExceptSeq DEF Complete
  <2>2. rows' = Complete(rows, t) \o <<>> /\ <<>> \in Seq(TaskRow)
    BY <1>2, <2>1, NothingMore
  <2>. QED
    BY <1>3, <2>2, CompleteIs DEF ConsultInv
<1>. QED
  BY <1>3, <1>4 DEF Answers

\* Completing the token, and what may follow it.
LEMMA PassIs ==
  ASSUME ConsultInv, NEW t \in 1..Len(rows), ~IsMember(rows, t), rows[t].state = "doing",
         Host(rows, t) => Pending(rows, t) = {},
         \/ rows' = Complete(rows, t)
         \/ \E n : rows' = Append(Complete(rows, t), Row(n, t, Nobody, 0)) /\ Follows(rows[t].node, n)
  PROVE  \E more : Passes(t, more)
<1>1. PICK mid : mid = Complete(rows, t)
  OBVIOUS
<1>2. mid \in Seq(TaskRow)
  <2>1. PICK q : q = [rows[t] EXCEPT !.state = "done"]
    OBVIOUS
  <2>2. rows[t] \in TaskRow /\ rows \in Seq(TaskRow)
    BY RowsAre DEF ConsultInv
  <2>3. q \in TaskRow
    BY <2>1, <2>2, RowState
  <2>. QED
    BY <1>1, <2>1, <2>2, <2>3, ExceptSeq DEF Complete
<1>3. CASE rows' = mid
  <2>1. rows' = mid \o <<>> /\ <<>> \in Seq(TaskRow)
    BY <1>2, <1>3, NothingMore
  <2>2. Becomes({t}, "done", 0, 0, <<>>)
    BY <1>1, <2>1, CompleteIs DEF ConsultInv
  <2>3. Passes(t, <<>>)
    BY <2>2 DEF Passes
  <2>. QED
    BY <2>3
<1>4. ASSUME NEW n, rows' = Append(mid, Row(n, t, Nobody, 0)),
             Follows(rows[t].node, n)
      PROVE  \E more : Passes(t, more)
  <2>1. PICK row : row = Row(n, t, Nobody, 0)
    OBVIOUS
  <2>2. row \in TaskRow /\ row.node = n /\ row.parent = t /\ row.state = "doing" /\ row.ledger = <<>>
    <3>1. n \in {"apply", "review", "final"}
      BY <1>4 DEF Follows
    <3>2. Len(rows) \in Nat
      BY DEF ConsultInv, TypeInv
    <3>3. t \in Nat
      BY <3>2, IndexIs
    <3>. QED
      BY <2>1, <3>1, <3>3, NextRow
  <2>3. PICK more : more = <<row>>
    OBVIOUS
  <2>4. more \in Seq(TaskRow) /\ Len(more) = 1 /\ more[1] = row
    BY <2>2, <2>3, OneRow
  <2>5. rows' = mid \o more
    BY <1>2, <1>4, <2>1, <2>2, <2>3, AppendIsConcat
  <2>6. Becomes({t}, "done", 0, 0, more)
    BY <1>1, <2>4, <2>5, CompleteIs DEF ConsultInv
  <2>7. Passes(t, more)
    BY <1>4, <2>2, <2>4, <2>6 DEF Passes
  <2>. QED
    BY <2>7
<1>. QED
  BY <1>1, <1>3, <1>4

LEMMA MoveIs ==
  ASSUME ConsultInv, NEW r \in Request, Move(r)
  PROVE  \E t, more : Passes(t, more)
<1>1. PICK t : t = job[r].row
  OBVIOUS
<1>2. /\ Executes(r, "agree")
      /\ ~(rows[t].node = "review" /\ DoingOn(Complete(rows, t), "review") # {})
      /\ IF rows[t].node = "final" THEN rows' = Complete(rows, t)
         ELSE rows' = Append(Complete(rows, t),
                             Row(IF rows[t].node = "apply" THEN "review" ELSE "final", t, Nobody, 0))
  BY <1>1, Zenon DEF Move, Stays, Nobody
<1>3. /\ t \in 1..Len(rows) /\ rows[t].state = "doing"
      /\ Host(rows, t) => Pending(rows, t) = {}
      /\ IsMember(rows, t) => DoingOn(Complete(rows, t), "review") # {}
  BY <1>1, <1>2, Executed
<1>4. ~IsMember(rows, t)
  BY <1>2, <1>3, MembersAre DEF ConsultInv
<1>5. rows[t].node \in {"apply", "review", "final"}
  BY <1>3, RowsAre DEF ConsultInv
<1>6. \/ rows' = Complete(rows, t)
      \/ \E n : rows' = Append(Complete(rows, t), Row(n, t, Nobody, 0)) /\ Follows(rows[t].node, n)
  BY <1>2, <1>5 DEF Follows
<1>. QED
  BY <1>3, <1>4, <1>6, PassIs

\* Rejecting and returning close the node; nobody is left on it to be closed.
LEMMA RefusalIs ==
  ASSUME ConsultInv, NEW r \in Request, Reject(r) \/ Return(r)
  PROVE  \E t, more : Passes(t, more)
<1>1. PICK t, s : t = job[r].row /\ s = job[r].submit
  OBVIOUS
<1>2. /\ Executes(r, s) /\ s # "agree"
      /\ rows' = Cleared(t) \/ rows' = Append(Cleared(t), Row("apply", t, Nobody, 0))
  BY <1>1, Zenon DEF Reject, Return, Executes, Nobody
<1>3. /\ t \in 1..Len(rows) /\ rows[t].state = "doing" /\ ~IsMember(rows, t)
      /\ rows[t].node # "apply"
      /\ Host(rows, t) => Pending(rows, t) = {}
      /\ Host(rows, t) => DoingOn(Complete(rows, t), "review") = {}
  <2>0. Executes(r, s) /\ t = job[r].row
    BY <1>1, <1>2
  <2>1. /\ t \in 1..Len(rows) /\ rows[t].state = "doing"
        /\ IsMember(rows, t) => s = "agree"
        /\ rows[t].node = "apply" => s = "agree"
    BY <2>0, Executed
  <2>2. /\ Host(rows, t) => Pending(rows, t) = {}
        /\ Host(rows, t) => DoingOn(Complete(rows, t), "review") = {}
    BY <2>0, Executed
  <2>. QED
    BY <1>2, <2>1, <2>2
<1>4. Cleared(t) = Complete(rows, t)
  <2>1. CASE rows[t].node # "review"
    BY <2>1 DEF Cleared
  <2>2. CASE rows[t].node = "review"
    <3>1. DoingOn(Complete(rows, t), "review") = {}
      BY <1>3, <2>2 DEF Host
    <3>2. PICK mid : mid = Complete(rows, t)
      OBVIOUS
    <3>3. mid \in Seq(TaskRow)
      <4>1. PICK q : q = [rows[t] EXCEPT !.state = "done"]
        OBVIOUS
      <4>2. rows[t] \in TaskRow /\ rows \in Seq(TaskRow)
        BY <1>3, RowsAre DEF ConsultInv
      <4>3. q \in TaskRow
        BY <4>1, <4>2, RowState
      <4>. QED
        BY <1>3, <3>2, <4>1, <4>2, <4>3, ExceptSeq DEF Complete
    <3>4. mid = [i \in DOMAIN mid |-> mid[i]]
      BY <3>3
    <3>5. Close(mid, {}) = mid
      BY <3>4 DEF Close
    <3>. QED
      BY <2>2, <3>1, <3>2, <3>5 DEF Cleared
  <2>. QED
    BY <2>1, <2>2
<1>5. rows[t].node \in {"apply", "review", "final"}
  BY <1>3, RowsAre DEF ConsultInv
<1>6. \/ rows' = Complete(rows, t)
      \/ \E n : rows' = Append(Complete(rows, t), Row(n, t, Nobody, 0)) /\ Follows(rows[t].node, n)
  BY <1>2, <1>3, <1>4, <1>5 DEF Follows
<1>. QED
  BY <1>3, <1>6, PassIs

\* Members have nothing below them, in particular nothing a recall closes.
LEMMA MembersEnd ==
  ASSUME TypeInv, RowsInv, NEW t \in 1..Len(rows), IsMember(rows, t)
  PROVE  Below(rows, t) = {}
<1> DEFINE Solves(b) == b = [i \in 0..Len(rows) |-> i # 0 /\ (rows[i].parent = t \/ b[rows[i].parent])]
<1>1. /\ DOMAIN rows = 1..Len(rows) /\ Len(rows) \in Nat
      /\ \A i \in 1..Len(rows) : rows[i].parent \in 0..Len(rows) /\ rows[i].parent < i /\ rows[i].parent # t
  <2>1. DOMAIN rows = 1..Len(rows) /\ Len(rows) \in Nat
    BY RowsAre
  <2>2. ASSUME NEW i \in 1..Len(rows)
        PROVE  rows[i].parent \in 0..Len(rows) /\ rows[i].parent < i /\ rows[i].parent # t
    <3>1. rows[i].parent < i /\ rows[i].parent \in Nat
      BY RowsAre, MembersAre
    <3>2. rows[i].parent # t
      BY DEF RowsInv
    <3>. QED
      BY <2>1, <3>1, <3>2
  <2>. QED
    BY <2>1, <2>2
<1>2. \E b : Solves(b)
  <2>1. PICK none : none = [i \in 0..Len(rows) |-> FALSE]
    OBVIOUS
  <2>2. ASSUME NEW i \in 0..Len(rows)
        PROVE  ~(i # 0 /\ (rows[i].parent = t \/ none[rows[i].parent]))
    <3>1. ASSUME i # 0
          PROVE  rows[i].parent # t /\ ~none[rows[i].parent]
      <4>1. i \in 1..Len(rows)
        BY <1>1, <3>1
      <4>2. rows[i].parent \in 0..Len(rows) /\ rows[i].parent # t
        BY <1>1, <4>1
      <4>. QED
        BY <2>1, <4>2, Zenon
    <3>. QED
      BY <3>1
  <2>3. Solves(none)
    BY <2>1, <2>2, Zenon
  <2>. QED
    BY <2>3
<1>3. PICK b : b = CHOOSE c : Solves(c)
  OBVIOUS
<1>4. Solves(b)
  BY <1>2, <1>3
<1>5. \A i \in 1..Len(rows) : b[i] => rows[i].parent \in 1..Len(rows) /\ b[rows[i].parent]
  <2> SUFFICES ASSUME NEW i \in 1..Len(rows), b[i]
               PROVE  rows[i].parent \in 1..Len(rows) /\ b[rows[i].parent]
    OBVIOUS
  <2>1. i \in 0..Len(rows) /\ 0 \in 0..Len(rows)
    BY <1>1
  <2>2. b[i] = (i # 0 /\ (rows[i].parent = t \/ b[rows[i].parent]))
    BY <1>4, <2>1, Zenon
  <2>3. b[0] = (0 # 0 /\ (rows[0].parent = t \/ b[rows[0].parent]))
    BY <1>4, <2>1, Zenon
  <2>4. ~b[0]
    BY <2>3
  <2>5. b[rows[i].parent]
    BY <1>1, <2>2
  <2>6. rows[i].parent # 0
    BY <2>4, <2>5
  <2>. QED
    BY <1>1, <2>5, <2>6
<1>6. Below(rows, t) = {i \in 1..Len(rows) : b[i]}
  BY <1>1, <1>3 DEF Below
<1>7. PICK R : R = OpToRel(<, Nat)
  OBVIOUS
<1>8. IsWellFoundedOn(R, Nat)
  BY <1>7, NatLessThanWellFounded
<1>10. \A x, y \in Nat : x < y => <<x, y>> \in R
  BY <1>7 DEF OpToRel
<1>9. ASSUME Below(rows, t) # {}
      PROVE  FALSE
  <2>1. Below(rows, t) \subseteq Nat
    BY <1>1, <1>6
  <2>2. PICK m \in Below(rows, t) : \A y \in Below(rows, t) : ~(<<y, m>> \in R)
    BY <1>8, <1>9, <2>1, WFMin
  <2>3. m \in 1..Len(rows) /\ rows[m].parent < m /\ rows[m].parent \in Below(rows, t)
    BY <1>1, <1>5, <1>6, <2>2
  <2>. QED
    BY <1>10, <2>1, <2>2, <2>3
<1>. QED
  BY <1>9

\* A recalled answer is put again.
LEMMA RecallIs ==
  ASSUME ConsultInv, TakesTurns, NEW r \in Request, NEW t \in DOMAIN rows, Recall(r, t)
  PROVE  \E h, e, more : Puts(h, 0, e, more)
<1>1. /\ rows \in Seq(TaskRow) /\ DOMAIN rows = 1..Len(rows) /\ t \in 1..Len(rows)
      /\ rows[t].parent \in Nat /\ rows[t].who \in Whom
  BY RowsAre DEF ConsultInv
<1>2. Role(t) \in {"member"}
  BY DEF TakesTurns, Recall
<1>3. IsMember(rows, t) /\ rows[rows[t].parent].state = "doing"
  BY <1>2 DEF Role
<1>4. PICK h, w : h = rows[t].parent /\ w = rows[t].who
  OBVIOUS
<1>5. h \in 1..Len(rows) /\ Host(rows, h) /\ rows[h].state = "doing"
  BY <1>1, <1>3, <1>4, MembersAre DEF ConsultInv
<1>6. Close(rows, {d \in Below(rows, t) : rows[d].state = "doing"}) = rows
  <2>1. Below(rows, t) = {}
    BY <1>1, <1>3, MembersEnd DEF ConsultInv
  <2>2. {d \in Below(rows, t) : rows[d].state = "doing"} = {}
    BY <2>1
  <2>3. rows = [i \in DOMAIN rows |-> rows[i]]
    BY <1>1
  <2>4. Close(rows, {}) = rows
    BY <2>3 DEF Close
  <2>. QED
    BY <2>2, <2>4
<1>7. PICK row : row = Row("review", h, w, 0)
  OBVIOUS
<1>8. rows' = Append(rows, row)
  BY <1>4, <1>6, <1>7 DEF Recall
<1>9. /\ row \in TaskRow /\ row.node = "review" /\ row.parent = h /\ row.state = "doing"
      /\ row.ledger = <<>> /\ row.round = 0
  <2>1. "review" \in {"apply", "review", "final"} /\ h \in Nat /\ w \in Whom /\ 0 \in Nat
    BY <1>1, <1>4
  <2>. QED
    BY <1>7, <2>1, NewRow
<1>10. PICK more : more = <<row>>
  OBVIOUS
<1>11. more \in Seq(TaskRow) /\ Len(more) = 1 /\ more[1] = row
  BY <1>9, <1>10, OneRow
<1>12. rows' = rows \o more
  BY <1>1, <1>8, <1>9, <1>10, AppendIsConcat
<1>13. \A i \in 1..Len(rows) :
         /\ rows[i].state = IF i \in {} THEN "doing" ELSE rows[i].state
         /\ rows[i].ledger = IF i = 0 THEN Append(rows[i].ledger, 0) ELSE rows[i].ledger
  OBVIOUS
<1>14. Becomes({}, "doing", 0, 0, more)
  BY <1>1, <1>11, <1>12, <1>13, RowsBecome DEF ConsultInv
<1>15. Puts(h, 0, 0, more)
  BY <1>5, <1>9, <1>11, <1>14 DEF Puts
<1>. QED
  BY <1>15

\* What a request makes of the rows: a start nothing, a question and a revocation what
\* they say, an execution an answer, a pass or nothing.
Starts(r, t) ==
  \/ \E ops \in Askable : StartAsk(r, t, ops)
  \/ StartRevoke(r, t)
  \/ \E submit \in {"agree", "reject", "return"} : StartExecute(r, t, submit)
Works(r) == Stay(r) \/ Move(r) \/ Reject(r) \/ Return(r) \/ Refuse(r)

LEMMA ExecuteIs ==
  ASSUME ConsultInv, NEW r \in Request, Works(r)
  PROVE  rows' = rows \/ (\E t : Answers(t)) \/ (\E t, more : Passes(t, more))
<1>1. CASE Stay(r)
  BY <1>1, StayIs
<1>2. CASE Move(r)
  BY <1>2, MoveIs
<1>3. CASE Reject(r) \/ Return(r)
  BY <1>3, RefusalIs
<1>4. CASE Refuse(r)
  BY <1>4 DEF Refuse
<1>. QED
  BY <1>1, <1>2, <1>3, <1>4 DEF Works

LEMMA NextIs ==
  ASSUME Next
  PROVE  \E r \in Request :
           \/ Ask(r) \/ Revoke(r) \/ Works(r)
           \/ \E t \in DOMAIN rows : Starts(r, t) \/ Recall(r, t)
BY DEF Next, Finish, Works, Starts

LEMMA ChangeIs ==
  ASSUME ConsultInv, TakesTurns, [Next]_vars
  PROVE  Change
<1>1. CASE UNCHANGED vars
  BY <1>1 DEF vars, Change
<1>2. CASE Next
  <2>1. PICK r \in Request :
          \/ Ask(r) \/ Revoke(r) \/ Works(r)
          \/ \E t \in DOMAIN rows : Starts(r, t) \/ Recall(r, t)
    BY <1>2, NextIs
  <2>2. CASE Ask(r)
    BY <2>2, AskIs DEF Change
  <2>3. CASE Revoke(r)
    BY <2>3, RevokeIs DEF Change
  <2>4. CASE Works(r)
    BY <2>4, ExecuteIs DEF Change
  <2>5. ASSUME NEW t \in DOMAIN rows, Starts(r, t)
        PROVE  Change
    BY <2>5 DEF Starts, StartAsk, StartRevoke, StartExecute, Take, Change
  <2>6. ASSUME NEW t \in DOMAIN rows, Recall(r, t)
        PROVE  Change
    BY <2>6, RecallIs DEF Change
  <2>. QED
    BY <2>1, <2>2, <2>3, <2>4, <2>5, <2>6
<1>. QED
  BY <1>1, <1>2

-----------------------------------------------------------------------------
(* A change keeps the invariant.                                           *)

\* What a change leaves as it is.
LEMMA BecomesIs ==
  ASSUME TypeInv, RowsInv, NEW T, NEW s, NEW led, NEW e, NEW more, Becomes(T, s, led, e, more),
         NEW new, new = rows'
  PROVE  /\ new \in Seq(TaskRow) /\ DOMAIN new = 1..Len(new) /\ Len(new) \in Nat
         /\ Len(new) = Len(rows) + Len(more) /\ Len(more) \in Nat
         /\ \A i \in 1..Len(new) : i \notin 1..Len(rows) =>
              \E k \in 1..Len(more) : i = Len(rows) + k /\ new[i] = more[k]
         /\ 1..Len(rows) \subseteq 1..Len(new)
         /\ \A i \in 1..Len(rows) : IsMember(new, i) <=> IsMember(rows, i)
         /\ \A i \in 1..Len(rows) : Host(new, i) <=> Host(rows, i)
<1>1. /\ new \in Seq(TaskRow) /\ more \in Seq(TaskRow)
      /\ Len(new) = Len(rows) + Len(more)
      /\ \A i \in 1..Len(rows) : new[i].node = rows[i].node /\ new[i].parent = rows[i].parent
      /\ \A k \in 1..Len(more) : new[Len(rows) + k] = more[k]
  BY DEF Becomes
<1>2. DOMAIN new = 1..Len(new) /\ Len(new) \in Nat /\ Len(more) \in Nat /\ Len(rows) \in Nat
  BY <1>1, RowsAre
<1>3. \A i \in 1..Len(new) : i \notin 1..Len(rows) =>
        \E k \in 1..Len(more) : i = Len(rows) + k /\ new[i] = more[k]
  <2> SUFFICES ASSUME NEW i \in 1..Len(new), i \notin 1..Len(rows)
               PROVE  \E k \in 1..Len(more) : i = Len(rows) + k /\ new[i] = more[k]
    OBVIOUS
  <2>1. i - Len(rows) \in 1..Len(more) /\ i = Len(rows) + (i - Len(rows))
    BY <1>1, <1>2
  <2>2. PICK k : k = i - Len(rows)
    OBVIOUS
  <2>. QED
    BY <1>1, <2>1, <2>2
<1>4. \A i \in 1..Len(rows) : IsMember(new, i) <=> IsMember(rows, i)
  <2> TAKE i \in 1..Len(rows)
  <2>1. rows[i].parent # 0 => rows[i].parent \in 1..Len(rows)
    BY MembersAre
  <2>. QED
    BY <1>1, <2>1 DEF IsMember
<1>. QED
  BY <1>1, <1>2, <1>3, <1>4 DEF Host

\* Members come under an open host.
LEMMA RowsWithQuestion ==
  ASSUME TypeInv, RowsInv, NEW h, NEW led, NEW e, NEW more, Puts(h, led, e, more),
         NEW new, new = rows'
  PROVE  /\ \A i \in 1..Len(new) : i \notin 1..Len(rows) =>
              /\ new[i].parent = h /\ new[i].node = "review" /\ new[i].state = "doing"
              /\ IsMember(new, i) /\ h < i
         /\ \A i \in 1..Len(rows) : new[i].state = rows[i].state
<1>1. /\ Becomes({}, "doing", led, e, more)
      /\ h \in 1..Len(rows) /\ Host(rows, h)
      /\ \A k \in 1..Len(more) :
           more[k].node = "review" /\ more[k].parent = h /\ more[k].state = "doing"
  BY DEF Puts
<1>2. \A i \in 1..Len(rows) : new[i].node = rows[i].node /\ new[i].state = rows[i].state
  BY <1>1 DEF Becomes
<1>3. \A i \in 1..Len(new) : i \notin 1..Len(rows) =>
        \E k \in 1..Len(more) : i = Len(rows) + k /\ new[i] = more[k]
  <2>1. Becomes({}, "doing", led, e, more)
    BY <1>1
  <2>. QED
    BY <2>1, BecomesIs
<1>4. Len(rows) \in Nat
  BY RowsAre
<1>5. ASSUME NEW i \in 1..Len(new), i \notin 1..Len(rows)
      PROVE  /\ new[i].parent = h /\ new[i].node = "review" /\ new[i].state = "doing"
             /\ IsMember(new, i) /\ h < i
  <2>1. PICK k \in 1..Len(more) : i = Len(rows) + k /\ new[i] = more[k]
    BY <1>3, <1>5
  <2>2. new[i].parent = h /\ new[i].node = "review" /\ new[i].state = "doing"
    BY <1>1, <2>1
  <2>3. h # 0 /\ h < i
    BY <1>1, <1>4, <1>5
  <2>4. new[h].node = "review"
    BY <1>1, <1>2 DEF Host
  <2>. QED
    BY <2>2, <2>3, <2>4 DEF IsMember
<1>. QED
  BY <1>2, <1>5

LEMMA PutsKeeps ==
  ASSUME TypeInv, RowsInv, NEW h, NEW led, NEW e, NEW more, Puts(h, led, e, more)
  PROVE  RowsInv'
<1>1. PICK new : new = rows'
  OBVIOUS
<1>2. /\ Becomes({}, "doing", led, e, more)
      /\ h \in 1..Len(rows) /\ Host(rows, h) /\ rows[h].state = "doing"
  BY DEF Puts
<1>3. /\ \A i \in 1..Len(new) : i \notin 1..Len(rows) =>
           /\ new[i].parent = h /\ new[i].node = "review" /\ new[i].state = "doing"
           /\ IsMember(new, i) /\ h < i
      /\ \A i \in 1..Len(rows) : new[i].state = rows[i].state
  BY <1>1, RowsWithQuestion
<1>4. /\ \A i \in 1..Len(rows) : IsMember(new, i) <=> IsMember(rows, i)
      /\ \A i \in 1..Len(rows) : rows[i].parent # 0 => rows[i].parent \in 1..Len(rows)
      /\ \A i \in 1..Len(rows) : new[i].node = rows[i].node /\ new[i].parent = rows[i].parent
  <2>1. Becomes({}, "doing", led, e, more)
    BY <1>2
  <2>2. \A i \in 1..Len(rows) : IsMember(new, i) <=> IsMember(rows, i)
    BY <1>1, <2>1, BecomesIs
  <2>3. \A i \in 1..Len(rows) : rows[i].parent # 0 => rows[i].parent \in 1..Len(rows)
    BY MembersAre
  <2>4. \A i \in 1..Len(rows) : new[i].node = rows[i].node /\ new[i].parent = rows[i].parent
    BY <1>1, <2>1 DEF Becomes
  <2>. QED
    BY <2>2, <2>3, <2>4
<1>5. \A i \in 1..Len(new) : Comes(new, i)
  <2> TAKE i \in 1..Len(new)
  <2>1. CASE i \in 1..Len(rows)
    <3>1. Comes(rows, i)
      BY <2>1 DEF RowsInv
    <3>. QED
      BY <1>4, <2>1, <3>1 DEF Comes
  <2>2. CASE i \notin 1..Len(rows)
    <3>1. new[i].parent = h /\ new[i].node = "review" /\ h < i
      BY <1>3, <2>2
    <3>2. new[h].node = "review" /\ h # 0
      BY <1>2, <1>4 DEF Host
    <3>. QED
      BY <3>1, <3>2 DEF Comes
  <2>. QED
    BY <2>1, <2>2
<1>6. \A i \in 1..Len(new) : new[i].parent # 0 => ~IsMember(new, new[i].parent)
  BY <1>2, <1>3, <1>4 DEF RowsInv, Host
<1>7. \A i \in 1..Len(new) :
        IsMember(new, i) /\ new[i].state = "doing" => new[new[i].parent].state = "doing"
  <2> SUFFICES ASSUME NEW i \in 1..Len(new), IsMember(new, i), new[i].state = "doing"
               PROVE  new[new[i].parent].state = "doing"
    OBVIOUS
  <2>1. CASE i \in 1..Len(rows)
    <3>1. IsMember(rows, i) /\ rows[i].state = "doing"
      BY <1>3, <1>4, <2>1
    <3>2. rows[rows[i].parent].state = "doing" /\ rows[i].parent \in 1..Len(rows)
      BY <2>1, <3>1, MembersAre DEF RowsInv
    <3>. QED
      BY <1>3, <1>4, <2>1, <3>2
  <2>2. CASE i \notin 1..Len(rows)
    BY <1>2, <1>3, <2>2
  <2>. QED
    BY <2>1, <2>2
<1>8. \A i, k \in 1..Len(new) :
        /\ new[i].state = "doing" /\ ~IsMember(new, i)
        /\ new[k].state = "doing" /\ ~IsMember(new, k)
        => i = k
  BY <1>3, <1>4 DEF RowsInv
<1>9. \A i \in 1..Len(new) : ~IsMember(new, i) => new[i].state # "abandoned"
  BY <1>3, <1>4 DEF RowsInv
<1>. QED
  BY <1>1, <1>5, <1>6, <1>7, <1>8, <1>9 DEF RowsInv

\* Members answer or are dropped; their hosts stay as they are.
LEMMA MembersClose ==
  ASSUME TypeInv, RowsInv, NEW T, NEW s \in {"done", "abandoned"}, NEW led, NEW e,
         Becomes(T, s, led, e, <<>>), \A t \in T : t \in 1..Len(rows) /\ IsMember(rows, t)
  PROVE  RowsInv'
<1>1. PICK new : new = rows'
  OBVIOUS
<1>2. /\ Len(new) = Len(rows)
      /\ \A i \in 1..Len(rows) : IsMember(new, i) <=> IsMember(rows, i)
  <2>1. Len(<<>>) = 0
    BY NothingMore
  <2>2. Len(new) = Len(rows) + Len(<<>>) /\ Len(rows) \in Nat
    BY <1>1, RowsAre DEF Becomes
  <2>. QED
    BY <1>1, <2>1, <2>2, BecomesIs
<1>3. \A i \in 1..Len(rows) :
        /\ new[i].node = rows[i].node /\ new[i].parent = rows[i].parent
        /\ i \in T => new[i].state = s
        /\ i \notin T => new[i].state = rows[i].state
  BY <1>1 DEF Becomes
<1>4. \A i \in 1..Len(rows) : rows[i].parent # 0 => rows[i].parent \in 1..Len(rows)
  BY MembersAre
<1>5. \A i \in 1..Len(new) : Comes(new, i)
  <2> TAKE i \in 1..Len(new)
  <2>1. Comes(rows, i) /\ i \in 1..Len(rows)
    BY <1>2 DEF RowsInv
  <2>. QED
    BY <1>3, <1>4, <2>1 DEF Comes
<1>6. \A i \in 1..Len(new) : new[i].parent # 0 => ~IsMember(new, new[i].parent)
  BY <1>2, <1>3, <1>4 DEF RowsInv
<1>7. \A i \in 1..Len(new) :
        IsMember(new, i) /\ new[i].state = "doing" => new[new[i].parent].state = "doing"
  <2> SUFFICES ASSUME NEW i \in 1..Len(rows), IsMember(new, i), new[i].state = "doing"
               PROVE  new[new[i].parent].state = "doing"
    BY <1>2
  <2>1. IsMember(rows, i) /\ i \notin T /\ rows[i].state = "doing"
    BY <1>2, <1>3
  <2>2. /\ rows[i].parent \in 1..Len(rows) /\ rows[rows[i].parent].state = "doing"
        /\ ~IsMember(rows, rows[i].parent)
    BY <2>1, MembersAre DEF RowsInv, Host
  <2>. QED
    BY <1>3, <2>2
<1>8. \A i, k \in 1..Len(new) :
        /\ new[i].state = "doing" /\ ~IsMember(new, i)
        /\ new[k].state = "doing" /\ ~IsMember(new, k)
        => i = k
  BY <1>2, <1>3 DEF RowsInv
<1>9. \A i \in 1..Len(new) : ~IsMember(new, i) => new[i].state # "abandoned"
  BY <1>2, <1>3 DEF RowsInv
<1>. QED
  BY <1>1, <1>5, <1>6, <1>7, <1>8, <1>9 DEF RowsInv

\* The pending members of a row are members.
LEMMA PendingAre ==
  ASSUME TypeInv, RowsInv, NEW h \in 1..Len(rows)
  PROVE  Pending(rows, h) =
           {m \in 1..Len(rows) : rows[m].parent = h /\ IsMember(rows, m) /\ rows[m].state = "doing"}
BY MembersAre DEF Pending

\* The row a pass leads to, and that it is no member.
LEMMA RowsWithPass ==
  ASSUME TypeInv, RowsInv, NEW t, NEW more, Passes(t, more), NEW new, new = rows'
  PROVE  /\ \A i \in 1..Len(new) : i \notin 1..Len(rows) =>
              /\ i = Len(rows) + 1 /\ Len(new) = Len(rows) + 1
              /\ new[i].parent = t /\ new[i].state = "doing" /\ new[i].ledger = <<>>
              /\ Follows(rows[t].node, new[i].node) /\ ~IsMember(new, i) /\ t < i
         /\ \A i \in 1..Len(rows) :
              new[i].state = IF i = t THEN "done" ELSE rows[i].state
<1>1. /\ Becomes({t}, "done", 0, 0, more) /\ t \in 1..Len(rows)
      /\ \/ more = <<>>
         \/ /\ Len(more) = 1 /\ more[1].parent = t /\ more[1].state = "doing"
            /\ more[1].ledger = <<>>
            /\ Follows(rows[t].node, more[1].node)
  BY DEF Passes
<1>2. \A i \in 1..Len(rows) :
        new[i].node = rows[i].node /\ new[i].state = IF i = t THEN "done" ELSE rows[i].state
  BY <1>1 DEF Becomes
<1>3. Len(rows) \in Nat
  BY RowsAre
<1>4. ASSUME NEW i \in 1..Len(new), i \notin 1..Len(rows)
      PROVE  /\ i = Len(rows) + 1 /\ Len(new) = Len(rows) + 1
             /\ new[i].parent = t /\ new[i].state = "doing" /\ new[i].ledger = <<>>
             /\ Follows(rows[t].node, new[i].node) /\ ~IsMember(new, i) /\ t < i
  <2>0. Becomes({t}, "done", 0, 0, more)
    BY <1>1
  <2>1. PICK k \in 1..Len(more) : i = Len(rows) + k /\ new[i] = more[k]
    BY <1>4, <2>0, BecomesIs
  <2>2. Len(new) = Len(rows) + Len(more)
    BY <2>0, BecomesIs
  <2>3. more # <<>>
    BY <2>1
  <2>4. /\ Len(more) = 1 /\ more[1].parent = t /\ more[1].state = "doing"
        /\ more[1].ledger = <<>> /\ Follows(rows[t].node, more[1].node)
    BY <1>1, <2>3
  <2>5. k = 1
    BY <2>1, <2>4
  <2>6. /\ i = Len(rows) + 1 /\ Len(new) = Len(rows) + 1
        /\ new[i].parent = t /\ new[i].state = "doing" /\ new[i].ledger = <<>>
        /\ Follows(rows[t].node, new[i].node)
    BY <2>1, <2>2, <2>4, <2>5
  <2>7. new[t].node = rows[t].node
    BY <1>1, <1>2
  <2>8. rows[t].node # new[i].node
    BY <2>6 DEF Follows
  <2>9. ~IsMember(new, i)
    BY <2>6, <2>7, <2>8 DEF IsMember
  <2>10. t < i
    BY <1>1, <1>3, <2>6
  <2>. QED
    BY <2>6, <2>9, <2>10
<1>. QED
  BY <1>2, <1>4

LEMMA PassesKeeps ==
  ASSUME TypeInv, RowsInv, NEW t, NEW more, Passes(t, more)
  PROVE  RowsInv'
<1>1. PICK new : new = rows'
  OBVIOUS
<1>2. /\ Becomes({t}, "done", 0, 0, more)
      /\ t \in 1..Len(rows) /\ ~IsMember(rows, t) /\ rows[t].state = "doing"
      /\ Host(rows, t) => Pending(rows, t) = {}
  BY DEF Passes
<1>3. /\ \A i \in 1..Len(new) : i \notin 1..Len(rows) =>
           /\ i = Len(rows) + 1 /\ Len(new) = Len(rows) + 1
           /\ new[i].parent = t /\ new[i].state = "doing" /\ new[i].ledger = <<>>
           /\ Follows(rows[t].node, new[i].node) /\ ~IsMember(new, i) /\ t < i
      /\ \A i \in 1..Len(rows) : new[i].state = IF i = t THEN "done" ELSE rows[i].state
  BY <1>1, RowsWithPass
<1>4. /\ \A i \in 1..Len(rows) : IsMember(new, i) <=> IsMember(rows, i)
      /\ \A i \in 1..Len(rows) : rows[i].parent # 0 => rows[i].parent \in 1..Len(rows)
      /\ \A i \in 1..Len(rows) : new[i].node = rows[i].node /\ new[i].parent = rows[i].parent
  <2>2. \A i \in 1..Len(rows) : IsMember(new, i) <=> IsMember(rows, i)
    BY <1>1, <1>2, BecomesIs
  <2>3. \A i \in 1..Len(rows) : rows[i].parent # 0 => rows[i].parent \in 1..Len(rows)
    BY MembersAre
  <2>4. \A i \in 1..Len(rows) : new[i].node = rows[i].node /\ new[i].parent = rows[i].parent
    BY <1>1, <1>2 DEF Becomes
  <2>. QED
    BY <2>2, <2>3, <2>4
<1>5. \A i \in 1..Len(new) : Comes(new, i)
  <2> TAKE i \in 1..Len(new)
  <2>1. CASE i \in 1..Len(rows)
    <3>1. Comes(rows, i)
      BY <2>1 DEF RowsInv
    <3>. QED
      BY <1>4, <2>1, <3>1 DEF Comes
  <2>2. CASE i \notin 1..Len(rows)
    <3>1. new[i].parent = t /\ t < i /\ Follows(new[t].node, new[i].node) /\ t # 0
      BY <1>2, <1>3, <1>4, <2>2
    <3>. QED
      BY <3>1 DEF Comes, Follows
  <2>. QED
    BY <2>1, <2>2
<1>6. \A i \in 1..Len(new) : new[i].parent # 0 => ~IsMember(new, new[i].parent)
  BY <1>2, <1>3, <1>4 DEF RowsInv
<1>7. \A i \in 1..Len(new) :
        IsMember(new, i) /\ new[i].state = "doing" => new[new[i].parent].state = "doing"
  <2> SUFFICES ASSUME NEW i \in 1..Len(new), IsMember(new, i), new[i].state = "doing"
               PROVE  new[new[i].parent].state = "doing"
    OBVIOUS
  <2>1. i \in 1..Len(rows) /\ IsMember(rows, i) /\ rows[i].state = "doing"
    BY <1>2, <1>3, <1>4
  <2>2. /\ rows[i].parent \in 1..Len(rows) /\ rows[rows[i].parent].state = "doing"
        /\ Host(rows, rows[i].parent)
    BY <2>1, MembersAre DEF RowsInv
  <2>3. rows[i].parent # t
    BY <1>2, <2>1, <2>2, PendingAre
  <2>. QED
    BY <1>3, <1>4, <2>1, <2>2, <2>3
<1>8. ASSUME NEW i \in 1..Len(new), new[i].state = "doing", ~IsMember(new, i)
      PROVE  i \notin 1..Len(rows)
  <2>1. ASSUME i \in 1..Len(rows)
        PROVE  FALSE
    BY <1>2, <1>3, <1>4, <1>8, <2>1 DEF RowsInv
  <2>. QED
    BY <2>1
<1>9. \A i, k \in 1..Len(new) :
        /\ new[i].state = "doing" /\ ~IsMember(new, i)
        /\ new[k].state = "doing" /\ ~IsMember(new, k)
        => i = k
  BY <1>3, <1>8
<1>10. \A i \in 1..Len(new) : ~IsMember(new, i) => new[i].state # "abandoned"
  BY <1>3, <1>4 DEF RowsInv
<1>. QED
  BY <1>1, <1>5, <1>6, <1>7, <1>9, <1>10 DEF RowsInv

LEMMA ChangeKeepsRows ==
  ASSUME TypeInv, RowsInv, Change
  PROVE  RowsInv'
<1>1. CASE rows' = rows
  BY <1>1 DEF RowsInv
<1>2. ASSUME NEW h, NEW led, NEW e, NEW more, Puts(h, led, e, more)
      PROVE  RowsInv'
  BY <1>2, PutsKeeps
<1>3. ASSUME NEW h, NEW e, Drops(h, e)
      PROVE  RowsInv'
  <2>1. Becomes(Pending(rows, h), "abandoned", h, e, <<>>) /\ h \in 1..Len(rows)
    BY <1>3 DEF Drops
  <2>2. \A m \in Pending(rows, h) : m \in 1..Len(rows) /\ IsMember(rows, m)
    BY <2>1, PendingAre
  <2>. QED
    BY <2>1, <2>2, MembersClose
<1>4. ASSUME NEW t, Answers(t)
      PROVE  RowsInv'
  <2>1. Becomes({t}, "done", 0, 0, <<>>) /\ \A m \in {t} : m \in 1..Len(rows) /\ IsMember(rows, m)
    BY <1>4 DEF Answers
  <2>. QED
    BY <2>1, MembersClose
<1>5. ASSUME NEW t, NEW more, Passes(t, more)
      PROVE  RowsInv'
  BY <1>5, PassesKeeps
<1>. QED
  BY <1>1, <1>2, <1>3, <1>4, <1>5 DEF Change

\* An answer and a pass put no question, so the gate of other executions still holds.
LEMMA GateHolds ==
  ASSUME TypeInv, RowsInv, NEW new, new = rows',
         rows' = rows \/ (\E t : Answers(t)) \/ (\E t, more : Passes(t, more)),
         NEW h \in 1..Len(rows)
  PROVE  /\ h \in 1..Len(new) /\ new[h].node = rows[h].node
         /\ IsMember(new, h) <=> IsMember(rows, h)
         /\ Pending(rows, h) = {} => Pending(new, h) = {}
<1>1. CASE rows' = rows
  BY <1>1
<1>2. ASSUME NEW T, NEW more, Becomes(T, "done", 0, 0, more),
             \A i \in 1..Len(new) : i \notin 1..Len(rows) => ~IsMember(new, i)
      PROVE  /\ h \in 1..Len(new) /\ new[h].node = rows[h].node
             /\ IsMember(new, h) <=> IsMember(rows, h)
             /\ Pending(rows, h) = {} => Pending(new, h) = {}
  <2>1. h \in 1..Len(new) /\ DOMAIN new = 1..Len(new) /\ DOMAIN rows = 1..Len(rows)
    BY <1>2, BecomesIs, RowsAre
  <2>2. IsMember(new, h) <=> IsMember(rows, h)
    BY <1>2, BecomesIs
  <2>3. \A i \in 1..Len(rows) :
          /\ new[i].node = rows[i].node /\ new[i].parent = rows[i].parent
          /\ new[i].state = "doing" => rows[i].state = "doing"
    BY <1>2 DEF Becomes
  <2>4. h # 0
    BY RowsAre
  <2>5. ASSUME NEW m \in Pending(new, h)
        PROVE  m \in Pending(rows, h)
    <3>1. /\ m \in 1..Len(new) /\ new[m].parent = h /\ new[m].node = new[h].node
          /\ new[m].state = "doing"
      BY <2>1, <2>5 DEF Pending, MemberRows
    <3>2. IsMember(new, m)
      BY <2>4, <3>1 DEF IsMember
    <3>3. m \in 1..Len(rows)
      BY <1>2, <3>1, <3>2
    <3>. QED
      BY <2>1, <2>3, <3>1, <3>3 DEF Pending, MemberRows
  <2>. QED
    BY <2>1, <2>2, <2>3, <2>5
<1>3. ASSUME NEW t, Answers(t)
      PROVE  /\ h \in 1..Len(new) /\ new[h].node = rows[h].node
             /\ IsMember(new, h) <=> IsMember(rows, h)
             /\ Pending(rows, h) = {} => Pending(new, h) = {}
  <2>1. Becomes({t}, "done", 0, 0, <<>>)
    BY <1>3 DEF Answers
  <2>2. Len(<<>>) = 0
    BY NothingMore
  <2>3. Len(new) = Len(rows) + Len(<<>>) /\ Len(rows) \in Nat
    BY <2>1, RowsAre DEF Becomes
  <2>4. \A i \in 1..Len(new) : i \notin 1..Len(rows) => ~IsMember(new, i)
    BY <2>2, <2>3
  <2>. QED
    BY <1>2, <2>1, <2>4
<1>4. ASSUME NEW t, NEW more, Passes(t, more)
      PROVE  /\ h \in 1..Len(new) /\ new[h].node = rows[h].node
             /\ IsMember(new, h) <=> IsMember(rows, h)
             /\ Pending(rows, h) = {} => Pending(new, h) = {}
  <2>1. Becomes({t}, "done", 0, 0, more)
    BY <1>4 DEF Passes
  <2>2. \A i \in 1..Len(new) : i \notin 1..Len(rows) => ~IsMember(new, i)
    BY <1>4, RowsWithPass
  <2>. QED
    BY <1>2, <2>1, <2>2
<1>. QED
  BY <1>1, <1>3, <1>4

\* Where a request is in a question, a revocation or a recall, no other is under way.
LEMMA TurnsAre ==
  ASSUME TakesTurns, NEW r \in Request, NEW op, Free(r, op)
  PROVE  /\ job[r].op = "none"
         /\ op \in {"ask", "revoke", "recall"} => \A q \in Request : job[q].op = "none"
         /\ \A q \in Request : job[q].op \notin {"ask", "revoke"}
BY DEF TakesTurns, Free

LEMMA NobodyWorks ==
  ASSUME \A q \in Request : job'[q].op = "none"
  PROVE  JobInv'
BY DEF JobInv

LEMMA StartKeepsJobs ==
  ASSUME ConsultInv, TakesTurns, NEW r \in Request, NEW t \in DOMAIN rows, Starts(r, t)
  PROVE  JobInv' /\ job' \in [Request -> Job]
<1>1. /\ t \in 1..Len(rows) /\ rows \in Seq(TaskRow) /\ t \in Nat /\ <<>> \in Seq(TaskRow)
      /\ job \in [Request -> Job]
  <2>1. rows \in Seq(TaskRow) /\ DOMAIN rows = 1..Len(rows) /\ Len(rows) \in Nat
    BY RowsAre DEF ConsultInv
  <2>. QED
    BY <2>1 DEF ConsultInv, TypeInv
<1>2. PICK op, to, submit : Take(r, op, t, to, submit) /\
        \/ op = "ask" /\ submit = "agree" /\ to \in Askable /\ rows[t].node = "review"
           /\ rows[t].state = "doing" /\ ~IsMember(rows, t)
        \/ op = "revoke" /\ submit = "agree" /\ to = <<>> /\ rows[t].node = "review"
           /\ Pending(rows, t) # {}
        \/ op = "execute" /\ to = <<>> /\ submit \in {"agree", "reject", "return"}
           /\ MaySubmit(t, submit) /\ Gate(t, submit)
  BY Zenon DEF Starts, StartAsk, StartRevoke, StartExecute
<1>3. PICK j : j = [op |-> op, row |-> t, to |-> to, submit |-> submit,
                    seen |-> IF op = "execute" THEN <<>> ELSE rows]
  OBVIOUS
<1>4. j \in Job
  <2>1. /\ op \in {"none", "ask", "revoke", "execute"} /\ to \in Askable \cup {<<>>}
        /\ submit \in {"agree", "reject", "return"}
    BY <1>2
  <2>2. (IF op = "execute" THEN <<>> ELSE rows) \in Seq(TaskRow)
    BY <1>1
  <2>. QED
    BY <1>1, <1>3, <2>1, <2>2 DEF Job
<1>5. /\ job' = [job EXCEPT ![r] = j] /\ rows' = rows
      /\ job[r].op = "none"
      /\ op \in {"ask", "revoke", "recall"} => \A q \in Request : job[q].op = "none"
      /\ \A q \in Request : job[q].op \notin {"ask", "revoke"}
  <2>1. Free(r, op) /\ job' = [job EXCEPT ![r] = j] /\ rows' = rows
    BY <1>2, <1>3 DEF Take
  <2>. QED
    BY <2>1, TurnsAre
<1>6. job' \in [Request -> Job]
  BY <1>1, <1>4, <1>5
<1>7. job'[r] = j /\ \A q \in Request : q # r => job'[q] = job[q]
  BY <1>1, <1>5
<1>8. /\ j.op = op /\ j.row = t /\ j.to = to /\ j.submit = submit
      /\ op # "execute" => j.seen = rows
  BY <1>3
<1>9. ASSUME op = "execute"
      PROVE  /\ IsMember(rows, t) => submit = "agree"
             /\ rows[t].node = "apply" => submit = "agree"
             /\ rows[t].node = "review" /\ ~IsMember(rows, t) => Pending(rows, t) = {}
  BY <1>2, <1>9 DEF MaySubmit, Gate, TakesTurns
<1>10. PICK next : next = job'
  OBVIOUS
<1>11. ASSUME NEW q \in Request
       PROVE  /\ next[q].op = "ask" =>
                   /\ next[q].seen = rows
                   /\ \A x \in Request : x # q => next[x].op = "none"
                   /\ next[q].row \in 1..Len(rows) /\ rows[next[q].row].node = "review"
                   /\ next[q].to \in Askable
                   /\ rows[next[q].row].state = "doing" /\ ~IsMember(rows, next[q].row)
              /\ next[q].op = "revoke" =>
                   /\ next[q].seen = rows
                   /\ \A x \in Request : x # q => next[x].op = "none"
                   /\ next[q].row \in 1..Len(rows) /\ rows[next[q].row].node = "review"
                   /\ Pending(rows, next[q].row) # {}
              /\ next[q].op = "execute" =>
                   /\ next[q].row \in 1..Len(rows)
                   /\ IsMember(rows, next[q].row) => next[q].submit = "agree"
                   /\ rows[next[q].row].node = "apply" => next[q].submit = "agree"
                   /\ rows[next[q].row].node = "review" /\ ~IsMember(rows, next[q].row) =>
                        Pending(rows, next[q].row) = {}
  <2>1. CASE q = r
    BY <1>1, <1>2, <1>5, <1>7, <1>8, <1>9, <1>10, <2>1
  <2>2. CASE q # r
    <3>1. next[q] = job[q] /\ next[q].op \notin {"ask", "revoke"}
      BY <1>5, <1>7, <1>10, <2>2
    <3>. QED
      BY <3>1 DEF ConsultInv, JobInv
  <2>. QED
    BY <2>1, <2>2
<1>12. JobInv'
  BY <1>5, <1>10, <1>11 DEF JobInv, AloneOn
<1>. QED
  BY <1>6, <1>12

LEMMA NoJobIs == NoJob \in Job /\ NoJob.op = "none"
<1>1. <<>> \in Seq(TaskRow) /\ 0 \in Nat
  OBVIOUS
<1>. QED
  BY <1>1 DEF NoJob, Job

LEMMA DoneIs ==
  ASSUME TypeInv, NEW r \in Request, Done(r)
  PROVE  /\ job' \in [Request -> Job] /\ job'[r].op = "none"
         /\ \A q \in Request : q # r => job'[q] = job[q]
<1>1. job \in [Request -> Job] /\ job' = [job EXCEPT ![r] = NoJob]
  BY DEF TypeInv, Done
<1>2. job' \in [Request -> Job]
  BY <1>1, NoJobIs
<1>3. job'[r] = NoJob /\ \A q \in Request : q # r => job'[q] = job[q]
  BY <1>1
<1>. QED
  BY <1>2, <1>3, NoJobIs

LEMMA WorkKeepsJobs ==
  ASSUME ConsultInv, NEW r \in Request, Works(r)
  PROVE  JobInv' /\ job' \in [Request -> Job]
<1>1. Done(r) /\ job[r].op = "execute"
  BY Zenon DEF Works, Stay, Move, Reject, Return, Refuse, Executes, Doing
<1>2. PICK new, next : new = rows' /\ next = job'
  OBVIOUS
<1>3. /\ next \in [Request -> Job] /\ next[r].op = "none"
      /\ \A q \in Request : q # r => next[q] = job[q]
  BY <1>1, <1>2, DoneIs DEF ConsultInv
<1>4. ASSUME NEW q \in Request
      PROVE  /\ next[q].op \notin {"ask", "revoke"}
             /\ next[q].op = "execute" =>
                  /\ next[q].row \in 1..Len(new)
                  /\ IsMember(new, next[q].row) => next[q].submit = "agree"
                  /\ new[next[q].row].node = "apply" => next[q].submit = "agree"
                  /\ new[next[q].row].node = "review" /\ ~IsMember(new, next[q].row) =>
                       Pending(new, next[q].row) = {}
  <2>1. CASE q = r
    BY <1>3, <2>1
  <2>2. CASE q # r
    <3>1. next[q] = job[q]
      BY <1>3, <2>2
    <3>2. job[q].op \notin {"ask", "revoke"}
      BY <1>1, <2>2 DEF ConsultInv, JobInv, AloneOn
    <3>3. ASSUME job[q].op = "execute"
          PROVE  /\ job[q].row \in 1..Len(new)
                 /\ IsMember(new, job[q].row) => job[q].submit = "agree"
                 /\ new[job[q].row].node = "apply" => job[q].submit = "agree"
                 /\ new[job[q].row].node = "review" /\ ~IsMember(new, job[q].row) =>
                      Pending(new, job[q].row) = {}
      <4>1. PICK h : h = job[q].row
        OBVIOUS
      <4>2. /\ h \in 1..Len(rows)
            /\ IsMember(rows, h) => job[q].submit = "agree"
            /\ rows[h].node = "apply" => job[q].submit = "agree"
            /\ rows[h].node = "review" /\ ~IsMember(rows, h) => Pending(rows, h) = {}
        BY <3>3, <4>1 DEF ConsultInv, JobInv
      <4>3. rows' = rows \/ (\E t : Answers(t)) \/ (\E t, more : Passes(t, more))
        BY ExecuteIs
      <4>4. /\ h \in 1..Len(new) /\ new[h].node = rows[h].node
            /\ IsMember(new, h) <=> IsMember(rows, h)
            /\ Pending(rows, h) = {} => Pending(new, h) = {}
        BY <1>2, <4>2, <4>3, GateHolds DEF ConsultInv
      <4>. QED
        BY <4>1, <4>2, <4>4
    <3>. QED
      BY <3>1, <3>2, <3>3
  <2>. QED
    BY <2>1, <2>2
<1>5. JobInv'
  BY <1>2, <1>4 DEF JobInv
<1>. QED
  BY <1>2, <1>3, <1>5

LEMMA StepKeepsJobs ==
  ASSUME ConsultInv, TakesTurns, [Next]_vars
  PROVE  JobInv' /\ job' \in [Request -> Job]
<1>1. CASE UNCHANGED vars
  BY <1>1 DEF vars, ConsultInv, TypeInv, JobInv, AloneOn
<1>2. CASE Next
  <2>1. PICK r \in Request :
          \/ Ask(r) \/ Revoke(r) \/ Works(r)
          \/ \E t \in DOMAIN rows : Starts(r, t) \/ Recall(r, t)
    BY <1>2, NextIs
  <2>2. CASE Ask(r) \/ Revoke(r)
    <3>1. Done(r) /\ job[r].op \in {"ask", "revoke"}
      BY <2>2, Zenon DEF Ask, Revoke, Doing
    <3>2. \A q \in Request : q # r => job[q].op = "none"
      BY <3>1 DEF ConsultInv, JobInv, AloneOn
    <3>3. /\ job' \in [Request -> Job] /\ job'[r].op = "none"
          /\ \A q \in Request : q # r => job'[q] = job[q]
      BY <3>1, DoneIs DEF ConsultInv
    <3>. QED
      BY <3>2, <3>3, NobodyWorks
  <2>3. CASE Works(r)
    BY <2>3, WorkKeepsJobs
  <2>4. ASSUME NEW t \in DOMAIN rows, Starts(r, t)
        PROVE  JobInv' /\ job' \in [Request -> Job]
    BY <2>4, StartKeepsJobs
  <2>5. ASSUME NEW t \in DOMAIN rows, Recall(r, t)
        PROVE  JobInv' /\ job' \in [Request -> Job]
    <3>1. Free(r, "recall") /\ job' = job
      BY <2>5 DEF Recall
    <3>2. \A q \in Request : job[q].op = "none"
      BY <3>1, TurnsAre
    <3>. QED
      BY <3>1, <3>2, NobodyWorks DEF ConsultInv, TypeInv
  <2>. QED
    BY <2>1, <2>2, <2>3, <2>4, <2>5
<1>. QED
  BY <1>1, <1>2

LEMMA InstIs ==
  ASSUME inst \in {"doing", "finished", "rejected"}, [Next]_vars
  PROVE  inst' \in {"doing", "finished", "rejected"}
<1>1. CASE UNCHANGED vars
  BY <1>1 DEF vars
<1>2. CASE Next
  <2>1. PICK r \in Request :
          \/ Ask(r) \/ Revoke(r) \/ Works(r)
          \/ \E t \in DOMAIN rows : Starts(r, t) \/ Recall(r, t)
    BY <1>2, NextIs
  <2>2. inst' = inst \/ inst' = "finished" \/ inst' = "rejected"
    BY <2>1, Zenon DEF Ask, Revoke, Works, Stay, Move, Reject, Return, Refuse, Starts, StartAsk,
                       StartRevoke, StartExecute, Take, Recall
  <2>. QED
    BY <2>2
<1>. QED
  BY <1>1, <1>2

LEMMA ChangeTypes ==
  ASSUME rows \in Seq(TaskRow), Change
  PROVE  rows' \in Seq(TaskRow)
BY DEF Change, Puts, Drops, Answers, Passes, Becomes

LEMMA StartsConsult ==
  ASSUME Init
  PROVE  ConsultInv
<1>1. PICK row : row = Row("apply", 0, Nobody, 0)
  OBVIOUS
<1>2. rows = <<row>> /\ inst = "doing" /\ job = [r \in Request |-> NoJob]
  BY <1>1, Zenon DEF Init, Nobody
<1>3. row \in TaskRow /\ row.node = "apply" /\ row.parent = 0 /\ row.state = "doing"
  <2>1. PICK n, t : n = "apply" /\ t = 0 /\ t \in Nat /\ n \in {"apply", "review", "final"}
    OBVIOUS
  <2>2. /\ Row(n, t, Nobody, 0) \in TaskRow /\ Row(n, t, Nobody, 0).node = n
        /\ Row(n, t, Nobody, 0).parent = t /\ Row(n, t, Nobody, 0).state = "doing"
    BY <2>1, NextRow
  <2>. QED
    BY <1>1, <2>1, <2>2
<1>4. rows \in Seq(TaskRow) /\ Len(rows) = 1 /\ rows[1] = row
  BY <1>2, <1>3, OneRow
<1>5. TypeInv
  <2>1. job \in [Request -> Job]
    BY <1>2, NoJobIs
  <2>. QED
    BY <1>2, <1>4, <2>1 DEF TypeInv
<1>6. \A i \in 1..Len(rows) : i = 1
  BY <1>4
<1>7. RowsInv
  BY <1>3, <1>4, <1>6 DEF RowsInv, Comes, IsMember
<1>8. JobInv
  <2>1. \A r \in Request : job[r].op = "none"
    BY <1>2, NoJobIs
  <2>. QED
    BY <2>1 DEF JobInv
<1>. QED
  BY <1>5, <1>7, <1>8 DEF ConsultInv

LEMMA StepKeepsConsult ==
  ASSUME ConsultInv, TakesTurns, [Next]_vars
  PROVE  ConsultInv'
<1>1. Change
  BY ChangeIs
<1>2. RowsInv'
  BY <1>1, ChangeKeepsRows DEF ConsultInv
<1>3. JobInv' /\ job' \in [Request -> Job]
  BY StepKeepsJobs
<1>4. inst' \in {"doing", "finished", "rejected"}
  BY InstIs DEF ConsultInv, TypeInv
<1>5. rows' \in Seq(TaskRow)
  BY <1>1, ChangeTypes DEF ConsultInv, TypeInv
<1>. QED
  BY <1>2, <1>3, <1>4, <1>5 DEF ConsultInv, TypeInv

LEMMA ConsultHolds ==
  ASSUME TakesTurns
  PROVE  Spec => []ConsultInv
BY StartsConsult, StepKeepsConsult, PTL DEF Spec

-----------------------------------------------------------------------------
(* A change is a step of Consult.                                          *)

\* The rows as a consultation.
HostsIn(rs, s) == {h \in 1..Len(rs) : Host(rs, h) /\ rs[h].state = s}
AskedMembers(rs, s) == {m \in 1..Len(rs) : IsMember(rs, m) /\ rs[m].state = s}
QuestionsIn(rs, s) == {<<rs[m].parent, m>> : m \in AskedMembers(rs, s)}
Finals(rs) == {f \in 1..Len(rs) : rs[f].node = "final"}
MovedIn(rs) == {rs[f].parent : f \in Finals(rs)}

LEMMA ViewIs ==
  ASSUME rows \in Seq(TaskRow), rows' \in Seq(TaskRow), NEW s
  PROVE  /\ HostRows(s) = HostsIn(rows, s) /\ HostRows(s)' = HostsIn(rows', s)
         /\ Questions(s) = QuestionsIn(rows, s) /\ Questions(s)' = QuestionsIn(rows', s)
         /\ {rows[f].parent : f \in {n \in DOMAIN rows : rows[n].node = "final"}} = MovedIn(rows)
         /\ {rows[f].parent : f \in {n \in DOMAIN rows : rows[n].node = "final"}}' = MovedIn(rows')
<1>1. DOMAIN rows = 1..Len(rows) /\ DOMAIN rows' = 1..Len(rows')
  OBVIOUS
<1>2. HostRows(s) = HostsIn(rows, s)
  BY <1>1 DEF HostRows, HostsIn, Host
<1>3. HostRows(s)' = HostsIn(rows', s)
  BY <1>1 DEF HostRows, HostsIn, Host
<1>4. Questions(s) = QuestionsIn(rows, s)
  BY <1>1, Zenon DEF Questions, QuestionsIn, AskedMembers
<1>5. Questions(s)' = QuestionsIn(rows', s)
  BY <1>1, Zenon DEF Questions, QuestionsIn, AskedMembers
<1>6. {rows[f].parent : f \in {n \in DOMAIN rows : rows[n].node = "final"}} = MovedIn(rows)
  BY <1>1, Zenon DEF MovedIn, Finals
<1>7. {rows[f].parent : f \in {n \in DOMAIN rows : rows[n].node = "final"}}' = MovedIn(rows')
  BY <1>1, Zenon DEF MovedIn, Finals
<1>. QED
  BY <1>2, <1>3, <1>4, <1>5, <1>6, <1>7

\* What a step must make of five sets to be one of Consult, or none.
Consults(H, O, A, D, M, H2, O2, A2, D2, M2) ==
  \/ /\ \E h \in H2 : h \notin H \cup D /\ H2 = H \cup {h}
     /\ O2 = O /\ A2 = A /\ D2 = D /\ M2 = M
  \/ /\ \E h \in H : /\ O \subseteq O2 /\ O2 # O
                     /\ \A q \in O2 \ O : q[1] = h /\ q \notin A
     /\ H2 = H /\ A2 = A /\ D2 = D /\ M2 = M
  \/ /\ \E h \in H : {q \in O : q[1] = h} # {} /\ O2 = O \ {q \in O : q[1] = h}
     /\ H2 = H /\ A2 = A /\ D2 = D /\ M2 = M
  \/ /\ \E h \in H : /\ {q \in O : q[1] = h} = {} /\ H2 = H \ {h} /\ D2 = D \cup {h}
                     /\ M2 = M \/ M2 = M \cup {h}
     /\ O2 = O /\ A2 = A
  \/ /\ \E q \in O : q[1] \in H /\ O2 = O \ {q} /\ A2 = A \cup {q}
     /\ H2 = H /\ D2 = D /\ M2 = M
  \/ H2 = H /\ O2 = O /\ A2 = A /\ D2 = D /\ M2 = M

Consulting(new) ==
  Consults(HostsIn(rows, "doing"), QuestionsIn(rows, "doing"), QuestionsIn(rows, "done"),
           HostsIn(rows, "done"), MovedIn(rows),
           HostsIn(new, "doing"), QuestionsIn(new, "doing"), QuestionsIn(new, "done"),
           HostsIn(new, "done"), MovedIn(new))

LEMMA StepOfConsult ==
  ASSUME rows \in Seq(TaskRow), rows' \in Seq(TaskRow), NEW new, new = rows', Consulting(new)
  PROVE  [Poll!Next]_(Poll!vars)
<1>1. /\ HostRows("doing") = HostsIn(rows, "doing") /\ HostRows("doing")' = HostsIn(new, "doing")
      /\ Questions("doing") = QuestionsIn(rows, "doing")
      /\ Questions("doing")' = QuestionsIn(new, "doing")
  BY ViewIs
<1>2. /\ HostRows("done") = HostsIn(rows, "done") /\ HostRows("done")' = HostsIn(new, "done")
      /\ Questions("done") = QuestionsIn(rows, "done")
      /\ Questions("done")' = QuestionsIn(new, "done")
  BY ViewIs
<1>3. /\ {rows[f].parent : f \in {n \in DOMAIN rows : rows[n].node = "final"}} = MovedIn(rows)
      /\ {rows[f].parent : f \in {n \in DOMAIN rows : rows[n].node = "final"}}' = MovedIn(new)
  BY ViewIs
<1>4. PICK H, O, A : H = HostRows("doing") /\ O = Questions("doing") /\ A = Questions("done")
  OBVIOUS
<1>5. PICK D, M :
        /\ D = HostRows("done")
        /\ M = {rows[f].parent : f \in {n \in DOMAIN rows : rows[n].node = "final"}}
  OBVIOUS
<1>6. PICK H2, O2, A2 :
        H2 = HostRows("doing")' /\ O2 = Questions("doing")' /\ A2 = Questions("done")'
  OBVIOUS
<1>7. PICK D2, M2 :
        /\ D2 = HostRows("done")'
        /\ M2 = {rows[f].parent : f \in {n \in DOMAIN rows : rows[n].node = "final"}}'
  OBVIOUS
<1>8. Consults(H, O, A, D, M, H2, O2, A2, D2, M2)
  BY <1>1, <1>2, <1>3, <1>4, <1>5, <1>6, <1>7 DEF Consulting
<1>9. ASSUME NEW h \in H2, h \notin H \cup D, H2 = H \cup {h},
             O2 = O, A2 = A, D2 = D, M2 = M
      PROVE  Poll!Next
  <2>1. Poll!Arrive(h)
    BY <1>4, <1>5, <1>6, <1>7, <1>9 DEF Poll!Arrive
  <2>. QED
    BY <1>6, <2>1 DEF Poll!Next
<1>10. ASSUME NEW h \in H, O \subseteq O2, O2 # O, \A q \in O2 \ O : q[1] = h /\ q \notin A,
              H2 = H, A2 = A, D2 = D, M2 = M
       PROVE  Poll!Next
  <2>1. Poll!Ask(h)
    BY <1>4, <1>5, <1>6, <1>7, <1>10 DEF Poll!Ask
  <2>. QED
    BY <1>4, <2>1 DEF Poll!Next
<1>11. ASSUME NEW h \in H, {q \in O : q[1] = h} # {}, O2 = O \ {q \in O : q[1] = h},
              H2 = H, A2 = A, D2 = D, M2 = M
       PROVE  Poll!Next
  <2>1. Poll!Revoke(h)
    BY <1>4, <1>5, <1>6, <1>7, <1>11 DEF Poll!Revoke, Poll!Of
  <2>. QED
    BY <1>4, <2>1 DEF Poll!Next
<1>12. ASSUME NEW h \in H, {q \in O : q[1] = h} = {}, H2 = H \ {h}, D2 = D \cup {h},
              M2 = M \/ M2 = M \cup {h}, O2 = O, A2 = A
       PROVE  Poll!Next
  <2>1. Poll!Decide(h)
    BY <1>4, <1>5, <1>6, <1>7, <1>12 DEF Poll!Decide, Poll!Of
  <2>. QED
    BY <1>4, <2>1 DEF Poll!Next
<1>13. ASSUME NEW q \in O, q[1] \in H, O2 = O \ {q}, A2 = A \cup {q}, H2 = H, D2 = D, M2 = M
       PROVE  Poll!Next
  <2>1. Poll!Answer(q)
    BY <1>4, <1>5, <1>6, <1>7, <1>13 DEF Poll!Answer
  <2>. QED
    BY <1>4, <2>1 DEF Poll!Next
<1>14. ASSUME H2 = H, O2 = O, A2 = A, D2 = D, M2 = M
       PROVE  UNCHANGED Poll!vars
  BY <1>4, <1>5, <1>6, <1>7, <1>14 DEF Poll!vars
<1>. QED
  BY <1>8, <1>9, <1>10, <1>11, <1>12, <1>13, <1>14 DEF Consults

LEMMA QuestionIs ==
  ASSUME NEW rs, NEW s, NEW q
  PROVE  q \in QuestionsIn(rs, s) <=>
           \E m \in 1..Len(rs) : IsMember(rs, m) /\ rs[m].state = s /\ q = <<rs[m].parent, m>>
BY DEF QuestionsIn, AskedMembers

LEMMA SameFinals ==
  ASSUME NEW old, NEW new, Finals(new) = Finals(old),
         \A f \in Finals(old) : new[f].parent = old[f].parent
  PROVE  MovedIn(new) = MovedIn(old)
BY DEF MovedIn

LEMMA SameAsked ==
  ASSUME NEW old, NEW new, NEW s, AskedMembers(new, s) = AskedMembers(old, s),
         \A m \in AskedMembers(old, s) : new[m].parent = old[m].parent
  PROVE  QuestionsIn(new, s) = QuestionsIn(old, s)
BY DEF QuestionsIn

LEMMA PutsAsks ==
  ASSUME ConsultInv, NEW h, NEW led, NEW e, NEW more, Puts(h, led, e, more), NEW new, new = rows'
  PROVE  Consulting(new)
<1>1. /\ Becomes({}, "doing", led, e, more)
      /\ h \in 1..Len(rows) /\ Host(rows, h) /\ rows[h].state = "doing" /\ Len(more) # 0
  BY DEF Puts
<1>2. /\ \A i \in 1..Len(new) : i \notin 1..Len(rows) =>
           /\ new[i].parent = h /\ new[i].node = "review" /\ new[i].state = "doing"
           /\ IsMember(new, i) /\ h < i
      /\ \A i \in 1..Len(rows) : new[i].state = rows[i].state
  BY RowsWithQuestion DEF ConsultInv
<1>3. /\ 1..Len(rows) \subseteq 1..Len(new)
      /\ \A i \in 1..Len(rows) : IsMember(new, i) <=> IsMember(rows, i)
      /\ \A i \in 1..Len(rows) : Host(new, i) <=> Host(rows, i)
      /\ \A i \in 1..Len(rows) : new[i].node = rows[i].node /\ new[i].parent = rows[i].parent
  <2>1. 1..Len(rows) \subseteq 1..Len(new)
    BY <1>1, BecomesIs DEF ConsultInv
  <2>2. \A i \in 1..Len(rows) : IsMember(new, i) <=> IsMember(rows, i)
    BY <1>1, BecomesIs DEF ConsultInv
  <2>3. \A i \in 1..Len(rows) : Host(new, i) <=> Host(rows, i)
    BY <1>1, BecomesIs DEF ConsultInv
  <2>4. \A i \in 1..Len(rows) : new[i].node = rows[i].node /\ new[i].parent = rows[i].parent
    BY <1>1 DEF Becomes
  <2>. QED
    BY <2>1, <2>2, <2>3, <2>4
<1>4. ASSUME NEW s
      PROVE  HostsIn(new, s) = HostsIn(rows, s)
  BY <1>2, <1>3 DEF HostsIn, Host
<1>5. MovedIn(new) = MovedIn(rows)
  <2>1. Finals(new) = Finals(rows)
    BY <1>2, <1>3 DEF Finals
  <2>2. \A f \in Finals(rows) : new[f].parent = rows[f].parent
    BY <1>3 DEF Finals
  <2>. QED
    BY <2>1, <2>2, SameFinals
<1>6. QuestionsIn(new, "done") = QuestionsIn(rows, "done")
  <2>1. AskedMembers(new, "done") = AskedMembers(rows, "done")
    BY <1>2, <1>3 DEF AskedMembers
  <2>2. \A m \in AskedMembers(rows, "done") : new[m].parent = rows[m].parent
    BY <1>3 DEF AskedMembers
  <2>. QED
    BY <2>1, <2>2, SameAsked
<1>7. PICK O, O2, A : /\ O = QuestionsIn(rows, "doing") /\ O2 = QuestionsIn(new, "doing")
                      /\ A = QuestionsIn(rows, "done")
  OBVIOUS
<1>8. O \subseteq O2
  <2> SUFFICES ASSUME NEW q \in O
               PROVE  q \in O2
    OBVIOUS
  <2>1. PICK m \in 1..Len(rows) :
          IsMember(rows, m) /\ rows[m].state = "doing" /\ q = <<rows[m].parent, m>>
    BY <1>7, QuestionIs
  <2>2. /\ m \in 1..Len(new) /\ IsMember(new, m) /\ new[m].state = "doing"
        /\ q = <<new[m].parent, m>>
    BY <1>2, <1>3, <2>1
  <2>. QED
    BY <1>7, <2>2, QuestionIs
<1>9. \A q \in O2 \ O : q[1] = h /\ q \notin A
  <2> SUFFICES ASSUME NEW q \in O2, q \notin O
               PROVE  q[1] = h /\ q \notin A
    OBVIOUS
  <2>1. PICK m \in 1..Len(new) :
          IsMember(new, m) /\ new[m].state = "doing" /\ q = <<new[m].parent, m>>
    BY <1>7, QuestionIs
  <2>2. m \notin 1..Len(rows)
    <3>1. ASSUME m \in 1..Len(rows)
          PROVE  FALSE
      <4>1. IsMember(rows, m) /\ rows[m].state = "doing" /\ q = <<rows[m].parent, m>>
        BY <1>2, <1>3, <2>1, <3>1
      <4>. QED
        BY <1>7, <3>1, <4>1, QuestionIs
    <3>. QED
      BY <3>1
  <2>3. q = <<h, m>>
    BY <1>2, <2>1, <2>2
  <2>4. ASSUME q \in A
        PROVE  FALSE
    <3>1. PICK n \in 1..Len(rows) : q = <<rows[n].parent, n>>
      BY <1>7, <2>4, QuestionIs
    <3>. QED
      BY <2>2, <2>3, <3>1
  <2>. QED
    BY <2>3, <2>4
<1>10. O2 # O
  <2>1. PICK i : i = Len(rows) + 1
    OBVIOUS
  <2>2. i \in 1..Len(new) /\ i \notin 1..Len(rows)
    <3>1. Len(new) = Len(rows) + Len(more) /\ Len(more) \in Nat
      BY <1>1, BecomesIs DEF ConsultInv
    <3>2. Len(rows) \in Nat
      BY RowsAre DEF ConsultInv
    <3>. QED
      BY <1>1, <2>1, <3>1, <3>2
  <2>3. PICK q : q = <<new[i].parent, i>>
    OBVIOUS
  <2>4. q \in O2
    BY <1>2, <1>7, <2>2, <2>3, QuestionIs
  <2>5. ASSUME q \in O
        PROVE  FALSE
    <3>1. PICK n \in 1..Len(rows) : q = <<rows[n].parent, n>>
      BY <1>7, <2>5, QuestionIs
    <3>. QED
      BY <2>2, <2>3, <3>1
  <2>. QED
    BY <2>4, <2>5
<1>11. h \in HostsIn(rows, "doing")
  BY <1>1 DEF HostsIn
<1>. QED
  BY <1>4, <1>5, <1>6, <1>7, <1>8, <1>9, <1>10, <1>11 DEF Consulting, Consults

\* What an answer or a revocation leaves as it is.
LEMMA MembersOnly ==
  ASSUME ConsultInv, NEW T, NEW s, NEW led, NEW e, Becomes(T, s, led, e, <<>>),
         \A t \in T : t \in 1..Len(rows) /\ IsMember(rows, t), NEW new, new = rows'
  PROVE  /\ Len(new) = Len(rows)
         /\ \A i \in 1..Len(rows) : IsMember(new, i) <=> IsMember(rows, i)
         /\ \A i \in 1..Len(rows) : Host(new, i) <=> Host(rows, i)
         /\ \A i \in 1..Len(rows) :
              /\ new[i].node = rows[i].node /\ new[i].parent = rows[i].parent
              /\ new[i].who = rows[i].who /\ new[i].round = rows[i].round
              /\ i \in T => new[i].state = s
              /\ i \notin T => new[i].state = rows[i].state
         /\ \A state : HostsIn(new, state) = HostsIn(rows, state)
         /\ MovedIn(new) = MovedIn(rows)
<1>1. Len(new) = Len(rows)
  <2>1. Len(<<>>) = 0
    BY NothingMore
  <2>2. Len(new) = Len(rows) + Len(<<>>) /\ Len(rows) \in Nat
    BY RowsAre DEF Becomes, ConsultInv
  <2>. QED
    BY <2>1, <2>2
<1>2. \A i \in 1..Len(rows) : IsMember(new, i) <=> IsMember(rows, i)
  BY BecomesIs DEF ConsultInv
<1>3. \A i \in 1..Len(rows) : Host(new, i) <=> Host(rows, i)
  BY BecomesIs DEF ConsultInv
<1>4. \A i \in 1..Len(rows) :
        /\ new[i].node = rows[i].node /\ new[i].parent = rows[i].parent
        /\ new[i].who = rows[i].who /\ new[i].round = rows[i].round
        /\ i \in T => new[i].state = s
        /\ i \notin T => new[i].state = rows[i].state
  BY DEF Becomes
<1>5. ASSUME NEW state
      PROVE  HostsIn(new, state) = HostsIn(rows, state)
  BY <1>1, <1>3, <1>4 DEF HostsIn, Host
<1>6. MovedIn(new) = MovedIn(rows)
  <2>1. Finals(new) = Finals(rows)
    BY <1>1, <1>4 DEF Finals
  <2>2. \A f \in Finals(rows) : new[f].parent = rows[f].parent
    BY <1>4 DEF Finals
  <2>. QED
    BY <2>1, <2>2, SameFinals
<1>. QED
  BY <1>1, <1>2, <1>3, <1>4, <1>5, <1>6

LEMMA DropsRevokes ==
  ASSUME ConsultInv, NEW h, NEW e, Drops(h, e), NEW new, new = rows'
  PROVE  Consulting(new)
<1>1. PICK T : T = Pending(rows, h)
  OBVIOUS
<1>2. Becomes(T, "abandoned", h, e, <<>>) /\ h \in 1..Len(rows) /\ T # {}
  BY <1>1 DEF Drops
<1>3. T = {m \in 1..Len(rows) : rows[m].parent = h /\ IsMember(rows, m) /\ rows[m].state = "doing"}
  BY <1>1, <1>2, PendingAre DEF ConsultInv
<1>4. \A t \in T : t \in 1..Len(rows) /\ IsMember(rows, t)
  BY <1>3
<1>5. /\ Len(new) = Len(rows)
      /\ \A i \in 1..Len(rows) : IsMember(new, i) <=> IsMember(rows, i)
      /\ \A i \in 1..Len(rows) :
           /\ new[i].parent = rows[i].parent
           /\ i \in T => new[i].state = "abandoned"
           /\ i \notin T => new[i].state = rows[i].state
  BY <1>2, <1>4, MembersOnly
<1>6. /\ HostsIn(new, "doing") = HostsIn(rows, "doing") /\ HostsIn(new, "done") = HostsIn(rows, "done")
      /\ MovedIn(new) = MovedIn(rows)
  BY <1>2, <1>4, MembersOnly
<1>7. QuestionsIn(new, "done") = QuestionsIn(rows, "done")
  <2>1. AskedMembers(new, "done") = AskedMembers(rows, "done")
    BY <1>3, <1>5 DEF AskedMembers
  <2>2. \A m \in AskedMembers(rows, "done") : new[m].parent = rows[m].parent
    BY <1>5 DEF AskedMembers
  <2>. QED
    BY <2>1, <2>2, SameAsked
<1>8. PICK O, O2 : O = QuestionsIn(rows, "doing") /\ O2 = QuestionsIn(new, "doing")
  OBVIOUS
<1>9. ASSUME NEW q
      PROVE  q \in O2 <=> q \in O /\ q[1] # h
  <2>1. ASSUME q \in O2
        PROVE  q \in O /\ q[1] # h
    <3>1. PICK m \in 1..Len(rows) :
            IsMember(new, m) /\ new[m].state = "doing" /\ q = <<new[m].parent, m>>
      BY <1>5, <1>8, <2>1, QuestionIs
    <3>2. m \notin T /\ IsMember(rows, m) /\ rows[m].state = "doing" /\ q = <<rows[m].parent, m>>
      BY <1>5, <3>1
    <3>3. rows[m].parent # h
      BY <1>3, <3>2
    <3>. QED
      BY <1>8, <3>2, <3>3, QuestionIs
  <2>2. ASSUME q \in O, q[1] # h
        PROVE  q \in O2
    <3>1. PICK m \in 1..Len(rows) :
            IsMember(rows, m) /\ rows[m].state = "doing" /\ q = <<rows[m].parent, m>>
      BY <1>8, <2>2, QuestionIs
    <3>2. m \notin T
      BY <1>3, <2>2, <3>1
    <3>3. /\ m \in 1..Len(new) /\ IsMember(new, m) /\ new[m].state = "doing"
          /\ q = <<new[m].parent, m>>
      BY <1>5, <3>1, <3>2
    <3>. QED
      BY <1>8, <3>3, QuestionIs
  <2>. QED
    BY <2>1, <2>2
<1>10. PICK m \in T : TRUE
  BY <1>2
<1>11. /\ m \in 1..Len(rows) /\ rows[m].parent = h /\ IsMember(rows, m) /\ rows[m].state = "doing"
  BY <1>3
<1>12. h \in HostsIn(rows, "doing")
  <2>1. Host(rows, h) /\ rows[h].state = "doing"
    BY <1>11, MembersAre DEF ConsultInv, RowsInv
  <2>. QED
    BY <1>2, <2>1 DEF HostsIn
<1>13. {q \in O : q[1] = h} # {}
  <2>1. PICK q : q = <<h, m>>
    OBVIOUS
  <2>2. q \in O /\ q[1] = h
    BY <1>8, <1>11, <2>1, QuestionIs
  <2>. QED
    BY <2>2
<1>14. O2 = O \ {q \in O : q[1] = h}
  BY <1>9
<1>. QED
  BY <1>6, <1>7, <1>8, <1>12, <1>13, <1>14 DEF Consulting, Consults

LEMMA AnswersAnswer ==
  ASSUME ConsultInv, NEW t, Answers(t), NEW new, new = rows'
  PROVE  Consulting(new)
<1>1. /\ Becomes({t}, "done", 0, 0, <<>>)
      /\ t \in 1..Len(rows) /\ IsMember(rows, t) /\ rows[t].state = "doing"
  BY DEF Answers
<1>2. \A m \in {t} : m \in 1..Len(rows) /\ IsMember(rows, m)
  BY <1>1
<1>3. /\ Len(new) = Len(rows)
      /\ \A i \in 1..Len(rows) : IsMember(new, i) <=> IsMember(rows, i)
      /\ \A i \in 1..Len(rows) :
           /\ new[i].parent = rows[i].parent
           /\ i \in {t} => new[i].state = "done"
           /\ i \notin {t} => new[i].state = rows[i].state
  BY <1>1, <1>2, MembersOnly
<1>4. /\ HostsIn(new, "doing") = HostsIn(rows, "doing") /\ HostsIn(new, "done") = HostsIn(rows, "done")
      /\ MovedIn(new) = MovedIn(rows)
  BY <1>1, <1>2, MembersOnly
<1>5. PICK O, O2 : O = QuestionsIn(rows, "doing") /\ O2 = QuestionsIn(new, "doing")
  OBVIOUS
<1>6. PICK A, A2 : A = QuestionsIn(rows, "done") /\ A2 = QuestionsIn(new, "done")
  OBVIOUS
<1>7. PICK p : p = <<rows[t].parent, t>>
  OBVIOUS
<1>8. ASSUME NEW q
      PROVE  q \in O2 <=> q \in O /\ q # p
  <2>1. ASSUME q \in O2
        PROVE  q \in O /\ q # p
    <3>1. PICK m \in 1..Len(rows) :
            IsMember(new, m) /\ new[m].state = "doing" /\ q = <<new[m].parent, m>>
      BY <1>3, <1>5, <2>1, QuestionIs
    <3>2. m # t /\ IsMember(rows, m) /\ rows[m].state = "doing" /\ q = <<rows[m].parent, m>>
      BY <1>3, <3>1
    <3>. QED
      BY <1>5, <1>7, <3>2, QuestionIs
  <2>2. ASSUME q \in O, q # p
        PROVE  q \in O2
    <3>1. PICK m \in 1..Len(rows) :
            IsMember(rows, m) /\ rows[m].state = "doing" /\ q = <<rows[m].parent, m>>
      BY <1>5, <2>2, QuestionIs
    <3>2. m # t
      BY <1>7, <2>2, <3>1
    <3>3. /\ m \in 1..Len(new) /\ IsMember(new, m) /\ new[m].state = "doing"
          /\ q = <<new[m].parent, m>>
      BY <1>3, <3>1, <3>2
    <3>. QED
      BY <1>5, <3>3, QuestionIs
  <2>. QED
    BY <2>1, <2>2
<1>9. ASSUME NEW q
      PROVE  q \in A2 <=> q \in A \/ q = p
  <2>1. ASSUME q \in A2, q # p
        PROVE  q \in A
    <3>1. PICK m \in 1..Len(rows) :
            IsMember(new, m) /\ new[m].state = "done" /\ q = <<new[m].parent, m>>
      BY <1>3, <1>6, <2>1, QuestionIs
    <3>2. m # t
      BY <1>3, <1>7, <2>1, <3>1
    <3>3. IsMember(rows, m) /\ rows[m].state = "done" /\ q = <<rows[m].parent, m>>
      BY <1>3, <3>1, <3>2
    <3>. QED
      BY <1>6, <3>3, QuestionIs
  <2>2. ASSUME q \in A
        PROVE  q \in A2
    <3>1. PICK m \in 1..Len(rows) :
            IsMember(rows, m) /\ rows[m].state = "done" /\ q = <<rows[m].parent, m>>
      BY <1>6, <2>2, QuestionIs
    <3>2. /\ m \in 1..Len(new) /\ IsMember(new, m) /\ new[m].state = "done"
          /\ q = <<new[m].parent, m>>
      BY <1>1, <1>3, <3>1
    <3>. QED
      BY <1>6, <3>2, QuestionIs
  <2>3. p \in A2
    <3>1. /\ t \in 1..Len(new) /\ IsMember(new, t) /\ new[t].state = "done"
          /\ p = <<new[t].parent, t>>
      BY <1>1, <1>3, <1>7
    <3>. QED
      BY <1>6, <3>1, QuestionIs
  <2>. QED
    BY <2>1, <2>2, <2>3
<1>10. p \in O
  BY <1>1, <1>5, <1>7, QuestionIs
<1>11. p[1] \in HostsIn(rows, "doing")
  <2>1. /\ rows[t].parent \in 1..Len(rows) /\ Host(rows, rows[t].parent)
        /\ rows[rows[t].parent].state = "doing"
    BY <1>1, MembersAre DEF ConsultInv, RowsInv
  <2>. QED
    BY <1>7, <2>1 DEF HostsIn
<1>12. O2 = O \ {p} /\ A2 = A \cup {p}
  BY <1>8, <1>9
<1>. QED
  BY <1>4, <1>5, <1>6, <1>10, <1>11, <1>12 DEF Consulting, Consults

\* What a pass leaves as it is, and the row it may add.
LEMMA PassLeaves ==
  ASSUME ConsultInv, NEW t, NEW more, Passes(t, more), NEW new, new = rows'
  PROVE  /\ t \in 1..Len(rows) /\ ~IsMember(rows, t) /\ rows[t].state = "doing"
         /\ 1..Len(rows) \subseteq 1..Len(new)
         /\ \A i \in 1..Len(rows) :
              /\ IsMember(new, i) <=> IsMember(rows, i)
              /\ Host(new, i) <=> Host(rows, i)
              /\ new[i].node = rows[i].node /\ new[i].parent = rows[i].parent
              /\ new[i].who = rows[i].who /\ new[i].round = rows[i].round
              /\ new[i].ledger = rows[i].ledger
              /\ i = t => new[i].state = "done"
              /\ i # t => new[i].state = rows[i].state
         /\ \A i \in 1..Len(new) : i \notin 1..Len(rows) =>
              /\ \A k \in 1..Len(new) : k \notin 1..Len(rows) => k = i
              /\ new[i].parent = t /\ new[i].state = "doing" /\ new[i].ledger = <<>>
              /\ Follows(rows[t].node, new[i].node) /\ ~IsMember(new, i) /\ t < i
<1>1. /\ Becomes({t}, "done", 0, 0, more)
      /\ t \in 1..Len(rows) /\ ~IsMember(rows, t) /\ rows[t].state = "doing"
  BY DEF Passes
<1>2. 1..Len(rows) \subseteq 1..Len(new)
  BY <1>1, BecomesIs DEF ConsultInv
<1>3. \A i \in 1..Len(rows) : IsMember(new, i) <=> IsMember(rows, i)
  BY <1>1, BecomesIs DEF ConsultInv
<1>4. \A i \in 1..Len(rows) : Host(new, i) <=> Host(rows, i)
  BY <1>1, BecomesIs DEF ConsultInv
<1>5. \A i \in 1..Len(rows) : i # 0
  BY RowsAre DEF ConsultInv
<1>6. \A i \in 1..Len(rows) :
        /\ new[i].node = rows[i].node /\ new[i].parent = rows[i].parent
        /\ new[i].who = rows[i].who /\ new[i].round = rows[i].round
        /\ new[i].ledger = rows[i].ledger
        /\ i = t => new[i].state = "done"
        /\ i # t => new[i].state = rows[i].state
  BY <1>1, <1>5 DEF Becomes
<1>7. ASSUME NEW i \in 1..Len(new), i \notin 1..Len(rows)
      PROVE  /\ i = Len(rows) + 1
             /\ new[i].parent = t /\ new[i].state = "doing" /\ new[i].ledger = <<>>
             /\ Follows(rows[t].node, new[i].node) /\ ~IsMember(new, i) /\ t < i
  BY <1>7, RowsWithPass DEF ConsultInv
<1>. QED
  BY <1>1, <1>2, <1>3, <1>4, <1>6, <1>7

LEMMA PassesDecides ==
  ASSUME ConsultInv, NEW t, NEW more, Passes(t, more), NEW new, new = rows'
  PROVE  Consulting(new)
<1>1. /\ t \in 1..Len(rows) /\ ~IsMember(rows, t) /\ rows[t].state = "doing"
      /\ 1..Len(rows) \subseteq 1..Len(new)
      /\ \A i \in 1..Len(rows) :
           /\ IsMember(new, i) <=> IsMember(rows, i)
           /\ Host(new, i) <=> Host(rows, i)
           /\ new[i].node = rows[i].node /\ new[i].parent = rows[i].parent
           /\ i = t => new[i].state = "done"
           /\ i # t => new[i].state = rows[i].state
  BY PassLeaves
<1>2. \A i \in 1..Len(new) : i \notin 1..Len(rows) =>
        /\ \A k \in 1..Len(new) : k \notin 1..Len(rows) => k = i
        /\ new[i].parent = t /\ new[i].state = "doing"
        /\ Follows(rows[t].node, new[i].node) /\ ~IsMember(new, i)
  BY PassLeaves
<1>3. ASSUME NEW s
      PROVE  QuestionsIn(new, s) = QuestionsIn(rows, s)
  <2>1. AskedMembers(new, s) = AskedMembers(rows, s)
    BY <1>1, <1>2 DEF AskedMembers
  <2>2. \A m \in AskedMembers(rows, s) : new[m].parent = rows[m].parent
    BY <1>1 DEF AskedMembers
  <2>. QED
    BY <2>1, <2>2, SameAsked
<1>4. ASSUME \A i \in 1..Len(new) : i \notin 1..Len(rows) => new[i].node # "final"
      PROVE  MovedIn(new) = MovedIn(rows)
  <2>1. Finals(new) = Finals(rows)
    BY <1>1, <1>4 DEF Finals
  <2>2. \A f \in Finals(rows) : new[f].parent = rows[f].parent
    BY <1>1 DEF Finals
  <2>. QED
    BY <2>1, <2>2, SameFinals
<1>5. CASE Host(rows, t)
  <2>1. rows[t].node = "review" /\ Pending(rows, t) = {}
    BY <1>5 DEF Host, Passes
  <2>2. \A i \in 1..Len(new) : i \notin 1..Len(rows) => new[i].node # "review"
    BY <1>2, <2>1 DEF Follows
  <2>3. HostsIn(new, "doing") = HostsIn(rows, "doing") \ {t}
    BY <1>1, <2>2 DEF HostsIn, Host
  <2>4. HostsIn(new, "done") = HostsIn(rows, "done") \cup {t}
    BY <1>1, <1>5, <2>2 DEF HostsIn, Host
  <2>5. {q \in QuestionsIn(rows, "doing") : q[1] = t} = {}
    <3> SUFFICES ASSUME NEW q \in QuestionsIn(rows, "doing"), q[1] = t
                 PROVE  FALSE
      OBVIOUS
    <3>1. PICK m \in 1..Len(rows) :
            IsMember(rows, m) /\ rows[m].state = "doing" /\ q = <<rows[m].parent, m>>
      BY QuestionIs
    <3>2. rows[m].parent = t
      BY <3>1
    <3>. QED
      BY <1>1, <2>1, <3>1, <3>2, PendingAre DEF ConsultInv
  <2>6. t \in HostsIn(rows, "doing")
    BY <1>1, <1>5 DEF HostsIn
  <2>7. MovedIn(new) = MovedIn(rows) \/ MovedIn(new) = MovedIn(rows) \cup {t}
    <3>1. CASE \A i \in 1..Len(new) : i \notin 1..Len(rows) => new[i].node # "final"
      BY <1>4, <3>1
    <3>2. CASE \E i \in 1..Len(new) : i \notin 1..Len(rows) /\ new[i].node = "final"
      <4>1. PICK i \in 1..Len(new) : i \notin 1..Len(rows) /\ new[i].node = "final"
        BY <3>2
      <4>2. Finals(new) = Finals(rows) \cup {i} /\ new[i].parent = t
        BY <1>1, <1>2, <4>1 DEF Finals
      <4>3. \A f \in Finals(rows) : new[f].parent = rows[f].parent
        BY <1>1 DEF Finals
      <4>4. MovedIn(new) = MovedIn(rows) \cup {t}
        BY <4>2, <4>3 DEF MovedIn
      <4>. QED
        BY <4>4
    <3>. QED
      BY <3>1, <3>2
  <2>8. QuestionsIn(new, "doing") = QuestionsIn(rows, "doing")
    BY <1>3
  <2>9. QuestionsIn(new, "done") = QuestionsIn(rows, "done")
    BY <1>3
  <2>. QED
    BY <2>3, <2>4, <2>5, <2>6, <2>7, <2>8, <2>9 DEF Consulting, Consults
<1>6. CASE ~Host(rows, t)
  <2>1. rows[t].node # "review"
    BY <1>1, <1>6 DEF Host
  <2>2. \A i \in 1..Len(new) : i \notin 1..Len(rows) => new[i].node # "final"
    BY <1>2, <2>1 DEF Follows
  <2>3. MovedIn(new) = MovedIn(rows)
    BY <1>4, <2>2
  <2>4. HostsIn(new, "done") = HostsIn(rows, "done")
    BY <1>1, <1>2, <1>6 DEF HostsIn
  <2>5. CASE \A i \in 1..Len(new) : i \notin 1..Len(rows) => new[i].node # "review"
    <3>1. HostsIn(new, "doing") = HostsIn(rows, "doing")
      BY <1>1, <1>6, <2>5 DEF HostsIn, Host
    <3>2. QuestionsIn(new, "doing") = QuestionsIn(rows, "doing")
      BY <1>3
    <3>3. QuestionsIn(new, "done") = QuestionsIn(rows, "done")
      BY <1>3
    <3>. QED
      BY <2>3, <2>4, <3>1, <3>2, <3>3 DEF Consulting, Consults
  <2>6. CASE \E i \in 1..Len(new) : i \notin 1..Len(rows) /\ new[i].node = "review"
    <3>1. PICK i \in 1..Len(new) : i \notin 1..Len(rows) /\ new[i].node = "review"
      BY <2>6
    <3>2. Host(new, i) /\ new[i].state = "doing"
      BY <1>2, <3>1 DEF Host
    <3>3. HostsIn(new, "doing") = HostsIn(rows, "doing") \cup {i}
      BY <1>1, <1>2, <1>6, <3>1, <3>2 DEF HostsIn
    <3>4. i \notin HostsIn(rows, "doing") \cup HostsIn(rows, "done")
      BY <3>1 DEF HostsIn
    <3>5. QuestionsIn(new, "doing") = QuestionsIn(rows, "doing")
      BY <1>3
    <3>6. QuestionsIn(new, "done") = QuestionsIn(rows, "done")
      BY <1>3
    <3>. QED
      BY <2>3, <2>4, <3>3, <3>4, <3>5, <3>6 DEF Consulting, Consults
  <2>. QED
    BY <2>5, <2>6
<1>. QED
  BY <1>5, <1>6

LEMMA ChangeConsults ==
  ASSUME ConsultInv, TakesTurns, [Next]_vars
  PROVE  [Poll!Next]_(Poll!vars)
<1>1. Change
  BY ChangeIs
<1>2. rows \in Seq(TaskRow) /\ rows' \in Seq(TaskRow)
  BY <1>1, ChangeTypes DEF ConsultInv, TypeInv
<1>3. PICK new : new = rows'
  OBVIOUS
<1>4. Consulting(new)
  <2>1. CASE rows' = rows
    BY <1>3, <2>1 DEF Consulting, Consults
  <2>2. ASSUME NEW h, NEW led, NEW e, NEW more, Puts(h, led, e, more)
        PROVE  Consulting(new)
    BY <1>3, <2>2, PutsAsks
  <2>3. ASSUME NEW h, NEW e, Drops(h, e)
        PROVE  Consulting(new)
    BY <1>3, <2>3, DropsRevokes
  <2>4. ASSUME NEW t, Answers(t)
        PROVE  Consulting(new)
    BY <1>3, <2>4, AnswersAnswer
  <2>5. ASSUME NEW t, NEW more, Passes(t, more)
        PROVE  Consulting(new)
    BY <1>3, <2>5, PassesDecides
  <2>. QED
    BY <1>1, <2>1, <2>2, <2>3, <2>4, <2>5 DEF Change
<1>. QED
  BY <1>2, <1>3, <1>4, StepOfConsult

LEMMA ConsultStarts ==
  ASSUME Init
  PROVE  Poll!Init
<1>1. PICK n, t : n = "apply" /\ t = 0 /\ t \in Nat /\ n \in {"apply", "review", "final"}
  OBVIOUS
<1>2. PICK row : row = Row(n, t, Nobody, 0)
  OBVIOUS
<1>3. row \in TaskRow /\ row.node = "apply" /\ row.parent = 0
  BY <1>1, <1>2, NextRow
<1>4. rows = <<row>>
  BY <1>1, <1>2, Zenon DEF Init, Nobody
<1>5. DOMAIN rows = {1} /\ rows[1] = row
  BY <1>4
<1>6. \A i \in DOMAIN rows : rows[i].node = "apply" /\ ~IsMember(rows, i)
  BY <1>3, <1>5 DEF IsMember
<1>7. HostRows("doing") = {} /\ HostRows("done") = {}
  BY <1>6 DEF HostRows
<1>8. Questions("doing") = {} /\ Questions("done") = {}
  BY <1>6 DEF Questions
<1>9. {rows[f].parent : f \in {n_1 \in DOMAIN rows : rows[n_1].node = "final"}} = {}
  BY <1>6
<1>. QED
  BY <1>7, <1>8, <1>9 DEF Poll!Init

\* The collect mode implements Consult: as long as clients take turns with questions,
\* revocations and recalls, whatever hosts and members do is a consultation. The host
\* decides once, when every question has been answered or revoked, it alone moves the
\* token, and no answer is lost.
THEOREM ModeIsAConsultation ==
  ASSUME TakesTurns
  PROVE  Spec => Consulted
<1>1. Init => Poll!Init
  BY ConsultStarts
<1>2. ConsultInv /\ [Next]_vars => [Poll!Next]_(Poll!vars)
  BY ChangeConsults
<1>3. Spec => []ConsultInv
  BY ConsultHolds
<1>. QED
  BY <1>1, <1>2, <1>3, PTL DEF Spec, Consulted, Poll!Spec

-----------------------------------------------------------------------------
(* The ledger.                                                             *)

LEMMA EntriesAre ==
  ASSUME NEW l \in Seq(Entry)
  PROVE  /\ DOMAIN l = 1..Len(l) /\ Len(l) \in Nat
         /\ \A i \in 1..Len(l) :
              l[i].round \in Nat /\ l[i].revoked \in BOOLEAN /\ l[i].to \in SUBSET Whom
<1>1. DOMAIN l = 1..Len(l) /\ Len(l) \in Nat
  OBVIOUS
<1>2. ASSUME NEW i \in 1..Len(l)
      PROVE  l[i].round \in Nat /\ l[i].revoked \in BOOLEAN /\ l[i].to \in SUBSET Whom
  <2>1. l[i] \in Entry
    OBVIOUS
  <2>. QED
    BY <2>1 DEF Entry
<1>. QED
  BY <1>1, <1>2

\* Launches counted up to an entry: finitely many, never fewer further on, and one at
\* least where there is one.
LEMMA LaunchedIs ==
  ASSUME NEW l \in Seq(Entry), NEW n \in 0..Len(l)
  PROVE  IsFiniteSet(Launched(l, n)) /\ Cardinality(Launched(l, n)) \in Nat
<1>1. Len(l) \in Nat
  BY EntriesAre
<1>2. n \in Int /\ 1 \in Int
  BY <1>1
<1>3. IsFiniteSet(1..n)
  BY <1>2, FS_Interval
<1>4. Launched(l, n) \subseteq 1..n
  BY DEF Launched
<1>5. IsFiniteSet(Launched(l, n))
  BY <1>3, <1>4, FS_Subset
<1>. QED
  BY <1>5, FS_CardinalityType

LEMMA LaunchedGrows ==
  ASSUME NEW l \in Seq(Entry), NEW i \in 1..Len(l)
  PROVE  /\ Cardinality(Launched(l, i)) <= Cardinality(Launched(l, Len(l)))
         /\ ~l[i].revoked => Cardinality(Launched(l, i)) >= 1
<1>1. Len(l) \in Nat /\ Len(l) \in 0..Len(l) /\ i \in 0..Len(l)
  BY EntriesAre
<1>2. /\ IsFiniteSet(Launched(l, Len(l))) /\ IsFiniteSet(Launched(l, i))
      /\ Cardinality(Launched(l, i)) \in Nat
  BY <1>1, LaunchedIs
<1>3. Launched(l, i) \subseteq Launched(l, Len(l))
  BY <1>1 DEF Launched
<1>4. Cardinality(Launched(l, i)) <= Cardinality(Launched(l, Len(l)))
  BY <1>2, <1>3, FS_Subset
<1>5. ASSUME ~l[i].revoked
      PROVE  Cardinality(Launched(l, i)) >= 1
  <2>1. i \in Launched(l, i)
    BY <1>1, <1>5 DEF Launched
  <2>2. Cardinality(Launched(l, i)) # 0
    BY <1>2, <2>1, FS_EmptySet
  <2>. QED
    BY <1>2, <2>2
<1>. QED
  BY <1>4, <1>5

\* One more entry.
Grown(l, e, l2) ==
  /\ l2 \in Seq(Entry) /\ Len(l2) = Len(l) + 1 /\ l2[Len(l) + 1] = e
  /\ \A i \in 1..Len(l) : l2[i] = l[i]
  /\ \A i \in 0..Len(l) : Launched(l2, i) = Launched(l, i)
  /\ e.revoked => /\ Launched(l2, Len(l) + 1) = Launched(l, Len(l))
                  /\ Recorded(l2) = Recorded(l) \cup e.to
  /\ ~e.revoked => /\ Launched(l2, Len(l) + 1) = Launched(l, Len(l)) \cup {Len(l) + 1}
                   /\ Recorded(l2) = Recorded(l)

LEMMA LedgerAppend ==
  ASSUME NEW l \in Seq(Entry), NEW e \in Entry
  PROVE  Grown(l, e, Append(l, e))
<1>0. PICK l2 : l2 = Append(l, e)
  OBVIOUS
<1>1. /\ l2 \in Seq(Entry) /\ Len(l2) = Len(l) + 1 /\ l2[Len(l) + 1] = e
      /\ \A i \in 1..Len(l) : l2[i] = l[i]
  BY <1>0
<1>2. Len(l) \in Nat /\ DOMAIN l = 1..Len(l) /\ DOMAIN l2 = 1..Len(l) + 1
  BY <1>1, EntriesAre
<1>3. \A i \in 0..Len(l) : Launched(l2, i) = Launched(l, i)
  BY <1>1, <1>2 DEF Launched
<1>4. Launched(l2, Len(l) + 1) = Launched(l, Len(l)) \cup {i \in {Len(l) + 1} : ~e.revoked}
  BY <1>1, <1>2 DEF Launched
<1>5. ASSUME NEW w
      PROVE  w \in Recorded(l2) <=> w \in Recorded(l) \/ (e.revoked /\ w \in e.to)
  <2>1. w \in Recorded(l2) <=> \E k \in 1..Len(l) + 1 : l2[k].revoked /\ w \in l2[k].to
    BY <1>1, <1>2 DEF Recorded, Launched
  <2>2. w \in Recorded(l) <=> \E k \in 1..Len(l) : l[k].revoked /\ w \in l[k].to
    BY <1>2 DEF Recorded, Launched
  <2>3. \A k \in 1..Len(l) + 1 : k \in 1..Len(l) \/ k = Len(l) + 1
    BY <1>2
  <2>4. 1..Len(l) \subseteq 1..Len(l) + 1 /\ Len(l) + 1 \in 1..Len(l) + 1
    BY <1>2
  <2>5. ASSUME w \in Recorded(l2)
        PROVE  w \in Recorded(l) \/ (e.revoked /\ w \in e.to)
    <3>1. PICK k \in 1..Len(l) + 1 : l2[k].revoked /\ w \in l2[k].to
      BY <2>1, <2>5
    <3>2. CASE k \in 1..Len(l)
      <4>1. l2[k] = l[k]
        BY <1>1, <3>2
      <4>2. l[k].revoked /\ w \in l[k].to
        BY <3>1, <4>1, Zenon
      <4>. QED
        BY <2>2, <3>2, <4>2, Zenon
    <3>3. CASE k = Len(l) + 1
      BY <1>1, <3>1, <3>3, Zenon
    <3>. QED
      BY <2>3, <3>2, <3>3
  <2>6. ASSUME w \in Recorded(l)
        PROVE  w \in Recorded(l2)
    <3>1. PICK k \in 1..Len(l) : l[k].revoked /\ w \in l[k].to
      BY <2>2, <2>6
    <3>2. k \in 1..Len(l) + 1
      BY <2>4
    <3>. QED
      BY <1>1, <2>1, <3>1, <3>2, Zenon
  <2>7. ASSUME e.revoked, w \in e.to
        PROVE  w \in Recorded(l2)
    BY <1>1, <2>1, <2>4, <2>7, Zenon
  <2>. QED
    BY <2>5, <2>6, <2>7
<1>6. ASSUME e.revoked
      PROVE  /\ Launched(l2, Len(l) + 1) = Launched(l, Len(l))
             /\ Recorded(l2) = Recorded(l) \cup e.to
  <2>1. {i \in {Len(l) + 1} : ~e.revoked} = {}
    BY <1>6
  <2>2. Launched(l2, Len(l) + 1) = Launched(l, Len(l))
    BY <1>4, <2>1
  <2>3. \A w : w \in Recorded(l2) <=> w \in Recorded(l) \/ w \in e.to
    BY <1>5, <1>6, Zenon
  <2>. QED
    BY <2>2, <2>3
<1>7. ASSUME ~e.revoked
      PROVE  /\ Launched(l2, Len(l) + 1) = Launched(l, Len(l)) \cup {Len(l) + 1}
             /\ Recorded(l2) = Recorded(l)
  <2>1. {i \in {Len(l) + 1} : ~e.revoked} = {Len(l) + 1}
    BY <1>7
  <2>2. Launched(l2, Len(l) + 1) = Launched(l, Len(l)) \cup {Len(l) + 1}
    BY <1>4, <2>1
  <2>3. \A w : w \in Recorded(l2) <=> w \in Recorded(l)
    BY <1>5, <1>7, Zenon
  <2>. QED
    BY <2>2, <2>3
<1>8. Grown(l, e, l2)
  BY <1>1, <1>3, <1>6, <1>7 DEF Grown
<1>. QED
  BY <1>0, <1>8

\* The last round is the number of launches.
LEMMA LastIs ==
  ASSUME NEW rs, NEW h, rs[h].ledger \in Seq(Entry), Accounts(rs, h)
  PROVE  LastRound(rs[h]) = Cardinality(Launched(rs[h].ledger, Len(rs[h].ledger)))
<1>1. PICK l : l = rs[h].ledger
  OBVIOUS
<1>2. DOMAIN l = 1..Len(l) /\ Len(l) \in Nat
  BY <1>1, EntriesAre
<1>3. CASE l = <<>>
  <2>1. Len(l) = 0
    BY <1>3
  <2>2. Launched(l, Len(l)) = {}
    BY <2>1 DEF Launched
  <2>3. Cardinality(Launched(l, Len(l))) = 0
    BY <2>2, FS_EmptySet
  <2>. QED
    BY <1>1, <1>3, <2>3 DEF LastRound
<1>4. CASE l # <<>>
  <2>1. Len(l) \in DOMAIN l
    BY <1>1, <1>2, <1>4
  <2>2. l[Len(l)].round = Cardinality(Launched(l, Len(l)))
    BY <1>1, <2>1 DEF Accounts
  <2>. QED
    BY <1>1, <1>4, <2>2 DEF LastRound
<1>. QED
  BY <1>3, <1>4

\* A host whose ledger and members stay as they are, but for answers.
LEMMA SameAccounts ==
  ASSUME NEW old, NEW new, NEW h, Accounts(old, h), new[h].ledger = old[h].ledger,
         MemberRows(new, h) = MemberRows(old, h),
         \A m \in MemberRows(old, h) :
           /\ new[m].who = old[m].who /\ new[m].round = old[m].round
           /\ new[m].state = "abandoned" <=> old[m].state = "abandoned"
  PROVE  Accounts(new, h)
<1>1. ASSUME NEW k
      PROVE  AskedIn(new, h, k) = AskedIn(old, h, k)
  BY DEF AskedIn
<1>2. Dropped(new, h) = Dropped(old, h)
  BY DEF Dropped
<1>3. LastRound(new[h]) = LastRound(old[h])
  BY DEF LastRound
<1>. QED
  BY <1>1, <1>2, <1>3 DEF Accounts

LEMMA AppendedIs ==
  ASSUME NEW l \in Seq(Entry), NEW e, Append(l, e) \in Seq(Entry)
  PROVE  e \in Entry
<1>1. PICK S : S = Entry \cup {e}
  OBVIOUS
<1>2. l \in Seq(S) /\ e \in S
  BY <1>1
<1>3. PICK l2 : l2 = Append(l, e)
  OBVIOUS
<1>4. Len(l2) = Len(l) + 1 /\ l2[Len(l) + 1] = e /\ Len(l) \in Nat
  BY <1>2, <1>3
<1>5. Len(l) + 1 \in 1..Len(l2)
  BY <1>4
<1>. QED
  BY <1>3, <1>4, <1>5

\* The entry e at the end of the ledger l as the accounts want it: its round
\* counts the questions, and it names whom it asks or drops.
WellNoted(old, new, h, l, l2, e) ==
  /\ old[h].ledger = l /\ new[h].ledger = l2 /\ l2 = Append(l, e) /\ Accounts(old, h)
  /\ \A i \in 1..Len(l) : ~l[i].revoked => AskedIn(new, h, l[i].round) = AskedIn(old, h, l[i].round)
  /\ e.round = Cardinality(Launched(l2, Len(l) + 1))
  /\ ~e.revoked => e.to = AskedIn(new, h, e.round) /\ Dropped(new, h) = Dropped(old, h)
  /\ e.revoked => Dropped(new, h) = Dropped(old, h) \cup e.to
  /\ \A m \in MemberRows(new, h) : new[m].round <= e.round

\* A host with one more entry.
LEMMA NotedAccounts ==
  ASSUME NEW old, NEW new, NEW h, NEW e \in Entry, NEW l \in Seq(Entry), NEW l2,
         WellNoted(old, new, h, l, l2, e)
  PROVE  Accounts(new, h)
<1>. USE DEF WellNoted
<1>0. Grown(l, e, l2)
  BY LedgerAppend
<1>1. /\ l2 \in Seq(Entry) /\ Len(l2) = Len(l) + 1 /\ l2[Len(l) + 1] = e
      /\ \A i \in 1..Len(l) : l2[i] = l[i]
      /\ \A i \in 0..Len(l) : Launched(l2, i) = Launched(l, i)
  BY <1>0 DEF Grown
<1>2. Len(l) \in Nat /\ DOMAIN l = 1..Len(l) /\ DOMAIN l2 = 1..Len(l) + 1
  BY <1>1, EntriesAre
<1>3. ASSUME NEW i \in DOMAIN l2
      PROVE  /\ l2[i].round = Cardinality(Launched(l2, i))
             /\ ~l2[i].revoked => l2[i].to = AskedIn(new, h, l2[i].round)
  <2>1. CASE i \in 1..Len(l)
    <3>1. i \in 0..Len(l) /\ i \in DOMAIN l /\ l2[i] = l[i] /\ Launched(l2, i) = Launched(l, i)
      BY <1>1, <1>2, <2>1
    <3>2. l[i].round = Cardinality(Launched(l, i))
      BY <3>1 DEF Accounts
    <3>3. ASSUME ~l[i].revoked
          PROVE  l[i].to = AskedIn(new, h, l[i].round)
      <4>1. l[i].to = AskedIn(old, h, l[i].round)
        BY <3>1, <3>3, Zenon DEF Accounts
      <4>2. AskedIn(new, h, l[i].round) = AskedIn(old, h, l[i].round)
        BY <2>1, <3>3, Zenon
      <4>. QED
        BY <4>1, <4>2
    <3>. QED
      BY <3>1, <3>2, <3>3, Zenon
  <2>2. CASE i = Len(l) + 1
    BY <1>1, <2>2, Zenon
  <2>. QED
    BY <1>2, <2>1, <2>2
<1>4. Dropped(new, h) = Recorded(l2)
  <2>1. Dropped(old, h) = Recorded(l)
    BY DEF Accounts
  <2>2. CASE e.revoked
    <3>1. Recorded(l2) = Recorded(l) \cup e.to
      BY <1>0, <2>2 DEF Grown
    <3>2. Dropped(new, h) = Dropped(old, h) \cup e.to
      BY <2>2
    <3>. QED
      BY <2>1, <3>1, <3>2
  <2>3. CASE ~e.revoked
    <3>1. Recorded(l2) = Recorded(l)
      BY <1>0, <2>3 DEF Grown
    <3>2. Dropped(new, h) = Dropped(old, h)
      BY <2>3
    <3>. QED
      BY <2>1, <3>1, <3>2
  <2>. QED
    BY <2>2, <2>3
<1>5. LastRound(new[h]) = e.round
  <2>1. l2 # <<>>
    BY <1>1, <1>2
  <2>2. l2[Len(l2)] = e
    BY <1>1
  <2>. QED
    BY <2>1, <2>2 DEF LastRound
<1>. QED
  BY <1>3, <1>4, <1>5, Zenon DEF Accounts

\* What the ledger says of a host.
LEMMA HostAccounts ==
  ASSUME TypeInv, LedgerInv, NEW h \in 1..Len(rows), Host(rows, h), NEW l, l = rows[h].ledger
  PROVE  /\ l \in Seq(Entry) /\ Len(l) \in Nat /\ Accounts(rows, h)
         /\ LastRound(rows[h]) = Cardinality(Launched(l, Len(l)))
         /\ LastRound(rows[h]) \in Nat
         /\ \A i \in 1..Len(l) :
              /\ l[i].round <= LastRound(rows[h]) /\ l[i].round \in Nat
              /\ ~l[i].revoked => l[i].round # 0
<1>1. l \in Seq(Entry) /\ rows[h] \in TaskRow
  BY RowsAre
<1>2. Accounts(rows, h)
  BY DEF LedgerInv
<1>3. LastRound(rows[h]) = Cardinality(Launched(l, Len(l))) /\ LastRound(rows[h]) \in Nat
  BY <1>1, <1>2, LastIs, RoundIs
<1>4. Len(l) \in Nat /\ DOMAIN l = 1..Len(l)
  BY <1>1, EntriesAre
<1>5. ASSUME NEW i \in 1..Len(l)
      PROVE  /\ l[i].round <= LastRound(rows[h]) /\ l[i].round \in Nat
             /\ ~l[i].revoked => l[i].round # 0
  <2>1. l[i].round = Cardinality(Launched(l, i))
    BY <1>2, <1>4 DEF Accounts
  <2>2. Cardinality(Launched(l, i)) <= Cardinality(Launched(l, Len(l)))
    BY <1>1, LaunchedGrows
  <2>3. l[i].round \in Nat
    BY <1>1, EntriesAre
  <2>4. ~l[i].revoked => Cardinality(Launched(l, i)) >= 1
    BY <1>1, LaunchedGrows
  <2>5. Cardinality(Launched(l, i)) >= 1 => l[i].round # 0
    BY <2>1
  <2>. QED
    BY <1>3, <2>1, <2>2, <2>3, <2>4, <2>5
<1>. QED
  BY <1>1, <1>2, <1>3, <1>4, <1>5

\* An answer leaves the ledgers as they are.
LEMMA AnswerKeepsLedger ==
  ASSUME ConsultInv, LedgerInv, NEW t, Answers(t), NEW new, new = rows',
         NEW h \in 1..Len(new), Host(new, h)
  PROVE  Accounts(new, h)
<1>1. /\ Becomes({t}, "done", 0, 0, <<>>)
      /\ t \in 1..Len(rows) /\ IsMember(rows, t) /\ rows[t].state = "doing"
      /\ \A m \in {t} : m \in 1..Len(rows) /\ IsMember(rows, m)
  BY DEF Answers
<1>2. /\ Len(new) = Len(rows)
      /\ \A i \in 1..Len(rows) : Host(new, i) <=> Host(rows, i)
      /\ \A i \in 1..Len(rows) :
           /\ new[i].node = rows[i].node /\ new[i].parent = rows[i].parent
           /\ new[i].who = rows[i].who /\ new[i].round = rows[i].round
           /\ i \in {t} => new[i].state = "done"
           /\ i \notin {t} => new[i].state = rows[i].state
  BY <1>1, MembersOnly
<1>3. h \in 1..Len(rows) /\ Host(rows, h) /\ h # 0
  BY <1>2, RowsAre DEF ConsultInv
<1>4. Accounts(rows, h)
  BY <1>3 DEF LedgerInv
<1>5. new[h].ledger = rows[h].ledger
  BY <1>1, <1>3 DEF Becomes
<1>6. DOMAIN new = 1..Len(rows) /\ DOMAIN rows = 1..Len(rows)
  <2>1. DOMAIN new = 1..Len(new)
    BY <1>1, BecomesIs DEF ConsultInv
  <2>. QED
    BY <1>2, <2>1, RowsAre DEF ConsultInv
<1>7. MemberRows(new, h) = MemberRows(rows, h)
  BY <1>2, <1>3, <1>6 DEF MemberRows
<1>8. \A m \in MemberRows(rows, h) :
        /\ new[m].who = rows[m].who /\ new[m].round = rows[m].round
        /\ new[m].state = "abandoned" <=> rows[m].state = "abandoned"
  BY <1>1, <1>2, <1>6 DEF MemberRows
<1>. QED
  BY <1>4, <1>5, <1>7, <1>8, SameAccounts

\* A decision leaves them too, and a host that arrives has none.
LEMMA PassKeepsLedger ==
  ASSUME ConsultInv, LedgerInv, NEW t, NEW more, Passes(t, more), NEW new, new = rows',
         NEW h \in 1..Len(new), Host(new, h)
  PROVE  Accounts(new, h)
<1>1. /\ t \in 1..Len(rows) /\ ~IsMember(rows, t) /\ rows[t].state = "doing"
      /\ 1..Len(rows) \subseteq 1..Len(new)
      /\ \A i \in 1..Len(rows) :
           /\ Host(new, i) <=> Host(rows, i)
           /\ new[i].node = rows[i].node /\ new[i].parent = rows[i].parent
           /\ new[i].who = rows[i].who /\ new[i].round = rows[i].round
           /\ new[i].ledger = rows[i].ledger
           /\ i = t => new[i].state = "done"
           /\ i # t => new[i].state = rows[i].state
  BY PassLeaves
<1>2. \A i \in 1..Len(new) : i \notin 1..Len(rows) =>
        new[i].ledger = <<>> /\ ~IsMember(new, i)
  BY PassLeaves
<1>3. DOMAIN new = 1..Len(new) /\ DOMAIN rows = 1..Len(rows)
  <2>1. Becomes({t}, "done", 0, 0, more)
    BY DEF Passes
  <2>2. DOMAIN new = 1..Len(new)
    BY <2>1, BecomesIs DEF ConsultInv
  <2>. QED
    BY <2>2, RowsAre DEF ConsultInv
<1>4. h # 0
  <2>1. Becomes({t}, "done", 0, 0, more)
    BY DEF Passes
  <2>2. Len(new) \in Nat
    BY <2>1, BecomesIs DEF ConsultInv
  <2>. QED
    BY <2>2
<1>5. \A m \in MemberRows(new, h) : m \in 1..Len(rows)
  BY <1>2, <1>3, <1>4 DEF MemberRows, IsMember
<1>6. CASE h \in 1..Len(rows)
  <2>1. Host(rows, h) /\ Accounts(rows, h) /\ new[h].ledger = rows[h].ledger
    BY <1>1, <1>6 DEF LedgerInv
  <2>2. MemberRows(new, h) = MemberRows(rows, h)
    BY <1>1, <1>3, <1>5, <1>6 DEF MemberRows
  <2>3. \A m \in MemberRows(rows, h) :
          /\ new[m].who = rows[m].who /\ new[m].round = rows[m].round
          /\ new[m].state = "abandoned" <=> rows[m].state = "abandoned"
    BY <1>1, <1>3 DEF MemberRows
  <2>. QED
    BY <2>1, <2>2, <2>3, SameAccounts
<1>7. CASE h \notin 1..Len(rows)
  <2>1. new[h].ledger = <<>>
    BY <1>2, <1>7
  <2>2. MemberRows(new, h) = {}
    <3>1. ASSUME NEW m \in MemberRows(new, h)
          PROVE  FALSE
      <4>1. m \in 1..Len(rows) /\ new[m].parent = h
        BY <1>5, <3>1 DEF MemberRows
      <4>2. rows[m].parent = h
        BY <1>1, <4>1
      <4>3. h \in 1..Len(rows)
        BY <1>4, <4>1, <4>2, MembersAre DEF ConsultInv
      <4>. QED
        BY <1>7, <4>3
    <3>. QED
      BY <3>1
  <2>3. DOMAIN new[h].ledger = {}
    BY <2>1
  <2>4. Dropped(new, h) = {}
    BY <2>2 DEF Dropped
  <2>5. Recorded(new[h].ledger) = {}
    BY <2>3 DEF Recorded
  <2>. QED
    BY <2>2, <2>3, <2>4, <2>5 DEF Accounts
<1>. QED
  BY <1>6, <1>7

\* A revocation names whom it drops, in the round of the last launch.
LEMMA DropKeepsLedger ==
  ASSUME ConsultInv, LedgerInv, NEW d, NEW e, Drops(d, e), NEW new, new = rows',
         NEW h \in 1..Len(new), Host(new, h)
  PROVE  Accounts(new, h)
<1>1. PICK T : T = Pending(rows, d)
  OBVIOUS
<1>2. /\ Becomes(T, "abandoned", d, e, <<>>) /\ d \in 1..Len(rows)
      /\ e = [round |-> LastRound(rows[d]), to |-> {rows[m].who : m \in T}, revoked |-> TRUE]
  BY <1>1 DEF Drops
<1>3. T = {m \in 1..Len(rows) : rows[m].parent = d /\ IsMember(rows, m) /\ rows[m].state = "doing"}
  BY <1>1, <1>2, PendingAre DEF ConsultInv
<1>4. \A m \in T : m \in 1..Len(rows) /\ IsMember(rows, m)
  BY <1>3
<1>5. /\ Len(new) = Len(rows)
      /\ \A i \in 1..Len(rows) : Host(new, i) <=> Host(rows, i)
      /\ \A i \in 1..Len(rows) :
           /\ new[i].node = rows[i].node /\ new[i].parent = rows[i].parent
           /\ new[i].who = rows[i].who /\ new[i].round = rows[i].round
           /\ i \in T => new[i].state = "abandoned"
           /\ i \notin T => new[i].state = rows[i].state
  BY <1>2, <1>4, MembersOnly
<1>6. h \in 1..Len(rows) /\ Host(rows, h) /\ h # 0
  BY <1>5, RowsAre DEF ConsultInv
<1>7. DOMAIN new = 1..Len(rows) /\ DOMAIN rows = 1..Len(rows)
  <2>1. DOMAIN new = 1..Len(new)
    BY <1>2, BecomesIs DEF ConsultInv
  <2>. QED
    BY <1>5, <2>1, RowsAre DEF ConsultInv
<1>8. MemberRows(new, h) = MemberRows(rows, h)
  BY <1>5, <1>6, <1>7 DEF MemberRows
<1>9. \A m \in MemberRows(rows, h) : m \in 1..Len(rows) /\ rows[m].parent = h /\ IsMember(rows, m)
  BY <1>6, MembersAre DEF ConsultInv
<1>10. CASE h # d
  <2>1. Accounts(rows, h) /\ new[h].ledger = rows[h].ledger
    BY <1>2, <1>6, <1>10 DEF LedgerInv, Becomes
  <2>2. \A m \in MemberRows(rows, h) :
          /\ new[m].who = rows[m].who /\ new[m].round = rows[m].round
          /\ new[m].state = "abandoned" <=> rows[m].state = "abandoned"
    BY <1>3, <1>5, <1>9, <1>10
  <2>. QED
    BY <1>8, <2>1, <2>2, SameAccounts
<1>11. CASE h = d
  <2>1. PICK l, l2 : l = rows[h].ledger /\ l2 = Append(l, e)
    OBVIOUS
  <2>2. new[h].ledger = l2
    BY <1>2, <1>6, <1>11, <2>1 DEF Becomes
  <2>3. /\ l \in Seq(Entry) /\ Len(l) \in Nat /\ Accounts(rows, h)
        /\ LastRound(rows[h]) = Cardinality(Launched(l, Len(l)))
    BY <1>6, <2>1, HostAccounts DEF ConsultInv
  <2>4. e \in Entry
    <3>1. new \in Seq(TaskRow) /\ h \in 1..Len(new)
      BY <1>2 DEF Becomes
    <3>2. new[h] \in TaskRow
      BY <3>1
    <3>3. l2 \in Seq(Entry)
      BY <2>2, <3>2 DEF TaskRow
    <3>. QED
      BY <2>1, <2>3, <3>3, AppendedIs
  <2>5. e.revoked /\ e.round = LastRound(rows[h]) /\ e.to = {rows[m].who : m \in T}
    BY <1>2, <1>11
  <2>6. Grown(l, e, l2)
    BY <2>1, <2>3, <2>4, LedgerAppend
  <2>7. e.round = Cardinality(Launched(l2, Len(l) + 1))
    BY <2>3, <2>5, <2>6 DEF Grown
  <2>8. ASSUME NEW k
        PROVE  AskedIn(new, h, k) = AskedIn(rows, h, k)
    BY <1>5, <1>8, <1>9 DEF AskedIn
  <2>9. Dropped(new, h) = Dropped(rows, h) \cup e.to
    <3>1. \A m \in MemberRows(rows, h) :
            /\ new[m].who = rows[m].who
            /\ new[m].state = "abandoned" <=> rows[m].state = "abandoned" \/ m \in T
      BY <1>5, <1>9
    <3>2. T \subseteq MemberRows(rows, h)
      BY <1>3, <1>6, <1>11, MembersAre DEF ConsultInv
    <3>. QED
      BY <1>8, <2>5, <3>1, <3>2 DEF Dropped
  <2>10. \A m \in MemberRows(new, h) : new[m].round <= e.round
    BY <1>5, <1>8, <1>9, <2>3, <2>5 DEF Accounts
  <2>11. WellNoted(rows, new, h, l, l2, e)
    BY <2>1, <2>2, <2>3, <2>5, <2>7, <2>8, <2>9, <2>10 DEF WellNoted
  <2>. QED
    BY <2>3, <2>4, <2>11, NotedAccounts
<1>. QED
  BY <1>10, <1>11

\* A launch is a new round, which names whom it asks; an answer recalled stands outside
\* the rounds.
LEMMA PutKeepsLedger ==
  ASSUME ConsultInv, LedgerInv, NEW p, NEW led, NEW e, NEW more, Puts(p, led, e, more),
         NEW new, new = rows', NEW h \in 1..Len(new), Host(new, h)
  PROVE  Accounts(new, h)
<1>1. /\ Becomes({}, "doing", led, e, more)
      /\ p \in 1..Len(rows) /\ Host(rows, p) /\ (led = 0 \/ led = p)
      /\ led = 0 => \A k \in 1..Len(more) : more[k].round = 0
      /\ led = p /\ led # 0 =>
           /\ e = [round |-> LastRound(rows[p]) + 1, to |-> {more[k].who : k \in 1..Len(more)},
                    revoked |-> FALSE]
           /\ \A k \in 1..Len(more) : more[k].round = LastRound(rows[p]) + 1
  BY DEF Puts
<1>2. /\ \A i \in 1..Len(new) : i \notin 1..Len(rows) =>
           /\ new[i].parent = p /\ new[i].node = "review" /\ new[i].state = "doing"
           /\ IsMember(new, i)
      /\ \A i \in 1..Len(rows) : new[i].state = rows[i].state
  BY RowsWithQuestion DEF ConsultInv
<1>3. /\ DOMAIN new = 1..Len(new) /\ DOMAIN rows = 1..Len(rows) /\ Len(rows) \in Nat
      /\ 1..Len(rows) \subseteq 1..Len(new)
      /\ Len(new) = Len(rows) + Len(more) /\ Len(more) \in Nat
  <2>1. DOMAIN new = 1..Len(new) /\ 1..Len(rows) \subseteq 1..Len(new)
    BY <1>1, BecomesIs DEF ConsultInv
  <2>2. Len(new) = Len(rows) + Len(more) /\ Len(more) \in Nat
    BY <1>1, BecomesIs DEF ConsultInv
  <2>. QED
    BY <2>1, <2>2, RowsAre DEF ConsultInv
<1>4. \A i \in 1..Len(rows) :
        /\ new[i].node = rows[i].node /\ new[i].parent = rows[i].parent
        /\ new[i].who = rows[i].who /\ new[i].round = rows[i].round
        /\ new[i].ledger = IF i = led THEN Append(rows[i].ledger, e) ELSE rows[i].ledger
  BY <1>1 DEF Becomes
<1>5. \A k \in 1..Len(more) :
        Len(rows) + k \in 1..Len(new) /\ Len(rows) + k \notin 1..Len(rows) /\ new[Len(rows) + k] = more[k]
  BY <1>1, <1>3 DEF Becomes
<1>6. \A i \in 1..Len(new) : i \notin 1..Len(rows) =>
        \E k \in 1..Len(more) : i = Len(rows) + k /\ new[i] = more[k]
  <2>1. Becomes({}, "doing", led, e, more)
    BY <1>1
  <2>. QED
    BY <2>1, BecomesIs DEF ConsultInv
<1>7. h \in 1..Len(rows) /\ Host(rows, h) /\ h # 0
  <2>1. h \in 1..Len(rows)
    BY <1>2 DEF Host
  <2>2. \A i \in 1..Len(rows) : Host(new, i) <=> Host(rows, i)
    BY <1>1, BecomesIs DEF ConsultInv
  <2>. QED
    BY <1>3, <2>1, <2>2
<1>8. MemberRows(rows, h) = {m \in MemberRows(new, h) : m \in 1..Len(rows)}
  BY <1>3, <1>4, <1>7 DEF MemberRows
<1>9. PICK l : l = rows[h].ledger
  OBVIOUS
<1>10. /\ l \in Seq(Entry) /\ Len(l) \in Nat /\ Accounts(rows, h)
       /\ LastRound(rows[h]) = Cardinality(Launched(l, Len(l))) /\ LastRound(rows[h]) \in Nat
       /\ \A i \in 1..Len(l) :
            /\ l[i].round <= LastRound(rows[h]) /\ l[i].round \in Nat
            /\ ~l[i].revoked => l[i].round # 0
  BY <1>7, <1>9, HostAccounts DEF ConsultInv
<1>11. Dropped(new, h) = Dropped(rows, h)
  <2>1. \A m \in MemberRows(new, h) : m \notin 1..Len(rows) => new[m].state # "abandoned"
    BY <1>2, <1>3 DEF MemberRows
  <2>2. \A m \in 1..Len(rows) : new[m].state = rows[m].state /\ new[m].who = rows[m].who
    BY <1>2, <1>4
  <2>. QED
    BY <1>8, <2>1, <2>2 DEF Dropped
<1>12. ASSUME NEW k, \A m \in MemberRows(new, h) : m \notin 1..Len(rows) => new[m].round # k
       PROVE  AskedIn(new, h, k) = AskedIn(rows, h, k)
  <2>1. \A m \in 1..Len(rows) : new[m].round = rows[m].round /\ new[m].who = rows[m].who
    BY <1>4
  <2>. QED
    BY <1>8, <1>12, <2>1 DEF AskedIn
<1>13. CASE h # p
  <2>1. new[h].ledger = rows[h].ledger
    BY <1>1, <1>4, <1>7, <1>13
  <2>2. MemberRows(new, h) = MemberRows(rows, h)
    BY <1>2, <1>3, <1>8, <1>13 DEF MemberRows
  <2>3. \A m \in MemberRows(rows, h) :
          /\ new[m].who = rows[m].who /\ new[m].round = rows[m].round
          /\ new[m].state = "abandoned" <=> rows[m].state = "abandoned"
    BY <1>2, <1>3, <1>4 DEF MemberRows
  <2>. QED
    BY <1>10, <2>1, <2>2, <2>3, SameAccounts
<1>14. CASE h = p /\ led = 0
  <2>1. new[h].ledger = l
    BY <1>4, <1>7, <1>9, <1>14
  <2>2. \A m \in MemberRows(new, h) : m \notin 1..Len(rows) => new[m].round = 0
    BY <1>1, <1>3, <1>6, <1>14, SMTT(30) DEF MemberRows
  <2>3. ASSUME NEW i \in DOMAIN l
        PROVE  /\ l[i].round = Cardinality(Launched(l, i))
               /\ ~l[i].revoked => l[i].to = AskedIn(new, h, l[i].round)
    <3>1. i \in 1..Len(l)
      BY <1>10, EntriesAre
    <3>2. /\ l[i].round = Cardinality(Launched(l, i))
          /\ ~l[i].revoked => l[i].to = AskedIn(rows, h, l[i].round)
      BY <1>9, <1>10 DEF Accounts
    <3>3. ASSUME ~l[i].revoked
          PROVE  AskedIn(new, h, l[i].round) = AskedIn(rows, h, l[i].round)
      <4>1. l[i].round # 0
        BY <1>10, <3>1, <3>3, Zenon
      <4>2. \A m \in MemberRows(new, h) : m \notin 1..Len(rows) => new[m].round # l[i].round
        BY <2>2, <4>1
      <4>. QED
        BY <1>12, <4>2
    <3>. QED
      BY <3>2, <3>3
  <2>4. Dropped(new, h) = Recorded(new[h].ledger)
    BY <1>9, <1>10, <1>11, <2>1 DEF Accounts
  <2>5. LastRound(new[h]) = LastRound(rows[h])
    BY <1>9, <2>1 DEF LastRound
  <2>6. \A m \in MemberRows(new, h) : new[m].round <= LastRound(new[h])
    <3> SUFFICES ASSUME NEW m \in MemberRows(new, h)
                 PROVE  new[m].round <= LastRound(new[h])
      OBVIOUS
    <3>1. CASE m \in 1..Len(rows)
      BY <1>4, <1>8, <1>10, <2>5, <3>1 DEF Accounts
    <3>2. CASE m \notin 1..Len(rows)
      BY <1>10, <2>2, <2>5, <3>2
    <3>. QED
      BY <3>1, <3>2
  <2>. QED
    BY <2>1, <2>3, <2>4, <2>6 DEF Accounts
<1>15. CASE h = p /\ led = p /\ led # 0
  <2>1. PICK l2, n : l2 = Append(l, e) /\ n = LastRound(rows[h]) + 1
    OBVIOUS
  <2>2. /\ e = [round |-> n, to |-> {more[k].who : k \in 1..Len(more)}, revoked |-> FALSE]
        /\ \A k \in 1..Len(more) : more[k].round = n
    BY <1>1, <1>15, <2>1
  <2>3. new[h].ledger = l2
    BY <1>4, <1>7, <1>9, <1>15, <2>1
  <2>4. e \in Entry
    <3>1. new \in Seq(TaskRow)
      BY <1>1 DEF Becomes
    <3>2. new[h] \in TaskRow
      BY <3>1
    <3>3. l2 \in Seq(Entry)
      BY <2>3, <3>2 DEF TaskRow
    <3>. QED
      BY <1>10, <2>1, <3>3, AppendedIs
  <2>5. ~e.revoked /\ e.round = n /\ e.to = {more[k].who : k \in 1..Len(more)} /\ n \in Nat
    BY <1>10, <2>1, <2>2
  <2>6. Grown(l, e, l2)
    BY <1>10, <2>1, <2>4, LedgerAppend
  <2>7. e.round = Cardinality(Launched(l2, Len(l) + 1))
    <3>1. Launched(l2, Len(l) + 1) = Launched(l, Len(l)) \cup {Len(l) + 1}
      BY <2>5, <2>6 DEF Grown
    <3>2. Len(l) \in 0..Len(l)
      BY <1>10
    <3>3. IsFiniteSet(Launched(l, Len(l))) /\ Cardinality(Launched(l, Len(l))) \in Nat
      BY <1>10, <3>2, LaunchedIs
    <3>4. Len(l) + 1 \notin Launched(l, Len(l))
      BY <1>10 DEF Launched
    <3>5. Cardinality(Launched(l, Len(l)) \cup {Len(l) + 1}) = Cardinality(Launched(l, Len(l))) + 1
      BY <3>3, <3>4, FS_AddElement
    <3>. QED
      BY <1>10, <2>1, <2>5, <3>1, <3>5
  <2>8. \A m \in MemberRows(new, h) : m \notin 1..Len(rows) => new[m].round = n
    BY <1>3, <1>6, <2>2 DEF MemberRows
  <2>9. \A i \in 1..Len(l) : AskedIn(new, h, l[i].round) = AskedIn(rows, h, l[i].round)
    <3> TAKE i \in 1..Len(l)
    <3>1. l[i].round # n
      BY <1>10, <2>1
    <3>2. \A m \in MemberRows(new, h) : m \notin 1..Len(rows) => new[m].round # l[i].round
      BY <2>8, <3>1
    <3>. QED
      BY <1>12, <3>2
  <2>10. \A m \in MemberRows(rows, h) :
           /\ m \in 1..Len(rows) /\ rows[m].round <= LastRound(rows[h])
           /\ rows[m].round \in Nat
    <3>1. \A m \in MemberRows(rows, h) : m \in 1..Len(rows) /\ rows[m].round <= LastRound(rows[h])
      BY <1>8, <1>10 DEF Accounts
    <3>. QED
      BY <3>1, RowsAre DEF ConsultInv
  <2>11. e.to = AskedIn(new, h, e.round)
    <3>1. ASSUME NEW w
          PROVE  w \in AskedIn(new, h, n) <=> \E m \in MemberRows(new, h) : new[m].round = n /\ w = new[m].who
      BY DEF AskedIn
    <3>2. \A m \in MemberRows(new, h) : new[m].round = n => m \notin 1..Len(rows)
      BY <1>4, <1>8, <1>10, <2>1, <2>10, SMTT(30)
    <3>3. \A k \in 1..Len(more) : Len(rows) + k \in MemberRows(new, h)
      <4>1. new[h].node = "review"
        BY <1>4, <1>7 DEF Host
      <4>. QED
        BY <1>2, <1>3, <1>5, <1>15, <4>1 DEF MemberRows
    <3>4. ASSUME NEW w \in e.to
          PROVE  w \in AskedIn(new, h, n)
      <4>1. PICK k \in 1..Len(more) : w = more[k].who
        BY <2>5
      <4>2. new[Len(rows) + k].round = n /\ w = new[Len(rows) + k].who
        BY <1>5, <2>2, <4>1
      <4>. QED
        BY <3>1, <3>3, <4>2
    <3>5. ASSUME NEW w \in AskedIn(new, h, n)
          PROVE  w \in e.to
      <4>1. PICK m \in MemberRows(new, h) : new[m].round = n /\ w = new[m].who
        BY <3>1
      <4>2. m \in 1..Len(new) /\ m \notin 1..Len(rows)
        BY <1>3, <3>2, <4>1 DEF MemberRows
      <4>3. PICK k \in 1..Len(more) : new[m] = more[k]
        BY <1>6, <4>2
      <4>. QED
        BY <2>5, <4>1, <4>3
    <3>. QED
      BY <2>5, <3>4, <3>5
  <2>12. \A m \in MemberRows(new, h) : new[m].round <= e.round
    <3> SUFFICES ASSUME NEW m \in MemberRows(new, h)
                 PROVE  new[m].round <= n
      BY <2>5
    <3>1. CASE m \in 1..Len(rows)
      <4>1. m \in MemberRows(rows, h) /\ new[m].round = rows[m].round
        BY <1>4, <1>8, <3>1
      <4>2. rows[m].round <= LastRound(rows[h]) /\ rows[m].round \in Nat
        BY <2>10, <4>1
      <4>. QED
        BY <1>10, <2>1, <4>1, <4>2
    <3>2. CASE m \notin 1..Len(rows)
      BY <2>5, <2>8, <3>2
    <3>. QED
      BY <3>1, <3>2
  <2>13. ~e.revoked => e.to = AskedIn(new, h, e.round) /\ Dropped(new, h) = Dropped(rows, h)
    BY <1>11, <2>11
  <2>14. e.revoked => Dropped(new, h) = Dropped(rows, h) \cup e.to
    BY <2>5
  <2>15. \A i \in 1..Len(l) :
           ~l[i].revoked => AskedIn(new, h, l[i].round) = AskedIn(rows, h, l[i].round)
    BY <2>9
  <2>16. rows[h].ledger = l /\ l2 = Append(l, e) /\ l \in Seq(Entry) /\ Accounts(rows, h)
    BY <1>9, <1>10, <2>1
  <2>17. WellNoted(rows, new, h, l, l2, e)
    BY <2>3, <2>7, <2>12, <2>13, <2>14, <2>15, <2>16, Zenon DEF WellNoted
  <2>. QED
    BY <2>4, <2>16, <2>17, NotedAccounts
<1>. QED
  BY <1>1, <1>13, <1>14, <1>15

LEMMA StepKeepsLedger ==
  ASSUME ConsultInv, LedgerInv, TakesTurns, [Next]_vars
  PROVE  LedgerInv'
<1>1. Change
  BY ChangeIs
<1>2. PICK new : new = rows'
  OBVIOUS
<1>3. ASSUME NEW h \in 1..Len(new), Host(new, h)
      PROVE  Accounts(new, h)
  <2>1. CASE rows' = rows
    BY <1>2, <1>3, <2>1 DEF LedgerInv
  <2>2. ASSUME NEW p, NEW led, NEW e, NEW more, Puts(p, led, e, more)
        PROVE  Accounts(new, h)
    BY <1>2, <1>3, <2>2, PutKeepsLedger
  <2>3. ASSUME NEW d, NEW e, Drops(d, e)
        PROVE  Accounts(new, h)
    BY <1>2, <1>3, <2>3, DropKeepsLedger
  <2>4. ASSUME NEW t, Answers(t)
        PROVE  Accounts(new, h)
    BY <1>2, <1>3, <2>4, AnswerKeepsLedger
  <2>5. ASSUME NEW t, NEW more, Passes(t, more)
        PROVE  Accounts(new, h)
    BY <1>2, <1>3, <2>5, PassKeepsLedger
  <2>. QED
    BY <1>1, <2>1, <2>2, <2>3, <2>4, <2>5 DEF Change
<1>. QED
  BY <1>2, <1>3 DEF LedgerInv

LEMMA LedgerStarts ==
  ASSUME Init
  PROVE  LedgerInv
<1>1. PICK n, t : n = "apply" /\ t = 0 /\ t \in Nat /\ n \in {"apply", "review", "final"}
  OBVIOUS
<1>2. PICK row : row = Row(n, t, Nobody, 0)
  OBVIOUS
<1>3. row \in TaskRow /\ row.node = "apply"
  BY <1>1, <1>2, NextRow
<1>4. rows = <<row>>
  BY <1>1, <1>2, Zenon DEF Init, Nobody
<1>5. Len(rows) = 1 /\ rows[1] = row
  BY <1>3, <1>4, OneRow
<1>6. \A h \in 1..Len(rows) : rows[h].node = "apply"
  BY <1>3, <1>5
<1>. QED
  BY <1>6 DEF LedgerInv, Host

LEMMA LedgerIs ==
  ASSUME TypeInv, LedgerInv
  PROVE  LedgerAccounts
<1> SUFFICES ASSUME NEW h \in HostRows("doing") \cup HostRows("done"), NEW i \in DOMAIN rows[h].ledger
             PROVE  LET ledger == rows[h].ledger
                        Launches(n) == {k \in 1..n : ~ledger[k].revoked}
                        Asked(round) == {rows[m].who : m \in {n \in MemberRows(rows, h) : rows[n].round = round}}
                    IN /\ ledger[i].round = Cardinality(Launches(i))
                       /\ ~ledger[i].revoked => ledger[i].to = Asked(ledger[i].round)
                       /\ {rows[m].who : m \in {n \in MemberRows(rows, h) : rows[n].state = "abandoned"}}
                            = UNION {ledger[k].to : k \in DOMAIN ledger \ Launches(Len(ledger))}
  BY Zenon DEF LedgerAccounts
<1>1. h \in 1..Len(rows) /\ Host(rows, h)
  BY RowsAre DEF HostRows, Host
<1>2. Accounts(rows, h)
  BY <1>1 DEF LedgerInv
<1>. QED
  BY <1>2, Zenon DEF Accounts, Launched, AskedIn, Dropped, Recorded

\* For clients who take turns, the ledger of every host accounts for its member rows: each
\* launch has the next round and names whom it asked, each revocation whom it dropped.
THEOREM LedgerAccountsForMembers ==
  ASSUME TakesTurns
  PROVE  Spec => []LedgerAccounts
<1>1. Init => LedgerInv
  BY LedgerStarts
<1>2. ConsultInv /\ LedgerInv /\ [Next]_vars => LedgerInv'
  BY StepKeepsLedger
<1>3. ConsultInv /\ LedgerInv => LedgerAccounts
  BY LedgerIs DEF ConsultInv
<1>4. Spec => []ConsultInv
  BY ConsultHolds
<1>. QED
  BY <1>1, <1>2, <1>3, <1>4, PTL DEF Spec
=============================================================================
