----------------------------- MODULE TokenProofs -----------------------------
(***************************************************************************)
(* What Engine keeps in a flow of properly nested forks (WellNested) that  *)
(* clients use as it is meant to be used (Disciplined), for any number of  *)
(* nodes, branches, rows and requests: open tasks work for different       *)
(* branches, joins hold the branches back and release once, the end leaves *)
(* nothing open and is an end, add-sign and sequential countersign nodes   *)
(* keep their order, a countersign waits for every vote, no task of a flow *)
(* without choices is left out. And what any flow without dead ends keeps: *)
(* a running instance has somebody to act on it.                           *)
(*                                                                         *)
(* The argument. TokenInv says of the rows (RowsFit) that a row stands in  *)
(* the ranges its node lies in, inherited from its parent, and that any    *)
(* two open rows are Apart: two rows of one node that may have several, or *)
(* Parallel: in one round of one fork, in different branches of it. An     *)
(* applicant row counts for the place it owes a return to (Seat). While a  *)
(* request walks, the rows alone do not tell that the row it makes next    *)
(* will be apart from the others; WalkOK is what its pending visits keep:  *)
(* each is apart from every open row and from every other visit, and a     *)
(* range the walking row brought along is one it is still inside of, at    *)
(* the join of, or past, and then merge_ready saw nobody else of the round *)
(* left. A node that is no task and no fork is visited alone.              *)
(*                                                                         *)
(* A row that replaces another (a successor, a revived parent, a row that  *)
(* answers a return) takes its place and is apart from what that one was   *)
(* apart from. A fork opens one visit per branch; their rows share the new *)
(* round, which is named by the walking row. A join is passed when nobody  *)
(* serves the round.                                                       *)
(*                                                                         *)
(* TokenInv speaks of the open rows. ReleaseInv remembers the rounds that  *)
(* were released: nobody is open in such a round, so nobody is left to     *)
(* release it again. VoteInv counts the closed rows of a countersign node  *)
(* against its members. WorkInv, at the end, says of every row that the    *)
(* tasks before it are done, and of every range that was entered that none *)
(* of its branches is left behind.                                         *)
(*                                                                         *)
(* The searches of the static analysis reach a fixpoint (EngineProofs);    *)
(* the first lemmas show what that says of ranges and branches.            *)
(***************************************************************************)
EXTENDS EngineProofs, FlowShape, FiniteSetTheorems, WellFoundedInduction

-----------------------------------------------------------------------------
(* Nested ranges: a step of the walk stays in the branches it is in, leaves  *)
(* a range through its join, and never comes back.                           *)

LEMMA RangeFacts ==
  ASSUME WellNested, NEW r \in Ranges
  PROVE  /\ r.fork \in Forks /\ r.join \in Joins /\ r = [fork |-> r.fork, join |-> r.join]
         /\ r.fork \in Node /\ r.join \in Node
         /\ r.fork \notin Body(r) /\ r.join \notin Body(r) /\ Body(r) \subseteq Node
         /\ r.join \notin Targets(r.fork)
         /\ \A a \in Targets(r.fork) : Kind[a] \in {"task", "fork"} /\ a \in Body(r)
<1>1. PICK f \in Forks : \E j \in Joins : r = [fork |-> f, join |-> j]
  BY DEF Ranges
<1>2. /\ r.fork \in Forks /\ r.join \in Joins /\ r = [fork |-> r.fork, join |-> r.join]
      /\ r.fork \in Node /\ r.join \in Node
  BY <1>1 DEF Forks, Joins
<1>3. Body(r) \subseteq Node /\ r.join \notin Body(r) /\ Targets(r.fork) \ {r.join} \subseteq Body(r)
  BY <1>2, AheadClosed DEF Body
<1>4. r.fork \notin Body(r)
  BY DEF WellNested
<1>5. ASSUME NEW a \in Targets(r.fork)
      PROVE  Kind[a] \in {"task", "fork"} /\ a # r.join
  <2>1. PICK i \in DOMAIN Succ[r.fork] : a = Succ[r.fork][i]
    BY DEF Targets
  <2>2. Kind[a] \in {"task", "fork"}
    BY <1>2, <2>1 DEF WellNested
  <2>3. Kind[r.join] = "join"
    BY <1>2 DEF Joins
  <2>. QED
    BY <2>2, <2>3
<1>. QED
  BY <1>2, <1>3, <1>4, <1>5

\* A step inside a range leads to its join or stays.
LEMMA BodyStep ==
  ASSUME WellNested, NEW r \in Ranges, NEW m \in Body(r), NEW n \in Targets(m)
  PROVE  n = r.join \/ n \in Body(r)
<1>1. r.fork \in Node
  BY RangeFacts
<1>. QED
  BY <1>1, AheadClosed DEF Body

LEMMA BranchFacts ==
  ASSUME WellNested, NEW r \in Ranges, NEW a \in Targets(r.fork)
  PROVE  /\ Branch(r, a) \subseteq Body(r) /\ a \in Branch(r, a)
         /\ \A m \in Branch(r, a) : Targets(m) \ {r.join} \subseteq Branch(r, a)
<1>1. r.fork \in Node /\ a \in Node /\ a \in Body(r)
  BY RangeFacts
<1>2. \A m \in Body(r) : Targets(m) \ {r.join} \subseteq Body(r)
  BY BodyStep
<1>3. Ahead(a, r.join) \subseteq Body(r)
  <2>1. Targets(a) \ {r.join} \subseteq Body(r)
    BY <1>1, <1>2
  <2>. QED
    BY <1>2, <2>1, AheadLeast
<1>4. /\ Targets(a) \ {r.join} \subseteq Ahead(a, r.join)
      /\ \A m \in Ahead(a, r.join) : Targets(m) \ {r.join} \subseteq Ahead(a, r.join)
  BY <1>1, AheadClosed
<1>. QED
  BY <1>1, <1>3, <1>4 DEF Branch

\* Whatever is inside a range is in one of its branches.
LEMMA InSomeBranch ==
  ASSUME WellNested, NEW r \in Ranges, NEW n \in Body(r)
  PROVE  \E a \in Targets(r.fork) : n \in Branch(r, a)
<1>. DEFINE X == {m \in Node : \E a \in Targets(r.fork) : m \in Branch(r, a)}
<1>1. r.fork \in Node /\ Body(r) \subseteq Node
  BY RangeFacts
<1>2. Targets(r.fork) \ {r.join} \subseteq X
  BY <1>1, BranchFacts, TargetsType
<1>3. ASSUME NEW m \in X
      PROVE  Targets(m) \ {r.join} \subseteq X
  <2>1. PICK a \in Targets(r.fork) : m \in Branch(r, a)
    OBVIOUS
  <2>2. Targets(m) \ {r.join} \subseteq Branch(r, a)
    BY <2>1, BranchFacts
  <2>. QED
    BY <2>2, TargetsType
<1>4. Ahead(r.fork, r.join) \subseteq X
  <2>. HIDE DEF X
  <2>. QED
    BY <1>2, <1>3, AheadLeast
<1>. QED
  BY <1>4 DEF Body

\* Branches of one range have nothing in common.
LEMMA OneBranch ==
  ASSUME WellNested, NEW r \in Ranges, NEW a \in Targets(r.fork), NEW b \in Targets(r.fork),
         NEW n, n \in Branch(r, a), n \in Branch(r, b)
  PROVE  a = b
BY DEF WellNested

\* A step inside a range stays in the same branch, seen from either end.
LEMMA SameBranchStep ==
  ASSUME WellNested, NEW r \in Ranges, NEW m \in Body(r), NEW n \in Targets(m), n # r.join
  PROVE  n \in Body(r) /\ \A a \in Targets(r.fork) : m \in Branch(r, a) <=> n \in Branch(r, a)
<1>1. \A a \in Targets(r.fork) : m \in Branch(r, a) => n \in Branch(r, a)
  BY BranchFacts
<1>2. PICK b \in Targets(r.fork) : m \in Branch(r, b)
  BY InSomeBranch
<1>3. n \in Branch(r, b)
  BY <1>1, <1>2
<1>4. \A a \in Targets(r.fork) : n \in Branch(r, a) => m \in Branch(r, a)
  BY <1>2, <1>3, OneBranch
<1>5. n \in Body(r)
  BY BodyStep
<1>. QED
  BY <1>1, <1>4, <1>5

\* A range is entered through its fork only; its join is reached from inside.
LEMMA BodyEntry ==
  ASSUME WellNested, NEW r \in Ranges, NEW m \in Node, NEW n \in Targets(m)
  PROVE  /\ n \in Body(r) => m \in Body(r) \/ m = r.fork
         /\ n = r.join => m \in Body(r)
BY DEF WellNested

\* What lies beyond the join is not inside, and stays beyond.
LEMMA BeyondFacts ==
  ASSUME WellNested, NEW r \in Ranges
  PROVE  /\ \A n \in Ahead(r.join, r.join) : n \notin Body(r) /\ n # r.fork /\ n # r.join /\ n \notin FirstNodes
         /\ \A n \in Targets(r.join) : n \in Ahead(r.join, r.join)
         /\ \A m \in Ahead(r.join, r.join) : \A n \in Targets(m) : n \in Ahead(r.join, r.join)
<1>1. r.join \in Node /\ r.join \notin Body(r)
  BY RangeFacts
<1>2. /\ Ahead(r.join, r.join) \subseteq Node /\ r.join \notin Ahead(r.join, r.join)
      /\ Targets(r.join) \ {r.join} \subseteq Ahead(r.join, r.join)
      /\ \A m \in Ahead(r.join, r.join) : Targets(m) \ {r.join} \subseteq Ahead(r.join, r.join)
  BY <1>1, AheadClosed
<1>3. \A n \in Ahead(r.join, r.join) : n \notin Body(r) /\ n # r.fork /\ n \notin FirstNodes
  BY DEF WellNested
<1>4. \A m \in Node : r.join \in Targets(m) => m \in Body(r)
  BY BodyEntry
<1>5. r.join \notin Targets(r.join)
  BY <1>1, <1>4
<1>6. \A m \in Ahead(r.join, r.join) : r.join \notin Targets(m)
  BY <1>2, <1>3, <1>4
<1>. QED
  BY <1>2, <1>3, <1>5, <1>6

\* Every fork and every join has its range, and a task is inside the ranges that
\* static_scopes finds.
LEMMA NodeRanges ==
  ASSUME WellNested
  PROVE  /\ \A f \in Forks : \E r \in Ranges : r.fork = f
         /\ \A j \in Joins : \E r \in Ranges : r.join = j
         /\ \A r, q \in Ranges : r.fork = q.fork \/ r.join = q.join => r = q
         /\ OneForkPerJoin
         /\ \A n \in Node : Kind[n] \in {"task", "custom"} => StaticScopes(n) = Around(n)
<1>1. ASSUME NEW n \in Node, Kind[n] \in {"task", "custom"}
      PROVE  StaticScopes(n) = Around(n)
  <2>1. \A r \in Ranges : (n \in Body(r)) = (<<n, r>> \in Inner)
    BY <1>1 DEF WellNested
  <2>. QED
    BY <2>1 DEF StaticScopes, Around
<1>. QED
  BY <1>1 DEF WellNested, OneForkPerJoin

-----------------------------------------------------------------------------
(* The invariant.                                                          *)

RangeOf(s) == [fork |-> s.fork, join |-> s.join]

\* m and n are inside r, in the same branch of it; in different ones.
SameBranch(r, m, n) ==
  /\ m \in Body(r) /\ n \in Body(r)
  /\ \A a \in Targets(r.fork) : m \in Branch(r, a) <=> n \in Branch(r, a)
Split(r, m, n) ==
  /\ m \in Body(r) /\ n \in Body(r)
  /\ \A a \in Targets(r.fork) : ~(m \in Branch(r, a) /\ n \in Branch(r, a))

\* The row whose place row i holds: its own, or the one it owes a return to; where
\* that is; and the ranges it stands in there.
Seat(rs, i) == IF rs[i].source = 0 THEN i ELSE rs[i].source
Pos(rs, i) == rs[Seat(rs, i)].node
Held(rs, i) == rs[Seat(rs, i)].scopes

FormOK(rs, i) ==
  LET q == rs[i] IN
  /\ Kind[q.node] \in {"task", "custom"}
  /\ q.state = "doing" => Kind[q.node] = "task"
  /\ Kind[q.node] = "custom" => q.source = 0 /\ q.scopes = {}
  /\ q.source = 0 => q.branch = {}
  /\ q.source # 0 =>
       /\ q.scopes = {} /\ q.branch = rs[q.source].scopes /\ q.node \in FirstNodes
       /\ rs[q.source].source = 0 /\ Kind[rs[q.source].node] = "task"

\* A plain row stands in exactly the ranges around its node.
RangesOK(rs, i) ==
  rs[i].source = 0 /\ Kind[rs[i].node] = "task" =>
    /\ \A s \in rs[i].scopes : RangeOf(s) \in Around(rs[i].node)
    /\ \A r \in Around(rs[i].node) : \E s \in rs[i].scopes : RangeOf(s) = r

\* It inherits them from its parent; the parent that owed a return stood here.
ParentOK(rs, i) ==
  LET q == rs[i] IN
  q.parent # 0 =>
    /\ Kind[rs[q.parent].node] = "task"
    /\ q.source = 0 /\ Kind[q.node] = "task" =>
         /\ \A s \in Held(rs, q.parent) : RangeOf(s) \in Around(q.node) => s \in q.scopes
         /\ rs[q.parent].source # 0 => q.node = Pos(rs, q.parent)

\* A round is opened by a completed row; the root of a branch is in that branch.
RoundsOK(rs, i) ==
  \A s \in rs[i].scopes :
    /\ s.round # 0 => s.round < i /\ rs[s.round].state = "done"
    /\ \A a \in Targets(s.fork) :
         rs[i].node \in Branch(RangeOf(s), a) => rs[s.root].node \in Branch(RangeOf(s), a)

RowFits(rs, i) == FormOK(rs, i) /\ RangesOK(rs, i) /\ ParentOK(rs, i) /\ RoundsOK(rs, i)

\* Rows i and k work for different branches of one round.
Parallel(rs, i, k) ==
  \E r \in Ranges : \E s \in Held(rs, i) : \E q \in Held(rs, k) :
    RangeOf(s) = r /\ RangeOf(q) = r /\ s.round = q.round /\ Split(r, Pos(rs, i), Pos(rs, k))

\* Rows i and k are two of several of one node.
Signer(rs, i) == rs[i].parent # 0 /\ rs[rs[i].parent].node = rs[i].node
Fellows(rs, i, k) ==
  LET n == rs[i].node IN
  /\ rs[k].node = n /\ rs[i].source = 0 /\ rs[k].source = 0
  /\ ~OneRow(n) \/ (n \in AllowAddSign /\ Signer(rs, i) /\ Signer(rs, k))
Apart(rs, i, k) == Parallel(rs, i, k) \/ Fellows(rs, i, k)

RowsFit(rs) ==
  /\ \A i \in 1..Len(rs) : RowFits(rs, i)
  /\ \A i, k \in DoingIds(rs) : i # k => Apart(rs, i, k)

\* Row w walks: no row, or a completed task row.
Walks(rs, w) ==
  w # 0 => w \in 1..Len(rs) /\ rs[w].source = 0 /\ Kind[rs[w].node] = "task"
OwnRanges(rs, w) == {RangeOf(s) : s \in ScopesOf(rs, w)}

\* A range it brought along: at its join, still in its branch of it, or past it, and
\* then nobody else of the round is left.
OnItsWay(rs, w, toks, s) ==
  \/ \A i \in 1..Len(toks) : toks[i].node = s.join
  \/ \A i \in 1..Len(toks) : SameBranch(RangeOf(s), rs[w].node, toks[i].node)
  \/ /\ \A i \in 1..Len(toks) : toks[i].node \in Ahead(s.join, s.join)
     /\ \A k \in DoingIds(rs) : ~Serves(rs[k], s)

\* A pending visit to x and the live row k work for different branches, of a round
\* that was there before or that this walk opened.
Opened(rs, w, x, k) ==
  \E r \in Ranges \ OwnRanges(rs, w) : \E q \in Held(rs, k) :
    RangeOf(q) = r /\ q.round = w /\ Split(r, x, Pos(rs, k))
VisitApart(rs, w, x, k) == (w # 0 /\ Parallel(rs, w, k)) \/ Opened(rs, w, x, k)

WalkOK(rs, w, toks) ==
  /\ \A i \in 1..Len(toks) : toks[i].parent = w
  /\ Walks(rs, w)
  /\ \A s \in ScopesOf(rs, w) : OnItsWay(rs, w, toks, s)
  /\ \A i \in 1..Len(toks) : \A k \in DoingIds(rs) : VisitApart(rs, w, toks[i].node, k)
  /\ \A i, k \in 1..Len(toks) : i # k =>
       \E r \in Ranges \ OwnRanges(rs, w) : Split(r, toks[i].node, toks[k].node)
  /\ \/ \A i \in 1..Len(toks) : Kind[toks[i].node] \in {"task", "fork"}
     \/ /\ Len(toks) = 1
        /\ \A r \in Ranges : toks[1].node \in Body(r) \/ toks[1].node = r.join => r \in OwnRanges(rs, w)
  /\ \A i \in 1..Len(rs) : \A s \in rs[i].scopes :
       s.round = w /\ RangeOf(s) \notin OwnRanges(rs, w) => rs[i].state = "doing"

StateOK(in, rs) ==
  /\ RowsFit(rs)
  /\ in = "none" => rs = <<>>
  /\ in = "finished" => DoingIds(rs) = {}

TokenInv ==
  /\ StateOK(inst, rows)
  /\ saved # <<>> => StateOK(saved[1].inst, saved[1].rows)
  /\ todo # <<>> => inst \notin {"none", "finished"} /\ WalkOK(rows, todo[1].parent, todo)

-----------------------------------------------------------------------------
(* What the rows that are there keep.                                      *)

\* A change of the rows that opens no closed row.
Settles(old, new) ==
  /\ Evolves(old, new)
  /\ \A i \in 1..Len(old) : new[i].state = "doing" => old[i].state = "doing"

LEMMA SeatType ==
  ASSUME NEW rs, RowsOK(rs), NEW i \in 1..Len(rs)
  PROVE  Seat(rs, i) \in 1..Len(rs) /\ rs[i] \in Row /\ rs[Seat(rs, i)] \in Row
<1>1. rs \in Seq(Row) /\ DOMAIN rs = 1..Len(rs) /\ rs[i] \in Row
  BY DEF RowsOK
<1>2. rs[i].source < i /\ rs[i].source \in Nat
  BY <1>1 DEF RowsOK, Lineage, Row
<1>3. Seat(rs, i) \in 1..Len(rs)
  BY <1>2 DEF Seat
<1>. QED
  BY <1>1, <1>3

LEMMA SeatKept ==
  ASSUME NEW old, NEW new, RowsOK(old), Evolves(old, new), NEW i \in 1..Len(old)
  PROVE  /\ i \in 1..Len(new) /\ Same(old[i], new[i])
         /\ Seat(new, i) = Seat(old, i) /\ Pos(new, i) = Pos(old, i) /\ Held(new, i) = Held(old, i)
<1>1. Seat(old, i) \in 1..Len(old)
  BY SeatType
<1>2. \A k \in 1..Len(old) : Same(old[k], new[k])
  BY DEF Evolves
<1>3. Seat(new, i) = Seat(old, i)
  BY <1>2 DEF Seat, Same
<1>4. Pos(new, i) = Pos(old, i) /\ Held(new, i) = Held(old, i)
  BY <1>1, <1>2, <1>3 DEF Pos, Held, Same
<1>5. Len(old) \in Nat /\ Len(old) <= Len(new)
  BY DEF RowsOK, Evolves
<1>6. i \in 1..Len(new)
  BY <1>5 DEF RowsOK
<1>. QED
  BY <1>2, <1>3, <1>4, <1>6

LEMMA ApartKept ==
  ASSUME NEW old, NEW new, RowsOK(old), RowsOK(new), Evolves(old, new),
         NEW i \in 1..Len(old), NEW k \in 1..Len(old)
  PROVE  /\ Parallel(new, i, k) <=> Parallel(old, i, k)
         /\ Fellows(old, i, k) => Fellows(new, i, k)
<1>1. /\ Pos(new, i) = Pos(old, i) /\ Held(new, i) = Held(old, i)
      /\ Pos(new, k) = Pos(old, k) /\ Held(new, k) = Held(old, k)
  BY SeatKept
<1>2. \A x \in 1..Len(old) : Same(old[x], new[x])
  BY DEF Evolves
<1>3. \A x \in 1..Len(old) : Signer(old, x) => Signer(new, x)
  <2> SUFFICES ASSUME NEW x \in 1..Len(old), Signer(old, x)
               PROVE  Signer(new, x)
    OBVIOUS
  <2>1. old[x].parent # 0 /\ old[old[x].parent].node = old[x].node
    BY DEF Signer
  <2>2. old[x].parent \in 1..Len(old)
    BY <2>1, ParentType
  <2>. QED
    BY <1>2, <2>1, <2>2 DEF Signer, Same
<1>4. Fellows(old, i, k) => Fellows(new, i, k)
  BY <1>2, <1>3 DEF Fellows, Same
<1>5. Parallel(new, i, k) <=> Parallel(old, i, k)
  BY <1>1 DEF Parallel
<1>. QED
  BY <1>4, <1>5

LEMMA FitKept ==
  ASSUME NEW old, NEW new, RowsOK(old), Roots(old), RowsOK(new), Settles(old, new),
         NEW i \in 1..Len(old), RowFits(old, i)
  PROVE  RowFits(new, i)
<1>1. /\ Evolves(old, new) /\ old \in Seq(Row) /\ new \in Seq(Row) /\ old[i] \in Row
      /\ new[i].state = "doing" => old[i].state = "doing"
  BY DEF Settles, RowsOK
<1>2. /\ \A k \in 1..Len(old) : Same(old[k], new[k])
      /\ \A k \in 1..Len(old) : old[k].state # "doing" => new[k].state = old[k].state
  BY <1>1 DEF Evolves
<1>3. old[i].source # 0 => old[i].source \in 1..Len(old)
  BY SeatType DEF Seat
<1>4. old[i].parent # 0 => old[i].parent \in 1..Len(old)
  BY ParentType
<1>5. Same(old[i], new[i])
  BY <1>2
<1>6. FormOK(new, i)
  BY <1>1, <1>2, <1>3, <1>5 DEF RowFits, FormOK, Same
<1>7. RangesOK(new, i)
  BY <1>5 DEF RowFits, RangesOK, Same
<1>8. ParentOK(new, i)
  <2>1. CASE old[i].parent = 0
    BY <1>5, <2>1 DEF ParentOK, Same
  <2>2. CASE old[i].parent # 0
    <3>1. PICK p \in 1..Len(old) : p = old[i].parent
      BY <1>4, <2>2
    <3>2. Pos(new, p) = Pos(old, p) /\ Held(new, p) = Held(old, p) /\ Same(old[p], new[p])
      BY <1>1, <3>1, SeatKept
    <3>. QED
      BY <1>5, <2>2, <3>1, <3>2 DEF RowFits, ParentOK, Same
  <2>. QED
    BY <2>1, <2>2
<1>9. RoundsOK(new, i)
  <2> SUFFICES ASSUME NEW s \in old[i].scopes
               PROVE  /\ s.round # 0 => s.round < i /\ new[s.round].state = "done"
                      /\ \A a \in Targets(s.fork) :
                           old[i].node \in Branch(RangeOf(s), a) => new[s.root].node \in Branch(RangeOf(s), a)
    BY <1>5 DEF RoundsOK, Same
  <2>1. s.root \in 1..Len(old) /\ s.round \in Nat
    BY <1>1 DEF Roots, Rooted, Row, Scope
  <2>2. s.round # 0 => s.round < i /\ old[s.round].state = "done"
    BY DEF RowFits, RoundsOK
  <2>3. s.round # 0 => s.round \in 1..Len(old)
    BY <2>1, <2>2
  <2>4. \A a \in Targets(s.fork) :
          old[i].node \in Branch(RangeOf(s), a) => old[s.root].node \in Branch(RangeOf(s), a)
    BY DEF RowFits, RoundsOK
  <2>5. new[s.root].node = old[s.root].node
    BY <1>2, <2>1 DEF Same
  <2>6. s.round # 0 => s.round < i /\ new[s.round].state = "done"
    BY <1>2, <2>2, <2>3
  <2>. QED
    BY <2>4, <2>5, <2>6
<1>. QED
  BY <1>6, <1>7, <1>8, <1>9 DEF RowFits

LEMMA ApartSymmetric ==
  ASSUME NEW rs, NEW i, NEW k, Apart(rs, i, k)
  PROVE  Apart(rs, k, i)
<1>1. ASSUME Parallel(rs, i, k)
      PROVE  Parallel(rs, k, i)
  BY <1>1 DEF Parallel, Split
<1>2. ASSUME Fellows(rs, i, k)
      PROVE  Fellows(rs, k, i)
  BY <1>2 DEF Fellows
<1>. QED
  BY <1>1, <1>2 DEF Apart

\* Closing rows and appending rows that fit keeps the rows fit.
LEMMA RowsFitGrow ==
  ASSUME NEW old, NEW new, RowsOK(old), Roots(old), RowsOK(new), Settles(old, new), RowsFit(old),
         \A i \in Len(old)+1..Len(new) : RowFits(new, i),
         \A i \in Len(old)+1..Len(new) : \A k \in DoingIds(new) :
           i \in DoingIds(new) /\ k < i => Apart(new, i, k)
  PROVE  RowsFit(new)
<1>1. /\ old \in Seq(Row) /\ new \in Seq(Row) /\ Len(old) \in Nat /\ Len(new) \in Nat
      /\ Evolves(old, new) /\ Len(old) <= Len(new)
      /\ DOMAIN old = 1..Len(old) /\ DOMAIN new = 1..Len(new)
  BY DEF Settles, Evolves, RowsOK
<1>2. ASSUME NEW i \in 1..Len(new)
      PROVE  RowFits(new, i)
  <2>1. CASE i \in 1..Len(old)
    <3>1. RowFits(old, i)
      BY <2>1 DEF RowsFit
    <3>. QED
      BY <2>1, <3>1, FitKept
  <2>2. CASE i \notin 1..Len(old)
    <3>1. i \in Len(old)+1..Len(new)
      BY <1>1, <2>2
    <3>. QED
      BY <3>1
  <2>. QED
    BY <2>1, <2>2
<1>3. ASSUME NEW i \in DoingIds(new), NEW k \in DoingIds(new), k < i
      PROVE  Apart(new, i, k)
  <2>1. i \in 1..Len(new) /\ k \in 1..Len(new)
    BY <1>1 DEF DoingIds
  <2>2. CASE i \in 1..Len(old)
    <3>1. k \in 1..Len(old)
      BY <1>1, <1>3, <2>1, <2>2
    <3>2. i \in DoingIds(old) /\ k \in DoingIds(old) /\ i # k
      BY <1>1, <1>3, <2>1, <2>2, <3>1 DEF DoingIds, Settles
    <3>3. Apart(old, i, k)
      BY <3>2 DEF RowsFit
    <3>. QED
      BY <1>1, <2>2, <3>1, <3>3, ApartKept DEF Apart
  <2>3. CASE i \notin 1..Len(old)
    <3>1. i \in Len(old)+1..Len(new)
      BY <1>1, <2>1, <2>3
    <3>. QED
      BY <1>3, <3>1
  <2>. QED
    BY <2>2, <2>3
<1>4. ASSUME NEW i \in DoingIds(new), NEW k \in DoingIds(new), i # k
      PROVE  Apart(new, i, k)
  <2>1. i \in Nat /\ k \in Nat
    BY <1>1 DEF DoingIds
  <2>2. CASE k < i
    BY <1>3, <2>2
  <2>3. CASE i < k
    <3>1. Apart(new, k, i)
      BY <1>3, <2>3
    <3>. QED
      BY <3>1, ApartSymmetric
  <2>. QED
    BY <1>4, <2>1, <2>2, <2>3
<1>. QED
  BY <1>2, <1>4 DEF RowsFit

-----------------------------------------------------------------------------
(* Steps of a visit that stay in the branches they are in.                 *)

\* m and n are inside the same ranges, in the same branch of each.
Linked(m, n) ==
  \A r \in Ranges :
    /\ m \in Body(r) <=> n \in Body(r)
    /\ \A a \in Targets(r.fork) : m \in Branch(r, a) <=> n \in Branch(r, a)

LEMMA LinkedStep ==
  ASSUME WellNested, NEW m \in Node, NEW n \in Targets(m), Kind[m] # "fork", Kind[n] # "join"
  PROVE  Linked(m, n)
<1> SUFFICES ASSUME NEW r \in Ranges
             PROVE  /\ m \in Body(r) <=> n \in Body(r)
                    /\ \A a \in Targets(r.fork) : m \in Branch(r, a) <=> n \in Branch(r, a)
  BY DEF Linked
<1>1. Kind[r.fork] = "fork" /\ Kind[r.join] = "join"
  BY RangeFacts DEF Forks, Joins
<1>2. m # r.fork /\ n # r.join
  BY <1>1
<1>3. \A a \in Targets(r.fork) : Branch(r, a) \subseteq Body(r)
  BY BranchFacts
<1>4. CASE m \in Body(r)
  BY <1>2, <1>4, SameBranchStep
<1>5. CASE m \notin Body(r)
  <2>1. n \notin Body(r)
    BY <1>2, <1>5, BodyEntry
  <2>. QED
    BY <1>3, <1>5, <2>1
<1>. QED
  BY <1>4, <1>5

\* A task the search meets from a task is in the same branches.
LEMMA CanRejectLinked ==
  ASSUME WellNested, NEW n \in Node, Kind[n] = "task", NEW h \in Node, Kind[h] = "task", CanReject(n, h)
  PROVE  Linked(h, n)
<1>1. PICK N \in Nat : N = Cardinality(Node)
  BY FS_CardinalityType, FlowAssumption
<1>2. PICK V : V = CHOOSE W : BackSearch(W, N, Sources(n))
  OBVIOUS
<1>3. BackSearch(V, N, Sources(n))
  BY <1>2, BackSearchExists
<1>4. h \in V[N]
  BY <1>1, <1>2 DEF CanReject, BackSearch, Back, Through
<1>. DEFINE Near(x) == x \in Node /\ (Through(x) => Linked(x, n))
            S == {k \in Nat : k \in 0..N => \A x \in V[k] : Near(x)}
<1>5. ASSUME NEW m \in Node, Through(m), Linked(m, n), NEW x \in Sources(m)
      PROVE  Near(x)
  <2>1. x \in Node /\ m \in Targets(x)
    BY DEF Sources
  <2>2. Through(x) => Linked(x, m)
    BY <1>5, <2>1, LinkedStep DEF Through
  <2>. QED
    BY <1>5, <2>1, <2>2 DEF Linked
<1>6. 0 \in S
  <2>1. Linked(n, n) /\ Through(n)
    BY DEF Linked, Through
  <2>2. V[0] = Sources(n)
    BY <1>3 DEF BackSearch
  <2>. QED
    BY <1>5, <2>1, <2>2
<1>7. ASSUME NEW k \in Nat, k \in S
      PROVE  k + 1 \in S
  <2>1. SUFFICES ASSUME k + 1 \in 0..N, NEW x \in V[k+1]
                 PROVE  Near(x)
    OBVIOUS
  <2>2. k \in 0..N /\ k + 1 # 0 /\ (k + 1) - 1 = k
    BY <2>1
  <2>3. V[k+1] = Back(V[k])
    BY <1>3, <2>1, <2>2 DEF BackSearch
  <2>4. \A y \in V[k] : Near(y)
    BY <1>7, <2>2
  <2>5. x \in V[k] \/ \E m \in V[k] : Through(m) /\ x \in Sources(m)
    BY <2>3, BackMembers
  <2>. QED
    BY <1>5, <2>4, <2>5
<1>8. N \in S
  <2>. HIDE DEF S
  <2>. QED
    BY <1>1, <1>6, <1>7, InductiveSet
<1>9. Near(h)
  BY <1>4, <1>8
<1>. QED
  BY <1>9 DEF Through

-----------------------------------------------------------------------------
(* What a fit row stands for.                                              *)

LEMMA HeldIs ==
  ASSUME NEW rs, NEW i, FormOK(rs, i)
  PROVE  /\ rs[i].scopes \cup rs[i].branch = Held(rs, i)
         /\ Claims(rs[i]) = Held(rs, i)
         /\ \A s : Serves(rs[i], s) <=>
              \E q \in Held(rs, i) : q.fork = s.fork /\ q.join = s.join /\ q.round = s.round
<1>1. rs[i].scopes \cup rs[i].branch = Held(rs, i)
  <2>1. CASE rs[i].source = 0
    BY <2>1 DEF FormOK, Held, Seat
  <2>2. CASE rs[i].source # 0
    BY <2>2 DEF FormOK, Held, Seat
  <2>. QED
    BY <2>1, <2>2
<1>. QED
  BY <1>1 DEF Serves, Claims

\* A task row holds one range for each range around the place it stands for.
LEMMA HeldRanges ==
  ASSUME NEW rs, RowsOK(rs), Roots(rs), \A k \in 1..Len(rs) : RowFits(rs, k),
         NEW i \in 1..Len(rs), Kind[rs[i].node] = "task"
  PROVE  /\ rs[Seat(rs, i)].source = 0 /\ Pos(rs, i) \in Node /\ Kind[Pos(rs, i)] = "task"
         /\ Held(rs, i) \in SUBSET Scope /\ Single(Held(rs, i))
         /\ \A s \in Held(rs, i) : RangeOf(s) \in Around(Pos(rs, i))
         /\ \A r \in Around(Pos(rs, i)) : \E s \in Held(rs, i) : RangeOf(s) = r
<1>1. PICK c \in 1..Len(rs) : c = Seat(rs, i) /\ rs[c] \in Row
  BY SeatType
<1>2. rs[c].source = 0 /\ Kind[rs[c].node] = "task"
  <2>1. FormOK(rs, i)
    BY DEF RowFits
  <2>. QED
    BY <1>1, <2>1 DEF Seat, FormOK
<1>3. RangesOK(rs, c)
  BY DEF RowFits
<1>4. Pos(rs, i) = rs[c].node /\ Held(rs, i) = rs[c].scopes
  BY <1>1 DEF Pos, Held
<1>5. Single(rs[c].scopes)
  BY DEF Roots
<1>6. rs[c].node \in Node /\ rs[c].scopes \in SUBSET Scope
  <2>1. rs[c].node \in Node
    BY <1>1 DEF Row
  <2>2. rs[c].scopes \in SUBSET Scope
    BY <1>1 DEF Row
  <2>. QED
    BY <2>1, <2>2
<1>. QED
  BY <1>1, <1>2, <1>3, <1>4, <1>5, <1>6 DEF RangesOK

\* Nobody outside all ranges is parallel to anybody.
LEMMA OutsideAlone ==
  ASSUME NEW rs, RowsOK(rs), Roots(rs), \A k \in 1..Len(rs) : RowFits(rs, k),
         NEW i \in 1..Len(rs), Kind[rs[i].node] = "task", Around(Pos(rs, i)) = {}, NEW k
  PROVE  Held(rs, i) = {} /\ ~Parallel(rs, i, k)
<1>1. Held(rs, i) = {}
  BY HeldRanges
<1>. QED
  BY <1>1 DEF Parallel

\* A row that holds the same ranges in the same branches is parallel to the same rows.
LEMMA TakesOver ==
  ASSUME NEW old, NEW new, NEW t, NEW m, NEW k,
         Held(new, m) = Held(old, t), Linked(Pos(old, t), Pos(new, m)),
         Held(new, k) = Held(old, k), Pos(new, k) = Pos(old, k),
         Parallel(old, t, k)
  PROVE  Parallel(new, m, k)
<1>1. PICK r \in Ranges : \E s \in Held(old, t) : \E q \in Held(old, k) :
        RangeOf(s) = r /\ RangeOf(q) = r /\ s.round = q.round /\ Split(r, Pos(old, t), Pos(old, k))
  BY DEF Parallel
<1>2. Split(r, Pos(old, t), Pos(old, k)) => Split(r, Pos(new, m), Pos(new, k))
  BY DEF Linked, Split
<1>. QED
  BY <1>1, <1>2 DEF Parallel

LEMMA LinkedSelf ==
  ASSUME NEW n
  PROVE  Linked(n, n)
BY DEF Linked

\* The ranges a new row gets.
LEMMA BuildScopesRanges ==
  ASSUME WellNested, NEW rs \in Seq(Row), NEW n \in Node, Kind[n] \in {"task", "custom"},
         NEW p \in Nat, NEW self \in Nat
  PROVE  /\ \A s \in BuildScopes(rs, n, p, self) :
              /\ RangeOf(s) \in Around(n)
              /\ \/ s \in ScopesOf(rs, p)
                 \/ RangeOf(s) \notin OwnRanges(rs, p) /\ s.round = p /\ s.root = self
         /\ \A s \in ScopesOf(rs, p) : RangeOf(s) \in Around(n) => s \in BuildScopes(rs, n, p, self)
         /\ \A r \in Around(n) : \E s \in BuildScopes(rs, n, p, self) : RangeOf(s) = r
<1> DEFINE Alike(q, s) == q.fork = s.fork /\ q.join = s.join
           Opens(s) == [fork |-> s.fork, join |-> s.join, round |-> p, root |-> self]
<1>1. PICK held : held = {q \in ScopesOf(rs, p) : \E s \in StaticScopes(n) : Alike(q, s)}
  OBVIOUS
<1>2. PICK new : new = {s \in StaticScopes(n) : \A q \in held : ~Alike(q, s)}
  OBVIOUS
<1>3. PICK B : B = BuildScopes(rs, n, p, self) /\ B = held \cup {Opens(s) : s \in new}
  BY <1>1, <1>2 DEF BuildScopes
<1>4. StaticScopes(n) = Around(n)
  BY NodeRanges
<1>5. \A r \in Around(n) : r \in Ranges /\ r = [fork |-> r.fork, join |-> r.join]
  BY RangeFacts DEF Around
<1>6. \A r \in Around(n) : \A q : Alike(q, r) <=> RangeOf(q) = r
  BY <1>5 DEF RangeOf
<1>7. \A q : q \in held <=> q \in ScopesOf(rs, p) /\ RangeOf(q) \in Around(n)
  BY <1>1, <1>4, <1>6
<1>8. \A r : r \in new <=> r \in Around(n) /\ \A q \in held : RangeOf(q) # r
  BY <1>2, <1>4, <1>6
<1>9. \A r \in new : RangeOf(Opens(r)) = r /\ Opens(r).round = p /\ Opens(r).root = self
  BY <1>5, <1>8 DEF RangeOf
<1> HIDE DEF Alike, Opens
<1>10. \A s : s \in B <=> s \in held \/ \E r \in new : s = Opens(r)
  BY <1>3
<1>11. \A r \in new : r \notin OwnRanges(rs, p)
  BY <1>7, <1>8 DEF OwnRanges
<1>12. \A s \in B : /\ RangeOf(s) \in Around(n)
                    /\ \/ s \in ScopesOf(rs, p)
                       \/ RangeOf(s) \notin OwnRanges(rs, p) /\ s.round = p /\ s.root = self
  BY <1>7, <1>8, <1>9, <1>10, <1>11
<1>13. \A s \in ScopesOf(rs, p) : RangeOf(s) \in Around(n) => s \in B
  BY <1>7, <1>10
<1>14. \A r \in Around(n) : \E s \in B : RangeOf(s) = r
  BY <1>7, <1>8, <1>9, <1>10
<1>. QED
  BY <1>3, <1>12, <1>13, <1>14

-----------------------------------------------------------------------------
(* What a start visits. Its rows have no parent and get no range; in a     *)
(* nested flow they need none, because no fork comes before the first      *)
(* tasks.                                                                  *)

InOpening(toks) == \A i \in 1..Len(toks) : toks[i].parent = 0 => toks[i].node \in Opening
OpeningInv == InOpening(todo)

LEMMA OpeningFirst ==
  /\ Opening \subseteq Node
  /\ \A n \in Node : n \in FirstNodes => n \in Opening
  /\ \A n \in Opening : Kind[n] # "task" => \A m \in Targets(n) \cap Node : m \in Opening
<1> DEFINE Closed(S) == FirstNodes \subseteq S /\ \A m \in S : Kind[m] # "task" => Targets(m) \subseteq S
<1>1. Opening = {n \in Node : \A S \in SUBSET Node : Closed(S) => n \in S}
  BY DEF Opening
<1>2. ASSUME NEW n \in Opening, Kind[n] # "task", NEW m \in Targets(n) \cap Node
      PROVE  m \in Opening
  <2>1. ASSUME NEW S \in SUBSET Node, Closed(S)
        PROVE  m \in S
    BY <1>1, <1>2, <2>1
  <2>. QED
    BY <1>1, <2>1
<1>3. \A n \in Node : n \in FirstNodes => n \in Opening
  BY <1>1
<1> HIDE DEF Closed
<1>. QED
  BY <1>1, <1>2, <1>3

LEMMA OpeningOutside ==
  ASSUME WellNested, NEW n \in Opening
  PROVE  Around(n) = {}
<1>1. PICK S : S = {m \in Opening : Around(m) = {}}
  OBVIOUS
<1>2. S \in SUBSET Node
  BY <1>1, OpeningFirst
<1>3. FirstNodes \subseteq S
  <2>1. FirstNodes \subseteq Node
    BY TargetsType DEF FirstNodes, StartNodes
  <2>. QED
    BY <1>1, <2>1, OpeningFirst DEF WellNested
<1>4. ASSUME NEW k \in S, Kind[k] # "task", NEW m \in Targets(k)
      PROVE  m \in S
  <2>1. k \in Node /\ m \in Node /\ m \in Opening
    BY <1>1, <1>2, <1>4, OpeningFirst, TargetsType
  <2>2. k \notin Forks
    BY <1>1 DEF WellNested
  <2>3. ASSUME NEW r \in Ranges, m \in Body(r)
        PROVE  FALSE
    <3>1. k \in Body(r) \cup {r.fork}
      BY <1>4, <2>1, <2>3 DEF WellNested
    <3>2. k \notin Body(r)
      BY <1>1 DEF Around
    <3>3. r.fork \in Forks
      BY RangeFacts
    <3>. QED
      BY <2>2, <3>1, <3>2, <3>3
  <2>. QED
    BY <1>1, <2>1, <2>3 DEF Around
<1>5. \A k \in S : Kind[k] # "task" => Targets(k) \subseteq S
  BY <1>4
<1>6. n \in S
  BY <1>2, <1>3, <1>5 DEF Opening
<1>. QED
  BY <1>1, <1>6

LEMMA VisitsOpen ==
  ASSUME NEW ns \in Seq(Node), NEW p \in Nat, p = 0 => \A i \in 1..Len(ns) : ns[i] \in Opening
  PROVE  InOpening(Visits(ns, p)) /\ Visits(ns, p) \in Seq(Token)
<1>1. /\ Visits(ns, p) \in Seq(Token) /\ Len(Visits(ns, p)) = Len(ns)
      /\ \A i \in 1..Len(ns) : Visits(ns, p)[i].parent = p
  BY VisitsType
<1>2. \A i \in 1..Len(ns) : Visits(ns, p)[i].node = ns[i]
  BY DEF Visits
<1>. QED
  BY <1>1, <1>2 DEF InOpening

LEMMA ConcatOpen ==
  ASSUME NEW a \in Seq(Token), NEW b \in Seq(Token), InOpening(a), InOpening(b)
  PROVE  InOpening(a \o b)
<1>1. ASSUME NEW i \in 1..Len(a \o b), (a \o b)[i].parent = 0
      PROVE  (a \o b)[i].node \in Opening
  <2>1. Len(a) \in Nat /\ Len(b) \in Nat /\ Len(a \o b) = Len(a) + Len(b) /\ i \in Nat
    OBVIOUS
  <2>2. CASE i <= Len(a)
    <3>1. i \in 1..Len(a) /\ (a \o b)[i] = a[i]
      BY <2>1, <2>2
    <3>. QED
      BY <1>1, <3>1 DEF InOpening
  <2>3. CASE i > Len(a)
    <3>1. i - Len(a) \in 1..Len(b) /\ (a \o b)[i] = b[i - Len(a)]
      BY <2>1, <2>3
    <3>. QED
      BY <1>1, <3>1 DEF InOpening
  <2>. QED
    BY <2>1, <2>2, <2>3
<1>. QED
  BY <1>1 DEF InOpening

LEMMA RestOpen ==
  ASSUME IInv, OpeningInv, todo # <<>>
  PROVE  InOpening(Tail(todo)) /\ Tail(todo) \in Seq(Token)
         /\ (By = 0 => Here \in Opening)
<1>1. todo \in Seq(Token)
  BY DEF IInv, TypeOK
<1>2. /\ Tail(todo) \in Seq(Token) /\ Len(Tail(todo)) = Len(todo) - 1 /\ Len(todo) \in Nat /\ Len(todo) >= 1
      /\ \A i \in 1..Len(Tail(todo)) : Tail(todo)[i] = todo[i+1] /\ i + 1 \in 1..Len(todo)
  BY <1>1
<1>3. InOpening(Tail(todo))
  BY <1>2 DEF OpeningInv, InOpening
<1>4. 1 \in 1..Len(todo) /\ Head(todo) = todo[1]
  BY <1>1, <1>2
<1>5. By = 0 => Here \in Opening
  BY <1>4 DEF OpeningInv, InOpening, By, Here
<1>. QED
  BY <1>2, <1>3, <1>5

LEMMA DescendOpen ==
  ASSUME IInv, OpeningInv, todo # <<>>, Kind[Here] # "task",
         NEW ns \in Seq(Node), \A i \in 1..Len(ns) : ns[i] \in Targets(Here)
  PROVE  InOpening(Visits(ns, By) \o Tail(todo))
<1>1. By \in Nat /\ Here \in Node
  BY HeadFacts
<1>2. InOpening(Tail(todo)) /\ Tail(todo) \in Seq(Token) /\ (By = 0 => Here \in Opening)
  BY RestOpen
<1>3. \A i \in 1..Len(ns) : ns[i] \in Targets(Here) \cap Node
  OBVIOUS
<1>4. By = 0 => \A i \in 1..Len(ns) : ns[i] \in Opening
  BY <1>2, <1>3, OpeningFirst
<1>5. InOpening(Visits(ns, By)) /\ Visits(ns, By) \in Seq(Token)
  BY <1>1, <1>4, VisitsOpen
<1>. QED
  BY <1>2, <1>5, ConcatOpen

LEMMA NextOpening ==
  ASSUME IInv, OpeningInv, [Next]_vars
  PROVE  OpeningInv'
<1>0. InOpening(<<>>)
  BY DEF InOpening
<1>1. CASE UNCHANGED vars
  BY <1>1 DEF vars, OpeningInv, InOpening
<1>2. CASE Start
  <2>1. PICK n \in StartNodes : todo' = Visits(Succ[n], 0)
    BY <1>2 DEF Start, Walk
  <2>2. n \in Node /\ Succ[n] \in Seq(Node)
    BY FlowAssumption DEF StartNodes
  <2>3. \A i \in 1..Len(Succ[n]) : Succ[n][i] \in FirstNodes /\ Succ[n][i] \in Node
    BY <2>2 DEF FirstNodes, Targets
  <2>4. \A i \in 1..Len(Succ[n]) : Succ[n][i] \in Opening
    BY <2>3, OpeningFirst
  <2>5. InOpening(Visits(Succ[n], 0))
    BY <2>2, <2>4, VisitsOpen
  <2>. QED
    BY <2>1, <2>5 DEF OpeningInv, InOpening
<1>3. CASE Request /\ ~Start
  <2>1. \/ todo' = <<>>
        \/ \E t \in DOMAIN rows : \E ns \in Seq(Node) : todo' = Visits(ns, t)
    <3>1. ASSUME NEW t \in DOMAIN rows, NEW st \in Submits, ExecuteProcessTask(t, st)
          PROVE  todo' = <<>> \/ \E ns \in Seq(Node) : todo' = Visits(ns, t)
      <4>1. rows[t].node \in Node
        <5>1. rows[t] \in Row
          BY <3>1 DEF IInv, TypeOK
        <5>. QED
          BY <5>1 DEF Row
      <4>2. Succ[rows[t].node] \in Seq(Node)
        BY <4>1, FlowAssumption
      <4>3. todo' = <<>> \/ todo' = Visits(Succ[rows[t].node], t)
        BY <3>1 DEF ExecuteProcessTask, Walk, Answer
      <4>. QED
        BY <4>2, <4>3
    <3>2. ASSUME NEW t \in DOMAIN rows, NEW target \in JumpTargets, ExecuteAndJumpTask(t, target)
          PROVE  \E ns \in Seq(Node) : todo' = Visits(ns, t)
      <4>1. todo' = <<[node |-> target, parent |-> t]>> /\ target \in Node
        BY <3>2, EngineAssumption DEF ExecuteAndJumpTask, Walk
      <4>2. <<target>> \in Seq(Node) /\ DOMAIN <<target>> = 1..1 /\ <<target>>[1] = target
        BY <4>1
      <4>3. Visits(<<target>>, t) = <<[node |-> target, parent |-> t]>>
        BY <4>2 DEF Visits
      <4>. QED
        BY <4>1, <4>2, <4>3
    <3>3. ASSUME NEW t \in DOMAIN rows, ExecuteAndJumpToFirstTaskNode(t)
          PROVE  todo' = <<>> \/ \E ns \in Seq(Node) : todo' = Visits(ns, t)
      <4>1. todo' = <<>> \/ todo' = Visits(FirstOf({"task", "custom"}), t)
        BY <3>3 DEF ExecuteAndJumpToFirstTaskNode, Walk, Answer
      <4>. QED
        BY <4>1, FirstOfType
    <3>4. ASSUME NEW t \in DOMAIN rows,
                 \/ \E k \in 1..2 : AddSign(t, k)
                 \/ ExecuteAndJumpToEnd(t)
                 \/ RollbackToParent(t)
                 \/ ExecuteReapply(t)
                 \/ RecallTask(t)
          PROVE  todo' = <<>>
      BY <3>4 DEF AddSign, ExecuteAndJumpToEnd, RollbackToParent, ExecuteReapply, RecallTask, Answer, Walk
    <3>5. Withdraw => todo' = <<>>
      BY DEF Withdraw, Answer, Walk
    <3>. QED
      BY <1>3, <3>1, <3>2, <3>3, <3>4, <3>5 DEF Request
  <2>2. CASE todo' = <<>>
    BY <1>0, <2>2 DEF OpeningInv
  <2>3. ASSUME NEW t \in DOMAIN rows, NEW ns \in Seq(Node), todo' = Visits(ns, t)
        PROVE  OpeningInv'
    <3>1. t \in Nat /\ t # 0
      BY DEF IInv, TypeOK
    <3>2. InOpening(Visits(ns, t))
      BY <3>1, VisitsOpen
    <3>. QED
      BY <2>3, <3>2 DEF OpeningInv, InOpening
  <2>. QED
    BY <2>1, <2>2, <2>3
<1>4. CASE Step
  <2>1. todo # <<>>
    BY <1>4 DEF Step, EnterTask, EnterCustom, EnterFork, EnterJoin, EnterDecision, DecisionFails,
                EnterEnd, EnterOther, At
  <2>2. Here \in Node /\ Succ[Here] \in Seq(Node) /\ InOpening(Tail(todo))
    BY <2>1, HeadFacts, RestOpen
  <2>3. CASE EnterTask \/ EnterEnd \/ EnterOther \/ DecisionFails
    <3>1. todo' = Tail(todo) \/ todo' = <<>>
      BY <2>3 DEF EnterTask, EnterEnd, EnterOther, DecisionFails, Continue
    <3>. QED
      BY <1>0, <2>2, <3>1 DEF OpeningInv
  <2>4. CASE EnterCustom \/ EnterFork \/ EnterJoin \/ EnterDecision
    <3>1. PICK ns \in Seq(Node) : /\ todo' = Visits(ns, By) \o Tail(todo)
                                  /\ \A i \in 1..Len(ns) : ns[i] \in Targets(Here)
      <4>1. \A i \in 1..Len(Succ[Here]) : Succ[Here][i] \in Targets(Here)
        BY <2>2 DEF Targets
      <4>2. CASE EnterCustom \/ EnterFork
        BY <2>2, <4>1, <4>2 DEF EnterCustom, EnterFork, Descend, Continue
      <4>3. CASE EnterJoin
        <5>1. PICK ns : ns = (IF MergeReady(rows, Here, By) THEN Succ[Here] ELSE <<>>)
          OBVIOUS
        <5>2. ns \in Seq(Node) /\ \A i \in 1..Len(ns) : ns[i] \in Targets(Here)
          BY <2>2, <4>1, <5>1
        <5>3. todo' = Visits(ns, By) \o Tail(todo)
          BY <4>3, <5>1 DEF EnterJoin, Descend, Continue
        <5>. QED
          BY <5>2, <5>3
      <4>4. CASE EnterDecision
        <5>1. PICK e \in DOMAIN Succ[Here] : todo' = Visits(<<Succ[Here][e]>>, By) \o Tail(todo)
          BY <4>4 DEF EnterDecision, Descend, Continue
        <5>2. PICK x : x = Succ[Here][e] /\ x \in Node /\ x \in Targets(Here)
          BY <2>2, <5>1 DEF Targets
        <5>3. PICK ns : ns = <<x>>
          OBVIOUS
        <5>4. ns \in Seq(Node) /\ \A i \in 1..Len(ns) : ns[i] \in Targets(Here)
          BY <5>2, <5>3
        <5>5. todo' = Visits(ns, By) \o Tail(todo)
          BY <5>1, <5>2, <5>3
        <5>. QED
          BY <5>4, <5>5
      <4>. QED
        BY <2>4, <4>2, <4>3, <4>4
    <3>2. Kind[Here] # "task"
      BY <2>4 DEF EnterCustom, EnterFork, EnterJoin, EnterDecision, At, Here
    <3>3. InOpening(Visits(ns, By) \o Tail(todo))
      BY <2>1, <3>1, <3>2, DescendOpen
    <3>. QED
      BY <3>1, <3>3 DEF OpeningInv
  <2>. QED
    BY <1>4, <2>3, <2>4 DEF Step
<1>. QED
  BY <1>1, <1>2, <1>3, <1>4 DEF Next

\* The ranges a row of the walk gets; without a parent it gets none.
LEMMA AttachedRanges ==
  ASSUME WellNested, NEW rs \in Seq(Row), NEW n \in Node, Kind[n] \in {"task", "custom"},
         NEW p \in Nat, NEW self \in Nat
  PROVE  /\ \A s \in Attached(rs, n, p, self) :
              /\ RangeOf(s) \in Around(n)
              /\ \/ s \in ScopesOf(rs, p)
                 \/ RangeOf(s) \notin OwnRanges(rs, p) /\ s.round = p /\ s.root = self
         /\ \A s \in ScopesOf(rs, p) : RangeOf(s) \in Around(n) => s \in Attached(rs, n, p, self)
         /\ (p = 0 => Around(n) = {}) =>
              \A r \in Around(n) : \E s \in Attached(rs, n, p, self) : RangeOf(s) = r
<1>1. CASE p = 0
  <2>1. Attached(rs, n, p, self) = {}
    BY <1>1 DEF Attached
  <2>2. ScopesOf(rs, p) = {}
    BY <1>1 DEF ScopesOf
  <2>. QED
    BY <1>1, <2>1, <2>2
<1>2. CASE p # 0
  <2>1. Attached(rs, n, p, self) = BuildScopes(rs, n, p, self)
    BY <1>2 DEF Attached
  <2>. QED
    BY <2>1, BuildScopesRanges
<1>. QED
  BY <1>1, <1>2

-----------------------------------------------------------------------------
(* Closing and appending fit rows.                                         *)

Fit(rs) == RowsOK(rs) /\ Roots(rs) /\ RowsFit(rs)

LEMMA StillFit ==
  ASSUME NEW old, NEW new, Fit(old), Advances(old, new), Len(new) = Len(old),
         \A i \in 1..Len(old) : new[i].state = "doing" => old[i].state = "doing"
  PROVE  Fit(new) /\ Settles(old, new)
<1>1. RowsOK(new) /\ Roots(new) /\ new \in Seq(Row) /\ Evolves(old, new) /\ RowsOK(old) /\ Roots(old)
  BY AdvancesRoots DEF Fit
<1>2. Settles(old, new)
  BY <1>1 DEF Settles
<1>3. Len(old) \in Nat /\ Len(old)+1..Len(new) = {}
  BY <1>1 DEF RowsOK
<1>4. RowsFit(new)
  BY <1>1, <1>2, <1>3, RowsFitGrow DEF Fit
<1>. QED
  BY <1>1, <1>2, <1>4 DEF Fit

\* Completing the open row t: what stays open stands apart from it.
LEMMA CompletedFit ==
  ASSUME NEW rs, Fit(rs), NEW t \in 1..Len(rs), rs[t].state = "doing"
  PROVE  LET done == Complete(rs, t)
         IN /\ Fit(done) /\ Settles(rs, done) /\ done \in Seq(Row) /\ Len(done) = Len(rs)
            /\ t \in 1..Len(done) /\ done[t].state = "done" /\ Same(rs[t], done[t])
            /\ Kind[done[t].node] = "task"
            /\ \A i \in 1..Len(rs) : i # t => done[i] = rs[i]
            /\ \A k \in DoingIds(done) : k # t /\ k \in 1..Len(done) /\ Apart(done, t, k)
<1>1. PICK done : done = Complete(rs, t)
  OBVIOUS
<1>2. rs \in Seq(Row) /\ RowsOK(rs) /\ Roots(rs) /\ RowsFit(rs) /\ DOMAIN rs = 1..Len(rs)
  BY DEF Fit, RowsOK
<1>3. /\ Advances(rs, done) /\ done \in Seq(Row) /\ Len(done) = Len(rs)
      /\ done[t].state = "done"
  BY <1>1, <1>2, CompleteAdvances DEF Advances
<1>4. \A i \in 1..Len(rs) : i # t => done[i] = rs[i]
  BY <1>1, <1>2 DEF Complete
<1>5. Fit(done) /\ Settles(rs, done)
  BY <1>3, <1>4, StillFit
<1>6. Same(rs[t], done[t]) /\ Evolves(rs, done) /\ RowsOK(done)
  BY <1>5 DEF Settles, Evolves, Fit
<1>7. Kind[rs[t].node] = "task"
  <2>1. FormOK(rs, t)
    BY <1>2 DEF RowsFit, RowFits
  <2>. QED
    BY <2>1 DEF FormOK
<1>8. ASSUME NEW k \in DoingIds(done)
      PROVE  k # t /\ k \in 1..Len(done) /\ Apart(done, t, k)
  <2>1. k \in 1..Len(rs) /\ k # t /\ done[k].state = "doing"
    BY <1>3 DEF DoingIds
  <2>2. k \in DoingIds(rs) /\ t \in DoingIds(rs)
    BY <1>2, <1>4, <2>1 DEF DoingIds
  <2>3. Apart(rs, t, k)
    BY <1>2, <2>1, <2>2 DEF RowsFit
  <2>4. Apart(done, t, k)
    BY <1>2, <1>6, <2>1, <2>3, ApartKept DEF Apart
  <2>. QED
    BY <1>3, <2>1, <2>4
<1>9. Kind[done[t].node] = "task" /\ t \in 1..Len(done)
  BY <1>3, <1>6, <1>7 DEF Same
<1>. QED
  BY <1>1, <1>3, <1>4, <1>5, <1>6, <1>8, <1>9

\* Closing open rows.
LEMMA ClosedFit ==
  ASSUME NEW rs, Fit(rs), NEW ids, ids \subseteq DoingIds(rs), NEW s \in TaskStates, s # "doing"
  PROVE  LET c == Close(rs, ids, s)
         IN /\ Fit(c) /\ Settles(rs, c) /\ c \in Seq(Row) /\ Len(c) = Len(rs)
            /\ DoingIds(c) = DoingIds(rs) \ ids
<1>1. PICK c : c = Close(rs, ids, s)
  OBVIOUS
<1>2. rs \in Seq(Row) /\ DOMAIN rs = 1..Len(rs)
  BY DEF Fit, RowsOK
<1>3. /\ Advances(rs, c) /\ Len(c) = Len(rs)
      /\ \A i \in ids : c[i].state = s
      /\ \A i \in 1..Len(rs) \ ids : c[i] = rs[i]
  <2>0. rs \in Seq(Row)
    BY <1>2
  <2>1. Advances(rs, Close(rs, ids, s)) /\ Len(Close(rs, ids, s)) = Len(rs)
    BY <2>0, CloseAdvances
  <2>2. \A i \in ids : Close(rs, ids, s)[i].state = s
    BY <2>0, CloseAdvances, ZenonT(30)
  <2>3. \A i \in 1..Len(rs) \ ids : Close(rs, ids, s)[i] = rs[i]
    BY <2>0, CloseAdvances
  <2>. QED
    BY <1>1, <2>1, <2>2, <2>3
<1>4. \A i \in 1..Len(rs) : c[i].state = "doing" => rs[i].state = "doing"
  BY <1>3
<1>5. Fit(c) /\ Settles(rs, c) /\ c \in Seq(Row)
  BY <1>3, <1>4, StillFit DEF Fit, RowsOK
<1>6. DoingIds(c) = DoingIds(rs) \ ids
  BY <1>2, <1>3, <1>5 DEF DoingIds
<1>. QED
  BY <1>1, <1>3, <1>5, <1>6

\* Clearing an add-sign node leaves nobody open on it.
LEMMA ClearedFit ==
  ASSUME NEW rs, Fit(rs), NEW n
  PROVE  LET c == ClearAddSign(rs, n)
         IN /\ Fit(c) /\ Settles(rs, c) /\ c \in Seq(Row) /\ Len(c) = Len(rs)
            /\ DoingIds(c) \subseteq DoingIds(rs)
            /\ \A k \in DoingIds(c) : n \in AllowAddSign => c[k].node # n
<1>1. PICK c : c = ClearAddSign(rs, n)
  OBVIOUS
<1>2. rs \in Seq(Row) /\ DOMAIN rs = 1..Len(rs)
  BY DEF Fit, RowsOK
<1>3. CASE n \in AllowAddSign
  <2>1. c = Close(rs, DoingOn(rs, n), "abandoned")
    BY <1>1, <1>3 DEF ClearAddSign
  <2>2. DoingOn(rs, n) \subseteq DoingIds(rs) /\ "abandoned" \in TaskStates /\ "abandoned" # "doing"
    BY DEF DoingOn, TaskStates
  <2>3. /\ Fit(c) /\ Settles(rs, c) /\ c \in Seq(Row) /\ Len(c) = Len(rs)
        /\ DoingIds(c) = DoingIds(rs) \ DoingOn(rs, n)
    BY <2>1, <2>2, ClosedFit
  <2>4. \A k \in 1..Len(rs) : c[k].node = rs[k].node
    BY <2>3 DEF Settles, Evolves, Same
  <2>5. \A k \in DoingIds(c) : c[k].node # n
    BY <1>2, <2>3, <2>4 DEF DoingOn, On, DoingIds
  <2>. QED
    BY <1>1, <2>3, <2>5
<1>4. CASE n \notin AllowAddSign
  <2>1. c = rs
    BY <1>1, <1>4 DEF ClearAddSign
  <2>2. Settles(rs, rs)
    BY <1>2 DEF Settles, Evolves, Same
  <2>. QED
    BY <1>1, <1>2, <1>4, <2>1, <2>2
<1>. QED
  BY <1>3, <1>4

\* Appending rows.
LEMMA ConcatSettles ==
  ASSUME NEW rs, RowsOK(rs), NEW more \in Seq(Row)
  PROVE  LET new == rs \o more
         IN /\ new \in Seq(Row) /\ Len(new) = Len(rs) + Len(more) /\ Settles(rs, new)
            /\ Len(rs) \in Nat /\ Len(more) \in Nat
            /\ \A i \in 1..Len(rs) : i \in 1..Len(new) /\ new[i] = rs[i]
            /\ \A i \in 1..Len(more) : Len(rs) + i \in 1..Len(new) /\ new[Len(rs) + i] = more[i]
            /\ \A i \in Len(rs)+1..Len(new) : i - Len(rs) \in 1..Len(more) /\ new[i] = more[i - Len(rs)]
            /\ \A k \in DoingIds(new) : k \in DoingIds(rs) \/ k \in Len(rs)+1..Len(new)
<1>1. PICK new : new = rs \o more
  OBVIOUS
<1>2. rs \in Seq(Row) /\ DOMAIN rs = 1..Len(rs) /\ Len(rs) \in Nat /\ Len(more) \in Nat
  BY DEF RowsOK
<1>3. /\ new \in Seq(Row) /\ Len(new) = Len(rs) + Len(more)
      /\ \A i \in 1..Len(rs) + Len(more) :
           new[i] = IF i <= Len(rs) THEN rs[i] ELSE more[i - Len(rs)]
  BY <1>1, <1>2, ConcatProperties
<1>4. \A i \in 1..Len(rs) : i \in 1..Len(new) /\ new[i] = rs[i]
  BY <1>2, <1>3
<1>5. \A i \in Len(rs)+1..Len(new) : i - Len(rs) \in 1..Len(more) /\ new[i] = more[i - Len(rs)]
  BY <1>2, <1>3
<1>6. ASSUME NEW i \in 1..Len(more)
      PROVE  Len(rs) + i \in 1..Len(new) /\ new[Len(rs) + i] = more[i]
  <2>1. PICK k : k = Len(rs) + i
    OBVIOUS
  <2>2. k \in 1..Len(rs) + Len(more) /\ ~(k <= Len(rs)) /\ k - Len(rs) = i
    BY <1>2, <2>1
  <2>3. new[k] = more[k - Len(rs)] /\ k \in 1..Len(new)
    BY <1>3, <2>2
  <2>. QED
    BY <2>1, <2>2, <2>3
<1>7. Settles(rs, new)
  BY <1>2, <1>3, <1>4 DEF Settles, Evolves, Same
<1>8. \A k \in DoingIds(new) : k \in DoingIds(rs) \/ k \in Len(rs)+1..Len(new)
  BY <1>2, <1>3, <1>4 DEF DoingIds
<1>. QED
  BY <1>1, <1>2, <1>3, <1>4, <1>5, <1>6, <1>7, <1>8

LEMMA AppendSettles ==
  ASSUME NEW rs, RowsOK(rs), NEW r \in Row
  PROVE  LET new == Append(rs, r)
             m == Len(rs) + 1
         IN /\ new \in Seq(Row) /\ Len(new) = m /\ Settles(rs, new) /\ m \in 1..Len(new)
            /\ m \in Nat /\ m > 0
            /\ \A i \in 1..Len(rs) : i \in 1..Len(new) /\ i < m /\ new[i] = rs[i]
            /\ new[m] = r
            /\ Len(rs)+1..Len(new) = {m}
            /\ \A k \in DoingIds(new) : k \in DoingIds(rs) \/ (k = m /\ r.state = "doing")
            /\ \A k \in DoingIds(rs) : k \in 1..Len(rs) /\ k \in DoingIds(new)
<1>1. PICK new, m : new = Append(rs, r) /\ m = Len(rs) + 1
  OBVIOUS
<1>2. rs \in Seq(Row) /\ DOMAIN rs = 1..Len(rs) /\ Len(rs) \in Nat
  BY DEF RowsOK
<1>3. /\ new \in Seq(Row) /\ Len(new) = m /\ DOMAIN new = 1..m
      /\ \A i \in 1..Len(rs) : new[i] = rs[i]
      /\ new[m] = r
  BY <1>1, <1>2
<1>4. m \in 1..Len(new) /\ m \in Nat /\ m > 0 /\ Len(rs)+1..Len(new) = {m}
      /\ \A i \in 1..Len(rs) : i \in 1..Len(new) /\ i < m
  BY <1>1, <1>2, <1>3
<1>5. Settles(rs, new)
  BY <1>1, <1>2, <1>3 DEF Settles, Evolves, Same
<1>6. \A k \in DoingIds(new) : k \in DoingIds(rs) \/ (k = m /\ r.state = "doing")
  BY <1>1, <1>2, <1>3 DEF DoingIds
<1>7. \A k \in DoingIds(rs) : k \in 1..Len(rs) /\ k \in DoingIds(new)
  BY <1>1, <1>2, <1>3 DEF DoingIds
<1>. QED
  BY <1>1, <1>3, <1>4, <1>5, <1>6, <1>7

LEMMA AppendFit ==
  ASSUME NEW rs, Fit(rs), NEW r \in Row, NEW new, new = Append(rs, r), RowsOK(new), Roots(new),
         RowFits(new, Len(rs) + 1),
         r.state = "doing" => \A k \in DoingIds(rs) : Apart(new, Len(rs) + 1, k)
  PROVE  Fit(new)
<1>1. RowsOK(rs) /\ Roots(rs) /\ RowsFit(rs)
  BY DEF Fit
<1>2. PICK m : m = Len(rs) + 1
  OBVIOUS
<1>3. /\ Settles(rs, new) /\ Len(rs)+1..Len(new) = {m} /\ new[m] = r /\ m \in Nat
      /\ \A k \in DoingIds(new) : k \in DoingIds(rs) \/ (k = m /\ r.state = "doing")
  BY <1>1, <1>2, AppendSettles
<1>4. \A k \in DoingIds(new) : m \in DoingIds(new) /\ k < m => Apart(new, m, k)
  <2> SUFFICES ASSUME NEW k \in DoingIds(new), m \in DoingIds(new), k < m
               PROVE  Apart(new, m, k)
    OBVIOUS
  <2>1. r.state = "doing"
    BY <1>3 DEF DoingIds
  <2>2. k \in DoingIds(rs)
    BY <1>3
  <2>. QED
    BY <1>2, <2>1, <2>2
<1>5. RowsFit(new)
  <2>1. \A i \in Len(rs)+1..Len(new) : i = m
    BY <1>3
  <2>2. \A i \in Len(rs)+1..Len(new) : RowFits(new, i)
    BY <1>2, <2>1
  <2>3. \A i \in Len(rs)+1..Len(new) : \A k \in DoingIds(new) :
          i \in DoingIds(new) /\ k < i => Apart(new, i, k)
    BY <1>4, <2>1
  <2>4. Settles(rs, new)
    BY <1>3
  <2>. QED
    BY <1>1, <2>2, <2>3, <2>4, RowsFitGrow
<1>. QED
  BY <1>5 DEF Fit

\* What a row and those apart from it keep when rows are appended.
LEMMA ParallelKept ==
  ASSUME NEW old, NEW new, RowsOK(old), RowsOK(new), Evolves(old, new),
         NEW i \in 1..Len(old), NEW k \in 1..Len(old), Parallel(old, i, k)
  PROVE  Parallel(new, i, k)
BY ApartKept

\* Nobody has a round that starts at an open row.
LEMMA NoRoundYet ==
  ASSUME NEW rs, Fit(rs), NEW t \in 1..Len(rs), rs[t].state = "doing",
         NEW new, RowsOK(new), Evolves(rs, new), Len(new) = Len(rs)
  PROVE  \A i \in 1..Len(new) : \A s \in new[i].scopes : s.round # t
<1> SUFFICES ASSUME NEW i \in 1..Len(new), NEW s \in new[i].scopes, s.round = t
             PROVE  FALSE
  OBVIOUS
<1>1. i \in 1..Len(rs) /\ new[i].scopes = rs[i].scopes
  BY DEF Evolves, Same
<1>2. RoundsOK(rs, i)
  BY <1>1 DEF Fit, RowsFit, RowFits
<1>3. t # 0
  BY DEF Fit, RowsOK
<1>. QED
  BY <1>1, <1>2, <1>3 DEF RoundsOK

-----------------------------------------------------------------------------
(* The requests.                                                           *)

LEMMA RequestTokens ==
  ASSUME TokenInv, StateOK(inst', rows'), NEW toks, NEW st, Walk(toks, st),
         toks # <<>> => inst' \notin {"none", "finished"} /\ WalkOK(rows', toks[1].parent, toks)
  PROVE  TokenInv'
<1>1. saved' = <<>> \/ saved' = <<[inst |-> inst, rows |-> rows, loops |-> loops]>>
  BY DEF Walk
<1>2. saved' # <<>> => saved'[1].rows = rows /\ saved'[1].inst = inst
  BY <1>1
<1>3. todo' = toks
  BY DEF Walk
<1>4. saved' # <<>> => StateOK(saved'[1].inst, saved'[1].rows)
  BY <1>2 DEF TokenInv
<1>. QED
  BY <1>3, <1>4 DEF TokenInv

\* The row a request is about, and the instance it is served in.
LEMMA OpenFit ==
  ASSUME IInv, BranchInv, TokenInv, NEW t \in DOMAIN rows, rows[t].state = "doing"
  PROVE  /\ t \in 1..Len(rows) /\ t \in Nat /\ rows[t] \in Row /\ rows \in Seq(Row) /\ Fit(rows)
         /\ rows[t].node \in Node /\ rows[t].scopes \in SUBSET Scope
         /\ inst \notin {"none", "finished"}
         /\ RowFits(rows, t)
<1>1. rows \in Seq(Row) /\ DOMAIN rows = 1..Len(rows) /\ RowsOK(rows)
  BY DEF IInv, TypeOK
<1>2. t \in 1..Len(rows) /\ t \in Nat /\ rows[t] \in Row
  BY <1>1
<1>3. Fit(rows)
  BY <1>1 DEF Fit, BranchInv, TokenInv, StateOK
<1>4. t \in DoingIds(rows) /\ rows # <<>>
  BY <1>1, <1>2 DEF DoingIds
<1>5. inst \notin {"none", "finished"}
  BY <1>4 DEF TokenInv, StateOK
<1>6. rows[t].node \in Node
  BY <1>2 DEF Row
<1>7. rows[t].scopes \in SUBSET Scope
  BY <1>2 DEF Row
<1>8. RowFits(rows, t)
  BY <1>2, <1>3 DEF Fit, RowsFit
<1>. QED
  BY <1>1, <1>2, <1>3, <1>5, <1>6, <1>7, <1>8

\* At most one visit.
LEMMA OneVisit ==
  ASSUME NEW ns \in Seq(Node), Len(ns) <= 1, NEW p \in Nat
  PROVE  Visits(ns, p) = <<>> \/ (ns[1] \in Node /\ 1 \in DOMAIN ns /\ Visits(ns, p) = <<[node |-> ns[1], parent |-> p]>>)
<1>1. CASE Len(ns) = 0
  BY <1>1 DEF Visits
<1>2. CASE Len(ns) = 1
  <2>1. DOMAIN ns = {1} /\ ns[1] \in Node
    BY <1>2
  <2>. QED
    BY <2>1 DEF Visits
<1>3. Len(ns) = 0 \/ Len(ns) = 1
  <2>1. Len(ns) \in Nat
    OBVIOUS
  <2>. QED
    BY <2>1
<1>. QED
  BY <1>1, <1>2, <1>3

\* A row sends a single visit, to x.
LEMMA LoneWalk ==
  ASSUME NEW rs, NEW w, NEW x, NEW toks, toks = <<[node |-> x, parent |-> w]>>,
         w \in 1..Len(rs) /\ rs[w].source = 0 /\ Kind[rs[w].node] = "task",
         \A s \in ScopesOf(rs, w) : x = s.join \/ SameBranch(RangeOf(s), rs[w].node, x),
         \A k \in DoingIds(rs) : Parallel(rs, w, k),
         \A r \in Ranges : x \in Body(r) \/ x = r.join => r \in OwnRanges(rs, w),
         \A i \in 1..Len(rs) : \A s \in rs[i].scopes : s.round # w,
         w # 0
  PROVE  WalkOK(rs, toks[1].parent, toks)
<1>1. Len(toks) = 1 /\ \A i \in 1..Len(toks) : i = 1 /\ toks[i].node = x /\ toks[i].parent = w
  OBVIOUS
<1>2. toks[1].parent = w /\ toks[1].node = x
  OBVIOUS
<1>3. \A s \in ScopesOf(rs, w) : OnItsWay(rs, w, toks, s)
  BY <1>1 DEF OnItsWay
<1>. HIDE DEF Parallel
<1>4. \A i \in 1..Len(toks) : \A k \in DoingIds(rs) : VisitApart(rs, w, toks[i].node, k)
  BY DEF VisitApart
<1>. QED
  BY <1>1, <1>2, <1>3, <1>4 DEF WalkOK, Walks

LEMMA StartTokens ==
  ASSUME WellNested, IInv, TokenInv, Start
  PROVE  TokenInv'
<1>1. inst = "none" /\ inst' = "doing" /\ rows' = rows
  BY DEF Start
<1>2. rows = <<>> /\ rows' = <<>> /\ RowsFit(rows')
  BY <1>1 DEF TokenInv, StateOK
<1>3. PICK n \in StartNodes : Walk(Visits(Succ[n], 0), "agree")
  BY DEF Start
<1>4. n \in Node /\ Kind[n] = "start" /\ Succ[n] \in Seq(Node) /\ Len(Succ[n]) <= 1
  BY FlowAssumption DEF StartNodes, WellNested
<1>5. StateOK(inst', rows')
  BY <1>1, <1>2 DEF StateOK
<1>6. PICK toks : toks = Visits(Succ[n], 0)
  OBVIOUS
<1>7. ASSUME toks # <<>>
      PROVE  WalkOK(rows', toks[1].parent, toks)
  <2>1. PICK x \in Node : x = Succ[n][1] /\ 1 \in DOMAIN Succ[n] /\ toks = <<[node |-> x, parent |-> 0]>>
    BY <1>4, <1>6, <1>7, OneVisit
  <2>2. x \in FirstNodes
    BY <1>4, <2>1 DEF FirstNodes, Targets, StartNodes
  <2>3. Around(x) = {} /\ Kind[x] # "join"
    BY <2>1, <2>2 DEF WellNested
  <2>4. \A r \in Ranges : x \notin Body(r) /\ x # r.join
    BY <2>3, RangeFacts DEF Around, Joins
  <2>5. Len(toks) = 1 /\ \A i \in 1..Len(toks) : i = 1 /\ toks[i].node = x /\ toks[i].parent = 0
    BY <2>1
  <2>6. toks[1].parent = 0 /\ toks[1].node = x
    BY <2>1
  <2>7. Len(rows') = 0 /\ DOMAIN rows' = 1..0 /\ 1..0 = {} /\ DoingIds(rows') = {}
    BY <1>2 DEF DoingIds
  <2>8. ScopesOf(rows', 0) = {}
    BY <2>7 DEF ScopesOf
  <2>. QED
    BY <2>4, <2>5, <2>6, <2>7, <2>8 DEF WalkOK, Walks
<1>. QED
  BY <1>1, <1>3, <1>5, <1>6, <1>7, RequestTokens

LEMMA WithdrawTokens ==
  ASSUME IInv, BranchInv, TokenInv, Withdraw
  PROVE  TokenInv'
<1>1. Fit(rows) /\ DoingIds(rows) \subseteq DoingIds(rows) /\ "withdrawn" \in TaskStates /\ "withdrawn" # "doing"
  BY DEF Fit, IInv, BranchInv, TokenInv, StateOK, TaskStates
<1>2. rows' = Close(rows, DoingIds(rows), "withdrawn") /\ Walk(<<>>, "agree") /\ inst' = "withdrawn"
  BY DEF Withdraw, Answer
<1>3. RowsFit(rows')
  BY <1>1, <1>2, ClosedFit DEF Fit
<1>4. StateOK(inst', rows')
  BY <1>2, <1>3 DEF StateOK
<1>. QED
  BY <1>2, <1>4, RequestTokens

\* A new row of the same node that stands in no range, from the completed row t.
LEMMA SuccessorFits ==
  ASSUME NEW rs, Fit(rs), NEW new, RowsOK(new), Evolves(rs, new), NEW t \in 1..Len(rs),
         Kind[rs[t].node] = "task", rs[t].source = 0, Around(rs[t].node) = {},
         NEW m \in 1..Len(new), t < m,
         new[m].node = rs[t].node, new[m].parent = t, new[m].scopes = {}, new[m].source = 0,
         new[m].branch = {}
  PROVE  RowFits(new, m)
<1>1. new[t].node = rs[t].node /\ new[t].source = 0
  BY DEF Evolves, Same
<1>2. FormOK(new, m)
  BY DEF FormOK
<1>3. RangesOK(new, m) /\ RoundsOK(new, m)
  BY DEF RangesOK, RoundsOK
<1>4. ParentOK(new, m)
  BY <1>1 DEF ParentOK
<1>. QED
  BY <1>2, <1>3, <1>4 DEF RowFits

\* The row t is through, and everybody still open works beside it: the walk behind
\* the node begins in the branches of t.
LEMMA PassOn ==
  ASSUME WellNested, NEW rs, Fit(rs), rs \in Seq(Row), NEW t \in 1..Len(rs), rs[t].source = 0,
         Kind[rs[t].node] = "task",
         \A k \in DoingIds(rs) : Parallel(rs, t, k),
         \A i \in 1..Len(rs) : \A s \in rs[i].scopes : s.round # t,
         NEW toks, toks = Visits(Succ[rs[t].node], t), toks # <<>>
  PROVE  WalkOK(rs, toks[1].parent, toks)
<1>1. PICK n : n = rs[t].node
  OBVIOUS
<1>2. rs[t] \in Row /\ t \in Nat /\ t # 0 /\ DOMAIN rs = 1..Len(rs)
  OBVIOUS
<1>3. n \in Node /\ Kind[n] = "task" /\ Succ[n] \in Seq(Node) /\ Len(Succ[n]) <= 1
  <2>1. n \in Node
    BY <1>1, <1>2 DEF Row
  <2>. QED
    BY <1>1, <2>1, FlowAssumption DEF WellNested
<1>4. PICK x \in Node : x = Succ[n][1] /\ 1 \in DOMAIN Succ[n] /\ toks = <<[node |-> x, parent |-> t]>>
  BY <1>1, <1>2, <1>3, OneVisit
<1>5. x \in Targets(n)
  BY <1>4 DEF Targets
<1>6. /\ Pos(rs, t) = n /\ Held(rs, t) = rs[t].scopes
      /\ \A s \in rs[t].scopes : RangeOf(s) \in Around(n)
      /\ \A r \in Around(n) : \E s \in rs[t].scopes : RangeOf(s) = r
  <2>1. Seat(rs, t) = t
    BY DEF Seat
  <2>2. Pos(rs, t) = n /\ Held(rs, t) = rs[t].scopes
    BY <1>1, <2>1 DEF Pos, Held
  <2>3. RowsOK(rs) /\ Roots(rs) /\ \A k \in 1..Len(rs) : RowFits(rs, k)
    BY DEF Fit, RowsFit
  <2>4. /\ \A s \in Held(rs, t) : RangeOf(s) \in Around(Pos(rs, t))
        /\ \A r \in Around(Pos(rs, t)) : \E s \in Held(rs, t) : RangeOf(s) = r
    BY <2>3, HeldRanges
  <2>. QED
    BY <2>2, <2>4
<1>7. ScopesOf(rs, t) = rs[t].scopes
  BY <1>2 DEF ScopesOf
<1>8. ASSUME NEW s \in ScopesOf(rs, t)
      PROVE  x = s.join \/ SameBranch(RangeOf(s), rs[t].node, x)
  <2>1. PICK r \in Ranges : r = RangeOf(s) /\ n \in Body(r)
    BY <1>6, <1>7 DEF Around
  <2>2. r.join = s.join
    BY <2>1 DEF RangeOf
  <2>3. x # r.join => SameBranch(r, n, x)
    BY <1>5, <2>1, SameBranchStep DEF SameBranch
  <2>. QED
    BY <1>1, <2>1, <2>2, <2>3
<1>9. ASSUME NEW r \in Ranges, x \in Body(r) \/ x = r.join
      PROVE  r \in OwnRanges(rs, t)
  <2>1. n # r.fork
    BY <1>3, RangeFacts DEF Forks
  <2>2. n \in Body(r)
    BY <1>3, <1>5, <1>9, <2>1, BodyEntry
  <2>3. PICK s \in rs[t].scopes : RangeOf(s) = r
    BY <1>6, <2>2 DEF Around
  <2>. QED
    BY <1>7, <2>3 DEF OwnRanges
<1>. QED
  BY <1>1, <1>2, <1>3, <1>4, <1>8, <1>9, LoneWalk

LEMMA ExecuteTokens ==
  ASSUME WellNested, Disciplined, IInv, BranchInv, TokenInv, RowsOK(rows'), Roots(rows'),
         NEW t \in DOMAIN rows, NEW st \in Submits, ExecuteProcessTask(t, st)
  PROVE  TokenInv'
<1>1. PICK done, n : done = Complete(rows, t) /\ n = rows[t].node
  OBVIOUS
<1>2. rows[t].state = "doing" /\ rows[t].source = 0 /\ inst' = inst
  BY DEF ExecuteProcessTask, Open
<1>3. /\ t \in 1..Len(rows) /\ t \in Nat /\ rows \in Seq(Row) /\ Fit(rows) /\ n \in Node
      /\ inst \notin {"none", "finished"}
  BY <1>1, <1>2, OpenFit
<1>4. /\ Fit(done) /\ Settles(rows, done) /\ done \in Seq(Row) /\ Len(done) = Len(rows)
      /\ t \in 1..Len(done) /\ done[t].state = "done" /\ Same(rows[t], done[t])
      /\ Kind[done[t].node] = "task"
      /\ \A k \in DoingIds(done) : k # t /\ k \in 1..Len(done) /\ Apart(done, t, k)
  BY <1>1, <1>2, <1>3, CompletedFit
<1>5. done[t].node = n /\ done[t].source = 0 /\ t # 0
  BY <1>1, <1>2, <1>3, <1>4 DEF Same
<1>6. \/ /\ GateOpen(done, t, st)
         /\ rows' = IF Countersign[n] = "none" THEN done
                    ELSE Close(done, DoingOn(done, n), "abandoned")
         /\ Walk(Visits(Succ[n], t), st)
      \/ /\ NextMemberDue(done, t, st)
         /\ rows' = Append(done, [Fresh(n, t, {}) EXCEPT !.loop = Loop(t) + 1])
         /\ Walk(<<>>, "agree")
      \/ rows' = done /\ Walk(<<>>, "agree")
  BY <1>1 DEF ExecuteProcessTask, Answer
<1>7. CASE /\ GateOpen(done, t, st)
           /\ rows' = IF Countersign[n] = "none" THEN done
                      ELSE Close(done, DoingOn(done, n), "abandoned")
           /\ Walk(Visits(Succ[n], t), st)
  <2>1. /\ Fit(rows') /\ Evolves(done, rows') /\ rows' \in Seq(Row) /\ Len(rows') = Len(done)
        /\ \A k \in DoingIds(rows') : k \in DoingIds(done) /\ ~Fellows(done, t, k)
    <3>1. CASE Countersign[n] = "none"
      <4>1. rows' = done
        BY <1>7, <3>1
      <4>2. n \in AllowAddSign => DoingOn(done, n) = {}
        BY <1>5, <1>7, <3>1 DEF GateOpen, AddSignGate
      <4>3. OneRow(n)
        BY <3>1 DEF OneRow
      <4>4. ASSUME NEW k \in DoingIds(done), Fellows(done, t, k)
            PROVE  FALSE
        <5>1. done[k].node = n /\ n \in AllowAddSign
          BY <1>5, <4>3, <4>4 DEF Fellows
        <5>2. k \in DoingOn(done, n)
          BY <5>1 DEF DoingOn, On, DoingIds
        <5>. QED
          BY <4>2, <5>1, <5>2
      <4>. QED
        BY <1>4, <4>1, <4>4 DEF Evolves, Same
    <3>2. CASE Countersign[n] # "none"
      <4>1. rows' = Close(done, DoingOn(done, n), "abandoned")
        BY <1>7, <3>2
      <4>2. DoingOn(done, n) \subseteq DoingIds(done) /\ "abandoned" \in TaskStates /\ "abandoned" # "doing"
        BY DEF DoingOn, TaskStates
      <4>3. /\ Fit(rows') /\ Settles(done, rows') /\ rows' \in Seq(Row) /\ Len(rows') = Len(done)
            /\ DoingIds(rows') = DoingIds(done) \ DoingOn(done, n)
        <5>1. PICK ids : ids = DoingOn(done, n)
          OBVIOUS
        <5>2. Fit(done) /\ ids \subseteq DoingIds(done)
          BY <1>4, <4>2, <5>1
        <5>3. PICK c : c = Close(done, ids, "abandoned")
          OBVIOUS
        <5>4. /\ Fit(c) /\ Settles(done, c) /\ c \in Seq(Row) /\ Len(c) = Len(done)
              /\ DoingIds(c) = DoingIds(done) \ ids
          BY <4>2, <5>2, <5>3, ClosedFit
        <5>. QED
          BY <4>1, <5>1, <5>3, <5>4
      <4>4. ASSUME NEW k \in DoingIds(rows')
            PROVE  k \in DoingIds(done) /\ ~Fellows(done, t, k)
        <5>1. k \in DoingIds(done) /\ done[k].node # n
          BY <4>3 DEF DoingOn, On, DoingIds
        <5>. QED
          BY <1>5, <5>1 DEF Fellows
      <4>. QED
        BY <4>3, <4>4 DEF Settles
    <3>. QED
      BY <3>1, <3>2
  <2>2. RowsOK(done) /\ RowsOK(rows') /\ t \in 1..Len(rows')
    BY <1>4, <2>1 DEF Fit
  <2>3. \A k \in DoingIds(rows') : Parallel(rows', t, k)
    <3> SUFFICES ASSUME NEW k \in DoingIds(rows')
                 PROVE  Parallel(rows', t, k)
      OBVIOUS
    <3>1. k \in 1..Len(done) /\ Parallel(done, t, k)
      BY <1>4, <2>1 DEF Apart
    <3>. QED
      BY <1>4, <2>1, <2>2, <3>1, ParallelKept
  <2>4. rows'[t].node = n /\ rows'[t].source = 0 /\ Kind[n] = "task"
    BY <1>4, <1>5, <2>1 DEF Evolves, Same
  <2>5. Evolves(rows, rows') /\ Len(rows') = Len(rows)
    BY <1>3, <1>4, <2>1, EvolvesTrans DEF Settles
  <2>6. \A i \in 1..Len(rows') : \A s \in rows'[i].scopes : s.round # t
    BY <1>2, <1>3, <2>2, <2>5, NoRoundYet
  <2>7. PICK toks, rs : toks = Visits(Succ[n], t) /\ rs = rows'
    OBVIOUS
  <2>8. toks # <<>> => WalkOK(rs, toks[1].parent, toks)
    BY <2>1, <2>2, <2>3, <2>4, <2>6, <2>7, PassOn
  <2>9. StateOK(inst', rows')
    BY <1>2, <1>3, <2>1 DEF StateOK, Fit
  <2>. QED
    BY <1>2, <1>3, <1>7, <2>7, <2>8, <2>9, RequestTokens
<1>8. CASE /\ NextMemberDue(done, t, st)
           /\ rows' = Append(done, [Fresh(n, t, {}) EXCEPT !.loop = Loop(t) + 1])
           /\ Walk(<<>>, "agree")
  <2>1. PICK f : f = Fresh(n, t, {}) /\ f \in Row /\ f.scopes = {} /\ f.branch = {}
    BY <1>3, FreshRanges
  <2>2. f.node = n /\ f.parent = t /\ f.source = 0 /\ f.state = "doing"
    BY <2>1 DEF Fresh
  <2>3. PICK l : l = Loop(t) + 1 /\ l \in Int
    BY <1>3, LoopType DEF IInv
  <2>4. PICK r : r = [f EXCEPT !.loop = l]
    OBVIOUS
  <2>5. /\ r \in Row /\ r.scopes = {} /\ r.branch = {} /\ r.node = n /\ r.parent = t
        /\ r.source = 0 /\ r.state = "doing"
    BY <2>1, <2>2, <2>3, <2>4 DEF Row
  <2>6. rows' = Append(done, r)
    BY <1>8, <2>1, <2>3, <2>4
  <2>7. PICK m : m = Len(done) + 1
    OBVIOUS
  <2>8. RowsOK(done)
    BY <1>4 DEF Fit
  <2>9. /\ Settles(done, rows') /\ rows'[m] = r /\ m \in 1..Len(rows') /\ t < m
    BY <1>4, <2>5, <2>6, <2>7, <2>8, AppendSettles
  <2>10. Around(n) = {}
    <3>1. Countersign[n] = "sequential" /\ Loop(t) >= 0 /\ Loop(t) + 1 < Members[n]
      BY <1>1, <1>8 DEF NextMemberDue, HasNextMember
    <3>2. Members[n] \in Nat /\ Loop(t) \in Int
      BY <1>3, LoopType, EngineAssumption DEF IInv
    <3>3. Members[n] > 1
      BY <3>1, <3>2
    <3>4. Crowded(n)
      BY <3>1, <3>3 DEF Crowded
    <3>. QED
      BY <1>3, <3>4 DEF Disciplined
  <2>11. RowFits(rows', m)
    BY <1>4, <1>5, <2>5, <2>9, <2>10, SuccessorFits DEF Settles
  <2>12. DoingIds(done) = {}
    BY <1>8 DEF NextMemberDue
  <2>13. Fit(rows')
    BY <1>4, <2>5, <2>6, <2>7, <2>11, <2>12, AppendFit
  <2>14. StateOK(inst', rows')
    BY <1>2, <1>3, <2>13 DEF StateOK, Fit
  <2>. QED
    BY <1>8, <2>14, RequestTokens
<1>9. CASE rows' = done /\ Walk(<<>>, "agree")
  <2>1. StateOK(inst', rows')
    BY <1>2, <1>3, <1>4, <1>9 DEF StateOK, Fit
  <2>. QED
    BY <1>9, <2>1, RequestTokens
<1>. QED
  BY <1>6, <1>7, <1>8, <1>9

LEMMA AddSignTokens ==
  ASSUME WellNested, Disciplined, IInv, BranchInv, TokenInv, RowsOK(rows'), Roots(rows'),
         NEW t \in DOMAIN rows, NEW k \in 1..2, AddSign(t, k)
  PROVE  TokenInv'
<1>1. PICK done, n : done = Complete(rows, t) /\ n = rows[t].node
  OBVIOUS
<1>2. /\ rows[t].state = "doing" /\ rows[t].source = 0 /\ inst' = inst /\ n \in AllowAddSign
      /\ Walk(<<>>, "agree")
  BY <1>1 DEF AddSign, Open, Answer
<1>3. /\ t \in 1..Len(rows) /\ t \in Nat /\ rows \in Seq(Row) /\ Fit(rows) /\ n \in Node
      /\ inst \notin {"none", "finished"}
  BY <1>1, <1>2, OpenFit
<1>4. /\ Fit(done) /\ Settles(rows, done) /\ done \in Seq(Row) /\ Len(done) = Len(rows)
      /\ t \in 1..Len(done) /\ done[t].state = "done" /\ Same(rows[t], done[t])
      /\ Kind[done[t].node] = "task"
      /\ \A i \in DoingIds(done) : i # t /\ i \in 1..Len(done) /\ Apart(done, t, i)
  BY <1>1, <1>2, <1>3, CompletedFit
<1>5. /\ done[t].node = n /\ done[t].source = 0 /\ t # 0 /\ Kind[n] = "task"
      /\ RowsOK(done) /\ Roots(done) /\ \A i \in 1..Len(done) : RowFits(done, i)
  BY <1>1, <1>2, <1>3, <1>4 DEF Same, Fit, RowsFit
<1>6. Around(n) = {} /\ OneRow(n)
  <2>1. Crowded(n)
    BY <1>2 DEF Crowded
  <2>2. Countersign[n] = "none"
    BY <1>2, ParseAssumption
  <2>. QED
    BY <1>3, <2>1, <2>2 DEF Disciplined, OneRow
<1>7. PICK more : /\ more = [i \in 1..k |-> Fresh(n, t, BuildScopes(done, n, t, Len(rows) + i))]
                  /\ rows' = done \o more
  BY <1>1 DEF AddSign
<1>8. ASSUME NEW i \in 1..k
      PROVE  /\ more[i] \in Row /\ more[i].scopes = {} /\ more[i].branch = {} /\ more[i].node = n
             /\ more[i].parent = t /\ more[i].source = 0 /\ more[i].state = "doing"
  <2>1. PICK B : B = BuildScopes(done, n, t, Len(rows) + i)
    OBVIOUS
  <2>2. Len(rows) + i \in Nat
    BY <1>3
  <2>3. \A s \in B : RangeOf(s) \in Around(n)
    BY <1>3, <1>4, <1>5, <2>1, <2>2, BuildScopesRanges
  <2>4. B = {}
    BY <1>6, <2>3
  <2>5. more[i] = Fresh(n, t, {})
    BY <1>7, <2>1, <2>4
  <2>. QED
    BY <1>3, <2>5, FreshRanges DEF Fresh
<1>9. more \in Seq(Row) /\ Len(more) = k
  <2>1. more \in [1..k -> Row]
    BY <1>7, <1>8
  <2>. QED
    BY <2>1, FunctionIsSeq
<1>10. /\ rows' \in Seq(Row) /\ Settles(done, rows') /\ Len(done) \in Nat
       /\ \A i \in 1..Len(done) : i \in 1..Len(rows') /\ rows'[i] = done[i]
       /\ \A i \in Len(done)+1..Len(rows') : i - Len(done) \in 1..k /\ rows'[i] = more[i - Len(done)]
       /\ \A i \in DoingIds(rows') : i \in DoingIds(done) \/ i \in Len(done)+1..Len(rows')
  <2>1. PICK new : new = done \o more
    OBVIOUS
  <2>2. /\ new \in Seq(Row) /\ Settles(done, new) /\ Len(done) \in Nat
        /\ \A i \in 1..Len(done) : i \in 1..Len(new) /\ new[i] = done[i]
        /\ \A i \in Len(done)+1..Len(new) : i - Len(done) \in 1..Len(more) /\ new[i] = more[i - Len(done)]
        /\ \A i \in DoingIds(new) : i \in DoingIds(done) \/ i \in Len(done)+1..Len(new)
    BY <1>5, <1>9, <2>1, ConcatSettles
  <2>. QED
    BY <1>7, <1>9, <2>1, <2>2
<1>11. ASSUME NEW m \in Len(done)+1..Len(rows')
       PROVE  /\ rows'[m].scopes = {} /\ rows'[m].branch = {} /\ rows'[m].node = n
              /\ rows'[m].parent = t /\ rows'[m].source = 0
              /\ m \in 1..Len(rows') /\ t < m
  <2>1. PICK i \in 1..k : i = m - Len(done) /\ rows'[m] = more[i]
    BY <1>10
  <2>2. m \in 1..Len(rows') /\ t < m
    BY <1>4, <1>10
  <2>. QED
    BY <1>8, <2>1, <2>2
<1>12. \A m \in Len(done)+1..Len(rows') : RowFits(rows', m)
  <2> SUFFICES ASSUME NEW m \in Len(done)+1..Len(rows')
               PROVE  RowFits(rows', m)
    OBVIOUS
  <2>1. /\ rows'[m].scopes = {} /\ rows'[m].branch = {} /\ rows'[m].node = n
        /\ rows'[m].parent = t /\ rows'[m].source = 0
        /\ m \in 1..Len(rows') /\ t < m
    BY <1>11
  <2>2. Evolves(done, rows')
    BY <1>10 DEF Settles
  <2>. QED
    BY <1>4, <1>5, <1>6, <2>1, <2>2, SuccessorFits
<1>13. \A m \in Len(done)+1..Len(rows') : \A i \in DoingIds(rows') :
         m \in DoingIds(rows') /\ i < m => Apart(rows', m, i)
  <2> SUFFICES ASSUME NEW m \in Len(done)+1..Len(rows'), NEW i \in DoingIds(rows')
               PROVE  Fellows(rows', m, i)
    BY DEF Apart
  <2>1. rows'[m].node = n /\ rows'[m].source = 0 /\ Signer(rows', m)
    BY <1>4, <1>5, <1>10, <1>11 DEF Signer
  <2>2. CASE i \in Len(done)+1..Len(rows')
    <3>1. rows'[i].node = n /\ rows'[i].source = 0 /\ Signer(rows', i)
      BY <1>4, <1>5, <1>10, <1>11, <2>2 DEF Signer
    <3>. QED
      BY <1>2, <2>1, <3>1 DEF Fellows
  <2>3. CASE i \in DoingIds(done)
    <3>1. i \in 1..Len(done) /\ Apart(done, t, i)
      BY <1>4, <2>3
    <3>2. ~Parallel(done, t, i)
      <4>1. Pos(done, t) = n
        BY <1>5 DEF Pos, Seat
      <4>. QED
        BY <1>4, <1>5, <1>6, <4>1, OutsideAlone
    <3>3. Fellows(done, t, i)
      BY <3>1, <3>2 DEF Apart
    <3>4. Fellows(rows', t, i)
      BY <1>4, <1>5, <1>10, <3>1, <3>3, ApartKept DEF Settles
    <3>5. rows'[t].node = n
      BY <1>4, <1>5, <1>10
    <3>6. rows'[i].node = n /\ rows'[i].source = 0 /\ Signer(rows', i)
      BY <1>6, <3>4, <3>5 DEF Fellows
    <3>. QED
      BY <1>2, <2>1, <3>6 DEF Fellows
  <2>. QED
    BY <1>10, <2>2, <2>3
<1>14. RowsFit(rows')
  BY <1>4, <1>5, <1>10, <1>12, <1>13, RowsFitGrow DEF Fit
<1>15. StateOK(inst', rows')
  BY <1>2, <1>3, <1>14 DEF StateOK
<1>. QED
  BY <1>2, <1>15, RequestTokens

LEMMA RejectTokens ==
  ASSUME IInv, BranchInv, TokenInv, NEW t \in DOMAIN rows, ExecuteAndJumpToEnd(t)
  PROVE  TokenInv'
<1>1. PICK done : done = Complete(rows, t)
  OBVIOUS
<1>2. /\ rows[t].state = "doing" /\ Walk(<<>>, "agree") /\ inst' = "rejected"
      /\ rows' = ClearAddSign(done, rows[t].node)
  BY <1>1 DEF ExecuteAndJumpToEnd, Open, Answer
<1>3. t \in 1..Len(rows) /\ Fit(rows)
  BY <1>2, OpenFit
<1>4. Fit(done)
  BY <1>1, <1>2, <1>3, CompletedFit
<1>5. Fit(rows')
  BY <1>2, <1>4, ClearedFit
<1>6. StateOK(inst', rows')
  BY <1>2, <1>5 DEF StateOK, Fit
<1>. QED
  BY <1>2, <1>6, RequestTokens

\* A row that revives row p: same node, lineage and place.
LEMMA RevivedFits ==
  ASSUME NEW new, RowsOK(new), NEW p \in 1..Len(new), RowFits(new, p), Kind[new[p].node] = "task",
         NEW m \in 1..Len(new), p < m,
         new[m].node = new[p].node, new[m].parent = new[p].parent, new[m].scopes = new[p].scopes,
         new[m].source = new[p].source, new[m].branch = new[p].branch
  PROVE  RowFits(new, m)
<1>1. FormOK(new, m)
  BY DEF RowFits, FormOK
<1>2. RangesOK(new, m)
  BY DEF RowFits, RangesOK
<1>3. ParentOK(new, m)
  BY DEF RowFits, ParentOK
<1>4. RoundsOK(new, m)
  <2> SUFFICES ASSUME NEW s \in new[p].scopes
               PROVE  /\ s.round # 0 => s.round < m /\ new[s.round].state = "done"
                      /\ \A a \in Targets(s.fork) :
                           new[p].node \in Branch(RangeOf(s), a) => new[s.root].node \in Branch(RangeOf(s), a)
    BY DEF RoundsOK
  <2>1. new \in Seq(Row) /\ Len(new) \in Nat
    BY DEF RowsOK
  <2>2. p \in Nat /\ m \in Nat /\ new[p] \in Row
    BY <2>1
  <2>3. s \in Scope
    BY <2>2 DEF Row
  <2>4. s.round \in Nat
    BY <2>3 DEF Scope
  <2>. QED
    BY <2>2, <2>4 DEF RowFits, RoundsOK
<1>. QED
  BY <1>1, <1>2, <1>3, <1>4 DEF RowFits

\* A row in the same branches as its parent holds the same ranges.
LEMMA SameRanges ==
  ASSUME NEW rs, Fit(rs), NEW t \in 1..Len(rs), NEW p \in 1..Len(rs), rs[t].parent = p, p # 0,
         rs[t].source = 0, Kind[rs[t].node] = "task", Linked(Pos(rs, p), rs[t].node)
  PROVE  Held(rs, t) = Held(rs, p)
<1>1. RowsOK(rs) /\ Roots(rs) /\ \A k \in 1..Len(rs) : RowFits(rs, k)
  BY DEF Fit, RowsFit
<1>2. PICK n : n = rs[t].node
  OBVIOUS
<1>3. Seat(rs, t) = t /\ Pos(rs, t) = n /\ Held(rs, t) = rs[t].scopes
  BY <1>2 DEF Seat, Pos, Held
<1>4. Around(Pos(rs, p)) = Around(n)
  BY <1>2 DEF Linked, Around
<1>5. /\ Kind[rs[p].node] = "task"
      /\ \A s \in Held(rs, p) : RangeOf(s) \in Around(n) => s \in Held(rs, t)
  <2>1. ParentOK(rs, t)
    BY <1>1 DEF RowFits
  <2>. QED
    BY <1>2, <1>3, <2>1 DEF ParentOK
<1>6. /\ Single(Held(rs, t))
      /\ \A s \in Held(rs, t) : RangeOf(s) \in Around(n)
  BY <1>1, <1>2, <1>3, HeldRanges
<1>7. /\ \A s \in Held(rs, p) : RangeOf(s) \in Around(n)
      /\ \A r \in Around(n) : \E s \in Held(rs, p) : RangeOf(s) = r
  BY <1>1, <1>4, <1>5, HeldRanges
<1>8. \A s \in Held(rs, p) : s \in Held(rs, t)
  BY <1>5, <1>7
<1>9. ASSUME NEW s \in Held(rs, t)
      PROVE  s \in Held(rs, p)
  <2>1. PICK q \in Held(rs, p) : RangeOf(q) = RangeOf(s)
    BY <1>6, <1>7
  <2>2. q.join = s.join
    BY <2>1 DEF RangeOf
  <2>3. q = s
    BY <1>6, <1>8, <2>2 DEF Single
  <2>. QED
    BY <2>3
<1>. QED
  BY <1>8, <1>9

LEMMA RollbackTokens ==
  ASSUME WellNested, Disciplined, IInv, BranchInv, TokenInv, RowsOK(rows'), Roots(rows'),
         NEW t \in DOMAIN rows, RollbackToParent(t)
  PROVE  TokenInv'
<1>1. PICK p, his, done, n :
        p = rows[t].parent /\ his = rows[rows[t].parent] /\ done = Complete(rows, t) /\ n = rows[t].node
  OBVIOUS
<1>2. /\ rows[t].state = "doing" /\ rows[t].source = 0 /\ inst' = inst /\ n \in Detours /\ p # 0
      /\ Walk(<<>>, "agree") /\ CanReject(n, his.node)
      /\ rows' = Append(done, [Fresh(his.node, his.parent, his.scopes) EXCEPT
                                 !.source = his.source, !.branch = his.branch])
  BY <1>1 DEF RollbackToParent, Open, Answer
<1>3. /\ t \in 1..Len(rows) /\ t \in Nat /\ rows \in Seq(Row) /\ Fit(rows) /\ n \in Node
      /\ inst \notin {"none", "finished"}
  BY <1>1, <1>2, OpenFit
<1>4. /\ Fit(done) /\ Settles(rows, done) /\ done \in Seq(Row) /\ Len(done) = Len(rows)
      /\ t \in 1..Len(done) /\ done[t].state = "done" /\ Same(rows[t], done[t])
      /\ Kind[done[t].node] = "task"
      /\ \A i \in 1..Len(rows) : i # t => done[i] = rows[i]
      /\ \A i \in DoingIds(done) : i # t /\ i \in 1..Len(done) /\ Apart(done, t, i)
  BY <1>1, <1>2, <1>3, CompletedFit
<1>5. /\ done[t].node = n /\ done[t].source = 0 /\ done[t].parent = p /\ t # 0 /\ Kind[n] = "task"
      /\ RowsOK(done) /\ Roots(done) /\ \A i \in 1..Len(done) : RowFits(done, i)
  <2>1. done[t].node = n /\ done[t].source = 0 /\ done[t].parent = p
    BY <1>1, <1>2, <1>4 DEF Same
  <2>2. t # 0
    BY <1>3
  <2>3. Kind[n] = "task"
    BY <1>4, <2>1
  <2>4. RowsOK(done) /\ Roots(done) /\ \A i \in 1..Len(done) : RowFits(done, i)
    BY <1>4 DEF Fit, RowsFit
  <2>. QED
    BY <2>1, <2>2, <2>3, <2>4
<1>6. p \in 1..Len(done) /\ p < t /\ done[p] = his /\ his \in Row
  <2>1. p \in 1..Len(rows) /\ p < t
    <3>1. RowsOK(rows) /\ rows[t].parent # 0
      BY <1>1, <1>2, <1>3 DEF Fit
    <3>. QED
      BY <1>1, <1>3, <3>1, ParentType
  <2>2. done[p] = his /\ p \in 1..Len(done)
    BY <1>1, <1>4, <2>1
  <2>. QED
    BY <1>4, <2>1, <2>2
<1>7. PICK f : /\ f = Fresh(his.node, his.parent, his.scopes) /\ f \in Row
               /\ f.scopes = his.scopes
  BY <1>6, FreshRanges DEF Row
<1>8. f.node = his.node /\ f.parent = his.parent /\ f.state = "doing"
  BY <1>7 DEF Fresh
<1>9. PICK r : r = [f EXCEPT !.source = his.source, !.branch = his.branch]
  OBVIOUS
<1>10. /\ r \in Row /\ r.scopes = his.scopes /\ r.branch = his.branch /\ r.source = his.source
       /\ r.node = his.node /\ r.parent = his.parent /\ r.state = "doing"
  <2>1. r \in Row /\ r.scopes = his.scopes /\ r.branch = his.branch
    <3>1. his \in Row
      BY <1>6
    <3>2. f \in Row /\ f.scopes = his.scopes
      BY <1>7
    <3>. QED
      BY <1>9, <3>1, <3>2 DEF Row
  <2>2. r.source = his.source /\ r.node = f.node /\ r.parent = f.parent /\ r.state = f.state
    BY <1>7, <1>9 DEF Row
  <2>. QED
    BY <1>8, <2>1, <2>2
<1>11. rows' = Append(done, r)
  BY <1>2, <1>7, <1>9
<1>12. PICK m : m = Len(done) + 1
  OBVIOUS
<1>13. /\ Settles(done, rows') /\ m \in 1..Len(rows') /\ m > 0 /\ m \in Nat
       /\ \A i \in 1..Len(done) : i \in 1..Len(rows') /\ i < m /\ rows'[i] = done[i]
       /\ rows'[m] = r
  BY <1>5, <1>10, <1>11, <1>12, AppendSettles
<1>14. ParentOK(done, t) /\ RowFits(done, p)
  BY <1>4, <1>5, <1>6 DEF RowFits
<1>15. Kind[his.node] = "task" /\ (his.source # 0 => n = Pos(done, p))
  BY <1>2, <1>5, <1>6, <1>14 DEF ParentOK
<1>16. RowFits(rows', m)
  <2>1. RowFits(rows', p)
    BY <1>5, <1>6, <1>13, <1>14, FitKept
  <2>2. rows'[p] = his /\ p \in 1..Len(rows') /\ p < m
    BY <1>6, <1>13
  <2>. QED
    BY <1>10, <1>13, <1>15, <2>1, <2>2, RevivedFits
<1>17. Linked(Pos(done, p), n)
  <2>1. CASE his.source = 0
    <3>1. Pos(done, p) = his.node
      BY <1>6, <2>1 DEF Pos, Seat
    <3>2. his.node \in Node
      BY <1>6 DEF Row
    <3>. QED
      BY <1>2, <1>3, <1>5, <1>15, <3>1, <3>2, CanRejectLinked
  <2>2. CASE his.source # 0
    BY <1>15, <2>2, LinkedSelf
  <2>. QED
    BY <2>1, <2>2
<1>18. Held(done, t) = Held(done, p)
  BY <1>2, <1>4, <1>5, <1>6, <1>17, SameRanges
<1>19. Held(rows', m) = Held(done, p) /\ Pos(rows', m) = Pos(done, p)
  <2>1. Held(rows', p) = Held(done, p) /\ Pos(rows', p) = Pos(done, p)
    BY <1>5, <1>6, <1>13, SeatKept DEF Settles
  <2>2. rows'[p] = his
    BY <1>6, <1>13
  <2>3. Held(rows', m) = Held(rows', p) /\ Pos(rows', m) = Pos(rows', p)
    <3>1. CASE his.source = 0
      BY <1>10, <1>13, <2>2, <3>1 DEF Held, Pos, Seat
    <3>2. CASE his.source # 0
      BY <1>10, <1>13, <2>2, <3>2 DEF Held, Pos, Seat
    <3>. QED
      BY <3>1, <3>2
  <2>. QED
    BY <2>1, <2>3
<1>20. \A i \in DoingIds(done) : Apart(rows', m, i)
  <2> SUFFICES ASSUME NEW i \in DoingIds(done)
               PROVE  Parallel(rows', m, i)
    BY DEF Apart
  <2>1. i \in 1..Len(done) /\ Apart(done, t, i)
    BY <1>4
  <2>2. ~Fellows(done, t, i)
    <3>1. OneRow(n) /\ (n \in AllowAddSign => ~CanReject(n, n))
      BY <1>2, <1>3 DEF Disciplined
    <3>2. Signer(done, t) => his.node = n
      BY <1>5, <1>6 DEF Signer
    <3>. QED
      BY <1>2, <1>5, <3>1, <3>2 DEF Fellows
  <2>3. Parallel(done, t, i)
    BY <2>1, <2>2 DEF Apart
  <2>4. Held(rows', i) = Held(done, i) /\ Pos(rows', i) = Pos(done, i)
    BY <1>5, <1>13, <2>1, SeatKept DEF Settles
  <2>5. Linked(Pos(done, t), Pos(rows', m))
    <3>1. Pos(done, t) = n
      BY <1>5 DEF Pos, Seat
    <3>. QED
      BY <1>17, <1>19, <3>1 DEF Linked
  <2>6. Held(rows', m) = Held(done, t)
    BY <1>18, <1>19
  <2>. QED
    BY <2>3, <2>4, <2>5, <2>6, TakesOver
<1>21. Fit(rows')
  BY <1>4, <1>10, <1>11, <1>12, <1>16, <1>20, AppendFit
<1>22. StateOK(inst', rows')
  BY <1>2, <1>3, <1>21 DEF StateOK, Fit
<1>. QED
  BY <1>2, <1>22, RequestTokens

\* The walk starts again with one visit outside all ranges, nobody being open.
LEMMA OutsideWalk ==
  ASSUME WellNested, NEW rs, Fit(rs), rs \in Seq(Row), NEW t \in 1..Len(rs), rs[t].source = 0,
         Kind[rs[t].node] = "task", Around(rs[t].node) = {}, DoingIds(rs) = {},
         \A i \in 1..Len(rs) : \A s \in rs[i].scopes : s.round # t,
         NEW x \in Node, Around(x) = {}, Kind[x] # "join",
         NEW toks, toks = <<[node |-> x, parent |-> t]>>
  PROVE  WalkOK(rs, toks[1].parent, toks)
<1>1. rs[t].scopes = {} /\ ScopesOf(rs, t) = {}
  <2>1. RangesOK(rs, t)
    BY DEF Fit, RowsFit, RowFits
  <2>2. rs[t].scopes = {}
    BY <2>1 DEF RangesOK
  <2>. QED
    BY <2>2 DEF ScopesOf
<1>2. \A r \in Ranges : x \notin Body(r) /\ x # r.join
  BY RangeFacts DEF Around, Joins
<1>3. t # 0
  OBVIOUS
<1>. QED
  BY <1>1, <1>2, <1>3, LoneWalk

\* Somebody else is open when a row outside the ranges ends only as its fellow.
LEMMA LastOutside ==
  ASSUME NEW rs, Fit(rs), NEW t \in 1..Len(rs), rs[t].source = 0, Kind[rs[t].node] = "task",
         Around(rs[t].node) = {}, NEW k, Apart(rs, t, k)
  PROVE  Fellows(rs, t, k)
<1>1. RowsOK(rs) /\ Roots(rs) /\ \A i \in 1..Len(rs) : RowFits(rs, i)
  BY DEF Fit, RowsFit
<1>2. Pos(rs, t) = rs[t].node
  BY DEF Pos, Seat
<1>3. ~Parallel(rs, t, k)
  BY <1>1, <1>2, OutsideAlone
<1>. QED
  BY <1>3 DEF Apart

LEMMA JumpTokens ==
  ASSUME WellNested, Disciplined, IInv, BranchInv, TokenInv, RowsOK(rows'), Roots(rows'),
         NEW t \in DOMAIN rows, NEW target \in JumpTargets, ExecuteAndJumpTask(t, target)
  PROVE  TokenInv'
<1>1. PICK done, n : done = Complete(rows, t) /\ n = rows[t].node
  OBVIOUS
<1>2. /\ rows[t].state = "doing" /\ rows[t].source = 0 /\ inst' = inst /\ n \in Detours
      /\ rows' = done /\ "jump" \in Ops
      /\ Walk(<<[node |-> target, parent |-> t]>>, "agree")
  BY <1>1 DEF ExecuteAndJumpTask, Open, Serving
<1>3. /\ t \in 1..Len(rows) /\ t \in Nat /\ rows \in Seq(Row) /\ Fit(rows) /\ n \in Node
      /\ inst \notin {"none", "finished"}
  BY <1>1, <1>2, OpenFit
<1>4. /\ Fit(done) /\ Settles(rows, done) /\ done \in Seq(Row) /\ Len(done) = Len(rows)
      /\ t \in 1..Len(done) /\ done[t].state = "done" /\ Same(rows[t], done[t])
      /\ Kind[done[t].node] = "task"
      /\ \A i \in DoingIds(done) : i # t /\ i \in 1..Len(done) /\ Apart(done, t, i)
  BY <1>1, <1>2, <1>3, CompletedFit
<1>5. done[t].node = n /\ done[t].source = 0
  BY <1>1, <1>2, <1>4 DEF Same
<1>6. OneRow(n) /\ n \notin AllowAddSign /\ Around(n) = {}
  BY <1>2 DEF Disciplined
<1>7. target \in Node /\ Around(target) = {} /\ Kind[target] # "join"
  BY <1>2, EngineAssumption DEF Disciplined
<1>8. DoingIds(done) = {}
  <2> SUFFICES ASSUME NEW i \in DoingIds(done)
               PROVE  FALSE
    OBVIOUS
  <2>1. Apart(done, t, i)
    BY <1>4
  <2>2. Fellows(done, t, i)
    BY <1>4, <1>5, <1>6, <2>1, LastOutside
  <2>. QED
    BY <1>5, <1>6, <2>2 DEF Fellows
<1>9. \A i \in 1..Len(done) : \A s \in done[i].scopes : s.round # t
  <2>1. Evolves(rows, done) /\ RowsOK(done)
    BY <1>4 DEF Settles, Fit
  <2>. QED
    BY <1>2, <1>3, <1>4, <2>1, NoRoundYet
<1>10. PICK toks : toks = <<[node |-> target, parent |-> t]>>
  OBVIOUS
<1>11. WalkOK(done, toks[1].parent, toks)
  BY <1>4, <1>5, <1>6, <1>7, <1>8, <1>9, <1>10, OutsideWalk
<1>12. StateOK(inst', rows')
  BY <1>2, <1>3, <1>4 DEF StateOK, Fit
<1>. QED
  BY <1>2, <1>3, <1>10, <1>11, <1>12, RequestTokens

LEMMA ReturnTokens ==
  ASSUME WellNested, Disciplined, IInv, BranchInv, TokenInv, RowsOK(rows'), Roots(rows'),
         NEW t \in DOMAIN rows, ExecuteAndJumpToFirstTaskNode(t)
  PROVE  TokenInv'
<1>1. PICK n, done, cleared, first :
        /\ n = rows[t].node /\ done = Complete(rows, t)
        /\ cleared = ClearAddSign(done, n) /\ first = FirstOf({"task"})[1]
  OBVIOUS
<1>2. rows[t].state = "doing" /\ rows[t].source = 0 /\ inst' = inst /\ n \in Detours
  BY <1>1 DEF ExecuteAndJumpToFirstTaskNode, Open
<1>3. /\ t \in 1..Len(rows) /\ t \in Nat /\ rows \in Seq(Row) /\ Fit(rows) /\ n \in Node
      /\ inst \notin {"none", "finished"} /\ rows[t].scopes \in SUBSET Scope
  BY <1>1, <1>2, OpenFit
<1>4. /\ Fit(done) /\ Settles(rows, done) /\ done \in Seq(Row) /\ Len(done) = Len(rows)
      /\ t \in 1..Len(done) /\ done[t].state = "done" /\ Same(rows[t], done[t])
      /\ Kind[done[t].node] = "task"
      /\ \A i \in DoingIds(done) : i # t /\ i \in 1..Len(done) /\ Apart(done, t, i)
  BY <1>1, <1>2, <1>3, CompletedFit
<1>5. /\ Fit(cleared) /\ Settles(done, cleared) /\ cleared \in Seq(Row) /\ Len(cleared) = Len(done)
      /\ DoingIds(cleared) \subseteq DoingIds(done)
      /\ \A k \in DoingIds(cleared) : n \in AllowAddSign => cleared[k].node # n
  BY <1>1, <1>4, ClearedFit
<1>6. /\ cleared[t].node = n /\ cleared[t].source = 0 /\ cleared[t].scopes = rows[t].scopes
      /\ Kind[n] = "task" /\ t \in 1..Len(cleared) /\ t # 0 /\ RowsOK(cleared) /\ RowsOK(done)
  <2>1. done[t].node = n /\ done[t].source = 0 /\ done[t].scopes = rows[t].scopes
    BY <1>1, <1>2, <1>4 DEF Same
  <2>2. Same(done[t], cleared[t])
    BY <1>4, <1>5 DEF Settles, Evolves
  <2>3. cleared[t].node = n /\ cleared[t].source = 0 /\ cleared[t].scopes = rows[t].scopes
    BY <2>1, <2>2 DEF Same
  <2>4. t \in 1..Len(cleared) /\ t # 0 /\ Kind[n] = "task"
    BY <1>3, <1>4, <1>5, <2>1
  <2>5. RowsOK(cleared) /\ RowsOK(done)
    BY <1>4, <1>5 DEF Fit
  <2>. QED
    BY <2>3, <2>4, <2>5
<1>7. \A k \in DoingIds(cleared) : k \in 1..Len(cleared) /\ Parallel(cleared, t, k)
  <2> SUFFICES ASSUME NEW k \in DoingIds(cleared)
               PROVE  k \in 1..Len(cleared) /\ Parallel(cleared, t, k)
    OBVIOUS
  <2>1. k \in DoingIds(done) /\ k \in 1..Len(done) /\ Apart(done, t, k)
    BY <1>4, <1>5
  <2>2. Evolves(done, cleared) /\ k \in 1..Len(cleared)
    BY <1>5, <2>1 DEF Settles
  <2>3. Apart(cleared, t, k)
    BY <1>4, <1>6, <2>1, <2>2, ApartKept DEF Apart
  <2>4. ~Fellows(cleared, t, k)
    <3>1. OneRow(n)
      BY <1>2 DEF Disciplined
    <3>. QED
      BY <1>5, <1>6, <3>1 DEF Fellows
  <2>. QED
    BY <2>2, <2>3, <2>4 DEF Apart
<1>8. \/ /\ Returnable(n)
         /\ rows' = Append(cleared, [Fresh(first, t, {}) EXCEPT !.source = t, !.branch = rows[t].scopes])
         /\ Walk(<<>>, "agree")
      \/ rows' = rows /\ Walk(<<>>, "agree")
      \/ rows' = cleared /\ Walk(<<>>, "agree")
      \/ /\ n \notin ReturnToSource
         /\ rows' = cleared
         /\ Walk(Visits(FirstOf({"task", "custom"}), t), "agree")
  BY <1>1 DEF ExecuteAndJumpToFirstTaskNode, Answer
<1>9. CASE /\ Returnable(n)
           /\ rows' = Append(cleared, [Fresh(first, t, {}) EXCEPT !.source = t, !.branch = rows[t].scopes])
           /\ Walk(<<>>, "agree")
  <2>1. first \in FirstNodes /\ first \in Node /\ Kind[first] = "task"
    <3>1. PICK x \in FirstNodes : x \in Node /\ Kind[x] \in {"task"} /\ FirstOf({"task"}) = <<x>>
      BY <1>9, FirstOfNode DEF Returnable
    <3>. QED
      BY <1>1, <3>1
  <2>2. PICK f : f = Fresh(first, t, {}) /\ f \in Row /\ f.scopes = {}
    BY <1>3, <2>1, FreshRanges
  <2>3. f.node = first /\ f.parent = t /\ f.state = "doing"
    BY <2>2 DEF Fresh
  <2>4. PICK sc : sc = rows[t].scopes /\ sc \in SUBSET Scope
    BY <1>3
  <2>5. PICK r : r = [f EXCEPT !.source = t, !.branch = sc]
    OBVIOUS
  <2>6. /\ r \in Row /\ r.scopes = {} /\ r.branch = sc /\ r.source = t
        /\ r.node = first /\ r.parent = t /\ r.state = "doing"
    <3>1. r \in Row /\ r.scopes = {} /\ r.branch = sc
      BY <1>3, <2>2, <2>4, <2>5 DEF Row
    <3>2. r.source = t /\ r.node = f.node /\ r.parent = f.parent /\ r.state = f.state
      BY <2>2, <2>5 DEF Row
    <3>. QED
      BY <2>3, <3>1, <3>2
  <2>7. rows' = Append(cleared, r)
    BY <1>9, <2>2, <2>4, <2>5
  <2>8. PICK m : m = Len(cleared) + 1
    OBVIOUS
  <2>9. /\ Settles(cleared, rows') /\ m \in 1..Len(rows') /\ m > 0 /\ m \in Nat
        /\ \A i \in 1..Len(cleared) : i \in 1..Len(rows') /\ i < m /\ rows'[i] = cleared[i]
        /\ rows'[m] = r
    BY <1>6, <2>6, <2>7, <2>8, AppendSettles
  <2>10. /\ rows'[t].node = n /\ rows'[t].source = 0 /\ rows'[t].scopes = sc
    BY <1>6, <2>4, <2>9
  <2>11. RowFits(rows', m)
    <3>1. FormOK(rows', m)
      BY <1>6, <2>1, <2>6, <2>9, <2>10 DEF FormOK
    <3>2. RangesOK(rows', m) /\ RoundsOK(rows', m)
      BY <1>6, <2>6, <2>9 DEF RangesOK, RoundsOK
    <3>3. ParentOK(rows', m)
      BY <1>6, <2>6, <2>9, <2>10 DEF ParentOK
    <3>. QED
      BY <3>1, <3>2, <3>3 DEF RowFits
  <2>12. \A i \in DoingIds(cleared) : Apart(rows', m, i)
    <3> SUFFICES ASSUME NEW i \in DoingIds(cleared)
                 PROVE  Parallel(rows', m, i)
      BY DEF Apart
    <3>1. i \in 1..Len(cleared) /\ Parallel(cleared, t, i)
      BY <1>7
    <3>2. Held(rows', i) = Held(cleared, i) /\ Pos(rows', i) = Pos(cleared, i)
      BY <1>6, <2>9, <3>1, SeatKept DEF Settles
    <3>3. Held(cleared, t) = sc /\ Pos(cleared, t) = n
      BY <1>6, <2>4 DEF Held, Pos, Seat
    <3>4. Held(rows', m) = sc /\ Pos(rows', m) = n
      BY <1>6, <2>6, <2>9, <2>10 DEF Held, Pos, Seat
    <3>5. Linked(Pos(cleared, t), Pos(rows', m))
      BY <3>3, <3>4, LinkedSelf
    <3>. QED
      BY <3>1, <3>2, <3>3, <3>4, <3>5, TakesOver
  <2>13. Fit(rows')
    BY <1>5, <2>6, <2>7, <2>8, <2>11, <2>12, AppendFit
  <2>14. StateOK(inst', rows')
    BY <1>2, <1>3, <2>13 DEF StateOK, Fit
  <2>. QED
    BY <1>9, <2>14, RequestTokens
<1>10. CASE (rows' = rows \/ rows' = cleared) /\ Walk(<<>>, "agree")
  <2>1. StateOK(inst', rows')
    BY <1>2, <1>3, <1>5, <1>10 DEF StateOK, Fit
  <2>. QED
    BY <1>10, <2>1, RequestTokens
<1>11. CASE /\ n \notin ReturnToSource
            /\ rows' = cleared
            /\ Walk(Visits(FirstOf({"task", "custom"}), t), "agree")
  <2>1. Around(n) = {}
    BY <1>2, <1>11 DEF Disciplined
  <2>2. DoingIds(cleared) = {}
    <3> SUFFICES ASSUME NEW k \in DoingIds(cleared)
                 PROVE  FALSE
      OBVIOUS
    <3>1. Parallel(cleared, t, k)
      BY <1>7
    <3>2. Pos(cleared, t) = n
      BY <1>6 DEF Pos, Seat
    <3>. QED
      BY <1>5, <1>6, <2>1, <3>1, <3>2, OutsideAlone DEF Fit, RowsFit
  <2>3. \A i \in 1..Len(cleared) : \A s \in cleared[i].scopes : s.round # t
    <3>1. Evolves(rows, cleared) /\ Len(cleared) = Len(rows)
      BY <1>3, <1>4, <1>5, EvolvesTrans DEF Settles
    <3>. QED
      BY <1>2, <1>3, <1>6, <3>1, NoRoundYet
  <2>4. PICK toks, ns : toks = Visits(ns, t) /\ ns = FirstOf({"task", "custom"})
    OBVIOUS
  <2>5. ASSUME toks # <<>>
        PROVE  WalkOK(cleared, toks[1].parent, toks)
    <3>1. ns # <<>>
      BY <2>4, <2>5 DEF Visits
    <3>2. PICK x \in FirstNodes : x \in Node /\ ns = <<x>>
      BY <2>4, <3>1, FirstOfNode
    <3>3. toks = <<[node |-> x, parent |-> t]>>
      BY <2>4, <3>2 DEF Visits
    <3>4. Around(x) = {} /\ Kind[x] # "join"
      BY <3>2 DEF WellNested
    <3>. QED
      BY <1>5, <1>6, <2>1, <2>2, <2>3, <3>2, <3>3, <3>4, OutsideWalk
  <2>6. StateOK(inst', rows')
    BY <1>2, <1>3, <1>5, <1>11 DEF StateOK, Fit
  <2>. QED
    BY <1>2, <1>3, <1>11, <2>4, <2>5, <2>6, RequestTokens
<1>. QED
  BY <1>8, <1>9, <1>10, <1>11

LEMMA ReapplyTokens ==
  ASSUME WellNested, IInv, BranchInv, TokenInv, RowsOK(rows'), Roots(rows'),
         NEW t \in DOMAIN rows, ExecuteReapply(t)
  PROVE  TokenInv'
<1>1. PICK done, c, br : done = Complete(rows, t) /\ c = rows[t].source /\ br = rows[t].branch
  OBVIOUS
<1>2. /\ rows[t].state = "doing" /\ Walk(<<>>, "agree") /\ c # 0 /\ inst' = inst
      /\ rows' = Append(done, Fresh(rows[c].node, t, br))
  BY <1>1 DEF ExecuteReapply, Answer
<1>3. /\ t \in 1..Len(rows) /\ t \in Nat /\ rows \in Seq(Row) /\ Fit(rows)
      /\ inst \notin {"none", "finished"} /\ RowFits(rows, t)
  BY <1>1, <1>2, OpenFit
<1>4. /\ Fit(done) /\ Settles(rows, done) /\ done \in Seq(Row) /\ Len(done) = Len(rows)
      /\ t \in 1..Len(done) /\ done[t].state = "done" /\ Same(rows[t], done[t])
      /\ Kind[done[t].node] = "task"
      /\ \A i \in 1..Len(rows) : i # t => done[i] = rows[i]
      /\ \A i \in DoingIds(done) : i # t /\ i \in 1..Len(done) /\ Apart(done, t, i)
  BY <1>1, <1>2, <1>3, CompletedFit
<1>5. /\ done[t].source = c /\ done[t].branch = br /\ t # 0
      /\ RowsOK(done) /\ Roots(done) /\ \A i \in 1..Len(done) : RowFits(done, i)
  BY <1>1, <1>2, <1>3, <1>4 DEF Same, Fit, RowsFit
<1>6. c \in 1..Len(done) /\ c < t /\ done[c] \in Row /\ done[c].node = rows[c].node
  <2>1. c = Seat(done, t)
    BY <1>2, <1>5 DEF Seat
  <2>2. c \in 1..Len(done) /\ done[c] \in Row
    BY <1>4, <1>5, <2>1, SeatType
  <2>3. c < t
    BY <1>4, <1>5 DEF RowsOK, Lineage
  <2>4. done[c] = rows[c]
    BY <1>4, <2>2, <2>3
  <2>. QED
    BY <2>2, <2>3, <2>4
<1>7. done[c].source = 0 /\ Kind[done[c].node] = "task" /\ done[c].scopes = br
  <2>1. FormOK(done, t)
    BY <1>4, <1>5 DEF RowFits
  <2>. QED
    BY <1>2, <1>5, <2>1 DEF FormOK
<1>8. PICK x : x = done[c].node /\ x \in Node
  BY <1>6 DEF Row
<1>9. br \in SUBSET Scope
  BY <1>6, <1>7 DEF Row
<1>10. PICK r : r = Fresh(x, t, br) /\ r \in Row /\ r.scopes = br /\ r.branch = {}
  BY <1>3, <1>8, <1>9, FreshRanges
<1>11. r.node = x /\ r.parent = t /\ r.source = 0 /\ r.state = "doing"
  BY <1>10 DEF Fresh
<1>12. rows' = Append(done, r)
  BY <1>2, <1>6, <1>8, <1>10
<1>13. PICK m : m = Len(done) + 1
  OBVIOUS
<1>14. /\ Settles(done, rows') /\ m \in 1..Len(rows') /\ m > 0 /\ m \in Nat
       /\ \A i \in 1..Len(done) : i \in 1..Len(rows') /\ i < m /\ rows'[i] = done[i]
       /\ rows'[m] = r
  BY <1>5, <1>10, <1>12, <1>13, AppendSettles
<1>15. /\ rows'[t] = done[t] /\ rows'[c] = done[c] /\ c < m /\ c \in 1..Len(rows') /\ c \in Nat
  BY <1>4, <1>6, <1>14
<1>16. Seat(rows', t) = c /\ Held(rows', t) = br /\ Pos(rows', t) = x
  BY <1>2, <1>5, <1>7, <1>8, <1>15 DEF Seat, Held, Pos
<1>17. RowFits(rows', m)
  <2>1. RowFits(rows', c)
    BY <1>5, <1>6, <1>14, FitKept
  <2>2. FormOK(rows', m)
    BY <1>7, <1>8, <1>10, <1>11, <1>14 DEF FormOK
  <2>3. RangesOK(rows', m)
    BY <1>7, <1>8, <1>10, <1>11, <1>14, <1>15, <2>1 DEF RowFits, RangesOK
  <2>4. ParentOK(rows', m)
    BY <1>4, <1>10, <1>11, <1>14, <1>15, <1>16 DEF ParentOK
  <2>5. RoundsOK(rows', m)
    <3> SUFFICES ASSUME NEW s \in br
                 PROVE  /\ s.round # 0 => s.round < m /\ rows'[s.round].state = "done"
                        /\ \A a \in Targets(s.fork) :
                             x \in Branch(RangeOf(s), a) => rows'[s.root].node \in Branch(RangeOf(s), a)
      BY <1>10, <1>11, <1>14 DEF RoundsOK
    <3>1. s.round \in Nat
      BY <1>9 DEF Scope
    <3>. QED
      BY <1>7, <1>8, <1>14, <1>15, <2>1, <3>1 DEF RowFits, RoundsOK
  <2>. QED
    BY <2>2, <2>3, <2>4, <2>5 DEF RowFits
<1>18. \A i \in DoingIds(done) : Apart(rows', m, i)
  <2> SUFFICES ASSUME NEW i \in DoingIds(done)
               PROVE  Parallel(rows', m, i)
    BY DEF Apart
  <2>1. i \in 1..Len(done) /\ Apart(done, t, i)
    BY <1>4
  <2>2. Parallel(done, t, i)
    BY <1>2, <1>5, <2>1 DEF Apart, Fellows
  <2>3. Held(rows', i) = Held(done, i) /\ Pos(rows', i) = Pos(done, i)
    BY <1>5, <1>14, <2>1, SeatKept DEF Settles
  <2>4. Held(done, t) = br /\ Pos(done, t) = x
    BY <1>2, <1>5, <1>7, <1>8 DEF Held, Pos, Seat
  <2>5. Held(rows', m) = br /\ Pos(rows', m) = x
    BY <1>10, <1>11, <1>14 DEF Held, Pos, Seat
  <2>6. Linked(Pos(done, t), Pos(rows', m))
    BY <2>4, <2>5, LinkedSelf
  <2>. QED
    BY <2>2, <2>3, <2>4, <2>5, <2>6, TakesOver
<1>19. Fit(rows')
  BY <1>4, <1>10, <1>11, <1>12, <1>13, <1>17, <1>18, AppendFit
<1>20. StateOK(inst', rows')
  BY <1>2, <1>3, <1>19 DEF StateOK, Fit
<1>. QED
  BY <1>2, <1>20, RequestTokens

-----------------------------------------------------------------------------
(* The walk.                                                               *)

LEMMA StepTokens ==
  ASSUME TokenInv, StateOK(inst', rows'), NEW toks, Continue(toks),
         toks # <<>> => inst' \notin {"none", "finished"} /\ WalkOK(rows', toks[1].parent, toks)
  PROVE  TokenInv'
<1>1. saved' = <<>> \/ saved' = saved
  BY DEF Continue
<1>2. todo' = toks
  BY DEF Continue
<1>3. saved' # <<>> => StateOK(saved'[1].inst, saved'[1].rows)
  BY <1>1 DEF TokenInv
<1>. QED
  BY <1>2, <1>3 DEF TokenInv

\* The visit that is due, the row that walks, and where it comes from.
LEMMA WalkFacts ==
  ASSUME IInv, BranchInv, TokenInv, todo # <<>>
  PROVE  /\ Here \in Node /\ By \in Nat /\ rows \in Seq(Row) /\ Fit(rows) /\ Succ[Here] \in Seq(Node)
         /\ inst \notin {"none", "finished"} /\ WalkOK(rows, By, todo)
         /\ 1 \in 1..Len(todo) /\ todo[1].node = Here /\ todo[1].parent = By
         /\ todo \in Seq(Token) /\ Tail(todo) \in Seq(Token) /\ Len(Tail(todo)) = Len(todo) - 1
         /\ Len(todo) \in Nat
         /\ \A i \in 1..Len(Tail(todo)) : i + 1 \in 1..Len(todo) /\ Tail(todo)[i] = todo[i+1]
         /\ By # 0 => By \in 1..Len(rows) /\ rows[By].state = "done"
<1>1. /\ Here \in Node /\ By \in Nat /\ rows \in Seq(Row) /\ Succ[Here] \in Seq(Node)
      /\ By <= Len(rows) /\ Sound(rows, By)
  BY HeadFacts
<1>2. todo \in Seq(Token)
  BY DEF IInv, TypeOK
<1>3. Head(todo) = todo[1] /\ 1 \in 1..Len(todo) /\ Len(todo) \in Nat
  BY <1>2
<1>4. todo[1].node = Here /\ todo[1].parent = By
  BY <1>3 DEF Here, By
<1>5. /\ Tail(todo) \in Seq(Token) /\ Len(Tail(todo)) = Len(todo) - 1
      /\ \A i \in 1..Len(Tail(todo)) : i + 1 \in 1..Len(todo) /\ Tail(todo)[i] = todo[i+1]
  BY <1>2
<1>6. Fit(rows)
  BY DEF Fit, IInv, BranchInv, TokenInv, StateOK
<1>7. inst \notin {"none", "finished"} /\ WalkOK(rows, By, todo)
  BY <1>4 DEF TokenInv
<1>8. By # 0 => By \in 1..Len(rows) /\ rows[By].state = "done"
  BY <1>1 DEF Sound
<1>. QED
  BY <1>1, <1>2, <1>3, <1>4, <1>5, <1>6, <1>7, <1>8

\* A visit of a node that is neither task nor fork is alone, in ranges its row
\* brought along.
LEMMA AloneVisit ==
  ASSUME NEW rs, NEW w, NEW toks, WalkOK(rs, w, toks), 1 \in 1..Len(toks),
         Kind[toks[1].node] \notin {"task", "fork"}
  PROVE  /\ Len(toks) = 1
         /\ \A r \in Ranges : toks[1].node \in Body(r) \/ toks[1].node = r.join => r \in OwnRanges(rs, w)
         /\ \A k \in DoingIds(rs) : w # 0 /\ Parallel(rs, w, k)
<1>1. /\ Len(toks) = 1
      /\ \A r \in Ranges : toks[1].node \in Body(r) \/ toks[1].node = r.join => r \in OwnRanges(rs, w)
  BY DEF WalkOK
<1>2. \A k \in DoingIds(rs) : w # 0 /\ Parallel(rs, w, k)
  <2> SUFFICES ASSUME NEW k \in DoingIds(rs)
               PROVE  w # 0 /\ Parallel(rs, w, k)
    OBVIOUS
  <2>1. VisitApart(rs, w, toks[1].node, k)
    BY DEF WalkOK
  <2>2. ~Opened(rs, w, toks[1].node, k)
    BY <1>1 DEF Opened, Split
  <2>. QED
    BY <2>1, <2>2 DEF VisitApart
<1>. QED
  BY <1>1, <1>2

\* The visit at x goes on to y.
LEMMA GoesOn ==
  ASSUME WellNested, NEW rs, NEW w, NEW x \in Node, NEW y \in Targets(x), Kind[x] # "fork",
         NEW s, RangeOf(s) \in Ranges,
         NEW toks, 1 \in 1..Len(toks), toks[1].node = x, OnItsWay(rs, w, toks, s),
         s.join = x => \A k \in DoingIds(rs) : ~Serves(rs[k], s),
         NEW more, Len(more) = 1, more[1].node = y
  PROVE  OnItsWay(rs, w, more, s)
<1>1. PICK r \in Ranges : r = RangeOf(s) /\ r.join = s.join
  BY DEF RangeOf
<1>2. \A i \in 1..Len(more) : more[i].node = y
  OBVIOUS
<1>3. CASE x = s.join
  <2>1. y \in Ahead(s.join, s.join)
    BY <1>1, <1>3, BeyondFacts
  <2>. QED
    BY <1>2, <1>3, <2>1 DEF OnItsWay
<1>4. CASE SameBranch(r, rs[w].node, x)
  <2>1. x \in Body(r)
    BY <1>4 DEF SameBranch
  <2>2. CASE y = r.join
    BY <1>1, <1>2, <2>2 DEF OnItsWay
  <2>3. CASE y # r.join
    <3>1. y \in Body(r) /\ \A a \in Targets(r.fork) : x \in Branch(r, a) <=> y \in Branch(r, a)
      BY <2>1, <2>3, SameBranchStep
    <3>2. SameBranch(r, rs[w].node, y)
      BY <1>4, <3>1 DEF SameBranch
    <3>. QED
      BY <1>1, <1>2, <3>2 DEF OnItsWay
  <2>. QED
    BY <2>2, <2>3
<1>5. CASE x \in Ahead(s.join, s.join) /\ \A k \in DoingIds(rs) : ~Serves(rs[k], s)
  <2>1. y \in Ahead(s.join, s.join)
    BY <1>1, <1>5, BeyondFacts
  <2>. QED
    BY <1>2, <1>5, <2>1 DEF OnItsWay
<1>. QED
  BY <1>1, <1>3, <1>4, <1>5 DEF OnItsWay

\* A lone visit that is neither task nor fork goes on to the next node; behind a
\* join nobody of its round is left.
LEMMA StepOn ==
  ASSUME WellNested, NEW rs, NEW w \in Nat, NEW toks, WalkOK(rs, w, toks), 1 \in 1..Len(toks),
         toks[1].node \in Node, Kind[toks[1].node] \notin {"task", "fork"},
         \A s \in ScopesOf(rs, w) : RangeOf(s) \in Ranges,
         \A s \in ScopesOf(rs, w) : s.join = toks[1].node => \A k \in DoingIds(rs) : ~Serves(rs[k], s),
         NEW y \in Targets(toks[1].node), NEW more, more = <<[node |-> y, parent |-> w]>>
  PROVE  WalkOK(rs, w, more)
<1>1. PICK x \in Node : x = toks[1].node
  OBVIOUS
<1>2. /\ Len(toks) = 1
      /\ \A r \in Ranges : x \in Body(r) \/ x = r.join => r \in OwnRanges(rs, w)
      /\ \A k \in DoingIds(rs) : w # 0 /\ Parallel(rs, w, k)
  BY <1>1, AloneVisit
<1>3. Len(more) = 1 /\ more[1].node = y /\ \A i \in 1..Len(more) : i = 1 /\ more[i].node = y /\ more[i].parent = w
  OBVIOUS
<1>4. \A s \in ScopesOf(rs, w) : OnItsWay(rs, w, more, s)
  <2> SUFFICES ASSUME NEW s \in ScopesOf(rs, w)
               PROVE  OnItsWay(rs, w, more, s)
    OBVIOUS
  <2>1. OnItsWay(rs, w, toks, s)
    BY DEF WalkOK
  <2>2. s.join = x => \A k \in DoingIds(rs) : ~Serves(rs[k], s)
    BY <1>1
  <2>3. RangeOf(s) \in Ranges
    OBVIOUS
  <2>. QED
    BY <1>1, <1>3, <2>1, <2>2, <2>3, GoesOn
<1>5. \A r \in Ranges : y \in Body(r) \/ y = r.join => r \in OwnRanges(rs, w)
  <2> SUFFICES ASSUME NEW r \in Ranges, y \in Body(r) \/ y = r.join
               PROVE  x \in Body(r)
    BY <1>2
  <2>1. x # r.fork
    BY <1>1, RangeFacts DEF Forks
  <2>. QED
    BY <1>1, <2>1, BodyEntry
<1>6. \A i \in 1..Len(more) : \A k \in DoingIds(rs) : VisitApart(rs, w, more[i].node, k)
  BY <1>2 DEF VisitApart
<1>7. Walks(rs, w) /\ \A i \in 1..Len(rs) : \A s \in rs[i].scopes :
        s.round = w /\ RangeOf(s) \notin OwnRanges(rs, w) => rs[i].state = "doing"
  BY DEF WalkOK
<1>. QED
  BY <1>3, <1>4, <1>5, <1>6, <1>7 DEF WalkOK

\* The ranges of the row that walks.
LEMMA WalkerRanges ==
  ASSUME NEW rs, Fit(rs), NEW w \in Nat, Walks(rs, w)
  PROVE  /\ \A s \in ScopesOf(rs, w) : RangeOf(s) \in Ranges
         /\ w # 0 => Held(rs, w) = ScopesOf(rs, w) /\ Pos(rs, w) = rs[w].node
         /\ OwnRanges(rs, w) \subseteq Ranges
<1>1. rs \in Seq(Row) /\ DOMAIN rs = 1..Len(rs)
  BY DEF Fit, RowsOK
<1>2. CASE w = 0
  <2>1. ScopesOf(rs, w) = {}
    BY <1>1, <1>2 DEF ScopesOf
  <2>. QED
    BY <1>2, <2>1 DEF OwnRanges
<1>3. CASE w # 0
  <2>1. w \in 1..Len(rs) /\ rs[w].source = 0 /\ Kind[rs[w].node] = "task"
    BY <1>3 DEF Walks
  <2>2. ScopesOf(rs, w) = rs[w].scopes
    BY <1>1, <2>1 DEF ScopesOf
  <2>3. Held(rs, w) = rs[w].scopes /\ Pos(rs, w) = rs[w].node
    BY <2>1 DEF Held, Pos, Seat
  <2>4. \A s \in rs[w].scopes : RangeOf(s) \in Around(rs[w].node)
    BY <2>1 DEF Fit, RowsFit, RowFits, RangesOK
  <2>. QED
    BY <2>2, <2>3, <2>4 DEF Around, OwnRanges
<1>. QED
  BY <1>2, <1>3

\* Row m is one of those the visit to task x by row w makes.
Newcomer(old, new, w, x, m) ==
  /\ new[m].node = x /\ new[m].parent = w /\ new[m].source = 0 /\ new[m].branch = {}
  /\ \A s \in new[m].scopes :
       /\ RangeOf(s) \in Around(x)
       /\ \/ s \in ScopesOf(old, w)
          \/ RangeOf(s) \notin OwnRanges(old, w) /\ s.round = w /\ s.root = m
  /\ \A s \in ScopesOf(old, w) : RangeOf(s) \in Around(x) => s \in new[m].scopes
  /\ \A r \in Around(x) : \E s \in new[m].scopes : RangeOf(s) = r

\* What a walking row has stays as it is.
LEMMA WalkerKept ==
  ASSUME NEW old, NEW new, RowsOK(old), RowsOK(new), Evolves(old, new), NEW w \in Nat, Walks(old, w)
  PROVE  ScopesOf(new, w) = ScopesOf(old, w) /\ OwnRanges(new, w) = OwnRanges(old, w) /\ Walks(new, w)
<1>1. DOMAIN old = 1..Len(old) /\ DOMAIN new = 1..Len(new) /\ Len(old) \in Nat /\ Len(new) \in Nat
      /\ Len(old) <= Len(new)
  BY DEF RowsOK, Evolves
<1>2. CASE w = 0
  <2>1. ScopesOf(new, w) = {} /\ ScopesOf(old, w) = {}
    BY <1>1, <1>2 DEF ScopesOf
  <2>. QED
    BY <1>2, <2>1 DEF OwnRanges, Walks
<1>3. CASE w # 0
  <2>1. w \in 1..Len(old) /\ w \in 1..Len(new)
    BY <1>1, <1>3 DEF Walks
  <2>2. Same(old[w], new[w])
    BY <2>1 DEF Evolves
  <2>3. ScopesOf(new, w) = ScopesOf(old, w)
    BY <1>1, <2>1, <2>2 DEF ScopesOf, Same
  <2>. QED
    BY <2>1, <2>2, <2>3 DEF OwnRanges, Walks, Same
<1>. QED
  BY <1>2, <1>3

\* A range the row brought along and the task is in: they are in the same branch.
LEMMA BroughtAlong ==
  ASSUME WellNested, NEW rs, NEW w, NEW toks, WalkOK(rs, w, toks), 1 \in 1..Len(toks),
         NEW s \in ScopesOf(rs, w), RangeOf(s) \in Ranges,
         toks[1].node \in Body(RangeOf(s))
  PROVE  SameBranch(RangeOf(s), rs[w].node, toks[1].node)
<1>1. PICK r \in Ranges : r = RangeOf(s) /\ r.join = s.join
  BY DEF RangeOf
<1>2. toks[1].node # s.join
  BY <1>1, RangeFacts
<1>3. toks[1].node \notin Ahead(s.join, s.join)
  BY <1>1, BeyondFacts
<1>4. OnItsWay(rs, w, toks, s)
  BY DEF WalkOK
<1>. QED
  BY <1>1, <1>2, <1>3, <1>4 DEF OnItsWay

LEMMA NewcomerFits ==
  ASSUME WellNested, NEW old, Fit(old), NEW new, RowsOK(new), Evolves(old, new),
         NEW w \in Nat, NEW toks, WalkOK(old, w, toks), 1 \in 1..Len(toks),
         NEW x \in Node, x = toks[1].node, Kind[x] = "task", w # 0 => old[w].state = "done",
         NEW m \in Len(old)+1..Len(new), Newcomer(old, new, w, x, m)
  PROVE  RowFits(new, m)
<1>1. RowsOK(old) /\ Roots(old) /\ Walks(old, w) /\ Len(old) \in Nat /\ m \in Nat
  BY DEF Fit, WalkOK, RowsOK
<1>2. w < m /\ (w # 0 => w \in 1..Len(old))
  BY <1>1 DEF Walks
<1>3. FormOK(new, m) /\ RangesOK(new, m)
  BY DEF Newcomer, FormOK, RangesOK
<1>4. w # 0 => /\ new[w].node = old[w].node /\ new[w].source = 0 /\ Kind[new[w].node] = "task"
               /\ new[w].scopes = old[w].scopes /\ new[w].state = "done"
               /\ ScopesOf(old, w) = old[w].scopes
  BY <1>1, <1>2 DEF Walks, Evolves, Same, ScopesOf, RowsOK
<1>5. ParentOK(new, m)
  <2>1. CASE w = 0
    BY <2>1 DEF ParentOK, Newcomer
  <2>2. CASE w # 0
    <3>1. Held(new, w) = ScopesOf(old, w)
      BY <1>4, <2>2 DEF Held, Seat
    <3>. QED
      BY <1>4, <2>2, <3>1 DEF ParentOK, Newcomer
  <2>. QED
    BY <2>1, <2>2
<1>6. RoundsOK(new, m)
  <2> SUFFICES ASSUME NEW s \in new[m].scopes
               PROVE  /\ s.round # 0 => s.round < m /\ new[s.round].state = "done"
                      /\ \A a \in Targets(s.fork) :
                           x \in Branch(RangeOf(s), a) => new[s.root].node \in Branch(RangeOf(s), a)
    BY DEF RoundsOK, Newcomer
  <2>1. CASE s \in ScopesOf(old, w)
    <3>1. w # 0
      <4>1. CASE w = 0
        BY <1>1, <2>1, <4>1 DEF ScopesOf, RowsOK
      <4>. QED
        BY <4>1
    <3>2. s \in old[w].scopes /\ w \in 1..Len(old)
      BY <1>2, <1>4, <2>1, <3>1
    <3>3. old[w] \in Row
      BY <1>1, <3>2 DEF RowsOK
    <3>4. s.round \in Nat /\ s.root \in 1..Len(old)
      BY <1>1, <3>2, <3>3 DEF Row, Scope, Roots, Rooted
    <3>5. RoundsOK(old, w)
      BY <3>2 DEF Fit, RowsFit, RowFits
    <3>6. s.round # 0 => s.round < w /\ old[s.round].state = "done" /\ s.round \in 1..Len(old)
      BY <3>2, <3>4, <3>5 DEF RoundsOK
    <3>7. s.round # 0 => s.round < m /\ new[s.round].state = "done"
      <4> SUFFICES ASSUME s.round # 0
                   PROVE  s.round < m /\ new[s.round].state = "done"
        OBVIOUS
      <4>1. s.round < w /\ old[s.round].state = "done" /\ s.round \in 1..Len(old)
        BY <3>6
      <4>2. w < m /\ w \in Nat /\ m \in Nat /\ s.round \in Nat
        BY <1>1, <1>2, <3>4
      <4>3. new[s.round].state = "done"
        BY <4>1 DEF Evolves
      <4>. QED
        BY <4>1, <4>2, <4>3
    <3>8. RangeOf(s) \in Around(x)
      BY DEF Newcomer
    <3>9. SameBranch(RangeOf(s), old[w].node, x)
      BY <2>1, <3>8, BroughtAlong DEF Around
    <3>10. \A a \in Targets(RangeOf(s).fork) : x \in Branch(RangeOf(s), a) => old[w].node \in Branch(RangeOf(s), a)
      BY <3>9 DEF SameBranch
    <3>11. RangeOf(s).fork = s.fork
      BY DEF RangeOf
    <3>12. new[s.root].node = old[s.root].node
      BY <3>4 DEF Evolves, Same
    <3>. QED
      BY <3>2, <3>5, <3>7, <3>10, <3>11, <3>12 DEF RoundsOK
  <2>2. CASE s.round = w /\ s.root = m
    BY <1>2, <1>4, <2>2 DEF Newcomer
  <2>. QED
    BY <2>1, <2>2 DEF Newcomer
<1>. QED
  BY <1>3, <1>5, <1>6 DEF RowFits

\* The new row works beside everybody who was open.
LEMMA NewcomerApart ==
  ASSUME WellNested, NEW old, Fit(old), NEW new, RowsOK(new), Evolves(old, new),
         NEW w \in Nat, NEW toks, WalkOK(old, w, toks), 1 \in 1..Len(toks),
         NEW x \in Node, x = toks[1].node, Kind[x] = "task",
         NEW m \in Len(old)+1..Len(new), Newcomer(old, new, w, x, m),
         NEW k \in DoingIds(old)
  PROVE  Parallel(new, m, k)
<1>1. RowsOK(old) /\ Walks(old, w) /\ k \in 1..Len(old) /\ FormOK(old, k)
  BY DEF Fit, WalkOK, RowsOK, DoingIds, RowsFit, RowFits
<1>2. Held(new, k) = Held(old, k) /\ Pos(new, k) = Pos(old, k)
  BY <1>1, SeatKept
<1>3. Held(new, m) = new[m].scopes /\ Pos(new, m) = x
  BY DEF Newcomer, Held, Pos, Seat
<1>4. /\ \A s \in ScopesOf(old, w) : RangeOf(s) \in Ranges
      /\ w # 0 => Held(old, w) = ScopesOf(old, w) /\ Pos(old, w) = old[w].node
  BY <1>1, WalkerRanges
<1>5. VisitApart(old, w, x, k)
  BY DEF WalkOK
<1>6. CASE w # 0 /\ Parallel(old, w, k)
  <2>1. PICK r \in Ranges : \E s \in Held(old, w) : \E q \in Held(old, k) :
          RangeOf(s) = r /\ RangeOf(q) = r /\ s.round = q.round /\ Split(r, Pos(old, w), Pos(old, k))
    BY <1>6 DEF Parallel
  <2>2. PICK s \in ScopesOf(old, w), q \in Held(old, k) :
          RangeOf(s) = r /\ RangeOf(q) = r /\ s.round = q.round /\ Split(r, old[w].node, Pos(old, k))
    BY <1>4, <1>6, <2>1
  <2>3. s.fork = q.fork /\ s.join = q.join /\ s.join = r.join
    BY <2>2 DEF RangeOf
  <2>4. Serves(old[k], s)
    BY <1>1, <2>2, <2>3, HeldIs
  <2>5. OnItsWay(old, w, toks, s)
    BY DEF WalkOK
  <2>6. x # s.join
    BY <2>3, RangeFacts DEF Joins
  <2>7. SameBranch(r, old[w].node, x)
    BY <2>2, <2>4, <2>5, <2>6 DEF OnItsWay
  <2>8. x \in Body(r) /\ Split(r, x, Pos(old, k))
    BY <2>2, <2>7 DEF SameBranch, Split
  <2>9. s \in new[m].scopes
    BY <2>2, <2>8 DEF Newcomer, Around
  <2>. QED
    BY <1>2, <1>3, <2>2, <2>8, <2>9 DEF Parallel
<1>7. CASE Opened(old, w, x, k)
  <2>1. PICK r \in Ranges \ OwnRanges(old, w) : \E q \in Held(old, k) :
          RangeOf(q) = r /\ q.round = w /\ Split(r, x, Pos(old, k))
    BY <1>7 DEF Opened
  <2>2. PICK q \in Held(old, k) : RangeOf(q) = r /\ q.round = w /\ Split(r, x, Pos(old, k))
    BY <2>1
  <2>3. r \in Around(x)
    BY <2>2 DEF Split, Around
  <2>4. PICK s \in new[m].scopes : RangeOf(s) = r
    BY <2>3 DEF Newcomer
  <2>5. s \notin ScopesOf(old, w)
    BY <2>1, <2>4 DEF OwnRanges
  <2>6. s.round = w
    BY <2>5 DEF Newcomer
  <2>. QED
    BY <1>2, <1>3, <2>2, <2>4, <2>6 DEF Parallel
<1>. QED
  BY <1>5, <1>6, <1>7 DEF VisitApart

\* The rows after `old` are those of the visit to x by row w, and all of them open.
Arrives(old, new, w, x) ==
  /\ \A m \in Len(old)+1..Len(new) : Newcomer(old, new, w, x, m) /\ new[m].state = "doing"
  /\ \A k \in DoingIds(new) : k \in DoingIds(old) \/ k \in Len(old)+1..Len(new)
  /\ \A i \in 1..Len(old) : new[i] = old[i]

\* The pending visits without the first one.
Rest(toks, rest) ==
  /\ 1 \in 1..Len(toks) /\ Len(toks) \in Nat /\ Len(rest) = Len(toks) - 1
  /\ \A i \in 1..Len(rest) : i + 1 \in 1..Len(toks) /\ rest[i] = toks[i+1]

\* And the visits still pending work beside the new rows.
LEMMA WalkPast ==
  ASSUME WellNested, NEW old, Fit(old), NEW new, RowsOK(new), Evolves(old, new),
         NEW w \in Nat, NEW toks, WalkOK(old, w, toks),
         NEW x \in Node, x = toks[1].node, Kind[x] = "task", Arrives(old, new, w, x),
         NEW rest, Rest(toks, rest)
  PROVE  WalkOK(new, w, rest)
<1>0. /\ \A m \in Len(old)+1..Len(new) : Newcomer(old, new, w, x, m) /\ new[m].state = "doing"
      /\ \A k \in DoingIds(new) : k \in DoingIds(old) \/ k \in Len(old)+1..Len(new)
      /\ \A i \in 1..Len(old) : new[i] = old[i]
      /\ 1 \in 1..Len(toks) /\ Len(toks) \in Nat /\ Len(rest) = Len(toks) - 1
      /\ \A i \in 1..Len(rest) : i + 1 \in 1..Len(toks) /\ rest[i] = toks[i+1]
  BY DEF Arrives, Rest
<1>1. RowsOK(old) /\ Walks(old, w) /\ DOMAIN old = 1..Len(old) /\ Len(old) \in Nat /\ Len(new) \in Nat
  BY <1>0 DEF Fit, WalkOK, RowsOK
<1>2. ScopesOf(new, w) = ScopesOf(old, w) /\ OwnRanges(new, w) = OwnRanges(old, w) /\ Walks(new, w)
  BY <1>0, <1>1, WalkerKept
<1>3. /\ \A s \in ScopesOf(old, w) : RangeOf(s) \in Ranges
      /\ w # 0 => w \in 1..Len(old)
  BY <1>0, <1>1, WalkerRanges DEF Walks
<1>4. \A i \in 1..Len(rest) : rest[i].parent = w
  BY <1>0 DEF WalkOK
<1>5. ASSUME NEW s \in ScopesOf(new, w)
      PROVE  OnItsWay(new, w, rest, s)
  <2>0. w # 0 => new[w] = old[w]
    BY <1>0, <1>3
  <2>1. s \in ScopesOf(old, w) /\ RangeOf(s) \in Ranges
    BY <1>0, <1>2, <1>3, <1>5
  <2>2. w # 0
    <3>1. CASE w = 0
      BY <1>0, <1>1, <2>1, <3>1 DEF ScopesOf
    <3>. QED
      BY <1>0, <3>1
  <2>3. OnItsWay(old, w, toks, s)
    BY <1>0, <2>1 DEF WalkOK
  <2>4. CASE \A i \in 1..Len(toks) : toks[i].node = s.join
    <3>1. \A i \in 1..Len(rest) : rest[i].node = s.join
      BY <1>0, <2>4
    <3>. QED
      BY <3>1 DEF OnItsWay
  <2>5. CASE \A i \in 1..Len(toks) : SameBranch(RangeOf(s), old[w].node, toks[i].node)
    BY <1>0, <2>0, <2>2, <2>5 DEF OnItsWay
  <2>6. CASE /\ \A i \in 1..Len(toks) : toks[i].node \in Ahead(s.join, s.join)
             /\ \A k \in DoingIds(old) : ~Serves(old[k], s)
    <3>1. PICK r \in Ranges : r = RangeOf(s) /\ r.join = s.join
      BY <1>0, <2>1 DEF RangeOf
    <3>2. x \notin Body(r)
      BY <1>0, <2>6, <3>1, BeyondFacts
    <3>3. ASSUME NEW k \in DoingIds(new), Serves(new[k], s)
          PROVE  FALSE
      <4>1. CASE k \in DoingIds(old)
        <5>1. new[k] = old[k]
          BY <1>0, <1>1, <4>1 DEF DoingIds
        <5>. QED
          BY <1>0, <2>6, <3>3, <4>1, <5>1
      <4>2. CASE k \in Len(old)+1..Len(new)
        <5>1. Newcomer(old, new, w, x, k)
          BY <1>0, <4>2
        <5>2. PICK q \in new[k].scopes \cup new[k].branch : q.fork = s.fork /\ q.join = s.join
          BY <1>0, <3>3 DEF Serves
        <5>3. RangeOf(q) = r /\ q \in new[k].scopes
          BY <1>0, <3>1, <5>1, <5>2 DEF RangeOf, Newcomer
        <5>4. r \in Around(x)
          BY <1>0, <5>1, <5>3 DEF Newcomer
        <5>. QED
          BY <1>0, <3>2, <5>4 DEF Around
      <4>. QED
        BY <1>0, <4>1, <4>2
    <3>. QED
      BY <1>0, <2>6, <3>3 DEF OnItsWay
  <2>. QED
    BY <1>0, <2>3, <2>4, <2>5, <2>6 DEF OnItsWay
<1>6. ASSUME NEW i \in 1..Len(rest), NEW k \in DoingIds(new)
      PROVE  VisitApart(new, w, rest[i].node, k)
  <2>1. PICK j \in 1..Len(toks) : j = i + 1 /\ rest[i] = toks[j] /\ j # 1
    BY <1>0
  <2>2. CASE k \in DoingIds(old)
    <3>1. k \in 1..Len(old)
      BY <1>0, <1>1, <2>2 DEF DoingIds
    <3>2. Held(new, k) = Held(old, k) /\ Pos(new, k) = Pos(old, k)
      BY <1>0, <1>1, <3>1, SeatKept
    <3>3. VisitApart(old, w, toks[j].node, k)
      BY <1>0, <2>2 DEF WalkOK
    <3>4. w # 0 /\ Parallel(old, w, k) => Parallel(new, w, k)
      BY <1>0, <1>1, <1>3, <3>1, ParallelKept
    <3>5. Opened(old, w, toks[j].node, k) => Opened(new, w, toks[j].node, k)
      BY <1>0, <1>2, <3>2 DEF Opened
    <3>. QED
      BY <1>0, <2>1, <3>3, <3>4, <3>5 DEF VisitApart
  <2>3. CASE k \in Len(old)+1..Len(new)
    <3>1. Newcomer(old, new, w, x, k)
      BY <1>0, <2>3
    <3>2. PICK r \in Ranges \ OwnRanges(old, w) : Split(r, toks[j].node, x)
      BY <1>0, <2>1 DEF WalkOK
    <3>3. r \in Around(x)
      BY <1>0, <3>2 DEF Split, Around
    <3>4. PICK s \in new[k].scopes : RangeOf(s) = r
      BY <1>0, <3>1, <3>3 DEF Newcomer
    <3>5. s \notin ScopesOf(old, w)
      BY <1>0, <3>2, <3>4 DEF OwnRanges
    <3>6. s.round = w
      BY <1>0, <3>1, <3>4, <3>5 DEF Newcomer
    <3>7. Held(new, k) = new[k].scopes /\ Pos(new, k) = x
      BY <1>0, <3>1 DEF Newcomer, Held, Pos, Seat
    <3>8. Opened(new, w, toks[j].node, k)
      BY <1>0, <1>2, <3>2, <3>4, <3>6, <3>7 DEF Opened
    <3>. QED
      BY <1>0, <2>1, <3>8 DEF VisitApart
  <2>. QED
    BY <1>0, <2>2, <2>3
<1>7. \A i, k \in 1..Len(rest) : i # k =>
        \E r \in Ranges \ OwnRanges(new, w) : Split(r, rest[i].node, rest[k].node)
  <2> SUFFICES ASSUME NEW i \in 1..Len(rest), NEW k \in 1..Len(rest), i # k
               PROVE  \E r \in Ranges \ OwnRanges(old, w) : Split(r, rest[i].node, rest[k].node)
    BY <1>0, <1>2
  <2>1. i + 1 \in 1..Len(toks) /\ k + 1 \in 1..Len(toks) /\ i + 1 # k + 1
        /\ rest[i] = toks[i+1] /\ rest[k] = toks[k+1]
    BY <1>0
  <2>. QED
    BY <1>0, <2>1 DEF WalkOK
<1>8. \/ \A i \in 1..Len(rest) : Kind[rest[i].node] \in {"task", "fork"}
      \/ /\ Len(rest) = 1
         /\ \A r \in Ranges : rest[1].node \in Body(r) \/ rest[1].node = r.join => r \in OwnRanges(new, w)
  <2>1. CASE \A i \in 1..Len(toks) : Kind[toks[i].node] \in {"task", "fork"}
    BY <1>0, <2>1
  <2>2. CASE Len(toks) = 1
    BY <1>0, <2>2
  <2>. QED
    BY <1>0, <2>1, <2>2 DEF WalkOK
<1>9. \A i \in 1..Len(new) : \A s \in new[i].scopes :
        s.round = w /\ RangeOf(s) \notin OwnRanges(new, w) => new[i].state = "doing"
  <2> SUFFICES ASSUME NEW i \in 1..Len(new), NEW s \in new[i].scopes, s.round = w, RangeOf(s) \notin OwnRanges(old, w)
               PROVE  new[i].state = "doing"
    BY <1>0, <1>2
  <2>1. CASE i \in 1..Len(old)
    BY <1>0, <2>1 DEF WalkOK
  <2>2. CASE i \in Len(old)+1..Len(new)
    BY <1>0, <2>2
  <2>. QED
    BY <1>0, <1>1, <2>1, <2>2
<1>. QED
  BY <1>0, <1>2, <1>4, <1>5, <1>6, <1>7, <1>8, <1>9 DEF WalkOK

LEMMA EnterTaskTokens ==
  ASSUME WellNested, IInv, OpeningInv, BranchInv, TokenInv, RowsOK(rows'), Roots(rows'), EnterTask
  PROVE  TokenInv'
<1>1. PICK c, first, more :
        /\ c = NewRows(Here) /\ first = IF Countersign[Here] = "sequential" THEN 0 ELSE -1
        /\ more = [i \in 1..c |-> [Fresh(Here, By, Attached(rows, Here, By, Len(rows) + i))
                                     EXCEPT !.loop = first]]
  OBVIOUS
<1>2. /\ todo # <<>> /\ Continue(Tail(todo)) /\ rows' = rows \o more /\ Kind[Here] = "task"
      /\ inst' = inst
  BY <1>1 DEF EnterTask, At, Here
<1>3. /\ Here \in Node /\ By \in Nat /\ rows \in Seq(Row) /\ Fit(rows)
      /\ inst \notin {"none", "finished"} /\ WalkOK(rows, By, todo)
      /\ 1 \in 1..Len(todo) /\ todo[1].node = Here /\ todo[1].parent = By
      /\ Len(Tail(todo)) = Len(todo) - 1 /\ Len(todo) \in Nat
      /\ \A i \in 1..Len(Tail(todo)) : i + 1 \in 1..Len(todo) /\ Tail(todo)[i] = todo[i+1]
      /\ By # 0 => By \in 1..Len(rows) /\ rows[By].state = "done"
  BY <1>2, WalkFacts
<1>4. PICK x, w, N : x = Here /\ w = By /\ N = Len(rows)
  OBVIOUS
<1>0. w = 0 => Around(x) = {}
  BY <1>2, <1>4, RestOpen, OpeningOutside
<1>5. /\ c \in Nat /\ first \in Int /\ N \in Nat /\ RowsOK(rows)
      /\ c > 1 => ~OneRow(x)
  <2>1. Members[x] \in Nat
    BY <1>3, <1>4, EngineAssumption
  <2>2. c \in Nat /\ (c > 1 => ~OneRow(x))
    BY <1>1, <1>4, <2>1 DEF NewRows, OneRow
  <2>3. N \in Nat /\ RowsOK(rows)
    BY <1>3, <1>4 DEF Fit, RowsOK
  <2>. QED
    BY <1>1, <2>2, <2>3
<1>6. ASSUME NEW i \in 1..c
      PROVE  /\ more[i] \in Row /\ more[i].branch = {} /\ more[i].node = x
             /\ more[i].parent = w /\ more[i].source = 0 /\ more[i].state = "doing"
             /\ more[i].scopes = Attached(rows, x, w, N + i)
  <2>1. PICK B : B = Attached(rows, x, w, N + i)
    OBVIOUS
  <2>2. N + i \in Nat
    BY <1>5
  <2>3. B \in SUBSET Scope
    BY <1>3, <1>4, <2>1, <2>2, AttachedType
  <2>4. PICK f : f = Fresh(x, w, B) /\ f \in Row /\ f.scopes = B /\ f.branch = {}
    BY <1>3, <1>4, <2>3, FreshRanges
  <2>5. f.node = x /\ f.parent = w /\ f.source = 0 /\ f.state = "doing"
    BY <2>4 DEF Fresh
  <2>6. more[i] = [f EXCEPT !.loop = first]
    BY <1>1, <1>4, <2>1, <2>4
  <2>7. /\ more[i] \in Row /\ more[i].scopes = f.scopes /\ more[i].branch = f.branch /\ more[i].node = f.node
        /\ more[i].parent = f.parent /\ more[i].source = f.source /\ more[i].state = f.state
    BY <1>5, <2>4, <2>6 DEF Row
  <2>. QED
    BY <2>1, <2>4, <2>5, <2>7
<1>7. more \in Seq(Row) /\ Len(more) = c
  <2>1. more \in [1..c -> Row]
    BY <1>1, <1>6
  <2>. QED
    BY <1>5, <2>1, FunctionIsSeq
<1>8. PICK new : new = rows \o more
  OBVIOUS
<1>9. /\ new \in Seq(Row) /\ Settles(rows, new)
      /\ \A i \in 1..N : i \in 1..Len(new) /\ new[i] = rows[i]
      /\ \A i \in N+1..Len(new) : i - N \in 1..c /\ new[i] = more[i - N]
      /\ \A k \in DoingIds(new) : k \in DoingIds(rows) \/ k \in N+1..Len(new)
  <2>1. /\ new \in Seq(Row) /\ Settles(rows, new)
        /\ \A i \in 1..Len(rows) : i \in 1..Len(new) /\ new[i] = rows[i]
        /\ \A i \in Len(rows)+1..Len(new) : i - Len(rows) \in 1..Len(more) /\ new[i] = more[i - Len(rows)]
        /\ \A k \in DoingIds(new) : k \in DoingIds(rows) \/ k \in Len(rows)+1..Len(new)
    BY <1>5, <1>7, <1>8, ConcatSettles
  <2>. QED
    BY <1>4, <1>7, <2>1
<1>10. RowsOK(new) /\ Roots(new) /\ Evolves(rows, new)
  BY <1>2, <1>8, <1>9 DEF Settles
<1>11. ASSUME NEW m \in N+1..Len(new)
       PROVE  Newcomer(rows, new, w, x, m) /\ new[m].state = "doing"
  <2>1. PICK i \in 1..c : i = m - N /\ new[m] = more[i]
    BY <1>9
  <2>2. N + i = m /\ m \in Nat
    BY <1>5, <2>1
  <2>3. /\ new[m].node = x /\ new[m].parent = w /\ new[m].source = 0 /\ new[m].branch = {}
        /\ new[m].state = "doing" /\ new[m].scopes = Attached(rows, x, w, m)
    BY <1>6, <2>1, <2>2
  <2>4. PICK B : B = Attached(rows, x, w, m)
    OBVIOUS
  <2>5. /\ \A s \in B :
             /\ RangeOf(s) \in Around(x)
             /\ \/ s \in ScopesOf(rows, w)
                \/ RangeOf(s) \notin OwnRanges(rows, w) /\ s.round = w /\ s.root = m
        /\ \A s \in ScopesOf(rows, w) : RangeOf(s) \in Around(x) => s \in B
        /\ \A r \in Around(x) : \E s \in B : RangeOf(s) = r
    BY <1>0, <1>2, <1>3, <1>4, <2>2, <2>4, AttachedRanges
  <2>6. Newcomer(rows, new, w, x, m)
    BY <2>3, <2>4, <2>5 DEF Newcomer
  <2>. QED
    BY <2>3, <2>6
<1>12. \A m \in Len(rows)+1..Len(new) : RowFits(new, m)
  <2> SUFFICES ASSUME NEW m \in Len(rows)+1..Len(new)
               PROVE  RowFits(new, m)
    OBVIOUS
  <2>1. Newcomer(rows, new, w, x, m) /\ w \in Nat /\ x \in Node /\ Kind[x] = "task" /\ x = todo[1].node
        /\ (w # 0 => rows[w].state = "done") /\ WalkOK(rows, w, todo)
    BY <1>2, <1>3, <1>4, <1>11
  <2>. QED
    BY <1>3, <1>10, <2>1, NewcomerFits
<1>13. \A m \in Len(rows)+1..Len(new) : \A k \in DoingIds(new) :
         m \in DoingIds(new) /\ k < m => Apart(new, m, k)
  <2> SUFFICES ASSUME NEW m \in Len(rows)+1..Len(new), NEW k \in DoingIds(new), k < m
               PROVE  Apart(new, m, k)
    OBVIOUS
  <2>1. Newcomer(rows, new, w, x, m)
    BY <1>4, <1>11
  <2>2. CASE k \in DoingIds(rows)
    <3>1. w \in Nat /\ x \in Node /\ Kind[x] = "task" /\ x = todo[1].node /\ WalkOK(rows, w, todo)
      BY <1>2, <1>3, <1>4
    <3>2. Parallel(new, m, k)
      BY <1>3, <1>10, <2>1, <2>2, <3>1, NewcomerApart
    <3>. QED
      BY <3>2 DEF Apart
  <2>3. CASE k \in N+1..Len(new)
    <3>1. Newcomer(rows, new, w, x, k)
      BY <1>11, <2>3
    <3>2. m - N \in 1..c /\ k - N \in 1..c
      BY <1>4, <1>9, <2>3
    <3>3. c > 1
      BY <1>4, <1>5, <2>3, <3>2
    <3>4. Fellows(new, m, k)
      BY <1>5, <2>1, <3>1, <3>3 DEF Newcomer, Fellows
    <3>. QED
      BY <3>4 DEF Apart
  <2>. QED
    BY <1>9, <2>2, <2>3
<1>14. Fit(new)
  <2>1. RowsFit(new)
    BY <1>3, <1>9, <1>10, <1>12, <1>13, RowsFitGrow DEF Fit
  <2>. QED
    BY <1>10, <2>1 DEF Fit
<1>15. PICK rest : rest = Tail(todo)
  OBVIOUS
<1>16. WalkOK(new, w, rest)
  <2>1. w \in Nat /\ x \in Node /\ Kind[x] = "task" /\ x = todo[1].node /\ WalkOK(rows, w, todo)
    BY <1>2, <1>3, <1>4
  <2>2. Arrives(rows, new, w, x)
    BY <1>4, <1>9, <1>11 DEF Arrives
  <2>3. Rest(todo, rest)
    BY <1>3, <1>15 DEF Rest
  <2>4. Fit(rows) /\ RowsOK(new) /\ Evolves(rows, new)
    BY <1>3, <1>10
  <2>. QED
    BY <2>1, <2>2, <2>3, <2>4, WalkPast
<1>17. StateOK(inst', rows')
  BY <1>2, <1>3, <1>8, <1>14 DEF StateOK, Fit
<1>18. rest # <<>> => rest[1].parent = w
  <2>1. rest # <<>> => 1 \in 1..Len(rest)
    BY <1>2, <1>15, WalkFacts
  <2>. QED
    BY <1>16, <2>1 DEF WalkOK
<1>. QED
  BY <1>2, <1>3, <1>8, <1>15, <1>16, <1>17, <1>18, StepTokens

\* Rows that are closed and stand in no range do not disturb a walk.
LEMMA WalkKept ==
  ASSUME NEW old, NEW new, Fit(old), RowsOK(new), Settles(old, new),
         \A k \in DoingIds(new) : k \in DoingIds(old),
         \A i \in Len(old)+1..Len(new) : new[i].scopes = {},
         \A i \in 1..Len(old) : new[i] = old[i],
         NEW w \in Nat, NEW toks, WalkOK(old, w, toks)
  PROVE  WalkOK(new, w, toks)
<1>1. RowsOK(old) /\ Walks(old, w) /\ DOMAIN old = 1..Len(old) /\ Len(old) \in Nat /\ Len(new) \in Nat
      /\ Evolves(old, new)
  BY DEF Fit, WalkOK, RowsOK, Settles
<1>2. ScopesOf(new, w) = ScopesOf(old, w) /\ OwnRanges(new, w) = OwnRanges(old, w) /\ Walks(new, w)
  BY <1>1, WalkerKept
<1>3. w # 0 => w \in 1..Len(old) /\ new[w] = old[w]
  BY <1>1 DEF Walks
<1>4. \A k \in DoingIds(new) : k \in 1..Len(old) /\ new[k] = old[k] /\ k \in DoingIds(old)
  BY <1>1 DEF DoingIds
<1>5. ASSUME NEW s \in ScopesOf(new, w)
      PROVE  OnItsWay(new, w, toks, s)
  <2>1. s \in ScopesOf(old, w)
    BY <1>2
  <2>2. w # 0
    <3>1. CASE w = 0
      BY <1>1, <2>1, <3>1 DEF ScopesOf
    <3>. QED
      BY <3>1
  <2>3. OnItsWay(old, w, toks, s)
    BY <2>1 DEF WalkOK
  <2>4. \A k \in DoingIds(new) : Serves(new[k], s) => k \in DoingIds(old) /\ Serves(old[k], s)
    BY <1>4
  <2>. QED
    BY <1>3, <2>2, <2>3, <2>4 DEF OnItsWay
<1>6. ASSUME NEW i \in 1..Len(toks), NEW k \in DoingIds(new)
      PROVE  VisitApart(new, w, toks[i].node, k)
  <2>1. k \in 1..Len(old) /\ k \in DoingIds(old)
    BY <1>4
  <2>2. Held(new, k) = Held(old, k) /\ Pos(new, k) = Pos(old, k)
    BY <1>1, <2>1, SeatKept
  <2>3. VisitApart(old, w, toks[i].node, k)
    BY <2>1 DEF WalkOK
  <2>4. w # 0 /\ Parallel(old, w, k) => Parallel(new, w, k)
    BY <1>1, <1>3, <2>1, ParallelKept
  <2>5. Opened(old, w, toks[i].node, k) => Opened(new, w, toks[i].node, k)
    BY <1>2, <2>2 DEF Opened
  <2>. QED
    BY <2>3, <2>4, <2>5 DEF VisitApart
<1>7. \A i \in 1..Len(new) : \A s \in new[i].scopes :
        s.round = w /\ RangeOf(s) \notin OwnRanges(new, w) => new[i].state = "doing"
  <2> SUFFICES ASSUME NEW i \in 1..Len(new), NEW s \in new[i].scopes, s.round = w, RangeOf(s) \notin OwnRanges(old, w)
               PROVE  new[i].state = "doing"
    BY <1>2
  <2>1. CASE i \in 1..Len(old)
    BY <2>1 DEF WalkOK
  <2>2. CASE i \in Len(old)+1..Len(new)
    BY <2>2
  <2>. QED
    BY <1>1, <2>1, <2>2
<1>. QED
  BY <1>2, <1>5, <1>6, <1>7 DEF WalkOK

\* Nothing is pending behind a lone visit.
LEMMA NothingBehind ==
  ASSUME IInv, BranchInv, TokenInv, todo # <<>>, Kind[Here] \notin {"task", "fork"}
  PROVE  Tail(todo) = <<>>
<1>1. PICK t : t = Tail(todo) /\ t \in Seq(Token) /\ Len(t) = Len(todo) - 1 /\ Len(todo) = 1
  BY WalkFacts, AloneVisit
<1>2. t = <<>>
  BY <1>1
<1>. QED
  BY <1>1, <1>2

\* It has at most one next visit.
LEMMA AloneDescend ==
  ASSUME IInv, BranchInv, TokenInv, todo # <<>>, Kind[Here] \notin {"task", "fork"},
         NEW ns \in Seq(Node), Len(ns) <= 1
  PROVE  LET toks == Visits(ns, By) \o Tail(todo)
         IN toks = <<>> \/ (1 \in DOMAIN ns /\ toks = <<[node |-> ns[1], parent |-> By]>>)
<1>1. By \in Nat /\ Tail(todo) = <<>>
  BY WalkFacts, NothingBehind
<1>2. PICK v : v = Visits(ns, By)
  OBVIOUS
<1>3. v = <<>> \/ (1 \in DOMAIN ns /\ v = <<[node |-> ns[1], parent |-> By]>>)
  BY <1>1, <1>2, OneVisit
<1>4. v \o <<>> = v
  BY <1>3
<1>. QED
  BY <1>1, <1>2, <1>3, <1>4

\* The walk goes on from a lone visit.
LEMMA AloneGoesOn ==
  ASSUME WellNested, IInv, BranchInv, TokenInv, todo # <<>>, Kind[Here] \notin {"task", "fork"},
         \A s \in ScopesOf(rows, By) : s.join = Here => \A k \in DoingIds(rows) : ~Serves(rows[k], s),
         NEW ns \in Seq(Node), Len(ns) <= 1, \A i \in DOMAIN ns : ns[i] \in Targets(Here),
         NEW toks, toks = Visits(ns, By) \o Tail(todo), toks # <<>>
  PROVE  WalkOK(rows, By, toks) /\ toks[1].parent = By
<1>1. /\ Fit(rows) /\ WalkOK(rows, By, todo) /\ By \in Nat /\ Here \in Node
      /\ 1 \in 1..Len(todo) /\ todo[1].node = Here
  BY WalkFacts
<1>2. 1 \in DOMAIN ns /\ toks = <<[node |-> ns[1], parent |-> By]>>
  BY AloneDescend
<1>3. \A s \in ScopesOf(rows, By) : RangeOf(s) \in Ranges
  BY <1>1, WalkerRanges DEF WalkOK
<1>4. PICK y \in Targets(Here) : y = ns[1]
  BY <1>2
<1>5. toks = <<[node |-> y, parent |-> By]>>
  BY <1>2, <1>4
<1>6. WalkOK(rows, By, toks)
  BY <1>1, <1>3, <1>4, <1>5, StepOn
<1>. QED
  BY <1>5, <1>6

\* No range has its join at a node of another kind.
LEMMA NotItsJoin ==
  ASSUME WellNested, IInv, BranchInv, TokenInv, todo # <<>>, Kind[Here] # "join"
  PROVE  \A s \in ScopesOf(rows, By) : s.join # Here
<1>1. \A s \in ScopesOf(rows, By) : RangeOf(s) \in Ranges
  BY WalkFacts, WalkerRanges DEF WalkOK
<1>2. ASSUME NEW s \in ScopesOf(rows, By)
      PROVE  s.join # Here
  <2>1. PICK r \in Ranges : r = RangeOf(s) /\ r.join = s.join
    BY <1>1 DEF RangeOf
  <2>2. Kind[r.join] = "join"
    BY RangeFacts DEF Joins
  <2>. QED
    BY <2>1, <2>2
<1>. QED
  BY <1>2

LEMMA EnterJoinTokens ==
  ASSUME WellNested, IInv, BranchInv, TokenInv, EnterJoin
  PROVE  TokenInv'
<1>1. PICK toks : toks = Visits(IF MergeReady(rows, Here, By) THEN Succ[Here] ELSE <<>>, By) \o Tail(todo)
  OBVIOUS
<1>2. /\ todo # <<>> /\ Kind[Here] = "join" /\ Continue(toks) /\ rows' = rows /\ inst' = inst
  BY <1>1 DEF EnterJoin, At, Here, Descend
<1>3. /\ Here \in Node /\ Fit(rows) /\ Succ[Here] \in Seq(Node) /\ WalkOK(rows, By, todo)
      /\ inst \notin {"none", "finished"} /\ 1 \in 1..Len(todo) /\ todo[1].node = Here
  BY <1>2, WalkFacts
<1>4. StateOK(inst', rows')
  BY <1>2 DEF TokenInv
<1>5. CASE ~MergeReady(rows, Here, By)
  <2>1. <<>> \in Seq(Node) /\ Len(<<>>) <= 1 /\ DOMAIN <<>> = {}
    OBVIOUS
  <2>2. toks = Visits(<<>>, By) \o Tail(todo)
    BY <1>1, <1>5
  <2>3. toks = <<>>
    BY <1>2, <2>1, <2>2, AloneDescend
  <2>. QED
    BY <1>2, <1>4, <2>3, StepTokens
<1>6. CASE MergeReady(rows, Here, By)
  <2>1. Len(Succ[Here]) <= 1
    BY <1>2, <1>3 DEF WellNested
  <2>2. \A i \in DOMAIN Succ[Here] : Succ[Here][i] \in Targets(Here)
    BY DEF Targets
  <2>3. PICK r \in Ranges : r.join = Here
    BY <1>2, <1>3, NodeRanges DEF Joins
  <2>4. r \in OwnRanges(rows, By)
    BY <1>2, <1>3, <2>3, AloneVisit
  <2>5. PICK o \in ScopesOf(rows, By) : o.join = Here
    BY <2>3, <2>4 DEF OwnRanges, RangeOf
  <2>6. \A s \in ScopesOf(rows, By) : s.join = Here => \A k \in DoingIds(rows) : ~Serves(rows[k], s)
    BY <1>6, <2>5 DEF MergeReady
  <2>7. toks = Visits(Succ[Here], By) \o Tail(todo)
    BY <1>1, <1>6
  <2>8. toks # <<>> => WalkOK(rows, By, toks) /\ toks[1].parent = By
    BY <1>2, <1>3, <2>1, <2>2, <2>6, <2>7, AloneGoesOn
  <2>. QED
    BY <1>2, <1>3, <1>4, <2>8, StepTokens
<1>. QED
  BY <1>5, <1>6

LEMMA EnterDecisionTokens ==
  ASSUME WellNested, IInv, BranchInv, TokenInv, EnterDecision
  PROVE  TokenInv'
<1>1. PICK e \in DOMAIN Succ[Here] : Descend(<<Succ[Here][e]>>)
  BY DEF EnterDecision
<1>2. PICK ns, toks : ns = <<Succ[Here][e]>> /\ toks = Visits(ns, By) \o Tail(todo)
  OBVIOUS
<1>3. /\ todo # <<>> /\ Kind[Here] = "decision" /\ Continue(toks) /\ rows' = rows /\ inst' = inst
  BY <1>1, <1>2 DEF EnterDecision, At, Here, Descend
<1>4. /\ Succ[Here] \in Seq(Node) /\ inst \notin {"none", "finished"}
  BY <1>3, WalkFacts
<1>5. Succ[Here][e] \in Node /\ Succ[Here][e] \in Targets(Here)
  BY <1>4 DEF Targets
<1>6. ns \in Seq(Node) /\ Len(ns) <= 1 /\ \A i \in DOMAIN ns : ns[i] \in Targets(Here)
  BY <1>2, <1>5
<1>7. \A s \in ScopesOf(rows, By) : s.join = Here => \A k \in DoingIds(rows) : ~Serves(rows[k], s)
  BY <1>3, NotItsJoin
<1>8. toks # <<>> => WalkOK(rows, By, toks) /\ toks[1].parent = By
  BY <1>2, <1>3, <1>6, <1>7, AloneGoesOn
<1>9. StateOK(inst', rows')
  BY <1>3 DEF TokenInv
<1>. QED
  BY <1>3, <1>4, <1>8, <1>9, StepTokens

LEMMA DecisionFailsTokens ==
  ASSUME IInv, TokenInv, DecisionFails
  PROVE  TokenInv'
<1>1. Continue(<<>>) /\ todo # <<>>
  BY DEF DecisionFails, At
<1>2. CASE Transactional
  <2>1. saved # <<>>
    BY <1>1, <1>2 DEF IInv, TypeOK
  <2>2. inst' = saved[1].inst /\ rows' = saved[1].rows
    BY <1>2 DEF DecisionFails
  <2>3. StateOK(inst', rows')
    BY <2>1, <2>2 DEF TokenInv
  <2>. QED
    BY <1>1, <2>3, StepTokens
<1>3. CASE ~Transactional
  <2>1. inst' = inst /\ rows' = rows
    BY <1>3 DEF DecisionFails
  <2>2. StateOK(inst', rows')
    BY <2>1 DEF TokenInv
  <2>. QED
    BY <1>1, <2>2, StepTokens
<1>. QED
  BY <1>2, <1>3

\* At the end node nobody else is left.
LEMMA EndIsAlone ==
  ASSUME WellNested, IInv, BranchInv, TokenInv, todo # <<>>, Kind[Here] = "end"
  PROVE  DoingIds(rows) = {}
<1>1. /\ Here \in Node /\ By \in Nat /\ Fit(rows) /\ WalkOK(rows, By, todo)
      /\ 1 \in 1..Len(todo) /\ todo[1].node = Here
  BY WalkFacts
<1>2. ASSUME NEW k \in DoingIds(rows)
      PROVE  FALSE
  <2>1. By # 0 /\ Parallel(rows, By, k)
    BY <1>1, <1>2, AloneVisit
  <2>2. Held(rows, By) = ScopesOf(rows, By)
    BY <1>1, <2>1, WalkerRanges DEF WalkOK
  <2>3. PICK r \in Ranges : \E s \in Held(rows, By) : \E q \in Held(rows, k) :
          RangeOf(s) = r /\ RangeOf(q) = r /\ s.round = q.round
    BY <2>1 DEF Parallel
  <2>4. PICK s \in ScopesOf(rows, By), q \in Held(rows, k) :
          RangeOf(s) = r /\ RangeOf(q) = r /\ s.round = q.round
    BY <2>2, <2>3
  <2>5. s.fork = q.fork /\ s.join = q.join /\ s.join = r.join
    BY <2>4 DEF RangeOf
  <2>6. FormOK(rows, k)
    BY <1>1, <1>2 DEF Fit, RowsFit, RowFits, DoingIds, RowsOK
  <2>7. Serves(rows[k], s)
    BY <2>4, <2>5, <2>6, HeldIs
  <2>8. OnItsWay(rows, By, todo, s)
    BY <1>1 DEF WalkOK
  <2>9. Here # r.join
    BY RangeFacts DEF Joins
  <2>10. Here \notin Body(r)
    BY DEF WellNested
  <2>. QED
    BY <1>1, <1>2, <2>4, <2>5, <2>7, <2>8, <2>9, <2>10 DEF OnItsWay, SameBranch
<1>. QED
  BY <1>2

LEMMA EnterEndTokens ==
  ASSUME WellNested, IInv, BranchInv, TokenInv, EnterEnd
  PROVE  TokenInv'
<1>1. /\ todo # <<>> /\ Kind[Here] = "end" /\ Continue(Tail(todo)) /\ rows' = rows
      /\ inst' \in {"finished", "rejected"}
  BY DEF EnterEnd, At, Here
<1>3. Tail(todo) = <<>>
  BY <1>1, NothingBehind
<1>4. DoingIds(rows) = {}
  BY <1>1, EndIsAlone
<1>5. StateOK(inst', rows')
  BY <1>1, <1>4 DEF TokenInv, StateOK
<1>. QED
  BY <1>1, <1>3, <1>5, StepTokens

LEMMA EnterOtherTokens ==
  ASSUME IInv, BranchInv, TokenInv, EnterOther
  PROVE  TokenInv'
<1>1. /\ todo # <<>> /\ Kind[Here] \in {"start", "other"} /\ Continue(Tail(todo)) /\ rows' = rows
      /\ inst' = inst
  BY DEF EnterOther
<1>3. Tail(todo) = <<>>
  BY <1>1, NothingBehind
<1>4. StateOK(inst', rows')
  BY <1>1 DEF TokenInv
<1>. QED
  BY <1>1, <1>3, <1>4, StepTokens

LEMMA EnterCustomTokens ==
  ASSUME WellNested, IInv, BranchInv, TokenInv, RowsOK(rows'), Roots(rows'), EnterCustom
  PROVE  TokenInv'
<1>1. PICK row, toks : row = [Fresh(Here, By, {}) EXCEPT !.state = "done"]
                       /\ toks = Visits(Succ[Here], By) \o Tail(todo)
  OBVIOUS
<1>2. /\ todo # <<>> /\ Kind[Here] = "custom" /\ Continue(toks) /\ rows' = Append(rows, row)
      /\ inst' = inst
  BY <1>1 DEF EnterCustom, At, Here, Descend
<1>3. /\ Here \in Node /\ By \in Nat /\ Fit(rows) /\ Succ[Here] \in Seq(Node) /\ WalkOK(rows, By, todo)
      /\ inst \notin {"none", "finished"}
  BY <1>2, WalkFacts
<1>4. PICK f : f = Fresh(Here, By, {}) /\ f \in Row /\ f.scopes = {} /\ f.branch = {}
  <2>1. {} \in SUBSET Scope
    OBVIOUS
  <2>. QED
    BY <1>3, <2>1, FreshRanges
<1>5. f.node = Here /\ f.parent = By /\ f.source = 0
  BY <1>4 DEF Fresh
<1>6. row = [f EXCEPT !.state = "done"]
  BY <1>1, <1>4
<1>7. /\ row \in Row /\ row.scopes = f.scopes /\ row.branch = f.branch /\ row.node = f.node
      /\ row.parent = f.parent /\ row.source = f.source /\ row.state = "done"
  BY <1>4, <1>6 DEF Row, TaskStates
<1>8. PICK new, m : new = Append(rows, row) /\ m = Len(rows) + 1
  OBVIOUS
<1>9. RowsOK(rows) /\ RowsOK(new) /\ Roots(new)
  BY <1>2, <1>3, <1>8 DEF Fit
<1>10. /\ Settles(rows, new) /\ \A i \in 1..Len(rows) : i \in 1..Len(new) /\ new[i] = rows[i]
       /\ new[m] = row /\ Len(rows)+1..Len(new) = {m}
       /\ \A k \in DoingIds(new) : k \in DoingIds(rows)
  <2>1. row.state # "doing"
    BY <1>7
  <2>. QED
    BY <1>7, <1>8, <1>9, <2>1, AppendSettles
<1>11. /\ new[m].node = Here /\ new[m].parent = By /\ new[m].source = 0 /\ new[m].scopes = {}
       /\ new[m].branch = {} /\ new[m].state = "done"
  BY <1>4, <1>5, <1>7, <1>10
<1>12. RowFits(new, m)
  <2>1. FormOK(new, m)
    BY <1>2, <1>11 DEF FormOK
  <2>2. RangesOK(new, m)
    BY <1>2, <1>11 DEF RangesOK
  <2>3. RoundsOK(new, m)
    BY <1>11 DEF RoundsOK
  <2>4. By # 0 => By \in 1..Len(rows) /\ Kind[rows[By].node] = "task"
    BY <1>3 DEF WalkOK, Walks
  <2>5. By # 0 => Kind[new[By].node] = "task"
    BY <1>10, <2>4
  <2>6. ParentOK(new, m)
    BY <1>2, <1>11, <2>5 DEF ParentOK
  <2>. QED
    BY <2>1, <2>2, <2>3, <2>6 DEF RowFits
<1>13. Fit(new)
  <2>1. row.state # "doing"
    BY <1>7
  <2>. QED
    BY <1>3, <1>7, <1>8, <1>9, <1>12, <2>1, AppendFit
<1>14. toks # <<>> => WalkOK(rows, By, toks) /\ toks[1].parent = By
  <2>1. Len(Succ[Here]) <= 1
    BY <1>2, <1>3 DEF WellNested
  <2>2. \A i \in DOMAIN Succ[Here] : Succ[Here][i] \in Targets(Here)
    BY DEF Targets
  <2>3. \A s \in ScopesOf(rows, By) : s.join = Here => \A k \in DoingIds(rows) : ~Serves(rows[k], s)
    BY <1>2, NotItsJoin
  <2>. QED
    BY <1>1, <1>2, <1>3, <2>1, <2>2, <2>3, AloneGoesOn
<1>15. toks # <<>> => WalkOK(new, By, toks) /\ toks[1].parent = By
  <2> SUFFICES ASSUME toks # <<>>
               PROVE  WalkOK(new, By, toks)
    BY <1>14
  <2>1. WalkOK(rows, By, toks)
    BY <1>14
  <2>2. \A i \in Len(rows)+1..Len(new) : new[i].scopes = {}
    BY <1>10, <1>11
  <2>. QED
    BY <1>3, <1>9, <1>10, <2>1, <2>2, WalkKept
<1>16. StateOK(inst', rows')
  BY <1>2, <1>3, <1>8, <1>13 DEF StateOK, Fit
<1>. QED
  BY <1>2, <1>3, <1>8, <1>15, <1>16, StepTokens

\* The visits to the successors of fork x come before those still pending.
Spreads(x, w, toks, more) ==
  /\ Len(toks) \in Nat /\ Len(more) \in Nat /\ Len(Succ[x]) \in Nat /\ 1 \in 1..Len(toks)
  /\ \A i \in 1..Len(Succ[x]) : more[i].node = Succ[x][i] /\ more[i].parent = w
  /\ \A i \in Len(Succ[x])+1..Len(more) :
       i - Len(Succ[x]) + 1 \in 2..Len(toks) /\ more[i] = toks[i - Len(Succ[x]) + 1]

\* A successor of a fork in a branch is in the same branch.
LEMMA ForkSplit ==
  ASSUME WellNested, NEW x \in Node, Kind[x] = "fork", NEW y \in Targets(x),
         NEW r \in Ranges, NEW n, Split(r, x, n)
  PROVE  Split(r, y, n)
<1>1. Kind[y] \in {"task", "fork"}
  BY DEF WellNested, Forks, Targets
<1>2. y # r.join /\ x \in Body(r)
  BY <1>1, RangeFacts DEF Joins, Split
<1>3. y \in Body(r) /\ \A a \in Targets(r.fork) : x \in Branch(r, a) <=> y \in Branch(r, a)
  BY <1>2, SameBranchStep
<1>. QED
  BY <1>3 DEF Split

LEMMA ForkSameBranch ==
  ASSUME WellNested, NEW x \in Node, Kind[x] = "fork", NEW y \in Targets(x),
         NEW r \in Ranges, NEW n, SameBranch(r, n, x)
  PROVE  SameBranch(r, n, y)
<1>1. Kind[y] \in {"task", "fork"}
  BY DEF WellNested, Forks, Targets
<1>2. y # r.join /\ x \in Body(r)
  BY <1>1, RangeFacts DEF Joins, SameBranch
<1>3. y \in Body(r) /\ \A a \in Targets(r.fork) : x \in Branch(r, a) <=> y \in Branch(r, a)
  BY <1>2, SameBranchStep
<1>. QED
  BY <1>3 DEF SameBranch

\* The successors of a fork are in different branches of its range.
LEMMA BranchesSplit ==
  ASSUME WellNested, NEW r \in Ranges, NEW y \in Targets(r.fork), NEW z \in Targets(r.fork), y # z
  PROVE  Split(r, y, z)
<1>1. y \in Body(r) /\ z \in Body(r) /\ y \in Branch(r, y) /\ z \in Branch(r, z)
  BY RangeFacts, BranchFacts
<1>2. \A a \in Targets(r.fork) : ~(y \in Branch(r, a) /\ z \in Branch(r, a))
  BY <1>1, OneBranch
<1>. QED
  BY <1>1, <1>2 DEF Split

\* A row that has come to a fork is in no branch of it.
LEMMA ForkIsNew ==
  ASSUME WellNested, NEW rs, NEW w, NEW toks, WalkOK(rs, w, toks), 1 \in 1..Len(toks),
         NEW r \in Ranges, r.fork = toks[1].node
  PROVE  r \notin OwnRanges(rs, w)
<1>1. SUFFICES ASSUME NEW s \in ScopesOf(rs, w), RangeOf(s) = r
               PROVE  FALSE
  BY DEF OwnRanges
<1>2. OnItsWay(rs, w, toks, s) /\ s.join = r.join
  BY <1>1 DEF WalkOK, RangeOf
<1>3. r.fork # r.join /\ r.fork \notin Body(r) /\ r.fork \notin Ahead(r.join, r.join)
  BY RangeFacts, BeyondFacts DEF Forks, Joins
<1>. QED
  BY <1>1, <1>2, <1>3 DEF OnItsWay, SameBranch

LEMMA WalkSpreads ==
  ASSUME WellNested, NEW rs, NEW w, NEW toks, WalkOK(rs, w, toks),
         \A s \in ScopesOf(rs, w) : RangeOf(s) \in Ranges,
         NEW x \in Node, x = toks[1].node, Kind[x] = "fork",
         NEW more, Spreads(x, w, toks, more)
  PROVE  WalkOK(rs, w, more)
<1>1. PICK n \in Nat : n = Len(Succ[x])
  BY DEF Spreads
<1>2. /\ 1 \in 1..Len(toks) /\ Len(toks) \in Nat /\ Len(more) \in Nat
      /\ \A i \in 1..n : more[i].node = Succ[x][i] /\ more[i].parent = w
      /\ \A i \in n+1..Len(more) : i - n + 1 \in 2..Len(toks) /\ more[i] = toks[i - n + 1]
  BY <1>1 DEF Spreads
<1>3. DOMAIN Succ[x] = 1..n
  BY <1>1, FlowAssumption
<1>4. \A i \in 1..n : Succ[x][i] \in Targets(x) /\ Kind[Succ[x][i]] \in {"task", "fork"}
      /\ \A k \in 1..n : Succ[x][i] = Succ[x][k] => i = k
  BY <1>3 DEF WellNested, Forks, Targets
<1>5. \A i \in 1..Len(more) : \/ i \in 1..n /\ more[i].node \in Targets(x)
                              \/ i \in n+1..Len(more) /\ i - n + 1 \in 2..Len(toks) /\ more[i] = toks[i - n + 1]
  BY <1>2, <1>4
<1>6. \A i \in 1..Len(more) : more[i].parent = w
  <2> SUFFICES ASSUME NEW i \in 1..Len(more)
               PROVE  more[i].parent = w
    OBVIOUS
  <2>1. CASE i \in 1..n
    BY <1>2, <2>1
  <2>2. CASE i \in n+1..Len(more)
    <3>1. i - n + 1 \in 1..Len(toks) /\ more[i] = toks[i - n + 1]
      BY <1>2, <2>2
    <3>. QED
      BY <3>1 DEF WalkOK
  <2>. QED
    BY <1>1, <1>2, <2>1, <2>2
<1>7. \A i \in 1..Len(more) : more[i].node \in Targets(x) \/ \E j \in 1..Len(toks) : more[i] = toks[j]
  <2> SUFFICES ASSUME NEW i \in 1..Len(more), i \in n+1..Len(more)
               PROVE  \E j \in 1..Len(toks) : more[i] = toks[j]
    BY <1>5
  <2>1. i - n + 1 \in 1..Len(toks)
    BY <1>2
  <2>. QED
    BY <1>2, <2>1
<1>8. ASSUME NEW s \in ScopesOf(rs, w)
      PROVE  OnItsWay(rs, w, more, s)
  <2>1. OnItsWay(rs, w, toks, s)
    BY DEF WalkOK
  <2>2. PICK r \in Ranges : r = RangeOf(s) /\ r.join = s.join
    BY DEF RangeOf
  <2>3. x # s.join
    BY <2>2, RangeFacts DEF Joins
  <2>4. CASE \A i \in 1..Len(toks) : SameBranch(r, rs[w].node, toks[i].node)
    <3>1. \A y \in Targets(x) : SameBranch(r, rs[w].node, y)
      BY <1>2, <2>4, ForkSameBranch
    <3>2. \A i \in 1..Len(more) : SameBranch(r, rs[w].node, more[i].node)
      BY <1>7, <2>4, <3>1
    <3>. QED
      BY <2>2, <3>2 DEF OnItsWay
  <2>5. CASE /\ \A i \in 1..Len(toks) : toks[i].node \in Ahead(s.join, s.join)
             /\ \A k \in DoingIds(rs) : ~Serves(rs[k], s)
    <3>1. \A y \in Targets(x) : y \in Ahead(s.join, s.join)
      BY <1>2, <2>2, <2>5, BeyondFacts
    <3>2. \A i \in 1..Len(more) : more[i].node \in Ahead(s.join, s.join)
      BY <1>7, <2>5, <3>1
    <3>. QED
      BY <2>5, <3>2 DEF OnItsWay
  <2>. QED
    BY <1>2, <2>1, <2>2, <2>3, <2>4, <2>5 DEF OnItsWay
<1>9. ASSUME NEW i \in 1..Len(more), NEW k \in DoingIds(rs)
      PROVE  VisitApart(rs, w, more[i].node, k)
  <2>1. CASE more[i].node \in Targets(x)
    <3>1. VisitApart(rs, w, x, k)
      BY <1>2 DEF WalkOK
    <3>2. ASSUME Opened(rs, w, x, k)
          PROVE  Opened(rs, w, more[i].node, k)
      <4>1. PICK r \in Ranges \ OwnRanges(rs, w) : \E q \in Held(rs, k) :
              RangeOf(q) = r /\ q.round = w /\ Split(r, x, Pos(rs, k))
        BY <3>2 DEF Opened
      <4>2. Split(r, more[i].node, Pos(rs, k))
        BY <2>1, <4>1, ForkSplit
      <4>. QED
        BY <4>1, <4>2 DEF Opened
    <3>. QED
      BY <3>1, <3>2 DEF VisitApart
  <2>2. CASE \E j \in 1..Len(toks) : more[i] = toks[j]
    BY <2>2 DEF WalkOK
  <2>. QED
    BY <1>7, <2>1, <2>2
<1>10. PICK r0 \in Ranges : r0.fork = x /\ r0 \notin OwnRanges(rs, w)
  <2>1. PICK r0 \in Ranges : r0.fork = x
    BY NodeRanges DEF Forks
  <2>2. r0 \notin OwnRanges(rs, w)
    BY <1>2, <2>1, ForkIsNew
  <2>. QED
    BY <2>1, <2>2
<1>11. ASSUME NEW i \in 1..n, NEW k \in n+1..Len(more)
       PROVE  \E r \in Ranges \ OwnRanges(rs, w) : Split(r, more[i].node, more[k].node)
  <2>1. PICK j \in 1..Len(toks) : j # 1 /\ more[k] = toks[j]
    BY <1>2
  <2>2. PICK r \in Ranges \ OwnRanges(rs, w) : Split(r, toks[1].node, toks[j].node)
    BY <1>2, <2>1 DEF WalkOK
  <2>3. PICK y \in Targets(x) : y = more[i].node
    BY <1>2, <1>4
  <2>4. Split(r, y, toks[j].node)
    BY <2>2, ForkSplit
  <2>. QED
    BY <2>1, <2>3, <2>4
<1>12. \A i, k \in 1..Len(more) : i # k =>
         \E r \in Ranges \ OwnRanges(rs, w) : Split(r, more[i].node, more[k].node)
  <2> SUFFICES ASSUME NEW i \in 1..Len(more), NEW k \in 1..Len(more), i # k
               PROVE  \E r \in Ranges \ OwnRanges(rs, w) : Split(r, more[i].node, more[k].node)
    OBVIOUS
  <2>0. (i \in 1..n \/ i \in n+1..Len(more)) /\ (k \in 1..n \/ k \in n+1..Len(more))
    BY <1>1, <1>2
  <2>1. CASE i \in 1..n /\ k \in 1..n
    <3>1. more[i].node = Succ[x][i] /\ more[k].node = Succ[x][k]
      BY <1>2, <2>1
    <3>2. Succ[x][i] \in Targets(x) /\ Succ[x][k] \in Targets(x) /\ Succ[x][i] # Succ[x][k]
      BY <1>4, <2>1
    <3>3. Split(r0, Succ[x][i], Succ[x][k])
      BY <1>10, <3>2, BranchesSplit
    <3>. QED
      BY <1>10, <3>1, <3>3
  <2>2. CASE i \in 1..n /\ k \in n+1..Len(more)
    BY <1>11, <2>2
  <2>3. CASE k \in 1..n /\ i \in n+1..Len(more)
    <3>1. PICK r \in Ranges \ OwnRanges(rs, w) : Split(r, more[k].node, more[i].node)
      BY <1>11, <2>3
    <3>2. Split(r, more[i].node, more[k].node)
      BY <3>1 DEF Split
    <3>. QED
      BY <3>2
  <2>4. CASE i \in n+1..Len(more) /\ k \in n+1..Len(more)
    <3>1. PICK j, l \in 1..Len(toks) : j # l /\ more[i] = toks[j] /\ more[k] = toks[l]
      <4>1. PICK j, l : j = i - n + 1 /\ l = k - n + 1
        OBVIOUS
      <4>2. j \in 1..Len(toks) /\ more[i] = toks[j]
        BY <1>2, <2>4, <4>1
      <4>3. l \in 1..Len(toks) /\ more[k] = toks[l]
        BY <1>2, <2>4, <4>1
      <4>4. j # l
        BY <1>1, <4>1
      <4>. QED
        BY <4>2, <4>3, <4>4
    <3>. QED
      BY <3>1 DEF WalkOK
  <2>. QED
    BY <2>0, <2>1, <2>2, <2>3, <2>4
<1>13. \A i \in 1..Len(more) : Kind[more[i].node] \in {"task", "fork"}
  <2> SUFFICES ASSUME NEW i \in 1..Len(more)
               PROVE  Kind[more[i].node] \in {"task", "fork"}
    OBVIOUS
  <2>1. CASE i \in 1..n
    BY <1>2, <1>4, <2>1
  <2>2. CASE i \in n+1..Len(more)
    <3>1. PICK j \in 1..Len(toks) : j # 1 /\ more[i] = toks[j]
      BY <1>2, <2>2
    <3>2. \A l \in 1..Len(toks) : Kind[toks[l].node] \in {"task", "fork"}
      <4>1. Len(toks) # 1
        BY <1>2, <3>1
      <4>. QED
        BY <4>1 DEF WalkOK
    <3>. QED
      BY <3>1, <3>2
  <2>. QED
    BY <1>1, <1>2, <2>1, <2>2
<1>14. Walks(rs, w) /\ \A i \in 1..Len(rs) : \A s \in rs[i].scopes :
         s.round = w /\ RangeOf(s) \notin OwnRanges(rs, w) => rs[i].state = "doing"
  BY DEF WalkOK
<1>. QED
  BY <1>6, <1>8, <1>9, <1>12, <1>13, <1>14 DEF WalkOK

LEMMA EnterForkTokens ==
  ASSUME WellNested, IInv, BranchInv, TokenInv, EnterFork
  PROVE  TokenInv'
<1>1. PICK ns, rest, toks : ns = Succ[Here] /\ rest = Tail(todo) /\ toks = Visits(ns, By) \o rest
  OBVIOUS
<1>2. /\ todo # <<>> /\ Kind[Here] = "fork" /\ Continue(toks) /\ rows' = rows /\ inst' = inst
  BY <1>1 DEF EnterFork, At, Here, Descend
<1>3. /\ Here \in Node /\ By \in Nat /\ Fit(rows) /\ ns \in Seq(Node) /\ WalkOK(rows, By, todo)
      /\ inst \notin {"none", "finished"} /\ 1 \in 1..Len(todo) /\ todo[1].node = Here
      /\ rest \in Seq(Token) /\ Len(rest) = Len(todo) - 1 /\ Len(todo) \in Nat
      /\ \A i \in 1..Len(rest) : i + 1 \in 1..Len(todo) /\ rest[i] = todo[i+1]
  BY <1>1, <1>2, WalkFacts
<1>4. PICK v : v = Visits(ns, By) /\ v \in Seq(Token) /\ Len(v) = Len(ns)
        /\ \A i \in 1..Len(ns) : v[i].node = ns[i] /\ v[i].parent = By
  <2>1. PICK v : v = Visits(ns, By) /\ v \in Seq(Token)
    BY <1>3, VisitsType
  <2>2. DOMAIN ns = 1..Len(ns) /\ Len(ns) \in Nat
    BY <1>3
  <2>3. DOMAIN v = 1..Len(ns) /\ \A i \in 1..Len(ns) : v[i].node = ns[i] /\ v[i].parent = By
    BY <2>1, <2>2 DEF Visits
  <2>4. Len(v) = Len(ns)
    BY <2>1, <2>2, <2>3
  <2>. QED
    BY <2>1, <2>3, <2>4
<1>5. toks = v \o rest
  BY <1>1, <1>4
<1>6. /\ Len(toks) = Len(ns) + Len(rest) /\ Len(ns) \in Nat /\ Len(rest) \in Nat
      /\ \A i \in 1..Len(ns) : toks[i] = v[i]
      /\ \A i \in Len(ns)+1..Len(toks) : i - Len(ns) \in 1..Len(rest) /\ toks[i] = rest[i - Len(ns)]
  <2>1. v \in Seq(Token) /\ rest \in Seq(Token) /\ Len(v) = Len(ns)
    BY <1>3, <1>4
  <2>2. Len(ns) \in Nat /\ Len(rest) \in Nat
    BY <2>1, <1>3
  <2>3. Len(toks) = Len(v) + Len(rest)
    <3>1. ASSUME NEW S, NEW a \in Seq(S), NEW b \in Seq(S)
          PROVE  Len(a \o b) = Len(a) + Len(b)
      OBVIOUS
    <3>. QED
      BY <1>5, <2>1, <3>1
  <2>4. \A i \in 1..Len(v) : toks[i] = v[i]
    BY <1>5, <2>1, <2>2
  <2>5. \A i \in Len(v)+1..Len(toks) : i - Len(v) \in 1..Len(rest) /\ toks[i] = rest[i - Len(v)]
    BY <1>5, <2>1, <2>2, <2>3
  <2>. QED
    BY <2>1, <2>2, <2>3, <2>4, <2>5
<1>7. Spreads(Here, By, todo, toks)
  <2>1. \A i \in 1..Len(ns) : toks[i].node = ns[i] /\ toks[i].parent = By
    BY <1>4, <1>6
  <2>2. ASSUME NEW i \in Len(ns)+1..Len(toks)
        PROVE  i - Len(ns) + 1 \in 2..Len(todo) /\ toks[i] = todo[i - Len(ns) + 1]
    <3>1. PICK j \in 1..Len(rest) : j = i - Len(ns) /\ toks[i] = rest[j]
      BY <1>6
    <3>2. j + 1 \in 2..Len(todo) /\ rest[j] = todo[j+1]
      BY <1>3, <1>6
    <3>. QED
      BY <3>1, <3>2
  <2>3. Len(toks) \in Nat
    BY <1>6
  <2>. QED
    BY <1>1, <1>3, <1>6, <2>1, <2>2, <2>3 DEF Spreads
<1>8. \A s \in ScopesOf(rows, By) : RangeOf(s) \in Ranges
  BY <1>3, WalkerRanges DEF WalkOK
<1>9. WalkOK(rows, By, toks)
  BY <1>2, <1>3, <1>7, <1>8, WalkSpreads
<1>10. toks # <<>> => toks[1].parent = By
  <2>1. toks \in Seq(Token)
    BY <1>3, <1>4, <1>5
  <2>2. toks # <<>> => 1 \in 1..Len(toks)
    BY <2>1
  <2>. QED
    BY <1>9, <2>2 DEF WalkOK
<1>11. StateOK(inst', rows')
  BY <1>2 DEF TokenInv
<1>. QED
  BY <1>2, <1>3, <1>9, <1>10, <1>11, StepTokens

-----------------------------------------------------------------------------
(* The invariant.                                                          *)

LEMMA InitTokens ==
  ASSUME Init
  PROVE  TokenInv
<1>1. rows = <<>> /\ inst = "none" /\ todo = <<>> /\ saved = <<>> /\ Len(rows) = 0 /\ DOMAIN rows = {}
  BY DEF Init
<1>2. RowsFit(rows)
  BY <1>1 DEF RowsFit, DoingIds
<1>. QED
  BY <1>1, <1>2 DEF TokenInv, StateOK

LEMMA NextTokens ==
  ASSUME WellNested, Disciplined, IInv, OpeningInv, BranchInv, TokenInv, [Next]_vars
  PROVE  TokenInv'
<1>1. IInv' /\ BranchInv'
  BY NextKeeps, NextRoots, NodeRanges
<1>2. RowsOK(rows') /\ Roots(rows')
  BY <1>1 DEF IInv, BranchInv
<1>3. CASE Start
  BY <1>3, StartTokens
<1>4. CASE Withdraw
  BY <1>4, WithdrawTokens
<1>5. ASSUME NEW t \in DOMAIN rows, NEW st \in Submits, ExecuteProcessTask(t, st)
      PROVE  TokenInv'
  BY <1>2, <1>5, ExecuteTokens
<1>6. ASSUME NEW t \in DOMAIN rows, NEW k \in 1..2, AddSign(t, k)
      PROVE  TokenInv'
  BY <1>2, <1>6, AddSignTokens
<1>7. ASSUME NEW t \in DOMAIN rows, ExecuteAndJumpToEnd(t)
      PROVE  TokenInv'
  BY <1>7, RejectTokens
<1>8. ASSUME NEW t \in DOMAIN rows, RollbackToParent(t)
      PROVE  TokenInv'
  BY <1>2, <1>8, RollbackTokens
<1>9. ASSUME NEW t \in DOMAIN rows, NEW target \in JumpTargets, ExecuteAndJumpTask(t, target)
      PROVE  TokenInv'
  BY <1>2, <1>9, JumpTokens
<1>10. ASSUME NEW t \in DOMAIN rows, ExecuteAndJumpToFirstTaskNode(t)
       PROVE  TokenInv'
  BY <1>2, <1>10, ReturnTokens
<1>11. ASSUME NEW t \in DOMAIN rows, ExecuteReapply(t)
       PROVE  TokenInv'
  BY <1>2, <1>11, ReapplyTokens
<1>12. ASSUME NEW t \in DOMAIN rows, RecallTask(t)
       PROVE  FALSE
  BY <1>12 DEF Disciplined, RecallTask, Serving
<1>13. CASE Step
  BY <1>2, <1>13, EnterTaskTokens, EnterCustomTokens, EnterForkTokens, EnterJoinTokens,
     EnterDecisionTokens, DecisionFailsTokens, EnterEndTokens, EnterOtherTokens DEF Step
<1>14. CASE UNCHANGED vars
  BY <1>14 DEF vars, TokenInv
<1>. QED
  BY <1>3, <1>4, <1>5, <1>6, <1>7, <1>8, <1>9, <1>10, <1>11, <1>12, <1>13, <1>14 DEF Next, Request

LEMMA TokensInductive ==
  ASSUME WellNested, Disciplined
  PROVE  Spec => [](IInv /\ BranchInv /\ TokenInv)
<1>1. Init => BranchInv
  BY DEF Init, BranchInv, Roots
<1>2. IInv /\ BranchInv /\ [Next]_vars => BranchInv'
  BY NextRoots, NodeRanges
<1>3. Init => TokenInv
  BY InitTokens
<1>4. IInv /\ OpeningInv /\ BranchInv /\ TokenInv /\ [Next]_vars => TokenInv'
  BY NextTokens
<1>5. Init => OpeningInv
  BY DEF Init, OpeningInv, InOpening
<1>6. IInv /\ OpeningInv /\ [Next]_vars => OpeningInv'
  BY NextOpening
<1>. QED
  BY <1>1, <1>2, <1>3, <1>4, <1>5, <1>6, Inductive, PTL DEF Spec

-----------------------------------------------------------------------------
(* What the invariant says of the rows.                                    *)

LEMMA LiveRow ==
  ASSUME IInv, BranchInv, TokenInv, NEW i \in Live
  PROVE  /\ i \in 1..Len(rows) /\ i \in DoingIds(rows) /\ RowFits(rows, i) /\ FormOK(rows, i)
         /\ Kind[rows[i].node] = "task" /\ rows[i].node \in Node
         /\ Claims(rows[i]) = Held(rows, i) /\ Single(Held(rows, i))
         /\ Pos(rows, i) \in Node /\ Kind[Pos(rows, i)] = "task"
         /\ \A s \in Held(rows, i) : RangeOf(s) \in Around(Pos(rows, i))
         /\ rows[i].source = 0 => Pos(rows, i) = rows[i].node
         /\ rows[i].source # 0 => rows[i].node \in FirstNodes
<1>1. rows \in Seq(Row) /\ DOMAIN rows = 1..Len(rows) /\ RowsOK(rows) /\ Roots(rows)
      /\ \A k \in 1..Len(rows) : RowFits(rows, k)
  BY DEF IInv, TypeOK, BranchInv, TokenInv, StateOK, RowsFit
<1>2. i \in 1..Len(rows) /\ i \in DoingIds(rows) /\ rows[i].state = "doing" /\ rows[i] \in Row
  BY <1>1 DEF Live, DoingIds
<1>3. RowFits(rows, i) /\ FormOK(rows, i)
  BY <1>1, <1>2 DEF RowFits
<1>4. Kind[rows[i].node] = "task" /\ rows[i].node \in Node
  BY <1>2, <1>3 DEF FormOK, Row
<1>5. Claims(rows[i]) = Held(rows, i)
  BY <1>3, HeldIs
<1>6. /\ Pos(rows, i) \in Node /\ Kind[Pos(rows, i)] = "task" /\ Single(Held(rows, i))
      /\ \A s \in Held(rows, i) : RangeOf(s) \in Around(Pos(rows, i))
  BY <1>1, <1>2, <1>4, HeldRanges
<1>7. /\ rows[i].source = 0 => Pos(rows, i) = rows[i].node
      /\ rows[i].source # 0 => rows[i].node \in FirstNodes
  BY <1>3 DEF FormOK, Pos, Seat
<1>. QED
  BY <1>2, <1>3, <1>4, <1>5, <1>6, <1>7

LEMMA LiveApart ==
  ASSUME IInv, BranchInv, TokenInv, NEW i \in Live, NEW k \in Live, i # k
  PROVE  Parallel(rows, i, k) \/ Fellows(rows, i, k)
BY DEF TokenInv, StateOK, RowsFit, Live, Apart

\* No range lies around the first task: an applicant row is in no branch.
LEMMA FirstOutside ==
  ASSUME WellNested, NEW n \in FirstNodes
  PROVE  Around(n) = {}
BY DEF WellNested

\* What comes after a node in a branch stays in the branch, or is beyond the join.
LEMMA BranchOrBeyond ==
  ASSUME WellNested, NEW r \in Ranges, NEW a \in Targets(r.fork), NEW m \in Branch(r, a),
         NEW q \in Ranges, q.join \in Ahead(m, m), NEW n \in Ahead(q.join, q.join), n \in Body(r)
  PROVE  n \in Branch(r, a)
<1> DEFINE X == Branch(r, a) \cup {r.join} \cup Ahead(r.join, r.join)
<1>1. \A x \in X : Targets(x) \subseteq X
  <2>1. \A x \in Branch(r, a) : Targets(x) \ {r.join} \subseteq Branch(r, a)
    BY BranchFacts
  <2>2. /\ Targets(r.join) \subseteq Ahead(r.join, r.join)
        /\ \A x \in Ahead(r.join, r.join) : Targets(x) \subseteq Ahead(r.join, r.join)
    BY BeyondFacts
  <2>. QED
    BY <2>1, <2>2
<1>2. m \in X /\ (n \in X => n \in Branch(r, a))
  <2>1. n \notin Ahead(r.join, r.join) /\ n # r.join
    BY BeyondFacts, RangeFacts
  <2>. QED
    BY <2>1
<1>. HIDE DEF X
<1>3. Ahead(m, m) \subseteq X
  BY <1>1, <1>2, AheadLeast
<1>4. Ahead(q.join, q.join) \subseteq X
  BY <1>1, <1>3, AheadLeast
<1>. QED
  BY <1>2, <1>4

-----------------------------------------------------------------------------
(* The theorems.                                                           *)

\* _handle_end comes last: in a flow of nested forks, used with discipline, the end
\* node is reached only when no task is left to act on, however many branches ran.
THEOREM FinishedLeavesNothing ==
  ASSUME WellNested, Disciplined
  PROVE  Spec => []FinishedIsQuiet
<1>1. TokenInv => FinishedIsQuiet
  BY DEF TokenInv, StateOK, FinishedIsQuiet, Live
<1>. QED
  BY <1>1, TokensInductive, PTL

\* merge_ready holds every branch back: nothing is live on both sides of a join, in
\* every flow of nested forks, applicants who owe a return to a branch included.
THEOREM JoinsHoldBranches ==
  ASSUME WellNested, Disciplined
  PROVE  Spec => []JoinHoldsBranches
<1>1. IInv /\ BranchInv /\ TokenInv => JoinHoldsBranches
  <2> SUFFICES ASSUME IInv, BranchInv, TokenInv, NEW r \in Ranges,
                      NEW i \in Live, i \in Inside(r), NEW k \in Live, k \in Beyond(r.join)
               PROVE  FALSE
    BY DEF JoinHoldsBranches
  <2>1. rows[k].node \in Ahead(r.join, r.join)
    BY AheadClosed DEF Beyond, Later
  <2>2. rows[k].node \notin FirstNodes /\ rows[k].node \notin Body(r)
    BY <2>1, BeyondFacts
  <2>3. Pos(rows, k) = rows[k].node /\ rows[k].source = 0
    BY <2>2, LiveRow
  <2>4. Pos(rows, i) \in Body(r)
    <3>1. CASE \E s \in StaticScopes(rows[i].node) : s.join = r.join
      <4>1. StaticScopes(rows[i].node) = Around(rows[i].node)
        BY LiveRow, NodeRanges
      <4>2. PICK s \in Around(rows[i].node) : s.join = r.join
        BY <3>1, <4>1
      <4>3. s = r
        BY <4>2, NodeRanges DEF Around
      <4>4. rows[i].source = 0
        BY <4>2, LiveRow, FirstOutside
      <4>. QED
        BY <4>2, <4>3, <4>4, LiveRow DEF Around
    <3>2. CASE \E s \in rows[i].branch : s.join = r.join
      <4>1. PICK s \in rows[i].branch : s.join = r.join
        BY <3>2
      <4>2. s \in Held(rows, i)
        BY <4>1, LiveRow DEF Claims
      <4>3. RangeOf(s) \in Around(Pos(rows, i)) /\ RangeOf(s).join = r.join
        BY <4>1, <4>2, LiveRow DEF RangeOf
      <4>4. RangeOf(s) = r
        BY <4>3, NodeRanges DEF Around
      <4>. QED
        BY <4>3, <4>4 DEF Around
    <3>. QED
      BY <3>1, <3>2 DEF Inside
  <2>5. i # k
    BY <2>2, <2>3, <2>4
  <2>6. ~Fellows(rows, i, k)
    BY <2>2, <2>3, <2>4, LiveRow DEF Fellows
  <2>7. Parallel(rows, i, k)
    BY <2>5, <2>6, LiveApart
  <2>8. PICK q \in Ranges : Split(q, Pos(rows, i), Pos(rows, k))
    BY <2>7 DEF Parallel
  <2>9. PICK a \in Targets(q.fork) : Pos(rows, i) \in Branch(q, a)
    BY <2>8, InSomeBranch DEF Split
  <2>10. r.join \in Ahead(Pos(rows, i), Pos(rows, i))
    BY <2>4 DEF WellNested
  <2>11. Pos(rows, k) \in Branch(q, a)
    BY <2>1, <2>3, <2>8, <2>9, <2>10, BranchOrBeyond DEF Split
  <2>. QED
    BY <2>8, <2>9, <2>11 DEF Split
<1>. QED
  BY <1>1, TokensInductive, PTL

\* An add-sign node holds the flow: as long as a signer of it is open, no task
\* beyond it is, whoever was returned, revived or added.
THEOREM AddSignNodeHolds ==
  ASSUME WellNested, Disciplined
  PROVE  Spec => []AddSignHolds
<1>1. IInv /\ BranchInv /\ TokenInv => AddSignHolds
  <2> SUFFICES ASSUME IInv, BranchInv, TokenInv, NEW n \in AllowAddSign,
                      NEW i \in DoingOn(rows, n), NEW k \in Live, k \in Beyond(n)
               PROVE  FALSE
    BY DEF AddSignHolds
  <2>1. i \in Live /\ rows[i].node = n /\ n \in Node
    BY LiveRow DEF DoingOn, On, Live
  <2>2. rows[k].node # n
    BY <2>1, AheadClosed DEF Beyond, Later
  <2>3. n \notin FirstNodes
    BY ParseAssumption
  <2>4. Pos(rows, i) = n
    BY <2>1, <2>3, LiveRow
  <2>5. Around(n) = {}
    BY <2>1 DEF Disciplined, Crowded
  <2>6. ~Parallel(rows, i, k)
    BY <2>1, <2>4, <2>5, LiveRow DEF Parallel
  <2>7. Fellows(rows, i, k)
    BY <2>1, <2>2, <2>6, LiveApart
  <2>. QED
    BY <2>1, <2>2, <2>7 DEF Fellows
<1>. QED
  BY <1>1, TokensInductive, PTL

\* Where every node has one row at a time, two open tasks never stand for the same
\* branches (the _branchCtx of one or of the return it owes), so none releases a
\* join the other has still to pass.
THEOREM OneTokenInEveryBranch ==
  ASSUME WellNested, Disciplined, SingleRows
  PROVE  Spec => []OneTokenPerBranch
<1>1. IInv /\ BranchInv /\ TokenInv => OneTokenPerBranch
  <2> SUFFICES ASSUME IInv, BranchInv, TokenInv, NEW i \in Live, NEW k \in Live, i # k,
                      Claims(rows[i]) = Claims(rows[k])
               PROVE  FALSE
    BY DEF OneTokenPerBranch
  <2>1. ~Fellows(rows, i, k)
    BY LiveRow DEF Fellows, SingleRows
  <2>2. Parallel(rows, i, k)
    BY <2>1, LiveApart
  <2>3. Held(rows, i) = Held(rows, k)
    BY LiveRow
  <2>4. PICK r \in Ranges : \E s \in Held(rows, i) : \E q \in Held(rows, k) :
          RangeOf(s) = r /\ RangeOf(q) = r /\ Split(r, Pos(rows, i), Pos(rows, k))
    BY <2>2 DEF Parallel
  <2>5. PICK s \in Held(rows, i), q \in Held(rows, k) :
          RangeOf(s) = r /\ RangeOf(q) = r /\ Split(r, Pos(rows, i), Pos(rows, k))
    BY <2>4
  <2>6. s = q /\ s.fork = r.fork
    <3>1. s.join = q.join /\ s.fork = r.fork
      BY <2>5 DEF RangeOf
    <3>2. Single(Held(rows, i)) /\ q \in Held(rows, i)
      BY <2>3, LiveRow
    <3>. QED
      BY <3>1, <3>2 DEF Single
  <2>7. PICK x : x = rows[s.root].node
    OBVIOUS
  <2>8. PICK a \in Targets(r.fork) : Pos(rows, i) \in Branch(r, a)
    BY <2>5, InSomeBranch DEF Split
  <2>9. PICK b \in Targets(r.fork) : Pos(rows, k) \in Branch(r, b)
    BY <2>5, InSomeBranch DEF Split
  <2>10. \A j \in 1..Len(rows) : RoundsOK(rows, j)
    BY DEF TokenInv, StateOK, RowsFit, RowFits
  <2>11. RoundsOK(rows, Seat(rows, i)) /\ RoundsOK(rows, Seat(rows, k))
    <3>1. i \in 1..Len(rows) /\ k \in 1..Len(rows) /\ RowsOK(rows)
      BY LiveRow DEF IInv
    <3>2. Seat(rows, i) \in 1..Len(rows) /\ Seat(rows, k) \in 1..Len(rows)
      BY <3>1, SeatType
    <3>. QED
      BY <2>10, <3>2
  <2>12. x \in Branch(r, a)
    BY <2>5, <2>6, <2>7, <2>8, <2>11 DEF RoundsOK, Held, Pos
  <2>13. x \in Branch(r, b)
    BY <2>5, <2>6, <2>7, <2>9, <2>11 DEF RoundsOK, Held, Pos
  <2>14. a = b
    BY <2>12, <2>13, OneBranch
  <2>. QED
    BY <2>5, <2>8, <2>9, <2>14 DEF Split
<1>. QED
  BY <1>1, TokensInductive, PTL

\* No two members of a sequential countersign have an open task at a time, in the
\* middle of a request included.
THEOREM SequentialIsSequential ==
  ASSUME WellNested, Disciplined, PlainFirst
  PROVE  Spec => []OneSequentialAtATime
<1>1. IInv /\ BranchInv /\ TokenInv => OneSequentialAtATime
  <2> SUFFICES ASSUME IInv, BranchInv, TokenInv, NEW n \in Node, Countersign[n] = "sequential"
               PROVE  Cardinality(DoingOn(rows, n)) <= 1
    BY DEF OneSequentialAtATime
  <2>1. ASSUME NEW i \in DoingOn(rows, n), NEW k \in DoingOn(rows, n), i # k
        PROVE  FALSE
    <3>1. i \in Live /\ k \in Live /\ rows[i].node = n /\ rows[k].node = n
      BY DEF DoingOn, On, Live
    <3>2. n \notin FirstNodes
      BY DEF PlainFirst
    <3>3. Pos(rows, i) = n /\ Pos(rows, k) = n
      BY <3>1, <3>2, LiveRow
    <3>4. n \notin AllowAddSign /\ OneRow(n)
      BY ParseAssumption DEF OneRow
    <3>5. ~Fellows(rows, i, k)
      BY <3>1, <3>4 DEF Fellows
    <3>6. PICK r \in Ranges : Split(r, n, n)
      BY <2>1, <3>1, <3>3, <3>5, LiveApart DEF Parallel
    <3>. QED
      BY <3>6, InSomeBranch DEF Split
  <2>2. CASE DoingOn(rows, n) = {}
    BY <2>2, FS_EmptySet
  <2>3. CASE DoingOn(rows, n) # {}
    <3>1. PICK i \in DoingOn(rows, n) : DoingOn(rows, n) = {i}
      BY <2>1, <2>3
    <3>2. Cardinality({i}) = 1
      BY FS_Singleton, Zenon
    <3>. QED
      BY <3>1, <3>2
  <2>. QED
    BY <2>2, <2>3
<1>. QED
  BY <1>1, TokensInductive, PTL

-----------------------------------------------------------------------------
(* The end of an instance.                                                 *)

Ended == {"finished", "rejected", "withdrawn"}

\* Nobody can act on an instance that ended, nor is anything pending.
EndedInv ==
  /\ inst \in Ended => DoingIds(rows) = {}
  /\ saved # <<>> => (saved[1].inst \in Ended => DoingIds(saved[1].rows) = {})
  /\ todo # <<>> => inst \notin Ended

\* A request on an open row, that leaves the instance as it is.
LEMMA RequestEnds ==
  ASSUME EndedInv, NEW toks, NEW st, Walk(toks, st), inst \notin Ended,
         inst' \in Ended => toks = <<>> /\ DoingIds(rows') = {}
  PROVE  EndedInv'
<1>1. saved' = <<>> \/ saved' = <<[inst |-> inst, rows |-> rows, loops |-> loops]>>
  BY DEF Walk
<1>2. saved' # <<>> => saved'[1].inst = inst
  BY <1>1
<1>3. todo' = toks
  BY DEF Walk
<1>. QED
  BY <1>2, <1>3 DEF EndedInv

LEMMA StepEnds ==
  ASSUME EndedInv, NEW toks, Continue(toks), inst' \in Ended => toks = <<>> /\ DoingIds(rows') = {}
  PROVE  EndedInv'
<1>1. (saved' = <<>> \/ saved' = saved) /\ todo' = toks
  BY DEF Continue
<1>. QED
  BY <1>1 DEF EndedInv

\* Who rejects leaves no row open.
LEMMA RejectLeavesNothing ==
  ASSUME WellNested, RejectsAlone, IInv, BranchInv, TokenInv, NEW t \in DOMAIN rows, ExecuteAndJumpToEnd(t)
  PROVE  DoingIds(rows') = {}
<1>1. PICK done, n : done = Complete(rows, t) /\ n = rows[t].node
  OBVIOUS
<1>2. /\ "reject" \in Ops /\ rows[t].state = "doing" /\ rows' = ClearAddSign(done, n)
  BY <1>1 DEF ExecuteAndJumpToEnd, Serving, Open
<1>3. rows \in Seq(Row) /\ DOMAIN rows = 1..Len(rows) /\ t \in 1..Len(rows) /\ t \in Live
  BY <1>2 DEF IInv, TypeOK, Live, DoingIds
<1>4. Ranges = {}
  BY <1>2, RangeFacts DEF RejectsAlone
<1>5. ASSUME NEW k \in Live, k # t
      PROVE  rows[k].node = n /\ n \in AllowAddSign
  <2>1. ~Parallel(rows, t, k)
    BY <1>4 DEF Parallel
  <2>2. Fellows(rows, t, k)
    BY <1>3, <1>5, <2>1, LiveApart
  <2>3. OneRow(n)
    BY <1>1, <1>2, <1>3, LiveRow DEF RejectsAlone
  <2>. QED
    BY <1>1, <2>2, <2>3 DEF Fellows
<1>6. /\ done \in Seq(Row) /\ DOMAIN done = 1..Len(rows) /\ Len(done) = Len(rows)
      /\ done[t].state = "done" /\ \A i \in 1..Len(rows) \ {t} : done[i] = rows[i]
  <2>1. done = [rows EXCEPT ![t].state = "done"]
    BY <1>1 DEF Complete
  <2>2. "done" \in TaskStates /\ rows[t] \in Row
    BY <1>3 DEF TaskStates
  <2>3. PICK row : row = [rows[t] EXCEPT !.state = "done"]
    OBVIOUS
  <2>4. row \in Row /\ row.state = "done"
    BY <2>2, <2>3 DEF Row
  <2>5. done = [rows EXCEPT ![t] = row]
    BY <2>1, <2>3
  <2>. QED
    BY <1>3, <2>4, <2>5
<1>7. ASSUME NEW k \in DoingIds(done)
      PROVE  done[k].node = n /\ n \in AllowAddSign
  <2>1. k \in 1..Len(rows) /\ k # t /\ done[k] = rows[k] /\ rows[k].state = "doing"
    BY <1>6 DEF DoingIds
  <2>2. k \in Live
    BY <1>3, <2>1 DEF Live, DoingIds
  <2>. QED
    BY <1>5, <2>1, <2>2
<1>8. CASE n \notin AllowAddSign
  <2>1. rows' = done
    BY <1>2, <1>8 DEF ClearAddSign
  <2>. QED
    BY <1>7, <1>8, <2>1
<1>9. CASE n \in AllowAddSign
  <2>1. rows' = Close(done, DoingOn(done, n), "abandoned")
    BY <1>2, <1>9 DEF ClearAddSign
  <2>2. \A k \in DoingIds(done) : k \in DoingOn(done, n)
    BY <1>7 DEF DoingOn, On, DoingIds
  <2>3. DOMAIN rows' = DOMAIN done
    BY <2>1 DEF Close
  <2>4. ASSUME NEW k \in DOMAIN done
        PROVE  rows'[k].state # "doing"
    <3>1. rows'[k] = IF k \in DoingOn(done, n) THEN [done[k] EXCEPT !.state = "abandoned"] ELSE done[k]
      BY <2>1 DEF Close
    <3>2. done[k] \in Row
      BY <1>6
    <3>3. CASE k \in DoingOn(done, n)
      BY <3>1, <3>2, <3>3 DEF Row
    <3>4. CASE k \notin DoingOn(done, n)
      BY <2>2, <3>1, <3>4 DEF DoingIds
    <3>. QED
      BY <3>3, <3>4
  <2>. QED
    BY <2>3, <2>4 DEF DoingIds
<1>. QED
  BY <1>8, <1>9

LEMMA NextEnds ==
  ASSUME WellNested, Disciplined, RejectsAlone, IInv, BranchInv, TokenInv, EndedInv, Next
  PROVE  EndedInv' /\ inst \notin Ended
<1>1. rows \in Seq(Row) /\ DOMAIN rows = 1..Len(rows)
  BY DEF IInv, TypeOK
<1>2. ASSUME NEW t \in DOMAIN rows, rows[t].state = "doing"
      PROVE  inst \notin Ended
  BY <1>2 DEF EndedInv, DoingIds
<1>3. CASE Start
  <2>1. PICK n \in StartNodes : Walk(Visits(Succ[n], 0), "agree")
    BY <1>3 DEF Start
  <2>2. inst = "none" /\ inst' = "doing"
    BY <1>3 DEF Start
  <2>. QED
    BY <2>1, <2>2, RequestEnds DEF Ended
<1>4. CASE Withdraw
  <2>1. /\ inst = "doing" /\ rows' = Close(rows, DoingIds(rows), "withdrawn") /\ Walk(<<>>, "agree")
    BY <1>4 DEF Withdraw, Answer
  <2>2. DoingIds(rows') = {}
    <3>1. DOMAIN rows' = DOMAIN rows
      BY <2>1 DEF Close
    <3>2. ASSUME NEW k \in DOMAIN rows
          PROVE  rows'[k].state # "doing"
      <4>1. rows'[k] = IF k \in DoingIds(rows) THEN [rows[k] EXCEPT !.state = "withdrawn"] ELSE rows[k]
        BY <2>1 DEF Close
      <4>2. rows[k] \in Row
        BY <1>1
      <4>3. CASE k \in DoingIds(rows)
        BY <4>1, <4>2, <4>3 DEF Row
      <4>4. CASE k \notin DoingIds(rows)
        BY <4>1, <4>4 DEF DoingIds
      <4>. QED
        BY <4>3, <4>4
    <3>. QED
      BY <3>1, <3>2 DEF DoingIds
  <2>. QED
    BY <2>1, <2>2, RequestEnds DEF Ended
<1>5. ASSUME NEW t \in DOMAIN rows, ExecuteAndJumpToEnd(t)
      PROVE  EndedInv' /\ inst \notin Ended
  <2>1. rows[t].state = "doing" /\ Walk(<<>>, "agree")
    BY <1>5 DEF ExecuteAndJumpToEnd, Open, Answer
  <2>2. DoingIds(rows') = {}
    BY <1>5, RejectLeavesNothing
  <2>. QED
    BY <1>2, <2>1, <2>2, RequestEnds
<1>6. ASSUME NEW t \in DOMAIN rows,
             \/ \E st \in Submits : ExecuteProcessTask(t, st)
             \/ \E k \in 1..2 : AddSign(t, k)
             \/ RollbackToParent(t)
             \/ \E target \in JumpTargets : ExecuteAndJumpTask(t, target)
             \/ ExecuteAndJumpToFirstTaskNode(t)
             \/ ExecuteReapply(t)
      PROVE  EndedInv' /\ inst \notin Ended
  <2>1. rows[t].state = "doing" /\ inst' = inst /\ \E toks, st : Walk(toks, st)
    BY <1>6 DEF ExecuteProcessTask, AddSign, RollbackToParent, Open, Answer,
       ExecuteAndJumpTask, ExecuteAndJumpToFirstTaskNode, ExecuteReapply
  <2>2. inst \notin Ended /\ inst' \notin Ended
    BY <1>2, <2>1
  <2>. QED
    BY <2>1, <2>2, RequestEnds
<1>7. ASSUME NEW t \in DOMAIN rows, RecallTask(t)
      PROVE  FALSE
  BY <1>7 DEF Disciplined, RecallTask, Serving
<1>8. CASE Step
  <2>1. todo # <<>> /\ inst \notin Ended
    BY <1>8 DEF Step, EnterTask, EnterCustom, EnterFork, EnterJoin, EnterDecision,
       DecisionFails, EnterEnd, EnterOther, At, EndedInv
  <2>2. CASE EnterEnd
    <3>1. Kind[Here] = "end" /\ Continue(Tail(todo)) /\ rows' = rows
      BY <2>2 DEF EnterEnd, At, Here
    <3>2. Tail(todo) = <<>> /\ DoingIds(rows') = {}
      BY <2>1, <3>1, NothingBehind, EndIsAlone
    <3>. QED
      BY <2>1, <3>1, <3>2, StepEnds
  <2>3. CASE DecisionFails
    <3>1. Continue(<<>>)
      BY <2>3 DEF DecisionFails
    <3>2. CASE Transactional
      <4>1. saved # <<>>
        BY <2>1, <3>2 DEF IInv, TypeOK
      <4>2. inst' = saved[1].inst /\ rows' = saved[1].rows
        BY <2>3, <3>2 DEF DecisionFails
      <4>3. inst' \in Ended => DoingIds(rows') = {}
        BY <4>1, <4>2 DEF EndedInv
      <4>. QED
        BY <2>1, <3>1, <4>3, StepEnds
    <3>3. CASE ~Transactional
      <4>1. inst' = inst
        BY <2>3, <3>3 DEF DecisionFails
      <4>. QED
        BY <2>1, <3>1, <4>1, StepEnds
    <3>. QED
      BY <3>2, <3>3
  <2>4. CASE EnterTask \/ EnterCustom \/ EnterFork \/ EnterJoin \/ EnterDecision \/ EnterOther
    <3>1. inst' = inst /\ \E toks : Continue(toks)
      BY <2>4 DEF EnterTask, EnterCustom, EnterFork, EnterJoin, EnterDecision, EnterOther, Descend
    <3>. QED
      BY <2>1, <3>1, StepEnds
  <2>. QED
    BY <1>8, <2>2, <2>3, <2>4 DEF Step
<1>. QED
  BY <1>3, <1>4, <1>5, <1>6, <1>7, <1>8 DEF Next, Request

\* A finished, rejected or withdrawn instance is never moved to another state: no
\* row outlives it that a client could still execute, when whoever rejects it has
\* no task beside the own one that the rejection leaves open.
THEOREM EndsForGood ==
  ASSUME WellNested, Disciplined, RejectsAlone
  PROVE  Spec => TerminalFinal
<1>1. Init => EndedInv
  BY DEF Init, EndedInv, Ended
<1>2. IInv /\ BranchInv /\ TokenInv /\ EndedInv /\ [Next]_vars => EndedInv'
  <2>1. ASSUME IInv, BranchInv, TokenInv, EndedInv, UNCHANGED vars
        PROVE  EndedInv'
    BY <2>1 DEF vars, EndedInv
  <2>. QED
    BY <2>1, NextEnds
<1>3. IInv /\ BranchInv /\ TokenInv /\ EndedInv /\ [Next]_vars
        => [(inst \in {"finished", "rejected", "withdrawn"}) => inst' = inst]_vars
  BY NextEnds DEF Ended
<1>. QED
  BY <1>1, <1>2, <1>3, TokensInductive, PTL DEF Spec, TerminalFinal

-----------------------------------------------------------------------------
(* No orphan: this needs no nesting, only a flow that leads on.            *)

\* A running instance has an open row, or visits are pending; no row lies on an
\* end node, and no visit to a start node is pending.
Manned(in, rs) == in = "doing" => DoingIds(rs) # {}
Passable(rs) == \A i \in 1..Len(rs) : Kind[rs[i].node] # "end"
NoneToStart(toks) == \A i \in 1..Len(toks) : Kind[toks[i].node] # "start"
MannedInv ==
  /\ Passable(rows)
  /\ NoneToStart(todo)
  /\ todo = <<>> => Manned(inst, rows)
  /\ saved # <<>> => Passable(saved[1].rows) /\ Manned(saved[1].inst, saved[1].rows)

\* A sequence that begins with a visit is not over.
LEMMA MoreVisits ==
  ASSUME NEW ns \in Seq(Node), ns # <<>>, NEW p \in Nat, NEW toks \in Seq(Token)
  PROVE  Visits(ns, p) # <<>> /\ Visits(ns, p) \o toks # <<>>
<1>1. PICK v : v = Visits(ns, p) /\ v \in Seq(Token)
  BY VisitsType
<1>2. 1 \in DOMAIN ns
  OBVIOUS
<1>. QED
  BY <1>1, <1>2 DEF Visits

LEMMA LeadsTo ==
  ASSUME LeadsOn, NEW n \in Node, NEW m \in Targets(n)
  PROVE  Kind[m] # "start"
BY DEF LeadsOn

\* The visits to successors of a node.
LEMMA NoStartAhead ==
  ASSUME LeadsOn, NEW n \in Node, NEW p \in Nat
  PROVE  Visits(Succ[n], p) \in Seq(Token) /\ NoneToStart(Visits(Succ[n], p))
<1>1. Succ[n] \in Seq(Node)
  BY FlowAssumption
<1>2. PICK v : v = Visits(Succ[n], p) /\ v \in Seq(Token) /\ Len(v) = Len(Succ[n])
  BY <1>1, VisitsType
<1>3. ASSUME NEW i \in 1..Len(v)
      PROVE  Kind[v[i].node] # "start"
  <2>1. i \in DOMAIN Succ[n] /\ v[i].node = Succ[n][i]
    BY <1>1, <1>2 DEF Visits
  <2>2. v[i].node \in Targets(n)
    BY <2>1 DEF Targets
  <2>. QED
    BY <2>2, LeadsTo
<1>. QED
  BY <1>2, <1>3 DEF NoneToStart

\* What a request, and a step of the walk, owe to the invariant.
LEMMA RequestManned ==
  ASSUME MannedInv, todo = <<>>, NEW toks, NEW st, Walk(toks, st), NoneToStart(toks),
         Passable(rows'), toks = <<>> => Manned(inst', rows')
  PROVE  MannedInv'
<1>1. saved' = <<>> \/ saved' = <<[inst |-> inst, rows |-> rows, loops |-> loops]>>
  BY DEF Walk
<1>2. saved' # <<>> => saved'[1].inst = inst /\ saved'[1].rows = rows
  BY <1>1
<1>3. todo' = toks
  BY DEF Walk
<1>. QED
  BY <1>2, <1>3 DEF MannedInv

LEMMA StepManned ==
  ASSUME MannedInv, NEW toks, Continue(toks), NoneToStart(toks),
         Passable(rows'), toks = <<>> => Manned(inst', rows')
  PROVE  MannedInv'
<1>1. (saved' = <<>> \/ saved' = saved) /\ todo' = toks
  BY DEF Continue
<1>. QED
  BY <1>1 DEF MannedInv

\* Rows that keep their nodes, and rows that are added.
LEMMA StillPassable ==
  ASSUME NEW rs \in Seq(Row), NEW new \in Seq(Row), Evolves(rs, new), Len(new) = Len(rs), Passable(rs)
  PROVE  Passable(new)
BY DEF Evolves, Same, Passable

LEMMA Appended ==
  ASSUME NEW rs \in Seq(Row), Passable(rs), NEW r, Kind[r.node] # "end", r.state = "doing"
  PROVE  Passable(Append(rs, r)) /\ DoingIds(Append(rs, r)) # {}
<1>1. PICK S : S = Row \cup {r}
  OBVIOUS
<1>2. rs \in Seq(S) /\ r \in S
  BY <1>1
<1>3. PICK new : new = Append(rs, r)
  OBVIOUS
<1>4. PICK l \in Nat : l = Len(rs)
  BY <1>2
<1>5. new \in Seq(S) /\ Len(new) = l + 1 /\ DOMAIN new = 1..l + 1
  BY <1>2, <1>3, <1>4
<1>6. new[l + 1] = r /\ \A i \in 1..l : new[i] = rs[i]
  BY <1>2, <1>3, <1>4
<1>7. l + 1 \in DoingIds(new)
  BY <1>5, <1>6 DEF DoingIds
<1>8. ASSUME NEW i \in 1..l + 1
      PROVE  Kind[new[i].node] # "end"
  <2>1. i \in 1..l \/ i = l + 1
    BY <1>4
  <2>. QED
    BY <1>4, <1>6, <2>1 DEF Passable
<1>9. Passable(new)
  BY <1>5, <1>8 DEF Passable
<1>. QED
  BY <1>3, <1>7, <1>9

LEMMA AllAppended ==
  ASSUME NEW rs \in Seq(Row), Passable(rs), NEW S, NEW more \in Seq(S), Len(more) >= 1,
         \A i \in 1..Len(more) : Kind[more[i].node] # "end" /\ more[i].state = "doing"
  PROVE  Passable(rs \o more) /\ DoingIds(rs \o more) # {}
<1>1. PICK T : T = Row \cup S
  OBVIOUS
<1>2. rs \in Seq(T) /\ more \in Seq(T)
  BY <1>1
<1>3. PICK new : new = rs \o more
  OBVIOUS
<1>4. PICK l \in Nat, k \in Nat : l = Len(rs) /\ k = Len(more)
  BY <1>2
<1>5. /\ new \in Seq(T) /\ Len(new) = l + k
      /\ \A i \in 1..l + k : new[i] = IF i <= l THEN rs[i] ELSE more[i - l]
  <2>1. ASSUME NEW U, NEW a \in Seq(U), NEW b \in Seq(U)
        PROVE  /\ a \o b \in Seq(U) /\ Len(a \o b) = Len(a) + Len(b)
               /\ \A i \in 1..Len(a) + Len(b) : (a \o b)[i] = IF i <= Len(a) THEN a[i] ELSE b[i - Len(a)]
    BY ConcatProperties
  <2>2. rs \o more \in Seq(T) /\ Len(rs \o more) = Len(rs) + Len(more)
    BY <1>2, <2>1
  <2>3. \A i \in 1..Len(rs) + Len(more) : (rs \o more)[i] = IF i <= Len(rs) THEN rs[i] ELSE more[i - Len(rs)]
    BY <1>2, <2>1
  <2>4. new \in Seq(T)
    BY <1>3, <2>2
  <2>5. Len(new) = l + k
    BY <1>3, <1>4, <2>2
  <2>6. \A i \in 1..l + k : new[i] = IF i <= l THEN rs[i] ELSE more[i - l]
    BY <1>3, <1>4, <2>3
  <2>. QED
    BY <2>4, <2>5, <2>6
<1>6. DOMAIN new = 1..l + k
  BY <1>5
<1>7. l + 1 \in 1..l + k /\ new[l + 1] = more[1] /\ 1 \in 1..Len(more)
  <2>1. k >= 1 /\ 1 \in 1..Len(more) /\ l + 1 \in 1..l + k
    BY <1>4
  <2>. QED
    BY <1>4, <1>5, <2>1
<1>8. l + 1 \in DoingIds(new)
  BY <1>6, <1>7 DEF DoingIds
<1>9. ASSUME NEW i \in 1..l + k
      PROVE  Kind[new[i].node] # "end"
  <2>1. CASE i <= l
    BY <1>4, <1>5, <2>1 DEF Passable
  <2>2. CASE i > l
    <3>1. new[i] = more[i - l] /\ i - l \in 1..Len(more)
      BY <1>4, <1>5, <2>2
    <3>. QED
      BY <3>1
  <2>. QED
    BY <1>4, <2>1, <2>2
<1>10. Passable(new)
  BY <1>5, <1>9 DEF Passable
<1>. QED
  BY <1>3, <1>8, <1>10

\* A closed gate keeps somebody at work.
LEMMA GateHolds ==
  ASSUME LeadsOn, IInv, NEW t \in DOMAIN rows, rows[t].state = "doing", NEW done, done = Complete(rows, t),
         NEW st, ~GateOpen(done, t, st), ~NextMemberDue(done, t, st)
  PROVE  DoingIds(done) # {}
<1>1. rows \in Seq(Row) /\ DOMAIN rows = 1..Len(rows)
  BY DEF IInv, TypeOK
<1>2. done \in Seq(Row) /\ DOMAIN done = 1..Len(done) /\ Len(done) \in Nat /\ Same(rows[t], done[t])
  BY <1>1, CompleteAdvances DEF Advances, Evolves
<1>3. PICK n \in Node : n = rows[t].node /\ n = done[t].node
  <2>1. rows[t] \in Row
    BY <1>1
  <2>2. done[t].node = rows[t].node
    BY <1>2 DEF Same
  <2>. QED
    BY <2>1, <2>2 DEF Row
<1>4. Countersign[n] \in {"none", "parallel", "expression", "sequential", "unknown"}
  BY EngineAssumption DEF CsTypes
<1>5. CASE Countersign[n] = "sequential"
  BY <1>3, <1>5 DEF GateOpen, NextMemberDue
<1>6. CASE Countersign[n] = "parallel"
  BY <1>3, <1>6 DEF GateOpen
<1>7. CASE Countersign[n] = "unknown"
  BY <1>3, <1>7 DEF GateOpen
<1>8. CASE Countersign[n] = "expression"
  <2>1. PICK a, b, c : a = On(done, n) /\ b = DoingOn(done, n) /\ c = {i \in On(done, n) : done[i].state = "done"}
    OBVIOUS
  <2>2. ~CsExpr(Cardinality(a), Cardinality(b), Cardinality(c))
    BY <1>3, <1>8, <2>1 DEF GateOpen
  <2>3. IsFiniteSet(DOMAIN done)
    <3>1. DOMAIN done = 1..Len(done) /\ Len(done) \in Int /\ 1 \in Int
      BY <1>2
    <3>. QED
      BY <3>1, FS_Interval
  <2>4. a \subseteq DOMAIN done /\ c \subseteq DOMAIN done
    BY <2>1 DEF On
  <2>5. Cardinality(a) \in Nat /\ Cardinality(c) \in Nat
    BY <2>3, <2>4, FS_Subset, FS_CardinalityType
  <2>6. \A all \in Nat : \A completed \in 1..all : CsExpr(all, 0, completed)
    BY <1>8 DEF LeadsOn
  <2>7. Cardinality(b) # 0
    <3>1. t \in c /\ c \subseteq a /\ IsFiniteSet(a)
      <4>1. t \in DOMAIN done /\ done[t].state = "done"
        BY <1>1, <1>2, CompleteAdvances
      <4>2. IsFiniteSet(a)
        BY <2>3, <2>4, FS_Subset
      <4>. QED
        BY <1>3, <2>1, <4>1, <4>2 DEF On
    <3>2. Cardinality(c) <= Cardinality(a)
      BY <3>1, FS_Subset
    <3>3. Cardinality(c) # 0
      <4>1. IsFiniteSet(c) /\ c # {}
        BY <3>1, FS_Subset
      <4>. QED
        BY <4>1, FS_EmptySet
    <3>4. PICK all \in Nat, completed \in Nat : all = Cardinality(a) /\ completed = Cardinality(c)
      BY <2>5
    <3>5. completed \in 1..all
      BY <3>2, <3>3, <3>4
    <3>6. CsExpr(all, 0, completed)
      BY <2>6, <3>5
    <3>. QED
      BY <2>2, <3>4, <3>6
  <2>8. b # {}
    BY <2>7, FS_EmptySet
  <2>. QED
    BY <2>1, <2>8 DEF DoingOn
<1>9. CASE Countersign[n] = "none"
  <2>1. ~AddSignGate(done, n)
    BY <1>3, <1>9 DEF GateOpen
  <2>. QED
    BY <2>1 DEF AddSignGate, DoingOn
<1>. QED
  BY <1>4, <1>5, <1>6, <1>7, <1>8, <1>9

\* The requests.
LEMMA ExecuteManned ==
  ASSUME LeadsOn, IInv, MannedInv, NEW t \in DOMAIN rows, NEW st, ExecuteProcessTask(t, st)
  PROVE  MannedInv'
<1>1. PICK done, n : done = Complete(rows, t) /\ n = rows[t].node
  OBVIOUS
<1>2. /\ todo = <<>> /\ rows[t].state = "doing" /\ inst' = inst
      /\ \/ /\ Walk(Visits(Succ[n], t), st)
            /\ rows' = IF Countersign[n] = "none" THEN done
                       ELSE Close(done, DoingOn(done, n), "abandoned")
         \/ /\ rows' = Append(done, [Fresh(n, t, {}) EXCEPT !.loop = Loop(t) + 1])
            /\ Walk(<<>>, "agree")
         \/ /\ ~GateOpen(done, t, st) /\ ~NextMemberDue(done, t, st)
            /\ rows' = done
            /\ Walk(<<>>, "agree")
  BY <1>1 DEF ExecuteProcessTask, Serving, Open, Answer
<1>3. /\ rows \in Seq(Row) /\ t \in 1..Len(rows) /\ t \in Nat /\ n \in Node
      /\ done \in Seq(Row) /\ Len(done) = Len(rows) /\ Evolves(rows, done)
      /\ Succ[n] \in Seq(Node)
  BY <1>1, <1>2, OpenRow DEF Advances
<1>4. Passable(rows) /\ Passable(done) /\ Kind[n] # "end"
  <2>1. Passable(rows)
    BY DEF MannedInv
  <2>2. Passable(done)
    BY <1>3, <2>1, StillPassable
  <2>. QED
    BY <1>1, <1>3, <2>1, <2>2 DEF Passable
<1>5. CASE /\ Walk(Visits(Succ[n], t), st)
           /\ rows' = IF Countersign[n] = "none" THEN done
                      ELSE Close(done, DoingOn(done, n), "abandoned")
  <2>1. PICK v : v = Visits(Succ[n], t)
    OBVIOUS
  <2>2. Succ[n] # <<>>
    BY <1>3, <1>4 DEF LeadsOn
  <2>3. v # <<>>
    BY <1>3, <2>1, <2>2, MoreVisits, EmptyWalk
  <2>4. NoneToStart(v)
    BY <1>3, <2>1, NoStartAhead
  <2>5. PICK closed : closed = Close(done, DoingOn(done, n), "abandoned")
    OBVIOUS
  <2>6. DoingOn(done, n) \subseteq DoingIds(done) /\ "abandoned" \in TaskStates
    BY DEF DoingOn, TaskStates
  <2>7. Advances(done, closed) /\ Len(closed) = Len(done)
    <3>1. \A ids : ids = DoingOn(done, n) => ids \subseteq DoingIds(done)
      BY <2>6
    <3>2. PICK ids : ids = DoingOn(done, n)
      OBVIOUS
    <3>3. done \in Seq(Row) /\ ids \subseteq DoingIds(done)
      BY <1>3, <3>1, <3>2
    <3>4. "abandoned" \in TaskStates
      BY DEF TaskStates
    <3>5. Advances(done, Close(done, ids, "abandoned")) /\ Len(Close(done, ids, "abandoned")) = Len(done)
      BY <3>3, <3>4, CloseAdvances
    <3>. QED
      BY <2>5, <3>2, <3>5
  <2>8. Passable(closed)
    BY <1>3, <1>4, <2>7, StillPassable DEF Advances
  <2>9. Passable(rows')
    BY <1>4, <1>5, <2>5, <2>8
  <2>. QED
    BY <1>2, <1>5, <2>1, <2>3, <2>4, <2>9, RequestManned
<1>6. CASE /\ rows' = Append(done, [Fresh(n, t, {}) EXCEPT !.loop = Loop(t) + 1])
           /\ Walk(<<>>, "agree")
  <2>1. PICK r : r = [Fresh(n, t, {}) EXCEPT !.loop = Loop(t) + 1]
    OBVIOUS
  <2>2. r.node = n /\ r.state = "doing"
    BY <2>1 DEF Fresh
  <2>3. Passable(rows') /\ DoingIds(rows') # {}
    BY <1>3, <1>4, <1>6, <2>1, <2>2, Appended
  <2>. QED
    BY <1>2, <1>6, <2>3, RequestManned DEF NoneToStart, Manned
<1>7. CASE /\ ~GateOpen(done, t, st) /\ ~NextMemberDue(done, t, st)
           /\ rows' = done
           /\ Walk(<<>>, "agree")
  <2>1. DoingIds(rows') # {}
    BY <1>1, <1>2, <1>7, GateHolds
  <2>2. Passable(rows')
    BY <1>4, <1>7
  <2>. QED
    BY <1>2, <1>7, <2>1, <2>2, RequestManned DEF NoneToStart, Manned
<1>. QED
  BY <1>2, <1>5, <1>6, <1>7

LEMMA AddSignManned ==
  ASSUME IInv, MannedInv, NEW t \in DOMAIN rows, NEW k \in 1..2, AddSign(t, k)
  PROVE  MannedInv'
<1>1. PICK done, n : done = Complete(rows, t) /\ n = rows[t].node
  OBVIOUS
<1>2. PICK more : more = [i \in 1..k |-> Fresh(n, t, BuildScopes(done, n, t, Len(rows) + i))]
  OBVIOUS
<1>3. /\ todo = <<>> /\ rows[t].state = "doing" /\ inst' = inst /\ Walk(<<>>, "agree")
      /\ rows' = done \o more
  BY <1>1, <1>2 DEF AddSign, Serving, Open, Answer
<1>4. /\ rows \in Seq(Row) /\ t \in 1..Len(rows)
      /\ done \in Seq(Row) /\ Len(done) = Len(rows) /\ Evolves(rows, done)
  BY <1>1, <1>3, OpenRow DEF Advances
<1>5. Passable(rows) /\ Passable(done) /\ Kind[n] # "end"
  <2>1. Passable(rows)
    BY DEF MannedInv
  <2>2. Passable(done)
    BY <1>4, <2>1, StillPassable
  <2>. QED
    BY <1>1, <1>4, <2>1, <2>2 DEF Passable
<1>6. PICK S : S = {more[i] : i \in 1..k}
  OBVIOUS
<1>7. more \in [1..k -> S] /\ k \in Nat
  BY <1>2, <1>6
<1>8. more \in Seq(S) /\ Len(more) = k
  BY <1>7, FunctionIsSeq, LenProperties
<1>9. \A i \in 1..Len(more) : Kind[more[i].node] # "end" /\ more[i].state = "doing"
  BY <1>2, <1>5, <1>8 DEF Fresh
<1>10. Passable(rows') /\ DoingIds(rows') # {}
  <2>1. done \in Seq(Row) /\ Passable(done)
    BY <1>4, <1>5
  <2>2. more \in Seq(S) /\ Len(more) >= 1
    BY <1>8
  <2>3. Passable(done \o more) /\ DoingIds(done \o more) # {}
    BY <1>9, <2>1, <2>2, AllAppended
  <2>. QED
    BY <1>3, <2>3
<1>. QED
  BY <1>3, <1>10, RequestManned DEF NoneToStart, Manned

\* What the requests on one open row begin with.
LEMMA OpenPassable ==
  ASSUME IInv, MannedInv, NEW t \in DOMAIN rows, rows[t].state = "doing", NEW done, done = Complete(rows, t)
  PROVE  /\ rows \in Seq(Row) /\ t \in 1..Len(rows) /\ t \in Nat /\ rows[t] \in Row /\ RowsOK(rows)
         /\ done \in Seq(Row) /\ Len(done) = Len(rows) /\ Passable(rows) /\ Passable(done)
         /\ Kind[rows[t].node] # "end"
<1>1. /\ rows \in Seq(Row) /\ t \in 1..Len(rows) /\ t \in Nat /\ rows[t] \in Row /\ RowsOK(rows)
      /\ done \in Seq(Row) /\ Len(done) = Len(rows) /\ Evolves(rows, done)
  BY OpenRow DEF Advances
<1>2. Passable(rows)
  BY DEF MannedInv
<1>3. Passable(done)
  BY <1>1, <1>2, StillPassable
<1>. QED
  BY <1>1, <1>2, <1>3 DEF Passable

LEMMA ClearedPassable ==
  ASSUME NEW rs \in Seq(Row), Passable(rs), NEW n
  PROVE  ClearAddSign(rs, n) \in Seq(Row) /\ Passable(ClearAddSign(rs, n))
<1>1. PICK cleared : cleared = ClearAddSign(rs, n)
  OBVIOUS
<1>2. Advances(rs, cleared) /\ Len(cleared) = Len(rs)
  BY <1>1, ClearAddSignAdvances
<1>3. cleared \in Seq(Row) /\ Passable(cleared)
  BY <1>2, StillPassable DEF Advances
<1>. QED
  BY <1>1, <1>3

LEMMA RejectManned ==
  ASSUME IInv, MannedInv, NEW t \in DOMAIN rows, ExecuteAndJumpToEnd(t)
  PROVE  MannedInv'
<1>1. PICK done, n : done = Complete(rows, t) /\ n = rows[t].node
  OBVIOUS
<1>2. /\ todo = <<>> /\ rows[t].state = "doing" /\ inst' = "rejected" /\ Walk(<<>>, "agree")
      /\ rows' = ClearAddSign(done, n)
  BY <1>1 DEF ExecuteAndJumpToEnd, Serving, Open, Answer
<1>3. done \in Seq(Row) /\ Passable(done)
  BY <1>1, <1>2, OpenPassable
<1>4. Passable(rows')
  BY <1>2, <1>3, ClearedPassable
<1>. QED
  BY <1>2, <1>4, RequestManned DEF NoneToStart, Manned

LEMMA RollbackManned ==
  ASSUME IInv, MannedInv, NEW t \in DOMAIN rows, RollbackToParent(t)
  PROVE  MannedInv'
<1>1. PICK done, p : done = Complete(rows, t) /\ p = rows[t].parent
  OBVIOUS
<1>2. PICK his : his = rows[p]
  OBVIOUS
<1>3. PICK r : r = [Fresh(his.node, his.parent, his.scopes) EXCEPT
                      !.source = his.source, !.branch = his.branch]
  OBVIOUS
<1>4. /\ todo = <<>> /\ rows[t].state = "doing" /\ inst' = inst /\ Walk(<<>>, "agree")
      /\ p # 0 /\ rows' = Append(done, r)
  BY <1>1, <1>2, <1>3 DEF RollbackToParent, Serving, Open, Answer
<1>5. /\ rows \in Seq(Row) /\ t \in 1..Len(rows) /\ RowsOK(rows) /\ done \in Seq(Row)
      /\ Passable(rows) /\ Passable(done)
  BY <1>1, <1>4, OpenPassable
<1>6. p \in Nat /\ p < t
  BY <1>1, <1>4, <1>5, ParentSound
<1>7. p \in 1..Len(rows)
  BY <1>4, <1>5, <1>6
<1>8. Kind[r.node] # "end" /\ r.state = "doing"
  BY <1>2, <1>3, <1>5, <1>7 DEF Fresh, Passable
<1>9. Passable(rows') /\ DoingIds(rows') # {}
  BY <1>4, <1>5, <1>8, Appended
<1>. QED
  BY <1>4, <1>9, RequestManned DEF NoneToStart, Manned

LEMMA JumpManned ==
  ASSUME LeadsOn, IInv, MannedInv, NEW t \in DOMAIN rows, NEW target \in JumpTargets,
         ExecuteAndJumpTask(t, target)
  PROVE  MannedInv'
<1>1. PICK done, toks : done = Complete(rows, t) /\ toks = <<[node |-> target, parent |-> t]>>
  OBVIOUS
<1>2. /\ todo = <<>> /\ rows[t].state = "doing" /\ Walk(toks, "agree") /\ rows' = done
  BY <1>1 DEF ExecuteAndJumpTask, Serving, Open
<1>3. Passable(rows')
  BY <1>1, <1>2, OpenPassable
<1>4. Kind[target] # "start"
  BY DEF LeadsOn
<1>5. toks # <<>> /\ NoneToStart(toks)
  BY <1>1, <1>4 DEF NoneToStart
<1>. QED
  BY <1>2, <1>3, <1>5, RequestManned

LEMMA ReturnManned ==
  ASSUME LeadsOn, IInv, MannedInv, NEW t \in DOMAIN rows, ExecuteAndJumpToFirstTaskNode(t)
  PROVE  MannedInv'
<1>1. PICK done, n : done = Complete(rows, t) /\ n = rows[t].node
  OBVIOUS
<1>2. PICK cleared, heads : cleared = ClearAddSign(done, n) /\ heads = FirstOf({"task", "custom"})
  OBVIOUS
<1>3. PICK r : r = [Fresh(FirstOf({"task"})[1], t, {}) EXCEPT !.source = t, !.branch = rows[t].scopes]
  OBVIOUS
<1>4. /\ todo = <<>> /\ rows[t].state = "doing" /\ inst' = inst /\ "return" \in Ops
      /\ \/ Returnable(n) /\ rows' = Append(cleared, r) /\ Walk(<<>>, "agree")
         \/ /\ n \in ReturnToSource /\ ~Returnable(n)
            /\ IF Transactional THEN rows' = rows ELSE rows' = cleared
            /\ Walk(<<>>, "agree")
         \/ rows' = cleared /\ Walk(Visits(heads, t), "agree")
  BY <1>1, <1>2, <1>3 DEF ExecuteAndJumpToFirstTaskNode, Serving, Open, Answer
<1>5. /\ rows \in Seq(Row) /\ t \in 1..Len(rows) /\ t \in Nat /\ done \in Seq(Row)
      /\ Passable(rows) /\ Passable(done)
  BY <1>1, <1>4, OpenPassable
<1>6. cleared \in Seq(Row) /\ Passable(cleared)
  BY <1>2, <1>5, ClearedPassable
<1>7. CASE Returnable(n) /\ rows' = Append(cleared, r) /\ Walk(<<>>, "agree")
  <2>1. FirstOf({"task"}) # <<>>
    BY <1>7 DEF Returnable
  <2>2. PICK x \in FirstNodes : Kind[x] \in {"task"} /\ FirstOf({"task"}) = <<x>>
    BY <2>1, FirstOfNode
  <2>3. r.node = x /\ r.state = "doing"
    BY <1>3, <2>2 DEF Fresh
  <2>4. Kind[r.node] # "end"
    BY <2>2, <2>3
  <2>5. Passable(rows') /\ DoingIds(rows') # {}
    BY <1>6, <1>7, <2>3, <2>4, Appended
  <2>. QED
    BY <1>4, <1>7, <2>5, RequestManned DEF NoneToStart, Manned
<1>8. CASE /\ n \in ReturnToSource /\ ~Returnable(n)
           /\ IF Transactional THEN rows' = rows ELSE rows' = cleared
           /\ Walk(<<>>, "agree")
  <2>1. rows' = rows
    BY <1>8 DEF LeadsOn
  <2>2. DoingIds(rows') # {} /\ Passable(rows')
    BY <1>4, <1>5, <2>1 DEF DoingIds
  <2>. QED
    BY <1>4, <1>8, <2>2, RequestManned DEF NoneToStart, Manned
<1>9. CASE rows' = cleared /\ Walk(Visits(heads, t), "agree")
  <2>1. FirstOf({"task", "custom"}) # <<>>
    BY <1>4 DEF LeadsOn
  <2>2. PICK x \in FirstNodes : /\ x \in Node /\ Kind[x] \in {"task", "custom"}
                                /\ FirstOf({"task", "custom"}) = <<x>>
    BY <2>1, FirstOfNode
  <2>3. PICK toks : toks = Visits(heads, t)
    OBVIOUS
  <2>4. toks = [i \in {1} |-> [node |-> x, parent |-> t]]
    BY <1>2, <2>2, <2>3 DEF Visits
  <2>5. toks = <<[node |-> x, parent |-> t]>>
    BY <2>4
  <2>6. toks # <<>> /\ NoneToStart(toks)
    BY <2>2, <2>5 DEF NoneToStart
  <2>. QED
    BY <1>4, <1>6, <1>9, <2>3, <2>6, RequestManned
<1>. QED
  BY <1>4, <1>7, <1>8, <1>9

LEMMA ReapplyManned ==
  ASSUME IInv, MannedInv, NEW t \in DOMAIN rows, ExecuteReapply(t)
  PROVE  MannedInv'
<1>1. PICK done, s : done = Complete(rows, t) /\ s = rows[t].source
  OBVIOUS
<1>2. PICK r : r = Fresh(rows[s].node, t, rows[t].branch)
  OBVIOUS
<1>3. /\ todo = <<>> /\ rows[t].state = "doing" /\ inst' = inst /\ Walk(<<>>, "agree")
      /\ s # 0 /\ Kind[rows[s].node] = "task" /\ rows' = Append(done, r)
  BY <1>1, <1>2 DEF ExecuteReapply, Serving, Answer
<1>4. done \in Seq(Row) /\ Passable(done)
  BY <1>1, <1>3, OpenPassable
<1>5. Kind[r.node] # "end" /\ r.state = "doing"
  BY <1>2, <1>3 DEF Fresh
<1>6. Passable(rows') /\ DoingIds(rows') # {}
  BY <1>3, <1>4, <1>5, Appended
<1>. QED
  BY <1>3, <1>6, RequestManned DEF NoneToStart, Manned

LEMMA RecallManned ==
  ASSUME IInv, MannedInv, NEW t \in DOMAIN rows, RecallTask(t)
  PROVE  MannedInv'
<1>1. PICK ids : ids = Descendants(rows, t) \cap DoingIds(rows)
  OBVIOUS
<1>2. PICK undone, r : /\ undone = Close(rows, ids, "abandoned")
                       /\ r = Fresh(rows[t].node, rows[t].parent, {})
  OBVIOUS
<1>3. PICK marked : marked = [undone EXCEPT ![t].recalled = @ \cup {Len(rows) + 1}]
  OBVIOUS
<1>4. /\ todo = <<>> /\ inst' = inst /\ Walk(<<>>, "agree") /\ rows' = Append(marked, r)
  BY <1>1, <1>2, <1>3 DEF RecallTask, Serving, Answer
<1>5. rows \in Seq(Row) /\ DOMAIN rows = 1..Len(rows) /\ Passable(rows) /\ t \in 1..Len(rows)
  BY DEF IInv, TypeOK, MannedInv
<1>6. ids \subseteq DoingIds(rows) /\ "abandoned" \in TaskStates
  BY <1>1 DEF TaskStates
<1>7. Advances(rows, undone) /\ Len(undone) = Len(rows)
  BY <1>2, <1>5, <1>6, CloseAdvances
<1>8. undone \in Seq(Row) /\ Passable(undone)
  BY <1>5, <1>7, StillPassable DEF Advances
<1>9. marked \in Seq(Row) /\ Passable(marked)
  <2>1. PICK l \in Nat : l = Len(rows) + 1
    BY <1>5
  <2>2. PICK row : row = [undone[t] EXCEPT !.recalled = @ \cup {l}]
    OBVIOUS
  <2>3. undone[t] \in Row /\ t \in DOMAIN undone /\ t \in 1..Len(undone)
    BY <1>5, <1>7, <1>8
  <2>4. row \in Row /\ row.node = undone[t].node
    BY <2>2, <2>3 DEF Row
  <2>5. marked = [undone EXCEPT ![t] = row]
    BY <1>3, <2>1, <2>2
  <2>6. marked \in Seq(Row) /\ Len(marked) = Len(undone)
    BY <1>8, <2>3, <2>4, <2>5
  <2>7. \A i \in 1..Len(undone) : marked[i].node = undone[i].node
    BY <1>8, <2>3, <2>4, <2>5
  <2>. QED
    BY <1>8, <2>6, <2>7 DEF Passable
<1>10. Kind[r.node] # "end" /\ r.state = "doing"
  BY <1>2, <1>5 DEF Fresh, Passable
<1>11. Passable(rows') /\ DoingIds(rows') # {}
  BY <1>4, <1>9, <1>10, Appended
<1>. QED
  BY <1>4, <1>11, RequestManned DEF NoneToStart, Manned

LEMMA StartManned ==
  ASSUME LeadsOn, IInv, MannedInv, Start
  PROVE  MannedInv'
<1>1. PICK n \in StartNodes : Walk(Visits(Succ[n], 0), "agree")
  BY DEF Start
<1>2. todo = <<>> /\ rows' = rows
  BY DEF Start
<1>3. n \in Node /\ Kind[n] = "start"
  BY DEF StartNodes
<1>4. Succ[n] \in Seq(Node) /\ Succ[n] # <<>>
  BY <1>3, FlowAssumption DEF LeadsOn
<1>5. PICK toks : toks = Visits(Succ[n], 0)
  OBVIOUS
<1>6. toks # <<>>
  BY <1>4, <1>5, MoreVisits, EmptyWalk
<1>7. NoneToStart(toks)
  BY <1>3, <1>5, NoStartAhead
<1>8. Passable(rows')
  BY <1>2 DEF MannedInv
<1>. QED
  BY <1>1, <1>2, <1>5, <1>6, <1>7, <1>8, RequestManned

LEMMA WithdrawManned ==
  ASSUME IInv, MannedInv, Withdraw
  PROVE  MannedInv'
<1>1. /\ todo = <<>> /\ inst' = "withdrawn" /\ Walk(<<>>, "agree")
      /\ rows' = Close(rows, DoingIds(rows), "withdrawn")
  BY DEF Withdraw, Serving, Answer
<1>2. rows \in Seq(Row) /\ Passable(rows)
  BY DEF IInv, TypeOK, MannedInv
<1>3. DoingIds(rows) \subseteq DoingIds(rows) /\ "withdrawn" \in TaskStates
  BY DEF TaskStates
<1>4. Advances(rows, rows') /\ Len(rows') = Len(rows)
  BY <1>1, <1>2, <1>3, CloseAdvances
<1>5. Passable(rows')
  BY <1>2, <1>4, StillPassable DEF Advances
<1>. QED
  BY <1>1, <1>5, RequestManned DEF NoneToStart, Manned

\* The steps of the walk.
LEMMA RestManned ==
  ASSUME IInv, MannedInv, todo # <<>>
  PROVE  /\ rows \in Seq(Row) /\ Passable(rows) /\ Here \in Node /\ By \in Nat /\ Succ[Here] \in Seq(Node)
         /\ Tail(todo) \in Seq(Token) /\ NoneToStart(Tail(todo)) /\ Kind[Here] # "start"
<1>1. todo \in Seq(Token) /\ Passable(rows) /\ NoneToStart(todo)
  BY DEF IInv, TypeOK, MannedInv
<1>2. /\ rows \in Seq(Row) /\ Here \in Node /\ By \in Nat /\ Succ[Here] \in Seq(Node)
      /\ Tail(todo) \in Seq(Token)
  BY HeadFacts
<1>3. Here = todo[1].node /\ 1 \in 1..Len(todo)
  BY <1>1 DEF Here
<1>4. Kind[Here] # "start"
  BY <1>1, <1>3 DEF NoneToStart
<1>5. ASSUME NEW i \in 1..Len(Tail(todo))
      PROVE  Kind[Tail(todo)[i].node] # "start"
  <2>1. i + 1 \in 1..Len(todo) /\ Tail(todo)[i] = todo[i + 1]
    BY <1>1
  <2>. QED
    BY <1>1, <2>1 DEF NoneToStart
<1>. QED
  BY <1>1, <1>2, <1>4, <1>5 DEF NoneToStart

LEMMA NoneToStartConcat ==
  ASSUME NEW a \in Seq(Token), NEW b \in Seq(Token), NoneToStart(a), NoneToStart(b)
  PROVE  NoneToStart(a \o b)
<1>1. PICK c : c = a \o b
  OBVIOUS
<1>2. PICK l \in Nat, k \in Nat : l = Len(a) /\ k = Len(b)
  OBVIOUS
<1>3. Len(c) = l + k /\ \A i \in 1..l + k : c[i] = IF i <= l THEN a[i] ELSE b[i - l]
  BY <1>1, <1>2, ConcatProperties
<1>4. ASSUME NEW i \in 1..Len(c)
      PROVE  Kind[c[i].node] # "start"
  <2>1. CASE i <= l
    BY <1>2, <1>3, <2>1 DEF NoneToStart
  <2>2. CASE i > l
    <3>1. c[i] = b[i - l] /\ i - l \in 1..Len(b)
      BY <1>2, <1>3, <2>2
    <3>. QED
      BY <3>1 DEF NoneToStart
  <2>. QED
    BY <1>2, <1>3, <2>1, <2>2
<1>. QED
  BY <1>1, <1>4 DEF NoneToStart

\* A step that goes on to the successors of its node.
LEMMA DescendManned ==
  ASSUME LeadsOn, IInv, MannedInv, todo # <<>>, Descend(Succ[Here]), Kind[Here] # "end", Passable(rows')
  PROVE  MannedInv'
<1>1. /\ Here \in Node /\ By \in Nat /\ Succ[Here] \in Seq(Node)
      /\ Tail(todo) \in Seq(Token) /\ NoneToStart(Tail(todo))
  BY RestManned
<1>2. PICK v, rest : v = Visits(Succ[Here], By) /\ rest = Tail(todo)
  OBVIOUS
<1>3. v \in Seq(Token) /\ NoneToStart(v)
  BY <1>1, <1>2, NoStartAhead
<1>4. rest \in Seq(Token) /\ NoneToStart(rest)
  BY <1>1, <1>2
<1>5. NoneToStart(v \o rest)
  BY <1>3, <1>4, NoneToStartConcat
<1>6. Succ[Here] # <<>>
  BY <1>1 DEF LeadsOn
<1>7. v \o rest # <<>>
  BY <1>1, <1>2, <1>4, <1>6, MoreVisits, EmptyWalk
<1>8. Continue(v \o rest)
  BY <1>2 DEF Descend
<1>. QED
  BY <1>5, <1>7, <1>8, StepManned

LEMMA EnterTaskManned ==
  ASSUME IInv, MannedInv, EnterTask
  PROVE  MannedInv'
<1>1. PICK k, first : k = NewRows(Here) /\ first = IF Countersign[Here] = "sequential" THEN 0 ELSE -1
  OBVIOUS
<1>2. PICK more : more = [i \in 1..k |->
                           [Fresh(Here, By, Attached(rows, Here, By, Len(rows) + i)) EXCEPT !.loop = first]]
  OBVIOUS
<1>3. /\ todo # <<>> /\ Kind[Here] = "task" /\ inst' = inst /\ Continue(Tail(todo))
      /\ rows' = rows \o more
  BY <1>1, <1>2 DEF EnterTask, At, Here
<1>4. rows \in Seq(Row) /\ Passable(rows) /\ Here \in Node /\ NoneToStart(Tail(todo))
  BY <1>3, RestManned
<1>5. k \in Nat /\ k >= 1
  BY <1>1, <1>4, EngineAssumption DEF NewRows
<1>6. PICK S : S = {more[i] : i \in 1..k}
  OBVIOUS
<1>7. more \in [1..k -> S]
  BY <1>2, <1>6
<1>8. more \in Seq(S) /\ Len(more) = k
  BY <1>5, <1>7, FunctionIsSeq, LenProperties
<1>9. \A i \in 1..Len(more) : more[i].node = Here /\ more[i].state = "doing"
  BY <1>2, <1>8 DEF Fresh
<1>10. \A i \in 1..Len(more) : Kind[more[i].node] # "end" /\ more[i].state = "doing"
  BY <1>3, <1>9
<1>11. Passable(rows') /\ DoingIds(rows') # {}
  BY <1>3, <1>4, <1>5, <1>8, <1>10, AllAppended
<1>. QED
  BY <1>3, <1>4, <1>11, StepManned DEF Manned

LEMMA EnterCustomManned ==
  ASSUME LeadsOn, IInv, MannedInv, EnterCustom
  PROVE  MannedInv'
<1>1. PICK r : r = [Fresh(Here, By, {}) EXCEPT !.state = "done"]
  OBVIOUS
<1>2. /\ todo # <<>> /\ Kind[Here] = "custom" /\ Descend(Succ[Here])
      /\ rows' = Append(rows, r)
  BY <1>1 DEF EnterCustom, At, Here
<1>3. rows \in Seq(Row) /\ Passable(rows)
  BY <1>2, RestManned
<1>4. r.node = Here
  BY <1>1 DEF Fresh
<1>5. Passable(rows')
  <2>1. PICK S : S = Row \cup {r}
    OBVIOUS
  <2>2. rows \in Seq(S) /\ r \in S
    BY <1>3, <2>1
  <2>3. PICK new : new = rows'
    OBVIOUS
  <2>4. PICK l \in Nat : l = Len(rows)
    BY <1>3
  <2>5. Len(new) = l + 1 /\ new[l + 1] = r /\ \A i \in 1..l : new[i] = rows[i]
    BY <1>2, <2>2, <2>3, <2>4
  <2>6. ASSUME NEW i \in 1..l + 1
        PROVE  Kind[new[i].node] # "end"
    <3>1. i \in 1..l \/ i = l + 1
      BY <2>4
    <3>. QED
      BY <1>2, <1>3, <1>4, <2>4, <2>5, <3>1 DEF Passable
  <2>. QED
    BY <2>3, <2>5, <2>6 DEF Passable
<1>. QED
  BY <1>2, <1>5, DescendManned

LEMMA EnterJoinManned ==
  ASSUME LeadsOn, IInv, MannedInv, EnterJoin
  PROVE  MannedInv'
<1>1. todo # <<>> /\ Kind[Here] = "join" /\ rows' = rows /\ inst' = inst
  BY DEF EnterJoin, At, Here
<1>2. /\ Here \in Node /\ By \in Nat /\ Tail(todo) \in Seq(Token) /\ NoneToStart(Tail(todo))
      /\ Passable(rows)
  BY <1>1, RestManned
<1>3. CASE MergeReady(rows, Here, By)
  <2>1. Descend(Succ[Here])
    BY <1>3 DEF EnterJoin
  <2>. QED
    BY <1>1, <1>2, <2>1, DescendManned
<1>4. CASE ~MergeReady(rows, Here, By)
  <2>1. Continue(Visits(<<>>, By) \o Tail(todo))
    BY <1>4 DEF EnterJoin, Descend
  <2>2. Visits(<<>>, By) \o Tail(todo) = Tail(todo)
    <3>1. PICK v : v = Visits(<<>>, By) /\ v \in Seq(Token) /\ Len(v) = 0
      <4>1. <<>> \in Seq(Node) /\ Len(<<>>) = 0
        OBVIOUS
      <4>. QED
        BY <1>2, <4>1, VisitsType
    <3>2. v = <<>>
      BY <3>1
    <3>. QED
      BY <1>2, <3>1, <3>2
  <2>3. DoingIds(rows) # {}
    BY <1>4 DEF MergeReady
  <2>. QED
    BY <1>1, <1>2, <2>1, <2>2, <2>3, StepManned DEF Manned
<1>. QED
  BY <1>3, <1>4

LEMMA EnterDecisionManned ==
  ASSUME LeadsOn, IInv, MannedInv, EnterDecision
  PROVE  MannedInv'
<1>1. todo # <<>> /\ rows' = rows
  BY DEF EnterDecision, At
<1>2. /\ Here \in Node /\ By \in Nat /\ Tail(todo) \in Seq(Token) /\ NoneToStart(Tail(todo))
      /\ Succ[Here] \in Seq(Node) /\ Passable(rows)
  BY <1>1, RestManned
<1>3. PICK e \in DOMAIN Succ[Here] : Descend(<<Succ[Here][e]>>)
  BY DEF EnterDecision
<1>4. PICK m \in Node : m = Succ[Here][e] /\ m \in Targets(Here)
  BY <1>2 DEF Targets
<1>5. Kind[m] # "start"
  BY <1>2, <1>4, LeadsTo
<1>6. PICK v, rest : v = Visits(<<m>>, By) /\ rest = Tail(todo)
  OBVIOUS
<1>7. v = <<[node |-> m, parent |-> By]>>
  <2>1. v = [i \in {1} |-> [node |-> m, parent |-> By]]
    BY <1>6 DEF Visits
  <2>. QED
    BY <2>1
<1>8. v \in Seq(Token) /\ NoneToStart(v)
  BY <1>2, <1>5, <1>7 DEF Token, NoneToStart
<1>9. rest \in Seq(Token) /\ NoneToStart(rest)
  BY <1>2, <1>6
<1>10. NoneToStart(v \o rest)
  BY <1>8, <1>9, NoneToStartConcat
<1>11. v \o rest # <<>>
  BY <1>7, <1>8, <1>9
<1>12. Continue(v \o rest)
  BY <1>3, <1>4, <1>6 DEF Descend
<1>. QED
  BY <1>1, <1>2, <1>10, <1>11, <1>12, StepManned

LEMMA DecisionFailsManned ==
  ASSUME LeadsOn, IInv, MannedInv, DecisionFails
  PROVE  MannedInv'
<1>1. todo # <<>> /\ Kind[Here] = "decision" /\ DefaultEdges(Here) = {} /\ Continue(<<>>)
  BY DEF DecisionFails, At, Here
<1>2. Here \in Node
  BY <1>1, RestManned
<1>3. Transactional
  BY <1>1, <1>2 DEF LeadsOn
<1>4. saved # <<>> /\ inst' = saved[1].inst /\ rows' = saved[1].rows
  BY <1>1, <1>3 DEF DecisionFails, IInv, TypeOK
<1>5. Passable(rows') /\ Manned(inst', rows')
  BY <1>4 DEF MannedInv
<1>6. NoneToStart(<<>>)
  BY DEF NoneToStart
<1>. QED
  BY <1>1, <1>5, <1>6, StepManned

LEMMA NextManned ==
  ASSUME LeadsOn, IInv, MannedInv, [Next]_vars
  PROVE  MannedInv'
<1>1. CASE Start \/ Withdraw
  BY <1>1, StartManned, WithdrawManned
<1>2. ASSUME NEW t \in DOMAIN rows,
             \/ \E st \in Submits : ExecuteProcessTask(t, st)
             \/ \E k \in 1..2 : AddSign(t, k)
             \/ \E target \in JumpTargets : ExecuteAndJumpTask(t, target)
      PROVE  MannedInv'
  BY <1>2, ExecuteManned, AddSignManned, JumpManned
<1>3. ASSUME NEW t \in DOMAIN rows,
             \/ ExecuteAndJumpToEnd(t) \/ RollbackToParent(t)
             \/ ExecuteAndJumpToFirstTaskNode(t) \/ ExecuteReapply(t) \/ RecallTask(t)
      PROVE  MannedInv'
  BY <1>3, RejectManned, RollbackManned, ReturnManned, ReapplyManned, RecallManned
<1>4. CASE EnterTask \/ EnterCustom \/ EnterJoin \/ EnterDecision \/ DecisionFails
  BY <1>4, EnterTaskManned, EnterCustomManned, EnterJoinManned, EnterDecisionManned, DecisionFailsManned
<1>5. CASE EnterFork
  <2>1. todo # <<>> /\ Kind[Here] = "fork" /\ rows' = rows /\ Descend(Succ[Here])
    BY <1>5 DEF EnterFork, At, Here
  <2>2. Passable(rows')
    BY <2>1 DEF MannedInv
  <2>. QED
    BY <2>1, <2>2, DescendManned
<1>6. CASE EnterEnd
  <2>1. todo # <<>> /\ rows' = rows /\ inst' # "doing" /\ Continue(Tail(todo))
    BY <1>6 DEF EnterEnd, At
  <2>2. NoneToStart(Tail(todo)) /\ Passable(rows')
    BY <2>1, RestManned
  <2>. QED
    BY <2>1, <2>2, StepManned DEF Manned
<1>7. CASE EnterOther
  <2>1. todo # <<>> /\ Kind[Here] \in {"start", "other"}
    BY <1>7 DEF EnterOther
  <2>2. Here \in Node /\ Kind[Here] # "start"
    BY <2>1, RestManned
  <2>. QED
    BY <2>1, <2>2 DEF LeadsOn
<1>8. CASE UNCHANGED vars
  BY <1>8 DEF vars, MannedInv
<1>. QED
  BY <1>1, <1>2, <1>3, <1>4, <1>5, <1>6, <1>7, <1>8 DEF Next, Request, Step

\* A running instance always has a row somebody can act on: no request, and no
\* request that fails half way, leaves it "doing" with an empty to-do list, in any
\* flow that leads on, nested or not, and whatever detours its users take.
THEOREM SomebodyCanAct ==
  ASSUME LeadsOn
  PROVE  Spec => []NoOrphanInstance
<1>1. Init => MannedInv
  BY DEF Init, MannedInv, Manned, Passable, NoneToStart
<1>2. IInv /\ MannedInv /\ [Next]_vars => MannedInv'
  BY NextManned
<1>3. MannedInv => NoOrphanInstance
  BY DEF MannedInv, Manned, NoOrphanInstance, Settled, Live
<1>. QED
  BY <1>1, <1>2, <1>3, Inductive, PTL DEF Spec

-----------------------------------------------------------------------------
(* What comes out of a join. A row leaves the join of r in a round when it *)
(* bears that round in its ranges and has a row right behind the join      *)
(* below it that no reapply put there.                                     *)

Resubmits(rs, i) == rs[i].parent # 0 /\ rs[rs[i].parent].source # 0
Out(rs, i, r) ==
  i \in 1..Len(rs) /\ Kind[rs[i].node] \in {"task", "custom"} /\ rs[i].node \in Targets(r.join) /\ ~Resubmits(rs, i)
Bears(rs, p, r, d) == \E s \in ScopesOf(rs, p) : RangeOf(s) = r /\ s.round = d
Left(rs, p, r, d) == Bears(rs, p, r, d) /\ \E i \in 1..Len(rs) : Out(rs, i, r) /\ rs[i].parent = p
Holds(rs, k, r, d) == \E q \in Held(rs, k) : RangeOf(q) = r /\ q.round = d

\* What is out came through the join; nobody is left in a round that was released,
\* and one row released it.
CameThrough(rs) ==
  \A r \in Ranges : \A i \in 1..Len(rs) : Out(rs, i, r) => \E d \in Nat : Bears(rs, rs[i].parent, r, d)
Over(rs, r, d) == \A k \in DoingIds(rs) : ~Holds(rs, k, r, d)
Released(rs) ==
  /\ CameThrough(rs)
  /\ \A r \in Ranges : \A p \in 1..Len(rs) : \A d \in Nat :
       Left(rs, p, r, d) =>
         /\ Over(rs, r, d)
         /\ \A q \in 1..Len(rs) : Left(rs, q, r, d) => q = p

\* A walk that has left a round is the one that released it, and is past the join;
\* what it is to visit right behind a join it reached through that join.
WalkReleased(rs, w, toks) ==
  /\ \A r \in Ranges : \A p \in 1..Len(rs) : \A d \in Nat :
       Left(rs, p, r, d) /\ Bears(rs, w, r, d) =>
         p = w /\ \A i \in 1..Len(toks) : toks[i].node \in Ahead(r.join, r.join)
  /\ \A r \in Ranges : \A i \in 1..Len(toks) :
       toks[i].node \in Targets(r.join) /\ Kind[toks[i].node] \in {"task", "custom"} => r \in OwnRanges(rs, w)

ReleaseInv ==
  /\ Released(rows)
  /\ saved # <<>> => Released(saved[1].rows)
  /\ todo # <<>> => WalkReleased(rows, todo[1].parent, todo)

\* A row bears what it held before, and rows keep their nodes and parents.
LEMMA BearsKept ==
  ASSUME NEW old, NEW new, RowsOK(old), RowsOK(new), Evolves(old, new), NEW p \in 1..Len(old), NEW r, NEW d
  PROVE  Bears(new, p, r, d) <=> Bears(old, p, r, d)
<1>1. p \in 1..Len(new) /\ Same(old[p], new[p])
  BY SeatKept
<1>2. old \in Seq(Row) /\ new \in Seq(Row)
  BY DEF RowsOK
<1>3. ScopesOf(new, p) = ScopesOf(old, p)
  BY <1>1, <1>2 DEF ScopesOf, Same
<1>. QED
  BY <1>3 DEF Bears

LEMMA OutKept ==
  ASSUME NEW old, NEW new, RowsOK(old), RowsOK(new), Evolves(old, new), NEW i \in 1..Len(old), NEW r
  PROVE  Out(new, i, r) <=> Out(old, i, r)
<1>1. i \in 1..Len(new) /\ Same(old[i], new[i])
  BY SeatKept
<1>2. new[i].node = old[i].node /\ new[i].parent = old[i].parent
  BY <1>1 DEF Same
<1>3. Resubmits(new, i) <=> Resubmits(old, i)
  <2>1. CASE old[i].parent = 0
    BY <1>2, <2>1 DEF Resubmits
  <2>2. CASE old[i].parent # 0
    <3>1. PICK p : p = old[i].parent /\ p \in 1..Len(old)
      BY <2>2, ParentType
    <3>2. Same(old[p], new[p])
      BY <3>1, SeatKept
    <3>. QED
      BY <1>2, <2>2, <3>1, <3>2 DEF Resubmits, Same
  <2>. QED
    BY <2>1, <2>2
<1>. QED
  BY <1>1, <1>2, <1>3 DEF Out

\* The rows a request adds outside a walk hold nothing that no open row held, and
\* stand behind a join only with the parent of a row that stood there.
Harmless(old, new) ==
  \A m \in Len(old)+1..Len(new) :
    /\ Held(new, m) = {} \/ \E t \in DoingIds(old) : Held(new, m) = Held(old, t)
    /\ \/ \A r \in Ranges : ~Out(new, m, r)
       \/ \E h \in 1..Len(old) : new[m].node = old[h].node /\ new[m].parent = old[h].parent

LEMMA BearerIsRow ==
  ASSUME NEW rs \in Seq(Row), NEW p, NEW r, NEW d, Bears(rs, p, r, d)
  PROVE  p \in 1..Len(rs)
<1>1. ScopesOf(rs, p) # {}
  BY DEF Bears
<1>2. p \in DOMAIN rs
  BY <1>1 DEF ScopesOf
<1>. QED
  BY <1>2

\* What is out after it was out before it.
LEMMA OutBefore ==
  ASSUME NEW old, NEW new, RowsOK(old), RowsOK(new), Settles(old, new), Harmless(old, new),
         NEW r \in Ranges, NEW m \in 1..Len(new), Out(new, m, r)
  PROVE  \E h \in 1..Len(old) : Out(old, h, r) /\ new[m].parent = old[h].parent
<1>1. /\ old \in Seq(Row) /\ new \in Seq(Row) /\ Evolves(old, new) /\ Len(old) \in Nat /\ Len(new) \in Nat
      /\ \A i \in 1..Len(old) : i \in 1..Len(new) /\ Same(old[i], new[i])
  BY SeatKept DEF Settles, RowsOK
<1>2. CASE m \in 1..Len(old)
  <2>1. Out(old, m, r)
    BY <1>1, <1>2, OutKept
  <2>2. new[m].parent = old[m].parent
    BY <1>1, <1>2 DEF Same
  <2>. QED
    BY <1>2, <2>1, <2>2
<1>3. CASE m \in Len(old)+1..Len(new)
  <2>1. PICK h \in 1..Len(old) : new[m].node = old[h].node /\ new[m].parent = old[h].parent
    BY <1>3 DEF Harmless
  <2>2. ~Resubmits(old, h)
    <3>1. CASE old[h].parent = 0
      BY <3>1 DEF Resubmits
    <3>2. CASE old[h].parent # 0
      <4>1. PICK p : p = old[h].parent /\ p \in 1..Len(old)
        BY <3>2, ParentType
      <4>2. old[p].source = new[p].source
        BY <1>1, <4>1 DEF Same
      <4>. QED
        BY <2>1, <3>2, <4>1, <4>2 DEF Out, Resubmits
    <3>. QED
      BY <3>1, <3>2
  <2>3. Out(old, h, r)
    BY <2>1, <2>2 DEF Out
  <2>. QED
    BY <2>1, <2>3
<1>. QED
  BY <1>1, <1>2, <1>3

LEMMA LeftBefore ==
  ASSUME NEW old, NEW new, RowsOK(old), RowsOK(new), Settles(old, new), Harmless(old, new), Released(old),
         NEW r \in Ranges, NEW p, NEW d, Left(new, p, r, d)
  PROVE  p \in 1..Len(old) /\ Left(old, p, r, d)
<1>1. old \in Seq(Row) /\ new \in Seq(Row) /\ Evolves(old, new)
  BY DEF Settles, RowsOK
<1>2. PICK m \in 1..Len(new) : Bears(new, p, r, d) /\ Out(new, m, r) /\ new[m].parent = p
  BY DEF Left
<1>3. PICK h \in 1..Len(old) : Out(old, h, r) /\ p = old[h].parent
  BY <1>2, OutBefore
<1>4. PICK e \in Nat : Bears(old, p, r, e)
  BY <1>3 DEF Released, CameThrough
<1>5. p \in 1..Len(old)
  BY <1>1, <1>4, BearerIsRow
<1>6. Bears(old, p, r, d)
  BY <1>1, <1>2, <1>5, BearsKept
<1>. QED
  BY <1>3, <1>5, <1>6 DEF Left

LEMMA StillReleased ==
  ASSUME NEW old, NEW new, RowsOK(old), RowsOK(new), Settles(old, new), Harmless(old, new), Released(old)
  PROVE  Released(new)
<1>1. /\ old \in Seq(Row) /\ new \in Seq(Row) /\ Evolves(old, new) /\ Len(old) \in Nat /\ Len(new) \in Nat
      /\ \A i \in 1..Len(old) : i \in 1..Len(new) /\ Same(old[i], new[i])
  BY SeatKept DEF Settles, RowsOK
<1>2. CameThrough(new)
  <2> SUFFICES ASSUME NEW r \in Ranges, NEW m \in 1..Len(new), Out(new, m, r)
               PROVE  \E d \in Nat : Bears(new, new[m].parent, r, d)
    BY DEF CameThrough
  <2>1. PICK h \in 1..Len(old) : Out(old, h, r) /\ new[m].parent = old[h].parent
    BY OutBefore
  <2>2. PICK d \in Nat : Bears(old, old[h].parent, r, d)
    BY <2>1 DEF Released, CameThrough
  <2>3. PICK p : p = old[h].parent
    OBVIOUS
  <2>4. p \in 1..Len(old)
    BY <1>1, <2>2, <2>3, BearerIsRow
  <2>5. Bears(new, p, r, d)
    BY <1>1, <2>2, <2>3, <2>4, BearsKept
  <2>. QED
    BY <2>1, <2>3, <2>5
<1>3. ASSUME NEW r \in Ranges, NEW d, Over(old, r, d)
      PROVE  Over(new, r, d)
  <2> SUFFICES ASSUME NEW k \in DoingIds(new)
               PROVE  ~Holds(new, k, r, d)
    BY DEF Over
  <2>1. k \in 1..Len(new) /\ new[k].state = "doing"
    BY <1>1 DEF DoingIds
  <2>2. CASE k \in 1..Len(old)
    <3>1. k \in DoingIds(old)
      BY <1>1, <2>1, <2>2 DEF DoingIds, Settles
    <3>2. Held(new, k) = Held(old, k)
      BY <1>1, <2>2, SeatKept
    <3>. QED
      BY <1>3, <3>1, <3>2 DEF Over, Holds
  <2>3. CASE k \in Len(old)+1..Len(new)
    <3>1. Held(new, k) = {} \/ \E t \in DoingIds(old) : Held(new, k) = Held(old, t)
      BY <2>3 DEF Harmless
    <3>. QED
      BY <1>3, <3>1 DEF Over, Holds
  <2>. QED
    BY <1>1, <2>1, <2>2, <2>3
<1>4. ASSUME NEW r \in Ranges, NEW p \in 1..Len(new), NEW d \in Nat, Left(new, p, r, d)
      PROVE  Over(new, r, d) /\ \A q \in 1..Len(new) : Left(new, q, r, d) => q = p
  <2>1. p \in 1..Len(old) /\ Left(old, p, r, d)
    BY <1>4, LeftBefore
  <2>2. Over(old, r, d) /\ \A q \in 1..Len(old) : Left(old, q, r, d) => q = p
    BY <2>1 DEF Released
  <2>. QED
    BY <1>3, <2>2, LeftBefore
<1>. QED
  BY <1>2, <1>4 DEF Released

\* Right behind no join.
Aside(x) == \A r \in Ranges : ~(x \in Targets(r.join) /\ Kind[x] \in {"task", "custom"})

\* A walk that starts from a row that was open has left no round yet.
LEMMA SetsOut ==
  ASSUME NEW old, NEW new, RowsOK(old), RowsOK(new), Settles(old, new), Harmless(old, new), Released(old),
         NEW t \in DoingIds(old), old[t].source = 0, NEW toks, \A i \in 1..Len(toks) : Aside(toks[i].node)
  PROVE  WalkReleased(new, t, toks)
<1>1. old \in Seq(Row) /\ new \in Seq(Row) /\ Evolves(old, new) /\ t \in 1..Len(old)
  BY DEF Settles, RowsOK, DoingIds
<1>2. Held(old, t) = ScopesOf(old, t)
  BY <1>1 DEF Held, Seat, ScopesOf
<1>3. ASSUME NEW r \in Ranges, NEW p \in 1..Len(new), NEW d \in Nat, Left(new, p, r, d), Bears(new, t, r, d)
      PROVE  FALSE
  <2>1. p \in 1..Len(old) /\ Left(old, p, r, d)
    BY <1>3, LeftBefore
  <2>2. Over(old, r, d)
    BY <1>3, <2>1 DEF Released
  <2>3. Bears(old, t, r, d)
    BY <1>1, <1>3, BearsKept
  <2>4. Holds(old, t, r, d)
    BY <1>2, <2>3 DEF Bears, Holds
  <2>. QED
    BY <2>2, <2>4 DEF Over
<1>. QED
  BY <1>3 DEF WalkReleased, Aside

\* Successors of a node that is no join, and first nodes, are right behind none.
LEMMA AsideStep ==
  ASSUME WellNested, ThroughJoin, NEW m \in Node, Kind[m] # "join", NEW n \in Targets(m)
  PROVE  Aside(n)
<1> SUFFICES ASSUME NEW r \in Ranges, n \in Targets(r.join), Kind[n] \in {"task", "custom"}
             PROVE  FALSE
  BY DEF Aside
<1>1. m = r.join
  BY DEF ThroughJoin
<1>2. Kind[r.join] = "join"
  BY RangeFacts DEF Joins
<1>. QED
  BY <1>1, <1>2

LEMMA AsideFirst ==
  ASSUME WellNested, NEW n \in FirstNodes
  PROVE  Aside(n)
BY BeyondFacts DEF Aside

\* The same for a request that adds no row.
LEMMA NoMoreRows ==
  ASSUME NEW old, NEW new, RowsOK(old), Len(new) = Len(old)
  PROVE  Harmless(old, new)
BY DEF Harmless, RowsOK

LEMMA OneMoreRow ==
  ASSUME NEW old, NEW new, RowsOK(old), NEW m, m = Len(old) + 1, Len(new) = m,
         Held(new, m) = {} \/ \E t \in DoingIds(old) : Held(new, m) = Held(old, t),
         \/ \A r \in Ranges : ~Out(new, m, r)
         \/ \E h \in 1..Len(old) : new[m].node = old[h].node /\ new[m].parent = old[h].parent
  PROVE  Harmless(old, new)
<1>1. Len(old) \in Nat
  BY DEF RowsOK
<1>2. \A k \in Len(old)+1..Len(new) : k = m
  BY <1>1
<1>. QED
  BY <1>2 DEF Harmless

\* A request that starts a walk or none.
LEMMA RequestReleased ==
  ASSUME ReleaseInv, Released(rows'), NEW toks, NEW st, Walk(toks, st),
         toks # <<>> => WalkReleased(rows', toks[1].parent, toks)
  PROVE  ReleaseInv'
<1>1. saved' = <<>> \/ saved' = <<[inst |-> inst, rows |-> rows, loops |-> loops]>>
  BY DEF Walk
<1>2. saved' # <<>> => saved'[1].rows = rows
  BY <1>1
<1>3. todo' = toks
  BY DEF Walk
<1>4. saved' # <<>> => Released(saved'[1].rows)
  BY <1>2 DEF ReleaseInv
<1>. QED
  BY <1>3, <1>4 DEF ReleaseInv

LEMMA StepReleased ==
  ASSUME ReleaseInv, Released(rows'), NEW toks, Continue(toks),
         toks # <<>> => WalkReleased(rows', toks[1].parent, toks)
  PROVE  ReleaseInv'
<1>1. saved' = <<>> \/ saved' = saved
  BY DEF Continue
<1>2. todo' = toks
  BY DEF Continue
<1>3. saved' # <<>> => Released(saved'[1].rows)
  BY <1>1 DEF ReleaseInv
<1>. QED
  BY <1>2, <1>3 DEF ReleaseInv

LEMMA SettlesTrans ==
  ASSUME NEW a \in Seq(Row), NEW b \in Seq(Row), NEW c \in Seq(Row), Settles(a, b), Settles(b, c)
  PROVE  Settles(a, c)
<1>1. Evolves(a, c)
  BY EvolvesTrans DEF Settles
<1>2. Len(a) <= Len(b) /\ Len(a) \in Nat /\ Len(b) \in Nat
  BY DEF Settles, Evolves
<1>3. \A i \in 1..Len(a) : c[i].state = "doing" => a[i].state = "doing"
  BY <1>2 DEF Settles
<1>. QED
  BY <1>1, <1>3 DEF Settles

\* The row a request completes, and the rows after that.
LEMMA Underway ==
  ASSUME IInv, BranchInv, TokenInv, ReleaseInv, NEW t \in DOMAIN rows, rows[t].state = "doing",
         NEW done, done = Complete(rows, t)
  PROVE  /\ t \in 1..Len(rows) /\ t \in Nat /\ t \in DoingIds(rows) /\ rows \in Seq(Row) /\ RowsOK(rows) /\ Fit(rows)
         /\ rows[t].node \in Node /\ Released(rows) /\ Kind[rows[t].node] = "task"
         /\ done \in Seq(Row) /\ RowsOK(done) /\ Fit(done) /\ Settles(rows, done) /\ Len(done) = Len(rows)
         /\ t \in 1..Len(done) /\ Same(rows[t], done[t])
<1>1. /\ t \in 1..Len(rows) /\ t \in Nat /\ rows \in Seq(Row) /\ Fit(rows) /\ rows[t].node \in Node
  BY OpenFit
<1>2. /\ Fit(done) /\ Settles(rows, done) /\ done \in Seq(Row) /\ Len(done) = Len(rows)
      /\ t \in 1..Len(done) /\ Same(rows[t], done[t]) /\ Kind[done[t].node] = "task"
  BY <1>1, CompletedFit
<1>3. RowsOK(rows) /\ RowsOK(done) /\ Released(rows)
  BY <1>1, <1>2 DEF Fit, ReleaseInv
<1>4. t \in DoingIds(rows)
  BY <1>1 DEF DoingIds
<1>5. Kind[rows[t].node] = "task"
  BY <1>2 DEF Same
<1>. QED
  BY <1>1, <1>2, <1>3, <1>4, <1>5

\* A request that only closes rows, and may set a walk out.
LEMMA OnlyCloses ==
  ASSUME IInv, BranchInv, TokenInv, ReleaseInv, RowsOK(rows'), Settles(rows, rows'), Len(rows') = Len(rows),
         NEW toks, NEW st, Walk(toks, st),
         toks # <<>> => \E t \in DoingIds(rows) :
           rows[t].source = 0 /\ toks[1].parent = t /\ \A i \in 1..Len(toks) : Aside(toks[i].node)
  PROVE  ReleaseInv'
<1>1. RowsOK(rows) /\ Released(rows)
  BY DEF IInv, ReleaseInv
<1>2. PICK new : new = rows'
  OBVIOUS
<1>3. Harmless(rows, new)
  BY <1>1, <1>2, NoMoreRows
<1>4. Released(new)
  BY <1>1, <1>2, <1>3, StillReleased
<1>5. ASSUME toks # <<>>
      PROVE  WalkReleased(new, toks[1].parent, toks)
  <2>1. PICK t \in DoingIds(rows) :
          rows[t].source = 0 /\ toks[1].parent = t /\ \A i \in 1..Len(toks) : Aside(toks[i].node)
    BY <1>5
  <2>. QED
    BY <1>1, <1>2, <1>3, <2>1, SetsOut
<1>. QED
  BY <1>2, <1>4, <1>5, RequestReleased

\* A request that adds one row and starts no walk.
LEMMA AddsOne ==
  ASSUME IInv, ReleaseInv, NEW mid, RowsOK(mid), Settles(rows, mid), Len(mid) = Len(rows),
         NEW r \in Row, rows' = Append(mid, r), RowsOK(rows'), Walk(<<>>, "agree"),
         NEW m, m = Len(mid) + 1,
         Held(rows', m) = {} \/ \E t \in DoingIds(rows) : Held(rows', m) = Held(rows, t),
         \/ \A q \in Ranges : ~Out(rows', m, q)
         \/ \E h \in 1..Len(rows) : r.node = rows[h].node /\ r.parent = rows[h].parent
  PROVE  ReleaseInv'
<1>1. RowsOK(rows) /\ Released(rows) /\ rows \in Seq(Row) /\ mid \in Seq(Row)
  BY DEF IInv, ReleaseInv, RowsOK
<1>2. PICK new : new = rows'
  OBVIOUS
<1>3. new \in Seq(Row) /\ Len(new) = m /\ Settles(mid, new) /\ new[m] = r
  BY <1>2, AppendSettles
<1>4. Settles(rows, new)
  BY <1>1, <1>3, SettlesTrans
<1>5. Harmless(rows, new)
  BY <1>1, <1>2, <1>3, OneMoreRow
<1>6. Released(new)
  BY <1>1, <1>2, <1>4, <1>5, StillReleased
<1>. QED
  BY <1>2, <1>6, RequestReleased

\* Where a walk from a completed row sets out to.
LEMMA SuccessorsAside ==
  ASSUME WellNested, ThroughJoin, NEW n \in Node, Kind[n] # "join", NEW t \in Nat,
         NEW toks, toks = Visits(Succ[n], t)
  PROVE  /\ \A i \in 1..Len(toks) : Aside(toks[i].node)
         /\ toks # <<>> => toks[1].parent = t
<1>1. Succ[n] \in Seq(Node)
  BY FlowAssumption
<1>2. PICK ns : ns = Succ[n] /\ ns \in Seq(Node)
  BY <1>1
<1>3. /\ toks \in Seq(Token) /\ Len(toks) = Len(ns)
      /\ \A i \in 1..Len(ns) : toks[i].parent = t
  BY <1>2, VisitsType
<1>4. ASSUME NEW i \in 1..Len(toks)
      PROVE  Aside(toks[i].node)
  <2>1. i \in DOMAIN ns
    BY <1>2, <1>3
  <2>2. toks[i].node = ns[i]
    BY <1>2, <2>1 DEF Visits
  <2>3. ns[i] \in Targets(n)
    BY <1>2, <2>1 DEF Targets
  <2>. QED
    BY <2>2, <2>3, AsideStep
<1>5. toks # <<>> => 1 \in 1..Len(ns)
  BY <1>2, <1>3
<1>. QED
  BY <1>3, <1>4, <1>5

LEMMA WithdrawReleased ==
  ASSUME IInv, BranchInv, TokenInv, ReleaseInv, RowsOK(rows'), Withdraw
  PROVE  ReleaseInv'
<1>1. PICK c : c = Close(rows, DoingIds(rows), "withdrawn")
  OBVIOUS
<1>2. Fit(rows) /\ DoingIds(rows) \subseteq DoingIds(rows) /\ "withdrawn" \in TaskStates /\ "withdrawn" # "doing"
  BY DEF Fit, IInv, BranchInv, TokenInv, StateOK, TaskStates
<1>3. Settles(rows, c) /\ Len(c) = Len(rows)
  BY <1>1, <1>2, ClosedFit
<1>4. rows' = c /\ Walk(<<>>, "agree")
  BY <1>1 DEF Withdraw, Answer
<1>. QED
  BY <1>3, <1>4, OnlyCloses

LEMMA StartReleased ==
  ASSUME WellNested, IInv, ReleaseInv, Start
  PROVE  ReleaseInv'
<1>1. PICK n \in StartNodes : Walk(Visits(Succ[n], 0), "agree")
  BY DEF Start
<1>2. PICK ns, toks : ns = Succ[n] /\ toks = Visits(ns, 0)
  OBVIOUS
<1>3. ns \in Seq(Node)
  BY <1>2, FlowAssumption DEF StartNodes
<1>4. Released(rows') /\ rows' = rows
  BY DEF Start, ReleaseInv
<1>5. /\ toks \in Seq(Token) /\ Len(toks) = Len(ns)
      /\ \A i \in 1..Len(ns) : toks[i].parent = 0
  BY <1>2, <1>3, VisitsType
<1>6. ASSUME NEW i \in 1..Len(toks)
      PROVE  Aside(toks[i].node)
  <2>1. i \in DOMAIN ns /\ toks[i].node = ns[i]
    BY <1>2, <1>3, <1>5 DEF Visits
  <2>2. ns[i] \in FirstNodes
    BY <1>2, <2>1 DEF FirstNodes, Targets
  <2>. QED
    BY <2>1, <2>2, AsideFirst
<1>7. WalkReleased(rows, 0, toks)
  <2>1. \A r, d : ~Bears(rows, 0, r, d)
    <3>1. 0 \notin DOMAIN rows
      BY DEF IInv, TypeOK
    <3>. QED
      BY <3>1 DEF Bears, ScopesOf
  <2>. QED
    BY <1>6, <2>1 DEF WalkReleased, Aside
<1>8. toks # <<>> => toks[1].parent = 0
  BY <1>3, <1>5
<1>. QED
  BY <1>1, <1>2, <1>4, <1>7, <1>8, RequestReleased

LEMMA RejectReleased ==
  ASSUME IInv, BranchInv, TokenInv, ReleaseInv, RowsOK(rows'), NEW t \in DOMAIN rows, ExecuteAndJumpToEnd(t)
  PROVE  ReleaseInv'
<1>1. PICK done : done = Complete(rows, t)
  OBVIOUS
<1>2. PICK c : c = ClearAddSign(done, rows[t].node)
  OBVIOUS
<1>3. rows[t].state = "doing" /\ rows' = c /\ Walk(<<>>, "agree")
  BY <1>1, <1>2 DEF ExecuteAndJumpToEnd, Open, Answer
<1>4. /\ rows \in Seq(Row) /\ done \in Seq(Row) /\ Fit(done) /\ Settles(rows, done) /\ Len(done) = Len(rows)
  BY <1>1, <1>3, Underway
<1>5. Settles(done, c) /\ c \in Seq(Row) /\ Len(c) = Len(done)
  BY <1>2, <1>4, ClearedFit
<1>6. Settles(rows, c)
  BY <1>4, <1>5, SettlesTrans
<1>. QED
  BY <1>3, <1>4, <1>5, <1>6, OnlyCloses

LEMMA JumpReleased ==
  ASSUME WellNested, ThroughJoin, IInv, BranchInv, TokenInv, ReleaseInv, RowsOK(rows'),
         NEW t \in DOMAIN rows, NEW target \in JumpTargets, ExecuteAndJumpTask(t, target)
  PROVE  ReleaseInv'
<1>1. PICK done, toks : done = Complete(rows, t) /\ toks = <<[node |-> target, parent |-> t]>>
  OBVIOUS
<1>2. /\ rows[t].state = "doing" /\ rows[t].source = 0 /\ rows' = done /\ Walk(toks, "agree") /\ "jump" \in Ops
  BY <1>1 DEF ExecuteAndJumpTask, Open, Serving
<1>3. Settles(rows, done) /\ Len(done) = Len(rows) /\ t \in DoingIds(rows)
  BY <1>1, <1>2, Underway
<1>4. Aside(target)
  BY <1>2 DEF Aside, ThroughJoin
<1>5. toks[1].parent = t /\ \A i \in 1..Len(toks) : Aside(toks[i].node)
  BY <1>1, <1>4
<1>. QED
  BY <1>2, <1>3, <1>5, OnlyCloses

LEMMA ExecuteReleased ==
  ASSUME WellNested, ThroughJoin, IInv, BranchInv, TokenInv, ReleaseInv, RowsOK(rows'),
         NEW t \in DOMAIN rows, NEW st \in Submits, ExecuteProcessTask(t, st)
  PROVE  ReleaseInv'
<1>1. PICK done, n : done = Complete(rows, t) /\ n = rows[t].node
  OBVIOUS
<1>2. rows[t].state = "doing" /\ rows[t].source = 0
  BY DEF ExecuteProcessTask, Open
<1>3. /\ t \in 1..Len(rows) /\ t \in Nat /\ t \in DoingIds(rows) /\ rows \in Seq(Row) /\ RowsOK(rows) /\ Fit(rows)
      /\ n \in Node /\ Kind[n] = "task"
      /\ done \in Seq(Row) /\ RowsOK(done) /\ Fit(done) /\ Settles(rows, done) /\ Len(done) = Len(rows)
      /\ t \in 1..Len(done) /\ Same(rows[t], done[t])
  BY <1>1, <1>2, Underway
<1>4. \/ /\ rows' = done \/ rows' = Close(done, DoingOn(done, n), "abandoned")
         /\ Walk(Visits(Succ[n], t), st)
      \/ /\ NextMemberDue(done, t, st)
         /\ rows' = Append(done, [Fresh(n, t, {}) EXCEPT !.loop = Loop(t) + 1])
         /\ Walk(<<>>, "agree")
      \/ rows' = done /\ Walk(<<>>, "agree")
  BY <1>1 DEF ExecuteProcessTask, Answer
<1>5. PICK c : c = Close(done, DoingOn(done, n), "abandoned")
  OBVIOUS
<1>6. Settles(rows, c) /\ Len(c) = Len(rows)
  <2>1. PICK ids : ids = DoingOn(done, n) /\ ids \subseteq DoingIds(done)
    BY DEF DoingOn
  <2>2. "abandoned" \in TaskStates /\ "abandoned" # "doing"
    BY DEF TaskStates
  <2>3. PICK e : e = Close(done, ids, "abandoned")
    OBVIOUS
  <2>4. Settles(done, e) /\ e \in Seq(Row) /\ Len(e) = Len(done)
    <3>1. Fit(done) /\ ids \subseteq DoingIds(done)
      BY <1>3, <2>1
    <3>. QED
      BY <2>2, <2>3, <3>1, ClosedFit
  <2>5. c = e
    BY <1>5, <2>1, <2>3
  <2>. QED
    BY <1>3, <2>4, <2>5, SettlesTrans
<1>7. CASE /\ rows' = done \/ rows' = c
           /\ Walk(Visits(Succ[n], t), st)
  <2>1. PICK toks : toks = Visits(Succ[n], t)
    OBVIOUS
  <2>2. /\ \A i \in 1..Len(toks) : Aside(toks[i].node)
        /\ toks # <<>> => toks[1].parent = t
    BY <1>3, <2>1, SuccessorsAside
  <2>3. Settles(rows, rows') /\ Len(rows') = Len(rows)
    BY <1>3, <1>6, <1>7
  <2>. QED
    BY <1>2, <1>3, <1>7, <2>1, <2>2, <2>3, OnlyCloses
<1>8. CASE /\ NextMemberDue(done, t, st)
           /\ rows' = Append(done, [Fresh(n, t, {}) EXCEPT !.loop = Loop(t) + 1])
           /\ Walk(<<>>, "agree")
  <2>1. PICK f : f = Fresh(n, t, {}) /\ f \in Row /\ f.scopes = {} /\ f.branch = {}
    BY <1>3, FreshRanges
  <2>2. f.node = n /\ f.source = 0
    BY <2>1 DEF Fresh
  <2>3. PICK l : l = Loop(t) + 1 /\ l \in Int
    BY <1>3, LoopType DEF IInv
  <2>4. PICK r : r = [f EXCEPT !.loop = l]
    OBVIOUS
  <2>5. r \in Row /\ r.scopes = {} /\ r.node = n /\ r.source = 0
    BY <2>1, <2>2, <2>3, <2>4 DEF Row
  <2>6. rows' = Append(done, r)
    BY <1>8, <2>1, <2>3, <2>4
  <2>7. PICK m : m = Len(done) + 1
    OBVIOUS
  <2>8. rows'[m] = r
    BY <1>3, <2>5, <2>6, <2>7, AppendSettles
  <2>9. Held(rows', m) = {}
    BY <2>5, <2>8 DEF Held, Seat
  <2>10. ASSUME NEW q \in Ranges
         PROVE  ~Out(rows', m, q)
    <3>1. Countersign[n] = "sequential" /\ Loop(t) >= 0 /\ Loop(t) + 1 < Members[n]
      BY <1>1, <1>8 DEF NextMemberDue, HasNextMember
    <3>2. Members[n] \in Nat /\ Loop(t) \in Int
      BY <1>3, LoopType, EngineAssumption DEF IInv
    <3>3. ~(Members[n] <= 1)
      BY <3>1, <3>2
    <3>4. n \notin Targets(q.join)
      BY <1>3, <3>1, <3>3 DEF ThroughJoin
    <3>. QED
      BY <2>5, <2>8, <3>4 DEF Out
  <2>. QED
    BY <1>3, <1>8, <2>5, <2>6, <2>7, <2>9, <2>10, AddsOne
<1>9. CASE rows' = done /\ Walk(<<>>, "agree")
  BY <1>3, <1>9, OnlyCloses
<1>. QED
  BY <1>4, <1>5, <1>7, <1>8, <1>9

LEMMA AddSignReleased ==
  ASSUME WellNested, Disciplined, ThroughJoin, IInv, BranchInv, TokenInv, ReleaseInv, RowsOK(rows'),
         NEW t \in DOMAIN rows, NEW k \in 1..2, AddSign(t, k)
  PROVE  ReleaseInv'
<1>1. PICK done, n : done = Complete(rows, t) /\ n = rows[t].node
  OBVIOUS
<1>2. rows[t].state = "doing" /\ n \in AllowAddSign /\ Walk(<<>>, "agree")
  BY <1>1 DEF AddSign, Open, Answer
<1>3. /\ t \in 1..Len(rows) /\ t \in Nat /\ rows \in Seq(Row) /\ RowsOK(rows) /\ Released(rows)
      /\ n \in Node /\ Kind[n] = "task" /\ done \in Seq(Row) /\ RowsOK(done) /\ Settles(rows, done)
      /\ Len(done) = Len(rows)
  BY <1>1, <1>2, Underway
<1>4. Around(n) = {}
  BY <1>2, <1>3 DEF Crowded, Disciplined
<1>5. PICK more : /\ more = [i \in 1..k |-> Fresh(n, t, BuildScopes(done, n, t, Len(rows) + i))]
                  /\ rows' = done \o more
  BY <1>1 DEF AddSign
<1>6. ASSUME NEW i \in 1..k
      PROVE  more[i] \in Row /\ more[i].scopes = {} /\ more[i].node = n /\ more[i].source = 0
  <2>1. PICK B : B = BuildScopes(done, n, t, Len(rows) + i)
    OBVIOUS
  <2>2. Len(rows) + i \in Nat
    BY <1>3
  <2>3. \A s \in B : RangeOf(s) \in Around(n)
    BY <1>3, <2>1, <2>2, BuildScopesRanges
  <2>4. more[i] = Fresh(n, t, {})
    BY <1>4, <1>5, <2>1, <2>3
  <2>. QED
    BY <1>3, <2>4, FreshRanges DEF Fresh
<1>7. more \in Seq(Row) /\ Len(more) = k
  <2>1. more \in [1..k -> Row]
    BY <1>5, <1>6
  <2>. QED
    BY <2>1, FunctionIsSeq
<1>8. PICK new : new = done \o more
  OBVIOUS
<1>9. /\ new \in Seq(Row) /\ Settles(done, new)
      /\ \A m \in Len(done)+1..Len(new) : m - Len(done) \in 1..k /\ new[m] = more[m - Len(done)]
  BY <1>3, <1>7, <1>8, ConcatSettles
<1>10. Harmless(rows, new)
  <2> SUFFICES ASSUME NEW m \in Len(rows)+1..Len(new)
               PROVE  Held(new, m) = {} /\ \A r \in Ranges : ~Out(new, m, r)
    BY DEF Harmless
  <2>1. PICK i \in 1..k : new[m] = more[i]
    BY <1>3, <1>9
  <2>2. new[m].scopes = {} /\ new[m].node = n /\ new[m].source = 0
    BY <1>6, <2>1
  <2>3. Held(new, m) = {}
    BY <2>2 DEF Held, Seat
  <2>4. \A r \in Ranges : ~Out(new, m, r)
    BY <1>2, <2>2 DEF Out, ThroughJoin
  <2>. QED
    BY <2>3, <2>4
<1>11. Settles(rows, new)
  BY <1>3, <1>9, SettlesTrans
<1>12. Released(new)
  BY <1>3, <1>5, <1>8, <1>10, <1>11, StillReleased
<1>. QED
  BY <1>2, <1>5, <1>8, <1>12, RequestReleased

\* The revived row holds what the row that is rolled back held, and stands where its
\* parent stood.
LEMMA RollbackReleased ==
  ASSUME WellNested, IInv, BranchInv, TokenInv, ReleaseInv, RowsOK(rows'),
         NEW t \in DOMAIN rows, RollbackToParent(t)
  PROVE  ReleaseInv'
<1>1. PICK p, his, done, n :
        p = rows[t].parent /\ his = rows[rows[t].parent] /\ done = Complete(rows, t) /\ n = rows[t].node
  OBVIOUS
<1>2. /\ rows[t].state = "doing" /\ rows[t].source = 0 /\ p # 0
      /\ Walk(<<>>, "agree") /\ CanReject(n, his.node)
      /\ rows' = Append(done, [Fresh(his.node, his.parent, his.scopes) EXCEPT
                                 !.source = his.source, !.branch = his.branch])
  BY <1>1 DEF RollbackToParent, Open, Answer
<1>3. /\ t \in 1..Len(rows) /\ t \in Nat /\ t \in DoingIds(rows) /\ rows \in Seq(Row) /\ RowsOK(rows) /\ Fit(rows)
      /\ n \in Node /\ Kind[n] = "task"
      /\ done \in Seq(Row) /\ RowsOK(done) /\ Settles(rows, done) /\ Len(done) = Len(rows)
  BY <1>1, <1>2, Underway
<1>4. p \in 1..Len(rows) /\ p < t /\ his = rows[p] /\ his \in Row
  <2>1. p \in 1..Len(rows) /\ p < t
    BY <1>1, <1>2, <1>3, ParentType
  <2>. QED
    BY <1>1, <1>3, <2>1
<1>5. PICK f : /\ f = Fresh(his.node, his.parent, his.scopes) /\ f \in Row
               /\ f.scopes = his.scopes
  BY <1>4, FreshRanges DEF Row
<1>6. f.node = his.node /\ f.parent = his.parent
  BY <1>5 DEF Fresh
<1>7. PICK r : r = [f EXCEPT !.source = his.source, !.branch = his.branch]
  OBVIOUS
<1>8. /\ r \in Row /\ r.scopes = his.scopes /\ r.source = his.source
      /\ r.node = his.node /\ r.parent = his.parent
  <2>1. r \in Row /\ r.scopes = his.scopes
    <3>1. his \in Row
      BY <1>4
    <3>2. f \in Row /\ f.scopes = his.scopes
      BY <1>5
    <3>. QED
      BY <1>7, <3>1, <3>2 DEF Row
  <2>2. r.source = his.source /\ r.node = f.node /\ r.parent = f.parent
    BY <1>5, <1>7 DEF Row
  <2>. QED
    BY <1>6, <2>1, <2>2
<1>9. rows' = Append(done, r)
  BY <1>2, <1>5, <1>7
<1>10. PICK m, new : m = Len(done) + 1 /\ new = rows'
  OBVIOUS
<1>11. /\ Settles(done, new) /\ new[m] = r /\ new \in Seq(Row)
       /\ \A i \in 1..Len(done) : i < m /\ new[i] = done[i]
  BY <1>3, <1>8, <1>9, <1>10, AppendSettles
<1>12. /\ RowFits(rows, t) /\ RowFits(rows, p) /\ ParentOK(rows, t) /\ FormOK(rows, p)
  BY <1>3, <1>4 DEF Fit, RowsFit, RowFits
<1>13. Kind[his.node] = "task" /\ (his.source # 0 => n = Pos(rows, p))
  BY <1>1, <1>2, <1>3, <1>4, <1>12 DEF ParentOK
<1>14. Linked(Pos(rows, p), n)
  <2>1. CASE his.source = 0
    <3>1. Pos(rows, p) = his.node
      BY <1>4, <2>1 DEF Pos, Seat
    <3>2. his.node \in Node
      BY <1>4 DEF Row
    <3>. QED
      BY <1>2, <1>3, <1>13, <3>1, <3>2, CanRejectLinked
  <2>2. CASE his.source # 0
    BY <1>13, <2>2, LinkedSelf
  <2>. QED
    BY <2>1, <2>2
<1>15. Held(rows, t) = Held(rows, p)
  BY <1>1, <1>2, <1>3, <1>4, <1>14, SameRanges
<1>16. Held(new, p) = Held(rows, p)
  <2>1. Settles(rows, new)
    BY <1>3, <1>11, SettlesTrans
  <2>. QED
    BY <1>3, <1>4, <2>1, SeatKept DEF Settles
<1>17. Held(new, m) = Held(new, p)
  <2>1. new[p].scopes = his.scopes /\ new[p].source = his.source
    <3>1. p \in 1..Len(done) /\ new[p] = done[p]
      BY <1>3, <1>4, <1>11
    <3>2. Same(rows[p], done[p])
      BY <1>3, <1>4 DEF Settles, Evolves
    <3>. QED
      BY <1>4, <3>1, <3>2 DEF Same
  <2>2. CASE his.source = 0
    BY <1>8, <1>11, <2>1, <2>2 DEF Held, Seat
  <2>3. CASE his.source # 0
    BY <1>8, <1>11, <2>1, <2>3 DEF Held, Seat
  <2>. QED
    BY <2>2, <2>3
<1>18. \E k \in DoingIds(rows) : Held(rows', m) = Held(rows, k)
  BY <1>3, <1>10, <1>15, <1>16, <1>17
<1>19. \E h \in 1..Len(rows) : r.node = rows[h].node /\ r.parent = rows[h].parent
  BY <1>4, <1>8
<1>. QED
  BY <1>2, <1>3, <1>8, <1>9, <1>10, <1>18, <1>19, AddsOne

LEMMA ReapplyReleased ==
  ASSUME WellNested, IInv, BranchInv, TokenInv, ReleaseInv, RowsOK(rows'), NEW t \in DOMAIN rows, ExecuteReapply(t)
  PROVE  ReleaseInv'
<1>1. PICK done, c, br : done = Complete(rows, t) /\ c = rows[t].source /\ br = rows[t].branch
  OBVIOUS
<1>2. /\ rows[t].state = "doing" /\ Walk(<<>>, "agree") /\ c # 0
      /\ rows' = Append(done, Fresh(rows[c].node, t, br))
  BY <1>1 DEF ExecuteReapply, Answer
<1>3. /\ t \in 1..Len(rows) /\ t \in Nat /\ t \in DoingIds(rows) /\ rows \in Seq(Row) /\ RowsOK(rows) /\ Fit(rows)
      /\ done \in Seq(Row) /\ RowsOK(done) /\ Settles(rows, done) /\ Len(done) = Len(rows)
      /\ t \in 1..Len(done) /\ Same(rows[t], done[t])
  BY <1>1, <1>2, Underway
<1>4. Held(rows, t) = br
  <2>1. FormOK(rows, t)
    BY <1>3 DEF Fit, RowsFit, RowFits
  <2>. QED
    BY <1>1, <1>2, <2>1 DEF FormOK, Held, Seat
<1>5. PICK x : x = rows[c].node /\ x \in Node
  <2>1. c = Seat(rows, t)
    BY <1>1, <1>2 DEF Seat
  <2>2. rows[c] \in Row
    BY <1>3, <2>1, SeatType
  <2>. QED
    BY <2>2 DEF Row
<1>6. br \in SUBSET Scope
  <2>1. rows[t] \in Row
    BY <1>3
  <2>. QED
    BY <1>1, <2>1 DEF Row
<1>7. PICK r : r = Fresh(x, t, br) /\ r \in Row /\ r.scopes = br
  BY <1>3, <1>5, <1>6, FreshRanges
<1>8. r.parent = t /\ r.source = 0
  BY <1>7 DEF Fresh
<1>9. rows' = Append(done, r)
  BY <1>2, <1>5, <1>7
<1>10. PICK m, new : m = Len(done) + 1 /\ new = rows'
  OBVIOUS
<1>11. /\ new[m] = r /\ new[t] = done[t]
  BY <1>3, <1>7, <1>9, <1>10, AppendSettles
<1>12. Held(new, m) = Held(rows, t)
  BY <1>4, <1>7, <1>8, <1>11 DEF Held, Seat
<1>13. new[t].source = c
  BY <1>1, <1>3, <1>11 DEF Same
<1>14. Resubmits(new, m)
  BY <1>2, <1>3, <1>8, <1>11, <1>13 DEF Resubmits
<1>15. \A q \in Ranges : ~Out(rows', m, q)
  BY <1>10, <1>14 DEF Out
<1>. QED
  BY <1>2, <1>3, <1>7, <1>9, <1>10, <1>12, <1>15, AddsOne

LEMMA ReturnReleased ==
  ASSUME WellNested, IInv, BranchInv, TokenInv, ReleaseInv, RowsOK(rows'),
         NEW t \in DOMAIN rows, ExecuteAndJumpToFirstTaskNode(t)
  PROVE  ReleaseInv'
<1>1. PICK n, done, cleared, first :
        /\ n = rows[t].node /\ done = Complete(rows, t)
        /\ cleared = ClearAddSign(done, n) /\ first = FirstOf({"task"})[1]
  OBVIOUS
<1>2. rows[t].state = "doing" /\ rows[t].source = 0
  BY <1>1 DEF ExecuteAndJumpToFirstTaskNode, Open
<1>3. /\ t \in 1..Len(rows) /\ t \in Nat /\ t \in DoingIds(rows) /\ rows \in Seq(Row) /\ RowsOK(rows) /\ Fit(rows)
      /\ done \in Seq(Row) /\ Fit(done) /\ Settles(rows, done) /\ Len(done) = Len(rows)
      /\ t \in 1..Len(done) /\ Same(rows[t], done[t])
  BY <1>1, <1>2, Underway
<1>4. Fit(cleared) /\ Settles(done, cleared) /\ cleared \in Seq(Row) /\ Len(cleared) = Len(done)
  BY <1>1, <1>3, ClearedFit
<1>5. /\ Settles(rows, cleared) /\ Len(cleared) = Len(rows) /\ RowsOK(cleared) /\ t \in 1..Len(cleared)
      /\ Same(rows[t], cleared[t])
  <2>1. Settles(rows, cleared)
    BY <1>3, <1>4, SettlesTrans
  <2>2. Len(cleared) = Len(rows) /\ RowsOK(cleared) /\ t \in 1..Len(cleared)
    BY <1>3, <1>4 DEF Fit
  <2>3. Same(rows[t], cleared[t])
    BY <1>3, <2>1 DEF Settles, Evolves
  <2>. QED
    BY <2>1, <2>2, <2>3
<1>6. \/ /\ Returnable(n)
         /\ rows' = Append(cleared, [Fresh(first, t, {}) EXCEPT !.source = t, !.branch = rows[t].scopes])
         /\ Walk(<<>>, "agree")
      \/ rows' = rows /\ Walk(<<>>, "agree")
      \/ rows' = cleared /\ Walk(<<>>, "agree")
      \/ /\ rows' = cleared
         /\ Walk(Visits(FirstOf({"task", "custom"}), t), "agree")
  BY <1>1 DEF ExecuteAndJumpToFirstTaskNode, Answer
<1>7. CASE /\ Returnable(n)
           /\ rows' = Append(cleared, [Fresh(first, t, {}) EXCEPT !.source = t, !.branch = rows[t].scopes])
           /\ Walk(<<>>, "agree")
  <2>1. first \in FirstNodes /\ first \in Node
    <3>1. PICK x \in FirstNodes : x \in Node /\ Kind[x] \in {"task"} /\ FirstOf({"task"}) = <<x>>
      BY <1>7, FirstOfNode DEF Returnable
    <3>. QED
      BY <1>1, <3>1
  <2>2. PICK f : f = Fresh(first, t, {}) /\ f \in Row
    BY <1>3, <2>1, FreshRanges
  <2>3. f.node = first
    BY <2>2 DEF Fresh
  <2>4. PICK sc : sc = rows[t].scopes /\ sc \in SUBSET Scope
    <3>1. rows[t] \in Row
      BY <1>3
    <3>. QED
      BY <3>1 DEF Row
  <2>5. PICK r : r = [f EXCEPT !.source = t, !.branch = sc]
    OBVIOUS
  <2>6. /\ r \in Row /\ r.source = t /\ r.node = first
    <3>1. r \in Row
      BY <1>3, <2>2, <2>4, <2>5 DEF Row
    <3>2. r.source = t /\ r.node = f.node
      BY <2>2, <2>5 DEF Row
    <3>. QED
      BY <2>3, <3>1, <3>2
  <2>7. rows' = Append(cleared, r)
    BY <1>7, <2>2, <2>4, <2>5
  <2>8. PICK m, new : m = Len(cleared) + 1 /\ new = rows'
    OBVIOUS
  <2>9. new[m] = r /\ new[t] = cleared[t]
    BY <1>4, <1>5, <2>6, <2>7, <2>8, AppendSettles
  <2>10. Held(new, m) = Held(rows, t)
    <3>1. new[t].scopes = sc
      BY <1>5, <2>4, <2>9 DEF Same
    <3>2. t # 0
      BY <1>3
    <3>. QED
      BY <1>2, <2>4, <2>6, <2>9, <3>1, <3>2 DEF Held, Seat
  <2>11. \A q \in Ranges : ~Out(rows', m, q)
    <3>1. Aside(first)
      BY <2>1, AsideFirst
    <3>. QED
      BY <2>6, <2>8, <2>9, <3>1 DEF Out, Aside
  <2>. QED
    BY <1>3, <1>5, <1>7, <2>6, <2>7, <2>8, <2>10, <2>11, AddsOne
<1>8. CASE (rows' = rows \/ rows' = cleared) /\ Walk(<<>>, "agree")
  <2>1. Settles(rows, rows)
    BY <1>3 DEF Settles, Evolves, Same, RowsOK
  <2>2. Settles(rows, rows') /\ Len(rows') = Len(rows)
    BY <1>5, <1>8, <2>1
  <2>. QED
    BY <1>8, <2>2, OnlyCloses
<1>9. CASE rows' = cleared /\ Walk(Visits(FirstOf({"task", "custom"}), t), "agree")
  <2>1. PICK toks, ns : toks = Visits(ns, t) /\ ns = FirstOf({"task", "custom"})
    OBVIOUS
  <2>2. ASSUME toks # <<>>
        PROVE  toks[1].parent = t /\ \A i \in 1..Len(toks) : Aside(toks[i].node)
    <3>1. ns # <<>>
      BY <2>1, <2>2 DEF Visits
    <3>2. PICK x \in FirstNodes : ns = <<x>>
      BY <2>1, <3>1, FirstOfNode
    <3>3. toks = <<[node |-> x, parent |-> t]>>
      BY <2>1, <3>2 DEF Visits
    <3>4. Aside(x)
      BY AsideFirst
    <3>. QED
      BY <3>3, <3>4
  <2>. QED
    BY <1>2, <1>3, <1>5, <1>9, <2>1, <2>2, OnlyCloses
<1>. QED
  BY <1>6, <1>7, <1>8, <1>9

\* The walk goes on to successors of the node it is at or to visits that were due.
LEMMA WalkOn ==
  ASSUME WellNested, ThroughJoin, NEW rs, NEW w, NEW toks, WalkReleased(rs, w, toks), 1 \in 1..Len(toks),
         NEW x \in Node, x = toks[1].node,
         \A r \in Ranges : x = r.join => r \in OwnRanges(rs, w),
         NEW more,
         \A i \in 1..Len(more) : more[i].node \in Targets(x) \/ \E k \in 1..Len(toks) : more[i].node = toks[k].node
  PROVE  WalkReleased(rs, w, more)
<1>1. ASSUME NEW r \in Ranges, NEW p \in 1..Len(rs), NEW d \in Nat, Left(rs, p, r, d), Bears(rs, w, r, d)
      PROVE  p = w /\ \A i \in 1..Len(more) : more[i].node \in Ahead(r.join, r.join)
  <2>1. p = w /\ \A k \in 1..Len(toks) : toks[k].node \in Ahead(r.join, r.join)
    BY <1>1 DEF WalkReleased
  <2>2. \A n \in Targets(x) : n \in Ahead(r.join, r.join)
    BY <2>1, BeyondFacts
  <2>. QED
    BY <2>1, <2>2
<1>2. ASSUME NEW r \in Ranges, NEW i \in 1..Len(more),
             more[i].node \in Targets(r.join), Kind[more[i].node] \in {"task", "custom"}
      PROVE  r \in OwnRanges(rs, w)
  <2>1. CASE more[i].node \in Targets(x)
    <3>1. x = r.join
      BY <1>2, <2>1 DEF ThroughJoin
    <3>. QED
      BY <3>1
  <2>2. CASE \E k \in 1..Len(toks) : more[i].node = toks[k].node
    BY <1>2, <2>2 DEF WalkReleased
  <2>. QED
    BY <2>1, <2>2
<1>. QED
  BY <1>1, <1>2 DEF WalkReleased

\* The visit of a task or record node leaves its rows there.
Lands(old, new, w, x) ==
  \A m \in Len(old)+1..Len(new) :
    /\ new[m].node = x /\ new[m].parent = w /\ new[m].source = 0
    /\ \A s \in new[m].scopes :
         /\ RangeOf(s) \in Around(x)
         /\ s \in ScopesOf(old, w) \/ (RangeOf(s) \notin OwnRanges(old, w) /\ s.round = w)

LEMMA Landed ==
  ASSUME WellNested, NEW old, Fit(old), NEW new, RowsOK(new), Settles(old, new), NEW w \in Nat,
         NEW toks, WalkOK(old, w, toks), 1 \in 1..Len(toks), NEW x, x = toks[1].node,
         Kind[x] \in {"task", "custom"}, Lands(old, new, w, x),
         Released(old), WalkReleased(old, w, toks)
  PROVE  Released(new) /\ WalkReleased(new, w, toks)
<1>1. /\ old \in Seq(Row) /\ new \in Seq(Row) /\ Evolves(old, new) /\ RowsOK(old)
      /\ Len(old) \in Nat /\ Len(new) \in Nat
      /\ \A i \in 1..Len(old) : i \in 1..Len(new) /\ Same(old[i], new[i])
  BY SeatKept DEF Settles, RowsOK, Fit
<1>2. /\ ScopesOf(new, w) = ScopesOf(old, w) /\ OwnRanges(new, w) = OwnRanges(old, w)
      /\ \A r, d : Bears(new, w, r, d) <=> Bears(old, w, r, d)
  <2>1. ScopesOf(new, w) = ScopesOf(old, w) /\ OwnRanges(new, w) = OwnRanges(old, w)
    BY <1>1, WalkerKept DEF WalkOK
  <2>. QED
    BY <2>1 DEF Bears
<1>3. ASSUME NEW r \in Ranges, x \in Targets(r.join)
      PROVE  x \in Ahead(r.join, r.join) /\ x \notin Body(r) /\ x # r.join
  BY <1>3, BeyondFacts
<1>4. ASSUME NEW r \in Ranges, NEW d, x \in Targets(r.join), Bears(old, w, r, d)
      PROVE  Over(old, r, d) /\ \A i \in 1..Len(toks) : toks[i].node \in Ahead(r.join, r.join)
  <2>1. PICK s \in ScopesOf(old, w) : RangeOf(s) = r /\ s.round = d
    BY <1>4 DEF Bears
  <2>2. s.fork = r.fork /\ s.join = r.join
    BY <2>1 DEF RangeOf
  <2>3. OnItsWay(old, w, toks, s)
    BY <2>1 DEF WalkOK
  <2>4. ~SameBranch(RangeOf(s), old[w].node, x) /\ x # s.join
    BY <1>3, <1>4, <2>1, <2>2 DEF SameBranch
  <2>5. /\ \A i \in 1..Len(toks) : toks[i].node \in Ahead(s.join, s.join)
        /\ \A k \in DoingIds(old) : ~Serves(old[k], s)
    BY <2>3, <2>4 DEF OnItsWay
  <2>6. ASSUME NEW k \in DoingIds(old)
        PROVE  ~Holds(old, k, r, d)
    <3>1. k \in 1..Len(old)
      BY <1>1 DEF DoingIds
    <3>2. FormOK(old, k)
      BY <3>1 DEF Fit, RowsFit, RowFits
    <3>3. \A q \in Held(old, k) : ~(q.fork = s.fork /\ q.join = s.join /\ q.round = s.round)
      BY <2>5, <3>2, HeldIs
    <3>. QED
      BY <2>1, <2>2, <3>3 DEF Holds, RangeOf
  <2>. QED
    BY <2>2, <2>5, <2>6 DEF Over
<1>5. ASSUME NEW r \in Ranges, NEW d, NEW m \in Len(old)+1..Len(new), Holds(new, m, r, d)
      PROVE  x \in Body(r) /\ (Bears(old, w, r, d) \/ (r \notin OwnRanges(old, w) /\ d = w))
  <2>1. Held(new, m) = new[m].scopes
    BY <1>5 DEF Lands, Held, Seat
  <2>2. PICK s \in new[m].scopes : RangeOf(s) = r /\ s.round = d
    BY <1>5, <2>1 DEF Holds
  <2>3. /\ RangeOf(s) \in Around(x)
        /\ s \in ScopesOf(old, w) \/ (RangeOf(s) \notin OwnRanges(old, w) /\ s.round = w)
    BY <1>5, <2>2 DEF Lands
  <2>. QED
    BY <2>2, <2>3 DEF Around, Bears
<1>6. ASSUME NEW r, NEW d, Over(old, r, d), \A m \in Len(old)+1..Len(new) : ~Holds(new, m, r, d)
      PROVE  Over(new, r, d)
  <2> SUFFICES ASSUME NEW k \in DoingIds(new)
               PROVE  ~Holds(new, k, r, d)
    BY DEF Over
  <2>1. k \in 1..Len(new) /\ new[k].state = "doing"
    BY <1>1 DEF DoingIds
  <2>2. CASE k \in 1..Len(old)
    <3>1. k \in DoingIds(old)
      BY <1>1, <2>1, <2>2 DEF DoingIds, Settles
    <3>2. Held(new, k) = Held(old, k)
      BY <1>1, <2>2, SeatKept
    <3>. QED
      BY <1>6, <3>1, <3>2 DEF Over, Holds
  <2>. QED
    BY <1>1, <1>6, <2>1, <2>2
<1>7. ASSUME NEW r \in Ranges, NEW p \in 1..Len(old), NEW d \in Nat, Left(old, p, r, d)
      PROVE  Over(new, r, d)
  <2>1. Over(old, r, d)
    BY <1>7 DEF Released
  <2>2. ASSUME NEW m \in Len(old)+1..Len(new), Holds(new, m, r, d)
        PROVE  FALSE
    <3>1. CASE Bears(old, w, r, d)
      <4>1. x \in Ahead(r.join, r.join)
        BY <1>7, <3>1 DEF WalkReleased
      <4>. QED
        BY <1>5, <2>2, <4>1, BeyondFacts
    <3>2. CASE r \notin OwnRanges(old, w) /\ d = w
      <4>1. PICK s \in ScopesOf(old, p) : RangeOf(s) = r /\ s.round = w
        BY <1>7, <3>2 DEF Left, Bears
      <4>2. s \in old[p].scopes
        BY <1>1, <4>1 DEF ScopesOf
      <4>3. old[p].state = "doing"
        BY <3>2, <4>1, <4>2 DEF WalkOK
      <4>4. PICK i \in 1..Len(old) : old[i].parent = p
        BY <1>7 DEF Left
      <4>5. old[old[i].parent].state = "done"
        BY <1>1, <4>4, ParentType
      <4>. QED
        BY <4>3, <4>4, <4>5
    <3>. QED
      BY <1>5, <2>2, <3>1, <3>2
  <2>. QED
    BY <1>6, <2>1, <2>2
<1>8. ASSUME NEW r \in Ranges, NEW m \in 1..Len(new), Out(new, m, r)
      PROVE  \/ m \in 1..Len(old) /\ Out(old, m, r) /\ new[m].parent = old[m].parent
             \/ m \in Len(old)+1..Len(new) /\ x \in Targets(r.join) /\ new[m].parent = w
  <2>1. CASE m \in 1..Len(old)
    <3>1. Out(old, m, r)
      BY <1>1, <1>8, <2>1, OutKept
    <3>. QED
      BY <1>1, <2>1, <3>1 DEF Same
  <2>2. CASE m \in Len(old)+1..Len(new)
    BY <1>8, <2>2 DEF Lands, Out
  <2>. QED
    BY <1>1, <2>1, <2>2
<1>9. CameThrough(new)
  <2> SUFFICES ASSUME NEW r \in Ranges, NEW m \in 1..Len(new), Out(new, m, r)
               PROVE  \E d \in Nat : Bears(new, new[m].parent, r, d)
    BY DEF CameThrough
  <2>1. CASE Out(old, m, r) /\ m \in 1..Len(old) /\ new[m].parent = old[m].parent
    <3>1. PICK d \in Nat : Bears(old, old[m].parent, r, d)
      BY <2>1 DEF Released, CameThrough
    <3>2. PICK p : p = old[m].parent
      OBVIOUS
    <3>3. p \in 1..Len(old)
      BY <1>1, <3>1, <3>2, BearerIsRow
    <3>4. Bears(new, p, r, d)
      BY <1>1, <3>1, <3>2, <3>3, BearsKept
    <3>. QED
      BY <2>1, <3>2, <3>4
  <2>2. CASE x \in Targets(r.join) /\ new[m].parent = w
    <3>1. r \in OwnRanges(old, w)
      BY <2>2 DEF WalkReleased
    <3>2. PICK s \in ScopesOf(old, w) : RangeOf(s) = r
      BY <3>1 DEF OwnRanges
    <3>3. Bears(old, w, r, s.round)
      BY <3>2 DEF Bears
    <3>4. s.round \in Nat
      <4>1. w \in 1..Len(old)
        BY <1>1, <3>3, BearerIsRow
      <4>2. old[w] \in Row /\ s \in old[w].scopes
        BY <1>1, <3>2, <4>1 DEF ScopesOf
      <4>. QED
        BY <4>2 DEF Row, Scope
    <3>. QED
      BY <1>2, <2>2, <3>3, <3>4
  <2>. QED
    BY <1>8, <2>1, <2>2
<1>10. ASSUME NEW r \in Ranges, NEW p, NEW d, Left(new, p, r, d)
       PROVE  \/ p \in 1..Len(old) /\ Left(old, p, r, d)
              \/ p = w /\ x \in Targets(r.join) /\ Bears(old, w, r, d)
  <2>1. PICK m \in 1..Len(new) : Bears(new, p, r, d) /\ Out(new, m, r) /\ new[m].parent = p
    BY <1>10 DEF Left
  <2>2. CASE m \in 1..Len(old) /\ Out(old, m, r) /\ new[m].parent = old[m].parent
    <3>1. PICK e \in Nat : Bears(old, p, r, e)
      BY <2>1, <2>2 DEF Released, CameThrough
    <3>2. p \in 1..Len(old)
      BY <1>1, <3>1, BearerIsRow
    <3>3. Bears(old, p, r, d)
      BY <1>1, <2>1, <3>2, BearsKept
    <3>. QED
      BY <2>1, <2>2, <3>2, <3>3 DEF Left
  <2>3. CASE x \in Targets(r.join) /\ new[m].parent = w
    BY <1>2, <2>1, <2>3
  <2>. QED
    BY <1>8, <2>1, <2>2, <2>3
<1>11. ASSUME NEW r \in Ranges, NEW p, NEW d \in Nat, Left(new, p, r, d), Bears(old, w, r, d)
       PROVE  p = w /\ \A i \in 1..Len(toks) : toks[i].node \in Ahead(r.join, r.join)
  <2>1. CASE p \in 1..Len(old) /\ Left(old, p, r, d)
    BY <1>11, <2>1 DEF WalkReleased
  <2>2. CASE p = w /\ x \in Targets(r.join)
    BY <1>4, <1>11, <2>2
  <2>. QED
    BY <1>10, <1>11, <2>1, <2>2
<1>12. ASSUME NEW r \in Ranges, NEW p \in 1..Len(new), NEW d \in Nat, Left(new, p, r, d)
       PROVE  Over(new, r, d) /\ \A q \in 1..Len(new) : Left(new, q, r, d) => q = p
  <2>1. CASE Bears(old, w, r, d)
    <3>1. \A q \in 1..Len(new) : Left(new, q, r, d) => q = w
      BY <1>11, <2>1
    <3>2. Over(new, r, d)
      <4>1. CASE p \in 1..Len(old) /\ Left(old, p, r, d)
        BY <1>7, <4>1
      <4>2. CASE x \in Targets(r.join)
        <5>1. Over(old, r, d)
          BY <1>4, <2>1, <4>2
        <5>2. \A m \in Len(old)+1..Len(new) : ~Holds(new, m, r, d)
          BY <1>3, <1>5, <4>2
        <5>. QED
          BY <1>6, <5>1, <5>2
      <4>. QED
        BY <1>10, <1>12, <4>1, <4>2
    <3>. QED
      BY <1>12, <3>1, <3>2
  <2>2. CASE ~Bears(old, w, r, d)
    <3>1. \A q \in 1..Len(new) : Left(new, q, r, d) => q \in 1..Len(old) /\ Left(old, q, r, d)
      BY <1>10, <2>2
    <3>2. p \in 1..Len(old) /\ Left(old, p, r, d)
      BY <1>12, <3>1
    <3>3. \A q \in 1..Len(old) : Left(old, q, r, d) => q = p
      BY <3>2 DEF Released
    <3>. QED
      BY <1>7, <3>1, <3>2, <3>3
  <2>. QED
    BY <2>1, <2>2
<1>13. Released(new)
  BY <1>9, <1>12 DEF Released
<1>14. WalkReleased(new, w, toks)
  <2>1. \A r \in Ranges : \A i \in 1..Len(toks) :
          toks[i].node \in Targets(r.join) /\ Kind[toks[i].node] \in {"task", "custom"} => r \in OwnRanges(new, w)
    BY <1>2 DEF WalkReleased
  <2>. QED
    BY <1>2, <1>11, <2>1 DEF WalkReleased
<1>. QED
  BY <1>13, <1>14

\* Nodes that follow the visited one; and visits, by the same row, that follow it or were due.
Onward(ns) == ns \in Seq(Node) /\ \A i \in DOMAIN ns : ns[i] \in Targets(Here)

Onwards(toks) ==
    /\ toks \in Seq(Token)
    /\ \A i \in 1..Len(toks) :
         /\ toks[i].parent = By
         /\ toks[i].node \in Targets(Here) \/ \E k \in 1..Len(todo) : toks[i].node = todo[k].node

\* The visits after the one at hand: successors of its node, then what was due.
LEMMA Descended ==
  ASSUME IInv, BranchInv, TokenInv, todo # <<>>, NEW ns, Onward(ns)
  PROVE  Onwards(Visits(ns, By) \o Tail(todo))
<1>0. ns \in Seq(Node) /\ \A i \in DOMAIN ns : ns[i] \in Targets(Here)
  BY DEF Onward
<1>1. PICK rest, v, toks : rest = Tail(todo) /\ v = Visits(ns, By) /\ toks = v \o rest
  OBVIOUS
<1>2. /\ By \in Nat /\ WalkOK(rows, By, todo) /\ rest \in Seq(Token)
      /\ \A i \in 1..Len(rest) : i + 1 \in 1..Len(todo) /\ rest[i] = todo[i+1]
  BY <1>1, WalkFacts
<1>3. /\ v \in Seq(Token) /\ Len(v) = Len(ns)
      /\ \A i \in 1..Len(v) : v[i].parent = By
  BY <1>0, <1>1, <1>2, VisitsType
<1>4. ASSUME NEW i \in 1..Len(v)
      PROVE  v[i].node \in Targets(Here)
  <2>1. i \in DOMAIN ns
    BY <1>0, <1>3
  <2>2. v[i].node = ns[i]
    BY <1>1, <2>1 DEF Visits
  <2>. QED
    BY <1>0, <2>1, <2>2
<1>5. toks = v \o rest
  BY <1>1
<1>6. toks \in Seq(Token)
  <2>1. ASSUME NEW S, NEW a \in Seq(S), NEW b \in Seq(S)
        PROVE  a \o b \in Seq(S)
    OBVIOUS
  <2>2. v \in Seq(Token) /\ rest \in Seq(Token)
    BY <1>2, <1>3
  <2>. QED
    BY <1>5, <2>1, <2>2
<1>7. Len(v) \in Nat /\ Len(rest) \in Nat /\ Len(toks) = Len(v) + Len(rest)
  <2>1. ASSUME NEW S, NEW a \in Seq(S), NEW b \in Seq(S)
        PROVE  Len(a) \in Nat /\ Len(b) \in Nat /\ Len(a \o b) = Len(a) + Len(b)
    OBVIOUS
  <2>. QED
    BY <1>2, <1>3, <1>5, <2>1
<1>8. ASSUME NEW i \in 1..Len(toks)
      PROVE  /\ toks[i].parent = By
             /\ toks[i].node \in Targets(Here) \/ \E k \in 1..Len(todo) : toks[i].node = todo[k].node
  <2>1. CASE i \in 1..Len(v)
    <3>1. toks[i] = v[i]
      BY <1>2, <1>3, <1>5, <1>7, <2>1
    <3>. QED
      BY <1>3, <1>4, <2>1, <3>1
  <2>2. CASE i \in Len(v)+1..Len(toks)
    <3>1. PICK j \in 1..Len(rest) : toks[i] = rest[j]
      <4>1. i - Len(v) \in 1..Len(rest)
        BY <1>7, <2>2
      <4>2. ASSUME NEW S, NEW a \in Seq(S), NEW b \in Seq(S), NEW k \in Len(a)+1..Len(a \o b)
            PROVE  (a \o b)[k] = b[k - Len(a)]
        OBVIOUS
      <4>3. v \in Seq(Token) /\ rest \in Seq(Token)
        BY <1>2, <1>3
      <4>4. toks[i] = rest[i - Len(v)]
        BY <1>5, <2>2, <4>2, <4>3
      <4>. QED
        BY <4>1, <4>4
    <3>2. j + 1 \in 1..Len(todo) /\ rest[j] = todo[j+1]
      BY <1>2
    <3>3. todo[j+1].parent = By
      BY <1>2, <3>2 DEF WalkOK
    <3>. QED
      BY <3>1, <3>2, <3>3
  <2>. QED
    BY <1>7, <2>1, <2>2
<1>9. Onwards(toks)
  BY <1>6, <1>8 DEF Onwards
<1>. QED
  BY <1>1, <1>9

\* The visits left after a node nothing follows.
LEMMA TailLeft ==
  ASSUME IInv, BranchInv, TokenInv, todo # <<>>
  PROVE  Onwards(Tail(todo))
<1>1. PICK rest : rest = Tail(todo)
  OBVIOUS
<1>2. /\ WalkOK(rows, By, todo) /\ rest \in Seq(Token)
      /\ \A i \in 1..Len(rest) : i + 1 \in 1..Len(todo) /\ rest[i] = todo[i+1]
  BY <1>1, WalkFacts
<1>3. \A k \in 1..Len(todo) : todo[k].parent = By
  BY <1>2 DEF WalkOK
<1>4. Onwards(rest)
  BY <1>2, <1>3 DEF Onwards
<1>. QED
  BY <1>1, <1>4

\* A range whose join is visited is one the walk brought along.
LEMMA JoinIsOwn ==
  ASSUME WellNested, IInv, BranchInv, TokenInv, todo # <<>>, NEW r \in Ranges, r.join = Here
  PROVE  r \in OwnRanges(rows, By)
<1>1. Kind[Here] = "join"
  BY RangeFacts DEF Joins
<1>2. WalkOK(rows, By, todo) /\ 1 \in 1..Len(todo) /\ todo[1].node = Here
  BY WalkFacts
<1>. QED
  BY <1>1, <1>2, AloneVisit

\* A step of the walk that leaves rows at the node it is at, or none, and goes on.
LEMMA GoesOnReleased ==
  ASSUME WellNested, ThroughJoin, IInv, BranchInv, TokenInv, ReleaseInv, todo # <<>>,
         Released(rows'), WalkReleased(rows', By, todo), OwnRanges(rows', By) = OwnRanges(rows, By),
         NEW toks, Continue(toks), Onwards(toks)
  PROVE  ReleaseInv'
<1>0. /\ toks \in Seq(Token)
      /\ \A i \in 1..Len(toks) :
           /\ toks[i].parent = By
           /\ toks[i].node \in Targets(Here) \/ \E k \in 1..Len(todo) : toks[i].node = todo[k].node
  BY DEF Onwards
<1>1. 1 \in 1..Len(todo) /\ todo[1].node = Here /\ Here \in Node
  BY WalkFacts
<1>2. PICK new, w, x : new = rows' /\ w = By /\ x = Here
  OBVIOUS
<1>3. \A r \in Ranges : x = r.join => r \in OwnRanges(new, w)
  BY <1>2, JoinIsOwn
<1>4. \A i \in 1..Len(toks) : toks[i].node \in Targets(x) \/ \E k \in 1..Len(todo) : toks[i].node = todo[k].node
  BY <1>0, <1>2
<1>5. WalkReleased(new, w, todo) /\ x \in Node /\ x = todo[1].node /\ 1 \in 1..Len(todo)
  BY <1>1, <1>2
<1>6. WalkReleased(new, w, toks)
  BY <1>0, <1>3, <1>4, <1>5, WalkOn
<1>7. toks # <<>> => toks[1].parent = w
  BY <1>0, <1>2
<1>. QED
  BY <1>0, <1>2, <1>6, <1>7, StepReleased

LEMMA PassesReleased ==
  ASSUME WellNested, ThroughJoin, IInv, BranchInv, TokenInv, ReleaseInv, todo # <<>>, rows' = rows,
         NEW toks, Continue(toks), Onwards(toks)
  PROVE  ReleaseInv'
<1>1. todo[1].parent = By
  BY WalkFacts
<1>2. Released(rows') /\ WalkReleased(rows', By, todo) /\ OwnRanges(rows', By) = OwnRanges(rows, By)
  BY <1>1 DEF ReleaseInv
<1>. QED
  BY <1>2, GoesOnReleased

LEMMA EnterForkReleased ==
  ASSUME WellNested, ThroughJoin, IInv, BranchInv, TokenInv, ReleaseInv, EnterFork
  PROVE  ReleaseInv'
<1>1. PICK toks : toks = Visits(Succ[Here], By) \o Tail(todo)
  OBVIOUS
<1>2. todo # <<>> /\ Continue(toks) /\ rows' = rows
  BY <1>1 DEF EnterFork, At, Descend
<1>3. Succ[Here] \in Seq(Node) /\ \A i \in DOMAIN Succ[Here] : Succ[Here][i] \in Targets(Here)
  BY <1>2, WalkFacts DEF Targets
<1>4. Onwards(toks)
  <2>1. PICK ns : ns = Succ[Here]
    OBVIOUS
  <2>2. Onward(ns)
    BY <1>3, <2>1 DEF Onward
  <2>3. toks = Visits(ns, By) \o Tail(todo)
    BY <1>1, <2>1
  <2>. QED
    BY <1>2, <2>2, <2>3, Descended
<1>. QED
  BY <1>2, <1>4, PassesReleased

LEMMA EnterJoinReleased ==
  ASSUME WellNested, ThroughJoin, IInv, BranchInv, TokenInv, ReleaseInv, EnterJoin
  PROVE  ReleaseInv'
<1>1. PICK ns, toks : /\ ns = IF MergeReady(rows, Here, By) THEN Succ[Here] ELSE <<>>
                      /\ toks = Visits(ns, By) \o Tail(todo)
  OBVIOUS
<1>2. todo # <<>> /\ Continue(toks) /\ rows' = rows
  BY <1>1 DEF EnterJoin, At, Descend
<1>3. ns \in Seq(Node) /\ \A i \in DOMAIN ns : ns[i] \in Targets(Here)
  <2>1. Succ[Here] \in Seq(Node) /\ \A i \in DOMAIN Succ[Here] : Succ[Here][i] \in Targets(Here)
    BY <1>2, WalkFacts DEF Targets
  <2>2. <<>> \in Seq(Node) /\ DOMAIN <<>> = {}
    OBVIOUS
  <2>. QED
    BY <1>1, <2>1, <2>2
<1>4. toks = Visits(ns, By) \o Tail(todo)
  BY <1>1
<1>5. Onward(ns)
  BY <1>3 DEF Onward
<1>6. Onwards(toks)
  BY <1>2, <1>4, <1>5, Descended
<1>. QED
  BY <1>2, <1>6, PassesReleased

LEMMA EnterDecisionReleased ==
  ASSUME WellNested, ThroughJoin, IInv, BranchInv, TokenInv, ReleaseInv, EnterDecision
  PROVE  ReleaseInv'
<1>1. PICK e \in DOMAIN Succ[Here] : Descend(<<Succ[Here][e]>>)
  BY DEF EnterDecision
<1>2. PICK ns, toks : ns = <<Succ[Here][e]>> /\ toks = Visits(ns, By) \o Tail(todo)
  OBVIOUS
<1>3. todo # <<>> /\ Continue(toks) /\ rows' = rows
  BY <1>1, <1>2 DEF EnterDecision, At, Descend
<1>4. Succ[Here] \in Seq(Node)
  BY <1>3, WalkFacts
<1>5. Succ[Here][e] \in Node /\ Succ[Here][e] \in Targets(Here)
  BY <1>4 DEF Targets
<1>6. Onward(ns)
  BY <1>2, <1>5 DEF Onward
<1>7. toks = Visits(ns, By) \o Tail(todo)
  BY <1>2
<1>8. Onwards(toks)
  BY <1>3, <1>6, <1>7, Descended
<1>. QED
  BY <1>3, <1>8, PassesReleased

LEMMA DecisionFailsReleased ==
  ASSUME IInv, ReleaseInv, DecisionFails
  PROVE  ReleaseInv'
<1>1. Continue(<<>>) /\ todo # <<>>
  BY DEF DecisionFails, At
<1>2. CASE Transactional
  <2>1. saved # <<>>
    BY <1>1, <1>2 DEF IInv, TypeOK
  <2>2. Released(rows')
    BY <1>2, <2>1 DEF DecisionFails, ReleaseInv
  <2>. QED
    BY <1>1, <2>2, StepReleased
<1>3. CASE ~Transactional
  <2>1. Released(rows')
    BY <1>3 DEF DecisionFails, ReleaseInv
  <2>. QED
    BY <1>1, <2>1, StepReleased
<1>. QED
  BY <1>2, <1>3

LEMMA EnterTailReleased ==
  ASSUME WellNested, ThroughJoin, IInv, BranchInv, TokenInv, ReleaseInv, EnterEnd \/ EnterOther
  PROVE  ReleaseInv'
<1>1. todo # <<>> /\ Continue(Tail(todo)) /\ rows' = rows
  BY DEF EnterEnd, EnterOther, At
<1>. QED
  BY <1>1, TailLeft, PassesReleased

\* The rows a task node gets.
LEMMA TaskLands ==
  ASSUME WellNested, IInv, BranchInv, TokenInv, EnterTask
  PROVE  Settles(rows, rows') /\ Lands(rows, rows', By, Here)
<1>1. PICK c, first, x, w, N :
        /\ c = NewRows(Here) /\ first = (IF Countersign[Here] = "sequential" THEN 0 ELSE -1)
        /\ x = Here /\ w = By /\ N = Len(rows)
  OBVIOUS
<1>2. PICK more : more = [i \in 1..c |-> [Fresh(x, w, Attached(rows, x, w, N + i)) EXCEPT !.loop = first]]
  OBVIOUS
<1>3. todo # <<>> /\ rows' = rows \o more /\ Kind[x] = "task"
  BY <1>1, <1>2 DEF EnterTask, At, Here
<1>4. x \in Node /\ w \in Nat /\ rows \in Seq(Row) /\ RowsOK(rows)
  BY <1>1, <1>3, WalkFacts DEF Fit
<1>5. c \in Nat /\ first \in Int /\ N \in Nat
  <2>1. Members[x] \in Nat
    BY <1>4, EngineAssumption
  <2>. QED
    BY <1>1, <1>4, <2>1 DEF NewRows
<1>6. ASSUME NEW i \in 1..c
      PROVE  /\ more[i] \in Row /\ more[i].node = x /\ more[i].parent = w /\ more[i].source = 0
             /\ more[i].scopes = Attached(rows, x, w, N + i)
  <2>1. PICK B : B = Attached(rows, x, w, N + i)
    OBVIOUS
  <2>2. N + i \in Nat
    BY <1>5
  <2>3. B \in SUBSET Scope
    BY <1>4, <2>1, <2>2, AttachedType
  <2>4. PICK f : f = Fresh(x, w, B) /\ f \in Row /\ f.scopes = B
    BY <1>4, <2>3, FreshRanges
  <2>5. f.node = x /\ f.parent = w /\ f.source = 0
    BY <2>4 DEF Fresh
  <2>6. more[i] = [f EXCEPT !.loop = first]
    BY <1>2, <2>1, <2>4
  <2>7. /\ more[i] \in Row /\ more[i].scopes = f.scopes /\ more[i].node = f.node
        /\ more[i].parent = f.parent /\ more[i].source = f.source
    BY <1>5, <2>4, <2>6 DEF Row
  <2>. QED
    BY <2>1, <2>4, <2>5, <2>7
<1>7. more \in Seq(Row) /\ Len(more) = c
  <2>1. more \in [1..c -> Row]
    BY <1>2, <1>6
  <2>. QED
    BY <1>5, <2>1, FunctionIsSeq
<1>8. PICK new : new = rows \o more
  OBVIOUS
<1>9. /\ Settles(rows, new)
      /\ \A m \in Len(rows)+1..Len(new) : m - Len(rows) \in 1..Len(more) /\ new[m] = more[m - Len(rows)]
  BY <1>4, <1>7, <1>8, ConcatSettles
<1>10. ASSUME NEW m \in Len(rows)+1..Len(new)
       PROVE  /\ new[m].node = x /\ new[m].parent = w /\ new[m].source = 0
              /\ \A s \in new[m].scopes :
                   /\ RangeOf(s) \in Around(x)
                   /\ s \in ScopesOf(rows, w) \/ (RangeOf(s) \notin OwnRanges(rows, w) /\ s.round = w)
  <2>1. PICK i \in 1..c : i = m - N /\ new[m] = more[i]
    BY <1>1, <1>7, <1>9
  <2>2. PICK B : B = Attached(rows, x, w, N + i)
    OBVIOUS
  <2>3. N + i \in Nat
    BY <1>5
  <2>4. \A s \in B :
          /\ RangeOf(s) \in Around(x)
          /\ \/ s \in ScopesOf(rows, w)
             \/ RangeOf(s) \notin OwnRanges(rows, w) /\ s.round = w /\ s.root = N + i
    BY <1>3, <1>4, <2>2, <2>3, AttachedRanges
  <2>. QED
    BY <1>6, <2>1, <2>2, <2>4
<1>11. Lands(rows, new, w, x)
  BY <1>10 DEF Lands
<1>. QED
  BY <1>1, <1>3, <1>8, <1>9, <1>11

LEMMA EnterTaskReleased ==
  ASSUME WellNested, ThroughJoin, IInv, BranchInv, TokenInv, ReleaseInv, RowsOK(rows'), EnterTask
  PROVE  ReleaseInv'
<1>1. todo # <<>> /\ Kind[Here] = "task" /\ Continue(Tail(todo))
  BY DEF EnterTask, At, Here
<1>2. /\ By \in Nat /\ Fit(rows) /\ WalkOK(rows, By, todo)
      /\ 1 \in 1..Len(todo) /\ todo[1].node = Here /\ todo[1].parent = By
  BY <1>1, WalkFacts
<1>3. Released(rows) /\ WalkReleased(rows, By, todo)
  BY <1>1, <1>2 DEF ReleaseInv
<1>4. PICK new, w, x : new = rows' /\ w = By /\ x = Here
  OBVIOUS
<1>5. Settles(rows, new) /\ Lands(rows, new, w, x) /\ RowsOK(new)
  BY <1>4, TaskLands
<1>6. Released(new) /\ WalkReleased(new, w, todo)
  BY <1>1, <1>2, <1>3, <1>4, <1>5, Landed
<1>7. OwnRanges(new, w) = OwnRanges(rows, w)
  BY <1>2, <1>4, <1>5, WalkerKept DEF Fit, WalkOK, Settles
<1>. QED
  BY <1>1, <1>4, <1>6, <1>7, TailLeft, GoesOnReleased

LEMMA EnterCustomReleased ==
  ASSUME WellNested, ThroughJoin, IInv, BranchInv, TokenInv, ReleaseInv, RowsOK(rows'), EnterCustom
  PROVE  ReleaseInv'
<1>1. PICK row, toks : row = [Fresh(Here, By, {}) EXCEPT !.state = "done"]
                       /\ toks = Visits(Succ[Here], By) \o Tail(todo)
  OBVIOUS
<1>2. /\ todo # <<>> /\ Kind[Here] = "custom" /\ Continue(toks) /\ rows' = Append(rows, row)
  BY <1>1 DEF EnterCustom, At, Here, Descend
<1>3. /\ Here \in Node /\ By \in Nat /\ Fit(rows) /\ Succ[Here] \in Seq(Node) /\ WalkOK(rows, By, todo)
      /\ 1 \in 1..Len(todo) /\ todo[1].node = Here /\ todo[1].parent = By
  BY <1>2, WalkFacts
<1>4. PICK f : f = Fresh(Here, By, {}) /\ f \in Row /\ f.scopes = {}
  <2>1. {} \in SUBSET Scope
    OBVIOUS
  <2>. QED
    BY <1>3, <2>1, FreshRanges
<1>5. f.node = Here /\ f.parent = By /\ f.source = 0
  BY <1>4 DEF Fresh
<1>6. row = [f EXCEPT !.state = "done"]
  BY <1>1, <1>4
<1>7. /\ row \in Row /\ row.scopes = f.scopes /\ row.node = f.node /\ row.parent = f.parent
      /\ row.source = f.source
  BY <1>4, <1>6 DEF Row, TaskStates
<1>8. PICK new, m, w, x : new = Append(rows, row) /\ m = Len(rows) + 1 /\ w = By /\ x = Here
  OBVIOUS
<1>9. RowsOK(rows) /\ RowsOK(new)
  BY <1>2, <1>3, <1>8 DEF Fit
<1>10. Settles(rows, new) /\ new[m] = row /\ Len(rows)+1..Len(new) = {m}
  BY <1>7, <1>8, <1>9, AppendSettles
<1>11. Lands(rows, new, w, x)
  BY <1>4, <1>5, <1>7, <1>8, <1>10 DEF Lands
<1>12. Released(rows) /\ WalkReleased(rows, By, todo)
  BY <1>2, <1>3 DEF ReleaseInv
<1>13. Released(new) /\ WalkReleased(new, w, todo)
  BY <1>2, <1>3, <1>8, <1>9, <1>10, <1>11, <1>12, Landed
<1>14. OwnRanges(new, w) = OwnRanges(rows, w)
  BY <1>3, <1>8, <1>9, <1>10, WalkerKept DEF WalkOK, Settles
<1>15. \A i \in DOMAIN Succ[Here] : Succ[Here][i] \in Targets(Here)
  BY DEF Targets
<1>16. Onwards(toks)
  <2>1. PICK ns : ns = Succ[Here]
    OBVIOUS
  <2>2. Onward(ns)
    BY <1>3, <1>15, <2>1 DEF Onward
  <2>3. toks = Visits(ns, By) \o Tail(todo)
    BY <1>1, <2>1
  <2>. QED
    BY <1>2, <2>2, <2>3, Descended
<1>17. Released(rows') /\ WalkReleased(rows', By, todo) /\ OwnRanges(rows', By) = OwnRanges(rows, By)
  BY <1>2, <1>8, <1>13, <1>14
<1>. QED
  BY <1>2, <1>16, <1>17, GoesOnReleased

LEMMA NextReleased ==
  ASSUME WellNested, Disciplined, ThroughJoin, IInv, BranchInv, TokenInv, ReleaseInv, [Next]_vars
  PROVE  ReleaseInv'
<1>1. IInv'
  BY NextKeeps
<1>2. RowsOK(rows')
  BY <1>1 DEF IInv
<1>3. CASE Start
  BY <1>3, StartReleased
<1>4. CASE Withdraw
  BY <1>2, <1>4, WithdrawReleased
<1>5. ASSUME NEW t \in DOMAIN rows, NEW st \in Submits, ExecuteProcessTask(t, st)
      PROVE  ReleaseInv'
  BY <1>2, <1>5, ExecuteReleased
<1>6. ASSUME NEW t \in DOMAIN rows, NEW k \in 1..2, AddSign(t, k)
      PROVE  ReleaseInv'
  BY <1>2, <1>6, AddSignReleased
<1>7. ASSUME NEW t \in DOMAIN rows, ExecuteAndJumpToEnd(t)
      PROVE  ReleaseInv'
  BY <1>2, <1>7, RejectReleased
<1>8. ASSUME NEW t \in DOMAIN rows, RollbackToParent(t)
      PROVE  ReleaseInv'
  BY <1>2, <1>8, RollbackReleased
<1>9. ASSUME NEW t \in DOMAIN rows, NEW target \in JumpTargets, ExecuteAndJumpTask(t, target)
      PROVE  ReleaseInv'
  BY <1>2, <1>9, JumpReleased
<1>10. ASSUME NEW t \in DOMAIN rows, ExecuteAndJumpToFirstTaskNode(t)
       PROVE  ReleaseInv'
  BY <1>2, <1>10, ReturnReleased
<1>11. ASSUME NEW t \in DOMAIN rows, ExecuteReapply(t)
       PROVE  ReleaseInv'
  BY <1>2, <1>11, ReapplyReleased
<1>12. ASSUME NEW t \in DOMAIN rows, RecallTask(t)
       PROVE  FALSE
  BY <1>12 DEF Disciplined, RecallTask, Serving
<1>13. CASE Step
  BY <1>2, <1>13, EnterTaskReleased, EnterCustomReleased, EnterForkReleased, EnterJoinReleased,
     EnterDecisionReleased, DecisionFailsReleased, EnterTailReleased DEF Step
<1>14. CASE UNCHANGED vars
  BY <1>14 DEF vars, ReleaseInv
<1>. QED
  BY <1>3, <1>4, <1>5, <1>6, <1>7, <1>8, <1>9, <1>10, <1>11, <1>12, <1>13, <1>14 DEF Next, Request

LEMMA InitReleased ==
  ASSUME Init
  PROVE  ReleaseInv
<1>1. rows = <<>> /\ todo = <<>> /\ saved = <<>> /\ Len(rows) = 0
  BY DEF Init
<1>2. Released(rows)
  BY <1>1 DEF Released, CameThrough
<1>. QED
  BY <1>1, <1>2 DEF ReleaseInv

\* From the invariant: the rows out in one passage were released by one row, for a
\* row that is out bears the round, which no second row was left to bear.
LEMMA OnceReleased ==
  ASSUME WellNested, IInv, BranchInv, TokenInv, ReleaseInv
  PROVE  JoinReleasesOnce
<1>1. rows \in Seq(Row) /\ DOMAIN rows = 1..Len(rows) /\ RowsOK(rows) /\ Fit(rows) /\ OneForkPerJoin
  BY NodeRanges DEF IInv, TypeOK, Fit, BranchInv, TokenInv, StateOK
<1>2. ASSUME NEW r \in Ranges, NEW i \in DOMAIN rows, rows[i].node \in Targets(r.join), ~Resubmitted(i)
      PROVE  rows[i].parent \in 1..Len(rows) /\ Passage(i, r) \in Nat /\ Left(rows, rows[i].parent, r, Passage(i, r))
  <2>1. PICK p : p = rows[i].parent
    OBVIOUS
  <2>2. Out(rows, i, r)
    <3>1. FormOK(rows, i)
      BY <1>1 DEF Fit, RowsFit, RowFits
    <3>. QED
      BY <1>1, <1>2, <3>1 DEF Out, Resubmits, Resubmitted, FormOK
  <2>3. PICK d \in Nat : Bears(rows, p, r, d)
    BY <1>1, <2>1, <2>2 DEF ReleaseInv, Released, CameThrough
  <2>4. p \in 1..Len(rows) /\ p # 0
    BY <1>1, <2>3, BearerIsRow
  <2>5. PICK own : own = {s \in ScopesOf(rows, p) : s.join = r.join}
    OBVIOUS
  <2>6. PICK s \in ScopesOf(rows, p) : RangeOf(s) = r /\ s.round = d
    BY <2>3 DEF Bears
  <2>7. s \in own
    BY <2>5, <2>6 DEF RangeOf
  <2>8. ASSUME NEW q \in own
        PROVE  q = s
    <3>1. ScopesOf(rows, p) = rows[p].scopes
      BY <1>1, <2>4 DEF ScopesOf
    <3>2. Single(rows[p].scopes)
      BY <2>4 DEF BranchInv, Roots
    <3>3. q.join = s.join /\ q \in rows[p].scopes /\ s \in rows[p].scopes
      BY <2>5, <2>7, <3>1
    <3>. QED
      BY <3>2, <3>3 DEF Single
  <2>9. own # {} /\ (CHOOSE q \in own : TRUE) = s
    BY <2>7, <2>8
  <2>10. Passage(i, r) = d
    BY <2>1, <2>5, <2>6, <2>9 DEF Passage
  <2>11. Left(rows, p, r, d)
    BY <1>1, <2>1, <2>2, <2>3 DEF Left
  <2>. QED
    BY <2>1, <2>4, <2>10, <2>11
<1>3. ASSUME NEW r \in Ranges, NEW i \in DOMAIN rows, NEW k \in DOMAIN rows,
             rows[i].node \in Targets(r.join), ~Resubmitted(i),
             rows[k].node \in Targets(r.join), ~Resubmitted(k), Passage(i, r) = Passage(k, r)
      PROVE  rows[i].parent = rows[k].parent
  <2>1. PICK d, p, q : d = Passage(i, r) /\ p = rows[i].parent /\ q = rows[k].parent
    OBVIOUS
  <2>2. p \in 1..Len(rows) /\ d \in Nat /\ Left(rows, p, r, d)
    BY <1>2, <1>3, <2>1
  <2>3. q \in 1..Len(rows) /\ Left(rows, q, r, d)
    BY <1>2, <1>3, <2>1
  <2>4. q = p
    BY <2>2, <2>3 DEF ReleaseInv, Released
  <2>. QED
    BY <2>1, <2>4
<1>. QED
  BY <1>3 DEF JoinReleasesOnce

\* A join releases once per round: however the branches were returned, resubmitted
\* and rolled back, what comes out of a join in one passage through its fork was
\* released by the arrival of one row.
THEOREM JoinsReleaseOnce ==
  ASSUME WellNested, Disciplined, ThroughJoin
  PROVE  Spec => []JoinReleasesOnce
<1>1. Init => ReleaseInv
  BY InitReleased
<1>2. IInv /\ BranchInv /\ TokenInv /\ ReleaseInv /\ [Next]_vars => ReleaseInv'
  BY NextReleased
<1>3. IInv /\ BranchInv /\ TokenInv /\ ReleaseInv => JoinReleasesOnce
  BY OnceReleased
<1>4. Spec => [](IInv /\ BranchInv /\ TokenInv)
  BY TokensInductive
<1>. QED
  BY <1>1, <1>2, <1>3, <1>4, PTL DEF Spec

-----------------------------------------------------------------------------
(* The votes on a countersign node. A vote is a completed row; Tallied says *)
(* what is known of the rows of the node and of the loop counter they left  *)
(* in the instance, at any time: no row of it is closed otherwise, a        *)
(* parallel node has a row for each member as soon as it has one, and the   *)
(* counter of a sequential one, wherever it is read, is behind the votes.   *)

DoneOn(rs, n) == {k \in On(rs, n) : rs[k].state = "done"}
Enough(rs, n) == Cardinality(DoneOn(rs, n)) >= Members[n]

Tallied(rs, ls, n) ==
  /\ \A i \in On(rs, n) : rs[i].state \in {"doing", "done"}
  /\ Countersign[n] = "parallel" => On(rs, n) = {} \/ Cardinality(On(rs, n)) >= Members[n]
  /\ Countersign[n] = "sequential" =>
       /\ ls[n] < Cardinality(DoneOn(rs, n))
       /\ DoneOn(rs, n) # {} => ls[n] >= 0
       /\ \A i \in On(rs, n) :
            rs[i].loop <= Cardinality(DoneOn(rs, n)) /\ (rs[i].loop >= 0 \/ ls[n] >= 0)

\* What lies beyond the node has seen every vote.
VotesOK(rs, ls) ==
  \A n \in Voters :
    /\ Tallied(rs, ls, n)
    /\ \A i \in 1..Len(rs) : rs[i].node \in Past(n) => Enough(rs, n)

VoteInv ==
  /\ inst # "withdrawn" => VotesOK(rows, loops)
  /\ saved # <<>> => VotesOK(saved[1].rows, saved[1].loops)
  /\ \A n \in Voters : \A i \in 1..Len(todo) : todo[i].node \in Past(n) => Enough(rows, n)

LEMMA VoteFacts ==
  ASSUME NEW n \in Voters
  PROVE  n \in Node /\ n \notin Veto /\ Members[n] \in Nat /\ Countersign[n] \in {"parallel", "sequential"}
BY EngineAssumption DEF Voters

\* The rows of a node are finitely many.
LEMMA FiniteOn ==
  ASSUME NEW rs \in Seq(Row), NEW n
  PROVE  /\ IsFiniteSet(On(rs, n)) /\ IsFiniteSet(DoneOn(rs, n)) /\ DoneOn(rs, n) \subseteq On(rs, n)
         /\ Cardinality(On(rs, n)) \in Nat /\ Cardinality(DoneOn(rs, n)) \in Nat
         /\ On(rs, n) \subseteq 1..Len(rs)
<1>1. DOMAIN rs = 1..Len(rs) /\ Len(rs) \in Nat
  OBVIOUS
<1>2. On(rs, n) \subseteq 1..Len(rs) /\ DoneOn(rs, n) \subseteq On(rs, n)
  BY <1>1 DEF On, DoneOn
<1>3. IsFiniteSet(1..Len(rs))
  BY <1>1, FS_Interval
<1>4. IsFiniteSet(On(rs, n))
  BY <1>2, <1>3, FS_Subset
<1>5. IsFiniteSet(DoneOn(rs, n))
  BY <1>2, <1>4, FS_Subset
<1>. QED
  BY <1>2, <1>4, <1>5, FS_CardinalityType

\* Votes are not taken back.
LEMMA EvolvesVotes ==
  ASSUME NEW old \in Seq(Row), NEW new \in Seq(Row), Evolves(old, new), NEW n
  PROVE  /\ On(old, n) \subseteq On(new, n) /\ DoneOn(old, n) \subseteq DoneOn(new, n)
         /\ Cardinality(On(old, n)) <= Cardinality(On(new, n))
         /\ Cardinality(DoneOn(old, n)) <= Cardinality(DoneOn(new, n))
<1>1. DOMAIN old = 1..Len(old) /\ DOMAIN new = 1..Len(new) /\ Len(old) \in Nat /\ Len(new) \in Nat
  OBVIOUS
<1>2. Len(old) <= Len(new)
      /\ \A i \in 1..Len(old) : new[i].node = old[i].node /\ (old[i].state = "done" => new[i].state = "done")
  BY DEF Evolves, Same
<1>3. On(old, n) \subseteq On(new, n) /\ DoneOn(old, n) \subseteq DoneOn(new, n)
  BY <1>1, <1>2 DEF On, DoneOn
<1>4. IsFiniteSet(On(new, n)) /\ IsFiniteSet(DoneOn(new, n))
  BY FiniteOn
<1>. QED
  BY <1>3, <1>4, FS_Subset

LEMMA EnoughStays ==
  ASSUME NEW old \in Seq(Row), NEW new \in Seq(Row), Evolves(old, new), NEW n \in Voters, Enough(old, n)
  PROVE  Enough(new, n)
<1>1. Cardinality(DoneOn(old, n)) \in Nat /\ Cardinality(DoneOn(new, n)) \in Nat /\ Members[n] \in Nat
  BY FiniteOn, VoteFacts
<1>2. Cardinality(DoneOn(old, n)) <= Cardinality(DoneOn(new, n))
  BY EvolvesVotes
<1>. QED
  BY <1>1, <1>2 DEF Enough

\* Rows that are not the node's do not matter to its votes.
LEMMA SameVotes ==
  ASSUME NEW old \in Seq(Row), NEW new \in Seq(Row), NEW ls, NEW ls2, NEW n, Tallied(old, ls, n),
         On(new, n) = On(old, n), ls2[n] = ls[n],
         \A i \in On(old, n) : new[i].state = old[i].state /\ new[i].loop = old[i].loop
  PROVE  Tallied(new, ls2, n)
<1>1. DoneOn(new, n) = DoneOn(old, n)
  BY DEF DoneOn
<1>. QED
  BY <1>1 DEF Tallied

\* Rows added to a node, open: the next member's, a row brought back, the first ones.
LEMMA MoreVotes ==
  ASSUME NEW old \in Seq(Row), NEW more \in Seq(Row), NEW new, new = old \o more, NEW ls, NEW n \in Voters,
         Tallied(old, ls, n),
         \A j \in 1..Len(more) : more[j].node = n =>
           /\ more[j].state = "doing"
           /\ Countersign[n] = "sequential" =>
                more[j].loop <= Cardinality(DoneOn(old, n)) /\ (more[j].loop >= 0 \/ ls[n] >= 0)
           /\ Countersign[n] = "parallel" =>
                On(old, n) # {} \/ (Len(more) >= Members[n] /\ \A k \in 1..Len(more) : more[k].node = n)
  PROVE  Tallied(new, ls, n)
<1>1. /\ new \in Seq(Row) /\ Len(old) \in Nat /\ Len(more) \in Nat /\ Len(new) = Len(old) + Len(more)
      /\ \A i \in 1..Len(old) : new[i] = old[i]
      /\ \A j \in 1..Len(more) : new[Len(old) + j] = more[j]
  <2>1. ASSUME NEW S, NEW a \in Seq(S), NEW b \in Seq(S)
        PROVE  /\ a \o b \in Seq(S) /\ Len(a) \in Nat /\ Len(b) \in Nat /\ Len(a \o b) = Len(a) + Len(b)
               /\ \A i \in 1..Len(a) : (a \o b)[i] = a[i]
               /\ \A j \in 1..Len(b) : (a \o b)[Len(a) + j] = b[j]
    OBVIOUS
  <2>. QED
    BY <2>1
<1>2. DOMAIN old = 1..Len(old) /\ DOMAIN new = 1..Len(new)
  BY <1>1
<1>3. ASSUME NEW i \in 1..Len(new)
      PROVE  (i \in 1..Len(old) /\ new[i] = old[i])
             \/ \E j \in 1..Len(more) : i = Len(old) + j /\ new[i] = more[j]
  <2>1. CASE i \in 1..Len(old)
    BY <1>1, <2>1
  <2>2. CASE i \notin 1..Len(old)
    <3>1. i - Len(old) \in 1..Len(more) /\ i = Len(old) + (i - Len(old))
      BY <1>1, <2>2
    <3>. QED
      BY <1>1, <3>1
  <2>. QED
    BY <2>1, <2>2
<1>4. DoneOn(new, n) = DoneOn(old, n)
  <2>1. ASSUME NEW i \in DoneOn(new, n)
        PROVE  i \in DoneOn(old, n)
    <3>1. i \in 1..Len(new) /\ new[i].node = n /\ new[i].state = "done"
      BY <1>2 DEF DoneOn, On
    <3>2. \A j \in 1..Len(more) : more[j].node = n => more[j].state # "done"
      OBVIOUS
    <3>3. i \in 1..Len(old) /\ new[i] = old[i]
      BY <1>3, <3>1, <3>2
    <3>. QED
      BY <1>2, <3>1, <3>3 DEF DoneOn, On
  <2>2. ASSUME NEW i \in DoneOn(old, n)
        PROVE  i \in DoneOn(new, n)
    <3>1. i \in 1..Len(old) /\ old[i].node = n /\ old[i].state = "done"
      BY <1>2 DEF DoneOn, On
    <3>2. i \in 1..Len(new) /\ new[i] = old[i]
      BY <1>1, <3>1
    <3>. QED
      BY <1>2, <3>1, <3>2 DEF DoneOn, On
  <2>. QED
    BY <2>1, <2>2
<1>5. ASSUME NEW i \in On(new, n)
      PROVE  \/ i \in On(old, n) /\ new[i] = old[i]
             \/ \E j \in 1..Len(more) : new[i] = more[j] /\ more[j].node = n
  BY <1>2, <1>3 DEF On
<1>6. ASSUME NEW i \in On(new, n)
      PROVE  new[i].state \in {"doing", "done"}
  <2>1. \A k \in On(old, n) : old[k].state \in {"doing", "done"}
    BY DEF Tallied
  <2>2. \A j \in 1..Len(more) : more[j].node = n => more[j].state = "doing"
    OBVIOUS
  <2>3. CASE i \in On(old, n) /\ new[i] = old[i]
    BY <2>1, <2>3
  <2>4. CASE \E j \in 1..Len(more) : new[i] = more[j] /\ more[j].node = n
    BY <2>2, <2>4
  <2>. QED
    BY <1>5, <2>3, <2>4
<1>7. Countersign[n] = "sequential" =>
        \A i \in On(new, n) : new[i].loop <= Cardinality(DoneOn(old, n)) /\ (new[i].loop >= 0 \/ ls[n] >= 0)
  BY <1>5 DEF Tallied
<1>8. ASSUME Countersign[n] = "parallel", On(new, n) # {}
      PROVE  Cardinality(On(new, n)) >= Members[n]
  <2>1. Members[n] \in Nat /\ IsFiniteSet(On(new, n)) /\ Cardinality(On(new, n)) \in Nat
    BY <1>1, FiniteOn, VoteFacts
  <2>2. CASE On(old, n) # {}
    <3>1. Cardinality(On(old, n)) >= Members[n] /\ Cardinality(On(old, n)) \in Nat
      BY <1>8, <2>2, FiniteOn DEF Tallied
    <3>2. On(old, n) \subseteq On(new, n)
      BY <1>1, <1>2 DEF On
    <3>3. Cardinality(On(old, n)) <= Cardinality(On(new, n))
      BY <2>1, <3>2, FS_Subset
    <3>. QED
      BY <2>1, <3>1, <3>3
  <2>3. CASE On(old, n) = {}
    <3>1. PICK i \in On(new, n) : TRUE
      BY <1>8
    <3>2. PICK j \in 1..Len(more) : more[j].node = n
      BY <1>5, <2>3, <3>1
    <3>3. Len(more) >= Members[n] /\ \A k \in 1..Len(more) : more[k].node = n
      BY <1>8, <2>3, <3>2
    <3>4. (Len(old)+1)..Len(new) \subseteq On(new, n)
      <4>1. ASSUME NEW m \in (Len(old)+1)..Len(new)
            PROVE  m \in On(new, n)
        <5>1. m - Len(old) \in 1..Len(more) /\ m = Len(old) + (m - Len(old)) /\ m \in 1..Len(new)
          BY <1>1
        <5>. QED
          BY <1>1, <1>2, <3>3, <5>1 DEF On
      <4>. QED
        BY <4>1
    <3>5. Cardinality((Len(old)+1)..Len(new)) = Len(more)
      <4>1. Len(old) + 1 \in Int /\ Len(new) \in Int
        BY <1>1
      <4>2. Cardinality((Len(old)+1)..Len(new)) = IF Len(old) + 1 > Len(new) THEN 0 ELSE Len(new) - (Len(old) + 1) + 1
        BY <4>1, FS_Interval
      <4>. QED
        BY <1>1, <3>2, <4>2
    <3>6. Cardinality((Len(old)+1)..Len(new)) <= Cardinality(On(new, n))
      BY <2>1, <3>4, FS_Subset
    <3>. QED
      BY <1>1, <2>1, <3>3, <3>5, <3>6
  <2>. QED
    BY <2>2, <2>3
<1>. QED
  BY <1>4, <1>6, <1>7, <1>8 DEF Tallied

\* Completing a row of the node is a vote, and leaves its counter in the instance.
LEMMA CompletedVotes ==
  ASSUME IInv, NEW t \in DOMAIN rows, rows[t].state = "doing", MergeLoop(t), NEW n \in Voters,
         Tallied(rows, loops, n), NEW done, done = Complete(rows, t)
  PROVE  Tallied(done, loops', n) /\ (n = rows[t].node => t \in DoneOn(done, n))
<1>1. /\ t \in 1..Len(rows) /\ rows \in Seq(Row) /\ done \in Seq(Row) /\ Len(done) = Len(rows)
      /\ Evolves(rows, done) /\ Loop(t) \in Int
  BY OpenRow DEF Advances
<1>2. \A i \in 1..Len(rows) : i # t => done[i] = rows[i]
  BY <1>1 DEF Complete
<1>3. rows[t] \in Row /\ done[t] = [rows[t] EXCEPT !.state = "done"]
  BY <1>1 DEF Complete
<1>4. done[t].node = rows[t].node /\ done[t].state = "done" /\ done[t].loop = rows[t].loop
  BY <1>3 DEF Row
<1>5. DOMAIN rows = 1..Len(rows) /\ DOMAIN done = 1..Len(rows)
  BY <1>1
<1>6. On(done, n) = On(rows, n)
  BY <1>2, <1>4, <1>5 DEF On
<1>7. loops \in [Node -> Int] /\ loops' = [loops EXCEPT ![rows[t].node] = Loop(t)]
  BY DEF IInv, TypeOK, MergeLoop
<1>8. n \in Node /\ rows[t].node \in Node
  BY <1>3, VoteFacts DEF Row
<1>9. CASE n # rows[t].node
  <2>1. loops'[n] = loops[n]
    BY <1>7, <1>8, <1>9
  <2>2. \A i \in On(rows, n) : done[i].state = rows[i].state /\ done[i].loop = rows[i].loop
    BY <1>2, <1>5, <1>9 DEF On
  <2>. QED
    BY <1>1, <1>6, <1>9, <2>1, <2>2, SameVotes
<1>10. CASE n = rows[t].node
  <2>1. t \in On(rows, n) /\ t \in DoneOn(done, n) /\ t \notin DoneOn(rows, n)
    BY <1>4, <1>5, <1>6, <1>10 DEF On, DoneOn
  <2>2. DoneOn(done, n) = DoneOn(rows, n) \cup {t}
    <3>1. \A i \in On(rows, n) : i # t => done[i].state = rows[i].state
      BY <1>2, <1>5 DEF On
    <3>. QED
      BY <1>6, <2>1, <3>1 DEF DoneOn
  <2>3. PICK c, d : c = Cardinality(DoneOn(rows, n)) /\ d = Cardinality(DoneOn(done, n))
    OBVIOUS
  <2>4. c \in Nat /\ d = c + 1
    <3>1. IsFiniteSet(DoneOn(rows, n)) /\ Cardinality(DoneOn(rows, n)) \in Nat
      BY <1>1, FiniteOn
    <3>2. Cardinality(DoneOn(rows, n) \cup {t}) = Cardinality(DoneOn(rows, n)) + 1
      BY <2>1, <3>1, FS_AddElement
    <3>. QED
      BY <2>2, <2>3, <3>1, <3>2
  <2>5. loops'[n] = Loop(t)
    BY <1>7, <1>8, <1>10
  <2>6. \A i \in On(done, n) : done[i].state \in {"doing", "done"} /\ done[i].loop = rows[i].loop
    BY <1>2, <1>4, <1>5, <1>6 DEF Tallied, On
  <2>7. ASSUME Countersign[n] = "sequential"
        PROVE  /\ loops'[n] < d /\ loops'[n] >= 0
               /\ \A i \in On(done, n) : done[i].loop <= d /\ (done[i].loop >= 0 \/ loops'[n] >= 0)
    <3>1. /\ loops[n] < c
          /\ \A i \in On(rows, n) : rows[i].loop <= c /\ (rows[i].loop >= 0 \/ loops[n] >= 0)
      BY <2>3, <2>7 DEF Tallied
    <3>2. Loop(t) >= 0 /\ Loop(t) <= c
      <4>1. CASE rows[t].loop >= 0
        BY <2>1, <3>1, <4>1 DEF Loop
      <4>2. CASE ~(rows[t].loop >= 0)
        <5>1. Loop(t) = loops[n] /\ loops[n] >= 0 /\ loops[n] \in Int
          BY <1>7, <1>8, <1>10, <2>1, <3>1, <4>2 DEF Loop
        <5>. QED
          BY <2>4, <3>1, <5>1
      <4>. QED
        BY <4>1, <4>2
    <3>3. ASSUME NEW i \in On(rows, n)
          PROVE  rows[i].loop \in Int
      <4>1. rows[i] \in Row
        BY <1>1, <1>5 DEF On
      <4>. QED
        BY <4>1 DEF Row
    <3>. QED
      BY <1>1, <1>6, <2>4, <2>5, <2>6, <3>1, <3>2, <3>3
  <2>8. Countersign[n] = "parallel" => On(done, n) = {} \/ Cardinality(On(done, n)) >= Members[n]
    BY <1>6 DEF Tallied
  <2>. QED
    BY <2>1, <2>3, <2>6, <2>7, <2>8 DEF Tallied
<1>. QED
  BY <1>9, <1>10

\* The gate of a node without veto opens when every member has voted.
LEMMA GateCounts ==
  ASSUME IInv, NEW t \in DOMAIN rows, rows[t].state = "doing", MergeLoop(t), NEW st,
         NEW done, done = Complete(rows, t), NEW n \in Voters, n = rows[t].node, GateOpen(done, t, st),
         Tallied(rows, loops, n)
  PROVE  Enough(done, n) /\ DoingIds(done) = {}
<1>1. Tallied(done, loops', n) /\ t \in DoneOn(done, n)
  BY CompletedVotes
<1>2. /\ t \in 1..Len(rows) /\ rows \in Seq(Row) /\ done \in Seq(Row) /\ Len(done) = Len(rows)
      /\ Evolves(rows, done) /\ Loop(t) \in Int
  BY OpenRow DEF Advances
<1>3. n \in Node /\ n \notin Veto /\ Members[n] \in Nat /\ Countersign[n] \in {"parallel", "sequential"}
  BY VoteFacts
<1>4. done[t].node = n
  BY <1>2 DEF Evolves, Same
<1>5. ~Vetoed(n, st)
  BY <1>3 DEF Vetoed
<1>6. DoingIds(done) = {} /\ (Countersign[n] = "sequential" => ~HasNextMember(t))
  BY <1>3, <1>4, <1>5 DEF GateOpen
<1>7. DoneOn(done, n) = On(done, n)
  <2>1. \A i \in On(done, n) : done[i].state \in {"doing", "done"}
    BY <1>1 DEF Tallied
  <2>. QED
    BY <1>6, <2>1 DEF DoingIds, On, DoneOn
<1>8. Cardinality(DoneOn(done, n)) \in Nat
  BY <1>2, FiniteOn
<1>9. CASE Countersign[n] = "parallel"
  <2>1. Cardinality(On(done, n)) >= Members[n]
    BY <1>1, <1>7, <1>9 DEF Tallied
  <2>. QED
    BY <1>6, <1>7, <2>1 DEF Enough
<1>10. CASE Countersign[n] = "sequential"
  <2>1. loops'[n] < Cardinality(DoneOn(done, n)) /\ loops'[n] >= 0
    BY <1>1, <1>10 DEF Tallied
  <2>2. loops'[n] = Loop(t)
    BY <1>3 DEF IInv, TypeOK, MergeLoop
  <2>3. Loop(t) + 1 >= Members[n]
    BY <1>2, <1>3, <1>6, <1>10, <2>1, <2>2 DEF HasNextMember
  <2>. QED
    BY <1>2, <1>3, <1>6, <1>8, <2>1, <2>2, <2>3 DEF Enough
<1>. QED
  BY <1>3, <1>9, <1>10

-----------------------------------------------------------------------------
(* What each action owes.                                                  *)

LEMMA RowsVotes ==
  ASSUME VoteInv, inst # "withdrawn", rows \in Seq(Row), rows' \in Seq(Row), Evolves(rows, rows'),
         \A n \in Voters : Tallied(rows', loops', n),
         \A n \in Voters : \A m \in Len(rows)+1..Len(rows') : rows'[m].node \in Past(n) => Enough(rows', n)
  PROVE  VotesOK(rows', loops')
<1>1. Len(rows) \in Nat /\ Len(rows') \in Nat
  OBVIOUS
<1>2. ASSUME NEW n \in Voters, NEW i \in 1..Len(rows'), rows'[i].node \in Past(n)
      PROVE  Enough(rows', n)
  <2>1. CASE i \in 1..Len(rows)
    <3>1. rows[i].node \in Past(n)
      BY <1>2, <2>1 DEF Evolves, Same
    <3>2. Enough(rows, n)
      BY <2>1, <3>1 DEF VoteInv, VotesOK
    <3>. QED
      BY <3>2, EnoughStays
  <2>2. CASE i \notin 1..Len(rows)
    <3>1. i \in Len(rows)+1..Len(rows')
      BY <1>1, <2>2
    <3>. QED
      BY <1>2, <3>1
  <2>. QED
    BY <2>1, <2>2
<1>. QED
  BY <1>2 DEF VotesOK

\* A request that votes or adds rows, and walks through toks.
LEMMA RequestVotes ==
  ASSUME IInv, VoteInv, todo = <<>>, inst # "withdrawn", rows' \in Seq(Row), Evolves(rows, rows'),
         \A n \in Voters : Tallied(rows', loops', n),
         \A n \in Voters : \A m \in Len(rows)+1..Len(rows') : rows'[m].node \in Past(n) => Enough(rows', n),
         NEW toks, NEW st, Walk(toks, st),
         \A n \in Voters : \A i \in 1..Len(toks) : toks[i].node \in Past(n) => Enough(rows', n)
  PROVE  VoteInv'
<1>1. rows \in Seq(Row)
  BY DEF IInv, TypeOK
<1>2. VotesOK(rows', loops')
  BY <1>1, RowsVotes
<1>3. todo' = toks
  BY DEF Walk
<1>4. saved' # <<>> => saved'[1].rows = rows /\ saved'[1].loops = loops
  <2> DEFINE s == [inst |-> inst, rows |-> rows, loops |-> loops]
  <2>1. s.rows = rows /\ s.loops = loops
    OBVIOUS
  <2>2. saved' = <<>> \/ saved' = <<s>>
    BY DEF Walk
  <2> HIDE DEF s
  <2>. QED
    BY <2>1, <2>2
<1>5. saved' # <<>> => VotesOK(saved'[1].rows, saved'[1].loops)
  BY <1>4 DEF VoteInv
<1>. QED
  BY <1>2, <1>3, <1>5 DEF VoteInv

\* A step of the walk that adds rows or none, and goes on with toks.
LEMMA StepVotes ==
  ASSUME IInv, VoteInv, inst # "withdrawn", rows' \in Seq(Row), Evolves(rows, rows'),
         \A n \in Voters : Tallied(rows', loops', n),
         \A n \in Voters : \A m \in Len(rows)+1..Len(rows') : rows'[m].node \in Past(n) => Enough(rows', n),
         NEW toks, Continue(toks),
         \A n \in Voters : \A i \in 1..Len(toks) : toks[i].node \in Past(n) => Enough(rows', n)
  PROVE  VoteInv'
<1>1. rows \in Seq(Row)
  BY DEF IInv, TypeOK
<1>2. VotesOK(rows', loops')
  BY <1>1, RowsVotes
<1>3. todo' = toks /\ (saved' # <<>> => saved' = saved)
  BY DEF Continue
<1>. QED
  BY <1>2, <1>3 DEF VoteInv

\* An open row that is completed: every node keeps its tally, and what lies beyond
\* a node has seen its votes.
LEMMA Voting ==
  ASSUME IInv, VoteInv, QuietInv, NEW t \in DOMAIN rows, rows[t].state = "doing", MergeLoop(t),
         NEW done, done = Complete(rows, t)
  PROVE  /\ inst # "withdrawn" /\ t \in 1..Len(rows) /\ t \in Nat /\ rows \in Seq(Row) /\ done \in Seq(Row)
         /\ RowsOK(rows) /\ RowsOK(done) /\ Len(done) = Len(rows) /\ Evolves(rows, done) /\ rows[t].node \in Node
         /\ \A n \in Voters : Tallied(rows, loops, n) /\ Tallied(done, loops', n)
         /\ \A n \in Voters : \A i \in 1..Len(rows) : rows[i].node \in Past(n) => Enough(done, n)
<1>1. /\ t \in 1..Len(rows) /\ t \in Nat /\ rows \in Seq(Row) /\ done \in Seq(Row) /\ RowsOK(rows) /\ RowsOK(done)
      /\ Len(done) = Len(rows) /\ Evolves(rows, done) /\ rows[t].node \in Node
  BY OpenRow DEF Advances
<1>2. inst # "withdrawn"
  BY <1>1 DEF QuietInv, DoingIds
<1>3. \A n \in Voters : Tallied(rows, loops, n)
  BY <1>2 DEF VoteInv, VotesOK
<1>4. \A n \in Voters : Tallied(done, loops', n)
  BY <1>3, CompletedVotes
<1>5. ASSUME NEW n \in Voters, NEW i \in 1..Len(rows), rows[i].node \in Past(n)
      PROVE  Enough(done, n)
  <2>1. Enough(rows, n)
    BY <1>2, <1>5 DEF VoteInv, VotesOK
  <2>. QED
    BY <1>1, <2>1, EnoughStays
<1>. QED
  BY <1>1, <1>2, <1>3, <1>4, <1>5

\* Closing open rows of other nodes.
LEMMA ClosedVotes ==
  ASSUME NEW rs \in Seq(Row), NEW ids, ids \subseteq DoingIds(rs), NEW cl, cl = Close(rs, ids, "abandoned"),
         NEW ls, NEW n \in Voters, Tallied(rs, ls, n), ids \cap On(rs, n) = {}
  PROVE  Tallied(cl, ls, n)
<1>1. "abandoned" \in TaskStates
  BY DEF TaskStates
<1>2. rs \in Seq(Row) /\ ids \subseteq DoingIds(rs)
  OBVIOUS
<1>3. PICK c : c = Close(rs, ids, "abandoned")
  OBVIOUS
<1>4. Advances(rs, c) /\ Len(c) = Len(rs) /\ \A i \in 1..Len(rs) \ ids : c[i] = rs[i]
  <2>1. Advances(rs, Close(rs, ids, "abandoned")) /\ Len(Close(rs, ids, "abandoned")) = Len(rs)
    BY <1>1, <1>2, CloseAdvances
  <2>2. \A i \in 1..Len(rs) \ ids : Close(rs, ids, "abandoned")[i] = rs[i]
    BY <1>2 DEF Close
  <2>. QED
    BY <1>3, <2>1, <2>2
<1>5. /\ cl \in Seq(Row) /\ Len(cl) = Len(rs) /\ Evolves(rs, cl)
      /\ \A i \in 1..Len(rs) \ ids : cl[i] = rs[i]
  BY <1>3, <1>4 DEF Advances
<1>6. DOMAIN rs = 1..Len(rs) /\ DOMAIN cl = 1..Len(rs)
  BY <1>5
<1>7. On(cl, n) = On(rs, n)
  BY <1>5, <1>6 DEF Evolves, Same, On
<1>8. \A i \in On(rs, n) : cl[i].state = rs[i].state /\ cl[i].loop = rs[i].loop
  BY <1>5, <1>6 DEF On
<1>. QED
  BY <1>5, <1>7, <1>8, SameVotes

\* Clearing an add-sign node, which nobody votes on.
LEMMA ClearedVotes ==
  ASSUME NEW rs \in Seq(Row), NEW x, NEW cl, cl = ClearAddSign(rs, x)
  PROVE  /\ cl \in Seq(Row) /\ Len(cl) = Len(rs) /\ Evolves(rs, cl) /\ (RowsOK(rs) => RowsOK(cl))
         /\ \A ls : \A n \in Voters : Tallied(rs, ls, n) => Tallied(cl, ls, n)
<1>1. cl \in Seq(Row) /\ Len(cl) = Len(rs) /\ Evolves(rs, cl) /\ Advances(rs, cl)
  BY ClearAddSignAdvances DEF Advances
<1>2. RowsOK(rs) => RowsOK(cl)
  BY <1>1, AdvancesRowsOK
<1>3. ASSUME NEW ls, NEW n \in Voters, Tallied(rs, ls, n)
      PROVE  Tallied(cl, ls, n)
  <2>1. CASE x \in AllowAddSign
    <3>1. PICK ids : ids = DoingOn(rs, x)
      OBVIOUS
    <3>2. cl = Close(rs, ids, "abandoned")
      BY <2>1, <3>1 DEF ClearAddSign
    <3>3. n # x
      BY <2>1, VoteFacts, ParseAssumption
    <3>4. ids \subseteq DoingIds(rs) /\ ids \cap On(rs, n) = {}
      BY <3>1, <3>3 DEF DoingOn, On
    <3>. QED
      BY <1>3, <3>2, <3>4, ClosedVotes
  <2>2. CASE x \notin AllowAddSign
    BY <1>3, <2>2 DEF ClearAddSign
  <2>. QED
    BY <2>1, <2>2
<1>. QED
  BY <1>1, <1>2, <1>3

\* A request that only votes and closes.
LEMMA OnlyVotes ==
  ASSUME IInv, VoteInv, todo = <<>>, inst # "withdrawn", rows' \in Seq(Row), Evolves(rows, rows'), Len(rows') = Len(rows),
         \A n \in Voters : Tallied(rows', loops', n),
         NEW toks, NEW st, Walk(toks, st),
         \A n \in Voters : \A i \in 1..Len(toks) : toks[i].node \in Past(n) => Enough(rows', n)
  PROVE  VoteInv'
<1>1. Len(rows) \in Nat
  BY DEF IInv, TypeOK
<1>2. \A m \in Len(rows)+1..Len(rows') : FALSE
  BY <1>1
<1>. QED
  BY <1>2, RequestVotes

\* A request that also adds an open row, on a node the next member votes on, on one
\* that has votes already, or on one nobody votes on, and starts no walk.
LEMMA OneMoreVotes ==
  ASSUME IInv, VoteInv, todo = <<>>, inst # "withdrawn", NEW mid \in Seq(Row), RowsOK(mid),
         Evolves(rows, mid), Len(mid) = Len(rows), \A n \in Voters : Tallied(mid, loops', n),
         NEW r \in Row, r.state = "doing", rows' = Append(mid, r), Walk(<<>>, "agree"),
         r.node \in Voters =>
           /\ On(mid, r.node) # {}
           /\ Countersign[r.node] = "sequential" =>
                r.loop <= Cardinality(DoneOn(mid, r.node)) /\ (r.loop >= 0 \/ loops'[r.node] >= 0),
         \A n \in Voters : r.node \in Past(n) => Enough(mid, n)
  PROVE  VoteInv'
<1>1. rows \in Seq(Row) /\ Len(rows) \in Nat /\ Len(mid) \in Nat
  BY DEF IInv, TypeOK
<1>2. PICK new, m : new = rows' /\ m = Len(mid) + 1
  OBVIOUS
<1>3. Settles(mid, new) /\ new[m] = r /\ new \in Seq(Row) /\ Len(new) = m
  BY <1>2, AppendSettles
<1>4. Evolves(rows, new) /\ Evolves(mid, new)
  BY <1>1, <1>3, EvolvesTrans DEF Settles
<1>5. \A k \in Len(rows)+1..Len(new) : k = m
  BY <1>1, <1>2, <1>3
<1>6. ASSUME NEW n \in Voters
      PROVE  Tallied(new, loops', n)
  <2>1. PICK more : more = <<r>>
    OBVIOUS
  <2>2. more \in Seq(Row) /\ Len(more) = 1 /\ more[1] = r
    BY <2>1
  <2>3. new = mid \o more
    BY <1>2, <2>1
  <2>4. ASSUME NEW j \in 1..Len(more), more[j].node = n
        PROVE  /\ more[j].state = "doing"
               /\ Countersign[n] = "sequential" =>
                    more[j].loop <= Cardinality(DoneOn(mid, n)) /\ (more[j].loop >= 0 \/ loops'[n] >= 0)
               /\ On(mid, n) # {}
    <3>1. more[j] = r
      BY <2>2
    <3>. QED
      BY <2>4, <3>1
  <2>5. Tallied(mid, loops', n)
    OBVIOUS
  <2>. QED
    BY <2>2, <2>3, <2>4, <2>5, MoreVotes
<1>7. ASSUME NEW n \in Voters, NEW k \in Len(rows)+1..Len(new), new[k].node \in Past(n)
      PROVE  Enough(new, n)
  <2>1. r.node \in Past(n)
    BY <1>3, <1>5, <1>7
  <2>2. Enough(mid, n)
    BY <2>1
  <2>. QED
    BY <1>3, <1>4, <2>2, EnoughStays
<1>. QED
  BY <1>2, <1>3, <1>4, <1>6, <1>7, RequestVotes

\* A row brought back on the node of a completed one.
LEMMA BroughtBack ==
  ASSUME NEW rs \in Seq(Row), NEW ls, NEW h \in 1..Len(rs), rs[h].state = "done", NEW x, x = rs[h].node,
         x \in Voters, Tallied(rs, ls, x)
  PROVE  /\ On(rs, x) # {}
         /\ Countersign[x] = "sequential" => -1 <= Cardinality(DoneOn(rs, x)) /\ ls[x] >= 0
<1>1. h \in On(rs, x) /\ h \in DoneOn(rs, x)
  BY DEF On, DoneOn
<1>2. Cardinality(DoneOn(rs, x)) \in Nat
  BY FiniteOn
<1>. QED
  BY <1>1, <1>2 DEF Tallied

\* The nodes a flow leads to.
LEMMA OnwardVotes ==
  ASSUME VotedThrough, NEW x \in Node, NEW n \in Voters, NEW k \in Targets(x), k \in Past(n)
  PROVE  x \in Past(n) \cup {n}
BY DEF VotedThrough

LEMMA VisitsOf ==
  ASSUME NEW ns \in Seq(Node), NEW p \in Nat, NEW i \in 1..Len(Visits(ns, p))
  PROVE  i \in DOMAIN ns /\ Visits(ns, p)[i].node = ns[i]
<1>1. i \in DOMAIN ns
  BY VisitsType
<1>. QED
  BY <1>1 DEF Visits

\* Where a walk sets out to, from a node everyone has voted on or behind one.
LEMMA VisitsVotes ==
  ASSUME VotedThrough, NEW x \in Node, NEW t \in Nat, NEW toks, toks = Visits(Succ[x], t), NEW rs,
         \A n \in Voters : x \in Past(n) \cup {n} => Enough(rs, n)
  PROVE  \A n \in Voters : \A i \in 1..Len(toks) : toks[i].node \in Past(n) => Enough(rs, n)
<1> SUFFICES ASSUME NEW n \in Voters, NEW i \in 1..Len(toks), toks[i].node \in Past(n)
             PROVE  Enough(rs, n)
  OBVIOUS
<1>1. PICK ns : ns = Succ[x] /\ ns \in Seq(Node)
  BY FlowAssumption
<1>2. i \in DOMAIN ns /\ toks[i].node = ns[i]
  BY <1>1, VisitsOf
<1>3. ns[i] \in Targets(x)
  BY <1>1, <1>2 DEF Targets
<1>4. x \in Past(n) \cup {n}
  BY <1>2, <1>3, OnwardVotes
<1>. QED
  BY <1>4

LEMMA StartVotes ==
  ASSUME VotedThrough, IInv, VoteInv, Start
  PROVE  VoteInv'
<1>1. PICK x \in StartNodes : Walk(Visits(Succ[x], 0), "agree")
  BY DEF Start
<1>2. PICK ns, toks : ns = Succ[x] /\ toks = Visits(ns, 0)
  OBVIOUS
<1>3. ns \in Seq(Node)
  BY <1>2, FlowAssumption DEF StartNodes
<1>4. /\ inst = "none" /\ todo = <<>> /\ rows' = rows /\ loops' = loops /\ rows \in Seq(Row)
  BY DEF Start, IInv, TypeOK
<1>5. \A n \in Voters : Tallied(rows', loops', n)
  BY <1>4 DEF VoteInv, VotesOK
<1>6. Evolves(rows, rows') /\ rows' \in Seq(Row) /\ Len(rows') = Len(rows)
  BY <1>4 DEF Evolves, Same
<1>7. ASSUME NEW n \in Voters, NEW i \in 1..Len(toks)
      PROVE  toks[i].node \notin Past(n)
  <2>1. i \in DOMAIN ns /\ toks[i].node = ns[i]
    BY <1>2, <1>3, VisitsOf
  <2>2. ns[i] \in FirstNodes
    BY <1>2, <2>1 DEF FirstNodes, Targets
  <2>. QED
    BY <2>1, <2>2 DEF VotedThrough
<1>8. inst # "withdrawn"
  BY <1>4
<1>. QED
  BY <1>1, <1>2, <1>4, <1>5, <1>6, <1>7, <1>8, OnlyVotes

LEMMA WithdrawVotes ==
  ASSUME VoteInv, Withdraw
  PROVE  VoteInv'
<1>1. inst' = "withdrawn" /\ todo' = <<>> /\ saved' = <<>>
  BY DEF Withdraw, Answer, Walk
<1>2. \A i \in 1..Len(todo') : FALSE
  BY <1>1
<1>. QED
  BY <1>1, <1>2 DEF VoteInv

\* A request that votes, clears an add-sign node or not, and walks through toks.
LEMMA ClearsVotes ==
  ASSUME IInv, VoteInv, QuietInv, todo = <<>>, NEW t \in DOMAIN rows, rows[t].state = "doing", MergeLoop(t),
         NEW done, done = Complete(rows, t), rows' = done \/ rows' = ClearAddSign(done, rows[t].node),
         NEW toks, NEW st, Walk(toks, st),
         \A n \in Voters : \A i \in 1..Len(toks) : toks[i].node \notin Past(n)
  PROVE  VoteInv'
<1>1. /\ inst # "withdrawn" /\ rows \in Seq(Row) /\ done \in Seq(Row) /\ Len(done) = Len(rows)
      /\ Evolves(rows, done) /\ \A n \in Voters : Tallied(done, loops', n)
  BY Voting
<1>2. PICK cl : cl = ClearAddSign(done, rows[t].node)
  OBVIOUS
<1>3. /\ cl \in Seq(Row) /\ Len(cl) = Len(done) /\ Evolves(done, cl)
      /\ \A ls : \A n \in Voters : Tallied(done, ls, n) => Tallied(cl, ls, n)
  BY <1>1, <1>2, ClearedVotes
<1>4. Evolves(rows, cl)
  BY <1>1, <1>3, EvolvesTrans
<1>5. \A n \in Voters : Tallied(cl, loops', n)
  BY <1>1, <1>3
<1>6. /\ rows' \in Seq(Row) /\ Len(rows') = Len(rows) /\ Evolves(rows, rows')
      /\ \A n \in Voters : Tallied(rows', loops', n)
  BY <1>1, <1>2, <1>3, <1>4, <1>5
<1>. QED
  BY <1>1, <1>6, OnlyVotes

LEMMA RejectVotes ==
  ASSUME IInv, VoteInv, QuietInv, NEW t \in DOMAIN rows, ExecuteAndJumpToEnd(t)
  PROVE  VoteInv'
<1>1. PICK done : done = Complete(rows, t)
  OBVIOUS
<1>2. /\ rows[t].state = "doing" /\ rows' = ClearAddSign(done, rows[t].node) /\ Walk(<<>>, "agree")
      /\ todo = <<>> /\ MergeLoop(t)
  BY <1>1 DEF ExecuteAndJumpToEnd, Open, Answer, Serving
<1>. QED
  BY <1>1, <1>2, ClearsVotes

LEMMA JumpVotes ==
  ASSUME VotedThrough, IInv, VoteInv, QuietInv, NEW t \in DOMAIN rows, NEW target \in JumpTargets,
         ExecuteAndJumpTask(t, target)
  PROVE  VoteInv'
<1>1. PICK done, toks : done = Complete(rows, t) /\ toks = <<[node |-> target, parent |-> t]>>
  OBVIOUS
<1>2. /\ rows[t].state = "doing" /\ rows' = done /\ Walk(toks, "agree")
      /\ todo = <<>> /\ MergeLoop(t) /\ "jump" \in Ops
  BY <1>1 DEF ExecuteAndJumpTask, Open, Serving
<1>3. \A n \in Voters : target \notin Past(n)
  BY <1>2 DEF VotedThrough
<1>4. \A n \in Voters : \A i \in 1..Len(toks) : toks[i].node \notin Past(n)
  BY <1>1, <1>3
<1>. QED
  BY <1>1, <1>2, <1>4, ClearsVotes

LEMMA ExecuteVotes ==
  ASSUME VotedThrough, IInv, VoteInv, QuietInv, NEW t \in DOMAIN rows, NEW st \in Submits,
         ExecuteProcessTask(t, st)
  PROVE  VoteInv'
<1>1. PICK done, n : done = Complete(rows, t) /\ n = rows[t].node
  OBVIOUS
<1>2. rows[t].state = "doing" /\ todo = <<>> /\ MergeLoop(t)
  BY DEF ExecuteProcessTask, Open, Serving
<1>3. /\ inst # "withdrawn" /\ t \in 1..Len(rows) /\ t \in Nat /\ rows \in Seq(Row) /\ done \in Seq(Row)
      /\ RowsOK(done) /\ Len(done) = Len(rows) /\ Evolves(rows, done) /\ n \in Node
      /\ \A v \in Voters : Tallied(rows, loops, v) /\ Tallied(done, loops', v)
      /\ \A v \in Voters : n \in Past(v) => Enough(done, v)
  <2>1. /\ inst # "withdrawn" /\ t \in 1..Len(rows) /\ t \in Nat /\ rows \in Seq(Row) /\ done \in Seq(Row)
        /\ RowsOK(done) /\ Len(done) = Len(rows) /\ Evolves(rows, done) /\ rows[t].node \in Node
        /\ \A v \in Voters : Tallied(rows, loops, v) /\ Tallied(done, loops', v)
        /\ \A v \in Voters : \A i \in 1..Len(rows) : rows[i].node \in Past(v) => Enough(done, v)
    BY <1>1, <1>2, Voting
  <2>. QED
    BY <1>1, <2>1
<1>4. PICK c : c = Close(done, DoingOn(done, n), "abandoned")
  OBVIOUS
<1>5. \/ /\ GateOpen(done, t, st)
         /\ rows' = done \/ rows' = c
         /\ Walk(Visits(Succ[n], t), st)
      \/ /\ NextMemberDue(done, t, st)
         /\ rows' = Append(done, [Fresh(n, t, {}) EXCEPT !.loop = Loop(t) + 1])
         /\ Walk(<<>>, "agree")
      \/ rows' = done /\ Walk(<<>>, "agree")
  BY <1>1, <1>4 DEF ExecuteProcessTask, Answer
<1>6. CASE /\ GateOpen(done, t, st)
           /\ rows' = done \/ rows' = c
           /\ Walk(Visits(Succ[n], t), st)
  <2>1. n \in Voters => Enough(done, n) /\ DoingIds(done) = {}
    BY <1>1, <1>2, <1>3, <1>6, GateCounts
  <2>2. PICK ids : ids = DoingOn(done, n)
    OBVIOUS
  <2>3. /\ c \in Seq(Row) /\ Len(c) = Len(done) /\ Evolves(done, c)
    <3>1. ids \subseteq DoingIds(done) /\ "abandoned" \in TaskStates
      BY <2>2 DEF DoingOn, TaskStates
    <3>2. PICK e : e = Close(done, ids, "abandoned")
      OBVIOUS
    <3>3. Advances(done, e) /\ Len(e) = Len(done)
      <4>1. done \in Seq(Row)
        BY <1>3
      <4>. QED
        BY <3>1, <3>2, <4>1, CloseAdvances
    <3>4. c = e
      BY <1>4, <2>2, <3>2
    <3>. QED
      BY <3>3, <3>4 DEF Advances
  <2>4. ASSUME NEW v \in Voters
        PROVE  Tallied(c, loops', v)
    <3>1. ids \cap On(done, v) = {}
      BY <2>1, <2>2 DEF DoingOn, On
    <3>2. ids \subseteq DoingIds(done) /\ c = Close(done, ids, "abandoned")
      BY <1>4, <2>2 DEF DoingOn
    <3>3. done \in Seq(Row) /\ Tallied(done, loops', v)
      BY <1>3
    <3>. QED
      BY <3>1, <3>2, <3>3, ClosedVotes
  <2>5. Evolves(rows, c)
    BY <1>3, <2>3, EvolvesTrans
  <2>6. /\ rows' \in Seq(Row) /\ Len(rows') = Len(rows) /\ Evolves(rows, rows')
        /\ Evolves(done, rows') /\ \A v \in Voters : Tallied(rows', loops', v)
    <3>1. Evolves(done, done)
      BY DEF Evolves, Same
    <3>. QED
      BY <1>3, <1>6, <2>3, <2>4, <2>5, <3>1
  <2>7. ASSUME NEW v \in Voters, n \in Past(v) \cup {v}
        PROVE  Enough(rows', v)
    <3>1. Enough(done, v)
      BY <1>3, <2>1, <2>7
    <3>2. PICK new : new = rows'
      OBVIOUS
    <3>3. Enough(new, v)
      BY <1>3, <2>6, <3>1, <3>2, EnoughStays
    <3>. QED
      BY <3>2, <3>3
  <2>8. PICK toks, new : toks = Visits(Succ[n], t) /\ new = rows'
    OBVIOUS
  <2>9. \A v \in Voters : n \in Past(v) \cup {v} => Enough(new, v)
    BY <2>7, <2>8
  <2>10. \A v \in Voters : \A i \in 1..Len(toks) : toks[i].node \in Past(v) => Enough(new, v)
    BY <1>3, <2>8, <2>9, VisitsVotes
  <2>. QED
    BY <1>2, <1>3, <1>6, <2>6, <2>8, <2>10, OnlyVotes
<1>7. CASE /\ NextMemberDue(done, t, st)
           /\ rows' = Append(done, [Fresh(n, t, {}) EXCEPT !.loop = Loop(t) + 1])
           /\ Walk(<<>>, "agree")
  <2>1. PICK f : f = Fresh(n, t, {}) /\ f \in Row
    BY <1>3, FreshRanges
  <2>2. f.node = n /\ f.state = "doing"
    BY <2>1 DEF Fresh
  <2>3. PICK l : l = Loop(t) + 1 /\ l \in Int /\ Loop(t) \in Int
    BY <1>3, LoopType DEF IInv
  <2>4. PICK r : r = [f EXCEPT !.loop = l]
    OBVIOUS
  <2>5. r \in Row /\ r.node = n /\ r.state = "doing" /\ r.loop = l
    BY <2>1, <2>2, <2>3, <2>4 DEF Row
  <2>6. rows' = Append(done, r)
    BY <1>7, <2>1, <2>3, <2>4
  <2>7. ASSUME n \in Voters
        PROVE  /\ On(done, n) # {}
               /\ Countersign[n] = "sequential" =>
                    l <= Cardinality(DoneOn(done, n)) /\ (l >= 0 \/ loops'[n] >= 0)
    <3>1. t \in DoneOn(done, n) /\ Tallied(done, loops', n)
      BY <1>1, <1>2, <1>3, <2>7, CompletedVotes
    <3>2. DoneOn(done, n) \subseteq On(done, n) /\ Cardinality(DoneOn(done, n)) \in Nat
      BY <1>3, FiniteOn
    <3>3. loops'[n] = Loop(t)
      BY <1>1, <1>2, <1>3 DEF IInv, TypeOK, MergeLoop
    <3>4. Loop(t) >= 0
      BY <1>7 DEF NextMemberDue, HasNextMember
    <3>5. Countersign[n] = "sequential" => loops'[n] < Cardinality(DoneOn(done, n))
      BY <3>1 DEF Tallied
    <3>. QED
      BY <2>3, <3>1, <3>2, <3>3, <3>4, <3>5
  <2>8. /\ r.node \in Voters =>
             /\ On(done, r.node) # {}
             /\ Countersign[r.node] = "sequential" =>
                  r.loop <= Cardinality(DoneOn(done, r.node)) /\ (r.loop >= 0 \/ loops'[r.node] >= 0)
        /\ \A v \in Voters : r.node \in Past(v) => Enough(done, v)
        /\ \A v \in Voters : Tallied(done, loops', v)
    BY <1>3, <2>5, <2>7
  <2>. QED
    BY <1>2, <1>3, <1>7, <2>5, <2>6, <2>8, OneMoreVotes
<1>8. CASE rows' = done /\ Walk(<<>>, "agree")
  <2>1. \A v \in Voters : \A i \in 1..Len(<<>>) : <<>>[i].node \in Past(v) => Enough(rows', v)
    OBVIOUS
  <2>2. \A v \in Voters : Tallied(rows', loops', v)
    BY <1>3, <1>8
  <2>3. rows' \in Seq(Row) /\ Len(rows') = Len(rows) /\ Evolves(rows, rows')
    BY <1>3, <1>8
  <2>. QED
    BY <1>2, <1>3, <1>8, <2>1, <2>2, <2>3, OnlyVotes
<1>. QED
  BY <1>5, <1>6, <1>7, <1>8

LEMMA AddSignVotes ==
  ASSUME IInv, VoteInv, QuietInv, NEW t \in DOMAIN rows, NEW k \in 1..2, AddSign(t, k)
  PROVE  VoteInv'
<1>1. PICK done, n : done = Complete(rows, t) /\ n = rows[t].node
  OBVIOUS
<1>2. /\ rows[t].state = "doing" /\ n \in AllowAddSign /\ Walk(<<>>, "agree")
      /\ todo = <<>> /\ MergeLoop(t)
  BY <1>1 DEF AddSign, Open, Answer, Serving
<1>3. /\ inst # "withdrawn" /\ t \in 1..Len(rows) /\ t \in Nat /\ rows \in Seq(Row) /\ done \in Seq(Row)
      /\ RowsOK(done) /\ Len(done) = Len(rows) /\ Evolves(rows, done) /\ n \in Node
      /\ \A v \in Voters : Tallied(done, loops', v)
      /\ \A v \in Voters : n \in Past(v) => Enough(done, v)
  <2>1. /\ inst # "withdrawn" /\ t \in 1..Len(rows) /\ t \in Nat /\ rows \in Seq(Row) /\ done \in Seq(Row)
        /\ RowsOK(done) /\ Len(done) = Len(rows) /\ Evolves(rows, done) /\ rows[t].node \in Node
        /\ \A v \in Voters : Tallied(rows, loops, v) /\ Tallied(done, loops', v)
        /\ \A v \in Voters : \A i \in 1..Len(rows) : rows[i].node \in Past(v) => Enough(done, v)
    BY <1>1, <1>2, Voting
  <2>. QED
    BY <1>1, <2>1
<1>4. n \notin Voters
  BY <1>2, VoteFacts, ParseAssumption
<1>5. PICK more : /\ more = [i \in 1..k |-> Fresh(n, t, BuildScopes(done, n, t, Len(rows) + i))]
                  /\ rows' = done \o more
  BY <1>1 DEF AddSign
<1>6. ASSUME NEW i \in 1..k
      PROVE  more[i] \in Row /\ more[i].node = n
  <2>1. PICK B : B = BuildScopes(done, n, t, Len(rows) + i)
    OBVIOUS
  <2>2. Len(rows) + i \in Nat
    BY <1>3
  <2>3. B \in SUBSET Scope
    BY <1>3, <2>1, <2>2, BuildScopesType
  <2>4. more[i] = Fresh(n, t, B)
    BY <1>5, <2>1
  <2>5. Fresh(n, t, B) \in Row
    BY <1>3, <2>3, FreshRanges
  <2>. QED
    BY <2>4, <2>5 DEF Fresh
<1>7. more \in Seq(Row) /\ Len(more) = k
  <2>1. more \in [1..k -> Row]
    BY <1>5, <1>6
  <2>. QED
    BY <2>1, FunctionIsSeq
<1>8. PICK new : new = done \o more
  OBVIOUS
<1>9. /\ new \in Seq(Row) /\ Settles(done, new)
      /\ \A m \in Len(done)+1..Len(new) : m - Len(done) \in 1..k /\ new[m] = more[m - Len(done)]
  BY <1>3, <1>7, <1>8, ConcatSettles
<1>10. Evolves(done, new) /\ Evolves(rows, new)
  BY <1>3, <1>9, EvolvesTrans DEF Settles
<1>11. ASSUME NEW v \in Voters
       PROVE  Tallied(new, loops', v)
  <2>1. \A j \in 1..Len(more) : more[j].node # v
    BY <1>4, <1>6, <1>7
  <2>2. Tallied(done, loops', v) /\ done \in Seq(Row)
    BY <1>3
  <2>. QED
    BY <1>7, <1>8, <2>1, <2>2, MoreVotes
<1>12. ASSUME NEW v \in Voters, NEW m \in Len(rows)+1..Len(new), new[m].node \in Past(v)
       PROVE  Enough(new, v)
  <2>1. m \in Len(done)+1..Len(new)
    BY <1>3
  <2>2. PICK i \in 1..k : new[m] = more[i]
    BY <1>9, <2>1
  <2>3. Enough(done, v)
    BY <1>3, <1>6, <1>12, <2>2
  <2>. QED
    BY <1>3, <1>9, <1>10, <2>3, EnoughStays
<1>13. \A v \in Voters : \A i \in 1..Len(<<>>) : <<>>[i].node \in Past(v) => Enough(rows', v)
  OBVIOUS
<1>14. /\ rows' \in Seq(Row) /\ Evolves(rows, rows') /\ \A v \in Voters : Tallied(rows', loops', v)
       /\ \A v \in Voters : \A m \in Len(rows)+1..Len(rows') : rows'[m].node \in Past(v) => Enough(rows', v)
  BY <1>5, <1>8, <1>9, <1>10, <1>11, <1>12
<1>. QED
  BY <1>2, <1>3, <1>13, <1>14, RequestVotes

\* A request that votes and puts a row where there was one that voted.
LEMMA ComesBack ==
  ASSUME IInv, VoteInv, QuietInv, todo = <<>>, NEW t \in DOMAIN rows, rows[t].state = "doing", MergeLoop(t),
         NEW done, done = Complete(rows, t), NEW h \in 1..Len(rows), rows[h].state = "done",
         NEW r \in Row, r.state = "doing", r.loop = -1, r.node = rows[h].node,
         rows' = Append(done, r), Walk(<<>>, "agree")
  PROVE  VoteInv'
<1>1. /\ inst # "withdrawn" /\ rows \in Seq(Row) /\ done \in Seq(Row)
      /\ RowsOK(done) /\ Len(done) = Len(rows) /\ Evolves(rows, done)
      /\ \A v \in Voters : Tallied(rows, loops, v) /\ Tallied(done, loops', v)
      /\ \A v \in Voters : \A i \in 1..Len(rows) : rows[i].node \in Past(v) => Enough(done, v)
  BY Voting
<1>2. h \in 1..Len(done) /\ done[h].state = "done" /\ done[h].node = r.node
  BY <1>1 DEF Evolves, Same
<1>3. ASSUME r.node \in Voters
      PROVE  /\ On(done, r.node) # {}
             /\ Countersign[r.node] = "sequential" =>
                  r.loop <= Cardinality(DoneOn(done, r.node)) /\ (r.loop >= 0 \/ loops'[r.node] >= 0)
  <2>1. PICK x, ls : x = r.node /\ ls = loops'
    OBVIOUS
  <2>2. /\ On(done, x) # {}
        /\ Countersign[x] = "sequential" => -1 <= Cardinality(DoneOn(done, x)) /\ ls[x] >= 0
    BY <1>1, <1>2, <1>3, <2>1, BroughtBack
  <2>. QED
    BY <2>1, <2>2
<1>4. \A v \in Voters : r.node \in Past(v) => Enough(done, v)
  BY <1>1
<1>. QED
  BY <1>1, <1>3, <1>4, OneMoreVotes

LEMMA RollbackVotes ==
  ASSUME IInv, VoteInv, QuietInv, NEW t \in DOMAIN rows, RollbackToParent(t)
  PROVE  VoteInv'
<1>1. PICK p, his, done :
        p = rows[t].parent /\ his = rows[rows[t].parent] /\ done = Complete(rows, t)
  OBVIOUS
<1>2. /\ rows[t].state = "doing" /\ p # 0 /\ todo = <<>> /\ MergeLoop(t) /\ Walk(<<>>, "agree")
      /\ rows' = Append(done, [Fresh(his.node, his.parent, his.scopes) EXCEPT
                                 !.source = his.source, !.branch = his.branch])
  BY <1>1 DEF RollbackToParent, Open, Answer, Serving
<1>3. t \in 1..Len(rows) /\ rows \in Seq(Row) /\ RowsOK(rows)
  BY <1>2, OpenRow
<1>4. p \in 1..Len(rows) /\ rows[p].state = "done" /\ his = rows[p] /\ his \in Row
  <2>1. p \in 1..Len(rows) /\ rows[p].state = "done"
    BY <1>1, <1>2, <1>3, ParentType
  <2>. QED
    BY <1>1, <1>3, <2>1
<1>5. PICK f : f = Fresh(his.node, his.parent, his.scopes) /\ f \in Row
  BY <1>4, FreshRanges DEF Row
<1>6. f.node = his.node /\ f.state = "doing" /\ f.loop = -1
  BY <1>5 DEF Fresh
<1>7. PICK r : r = [f EXCEPT !.source = his.source, !.branch = his.branch]
  OBVIOUS
<1>8. r \in Row /\ r.node = rows[p].node /\ r.state = "doing" /\ r.loop = -1
  <2>1. his \in Row /\ f \in Row
    BY <1>4, <1>5
  <2>2. r \in Row
    BY <1>7, <2>1 DEF Row
  <2>3. r.node = f.node /\ r.state = f.state /\ r.loop = f.loop
    BY <1>7, <2>1 DEF Row
  <2>. QED
    BY <1>4, <1>6, <2>2, <2>3
<1>9. rows' = Append(done, r)
  BY <1>2, <1>5, <1>7
<1>. QED
  BY <1>1, <1>2, <1>4, <1>8, <1>9, ComesBack

LEMMA ReapplyVotes ==
  ASSUME IInv, VoteInv, QuietInv, NEW t \in DOMAIN rows, ExecuteReapply(t)
  PROVE  VoteInv'
<1>1. PICK done, c, br : done = Complete(rows, t) /\ c = rows[t].source /\ br = rows[t].branch
  OBVIOUS
<1>2. /\ rows[t].state = "doing" /\ Walk(<<>>, "agree") /\ c # 0 /\ todo = <<>> /\ MergeLoop(t)
      /\ rows[c].state = "done"
      /\ rows' = Append(done, Fresh(rows[c].node, t, br))
  BY <1>1 DEF ExecuteReapply, Answer, Serving
<1>3. t \in 1..Len(rows) /\ t \in Nat /\ rows \in Seq(Row) /\ RowsOK(rows) /\ rows[t] \in Row
  BY <1>2, OpenRow
<1>4. c \in 1..Len(rows) /\ rows[c] \in Row
  <2>1. c = Seat(rows, t)
    BY <1>1, <1>2 DEF Seat
  <2>. QED
    BY <1>3, <2>1, SeatType
<1>5. PICK r : r = Fresh(rows[c].node, t, br) /\ r \in Row
  <2>1. rows[c].node \in Node /\ br \in SUBSET Scope
    BY <1>1, <1>3, <1>4 DEF Row
  <2>. QED
    BY <1>3, <2>1, FreshRanges
<1>6. r.node = rows[c].node /\ r.state = "doing" /\ r.loop = -1
  BY <1>5 DEF Fresh
<1>7. rows' = Append(done, r)
  BY <1>2, <1>5
<1>. QED
  BY <1>1, <1>2, <1>4, <1>5, <1>6, <1>7, ComesBack

LEMMA ReturnVotes ==
  ASSUME VotedThrough, IInv, VoteInv, QuietInv, NEW t \in DOMAIN rows, ExecuteAndJumpToFirstTaskNode(t)
  PROVE  VoteInv'
<1>1. PICK n, done, cleared, first :
        /\ n = rows[t].node /\ done = Complete(rows, t)
        /\ cleared = ClearAddSign(done, n) /\ first = FirstOf({"task"})[1]
  OBVIOUS
<1>2. rows[t].state = "doing" /\ todo = <<>>
  BY <1>1 DEF ExecuteAndJumpToFirstTaskNode, Open, Serving
<1>3. \/ /\ Returnable(n) /\ MergeLoop(t)
         /\ rows' = Append(cleared, [Fresh(first, t, {}) EXCEPT !.source = t, !.branch = rows[t].scopes])
         /\ Walk(<<>>, "agree")
      \/ rows' = rows /\ loops' = loops /\ Walk(<<>>, "agree")
      \/ rows' = cleared /\ MergeLoop(t) /\ Walk(<<>>, "agree")
      \/ /\ rows' = cleared /\ MergeLoop(t)
         /\ Walk(Visits(FirstOf({"task", "custom"}), t), "agree")
  BY <1>1 DEF ExecuteAndJumpToFirstTaskNode, Answer
<1>4. CASE /\ Returnable(n) /\ MergeLoop(t)
           /\ rows' = Append(cleared, [Fresh(first, t, {}) EXCEPT !.source = t, !.branch = rows[t].scopes])
           /\ Walk(<<>>, "agree")
  <2>1. first \in FirstNodes /\ first \in Node
    <3>1. PICK x \in FirstNodes : x \in Node /\ Kind[x] \in {"task"} /\ FirstOf({"task"}) = <<x>>
      BY <1>4, FirstOfNode DEF Returnable
    <3>. QED
      BY <1>1, <3>1
  <2>2. /\ inst # "withdrawn" /\ t \in 1..Len(rows) /\ t \in Nat /\ rows \in Seq(Row) /\ done \in Seq(Row)
        /\ RowsOK(done) /\ Len(done) = Len(rows) /\ Evolves(rows, done)
        /\ \A v \in Voters : Tallied(done, loops', v)
    BY <1>1, <1>2, <1>4, Voting
  <2>3. /\ cleared \in Seq(Row) /\ Len(cleared) = Len(done) /\ Evolves(done, cleared) /\ RowsOK(cleared)
        /\ \A ls : \A v \in Voters : Tallied(done, ls, v) => Tallied(cleared, ls, v)
    BY <1>1, <2>2, ClearedVotes
  <2>4. Evolves(rows, cleared)
    BY <2>2, <2>3, EvolvesTrans
  <2>5. PICK f : f = Fresh(first, t, {}) /\ f \in Row
    BY <2>1, <2>2, FreshRanges
  <2>6. PICK sc : sc = rows[t].scopes /\ sc \in SUBSET Scope
    <3>1. rows[t] \in Row
      BY <2>2
    <3>. QED
      BY <3>1 DEF Row
  <2>7. PICK r : r = [f EXCEPT !.source = t, !.branch = sc]
    OBVIOUS
  <2>8. r \in Row /\ r.state = "doing" /\ r.node = first
    <3>1. r \in Row
      BY <2>2, <2>5, <2>6, <2>7 DEF Row
    <3>2. r.state = f.state /\ r.node = f.node
      BY <2>5, <2>7 DEF Row
    <3>3. f.state = "doing" /\ f.node = first
      BY <2>5 DEF Fresh
    <3>. QED
      BY <3>1, <3>2, <3>3
  <2>9. rows' = Append(cleared, r)
    BY <1>4, <2>5, <2>6, <2>7
  <2>10. r.node \notin Voters /\ \A v \in Voters : r.node \notin Past(v)
    BY <2>1, <2>8 DEF VotedThrough
  <2>11. \A v \in Voters : Tallied(cleared, loops', v)
    BY <2>2, <2>3
  <2>12. Len(cleared) = Len(rows)
    BY <2>2, <2>3
  <2>. QED
    BY <1>2, <1>4, <2>2, <2>3, <2>4, <2>8, <2>9, <2>10, <2>11, <2>12, OneMoreVotes
<1>5. CASE rows' = rows /\ loops' = loops /\ Walk(<<>>, "agree")
  <2>1. \A v \in Voters : \A i \in 1..Len(<<>>) : <<>>[i].node \in Past(v) => Enough(rows', v)
    OBVIOUS
  <2>2. inst # "withdrawn" /\ rows \in Seq(Row)
    BY <1>2 DEF QuietInv, DoingIds, IInv, TypeOK
  <2>3. \A v \in Voters : Tallied(rows', loops', v)
    BY <1>5, <2>2 DEF VoteInv, VotesOK
  <2>4. rows' \in Seq(Row) /\ Len(rows') = Len(rows) /\ Evolves(rows, rows')
    BY <1>5, <2>2 DEF Evolves, Same
  <2>. QED
    BY <1>2, <1>5, <2>1, <2>2, <2>3, <2>4, OnlyVotes
<1>6. CASE rows' = cleared /\ MergeLoop(t) /\ Walk(<<>>, "agree")
  BY <1>1, <1>2, <1>6, ClearsVotes
<1>7. CASE rows' = cleared /\ MergeLoop(t) /\ Walk(Visits(FirstOf({"task", "custom"}), t), "agree")
  <2>1. PICK toks, ns : toks = Visits(ns, t) /\ ns = FirstOf({"task", "custom"})
    OBVIOUS
  <2>2. ASSUME NEW v \in Voters, NEW i \in 1..Len(toks)
        PROVE  toks[i].node \notin Past(v)
    <3>1. t \in Nat
      BY <1>2, OpenRow
    <3>2. ns # <<>>
      BY <2>1, <2>2 DEF Visits
    <3>3. PICK x \in FirstNodes : x \in Node /\ ns = <<x>>
      BY <2>1, <3>2, FirstOfNode
    <3>4. toks[i].node = x
      BY <2>1, <3>3 DEF Visits
    <3>. QED
      BY <3>4 DEF VotedThrough
  <2>. QED
    BY <1>1, <1>2, <1>7, <2>1, <2>2, ClearsVotes
<1>. QED
  BY <1>3, <1>4, <1>5, <1>6, <1>7

\* The visits after the one at hand: what is beyond a node is due only when everyone
\* has voted there.
LEMMA OnwardsVotes ==
  ASSUME VotedThrough, IInv, BranchInv, TokenInv, VoteInv, todo # <<>>, Kind[Here] # "task",
         NEW toks, Onwards(toks), NEW n \in Voters, NEW i \in 1..Len(toks), toks[i].node \in Past(n)
  PROVE  Enough(rows, n)
<1>1. Here \in Node /\ 1 \in 1..Len(todo) /\ todo[1].node = Here
  BY WalkFacts
<1>2. CASE toks[i].node \in Targets(Here)
  <2>1. Here \in Past(n) \cup {n}
    BY <1>1, <1>2, OnwardVotes
  <2>2. Here # n
    BY DEF VotedThrough
  <2>. QED
    BY <1>1, <2>1, <2>2 DEF VoteInv
<1>3. CASE \E k \in 1..Len(todo) : toks[i].node = todo[k].node
  BY <1>3 DEF VoteInv
<1>. QED
  BY <1>2, <1>3 DEF Onwards

\* The walk passes a node that leaves no row.
LEMMA PassesVotes ==
  ASSUME VotedThrough, IInv, BranchInv, TokenInv, VoteInv, QuietInv, todo # <<>>, Kind[Here] # "task",
         rows' = rows, loops' = loops, NEW toks, Continue(toks), Onwards(toks)
  PROVE  VoteInv'
<1>1. inst # "withdrawn" /\ rows \in Seq(Row) /\ Len(rows) \in Nat
  BY DEF QuietInv, IInv, TypeOK
<1>2. \A n \in Voters : Tallied(rows', loops', n)
  BY <1>1 DEF VoteInv, VotesOK
<1>3. rows' \in Seq(Row) /\ Evolves(rows, rows')
  BY <1>1 DEF Evolves, Same
<1>4. \A m \in Len(rows)+1..Len(rows') : FALSE
  BY <1>1
<1>5. \A n \in Voters : \A i \in 1..Len(toks) : toks[i].node \in Past(n) => Enough(rows', n)
  BY OnwardsVotes
<1>. QED
  BY <1>1, <1>2, <1>3, <1>4, <1>5, StepVotes

LEMMA EnterForkVotes ==
  ASSUME VotedThrough, IInv, BranchInv, TokenInv, VoteInv, QuietInv, EnterFork
  PROVE  VoteInv'
<1>1. PICK ns, toks : ns = Succ[Here] /\ toks = Visits(ns, By) \o Tail(todo)
  OBVIOUS
<1>2. todo # <<>> /\ Continue(toks) /\ rows' = rows /\ loops' = loops /\ Kind[Here] # "task"
  BY <1>1 DEF EnterFork, At, Descend, Here
<1>3. Onward(ns)
  BY <1>1, <1>2, WalkFacts DEF Targets, Onward
<1>4. Onwards(toks)
  BY <1>1, <1>2, <1>3, Descended
<1>. QED
  BY <1>2, <1>4, PassesVotes

LEMMA EnterJoinVotes ==
  ASSUME VotedThrough, IInv, BranchInv, TokenInv, VoteInv, QuietInv, EnterJoin
  PROVE  VoteInv'
<1>1. PICK ns, toks : /\ ns = IF MergeReady(rows, Here, By) THEN Succ[Here] ELSE <<>>
                      /\ toks = Visits(ns, By) \o Tail(todo)
  OBVIOUS
<1>2. todo # <<>> /\ Continue(toks) /\ rows' = rows /\ loops' = loops /\ Kind[Here] # "task"
  BY <1>1 DEF EnterJoin, At, Descend, Here
<1>3. Onward(ns)
  <2>1. Succ[Here] \in Seq(Node) /\ \A i \in DOMAIN Succ[Here] : Succ[Here][i] \in Targets(Here)
    BY <1>2, WalkFacts DEF Targets
  <2>2. <<>> \in Seq(Node) /\ DOMAIN <<>> = {}
    OBVIOUS
  <2>. QED
    BY <1>1, <2>1, <2>2 DEF Onward
<1>4. toks = Visits(ns, By) \o Tail(todo)
  BY <1>1
<1>5. Onwards(toks)
  BY <1>2, <1>3, <1>4, Descended
<1>. QED
  BY <1>2, <1>5, PassesVotes

LEMMA EnterDecisionVotes ==
  ASSUME VotedThrough, IInv, BranchInv, TokenInv, VoteInv, QuietInv, EnterDecision
  PROVE  VoteInv'
<1>1. PICK e \in DOMAIN Succ[Here] : Descend(<<Succ[Here][e]>>)
  BY DEF EnterDecision
<1>2. PICK ns, toks : ns = <<Succ[Here][e]>> /\ toks = Visits(ns, By) \o Tail(todo)
  OBVIOUS
<1>3. todo # <<>> /\ Continue(toks) /\ rows' = rows /\ loops' = loops /\ Kind[Here] # "task"
  BY <1>1, <1>2 DEF EnterDecision, At, Descend, Here
<1>4. Succ[Here][e] \in Node /\ Succ[Here][e] \in Targets(Here)
  BY <1>3, WalkFacts DEF Targets
<1>5. Onward(ns)
  BY <1>2, <1>4 DEF Onward
<1>6. toks = Visits(ns, By) \o Tail(todo)
  BY <1>2
<1>7. Onwards(toks)
  BY <1>3, <1>5, <1>6, Descended
<1>. QED
  BY <1>3, <1>7, PassesVotes

LEMMA EnterTailVotes ==
  ASSUME VotedThrough, IInv, BranchInv, TokenInv, VoteInv, QuietInv, EnterEnd \/ EnterOther
  PROVE  VoteInv'
<1>1. todo # <<>> /\ Continue(Tail(todo)) /\ rows' = rows /\ loops' = loops /\ Kind[Here] # "task"
  BY DEF EnterEnd, EnterOther, At, Here
<1>. QED
  BY <1>1, TailLeft, PassesVotes

LEMMA DecisionFailsVotes ==
  ASSUME IInv, VoteInv, QuietInv, DecisionFails
  PROVE  VoteInv'
<1>1. Continue(<<>>) /\ todo # <<>>
  BY DEF DecisionFails, At
<1>2. todo' = <<>> /\ saved' = <<>>
  BY <1>1 DEF Continue
<1>3. VotesOK(rows', loops')
  <2>1. CASE Transactional
    <3>1. saved # <<>>
      BY <1>1, <2>1 DEF IInv, TypeOK
    <3>. QED
      BY <2>1, <3>1 DEF DecisionFails, VoteInv
  <2>2. CASE ~Transactional
    <3>1. inst # "withdrawn"
      BY <1>1 DEF QuietInv
    <3>. QED
      BY <2>2, <3>1 DEF DecisionFails, VoteInv
  <2>. QED
    BY <2>1, <2>2
<1>4. \A i \in 1..Len(todo') : FALSE
  BY <1>2
<1>. QED
  BY <1>2, <1>3, <1>4 DEF VoteInv

\* The rows of a task node, one at least, and one for each member where all act at once.
LEMMA EnterTaskVotes ==
  ASSUME IInv, BranchInv, TokenInv, VoteInv, QuietInv, EnterTask
  PROVE  VoteInv'
<1>1. PICK c, first, x, w, N :
        /\ c = NewRows(Here) /\ first = (IF Countersign[Here] = "sequential" THEN 0 ELSE -1)
        /\ x = Here /\ w = By /\ N = Len(rows)
  OBVIOUS
<1>2. PICK more : more = [i \in 1..c |-> [Fresh(x, w, Attached(rows, x, w, N + i)) EXCEPT !.loop = first]]
  OBVIOUS
<1>3. /\ todo # <<>> /\ rows' = rows \o more /\ Kind[x] = "task" /\ Continue(Tail(todo)) /\ loops' = loops
  BY <1>1, <1>2 DEF EnterTask, At, Here
<1>4. /\ x \in Node /\ w \in Nat /\ rows \in Seq(Row) /\ RowsOK(rows) /\ inst # "withdrawn"
      /\ 1 \in 1..Len(todo) /\ todo[1].node = x
  BY <1>1, <1>3, WalkFacts DEF Fit, QuietInv
<1>5. /\ c \in Nat /\ first \in Int /\ N \in Nat
      /\ Countersign[x] = "parallel" => c >= Members[x]
  <2>1. Members[x] \in Nat
    BY <1>4, EngineAssumption
  <2>. QED
    BY <1>1, <1>4, <2>1 DEF NewRows
<1>6. ASSUME NEW i \in 1..c
      PROVE  more[i] \in Row /\ more[i].node = x /\ more[i].state = "doing" /\ more[i].loop = first
  <2>1. PICK B : B = Attached(rows, x, w, N + i)
    OBVIOUS
  <2>2. N + i \in Nat
    BY <1>5
  <2>3. B \in SUBSET Scope
    BY <1>4, <2>1, <2>2, AttachedType
  <2>4. PICK f : f = Fresh(x, w, B) /\ f \in Row
    BY <1>4, <2>3, FreshRanges
  <2>5. f.node = x /\ f.state = "doing"
    BY <2>4 DEF Fresh
  <2>6. more[i] = [f EXCEPT !.loop = first]
    BY <1>2, <2>1, <2>4
  <2>7. more[i] \in Row /\ more[i].node = f.node /\ more[i].state = f.state /\ more[i].loop = first
    BY <1>5, <2>4, <2>6 DEF Row
  <2>. QED
    BY <2>5, <2>7
<1>7. more \in Seq(Row) /\ Len(more) = c
  <2>1. more \in [1..c -> Row]
    BY <1>2, <1>6
  <2>. QED
    BY <1>5, <2>1, FunctionIsSeq
<1>8. PICK new : new = rows \o more
  OBVIOUS
<1>9. /\ new \in Seq(Row) /\ Settles(rows, new)
      /\ \A m \in Len(rows)+1..Len(new) : m - Len(rows) \in 1..Len(more) /\ new[m] = more[m - Len(rows)]
  BY <1>4, <1>7, <1>8, ConcatSettles
<1>10. Evolves(rows, new)
  BY <1>9 DEF Settles
<1>11. ASSUME NEW n \in Voters
       PROVE  Tallied(new, loops, n)
  <2>1. Tallied(rows, loops, n)
    BY <1>4 DEF VoteInv, VotesOK
  <2>2. Cardinality(DoneOn(rows, n)) \in Nat
    BY <1>4, FiniteOn
  <2>3. ASSUME NEW j \in 1..Len(more), more[j].node = n
        PROVE  /\ more[j].state = "doing"
               /\ Countersign[n] = "sequential" =>
                    more[j].loop <= Cardinality(DoneOn(rows, n)) /\ (more[j].loop >= 0 \/ loops[n] >= 0)
               /\ Countersign[n] = "parallel" =>
                    On(rows, n) # {} \/ (Len(more) >= Members[n] /\ \A k \in 1..Len(more) : more[k].node = n)
    <3>1. n = x /\ more[j].state = "doing" /\ more[j].loop = first
      BY <1>6, <1>7, <2>3
    <3>2. Countersign[n] = "sequential" => first = 0
      BY <1>1, <3>1
    <3>3. \A k \in 1..Len(more) : more[k].node = n
      BY <1>6, <1>7, <3>1
    <3>. QED
      BY <1>5, <1>7, <2>2, <3>1, <3>2, <3>3
  <2>. QED
    BY <1>4, <1>7, <1>8, <2>1, <2>3, MoreVotes
<1>12. ASSUME NEW n \in Voters, NEW m \in Len(rows)+1..Len(new), new[m].node \in Past(n)
       PROVE  Enough(new, n)
  <2>1. new[m].node = x
    BY <1>6, <1>7, <1>9
  <2>2. Enough(rows, n)
    BY <1>4, <1>12, <2>1 DEF VoteInv
  <2>. QED
    BY <1>4, <1>9, <1>10, <2>2, EnoughStays
<1>13. PICK toks : toks = Tail(todo)
  OBVIOUS
<1>14. \A i \in 1..Len(toks) : i + 1 \in 1..Len(todo) /\ toks[i] = todo[i+1]
  BY <1>3, <1>13, WalkFacts
<1>15. ASSUME NEW n \in Voters, NEW i \in 1..Len(toks), toks[i].node \in Past(n)
       PROVE  Enough(new, n)
  <2>1. Enough(rows, n)
    BY <1>14, <1>15 DEF VoteInv
  <2>. QED
    BY <1>4, <1>9, <1>10, <2>1, EnoughStays
<1>16. rows' = new /\ Continue(toks)
  BY <1>3, <1>8, <1>13
<1>. QED
  BY <1>3, <1>4, <1>9, <1>10, <1>11, <1>12, <1>15, <1>16, StepVotes

LEMMA EnterCustomVotes ==
  ASSUME VotedThrough, IInv, BranchInv, TokenInv, VoteInv, QuietInv, EnterCustom
  PROVE  VoteInv'
<1>1. PICK row, ns, toks : row = [Fresh(Here, By, {}) EXCEPT !.state = "done"]
                           /\ ns = Succ[Here] /\ toks = Visits(ns, By) \o Tail(todo)
  OBVIOUS
<1>2. /\ todo # <<>> /\ Kind[Here] = "custom" /\ Continue(toks) /\ rows' = Append(rows, row) /\ loops' = loops
  BY <1>1 DEF EnterCustom, At, Here, Descend
<1>3. /\ Here \in Node /\ By \in Nat /\ rows \in Seq(Row) /\ RowsOK(rows) /\ inst # "withdrawn"
      /\ 1 \in 1..Len(todo) /\ todo[1].node = Here
  BY <1>2, WalkFacts DEF Fit, QuietInv
<1>4. PICK f : f = Fresh(Here, By, {}) /\ f \in Row
  <2>1. {} \in SUBSET Scope
    OBVIOUS
  <2>. QED
    BY <1>3, <2>1, FreshRanges
<1>5. row \in Row /\ row.node = Here
  <2>1. row = [f EXCEPT !.state = "done"] /\ f.node = Here
    BY <1>1, <1>4 DEF Fresh
  <2>. QED
    BY <1>4, <2>1 DEF Row, TaskStates
<1>6. PICK new, more : new = Append(rows, row) /\ more = <<row>>
  OBVIOUS
<1>7. new \in Seq(Row) /\ Evolves(rows, new) /\ \A m \in Len(rows)+1..Len(new) : new[m] = row
  <2>1. /\ new \in Seq(Row) /\ Settles(rows, new) /\ new[Len(rows)+1] = row
        /\ Len(rows)+1..Len(new) = {Len(rows)+1}
    BY <1>3, <1>5, <1>6, AppendSettles
  <2>. QED
    BY <2>1 DEF Settles
<1>8. more \in Seq(Row) /\ new = rows \o more /\ \A j \in 1..Len(more) : more[j] = row
  BY <1>3, <1>5, <1>6
<1>9. ASSUME NEW n \in Voters
      PROVE  Tallied(new, loops, n)
  <2>1. Tallied(rows, loops, n)
    BY <1>3 DEF VoteInv, VotesOK
  <2>2. \A j \in 1..Len(more) : more[j].node # n
    BY <1>2, <1>5, <1>8 DEF VotedThrough
  <2>. QED
    BY <1>3, <1>8, <2>1, <2>2, MoreVotes
<1>10. ASSUME NEW n \in Voters, NEW m \in Len(rows)+1..Len(new), new[m].node \in Past(n)
       PROVE  Enough(new, n)
  <2>1. Enough(rows, n)
    BY <1>3, <1>5, <1>7, <1>10 DEF VoteInv
  <2>. QED
    BY <1>3, <1>7, <2>1, EnoughStays
<1>11. Onward(ns)
  BY <1>1, <1>2, WalkFacts DEF Targets, Onward
<1>12. Onwards(toks)
  BY <1>1, <1>2, <1>11, Descended
<1>13. ASSUME NEW n \in Voters, NEW i \in 1..Len(toks), toks[i].node \in Past(n)
       PROVE  Enough(new, n)
  <2>1. Enough(rows, n)
    BY <1>2, <1>12, <1>13, OnwardsVotes
  <2>. QED
    BY <1>3, <1>7, <2>1, EnoughStays
<1>14. rows' = new
  BY <1>2, <1>6
<1>. QED
  BY <1>2, <1>3, <1>7, <1>9, <1>10, <1>13, <1>14, StepVotes

LEMMA NextVotes ==
  ASSUME Disciplined, VotedThrough, IInv, BranchInv, TokenInv, VoteInv, QuietInv, [Next]_vars
  PROVE  VoteInv'
<1>1. CASE Start
  BY <1>1, StartVotes
<1>2. CASE Withdraw
  BY <1>2, WithdrawVotes
<1>3. ASSUME NEW t \in DOMAIN rows, NEW st \in Submits, ExecuteProcessTask(t, st)
      PROVE  VoteInv'
  BY <1>3, ExecuteVotes
<1>4. ASSUME NEW t \in DOMAIN rows, NEW k \in 1..2, AddSign(t, k)
      PROVE  VoteInv'
  BY <1>4, AddSignVotes
<1>5. ASSUME NEW t \in DOMAIN rows, ExecuteAndJumpToEnd(t)
      PROVE  VoteInv'
  BY <1>5, RejectVotes
<1>6. ASSUME NEW t \in DOMAIN rows, RollbackToParent(t)
      PROVE  VoteInv'
  BY <1>6, RollbackVotes
<1>7. ASSUME NEW t \in DOMAIN rows, NEW target \in JumpTargets, ExecuteAndJumpTask(t, target)
      PROVE  VoteInv'
  BY <1>7, JumpVotes
<1>8. ASSUME NEW t \in DOMAIN rows, ExecuteAndJumpToFirstTaskNode(t)
      PROVE  VoteInv'
  BY <1>8, ReturnVotes
<1>9. ASSUME NEW t \in DOMAIN rows, ExecuteReapply(t)
      PROVE  VoteInv'
  BY <1>9, ReapplyVotes
<1>10. ASSUME NEW t \in DOMAIN rows, RecallTask(t)
       PROVE  FALSE
  BY <1>10 DEF Disciplined, RecallTask, Serving
<1>11. CASE Step
  BY <1>11, EnterTaskVotes, EnterCustomVotes, EnterForkVotes, EnterJoinVotes,
     EnterDecisionVotes, DecisionFailsVotes, EnterTailVotes DEF Step
<1>12. CASE UNCHANGED vars
  BY <1>12 DEF vars, VoteInv
<1>. QED
  BY <1>1, <1>2, <1>3, <1>4, <1>5, <1>6, <1>7, <1>8, <1>9, <1>10, <1>11, <1>12 DEF Next, Request

LEMMA InitVotes ==
  ASSUME Init
  PROVE  VoteInv
<1>1. rows = <<>> /\ todo = <<>> /\ saved = <<>> /\ loops = [n \in Node |-> -1] /\ Len(rows) = 0
  BY DEF Init
<1>2. ASSUME NEW n \in Voters
      PROVE  Tallied(rows, loops, n)
  <2>1. On(rows, n) = {} /\ DoneOn(rows, n) = {}
    BY <1>1 DEF On, DoneOn
  <2>2. Cardinality(DoneOn(rows, n)) = 0
    BY <2>1, FS_EmptySet
  <2>3. loops[n] = -1
    BY <1>1, VoteFacts
  <2>. QED
    BY <2>1, <2>2, <2>3 DEF Tallied
<1>. QED
  BY <1>1, <1>2 DEF VoteInv, VotesOK

\* What comes after a node in a branch, and is in the same range, is in the branch.
LEMMA AheadInBranch ==
  ASSUME WellNested, NEW r \in Ranges, NEW a \in Targets(r.fork), NEW m \in Branch(r, a),
         NEW n \in Ahead(m, m), n \in Body(r)
  PROVE  n \in Branch(r, a)
<1> DEFINE X == Branch(r, a) \cup {r.join} \cup Ahead(r.join, r.join)
<1>1. \A x \in X : Targets(x) \subseteq X
  <2>1. \A x \in Branch(r, a) : Targets(x) \ {r.join} \subseteq Branch(r, a)
    BY BranchFacts
  <2>2. /\ Targets(r.join) \subseteq Ahead(r.join, r.join)
        /\ \A x \in Ahead(r.join, r.join) : Targets(x) \subseteq Ahead(r.join, r.join)
    BY BeyondFacts
  <2>. QED
    BY <2>1, <2>2
<1>2. m \in X /\ (n \in X => n \in Branch(r, a))
  <2>1. n \notin Ahead(r.join, r.join) /\ n # r.join
    BY BeyondFacts, RangeFacts
  <2>. QED
    BY <2>1
<1>. HIDE DEF X
<1>3. Ahead(m, m) \subseteq X
  BY <1>1, <1>2, AheadLeast
<1>. QED
  BY <1>2, <1>3

\* Nobody is beyond a node while a vote on it is outstanding.
LEMMA NoVoteOpen ==
  ASSUME WellNested, VotedThrough, IInv, BranchInv, TokenInv, NEW n \in Voters,
         NEW i \in DoingOn(rows, n), NEW k \in Live, rows[k].node \in Past(n)
  PROVE  FALSE
<1>1. i \in Live /\ rows[i].node = n /\ n \in Node /\ n \notin FirstNodes
  BY LiveRow DEF DoingOn, On, Live, VotedThrough
<1>2. rows[k].node \in Ahead(n, n) /\ rows[k].node # n /\ rows[k].node \notin FirstNodes
  <2>1. rows[k].node \in Ahead(n, n)
    BY <1>1 DEF Past, Later
  <2>. QED
    BY <1>1, <2>1, AheadClosed DEF VotedThrough
<1>3. Pos(rows, i) = n /\ Pos(rows, k) = rows[k].node
  BY <1>1, <1>2, LiveRow
<1>4. ~Fellows(rows, i, k)
  BY <1>1, <1>2 DEF Fellows
<1>5. PICK r \in Ranges : Split(r, n, rows[k].node)
  BY <1>1, <1>2, <1>3, <1>4, LiveApart DEF Parallel
<1>6. PICK a \in Targets(r.fork) : n \in Branch(r, a)
  BY <1>5, InSomeBranch DEF Split
<1>7. rows[k].node \in Branch(r, a)
  BY <1>2, <1>5, <1>6, AheadInBranch DEF Split
<1>. QED
  BY <1>5, <1>6, <1>7 DEF Split

\* A countersign is what it says: a node without veto has somebody at work beyond it
\* only when as many votes as it has members are cast and none is outstanding, after
\* any number of returns, rollbacks and jumps back to it.
THEOREM EverybodyVotes ==
  ASSUME WellNested, Disciplined, VotedThrough
  PROVE  Spec => []EveryMemberVotes
<1>1. Init => QuietInv /\ VoteInv
  BY InitVotes DEF Init, QuietInv
<1>2. IInv /\ BranchInv /\ TokenInv /\ QuietInv /\ VoteInv /\ [Next]_vars => QuietInv' /\ VoteInv'
  <2>1. ASSUME QuietInv, UNCHANGED vars
        PROVE  QuietInv'
    BY <2>1 DEF vars, QuietInv
  <2>. QED
    BY <2>1, QuietStep, NextVotes
<1>3. IInv /\ BranchInv /\ TokenInv /\ QuietInv /\ VoteInv => EveryMemberVotes
  <2> SUFFICES ASSUME IInv, BranchInv, TokenInv, QuietInv, VoteInv, NEW n \in Voters, Live \cap Beyond(n) # {}
               PROVE  /\ DoingOn(rows, n) = {}
                      /\ Cardinality({k \in On(rows, n) : rows[k].state = "done"}) >= Members[n]
    BY DEF EveryMemberVotes, Voters
  <2>1. PICK k \in Live : rows[k].node \in Past(n) /\ k \in 1..Len(rows) /\ rows[k].node \in Node
    BY LiveRow DEF Beyond, Past
  <2>2. DoingOn(rows, n) = {}
    BY <2>1, NoVoteOpen
  <2>3. inst # "withdrawn"
    BY <2>1 DEF QuietInv, Live
  <2>4. Enough(rows, n)
    BY <2>1, <2>3 DEF VoteInv, VotesOK
  <2>. QED
    BY <2>2, <2>4 DEF Enough, DoneOn
<1>4. Spec => [](IInv /\ BranchInv /\ TokenInv)
  BY TokensInductive
<1>. QED
  BY <1>1, <1>2, <1>3, <1>4, PTL DEF Spec

-----------------------------------------------------------------------------
(* Work that is done. In a flow without choices everything that lies before *)
(* a row is done, and every branch of a range that was entered has somebody *)
(* in it or has all its tasks done: a join that nobody is inside of any     *)
(* more leaves nothing behind.                                              *)

Did(rs, m) == \E i \in 1..Len(rs) : rs[i].node = m /\ rs[i].state = "done"
AllDid(rs, S) == \A m \in S : Did(rs, m)

\* Where somebody is at work, or about to be; where somebody is or ever was.
Places(rs, toks) == {Pos(rs, k) : k \in DoingIds(rs)} \cup {toks[i].node : i \in 1..Len(toks)}
Seen(rs, toks) == {rs[i].node : i \in 1..Len(rs)} \cup {toks[i].node : i \in 1..Len(toks)}

\* The branch that begins with a has somebody in it, or all its tasks are done.
Tended(rs, toks, r, a) == Places(rs, toks) \cap Branch(r, a) # {} \/ AllDid(rs, TasksIn(r, a))
Covered(rs, toks) ==
  \A r \in Ranges : Seen(rs, toks) \cap Body(r) # {} =>
    \A a \in Targets(r.fork) : Tended(rs, toks, r, a)

WorkInv ==
  /\ \A i \in 1..Len(rows) : AllDid(rows, Earlier(rows[i].node))
  /\ \A i \in 1..Len(todo) : Kind[todo[i].node] # "join" => AllDid(rows, Earlier(todo[i].node))
  /\ inst # "withdrawn" => Covered(rows, todo)
  /\ inst = "finished" => \A n \in Node : Kind[n] = "task" => Did(rows, n)

\* What is done stays done.
LEMMA DidStays ==
  ASSUME NEW old \in Seq(Row), NEW new \in Seq(Row), Evolves(old, new), NEW S, AllDid(old, S)
  PROVE  AllDid(new, S)
<1> SUFFICES ASSUME NEW m \in S PROVE Did(new, m)
  BY DEF AllDid
<1>1. PICK i \in 1..Len(old) : old[i].node = m /\ old[i].state = "done"
  BY DEF AllDid, Did
<1>2. i \in 1..Len(new) /\ new[i].node = m /\ new[i].state = "done"
  BY <1>1 DEF Evolves, Same
<1>. QED
  BY <1>2 DEF Did

\* A step that leaves the places X, brings the branches they are in to an end or
\* somewhere else in the branch, and enters no range but with all its branches.
Known(old, otoks, new, ntoks, y) ==
  \A r \in Ranges : y \in Body(r) =>
    \/ Seen(old, otoks) \cap Body(r) # {}
    \/ \A a \in Targets(r.fork) : Tended(new, ntoks, r, a)

LEMMA Carries ==
  ASSUME NEW old \in Seq(Row), RowsOK(old), NEW new \in Seq(Row), Evolves(old, new), NEW otoks, NEW ntoks,
         Covered(old, otoks), NEW X,
         \A k \in DoingIds(old) : k \in DoingIds(new) \/ Pos(old, k) \in X,
         \A i \in 1..Len(otoks) : otoks[i].node \in X \/ otoks[i].node \in Places(new, ntoks),
         \A x \in X : \A r \in Ranges : \A a \in Targets(r.fork) :
           x \in Branch(r, a) => Tended(new, ntoks, r, a),
         \A m \in Len(old)+1..Len(new) : Known(old, otoks, new, ntoks, new[m].node),
         \A i \in 1..Len(ntoks) : Known(old, otoks, new, ntoks, ntoks[i].node)
  PROVE  Covered(new, ntoks)
<1>1. ASSUME NEW p \in Places(old, otoks), p \notin X
      PROVE  p \in Places(new, ntoks)
  <2>1. CASE \E i \in 1..Len(otoks) : p = otoks[i].node
    BY <1>1, <2>1
  <2>2. ASSUME NEW k \in DoingIds(old), p = Pos(old, k)
        PROVE  p \in Places(new, ntoks)
    <3>1. k \in DoingIds(new)
      BY <1>1, <2>2
    <3>2. k \in 1..Len(old)
      BY DEF DoingIds
    <3>3. Pos(new, k) = Pos(old, k)
      BY <3>2, SeatKept
    <3>. QED
      BY <2>2, <3>1, <3>3 DEF Places
  <2>. QED
    BY <2>1, <2>2 DEF Places
<1>2. ASSUME NEW r \in Ranges, NEW a \in Targets(r.fork), Tended(old, otoks, r, a)
      PROVE  Tended(new, ntoks, r, a)
  <2>1. CASE AllDid(old, TasksIn(r, a))
    BY <2>1, DidStays DEF Tended
  <2>2. ASSUME NEW p \in Places(old, otoks), p \in Branch(r, a)
        PROVE  Tended(new, ntoks, r, a)
    <3>1. CASE p \in X
      BY <2>2, <3>1
    <3>2. CASE p \notin X
      BY <1>1, <2>2, <3>2 DEF Tended
    <3>. QED
      BY <3>1, <3>2
  <2>. QED
    BY <1>2, <2>1, <2>2 DEF Tended
<1>3. ASSUME NEW y \in Seen(new, ntoks)
      PROVE  y \in Seen(old, otoks) \/ Known(old, otoks, new, ntoks, y)
  <2>1. CASE \E i \in 1..Len(ntoks) : y = ntoks[i].node
    BY <2>1
  <2>2. ASSUME NEW m \in 1..Len(new), y = new[m].node
        PROVE  y \in Seen(old, otoks) \/ Known(old, otoks, new, ntoks, y)
    <3>1. CASE m \in 1..Len(old)
      BY <2>2, <3>1 DEF Seen, Evolves, Same
    <3>2. CASE m \notin 1..Len(old)
      <4>1. m \in Len(old)+1..Len(new)
        BY <3>2
      <4>. QED
        BY <2>2, <4>1
    <3>. QED
      BY <3>1, <3>2
  <2>. QED
    BY <2>1, <2>2 DEF Seen
<1> SUFFICES ASSUME NEW r \in Ranges, NEW y \in Seen(new, ntoks), y \in Body(r), NEW a \in Targets(r.fork)
             PROVE  Tended(new, ntoks, r, a)
  BY DEF Covered
<1>4. Seen(old, otoks) \cap Body(r) # {} \/ Tended(new, ntoks, r, a)
  BY <1>3 DEF Known
<1>5. Seen(old, otoks) \cap Body(r) # {} => Tended(old, otoks, r, a)
  BY DEF Covered
<1>. QED
  BY <1>2, <1>4, <1>5

LEMMA WorkGoesOn ==
  ASSUME IInv, WorkInv, rows' \in Seq(Row), Evolves(rows, rows'),
         \A m \in Len(rows)+1..Len(rows') : AllDid(rows', Earlier(rows'[m].node)),
         NEW toks, todo' = toks,
         \A i \in 1..Len(toks) : Kind[toks[i].node] # "join" => AllDid(rows', Earlier(toks[i].node)),
         inst' # "withdrawn" => Covered(rows', toks),
         inst' = "finished" => inst = "finished" \/ \A n \in Node : Kind[n] = "task" => Did(rows', n)
  PROVE  WorkInv'
<1>1. rows \in Seq(Row)
  BY DEF IInv, TypeOK
<1>2. PICK new : new = rows'
  OBVIOUS
<1>3. \A S : AllDid(rows, S) => AllDid(new, S)
  BY <1>1, <1>2, DidStays
<1>4. ASSUME NEW i \in 1..Len(new)
      PROVE  AllDid(new, Earlier(new[i].node))
  <2>1. CASE i \in 1..Len(rows)
    <3>1. new[i].node = rows[i].node
      BY <1>2, <2>1 DEF Evolves, Same
    <3>2. AllDid(rows, Earlier(rows[i].node))
      BY <2>1 DEF WorkInv
    <3>. QED
      BY <1>3, <3>1, <3>2
  <2>2. CASE i \notin 1..Len(rows)
    <3>1. i \in Len(rows)+1..Len(new)
      BY <1>1, <1>2, <2>2
    <3>. QED
      BY <1>2, <3>1
  <2>. QED
    BY <2>1, <2>2
<1>5. ASSUME inst' = "finished", NEW n \in Node, Kind[n] = "task"
      PROVE  Did(new, n)
  <2>1. inst = "finished" => AllDid(rows, {n})
    BY <1>5 DEF WorkInv, AllDid
  <2>2. inst = "finished" => AllDid(new, {n})
    BY <1>3, <2>1
  <2>. QED
    BY <1>2, <1>5, <2>2 DEF AllDid
<1>. QED
  BY <1>2, <1>4, <1>5 DEF WorkInv

\* Facts about the flow: a branch leads on to its join; work outside the branches is
\* followed by work outside them.
LEMMA NotTheLast ==
  ASSUME WellNested, NEW r \in Ranges, NEW n \in Body(r)
  PROVE  n \in Node /\ Targets(n) # {}
<1>1. n \in Node /\ r.join \in Ahead(n, n)
  BY RangeFacts DEF WellNested
<1>2. ASSUME Targets(n) = {}
      PROVE  FALSE
  <2>1. PICK X : X = {}
    OBVIOUS
  <2>2. Ahead(n, n) \subseteq X
    BY <1>2, <2>1, AheadLeast
  <2>. QED
    BY <1>1, <2>1, <2>2
<1>. QED
  BY <1>1, <1>2

LEMMA NextOutside ==
  ASSUME WellNested, NEW n \in Node, Kind[n] # "fork", Around(n) = {}, NEW y \in Targets(n)
  PROVE  Around(y) = {}
<1>1. ASSUME NEW r \in Ranges, y \in Body(r)
      PROVE  FALSE
  <2>1. n \in Body(r) \/ n = r.fork
    BY <1>1, BodyEntry
  <2>2. n # r.fork
    BY RangeFacts DEF Forks
  <2>. QED
    BY <2>1, <2>2 DEF Around
<1>. QED
  BY <1>1 DEF Around

\* What is known when somebody acts on row t.
LEMMA Tasking ==
  ASSUME IInv, BranchInv, TokenInv, QuietInv, WorkInv, todo = <<>>, NEW t \in DOMAIN rows, rows[t].state = "doing",
         NEW done, done = Complete(rows, t)
  PROVE  /\ inst \notin {"none", "finished", "withdrawn"} /\ t \in 1..Len(rows) /\ t \in Nat /\ t \in Live
         /\ rows \in Seq(Row) /\ RowsOK(rows) /\ done \in Seq(Row) /\ RowsOK(done) /\ Len(done) = Len(rows)
         /\ Evolves(rows, done) /\ Same(rows[t], done[t]) /\ done[t].state = "done"
         /\ rows[t].node \in Node /\ Kind[rows[t].node] = "task"
         /\ \A k \in DoingIds(rows) : k # t => k \in DoingIds(done)
         /\ Covered(rows, <<>>) /\ \A i \in 1..Len(rows) : AllDid(done, Earlier(rows[i].node))
         /\ AllDid(done, {rows[t].node})
<1>1. /\ t \in 1..Len(rows) /\ t \in Nat /\ rows \in Seq(Row) /\ Fit(rows) /\ rows[t].node \in Node
      /\ inst \notin {"none", "finished"}
  BY OpenFit
<1>2. /\ Fit(done) /\ Settles(rows, done) /\ done \in Seq(Row) /\ Len(done) = Len(rows)
      /\ done[t].state = "done" /\ Same(rows[t], done[t]) /\ Kind[done[t].node] = "task"
      /\ \A i \in 1..Len(rows) : i # t => done[i] = rows[i]
  BY <1>1, CompletedFit
<1>3. t \in Live /\ inst # "withdrawn"
  BY <1>1 DEF Live, DoingIds, QuietInv
<1>4. RowsOK(rows) /\ RowsOK(done) /\ Evolves(rows, done) /\ Kind[rows[t].node] = "task"
  BY <1>1, <1>2 DEF Fit, Settles, Same
<1>5. \A k \in DoingIds(rows) : k # t => k \in DoingIds(done)
  BY <1>1, <1>2 DEF DoingIds
<1>6. Covered(rows, <<>>)
  BY <1>3 DEF WorkInv
<1>7. \A i \in 1..Len(rows) : AllDid(done, Earlier(rows[i].node))
  BY <1>1, <1>2, <1>4, DidStays DEF WorkInv
<1>8. AllDid(done, {rows[t].node})
  BY <1>1, <1>2 DEF AllDid, Did, Same
<1>. QED
  BY <1>1, <1>2, <1>3, <1>4, <1>5, <1>6, <1>7, <1>8

\* While somebody acts outside the branches, nobody is inside one.
LEMMA NobodyInside ==
  ASSUME IInv, BranchInv, TokenInv, NEW t \in Live, Around(Pos(rows, t)) = {}, NEW k \in Live
  PROVE  Around(Pos(rows, k)) = {}
<1>1. CASE k = t
  BY <1>1
<1>2. CASE k # t
  <2>1. /\ RowsOK(rows) /\ Roots(rows) /\ \A i \in 1..Len(rows) : RowFits(rows, i)
    BY DEF IInv, BranchInv, TokenInv, StateOK, RowsFit
  <2>2. t \in 1..Len(rows) /\ Kind[rows[t].node] = "task"
    BY LiveRow
  <2>3. ~Parallel(rows, t, k)
    BY <2>1, <2>2, OutsideAlone
  <2>4. Fellows(rows, t, k)
    BY <1>2, <2>3, LiveApart
  <2>5. rows[k].node = rows[t].node /\ rows[t].source = 0 /\ rows[k].source = 0
    BY <2>4 DEF Fellows
  <2>6. Pos(rows, k) = Pos(rows, t)
    BY <2>5, LiveRow
  <2>. QED
    BY <2>6
<1>. QED
  BY <1>1, <1>2

LEMMA OutsideCovers ==
  ASSUME WellNested, IInv, BranchInv, TokenInv, NEW t \in Live, Around(Pos(rows, t)) = {}, Covered(rows, <<>>),
         NEW new \in Seq(Row), Evolves(rows, new), NEW toks,
         \A m \in Len(rows)+1..Len(new) : Around(new[m].node) = {},
         \A i \in 1..Len(toks) : Around(toks[i].node) = {}
  PROVE  Covered(new, toks)
<1>1. rows \in Seq(Row) /\ RowsOK(rows)
  BY DEF IInv, TypeOK
<1>2. PICK X : X = {Pos(rows, k) : k \in DoingIds(rows)}
  OBVIOUS
<1>3. \A k \in DoingIds(rows) : k \in DoingIds(new) \/ Pos(rows, k) \in X
  BY <1>2
<1>4. PICK none : none = <<>>
  OBVIOUS
<1>5. Covered(rows, none) /\ \A i \in 1..Len(none) : none[i].node \in X \/ none[i].node \in Places(new, toks)
  BY <1>4
<1>6. ASSUME NEW x \in X, NEW r \in Ranges, NEW a \in Targets(r.fork), x \in Branch(r, a)
      PROVE  Tended(new, toks, r, a)
  <2>1. PICK k \in Live : x = Pos(rows, k)
    BY <1>2 DEF Live
  <2>2. Around(x) = {}
    BY <2>1, NobodyInside
  <2>3. x \in Body(r)
    BY <1>6, BranchFacts
  <2>. QED
    BY <2>2, <2>3 DEF Around
<1>7. \A y : Around(y) = {} => Known(rows, none, new, toks, y)
  BY DEF Known, Around
<1>. QED
  BY <1>1, <1>3, <1>5, <1>6, <1>7, Carries

\* A row or a visit moves on from x to its successors: behind them lies what lay behind
\* x, and the branches x is in are carried on or at their end.
LEMMA NextWork ==
  ASSUME OnTheWay, NEW x \in Node, NEW y \in Targets(x), Kind[y] # "join", NEW new,
         AllDid(new, Earlier(x)), Kind[x] = "task" => AllDid(new, {x})
  PROVE  AllDid(new, Earlier(y))
<1>1. Earlier(y) \subseteq Earlier(x) \cup {x}
  BY DEF OnTheWay
<1>2. \A m \in Earlier(y) : Kind[m] = "task"
  BY DEF Earlier
<1>. QED
  BY <1>1, <1>2 DEF AllDid

LEMMA BranchGoesOn ==
  ASSUME WellNested, OnTheWay, NEW r \in Ranges, NEW a \in Targets(r.fork), NEW x \in Branch(r, a), NEW new,
         AllDid(new, Earlier(x)), Kind[x] = "task" => AllDid(new, {x}),
         NEW toks, \A y \in Targets(x) : \E j \in 1..Len(toks) : toks[j].node = y
  PROVE  Tended(new, toks, r, a)
<1>1. x \in Body(r) /\ Targets(x) \ {r.join} \subseteq Branch(r, a)
  BY BranchFacts
<1>2. PICK y : y \in Targets(x)
  BY <1>1, NotTheLast
<1>3. CASE y = r.join
  <2>1. TasksIn(r, a) \subseteq Earlier(x) \cup {x}
    BY <1>2, <1>3 DEF OnTheWay
  <2>2. \A m \in TasksIn(r, a) : Kind[m] = "task"
    BY DEF TasksIn
  <2>. QED
    BY <2>1, <2>2 DEF Tended, AllDid
<1>4. CASE y # r.join
  <2>1. y \in Branch(r, a)
    BY <1>1, <1>2, <1>4
  <2>2. y \in Places(new, toks)
    BY <1>2 DEF Places
  <2>. QED
    BY <2>1, <2>2 DEF Tended
<1>. QED
  BY <1>3, <1>4

\* Visits to the successors of x, all of them and no others.
Fanned(toks, x) ==
  /\ \A i \in 1..Len(toks) : toks[i].node \in Targets(x)
  /\ \A y \in Targets(x) : \E j \in 1..Len(toks) : toks[j].node = y

LEMMA VisitsAll ==
  ASSUME NEW x \in Node, NEW p \in Nat, NEW toks, toks = Visits(Succ[x], p)
  PROVE  Fanned(toks, x)
<1>1. PICK ns : ns = Succ[x] /\ ns \in Seq(Node)
  BY FlowAssumption
<1>2. toks = Visits(ns, p)
  BY <1>1
<1>3. \A i \in 1..Len(toks) : i \in DOMAIN ns /\ toks[i].node = ns[i]
  BY <1>1, <1>2, VisitsOf
<1>4. Len(toks) = Len(ns)
  BY <1>1, <1>2, VisitsType
<1>5. \A i \in DOMAIN ns : i \in 1..Len(toks)
  BY <1>1, <1>4
<1>. QED
  BY <1>1, <1>3, <1>5 DEF Targets, Fanned

LEMMA StartWork ==
  ASSUME WellNested, OnTheWay, IInv, TokenInv, WorkInv, Start
  PROVE  WorkInv'
<1>1. PICK x \in StartNodes : Walk(Visits(Succ[x], 0), "agree")
  BY DEF Start
<1>2. PICK toks : toks = Visits(Succ[x], 0)
  OBVIOUS
<1>3. x \in Node /\ 0 \in Nat
  BY DEF StartNodes
<1>4. \A i \in 1..Len(toks) : toks[i].node \in FirstNodes
  BY <1>2, <1>3, VisitsAll DEF FirstNodes, Fanned
<1>5. /\ inst = "none" /\ inst' = "doing" /\ rows' = rows /\ todo' = toks /\ rows = <<>>
      /\ rows \in Seq(Row) /\ Evolves(rows, rows)
  BY <1>1, <1>2 DEF Start, Walk, TokenInv, StateOK, IInv, TypeOK, Evolves, Same
<1>6. \A i \in 1..Len(toks) : AllDid(rows', Earlier(toks[i].node))
  BY <1>4 DEF OnTheWay, AllDid
<1>7. Covered(rows, toks)
  <2>1. \A i \in 1..Len(toks) : \A r \in Ranges : toks[i].node \notin Body(r)
    BY <1>4, FirstOutside DEF Around
  <2>. QED
    BY <1>5, <2>1 DEF Covered, Seen
<1>8. \A m \in Len(rows)+1..Len(rows') : FALSE
  BY <1>5
<1>. QED
  BY <1>5, <1>6, <1>7, <1>8, WorkGoesOn

LEMMA WithdrawWork ==
  ASSUME IInv, WorkInv, Withdraw
  PROVE  WorkInv'
<1>1. PICK ids : ids = DoingIds(rows)
  OBVIOUS
<1>2. /\ inst' = "withdrawn" /\ todo' = <<>> /\ rows' = Close(rows, ids, "withdrawn")
  BY <1>1 DEF Withdraw, Answer, Walk
<1>3. rows \in Seq(Row) /\ ids \subseteq DoingIds(rows) /\ "withdrawn" \in TaskStates
  BY <1>1 DEF IInv, TypeOK, TaskStates
<1>4. PICK new : new = Close(rows, ids, "withdrawn")
  OBVIOUS
<1>5. Advances(rows, new) /\ Len(new) = Len(rows)
  BY <1>3, <1>4, CloseAdvances
<1>6. rows' = new /\ new \in Seq(Row) /\ Evolves(rows, new)
  BY <1>2, <1>4, <1>5 DEF Advances
<1>7. \A m \in Len(rows)+1..Len(new) : FALSE
  BY <1>3, <1>5
<1>8. PICK toks : toks = <<>>
  OBVIOUS
<1>. QED
  BY <1>2, <1>6, <1>7, <1>8, WorkGoesOn

\* A request on a row outside the branches that stays outside.
LEMMA OutsideWork ==
  ASSUME WellNested, IInv, BranchInv, TokenInv, QuietInv, WorkInv, todo = <<>>,
         NEW t \in DOMAIN rows, rows[t].state = "doing", Around(Pos(rows, t)) = {},
         NEW done, done = Complete(rows, t), NEW new \in Seq(Row), Evolves(done, new), rows' = new,
         \A m \in Len(rows)+1..Len(new) : Around(new[m].node) = {} /\ AllDid(done, Earlier(new[m].node)),
         NEW toks, todo' = toks,
         \A i \in 1..Len(toks) :
           Around(toks[i].node) = {} /\ (Kind[toks[i].node] # "join" => AllDid(done, Earlier(toks[i].node))),
         inst' # "finished"
  PROVE  WorkInv'
<1>1. /\ t \in Live /\ rows \in Seq(Row) /\ done \in Seq(Row) /\ Evolves(rows, done) /\ Covered(rows, <<>>)
  BY Tasking
<1>2. Evolves(rows, new)
  BY <1>1, EvolvesTrans
<1>3. Covered(new, toks)
  BY <1>1, <1>2, OutsideCovers
<1>4. \A S : AllDid(done, S) => AllDid(new, S)
  BY <1>1, DidStays
<1>. QED
  BY <1>2, <1>3, <1>4, WorkGoesOn

\* A request on a row that hands its place on: the branches it is in have somebody
\* in them after it.
LEMMA InsideWork ==
  ASSUME IInv, BranchInv, TokenInv, QuietInv, WorkInv, todo = <<>>,
         NEW t \in DOMAIN rows, rows[t].state = "doing",
         NEW done, done = Complete(rows, t), NEW new \in Seq(Row), Evolves(done, new), rows' = new,
         \A k \in DoingIds(done) : k \in DoingIds(new),
         NEW toks, todo' = toks,
         \A r \in Ranges : \A a \in Targets(r.fork) : Pos(rows, t) \in Branch(r, a) => Tended(new, toks, r, a),
         \A m \in Len(rows)+1..Len(new) :
           /\ \E h \in 1..Len(rows) : rows[h].node = new[m].node \/ Around(new[m].node) = {}
           /\ AllDid(done, Earlier(new[m].node)),
         \A i \in 1..Len(toks) :
           /\ Known(rows, <<>>, new, toks, toks[i].node)
           /\ Kind[toks[i].node] # "join" => AllDid(done, Earlier(toks[i].node)),
         inst' # "finished"
  PROVE  WorkInv'
<1>1. /\ t \in Live /\ rows \in Seq(Row) /\ RowsOK(rows) /\ done \in Seq(Row) /\ Evolves(rows, done)
      /\ Covered(rows, <<>>)
      /\ \A k \in DoingIds(rows) : k # t => k \in DoingIds(done)
  BY Tasking
<1>2. Evolves(rows, new)
  BY <1>1, EvolvesTrans
<1>3. PICK X, none : X = {Pos(rows, t)} /\ none = <<>>
  OBVIOUS
<1>4. \A k \in DoingIds(rows) : k \in DoingIds(new) \/ Pos(rows, k) \in X
  BY <1>1, <1>3
<1>5. Covered(rows, none) /\ \A i \in 1..Len(none) : none[i].node \in X \/ none[i].node \in Places(new, toks)
  BY <1>1, <1>3
<1>6. \A x \in X : \A r \in Ranges : \A a \in Targets(r.fork) : x \in Branch(r, a) => Tended(new, toks, r, a)
  BY <1>3
<1>7. ASSUME NEW m \in Len(rows)+1..Len(new)
      PROVE  Known(rows, none, new, toks, new[m].node)
  BY <1>7 DEF Known, Seen, Around
<1>8. \A i \in 1..Len(toks) : Known(rows, none, new, toks, toks[i].node)
  BY <1>3
<1>9. Covered(new, toks)
  BY <1>1, <1>2, <1>4, <1>5, <1>6, <1>7, <1>8, Carries
<1>10. \A S : AllDid(done, S) => AllDid(new, S)
  BY <1>1, DidStays
<1>. QED
  BY <1>2, <1>9, <1>10, WorkGoesOn

LEMMA ExecuteWork ==
  ASSUME WellNested, Disciplined, OnTheWay, IInv, BranchInv, TokenInv, QuietInv, WorkInv,
         NEW t \in DOMAIN rows, NEW st \in Submits, ExecuteProcessTask(t, st)
  PROVE  WorkInv'
<1>1. PICK done, n, toks : done = Complete(rows, t) /\ n = rows[t].node /\ toks = Visits(Succ[n], t)
  OBVIOUS
<1>2. rows[t].state = "doing" /\ rows[t].source = 0 /\ todo = <<>> /\ inst' = inst
  BY DEF ExecuteProcessTask, Open, Serving
<1>3. /\ inst \notin {"none", "finished", "withdrawn"} /\ t \in Nat /\ t \in 1..Len(rows) /\ rows \in Seq(Row)
      /\ done \in Seq(Row) /\ RowsOK(done) /\ Len(done) = Len(rows) /\ Evolves(rows, done)
      /\ n \in Node /\ Kind[n] = "task" /\ AllDid(done, {n}) /\ AllDid(done, Earlier(n))
  BY <1>1, <1>2, Tasking
<1>4. Pos(rows, t) = n
  BY <1>1, <1>2 DEF Pos, Seat
<1>5. /\ \A i \in 1..Len(toks) : toks[i].node \in Targets(n)
      /\ \A y \in Targets(n) : \E j \in 1..Len(toks) : toks[j].node = y
  <2>1. toks = Visits(Succ[n], t)
    BY <1>1
  <2>2. n \in Node /\ t \in Nat
    BY <1>3
  <2>. QED
    <3>1. Fanned(toks, n)
      BY <2>1, <2>2, VisitsAll
    <3>. QED
      BY <3>1 DEF Fanned
<1>6. \A i \in 1..Len(toks) : Kind[toks[i].node] # "join" => AllDid(done, Earlier(toks[i].node))
  BY <1>3, <1>5, NextWork
<1>7. Evolves(done, done) /\ \A m \in Len(rows)+1..Len(done) : FALSE
  BY <1>3 DEF Evolves, Same
<1>8. CASE Around(n) = {}
  <2>1. PICK c : c = Close(done, DoingOn(done, n), "abandoned")
    OBVIOUS
  <2>2. \/ rows' \in {done, c} /\ todo' = toks
        \/ rows' = Append(done, [Fresh(n, t, {}) EXCEPT !.loop = Loop(t) + 1]) /\ todo' = <<>>
        \/ rows' = done /\ todo' = <<>>
    BY <1>1, <2>1 DEF ExecuteProcessTask, Answer, Walk
  <2>3. CASE rows' \in {done, c} /\ todo' = toks
    <3>1. c \in Seq(Row) /\ Evolves(done, c) /\ Len(c) = Len(done)
      <4>1. done \in Seq(Row)
        BY <1>3
      <4>. QED
        BY <2>1, <4>1, ClosedEvolves
    <3>2. PICK new : new = rows' /\ new \in Seq(Row) /\ Evolves(done, new) /\ Len(new) = Len(rows)
      BY <1>3, <1>7, <2>3, <3>1
    <3>3. \A m \in Len(rows)+1..Len(new) : FALSE
      BY <1>3, <3>2
    <3>4. \A i \in 1..Len(toks) : Around(toks[i].node) = {}
      BY <1>3, <1>5, <1>8, NextOutside
    <3>. QED
      BY <1>1, <1>2, <1>3, <1>4, <1>6, <1>8, <2>3, <3>2, <3>3, <3>4, OutsideWork
  <2>4. CASE rows' = Append(done, [Fresh(n, t, {}) EXCEPT !.loop = Loop(t) + 1]) /\ todo' = <<>>
    <3>1. PICK f : f = Fresh(n, t, {}) /\ f \in Row
      BY <1>3, FreshRanges
    <3>2. PICK l : l = Loop(t) + 1 /\ l \in Int
      BY <1>3, LoopType DEF IInv
    <3>3. PICK r : r = [f EXCEPT !.loop = l]
      OBVIOUS
    <3>4. r \in Row /\ r.node = n
      <4>1. f.node = n
        BY <3>1 DEF Fresh
      <4>. QED
        BY <3>1, <3>2, <3>3, <4>1 DEF Row
    <3>5. PICK new : new = rows' /\ new = Append(done, r)
      BY <2>4, <3>1, <3>2, <3>3
    <3>6. /\ new \in Seq(Row) /\ Settles(done, new) /\ new[Len(done)+1] = r
          /\ Len(done)+1..Len(new) = {Len(done)+1}
      <4>1. done \in Seq(Row) /\ RowsOK(done) /\ r \in Row /\ new = Append(done, r)
        BY <1>3, <3>4, <3>5
      <4>. QED
        BY <4>1, AppendSettles
    <3>7. PICK none : none = <<>>
      OBVIOUS
    <3>8. Evolves(done, new) /\ \A m \in Len(rows)+1..Len(new) : new[m].node = n
      BY <1>3, <3>4, <3>6 DEF Settles
    <3>9. todo' = none /\ \A i \in 1..Len(none) : FALSE
      BY <2>4, <3>7
    <3>. QED
      BY <1>1, <1>2, <1>3, <1>4, <1>8, <3>5, <3>6, <3>8, <3>9, OutsideWork
  <2>5. CASE rows' = done /\ todo' = <<>>
    <3>1. PICK none : none = <<>>
      OBVIOUS
    <3>2. todo' = none /\ \A i \in 1..Len(none) : FALSE
      BY <2>5, <3>1
    <3>. QED
      BY <1>1, <1>2, <1>3, <1>4, <1>7, <1>8, <2>5, <3>2, OutsideWork
  <2>. QED
    BY <2>2, <2>3, <2>4, <2>5
<1>9. CASE Around(n) # {}
  <2>1. Countersign[n] = "none" /\ n \notin AllowAddSign
    BY <1>3, <1>9 DEF Around, OnTheWay, Disciplined, Crowded
  <2>2. GateOpen(done, t, st)
    <3>1. done[t].node = n
      BY <1>1, <1>3 DEF Evolves, Same
    <3>. QED
      BY <2>1, <3>1 DEF GateOpen, AddSignGate
  <2>3. rows' = done /\ todo' = toks
    BY <1>1, <2>1, <2>2 DEF ExecuteProcessTask, Walk, NextMemberDue, HasNextMember
  <2>4. \A r \in Ranges : \A a \in Targets(r.fork) : n \in Branch(r, a) => Tended(done, toks, r, a)
    BY <1>3, <1>5, BranchGoesOn
  <2>5. ASSUME NEW i \in 1..Len(toks)
        PROVE  Known(rows, <<>>, done, toks, toks[i].node)
    <3>1. toks[i].node \in Targets(n)
      BY <1>5
    <3>2. ASSUME NEW r \in Ranges, toks[i].node \in Body(r)
          PROVE  n \in Body(r)
      <4>1. n # r.fork
        BY <1>3, RangeFacts DEF Forks
      <4>. QED
        BY <1>3, <3>1, <3>2, <4>1, BodyEntry
    <3>3. n \in Seen(rows, <<>>)
      BY <1>1, <1>3 DEF Seen
    <3>. QED
      BY <3>2, <3>3 DEF Known
  <2>. QED
    BY <1>1, <1>2, <1>3, <1>4, <1>6, <1>7, <2>3, <2>4, <2>5, InsideWork
<1>. QED
  BY <1>8, <1>9

LEMMA RejectWork ==
  ASSUME WellNested, OnTheWay, IInv, BranchInv, TokenInv, QuietInv, WorkInv,
         NEW t \in DOMAIN rows, ExecuteAndJumpToEnd(t)
  PROVE  WorkInv'
<1>1. PICK done, c, none : done = Complete(rows, t) /\ c = ClearAddSign(done, rows[t].node) /\ none = <<>>
  OBVIOUS
<1>2. /\ rows[t].state = "doing" /\ todo = <<>> /\ "reject" \in Ops
      /\ rows' = c /\ inst' = "rejected" /\ todo' = none
  BY <1>1 DEF ExecuteAndJumpToEnd, Open, Serving, Answer, Walk
<1>3. rows \in Seq(Row) /\ done \in Seq(Row) /\ Len(done) = Len(rows) /\ Evolves(rows, done)
  BY <1>1, <1>2, Tasking
<1>4. c \in Seq(Row) /\ Evolves(done, c) /\ Len(c) = Len(done)
  BY <1>1, <1>3, ClearedEvolves
<1>5. Evolves(rows, c)
  BY <1>3, <1>4, EvolvesTrans
<1>6. Covered(c, none)
  <2>1. \A r \in Ranges : FALSE
    BY <1>2, RangeFacts DEF OnTheWay
  <2>. QED
    BY <2>1 DEF Covered
<1>7. /\ \A m \in Len(rows)+1..Len(c) : FALSE
      /\ \A i \in 1..Len(none) : FALSE
  BY <1>1, <1>3, <1>4
<1>. QED
  BY <1>2, <1>4, <1>5, <1>6, <1>7, WorkGoesOn

LEMMA JumpWork ==
  ASSUME WellNested, Disciplined, OnTheWay, IInv, BranchInv, TokenInv, QuietInv, WorkInv,
         NEW t \in DOMAIN rows, NEW target \in JumpTargets, ExecuteAndJumpTask(t, target)
  PROVE  WorkInv'
<1>1. PICK done, toks : done = Complete(rows, t) /\ toks = <<[node |-> target, parent |-> t]>>
  OBVIOUS
<1>2. /\ rows[t].state = "doing" /\ rows[t].source = 0 /\ todo = <<>> /\ "jump" \in Ops /\ rows[t].node \in Detours
      /\ rows' = done /\ inst' = inst /\ todo' = toks
  BY <1>1 DEF ExecuteAndJumpTask, Open, Serving, Walk
<1>3. /\ rows \in Seq(Row) /\ done \in Seq(Row) /\ Len(done) = Len(rows) /\ inst # "finished"
  BY <1>1, <1>2, Tasking
<1>4. Around(Pos(rows, t)) = {}
  BY <1>2 DEF Disciplined, Pos, Seat
<1>5. Around(target) = {} /\ Earlier(target) = {}
  BY <1>2 DEF Disciplined, OnTheWay
<1>6. AllDid(done, Earlier(target))
  BY <1>5 DEF AllDid
<1>7. \A i \in 1..Len(toks) :
        Around(toks[i].node) = {} /\ (Kind[toks[i].node] # "join" => AllDid(done, Earlier(toks[i].node)))
  BY <1>1, <1>5, <1>6
<1>8. /\ Evolves(done, done)
      /\ \A m \in Len(rows)+1..Len(done) : Around(done[m].node) = {} /\ AllDid(done, Earlier(done[m].node))
  BY <1>3 DEF Evolves, Same
<1>9. inst' # "finished" /\ done = Complete(rows, t)
  BY <1>1, <1>2, <1>3
<1>. QED
  BY <1>2, <1>3, <1>4, <1>7, <1>8, <1>9, OutsideWork

LEMMA AddSignWork ==
  ASSUME WellNested, Disciplined, IInv, BranchInv, TokenInv, QuietInv, WorkInv,
         NEW t \in DOMAIN rows, NEW k \in 1..2, AddSign(t, k)
  PROVE  WorkInv'
<1>1. PICK done, n, none : done = Complete(rows, t) /\ n = rows[t].node /\ none = <<>>
  OBVIOUS
<1>2. /\ rows[t].state = "doing" /\ rows[t].source = 0 /\ n \in AllowAddSign /\ todo' = none
      /\ todo = <<>> /\ inst' = inst
  BY <1>1 DEF AddSign, Open, Answer, Serving, Walk
<1>3. /\ inst # "finished" /\ t \in Nat /\ t \in 1..Len(rows) /\ rows \in Seq(Row)
      /\ done \in Seq(Row) /\ RowsOK(done) /\ Len(done) = Len(rows) /\ n \in Node /\ AllDid(done, Earlier(n))
  BY <1>1, <1>2, Tasking
<1>4. PICK more : /\ more = [i \in 1..k |-> Fresh(n, t, BuildScopes(done, n, t, Len(rows) + i))]
                  /\ rows' = done \o more
  BY <1>1 DEF AddSign
<1>5. ASSUME NEW i \in 1..k
      PROVE  more[i] \in Row /\ more[i].node = n
  <2>1. PICK B : B = BuildScopes(done, n, t, Len(rows) + i)
    OBVIOUS
  <2>2. Len(rows) + i \in Nat
    BY <1>3
  <2>3. B \in SUBSET Scope
    BY <1>3, <2>1, <2>2, BuildScopesType
  <2>4. more[i] = Fresh(n, t, B)
    BY <1>4, <2>1
  <2>5. Fresh(n, t, B) \in Row
    BY <1>3, <2>3, FreshRanges
  <2>. QED
    BY <2>4, <2>5 DEF Fresh
<1>6. more \in Seq(Row) /\ Len(more) = k
  <2>1. more \in [1..k -> Row]
    BY <1>4, <1>5
  <2>. QED
    BY <2>1, FunctionIsSeq
<1>7. PICK new : new = done \o more
  OBVIOUS
<1>8. /\ new \in Seq(Row) /\ Settles(done, new)
      /\ \A m \in Len(done)+1..Len(new) : m - Len(done) \in 1..k /\ new[m] = more[m - Len(done)]
  BY <1>3, <1>6, <1>7, ConcatSettles
<1>9. Evolves(done, new) /\ rows' = new
  BY <1>4, <1>7, <1>8 DEF Settles
<1>10. ASSUME NEW m \in Len(rows)+1..Len(new)
       PROVE  new[m].node = n
  <2>1. m \in Len(done)+1..Len(new)
    BY <1>3
  <2>. QED
    BY <1>5, <1>8, <2>1
<1>11. Around(Pos(rows, t)) = {} /\ Around(n) = {}
  BY <1>1, <1>2, <1>3 DEF Disciplined, Crowded, Pos, Seat
<1>12. \A i \in 1..Len(none) : FALSE
  BY <1>1
<1>. QED
  BY <1>1, <1>2, <1>3, <1>8, <1>9, <1>10, <1>11, <1>12, OutsideWork

\* A request that puts a row where t stood, on a node somebody has been on.
LEMMA StepsIn ==
  ASSUME IInv, BranchInv, TokenInv, QuietInv, WorkInv, todo = <<>>, inst' = inst, todo' = <<>>,
         NEW t \in DOMAIN rows, rows[t].state = "doing",
         NEW done, done = Complete(rows, t), NEW r \in Row, r.state = "doing", NEW new,
         new = Append(done, r), rows' = new,
         \E h \in 1..Len(rows) : rows[h].node = r.node \/ (Around(r.node) = {} /\ Earlier(r.node) = {}),
         \A q \in Ranges : \A a \in Targets(q.fork) :
           Pos(rows, t) \in Branch(q, a) => Pos(new, Len(rows) + 1) \in Branch(q, a)
  PROVE  WorkInv'
<1>1. /\ rows \in Seq(Row) /\ done \in Seq(Row) /\ RowsOK(done) /\ Len(done) = Len(rows) /\ inst # "finished"
      /\ \A i \in 1..Len(rows) : AllDid(done, Earlier(rows[i].node))
  BY Tasking
<1>2. PICK m, none : m = Len(done) + 1 /\ none = <<>>
  OBVIOUS
<1>3. /\ new \in Seq(Row) /\ Settles(done, new) /\ new[m] = r /\ Len(done)+1..Len(new) = {m} /\ m \in 1..Len(new)
      /\ \A k \in DoingIds(done) : k \in DoingIds(new)
  BY <1>1, <1>2, AppendSettles
<1>4. Evolves(done, new) /\ m \in DoingIds(new)
  BY <1>1, <1>3 DEF Settles, DoingIds
<1>5. ASSUME NEW q \in Ranges, NEW a \in Targets(q.fork), Pos(rows, t) \in Branch(q, a)
      PROVE  Tended(new, none, q, a)
  <2>1. Pos(new, m) \in Branch(q, a)
    BY <1>1, <1>2, <1>5
  <2>2. Pos(new, m) \in Places(new, none)
    BY <1>4 DEF Places
  <2>. QED
    BY <2>1, <2>2 DEF Tended
<1>6. ASSUME NEW i \in Len(rows)+1..Len(new)
      PROVE  /\ \E h \in 1..Len(rows) : rows[h].node = new[i].node \/ Around(new[i].node) = {}
             /\ AllDid(done, Earlier(new[i].node))
  <2>1. new[i] = r
    BY <1>1, <1>3
  <2>2. PICK h \in 1..Len(rows) : rows[h].node = r.node \/ (Around(r.node) = {} /\ Earlier(r.node) = {})
    OBVIOUS
  <2>3. AllDid(done, Earlier(r.node))
    BY <1>1, <2>2 DEF AllDid
  <2>. QED
    BY <2>1, <2>2, <2>3
<1>7. /\ todo' = none
      /\ \A i \in 1..Len(none) :
           /\ Known(rows, <<>>, new, none, none[i].node)
           /\ Kind[none[i].node] # "join" => AllDid(done, Earlier(none[i].node))
  BY <1>2
<1>8. inst' # "finished" /\ new \in Seq(Row) /\ Evolves(done, new) /\ \A k \in DoingIds(done) : k \in DoingIds(new)
  BY <1>1, <1>3, <1>4
<1>. QED
  BY <1>5, <1>6, <1>7, <1>8, InsideWork

LEMMA RollbackWork ==
  ASSUME WellNested, IInv, BranchInv, TokenInv, QuietInv, WorkInv, NEW t \in DOMAIN rows, RollbackToParent(t)
  PROVE  WorkInv'
<1>1. PICK p, his, done, n :
        p = rows[t].parent /\ his = rows[rows[t].parent] /\ done = Complete(rows, t) /\ n = rows[t].node
  OBVIOUS
<1>2. /\ rows[t].state = "doing" /\ rows[t].source = 0 /\ p # 0 /\ CanReject(n, his.node)
      /\ todo = <<>> /\ inst' = inst /\ todo' = <<>>
      /\ rows' = Append(done, [Fresh(his.node, his.parent, his.scopes) EXCEPT
                                 !.source = his.source, !.branch = his.branch])
  BY <1>1 DEF RollbackToParent, Open, Serving, Answer, Walk
<1>3. /\ t \in 1..Len(rows) /\ rows \in Seq(Row) /\ RowsOK(rows) /\ n \in Node /\ Kind[n] = "task"
      /\ done \in Seq(Row) /\ RowsOK(done) /\ Len(done) = Len(rows) /\ Evolves(rows, done)
  BY <1>1, <1>2, Tasking
<1>4. p \in 1..Len(rows) /\ his = rows[p] /\ his \in Row
  <2>1. p \in 1..Len(rows)
    BY <1>1, <1>2, <1>3, ParentType
  <2>. QED
    BY <1>1, <1>3, <2>1
<1>5. PICK f : f = Fresh(his.node, his.parent, his.scopes) /\ f \in Row
  BY <1>4, FreshRanges DEF Row
<1>6. f.node = his.node /\ f.state = "doing"
  BY <1>5 DEF Fresh
<1>7. PICK r : r = [f EXCEPT !.source = his.source, !.branch = his.branch]
  OBVIOUS
<1>8. r \in Row /\ r.node = rows[p].node /\ r.state = "doing" /\ r.source = his.source
  <2>1. his \in Row /\ f \in Row
    BY <1>4, <1>5
  <2>2. r \in Row
    BY <1>7, <2>1 DEF Row
  <2>3. r.node = f.node /\ r.state = f.state /\ r.source = his.source
    BY <1>7, <2>1 DEF Row
  <2>. QED
    BY <1>4, <1>6, <2>2, <2>3
<1>9. PICK m, new : m = Len(done) + 1 /\ new = Append(done, r) /\ rows' = new
  BY <1>2, <1>5, <1>7
<1>10. /\ Settles(done, new) /\ new[m] = r /\ new \in Seq(Row)
  BY <1>3, <1>8, <1>9, AppendSettles
<1>11. Evolves(rows, new)
  BY <1>3, <1>10, EvolvesTrans DEF Settles
<1>12. RowFits(rows, t) /\ RowFits(rows, p) /\ ParentOK(rows, t) /\ FormOK(rows, p)
  BY <1>3, <1>4 DEF RowFits, TokenInv, StateOK, RowsFit
<1>13. Kind[his.node] = "task" /\ (his.source # 0 => n = Pos(rows, p))
  BY <1>1, <1>2, <1>3, <1>4, <1>12 DEF ParentOK
<1>14. Linked(Pos(rows, p), n)
  <2>1. CASE his.source = 0
    <3>1. Pos(rows, p) = his.node
      BY <1>4, <2>1 DEF Pos, Seat
    <3>2. his.node \in Node
      BY <1>4 DEF Row
    <3>. QED
      BY <1>2, <1>3, <1>13, <3>1, <3>2, CanRejectLinked
  <2>2. CASE his.source # 0
    BY <1>13, <2>2, LinkedSelf
  <2>. QED
    BY <2>1, <2>2
<1>15. Pos(new, m) = Pos(rows, p)
  <2>1. CASE his.source = 0
    BY <1>4, <1>8, <1>10, <2>1 DEF Pos, Seat
  <2>2. CASE his.source # 0
    <3>1. his.source = Seat(rows, p) /\ his.source \in 1..Len(rows)
      BY <1>3, <1>4, <2>2, SeatType DEF Seat
    <3>2. new[his.source].node = rows[his.source].node
      BY <1>11, <3>1 DEF Evolves, Same
    <3>3. Seat(new, m) = his.source
      BY <1>8, <1>10, <2>2 DEF Seat
    <3>. QED
      BY <3>1, <3>2, <3>3 DEF Pos
  <2>. QED
    BY <2>1, <2>2
<1>16. Pos(rows, t) = n
  BY <1>1, <1>2 DEF Pos, Seat
<1>17. ASSUME NEW q \in Ranges, NEW a \in Targets(q.fork), Pos(rows, t) \in Branch(q, a)
       PROVE  Pos(new, Len(rows) + 1) \in Branch(q, a)
  <2>1. Pos(rows, p) \in Branch(q, a)
    BY <1>14, <1>16, <1>17 DEF Linked
  <2>. QED
    BY <1>3, <1>9, <1>15, <2>1
<1>18. \E h \in 1..Len(rows) : rows[h].node = r.node \/ (Around(r.node) = {} /\ Earlier(r.node) = {})
  BY <1>4, <1>8
<1>19. done = Complete(rows, t) /\ new = Append(done, r) /\ rows' = new
  BY <1>1, <1>9
<1>20. r \in Row /\ r.state = "doing"
  BY <1>8
<1>. QED
  BY <1>2, <1>17, <1>18, <1>19, <1>20, StepsIn

LEMMA ReapplyWork ==
  ASSUME WellNested, IInv, BranchInv, TokenInv, QuietInv, WorkInv, NEW t \in DOMAIN rows, ExecuteReapply(t)
  PROVE  WorkInv'
<1>1. PICK done, c, br : done = Complete(rows, t) /\ c = rows[t].source /\ br = rows[t].branch
  OBVIOUS
<1>2. /\ rows[t].state = "doing" /\ c # 0 /\ todo = <<>> /\ inst' = inst /\ todo' = <<>>
      /\ rows' = Append(done, Fresh(rows[c].node, t, br))
  BY <1>1 DEF ExecuteReapply, Answer, Serving, Walk
<1>3. /\ t \in 1..Len(rows) /\ t \in Nat /\ rows \in Seq(Row) /\ RowsOK(rows) /\ rows[t] \in Row
      /\ done \in Seq(Row) /\ RowsOK(done) /\ Len(done) = Len(rows)
  <2>1. /\ t \in 1..Len(rows) /\ t \in Nat /\ rows \in Seq(Row) /\ RowsOK(rows)
        /\ done \in Seq(Row) /\ RowsOK(done) /\ Len(done) = Len(rows)
    BY <1>1, <1>2, Tasking
  <2>. QED
    BY <2>1
<1>4. c = Seat(rows, t) /\ c \in 1..Len(rows) /\ rows[c] \in Row
  <2>1. c = Seat(rows, t)
    BY <1>1, <1>2 DEF Seat
  <2>. QED
    BY <1>3, <2>1, SeatType
<1>5. PICK r : r = Fresh(rows[c].node, t, br) /\ r \in Row
  <2>1. rows[c].node \in Node /\ br \in SUBSET Scope
    BY <1>1, <1>3, <1>4 DEF Row
  <2>. QED
    BY <1>3, <2>1, FreshRanges
<1>6. r.node = rows[c].node /\ r.state = "doing" /\ r.source = 0
  BY <1>5 DEF Fresh
<1>7. PICK m, new : m = Len(done) + 1 /\ new = Append(done, r) /\ rows' = new
  BY <1>2, <1>5
<1>8. new[m] = r
  BY <1>3, <1>5, <1>7, AppendSettles
<1>9. Pos(new, m) = Pos(rows, t)
  BY <1>4, <1>6, <1>8 DEF Pos, Seat
<1>10. Pos(new, Len(rows) + 1) = Pos(rows, t)
  BY <1>3, <1>7, <1>9
<1>11. \E h \in 1..Len(rows) : rows[h].node = r.node \/ (Around(r.node) = {} /\ Earlier(r.node) = {})
  BY <1>4, <1>6
<1>12. done = Complete(rows, t) /\ new = Append(done, r) /\ rows' = new
  BY <1>1, <1>7
<1>13. r \in Row /\ r.state = "doing"
  BY <1>5, <1>6
<1>14. \A q \in Ranges : \A a \in Targets(q.fork) :
         Pos(rows, t) \in Branch(q, a) => Pos(new, Len(rows) + 1) \in Branch(q, a)
  BY <1>10
<1>. QED
  BY <1>2, <1>11, <1>12, <1>13, <1>14, StepsIn

LEMMA ReturnWork ==
  ASSUME WellNested, Disciplined, OnTheWay, IInv, BranchInv, TokenInv, QuietInv, WorkInv,
         NEW t \in DOMAIN rows, ExecuteAndJumpToFirstTaskNode(t)
  PROVE  WorkInv'
<1>1. PICK n, done, cleared, first :
        /\ n = rows[t].node /\ done = Complete(rows, t)
        /\ cleared = ClearAddSign(done, n) /\ first = FirstOf({"task"})[1]
  OBVIOUS
<1>2. /\ rows[t].state = "doing" /\ rows[t].source = 0 /\ todo = <<>> /\ n \in Detours /\ inst' = inst
  BY <1>1 DEF ExecuteAndJumpToFirstTaskNode, Open, Serving
<1>3. /\ t \in 1..Len(rows) /\ t \in Nat /\ rows \in Seq(Row) /\ rows[t] \in Row /\ n \in Node
      /\ done \in Seq(Row) /\ RowsOK(done) /\ Len(done) = Len(rows) /\ Evolves(rows, done) /\ inst # "finished"
  <2>1. /\ t \in 1..Len(rows) /\ t \in Nat /\ rows \in Seq(Row) /\ rows[t].node \in Node
        /\ done \in Seq(Row) /\ RowsOK(done) /\ Len(done) = Len(rows) /\ Evolves(rows, done) /\ inst # "finished"
    BY <1>1, <1>2, Tasking
  <2>. QED
    BY <1>1, <2>1
<1>4. cleared \in Seq(Row) /\ Evolves(done, cleared) /\ Len(cleared) = Len(done)
  BY <1>1, <1>3, ClearedEvolves
<1>5. Pos(rows, t) = n
  BY <1>1, <1>2 DEF Pos, Seat
<1>6. PICK none : none = <<>>
  OBVIOUS
<1>7. \/ /\ Returnable(n)
         /\ rows' = Append(cleared, [Fresh(first, t, {}) EXCEPT !.source = t, !.branch = rows[t].scopes])
         /\ todo' = none
      \/ rows' = rows /\ todo' = none
      \/ /\ n \notin ReturnToSource /\ rows' = cleared
         /\ todo' = Visits(FirstOf({"task", "custom"}), t)
  BY <1>1, <1>6 DEF ExecuteAndJumpToFirstTaskNode, Answer, Walk, OnTheWay
<1>8. CASE /\ Returnable(n)
           /\ rows' = Append(cleared, [Fresh(first, t, {}) EXCEPT !.source = t, !.branch = rows[t].scopes])
           /\ todo' = none
  <2>1. first \in FirstNodes /\ first \in Node
    <3>1. PICK x \in FirstNodes : x \in Node /\ Kind[x] \in {"task"} /\ FirstOf({"task"}) = <<x>>
      BY <1>8, FirstOfNode DEF Returnable
    <3>. QED
      BY <1>1, <3>1
  <2>2. Around(first) = {} /\ Earlier(first) = {}
    BY <2>1, FirstOutside DEF OnTheWay
  <2>3. PICK f : f = Fresh(first, t, {}) /\ f \in Row
    BY <1>3, <2>1, FreshRanges
  <2>4. PICK sc : sc = rows[t].scopes /\ sc \in SUBSET Scope
    BY <1>3 DEF Row
  <2>5. PICK r : r = [f EXCEPT !.source = t, !.branch = sc]
    OBVIOUS
  <2>6. r \in Row /\ r.state = "doing" /\ r.node = first /\ r.source = t
    <3>1. r \in Row
      BY <1>3, <2>3, <2>4, <2>5 DEF Row
    <3>2. r.state = f.state /\ r.node = f.node /\ r.source = t
      BY <2>3, <2>5 DEF Row
    <3>3. f.state = "doing" /\ f.node = first
      BY <2>3 DEF Fresh
    <3>. QED
      BY <3>1, <3>2, <3>3
  <2>7. PICK m, new : m = Len(cleared) + 1 /\ new = Append(cleared, r) /\ rows' = new
    BY <1>8, <2>3, <2>4, <2>5
  <2>8. CASE n \in AllowAddSign
    <3>1. Around(n) = {}
      BY <1>3, <2>8 DEF Disciplined, Crowded
    <3>2. RowsOK(cleared)
      <4>1. Fit(done)
        BY <1>1, <1>2, OpenFit, CompletedFit
      <4>. QED
        BY <1>1, <4>1, ClearedFit DEF Fit
    <3>3. /\ new \in Seq(Row) /\ Settles(cleared, new) /\ new[m] = r /\ Len(cleared)+1..Len(new) = {m}
      BY <2>6, <2>7, <3>2, AppendSettles
    <3>4. Evolves(done, new)
      BY <1>3, <1>4, <3>3, EvolvesTrans DEF Settles
    <3>5. \A i \in Len(rows)+1..Len(new) : Around(new[i].node) = {} /\ AllDid(done, Earlier(new[i].node))
      BY <1>3, <1>4, <2>2, <2>6, <3>3 DEF AllDid
    <3>6. \A i \in 1..Len(none) :
            Around(none[i].node) = {} /\ (Kind[none[i].node] # "join" => AllDid(done, Earlier(none[i].node)))
      BY <1>6
    <3>7. todo' = none /\ inst' # "finished" /\ Around(Pos(rows, t)) = {} /\ done = Complete(rows, t)
      BY <1>1, <1>2, <1>3, <1>5, <1>8, <3>1
    <3>. QED
      BY <1>2, <2>7, <3>3, <3>4, <3>5, <3>6, <3>7, OutsideWork
  <2>9. CASE n \notin AllowAddSign
    <3>1. cleared = done
      BY <1>1, <2>9 DEF ClearAddSign
    <3>2. new[m] = r /\ new \in Seq(Row) /\ Settles(done, new)
      BY <1>3, <2>6, <2>7, <3>1, AppendSettles
    <3>3. Evolves(rows, new)
      BY <1>3, <3>2, EvolvesTrans DEF Settles
    <3>4. new[t].node = n
      BY <1>1, <1>3, <3>3 DEF Evolves, Same
    <3>5. Seat(new, m) = t
      BY <1>3, <2>6, <3>2 DEF Seat
    <3>6. Pos(new, Len(rows) + 1) = Pos(rows, t)
      BY <1>3, <1>5, <2>7, <3>1, <3>4, <3>5 DEF Pos
    <3>7. \E h \in 1..Len(rows) : rows[h].node = r.node \/ (Around(r.node) = {} /\ Earlier(r.node) = {})
      BY <1>3, <2>2, <2>6
    <3>8. todo' = <<>> /\ new = Append(done, r) /\ done = Complete(rows, t)
      BY <1>1, <1>6, <1>8, <2>7, <3>1
    <3>. QED
      BY <1>2, <2>6, <2>7, <3>6, <3>7, <3>8, StepsIn
  <2>. QED
    BY <2>8, <2>9
<1>9. CASE rows' = rows /\ todo' = none
  <2>1. Evolves(rows, rows) /\ \A m \in Len(rows)+1..Len(rows) : FALSE
    BY <1>3 DEF Evolves, Same
  <2>2. Covered(rows, none)
    BY <1>1, <1>2, <1>6, Tasking
  <2>3. \A i \in 1..Len(none) : FALSE
    BY <1>6
  <2>. QED
    BY <1>2, <1>3, <1>9, <2>1, <2>2, <2>3, WorkGoesOn
<1>10. CASE /\ n \notin ReturnToSource /\ rows' = cleared
            /\ todo' = Visits(FirstOf({"task", "custom"}), t)
  <2>1. PICK toks, ns : toks = Visits(ns, t) /\ ns = FirstOf({"task", "custom"})
    OBVIOUS
  <2>2. ASSUME NEW i \in 1..Len(toks)
        PROVE  toks[i].node \in FirstNodes
    <3>1. ns # <<>>
      BY <2>1, <2>2 DEF Visits
    <3>2. PICK x \in FirstNodes : x \in Node /\ ns = <<x>>
      BY <2>1, <3>1, FirstOfNode
    <3>3. toks[i].node = x
      BY <2>1, <3>2 DEF Visits
    <3>. QED
      BY <3>3
  <2>3. ASSUME NEW i \in 1..Len(toks)
        PROVE  Around(toks[i].node) = {} /\ (Kind[toks[i].node] # "join" => AllDid(done, Earlier(toks[i].node)))
    BY <2>2, FirstOutside DEF OnTheWay, AllDid
  <2>4. Around(Pos(rows, t)) = {}
    BY <1>2, <1>5, <1>10 DEF Disciplined
  <2>5. \A m \in Len(rows)+1..Len(cleared) : Around(cleared[m].node) = {} /\ AllDid(done, Earlier(cleared[m].node))
    BY <1>3, <1>4
  <2>6. done = Complete(rows, t) /\ rows' = cleared /\ todo' = toks /\ inst' # "finished"
    BY <1>1, <1>2, <1>3, <1>10, <2>1
  <2>. QED
    BY <1>2, <1>4, <2>3, <2>4, <2>5, <2>6, OutsideWork
<1>. QED
  BY <1>7, <1>8, <1>9, <1>10

\* The visits after the one at hand: those that were pending, and those ns adds.
Pending(toks) == \A k \in 1..Len(todo) : todo[k].node = Here \/ \E j \in 1..Len(toks) : toks[j].node = todo[k].node
Visited(ns, toks) == \A i \in DOMAIN ns : \E j \in 1..Len(toks) : toks[j].node = ns[i]

LEMMA Unfolded ==
  ASSUME IInv, BranchInv, TokenInv, todo # <<>>, NEW ns, Onward(ns), NEW toks, toks = Visits(ns, By) \o Tail(todo)
  PROVE  Onwards(toks) /\ Pending(toks) /\ Visited(ns, toks)
<1>1. Onwards(toks)
  BY Descended
<1>2. PICK v, rest : v = Visits(ns, By) /\ rest = Tail(todo) /\ toks = v \o rest
  OBVIOUS
<1>3. ns \in Seq(Node) /\ By \in Nat
  BY WalkFacts DEF Onward
<1>4. v \in Seq(Token) /\ Len(v) = Len(ns)
  BY <1>2, <1>3, VisitsType
<1>5. /\ todo \in Seq(Token) /\ rest \in Seq(Token) /\ Len(todo) \in Nat /\ Len(rest) = Len(todo) - 1
      /\ todo[1].node = Here
      /\ \A i \in 1..Len(rest) : rest[i] = todo[i+1]
  BY <1>2, WalkFacts
<1>6. /\ \A i \in 1..Len(v) : i \in 1..Len(toks) /\ toks[i] = v[i]
      /\ \A i \in 1..Len(rest) : Len(v) + i \in 1..Len(toks) /\ toks[Len(v) + i] = rest[i]
  <2>1. ASSUME NEW S, NEW a \in Seq(S), NEW b \in Seq(S)
        PROVE  /\ \A i \in 1..Len(a) : i \in 1..Len(a \o b) /\ (a \o b)[i] = a[i]
               /\ \A i \in 1..Len(b) : Len(a) + i \in 1..Len(a \o b) /\ (a \o b)[Len(a) + i] = b[i]
    OBVIOUS
  <2>2. v \in Seq(Token) /\ rest \in Seq(Token) /\ toks = v \o rest
    BY <1>2, <1>4, <1>5
  <2>. QED
    BY <2>1, <2>2
<1>7. Visited(ns, toks)
  <2>1. ASSUME NEW i \in DOMAIN ns
        PROVE  \E j \in 1..Len(toks) : toks[j].node = ns[i]
    <3>1. i \in 1..Len(v)
      BY <1>3, <1>4
    <3>2. v[i].node = ns[i]
      BY <1>2 DEF Visits
    <3>. QED
      BY <1>6, <3>1, <3>2
  <2>. QED
    BY <2>1 DEF Visited
<1>8. Pending(toks)
  <2>1. ASSUME NEW k \in 1..Len(todo), k # 1
        PROVE  \E j \in 1..Len(toks) : toks[j].node = todo[k].node
    <3>1. k - 1 \in 1..Len(rest) /\ todo[k] = rest[k - 1]
      BY <1>5, <2>1
    <3>. QED
      BY <1>6, <3>1
  <2>. QED
    BY <1>5, <2>1 DEF Pending
<1>. QED
  BY <1>1, <1>7, <1>8

LEMMA TailPending ==
  ASSUME IInv, BranchInv, TokenInv, todo # <<>>
  PROVE  Onwards(Tail(todo)) /\ Pending(Tail(todo))
<1>1. PICK rest : rest = Tail(todo)
  OBVIOUS
<1>2. /\ Len(rest) = Len(todo) - 1 /\ Len(todo) \in Nat /\ todo[1].node = Here
      /\ \A i \in 1..Len(rest) : rest[i] = todo[i+1]
  BY <1>1, WalkFacts
<1>3. ASSUME NEW k \in 1..Len(todo), k # 1
      PROVE  \E j \in 1..Len(rest) : rest[j].node = todo[k].node
  <2>1. k - 1 \in 1..Len(rest) /\ todo[k] = rest[k - 1]
    BY <1>2, <1>3
  <2>. QED
    BY <2>1
<1>. QED
  BY <1>1, <1>2, <1>3, TailLeft DEF Pending

\* A step of the walk past a node that is no task, with all work before it done.
LEMMA PassesWork ==
  ASSUME WellNested, OnTheWay, IInv, BranchInv, TokenInv, QuietInv, WorkInv, todo # <<>>, Kind[Here] # "task",
         AllDid(rows, Earlier(Here)) \/ todo' = <<>>,
         NEW new \in Seq(Row), Evolves(rows, new), rows' = new, \A k \in DoingIds(rows) : k \in DoingIds(new),
         \A m \in Len(rows)+1..Len(new) : new[m].node = Here /\ Kind[Here] # "join",
         NEW toks, todo' = toks, Onwards(toks), Pending(toks),
         \A r \in Ranges : \A a \in Targets(r.fork) : Here \in Branch(r, a) => Tended(new, toks, r, a),
         Kind[Here] = "fork" => Visited(Succ[Here], toks),
         inst' = "finished" => \A n \in Node : Kind[n] = "task" => Did(new, n)
  PROVE  WorkInv'
<1>1. /\ rows \in Seq(Row) /\ RowsOK(rows) /\ Here \in Node /\ inst # "withdrawn"
      /\ 1 \in 1..Len(todo) /\ todo[1].node = Here
  BY WalkFacts DEF QuietInv, IInv
<1>2. \A S : AllDid(rows, S) => AllDid(new, S)
  BY <1>1, DidStays
<1>3. ASSUME NEW i \in 1..Len(toks), Kind[toks[i].node] # "join"
      PROVE  AllDid(new, Earlier(toks[i].node))
  <2>1. CASE \E k \in 1..Len(todo) : toks[i].node = todo[k].node
    BY <1>2, <1>3, <2>1 DEF WorkInv
  <2>2. CASE toks[i].node \in Targets(Here)
    <3>1. AllDid(rows, Earlier(Here))
      BY <1>3
    <3>. QED
      BY <1>1, <1>2, <1>3, <2>2, <3>1, NextWork
  <2>. QED
    BY <2>1, <2>2 DEF Onwards
<1>4. ASSUME NEW m \in Len(rows)+1..Len(new)
      PROVE  AllDid(new, Earlier(new[m].node))
  <2>1. new[m].node = Here /\ Kind[Here] # "join"
    BY <1>4
  <2>2. AllDid(rows, Earlier(Here))
    BY <1>1, <2>1 DEF WorkInv
  <2>. QED
    BY <1>2, <2>1, <2>2
<1>5. PICK X : X = {Here}
  OBVIOUS
<1>6. \A i \in 1..Len(todo) : todo[i].node \in X \/ todo[i].node \in Places(new, toks)
  BY <1>5 DEF Pending, Places
<1>7. Here \in Seen(rows, todo)
  BY <1>1 DEF Seen
<1>8. ASSUME NEW i \in 1..Len(toks)
      PROVE  Known(rows, todo, new, toks, toks[i].node)
  <2>1. CASE \E k \in 1..Len(todo) : toks[i].node = todo[k].node
    BY <2>1 DEF Known, Seen
  <2>2. CASE toks[i].node \in Targets(Here)
    <3>1. ASSUME NEW r \in Ranges, toks[i].node \in Body(r), Here = r.fork, NEW a \in Targets(r.fork)
          PROVE  Tended(new, toks, r, a)
      <4>1. Kind[Here] = "fork"
        BY <3>1, RangeFacts DEF Forks
      <4>2. a \in Places(new, toks)
        BY <3>1, <4>1 DEF Visited, Targets, Places
      <4>3. a \in Branch(r, a)
        BY BranchFacts
      <4>. QED
        BY <4>2, <4>3 DEF Tended
    <3>2. \A r \in Ranges : toks[i].node \in Body(r) => Here \in Body(r) \/ Here = r.fork
      BY <1>1, <2>2, BodyEntry
    <3>. QED
      BY <1>7, <3>1, <3>2 DEF Known
  <2>. QED
    BY <2>1, <2>2 DEF Onwards
<1>9. ASSUME NEW m \in Len(rows)+1..Len(new)
      PROVE  Known(rows, todo, new, toks, new[m].node)
  BY <1>7, <1>9 DEF Known
<1>10. /\ \A k \in DoingIds(rows) : k \in DoingIds(new) \/ Pos(rows, k) \in X
       /\ \A x \in X : \A r \in Ranges : \A a \in Targets(r.fork) : x \in Branch(r, a) => Tended(new, toks, r, a)
       /\ Covered(rows, todo)
  BY <1>1, <1>5 DEF WorkInv
<1>11. Covered(new, toks)
  BY <1>1, <1>6, <1>8, <1>9, <1>10, Carries
<1>. QED
  BY <1>3, <1>4, <1>11, WorkGoesOn

LEMMA EnterTailWork ==
  ASSUME WellNested, OnTheWay, IInv, BranchInv, TokenInv, QuietInv, WorkInv, EnterEnd \/ EnterOther
  PROVE  WorkInv'
<1>1. /\ todo # <<>> /\ Kind[Here] \in {"end", "start", "other"} /\ Continue(Tail(todo)) /\ rows' = rows
      /\ inst' = inst \/ Kind[Here] = "end"
  BY DEF EnterEnd, EnterOther, At, Here
<1>2. /\ rows \in Seq(Row) /\ Here \in Node /\ 1 \in 1..Len(todo) /\ todo[1].node = Here
      /\ inst \notin {"none", "finished"}
  BY <1>1, WalkFacts
<1>3. AllDid(rows, Earlier(Here))
  BY <1>1, <1>2 DEF WorkInv
<1>4. PICK toks : toks = Tail(todo)
  OBVIOUS
<1>5. todo' = toks /\ Onwards(toks) /\ Pending(toks)
  BY <1>1, <1>4, TailPending DEF Continue
<1>6. ASSUME NEW r \in Ranges, NEW a \in Targets(r.fork), Here \in Branch(r, a)
      PROVE  Tended(rows, toks, r, a)
  <2>1. Here \in Body(r)
    BY <1>6, BranchFacts
  <2>. QED
    BY <1>1, <2>1 DEF OnTheWay
<1>7. inst' = "finished" => \A n \in Node : Kind[n] = "task" => Did(rows, n)
  BY <1>1, <1>2, <1>3 DEF OnTheWay, AllDid
<1>8. Evolves(rows, rows) /\ \A m \in Len(rows)+1..Len(rows) : FALSE
  BY <1>2 DEF Evolves, Same
<1>. QED
  BY <1>1, <1>2, <1>3, <1>5, <1>6, <1>7, <1>8, PassesWork

LEMMA EnterForkWork ==
  ASSUME WellNested, OnTheWay, IInv, BranchInv, TokenInv, QuietInv, WorkInv, EnterFork
  PROVE  WorkInv'
<1>1. PICK ns, toks : ns = Succ[Here] /\ toks = Visits(ns, By) \o Tail(todo)
  OBVIOUS
<1>2. todo # <<>> /\ todo' = toks /\ rows' = rows /\ inst' = inst /\ Kind[Here] = "fork"
  BY <1>1 DEF EnterFork, At, Descend, Continue, Here
<1>3. /\ rows \in Seq(Row) /\ Here \in Node /\ 1 \in 1..Len(todo) /\ todo[1].node = Here
      /\ inst \notin {"none", "finished"}
  BY <1>2, WalkFacts
<1>4. Onward(ns)
  BY <1>1, <1>2, WalkFacts DEF Targets, Onward
<1>5. Onwards(toks) /\ Pending(toks) /\ Visited(Succ[Here], toks)
  BY <1>1, <1>2, <1>4, Unfolded
<1>6. AllDid(rows, Earlier(Here))
  BY <1>2, <1>3 DEF WorkInv
<1>7. \A y \in Targets(Here) : \E j \in 1..Len(toks) : toks[j].node = y
  BY <1>5 DEF Targets, Visited
<1>8. \A r \in Ranges : \A a \in Targets(r.fork) : Here \in Branch(r, a) => Tended(rows, toks, r, a)
  BY <1>2, <1>6, <1>7, BranchGoesOn
<1>9. Evolves(rows, rows) /\ \A m \in Len(rows)+1..Len(rows) : FALSE
  BY <1>3 DEF Evolves, Same
<1>. QED
  BY <1>2, <1>3, <1>5, <1>6, <1>8, <1>9, PassesWork

LEMMA EnterCustomWork ==
  ASSUME WellNested, OnTheWay, IInv, BranchInv, TokenInv, QuietInv, WorkInv, EnterCustom
  PROVE  WorkInv'
<1>1. PICK row, ns, toks : row = [Fresh(Here, By, {}) EXCEPT !.state = "done"]
                           /\ ns = Succ[Here] /\ toks = Visits(ns, By) \o Tail(todo)
  OBVIOUS
<1>2. /\ todo # <<>> /\ Kind[Here] = "custom" /\ todo' = toks /\ rows' = Append(rows, row) /\ inst' = inst
  BY <1>1 DEF EnterCustom, At, Here, Descend, Continue
<1>3. /\ Here \in Node /\ By \in Nat /\ rows \in Seq(Row) /\ RowsOK(rows)
      /\ 1 \in 1..Len(todo) /\ todo[1].node = Here /\ inst \notin {"none", "finished"}
  BY <1>2, WalkFacts DEF Fit
<1>4. PICK f : f = Fresh(Here, By, {}) /\ f \in Row
  <2>1. {} \in SUBSET Scope
    OBVIOUS
  <2>. QED
    BY <1>3, <2>1, FreshRanges
<1>5. row \in Row /\ row.node = Here
  <2>1. row = [f EXCEPT !.state = "done"] /\ f.node = Here
    BY <1>1, <1>4 DEF Fresh
  <2>. QED
    BY <1>4, <2>1 DEF Row, TaskStates
<1>6. PICK new : new = Append(rows, row) /\ rows' = new
  BY <1>2
<1>7. /\ new \in Seq(Row) /\ Evolves(rows, new) /\ \A m \in Len(rows)+1..Len(new) : new[m].node = Here
      /\ \A k \in DoingIds(rows) : k \in DoingIds(new)
  <2>1. /\ new \in Seq(Row) /\ Settles(rows, new) /\ new[Len(rows)+1] = row
        /\ Len(rows)+1..Len(new) = {Len(rows)+1}
        /\ \A k \in DoingIds(rows) : k \in DoingIds(new)
    BY <1>3, <1>5, <1>6, AppendSettles
  <2>. QED
    BY <1>5, <2>1 DEF Settles
<1>8. Onward(ns)
  BY <1>1, <1>2, WalkFacts DEF Targets, Onward
<1>9. Onwards(toks) /\ Pending(toks) /\ Visited(Succ[Here], toks)
  BY <1>1, <1>2, <1>8, Unfolded
<1>10. AllDid(rows, Earlier(Here)) /\ AllDid(new, Earlier(Here))
  BY <1>2, <1>3, <1>7, DidStays DEF WorkInv
<1>11. \A y \in Targets(Here) : \E j \in 1..Len(toks) : toks[j].node = y
  BY <1>9 DEF Targets, Visited
<1>12. \A r \in Ranges : \A a \in Targets(r.fork) : Here \in Branch(r, a) => Tended(new, toks, r, a)
  BY <1>2, <1>10, <1>11, BranchGoesOn
<1>. QED
  BY <1>2, <1>3, <1>6, <1>7, <1>9, <1>10, <1>12, PassesWork

LEMMA EnterTaskWork ==
  ASSUME IInv, BranchInv, TokenInv, QuietInv, WorkInv, EnterTask
  PROVE  WorkInv'
<1>1. PICK c, first, x, w, N :
        /\ c = NewRows(Here) /\ first = (IF Countersign[Here] = "sequential" THEN 0 ELSE -1)
        /\ x = Here /\ w = By /\ N = Len(rows)
  OBVIOUS
<1>2. PICK more : more = [i \in 1..c |-> [Fresh(x, w, Attached(rows, x, w, N + i)) EXCEPT !.loop = first]]
  OBVIOUS
<1>3. /\ todo # <<>> /\ rows' = rows \o more /\ Kind[x] = "task" /\ Continue(Tail(todo)) /\ inst' = inst
  BY <1>1, <1>2 DEF EnterTask, At, Here
<1>4. /\ x \in Node /\ w \in Nat /\ rows \in Seq(Row) /\ RowsOK(rows) /\ inst \notin {"withdrawn", "finished"}
      /\ 1 \in 1..Len(todo) /\ todo[1].node = x
  BY <1>1, <1>3, WalkFacts DEF Fit, QuietInv
<1>5. c \in Nat /\ c >= 1 /\ first \in Int /\ N \in Nat
  <2>1. Members[x] \in Nat
    BY <1>4, EngineAssumption
  <2>. QED
    BY <1>1, <1>4, <2>1 DEF NewRows
<1>6. ASSUME NEW i \in 1..c
      PROVE  more[i] \in Row /\ more[i].node = x /\ more[i].state = "doing" /\ more[i].source = 0
  <2>1. PICK B : B = Attached(rows, x, w, N + i)
    OBVIOUS
  <2>2. N + i \in Nat
    BY <1>5
  <2>3. B \in SUBSET Scope
    BY <1>4, <2>1, <2>2, AttachedType
  <2>4. PICK f : f = Fresh(x, w, B) /\ f \in Row
    BY <1>4, <2>3, FreshRanges
  <2>5. f.node = x /\ f.state = "doing" /\ f.source = 0
    BY <2>4 DEF Fresh
  <2>6. more[i] = [f EXCEPT !.loop = first]
    BY <1>2, <2>1, <2>4
  <2>7. more[i] \in Row /\ more[i].node = f.node /\ more[i].state = f.state /\ more[i].source = f.source
    BY <1>5, <2>4, <2>6 DEF Row
  <2>. QED
    BY <2>5, <2>7
<1>7. more \in Seq(Row) /\ Len(more) = c
  <2>1. more \in [1..c -> Row]
    BY <1>2, <1>6
  <2>. QED
    BY <1>5, <2>1, FunctionIsSeq
<1>8. PICK new : new = rows \o more /\ rows' = new
  BY <1>3
<1>9. /\ new \in Seq(Row) /\ Settles(rows, new)
      /\ \A m \in Len(rows)+1..Len(new) : m - Len(rows) \in 1..Len(more) /\ new[m] = more[m - Len(rows)]
      /\ \A i \in 1..Len(rows) : i \in 1..Len(new) /\ new[i] = rows[i]
      /\ \A i \in 1..Len(more) : Len(rows) + i \in 1..Len(new) /\ new[Len(rows) + i] = more[i]
  BY <1>4, <1>7, <1>8, ConcatSettles
<1>10. Evolves(rows, new)
  BY <1>9 DEF Settles
<1>11. \A m \in Len(rows)+1..Len(new) : new[m].node = x
  BY <1>6, <1>7, <1>9
<1>12. PICK toks : toks = Tail(todo)
  OBVIOUS
<1>13. /\ todo' = toks /\ Len(toks) = Len(todo) - 1 /\ Len(todo) \in Nat
       /\ \A i \in 1..Len(toks) : i + 1 \in 1..Len(todo) /\ toks[i] = todo[i+1]
  BY <1>3, <1>12, WalkFacts DEF Continue
<1>14. x \in Places(new, toks)
  <2>1. PICK m : m = Len(rows) + 1 /\ m \in 1..Len(new) /\ new[m] = more[1]
    BY <1>5, <1>7, <1>9
  <2>2. new[m].node = x /\ new[m].state = "doing" /\ new[m].source = 0
    BY <1>5, <1>6, <2>1
  <2>3. m \in DoingIds(new) /\ Pos(new, m) = x
    BY <1>9, <2>1, <2>2 DEF DoingIds, Pos, Seat
  <2>. QED
    BY <2>3 DEF Places
<1>15. PICK X : X = {}
  OBVIOUS
<1>16. ASSUME NEW i \in 1..Len(todo)
       PROVE  todo[i].node \in X \/ todo[i].node \in Places(new, toks)
  <2>1. CASE i = 1
    BY <1>4, <1>14, <2>1
  <2>2. CASE i # 1
    <3>1. i - 1 \in 1..Len(toks) /\ todo[i] = toks[i-1]
      BY <1>13, <2>2
    <3>. QED
      BY <3>1 DEF Places
  <2>. QED
    BY <2>1, <2>2
<1>17. \A m \in Len(rows)+1..Len(new) : Known(rows, todo, new, toks, new[m].node)
  <2>1. x \in Seen(rows, todo)
    BY <1>4 DEF Seen
  <2>. QED
    BY <1>11, <2>1 DEF Known
<1>18. \A i \in 1..Len(toks) : Known(rows, todo, new, toks, toks[i].node)
  BY <1>13 DEF Known, Seen
<1>19. \A k \in DoingIds(rows) : k \in DoingIds(new) \/ Pos(rows, k) \in X
  BY <1>4, <1>9 DEF DoingIds
<1>20. Covered(rows, todo) /\ \A y \in X : FALSE
  BY <1>4, <1>15 DEF WorkInv
<1>21. Covered(new, toks)
  BY <1>4, <1>9, <1>10, <1>16, <1>17, <1>18, <1>19, <1>20, Carries
<1>22. \A S : AllDid(rows, S) => AllDid(new, S)
  BY <1>4, <1>9, <1>10, DidStays
<1>23. \A m \in Len(rows)+1..Len(new) : AllDid(new, Earlier(new[m].node))
  BY <1>3, <1>4, <1>11, <1>22 DEF WorkInv
<1>24. \A i \in 1..Len(toks) : Kind[toks[i].node] # "join" => AllDid(new, Earlier(toks[i].node))
  BY <1>13, <1>22 DEF WorkInv
<1>. QED
  BY <1>3, <1>4, <1>8, <1>9, <1>10, <1>13, <1>21, <1>23, <1>24, WorkGoesOn

\* Whatever is inside a range is in the branch its join is in.
LEMMA JoinInBranch ==
  ASSUME WellNested, OnTheWay, NEW q \in Ranges, NEW x \in Body(q),
         NEW r \in Ranges, NEW a \in Targets(r.fork), q.join \in Branch(r, a)
  PROVE  x \in Branch(r, a)
<1>1. q.join \in Body(r)
  BY BranchFacts
<1>2. x \in Body(r)
  BY <1>1 DEF OnTheWay
<1>3. q.join \in Ahead(x, x)
  BY RangeFacts DEF WellNested
<1>4. PICK b \in Targets(r.fork) : x \in Branch(r, b)
  BY <1>2, InSomeBranch
<1>5. q.join \in Branch(r, b)
  BY <1>1, <1>3, <1>4, AheadInBranch
<1>6. a = b
  BY <1>5, OneBranch
<1>. QED
  BY <1>4, <1>6

\* Who arrives at a join comes out of its range.
LEMMA AtTheJoin ==
  ASSUME WellNested, IInv, BranchInv, TokenInv, todo # <<>>, NEW q \in Ranges, q.join = Here
  PROVE  /\ By \in 1..Len(rows) /\ By # 0 /\ Pos(rows, By) = rows[By].node /\ rows[By].node \in Body(q)
         /\ Held(rows, By) = ScopesOf(rows, By)
         /\ \E s \in ScopesOf(rows, By) : RangeOf(s) = q /\ s.join = Here
         /\ Len(todo) = 1 /\ todo[1].node = Here
         /\ \A k \in DoingIds(rows) : Parallel(rows, By, k)
<1>1. Kind[Here] = "join"
  BY RangeFacts DEF Joins
<1>2. /\ WalkOK(rows, By, todo) /\ 1 \in 1..Len(todo) /\ todo[1].node = Here /\ By \in Nat
      /\ Fit(rows) /\ rows \in Seq(Row)
  BY WalkFacts
<1>3. Len(todo) = 1 /\ \A k \in DoingIds(rows) : Parallel(rows, By, k)
  BY <1>1, <1>2, AloneVisit
<1>4. PICK s \in ScopesOf(rows, By) : RangeOf(s) = q /\ s.join = Here
  <2>1. q \in OwnRanges(rows, By)
    BY JoinIsOwn
  <2>. QED
    BY <2>1 DEF OwnRanges, RangeOf
<1>5. By \in 1..Len(rows) /\ By # 0
  BY <1>2, <1>4 DEF ScopesOf
<1>6. Walks(rows, By)
  BY <1>2 DEF WalkOK
<1>7. Held(rows, By) = ScopesOf(rows, By) /\ Pos(rows, By) = rows[By].node
  BY <1>2, <1>5, <1>6, WalkerRanges
<1>8. rows[By].source = 0 /\ Kind[rows[By].node] = "task" /\ ScopesOf(rows, By) = rows[By].scopes
  BY <1>2, <1>5, <1>6 DEF Walks, ScopesOf
<1>9. RangesOK(rows, By)
  BY <1>2, <1>5 DEF Fit, RowsFit, RowFits
<1>10. rows[By].node \in Body(q)
  BY <1>4, <1>8, <1>9 DEF RangesOK, Around
<1>. QED
  BY <1>2, <1>3, <1>4, <1>5, <1>7, <1>10

\* When the join is ready nobody is left inside its range.
LEMMA JoinEmpty ==
  ASSUME WellNested, OnTheWay, IInv, BranchInv, TokenInv, todo # <<>>, NEW q \in Ranges, q.join = Here,
         MergeReady(rows, Here, By), NEW k \in DoingIds(rows), Pos(rows, k) \in Body(q)
  PROVE  FALSE
<1>1. /\ Pos(rows, By) = rows[By].node /\ Held(rows, By) = ScopesOf(rows, By)
      /\ Len(todo) = 1 /\ todo[1].node = Here /\ Parallel(rows, By, k)
  BY AtTheJoin
<1>2. PICK o \in ScopesOf(rows, By) : o.join = Here
  BY AtTheJoin
<1>3. \A s \in ScopesOf(rows, By) : s.join = Here => ~Serves(rows[k], s)
  BY <1>2 DEF MergeReady
<1>4. PICK r \in Ranges, s \in Held(rows, By), u \in Held(rows, k) :
        RangeOf(s) = r /\ RangeOf(u) = r /\ s.round = u.round /\ Split(r, Pos(rows, By), Pos(rows, k))
  BY <1>1 DEF Parallel
<1>5. Serves(rows[k], s)
  <2>1. FormOK(rows, k)
    BY WalkFacts DEF Fit, RowsFit, RowFits, DoingIds
  <2>2. u.fork = s.fork /\ u.join = s.join /\ u.round = s.round
    BY <1>4 DEF RangeOf
  <2>. QED
    BY <2>1, <2>2, HeldIs
<1>6. s \in ScopesOf(rows, By) /\ s.join # Here
  BY <1>1, <1>3, <1>5
<1>7. OnItsWay(rows, By, todo, s)
  BY <1>6, WalkFacts DEF WalkOK
<1>8. SameBranch(r, rows[By].node, Here)
  BY <1>1, <1>4, <1>5, <1>6, <1>7 DEF OnItsWay
<1>9. PICK a \in Targets(r.fork) : Here \in Branch(r, a)
  BY <1>8, InSomeBranch DEF SameBranch
<1>10. rows[By].node \in Branch(r, a)
  BY <1>8, <1>9 DEF SameBranch
<1>11. Pos(rows, k) \in Branch(r, a)
  BY <1>9, JoinInBranch
<1>. QED
  BY <1>1, <1>4, <1>10, <1>11 DEF Split

\* Then all that lies before the join is done.
LEMMA JoinDone ==
  ASSUME WellNested, OnTheWay, IInv, BranchInv, TokenInv, QuietInv, WorkInv, todo # <<>>,
         NEW q \in Ranges, q.join = Here, MergeReady(rows, Here, By)
  PROVE  AllDid(rows, Earlier(Here))
<1>1. /\ By \in 1..Len(rows) /\ rows[By].node \in Body(q) /\ Len(todo) = 1 /\ todo[1].node = Here
  BY AtTheJoin
<1>2. Covered(rows, todo)
  BY DEF WorkInv, QuietInv
<1>3. Seen(rows, todo) \cap Body(q) # {}
  BY <1>1 DEF Seen
<1>4. ASSUME NEW p \in Places(rows, todo), p \in Body(q)
      PROVE  FALSE
  <2>1. p # Here
    BY <1>4, RangeFacts
  <2>2. PICK k \in DoingIds(rows) : p = Pos(rows, k)
    BY <1>1, <1>4, <2>1 DEF Places
  <2>. QED
    BY <1>4, <2>2, JoinEmpty
<1>5. ASSUME NEW a \in Targets(q.fork)
      PROVE  AllDid(rows, TasksIn(q, a))
  <2>1. Tended(rows, todo, q, a)
    BY <1>2, <1>3 DEF Covered
  <2>2. Branch(q, a) \subseteq Body(q)
    BY BranchFacts
  <2>. QED
    BY <1>4, <2>1, <2>2 DEF Tended
<1>6. AllDid(rows, Earlier(q.fork))
  <2>1. AllDid(rows, Earlier(rows[By].node))
    BY <1>1 DEF WorkInv
  <2>2. Earlier(q.fork) \subseteq Earlier(rows[By].node)
    BY <1>1 DEF OnTheWay
  <2>. QED
    BY <2>1, <2>2 DEF AllDid
<1>7. ASSUME NEW m \in Earlier(Here)
      PROVE  Did(rows, m)
  <2>1. m \in Body(q) \/ m \in Earlier(q.fork)
    BY <1>7 DEF OnTheWay
  <2>2. Kind[m] = "task"
    BY DEF Earlier
  <2>3. CASE m \in Body(q)
    <3>1. PICK a \in Targets(q.fork) : m \in Branch(q, a)
      BY <2>3, InSomeBranch
    <3>. QED
      BY <1>5, <2>2, <3>1 DEF AllDid, TasksIn
  <2>4. CASE m \in Earlier(q.fork)
    BY <1>6, <2>4 DEF AllDid
  <2>. QED
    BY <2>1, <2>3, <2>4
<1>. QED
  BY <1>7 DEF AllDid

\* When it is not, somebody is still inside.
LEMMA JoinWaits ==
  ASSUME WellNested, IInv, BranchInv, TokenInv, todo # <<>>, NEW q \in Ranges, q.join = Here,
         ~MergeReady(rows, Here, By)
  PROVE  \E k \in DoingIds(rows) : Pos(rows, k) \in Body(q)
<1>1. \E s \in ScopesOf(rows, By) : s.join = Here
  BY AtTheJoin
<1>2. PICK s \in ScopesOf(rows, By), k \in DoingIds(rows) : s.join = Here /\ Serves(rows[k], s)
  BY <1>1 DEF MergeReady
<1>3. Fit(rows) /\ By \in Nat /\ Walks(rows, By) /\ rows \in Seq(Row)
  BY WalkFacts DEF WalkOK
<1>4. RangeOf(s) \in Ranges
  BY <1>2, <1>3, WalkerRanges
<1>5. RangeOf(s) = q
  BY <1>2, <1>4, NodeRanges DEF RangeOf
<1>6. k \in 1..Len(rows) /\ FormOK(rows, k) /\ Kind[rows[k].node] = "task"
  BY <1>3 DEF Fit, RowsFit, RowFits, DoingIds, FormOK
<1>7. PICK u \in Held(rows, k) : u.fork = s.fork /\ u.join = s.join
  BY <1>2, <1>6, HeldIs
<1>8. RangeOf(u) = q
  BY <1>5, <1>7 DEF RangeOf
<1>9. RangeOf(u) \in Around(Pos(rows, k))
  BY <1>3, <1>6, HeldRanges DEF Fit, RowsFit
<1>. QED
  BY <1>8, <1>9 DEF Around

LEMMA EnterJoinWork ==
  ASSUME WellNested, OnTheWay, IInv, BranchInv, TokenInv, QuietInv, WorkInv, EnterJoin
  PROVE  WorkInv'
<1>1. PICK ns, toks : /\ ns = IF MergeReady(rows, Here, By) THEN Succ[Here] ELSE <<>>
                      /\ toks = Visits(ns, By) \o Tail(todo)
  OBVIOUS
<1>2. todo # <<>> /\ todo' = toks /\ rows' = rows /\ inst' = inst /\ Kind[Here] = "join"
  BY <1>1 DEF EnterJoin, At, Descend, Continue, Here
<1>3. /\ rows \in Seq(Row) /\ Here \in Node /\ Succ[Here] \in Seq(Node) /\ Fit(rows)
      /\ inst \notin {"none", "finished"}
  BY <1>2, WalkFacts
<1>4. PICK q \in Ranges : q.join = Here
  BY <1>2, <1>3, NodeRanges DEF Joins
<1>5. Onward(ns)
  <2>1. \A i \in DOMAIN Succ[Here] : Succ[Here][i] \in Targets(Here)
    BY DEF Targets
  <2>2. <<>> \in Seq(Node) /\ DOMAIN <<>> = {}
    OBVIOUS
  <2>. QED
    BY <1>1, <1>3, <2>1, <2>2 DEF Onward
<1>6. Onwards(toks) /\ Pending(toks) /\ Visited(ns, toks)
  BY <1>1, <1>2, <1>5, Unfolded
<1>7. AllDid(rows, Earlier(Here)) \/ toks = <<>>
  <2>1. CASE MergeReady(rows, Here, By)
    BY <1>2, <1>4, <2>1, JoinDone
  <2>2. CASE ~MergeReady(rows, Here, By)
    <3>1. <<>> \in Seq(Node) /\ Len(<<>>) <= 1 /\ DOMAIN <<>> = {}
      OBVIOUS
    <3>2. toks = Visits(<<>>, By) \o Tail(todo)
      BY <1>1, <2>2
    <3>. QED
      BY <1>2, <3>1, <3>2, AloneDescend
  <2>. QED
    BY <2>1, <2>2
<1>8. ASSUME NEW r \in Ranges, NEW a \in Targets(r.fork), Here \in Branch(r, a)
      PROVE  Tended(rows, toks, r, a)
  <2>1. CASE MergeReady(rows, Here, By)
    <3>1. \A y \in Targets(Here) : \E j \in 1..Len(toks) : toks[j].node = y
      <4>1. ns = Succ[Here]
        BY <1>1, <2>1
      <4>2. Visited(Succ[Here], toks)
        BY <1>6, <4>1
      <4>. QED
        BY <4>2 DEF Targets, Visited
    <3>2. AllDid(rows, Earlier(Here))
      BY <1>2, <1>4, <2>1, JoinDone
    <3>. QED
      BY <1>2, <1>8, <3>1, <3>2, BranchGoesOn
  <2>2. CASE ~MergeReady(rows, Here, By)
    <3>1. PICK k \in DoingIds(rows) : Pos(rows, k) \in Body(q)
      BY <1>2, <1>4, <2>2, JoinWaits
    <3>2. Pos(rows, k) \in Branch(r, a)
      BY <1>4, <1>8, <3>1, JoinInBranch
    <3>. QED
      BY <3>1, <3>2 DEF Tended, Places
  <2>. QED
    BY <2>1, <2>2
<1>9. /\ Evolves(rows, rows) /\ \A m \in Len(rows)+1..Len(rows) : FALSE
      /\ \A k \in DoingIds(rows) : k \in DoingIds(rows)
  BY <1>3 DEF Evolves, Same
<1>. QED
  BY <1>2, <1>3, <1>6, <1>7, <1>8, <1>9, PassesWork

LEMMA NextWorks ==
  ASSUME WellNested, Disciplined, OnTheWay, IInv, BranchInv, TokenInv, QuietInv, WorkInv, [Next]_vars
  PROVE  WorkInv'
<1>1. CASE Start
  BY <1>1, StartWork
<1>2. CASE Withdraw
  BY <1>2, WithdrawWork
<1>3. ASSUME NEW t \in DOMAIN rows, NEW st \in Submits, ExecuteProcessTask(t, st)
      PROVE  WorkInv'
  BY <1>3, ExecuteWork
<1>4. ASSUME NEW t \in DOMAIN rows, NEW k \in 1..2, AddSign(t, k)
      PROVE  WorkInv'
  BY <1>4, AddSignWork
<1>5. ASSUME NEW t \in DOMAIN rows, ExecuteAndJumpToEnd(t)
      PROVE  WorkInv'
  BY <1>5, RejectWork
<1>6. ASSUME NEW t \in DOMAIN rows, RollbackToParent(t)
      PROVE  WorkInv'
  BY <1>6, RollbackWork
<1>7. ASSUME NEW t \in DOMAIN rows, NEW target \in JumpTargets, ExecuteAndJumpTask(t, target)
      PROVE  WorkInv'
  BY <1>7, JumpWork
<1>8. ASSUME NEW t \in DOMAIN rows, ExecuteAndJumpToFirstTaskNode(t)
      PROVE  WorkInv'
  BY <1>8, ReturnWork
<1>9. ASSUME NEW t \in DOMAIN rows, ExecuteReapply(t)
      PROVE  WorkInv'
  BY <1>9, ReapplyWork
<1>10. ASSUME NEW t \in DOMAIN rows, RecallTask(t)
       PROVE  FALSE
  BY <1>10 DEF Disciplined, RecallTask, Serving
<1>11. ASSUME EnterDecision \/ DecisionFails
       PROVE  FALSE
  <2>1. todo # <<>> /\ Kind[Here] = "decision"
    BY <1>11 DEF EnterDecision, DecisionFails, At, Here
  <2>2. Here \in Node
    BY <2>1, WalkFacts
  <2>. QED
    BY <2>1, <2>2 DEF OnTheWay
<1>12. CASE Step
  BY <1>11, <1>12, EnterTaskWork, EnterCustomWork, EnterForkWork, EnterJoinWork, EnterTailWork DEF Step
<1>13. CASE UNCHANGED vars
  BY <1>13 DEF vars, WorkInv
<1>. QED
  BY <1>1, <1>2, <1>3, <1>4, <1>5, <1>6, <1>7, <1>8, <1>9, <1>10, <1>12, <1>13 DEF Next, Request

LEMMA InitWork ==
  ASSUME Init
  PROVE  WorkInv
<1>1. rows = <<>> /\ todo = <<>> /\ inst = "none"
  BY DEF Init
<1>2. PICK rs, toks : rs = rows /\ toks = todo /\ Len(rs) = 0 /\ Len(toks) = 0
  BY <1>1
<1>3. \A i \in 1..Len(rs) : FALSE
  BY <1>2
<1>4. \A i \in 1..Len(toks) : FALSE
  BY <1>2
<1>5. Covered(rs, toks)
  BY <1>3, <1>4 DEF Covered, Seen
<1>. QED
  BY <1>1, <1>2, <1>3, <1>4, <1>5 DEF WorkInv

\* No task is skipped: in a flow without choices, whose branches all lead through their
\* tasks to the join, an instance finishes only when every task node has been done,
\* after any number of returns, rollbacks and reapplications.
THEOREM EverythingIsDone ==
  ASSUME WellNested, Disciplined, OnTheWay
  PROVE  Spec => []NothingSkipped
<1>1. Init => QuietInv /\ WorkInv
  BY InitWork DEF Init, QuietInv
<1>2. IInv /\ BranchInv /\ TokenInv /\ QuietInv /\ WorkInv /\ [Next]_vars => QuietInv' /\ WorkInv'
  <2>1. ASSUME QuietInv, UNCHANGED vars
        PROVE  QuietInv'
    BY <2>1 DEF vars, QuietInv
  <2>. QED
    BY <2>1, QuietStep, NextWorks
<1>3. IInv /\ WorkInv => NothingSkipped
  <2> SUFFICES ASSUME IInv, WorkInv, inst = "finished", NEW n \in Node, Kind[n] = "task"
               PROVE  \E i \in On(rows, n) : rows[i].state = "done"
    BY DEF NothingSkipped
  <2>1. PICK i \in 1..Len(rows) : rows[i].node = n /\ rows[i].state = "done"
    BY DEF WorkInv, Did
  <2>2. i \in DOMAIN rows
    BY DEF IInv, TypeOK
  <2>. QED
    BY <2>1, <2>2 DEF On
<1>4. Spec => [](IInv /\ BranchInv /\ TokenInv)
  BY TokensInductive
<1>. QED
  BY <1>1, <1>2, <1>3, <1>4, PTL DEF Spec
=============================================================================
