---------------------------- MODULE EngineProofs ----------------------------
(***************************************************************************)
(* What Engine keeps for every flow, every configuration and any number of *)
(* rows and requests: the types, the lineage of the rows, the lasting      *)
(* effect of a recall, the immutability of the history, the end a          *)
(* withdrawal is, and the rounds of the branches. What a flow of nested    *)
(* forks keeps beside is in TokenProofs.                                   *)
(*                                                                         *)
(* The argument. A row descends (`parent`) from a row that is completed,   *)
(* and completed rows stay completed, so a lineage once right stays right. *)
(* Recalling a row t must leave no live or completed child of t behind,    *)
(* and none may be born later. So no new row, and no pending visit, may    *)
(* have a recalled parent: that is Sound, which the lineage alone does not *)
(* give. It holds of the row a request has just completed, because only    *)
(* completed rows are recalled; it holds of the parent of an open or a     *)
(* completed row, because such a row is no child of a recalled one         *)
(* (ParentSound); and nothing is recalled while visits are pending.        *)
(*                                                                         *)
(* Advances(old, new) says that all of this was respected on the way from  *)
(* old to new. It composes, so each action is a chain of small changes     *)
(* that advance; only the recall itself does not (LedgerOK). Evolves is    *)
(* what remains true then too, and what HistoryImmutable needs.            *)
(*                                                                         *)
(* The static analysis is a search of as many rounds as there are nodes;   *)
(* the last lemmas show that it reaches a fixpoint. TokenProofs builds on  *)
(* them.                                                                   *)
(***************************************************************************)
EXTENDS Engine, SequenceTheorems, FiniteSetTheorems, WellFoundedInduction, TLAPS

\* A function on 1..n is a sequence of length n.
LEMMA FunctionIsSeq ==
  ASSUME NEW S, NEW n \in Nat, NEW f \in [1..n -> S]
  PROVE  f \in Seq(S) /\ Len(f) = n /\ DOMAIN f = 1..n
<1>1. f \in Seq(S)
  BY SeqDef
<1>2. DOMAIN f = 1..n
  OBVIOUS
<1>. QED
  BY <1>1, <1>2, LenProperties

\* a and b differ in their state and their ledger at most.
Same(a, b) ==
  /\ a.node = b.node /\ a.parent = b.parent /\ a.scopes = b.scopes
  /\ a.source = b.source /\ a.branch = b.branch /\ a.loop = b.loop

\* What any change of the rows respects: closed rows keep their state.
Evolves(old, new) ==
  /\ Len(old) <= Len(new)
  /\ \A i \in 1..Len(old) :
       /\ Same(old[i], new[i])
       /\ old[i].recalled \subseteq new[i].recalled
       /\ old[i].state # "doing" => new[i].state = old[i].state

\* p is no row, or a completed row that was not recalled.
Sound(rs, p) == p # 0 => rs[p].state = "done" /\ rs[p].recalled = {}

\* A change that recalls nothing; new rows have sound parents and sources.
Advances(old, new) ==
  /\ new \in Seq(Row)
  /\ Evolves(old, new)
  /\ \A i \in 1..Len(old) : new[i].recalled = old[i].recalled
  /\ \A i \in Len(old)+1..Len(new) :
       /\ new[i].recalled = {}
       /\ new[i].parent < i /\ new[i].source < i
       /\ Sound(new, new[i].parent)
       /\ new[i].source # 0 => new[new[i].source].state = "done"

\* What Fresh makes is a row.
LEMMA FreshType ==
  ASSUME NEW n \in Node, NEW p \in Nat, NEW sc \in SUBSET Scope
  PROVE  Fresh(n, p, sc) \in Row
BY DEF Fresh, Row, TaskStates

\* Evolving composes.
LEMMA EvolvesTrans ==
  ASSUME NEW a \in Seq(Row), NEW b \in Seq(Row), NEW c \in Seq(Row),
         Evolves(a, b), Evolves(b, c)
  PROVE  Evolves(a, c)
BY DEF Evolves, Same

\* So does advancing.
LEMMA AdvancesTrans ==
  ASSUME NEW a \in Seq(Row), NEW b \in Seq(Row), NEW c, Advances(a, b), Advances(b, c)
  PROVE  Advances(a, c)
<1>1. c \in Seq(Row) /\ Evolves(a, c)
  BY EvolvesTrans DEF Advances
<1>2. Len(a) \in Nat /\ Len(b) \in Nat /\ Len(c) \in Nat
  BY <1>1
<1>3. \A i \in 1..Len(a) : c[i].recalled = a[i].recalled
  BY <1>2 DEF Advances, Evolves
<1>4. ASSUME NEW i \in Len(a)+1..Len(c)
      PROVE  /\ c[i].recalled = {}
             /\ c[i].parent < i /\ c[i].source < i
             /\ Sound(c, c[i].parent)
             /\ c[i].source # 0 => c[c[i].source].state = "done"
  <2>1. CASE i > Len(b)
    BY <1>2, <2>1 DEF Advances
  <2>2. CASE i <= Len(b)
    <3>1. i \in 1..Len(b) /\ b[i] \in Row
      BY <1>2, <2>2
    <3>2. Same(b[i], c[i]) /\ c[i].recalled = b[i].recalled
      BY <3>1 DEF Advances, Evolves
    <3>3. /\ b[i].recalled = {}
          /\ b[i].parent < i /\ b[i].source < i
          /\ Sound(b, b[i].parent)
          /\ b[i].source # 0 => b[b[i].source].state = "done"
      BY <1>2, <2>2 DEF Advances
    <3>4. \A k \in 1..Len(b) : b[k].state = "done" => c[k].state = "done"
      BY DEF Advances, Evolves
    <3>5. b[i].parent \in Nat /\ b[i].source \in Nat
      BY <3>1 DEF Row
    <3>6. Sound(c, b[i].parent)
      <4>1. CASE b[i].parent = 0
        BY <4>1 DEF Sound
      <4>2. CASE b[i].parent # 0
        <5>1. b[i].parent \in 1..Len(b)
          BY <1>2, <3>1, <3>3, <3>5, <4>2
        <5>. QED
          BY <3>3, <3>4, <5>1 DEF Sound, Advances
      <4>. QED
        BY <4>1, <4>2
    <3>7. b[i].source # 0 => c[b[i].source].state = "done"
      BY <1>2, <3>1, <3>3, <3>4, <3>5
    <3>. QED
      BY <3>2, <3>3, <3>6, <3>7 DEF Same
  <2>. QED
    BY <1>2, <2>1, <2>2
<1>. QED
  BY <1>1, <1>3, <1>4 DEF Advances

\* Changing the state of a row changes nothing else of it.
LEMMA RowState ==
  ASSUME NEW r \in Row, NEW s \in TaskStates
  PROVE  LET q == [r EXCEPT !.state = s]
         IN q \in Row /\ Same(r, q) /\ q.state = s /\ q.recalled = r.recalled
BY DEF Row, Same

\* Completing an open row.
LEMMA CompleteAdvances ==
  ASSUME NEW rs \in Seq(Row), NEW t \in 1..Len(rs), rs[t].state = "doing"
  PROVE  /\ Advances(rs, Complete(rs, t))
         /\ Len(Complete(rs, t)) = Len(rs)
         /\ Complete(rs, t)[t].state = "done"
<1> DEFINE q == [rs[t] EXCEPT !.state = "done"]
           new == Complete(rs, t)
<1>1. rs[t] \in Row /\ "done" \in TaskStates
  BY DEF TaskStates
<1>2. q \in Row /\ Same(rs[t], q) /\ q.state = "done" /\ q.recalled = rs[t].recalled
  BY <1>1, RowState
<1>3. new = [rs EXCEPT ![t] = q]
  BY DEF Complete
<1>4. /\ new \in Seq(Row) /\ Len(new) = Len(rs)
      /\ \A i \in 1..Len(rs) : new[i] = IF i = t THEN q ELSE rs[i]
  <2> HIDE DEF q
  <2>. QED
    BY <1>2, <1>3, ExceptSeq
<1> HIDE DEF q, new
<1>5. \A i \in 1..Len(rs) : Same(rs[i], new[i]) /\ new[i].recalled = rs[i].recalled
  BY <1>2, <1>4 DEF Same
<1>6. \A i \in 1..Len(rs) : rs[i].state # "doing" => new[i] = rs[i]
  BY <1>4
<1>7. Advances(rs, new) /\ new[t].state = "done"
  BY <1>2, <1>4, <1>5, <1>6 DEF Advances, Evolves
<1>. QED
  BY <1>4, <1>7 DEF new

\* Closing open rows: they take the given state, and no other row changes.
LEMMA CloseAdvances ==
  ASSUME NEW rs \in Seq(Row), NEW ids, ids \subseteq DoingIds(rs), NEW s \in TaskStates
  PROVE  /\ Advances(rs, Close(rs, ids, s))
         /\ Len(Close(rs, ids, s)) = Len(rs)
         /\ \A i \in ids : Close(rs, ids, s)[i].state = s
         /\ \A i \in 1..Len(rs) \ ids : Close(rs, ids, s)[i] = rs[i]
<1> DEFINE new == Close(rs, ids, s)
<1>1. \A i \in 1..Len(rs) :
        LET q == [rs[i] EXCEPT !.state = s]
        IN q \in Row /\ Same(rs[i], q) /\ q.state = s /\ q.recalled = rs[i].recalled
  BY RowState
<1>2. \A i \in 1..Len(rs) : new[i] = IF i \in ids THEN [rs[i] EXCEPT !.state = s] ELSE rs[i]
  BY DEF Close
<1>3. new \in [1..Len(rs) -> Row]
  <2>1. new = [i \in 1..Len(rs) |-> new[i]]
    BY DEF Close
  <2>2. ASSUME NEW i \in 1..Len(rs)
        PROVE  new[i] \in Row
    <3> DEFINE q == [rs[i] EXCEPT !.state = s]
    <3>1. q \in Row
      BY RowState
    <3>2. new[i] = IF i \in ids THEN q ELSE rs[i]
      BY <1>2
    <3> HIDE DEF q, new
    <3>. QED
      BY <3>1, <3>2
  <2> HIDE DEF new
  <2>. QED
    BY <2>1, <2>2
<1>4. new \in Seq(Row) /\ Len(new) = Len(rs)
  <2> HIDE DEF new
  <2>. QED
    BY <1>3, FunctionIsSeq, LenProperties
<1>5. \A i \in 1..Len(rs) :
        /\ Same(rs[i], new[i]) /\ new[i].recalled = rs[i].recalled
        /\ i \in ids => new[i].state = s /\ rs[i].state = "doing"
        /\ i \notin ids => new[i] = rs[i]
  <2> SUFFICES ASSUME NEW i \in 1..Len(rs)
               PROVE  /\ Same(rs[i], new[i]) /\ new[i].recalled = rs[i].recalled
                      /\ i \in ids => new[i].state = s /\ rs[i].state = "doing"
                      /\ i \notin ids => new[i] = rs[i]
    OBVIOUS
  <2>1. i \in ids => rs[i].state = "doing"
    BY DEF DoingIds
  <2>2. CASE i \in ids
    <3> DEFINE q == [rs[i] EXCEPT !.state = s]
    <3>1. new[i] = q
      BY <1>2, <2>2
    <3>2. Same(rs[i], q) /\ q.state = s /\ q.recalled = rs[i].recalled
      BY <1>1
    <3> HIDE DEF q, new
    <3>. QED
      BY <2>1, <2>2, <3>1, <3>2
  <2>3. CASE i \notin ids
    <3>1. new[i] = rs[i]
      BY <1>2, <2>3
    <3> HIDE DEF new
    <3>. QED
      BY <2>3, <3>1 DEF Same
  <2>. QED
    BY <2>2, <2>3
<1>6. ids \subseteq 1..Len(rs)
  BY DEF DoingIds
<1> HIDE DEF new
<1>7. Advances(rs, new)
  BY <1>4, <1>5 DEF Advances, Evolves
<1>. QED
  BY <1>4, <1>5, <1>6, <1>7 DEF new

\* A row that may be appended to rs.
Heir(rs, r) ==
  /\ r \in Row /\ r.recalled = {}
  /\ r.parent <= Len(rs) /\ Sound(rs, r.parent)
  /\ r.source <= Len(rs) /\ (r.source # 0 => rs[r.source].state = "done")

\* Appending rows that may be appended.
LEMMA ConcatAdvances ==
  ASSUME NEW rs \in Seq(Row), NEW more \in Seq(Row), \A i \in 1..Len(more) : Heir(rs, more[i])
  PROVE  Advances(rs, rs \o more) /\ Len(rs \o more) = Len(rs) + Len(more)
<1> DEFINE new == rs \o more
<1>1. /\ new \in Seq(Row) /\ Len(new) = Len(rs) + Len(more)
      /\ \A i \in 1..Len(rs) + Len(more) :
           new[i] = IF i <= Len(rs) THEN rs[i] ELSE more[i - Len(rs)]
  BY ConcatProperties
<1>2. Len(rs) \in Nat /\ Len(more) \in Nat
  OBVIOUS
<1> HIDE DEF new
<1>3. \A i \in 1..Len(rs) : new[i] = rs[i]
  BY <1>1, <1>2
<1>4. ASSUME NEW i \in Len(rs)+1..Len(new)
      PROVE  /\ new[i].recalled = {}
             /\ new[i].parent < i /\ new[i].source < i
             /\ Sound(new, new[i].parent)
             /\ new[i].source # 0 => new[new[i].source].state = "done"
  <2>1. i - Len(rs) \in 1..Len(more) /\ new[i] = more[i - Len(rs)]
    BY <1>1, <1>2
  <2>2. Heir(rs, new[i])
    BY <2>1
  <2>3. new[i].parent \in Nat /\ new[i].source \in Nat
    BY <2>2 DEF Heir, Row
  <2>4. new[i].parent # 0 => new[i].parent \in 1..Len(rs)
    BY <1>2, <2>2, <2>3 DEF Heir
  <2>5. new[i].source # 0 => new[i].source \in 1..Len(rs)
    BY <1>2, <2>2, <2>3 DEF Heir
  <2>6. Sound(new, new[i].parent)
    BY <1>3, <2>2, <2>4 DEF Heir, Sound
  <2>7. new[i].source # 0 => new[new[i].source].state = "done"
    BY <1>3, <2>2, <2>5 DEF Heir
  <2>. QED
    BY <1>2, <2>2, <2>3, <2>6, <2>7 DEF Heir
<1>5. Evolves(rs, new) /\ \A i \in 1..Len(rs) : new[i].recalled = rs[i].recalled
  BY <1>1, <1>2, <1>3 DEF Evolves, Same
<1>6. Advances(rs, new)
  BY <1>1, <1>4, <1>5 DEF Advances
<1>. QED
  BY <1>1, <1>6 DEF new

\* Appending one row.
LEMMA AppendAdvances ==
  ASSUME NEW rs \in Seq(Row), NEW r, Heir(rs, r)
  PROVE  Advances(rs, Append(rs, r)) /\ Len(Append(rs, r)) = Len(rs) + 1
<1>1. r \in Row
  BY DEF Heir
<1>2. Append(rs, r) = rs \o <<r>> /\ <<r>> \in Seq(Row)
  BY <1>1, AppendIsConcat
<1>3. Len(<<r>>) = 1 /\ \A i \in 1..Len(<<r>>) : Heir(rs, <<r>>[i])
  OBVIOUS
<1>. QED
  BY <1>2, <1>3, ConcatAdvances

-----------------------------------------------------------------------------
(* What is invariant of the rows, also of those a rollback would restore.  *)

RowsOK(rs) ==
  /\ rs \in Seq(Row)
  /\ Lineage(rs)
  /\ Superseded(rs)
  /\ \A i \in 1..Len(rs) : rs[i].recalled # {} => rs[i].state = "done"

\* Pending visits come from rows that may be parents.
TodoOK(toks, rs) ==
  \A i \in 1..Len(toks) : toks[i].parent <= Len(rs) /\ Sound(rs, toks[i].parent)

\* Advancing keeps the rows in order.
LEMMA AdvancesRowsOK ==
  ASSUME NEW old, RowsOK(old), NEW new, Advances(old, new)
  PROVE  RowsOK(new)
<1>1. /\ old \in Seq(Row) /\ new \in Seq(Row)
      /\ Len(old) \in Nat /\ Len(new) \in Nat /\ Len(old) <= Len(new)
      /\ DOMAIN old = 1..Len(old) /\ DOMAIN new = 1..Len(new)
  BY DEF RowsOK, Advances, Evolves
<1>2. \A i \in 1..Len(old) : Same(old[i], new[i]) /\ new[i].recalled = old[i].recalled
  BY DEF Advances, Evolves
<1>3. \A i \in 1..Len(old) : old[i].state # "doing" => new[i].state = old[i].state
  BY DEF Advances, Evolves
<1>4. \A i \in Len(old)+1..Len(new) :
        /\ new[i].recalled = {}
        /\ new[i].parent < i /\ new[i].source < i
        /\ Sound(new, new[i].parent)
        /\ new[i].source # 0 => new[new[i].source].state = "done"
  BY DEF Advances
<1>5. \A i \in 1..Len(new) : new[i] \in Row
  BY <1>1
<1>6. Lineage(new)
  <2> SUFFICES ASSUME NEW i \in 1..Len(new)
               PROVE  /\ new[i].parent < i /\ new[i].source < i
                      /\ new[i].parent # 0 => new[new[i].parent].state = "done"
                      /\ new[i].source # 0 => new[new[i].source].state = "done"
    BY <1>1 DEF Lineage
  <2>1. CASE i > Len(old)
    BY <1>1, <1>4, <2>1 DEF Sound
  <2>2. CASE i <= Len(old)
    <3>0. i \in 1..Len(old) /\ new[i] \in Row
      BY <1>1, <1>5, <2>2
    <3>1. i \in 1..Len(old) /\ new[i].parent \in Nat /\ new[i].source \in Nat
      BY <3>0 DEF Row
    <3>2. /\ old[i].parent < i /\ old[i].source < i
          /\ old[i].parent # 0 => old[old[i].parent].state = "done"
          /\ old[i].source # 0 => old[old[i].source].state = "done"
      BY <1>1, <3>1 DEF RowsOK, Lineage
    <3>3. new[i].parent = old[i].parent /\ new[i].source = old[i].source
      BY <1>2, <3>1 DEF Same
    <3>. QED
      BY <1>1, <1>3, <3>1, <3>2, <3>3
  <2>. QED
    BY <1>1, <2>1, <2>2
<1>7. \A i \in 1..Len(new) : new[i].recalled # {} => i \in 1..Len(old) /\ new[i].state = "done"
  <2> SUFFICES ASSUME NEW i \in 1..Len(new), new[i].recalled # {}
               PROVE  i \in 1..Len(old) /\ new[i].state = "done"
    OBVIOUS
  <2>1. i \in 1..Len(old)
    BY <1>1, <1>4
  <2>. QED
    BY <1>2, <1>3, <2>1 DEF RowsOK
<1>8. Superseded(new)
  <2> SUFFICES ASSUME NEW t \in 1..Len(new), new[t].recalled # {},
                      NEW i \in 1..Len(new), new[i].parent = t
               PROVE  new[i].state \notin {"doing", "done"}
    BY <1>1 DEF Superseded
  <2>1. t \in 1..Len(old) /\ old[t].recalled # {}
    BY <1>2, <1>7
  <2>2. CASE i > Len(old)
    BY <1>1, <1>4, <2>2 DEF Sound
  <2>3. CASE i <= Len(old)
    <3>1. i \in 1..Len(old) /\ old[i].parent = t
      BY <1>1, <1>2, <2>3 DEF Same
    <3>2. old[i].state \notin {"doing", "done"}
      BY <1>1, <2>1, <3>1 DEF RowsOK, Superseded
    <3>. QED
      BY <1>3, <3>1, <3>2
  <2>. QED
    BY <1>1, <2>2, <2>3
<1>. QED
  BY <1>1, <1>6, <1>7, <1>8 DEF RowsOK

\* Pending visits stay in order when the rows advance.
LEMMA AdvancesTodoOK ==
  ASSUME NEW old \in Seq(Row), NEW new, Advances(old, new),
         NEW toks \in Seq(Token), TodoOK(toks, old)
  PROVE  TodoOK(toks, new)
<1>1. Len(old) \in Nat /\ Len(new) \in Nat /\ Len(old) <= Len(new)
  BY DEF Advances, Evolves
<1>2. \A i \in 1..Len(old) :
        new[i].recalled = old[i].recalled /\ (old[i].state # "doing" => new[i].state = old[i].state)
  BY DEF Advances, Evolves
<1> SUFFICES ASSUME NEW i \in 1..Len(toks)
             PROVE  toks[i].parent <= Len(new) /\ Sound(new, toks[i].parent)
  BY DEF TodoOK
<1>3. toks[i].parent <= Len(old) /\ Sound(old, toks[i].parent)
  BY DEF TodoOK
<1>4. toks[i] \in Token
  OBVIOUS
<1>5. toks[i].parent \in Nat
  BY <1>4 DEF Token
<1>. QED
  BY <1>1, <1>2, <1>3, <1>5 DEF Sound

-----------------------------------------------------------------------------
(* Types of what the actions are built from.                               *)

\* Ranges run from nodes to nodes.
LEMMA StaticScopesType ==
  \A n : \A s \in StaticScopes(n) : s.fork \in Node /\ s.join \in Node
BY DEF StaticScopes, Ranges, Forks, Joins

\* What BuildScopes makes are scopes.
LEMMA BuildScopesType ==
  ASSUME NEW rs \in Seq(Row), NEW n, NEW p \in Nat, NEW self \in Nat
  PROVE  BuildScopes(rs, n, p, self) \in SUBSET Scope
<1>1. ScopesOf(rs, p) \in SUBSET Scope
  <2>1. CASE p \in DOMAIN rs
    <3>1. rs[p] \in Row
      BY <2>1
    <3>. QED
      BY <2>1, <3>1 DEF ScopesOf, Row
  <2>2. CASE p \notin DOMAIN rs
    BY <2>2 DEF ScopesOf
  <2>. QED
    BY <2>1, <2>2
<1>2. \A s \in StaticScopes(n) : [fork |-> s.fork, join |-> s.join, round |-> p, root |-> self] \in Scope
  BY StaticScopesType DEF Scope
<1>. QED
  BY <1>1, <1>2 DEF BuildScopes

LEMMA AttachedType ==
  ASSUME NEW rs \in Seq(Row), NEW n, NEW p \in Nat, NEW self \in Nat
  PROVE  Attached(rs, n, p, self) \in SUBSET Scope
BY BuildScopesType DEF Attached

\* Visits of nodes are tokens with the given parent.
LEMMA VisitsType ==
  ASSUME NEW ns \in Seq(Node), NEW p \in Nat
  PROVE  /\ Visits(ns, p) \in Seq(Token) /\ Len(Visits(ns, p)) = Len(ns)
         /\ \A i \in 1..Len(ns) : Visits(ns, p)[i].parent = p
<1>1. \A i \in 1..Len(ns) : [node |-> ns[i], parent |-> p] \in Token
  BY DEF Token
<1>2. Visits(ns, p) \in [1..Len(ns) -> Token]
  BY <1>1 DEF Visits
<1>3. Visits(ns, p) \in Seq(Token) /\ Len(Visits(ns, p)) = Len(ns)
  BY <1>2, FunctionIsSeq, LenProperties
<1>. QED
  BY <1>3 DEF Visits

\* FirstOf yields nodes.
LEMMA FirstOfType ==
  ASSUME NEW kinds
  PROVE  FirstOf(kinds) \in Seq(Node)
<1> DEFINE hits == {h \in UNION {{n} \X DOMAIN Succ[n] : n \in StartNodes} :
                      Kind[Succ[h[1]][h[2]]] \in kinds}
           first == {h \in hits : \A g \in hits : h[2] <= g[2]}
           h == CHOOSE h \in first : TRUE
<1>1. \A g \in first : Succ[g[1]][g[2]] \in Node
  <2> SUFFICES ASSUME NEW n \in StartNodes, NEW g \in {n} \X DOMAIN Succ[n]
               PROVE  Succ[g[1]][g[2]] \in Node
    OBVIOUS
  <2>1. Succ[n] \in Seq(Node)
    BY FlowAssumption DEF StartNodes
  <2>2. g[1] = n /\ g[2] \in DOMAIN Succ[n]
    OBVIOUS
  <2>. QED
    BY <2>1, <2>2
<1>2. FirstOf(kinds) = IF first = {} THEN <<>> ELSE <<Succ[h[1]][h[2]]>>
  BY DEF FirstOf
<1>3. first # {} => h \in first
  OBVIOUS
<1> HIDE DEF first, h
<1>. QED
  BY <1>1, <1>2, <1>3

\* Visits that a completed, never recalled row gives rise to may be pending.
LEMMA VisitsTodoOK ==
  ASSUME NEW ns \in Seq(Node), NEW rs \in Seq(Row), NEW p \in Nat, p <= Len(rs), Sound(rs, p)
  PROVE  Visits(ns, p) \in Seq(Token) /\ TodoOK(Visits(ns, p), rs)
BY VisitsType DEF TodoOK

\* Two lists of visits that may be pending, one after the other.
LEMMA ConcatTodoOK ==
  ASSUME NEW rs \in Seq(Row), NEW a \in Seq(Token), NEW b \in Seq(Token),
         TodoOK(a, rs), TodoOK(b, rs)
  PROVE  a \o b \in Seq(Token) /\ TodoOK(a \o b, rs)
<1> DEFINE c == a \o b
<1>1. /\ c \in Seq(Token) /\ Len(c) = Len(a) + Len(b) /\ Len(a) \in Nat /\ Len(b) \in Nat
      /\ \A i \in 1..Len(a) + Len(b) : c[i] = IF i <= Len(a) THEN a[i] ELSE b[i - Len(a)]
  BY ConcatProperties
<1> HIDE DEF c
<1>2. ASSUME NEW i \in 1..Len(c)
      PROVE  c[i].parent <= Len(rs) /\ Sound(rs, c[i].parent)
  <2>1. CASE i <= Len(a)
    BY <1>1, <2>1 DEF TodoOK
  <2>2. CASE i > Len(a)
    <3>1. i - Len(a) \in 1..Len(b) /\ c[i] = b[i - Len(a)]
      BY <1>1, <2>2
    <3>. QED
      BY <3>1 DEF TodoOK
  <2>. QED
    BY <1>1, <2>1, <2>2
<1>. QED
  BY <1>1, <1>2 DEF TodoOK, c

\* A fresh row may be appended where its parent may be a parent.
LEMMA FreshHeir ==
  ASSUME NEW rs \in Seq(Row), NEW n \in Node, NEW p \in Nat, NEW sc \in SUBSET Scope,
         p <= Len(rs), Sound(rs, p)
  PROVE  Heir(rs, Fresh(n, p, sc))
<1>1. Fresh(n, p, sc) \in Row
  BY FreshType
<1>2. Fresh(n, p, sc).parent = p /\ Fresh(n, p, sc).source = 0 /\ Fresh(n, p, sc).recalled = {}
  BY DEF Fresh
<1>. QED
  BY <1>1, <1>2 DEF Heir

\* So may it with a loop counter,
LEMMA LoopHeir ==
  ASSUME NEW rs \in Seq(Row), NEW r, Heir(rs, r), NEW l \in Int
  PROVE  Heir(rs, [r EXCEPT !.loop = l])
<1> DEFINE q == [r EXCEPT !.loop = l]
<1>1. r \in Row
  BY DEF Heir
<1>2. q \in Row /\ q.parent = r.parent /\ q.source = r.source /\ q.recalled = r.recalled
  BY <1>1 DEF Row
<1> HIDE DEF q
<1>3. Heir(rs, q)
  BY <1>2 DEF Heir
<1>. QED
  BY <1>3 DEF q

\* or with the return context of a completed row.
LEMMA ContextHeir ==
  ASSUME NEW rs \in Seq(Row), NEW r, Heir(rs, r), NEW s \in Nat, NEW b \in SUBSET Scope,
         s <= Len(rs), s # 0 => rs[s].state = "done"
  PROVE  Heir(rs, [r EXCEPT !.source = s, !.branch = b])
<1> DEFINE q == [r EXCEPT !.source = s, !.branch = b]
<1>1. r \in Row
  BY DEF Heir
<1>2. q \in Row /\ q.parent = r.parent /\ q.source = s /\ q.recalled = r.recalled
  BY <1>1 DEF Row
<1> HIDE DEF q
<1>3. Heir(rs, q)
  BY <1>2 DEF Heir
<1>. QED
  BY <1>3 DEF q

\* A row that may be a parent stays one.
LEMMA SoundAdvances ==
  ASSUME NEW old \in Seq(Row), NEW new, Advances(old, new), NEW p \in Nat,
         p <= Len(old), Sound(old, p)
  PROVE  p <= Len(new) /\ Sound(new, p)
<1>1. Len(old) \in Nat /\ Len(new) \in Nat /\ Len(old) <= Len(new)
  BY DEF Advances, Evolves
<1>. QED
  BY <1>1 DEF Advances, Evolves, Sound

\* Completing an open row.
LEMMA Completed ==
  ASSUME NEW rs, RowsOK(rs), NEW t \in 1..Len(rs), rs[t].state = "doing"
  PROVE  LET done == Complete(rs, t)
         IN /\ Advances(rs, done) /\ RowsOK(done) /\ done \in Seq(Row)
            /\ Len(done) = Len(rs) /\ t <= Len(done) /\ Sound(done, t)
            /\ \A i \in 1..Len(rs) : rs[i].state = "done" => done[i].state = "done"
<1> DEFINE done == Complete(rs, t)
<1>1. rs \in Seq(Row) /\ rs[t].recalled = {}
  BY DEF RowsOK
<1>2. Advances(rs, done) /\ Len(done) = Len(rs) /\ done[t].state = "done"
  BY <1>1, CompleteAdvances
<1> HIDE DEF done
<1>3. RowsOK(done)
  BY <1>2, AdvancesRowsOK
<1>4. done[t].recalled = {}
  BY <1>1, <1>2 DEF Advances
<1>5. \A i \in 1..Len(rs) : rs[i].state = "done" => done[i].state = "done"
  BY <1>2 DEF Advances, Evolves
<1>6. Advances(rs, done) /\ RowsOK(done) /\ done \in Seq(Row) /\ Len(done) = Len(rs)
      /\ t <= Len(done) /\ Sound(done, t)
  BY <1>2, <1>3, <1>4 DEF RowsOK, Sound
<1>. QED
  BY <1>5, <1>6 DEF done

\* Clearing an add-sign node.
LEMMA ClearAddSignAdvances ==
  ASSUME NEW rs \in Seq(Row), NEW n
  PROVE  Advances(rs, ClearAddSign(rs, n)) /\ Len(ClearAddSign(rs, n)) = Len(rs)
<1>1. Advances(rs, rs)
  BY DEF Advances, Evolves, Same
<1>2. DoingOn(rs, n) \subseteq DoingIds(rs) /\ "abandoned" \in TaskStates
  BY DEF DoingOn, TaskStates
<1>3. Advances(rs, Close(rs, DoingOn(rs, n), "abandoned"))
      /\ Len(Close(rs, DoingOn(rs, n), "abandoned")) = Len(rs)
  BY <1>2, CloseAdvances
<1>. QED
  BY <1>1, <1>3 DEF ClearAddSign

-----------------------------------------------------------------------------
(* The inductive invariant, and what each kind of action owes to it.       *)

IInv ==
  /\ TypeOK
  /\ RowsOK(rows)
  /\ saved # <<>> => RowsOK(saved[1].rows) /\ Evolves(saved[1].rows, rows)
  /\ TodoOK(todo, rows)
  /\ ~Transactional => saved = <<>>

\* What `saved` holds.
Snapshot == [inst : InstanceStates, rows : Seq(Row), loops : [Node -> Int]]

\* A snapshot as the one element of a sequence.
LEMMA SavedType ==
  ASSUME NEW s \in Snapshot
  PROVE  <<s>> \in [{1} -> Snapshot] /\ <<s>> # <<>> /\ <<s>>[1] = s
OBVIOUS

\* A request that changes the rows as it may and then walks through toks.
LEMMA RequestKeeps ==
  ASSUME IInv, todo = <<>>, inst' \in InstanceStates, loops' \in [Node -> Int],
         RowsOK(rows'), Evolves(rows, rows'),
         NEW toks \in Seq(Token), TodoOK(toks, rows'), NEW st \in SubmitTypes, Walk(toks, st)
  PROVE  IInv' /\ Evolves(Visible, Visible')
<1>1. saved = <<>>
  BY DEF IInv, TypeOK
<1>2. todo' = toks /\ submit' \in SubmitTypes
  BY DEF Walk, SubmitTypes
<1> DEFINE s == [inst |-> inst, rows |-> rows, loops |-> loops]
<1>3. s \in Snapshot /\ s.rows = rows
  BY DEF IInv, TypeOK, Snapshot
<1>4. saved' = IF toks = <<>> \/ ~Transactional THEN <<>> ELSE <<s>>
  BY DEF Walk
<1> HIDE DEF s
<1>5. CASE toks = <<>> \/ ~Transactional
  <2>1. saved' = <<>>
    BY <1>4, <1>5
  <2>2. TypeOK'
    BY <1>2, <1>5, <2>1 DEF TypeOK, RowsOK
  <2>3. TodoOK(todo, rows)'
    BY <1>2
  <2>. QED
    BY <1>1, <2>1, <2>2, <2>3 DEF IInv, Visible
<1>6. CASE ~(toks = <<>> \/ ~Transactional)
  <2>1. saved' = <<s>>
    BY <1>4, <1>6
  <2>2. saved' \in [{1} -> Snapshot] /\ saved' # <<>> /\ saved'[1] = s
    BY <1>3, <2>1, SavedType
  <2>3. TypeOK'
    BY <1>2, <1>6, <2>2 DEF TypeOK, RowsOK, Snapshot
  <2>4. TodoOK(todo, rows)'
    BY <1>2
  <2>5. RowsOK(saved'[1].rows) /\ Evolves(saved'[1].rows, rows')
    BY <1>3, <2>2 DEF IInv
  <2>6. Evolves(Visible, Visible')
    BY <1>1, <1>3, <2>2 DEF Visible, Evolves, Same, IInv, RowsOK
  <2>. QED
    BY <1>6, <2>3, <2>4, <2>5, <2>6 DEF IInv
<1>. QED
  BY <1>5, <1>6

\* A step of the walk that goes on with toks.
LEMMA StepKeeps ==
  ASSUME IInv, todo # <<>>, inst' \in InstanceStates, loops' \in [Node -> Int],
         RowsOK(rows'),
         NEW toks \in Seq(Token), TodoOK(toks, rows'), Continue(toks),
         \/ Evolves(rows, rows')
         \/ toks = <<>> /\ saved # <<>> /\ rows' = saved[1].rows
  PROVE  IInv' /\ Evolves(Visible, Visible')
<1>1. /\ todo' = toks /\ submit' \in SubmitTypes
      /\ saved' = IF toks = <<>> THEN <<>> ELSE saved
  BY DEF Continue, SubmitTypes, IInv, TypeOK
<1>2. saved = <<>> \/ saved \in [{1} -> Snapshot]
  BY DEF IInv, TypeOK, Snapshot
<1>3. (toks = <<>> => saved' = <<>>) /\ (toks # <<>> => saved' = saved)
  BY <1>1
<1>4. TypeOK'
  BY <1>1, <1>2, <1>3 DEF IInv, TypeOK, RowsOK, Snapshot
<1>5. TodoOK(todo, rows)' /\ (~Transactional => saved' = <<>>)
  BY <1>1 DEF IInv
<1>6. Evolves(rows, rows') /\ saved # <<>> => Evolves(saved[1].rows, rows')
  BY EvolvesTrans DEF IInv, RowsOK
<1>7. saved # <<>> => Evolves(saved[1].rows, saved[1].rows)
  BY DEF IInv, RowsOK, Evolves, Same
<1>8. saved' # <<>> => RowsOK(saved'[1].rows) /\ Evolves(saved'[1].rows, rows')
  BY <1>3, <1>6 DEF IInv
<1>9. Evolves(Visible, Visible')
  BY <1>3, <1>6, <1>7 DEF Visible
<1>. QED
  BY <1>4, <1>5, <1>8, <1>9 DEF IInv

\* Advancing from rows in order.
LEMMA AdvancesEvolves ==
  ASSUME RowsOK(rows), Advances(rows, rows')
  PROVE  RowsOK(rows') /\ Evolves(rows, rows')
BY AdvancesRowsOK DEF Advances

\* No visit pending.
LEMMA EmptyWalk ==
  ASSUME NEW rs
  PROVE  <<>> \in Seq(Token) /\ TodoOK(<<>>, rs)
BY DEF TodoOK

\* The loop counter is an integer, and merging it keeps the variables typed.
LEMMA LoopType ==
  ASSUME TypeOK, NEW t \in 1..Len(rows)
  PROVE  Loop(t) \in Int /\ (MergeLoop(t) => loops' \in [Node -> Int])
<1>1. rows[t] \in Row
  BY DEF TypeOK
<1>2. rows[t].node \in Node /\ rows[t].loop \in Int
  BY <1>1 DEF Row
<1>3. Loop(t) \in Int
  BY <1>2 DEF Loop, TypeOK
<1> HIDE DEF Loop
<1>. QED
  BY <1>2, <1>3 DEF MergeLoop, TypeOK

\* Appending after other changes.
LEMMA MoreAdvances ==
  ASSUME NEW a \in Seq(Row), NEW b \in Seq(Row), Advances(a, b), NEW r, Heir(b, r)
  PROVE  Advances(a, Append(b, r))
<1>1. Advances(b, Append(b, r))
  BY AppendAdvances
<1>. QED
  BY <1>1, AdvancesTrans

-----------------------------------------------------------------------------
(* The requests.                                                           *)

\* One lemma for each request: it keeps the invariant and what others can read.
LEMMA StartKeeps ==
  ASSUME IInv, Start
  PROVE  IInv' /\ Evolves(Visible, Visible')
<1>1. PICK n \in StartNodes : Walk(Visits(Succ[n], 0), "agree")
  BY DEF Start
<1>2. Succ[n] \in Seq(Node) /\ Sound(rows, 0) /\ rows \in Seq(Row) /\ 0 <= Len(rows)
  BY FlowAssumption DEF StartNodes, Sound, IInv, RowsOK
<1>3. Visits(Succ[n], 0) \in Seq(Token) /\ TodoOK(Visits(Succ[n], 0), rows)
  BY <1>2, VisitsTodoOK
<1>4. /\ inst' \in InstanceStates /\ loops' \in [Node -> Int] /\ rows' = rows
      /\ "agree" \in SubmitTypes
  BY DEF Start, InstanceStates, IInv, TypeOK, SubmitTypes
<1>5. RowsOK(rows) /\ Evolves(rows, rows)
  BY DEF IInv, RowsOK, Evolves, Same
<1>6. todo = <<>>
  BY DEF Start
<1>. QED
  BY <1>1, <1>3, <1>4, <1>5, <1>6, RequestKeeps

\* A withdrawal closes every open row.
LEMMA WithdrawKeeps ==
  ASSUME IInv, Withdraw
  PROVE  IInv' /\ Evolves(Visible, Visible')
<1>1. todo = <<>> /\ rows \in Seq(Row) /\ RowsOK(rows)
  BY DEF Withdraw, Serving, IInv, RowsOK
<1>2. rows' = Close(rows, DoingIds(rows), "withdrawn") /\ "withdrawn" \in TaskStates
  BY DEF Withdraw, TaskStates
<1>3. Advances(rows, rows')
  BY <1>1, <1>2, CloseAdvances
<1>4. RowsOK(rows') /\ Evolves(rows, rows')
  BY <1>1, <1>3, AdvancesEvolves
<1>5. Walk(<<>>, "agree") /\ "agree" \in SubmitTypes
  BY DEF Withdraw, Answer, SubmitTypes
<1>6. inst' \in InstanceStates /\ loops' \in [Node -> Int]
  BY DEF Withdraw, InstanceStates, IInv, TypeOK
<1>. QED
  BY <1>1, <1>4, <1>5, <1>6, EmptyWalk, RequestKeeps

\* What the requests on an open row t start from.
LEMMA OpenRow ==
  ASSUME IInv, NEW t \in DOMAIN rows, rows[t].state = "doing"
  PROVE  LET done == Complete(rows, t)
         IN /\ t \in 1..Len(rows) /\ t \in Nat /\ rows \in Seq(Row) /\ RowsOK(rows)
            /\ rows[t] \in Row /\ rows[t].node \in Node
            /\ Advances(rows, done) /\ RowsOK(done) /\ done \in Seq(Row)
            /\ Len(done) = Len(rows) /\ t <= Len(done) /\ Sound(done, t)
            /\ \A i \in 1..Len(rows) : rows[i].state = "done" => done[i].state = "done"
            /\ Loop(t) \in Int /\ (MergeLoop(t) => loops' \in [Node -> Int])
            /\ Succ[rows[t].node] \in Seq(Node)
<1>1. t \in 1..Len(rows) /\ rows \in Seq(Row) /\ RowsOK(rows) /\ TypeOK
  BY DEF IInv, RowsOK
<1>2. rows[t] \in Row
  BY <1>1
<1>3. rows[t].node \in Node
  BY <1>2 DEF Row
<1>4. Succ[rows[t].node] \in Seq(Node)
  BY <1>3, FlowAssumption
<1>. QED
  BY <1>1, <1>2, <1>3, <1>4, Completed, LoopType

\* An execution follows the edges, adds the next member or waits.
LEMMA ExecuteKeeps ==
  ASSUME IInv, NEW t \in DOMAIN rows, NEW st \in Submits, ExecuteProcessTask(t, st)
  PROVE  IInv' /\ Evolves(Visible, Visible')
<1> DEFINE n == rows[t].node
           done == Complete(rows, t)
           passed == IF Countersign[n] = "none" THEN done
                     ELSE Close(done, DoingOn(done, n), "abandoned")
           next == [Fresh(n, t, {}) EXCEPT !.loop = Loop(t) + 1]
<1>1. /\ todo = <<>> /\ rows[t].state = "doing" /\ MergeLoop(t) /\ inst' = inst
      /\ st \in SubmitTypes /\ "agree" \in SubmitTypes
  BY EngineAssumption DEF ExecuteProcessTask, Serving, Open, SubmitTypes
<1>2. /\ t \in Nat /\ rows \in Seq(Row) /\ RowsOK(rows) /\ n \in Node
      /\ Advances(rows, done) /\ done \in Seq(Row)
      /\ Len(done) = Len(rows) /\ t <= Len(done) /\ Sound(done, t)
      /\ Loop(t) \in Int /\ loops' \in [Node -> Int] /\ Succ[n] \in Seq(Node)
  BY <1>1, OpenRow
<1>3. inst' \in InstanceStates
  BY <1>1 DEF IInv, TypeOK
<1>4. \/ rows' = passed /\ Walk(Visits(Succ[n], t), st)
      \/ rows' = Append(done, next) /\ Answer
      \/ rows' = done /\ Answer
  BY DEF ExecuteProcessTask
<1>5. Answer => Walk(<<>>, "agree")
  BY DEF Answer
<1> HIDE DEF done, n
<1>6. CASE rows' = passed /\ Walk(Visits(Succ[n], t), st)
  <2>1. Advances(done, passed)
    <3>1. Advances(done, done)
      BY <1>2 DEF Advances, Evolves, Same
    <3>2. DoingOn(done, n) \subseteq DoingIds(done) /\ "abandoned" \in TaskStates
      BY DEF DoingOn, TaskStates
    <3>3. Advances(done, Close(done, DoingOn(done, n), "abandoned"))
      BY <1>2, <3>2, CloseAdvances
    <3>. QED
      BY <3>1, <3>3
  <2> HIDE DEF passed
  <2>2. Advances(rows, rows') /\ rows' \in Seq(Row)
    BY <1>2, <1>6, <2>1, AdvancesTrans DEF Advances
  <2>3. t <= Len(rows') /\ Sound(rows', t)
    BY <1>2, <1>6, <2>1, SoundAdvances
  <2>4. Visits(Succ[n], t) \in Seq(Token) /\ TodoOK(Visits(Succ[n], t), rows')
    BY <1>2, <2>2, <2>3, VisitsTodoOK
  <2>5. RowsOK(rows') /\ Evolves(rows, rows')
    BY <1>2, <2>2, AdvancesEvolves
  <2>. QED
    BY <1>1, <1>2, <1>3, <1>6, <2>4, <2>5, RequestKeeps
<1>7. CASE rows' = Append(done, next) /\ Answer
  <2>1. Heir(done, Fresh(n, t, {}))
    BY <1>2, FreshHeir
  <2>2. Heir(done, next)
    <3>1. Loop(t) + 1 \in Int
      BY <1>2
    <3>. QED
      BY <1>2, <2>1, <3>1, LoopHeir
  <2> HIDE DEF next
  <2>3. Advances(rows, rows')
    BY <1>2, <1>7, <2>2, MoreAdvances
  <2>4. RowsOK(rows') /\ Evolves(rows, rows')
    BY <1>2, <2>3, AdvancesEvolves
  <2>. QED
    BY <1>1, <1>2, <1>3, <1>5, <1>7, <2>4, EmptyWalk, RequestKeeps
<1>8. CASE rows' = done /\ Answer
  <2>1. RowsOK(rows') /\ Evolves(rows, rows')
    BY <1>2, <1>8, AdvancesEvolves
  <2>. QED
    BY <1>1, <1>2, <1>3, <1>5, <1>8, <2>1, EmptyWalk, RequestKeeps
<1>. QED
  BY <1>4, <1>6, <1>7, <1>8

\* The signers descend from the row just completed.
LEMMA AddSignKeeps ==
  ASSUME IInv, NEW t \in DOMAIN rows, NEW k \in 1..2, AddSign(t, k)
  PROVE  IInv' /\ Evolves(Visible, Visible')
<1> DEFINE n == rows[t].node
           done == Complete(rows, t)
           signer(i) == Fresh(n, t, BuildScopes(done, n, t, Len(rows) + i))
           more == [i \in 1..k |-> signer(i)]
<1>1. /\ todo = <<>> /\ rows[t].state = "doing" /\ MergeLoop(t) /\ inst' = inst
      /\ Walk(<<>>, "agree") /\ "agree" \in SubmitTypes
      /\ rows' = done \o more
  BY DEF AddSign, Serving, Open, Answer, SubmitTypes
<1>2. /\ t \in Nat /\ rows \in Seq(Row) /\ RowsOK(rows) /\ n \in Node
      /\ Advances(rows, done) /\ done \in Seq(Row)
      /\ Len(done) = Len(rows) /\ t <= Len(done) /\ Sound(done, t)
      /\ loops' \in [Node -> Int] /\ inst' \in InstanceStates
  BY <1>1, OpenRow DEF IInv, TypeOK
<1> HIDE DEF done, n
<1>3. \A i \in 1..k : signer(i) \in Row /\ Heir(done, signer(i))
  <2> SUFFICES ASSUME NEW i \in 1..k
               PROVE  signer(i) \in Row /\ Heir(done, signer(i))
    OBVIOUS
  <2>1. Len(rows) + i \in Nat
    BY <1>2
  <2>2. BuildScopes(done, n, t, Len(rows) + i) \in SUBSET Scope
    BY <1>2, <2>1, BuildScopesType
  <2>. QED
    BY <1>2, <2>2, FreshHeir, FreshType
<1> HIDE DEF signer
<1>4. more \in [1..k -> Row] /\ k \in Nat
  BY <1>3
<1>5. more \in Seq(Row) /\ \A i \in 1..Len(more) : Heir(done, more[i])
  BY <1>3, <1>4, FunctionIsSeq, LenProperties
<1> HIDE DEF more
<1>6. Advances(done, rows')
  BY <1>1, <1>2, <1>5, ConcatAdvances
<1>7. Advances(rows, rows')
  BY <1>2, <1>6, AdvancesTrans
<1>8. RowsOK(rows') /\ Evolves(rows, rows')
  BY <1>2, <1>7, AdvancesEvolves
<1>. QED
  BY <1>1, <1>2, <1>8, EmptyWalk, RequestKeeps

\* A rejection may clear an add-sign node.
LEMMA RejectKeeps ==
  ASSUME IInv, NEW t \in DOMAIN rows, ExecuteAndJumpToEnd(t)
  PROVE  IInv' /\ Evolves(Visible, Visible')
<1> DEFINE n == rows[t].node
           done == Complete(rows, t)
<1>1. /\ todo = <<>> /\ rows[t].state = "doing" /\ MergeLoop(t) /\ inst' \in InstanceStates
      /\ Walk(<<>>, "agree") /\ "agree" \in SubmitTypes
      /\ rows' = ClearAddSign(done, n)
  BY DEF ExecuteAndJumpToEnd, Serving, Open, Answer, SubmitTypes, InstanceStates
<1>2. /\ rows \in Seq(Row) /\ RowsOK(rows) /\ Advances(rows, done) /\ done \in Seq(Row)
      /\ loops' \in [Node -> Int]
  BY <1>1, OpenRow
<1> HIDE DEF done, n
<1>3. Advances(done, rows')
  BY <1>1, <1>2, ClearAddSignAdvances
<1>4. Advances(rows, rows')
  BY <1>2, <1>3, AdvancesTrans
<1>5. RowsOK(rows') /\ Evolves(rows, rows')
  BY <1>2, <1>4, AdvancesEvolves
<1>. QED
  BY <1>1, <1>2, <1>5, EmptyWalk, RequestKeeps

\* The parent of a completed row was never recalled.
LEMMA ParentSound ==
  ASSUME NEW rs, RowsOK(rs), NEW t \in 1..Len(rs), rs[t].state \in {"doing", "done"}
  PROVE  rs[t].parent \in Nat /\ rs[t].parent < t /\ Sound(rs, rs[t].parent)
<1>1. rs \in Seq(Row) /\ DOMAIN rs = 1..Len(rs) /\ rs[t] \in Row
  BY DEF RowsOK
<1>2. rs[t].parent \in Nat
  BY <1>1 DEF Row
<1>3. rs[t].parent < t /\ (rs[t].parent # 0 => rs[rs[t].parent].state = "done")
  BY <1>1 DEF RowsOK, Lineage
<1>4. rs[t].parent # 0 => rs[rs[t].parent].recalled = {}
  <2> SUFFICES ASSUME rs[t].parent # 0, rs[rs[t].parent].recalled # {}
               PROVE  FALSE
    OBVIOUS
  <2>1. rs[t].parent \in DOMAIN rs
    BY <1>1, <1>2, <1>3
  <2>. QED
    BY <1>1, <2>1 DEF RowsOK, Superseded
<1>. QED
  BY <1>2, <1>3, <1>4 DEF Sound

\* The revived row takes the lineage and the return context of its history row.
LEMMA RollbackKeeps ==
  ASSUME IInv, NEW t \in DOMAIN rows, RollbackToParent(t)
  PROVE  IInv' /\ Evolves(Visible, Visible')
<1> DEFINE p == rows[t].parent
           his == rows[p]
           done == Complete(rows, t)
           fresh == Fresh(his.node, his.parent, his.scopes)
           new == [fresh EXCEPT !.source = his.source, !.branch = his.branch]
<1>1. /\ todo = <<>> /\ rows[t].state = "doing" /\ MergeLoop(t) /\ inst' = inst
      /\ Walk(<<>>, "agree") /\ "agree" \in SubmitTypes /\ p # 0
      /\ rows' = Append(done, new)
  BY DEF RollbackToParent, Serving, Open, Answer, SubmitTypes
<1>2. /\ t \in 1..Len(rows) /\ rows \in Seq(Row) /\ RowsOK(rows)
      /\ Advances(rows, done) /\ done \in Seq(Row) /\ Len(done) = Len(rows)
      /\ \A i \in 1..Len(rows) : rows[i].state = "done" => done[i].state = "done"
      /\ loops' \in [Node -> Int] /\ inst' \in InstanceStates
  BY <1>1, OpenRow DEF IInv, TypeOK
<1>3. p \in Nat /\ p < t /\ his.state = "done"
  BY <1>1, <1>2, ParentSound DEF Sound
<1>4. p \in 1..Len(rows) /\ p \in DOMAIN rows
  BY <1>1, <1>2, <1>3
<1>5. his \in Row
  BY <1>2, <1>4
<1>6. his.parent \in Nat /\ his.parent < p /\ Sound(rows, his.parent)
  BY <1>2, <1>3, <1>4, ParentSound
<1>7. his.source < p /\ (his.source # 0 => rows[his.source].state = "done")
  BY <1>2, <1>4 DEF RowsOK, Lineage
<1>8. his.node \in Node /\ his.scopes \in SUBSET Scope /\ his.branch \in SUBSET Scope /\ his.source \in Nat
  BY <1>5 DEF Row
<1> HIDE DEF done
<1>9. his.parent <= Len(done) /\ Sound(done, his.parent)
  <2>1. his.parent <= Len(rows)
    BY <1>2, <1>4, <1>6
  <2>. QED
    BY <1>2, <1>6, <2>1, SoundAdvances
<1>10. his.source <= Len(done) /\ (his.source # 0 => done[his.source].state = "done")
  <2>1. his.source # 0 => his.source \in 1..Len(rows)
    BY <1>2, <1>4, <1>7, <1>8
  <2>. QED
    BY <1>2, <1>4, <1>7, <1>8, <2>1
<1>11. Heir(done, fresh)
  BY <1>2, <1>6, <1>8, <1>9, FreshHeir
<1>12. Heir(done, new)
  <2> HIDE DEF fresh
  <2>. QED
    BY <1>2, <1>8, <1>10, <1>11, ContextHeir
<1> HIDE DEF new
<1>13. Advances(rows, rows')
  BY <1>1, <1>2, <1>12, MoreAdvances
<1>14. RowsOK(rows') /\ Evolves(rows, rows')
  BY <1>2, <1>13, AdvancesEvolves
<1>. QED
  BY <1>1, <1>2, <1>14, EmptyWalk, RequestKeeps

\* A jump visits its target from the completed row.
LEMMA JumpKeeps ==
  ASSUME IInv, NEW t \in DOMAIN rows, NEW target \in JumpTargets, ExecuteAndJumpTask(t, target)
  PROVE  IInv' /\ Evolves(Visible, Visible')
<1> DEFINE tok == [node |-> target, parent |-> t]
<1>1. /\ todo = <<>> /\ rows[t].state = "doing" /\ MergeLoop(t) /\ inst' = inst
      /\ Walk(<<tok>>, "agree") /\ "agree" \in SubmitTypes
      /\ rows' = Complete(rows, t)
  BY DEF ExecuteAndJumpTask, Serving, Open, SubmitTypes
<1>2. /\ t \in Nat /\ rows \in Seq(Row) /\ RowsOK(rows) /\ Advances(rows, rows')
      /\ t <= Len(rows') /\ Sound(rows', t)
      /\ loops' \in [Node -> Int] /\ inst' \in InstanceStates
  BY <1>1, OpenRow DEF IInv, TypeOK
<1>3. tok \in Token /\ tok.parent = t
  BY <1>2, EngineAssumption DEF Token
<1> HIDE DEF tok
<1>4. <<tok>> \in Seq(Token) /\ TodoOK(<<tok>>, rows')
  BY <1>2, <1>3 DEF TodoOK
<1>5. RowsOK(rows') /\ Evolves(rows, rows')
  BY <1>2, AdvancesEvolves
<1>. QED
  BY <1>1, <1>2, <1>4, <1>5, RequestKeeps

\* The return parks the branch in an applicant row, is refused, or walks on.
LEMMA ReturnKeeps ==
  ASSUME IInv, NEW t \in DOMAIN rows, ExecuteAndJumpToFirstTaskNode(t)
  PROVE  IInv' /\ Evolves(Visible, Visible')
<1> DEFINE n == rows[t].node
           done == Complete(rows, t)
           cleared == ClearAddSign(done, n)
           first == FirstOf({"task"})[1]
           fresh == Fresh(first, t, {})
           parked == [fresh EXCEPT !.source = t, !.branch = rows[t].scopes]
           heads == FirstOf({"task", "custom"})
<1>1. /\ todo = <<>> /\ rows[t].state = "doing" /\ inst' = inst /\ "agree" \in SubmitTypes
      /\ \/ /\ Returnable(n) /\ rows' = Append(cleared, parked)
            /\ Walk(<<>>, "agree") /\ MergeLoop(t)
         \/ rows' = rows /\ loops' = loops /\ Walk(<<>>, "agree")
         \/ rows' = cleared /\ MergeLoop(t) /\ Walk(<<>>, "agree")
         \/ rows' = cleared /\ MergeLoop(t) /\ Walk(Visits(heads, t), "agree")
  BY DEF ExecuteAndJumpToFirstTaskNode, Serving, Open, Answer, SubmitTypes
<1>2. /\ t \in Nat /\ t # 0 /\ rows \in Seq(Row) /\ RowsOK(rows) /\ rows[t] \in Row
      /\ Advances(rows, done) /\ done \in Seq(Row)
      /\ Len(done) = Len(rows) /\ t <= Len(done) /\ Sound(done, t)
      /\ (MergeLoop(t) => loops' \in [Node -> Int])
      /\ inst' \in InstanceStates /\ loops \in [Node -> Int]
  BY <1>1, OpenRow DEF IInv, TypeOK
<1>3. rows[t].scopes \in SUBSET Scope
  BY <1>2 DEF Row
<1> HIDE DEF done, n
<1>4. Advances(done, cleared) /\ cleared \in Seq(Row) /\ t <= Len(cleared) /\ Sound(cleared, t)
  <2>1. Advances(done, cleared)
    BY <1>2, ClearAddSignAdvances
  <2>2. t <= Len(cleared) /\ Sound(cleared, t)
    BY <1>2, <2>1, SoundAdvances
  <2>. QED
    BY <2>1, <2>2 DEF Advances
<1> HIDE DEF cleared
<1>5. Advances(rows, cleared)
  BY <1>2, <1>4, AdvancesTrans
<1>6. CASE /\ Returnable(n) /\ rows' = Append(cleared, parked)
           /\ Walk(<<>>, "agree") /\ MergeLoop(t)
  <2>1. first \in Node
    <3>1. FirstOf({"task"}) \in Seq(Node) /\ FirstOf({"task"}) # <<>>
      BY <1>6, FirstOfType DEF Returnable
    <3>. QED
      BY <3>1
  <2> HIDE DEF first
  <2>2. Heir(cleared, fresh)
    BY <1>2, <1>4, <2>1, FreshHeir
  <2>3. Heir(cleared, parked)
    <3> HIDE DEF fresh
    <3>1. cleared[t].state = "done"
      BY <1>2, <1>4 DEF Sound
    <3>. QED
      BY <1>2, <1>3, <1>4, <2>2, <3>1, ContextHeir
  <2> HIDE DEF parked
  <2>4. Advances(rows, rows')
    BY <1>2, <1>4, <1>5, <1>6, <2>3, MoreAdvances
  <2>5. RowsOK(rows') /\ Evolves(rows, rows')
    BY <1>2, <2>4, AdvancesEvolves
  <2>. QED
    BY <1>1, <1>2, <1>6, <2>5, EmptyWalk, RequestKeeps
<1>7. CASE rows' = rows /\ loops' = loops /\ Walk(<<>>, "agree")
  <2>1. RowsOK(rows') /\ Evolves(rows, rows')
    BY <1>2, <1>7 DEF Evolves, Same
  <2>. QED
    BY <1>1, <1>2, <1>7, <2>1, EmptyWalk, RequestKeeps
<1>8. CASE rows' = cleared /\ MergeLoop(t) /\ Walk(<<>>, "agree")
  <2>1. RowsOK(rows') /\ Evolves(rows, rows')
    BY <1>2, <1>5, <1>8, AdvancesEvolves
  <2>. QED
    BY <1>1, <1>2, <1>8, <2>1, EmptyWalk, RequestKeeps
<1>9. CASE rows' = cleared /\ MergeLoop(t) /\ Walk(Visits(heads, t), "agree")
  <2>1. RowsOK(rows') /\ Evolves(rows, rows')
    BY <1>2, <1>5, <1>9, AdvancesEvolves
  <2>2. heads \in Seq(Node)
    BY FirstOfType
  <2> HIDE DEF heads
  <2>3. Visits(heads, t) \in Seq(Token) /\ TodoOK(Visits(heads, t), rows')
    BY <1>2, <1>4, <1>9, <2>2, VisitsTodoOK
  <2>. QED
    BY <1>1, <1>2, <1>9, <2>1, <2>3, RequestKeeps
<1>. QED
  BY <1>1, <1>6, <1>7, <1>8, <1>9

\* The reapply finds the source row, because lineage leads to a completed one.
LEMMA ReapplyKeeps ==
  ASSUME IInv, NEW t \in DOMAIN rows, ExecuteReapply(t)
  PROVE  IInv' /\ Evolves(Visible, Visible')
<1> DEFINE source == rows[t].source
           done == Complete(rows, t)
           n == rows[source].node
           new == Fresh(n, t, rows[t].branch)
<1>1. /\ todo = <<>> /\ rows[t].state = "doing" /\ source # 0 /\ MergeLoop(t)
      /\ inst' = inst /\ Walk(<<>>, "agree") /\ "agree" \in SubmitTypes
      /\ rows' = Append(done, new)
  BY DEF ExecuteReapply, Serving, Answer, SubmitTypes
<1>2. /\ t \in 1..Len(rows) /\ t \in Nat /\ rows \in Seq(Row) /\ RowsOK(rows) /\ rows[t] \in Row
      /\ Advances(rows, done) /\ done \in Seq(Row)
      /\ Len(done) = Len(rows) /\ t <= Len(done) /\ Sound(done, t)
      /\ loops' \in [Node -> Int] /\ inst' \in InstanceStates
  BY <1>1, OpenRow DEF IInv, TypeOK
<1>3. source \in Nat /\ rows[t].branch \in SUBSET Scope
  BY <1>2 DEF Row
<1>4. source < t
  BY <1>2 DEF RowsOK, Lineage
<1>5. source \in 1..Len(rows)
  BY <1>1, <1>2, <1>3, <1>4
<1>6. rows[source] \in Row
  BY <1>2, <1>5
<1>7. n \in Node
  BY <1>6 DEF Row
<1> HIDE DEF done, n
<1>8. Heir(done, new)
  BY <1>2, <1>3, <1>7, FreshHeir
<1> HIDE DEF new
<1>9. Advances(rows, rows')
  BY <1>1, <1>2, <1>8, MoreAdvances
<1>10. RowsOK(rows') /\ Evolves(rows, rows')
  BY <1>2, <1>9, AdvancesEvolves
<1>. QED
  BY <1>1, <1>2, <1>10, EmptyWalk, RequestKeeps

\* What a recall writes into the row it recalls.
LEMMA LedgerRow ==
  ASSUME NEW r \in Row, NEW k \in Nat
  PROVE  LET q == [r EXCEPT !.recalled = @ \cup {k}]
         IN q \in Row /\ Same(r, q) /\ q.state = r.state /\ q.recalled = r.recalled \cup {k}
BY DEF Row, Same

\* The ledger of t points to the new row k.
Marked(rs, t, k) == [rs EXCEPT ![t].recalled = @ \cup {k}]

\* The row a recall marks keeps the rows in order, as nothing that came out of it
\* is alive or completed.
LEMMA LedgerOK ==
  ASSUME NEW rs, RowsOK(rs), NEW t \in 1..Len(rs), rs[t].state = "done", NEW k \in Nat,
         \A i \in 1..Len(rs) : rs[i].parent = t => rs[i].state \notin {"doing", "done"}
  PROVE  LET mid == Marked(rs, t, k)
         IN RowsOK(mid) /\ Evolves(rs, mid) /\ Len(mid) = Len(rs)
<1> DEFINE q == [rs[t] EXCEPT !.recalled = @ \cup {k}]
           mid == Marked(rs, t, k)
<1>1. rs \in Seq(Row) /\ rs[t] \in Row /\ DOMAIN rs = 1..Len(rs) /\ Len(rs) \in Nat
  BY DEF RowsOK
<1>2. q \in Row /\ Same(rs[t], q) /\ q.state = rs[t].state /\ q.recalled = rs[t].recalled \cup {k}
  BY <1>1, LedgerRow
<1>3. mid = [rs EXCEPT ![t] = q]
  BY DEF Marked
<1>4. /\ mid \in Seq(Row) /\ Len(mid) = Len(rs)
      /\ \A i \in 1..Len(rs) : mid[i] = IF i = t THEN q ELSE rs[i]
  <2> HIDE DEF q, mid
  <2>. QED
    BY <1>1, <1>2, <1>3, ExceptSeq
<1> HIDE DEF q, mid
<1>5. \A i \in 1..Len(rs) :
        Same(rs[i], mid[i]) /\ mid[i].state = rs[i].state /\ rs[i].recalled \subseteq mid[i].recalled
  BY <1>2, <1>4 DEF Same
<1>6. \A i \in 1..Len(rs) :
        mid[i].parent = rs[i].parent /\ mid[i].source = rs[i].source /\ mid[i].state = rs[i].state
  BY <1>5 DEF Same
<1>7. Evolves(rs, mid)
  BY <1>1, <1>4, <1>5 DEF Evolves
<1>8. DOMAIN mid = 1..Len(rs)
  BY <1>4
<1>9. \A i \in 1..Len(rs) : rs[i].parent \in Nat /\ rs[i].source \in Nat
  <2> TAKE i \in 1..Len(rs)
  <2>1. rs[i] \in Row
    BY <1>1
  <2>. QED
    BY <2>1 DEF Row
<1>10. Lineage(mid)
  <2> SUFFICES ASSUME NEW i \in 1..Len(rs)
               PROVE  /\ mid[i].parent < i /\ mid[i].source < i
                      /\ mid[i].parent # 0 => mid[mid[i].parent].state = "done"
                      /\ mid[i].source # 0 => mid[mid[i].source].state = "done"
    BY <1>8 DEF Lineage
  <2>1. /\ rs[i].parent < i /\ rs[i].source < i
        /\ rs[i].parent # 0 => rs[rs[i].parent].state = "done"
        /\ rs[i].source # 0 => rs[rs[i].source].state = "done"
    BY <1>1 DEF RowsOK, Lineage
  <2>2. rs[i].parent # 0 => rs[i].parent \in 1..Len(rs)
    BY <1>1, <1>9, <2>1
  <2>3. rs[i].source # 0 => rs[i].source \in 1..Len(rs)
    BY <1>1, <1>9, <2>1
  <2>. QED
    BY <1>6, <2>1, <2>2, <2>3
<1>11. Superseded(mid)
  <2> SUFFICES ASSUME NEW u \in 1..Len(rs), mid[u].recalled # {},
                      NEW i \in 1..Len(rs), mid[i].parent = u
               PROVE  mid[i].state \notin {"doing", "done"}
    BY <1>8 DEF Superseded
  <2>1. CASE u = t
    BY <1>6, <2>1
  <2>2. CASE u # t
    <3>1. rs[u].recalled # {} /\ rs[i].parent = u
      BY <1>4, <1>6, <2>2
    <3>. QED
      BY <1>1, <1>6, <3>1 DEF RowsOK, Superseded
  <2>. QED
    BY <2>1, <2>2
<1>12. \A i \in 1..Len(rs) : mid[i].recalled # {} => mid[i].state = "done"
  BY <1>4, <1>6 DEF RowsOK
<1>13. RowsOK(mid)
  BY <1>4, <1>10, <1>11, <1>12 DEF RowsOK
<1>. QED
  BY <1>4, <1>7, <1>13 DEF mid

\* The recalled row is marked, its successors closed, its parent not recalled.
LEMMA RecallKeeps ==
  ASSUME IInv, NEW t \in DOMAIN rows, RecallTask(t)
  PROVE  IInv' /\ Evolves(Visible, Visible')
<1> DEFINE below == Descendants(rows, t)
           ids == below \cap DoingIds(rows)
           undone == Close(rows, ids, "abandoned")
           k == Len(rows) + 1
           mid == Marked(undone, t, k)
           new == Fresh(rows[t].node, rows[t].parent, {})
<1>1. /\ todo = <<>> /\ rows[t].state = "done" /\ inst' = inst /\ loops' = loops
      /\ Walk(<<>>, "agree") /\ "agree" \in SubmitTypes
      /\ \A d \in below : rows[d].state # "done"
      /\ rows' = Append(mid, new)
  BY DEF RecallTask, Serving, Answer, SubmitTypes, Marked
<1>2. /\ t \in 1..Len(rows) /\ rows \in Seq(Row) /\ RowsOK(rows) /\ rows[t] \in Row
      /\ inst' \in InstanceStates /\ loops' \in [Node -> Int] /\ k \in Nat
  BY <1>1 DEF IInv, TypeOK, RowsOK
<1> HIDE DEF k
<1>3. \A i \in 1..Len(rows) : rows[i].parent = t => i \in below
  BY <1>2 DEF Descendants
<1>4. ids \subseteq DoingIds(rows) /\ "abandoned" \in TaskStates
  BY DEF TaskStates
<1> HIDE DEF below
<1>5. /\ Advances(rows, undone) /\ Len(undone) = Len(rows)
      /\ \A i \in ids : undone[i].state = "abandoned"
      /\ \A i \in 1..Len(rows) \ ids : undone[i] = rows[i]
  <2> HIDE DEF ids
  <2>1. Advances(rows, undone) /\ Len(undone) = Len(rows)
    BY <1>2, <1>4, CloseAdvances
  <2>2. \A i \in ids : undone[i].state = "abandoned"
    BY <1>2, <1>4, CloseAdvances, ZenonT(30)
  <2>3. \A i \in 1..Len(rows) \ ids : undone[i] = rows[i]
    BY <1>2, <1>4, CloseAdvances
  <2>. QED
    BY <2>1, <2>2, <2>3
<1>6. \A i \in ids : rows[i].state = "doing"
  BY DEF DoingIds
<1>7. \A i \in 1..Len(rows) : i \in below /\ rows[i].state = "doing" => i \in ids
  BY <1>2 DEF DoingIds
<1> HIDE DEF ids, undone
<1>8. RowsOK(undone) /\ undone \in Seq(Row)
  BY <1>2, <1>5, AdvancesRowsOK DEF RowsOK
<1>9. undone[t].state = "done"
  BY <1>1, <1>2, <1>5, <1>6
<1>10. \A i \in 1..Len(undone) : undone[i].parent = t => undone[i].state \notin {"doing", "done"}
  <2> SUFFICES ASSUME NEW i \in 1..Len(rows), undone[i].parent = t
               PROVE  undone[i].state \notin {"doing", "done"}
    BY <1>5
  <2>1. rows[i].parent = t
    BY <1>5 DEF Advances, Evolves, Same
  <2>. QED
    BY <1>1, <1>3, <1>5, <1>7, <2>1
<1>11. RowsOK(mid) /\ Evolves(undone, mid) /\ Len(mid) = Len(rows)
  BY <1>2, <1>5, <1>8, <1>9, <1>10, LedgerOK
<1> HIDE DEF mid
<1>12. mid \in Seq(Row) /\ Evolves(rows, mid)
  BY <1>2, <1>5, <1>8, <1>11, EvolvesTrans DEF Advances, RowsOK
<1>13. rows[t].node \in Node /\ rows[t].parent \in Nat
  BY <1>2 DEF Row
<1>14. rows[t].parent < t /\ Sound(rows, rows[t].parent)
  BY <1>1, <1>2, ParentSound
<1>15. rows[t].parent <= Len(mid) /\ Sound(mid, rows[t].parent)
  <2>1. rows[t].parent <= Len(rows)
    BY <1>2, <1>13, <1>14
  <2>2. mid[t].state = "done" /\ mid[t].parent = rows[t].parent
    BY <1>1, <1>2, <1>12 DEF Evolves, Same
  <2>3. Sound(mid, mid[t].parent)
    BY <1>2, <1>11, <2>2, ParentSound
  <2>. QED
    BY <1>11, <2>1, <2>2, <2>3
<1>16. Heir(mid, new)
  BY <1>12, <1>13, <1>15, FreshHeir
<1> HIDE DEF new
<1>17. Advances(mid, rows')
  BY <1>1, <1>12, <1>16, AppendAdvances
<1>18. RowsOK(rows') /\ Evolves(mid, rows') /\ rows' \in Seq(Row)
  BY <1>11, <1>17, AdvancesRowsOK DEF Advances
<1>19. Evolves(rows, rows')
  BY <1>2, <1>12, <1>18, EvolvesTrans
<1>. QED
  BY <1>1, <1>2, <1>18, <1>19, EmptyWalk, RequestKeeps

-----------------------------------------------------------------------------
(* The walk.                                                               *)

\* What every step of the walk starts from.
LEMMA HeadFacts ==
  ASSUME IInv, todo # <<>>
  PROVE  /\ Here \in Node /\ By \in Nat /\ By <= Len(rows) /\ Sound(rows, By)
         /\ Tail(todo) \in Seq(Token) /\ TodoOK(Tail(todo), rows)
         /\ Succ[Here] \in Seq(Node)
         /\ rows \in Seq(Row) /\ RowsOK(rows)
         /\ inst \in InstanceStates /\ loops \in [Node -> Int]
<1>1. /\ todo \in Seq(Token) /\ rows \in Seq(Row) /\ RowsOK(rows) /\ TodoOK(todo, rows)
      /\ inst \in InstanceStates /\ loops \in [Node -> Int]
  BY DEF IInv, TypeOK, RowsOK
<1>2. Head(todo) = todo[1] /\ 1 \in 1..Len(todo) /\ Head(todo) \in Token
  BY <1>1
<1>3. Here \in Node /\ By \in Nat
  BY <1>2 DEF Token, Here, By
<1>4. By <= Len(rows) /\ Sound(rows, By)
  BY <1>1, <1>2 DEF TodoOK, By
<1>5. Tail(todo) \in Seq(Token) /\ Len(Tail(todo)) = Len(todo) - 1
      /\ \A i \in 1..Len(todo) - 1 : Tail(todo)[i] = todo[i + 1]
  BY <1>1
<1>6. TodoOK(Tail(todo), rows)
  <2> SUFFICES ASSUME NEW i \in 1..Len(Tail(todo))
               PROVE  Tail(todo)[i].parent <= Len(rows) /\ Sound(rows, Tail(todo)[i].parent)
    BY DEF TodoOK
  <2>1. i + 1 \in 1..Len(todo) /\ Tail(todo)[i] = todo[i + 1]
    BY <1>1, <1>5
  <2>. QED
    BY <1>1, <2>1 DEF TodoOK
<1>7. Succ[Here] \in Seq(Node)
  BY <1>3, FlowAssumption
<1>. QED
  BY <1>1, <1>3, <1>4, <1>5, <1>6, <1>7

\* A step that changes the rows as it may and goes on to successors of Here.
LEMMA DescendKeeps ==
  ASSUME IInv, todo # <<>>, inst' \in InstanceStates, loops' \in [Node -> Int],
         Advances(rows, rows'), NEW ns \in Seq(Node), Descend(ns)
  PROVE  IInv' /\ Evolves(Visible, Visible')
<1> DEFINE tail == Tail(todo)
<1>1. /\ By \in Nat /\ By <= Len(rows) /\ Sound(rows, By)
      /\ tail \in Seq(Token) /\ TodoOK(tail, rows) /\ rows \in Seq(Row) /\ RowsOK(rows)
  BY HeadFacts
<1>2. RowsOK(rows') /\ Evolves(rows, rows') /\ rows' \in Seq(Row)
  BY <1>1, AdvancesEvolves DEF Advances
<1>3. Continue(Visits(ns, By) \o tail)
  BY DEF Descend
<1> HIDE DEF tail
<1>4. By <= Len(rows') /\ Sound(rows', By)
  BY <1>1, SoundAdvances
<1>5. Visits(ns, By) \in Seq(Token) /\ TodoOK(Visits(ns, By), rows')
  BY <1>1, <1>2, <1>4, VisitsTodoOK
<1>6. TodoOK(tail, rows')
  BY <1>1, AdvancesTodoOK
<1>7. Visits(ns, By) \o tail \in Seq(Token) /\ TodoOK(Visits(ns, By) \o tail, rows')
  BY <1>1, <1>2, <1>5, <1>6, ConcatTodoOK
<1>. QED
  BY <1>2, <1>3, <1>7, StepKeeps

\* A step that changes the rows as it may and visits no successor.
LEMMA StopKeeps ==
  ASSUME IInv, todo # <<>>, inst' \in InstanceStates, loops' \in [Node -> Int],
         Advances(rows, rows'), Continue(Tail(todo))
  PROVE  IInv' /\ Evolves(Visible, Visible')
<1>1. Tail(todo) \in Seq(Token) /\ TodoOK(Tail(todo), rows) /\ rows \in Seq(Row) /\ RowsOK(rows)
  BY HeadFacts
<1>2. RowsOK(rows') /\ Evolves(rows, rows')
  BY <1>1, AdvancesEvolves
<1>3. TodoOK(Tail(todo), rows')
  BY <1>1, AdvancesTodoOK
<1>. QED
  BY <1>1, <1>2, <1>3, StepKeeps

\* A step that leaves the rows alone.
LEMMA Unmoved ==
  ASSUME IInv, todo # <<>>, rows' = rows
  PROVE  Advances(rows, rows')
<1>1. rows \in Seq(Row)
  BY DEF IInv, TypeOK
<1>. QED
  BY <1>1 DEF Advances, Evolves, Same

\* New rows descend from the row the visit came from.
LEMMA EnterTaskKeeps ==
  ASSUME IInv, EnterTask
  PROVE  IInv' /\ Evolves(Visible, Visible')
<1> DEFINE fresh(i) == Fresh(Here, By, Attached(rows, Here, By, Len(rows) + i))
           first == IF Countersign[Here] = "sequential" THEN 0 ELSE -1
           new(i) == [fresh(i) EXCEPT !.loop = first]
           more == [i \in 1..NewRows(Here) |-> new(i)]
<1>1. /\ todo # <<>> /\ Continue(Tail(todo)) /\ inst' = inst /\ loops' = loops
      /\ rows' = rows \o more
  BY DEF EnterTask, At
<1>2. /\ Here \in Node /\ By \in Nat /\ By <= Len(rows) /\ Sound(rows, By)
      /\ rows \in Seq(Row) /\ inst' \in InstanceStates /\ loops' \in [Node -> Int]
  BY <1>1, HeadFacts
<1>3. first \in Int
  OBVIOUS
<1>4. NewRows(Here) \in Nat
  BY <1>2, EngineAssumption DEF NewRows
<1> HIDE DEF first
<1>5. \A i \in 1..NewRows(Here) : new(i) \in Row /\ Heir(rows, new(i))
  <2> SUFFICES ASSUME NEW i \in 1..NewRows(Here)
               PROVE  new(i) \in Row /\ Heir(rows, new(i))
    OBVIOUS
  <2>1. Len(rows) + i \in Nat
    BY <1>2, <1>4
  <2>2. Attached(rows, Here, By, Len(rows) + i) \in SUBSET Scope
    BY <1>2, <2>1, AttachedType
  <2>3. Heir(rows, fresh(i))
    BY <1>2, <2>2, FreshHeir
  <2> HIDE DEF fresh
  <2>4. Heir(rows, new(i))
    BY <1>2, <1>3, <2>3, LoopHeir
  <2>. QED
    BY <2>4 DEF Heir
<1> HIDE DEF new
<1>6. more \in [1..NewRows(Here) -> Row]
  BY <1>5
<1>7. more \in Seq(Row) /\ \A i \in 1..Len(more) : Heir(rows, more[i])
  BY <1>4, <1>5, <1>6, FunctionIsSeq, LenProperties
<1> HIDE DEF more
<1>8. Advances(rows, rows')
  BY <1>1, <1>2, <1>7, ConcatAdvances
<1>. QED
  BY <1>1, <1>2, <1>8, StopKeeps

\* So does the finished row of a record node.
LEMMA EnterCustomKeeps ==
  ASSUME IInv, EnterCustom
  PROVE  IInv' /\ Evolves(Visible, Visible')
<1> DEFINE fresh == Fresh(Here, By, {})
           record == [fresh EXCEPT !.state = "done"]
<1>1. /\ todo # <<>> /\ Descend(Succ[Here]) /\ inst' = inst /\ loops' = loops
      /\ rows' = Append(rows, record)
  BY DEF EnterCustom, At
<1>2. /\ Here \in Node /\ By \in Nat /\ By <= Len(rows) /\ Sound(rows, By)
      /\ rows \in Seq(Row) /\ inst' \in InstanceStates /\ loops' \in [Node -> Int]
      /\ Succ[Here] \in Seq(Node)
  BY <1>1, HeadFacts
<1>3. Heir(rows, fresh)
  BY <1>2, FreshHeir
<1> HIDE DEF fresh
<1>4. Heir(rows, record)
  <2>1. fresh \in Row /\ "done" \in TaskStates
    BY <1>3 DEF Heir, TaskStates
  <2>2. record \in Row /\ Same(fresh, record) /\ record.recalled = fresh.recalled
    BY <2>1, RowState
  <2> HIDE DEF record
  <2>. QED
    BY <1>3, <2>2 DEF Heir, Same
<1> HIDE DEF record
<1>5. Advances(rows, rows')
  BY <1>1, <1>2, <1>4, AppendAdvances
<1>. QED
  BY <1>1, <1>2, <1>5, DescendKeeps

\* Fork, join and decision only choose which successors are visited.
LEMMA RoutingKeeps ==
  ASSUME IInv, EnterFork \/ EnterJoin \/ EnterDecision
  PROVE  IInv' /\ Evolves(Visible, Visible')
<1>1. todo # <<>> /\ inst' = inst /\ rows' = rows /\ loops' = loops
  BY DEF EnterFork, EnterJoin, EnterDecision, At
<1>2. Succ[Here] \in Seq(Node) /\ inst' \in InstanceStates /\ loops' \in [Node -> Int]
  BY <1>1, HeadFacts
<1>3. PICK ns \in Seq(Node) : Descend(ns)
  <2>1. CASE EnterFork
    BY <1>2, <2>1 DEF EnterFork
  <2>2. CASE EnterJoin
    <3>1. <<>> \in Seq(Node)
      OBVIOUS
    <3>. QED
      BY <1>2, <2>2, <3>1 DEF EnterJoin
  <2>3. CASE EnterDecision
    <3>1. PICK e \in DOMAIN Succ[Here] : Descend(<<Succ[Here][e]>>)
      BY <2>3 DEF EnterDecision
    <3>2. Succ[Here][e] \in Node
      BY <1>2
    <3>3. <<Succ[Here][e]>> \in Seq(Node)
      BY <3>2
    <3>. QED
      BY <3>1, <3>3
  <2>. QED
    BY <2>1, <2>2, <2>3
<1>4. Advances(rows, rows')
  BY <1>1, Unmoved
<1>. QED
  BY <1>1, <1>2, <1>3, <1>4, DescendKeeps

\* A failed request leaves the rows a rollback restores, or those it has written.
LEMMA DecisionFailsKeeps ==
  ASSUME IInv, DecisionFails
  PROVE  IInv' /\ Evolves(Visible, Visible')
<1>1. todo # <<>> /\ Continue(<<>>)
  BY DEF DecisionFails, At
<1>2. <<>> \in Seq(Token) /\ TodoOK(<<>>, rows')
  BY EmptyWalk
<1>3. CASE Transactional
  <2>1. /\ inst' = saved[1].inst /\ rows' = saved[1].rows /\ loops' = saved[1].loops
    BY <1>3 DEF DecisionFails
  <2>2. saved # <<>> /\ saved \in [{1} -> Snapshot]
    BY <1>1, <1>3 DEF IInv, TypeOK, Snapshot
  <2>3. saved[1] \in Snapshot
    BY <2>2
  <2>4. inst' \in InstanceStates /\ loops' \in [Node -> Int] /\ RowsOK(rows')
    BY <2>1, <2>2, <2>3 DEF IInv, Snapshot
  <2>. QED
    BY <1>1, <1>2, <2>1, <2>2, <2>4, StepKeeps
<1>4. CASE ~Transactional
  <2>1. inst' = inst /\ rows' = rows /\ loops' = loops
    BY <1>4 DEF DecisionFails
  <2>2. inst' \in InstanceStates /\ loops' \in [Node -> Int] /\ RowsOK(rows)
    BY <1>1, <2>1, HeadFacts
  <2>3. RowsOK(rows') /\ Evolves(rows, rows')
    BY <1>1, <2>1, <2>2, Unmoved DEF Advances
  <2>. QED
    BY <1>1, <1>2, <2>2, <2>3, StepKeeps
<1>. QED
  BY <1>3, <1>4

\* The ends of a walk.
LEMMA EnterEndKeeps ==
  ASSUME IInv, EnterEnd \/ EnterOther
  PROVE  IInv' /\ Evolves(Visible, Visible')
<1>1. todo # <<>> /\ rows' = rows /\ loops' = loops /\ Continue(Tail(todo))
  BY DEF EnterEnd, EnterOther, At
<1>2. inst' \in InstanceStates /\ loops' \in [Node -> Int]
  BY <1>1, HeadFacts DEF EnterEnd, EnterOther, InstanceStates
<1>3. Advances(rows, rows')
  BY <1>1, Unmoved
<1>. QED
  BY <1>1, <1>2, <1>3, StopKeeps

-----------------------------------------------------------------------------
(* The specification.                                                      *)

\* The initial state, and every step.
LEMMA InitKeeps ==
  ASSUME Init
  PROVE  IInv
<1>1. rows = <<>> /\ <<>> \in Seq(Row) /\ Len(<<>>) = 0 /\ DOMAIN <<>> = {}
  BY DEF Init
<1>2. RowsOK(rows)
  BY <1>1 DEF RowsOK, Lineage, Superseded
<1>3. TypeOK
  BY DEF Init, TypeOK, InstanceStates, SubmitTypes
<1>4. TodoOK(todo, rows)
  BY EmptyWalk DEF Init
<1>. QED
  BY <1>2, <1>3, <1>4 DEF IInv, Init

\* Every step keeps the invariant and lets what others can read evolve.
LEMMA NextKeeps ==
  ASSUME IInv, [Next]_vars
  PROVE  IInv' /\ Evolves(Visible, Visible')
<1>1. CASE Start
  BY <1>1, StartKeeps
<1>2. CASE Withdraw
  BY <1>2, WithdrawKeeps
<1>3. ASSUME NEW t \in DOMAIN rows, NEW st \in Submits, ExecuteProcessTask(t, st)
      PROVE  IInv' /\ Evolves(Visible, Visible')
  BY <1>3, ExecuteKeeps
<1>4. ASSUME NEW t \in DOMAIN rows, NEW k \in 1..2, AddSign(t, k)
      PROVE  IInv' /\ Evolves(Visible, Visible')
  BY <1>4, AddSignKeeps
<1>5. ASSUME NEW t \in DOMAIN rows, NEW target \in JumpTargets, ExecuteAndJumpTask(t, target)
      PROVE  IInv' /\ Evolves(Visible, Visible')
  BY <1>5, JumpKeeps
<1>6. ASSUME NEW t \in DOMAIN rows,
             \/ ExecuteAndJumpToEnd(t) \/ RollbackToParent(t)
             \/ ExecuteAndJumpToFirstTaskNode(t) \/ ExecuteReapply(t) \/ RecallTask(t)
      PROVE  IInv' /\ Evolves(Visible, Visible')
  BY <1>6, RejectKeeps, RollbackKeeps, ReturnKeeps, ReapplyKeeps, RecallKeeps
<1>7. CASE Step
  <2>1. CASE EnterTask
    BY <2>1, EnterTaskKeeps
  <2>2. CASE EnterCustom
    BY <2>2, EnterCustomKeeps
  <2>3. CASE EnterFork \/ EnterJoin \/ EnterDecision
    BY <2>3, RoutingKeeps
  <2>4. CASE DecisionFails
    BY <2>4, DecisionFailsKeeps
  <2>5. CASE EnterEnd \/ EnterOther
    BY <2>5, EnterEndKeeps
  <2>. QED
    BY <1>7, <2>1, <2>2, <2>3, <2>4, <2>5 DEF Step
<1>8. CASE UNCHANGED vars
  <2>1. UNCHANGED <<inst, rows, loops, todo, submit, saved>>
    BY <1>8 DEF vars
  <2>2. IInv'
    BY <2>1 DEF IInv, TypeOK, RowsOK, TodoOK, Lineage, Superseded, Sound
  <2>3. Visible' = Visible /\ Visible \in Seq(Row)
    BY <2>1 DEF Visible, IInv, RowsOK
  <2>. QED
    BY <2>2, <2>3 DEF Evolves, Same
<1>. QED
  BY <1>1, <1>2, <1>3, <1>4, <1>5, <1>6, <1>7, <1>8 DEF Next, Request

\* Rows that evolve keep what the history shows of every closed one.
LEMMA EvolvesKeeps ==
  ASSUME NEW old \in Seq(Row), NEW new \in Seq(Row), Evolves(old, new)
  PROVE  Keeps(old, new)
<1>1. ASSUME NEW i \in 1..Len(old), old[i].state # "doing"
      PROVE  new[i] = [old[i] EXCEPT !.recalled = new[i].recalled]
  <2>1. i \in 1..Len(new)
    BY DEF Evolves
  <2>2. old[i] \in Row /\ new[i] \in Row
    BY <2>1
  <2>3. Same(old[i], new[i]) /\ new[i].state = old[i].state
    BY <1>1 DEF Evolves
  <2>. QED
    BY <2>2, <2>3 DEF Same, Row
<1>. QED
  BY <1>1 DEF Evolves, Keeps

\* The invariant holds of every behaviour of the engine.
THEOREM Inductive == Spec => []IInv
<1>1. Init => IInv
  BY InitKeeps
<1>2. IInv /\ [Next]_vars => IInv'
  BY NextKeeps
<1>. QED
  BY <1>1, <1>2, PTL DEF Spec

\* Every row, every pending visit and everything a rollback restores has its type,
\* in particular parents, sources and rounds of any number of rows (jeeflow's task
\* and variable records).
THEOREM TypeCorrect == Spec => []TypeOK
<1>1. IInv => TypeOK
  BY DEF IInv
<1>. QED
  BY <1>1, Inductive, PTL

\* Lineage is never broken: the history row _rollback_to_parent revives and the
\* source row execute_reapply answers exist and are completed, for every flow and
\* any number of requests, failed ones included.
THEOREM LineageHolds == Spec => []LineageOK
<1>1. IInv => LineageOK
  BY DEF IInv, RowsOK, TodoOK, Sound, LineageOK
<1>. QED
  BY <1>1, Inductive, PTL

\* recall_task supersedes for good: nothing that came out of a recalled row is
\* alive or completed, whatever is requested afterwards.
THEOREM RecallSupersedes == Spec => []RecalledIsSuperseded
<1>1. IInv => RecalledIsSuperseded
  BY DEF IInv, RowsOK, RecalledIsSuperseded
<1>. QED
  BY <1>1, Inductive, PTL

\* No request rewrites history: a closed row stays as it was closed, but for the
\* recall ledger, which only grows.
THEOREM HistoryKept == Spec => HistoryImmutable
<1>1. IInv /\ IInv' /\ Evolves(Visible, Visible') => Keeps(Visible, Visible')
  <2> SUFFICES ASSUME IInv, IInv', Evolves(Visible, Visible')
               PROVE  Keeps(Visible, Visible')
    OBVIOUS
  <2>1. Visible \in Seq(Row) /\ Visible' \in Seq(Row)
    BY DEF Visible, IInv, RowsOK
  <2>. QED
    BY <2>1, EvolvesKeeps
<1>2. IInv /\ [Next]_vars => [Keeps(Visible, Visible')]_vars
  BY <1>1, NextKeeps
<1>. QED
  BY <1>2, Inductive, PTL DEF Spec, HistoryImmutable

-----------------------------------------------------------------------------
(* The end of a withdrawn instance.                                        *)

\* Nothing is left to do in a withdrawn instance, and no rollback leads into one.
QuietInv ==
  /\ inst = "withdrawn" => DoingIds(rows) = {} /\ todo = <<>>
  /\ saved # <<>> => saved[1].inst # "withdrawn"

\* A request on an open row, a start and a walk find an instance that is not withdrawn.
LEMMA QuietStep ==
  ASSUME IInv, QuietInv, Next
  PROVE  QuietInv' /\ inst # "withdrawn"
<1>1. rows \in Seq(Row) /\ DOMAIN rows = 1..Len(rows)
  BY DEF IInv, TypeOK
<1>2. ASSUME NEW t \in DOMAIN rows, rows[t].state = "doing"
      PROVE  inst # "withdrawn"
  BY <1>2 DEF QuietInv, DoingIds
<1>3. ASSUME NEW toks, NEW st, Walk(toks, st), inst # "withdrawn"
      PROVE  saved' # <<>> => saved'[1].inst # "withdrawn"
  <2>1. saved' = <<>> \/ saved' = <<[inst |-> inst, rows |-> rows, loops |-> loops]>>
    BY <1>3 DEF Walk
  <2>2. saved' # <<>> => saved'[1].inst = inst
    BY <2>1
  <2>. QED
    BY <1>3, <2>2
<1>4. CASE Start
  <2>1. PICK n \in StartNodes : Walk(Visits(Succ[n], 0), "agree")
    BY <1>4 DEF Start
  <2>2. inst = "none" /\ inst' = "doing"
    BY <1>4 DEF Start
  <2>. QED
    BY <1>3, <2>1, <2>2 DEF QuietInv
<1>5. CASE Withdraw
  <2>1. /\ inst = "doing" /\ rows' = Close(rows, DoingIds(rows), "withdrawn")
        /\ Walk(<<>>, "agree") /\ todo' = <<>>
    BY <1>5 DEF Withdraw, Answer, Walk
  <2>2. DoingIds(rows') = {}
    <3>1. PICK ids : ids = DoingIds(rows)
      OBVIOUS
    <3> DEFINE c == Close(rows, ids, "withdrawn")
    <3>2. ids \subseteq DoingIds(rows) /\ "withdrawn" \in TaskStates
      BY <3>1 DEF TaskStates
    <3>3. Advances(rows, c) /\ Len(c) = Len(rows)
      BY <1>1, <3>2, CloseAdvances
    <3>4. \A i \in ids : c[i].state = "withdrawn"
      BY <1>1, <3>2, CloseAdvances
    <3>5. \A i \in 1..Len(rows) \ ids : c[i] = rows[i]
      <4>1. rows \in Seq(Row)
        BY <1>1
      <4>. QED
        BY <3>2, <4>1, CloseAdvances
    <3> HIDE DEF c
    <3>6. \A i \in 1..Len(rows) : c[i].state # "doing"
      BY <1>1, <3>1, <3>4, <3>5 DEF DoingIds
    <3>7. c \in Seq(Row) /\ DOMAIN c = 1..Len(rows)
      BY <3>3 DEF Advances
    <3>. QED
      BY <2>1, <3>1, <3>6, <3>7 DEF DoingIds, c
  <2>. QED
    BY <1>3, <2>1, <2>2 DEF QuietInv
<1>6. ASSUME NEW t \in DOMAIN rows,
             \/ \E st \in Submits : ExecuteProcessTask(t, st)
             \/ \E k \in 1..2 : AddSign(t, k)
             \/ ExecuteAndJumpToEnd(t)
             \/ RollbackToParent(t)
             \/ \E target \in JumpTargets : ExecuteAndJumpTask(t, target)
             \/ ExecuteAndJumpToFirstTaskNode(t)
             \/ ExecuteReapply(t)
             \/ RecallTask(t)
      PROVE  QuietInv' /\ inst # "withdrawn"
  <2>1. /\ rows[t].state = "doing" \/ inst = "doing"
        /\ inst' = inst \/ inst' = "rejected"
        /\ \E toks, st : Walk(toks, st)
    BY <1>6 DEF ExecuteProcessTask, AddSign, ExecuteAndJumpToEnd, RollbackToParent, Open, Answer,
       ExecuteAndJumpTask, ExecuteAndJumpToFirstTaskNode, ExecuteReapply, RecallTask
  <2>2. inst # "withdrawn"
    BY <1>2, <2>1
  <2>. QED
    BY <1>3, <2>1, <2>2 DEF QuietInv
<1>7. CASE Step
  <2>1. todo # <<>> /\ inst # "withdrawn"
    BY <1>7 DEF Step, EnterTask, EnterCustom, EnterFork, EnterJoin, EnterDecision,
       DecisionFails, EnterEnd, EnterOther, At, QuietInv
  <2>2. \E toks : Continue(toks)
    BY <1>7 DEF Step, EnterTask, EnterCustom, EnterFork, EnterJoin, EnterDecision,
       DecisionFails, EnterEnd, EnterOther, Descend
  <2>3. saved' # <<>> => saved'[1].inst # "withdrawn"
    BY <2>2 DEF Continue, QuietInv
  <2>4. Transactional => saved # <<>>
    BY <2>1 DEF IInv, TypeOK
  <2>5. \/ inst' = inst \/ inst' \in {"rejected", "finished"}
        \/ Transactional /\ inst' = saved[1].inst
    BY <1>7 DEF Step, EnterTask, EnterCustom, EnterFork, EnterJoin, EnterDecision,
       DecisionFails, EnterEnd, EnterOther
  <2>6. inst' # "withdrawn"
    BY <2>1, <2>4, <2>5 DEF QuietInv
  <2>. QED
    BY <2>1, <2>3, <2>6 DEF QuietInv
<1>. QED
  BY <1>4, <1>5, <1>6, <1>7 DEF Next, Request

\* Withdrawing is for good: after facade's withdraw no request finds an open row, no
\* walk goes on and nothing is recalled, so neither the state nor a row ever changes.
THEOREM WithdrawnIsFinal == Spec => [][inst # "withdrawn"]_vars
<1>1. Init => QuietInv
  BY DEF Init, QuietInv
<1>2. IInv /\ QuietInv /\ [Next]_vars => QuietInv' /\ [inst # "withdrawn"]_vars
  <2>1. ASSUME IInv, QuietInv, UNCHANGED vars
        PROVE  QuietInv'
    BY <2>1 DEF vars, QuietInv
  <2>. QED
    BY <2>1, QuietStep
<1>. QED
  BY <1>1, <1>2, Inductive, PTL DEF Spec

-----------------------------------------------------------------------------
(***************************************************************************)
(* A branch root belongs to one round of one join: RoundsAgree, which lets *)
(* merge_ready count the branches of a round by their roots, for every     *)
(* flow whose joins close one fork each and any number of rows.            *)
(*                                                                         *)
(* The argument. Two rows can agree on a join and a root only because both *)
(* got the range from the row that opened it: every range a row stands in, *)
(* or parks for a return, is one of the ranges of the row it names as its  *)
(* root (Rooted), and that row has one range per join (Single). Rows never *)
(* change their ranges, and the seven places that make rows take them from *)
(* BuildScopes, copy them from a row, or have none.                        *)
(***************************************************************************)

\* Every range of S is one of the ranges of its root.
Rooted(rs, S) == \A s \in S : s.root \in 1..Len(rs) /\ s \in rs[s.root].scopes

\* At most one range for each join.
Single(S) == \A s, q \in S : s.join = q.join => s = q

Roots(rs) ==
  \A i \in 1..Len(rs) :
    /\ Rooted(rs, rs[i].scopes) /\ Single(rs[i].scopes)
    /\ Rooted(rs, rs[i].branch) /\ Single(rs[i].branch)

\* The inductive invariant: of the rows, and of those a rollback would restore.
BranchInv == Roots(rows) /\ (saved # <<>> => Roots(saved[1].rows))

-----------------------------------------------------------------------------
(* What the changes of the rows keep.                                      *)

\* A root stays one when rows evolve.
LEMMA EvolvesRooted ==
  ASSUME NEW a \in Seq(Row), NEW b \in Seq(Row), Evolves(a, b), NEW S, Rooted(a, S)
  PROVE  Rooted(b, S)
<1>1. Len(a) \in Nat /\ Len(b) \in Nat /\ Len(a) <= Len(b)
  BY DEF Evolves
<1>2. \A i \in 1..Len(a) : b[i].scopes = a[i].scopes
  BY DEF Evolves, Same
<1>. QED
  BY <1>1, <1>2 DEF Rooted

\* Completing, closing and marking rows.
LEMMA EvolvesRoots ==
  ASSUME NEW a \in Seq(Row), NEW b \in Seq(Row), Evolves(a, b), Len(a) = Len(b), Roots(a)
  PROVE  Roots(b)
<1> SUFFICES ASSUME NEW i \in 1..Len(a)
             PROVE  /\ Rooted(b, b[i].scopes) /\ Single(b[i].scopes)
                    /\ Rooted(b, b[i].branch) /\ Single(b[i].branch)
  BY DEF Roots
<1>1. b[i].scopes = a[i].scopes /\ b[i].branch = a[i].branch
  BY DEF Evolves, Same
<1>2. Rooted(a, a[i].scopes) /\ Rooted(a, a[i].branch) /\ Single(a[i].scopes) /\ Single(a[i].branch)
  BY DEF Roots
<1>3. Rooted(b, a[i].scopes) /\ Rooted(b, a[i].branch)
  BY <1>2, EvolvesRooted
<1>. QED
  BY <1>1, <1>2, <1>3

\* Appending rows, each with ranges of older roots or of its own.
LEMMA ConcatRoots ==
  ASSUME NEW rs \in Seq(Row), Roots(rs), NEW more \in Seq(Row),
         \A i \in 1..Len(more) :
           /\ Single(more[i].scopes) /\ Rooted(rs, more[i].branch) /\ Single(more[i].branch)
           /\ \A s \in more[i].scopes :
                s.root = Len(rs) + i \/ (s.root \in 1..Len(rs) /\ s \in rs[s.root].scopes)
  PROVE  Roots(rs \o more)
<1>1. PICK new : new = rs \o more
  OBVIOUS
<1>2. /\ new \in Seq(Row) /\ Len(new) = Len(rs) + Len(more)
      /\ \A i \in 1..Len(rs) + Len(more) :
           new[i] = IF i <= Len(rs) THEN rs[i] ELSE more[i - Len(rs)]
  BY <1>1, ConcatProperties
<1>3. Len(rs) \in Nat /\ Len(more) \in Nat
  OBVIOUS
<1>4. \A i \in 1..Len(rs) : i \in 1..Len(new) /\ new[i] = rs[i]
  BY <1>2, <1>3
<1>5. \A S : Rooted(rs, S) => Rooted(new, S)
  BY <1>4 DEF Rooted
<1>6. ASSUME NEW i \in 1..Len(new)
      PROVE  /\ Rooted(new, new[i].scopes) /\ Single(new[i].scopes)
             /\ Rooted(new, new[i].branch) /\ Single(new[i].branch)
  <2>1. CASE i <= Len(rs)
    <3>1. i \in 1..Len(rs) /\ new[i] = rs[i]
      BY <1>3, <1>4, <2>1
    <3>. QED
      BY <1>5, <3>1 DEF Roots
  <2>2. CASE i > Len(rs)
    <3>1. PICK k \in 1..Len(more) : k = i - Len(rs) /\ new[i] = more[k]
      BY <1>2, <1>3, <2>2
    <3>2. Single(new[i].scopes) /\ Rooted(new, new[i].branch) /\ Single(new[i].branch)
      BY <1>5, <3>1
    <3>3. \A s \in new[i].scopes :
            s.root = i \/ (s.root \in 1..Len(rs) /\ s \in rs[s.root].scopes)
      BY <1>2, <1>3, <3>1
    <3>4. Rooted(new, new[i].scopes)
      BY <1>4, <3>3 DEF Rooted
    <3>. QED
      BY <3>2, <3>4
  <2>. QED
    BY <1>2, <1>3, <2>1, <2>2
<1>. QED
  BY <1>1, <1>6 DEF Roots

\* Appending one row with ranges that are there already.
LEMMA AppendRoots ==
  ASSUME NEW rs \in Seq(Row), Roots(rs), NEW r \in Row,
         Rooted(rs, r.scopes), Single(r.scopes), Rooted(rs, r.branch), Single(r.branch)
  PROVE  Roots(Append(rs, r))
<1>1. Append(rs, r) = rs \o <<r>> /\ <<r>> \in Seq(Row)
  BY AppendIsConcat
<1>2. Len(<<r>>) = 1 /\ \A i \in 1..Len(<<r>>) : <<r>>[i] = r
  OBVIOUS
<1>3. \A s \in r.scopes : s.root \in 1..Len(rs) /\ s \in rs[s.root].scopes
  BY DEF Rooted
<1>. QED
  BY <1>1, <1>2, <1>3, ConcatRoots

\* What BuildScopes makes: one range per join, inherited or its own.
LEMMA BuildScopesFits ==
  ASSUME OneForkPerJoin, NEW rs \in Seq(Row), Roots(rs), NEW n, NEW p \in Nat, NEW self \in Nat
  PROVE  /\ Single(BuildScopes(rs, n, p, self))
         /\ \A s \in BuildScopes(rs, n, p, self) :
              s.root = self \/ (s.root \in 1..Len(rs) /\ s \in rs[s.root].scopes)
<1> DEFINE Alike(q, s) == q.fork = s.fork /\ q.join = s.join
           Opened(s) == [fork |-> s.fork, join |-> s.join, round |-> p, root |-> self]
<1>1. PICK held : held = {q \in ScopesOf(rs, p) : \E s \in StaticScopes(n) : Alike(q, s)}
  OBVIOUS
<1>2. PICK new : new = {s \in StaticScopes(n) : \A q \in held : ~Alike(q, s)}
  OBVIOUS
<1>3. PICK B : B = BuildScopes(rs, n, p, self) /\ B = held \cup {Opened(s) : s \in new}
  BY <1>1, <1>2 DEF BuildScopes
<1>4. Single(ScopesOf(rs, p)) /\ Rooted(rs, ScopesOf(rs, p))
  <2>1. CASE p \in DOMAIN rs
    BY <2>1 DEF ScopesOf, Roots
  <2>2. CASE p \notin DOMAIN rs
    BY <2>2 DEF ScopesOf, Single, Rooted
  <2>. QED
    BY <2>1, <2>2
<1>5. Single(held) /\ Rooted(rs, held)
  BY <1>1, <1>4 DEF Single, Rooted
<1>6. \A s, r \in StaticScopes(n) : s.join = r.join => s = r
  BY DEF OneForkPerJoin, StaticScopes
<1>7. \A s \in {Opened(r) : r \in new} :
        /\ s.root = self
        /\ \E r \in new : s = Opened(r) /\ s.join = r.join
  OBVIOUS
<1>8. \A s, q \in {Opened(r) : r \in new} : s.join = q.join => s = q
  BY <1>2, <1>6, <1>7
<1>9. \A q \in held, s \in {Opened(r) : r \in new} : q.join # s.join
  <2> SUFFICES ASSUME NEW q \in held, NEW r \in new, q.join = r.join
               PROVE  FALSE
    BY <1>7
  <2>1. PICK s \in StaticScopes(n) : Alike(q, s)
    BY <1>1
  <2>2. s = r
    BY <1>2, <1>6, <2>1
  <2>. QED
    BY <1>2, <2>1, <2>2
<1> HIDE DEF Opened, Alike
<1>10. Single(B)
  BY <1>3, <1>5, <1>8, <1>9 DEF Single
<1>11. \A s \in B : s.root = self \/ (s.root \in 1..Len(rs) /\ s \in rs[s.root].scopes)
  BY <1>3, <1>5, <1>7 DEF Rooted
<1>. QED
  BY <1>3, <1>10, <1>11

LEMMA AttachedFits ==
  ASSUME OneForkPerJoin, NEW rs \in Seq(Row), Roots(rs), NEW n, NEW p \in Nat, NEW self \in Nat
  PROVE  /\ Single(Attached(rs, n, p, self))
         /\ \A s \in Attached(rs, n, p, self) :
              s.root = self \/ (s.root \in 1..Len(rs) /\ s \in rs[s.root].scopes)
BY BuildScopesFits DEF Attached, Single

\* No range at all.
LEMMA NoRange ==
  ASSUME NEW rs
  PROVE  Rooted(rs, {}) /\ Single({})
BY DEF Rooted, Single

-----------------------------------------------------------------------------
(* What requests and the walk owe to the invariant besides the rows.       *)

LEMMA RequestRoots ==
  ASSUME BranchInv, Roots(rows'), NEW toks, NEW st, Walk(toks, st)
  PROVE  BranchInv'
<1>1. saved' = <<>> \/ saved' = <<[inst |-> inst, rows |-> rows, loops |-> loops]>>
  BY DEF Walk
<1>2. saved' # <<>> => saved'[1].rows = rows
  BY <1>1
<1>. QED
  BY <1>2 DEF BranchInv

LEMMA StepRoots ==
  ASSUME BranchInv, Roots(rows'), NEW toks, Continue(toks)
  PROVE  BranchInv'
<1>1. saved' = <<>> \/ saved' = saved
  BY DEF Continue
<1>. QED
  BY <1>1 DEF BranchInv

\* The row a request completes.
LEMMA CompletedRoots ==
  ASSUME IInv, BranchInv, NEW t \in DOMAIN rows, rows[t].state = "doing"
  PROVE  /\ t \in 1..Len(rows) /\ rows[t] \in Row /\ rows \in Seq(Row)
         /\ Evolves(rows, Complete(rows, t)) /\ Complete(rows, t) \in Seq(Row)
         /\ Len(Complete(rows, t)) = Len(rows) /\ Roots(Complete(rows, t))
<1>1. PICK done : done = Complete(rows, t)
  OBVIOUS
<1>2. /\ t \in 1..Len(rows) /\ rows \in Seq(Row) /\ rows[t] \in Row /\ done \in Seq(Row)
      /\ Len(done) = Len(rows) /\ Advances(rows, done)
  BY <1>1, OpenRow
<1>3. Evolves(rows, done)
  BY <1>2 DEF Advances
<1>4. Roots(done)
  BY <1>2, <1>3, EvolvesRoots DEF BranchInv
<1>. QED
  BY <1>1, <1>2, <1>3, <1>4

\* Closing open rows.
LEMMA ClosedRoots ==
  ASSUME NEW rs \in Seq(Row), Roots(rs), NEW ids, ids \subseteq DoingIds(rs), NEW s \in TaskStates
  PROVE  /\ Close(rs, ids, s) \in Seq(Row) /\ Roots(Close(rs, ids, s))
         /\ Evolves(rs, Close(rs, ids, s)) /\ Len(Close(rs, ids, s)) = Len(rs)
<1>1. PICK c : c = Close(rs, ids, s)
  OBVIOUS
<1>2. Advances(rs, c) /\ Len(c) = Len(rs)
  BY <1>1, CloseAdvances
<1>3. c \in Seq(Row) /\ Evolves(rs, c)
  BY <1>2 DEF Advances
<1>4. Roots(c)
  BY <1>2, <1>3, EvolvesRoots
<1>. QED
  BY <1>1, <1>2, <1>3, <1>4

\* Clearing an add-sign node.
LEMMA ClearedRoots ==
  ASSUME NEW rs \in Seq(Row), Roots(rs), NEW n
  PROVE  /\ ClearAddSign(rs, n) \in Seq(Row) /\ Roots(ClearAddSign(rs, n))
         /\ Evolves(rs, ClearAddSign(rs, n)) /\ Len(ClearAddSign(rs, n)) = Len(rs)
<1>1. PICK c : c = ClearAddSign(rs, n)
  OBVIOUS
<1>2. Advances(rs, c) /\ Len(c) = Len(rs)
  BY <1>1, ClearAddSignAdvances
<1>3. c \in Seq(Row) /\ Evolves(rs, c)
  BY <1>2 DEF Advances
<1>4. Roots(c)
  BY <1>2, <1>3, EvolvesRoots
<1>. QED
  BY <1>1, <1>2, <1>3, <1>4

\* A new row's ranges are those it is made with, and it is a row.
LEMMA FreshRanges ==
  ASSUME NEW n \in Node, NEW p \in Nat, NEW sc \in SUBSET Scope
  PROVE  Fresh(n, p, sc) \in Row /\ Fresh(n, p, sc).scopes = sc /\ Fresh(n, p, sc).branch = {}
BY FreshType DEF Fresh

-----------------------------------------------------------------------------
(* The requests.                                                           *)

LEMMA StartRoots ==
  ASSUME IInv, BranchInv, Start
  PROVE  BranchInv'
<1>1. Roots(rows')
  BY DEF BranchInv, Start
<1>2. PICK n \in StartNodes : Walk(Visits(Succ[n], 0), "agree")
  BY DEF Start
<1>. QED
  BY <1>1, <1>2, RequestRoots

LEMMA WithdrawRoots ==
  ASSUME IInv, BranchInv, Withdraw
  PROVE  BranchInv'
<1>1. rows \in Seq(Row) /\ Roots(rows) /\ "withdrawn" \in TaskStates /\ DoingIds(rows) \subseteq DoingIds(rows)
  BY DEF IInv, TypeOK, BranchInv, TaskStates
<1>2. rows' = Close(rows, DoingIds(rows), "withdrawn") /\ Walk(<<>>, "agree")
  BY DEF Withdraw, Answer
<1>3. Roots(rows')
  BY <1>1, <1>2, ClosedRoots
<1>. QED
  BY <1>2, <1>3, RequestRoots

LEMMA ExecuteRoots ==
  ASSUME IInv, BranchInv, NEW t \in DOMAIN rows, NEW st \in Submits, ExecuteProcessTask(t, st)
  PROVE  BranchInv'
<1>1. PICK done, n : done = Complete(rows, t) /\ n = rows[t].node
  OBVIOUS
<1>2. rows[t].state = "doing"
  BY DEF ExecuteProcessTask, Open
<1>3. /\ t \in 1..Len(rows) /\ rows[t] \in Row /\ done \in Seq(Row)
      /\ Len(done) = Len(rows) /\ Roots(done)
  BY <1>1, <1>2, CompletedRoots
<1>4. n \in Node /\ t \in Nat
  BY <1>1, <1>3 DEF Row
<1>5. \/ /\ rows' = IF Countersign[n] = "none" THEN done
                    ELSE Close(done, DoingOn(done, n), "abandoned")
         /\ Walk(Visits(Succ[n], t), st)
      \/ /\ rows' = Append(done, [Fresh(n, t, {}) EXCEPT !.loop = Loop(t) + 1])
         /\ Walk(<<>>, "agree")
      \/ rows' = done /\ Walk(<<>>, "agree")
  BY <1>1 DEF ExecuteProcessTask, Answer
<1>6. Roots(Close(done, DoingOn(done, n), "abandoned"))
  <2>1. DoingOn(done, n) \subseteq DoingIds(done) /\ "abandoned" \in TaskStates
    BY DEF DoingOn, TaskStates
  <2>. QED
    BY <1>3, <2>1, ClosedRoots
<1>7. Roots(Append(done, [Fresh(n, t, {}) EXCEPT !.loop = Loop(t) + 1]))
  <2>1. PICK f : f = Fresh(n, t, {}) /\ f \in Row /\ f.scopes = {} /\ f.branch = {}
    BY <1>4, FreshRanges
  <2>2. PICK k : k = Loop(t) + 1 /\ k \in Int
    BY LoopType DEF IInv
  <2>3. PICK r : r = [f EXCEPT !.loop = k]
    OBVIOUS
  <2>4. r \in Row /\ r.scopes = {} /\ r.branch = {}
    BY <2>1, <2>2, <2>3 DEF Row
  <2>5. Roots(Append(done, r))
    BY <1>3, <2>4, NoRange, AppendRoots
  <2>. QED
    BY <2>1, <2>2, <2>3, <2>5
<1>8. Roots(rows')
  BY <1>3, <1>5, <1>6, <1>7
<1>. QED
  BY <1>5, <1>8, RequestRoots

LEMMA AddSignRoots ==
  ASSUME OneForkPerJoin, IInv, BranchInv, NEW t \in DOMAIN rows, NEW k \in 1..2, AddSign(t, k)
  PROVE  BranchInv'
<1>1. PICK done, n : done = Complete(rows, t) /\ n = rows[t].node
  OBVIOUS
<1>2. rows[t].state = "doing" /\ Walk(<<>>, "agree")
  BY DEF AddSign, Open, Answer
<1>3. /\ t \in 1..Len(rows) /\ rows[t] \in Row /\ done \in Seq(Row)
      /\ Len(done) = Len(rows) /\ Roots(done)
  BY <1>1, <1>2, CompletedRoots
<1>4. n \in Node /\ t \in Nat /\ Len(rows) \in Nat
  BY <1>1, <1>3 DEF Row
<1>5. PICK more : /\ more = [i \in 1..k |-> Fresh(n, t, BuildScopes(done, n, t, Len(rows) + i))]
                  /\ rows' = done \o more
  BY <1>1 DEF AddSign
<1>6. ASSUME NEW i \in 1..k
      PROVE  /\ more[i] \in Row /\ Single(more[i].scopes)
             /\ Rooted(done, more[i].branch) /\ Single(more[i].branch)
             /\ \A s \in more[i].scopes :
                  s.root = Len(done) + i \/ (s.root \in 1..Len(done) /\ s \in done[s.root].scopes)
  <2>1. PICK B : B = BuildScopes(done, n, t, Len(rows) + i)
    OBVIOUS
  <2>2. B \in SUBSET Scope
    BY <1>3, <1>4, <2>1, BuildScopesType
  <2>3. /\ Single(B)
        /\ \A s \in B : s.root = Len(rows) + i \/ (s.root \in 1..Len(done) /\ s \in done[s.root].scopes)
    <3>1. Len(rows) + i \in Nat
      BY <1>4
    <3>. QED
      BY <1>3, <1>4, <2>1, <3>1, BuildScopesFits
  <2>4. more[i] = Fresh(n, t, B)
    BY <1>5, <2>1
  <2>5. more[i] \in Row /\ more[i].scopes = B /\ more[i].branch = {}
    BY <1>4, <2>2, <2>4, FreshRanges
  <2>. QED
    BY <1>3, <2>3, <2>5, NoRange
<1>7. more \in Seq(Row) /\ Len(more) = k
  <2>1. more \in [1..k -> Row]
    BY <1>5, <1>6
  <2>. QED
    BY <2>1, FunctionIsSeq
<1>8. Roots(rows')
  BY <1>3, <1>5, <1>6, <1>7, ConcatRoots
<1>. QED
  BY <1>2, <1>8, RequestRoots

LEMMA RejectRoots ==
  ASSUME IInv, BranchInv, NEW t \in DOMAIN rows, ExecuteAndJumpToEnd(t)
  PROVE  BranchInv'
<1>1. rows[t].state = "doing" /\ Walk(<<>>, "agree")
      /\ rows' = ClearAddSign(Complete(rows, t), rows[t].node)
  BY DEF ExecuteAndJumpToEnd, Open, Answer
<1>2. Complete(rows, t) \in Seq(Row) /\ Roots(Complete(rows, t))
  BY <1>1, CompletedRoots
<1>3. Roots(rows')
  BY <1>1, <1>2, ClearedRoots
<1>. QED
  BY <1>1, <1>3, RequestRoots

\* The revived row has the ranges and the parked branch of the row it revives.
LEMMA RollbackRoots ==
  ASSUME IInv, BranchInv, NEW t \in DOMAIN rows, RollbackToParent(t)
  PROVE  BranchInv'
<1>1. PICK his, done : his = rows[rows[t].parent] /\ done = Complete(rows, t)
  OBVIOUS
<1>2. /\ rows[t].state = "doing" /\ Walk(<<>>, "agree") /\ rows[t].parent # 0
      /\ rows' = Append(done, [Fresh(his.node, his.parent, his.scopes) EXCEPT
                                 !.source = his.source, !.branch = his.branch])
  BY <1>1 DEF RollbackToParent, Open, Answer
<1>3. /\ t \in 1..Len(rows) /\ rows[t] \in Row /\ rows \in Seq(Row) /\ done \in Seq(Row)
      /\ Evolves(rows, done) /\ Len(done) = Len(rows) /\ Roots(done)
  BY <1>1, <1>2, CompletedRoots
<1>4. rows[t].parent \in 1..Len(rows)
  <2>1. rows[t].parent < t
    BY DEF IInv, LineageOK, RowsOK, Lineage
  <2>2. rows[t].parent \in Nat
    BY <1>3 DEF Row
  <2>. QED
    BY <1>2, <1>3, <2>1, <2>2
<1>5. his \in Row
  BY <1>1, <1>3, <1>4
<1>6. /\ Rooted(rows, his.scopes) /\ Rooted(rows, his.branch)
      /\ Single(his.scopes) /\ Single(his.branch)
  BY <1>1, <1>4 DEF BranchInv, Roots
<1>7. Rooted(done, his.scopes) /\ Rooted(done, his.branch)
  BY <1>3, <1>6, EvolvesRooted
<1>8. PICK f : /\ f = Fresh(his.node, his.parent, his.scopes) /\ f \in Row
               /\ f.scopes = his.scopes
  BY <1>5, FreshRanges DEF Row
<1>9. PICK r : r = [f EXCEPT !.source = his.source, !.branch = his.branch]
  OBVIOUS
<1>10. r \in Row /\ r.scopes = his.scopes /\ r.branch = his.branch
  BY <1>5, <1>8, <1>9 DEF Row
<1>11. Roots(Append(done, r))
  BY <1>3, <1>6, <1>7, <1>10, AppendRoots
<1>. QED
  BY <1>2, <1>8, <1>9, <1>11, RequestRoots

LEMMA JumpRoots ==
  ASSUME IInv, BranchInv, NEW t \in DOMAIN rows, NEW target, ExecuteAndJumpTask(t, target)
  PROVE  BranchInv'
<1>1. /\ rows[t].state = "doing" /\ rows' = Complete(rows, t)
      /\ Walk(<<[node |-> target, parent |-> t]>>, "agree")
  BY DEF ExecuteAndJumpTask, Open
<1>2. Roots(rows')
  BY <1>1, CompletedRoots
<1>. QED
  BY <1>1, <1>2, RequestRoots

\* The applicant row parks the ranges of the returned row.
LEMMA ReturnRoots ==
  ASSUME IInv, BranchInv, NEW t \in DOMAIN rows, ExecuteAndJumpToFirstTaskNode(t)
  PROVE  BranchInv'
<1>1. PICK n, done, cleared, first :
        /\ n = rows[t].node /\ done = Complete(rows, t)
        /\ cleared = ClearAddSign(done, n) /\ first = FirstOf({"task"})[1]
  OBVIOUS
<1>2. /\ rows[t].state = "doing"
      /\ \E toks : Walk(toks, "agree")
      /\ \/ /\ Returnable(n)
            /\ rows' = Append(cleared, [Fresh(first, t, {}) EXCEPT !.source = t, !.branch = rows[t].scopes])
         \/ rows' = rows
         \/ rows' = cleared
  BY <1>1 DEF ExecuteAndJumpToFirstTaskNode, Open, Answer
<1>3. /\ t \in 1..Len(rows) /\ rows[t] \in Row /\ rows \in Seq(Row) /\ done \in Seq(Row)
      /\ Evolves(rows, done) /\ Len(done) = Len(rows) /\ Roots(done)
  BY <1>1, <1>2, CompletedRoots
<1>4. cleared \in Seq(Row) /\ Roots(cleared) /\ Evolves(done, cleared)
  BY <1>1, <1>3, ClearedRoots
<1>5. Rooted(cleared, rows[t].scopes) /\ Single(rows[t].scopes)
  <2>1. Rooted(rows, rows[t].scopes) /\ Single(rows[t].scopes)
    BY <1>3 DEF BranchInv, Roots
  <2>2. Rooted(done, rows[t].scopes)
    BY <1>3, <2>1, EvolvesRooted
  <2>. QED
    BY <1>3, <1>4, <2>1, <2>2, EvolvesRooted
<1>6. ASSUME Returnable(n)
      PROVE  Roots(Append(cleared, [Fresh(first, t, {}) EXCEPT !.source = t, !.branch = rows[t].scopes]))
  <2>1. first \in Node
    <3>1. FirstOf({"task"}) \in Seq(Node) /\ FirstOf({"task"}) # <<>>
      BY <1>6, FirstOfType DEF Returnable
    <3>. QED
      BY <1>1, <3>1
  <2>2. t \in Nat /\ rows[t].scopes \in SUBSET Scope
    <3>1. t \in Nat
      BY <1>3
    <3>2. rows[t].scopes \in SUBSET Scope
      BY <1>3 DEF Row
    <3>. QED
      BY <3>1, <3>2
  <2>3. PICK f : f = Fresh(first, t, {}) /\ f \in Row /\ f.scopes = {}
    BY <2>1, <2>2, FreshRanges
  <2>4. PICK sc : sc = rows[t].scopes
    OBVIOUS
  <2>5. PICK r : r = [f EXCEPT !.source = t, !.branch = sc]
    OBVIOUS
  <2>6. r \in Row /\ r.scopes = {} /\ r.branch = sc
    BY <2>2, <2>3, <2>4, <2>5 DEF Row
  <2>7. Roots(Append(cleared, r))
    BY <1>4, <1>5, <2>4, <2>6, NoRange, AppendRoots
  <2>. QED
    BY <2>3, <2>4, <2>5, <2>7
<1>7. Roots(rows')
  BY <1>2, <1>4, <1>6 DEF BranchInv
<1>. QED
  BY <1>2, <1>7, RequestRoots

\* The answer of a return stands in the branch the applicant row parked.
LEMMA ReapplyRoots ==
  ASSUME IInv, BranchInv, NEW t \in DOMAIN rows, ExecuteReapply(t)
  PROVE  BranchInv'
<1>1. PICK done, source : done = Complete(rows, t) /\ source = rows[t].source
  OBVIOUS
<1>2. /\ rows[t].state = "doing" /\ Walk(<<>>, "agree") /\ source # 0
      /\ rows' = Append(done, Fresh(rows[source].node, t, rows[t].branch))
  BY <1>1 DEF ExecuteReapply, Answer
<1>3. /\ t \in 1..Len(rows) /\ rows[t] \in Row /\ rows \in Seq(Row) /\ done \in Seq(Row)
      /\ Evolves(rows, done) /\ Len(done) = Len(rows) /\ Roots(done)
  BY <1>1, <1>2, CompletedRoots
<1>4. source \in 1..Len(rows)
  <2>1. source < t
    BY <1>1 DEF IInv, RowsOK, Lineage
  <2>2. source \in Nat
    BY <1>1, <1>3 DEF Row
  <2>. QED
    BY <1>2, <1>3, <2>1, <2>2
<1>5. rows[source].node \in Node /\ t \in Nat /\ rows[t].branch \in SUBSET Scope
  <2>1. rows[source] \in Row /\ t \in Nat
    BY <1>3, <1>4
  <2>2. rows[source].node \in Node
    BY <2>1 DEF Row
  <2>3. rows[t].branch \in SUBSET Scope
    BY <1>3 DEF Row
  <2>. QED
    BY <2>1, <2>2, <2>3
<1>6. Rooted(rows, rows[t].branch) /\ Single(rows[t].branch)
  BY <1>3 DEF BranchInv, Roots
<1>7. Rooted(done, rows[t].branch)
  BY <1>3, <1>6, EvolvesRooted
<1>8. PICK r : /\ r = Fresh(rows[source].node, t, rows[t].branch) /\ r \in Row
               /\ r.scopes = rows[t].branch /\ r.branch = {}
  BY <1>5, FreshRanges
<1>9. Roots(Append(done, r))
  BY <1>3, <1>6, <1>7, <1>8, NoRange, AppendRoots
<1>. QED
  BY <1>2, <1>8, <1>9, RequestRoots

\* The revived row has no ranges (section 5 of the README tells what follows).
LEMMA RecallRoots ==
  ASSUME IInv, BranchInv, NEW t \in DOMAIN rows, RecallTask(t)
  PROVE  BranchInv'
<1>1. PICK ids, undone, k, mid :
        /\ ids = Descendants(rows, t) \cap DoingIds(rows)
        /\ undone = Close(rows, ids, "abandoned") /\ k = Len(rows) + 1
        /\ mid = Marked(undone, t, k)
  OBVIOUS
<1>2. /\ Walk(<<>>, "agree")
      /\ rows' = Append(mid, Fresh(rows[t].node, rows[t].parent, {}))
  BY <1>1 DEF RecallTask, Answer, Marked
<1>3. /\ t \in 1..Len(rows) /\ rows \in Seq(Row) /\ rows[t] \in Row /\ k \in Nat
      /\ Roots(rows) /\ "abandoned" \in TaskStates /\ ids \subseteq DoingIds(rows)
  BY <1>1 DEF IInv, TypeOK, BranchInv, TaskStates
<1>4. undone \in Seq(Row) /\ Roots(undone) /\ Len(undone) = Len(rows)
  BY <1>1, <1>3, ClosedRoots
<1>5. mid \in Seq(Row) /\ Evolves(undone, mid) /\ Len(mid) = Len(undone)
  <2>1. undone[t] \in Row
    BY <1>3, <1>4
  <2>2. PICK q : q = [undone[t] EXCEPT !.recalled = @ \cup {k}]
    OBVIOUS
  <2>3. /\ q \in Row /\ Same(undone[t], q) /\ q.state = undone[t].state
        /\ undone[t].recalled \subseteq q.recalled
    BY <1>3, <2>1, <2>2, LedgerRow
  <2>4. mid = [undone EXCEPT ![t] = q]
    BY <1>1, <2>2 DEF Marked
  <2>5. /\ mid \in Seq(Row) /\ Len(mid) = Len(undone)
        /\ \A i \in 1..Len(undone) : mid[i] = IF i = t THEN q ELSE undone[i]
    BY <1>3, <1>4, <2>3, <2>4, ExceptSeq
  <2>6. \A i \in 1..Len(undone) :
          Same(undone[i], mid[i]) /\ mid[i].state = undone[i].state /\ undone[i].recalled \subseteq mid[i].recalled
    BY <2>3, <2>5 DEF Same
  <2>. QED
    BY <2>5, <2>6 DEF Evolves
<1>6. Roots(mid)
  BY <1>4, <1>5, EvolvesRoots
<1>7. rows[t].node \in Node /\ rows[t].parent \in Nat
  BY <1>3 DEF Row
<1>8. PICK r : /\ r = Fresh(rows[t].node, rows[t].parent, {}) /\ r \in Row
               /\ r.scopes = {} /\ r.branch = {}
  BY <1>7, FreshRanges
<1>9. Roots(Append(mid, r))
  BY <1>5, <1>6, <1>8, NoRange, AppendRoots
<1>. QED
  BY <1>2, <1>8, <1>9, RequestRoots

-----------------------------------------------------------------------------
(* The walk.                                                               *)

\* The rows of a visit stand in the ranges of the row it came from that the node
\* lies in too, and open the node's other ranges as their own roots.
LEMMA EnterTaskRoots ==
  ASSUME OneForkPerJoin, IInv, BranchInv, EnterTask
  PROVE  BranchInv'
<1>1. PICK m, first, more :
        /\ m = NewRows(Here) /\ first = IF Countersign[Here] = "sequential" THEN 0 ELSE -1
        /\ more = [i \in 1..m |-> [Fresh(Here, By, Attached(rows, Here, By, Len(rows) + i))
                                     EXCEPT !.loop = first]]
  OBVIOUS
<1>2. todo # <<>> /\ Continue(Tail(todo)) /\ rows' = rows \o more
  BY <1>1 DEF EnterTask, At
<1>3. Here \in Node /\ By \in Nat /\ rows \in Seq(Row) /\ Len(rows) \in Nat /\ Roots(rows)
  BY <1>2, HeadFacts DEF BranchInv
<1>4. m \in Nat /\ first \in Int
  BY <1>1, <1>3, EngineAssumption DEF NewRows
<1>5. ASSUME NEW i \in 1..m
      PROVE  /\ more[i] \in Row /\ Single(more[i].scopes)
             /\ Rooted(rows, more[i].branch) /\ Single(more[i].branch)
             /\ \A s \in more[i].scopes :
                  s.root = Len(rows) + i \/ (s.root \in 1..Len(rows) /\ s \in rows[s.root].scopes)
  <2>1. PICK B : B = Attached(rows, Here, By, Len(rows) + i)
    OBVIOUS
  <2>2. Len(rows) + i \in Nat
    BY <1>3, <1>4
  <2>3. B \in SUBSET Scope
    BY <1>3, <2>1, <2>2, AttachedType
  <2>4. /\ Single(B)
        /\ \A s \in B : s.root = Len(rows) + i \/ (s.root \in 1..Len(rows) /\ s \in rows[s.root].scopes)
    BY <1>3, <2>1, <2>2, AttachedFits
  <2>5. PICK f : f = Fresh(Here, By, B) /\ f \in Row /\ f.scopes = B /\ f.branch = {}
    BY <1>3, <2>3, FreshRanges
  <2>6. more[i] = [f EXCEPT !.loop = first]
    BY <1>1, <2>1, <2>5
  <2>7. more[i] \in Row /\ more[i].scopes = B /\ more[i].branch = {}
    BY <1>4, <2>5, <2>6 DEF Row
  <2>. QED
    BY <2>4, <2>7, NoRange
<1>6. more \in Seq(Row) /\ Len(more) = m
  <2>1. more \in [1..m -> Row]
    BY <1>1, <1>5
  <2>. QED
    BY <1>4, <2>1, FunctionIsSeq
<1>7. Roots(rows')
  BY <1>2, <1>3, <1>5, <1>6, ConcatRoots
<1>. QED
  BY <1>2, <1>7, StepRoots

LEMMA EnterCustomRoots ==
  ASSUME IInv, BranchInv, EnterCustom
  PROVE  BranchInv'
<1>1. /\ todo # <<>> /\ \E toks : Continue(toks)
      /\ rows' = Append(rows, [Fresh(Here, By, {}) EXCEPT !.state = "done"])
  BY DEF EnterCustom, At, Descend
<1>2. Here \in Node /\ By \in Nat /\ rows \in Seq(Row) /\ Roots(rows)
  BY <1>1, HeadFacts DEF BranchInv
<1>3. PICK f : f = Fresh(Here, By, {}) /\ f \in Row /\ f.scopes = {} /\ f.branch = {}
  BY <1>2, FreshRanges
<1>4. PICK r : r = [f EXCEPT !.state = "done"]
  OBVIOUS
<1>5. r \in Row /\ r.scopes = {} /\ r.branch = {}
  BY <1>3, <1>4 DEF Row, TaskStates
<1>6. Roots(Append(rows, r))
  BY <1>2, <1>5, NoRange, AppendRoots
<1>. QED
  BY <1>1, <1>3, <1>4, <1>6, StepRoots

\* The other visits leave the rows alone, or restore those of before the request.
LEMMA OtherRoots ==
  ASSUME IInv, BranchInv,
         EnterFork \/ EnterJoin \/ EnterDecision \/ DecisionFails \/ EnterEnd \/ EnterOther
  PROVE  BranchInv'
<1>1. todo # <<>> /\ \E toks : Continue(toks)
  BY DEF EnterFork, EnterJoin, EnterDecision, DecisionFails, EnterEnd, EnterOther, At, Descend
<1>2. rows' = rows \/ (Transactional /\ rows' = saved[1].rows)
  BY DEF EnterFork, EnterJoin, EnterDecision, DecisionFails, EnterEnd, EnterOther
<1>3. Transactional => saved # <<>>
  BY <1>1 DEF IInv, TypeOK
<1>4. Roots(rows')
  BY <1>2, <1>3 DEF BranchInv
<1>. QED
  BY <1>1, <1>4, StepRoots

-----------------------------------------------------------------------------
(* The specification.                                                      *)

LEMMA NextRoots ==
  ASSUME OneForkPerJoin, IInv, BranchInv, [Next]_vars
  PROVE  BranchInv'
<1>1. CASE Start
  BY <1>1, StartRoots
<1>2. CASE Withdraw
  BY <1>2, WithdrawRoots
<1>3. ASSUME NEW t \in DOMAIN rows, NEW st \in Submits, ExecuteProcessTask(t, st)
      PROVE  BranchInv'
  BY <1>3, ExecuteRoots
<1>4. ASSUME NEW t \in DOMAIN rows, NEW k \in 1..2, AddSign(t, k)
      PROVE  BranchInv'
  BY <1>4, AddSignRoots
<1>5. ASSUME NEW t \in DOMAIN rows, NEW target \in JumpTargets, ExecuteAndJumpTask(t, target)
      PROVE  BranchInv'
  BY <1>5, JumpRoots
<1>6. ASSUME NEW t \in DOMAIN rows,
             \/ ExecuteAndJumpToEnd(t) \/ RollbackToParent(t)
             \/ ExecuteAndJumpToFirstTaskNode(t) \/ ExecuteReapply(t) \/ RecallTask(t)
      PROVE  BranchInv'
  BY <1>6, RejectRoots, RollbackRoots, ReturnRoots, ReapplyRoots, RecallRoots
<1>7. CASE Step
  BY <1>7, EnterTaskRoots, EnterCustomRoots, OtherRoots DEF Step
<1>8. CASE UNCHANGED vars
  BY <1>8 DEF vars, BranchInv
<1>. QED
  BY <1>1, <1>2, <1>3, <1>4, <1>5, <1>6, <1>7, <1>8 DEF Next, Request

\* However rows were created, returned, revived, recalled or restored, and for any
\* number of them: two rows that work for the same root of the same join are in
\* the same round of the same range (_branchCtx, read by merge_ready).
THEOREM RoundsAlwaysAgree ==
  ASSUME OneForkPerJoin
  PROVE  Spec => []RoundsAgree
<1>1. Init => BranchInv
  BY DEF Init, BranchInv, Roots
<1>2. IInv /\ BranchInv /\ [Next]_vars => BranchInv'
  BY NextRoots
<1>3. IInv /\ BranchInv => RoundsAgree
  <2> SUFFICES ASSUME IInv, BranchInv, NEW i \in DOMAIN rows, NEW k \in DOMAIN rows,
                      NEW s \in Claims(rows[i]), NEW q \in Claims(rows[k]),
                      s.join = q.join, s.root = q.root
               PROVE  s = q
    BY DEF RoundsAgree
  <2>1. DOMAIN rows = 1..Len(rows)
    BY DEF IInv, TypeOK
  <2>2. /\ s.root \in 1..Len(rows) /\ s \in rows[s.root].scopes
        /\ q.root \in 1..Len(rows) /\ q \in rows[q.root].scopes
    BY <2>1 DEF BranchInv, Roots, Rooted, Claims
  <2>. QED
    BY <2>2 DEF BranchInv, Roots, Single
<1>. QED
  BY <1>1, <1>2, <1>3, Inductive, PTL DEF Spec

-----------------------------------------------------------------------------
(* The searches of the static analysis, whose rounds are as many as there   *)
(* are nodes, are closed under the edges: after that many rounds nothing is *)
(* left to visit.                                                           *)

\* Induction, for a set.
LEMMA InductiveSet ==
  ASSUME NEW S, 0 \in S, \A n \in Nat : n \in S => n + 1 \in S
  PROVE  \A n \in Nat : n \in S
<1>. DEFINE X == {n \in Nat : n \notin S}
<1>1. SUFFICES ASSUME X # {} PROVE FALSE
  OBVIOUS
<1>2. PICK R : R = OpToRel(<, Nat)
  OBVIOUS
<1>3. IsWellFoundedOn(R, Nat)
  BY <1>2, NatLessThanWellFounded
<1>4. PICK m \in X : \A y \in X : ~(<<y, m>> \in R)
  <2>1. X \subseteq Nat
    OBVIOUS
  <2>. HIDE DEF X
  <2>. QED
    BY <1>1, <1>3, <2>1, WFMin
<1>5. \A x, y \in Nat : x < y => <<x, y>> \in R
  BY <1>2 DEF OpToRel
<1>6. m # 0 /\ m \in Nat /\ m \notin S
  BY <1>4
<1>7. m - 1 \in Nat /\ m - 1 < m /\ (m - 1) + 1 = m
  BY <1>6
<1>8. m - 1 \notin S
  BY <1>6, <1>7
<1>9. m - 1 \in X /\ <<m - 1, m>> \in R
  BY <1>5, <1>6, <1>7, <1>8
<1>. QED
  BY <1>4, <1>9

\* One more round of a search, and a search of n rounds.
Round1(seen, cut) == seen \cup ((UNION {Targets(m) : m \in seen}) \ {cut})
Search(V, n, from, cut) == V = [k \in 0..n |-> IF k = 0 THEN from ELSE Round1(V[k-1], cut)]

LEMMA RoundMembers ==
  ASSUME NEW seen, NEW cut, NEW x
  PROVE  x \in Round1(seen, cut) <=> x \in seen \/ (x # cut /\ \E m \in seen : x \in Targets(m))
<1>1. x \in UNION {Targets(m) : m \in seen} <=> \E m \in seen : x \in Targets(m)
  OBVIOUS
<1>. QED
  BY <1>1, Zenon DEF Round1

LEMMA SearchExists ==
  ASSUME NEW from, NEW cut
  PROVE  \A n \in Nat : \E V : Search(V, n, from, cut)
<1>. DEFINE S == {n \in Nat : \E V : Search(V, n, from, cut)}
<1>1. Search([k \in 0..0 |-> from], 0, from, cut)
  BY DEF Search
<1>2. 0 \in S
  BY <1>1
<1>3. ASSUME NEW n \in Nat, n \in S
      PROVE  n + 1 \in S
  <2>1. PICK V : Search(V, n, from, cut)
    BY <1>3
  <2>2. PICK W : W = [k \in 0..n+1 |-> IF k <= n THEN V[k] ELSE Round1(V[n], cut)]
    OBVIOUS
  <2>3. \A k \in 0..n+1 : W[k] = IF k = 0 THEN from ELSE Round1(W[k-1], cut)
    BY <2>1, <2>2 DEF Search
  <2>4. Search(W, n + 1, from, cut)
    BY <2>2, <2>3 DEF Search
  <2>. QED
    BY <2>4
<1>4. \A n \in Nat : n \in S
  <2>. HIDE DEF S
  <2>. QED
    BY <1>2, <1>3, InductiveSet
<1>. QED
  BY <1>4

LEMMA AheadSearch ==
  ASSUME NEW f, NEW cut
  PROVE  \E V : /\ Search(V, Cardinality(Node), Targets(f) \ {cut}, cut)
                /\ Ahead(f, cut) = V[Cardinality(Node)]
<1>1. Cardinality(Node) \in Nat
  BY FS_CardinalityType, FlowAssumption
<1>2. PICK V : V = CHOOSE W : Search(W, Cardinality(Node), Targets(f) \ {cut}, cut)
  OBVIOUS
<1>3. Search(V, Cardinality(Node), Targets(f) \ {cut}, cut)
  BY <1>1, <1>2, SearchExists
<1>4. Ahead(f, cut) = V[Cardinality(Node)]
  BY <1>2 DEF Ahead, Search, Round1
<1>. QED
  BY <1>3, <1>4

LEMMA TargetsType ==
  ASSUME NEW n \in Node
  PROVE  Targets(n) \subseteq Node
<1>1. Succ[n] \in Seq(Node)
  BY FlowAssumption
<1>. QED
  BY <1>1 DEF Targets

LEMMA SearchRounds ==
  ASSUME NEW V, NEW n \in Nat, NEW from, NEW cut, Search(V, n, from, cut)
  PROVE  /\ V[0] = from
         /\ \A k \in 0..n : k # n => k + 1 \in 0..n /\ V[k+1] = Round1(V[k], cut)
<1>1. 0 \in 0..n
  OBVIOUS
<1>2. V[0] = from
  BY <1>1 DEF Search
<1>3. ASSUME NEW k \in 0..n, k # n
      PROVE  k + 1 \in 0..n /\ V[k+1] = Round1(V[k], cut)
  <2>1. k + 1 \in 0..n /\ k + 1 # 0 /\ (k + 1) - 1 = k
    BY <1>3
  <2>. QED
    BY <2>1 DEF Search
<1>. QED
  BY <1>2, <1>3

\* What a search finds is least: whatever holds the first nodes and is closed under
\* the edges holds it all.
LEMMA AheadLeast ==
  ASSUME NEW f, NEW cut, NEW X, Targets(f) \ {cut} \subseteq X,
         \A m \in X : Targets(m) \ {cut} \subseteq X
  PROVE  Ahead(f, cut) \subseteq X
<1>1. PICK V : /\ Search(V, Cardinality(Node), Targets(f) \ {cut}, cut)
               /\ Ahead(f, cut) = V[Cardinality(Node)]
  BY AheadSearch
<1>2. PICK N \in Nat : N = Cardinality(Node)
  BY FS_CardinalityType, FlowAssumption
<1>3. /\ V[0] = Targets(f) \ {cut}
      /\ \A k \in 0..N : k # N => k + 1 \in 0..N /\ V[k+1] = Round1(V[k], cut)
  BY <1>1, <1>2, SearchRounds
<1>. DEFINE S == {k \in Nat : k \in 0..N => V[k] \subseteq X}
<1>4. 0 \in S
  BY <1>3
<1>5. ASSUME NEW k \in Nat, k \in S
      PROVE  k + 1 \in S
  <2>1. SUFFICES ASSUME k + 1 \in 0..N
                 PROVE  V[k+1] \subseteq X
    OBVIOUS
  <2>2. k \in 0..N /\ k # N
    BY <2>1, <1>2
  <2>3. V[k] \subseteq X /\ V[k+1] = Round1(V[k], cut)
    BY <1>3, <1>5, <2>2
  <2>. QED
    BY <2>3, RoundMembers
<1>6. N \in S
  <2>. HIDE DEF S
  <2>. QED
    BY <1>2, <1>4, <1>5, InductiveSet
<1>. QED
  BY <1>1, <1>2, <1>6

\* It is closed: with fewer rounds than nodes left to add, a round adds one.
LEMMA AheadClosed ==
  ASSUME NEW f \in Node, NEW cut
  PROVE  /\ Ahead(f, cut) \subseteq Node /\ cut \notin Ahead(f, cut)
         /\ Targets(f) \ {cut} \subseteq Ahead(f, cut)
         /\ \A m \in Ahead(f, cut) : Targets(m) \ {cut} \subseteq Ahead(f, cut)
<1>1. PICK V : /\ Search(V, Cardinality(Node), Targets(f) \ {cut}, cut)
               /\ Ahead(f, cut) = V[Cardinality(Node)]
  BY AheadSearch
<1>2. PICK N \in Nat : N = Cardinality(Node)
  BY FS_CardinalityType, FlowAssumption
<1>3. /\ V[0] = Targets(f) \ {cut}
      /\ \A k \in 0..N : k # N => k + 1 \in 0..N /\ V[k+1] = Round1(V[k], cut)
  BY <1>1, <1>2, SearchRounds
<1>. DEFINE Stable(A) == \A m \in A : Targets(m) \ {cut} \subseteq A
            S == {k \in Nat : k \in 0..N =>
                    /\ V[k] \subseteq Node /\ cut \notin V[k] /\ V[0] \subseteq V[k]
                    /\ Stable(V[k]) \/ Cardinality(V[k]) >= k + 1}
<1>4. 0 \in S
  <2>1. V[0] \subseteq Node
    BY <1>3, TargetsType
  <2>2. IsFiniteSet(V[0]) /\ Cardinality(V[0]) \in Nat /\ (Cardinality(V[0]) = 0 => V[0] = {})
    BY <2>1, FS_Subset, FS_CardinalityType, FS_EmptySet, FlowAssumption
  <2>. QED
    BY <1>3, <2>1, <2>2
<1>5. ASSUME NEW k \in Nat, k \in S
      PROVE  k + 1 \in S
  <2>1. SUFFICES ASSUME k + 1 \in 0..N
                 PROVE  /\ V[k+1] \subseteq Node /\ cut \notin V[k+1] /\ V[0] \subseteq V[k+1]
                        /\ Stable(V[k+1]) \/ Cardinality(V[k+1]) >= (k + 1) + 1
    OBVIOUS
  <2>2. k \in 0..N /\ k # N
    BY <2>1, <1>2
  <2>3. /\ V[k] \subseteq Node /\ cut \notin V[k] /\ V[0] \subseteq V[k]
        /\ Stable(V[k]) \/ Cardinality(V[k]) >= k + 1
    BY <1>5, <2>2
  <2>4. V[k+1] = Round1(V[k], cut)
    BY <1>3, <2>2
  <2>5. V[k+1] \subseteq Node /\ cut \notin V[k+1] /\ V[0] \subseteq V[k+1] /\ V[k] \subseteq V[k+1]
    BY <2>3, <2>4, TargetsType, RoundMembers
  <2>6. CASE Stable(V[k])
    <3>1. \A x : x \in V[k+1] => x \in V[k]
      BY <2>4, <2>6, RoundMembers
    <3>2. V[k+1] = V[k]
      BY <2>5, <3>1
    <3>. QED
      BY <2>5, <2>6, <3>2
  <2>7. CASE ~Stable(V[k])
    <3>1. V[k+1] # V[k]
      BY <2>4, <2>7, RoundMembers
    <3>2. IsFiniteSet(V[k+1])
      BY <2>5, FS_Subset, FlowAssumption
    <3>3. IsFiniteSet(V[k]) /\ Cardinality(V[k]) <= Cardinality(V[k+1]) /\ Cardinality(V[k+1]) # Cardinality(V[k])
      BY <2>5, <3>1, <3>2, FS_Subset
    <3>4. Cardinality(V[k]) \in Nat /\ Cardinality(V[k+1]) \in Nat
      BY <3>2, <3>3, FS_CardinalityType
    <3>5. Cardinality(V[k]) >= k + 1
      BY <2>3, <2>7
    <3>6. Cardinality(V[k+1]) >= (k + 1) + 1
      BY <3>3, <3>4, <3>5
    <3>. QED
      BY <2>5, <3>6
  <2>. QED
    BY <2>6, <2>7
<1>6. N \in S
  <2>. HIDE DEF S
  <2>. QED
    BY <1>2, <1>4, <1>5, InductiveSet
<1>7. /\ V[N] \subseteq Node /\ cut \notin V[N] /\ V[0] \subseteq V[N]
      /\ Stable(V[N]) \/ Cardinality(V[N]) >= N + 1
  BY <1>6
<1>8. Cardinality(V[N]) <= N /\ Cardinality(V[N]) \in Nat
  BY <1>2, <1>7, FS_Subset, FS_CardinalityType, FlowAssumption
<1>9. Stable(V[N])
  BY <1>2, <1>7, <1>8
<1>. QED
  BY <1>1, <1>2, <1>3, <1>7, <1>9

\* The search of _can_rejected against the edges.
Through(m) == Kind[m] \notin {"fork", "join", "start"}
Back(seen) == seen \cup UNION {Sources(m) : m \in {x \in seen : Through(x)}}
BackSearch(V, n, from) == V = [k \in 0..n |-> IF k = 0 THEN from ELSE Back(V[k-1])]

LEMMA BackMembers ==
  ASSUME NEW seen, NEW x
  PROVE  x \in Back(seen) <=> x \in seen \/ \E m \in seen : Through(m) /\ x \in Sources(m)
<1>1. x \in UNION {Sources(m) : m \in {y \in seen : Through(y)}} <=> \E m \in seen : Through(m) /\ x \in Sources(m)
  OBVIOUS
<1>. QED
  BY <1>1, Zenon DEF Back

LEMMA BackSearchExists ==
  ASSUME NEW from
  PROVE  \A n \in Nat : \E V : BackSearch(V, n, from)
<1>. DEFINE S == {n \in Nat : \E V : BackSearch(V, n, from)}
<1>1. BackSearch([k \in 0..0 |-> from], 0, from)
  BY DEF BackSearch
<1>2. 0 \in S
  BY <1>1
<1>3. ASSUME NEW n \in Nat, n \in S
      PROVE  n + 1 \in S
  <2>1. PICK V : BackSearch(V, n, from)
    BY <1>3
  <2>2. PICK W : W = [k \in 0..n+1 |-> IF k <= n THEN V[k] ELSE Back(V[n])]
    OBVIOUS
  <2>3. \A k \in 0..n+1 : W[k] = IF k = 0 THEN from ELSE Back(W[k-1])
    BY <2>1, <2>2 DEF BackSearch
  <2>4. BackSearch(W, n + 1, from)
    BY <2>2, <2>3 DEF BackSearch
  <2>. QED
    BY <2>4
<1>4. \A n \in Nat : n \in S
  <2>. HIDE DEF S
  <2>. QED
    BY <1>2, <1>3, InductiveSet
<1>. QED
  BY <1>4

-----------------------------------------------------------------------------
(* Facts about rows and nodes that the walk of tokens needs.                *)

\* The first successor of the start node is one.
LEMMA FirstOfNode ==
  ASSUME NEW kinds, FirstOf(kinds) # <<>>
  PROVE  \E x \in FirstNodes : x \in Node /\ Kind[x] \in kinds /\ FirstOf(kinds) = <<x>>
<1> DEFINE hits == {h \in UNION {{n} \X DOMAIN Succ[n] : n \in StartNodes} :
                      Kind[Succ[h[1]][h[2]]] \in kinds}
           first == {h \in hits : \A g \in hits : h[2] <= g[2]}
<1>1. PICK h : h = CHOOSE g \in first : TRUE
  OBVIOUS
<1>2. first # {} /\ FirstOf(kinds) = <<Succ[h[1]][h[2]]>>
  BY <1>1 DEF FirstOf
<1>3. h \in first
  BY <1>1, <1>2
<1>4. PICK n \in StartNodes : h \in {n} \X DOMAIN Succ[n]
  BY <1>3
<1>5. h[1] = n /\ h[2] \in DOMAIN Succ[n]
  BY <1>4
<1>6. PICK x : x = Succ[h[1]][h[2]]
  OBVIOUS
<1>7. x \in Targets(n)
  BY <1>5, <1>6 DEF Targets
<1>8. x \in FirstNodes /\ n \in Node
  BY <1>7 DEF FirstNodes, StartNodes
<1>9. x \in Node
  BY <1>7, <1>8, TargetsType
<1>10. Kind[x] \in kinds
  BY <1>3, <1>6
<1>. QED
  BY <1>2, <1>6, <1>8, <1>9, <1>10

LEMMA ParentType ==
  ASSUME NEW rs, RowsOK(rs), NEW i \in 1..Len(rs), rs[i].parent # 0
  PROVE  rs[i].parent \in 1..Len(rs) /\ rs[i].parent < i /\ rs[rs[i].parent].state = "done"
<1>1. rs \in Seq(Row) /\ DOMAIN rs = 1..Len(rs) /\ rs[i] \in Row
  BY DEF RowsOK
<1>2. rs[i].parent < i /\ rs[i].parent \in Nat /\ rs[rs[i].parent].state = "done"
  BY <1>1 DEF RowsOK, Lineage, Row
<1>. QED
  BY <1>2

LEMMA AdvancesRoots ==
  ASSUME NEW old, NEW new, RowsOK(old), Roots(old), Advances(old, new), Len(new) = Len(old)
  PROVE  RowsOK(new) /\ Roots(new) /\ new \in Seq(Row) /\ Evolves(old, new)
<1>1. old \in Seq(Row) /\ new \in Seq(Row) /\ Evolves(old, new)
  BY DEF RowsOK, Advances
<1>. QED
  BY <1>1, AdvancesRowsOK, EvolvesRoots

LEMMA ClosedEvolves ==
  ASSUME NEW rs \in Seq(Row), NEW n, NEW c, c = Close(rs, DoingOn(rs, n), "abandoned")
  PROVE  c \in Seq(Row) /\ Evolves(rs, c) /\ Len(c) = Len(rs)
<1>1. PICK ids : ids = DoingOn(rs, n)
  OBVIOUS
<1>2. ids \subseteq DoingIds(rs) /\ "abandoned" \in TaskStates
  BY <1>1 DEF DoingOn, TaskStates
<1>3. Advances(rs, Close(rs, ids, "abandoned")) /\ Len(Close(rs, ids, "abandoned")) = Len(rs)
  BY <1>2, CloseAdvances
<1>. QED
  BY <1>1, <1>3 DEF Advances

LEMMA ClearedEvolves ==
  ASSUME NEW rs \in Seq(Row), NEW n, NEW c, c = ClearAddSign(rs, n)
  PROVE  c \in Seq(Row) /\ Evolves(rs, c) /\ Len(c) = Len(rs)
<1>1. CASE n \in AllowAddSign
  BY <1>1, ClosedEvolves DEF ClearAddSign
<1>2. CASE n \notin AllowAddSign
  BY <1>2 DEF ClearAddSign, Evolves, Same
<1>. QED
  BY <1>1, <1>2

LEMMA FreshOpen ==
  ASSUME NEW n \in Node, NEW p \in Nat, NEW sc \in SUBSET Scope
  PROVE  Fresh(n, p, sc) \in Row /\ Fresh(n, p, sc).state = "doing"
BY FreshType DEF Fresh
=============================================================================
