------------------------------ MODULE FlowGraph ------------------------------
(***************************************************************************)
(* The parsed flow definition (jeeflow/model.py, FlowModel) and the static *)
(* analysis that jeeflow/reapply.py makes of it: which fork a join closes, *)
(* and inside which (fork, join) ranges a node lies.                       *)
(*                                                                         *)
(* Succ[n] lists the targets of the out-edges of n in definition order;    *)
(* Conditional[n] holds the positions of those edges that carry an "expr". *)
(* Edges whose target is not in the model are dropped by the engine        *)
(* (_follow_edges logs and skips them), so Succ has none.                  *)
(***************************************************************************)
EXTENDS Integers, Sequences, FiniteSets

CONSTANTS Node, Kind, Succ, Conditional

\* "other" stands for every type _execute_node does nothing for: subProcess,
\* a misspelt type, a start node met in the middle of a flow.
Kinds == {"start", "end", "task", "decision", "fork", "join", "custom", "other"}

ASSUME FlowAssumption ==
  /\ IsFiniteSet(Node)
  /\ Kind \in [Node -> Kinds]
  /\ Succ \in [Node -> Seq(Node)]
  /\ Conditional \in [Node -> SUBSET Nat]

Targets(n) == {Succ[n][i] : i \in DOMAIN Succ[n]}
Sources(n) == {m \in Node : n \in Targets(m)}
Forks == {n \in Node : Kind[n] = "fork"}
Joins == {n \in Node : Kind[n] = "join"}

(***************************************************************************)
(* Searches. Each code search is a work list with a visited set, so what   *)
(* it visits is a least fixpoint, reached within Cardinality(Node) rounds. *)
(***************************************************************************)
\* Nodes visited from Targets(f) when the search never continues from `cut`.
Ahead(f, cut) ==
  LET visit[k \in 0..Cardinality(Node)] ==
        IF k = 0 THEN Targets(f) \ {cut}
        ELSE LET seen == visit[k-1] IN seen \cup ((UNION {Targets(m) : m \in seen}) \ {cut})
  IN visit[Cardinality(Node)]

\* Nodes visited against the edges from Sources(n), never entering `cut`.
Behind(n, cut) ==
  LET visit[k \in 0..Cardinality(Node)] ==
        IF k = 0 THEN Sources(n) \ {cut}
        ELSE LET seen == visit[k-1] IN seen \cup ((UNION {Sources(m) : m \in seen}) \ {cut})
  IN visit[Cardinality(Node)]

\* Masking j, no branch of f reaches a node without out-edges.
PostDominates(f, j) == \A m \in Ahead(f, j) : Targets(m) # {}

\* The breadth-first distance from f to j, -1 when j is out of reach. The code
\* calls it the maximal distance; as every node enters the frontier once, the
\* value is that of the shortest path.
Distance(f, j) ==
  LET within[k \in 0..Cardinality(Node)] ==
        IF k = 0 THEN {f}
        ELSE LET seen == within[k-1] IN seen \cup UNION {Targets(m) : m \in seen}
      hops == {k \in 1..Cardinality(Node) : j \in within[k]}
  IN IF hops = {} THEN -1 ELSE CHOOSE k \in hops : \A h \in hops : k <= h

\* j is the nearest join that post-dominates f.
NearestJoin(f, j) ==
  LET candidates == {c \in Joins : PostDominates(f, c) /\ Distance(f, c) >= 0}
  IN /\ j \in candidates
     /\ \A c \in candidates : Distance(f, j) <= Distance(f, c)

\* f is the fork j closes: of the forks whose nearest join is j, the furthest.
\* (The code breaks ties by node order; the flows checked have none.)
ForkOf(f, j) ==
  /\ NearestJoin(f, j)
  /\ \A g \in Forks : NearestJoin(g, j) => Distance(g, j) <= Distance(f, j)

\* The tasks between a join and its fork, seen from the join.
InsideTasks(j, f) == {m \in Behind(j, f) : Kind[m] \in {"task", "custom"}}

\* The (fork, join) ranges of the flow, with the nodes inside each.
Ranges == UNION {{[fork |-> f, join |-> j] : j \in {c \in Joins : ForkOf(f, c)}} : f \in Forks}
Inner == UNION {{<<n, r>> : n \in InsideTasks(r.join, r.fork)} : r \in Ranges}

\* A join closes one fork. The code sees to it by the order of the nodes; here it
\* is what a flow without ties has.
OneForkPerJoin == \A r, q \in Ranges : r.join = q.join => r = q

\* Every range n lies in. The code keeps them outermost first; no reader depends
\* on the order, each looks a range up by its join.
StaticScopes(n) == {r \in Ranges : <<n, r>> \in Inner}

\* <<m, n>>: m comes after n in the flow.
Later == UNION {{<<m, n>> : m \in Ahead(n, n)} : n \in Node}

(***************************************************************************)
(* Start of the flow and the guard of "roll back one step".                *)
(***************************************************************************)
StartNodes == {n \in Node : Kind[n] = "start"}
FirstNodes == UNION {Targets(n) : n \in StartNodes}

\* The first successor of the start node of one of the kinds, as a sequence of
\* at most one node.
FirstOf(kinds) ==
  LET hits == {h \in UNION {{n} \X DOMAIN Succ[n] : n \in StartNodes} :
                 Kind[Succ[h[1]][h[2]]] \in kinds}
      first == {h \in hits : \A g \in hits : h[2] <= g[2]}
  IN IF first = {} THEN <<>>
     ELSE LET h == CHOOSE h \in first : TRUE IN <<Succ[h[1]][h[2]]>>

\* _can_rejected: `previous` is met walking against the edges from `current`,
\* where a fork, a join and the start node may be met but not walked through.
\* The code recurses without a visited set, so on a cyclic flow it may exhaust
\* the stack instead of answering; the flows checked are acyclic.
CanReject(current, previous) ==
  LET Through(m) == Kind[m] \notin {"fork", "join", "start"}
      visit[k \in 0..Cardinality(Node)] ==
        IF k = 0 THEN Sources(current)
        ELSE LET seen == visit[k-1]
             IN seen \cup UNION {Sources(m) : m \in {x \in seen : Through(x)}}
  IN previous \in visit[Cardinality(Node)]
=============================================================================
