------------------------------- MODULE FlowShape -------------------------------
(***************************************************************************)
(* Shapes of flows and of their use that theorems about Engine suppose.    *)
(* Each is a condition on the constants alone; the instances assume those  *)
(* their properties need, so TLC checks that they hold there.              *)
(***************************************************************************)
EXTENDS Engine

\* The nodes of a range, seen from its fork; those of the branch that begins with
\* a; and the ranges around a node.
Body(r) == Ahead(r.fork, r.join)
Branch(r, a) == {a} \cup Ahead(a, r.join)
Around(n) == {r \in Ranges : n \in Body(r)}

\* The nodes a start visits: its walk ends at the first tasks, so they lie in every set
\* that has the first nodes and, with a node that is no task, what follows it.
Opening ==
  {n \in Node :
     \A S \in SUBSET Node :
       FirstNodes \subseteq S /\ (\A m \in S : Kind[m] # "task" => Targets(m) \subseteq S) => n \in S}

\* A flow of properly nested forks and joins, no record node, decision or join
\* right behind a fork: every fork has its own join, its branches have no node in
\* common, are entered through it, left through the join, and not entered again;
\* the analysis from the join finds the tasks that lie ahead of the fork. A start
\* reaches no fork, as the rows it creates would have no range.
WellNested ==
  /\ \A f \in Forks : \E r \in Ranges : r.fork = f
  /\ \A j \in Joins : \E r \in Ranges : r.join = j
  /\ \A r, q \in Ranges : r.fork = q.fork \/ r.join = q.join => r = q
  /\ \A r \in Ranges :
       /\ (Body(r) \cup {r.fork} \cup FirstNodes) \cap Ahead(r.join, r.join) = {}
       /\ r.fork \notin Body(r)
       /\ \A a, b \in Targets(r.fork) : a # b => Branch(r, a) \cap Branch(r, b) = {}
       /\ \A m \in Node : \A n \in Targets(m) :
            /\ n \in Body(r) => m \in Body(r) \cup {r.fork}
            /\ n = r.join => m \in Body(r)
       /\ \A n \in Node : Kind[n] \in {"task", "custom"} => (n \in Body(r)) = (<<n, r>> \in Inner)
       /\ \A n \in Body(r) : r.join \in Ahead(n, n) /\ Kind[n] # "end"
  /\ \A f \in Forks : \A i, k \in DOMAIN Succ[f] :
       /\ Succ[f][i] = Succ[f][k] => i = k
       /\ Kind[Succ[f][i]] \in {"task", "fork"}
  /\ \A n \in Node : Kind[n] \notin {"fork", "decision"} => Len(Succ[n]) <= 1
  /\ \A n \in FirstNodes : Around(n) = {} /\ Kind[n] # "join"
  /\ Opening \cap Forks = {}

\* A visit to the node makes one row.
OneRow(n) == Countersign[n] \in {"none", "sequential"} \/ Members[n] <= 1

\* The node may have several rows after one another or at once.
Crowded(n) == n \in AllowAddSign \/ (Countersign[n] # "none" /\ Members[n] > 1)

\* Nodes of several rows lie outside the branches; clients leave a node by a detour
\* only when it has one row, do not return from inside a branch but to come back,
\* do not jump into or out of one, and recall nothing.
Disciplined ==
  /\ "recall" \notin Ops
  /\ \A n \in Node : Crowded(n) => Around(n) = {}
  /\ \A n \in Detours :
       /\ OneRow(n)
       /\ n \notin ReturnToSource => Around(n) = {}
       /\ "jump" \in Ops => n \notin AllowAddSign /\ Around(n) = {}
  /\ \A n \in AllowAddSign : ~CanReject(n, n)
  /\ "jump" \in Ops => \A n \in JumpTargets : Around(n) = {} /\ Kind[n] # "join"

\* Every node has one row at a time.
SingleRows == AllowAddSign = {} /\ \A n \in Node : OneRow(n)

\* No applicant row lies on a sequential countersign.
PlainFirst == \A n \in FirstNodes : Countersign[n] # "sequential"

\* The work right behind a join is reached through that join alone: by no other
\* edge, no jump and, as it has one row per visit, by no row on the same node.
ThroughJoin ==
  \A r \in Ranges : \A n \in Targets(r.join) :
    Kind[n] \in {"task", "custom"} =>
      /\ \A m \in Node : n \in Targets(m) => m = r.join
      /\ n \notin AllowAddSign
      /\ Countersign[n] = "sequential" => Members[n] <= 1
      /\ "jump" \in Ops => n \notin JumpTargets

\* Nodes where every member has a vote and no single vote decides; and such a node
\* is a task that is not the applicant's, what lies beyond it is reached from there
\* or through it, and nobody jumps there.
Voters == {n \in Node \ Veto : Countersign[n] \in {"parallel", "sequential"}}
Past(n) == {m \in Node : <<m, n>> \in Later}

VotedThrough ==
  \A n \in Voters :
    /\ Kind[n] = "task" /\ n \notin FirstNodes
    /\ FirstNodes \cap Past(n) = {}
    /\ \A m \in Node : \A k \in Targets(m) \cap Past(n) : m \in Past(n) \cup {n}
    /\ "jump" \in Ops => JumpTargets \cap Past(n) = {}

\* The tasks n comes after.
Earlier(n) == {m \in Node : Kind[m] = "task" /\ <<n, m>> \in Later}
TasksIn(r, a) == {m \in Branch(r, a) : Kind[m] = "task"}

\* Every task lies on the way to the end: there is no choice, a branch is left at its
\* last node, and what comes before a join is in its branches or before its fork.
\* Inside a branch nothing stops the walk but the join, and no detour leads past a task.
OnTheWay ==
  /\ \A n \in Node :
       /\ Kind[n] # "decision"
       /\ Kind[n] = "end" => \A m \in Node : Kind[m] = "task" => m \in Earlier(n)
       /\ \A m \in Targets(n) : Kind[m] # "join" => Earlier(m) \subseteq Earlier(n) \cup {n}
  /\ \A n \in FirstNodes : Earlier(n) = {}
  /\ \A r \in Ranges :
       /\ Earlier(r.join) \subseteq Body(r) \cup Earlier(r.fork)
       /\ \A n \in Body(r) :
            /\ Kind[n] \in {"task", "custom", "fork", "join"}
            /\ Countersign[n] = "none"
            /\ Earlier(r.fork) \subseteq Earlier(n)
       /\ \A a \in Targets(r.fork) : \A m \in Branch(r, a) :
            r.join \in Targets(m) => TasksIn(r, a) \subseteq Earlier(m) \cup {m}
       /\ \A q \in Ranges : q.join \in Body(r) => Body(q) \subseteq Body(r)
  /\ "jump" \in Ops => \A n \in JumpTargets : Earlier(n) = {}
  /\ "reject" \in Ops => Forks = {}
  /\ Transactional \/ \A n \in ReturnToSource : Returnable(n)

\* Who rejects the instance is the only one who can act on it, but for the fellow
\* signers of an add-sign node.
RejectsAlone == "reject" \in Ops => Forks = {} /\ \A n \in Node : OneRow(n)

\* The flow has no dead end: every node but the end leads on, to a node the engine
\* knows; a return and a failing decision leave something behind; a completion
\* condition that is an expression holds when some have voted and nobody is left to.
LeadsOn ==
  /\ \A n \in Node : Kind[n] # "other" /\ (Kind[n] # "end" => Succ[n] # <<>>)
  /\ \A n \in JumpTargets \cup UNION {Targets(m) : m \in Node} : Kind[n] # "start"
  /\ "return" \in Ops => FirstOf({"task", "custom"}) # <<>>
  /\ Transactional \/ /\ \A n \in Node : Kind[n] = "decision" => DefaultEdges(n) # {}
                      /\ \A n \in ReturnToSource : Returnable(n)
  /\ \/ \A n \in Node : Countersign[n] # "expression"
     \/ \A all \in Nat : \A completed \in 1..all : CsExpr(all, 0, completed)
=============================================================================
