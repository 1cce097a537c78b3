----------------------------- MODULE Surrogates -----------------------------
(***************************************************************************)
(* The ledger of surrogates and who it adds to a new task (surrogate.py,   *)
(* model.ProcessSurrogate.is_effective, get_surrogate of both              *)
(* repositories, the surrogate handlers of the facade).  A ledger is a set *)
(* of records keyed by id; the empty process name means every process.     *)
(* Principals are values that are compared as they stand; the surrogate a  *)
(* record names is trimmed wherever it is read, and stands here by its id. *)
(***************************************************************************)
EXTENDS Actors, Integers

NoLimit == -1
AllProcesses == ""

\* The four criteria for one record, asked at time "at".
is_effective(s, operator, at) ==
    /\ s.enabled = 1
    /\ s.surrogate # Nobody
    /\ Plain(s.surrogate) # operator
    /\ s.startTime = NoLimit \/ s.startTime <= at
    /\ s.endTime = NoLimit \/ s.endTime >= at

Newest(rows) == {s \in rows : \A t \in rows : t.id <= s.id}

Effective(rows, operator, at) == {s \in Newest(rows) : is_effective(s, operator, at)}

\* Memory: the newest of the process, when there is a name; failing that the
\* newest of all processes.
MemGetSurrogate(ledger, operator, name, at) ==
    LET mine  == {s \in ledger : s.operator = operator}
        exact == Effective({s \in mine : name # AllProcesses /\ s.processName = name}, operator, at)
    IN IF exact # {} THEN exact
       ELSE Effective({s \in mine : s.processName = AllProcesses}, operator, at)

\* SQL: the query takes the name as it is, so an empty one asks twice the same.
QueryNewest(ledger, operator, name) ==
    Newest({s \in ledger : s.operator = operator /\ s.processName = name})

\* Seeded fault: rows that are not effective are filtered before the newest is taken.
SqlGetSurrogate_Fault(ledger, operator, name, at) ==
    LET live  == {s \in ledger : is_effective(s, operator, at)}
        exact == QueryNewest(live, operator, name)
    IN IF exact # {} THEN exact ELSE QueryNewest(live, operator, AllProcesses)

SqlGetSurrogate(ledger, operator, name, at) ==
    LET Asked(n) == {s \in QueryNewest(ledger, operator, n) : is_effective(s, operator, at)}
    IN IF Asked(name) # {} THEN Asked(name) ELSE Asked(AllProcesses)

\* The actors as they came, then their agents (found[a] is what get_surrogate
\* returned for the actor as it stands); an agent brings no agent of its own.
expand(actors, found) ==
    LET served == Keep(actors, {a \in Range(actors) : found[a] # {}})
        Agent(a) == Plain((CHOOSE s \in found[a] : TRUE).surrogate)
    IN Merge(actors, [i \in DOMAIN served |-> Agent(served[i])])

\* What the facade stores for the enabled argument: absent is 1, what does not
\* parse as a number is 0.
EnabledArg == {"absent", "1", "0", "dirty"}
Enabled(arg) == IF arg \in {"absent", "1"} THEN 1 ELSE 0
=============================================================================
