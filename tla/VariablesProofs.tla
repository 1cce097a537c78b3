-------------------------- MODULE VariablesProofs --------------------------
(***************************************************************************)
(* What a request leaves behind, for every path of task nodes, every way   *)
(* to assign them, any number of people and rows.  The people are told     *)
(* apart from the pseudo users and from nobody, and people start           *)
(* instances (engine.py start_process_instance_by_id takes the caller).    *)
(*                                                                         *)
(* The argument: no control key outlives the request that brought it       *)
(* (`Clean'), so a submission names exactly whom its own arguments name;   *)
(* every value of x is one that was given; and a row completed by a person *)
(* holds that person's data, which a row brought back is assigned by.      *)
(***************************************************************************)
EXTENDS Variables, TLAPS

PeopleArePeople ==
  /\ People \cap {None, FlowAuto, FlowAdmin} = {}
  /\ Applicants \subseteq People

-----------------------------------------------------------------------------
(* The invariant.                                                          *)

\* The shapes of a pool, of the instance and of a row.
Pool(v) == v = [x |-> v.x, op |-> v.op, who |-> v.who]

IsInst(i) == i = [state |-> i.state, operator |-> i.operator, vars |-> i.vars] /\ Pool(i.vars)

IsRow(r) ==
  /\ r = [node |-> r.node, state |-> r.state, parent |-> r.parent, actors |-> r.actors,
          by |-> r.by, vars |-> r.vars, owes |-> r.owes]
  /\ Pool(r.vars)

IsRows(rs) == \E S : rs \in Seq(S)

\* The instance holds its initiator's data, a value that was given, and no control key.
CleanInst(i, values) ==
  /\ IsInst(i)
  /\ i.operator \in People /\ i.vars.who = i.operator
  /\ i.vars.op = {}
  /\ i.vars.x \in values

\* A row holds a value that was given and a person's data: the data of the
\* person who completed it, if a person did.  Open rows hold no control key.
CleanRow(r, values) ==
  /\ IsRow(r)
  /\ r.vars.x \in values
  /\ r.vars.who \in People \cup {None}
  /\ r.state = "doing" => r.vars.op = {}
  /\ r.by \in People => r.vars.who = r.by

CleanRows(rs, values) ==
  /\ IsRows(rs)
  /\ \A k \in 1..Len(rs) : CleanRow(rs[k], values) /\ rs[k].parent \in Nat /\ rs[k].parent < k

Clean ==
  /\ inst.state = "none" => rows = <<>>
  /\ inst.state # "none" => CleanInst(inst, given) /\ CleanRows(rows, given) /\ None \in given

-----------------------------------------------------------------------------
(* Rows and pools.                                                         *)

\* out are the rows with the row t replaced ...
Replaced(rs, t, done, out) ==
  /\ IsRows(out) /\ Len(rs) \in Nat /\ Len(out) = Len(rs) /\ out[t] = done
  /\ \A k \in 1..Len(rs) : k # t => out[k] = rs[k]

\* ... and a row added.
Added(rs, t, done, new, out) ==
  /\ IsRows(out) /\ Len(rs) \in Nat /\ Len(out) = Len(rs) + 1
  /\ out[t] = done /\ out[Len(rs) + 1] = new
  /\ \A k \in 1..Len(rs) : k # t => out[k] = rs[k]

\* One row is replaced, another one is added.
LEMMA RowsAdded ==
  ASSUME NEW rs, IsRows(rs), NEW t \in 1..Len(rs), NEW done, NEW new, NEW out,
         out = Append([rs EXCEPT ![t] = done], new)
  PROVE  Added(rs, t, done, new, out)
<1>1. PICK S : rs \in Seq(S)
  BY DEF IsRows
<1>2. PICK T : T = S \cup {done, new}
  OBVIOUS
<1>3. PICK mid : mid = [rs EXCEPT ![t] = done]
  OBVIOUS
<1>4. rs \in Seq(T) /\ done \in T /\ new \in T /\ Len(rs) \in Nat
  BY <1>1, <1>2
<1>5. mid \in Seq(T) /\ Len(mid) = Len(rs) /\ mid[t] = done
      /\ \A k \in 1..Len(rs) : k # t => mid[k] = rs[k]
  BY <1>3, <1>4
<1>6. out \in Seq(T) /\ Len(out) = Len(rs) + 1 /\ out[Len(rs) + 1] = new
      /\ \A k \in 1..Len(rs) : out[k] = mid[k]
  BY <1>3, <1>4, <1>5
<1>. QED
  BY <1>4, <1>5, <1>6 DEF IsRows, Added

\* The same without a row behind.
LEMMA RowsReplaced ==
  ASSUME NEW rs, IsRows(rs), NEW t \in 1..Len(rs), NEW done, NEW out, out = [rs EXCEPT ![t] = done]
  PROVE  Replaced(rs, t, done, out)
<1>1. PICK S : rs \in Seq(S)
  BY DEF IsRows
<1>2. PICK T : T = S \cup {done}
  OBVIOUS
<1>3. rs \in Seq(T) /\ done \in T
  BY <1>1, <1>2
<1>. QED
  BY <1>3 DEF IsRows, Replaced

\* The pool a submission runs on: its x and its names, if it brings any; the
\* data of its operator, if that is a person.
LEMMA ExecVarsAre ==
  ASSUME PeopleArePeople, NEW values, NEW i, CleanInst(i, values), NEW r, CleanRow(r, values),
         r.vars.op = {}, NEW o, o \in People \cup {FlowAuto, FlowAdmin}, NEW args \in Args, NEW v,
         v = ExecVars(i, r, o, args)
  PROVE  /\ Pool(v) /\ v.op = args.op
         /\ v.who \in People /\ (o \in People => v.who = o)
         /\ r.node \notin Editable => v.x \in values /\ (r.vars.x = None => v.x = i.vars.x)
         /\ r.node \in Editable => v.x \in values \cup {args.x}
<1>1. PICK f : f = Filtered(args, r.node)
  OBVIOUS
<1>2. /\ f = [x |-> f.x, op |-> args.op, who |-> None]
      /\ f.x = IF r.node \in Editable THEN args.x ELSE None
  BY <1>1 DEF Filtered, Args
<1>3. PICK w : w = Over(Over(i.vars, r.vars), f)
  OBVIOUS
<1>4. /\ Pool(w)
      /\ w.op = IF args.op = {} THEN {} ELSE args.op
      /\ w.who = IF r.vars.who = None THEN i.vars.who ELSE r.vars.who
      /\ w.x = IF f.x = None THEN IF r.vars.x = None THEN i.vars.x ELSE r.vars.x ELSE f.x
  <2>1. PICK u : u = Over(i.vars, r.vars)
    OBVIOUS
  <2>2. Pool(i.vars) /\ Pool(r.vars) /\ i.vars.op = {} /\ r.vars.op = {}
    BY DEF CleanInst, CleanRow, IsInst, IsRow
  <2>3. u = [x |-> IF r.vars.x = None THEN i.vars.x ELSE r.vars.x, op |-> {},
             who |-> IF r.vars.who = None THEN i.vars.who ELSE r.vars.who]
    BY <2>1, <2>2 DEF Over, Pool, NoVars
  <2>4. w = [x |-> IF f.x = None THEN u.x ELSE f.x, op |-> IF args.op = {} THEN {} ELSE args.op,
             who |-> u.who]
    <3>1. w = [k \in DOMAIN u |-> IF f[k] = NoVars[k] THEN u[k] ELSE f[k]]
      BY <1>3, <2>1 DEF Over
    <3>2. DOMAIN u = {"x", "op", "who"} /\ u.op = {}
      BY <2>3
    <3>3. /\ w.x = IF f.x = None THEN u.x ELSE f.x
          /\ w.op = IF args.op = {} THEN {} ELSE args.op
          /\ w.who = u.who
      BY <1>2, <3>1, <3>2 DEF NoVars
    <3>. QED
      BY <3>1, <3>2, <3>3
  <2>. QED
    BY <2>3, <2>4 DEF Pool
<1>5. v = IF o \in {FlowAuto, FlowAdmin} THEN w ELSE [w EXCEPT !.who = o]
  <2>1. v = AddUserInfo(o, w)
    BY <1>1, <1>3, Zenon DEF ExecVars
  <2>. QED
    BY <2>1 DEF AddUserInfo
<1>6. Pool(v) /\ v.x = w.x /\ v.op = w.op /\ v.who = IF o \in {FlowAuto, FlowAdmin} THEN w.who ELSE o
  BY <1>4, <1>5 DEF Pool
<1>7. w.who \in People
  BY <1>4 DEF CleanInst, CleanRow
<1>. QED
  BY <1>2, <1>4, <1>6, <1>7 DEF PeopleArePeople, CleanInst, CleanRow

\* More values may have been given.
LEMMA MoreGiven ==
  ASSUME NEW r, NEW values, CleanRow(r, values), NEW more, values \subseteq more
  PROVE  CleanRow(r, more)
BY DEF CleanRow

\* Rows stay clean when one of them is completed and another one is added ...
LEMMA CleanAdded ==
  ASSUME NEW values, NEW rs, CleanRows(rs, values), NEW more, values \subseteq more,
         NEW t \in 1..Len(rs), NEW done, CleanRow(done, more), done.parent = rs[t].parent,
         NEW new, CleanRow(new, more), new.parent \in Nat, new.parent <= t,
         NEW out, out = Append([rs EXCEPT ![t] = done], new)
  PROVE  CleanRows(out, more)
<1>1. IsRows(rs)
  BY DEF CleanRows
<1>2. Added(rs, t, done, new, out)
  BY <1>1, RowsAdded, Zenon
<1>3. ASSUME NEW k \in 1..Len(out)
      PROVE  CleanRow(out[k], more) /\ out[k].parent \in Nat /\ out[k].parent < k
  <2>1. CASE k = t
    BY <1>2, <2>1 DEF CleanRows, Added
  <2>2. CASE k = Len(rs) + 1
    BY <1>2, <2>2 DEF Added
  <2>3. CASE k \in 1..Len(rs) /\ k # t
    <3>1. CleanRow(rs[k], values) /\ rs[k].parent \in Nat /\ rs[k].parent < k /\ out[k] = rs[k]
      BY <1>2, <2>3 DEF CleanRows, Added
    <3>. QED
      BY <3>1, MoreGiven
  <2>. QED
    BY <1>2, <2>1, <2>2, <2>3 DEF Added
<1>. QED
  BY <1>2, <1>3 DEF CleanRows, Added

\* ... or none.
LEMMA CleanReplaced ==
  ASSUME NEW values, NEW rs, CleanRows(rs, values), NEW more, values \subseteq more,
         NEW t \in 1..Len(rs), NEW done, CleanRow(done, more), done.parent = rs[t].parent,
         NEW out, out = [rs EXCEPT ![t] = done]
  PROVE  CleanRows(out, more)
<1>1. IsRows(rs)
  BY DEF CleanRows
<1>2. Replaced(rs, t, done, out)
  BY <1>1, RowsReplaced, Zenon
<1>3. ASSUME NEW k \in 1..Len(out)
      PROVE  CleanRow(out[k], more) /\ out[k].parent \in Nat /\ out[k].parent < k
  <2>1. CASE k = t
    BY <1>2, <2>1 DEF CleanRows, Replaced
  <2>2. CASE k # t
    <3>1. CleanRow(rs[k], values) /\ rs[k].parent \in Nat /\ rs[k].parent < k /\ out[k] = rs[k]
      BY <1>2, <2>2 DEF CleanRows, Replaced
    <3>. QED
      BY <3>1, MoreGiven
  <2>. QED
    BY <2>1, <2>2
<1>. QED
  BY <1>2, <1>3 DEF CleanRows, Replaced

\* A row as it is created, on its way to somebody.
LEMMA CleanNew ==
  ASSUME PeopleArePeople, NEW values, None \in values, NEW n, NEW k, NEW actors, NEW owes, NEW new,
         new = NewRow(n, k, actors, owes)
  PROVE  CleanRow(new, values) /\ new.parent = k /\ new.actors = actors /\ new.node = n
BY DEF NewRow, Row, NoVars, CleanRow, IsRow, Pool, PeopleArePeople

-----------------------------------------------------------------------------
(* A submission.                                                           *)

\* What a submission of the row t with the pool v makes of the instance and of
\* its row, and whom it names.
Submitted(i, r, o, args, v, i2, done, values, more) ==
  /\ CleanInst(i2, more) /\ CleanRow(done, more) /\ values \subseteq more
  /\ done.parent = r.parent /\ done.by = o /\ done.node = r.node
  /\ Pool(v) /\ v.op = args.op /\ i2.vars.x = v.x /\ i2.operator = i.operator /\ i2.state = i.state
  /\ r.node \notin Editable /\ r.vars.x = None => v.x = i.vars.x

LEMMA SubmissionIs ==
  ASSUME PeopleArePeople, NEW values, NEW i, CleanInst(i, values), NEW r, CleanRow(r, values),
         r.vars.op = {}, NEW o, o \in People \cup {FlowAuto, FlowAdmin}, NEW args \in Args, NEW v,
         v = ExecVars(i, r, o, args), NEW more,
         more = IF r.node \in Editable THEN values \cup {args.x} ELSE values,
         NEW i2, i2 = [i EXCEPT !.vars = Merged(@, v)],
         NEW done, done = [r EXCEPT !.state = "done", !.by = o, !.vars = v]
  PROVE  Submitted(i, r, o, args, v, i2, done, values, more)
<1>1. /\ Pool(v) /\ v.op = args.op
      /\ v.who \in People /\ (o \in People => v.who = o)
      /\ r.node \notin Editable => v.x \in values /\ (r.vars.x = None => v.x = i.vars.x)
      /\ r.node \in Editable => v.x \in values \cup {args.x}
  BY ExecVarsAre
<1>2. v.x \in more /\ values \subseteq more
  BY <1>1
<1>3. PICK m : m = Merged(i.vars, v)
  OBVIOUS
<1>4. Pool(m) /\ m.x = v.x /\ m.op = i.vars.op /\ m.who = i.vars.who
  BY <1>1, <1>3 DEF Merged, Pool
<1>5. i2 = [state |-> i.state, operator |-> i.operator, vars |-> m]
  BY <1>3 DEF CleanInst, IsInst
<1>6. CleanInst(i2, more)
  BY <1>2, <1>4, <1>5 DEF CleanInst, IsInst
<1>7. done = [node |-> r.node, state |-> "done", parent |-> r.parent, actors |-> r.actors,
              by |-> o, vars |-> v, owes |-> r.owes]
  BY DEF CleanRow, IsRow
<1>8. CleanRow(done, more)
  BY <1>1, <1>2, <1>7 DEF CleanRow, IsRow
<1>. QED
  BY <1>1, <1>2, <1>4, <1>5, <1>6, <1>7, <1>8 DEF Submitted

\* Assignment looks at the field value only, which the instance keeps.
LEMMA SameAssigned ==
  ASSUME NEW method, NEW node, NEW v, NEW w, v.x = w.x, NEW i, NEW j, i.operator = j.operator,
         i.vars.x = j.vars.x, NEW o
  PROVE  Assigned(method, node, v, i, o) = Assigned(method, node, w, j, o)
BY DEF Assigned

-----------------------------------------------------------------------------
(* The requests.                                                           *)

\* What every step has to see to.
FieldStep ==
  /\ inst.state = "doing" =>
       LET done == rows[last'.row]
       IN done.node \notin Editable /\ done.vars.x = None => inst'.vars.x = inst.vars.x
  /\ inst'.vars.x \in given'

Good == Clean' /\ RowsReachTheirPeople' /\ FieldStep

\* The submission of the row t in the present state.
LEMMA SubmissionHere ==
  ASSUME PeopleArePeople, Clean, NEW t \in DOMAIN rows, NEW o \in People \cup {FlowAdmin},
         NEW args \in Args, MayExecute(t, o), Given(t, args),
         NEW v, v = ExecVars(inst, rows[t], o, args), NEW i2, i2 = Instance(v)
  PROVE  /\ inst.state = "doing" /\ t \in 1..Len(rows)
         /\ CleanRows(rows, given) /\ None \in given
         /\ \E done : /\ Submitted(inst, rows[t], o, args, v, i2, done, given, given')
                      /\ Completed(rows, t, o, v) = [rows EXCEPT ![t] = done]
<1>1. /\ inst.state = "doing" /\ rows[t].state = "doing"
      /\ CleanInst(inst, given) /\ CleanRows(rows, given) /\ None \in given
  BY DEF MayExecute, Clean
<1>2. t \in 1..Len(rows)
  BY <1>1 DEF CleanRows, IsRows
<1>3. CleanRow(rows[t], given) /\ rows[t].vars.op = {}
  BY <1>1, <1>2 DEF CleanRows, CleanRow
<1>4. PICK done : done = [rows[t] EXCEPT !.state = "done", !.by = o, !.vars = v]
  OBVIOUS
<1>5. Completed(rows, t, o, v) = [rows EXCEPT ![t] = done]
  BY <1>2, <1>4 DEF Completed
<1>6. given' = IF rows[t].node \in Editable THEN given \cup {args.x} ELSE given
  BY DEF Given
<1>7. i2 = [inst EXCEPT !.vars = Merged(@, v)]
  BY DEF Instance
<1>8. PICK more : more = given'
  OBVIOUS
<1>9. Submitted(inst, rows[t], o, args, v, i2, done, given, more)
  <2>1. PICK i, r, values : i = inst /\ r = rows[t] /\ values = given
    OBVIOUS
  <2>. QED
    BY <1>1, <1>3, <1>4, <1>6, <1>7, <1>8, <2>1, SubmissionIs
<1>. QED
  BY <1>1, <1>2, <1>5, <1>8, <1>9

\* A submission that leaves a row behind.
LEMMA AddsRow ==
  ASSUME PeopleArePeople, Clean, NEW t \in 1..Len(rows), inst.state = "doing",
         NEW o, NEW args, NEW v, NEW i2, NEW done,
         Submitted(inst, rows[t], o, args, v, i2, done, given, given'),
         NEW new, CleanRow(new, given'), new.parent \in Nat, new.parent <= t,
         inst' = i2, rows' = Append([rows EXCEPT ![t] = done], new), last'.row = t
  PROVE  Clean' /\ FieldStep /\ Added(rows, t, done, new, rows')
<1>1. PICK values, more, out : values = given /\ more = given' /\ out = rows'
  OBVIOUS
<1>2. CleanInst(inst, values) /\ CleanRows(rows, values) /\ None \in values
  BY <1>1 DEF Clean
<1>3. /\ CleanInst(i2, more) /\ CleanRow(done, more) /\ values \subseteq more
      /\ done.parent = rows[t].parent /\ i2.state = inst.state /\ i2.vars.x = v.x
      /\ rows[t].node \notin Editable /\ rows[t].vars.x = None => v.x = inst.vars.x
  BY <1>1 DEF Submitted
<1>4. CleanRows(out, more)
  <2>1. out = Append([rows EXCEPT ![t] = done], new) /\ CleanRow(new, more)
    BY <1>1
  <2>. QED
    BY <1>2, <1>3, <2>1, CleanAdded
<1>5. Clean'
  <2>1. CleanInst(inst', given') /\ CleanRows(rows', given') /\ None \in given'
    BY <1>1, <1>2, <1>3, <1>4
  <2>2. inst'.state # "none"
    BY <1>3
  <2>. QED
    BY <2>1, <2>2 DEF Clean
<1>6. FieldStep
  BY <1>1, <1>3 DEF FieldStep, CleanInst
<1>7. Added(rows, t, done, new, out)
  <2>1. IsRows(rows) /\ out = Append([rows EXCEPT ![t] = done], new)
    BY <1>1, <1>2 DEF CleanRows
  <2>. QED
    BY <2>1, RowsAdded
<1>. QED
  BY <1>1, <1>5, <1>6, <1>7

\* The row behind it is for whom the request names, or else for whom the node says.
LEMMA RowReaches ==
  ASSUME NEW t, NEW done, NEW new, Added(rows, t, done, new, rows'),
         last'.new = Len(rows) + 1, last'.kind # "rollback", NEW o, last'.operator = o,
         NEW method, method = (IF last'.kind = "return" THEN "applicant" ELSE assign[new.node]),
         assign' = assign, NEW v, inst'.vars.x = v.x, NEW i, i.operator = inst'.operator,
         i.vars.x = inst'.vars.x,
         new.actors = IF last'.named # {} THEN last'.named ELSE Assigned(method, new.node, v, i, o)
  PROVE  RowsReachTheirPeople'
<1>1. rows'[last'.new] = new
  BY DEF Added
<1>2. Assigned(method, new.node, v, i, o) = Assigned(method, new.node, inst'.vars, inst', o)
  <2>1. PICK w, j : w = inst'.vars /\ j = inst'
    OBVIOUS
  <2>. QED
    BY <2>1, SameAssigned
<1>3. new.actors = IF last'.named # {} THEN last'.named
                   ELSE Assigned(IF last'.kind = "return" THEN "applicant" ELSE assign'[new.node],
                                 new.node, inst'.vars, inst', last'.operator)
  BY <1>2
<1>. QED
  BY <1>1, <1>3 DEF RowsReachTheirPeople

LEMMA ReturnGood ==
  ASSUME PeopleArePeople, Clean, NEW t \in DOMAIN rows, NEW o \in People \cup {FlowAdmin},
         NEW args \in Args, Return(t, o, args)
  PROVE  Good
<1>1. PICK v, i2 : v = ExecVars(inst, rows[t], o, args) /\ i2 = Instance(v)
  OBVIOUS
<1>2. MayExecute(t, o) /\ Given(t, args)
  BY DEF Return
<1>3. /\ inst.state = "doing" /\ t \in 1..Len(rows) /\ CleanRows(rows, given) /\ None \in given
      /\ \E done : /\ Submitted(inst, rows[t], o, args, v, i2, done, given, given')
                   /\ Completed(rows, t, o, v) = [rows EXCEPT ![t] = done]
  BY <1>1, <1>2, SubmissionHere
<1>4. PICK done : /\ Submitted(inst, rows[t], o, args, v, i2, done, given, given')
                  /\ Completed(rows, t, o, v) = [rows EXCEPT ![t] = done]
  BY <1>3
<1>5. PICK actors, owes, new :
        /\ actors = Resolved("applicant", First, v, i2, o)
        /\ owes = IF rows[t].node \in ReturnToSource THEN t ELSE 0
        /\ new = NewRow(First, t, actors, owes)
  OBVIOUS
<1>6. inst' = i2 /\ rows' = Append([rows EXCEPT ![t] = done], new)
      /\ last' = Said("return", t, o, args) /\ assign' = assign
  BY <1>1, <1>4, <1>5 DEF Return
<1>7. CleanRow(new, given') /\ new.parent = t /\ new.actors = actors /\ new.node = First
  <2>1. PICK values : values = given'
    OBVIOUS
  <2>2. None \in values
    BY <1>3, <1>4, <2>1 DEF Submitted
  <2>. QED
    BY <1>5, <2>1, <2>2, CleanNew
<1>8. /\ last'.row = t /\ last'.kind = "return" /\ last'.operator = o /\ last'.named = args.op
      /\ last'.new = Len(rows) + 1
  BY <1>6 DEF Said
<1>9. t \in Nat
  BY <1>3
<1>10. Clean' /\ FieldStep /\ Added(rows, t, done, new, rows')
  <2>1. new.parent \in Nat /\ new.parent <= t
    BY <1>7, <1>9
  <2>2. last'.row = t
    BY <1>8
  <2>. QED
    BY <1>3, <1>4, <1>6, <1>7, <2>1, <2>2, AddsRow, Zenon
<1>11. RowsReachTheirPeople'
  <2>1. v.op = args.op /\ i2.vars.x = v.x
    BY <1>4 DEF Submitted
  <2>2. new.actors = IF last'.named # {} THEN last'.named ELSE Assigned("applicant", new.node, v, i2, o)
    BY <1>5, <1>7, <1>8, <2>1 DEF Resolved
  <2>. QED
    BY <1>6, <1>8, <1>10, <2>1, <2>2, RowReaches
<1>. QED
  BY <1>10, <1>11 DEF Good

LEMMA ReapplyGood ==
  ASSUME PeopleArePeople, Clean, NEW t \in DOMAIN rows, NEW o \in People \cup {FlowAdmin},
         NEW args \in Args, Reapply(t, o, args)
  PROVE  Good
<1>1. PICK v, i2 : v = ExecVars(inst, rows[t], o, args) /\ i2 = Instance(v)
  OBVIOUS
<1>2. MayExecute(t, o) /\ Given(t, args)
  BY DEF Reapply
<1>3. /\ inst.state = "doing" /\ t \in 1..Len(rows) /\ CleanRows(rows, given) /\ None \in given
      /\ \E done : /\ Submitted(inst, rows[t], o, args, v, i2, done, given, given')
                   /\ Completed(rows, t, o, v) = [rows EXCEPT ![t] = done]
  BY <1>1, <1>2, SubmissionHere
<1>4. PICK done : /\ Submitted(inst, rows[t], o, args, v, i2, done, given, given')
                  /\ Completed(rows, t, o, v) = [rows EXCEPT ![t] = done]
  BY <1>3
<1>5. PICK source, w, new :
        /\ source = rows[rows[t].owes].node /\ w = [v EXCEPT !.op = {}]
        /\ new = NewRow(source, t, Resolved(assign[source], source, w, i2, o), 0)
  OBVIOUS
<1>6. inst' = i2 /\ rows' = Append([rows EXCEPT ![t] = done], new)
      /\ last' = Said("reapply", t, o, [args EXCEPT !.op = {}]) /\ assign' = assign
  BY <1>1, <1>4, <1>5 DEF Reapply
<1>7. /\ CleanRow(new, given') /\ new.parent = t /\ new.node = source
      /\ new.actors = Resolved(assign[source], source, w, i2, o)
  <2>1. PICK values, actors : values = given' /\ actors = Resolved(assign[source], source, w, i2, o)
    OBVIOUS
  <2>2. None \in values
    BY <1>3, <1>4, <2>1 DEF Submitted
  <2>. QED
    <3>1. new = NewRow(source, t, actors, 0)
      BY <1>5, <2>1
    <3>. QED
      BY <2>1, <2>2, <3>1, CleanNew
<1>8. /\ last'.row = t /\ last'.kind = "reapply" /\ last'.operator = o /\ last'.named = {}
      /\ last'.new = Len(rows) + 1
  BY <1>6 DEF Said, Args
<1>9. t \in Nat
  BY <1>3
<1>10. Clean' /\ FieldStep /\ Added(rows, t, done, new, rows')
  <2>1. new.parent \in Nat /\ new.parent <= t
    BY <1>7, <1>9
  <2>2. last'.row = t
    BY <1>8
  <2>. QED
    BY <1>3, <1>4, <1>6, <1>7, <2>1, <2>2, AddsRow, Zenon
<1>11. RowsReachTheirPeople'
  <2>1. v.op = args.op /\ i2.vars.x = v.x
    BY <1>4 DEF Submitted
  <2>2. w.op = {} /\ w.x = v.x
    <3>1. Pool(v)
      BY <1>4 DEF Submitted
    <3>. QED
      BY <1>5, <3>1 DEF Pool
  <2>3. new.actors = Assigned(assign[source], new.node, w, i2, o)
    BY <1>7, <2>2 DEF Resolved
  <2>4. new.actors = IF last'.named # {} THEN last'.named ELSE Assigned(assign[source], new.node, w, i2, o)
    BY <1>8, <2>3
  <2>. QED
    BY <1>6, <1>7, <1>8, <1>10, <2>1, <2>2, <2>4, RowReaches, ZenonT(30)
<1>. QED
  BY <1>10, <1>11 DEF Good

\* One step back: to whoever completed the row, and the applicant's row to a person.
LEMMA RollBackGood ==
  ASSUME PeopleArePeople, Clean, NEW t \in DOMAIN rows, NEW o \in People \cup {FlowAdmin},
         NEW args \in Args, RollBack(t, o, args)
  PROVE  Good
<1>1. PICK v, i2 : v = ExecVars(inst, rows[t], o, args) /\ i2 = Instance(v)
  OBVIOUS
<1>2. MayExecute(t, o) /\ Given(t, args)
  BY DEF RollBack
<1>3. /\ inst.state = "doing" /\ t \in 1..Len(rows) /\ CleanRows(rows, given) /\ None \in given
      /\ \E done : /\ Submitted(inst, rows[t], o, args, v, i2, done, given, given')
                   /\ Completed(rows, t, o, v) = [rows EXCEPT ![t] = done]
  BY <1>1, <1>2, SubmissionHere
<1>4. PICK done : /\ Submitted(inst, rows[t], o, args, v, i2, done, given, given')
                  /\ Completed(rows, t, o, v) = [rows EXCEPT ![t] = done]
  BY <1>3
<1>5. PICK p, his, new :
        /\ p = rows[t].parent /\ his = rows[p]
        /\ new = Row(his.node, his.parent, {RevivedActor(his)}, LineageVars(his.vars), his.owes)
  OBVIOUS
<1>6. inst' = i2 /\ rows' = Append([rows EXCEPT ![t] = done], new) /\ p # 0
      /\ last' = Said("rollback", t, o, args) /\ assign' = assign
  BY <1>1, <1>4, <1>5 DEF RollBack
<1>7. /\ Len(rows) \in Nat /\ t \in Nat /\ p \in 1..Len(rows) /\ p < t
      /\ his.parent \in Nat /\ his.parent < t /\ CleanRow(his, given)
  <2>1. Len(rows) \in Nat
    BY <1>3 DEF CleanRows, IsRows
  <2>2. p \in Nat /\ p < t
    BY <1>3, <1>5 DEF CleanRows
  <2>3. p \in 1..Len(rows)
    BY <1>3, <1>6, <2>1, <2>2
  <2>4. his.parent \in Nat /\ his.parent < p /\ CleanRow(his, given)
    BY <1>3, <1>5, <2>3 DEF CleanRows
  <2>. QED
    BY <1>3, <2>1, <2>2, <2>3, <2>4
<1>8. PICK w, actors : w = LineageVars(his.vars) /\ actors = {RevivedActor(his)}
  OBVIOUS
<1>8a. Pool(w) /\ w.op = {} /\ w.x = his.vars.x /\ w.who = his.vars.who
  <2>1. Pool(his.vars)
    BY <1>7 DEF CleanRow, IsRow
  <2>2. w = [his.vars EXCEPT !.op = {}]
    BY <1>8 DEF LineageVars
  <2>. QED
    BY <2>1, <2>2 DEF Pool
<1>8b. new = [node |-> his.node, state |-> "doing", parent |-> his.parent, actors |-> actors,
             by |-> None, vars |-> w, owes |-> his.owes]
  BY <1>5, <1>8 DEF Row
<1>9. CleanRow(new, given')
  <2>1. w.x \in given' /\ w.who \in People \cup {None}
    BY <1>4, <1>7, <1>8a DEF Submitted, CleanRow
  <2>. QED
    BY <1>8a, <1>8b, <2>1 DEF CleanRow, IsRow, PeopleArePeople
<1>10. last'.row = t /\ last'.kind = "rollback" /\ last'.new = Len(rows) + 1
  BY <1>6 DEF Said
<1>11. Clean' /\ FieldStep /\ Added(rows, t, done, new, rows')
  <2>1. new.parent \in Nat /\ new.parent <= t
    BY <1>7, <1>8b
  <2>2. last'.row = t
    BY <1>10
  <2>. QED
    BY <1>3, <1>4, <1>6, <1>9, <2>1, <2>2, AddsRow, Zenon
<1>12. RowsReachTheirPeople'
  <2>1. /\ rows'[last'.new] = new /\ rows'[last'.row] = done /\ done.parent = p /\ rows'[p] = his
    BY <1>4, <1>5, <1>7, <1>10, <1>11 DEF Added, Submitted
  <2>2. new.actors = {RevivedActor(his)} /\ new.node = his.node
    BY <1>8, <1>8b
  <2>3. his.by \in People => RevivedActor(his) = his.by
    BY <1>7 DEF RevivedActor, CleanRow, PeopleArePeople
  <2>4. his.node = First => RevivedActor(his) \in People
    BY <1>3, <1>7 DEF RevivedActor, CleanRow, Clean, CleanInst
  <2>. QED
    BY <1>10, <2>1, <2>2, <2>3, <2>4 DEF RowsReachTheirPeople
<1>. QED
  BY <1>11, <1>12 DEF Good

\* Going on from a completed row, or to the end.
Advanced(a, rs, t, args, o, v, more) ==
  /\ CleanInst(a.inst, more) /\ CleanRows(a.rows, more)
  /\ a.inst.vars.x = v.x /\ a.inst.state # "none"
  /\ \/ Len(a.rows) = Len(rs)
     \/ /\ Len(a.rows) = Len(rs) + 1
        /\ \E new : /\ new = a.rows[Len(rs) + 1]
                    /\ new.actors = IF args.op # {} THEN args.op
                                    ELSE Assigned(assign[new.node], new.node, a.inst.vars, a.inst, o)

LEMMA AdvanceIs ==
  ASSUME PeopleArePeople, NEW values, None \in values, NEW rs, CleanRows(rs, values),
         NEW t \in 1..Len(rs), NEW i, i.state # "none", NEW r, r = rs[t], NEW more,
         NEW o, NEW args, NEW v, NEW i2, NEW done,
         Submitted(i, r, o, args, v, i2, done, values, more),
         NEW mid, mid = [rs EXCEPT ![t] = done], NEW a, a = Advance(mid, i2, t, v, o)
  PROVE  Advanced(a, rs, t, args, o, v, more)
<1>1. /\ CleanInst(i2, more) /\ CleanRow(done, more) /\ values \subseteq more
      /\ done.parent = rs[t].parent /\ i2.state # "none" /\ i2.vars.x = v.x /\ v.op = args.op
  BY DEF Submitted
<1>2. PICK k : k = Position(mid[t].node) + 1
  OBVIOUS
<1>3. CASE k > Len(Path)
  <2>1. a.rows = mid /\ a.inst = [i2 EXCEPT !.state = "finished"]
    BY <1>2, <1>3 DEF Advance
  <2>2. CleanInst(a.inst, more) /\ a.inst.vars = i2.vars /\ a.inst.state = "finished"
    BY <1>1, <2>1 DEF CleanInst, IsInst
  <2>3. CleanRows(mid, more)
    BY <1>1, CleanReplaced
  <2>4. Len(mid) = Len(rs)
    <3>1. IsRows(rs)
      BY DEF CleanRows
    <3>2. Replaced(rs, t, done, mid)
      BY <3>1, RowsReplaced
    <3>. QED
      BY <3>2 DEF Replaced
  <2>. QED
    BY <1>1, <2>1, <2>2, <2>3, <2>4 DEF Advanced
<1>4. CASE ~(k > Len(Path))
  <2>1. PICK n, actors, new : /\ n = Path[k] /\ actors = Resolved(assign[n], n, v, i2, o)
                              /\ new = NewRow(n, t, actors, 0)
    OBVIOUS
  <2>2. a.rows = Append(mid, new) /\ a.inst = i2
    BY <1>2, <1>4, <2>1 DEF Advance
  <2>3. CleanRow(new, more) /\ new.parent = t /\ new.actors = actors /\ new.node = n
    <3>1. None \in more
      BY <1>1
    <3>. QED
      BY <2>1, <3>1, CleanNew
  <2>4. PICK out : out = Append([rs EXCEPT ![t] = done], new)
    OBVIOUS
  <2>5. new.parent \in Nat /\ new.parent <= t
    BY <2>3
  <2>6. CleanRows(out, more)
    BY <1>1, <2>3, <2>4, <2>5, CleanAdded
  <2>7. Added(rs, t, done, new, out)
    <3>1. IsRows(rs)
      BY DEF CleanRows
    <3>. QED
      BY <2>4, <3>1, RowsAdded
  <2>8. a.rows = out
    BY <2>2, <2>4
  <2>9. Assigned(assign[n], n, v, i2, o) = Assigned(assign[n], n, i2.vars, i2, o)
    <3>1. PICK w : w = i2.vars
      OBVIOUS
    <3>. QED
      BY <1>1, <3>1, SameAssigned
  <2>10. actors = IF args.op # {} THEN args.op ELSE Assigned(assign[n], n, i2.vars, i2, o)
    BY <1>1, <2>1, <2>9 DEF Resolved
  <2>. QED
    <3>1. new = a.rows[Len(rs) + 1] /\ Len(a.rows) = Len(rs) + 1
      BY <2>7, <2>8 DEF Added
    <3>2. new.actors = IF args.op # {} THEN args.op
                       ELSE Assigned(assign[new.node], new.node, a.inst.vars, a.inst, o)
      BY <2>2, <2>3, <2>10
    <3>3. /\ CleanInst(a.inst, more) /\ CleanRows(a.rows, more)
          /\ a.inst.vars.x = v.x /\ a.inst.state # "none"
      BY <1>1, <2>2, <2>6, <2>8
    <3>. QED
      BY <3>1, <3>2, <3>3, Zenon DEF Advanced
<1>. QED
  BY <1>3, <1>4

LEMMA ExecuteGood ==
  ASSUME PeopleArePeople, Clean, NEW t \in DOMAIN rows, NEW o \in People \cup {FlowAdmin},
         NEW args \in Args, Execute(t, o, args)
  PROVE  Good
<1>1. PICK v, i2 : v = ExecVars(inst, rows[t], o, args) /\ i2 = Instance(v)
  OBVIOUS
<1>2. MayExecute(t, o) /\ Given(t, args)
  BY DEF Execute
<1>3. /\ inst.state = "doing" /\ t \in 1..Len(rows) /\ CleanRows(rows, given) /\ None \in given
      /\ \E done : /\ Submitted(inst, rows[t], o, args, v, i2, done, given, given')
                   /\ Completed(rows, t, o, v) = [rows EXCEPT ![t] = done]
  BY <1>1, <1>2, SubmissionHere
<1>4. PICK done : /\ Submitted(inst, rows[t], o, args, v, i2, done, given, given')
                  /\ Completed(rows, t, o, v) = [rows EXCEPT ![t] = done]
  BY <1>3
<1>5. PICK mid, a : mid = [rows EXCEPT ![t] = done] /\ a = Advance(mid, i2, t, v, o)
  OBVIOUS
<1>6. /\ inst' = a.inst /\ rows' = a.rows /\ assign' = assign
      /\ last' = [Said("execute", t, o, args) EXCEPT !.new = IF Len(a.rows) > Len(rows) THEN @ ELSE 0]
  BY <1>1, <1>4, <1>5 DEF Execute
<1>7. PICK more : more = given'
  OBVIOUS
<1>8. Advanced(a, rows, t, args, o, v, more)
  <2>1. PICK i, r, values : i = inst /\ r = rows[t] /\ values = given
    OBVIOUS
  <2>2. Submitted(i, r, o, args, v, i2, done, values, more) /\ i.state # "none"
        /\ CleanRows(rows, values) /\ None \in values
    BY <1>3, <1>4, <1>7, <2>1
  <2>. QED
    BY <1>3, <1>5, <2>1, <2>2, AdvanceIs
<1>9. /\ last'.row = t /\ last'.kind = "execute" /\ last'.operator = o /\ last'.named = args.op
      /\ last'.new = IF Len(a.rows) > Len(rows) THEN Len(rows) + 1 ELSE 0
  BY <1>6 DEF Said
<1>10. Clean'
  <2>1. None \in given'
    BY <1>3, <1>4 DEF Submitted
  <2>. QED
    BY <1>6, <1>7, <1>8, <2>1 DEF Advanced, Clean
<1>11. FieldStep
  <2>1. v.x \in given' /\ (rows[t].node \notin Editable /\ rows[t].vars.x = None => v.x = inst.vars.x)
    BY <1>4 DEF Submitted, CleanInst
  <2>2. inst'.vars.x = v.x
    BY <1>6, <1>8 DEF Advanced
  <2>. QED
    BY <1>9, <2>1, <2>2 DEF FieldStep
<1>12. RowsReachTheirPeople'
  <2>0. Len(rows) \in Nat
    BY <1>3 DEF CleanRows, IsRows
  <2>1. CASE Len(a.rows) = Len(rows)
    <3>1. last'.new = 0
      BY <1>9, <2>0, <2>1
    <3>. QED
      BY <3>1 DEF RowsReachTheirPeople
  <2>2. CASE Len(a.rows) = Len(rows) + 1
    <3>1. PICK new : /\ new = a.rows[Len(rows) + 1]
                     /\ new.actors = IF args.op # {} THEN args.op
                                     ELSE Assigned(assign[new.node], new.node, a.inst.vars, a.inst, o)
      BY <1>8, <2>0, <2>2 DEF Advanced
    <3>2. last'.new = Len(rows) + 1
      BY <1>9, <2>0, <2>2
    <3>. QED
      BY <1>6, <1>9, <3>1, <3>2 DEF RowsReachTheirPeople
  <2>. QED
    BY <1>8, <2>1, <2>2 DEF Advanced
<1>. QED
  BY <1>10, <1>11, <1>12 DEF Good

\* What a start makes: the instance and the first row.
Begun(s, p, args, values) ==
  /\ CleanInst(s.inst, values) /\ s.inst.state = "doing"
  /\ s.inst.operator = p /\ s.inst.vars.x = args.x
  /\ \E new : /\ s.rows = <<new>> /\ CleanRow(new, values) /\ new.parent = 0
              /\ new.node = First /\ new.vars.op = {}
              /\ new.actors = Assigned(assign[First], First, s.inst.vars, s.inst, p)

LEMMA StartedIs ==
  ASSUME PeopleArePeople, NEW p \in Applicants, NEW args, Pool(args), args.op = {}, args.who = None,
         NEW s, s = Started(p, args), NEW values, values = {None, args.x}
  PROVE  Begun(s, p, args, values)
<1>1. p \in People /\ p \notin {FlowAuto, FlowAdmin, None}
  BY DEF PeopleArePeople
<1>2. PICK v : v = [args EXCEPT !.who = p]
  OBVIOUS
<1>3. v = [x |-> args.x, op |-> {}, who |-> p]
  BY <1>2 DEF Pool
<1>4. AddUserInfo(p, args) = v
  BY <1>1, <1>2 DEF AddUserInfo
<1>5. PICK i : i = [state |-> "doing", operator |-> p, vars |-> v]
  OBVIOUS
<1>6. PICK actors, new : /\ actors = Resolved(assign[First], First, v, i, p)
                         /\ new = NewRow(First, 0, actors, 0)
  OBVIOUS
<1>7. s = [inst |-> i, rows |-> <<new>>]
  BY <1>4, <1>5, <1>6, Zenon DEF Started
<1>8. s.inst = i /\ s.rows = <<new>>
  BY <1>7
<1>9. CleanInst(i, values) /\ i.state = "doing" /\ i.operator = p /\ i.vars = v
  BY <1>1, <1>3, <1>5 DEF CleanInst, IsInst, Pool
<1>10. CleanRow(new, values) /\ new.parent = 0 /\ new.actors = actors /\ new.node = First
  <2>1. None \in values
    OBVIOUS
  <2>. QED
    BY <1>6, <2>1, CleanNew
<1>11. new.vars.op = {}
  BY <1>6 DEF NewRow, Row, NoVars
<1>12. actors = Assigned(assign[First], First, v, i, p)
  BY <1>3, <1>6 DEF Resolved
<1>. QED
  BY <1>3, <1>8, <1>9, <1>10, <1>11, <1>12 DEF Begun

LEMMA OneRow ==
  ASSUME NEW values, NEW new, CleanRow(new, values), new.parent = 0
  PROVE  CleanRows(<<new>>, values) /\ Len(<<new>>) = 1
<1>1. PICK rs : rs = <<new>>
  OBVIOUS
<1>2. rs \in Seq({new}) /\ Len(rs) = 1 /\ rs[1] = new
  BY <1>1
<1>3. IsRows(rs)
  BY <1>2 DEF IsRows
<1>4. \A k \in 1..Len(rs) : CleanRow(rs[k], values) /\ rs[k].parent \in Nat /\ rs[k].parent < k
  BY <1>2
<1>. QED
  BY <1>1, <1>2, <1>3, <1>4 DEF CleanRows

LEMMA StartGood ==
  ASSUME PeopleArePeople, Clean, NEW p \in Applicants, NEW args \in Args, Start(p, args)
  PROVE  Good
<1>1. PICK s : s = Started(p, args)
  OBVIOUS
<1>2. /\ inst.state = "none" /\ args.op = {} /\ assign' = assign
      /\ inst' = s.inst /\ rows' = s.rows /\ given' = {None, args.x}
      /\ last' = [Said("start", 0, p, args) EXCEPT !.new = 1]
  BY <1>1 DEF Start
<1>3. PICK values : values = {None, args.x}
  OBVIOUS
<1>4. Begun(s, p, args, values)
  <2>1. Pool(args) /\ args.who = None
    BY DEF Args, Pool
  <2>. QED
    BY <1>1, <1>2, <1>3, <2>1, StartedIs
<1>5. PICK new : /\ s.rows = <<new>> /\ CleanRow(new, values) /\ new.parent = 0
                 /\ new.node = First
                 /\ new.actors = Assigned(assign[First], First, s.inst.vars, s.inst, p)
  BY <1>4 DEF Begun
<1>6. Clean'
  <2>1. CleanRows(<<new>>, values)
    BY <1>5, OneRow
  <2>2. /\ CleanInst(inst', given') /\ CleanRows(rows', given') /\ None \in given'
        /\ inst'.state # "none"
    BY <1>2, <1>3, <1>4, <1>5, <2>1 DEF Begun
  <2>. QED
    BY <2>2 DEF Clean
<1>7. FieldStep
  BY <1>2, <1>4 DEF FieldStep, Begun
<1>8. RowsReachTheirPeople'
  <2>1. last'.new = 1 /\ last'.kind = "start" /\ last'.operator = p /\ last'.named = {}
    BY <1>2 DEF Said
  <2>2. rows'[1] = new
    BY <1>2, <1>5
  <2>. QED
    BY <1>2, <1>5, <2>1, <2>2 DEF RowsReachTheirPeople
<1>. QED
  BY <1>6, <1>7, <1>8 DEF Good

\* flow.auto is nobody, so the first row is submitted with the applicant's data.
LEMMA StartAndExecuteGood ==
  ASSUME PeopleArePeople, Clean, NEW p \in Applicants, NEW args \in Args, StartAndExecute(p, args)
  PROVE  Good
<1>1. PICK bare, s : bare = [args EXCEPT !.op = {}] /\ s = Started(p, bare)
  OBVIOUS
<1>2. PICK given1 : given1 = [s.rows EXCEPT ![1].actors = @ \cup {p}]
  OBVIOUS
<1>3. PICK v : v = ExecVars(s.inst, given1[1], FlowAuto, args)
  OBVIOUS
<1>4. PICK i2, a : /\ i2 = [s.inst EXCEPT !.vars = Merged(@, v)]
                   /\ a = Advance(Completed(given1, 1, FlowAuto, v), i2, 1, v, FlowAuto)
  OBVIOUS
<1>5. /\ inst.state = "none" /\ assign' = assign /\ given' = {None, args.x}
      /\ inst' = a.inst /\ rows' = a.rows
      /\ last' = [Said("execute", 1, FlowAuto, args) EXCEPT !.new = IF Len(a.rows) > 1 THEN 2 ELSE 0]
  BY <1>1, <1>2, <1>3, <1>4 DEF StartAndExecute
<1>6. PICK values : values = {None, args.x}
  OBVIOUS
<1>7. Pool(bare) /\ bare.op = {} /\ bare.x = args.x /\ bare.who = None
  BY <1>1 DEF Args, Pool
<1>8. /\ CleanInst(s.inst, values) /\ s.inst.state = "doing"
      /\ \E new : /\ s.rows = <<new>> /\ CleanRow(new, values) /\ new.parent = 0
                  /\ new.vars.op = {}
  <2>1. values = {None, bare.x}
    BY <1>6, <1>7
  <2>2. Begun(s, p, bare, values)
    BY <1>1, <1>7, <2>1, StartedIs
  <2>. QED
    BY <2>2 DEF Begun
<1>9. PICK new : /\ s.rows = <<new>> /\ CleanRow(new, values) /\ new.parent = 0 /\ new.vars.op = {}
  BY <1>8
<1>10. PICK r : r = [new EXCEPT !.actors = @ \cup {p}]
  OBVIOUS
<1>11. CleanRow(r, values) /\ r.parent = 0 /\ r.vars.op = {} /\ r.node = new.node
  <2>1. r = [node |-> new.node, state |-> new.state, parent |-> new.parent,
             actors |-> new.actors \cup {p}, by |-> new.by, vars |-> new.vars, owes |-> new.owes]
    BY <1>9, <1>10 DEF CleanRow, IsRow
  <2>. QED
    BY <1>9, <2>1 DEF CleanRow, IsRow
<1>12. given1 = <<r>>
  BY <1>2, <1>9, <1>10
<1>13. CleanRows(given1, values) /\ Len(given1) = 1 /\ given1[1] = r
  BY <1>11, <1>12, OneRow
<1>14. PICK done : done = [r EXCEPT !.state = "done", !.by = FlowAuto, !.vars = v]
  OBVIOUS
<1>15. PICK mid : mid = [given1 EXCEPT ![1] = done]
  OBVIOUS
<1>16. Completed(given1, 1, FlowAuto, v) = mid
  BY <1>12, <1>14, <1>15 DEF Completed
<1>17. PICK more : more = IF r.node \in Editable THEN values \cup {args.x} ELSE values
  OBVIOUS
<1>18. more = values
  BY <1>6, <1>17
<1>19. PICK i, o : i = s.inst /\ o = FlowAuto
  OBVIOUS
<1>20. Submitted(i, r, o, args, v, i2, done, values, more)
  BY <1>3, <1>4, <1>8, <1>11, <1>13, <1>14, <1>17, <1>19, SubmissionIs
<1>21. Advanced(a, given1, 1, args, o, v, more)
  <2>1. /\ None \in values /\ 1 \in 1..Len(given1) /\ i.state # "none" /\ r = given1[1]
        /\ a = Advance(mid, i2, 1, v, o)
    BY <1>4, <1>6, <1>8, <1>13, <1>16, <1>19
  <2>. QED
    BY <1>13, <1>15, <1>20, <2>1, AdvanceIs
<1>22. /\ last'.row = 1 /\ last'.kind = "execute" /\ last'.operator = o /\ last'.named = args.op
       /\ last'.new = IF Len(a.rows) > 1 THEN 2 ELSE 0
  BY <1>5, <1>19 DEF Said
<1>23. Clean'
  <2>1. CleanInst(inst', given') /\ CleanRows(rows', given') /\ None \in given' /\ inst'.state # "none"
    BY <1>5, <1>6, <1>18, <1>21 DEF Advanced
  <2>. QED
    BY <2>1 DEF Clean
<1>24. FieldStep
  <2>1. inst'.vars.x \in given'
    BY <1>5, <1>6, <1>18, <1>21 DEF Advanced, CleanInst
  <2>. QED
    BY <1>5, <2>1 DEF FieldStep
<1>25. RowsReachTheirPeople'
  <2>1. CASE Len(a.rows) = 1
    <3>1. last'.new = 0
      BY <1>22, <2>1
    <3>. QED
      BY <3>1 DEF RowsReachTheirPeople
  <2>2. CASE Len(a.rows) = 2
    <3>1. PICK next : /\ next = a.rows[2]
                      /\ next.actors = IF args.op # {} THEN args.op
                                       ELSE Assigned(assign[next.node], next.node, a.inst.vars, a.inst, o)
      BY <1>13, <1>21, <2>2 DEF Advanced
    <3>2. last'.new = 2
      BY <1>22, <2>2
    <3>. QED
      BY <1>5, <1>22, <3>1, <3>2 DEF RowsReachTheirPeople
  <2>. QED
    BY <1>13, <1>21, <2>1, <2>2 DEF Advanced
<1>. QED
  BY <1>23, <1>24, <1>25 DEF Good

-----------------------------------------------------------------------------
(* The theorems.                                                           *)

LEMMA Initially ==
  ASSUME Init
  PROVE  Clean /\ RowsReachTheirPeople
BY DEF Init, Clean, RowsReachTheirPeople

LEMMA StepIsGood ==
  ASSUME PeopleArePeople, Clean, Next
  PROVE  Good
<1>1. PICK args \in Args :
        \/ \E p \in Applicants : Start(p, args) \/ StartAndExecute(p, args)
        \/ \E t \in DOMAIN rows : \E o \in People \cup {FlowAdmin} :
             Execute(t, o, args) \/ Reapply(t, o, args) \/ Return(t, o, args) \/ RollBack(t, o, args)
  BY DEF Next
<1>2. CASE \E p \in Applicants : Start(p, args) \/ StartAndExecute(p, args)
  BY <1>2, StartGood, StartAndExecuteGood
<1>3. CASE \E t \in DOMAIN rows : \E o \in People \cup {FlowAdmin} :
             Execute(t, o, args) \/ Reapply(t, o, args) \/ Return(t, o, args) \/ RollBack(t, o, args)
  BY <1>3, ExecuteGood, ReapplyGood, ReturnGood, RollBackGood
<1>. QED
  BY <1>1, <1>2, <1>3

\* No control key outlives its request, every value was given, and a row holds
\* the data of the person who completed it (_prepare_execute_task,
\* _merge_exec_into_instance, _lineage_vars).
THEOREM CleanAlways ==
  ASSUME PeopleArePeople
  PROVE  Spec => [](Clean /\ RowsReachTheirPeople)
<1>1. Init => Clean /\ RowsReachTheirPeople
  BY Initially
<1>2. Clean /\ RowsReachTheirPeople /\ [Next]_vars => (Clean /\ RowsReachTheirPeople)'
  <2>1. CASE Clean /\ Next
    BY <2>1, StepIsGood DEF Good
  <2>2. CASE Clean /\ RowsReachTheirPeople /\ UNCHANGED vars
    BY <2>2 DEF vars, Clean, RowsReachTheirPeople
  <2>. QED
    BY <2>1, <2>2
<1>. QED
  BY <1>1, <1>2, PTL DEF Spec

\* A new row is for whom its own request or its node names, and a row that is
\* brought back for the person who completed it, for every path and assignment.
THEOREM PeopleAreReached ==
  ASSUME PeopleArePeople
  PROVE  Spec => []RowsReachTheirPeople
BY CleanAlways, PTL

\* The u_ keys of an instance are its applicant's for good.
THEOREM InitiatorStays ==
  ASSUME PeopleArePeople
  PROVE  Spec => []InitiatorKept
<1>1. Clean => InitiatorKept
  BY DEF Clean, CleanInst, InitiatorKept
<1>. QED
  BY <1>1, CleanAlways, PTL

\* Read-only fields stay as they are, and no value comes from nowhere.
THEOREM ReadOnlyStays ==
  ASSUME PeopleArePeople
  PROVE  Spec => FieldsKept
<1>1. Clean /\ [Next]_vars => [FieldStep]_vars
  BY StepIsGood DEF Good
<1>2. [][FieldStep]_vars => FieldsKept
  BY PTL DEF FieldsKept, FieldStep
<1>. QED
  BY <1>1, <1>2, CleanAlways, PTL DEF Spec
=============================================================================
