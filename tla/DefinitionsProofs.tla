-------------------------- MODULE DefinitionsProofs --------------------------
(***************************************************************************)
(* What the handlers of the facade leave in the tables of definitions,     *)
(* instances, designs and drafts, for any number of requests that overlap  *)
(* in any way except the pairs each theorem names.                         *)
(***************************************************************************)
EXTENDS Definitions, FiniteSetTheorems, WellFoundedInduction, TLAPS

(***************************************************************************)
(* Rows, tables and what requests have read.                               *)
(***************************************************************************)
IsDefine(d) ==
  /\ d = [id |-> d.id, name |-> d.name, version |-> d.version, state |-> d.state, content |-> d.content]
  /\ d.id \in Int /\ d.version \in Nat
IsDesign(d) == d = [id |-> d.id, name |-> d.name, deployed |-> d.deployed]
IsSnapshot(h) ==
  /\ h = [id |-> h.id, design |-> h.design, content |-> h.content, serial |-> h.serial]
  /\ h.id \in Nat
Shaped(t) == t = [defines |-> t.defines, instances |-> t.instances, designs |-> t.designs, his |-> t.his]
IsTables(t) ==
  /\ Shaped(t)
  /\ \A d \in t.defines : IsDefine(d)
  /\ \A d \in t.designs : IsDesign(d)
  /\ \A h \in t.his : IsSnapshot(h)

\* Ids are keys.
Keyed(t) ==
  /\ \A d, e \in t.defines : d.id = e.id => d = e
  /\ \A d, e \in t.designs : d.id = e.id => d = e
  /\ \A g, h \in t.his : g.id = h.id => g = h

\* There is a highest version.
Bounded(t) == \E n \in Nat : \A d \in t.defines : d.version <= n

Sane(t) == IsTables(t) /\ Keyed(t) /\ Bounded(t)

Generator == [last : Nat, seq : Nat]

Reads(r) == [call |-> req[r].call, seen |-> req[r].seen]
Ready(r) ==
  req[r] = Idle \/ (req[r] = Reads(r) /\ req[r].call \in Calls /\ Sane(req[r].seen))

TypeInv ==
  /\ repo \in {"sql", "memory"}
  /\ Sane(db)
  /\ \A r \in Requests : Ready(r)
  /\ DOMAIN req = Requests /\ req = [r \in Requests |-> req[r]]
  /\ gen.def \in Generator /\ gen.ext \in Generator
  /\ now \in Nat /\ setBack \in BOOLEAN

LEMMA NewIds ==
  ASSUME NEW g \in Generator, now \in Nat
  PROVE  NewId(g) \in Generator /\ IdOf(NewId(g)) \in Nat
BY DefinitionsAssumption DEF Generator, NewId, next_id, IdOf

(***************************************************************************)
(* The writes, table by table.                                             *)
(***************************************************************************)
NewDefine(id, content, version) ==
  [id |-> id, name |-> content.name, version |-> Stored(version), state |-> 1, content |-> content]

LEMMA SavesDefine ==
  ASSUME NEW t, IsTables(t), NEW id, NEW content, NEW version
  PROVE  LET u == save_define(t, id, content, version)
         IN /\ u.defines = {d \in t.defines : d.id # id} \cup {NewDefine(id, content, version)}
            /\ u.instances = t.instances /\ u.designs = t.designs /\ u.his = t.his
            /\ Shaped(u)
<1>1. PICK U : U = {d \in t.defines : d.id # id} \cup {NewDefine(id, content, version)}
  OBVIOUS
<1>2. save_define(t, id, content, version) = [t EXCEPT !.defines = U]
  BY <1>1, Zenon DEF save_define, NewDefine
<1>. QED
  BY <1>1, <1>2 DEF IsTables, Shaped

LEMMA UpdatesDefine ==
  ASSUME NEW t, IsTables(t), NEW d
  PROVE  LET u == update_define(t, d)
         IN /\ \/ u.defines = t.defines /\ repo = "sql" /\ find_define_by_id(t, d.id) = {}
               \/ /\ u.defines = {e \in t.defines : e.id # d.id} \cup {d}
                  /\ repo = "sql" => find_define_by_id(t, d.id) # {}
            /\ u.instances = t.instances /\ u.designs = t.designs /\ u.his = t.his
            /\ Shaped(u)
BY DEF update_define, IsTables, Shaped

LEMMA UpdatesDesign ==
  ASSUME NEW t, IsTables(t), NEW d
  PROVE  LET u == update_design(t, d)
         IN /\ \/ u.designs = t.designs /\ repo = "sql" /\ find_design_by_id(t, d.id) = {}
               \/ u.designs = {e \in t.designs : e.id # d.id} \cup {d}
            /\ u.defines = t.defines /\ u.instances = t.instances /\ u.his = t.his
            /\ Shaped(u)
BY DEF update_design, IsTables, Shaped

Own(t, id) == {h \in t.his : h.design = id}
Snapshot(t, id, design, content) ==
  [id |-> id, design |-> design, content |-> content, serial |-> Cardinality(Own(t, design))]

LEMMA SavesSnapshot ==
  ASSUME NEW t, IsTables(t), NEW id, NEW design, NEW content
  PROVE  LET u == save_design_his(t, id, design, content)
         IN /\ u.his = t.his \cup {Snapshot(t, id, design, content)}
            /\ u.defines = t.defines /\ u.instances = t.instances /\ u.designs = t.designs
            /\ Shaped(u)
<1>1. PICK n : n = Snapshot(t, id, design, content)
  OBVIOUS
<1>2. save_design_his(t, id, design, content) = [t EXCEPT !.his = t.his \cup {n}]
  BY <1>1 DEF save_design_his, Snapshot, Own, IsTables, Shaped
<1>. QED
  BY <1>1, <1>2 DEF IsTables, Shaped

(***************************************************************************)
(* What a handler does to the definitions and the instances, and what it   *)
(* does to the designs and their drafts.                                   *)
(***************************************************************************)
Drafting == {"saveAgain", "updateDefine"}
Deploying == {"deploy", "deployDesign"}
Replacing == {"redeploy", "redeployDesign"}
Flagging == {"deployDesign", "redeployDesign", "updateDesign"}

SameInstances(t, a) == a.t.instances = t.instances
SameDrafts(t, a) == a.t.designs = t.designs /\ a.t.his = t.his /\ a.ext = gen.ext
SameDefines(t, a) == a.t.defines = t.defines /\ SameInstances(t, a) /\ a.def = gen.def

\* A new definition under its id: over SQL the id is new, in memory a row that
\* has it is replaced.
Added(s, t, a, content) ==
  LET g == NewId(gen.def)
  IN /\ repo = "sql" => find_define_by_id(t, IdOf(g)) = {}
     /\ a.id = IdOf(g) /\ a.def = g /\ a.new = {content}
     /\ a.t.defines = {d \in t.defines : d.id # IdOf(g)}
                       \cup {NewDefine(IdOf(g), content, NextVersion(s, content.name))}
     /\ SameInstances(t, a)

\* A definition written over, with the state and the version that were read.
Rewritten(s, t, a, d) ==
  /\ IsDefine(d)
  /\ \/ \E old \in s.defines : old.id = d.id /\ old.state = d.state /\ old.version = d.version
     \/ find_define_by_id(s, d.id) = {} /\ d.state = 1
  /\ a.t.defines = update_define(t, d).defines /\ SameInstances(t, a) /\ a.def = gen.def
  /\ a.new = {d.content}

ToDefines(c, s, t, a) ==
  \/ SameDefines(t, a) /\ (a.ok => c.kind \notin Deploying)
  \/ c.kind \in Deploying \cup {"redeployDesign"} /\ a.ok /\ \E content : Added(s, t, a, content)
  \/ c.kind \in Replacing /\ a.ok /\ \E d : Rewritten(s, t, a, d)
  \/ /\ c.kind = "remove" /\ MayRemoveAll(s, c.ids)
     /\ a.t.defines = {d \in t.defines : d.id \notin c.ids}
     /\ SameInstances(t, a) /\ a.def = gen.def
  \/ /\ c.kind = "upAndDown"
     /\ a.t.defines = {IF d.id \in c.ids THEN [d EXCEPT !.state = c.state] ELSE d : d \in t.defines}
     /\ SameInstances(t, a) /\ a.def = gen.def
  \/ /\ c.kind = "start" /\ find_define_by_id(s, c.id) # {}
     /\ \E i : i.define = c.id /\ a.t.instances = t.instances \cup {i}
     /\ a.t.defines = t.defines /\ a.def = gen.def

\* A design is written with the flag it was read with, or because what was read
\* as its newest draft has been published.
FlagFounded(c, s, a, d) ==
  d.deployed = 1 =>
    \/ c.kind = "updateDesign" /\ \E old \in s.designs : old.id = d.id /\ old.deployed = 1
    \/ c.kind \in {"deployDesign", "redeployDesign"} /\ \E h \in NewestSnapshot(s, d.id) : h.content \in a.new

\* A draft with a new id is added.
Noted(t, a, id, design, content) ==
  /\ ~\E x \in t.his : x.id = id
  /\ a.t.his = t.his \cup {Snapshot(t, id, design, content)}

ToDrafts(c, s, t, a) ==
  \/ SameDrafts(t, a)
  \/ /\ c.kind \in Flagging /\ a.t.his = t.his /\ a.ext = gen.ext
     /\ \E d : IsDesign(d) /\ a.t.designs = update_design(t, d).designs /\ FlagFounded(c, s, a, d)
  \/ /\ c.kind \in Drafting
     /\ \E d : /\ IsDesign(d) /\ d.id = c.id /\ d.deployed = 0
               /\ a.t.designs = update_design(t, d).designs
     /\ \/ a.t.his = t.his /\ a.ext = gen.ext
        \/ Noted(t, a, IdOf(NewId(gen.ext)), c.id, c.content) /\ a.ext = NewId(gen.ext)
  \/ /\ c.kind = "saveNew"
     /\ \E d : /\ IsDesign(d) /\ d.id = IdOf(NewId(gen.ext)) /\ d.deployed = 0
               /\ find_design_by_id(t, d.id) = {} /\ a.t.designs = t.designs \cup {d}
               /\ Noted(t, a, IdOf(NewId(NewId(gen.ext))), d.id, c.content)
     /\ a.ext = NewId(NewId(gen.ext))
  \/ /\ c.kind = "removeDesign"
     /\ a.t.designs = {d \in t.designs : d.id # c.id} /\ a.t.his = {h \in t.his : h.design # c.id}
     /\ a.ext = gen.ext

Effect(c, s, t, a) == Shaped(a.t) /\ a.ok \in BOOLEAN /\ ToDefines(c, s, t, a) /\ ToDrafts(c, s, t, a)

IsAnswer(a) == a = [ok |-> a.ok, t |-> a.t, def |-> a.def, ext |-> a.ext, id |-> a.id, new |-> a.new]

LEMMA DeployIs ==
  ASSUME NEW s, NEW t, IsTables(t), NEW content
  PROVE  LET a == deploy(s, t, content)
         IN /\ IsAnswer(a) /\ Shaped(a.t) /\ SameDrafts(t, a)
            /\ \/ a.ok = FALSE /\ SameDefines(t, a)
               \/ a.ok = TRUE /\ Added(s, t, a, content)
<1>1. PICK g : g = NewId(gen.def)
  OBVIOUS
<1>2. PICK u : u = save_define(t, IdOf(g), content, NextVersion(s, content.name))
  OBVIOUS
<1>3. /\ u.defines = {d \in t.defines : d.id # IdOf(g)}
                        \cup {NewDefine(IdOf(g), content, NextVersion(s, content.name))}
      /\ u.instances = t.instances /\ u.designs = t.designs /\ u.his = t.his /\ Shaped(u)
  BY <1>2, SavesDefine
<1>4. CASE repo = "sql" /\ find_define_by_id(t, IdOf(g)) # {}
  BY <1>1, <1>4 DEF deploy, Refused, SameDrafts, SameDefines, SameInstances, IsTables, IsAnswer
<1>5. CASE ~(repo = "sql" /\ find_define_by_id(t, IdOf(g)) # {})
  <2>1. deploy(s, t, content) = [ok |-> TRUE, t |-> u, def |-> g, ext |-> gen.ext, id |-> IdOf(g), new |-> {content}]
    BY <1>1, <1>2, <1>5 DEF deploy, Done, Refused
  <2>. QED
    BY <1>1, <1>3, <1>5, <2>1 DEF Added, SameDrafts, SameInstances, IsAnswer
<1>. QED
  BY <1>4, <1>5

LEMMA DeployEffect ==
  ASSUME NEW s, NEW t, IsTables(t), NEW c, c.kind = "deploy"
  PROVE  Effect(c, s, t, deploy(s, t, c.content))
BY DeployIs DEF Effect, ToDefines, ToDrafts, Deploying

\* A definition that is written over.
LEMMA ReplacedIs ==
  ASSUME NEW s, NEW d \in s.defines, IsTables(s), NEW content
  PROVE  /\ IsDefine(Replaced(d, content)) /\ Replaced(d, content).id = d.id
         /\ Replaced(d, content).state = d.state /\ Replaced(d, content).version = d.version
         /\ Replaced(d, content).content = content
<1>1. IsDefine(d)
  BY DEF IsTables
<1>2. PICK i, n, v, st, ct : d = [id |-> i, name |-> n, version |-> v, state |-> st, content |-> ct] /\ v \in Nat /\ i \in Int
  BY <1>1 DEF IsDefine
<1>3. PICK e : e = [d EXCEPT !.name = content.name, !.content = content]
  OBVIOUS
<1>4. e = [id |-> e.id, name |-> e.name, version |-> e.version, state |-> e.state, content |-> e.content]
  BY <1>2, <1>3
<1>5. e.id = i /\ e.version = v /\ e.state = st /\ e.content = content
  BY <1>2, <1>3
<1>. QED
  BY <1>2, <1>3, <1>4, <1>5 DEF IsDefine, Replaced

LEMMA RewritesEffect ==
  ASSUME NEW s, NEW t, IsTables(t), NEW d, IsDefine(d), NEW a,
         \/ \E old \in s.defines : old.id = d.id /\ old.state = d.state /\ old.version = d.version
         \/ find_define_by_id(s, d.id) = {} /\ d.state = 1,
         a = [Done(update_define(t, d)) EXCEPT !.new = {d.content}]
  PROVE  Shaped(a.t) /\ a.ok = TRUE /\ Rewritten(s, t, a, d) /\ SameDrafts(t, a)
<1>1. PICK u : u = update_define(t, d)
  OBVIOUS
<1>2. u.instances = t.instances /\ u.designs = t.designs /\ u.his = t.his /\ Shaped(u)
  BY <1>1, UpdatesDefine
<1>3. a = [ok |-> TRUE, t |-> u, def |-> gen.def, ext |-> gen.ext, id |-> 0, new |-> {d.content}]
  BY <1>1 DEF Done, Refused
<1>. QED
  BY <1>1, <1>2, <1>3 DEF Rewritten, SameDrafts, SameInstances

LEMMA RedeployEffect ==
  ASSUME NEW s, IsTables(s), NEW t, IsTables(t), NEW c \in Calls, c.kind = "redeploy"
  PROVE  Effect(c, s, t, redeploy(s, t, c.id, c.content))
<1>1. PICK old, a : old = find_define_by_id(s, c.id) /\ a = redeploy(s, t, c.id, c.content)
  OBVIOUS
<1>2. CASE old = {}
  <2>1. PICK d : d = [id |-> c.id, name |-> c.content.name, version |-> 1, state |-> 1, content |-> c.content]
    OBVIOUS
  <2>2. IsDefine(d) /\ d.state = 1 /\ d.id = c.id /\ d.content = c.content
    BY <2>1, DefinitionsAssumption DEF IsDefine
  <2>3. a = [Done(update_define(t, d)) EXCEPT !.new = {d.content}]
    BY <1>1, <1>2, <2>1, <2>2 DEF redeploy
  <2>4. Shaped(a.t) /\ a.ok = TRUE /\ Rewritten(s, t, a, d) /\ SameDrafts(t, a)
    BY <1>1, <1>2, <2>2, <2>3, RewritesEffect, ZenonT(30)
  <2>. QED
    BY <1>1, <2>4 DEF Effect, ToDefines, ToDrafts, Replacing
<1>3. CASE old # {}
  <2>1. PICK o, d : o = (CHOOSE x \in old : TRUE) /\ d = Replaced(o, c.content)
    OBVIOUS
  <2>2. o \in s.defines
    BY <1>1, <1>3, <2>1 DEF find_define_by_id
  <2>3. IsDefine(d) /\ o.id = d.id /\ o.state = d.state /\ o.version = d.version /\ d.content = c.content
    BY <2>1, <2>2, ReplacedIs
  <2>4. a = [Done(update_define(t, d)) EXCEPT !.new = {d.content}]
    BY <1>1, <1>3, <2>1, <2>3 DEF redeploy
  <2>5. Shaped(a.t) /\ a.ok = TRUE /\ Rewritten(s, t, a, d) /\ SameDrafts(t, a)
    BY <2>2, <2>3, <2>4, RewritesEffect
  <2>. QED
    BY <1>1, <2>5 DEF Effect, ToDefines, ToDrafts, Replacing
<1>. QED
  BY <1>2, <1>3

LEMMA RemoveEffect ==
  ASSUME NEW s, NEW t, IsTables(t), NEW c, c.kind = "remove"
  PROVE  Effect(c, s, t, remove(s, t, c.ids))
<1>1. PICK a : a = remove(s, t, c.ids)
  OBVIOUS
<1>2. CASE ~MayRemoveAll(s, c.ids)
  BY <1>1, <1>2 DEF remove, Refused, Effect, ToDefines, ToDrafts, SameDefines, SameInstances, SameDrafts, IsTables
<1>3. CASE MayRemoveAll(s, c.ids)
  <2>1. PICK u : u = [t EXCEPT !.defines = {d \in @ : d.id \notin c.ids}]
    OBVIOUS
  <2>2. /\ u.defines = {d \in t.defines : d.id \notin c.ids}
        /\ u.instances = t.instances /\ u.designs = t.designs /\ u.his = t.his /\ Shaped(u)
    BY <2>1 DEF IsTables, Shaped
  <2>3. a = Done(u)
    BY <1>1, <1>3, <2>1 DEF remove
  <2>4. a = [ok |-> TRUE, t |-> u, def |-> gen.def, ext |-> gen.ext, id |-> 0, new |-> {}]
    BY <2>3 DEF Done, Refused
  <2>. QED
    BY <1>1, <1>3, <2>2, <2>4 DEF Effect, ToDefines, ToDrafts, SameInstances, SameDrafts
<1>. QED
  BY <1>2, <1>3

LEMMA UpAndDownEffect ==
  ASSUME NEW s, NEW t, IsTables(t), NEW c, c.kind = "upAndDown"
  PROVE  Effect(c, s, t, upAndDown(t, c.ids, c.state))
<1>1. PICK all, u, a :
        /\ all = {IF d.id \in c.ids THEN [d EXCEPT !.state = c.state] ELSE d : d \in t.defines}
        /\ u = [t EXCEPT !.defines = all] /\ a = upAndDown(t, c.ids, c.state)
  OBVIOUS
<1>2. u.defines = all /\ u.instances = t.instances /\ u.designs = t.designs /\ u.his = t.his /\ Shaped(u)
  BY <1>1 DEF IsTables, Shaped
<1>3. update_define_state(t, c.ids, c.state) = u
  BY <1>1 DEF update_define_state, IsTables, Shaped
<1>4. a = [ok |-> TRUE, t |-> u, def |-> gen.def, ext |-> gen.ext, id |-> 0, new |-> {}]
  BY <1>1, <1>3 DEF upAndDown, Done, Refused
<1>5. Shaped(a.t) /\ a.ok = TRUE /\ SameDrafts(t, a)
  BY <1>2, <1>4 DEF SameDrafts
<1>6. ToDefines(c, s, t, a)
  <2>1. a.t.defines = {IF d.id \in c.ids THEN [d EXCEPT !.state = c.state] ELSE d : d \in t.defines}
    <3>1. a.t = u
      BY <1>4
    <3>2. a.t.defines = all
      BY <1>2, <3>1
    <3>. QED
      BY <1>1, <3>2, Zenon
  <2>2. SameInstances(t, a) /\ a.def = gen.def
    BY <1>2, <1>4 DEF SameInstances
  <2>. QED
    BY <2>1, <2>2 DEF ToDefines
<1>. QED
  BY <1>1, <1>5, <1>6 DEF Effect, ToDrafts

LEMMA StartEffect ==
  ASSUME NEW s, NEW t, IsTables(t), NEW c, c.kind = "start"
  PROVE  Effect(c, s, t, start(s, t, c.id))
<1>1. PICK a : a = start(s, t, c.id)
  OBVIOUS
<1>2. CASE find_define_by_id(s, c.id) = {}
  BY <1>1, <1>2 DEF start, Refused, Effect, ToDefines, ToDrafts, SameDefines, SameInstances, SameDrafts, IsTables
<1>3. CASE find_define_by_id(s, c.id) # {}
  <2>1. PICK i, u : i = [serial |-> Cardinality(t.instances), define |-> c.id]
                    /\ u = [t EXCEPT !.instances = t.instances \cup {i}]
    OBVIOUS
  <2>2. /\ u.instances = t.instances \cup {i} /\ i.define = c.id
        /\ u.defines = t.defines /\ u.designs = t.designs /\ u.his = t.his /\ Shaped(u)
    BY <2>1 DEF IsTables, Shaped
  <2>3. a = Done(u)
    BY <1>1, <1>3, <2>1 DEF start, IsTables, Shaped
  <2>4. a = [ok |-> TRUE, t |-> u, def |-> gen.def, ext |-> gen.ext, id |-> 0, new |-> {}]
    BY <2>3 DEF Done, Refused
  <2>5. Shaped(a.t) /\ a.ok = TRUE /\ SameDrafts(t, a)
    BY <2>2, <2>4 DEF SameDrafts
  <2>6. ToDefines(c, s, t, a)
    BY <1>3, <2>2, <2>4 DEF ToDefines
  <2>. QED
    BY <1>1, <2>5, <2>6 DEF Effect, ToDrafts
<1>. QED
  BY <1>2, <1>3

(***************************************************************************)
(* The handlers of designs.                                                *)
(***************************************************************************)
LEMMA NothingDone ==
  ASSUME NEW s, NEW t, IsTables(t), NEW c, c.kind \notin Deploying
  PROVE  Effect(c, s, t, Refused(t)) /\ Effect(c, s, t, Done(t))
BY DEF Effect, ToDefines, ToDrafts, Refused, Done, SameDefines, SameInstances, SameDrafts, IsTables

LEMMA OldDesign ==
  ASSUME NEW s, IsTables(s), NEW id, find_design_by_id(s, id) # {},
         NEW d, d = CHOOSE x \in find_design_by_id(s, id) : TRUE
  PROVE  d \in s.designs /\ d.id = id /\ IsDesign(d)
BY DEF find_design_by_id, IsTables

LEMMA AddsSnapshot ==
  ASSUME NEW t, IsTables(t), NEW design, NEW content
  PROVE  LET a == AddSnapshot(t, design, content)
         IN /\ IsAnswer(a) /\ Shaped(a.t) /\ a.ok \in BOOLEAN
            /\ SameDefines(t, a) /\ a.t.designs = t.designs
            /\ \/ a.t.his = t.his /\ a.ext = gen.ext
               \/ Noted(t, a, IdOf(NewId(gen.ext)), design, content) /\ a.ext = NewId(gen.ext)
<1>1. PICK h, u, a : /\ h = NewId(gen.ext) /\ u = save_design_his(t, IdOf(h), design, content)
                     /\ a = AddSnapshot(t, design, content)
  OBVIOUS
<1>2. /\ u.his = t.his \cup {Snapshot(t, IdOf(h), design, content)}
      /\ u.defines = t.defines /\ u.instances = t.instances /\ u.designs = t.designs /\ Shaped(u)
  BY <1>1, SavesSnapshot
<1>3. CASE \E x \in t.his : x.id = IdOf(h)
  <2>1. a = Refused(t)
    BY <1>1, <1>3 DEF AddSnapshot
  <2>2. a = [ok |-> FALSE, t |-> t, def |-> gen.def, ext |-> gen.ext, id |-> 0, new |-> {}]
    BY <2>1 DEF Refused
  <2>. QED
    BY <1>1, <2>2 DEF SameDefines, SameInstances, IsTables, IsAnswer
<1>4. CASE ~\E x \in t.his : x.id = IdOf(h)
  <2>1. a = [Done(u) EXCEPT !.ext = h]
    BY <1>1, <1>4 DEF AddSnapshot
  <2>2. a = [ok |-> TRUE, t |-> u, def |-> gen.def, ext |-> h, id |-> 0, new |-> {}]
    BY <2>1 DEF Done, Refused
  <2>. QED
    BY <1>1, <1>2, <1>4, <2>2 DEF SameDefines, SameInstances, Noted, IsAnswer
<1>. QED
  BY <1>3, <1>4

\* The designs are written before the draft is added.
LEMMA DesignWritten ==
  ASSUME NEW t, IsTables(t), NEW d, IsDesign(d), NEW u, u = update_design(t, d)
  PROVE  /\ IsTables(u) /\ u.his = t.his /\ u.defines = t.defines /\ u.instances = t.instances
         /\ u.designs = update_design(t, d).designs
         /\ \A id, x, content : Snapshot(u, id, x, content) = Snapshot(t, id, x, content)
         /\ \A a, id, x, content : Noted(u, a, id, x, content) => Noted(t, a, id, x, content)
<1>1. /\ u.designs = t.designs \/ u.designs = {e \in t.designs : e.id # d.id} \cup {d}
      /\ u.defines = t.defines /\ u.instances = t.instances /\ u.his = t.his /\ Shaped(u)
  BY UpdatesDesign
<1>2. \A x \in u.designs : IsDesign(x)
  BY <1>1 DEF IsTables
<1>3. IsTables(u)
  BY <1>1, <1>2 DEF IsTables
<1>4. \A id, x, content : Snapshot(u, id, x, content) = Snapshot(t, id, x, content)
  BY <1>1 DEF Snapshot, Own
<1>. QED
  BY <1>1, <1>3, <1>4 DEF Noted

LEMMA UndeployedIs ==
  ASSUME NEW d, IsDesign(d), NEW content
  PROVE  /\ IsDesign(Undeployed(d, content)) /\ Undeployed(d, content).id = d.id
         /\ Undeployed(d, content).deployed = 0
         /\ IsDesign([Undeployed(d, content) EXCEPT !.name = d.name])
         /\ [Undeployed(d, content) EXCEPT !.name = d.name].id = d.id
         /\ [Undeployed(d, content) EXCEPT !.name = d.name].deployed = 0
<1>1. PICK i, n, f : d = [id |-> i, name |-> n, deployed |-> f]
  BY DEF IsDesign
<1>2. PICK e : e = [d EXCEPT !.name = content.name, !.deployed = 0]
  OBVIOUS
<1>3. e = [id |-> e.id, name |-> e.name, deployed |-> e.deployed] /\ e.id = i /\ e.deployed = 0
  BY <1>1, <1>2
<1>4. PICK k : k = [e EXCEPT !.name = d.name]
  OBVIOUS
<1>5. k = [id |-> k.id, name |-> k.name, deployed |-> k.deployed] /\ k.id = i /\ k.deployed = 0
  BY <1>3, <1>4
<1>. QED
  BY <1>1, <1>2, <1>3, <1>4, <1>5 DEF IsDesign, Undeployed

LEMMA SaveAgainEffect ==
  ASSUME NEW s, IsTables(s), NEW t, IsTables(t), NEW c, c.kind = "saveAgain"
  PROVE  Effect(c, s, t, saveAgain(s, t, c.id, c.content))
<1>1. PICK a : a = saveAgain(s, t, c.id, c.content)
  OBVIOUS
<1>2. CASE find_design_by_id(s, c.id) = {}
  BY <1>2, NothingDone DEF saveAgain, Deploying
<1>3. CASE find_design_by_id(s, c.id) # {}
  <2>1. PICK d, e, u :
          /\ d = CHOOSE x \in find_design_by_id(s, c.id) : TRUE
          /\ e = [Undeployed(d, c.content) EXCEPT !.name = d.name]
          /\ u = update_design(t, e)
    OBVIOUS
  <2>2. IsDesign(e) /\ e.id = c.id /\ e.deployed = 0
    BY <1>3, <2>1, OldDesign, UndeployedIs
  <2>w. u = update_design(t, e) /\ IsDesign(e)
    BY <2>1, <2>2
  <2>3. /\ IsTables(u) /\ u.his = t.his /\ u.defines = t.defines /\ u.instances = t.instances
        /\ \A b, id, x, content : Noted(u, b, id, x, content) => Noted(t, b, id, x, content)
    BY <2>w, DesignWritten
  <2>4. a = AddSnapshot(u, c.id, c.content)
    BY <1>1, <1>3, <2>1 DEF saveAgain
  <2>5. /\ Shaped(a.t) /\ a.ok \in BOOLEAN
        /\ SameDefines(u, a) /\ a.t.designs = u.designs
        /\ \/ a.t.his = u.his /\ a.ext = gen.ext
           \/ Noted(u, a, IdOf(NewId(gen.ext)), c.id, c.content) /\ a.ext = NewId(gen.ext)
    BY <2>3, <2>4, AddsSnapshot
  <2>6. ToDefines(c, s, t, a)
    BY <2>3, <2>5 DEF ToDefines, SameDefines, SameInstances, Deploying
  <2>7. ToDrafts(c, s, t, a)
    <3>1. a.t.designs = update_design(t, e).designs
      BY <2>1, <2>5
    <3>2. \/ a.t.his = t.his /\ a.ext = gen.ext
          \/ Noted(t, a, IdOf(NewId(gen.ext)), c.id, c.content) /\ a.ext = NewId(gen.ext)
      BY <2>3, <2>5
    <3>. QED
      BY <2>2, <3>1, <3>2 DEF ToDrafts, Drafting
  <2>. QED
    BY <1>1, <2>5, <2>6, <2>7 DEF Effect
<1>. QED
  BY <1>2, <1>3

\* What is written to the designs depends on the designs alone.
LEMMA SameDesignsWritten ==
  ASSUME NEW t, Shaped(t), NEW u, Shaped(u), u.designs = t.designs, NEW d
  PROVE  /\ update_design(u, d).designs = update_design(t, d).designs
         /\ update_design(u, d).his = u.his /\ update_design(u, d).defines = u.defines
         /\ update_design(u, d).instances = u.instances /\ Shaped(update_design(u, d))
BY DEF update_design, find_design_by_id, Shaped

LEMMA UpdateDefineEffect ==
  ASSUME NEW s, IsTables(s), NEW t, IsTables(t), NEW c, c.kind = "updateDefine"
  PROVE  Effect(c, s, t, updateDefine(s, t, c.id, c.content))
<1>1. PICK a : a = updateDefine(s, t, c.id, c.content)
  OBVIOUS
<1>2. CASE find_design_by_id(s, c.id) = {}
  BY <1>2, NothingDone DEF updateDefine, Deploying
<1>3. CASE find_design_by_id(s, c.id) # {}
  <2>1. PICK d, e, same, w :
          /\ d = CHOOSE x \in find_design_by_id(s, c.id) : TRUE
          /\ e = Undeployed(d, c.content)
          /\ same = \E h \in NewestSnapshot(s, c.id) : h.content = c.content
          /\ w = IF same THEN Done(t) ELSE AddSnapshot(t, c.id, c.content)
    OBVIOUS
  <2>2. IsDesign(e) /\ e.id = c.id /\ e.deployed = 0
    <3>1. d.id = c.id /\ IsDesign(d)
      BY <1>3, <2>1, OldDesign
    <3>. QED
      BY <2>1, <3>1, UndeployedIs, ZenonT(30)
  <2>3. /\ IsAnswer(w) /\ Shaped(w.t) /\ w.ok \in BOOLEAN
        /\ SameDefines(t, w) /\ w.t.designs = t.designs
        /\ \/ w.t.his = t.his /\ w.ext = gen.ext
           \/ Noted(t, w, IdOf(NewId(gen.ext)), c.id, c.content) /\ w.ext = NewId(gen.ext)
    <3>1. CASE w = Done(t)
      BY <3>1 DEF Done, Refused, IsAnswer, SameDefines, SameInstances, IsTables
    <3>2. CASE w = AddSnapshot(t, c.id, c.content)
      BY <3>2, AddsSnapshot
    <3>. QED
      BY <2>1, <3>1, <3>2
  <2>4. a = [w EXCEPT !.t = update_design(w.t, e)]
    BY <1>1, <1>3, <2>1, <2>3 DEF updateDefine, IsAnswer
  <2>5. PICK u : u = update_design(w.t, e)
    OBVIOUS
  <2>6. u.designs = update_design(t, e).designs /\ u.his = w.t.his /\ u.defines = w.t.defines
        /\ u.instances = w.t.instances /\ Shaped(u)
    BY <2>3, <2>5, SameDesignsWritten DEF IsTables
  <2>7. a = [ok |-> w.ok, t |-> u, def |-> w.def, ext |-> w.ext, id |-> w.id, new |-> w.new]
    BY <2>3, <2>4, <2>5 DEF IsAnswer
  <2>8. ToDefines(c, s, t, a)
    BY <2>3, <2>6, <2>7 DEF ToDefines, SameDefines, SameInstances, Deploying
  <2>9. ToDrafts(c, s, t, a)
    <3>1. a.t.designs = update_design(t, e).designs
      BY <2>6, <2>7
    <3>2. \/ a.t.his = t.his /\ a.ext = gen.ext
          \/ Noted(t, a, IdOf(NewId(gen.ext)), c.id, c.content) /\ a.ext = NewId(gen.ext)
      BY <2>3, <2>6, <2>7 DEF Noted
    <3>. QED
      BY <2>2, <3>1, <3>2 DEF ToDrafts, Drafting
  <2>. QED
    BY <1>1, <2>3, <2>6, <2>7, <2>8, <2>9 DEF Effect
<1>. QED
  BY <1>2, <1>3

LEMMA UpdateDesignEffect ==
  ASSUME NEW s, IsTables(s), NEW t, IsTables(t), NEW c, c.kind = "updateDesign"
  PROVE  Effect(c, s, t, updateDesign(s, t, c.id, c.name))
<1>1. PICK a : a = updateDesign(s, t, c.id, c.name)
  OBVIOUS
<1>2. CASE find_design_by_id(s, c.id) = {}
  BY <1>2, NothingDone DEF updateDesign, Deploying
<1>3. CASE find_design_by_id(s, c.id) # {}
  <2>1. PICK d, e, u : /\ d = CHOOSE x \in find_design_by_id(s, c.id) : TRUE
                       /\ e = [d EXCEPT !.name = c.name] /\ u = update_design(t, e)
    OBVIOUS
  <2>2. d \in s.designs /\ d.id = c.id /\ IsDesign(d)
    BY <1>3, <2>1, OldDesign
  <2>3. PICK i, n, f : d = [id |-> i, name |-> n, deployed |-> f]
    BY <2>2 DEF IsDesign
  <2>4. IsDesign(e) /\ e.id = d.id /\ e.deployed = d.deployed
    BY <2>1, <2>3 DEF IsDesign
  <2>5. u.his = t.his /\ u.defines = t.defines /\ u.instances = t.instances /\ Shaped(u)
    BY <2>1, SameDesignsWritten DEF IsTables
  <2>6. a = [ok |-> TRUE, t |-> u, def |-> gen.def, ext |-> gen.ext, id |-> 0, new |-> {}]
    BY <1>1, <1>3, <2>1 DEF updateDesign, Done, Refused
  <2>7. ToDefines(c, s, t, a)
    BY <2>5, <2>6 DEF ToDefines, SameDefines, SameInstances, Deploying
  <2>8. FlagFounded(c, s, a, e)
    BY <2>2, <2>4 DEF FlagFounded
  <2>9. ToDrafts(c, s, t, a)
    BY <2>1, <2>4, <2>5, <2>6, <2>8 DEF ToDrafts, Flagging
  <2>. QED
    BY <1>1, <2>5, <2>6, <2>7, <2>9 DEF Effect
<1>. QED
  BY <1>2, <1>3

LEMMA SaveNewEffect ==
  ASSUME NEW s, NEW t, IsTables(t), NEW c, c.kind = "saveNew"
  PROVE  Effect(c, s, t, saveNew(t, c.content))
<1>1. PICK a, g, h, d, w, u :
        /\ a = saveNew(t, c.content) /\ g = NewId(gen.ext) /\ h = NewId(g)
        /\ d = [id |-> IdOf(g), name |-> c.content.name, deployed |-> 0]
        /\ w = [t EXCEPT !.designs = @ \cup {d}]
        /\ u = save_design_his(w, IdOf(h), IdOf(g), c.content)
  OBVIOUS
<1>2. IsDesign(d) /\ d.id = IdOf(g) /\ d.deployed = 0
  BY <1>1 DEF IsDesign
<1>3. /\ w.designs = t.designs \cup {d} /\ w.his = t.his
      /\ w.defines = t.defines /\ w.instances = t.instances /\ Shaped(w)
  BY <1>1 DEF IsTables, Shaped
<1>4. IsTables(w)
  BY <1>2, <1>3 DEF IsTables
<1>5. /\ u.his = t.his \cup {Snapshot(w, IdOf(h), IdOf(g), c.content)}
      /\ u.defines = t.defines /\ u.instances = t.instances /\ u.designs = t.designs \cup {d} /\ Shaped(u)
  <2>1. u = save_design_his(w, IdOf(h), IdOf(g), c.content)
    BY <1>1
  <2>2. /\ u.his = w.his \cup {Snapshot(w, IdOf(h), IdOf(g), c.content)}
        /\ u.defines = w.defines /\ u.instances = w.instances /\ u.designs = w.designs /\ Shaped(u)
    BY <1>4, <2>1, SavesSnapshot
  <2>. QED
    BY <1>3, <2>2
<1>6. Snapshot(w, IdOf(h), IdOf(g), c.content) = Snapshot(t, IdOf(h), IdOf(g), c.content)
  BY <1>3 DEF Snapshot, Own
<1>7. CASE find_design_by_id(t, IdOf(g)) # {} \/ \E x \in t.his : x.id = IdOf(h)
  BY <1>1, <1>7, NothingDone DEF saveNew, Deploying
<1>8. CASE ~(find_design_by_id(t, IdOf(g)) # {} \/ \E x \in t.his : x.id = IdOf(h))
  <2>1. a = [Done(u) EXCEPT !.ext = h]
    BY <1>1, <1>8, Zenon DEF saveNew
  <2>2. a = [ok |-> TRUE, t |-> u, def |-> gen.def, ext |-> h, id |-> 0, new |-> {}]
    BY <2>1 DEF Done, Refused
  <2>3. ToDefines(c, s, t, a)
    BY <1>5, <2>2 DEF ToDefines, SameDefines, SameInstances, Deploying
  <2>4. Noted(t, a, IdOf(NewId(NewId(gen.ext))), d.id, c.content)
    BY <1>1, <1>2, <1>5, <1>6, <1>8, <2>2 DEF Noted
  <2>5. ToDrafts(c, s, t, a)
    <3>1. d.id = IdOf(NewId(gen.ext)) /\ find_design_by_id(t, d.id) = {}
      BY <1>1, <1>2, <1>8
    <3>2. a.t.designs = t.designs \cup {d} /\ a.ext = NewId(NewId(gen.ext))
      BY <1>1, <1>5, <2>2
    <3>. QED
      BY <1>2, <2>4, <3>1, <3>2 DEF ToDrafts
  <2>. QED
    BY <1>1, <1>5, <2>2, <2>3, <2>5 DEF Effect
<1>. QED
  BY <1>7, <1>8


(***************************************************************************)
(* A design is flagged after its newest draft was published.               *)
(***************************************************************************)
LEMMA FlagsDesign ==
  ASSUME NEW s, IsTables(s), NEW t, IsTables(t),
         NEW c, c.kind \in {"deployDesign", "redeployDesign"},
         find_design_by_id(s, c.id) # {},
         NEW h \in NewestSnapshot(s, c.id),
         NEW a, IsAnswer(a), Shaped(a.t), a.ok \in BOOLEAN, SameDrafts(t, a),
         a.ok => h.content \in a.new,
         ToDefines(c, s, t, a)
  PROVE  Effect(c, s, t, Flagged(s, a, c.id))
<1>1. PICK f, d, e, u :
        /\ f = Flagged(s, a, c.id) /\ d = CHOOSE x \in find_design_by_id(s, c.id) : TRUE
        /\ e = [d EXCEPT !.deployed = 1] /\ u = update_design(a.t, e)
  OBVIOUS
<1>2. CASE a.ok = FALSE
  BY <1>1, <1>2 DEF Flagged, Effect, ToDrafts
<1>3. CASE a.ok = TRUE
  <2>1. d.id = c.id /\ IsDesign(d)
    BY <1>1, OldDesign
  <2>2. PICK i, n, k : d = [id |-> i, name |-> n, deployed |-> k]
    BY <2>1 DEF IsDesign
  <2>3. IsDesign(e) /\ e.id = c.id /\ e.deployed = 1
    BY <1>1, <2>1, <2>2 DEF IsDesign
  <2>4. f = [a EXCEPT !.t = u]
    <3>1. f = [a EXCEPT !.t = update_design(a.t, e)]
      BY <1>1, <1>3 DEF Flagged, IsAnswer
    <3>. QED
      BY <1>1, <3>1
  <2>5. f = [ok |-> TRUE, t |-> u, def |-> a.def, ext |-> a.ext, id |-> a.id, new |-> a.new]
    BY <1>3, <2>4 DEF IsAnswer
  <2>6. u.designs = update_design(t, e).designs /\ u.his = a.t.his /\ u.defines = a.t.defines
        /\ u.instances = a.t.instances /\ Shaped(u)
    BY <1>1, SameDesignsWritten DEF IsTables, SameDrafts
  <2>7. ToDefines(c, s, t, f)
    BY <1>3, <2>5, <2>6 DEF ToDefines, SameDefines, SameInstances, Added, Rewritten
  <2>8. FlagFounded(c, s, f, e)
    BY <1>3, <2>3, <2>5 DEF FlagFounded
  <2>9. ToDrafts(c, s, t, f)
    <3>1. f.t.his = t.his /\ f.ext = gen.ext /\ f.t.designs = update_design(t, e).designs
      BY <2>5, <2>6 DEF SameDrafts
    <3>. QED
      BY <2>3, <2>8, <3>1 DEF ToDrafts, Flagging
  <2>. QED
    BY <1>1, <2>5, <2>6, <2>7, <2>9 DEF Effect
<1>. QED
  BY <1>2, <1>3

LEMMA DeployDesignEffect ==
  ASSUME NEW s, IsTables(s), NEW t, IsTables(t), NEW c, c.kind = "deployDesign"
  PROVE  Effect(c, s, t, deployDesign(s, t, c.id))
<1>1. CASE find_design_by_id(s, c.id) = {} \/ NewestSnapshot(s, c.id) = {}
  <2>1. PICK a : a = Refused(t)
    OBVIOUS
  <2>2. a.ok = FALSE /\ Shaped(a.t) /\ SameDefines(t, a) /\ SameDrafts(t, a)
    BY <2>1 DEF Refused, SameDefines, SameInstances, SameDrafts, IsTables
  <2>3. Effect(c, s, t, a)
    BY <2>2 DEF Effect, ToDefines, ToDrafts
  <2>. QED
    BY <1>1, <2>1, <2>3 DEF deployDesign
<1>2. CASE find_design_by_id(s, c.id) # {} /\ NewestSnapshot(s, c.id) # {}
  <2>1. PICK h, a : h = (CHOOSE x \in NewestSnapshot(s, c.id) : TRUE) /\ a = deploy(s, t, h.content)
    OBVIOUS
  <2>2. h \in NewestSnapshot(s, c.id)
    BY <1>2, <2>1
  <2>3. /\ IsAnswer(a) /\ Shaped(a.t) /\ SameDrafts(t, a)
        /\ \/ a.ok = FALSE /\ SameDefines(t, a)
           \/ a.ok = TRUE /\ Added(s, t, a, h.content)
    BY <2>1, DeployIs
  <2>4. a.ok \in BOOLEAN /\ (a.ok => h.content \in a.new) /\ ToDefines(c, s, t, a)
    BY <2>3 DEF ToDefines, Added, Deploying
  <2>5. Effect(c, s, t, Flagged(s, a, c.id))
    BY <1>2, <2>2, <2>3, <2>4, FlagsDesign
  <2>. QED
    BY <1>2, <2>1, <2>5 DEF deployDesign
<1>. QED
  BY <1>1, <1>2

LEMMA RedeployDesignEffect ==
  ASSUME NEW s, IsTables(s), NEW t, IsTables(t), NEW c, c.kind = "redeployDesign"
  PROVE  Effect(c, s, t, redeployDesign(s, t, c.id))
<1>1. CASE find_design_by_id(s, c.id) = {} \/ NewestSnapshot(s, c.id) = {}
  BY <1>1, NothingDone DEF redeployDesign, Deploying
<1>2. CASE find_design_by_id(s, c.id) # {} /\ NewestSnapshot(s, c.id) # {}
  <2>0. PICK h, latest :
          /\ h = (CHOOSE x \in NewestSnapshot(s, c.id) : TRUE)
          /\ latest = find_define_by_name(s, h.content.name)
    OBVIOUS
  <2>1. PICK d, a :
          /\ d = Replaced(CHOOSE x \in latest : TRUE, h.content)
          /\ a = IF latest = {} THEN deploy(s, t, h.content)
                 ELSE [Done(update_define(t, d)) EXCEPT !.new = {h.content}]
    OBVIOUS
  <2>2. h \in NewestSnapshot(s, c.id)
    BY <1>2, <2>0
  <2>3. /\ IsAnswer(a) /\ Shaped(a.t) /\ SameDrafts(t, a)
        /\ a.ok \in BOOLEAN /\ (a.ok => h.content \in a.new) /\ ToDefines(c, s, t, a)
    <3>1. CASE latest = {}
      <4>1. a = deploy(s, t, h.content)
        BY <2>1, <3>1
      <4>2. /\ IsAnswer(a) /\ Shaped(a.t) /\ SameDrafts(t, a)
            /\ \/ a.ok = FALSE /\ SameDefines(t, a)
               \/ a.ok = TRUE /\ Added(s, t, a, h.content)
        BY <4>1, DeployIs
      <4>. QED
        BY <4>2 DEF ToDefines, Added, Deploying
    <3>2. CASE latest # {}
      <4>1. PICK old : old = CHOOSE x \in latest : TRUE
        OBVIOUS
      <4>2. old \in s.defines /\ d = Replaced(old, h.content)
        BY <2>0, <2>1, <3>2, <4>1 DEF find_define_by_name
      <4>3. /\ IsDefine(d) /\ old.id = d.id /\ old.state = d.state /\ old.version = d.version
            /\ d.content = h.content
        BY <4>2, ReplacedIs
      <4>4. a = [Done(update_define(t, d)) EXCEPT !.new = {d.content}]
        BY <2>1, <3>2, <4>3
      <4>5. Shaped(a.t) /\ a.ok = TRUE /\ Rewritten(s, t, a, d) /\ SameDrafts(t, a)
        BY <4>2, <4>3, <4>4, RewritesEffect
      <4>6. IsAnswer(a)
        BY <4>4 DEF IsAnswer, Done, Refused
      <4>7. h.content \in a.new /\ ToDefines(c, s, t, a)
        BY <4>3, <4>5 DEF ToDefines, Rewritten, Replacing
      <4>. QED
        BY <4>5, <4>6, <4>7
    <3>. QED
      BY <3>1, <3>2
  <2>4. Effect(c, s, t, Flagged(s, a, c.id))
    BY <1>2, <2>2, <2>3, FlagsDesign
  <2>5. redeployDesign(s, t, c.id) = Flagged(s, a, c.id)
    BY <1>2, <2>0, <2>1, Zenon DEF redeployDesign
  <2>. QED
    BY <2>4, <2>5
<1>. QED
  BY <1>1, <1>2

LEMMA RemoveDesignEffect ==
  ASSUME NEW s, NEW t, IsTables(t), NEW c, c.kind = "removeDesign"
  PROVE  Effect(c, s, t, Done(remove_design(t, c.id)))
<1>1. PICK u, a : u = remove_design(t, c.id) /\ a = Done(u)
  OBVIOUS
<1>2. /\ u.designs = {d \in t.designs : d.id # c.id} /\ u.his = {h \in t.his : h.design # c.id}
      /\ u.defines = t.defines /\ u.instances = t.instances /\ Shaped(u)
  BY <1>1 DEF remove_design, IsTables, Shaped
<1>3. a = [ok |-> TRUE, t |-> u, def |-> gen.def, ext |-> gen.ext, id |-> 0, new |-> {}]
  BY <1>1 DEF Done, Refused
<1>. QED
  BY <1>1, <1>2, <1>3 DEF Effect, ToDefines, ToDrafts, SameDefines, SameInstances, Deploying

LEMMA DoEffect ==
  ASSUME NEW c \in Calls, NEW s, IsTables(s), NEW t, IsTables(t)
  PROVE  Effect(c, s, t, Do(c, s, t))
<1>1. c.kind \in Kinds
  BY DefinitionsAssumption
<1>2. CASE c.kind = "deploy"
  BY <1>2, DeployEffect DEF Do
<1>3. CASE c.kind = "redeploy"
  BY <1>3, RedeployEffect DEF Do
<1>4. CASE c.kind = "remove"
  BY <1>4, RemoveEffect DEF Do
<1>5. CASE c.kind = "upAndDown"
  BY <1>5, UpAndDownEffect DEF Do
<1>6. CASE c.kind = "start"
  BY <1>6, StartEffect DEF Do
<1>7. CASE c.kind = "saveNew"
  BY <1>7, SaveNewEffect DEF Do
<1>8. CASE c.kind = "saveAgain"
  BY <1>8, SaveAgainEffect DEF Do
<1>9. CASE c.kind = "updateDefine"
  BY <1>9, UpdateDefineEffect DEF Do
<1>10. CASE c.kind = "updateDesign"
  BY <1>10, UpdateDesignEffect DEF Do
<1>11. CASE c.kind = "deployDesign"
  BY <1>11, DeployDesignEffect DEF Do
<1>12. CASE c.kind = "redeployDesign"
  BY <1>12, RedeployDesignEffect DEF Do
<1>13. CASE c.kind = "removeDesign"
  BY <1>13, RemoveDesignEffect DEF Do
<1>. QED
  BY <1>1, <1>2, <1>3, <1>4, <1>5, <1>6, <1>7, <1>8, <1>9, <1>10, <1>11, <1>12, <1>13 DEF Kinds

(***************************************************************************)
(* Ids stay keys, versions stay numbers.                                   *)
(***************************************************************************)
LEMMA MaxOfBounded ==
  ASSUME NEW V \in SUBSET Nat, NEW n \in Nat, \A v \in V : v <= n, V # {}
  PROVE  \E m \in V : \A v \in V : v <= m
<1>1. PICK R : R = OpToRel(<, Nat)
  OBVIOUS
<1>2. IsWellFoundedOn(R, Nat)
  BY <1>1, NatLessThanWellFounded
<1>3. PICK U : U = {k \in Nat : \A v \in V : v <= k}
  OBVIOUS
<1>4. U \subseteq Nat /\ n \in U
  BY <1>3
<1>5. PICK m \in U : \A y \in U : ~(<<y, m>> \in R)
  BY <1>2, <1>4, WFMin
<1>6. \A x, y \in Nat : x < y => <<x, y>> \in R
  BY <1>1 DEF OpToRel
<1>7. CASE m \in V
  BY <1>3, <1>5, <1>7
<1>8. CASE m \notin V
  <2>1. m \in Nat /\ \A w \in V : w \in Nat /\ w < m
    BY <1>3, <1>5, <1>8
  <2>2. PICK v \in V : v < m /\ v \in Nat
    BY <2>1
  <2>3. m - 1 \in Nat /\ \A w \in V : w <= m - 1
    BY <2>1, <2>2
  <2>4. m - 1 \in U /\ m - 1 < m
    BY <1>3, <2>1, <2>3
  <2>. QED
    BY <1>5, <1>6, <2>1, <2>3, <2>4
<1>. QED
  BY <1>7, <1>8

LEMMA MaxOfOne ==
  ASSUME NEW v \in Nat
  PROVE  Max({v}) = v
BY DEF Max

\* The definitions a name stands for share one version.
LEMMA LatestVersion ==
  ASSUME repo \in {"sql", "memory"}, NEW s, Sane(s), NEW name, NEW d \in find_define_by_name(s, name)
  PROVE  NextVersion(s, name) = d.version + 1 /\ d.version \in Nat
<1>1. \A e \in s.defines : e.id \in Int /\ e.version \in Nat
  BY DEF Sane, IsTables, IsDefine
<1>2. d \in s.defines /\ d.version \in Nat
  BY <1>1 DEF find_define_by_name
<1>3. ASSUME NEW e \in find_define_by_name(s, name)
      PROVE  e.version = d.version
  <2>1. e \in s.defines
    BY DEF find_define_by_name
  <2>2. CASE repo = "sql"
    BY <1>1, <1>2, <1>3, <2>1, <2>2 DEF find_define_by_name
  <2>3. CASE repo = "memory"
    <3>1. e.id = d.id
      BY <1>1, <1>2, <1>3, <2>1, <2>3 DEF find_define_by_name
    <3>. QED
      BY <1>2, <2>1, <3>1 DEF Sane, Keyed
  <2>. QED
    BY <2>2, <2>3
<1>4. {e.version : e \in find_define_by_name(s, name)} = {d.version}
  BY <1>3
<1>. QED
  BY <1>2, <1>4, MaxOfOne DEF NextVersion

LEMMA NextVersionIs ==
  ASSUME repo \in {"sql", "memory"}, NEW s, Sane(s), NEW name
  PROVE  Stored(NextVersion(s, name)) \in Nat
<1>1. CASE find_define_by_name(s, name) = {}
  BY <1>1 DEF NextVersion, Stored
<1>2. CASE find_define_by_name(s, name) # {}
  BY <1>2, LatestVersion DEF Stored
<1>. QED
  BY <1>1, <1>2

\* Over SQL the next version is above every version of the name.
LEMMA NextVersionAbove ==
  ASSUME repo = "sql", NEW s, Sane(s), NEW name, NEW e \in s.defines, e.name = name
  PROVE  e.version < Stored(NextVersion(s, name))
<1>1. PICK mine, V : mine = {d \in s.defines : d.name = name} /\ V = {d.version : d \in mine}
  OBVIOUS
<1>2. \A d \in s.defines : d.version \in Nat
  BY DEF Sane, IsTables, IsDefine
<1>3. PICK n \in Nat : \A d \in s.defines : d.version <= n
  BY DEF Sane, Bounded
<1>4. V \in SUBSET Nat /\ V # {} /\ \A v \in V : v <= n
  BY <1>1, <1>2, <1>3
<1>5. PICK m \in V : \A v \in V : v <= m
  BY <1>4, MaxOfBounded
<1>6. PICK d \in mine : d.version = m
  BY <1>1, <1>5
<1>7. d \in find_define_by_name(s, name)
  BY <1>1, <1>5, <1>6 DEF find_define_by_name
<1>8. NextVersion(s, name) = d.version + 1 /\ d.version \in Nat
  BY <1>7, LatestVersion
<1>9. e.version <= d.version /\ e.version \in Nat
  BY <1>1, <1>2, <1>5, <1>6
<1>. QED
  BY <1>8, <1>9 DEF Stored


LEMMA OneMoreDefine ==
  ASSUME NEW T, NEW U, NEW d, IsDefine(d), U \subseteq T \cup {d},
         \A e \in T : IsDefine(e), \E n \in Nat : \A e \in T : e.version <= n
  PROVE  (\A e \in U : IsDefine(e)) /\ \E n \in Nat : \A e \in U : e.version <= n
<1>1. PICK n \in Nat : \A e \in T : e.version <= n
  OBVIOUS
<1>2. d.version \in Nat /\ \A e \in T : e.version \in Nat
  BY DEF IsDefine
<1>3. n + d.version \in Nat /\ \A e \in U : e.version <= n + d.version
  BY <1>1, <1>2
<1>. QED
  BY <1>3

LEMMA StateWritten ==
  ASSUME NEW d, IsDefine(d), NEW v
  PROVE  LET e == [d EXCEPT !.state = v]
         IN IsDefine(e) /\ e.id = d.id /\ e.name = d.name /\ e.version = d.version
<1>1. PICK i, n, w, st, ct :
        d = [id |-> i, name |-> n, version |-> w, state |-> st, content |-> ct] /\ w \in Nat /\ i \in Int
  BY DEF IsDefine
<1>. QED
  BY <1>1 DEF IsDefine

Written(d, ids, v) == IF d.id \in ids THEN [d EXCEPT !.state = v] ELSE d

LEMMA StatesWritten ==
  ASSUME NEW d, IsDefine(d), NEW ids, NEW v
  PROVE  LET e == Written(d, ids, v)
         IN IsDefine(e) /\ e.id = d.id /\ e.name = d.name /\ e.version = d.version
<1>1. CASE d.id \in ids
  BY <1>1, StateWritten DEF Written
<1>2. CASE d.id \notin ids
  BY <1>2 DEF Written
<1>. QED
  BY <1>1, <1>2

LEMMA DefinesStaySane ==
  ASSUME repo \in {"sql", "memory"}, gen.def \in Generator, now \in Nat,
         NEW c, NEW s, Sane(s), NEW t, Sane(t), NEW a, ToDefines(c, s, t, a)
  PROVE  /\ \A d \in a.t.defines : IsDefine(d)
         /\ \A d, e \in a.t.defines : d.id = e.id => d = e
         /\ Bounded(a.t) /\ a.def \in Generator
<1>. DEFINE Goal == /\ \A d \in a.t.defines : IsDefine(d)
                    /\ \A d, e \in a.t.defines : d.id = e.id => d = e
                    /\ Bounded(a.t) /\ a.def \in Generator
<1>0. /\ \A d \in t.defines : IsDefine(d)
      /\ \A d, e \in t.defines : d.id = e.id => d = e
      /\ Bounded(t)
  BY DEF Sane, IsTables, Keyed
<1>1. CASE a.t.defines = t.defines /\ a.def = gen.def
  BY <1>0, <1>1 DEF Bounded
<1>2. ASSUME NEW content, Added(s, t, a, content) PROVE Goal
  <2>1. PICK g, d : g = NewId(gen.def) /\ d = NewDefine(IdOf(g), content, NextVersion(s, content.name))
    OBVIOUS
  <2>2. /\ a.def = g
        /\ a.t.defines = {e \in t.defines : e.id # IdOf(g)} \cup {d}
    BY <1>2, <2>1 DEF Added
  <2>3. g \in Generator /\ IdOf(g) \in Nat
    BY <2>1, NewIds
  <2>4. IsDefine(d) /\ d.id = IdOf(g)
    BY <2>1, <2>3, NextVersionIs DEF NewDefine, IsDefine
  <2>6. \A e, f \in a.t.defines : e.id = f.id => e = f
    BY <1>0, <2>2, <2>4
  <2>7. (\A e \in a.t.defines : IsDefine(e)) /\ Bounded(a.t)
    <3>1. PICK T, U : T = t.defines /\ U = a.t.defines /\ U \subseteq T \cup {d}
      BY <2>2
    <3>2. (\A e \in T : IsDefine(e)) /\ \E n \in Nat : \A e \in T : e.version <= n
      BY <1>0, <3>1 DEF Bounded
    <3>3. (\A e \in U : IsDefine(e)) /\ \E n \in Nat : \A e \in U : e.version <= n
      BY <2>4, <3>1, <3>2, OneMoreDefine
    <3>. QED
      BY <3>1, <3>3 DEF Bounded
  <2>. QED
    BY <2>2, <2>3, <2>6, <2>7
<1>3. ASSUME NEW d, Rewritten(s, t, a, d) PROVE Goal
  <2>1. IsDefine(d) /\ a.def = gen.def /\ a.t.defines = update_define(t, d).defines
    BY <1>3 DEF Rewritten
  <2>2. \/ a.t.defines = t.defines
        \/ a.t.defines = {e \in t.defines : e.id # d.id} \cup {d}
    BY <2>1, UpdatesDefine DEF Sane
  <2>3. a.t.defines \subseteq t.defines \cup {d}
    BY <2>2
  <2>4. \A e, f \in a.t.defines : e.id = f.id => e = f
    BY <1>0, <2>2
  <2>5. (\A e \in a.t.defines : IsDefine(e)) /\ Bounded(a.t)
    BY <1>0, <2>1, <2>3, OneMoreDefine DEF Bounded
  <2>. QED
    BY <2>1, <2>4, <2>5
<1>4. CASE a.t.defines \subseteq t.defines /\ a.def = gen.def
  BY <1>0, <1>4 DEF Bounded
<1>5. CASE /\ a.t.defines = {IF d.id \in c.ids THEN [d EXCEPT !.state = c.state] ELSE d : d \in t.defines}
           /\ a.def = gen.def
  <2>1. \A e \in a.t.defines : \E d \in t.defines : e = Written(d, c.ids, c.state)
    BY <1>5, Zenon DEF Written
  <2>2. \A e \in a.t.defines : IsDefine(e) /\ \E d \in t.defines :
            e = Written(d, c.ids, c.state) /\ e.id = d.id /\ e.version = d.version
    BY <1>0, <2>1, StatesWritten
  <2>3. \A e, f \in a.t.defines : e.id = f.id => e = f
    BY <1>0, <2>2
  <2>4. Bounded(a.t)
    BY <1>0, <2>2 DEF Bounded
  <2>. QED
    BY <1>5, <2>2, <2>3, <2>4
<1>6. \/ a.t.defines = t.defines /\ a.def = gen.def
      \/ \E content : Added(s, t, a, content)
      \/ \E d : Rewritten(s, t, a, d)
      \/ a.t.defines \subseteq t.defines /\ a.def = gen.def
      \/ /\ a.t.defines = {IF d.id \in c.ids THEN [d EXCEPT !.state = c.state] ELSE d : d \in t.defines}
         /\ a.def = gen.def
  <2>1. \A P : {d \in t.defines : P} \subseteq t.defines
    OBVIOUS
  <2>. QED
    BY DEF ToDefines, SameDefines
<1>. QED
  BY <1>1, <1>2, <1>3, <1>4, <1>5, <1>6

LEMMA DraftsStaySane ==
  ASSUME gen.ext \in Generator, now \in Nat,
         NEW c, NEW s, NEW t, Sane(t), NEW a, ToDrafts(c, s, t, a)
  PROVE  /\ \A d \in a.t.designs : IsDesign(d)
         /\ \A h \in a.t.his : IsSnapshot(h)
         /\ \A d, e \in a.t.designs : d.id = e.id => d = e
         /\ \A g, h \in a.t.his : g.id = h.id => g = h
         /\ a.ext \in Generator
<1>. DEFINE Designs == /\ \A d \in a.t.designs : IsDesign(d)
                       /\ \A d, e \in a.t.designs : d.id = e.id => d = e
            Drafts == /\ \A h \in a.t.his : IsSnapshot(h)
                      /\ \A g, h \in a.t.his : g.id = h.id => g = h
<1>0. /\ \A d \in t.designs : IsDesign(d)
      /\ \A d, e \in t.designs : d.id = e.id => d = e
      /\ \A h \in t.his : IsSnapshot(h)
      /\ \A g, h \in t.his : g.id = h.id => g = h
      /\ Shaped(t)
  BY DEF Sane, IsTables, Keyed
<1>1. NewId(gen.ext) \in Generator /\ NewId(NewId(gen.ext)) \in Generator
      /\ IdOf(NewId(gen.ext)) \in Nat /\ IdOf(NewId(NewId(gen.ext))) \in Nat
  BY NewIds
<1>2. ASSUME NEW d, IsDesign(d), a.t.designs = update_design(t, d).designs
      PROVE  Designs
  <2>1. a.t.designs = t.designs \/ a.t.designs = {e \in t.designs : e.id # d.id} \cup {d}
    BY <1>2, UpdatesDesign DEF Sane
  <2>. QED
    BY <1>0, <1>2, <2>1
<1>3. ASSUME NEW id \in Nat, NEW design, NEW content, Noted(t, a, id, design, content)
      PROVE  Drafts
  <2>1. PICK h : h = Snapshot(t, id, design, content)
    OBVIOUS
  <2>2. IsSnapshot(h) /\ h.id = id
    BY <2>1 DEF Snapshot, IsSnapshot
  <2>3. a.t.his = t.his \cup {h} /\ \A x \in t.his : x.id # id
    BY <1>3, <2>1 DEF Noted
  <2>. QED
    BY <1>0, <2>2, <2>3
<1>4. ASSUME a.t.his = t.his PROVE Drafts
  BY <1>0, <1>4
<1>5. CASE SameDrafts(t, a)
  BY <1>0, <1>5 DEF SameDrafts
<1>6. CASE /\ c.kind \in Flagging /\ a.t.his = t.his /\ a.ext = gen.ext
           /\ \E d : IsDesign(d) /\ a.t.designs = update_design(t, d).designs /\ FlagFounded(c, s, a, d)
  BY <1>2, <1>4, <1>6
<1>7. CASE /\ c.kind \in Drafting
           /\ \E d : /\ IsDesign(d) /\ d.id = c.id /\ d.deployed = 0
                     /\ a.t.designs = update_design(t, d).designs
           /\ \/ a.t.his = t.his /\ a.ext = gen.ext
              \/ Noted(t, a, IdOf(NewId(gen.ext)), c.id, c.content) /\ a.ext = NewId(gen.ext)
  BY <1>1, <1>2, <1>3, <1>4, <1>7
<1>8. CASE /\ c.kind = "saveNew"
           /\ \E d : /\ IsDesign(d) /\ d.id = IdOf(NewId(gen.ext)) /\ d.deployed = 0
                     /\ find_design_by_id(t, d.id) = {} /\ a.t.designs = t.designs \cup {d}
                     /\ Noted(t, a, IdOf(NewId(NewId(gen.ext))), d.id, c.content)
           /\ a.ext = NewId(NewId(gen.ext))
  <2>1. PICK d : /\ IsDesign(d) /\ d.id = IdOf(NewId(gen.ext)) /\ d.deployed = 0
                 /\ find_design_by_id(t, d.id) = {} /\ a.t.designs = t.designs \cup {d}
                 /\ Noted(t, a, IdOf(NewId(NewId(gen.ext))), d.id, c.content)
    BY <1>8
  <2>2. \A e \in t.designs : e.id # d.id
    BY <2>1 DEF find_design_by_id
  <2>3. Designs
    BY <1>0, <2>1, <2>2
  <2>4. Drafts
    BY <1>1, <1>3, <2>1
  <2>. QED
    BY <1>1, <1>8, <2>3, <2>4
<1>9. CASE /\ c.kind = "removeDesign"
           /\ a.t.designs = {d \in t.designs : d.id # c.id} /\ a.t.his = {h \in t.his : h.design # c.id}
           /\ a.ext = gen.ext
  BY <1>0, <1>9
<1>. QED
  BY <1>5, <1>6, <1>7, <1>8, <1>9 DEF ToDrafts

LEMMA EffectKeepsSane ==
  ASSUME repo \in {"sql", "memory"}, gen.def \in Generator, gen.ext \in Generator, now \in Nat,
         NEW c, NEW s, Sane(s), NEW t, Sane(t), NEW a, Effect(c, s, t, a)
  PROVE  Sane(a.t) /\ a.def \in Generator /\ a.ext \in Generator
<1>1. ToDefines(c, s, t, a) /\ ToDrafts(c, s, t, a) /\ Shaped(a.t)
  BY DEF Effect
<1>2. /\ \A d \in a.t.defines : IsDefine(d)
      /\ \A d, e \in a.t.defines : d.id = e.id => d = e
      /\ Bounded(a.t) /\ a.def \in Generator
  BY <1>1, DefinesStaySane
<1>3. /\ \A d \in a.t.designs : IsDesign(d)
      /\ \A h \in a.t.his : IsSnapshot(h)
      /\ \A d, e \in a.t.designs : d.id = e.id => d = e
      /\ \A g, h \in a.t.his : g.id = h.id => g = h
      /\ a.ext \in Generator
  BY <1>1, DraftsStaySane
<1>. QED
  BY <1>1, <1>2, <1>3 DEF Sane, IsTables, Keyed

(***************************************************************************)
(* The steps.                                                              *)
(***************************************************************************)
\* A handler that finishes: what it read, and what it leaves.
Leaves(r, c, s, a) ==
  /\ c \in Calls /\ req[r] = [call |-> c, seen |-> s] /\ Sane(s) /\ Effect(c, s, db, a)
  /\ db' = a.t /\ gen' = [def |-> a.def, ext |-> a.ext] /\ published' = published \cup a.new
  /\ last' = [kind |-> c.kind, ok |-> a.ok, id |-> a.id]
  /\ req' = [req EXCEPT ![r] = Idle]
  /\ repo' = repo /\ now' = now /\ setBack' = setBack

LEMMA IdleIs == Idle.call.kind = "none" /\ "none" \notin Kinds /\ \A c \in Calls : c.kind # "none"
BY DefinitionsAssumption DEF Idle, Kinds

LEMMA FinishLeaves ==
  ASSUME TypeInv, NEW r \in Requests, Finish(r)
  PROVE  \E c, s, a : Leaves(r, c, s, a)
<1>1. req[r] # Idle
  BY DEF Finish
<1>2. PICK c, s : c = req[r].call /\ s = req[r].seen
  OBVIOUS
<1>3. req[r] = [call |-> c, seen |-> s] /\ c \in Calls /\ Sane(s)
  BY <1>1, <1>2 DEF TypeInv, Ready, Reads
<1>4. PICK a : a = Do(c, s, db)
  OBVIOUS
<1>5. Effect(c, s, db, a)
  BY <1>3, <1>4, DoEffect DEF TypeInv, Sane
<1>6. /\ db' = a.t /\ gen' = [def |-> a.def, ext |-> a.ext] /\ published' = published \cup a.new
      /\ last' = [kind |-> c.kind, ok |-> a.ok, id |-> a.id]
      /\ req' = [req EXCEPT ![r] = Idle]
      /\ repo' = repo /\ now' = now /\ setBack' = setBack
  BY <1>2, <1>4 DEF Finish
<1>7. Leaves(r, c, s, a)
  BY <1>3, <1>5, <1>6 DEF Leaves
<1>. QED
  BY <1>7

LEMMA BeginLeaves ==
  ASSUME TypeInv, NEW r \in Requests, NEW c \in Calls, Begin(r, c)
  PROVE  /\ req' = [req EXCEPT ![r] = [call |-> c, seen |-> db]] /\ req[r] = Idle
         /\ UNCHANGED <<repo, db, published, gen, now, setBack, last>>
         /\ req'[r] = [call |-> c, seen |-> db]
         /\ \A q \in Requests : q # r => req'[q] = req[q]
BY DEF TypeInv, Begin

LEMMA TypeStart == Init => TypeInv
<1>. SUFFICES ASSUME Init PROVE TypeInv
  OBVIOUS
<1>1. Sane(db)
  <2>1. CASE db = NoTables
    BY <2>1 DEF NoTables, Sane, IsTables, Shaped, Keyed, Bounded
  <2>2. ASSUME NEW x \in Contents, db = DeployedDesign(x) PROVE Sane(db)
    <3>1. PICK d, g, h : /\ d = [id |-> 0, name |-> x.name, version |-> Stored(0), state |-> 1, content |-> x]
                         /\ g = [id |-> 0, name |-> x.name, deployed |-> 1]
                         /\ h = [id |-> 0, design |-> 0, content |-> x, serial |-> 0]
      OBVIOUS
    <3>2. Stored(0) \in Nat
      BY DEF Stored
    <3>3. IsDefine(d) /\ IsDesign(g) /\ IsSnapshot(h)
      BY <3>1, <3>2 DEF IsDefine, IsDesign, IsSnapshot
    <3>4. db.defines = {d} /\ db.instances = {} /\ db.designs = {g} /\ db.his = {h} /\ Shaped(db)
      BY <2>2, <3>1 DEF DeployedDesign, Shaped
    <3>5. Bounded(db)
      BY <3>1, <3>2, <3>4 DEF Bounded
    <3>. QED
      BY <3>3, <3>4, <3>5 DEF Sane, IsTables, Keyed
  <2>. QED
    BY <2>1, <2>2 DEF Init
<1>. QED
  BY <1>1 DEF Init, TypeInv, Ready, Generator, FirstGiven

LEMMA TypeStep == TypeInv /\ [Next]_vars => TypeInv'
<1>. SUFFICES ASSUME TypeInv, [Next]_vars PROVE TypeInv'
  OBVIOUS
<1>1. ASSUME NEW r \in Requests, NEW c \in Calls, Begin(r, c) PROVE TypeInv'
  <2>1. /\ UNCHANGED <<repo, db, published, gen, now, setBack, last>>
        /\ req' = [req EXCEPT ![r] = [call |-> c, seen |-> db]]
    BY <1>1 DEF Begin
  <2>2. \A q \in Requests : Ready(q)'
    BY <2>1 DEF TypeInv, Ready, Reads, Sane
  <2>. QED
    BY <2>1, <2>2 DEF TypeInv
<1>2. ASSUME NEW r \in Requests, Finish(r) PROVE TypeInv'
  <2>1. PICK c, s, a : Leaves(r, c, s, a)
    BY <1>2, FinishLeaves
  <2>2. Sane(a.t) /\ a.def \in Generator /\ a.ext \in Generator
    BY <2>1, EffectKeepsSane DEF Leaves, TypeInv
  <2>3. Sane(db)' /\ gen'.def \in Generator /\ gen'.ext \in Generator
    BY <2>1, <2>2 DEF Leaves
  <2>4. req' = [req EXCEPT ![r] = Idle] /\ repo' = repo /\ now' = now /\ setBack' = setBack
    BY <2>1 DEF Leaves
  <2>5. \A q \in Requests : Ready(q)'
    BY <2>4 DEF TypeInv, Ready, Reads
  <2>. QED
    BY <2>3, <2>4, <2>5 DEF TypeInv
<1>3. CASE Tick
  BY <1>3 DEF Tick, TypeInv, Ready, Reads
<1>4. CASE SetBack
  BY <1>4 DEF SetBack, TypeInv, Ready, Reads
<1>5. CASE UNCHANGED vars
  BY <1>5 DEF vars, TypeInv, Ready, Reads
<1>. QED
  BY <1>1, <1>2, <1>3, <1>4, <1>5 DEF Next

\* Requests under way at the same time.
OverlapInv ==
  \A q, r \in Requests :
    q # r /\ req[q] # Idle /\ req[r] # Idle => repo = "sql" /\ {Under(q), Under(r)} \notin Apart

BaseInv == TypeInv /\ OverlapInv

\* A step seen from outside: nothing but the clock, a request that begins with
\* what is in the tables, or one that finishes.
LEMMA Steps ==
  ASSUME TypeInv, [Next]_vars
  PROVE  \/ UNCHANGED <<repo, db, published, req, gen, last>> /\ (UNCHANGED setBack \/ setBack')
            /\ (setBack' \/ now' >= now)
         \/ /\ UNCHANGED <<repo, db, published, gen, now, setBack, last>>
            /\ \E r \in Requests, c \in Calls :
                 /\ req[r] = Idle /\ req'[r] = [call |-> c, seen |-> db]
                 /\ \A q \in Requests : q # r => req'[q] = req[q]
                 /\ \A q \in Requests : q # r /\ req[q] # Idle => repo = "sql" /\ {c.kind, Under(q)} \notin Apart
         \/ /\ \E r \in Requests : \E c, s, a : Leaves(r, c, s, a) /\ req[r] # Idle /\ req'[r] = Idle
                 /\ \A q \in Requests : q # r => req'[q] = req[q]
<1>1. ASSUME NEW r \in Requests, NEW c \in Calls, Begin(r, c)
      PROVE  /\ req[r] = Idle /\ req'[r] = [call |-> c, seen |-> db]
             /\ \A q \in Requests : q # r => req'[q] = req[q]
             /\ \A q \in Requests : q # r /\ req[q] # Idle => repo = "sql" /\ {c.kind, Under(q)} \notin Apart
             /\ UNCHANGED <<repo, db, published, gen, now, setBack, last>>
  BY <1>1 DEF Begin, TypeInv
<1>2. ASSUME NEW r \in Requests, Finish(r)
      PROVE  \E c, s, a : Leaves(r, c, s, a) /\ req[r] # Idle /\ req'[r] = Idle
                 /\ \A q \in Requests : q # r => req'[q] = req[q]
  <2>1. PICK c, s, a : Leaves(r, c, s, a)
    BY <1>2, FinishLeaves
  <2>2. req' = [req EXCEPT ![r] = Idle]
    BY <2>1 DEF Leaves
  <2>3. req[r] # Idle /\ req'[r] = Idle /\ \A q \in Requests : q # r => req'[q] = req[q]
    BY <1>2, <2>2 DEF Finish, TypeInv
  <2>. QED
    BY <2>1, <2>3
<1>3. CASE Tick
  BY <1>3 DEF Tick, TypeInv
<1>4. CASE SetBack
  BY <1>4 DEF SetBack
<1>5. CASE UNCHANGED vars
  BY <1>5 DEF vars, TypeInv
<1>. QED
  BY <1>1, <1>2, <1>3, <1>4, <1>5 DEF Next

LEMMA BaseStep == BaseInv /\ [Next]_vars => BaseInv'
<1>. SUFFICES ASSUME BaseInv, [Next]_vars PROVE BaseInv'
  OBVIOUS
<1>1. TypeInv'
  BY TypeStep DEF BaseInv
<1>2. ASSUME UNCHANGED <<repo, req>> PROVE OverlapInv'
  BY <1>2 DEF BaseInv, OverlapInv, Under
<1>3. ASSUME NEW r \in Requests, NEW c \in Calls, repo' = repo, req'[r] = [call |-> c, seen |-> db],
             \A q \in Requests : q # r => req'[q] = req[q],
             \A q \in Requests : q # r /\ req[q] # Idle => repo = "sql" /\ {c.kind, Under(q)} \notin Apart
      PROVE  OverlapInv'
  <2>1. Under(r)' = c.kind /\ \A q \in Requests : q # r => Under(q)' = Under(q)
    BY <1>3 DEF Under
  <2>. SUFFICES ASSUME NEW p \in Requests, NEW q \in Requests, p # q, req'[p] # Idle, req'[q] # Idle
                PROVE  repo = "sql" /\ {Under(p)', Under(q)'} \notin Apart
    BY <1>3 DEF OverlapInv
  <2>2. CASE p = r
    BY <1>3, <2>1, <2>2
  <2>3. CASE q = r
    <3>1. {c.kind, Under(p)} = {Under(p)', Under(q)'}
      BY <2>1, <2>3
    <3>. QED
      BY <1>3, <2>3, <3>1
  <2>4. CASE p # r /\ q # r
    BY <1>3, <2>1, <2>4 DEF BaseInv, OverlapInv
  <2>. QED
    BY <2>2, <2>3, <2>4
<1>4. ASSUME NEW r \in Requests, repo' = repo, req'[r] = Idle,
             \A q \in Requests : q # r => req'[q] = req[q]
      PROVE  OverlapInv'
  BY <1>4 DEF BaseInv, OverlapInv, Under
<1>5. OverlapInv'
  <2>1. TypeInv
    BY DEF BaseInv
  <2>. QED
    BY <1>2, <1>3, <1>4, <2>1, Steps DEF Leaves, BaseInv
<1>. QED
  BY <1>1, <1>5 DEF BaseInv

LEMMA BaseStart == Init => BaseInv
BY TypeStart DEF Init, BaseInv, OverlapInv

(***************************************************************************)
(* What a handler leaves to the others.                                    *)
(***************************************************************************)
LEMMA KeepsInstances ==
  ASSUME NEW c, NEW s, NEW t, NEW a, ToDefines(c, s, t, a), NEW i \in a.t.instances, i \notin t.instances
  PROVE  c.kind = "start" /\ i.define = c.id /\ find_define_by_id(s, c.id) # {} /\ a.t.defines = t.defines
BY DEF ToDefines, SameDefines, SameInstances, Added, Rewritten

LEMMA OnlyStartAddsInstances ==
  ASSUME NEW c, NEW s, NEW t, NEW a, ToDefines(c, s, t, a), c.kind # "start"
  PROVE  a.t.instances = t.instances
BY DEF ToDefines, SameDefines, SameInstances, Added, Rewritten

\* A definition disappears through a remove that found no instance on it.
IdStays(d, a) == \E e \in a.t.defines : e.id = d.id
IdGoes(d, c, s, t, a) ==
  c.kind = "remove" /\ d.id \in c.ids /\ MayRemoveAll(s, c.ids) /\ a.t.instances = t.instances

LEMMA KeepsIds ==
  ASSUME NEW c, NEW s, NEW t, Sane(t), NEW a, ToDefines(c, s, t, a), NEW d \in t.defines
  PROVE  IdStays(d, a) \/ IdGoes(d, c, s, t, a)
<1>. USE DEF IdStays, IdGoes
<1>1. IsDefine(d)
  BY DEF Sane, IsTables
<1>2. CASE c.kind = "remove" /\ MayRemoveAll(s, c.ids)
           /\ a.t.defines = {x \in t.defines : x.id \notin c.ids} /\ a.t.instances = t.instances
  BY <1>2
<1>3. CASE a.t.defines = {IF x.id \in c.ids THEN [x EXCEPT !.state = c.state] ELSE x : x \in t.defines}
  <2>1. Written(d, c.ids, c.state) \in a.t.defines
    BY <1>3, Zenon DEF Written
  <2>. QED
    BY <1>1, <2>1, StatesWritten
<1>4. ASSUME NEW e, Rewritten(s, t, a, e) PROVE \E x \in a.t.defines : x.id = d.id
  <2>1. a.t.defines = t.defines \/ a.t.defines = {x \in t.defines : x.id # e.id} \cup {e}
    BY <1>4, UpdatesDefine DEF Rewritten, Sane
  <2>. QED
    BY <2>1
<1>5. CASE t.defines \subseteq a.t.defines
  BY <1>5
<1>6. ASSUME NEW content, Added(s, t, a, content) PROVE \E x \in a.t.defines : x.id = d.id
  <2>1. PICK n : n = NewDefine(IdOf(NewId(gen.def)), content, NextVersion(s, content.name))
    OBVIOUS
  <2>2. n.id = IdOf(NewId(gen.def)) /\ a.t.defines = {x \in t.defines : x.id # n.id} \cup {n}
    BY <1>6, <2>1 DEF Added, NewDefine
  <2>. QED
    BY <2>2
<1>. QED
  BY <1>2, <1>3, <1>4, <1>5, <1>6 DEF ToDefines, SameDefines, SameInstances

(***************************************************************************)
(* Instances and the definitions they run on.                              *)
(***************************************************************************)
\* What a start has found is still there; what a remove has not found has not
\* come.
StartSees(r) == Under(r) = "start" => \A e \in req[r].seen.defines : Define(e.id) # {}
RemoveSees(r) == Under(r) = "remove" => db.instances \subseteq req[r].seen.instances
InstancesInv ==
  /\ BaseInv /\ InstancesKeepDefinition
  /\ \A r \in Requests : StartSees(r) /\ RemoveSees(r)

LEMMA InstancesStep ==
  ASSUME {"remove", "start"} \in Apart
  PROVE  InstancesInv /\ [Next]_vars => InstancesInv'
<1>. SUFFICES ASSUME InstancesInv, [Next]_vars PROVE InstancesInv'
  OBVIOUS
<1>0. BaseInv /\ TypeInv /\ BaseInv'
  BY BaseStep DEF InstancesInv, BaseInv
<1>1. ASSUME UNCHANGED <<db, req>> PROVE InstancesInv'
  BY <1>0, <1>1 DEF InstancesInv, InstancesKeepDefinition, StartSees, RemoveSees, Under, Define
<1>2. ASSUME NEW r \in Requests, NEW c \in Calls, db' = db, req'[r] = [call |-> c, seen |-> db],
             \A q \in Requests : q # r => req'[q] = req[q]
      PROVE  InstancesInv'
  <2>1. InstancesKeepDefinition'
    BY <1>2 DEF InstancesInv, InstancesKeepDefinition, Define
  <2>2. StartSees(r)' /\ RemoveSees(r)'
    BY <1>2 DEF StartSees, RemoveSees, Under, Define
  <2>3. \A q \in Requests : q # r => StartSees(q)' /\ RemoveSees(q)'
    BY <1>2 DEF InstancesInv, StartSees, RemoveSees, Under, Define
  <2>. QED
    BY <1>0, <2>1, <2>2, <2>3 DEF InstancesInv
<1>3. ASSUME NEW r \in Requests, NEW c, NEW s, NEW a, Leaves(r, c, s, a), req[r] # Idle, req'[r] = Idle,
             \A q \in Requests : q # r => req'[q] = req[q]
      PROVE  InstancesInv'
  <2>1. /\ db' = a.t /\ ToDefines(c, s, db, a) /\ Sane(db) /\ Sane(s)
        /\ req[r] = [call |-> c, seen |-> s] /\ c \in Calls
    BY <1>0, <1>3 DEF Leaves, Effect, TypeInv
  <2>2. /\ c.kind = "start" => \A e \in s.defines : Define(e.id) # {}
        /\ c.kind = "remove" => db.instances \subseteq s.instances
    <3>1. StartSees(r) /\ RemoveSees(r) /\ Under(r) = c.kind
      BY <2>1 DEF InstancesInv, Under
    <3>. QED
      BY <2>1, <3>1 DEF StartSees, RemoveSees
  <2>3. \A d \in db.defines : \/ \E e \in db'.defines : e.id = d.id
                              \/ /\ c.kind = "remove" /\ d.id \in c.ids /\ MayRemoveAll(s, c.ids)
                                 /\ db'.instances = db.instances
    <3>. TAKE d \in db.defines
    <3>1. \/ \E e \in a.t.defines : e.id = d.id
          \/ c.kind = "remove" /\ d.id \in c.ids /\ MayRemoveAll(s, c.ids) /\ a.t.instances = db.instances
      <4>1. IdStays(d, a) \/ IdGoes(d, c, s, db, a)
        BY <2>1, KeepsIds
      <4>. QED
        BY <4>1 DEF IdStays, IdGoes
    <3>. QED
      BY <2>1, <3>1
  <2>4. \A i \in db'.instances : i \notin db.instances =>
          c.kind = "start" /\ i.define = c.id /\ find_define_by_id(s, c.id) # {} /\ db'.defines = db.defines
    BY <2>1, KeepsInstances
  <2>5. InstancesKeepDefinition'
    <3>. SUFFICES ASSUME NEW i \in db'.instances PROVE \E e \in db'.defines : e.id = i.define
      BY DEF InstancesKeepDefinition, Define
    <3>1. CASE i \in db.instances
      <4>1. PICK d \in db.defines : d.id = i.define
        BY <3>1 DEF InstancesInv, InstancesKeepDefinition, Define
      <4>2. CASE c.kind = "remove" /\ d.id \in c.ids /\ MayRemoveAll(s, c.ids)
        BY <2>2, <3>1, <4>1, <4>2 DEF MayRemoveAll, has_instances_by_define_id
      <4>. QED
        BY <2>3, <4>1, <4>2
    <3>2. CASE i \notin db.instances
      <4>1. c.kind = "start" /\ i.define = c.id /\ find_define_by_id(s, c.id) # {} /\ db'.defines = db.defines
        BY <2>4, <3>2
      <4>2. PICK e \in s.defines : e.id = c.id
        BY <4>1 DEF find_define_by_id
      <4>3. Define(e.id) # {}
        BY <2>2, <4>1
      <4>. QED
        BY <4>1, <4>2, <4>3 DEF Define
    <3>. QED
      BY <3>1, <3>2
  <2>6. ASSUME NEW q \in Requests PROVE StartSees(q)' /\ RemoveSees(q)'
    <3>1. CASE q = r
      BY <1>3, <3>1, IdleIs DEF StartSees, RemoveSees, Under
    <3>2. CASE q # r
      <4>1. req'[q] = req[q] /\ Under(q)' = Under(q) /\ StartSees(q) /\ RemoveSees(q)
        BY <1>3, <3>2 DEF Under, InstancesInv
      <4>2. CASE req[q] = Idle
        BY <4>1, <4>2, IdleIs DEF StartSees, RemoveSees, Under
      <4>3. CASE req[q] # Idle
        <5>1. {Under(q), c.kind} \notin Apart
          <6>1. Under(r) = c.kind
            BY <2>1 DEF Under
          <6>. QED
            BY <1>0, <1>3, <3>2, <4>3, <6>1 DEF BaseInv, OverlapInv
        <5>2. StartSees(q)'
          <6>. SUFFICES ASSUME Under(q) = "start", NEW e \in req[q].seen.defines
                        PROVE  \E d \in db'.defines : d.id = e.id
            BY <4>1 DEF StartSees, Define
          <6>1. c.kind # "remove"
            BY <5>1
          <6>2. PICK d \in db.defines : d.id = e.id
            BY <4>1 DEF StartSees, Define
          <6>. QED
            BY <2>3, <6>1, <6>2
        <5>3. RemoveSees(q)'
          <6>. SUFFICES ASSUME Under(q) = "remove" PROVE db'.instances \subseteq req[q].seen.instances
            BY <4>1 DEF RemoveSees
          <6>1. c.kind # "start"
            <7>1. {Under(q), "start"} = {"remove", "start"}
              OBVIOUS
            <7>. QED
              BY <5>1, <7>1
          <6>. QED
            BY <2>4, <4>1, <6>1 DEF RemoveSees
        <5>. QED
          BY <5>2, <5>3
      <4>. QED
        BY <4>2, <4>3
    <3>. QED
      BY <3>1, <3>2
  <2>. QED
    BY <1>0, <2>5, <2>6 DEF InstancesInv
<1>. QED
  BY <1>0, <1>1, <1>2, <1>3, Steps

\* However many requests overlap, no instance is left without the definition it
\* runs on, if the facade never removes definitions while it starts an instance:
\* remove checks a whole batch before it deletes anything, and checks in time.
THEOREM InstancesAreKept ==
  ASSUME {"remove", "start"} \in Apart
  PROVE  Spec => []InstancesKeepDefinition
<1>1. Init => InstancesInv
  <2>. SUFFICES ASSUME Init PROVE InstancesInv
    OBVIOUS
  <2>1. db.instances = {} /\ \A r \in Requests : Under(r) = "none"
    BY DEF Init, NoTables, DeployedDesign, Under, Idle
  <2>. QED
    BY <2>1, BaseStart DEF InstancesInv, InstancesKeepDefinition, StartSees, RemoveSees
<1>2. InstancesInv => InstancesKeepDefinition
  BY DEF InstancesInv
<1>. QED
  BY <1>1, <1>2, InstancesStep, PTL DEF Spec

(***************************************************************************)
(* States of definitions.                                                  *)
(***************************************************************************)
SameState(d, e) == d.id = e.id /\ d.state = e.state
AmongStates(t, s) == \A d \in t.defines : \E e \in s.defines : SameState(d, e)

LEMMA RewritesSameState ==
  ASSUME NEW s, Sane(s), NEW t, Sane(t), AmongStates(t, s), NEW a, NEW w, Rewritten(s, t, a, w)
  PROVE  /\ \A d \in t.defines, e \in a.t.defines : d.id = e.id => d.state = e.state
         /\ repo = "sql" => \A e \in a.t.defines : \E d \in t.defines : SameState(e, d)
<1>1. \A d, e \in t.defines : d.id = e.id => d = e
  BY DEF Sane, Keyed
<1>2. \A d, e \in s.defines : d.id = e.id => d = e
  BY DEF Sane, Keyed
<1>3. \/ a.t.defines = t.defines
      \/ /\ a.t.defines = {e \in t.defines : e.id # w.id} \cup {w}
         /\ repo = "sql" => find_define_by_id(t, w.id) # {}
  <2>1. a.t.defines = update_define(t, w).defines /\ IsTables(t)
    BY DEF Rewritten, Sane
  <2>2. \/ update_define(t, w).defines = t.defines
        \/ /\ update_define(t, w).defines = {e \in t.defines : e.id # w.id} \cup {w}
           /\ repo = "sql" => find_define_by_id(t, w.id) # {}
    BY <2>1, UpdatesDefine
  <2>. QED
    BY <2>1, <2>2
<1>4. \A d \in t.defines : d.id = w.id => d.state = w.state
  BY <1>2 DEF Rewritten, AmongStates, SameState, find_define_by_id
<1>. QED
  BY <1>1, <1>3, <1>4 DEF find_define_by_id, SameState

\* The next id of the definitions' generator is beyond the ids it has passed.
LEMMA NextIdNotIssued ==
  ASSUME repo = "memory", gen.def \in Generator
  PROVE  ~Issued(IdOf(NewId(gen.def)))
<1>1. PICK l \in Nat, q \in Nat : gen.def = [last |-> l, seq |-> q]
  BY DEF Generator
<1>2. NewId(gen.def) = [last |-> l, seq |-> q + 1]
  BY <1>1 DEF NewId
<1>3. IdOf(NewId(gen.def)) = IdOf(gen.def) + 1 /\ IdOf(gen.def) \in Nat
  BY <1>1, <1>2, DefinitionsAssumption DEF IdOf
<1>. QED
  BY <1>3 DEF Issued

LEMMA KeepsStates ==
  ASSUME repo \in {"sql", "memory"}, gen.def \in Generator,
         NEW c, c.kind # "upAndDown", NEW s, Sane(s), NEW t, Sane(t),
         c.kind \in Replacing => AmongStates(t, s), NEW a, ToDefines(c, s, t, a)
  PROVE  /\ \A d \in t.defines, e \in a.t.defines : d.id = e.id /\ Issued(d.id) => d.state = e.state
         /\ repo = "sql" /\ c.kind \notin Deploying \cup {"redeployDesign"} => AmongStates(a.t, t)
<1>1. \A d, e \in t.defines : d.id = e.id => d = e
  BY DEF Sane, Keyed
<1>2. CASE a.t.defines \subseteq t.defines
  BY <1>1, <1>2 DEF AmongStates, SameState
<1>3. ASSUME NEW w, Rewritten(s, t, a, w), c.kind \in Replacing
      PROVE  /\ \A d \in t.defines, e \in a.t.defines : d.id = e.id => d.state = e.state
             /\ repo = "sql" => AmongStates(a.t, t)
  BY <1>3, RewritesSameState DEF AmongStates
<1>4. ASSUME NEW content, Added(s, t, a, content)
      PROVE  \A d \in t.defines, e \in a.t.defines : d.id = e.id /\ Issued(d.id) => d.state = e.state
  <2>1. PICK n : n = NewDefine(IdOf(NewId(gen.def)), content, NextVersion(s, content.name))
    OBVIOUS
  <2>2. n.id = IdOf(NewId(gen.def)) /\ a.t.defines = {x \in t.defines : x.id # n.id} \cup {n}
    BY <1>4, <2>1 DEF Added, NewDefine
  <2>3. \A d \in t.defines : Issued(d.id) => d.id # n.id
    <3>1. CASE repo = "sql"
      BY <1>4, <2>2, <3>1 DEF Added, find_define_by_id
    <3>2. CASE repo = "memory"
      BY <2>2, <3>2, NextIdNotIssued
    <3>. QED
      BY <3>1, <3>2
  <2>. QED
    BY <1>1, <2>2, <2>3
<1>5. \/ a.t.defines \subseteq t.defines
      \/ c.kind \in Deploying \cup {"redeployDesign"} /\ \E content : Added(s, t, a, content)
      \/ c.kind \in Replacing /\ \E w : Rewritten(s, t, a, w)
  BY DEF ToDefines, SameDefines
<1>. QED
  BY <1>2, <1>3, <1>4, <1>5

\* What a replacing handler has read is what the tables still hold.
ReplaceSees(r) == Under(r) \in Replacing => AmongStates(db, req[r].seen)
StatesInv == BaseInv /\ \A r \in Requests : ReplaceSees(r)

StateStep ==
  \A d \in db.defines : \A e \in db'.defines :
    d.id = e.id /\ Issued(d.id) /\ d.state # e.state => last'.kind = "upAndDown"

LEMMA StatesStep ==
  ASSUME \A b \in Replacing : \A k \in Deploying \cup {"redeployDesign", "upAndDown"} : {k, b} \in Apart
  PROVE  StatesInv /\ [Next]_vars => StatesInv' /\ StateStep
<1>. SUFFICES ASSUME StatesInv, [Next]_vars PROVE StatesInv' /\ StateStep
  OBVIOUS
<1>0. BaseInv /\ TypeInv /\ BaseInv'
  BY BaseStep DEF StatesInv, BaseInv
<1>s. Sane(db) /\ (db' = db => StateStep)
  BY <1>0 DEF TypeInv, Sane, Keyed, StateStep
<1>1. ASSUME UNCHANGED <<db, req>> PROVE StatesInv' /\ StateStep
  BY <1>0, <1>1, <1>s DEF StatesInv, ReplaceSees, Under
<1>2. ASSUME NEW r \in Requests, NEW c \in Calls, db' = db, req'[r] = [call |-> c, seen |-> db],
             \A q \in Requests : q # r => req'[q] = req[q]
      PROVE  StatesInv' /\ StateStep
  <2>1. ReplaceSees(r)'
    BY <1>2 DEF ReplaceSees, AmongStates, SameState
  <2>2. \A q \in Requests : q # r => ReplaceSees(q)'
    BY <1>2 DEF StatesInv, ReplaceSees, Under
  <2>. QED
    BY <1>0, <1>2, <1>s, <2>1, <2>2 DEF StatesInv
<1>3. ASSUME NEW r \in Requests, NEW c, NEW s, NEW a, Leaves(r, c, s, a), req[r] # Idle, req'[r] = Idle,
             \A q \in Requests : q # r => req'[q] = req[q]
      PROVE  StatesInv' /\ StateStep
  <2>1. /\ db' = a.t /\ ToDefines(c, s, db, a) /\ Sane(s) /\ last'.kind = c.kind
        /\ req[r] = [call |-> c, seen |-> s] /\ c \in Calls /\ Under(r) = c.kind
    BY <1>3 DEF Leaves, Effect, Under
  <2>2. c.kind \in Replacing => AmongStates(db, s)
    <3>1. ReplaceSees(r)
      BY DEF StatesInv
    <3>. QED
      BY <2>1, <3>1 DEF ReplaceSees
  <2>3. c.kind # "upAndDown" =>
          /\ \A d \in db.defines, e \in a.t.defines : d.id = e.id /\ Issued(d.id) => d.state = e.state
          /\ repo = "sql" /\ c.kind \notin Deploying \cup {"redeployDesign"} => AmongStates(a.t, db)
    BY <1>0, <1>s, <2>1, <2>2, KeepsStates DEF TypeInv
  <2>4. StateStep
    BY <2>1, <2>3 DEF StateStep
  <2>5. ASSUME NEW q \in Requests PROVE ReplaceSees(q)'
    <3>1. CASE q = r
      BY <1>3, <3>1, IdleIs DEF ReplaceSees, Under, Replacing
    <3>2. CASE q # r
      <4>1. req'[q] = req[q] /\ Under(q)' = Under(q) /\ ReplaceSees(q)
        BY <1>3, <3>2 DEF Under, StatesInv
      <4>. SUFFICES ASSUME Under(q) \in Replacing PROVE AmongStates(db', req[q].seen)
        BY <4>1 DEF ReplaceSees
      <4>2. req[q] # Idle
        BY IdleIs DEF Under, Replacing
      <4>3. repo = "sql" /\ {Under(r), Under(q)} \notin Apart
        BY <1>0, <1>3, <3>2, <4>2 DEF BaseInv, OverlapInv
      <4>4. c.kind \notin Deploying \cup {"redeployDesign", "upAndDown"}
        BY <2>1, <4>3
      <4>5. AmongStates(db', db) /\ AmongStates(db, req[q].seen)
        BY <2>1, <2>3, <4>1, <4>3, <4>4 DEF ReplaceSees
      <4>. QED
        BY <4>5 DEF AmongStates, SameState
    <3>. QED
      BY <3>1, <3>2
  <2>. QED
    BY <1>0, <2>4, <2>5 DEF StatesInv
<1>. QED
  BY <1>0, <1>1, <1>2, <1>3, Steps

\* A definition taken down stays down, and one that is up stays up, until
\* upAndDown is called: redeploy writes back the state it has read, so it must
\* not overlap upAndDown, nor a handler that can store a new definition.
THEOREM StatesAreKept ==
  ASSUME \A b \in Replacing : \A k \in Deploying \cup {"redeployDesign", "upAndDown"} : {k, b} \in Apart
  PROVE  Spec => StateKept
<1>1. Init => StatesInv
  BY BaseStart DEF Init, StatesInv, ReplaceSees, Under, Idle, Replacing
<1>2. StatesInv /\ [Next]_vars => StatesInv'
  BY StatesStep
<1>3. StatesInv /\ [Next]_vars =>
        [\A d \in db.defines : \A e \in db'.defines :
           d.id = e.id /\ Issued(d.id) /\ d.state # e.state => last'.kind = "upAndDown"]_vars
  BY StatesStep DEF StateStep
<1>. QED
  BY <1>1, <1>2, <1>3, PTL DEF Spec, StateKept

(***************************************************************************)
(* Versions.                                                               *)
(***************************************************************************)
SameVersion(d, e) == d.name = e.name /\ d.version = e.version
AmongVersions(t, s) == \A d \in t.defines : \E e \in s.defines : SameVersion(d, e)

LEMMA KeepsVersions ==
  ASSUME NEW c, c.kind \notin Deploying \cup Replacing, NEW s, NEW t, Sane(t), NEW a, ToDefines(c, s, t, a)
  PROVE  AmongVersions(a.t, t)
<1>1. CASE a.t.defines \subseteq t.defines
  BY <1>1 DEF AmongVersions, SameVersion
<1>2. CASE a.t.defines = {IF x.id \in c.ids THEN [x EXCEPT !.state = c.state] ELSE x : x \in t.defines}
  <2>1. \A e \in a.t.defines : \E d \in t.defines : e = Written(d, c.ids, c.state)
    BY <1>2, Zenon DEF Written
  <2>2. \A d \in t.defines : IsDefine(d)
    BY DEF Sane, IsTables
  <2>3. \A d \in t.defines : SameVersion(Written(d, c.ids, c.state), d)
    BY <2>2, StatesWritten DEF SameVersion
  <2>. QED
    BY <2>1, <2>3 DEF AmongVersions
<1>3. \/ a.t.defines \subseteq t.defines
      \/ a.t.defines = {IF x.id \in c.ids THEN [x EXCEPT !.state = c.state] ELSE x : x \in t.defines}
  BY DEF ToDefines, SameDefines, Replacing
<1>. QED
  BY <1>1, <1>2, <1>3

\* What was added is the one definition of its name with the highest version.
LEMMA AddedIsLatest ==
  ASSUME repo = "sql", gen.def \in Generator, now \in Nat,
         NEW c, NEW s, Sane(s), NEW t, Sane(t), AmongVersions(t, s),
         NEW a, NEW content, Added(s, t, a, content), Sane(a.t),
         NEW d \in a.t.defines, d.id = a.id
  PROVE  find_define_by_name(a.t, d.name) = {d}
<1>1. PICK n : n = NewDefine(a.id, content, NextVersion(s, content.name))
  OBVIOUS
<1>2. /\ n.id = a.id /\ n.name = content.name /\ n.version = Stored(NextVersion(s, content.name))
      /\ a.t.defines \subseteq t.defines \cup {n} /\ n \in a.t.defines
  BY <1>1 DEF Added, NewDefine
<1>3. d = n
  BY <1>2 DEF Sane, Keyed
<1>4. \A e \in a.t.defines : e.version \in Nat
  BY DEF Sane, IsTables, IsDefine
<1>5. ASSUME NEW e \in t.defines, e.name = n.name
      PROVE  e.version < n.version
  <2>1. PICK f \in s.defines : f.name = n.name /\ f.version = e.version
    BY <1>5 DEF AmongVersions, SameVersion
  <2>. QED
    BY <1>2, <2>1, NextVersionAbove
<1>6. \A e \in a.t.defines : e.name = n.name => e = n \/ e.version < n.version
  BY <1>2, <1>5
<1>7. n \in find_define_by_name(a.t, n.name)
  BY <1>2, <1>4, <1>6 DEF find_define_by_name
<1>8. \A e \in find_define_by_name(a.t, n.name) : e = n
  BY <1>2, <1>4, <1>6 DEF find_define_by_name
<1>. QED
  BY <1>3, <1>7, <1>8

\* What a deploying handler has read holds every version there is.
DeploySees(r) == Under(r) \in Deploying => AmongVersions(db, req[r].seen)
VersionsInv == repo = "sql" => LatestIsDeployed /\ \A r \in Requests : DeploySees(r)

LEMMA VersionsStep ==
  ASSUME \A b \in Deploying : \A k \in Deploying \cup Replacing : {k, b} \in Apart
  PROVE  BaseInv /\ VersionsInv /\ [Next]_vars => VersionsInv'
<1>. SUFFICES ASSUME BaseInv, VersionsInv, [Next]_vars PROVE VersionsInv'
  OBVIOUS
<1>0. TypeInv /\ TypeInv'
  BY BaseStep DEF BaseInv
<1>1. ASSUME UNCHANGED <<repo, db, req, last>> PROVE VersionsInv'
  BY <1>1 DEF VersionsInv, DeploySees, Under, LatestIsDeployed, Define, find_define_by_name
<1>2. ASSUME NEW r \in Requests, NEW c \in Calls, UNCHANGED <<repo, db, last>>, req'[r] = [call |-> c, seen |-> db],
             \A q \in Requests : q # r => req'[q] = req[q]
      PROVE  VersionsInv'
  <2>1. DeploySees(r)'
    BY <1>2 DEF DeploySees, AmongVersions, SameVersion
  <2>2. repo = "sql" => \A q \in Requests : q # r => DeploySees(q)'
    BY <1>2 DEF VersionsInv, DeploySees, Under
  <2>3. repo = "sql" => LatestIsDeployed'
    BY <1>2 DEF VersionsInv, LatestIsDeployed, Define, find_define_by_name
  <2>. QED
    BY <1>2, <2>1, <2>2, <2>3 DEF VersionsInv
<1>3. ASSUME NEW r \in Requests, NEW c, NEW s, NEW a, Leaves(r, c, s, a), req[r] # Idle, req'[r] = Idle,
             \A q \in Requests : q # r => req'[q] = req[q], repo = "sql"
      PROVE  VersionsInv'
  <2>1. /\ db' = a.t /\ ToDefines(c, s, db, a) /\ Sane(s) /\ Sane(db) /\ Sane(a.t) /\ repo' = repo
        /\ last'.kind = c.kind /\ last'.ok = a.ok /\ last'.id = a.id
        /\ req[r] = [call |-> c, seen |-> s] /\ c \in Calls /\ Under(r) = c.kind
    BY <1>0, <1>3 DEF Leaves, Effect, Under, TypeInv
  <2>2. c.kind \in Deploying => AmongVersions(db, s)
    <3>1. DeploySees(r)
      BY <1>3 DEF VersionsInv
    <3>. QED
      BY <2>1, <3>1 DEF DeploySees
  <2>3. LatestIsDeployed'
    <3>. SUFFICES ASSUME c.kind \in Deploying, a.ok, NEW d \in a.t.defines, d.id = a.id
                  PROVE  find_define_by_name(a.t, d.name) = {d}
      BY <2>1 DEF LatestIsDeployed, Define, find_define_by_name, Deploying
    <3>1. PICK content : Added(s, db, a, content)
      BY <2>1 DEF ToDefines, Deploying, Replacing
    <3>. QED
      BY <1>0, <1>3, <2>1, <2>2, <3>1, AddedIsLatest DEF TypeInv
  <2>4. ASSUME NEW q \in Requests PROVE DeploySees(q)'
    <3>1. CASE q = r
      BY <1>3, <3>1, IdleIs DEF DeploySees, Under, Deploying
    <3>2. CASE q # r
      <4>1. req'[q] = req[q] /\ Under(q)' = Under(q) /\ DeploySees(q)
        BY <1>3, <3>2 DEF Under, VersionsInv
      <4>. SUFFICES ASSUME Under(q) \in Deploying PROVE AmongVersions(db', req[q].seen)
        BY <4>1 DEF DeploySees
      <4>2. req[q] # Idle
        BY IdleIs DEF Under, Deploying
      <4>3. {Under(r), Under(q)} \notin Apart
        BY <1>3, <3>2, <4>2 DEF BaseInv, OverlapInv
      <4>4. c.kind \notin Deploying \cup Replacing
        BY <2>1, <4>3
      <4>5. AmongVersions(db', db) /\ AmongVersions(db, req[q].seen)
        BY <2>1, <4>1, <4>4, KeepsVersions DEF DeploySees
      <4>. QED
        BY <4>5 DEF AmongVersions, SameVersion
    <3>. QED
      BY <3>1, <3>2
  <2>. QED
    BY <2>3, <2>4 DEF VersionsInv
<1>4. ASSUME repo # "sql", repo' = repo PROVE VersionsInv'
  BY <1>4 DEF VersionsInv
<1>. QED
  BY <1>0, <1>1, <1>2, <1>3, <1>4, Steps, ZenonT(30) DEF Leaves

\* Over SQL what was deployed last under a name is what the name stands for,
\* with no tie, whatever was renamed, taken down or removed before: deploy
\* counts on from the highest version it has read, so nothing may store or
\* rename a definition while it is under way.
THEOREM LastDeployedIsLatest ==
  ASSUME \A b \in Deploying : \A k \in Deploying \cup Replacing : {k, b} \in Apart
  PROVE  Spec => [](repo = "sql" => LatestIsDeployed)
<1>1. Init => BaseInv /\ VersionsInv
  <2>. SUFFICES ASSUME Init PROVE BaseInv /\ VersionsInv
    OBVIOUS
  <2>1. LatestIsDeployed
    BY DEF Init, LatestIsDeployed
  <2>2. \A r \in Requests : DeploySees(r)
    BY DEF Init, DeploySees, Under, Idle, Deploying
  <2>. QED
    BY <2>1, <2>2, BaseStart DEF VersionsInv
<1>2. BaseInv /\ VersionsInv => (repo = "sql" => LatestIsDeployed)
  BY DEF VersionsInv
<1>. QED
  BY <1>1, <1>2, BaseStep, VersionsStep, PTL DEF Spec

(***************************************************************************)
(* Flags of designs.                                                       *)
(***************************************************************************)
Founded(t) == \A d \in t.designs : d.deployed = 1 => \A h \in NewestSnapshot(t, d.id) : h.content \in published
AmongDrafts(t, s) == \A h \in t.his : Own(t, h.design) = Own(s, h.design)

LEMMA NewestIsOwn ==
  ASSUME NEW t, NEW id, NEW h \in NewestSnapshot(t, id)
  PROVE  h \in t.his /\ h.design = id
BY DEF NewestSnapshot

LEMMA SameNewest ==
  ASSUME NEW t, NEW s, NEW id, Own(t, id) = Own(s, id)
  PROVE  NewestSnapshot(t, id) = NewestSnapshot(s, id)
<1>1. NewestSnapshot(t, id) = {h \in Own(t, id) : \A g \in Own(t, id) : g.id <= h.id}
  BY DEF NewestSnapshot, Own
<1>2. NewestSnapshot(s, id) = {h \in Own(s, id) : \A g \in Own(s, id) : g.id <= h.id}
  BY DEF NewestSnapshot, Own
<1>. QED
  BY <1>1, <1>2

LEMMA NewestIsOne ==
  ASSUME NEW s, Sane(s), NEW id, NEW g \in NewestSnapshot(s, id), NEW h \in NewestSnapshot(s, id)
  PROVE  g = h
<1>1. g \in s.his /\ h \in s.his /\ g.id <= h.id /\ h.id <= g.id
  BY DEF NewestSnapshot
<1>2. g.id \in Nat /\ h.id \in Nat
  BY <1>1 DEF Sane, IsTables, IsSnapshot
<1>3. g.id = h.id
  BY <1>1, <1>2
<1>. QED
  BY <1>1, <1>3 DEF Sane, Keyed

LEMMA KeepsDrafts ==
  ASSUME NEW c, c.kind \notin Drafting \cup {"saveNew"}, NEW s, NEW t, NEW a, ToDrafts(c, s, t, a)
  PROVE  AmongDrafts(a.t, t)
<1>1. CASE a.t.his = t.his
  BY <1>1 DEF AmongDrafts, Own
<1>2. CASE a.t.his = {h \in t.his : h.design # c.id}
  BY <1>2 DEF AmongDrafts, Own
<1>. QED
  BY <1>1, <1>2 DEF ToDrafts, SameDrafts

\* A design whose flag is written has the drafts that were read, or none.
LEMMA FlagsFounded ==
  ASSUME NEW c, NEW s, Sane(s), Founded(s), NEW t, AmongDrafts(t, s),
         NEW a, NEW d, FlagFounded(c, s, a, d), d.deployed = 1,
         NEW h \in NewestSnapshot(t, d.id)
  PROVE  h.content \in published \cup a.new
<1>1. h \in t.his /\ h.design = d.id
  BY NewestIsOwn
<1>2. Own(t, d.id) = Own(s, d.id)
  BY <1>1 DEF AmongDrafts
<1>3. h \in NewestSnapshot(s, d.id)
  BY <1>2, SameNewest
<1>4. CASE \E old \in s.designs : old.id = d.id /\ old.deployed = 1
  BY <1>3, <1>4 DEF Founded
<1>5. CASE \E g \in NewestSnapshot(s, d.id) : g.content \in a.new
  BY <1>3, <1>5, NewestIsOne
<1>. QED
  BY <1>4, <1>5 DEF FlagFounded

LEMMA KeepsFlags ==
  ASSUME NEW c, NEW s, Sane(s), NEW t, Sane(t), Founded(t),
         c.kind \in Flagging => AmongDrafts(t, s) /\ Founded(s),
         NEW a, ToDrafts(c, s, t, a),
         NEW d \in a.t.designs, d.deployed = 1, NEW h \in NewestSnapshot(a.t, d.id)
  PROVE  h.content \in published \cup a.new
<1>1. ASSUME d \in t.designs, Own(a.t, d.id) = Own(t, d.id)
      PROVE  h.content \in published \cup a.new
  <2>1. h \in NewestSnapshot(t, d.id)
    BY <1>1, SameNewest
  <2>. QED
    BY <1>1, <2>1 DEF Founded
<1>2. ASSUME a.t.his = t.his PROVE Own(a.t, d.id) = Own(t, d.id)
  BY <1>2 DEF Own
<1>3. CASE SameDrafts(t, a)
  BY <1>1, <1>2, <1>3 DEF SameDrafts
<1>4. ASSUME c.kind \in Flagging, a.t.his = t.his, NEW e, IsDesign(e),
             a.t.designs = update_design(t, e).designs, FlagFounded(c, s, a, e)
      PROVE  h.content \in published \cup a.new
  <2>1. a.t.designs = t.designs \/ a.t.designs = {x \in t.designs : x.id # e.id} \cup {e}
    BY <1>4, UpdatesDesign DEF Sane
  <2>2. CASE d \in t.designs
    BY <1>1, <1>2, <1>4, <2>2
  <2>3. CASE d = e
    <3>1. h \in NewestSnapshot(t, e.id)
      BY <1>2, <1>4, <2>3, SameNewest
    <3>2. AmongDrafts(t, s) /\ Founded(s)
      BY <1>4
    <3>. QED
      BY <1>4, <2>3, <3>1, <3>2, FlagsFounded
  <2>. QED
    BY <2>1, <2>2, <2>3
<1>5. ASSUME NEW e, IsDesign(e), e.id = c.id, e.deployed = 0, a.t.designs = update_design(t, e).designs,
             \/ a.t.his = t.his
             \/ Noted(t, a, IdOf(NewId(gen.ext)), c.id, c.content)
      PROVE  h.content \in published \cup a.new
  <2>1. \/ a.t.designs = t.designs /\ find_design_by_id(t, e.id) = {}
        \/ a.t.designs = {x \in t.designs : x.id # e.id} \cup {e}
    BY <1>5, UpdatesDesign DEF Sane
  <2>2. d \in t.designs /\ d.id # c.id
    BY <1>5, <2>1 DEF find_design_by_id
  <2>3. Own(a.t, d.id) = Own(t, d.id)
    <3>1. CASE Noted(t, a, IdOf(NewId(gen.ext)), c.id, c.content)
      BY <2>2, <3>1 DEF Noted, Own, Snapshot
    <3>. QED
      BY <1>2, <1>5, <3>1
  <2>. QED
    BY <1>1, <2>2, <2>3
<1>6. ASSUME NEW e, e.deployed = 0, find_design_by_id(t, e.id) = {}, a.t.designs = t.designs \cup {e},
             Noted(t, a, IdOf(NewId(NewId(gen.ext))), e.id, c.content)
      PROVE  h.content \in published \cup a.new
  <2>1. d \in t.designs /\ d.id # e.id
    BY <1>6 DEF find_design_by_id
  <2>2. Own(a.t, d.id) = Own(t, d.id)
    BY <1>6, <2>1 DEF Noted, Own, Snapshot
  <2>. QED
    BY <1>1, <2>1, <2>2
<1>7. CASE a.t.designs = {x \in t.designs : x.id # c.id} /\ a.t.his = {x \in t.his : x.design # c.id}
  <2>1. d \in t.designs /\ d.id # c.id
    BY <1>7
  <2>2. Own(a.t, d.id) = Own(t, d.id)
    BY <1>7, <2>1 DEF Own
  <2>. QED
    BY <1>1, <2>1, <2>2
<1>. QED
  BY <1>3, <1>4, <1>5, <1>6, <1>7 DEF ToDrafts

\* What a handler that writes a flag has read is what the drafts of the design
\* still are, unless they are gone.
FlagSees(r) == Under(r) \in Flagging => AmongDrafts(db, req[r].seen) /\ Founded(req[r].seen)
FlagsInv == BaseInv /\ Founded(db) /\ \A r \in Requests : FlagSees(r)

LEMMA FlagsStep ==
  ASSUME \A b \in Flagging : \A k \in Drafting \cup {"saveNew"} : {k, b} \in Apart
  PROVE  FlagsInv /\ [Next]_vars => FlagsInv'
<1>. SUFFICES ASSUME FlagsInv, [Next]_vars PROVE FlagsInv'
  OBVIOUS
<1>0. BaseInv /\ TypeInv /\ BaseInv'
  BY BaseStep DEF FlagsInv, BaseInv
<1>1. ASSUME UNCHANGED <<db, req, published>> PROVE FlagsInv'
  BY <1>0, <1>1 DEF FlagsInv, FlagSees, Under, Founded
<1>2. ASSUME NEW r \in Requests, NEW c \in Calls, UNCHANGED <<db, published>>, req'[r] = [call |-> c, seen |-> db],
             \A q \in Requests : q # r => req'[q] = req[q]
      PROVE  FlagsInv'
  <2>1. Founded(db)'
    BY <1>2 DEF FlagsInv, Founded
  <2>2. FlagSees(r)'
    BY <1>2, <2>1 DEF FlagSees, AmongDrafts, Founded
  <2>3. \A q \in Requests : q # r => FlagSees(q)'
    BY <1>2 DEF FlagsInv, FlagSees, Under, Founded
  <2>. QED
    BY <1>0, <2>1, <2>2, <2>3 DEF FlagsInv
<1>3. ASSUME NEW r \in Requests, NEW c, NEW s, NEW a, Leaves(r, c, s, a), req[r] # Idle, req'[r] = Idle,
             \A q \in Requests : q # r => req'[q] = req[q]
      PROVE  FlagsInv'
  <2>1. /\ db' = a.t /\ ToDrafts(c, s, db, a) /\ Sane(s) /\ Sane(db) /\ published' = published \cup a.new
        /\ req[r] = [call |-> c, seen |-> s] /\ c \in Calls /\ Under(r) = c.kind
    BY <1>0, <1>3 DEF Leaves, Effect, Under, TypeInv
  <2>2. Founded(db) /\ (c.kind \in Flagging => AmongDrafts(db, s) /\ Founded(s))
    <3>1. FlagSees(r) /\ Founded(db)
      BY DEF FlagsInv
    <3>. QED
      BY <2>1, <3>1 DEF FlagSees
  <2>3. Founded(db)'
    <3>1. ASSUME NEW d \in a.t.designs, d.deployed = 1, NEW h \in NewestSnapshot(a.t, d.id)
          PROVE  h.content \in published \cup a.new
      BY <2>1, <2>2, <3>1, KeepsFlags
    <3>. QED
      BY <2>1, <3>1 DEF Founded
  <2>4. ASSUME NEW q \in Requests PROVE FlagSees(q)'
    <3>1. CASE q = r
      BY <1>3, <3>1, IdleIs DEF FlagSees, Under, Flagging
    <3>2. CASE q # r
      <4>1. req'[q] = req[q] /\ Under(q)' = Under(q) /\ FlagSees(q)
        BY <1>3, <3>2 DEF Under, FlagsInv
      <4>. SUFFICES ASSUME Under(q) \in Flagging
                    PROVE  AmongDrafts(db', req[q].seen) /\ Founded(req[q].seen)'
        BY <4>1 DEF FlagSees
      <4>2. req[q] # Idle
        BY IdleIs DEF Under, Flagging
      <4>3. {Under(r), Under(q)} \notin Apart
        BY <1>0, <1>3, <3>2, <4>2 DEF BaseInv, OverlapInv
      <4>4. c.kind \notin Drafting \cup {"saveNew"}
        BY <2>1, <4>3
      <4>5. AmongDrafts(db', db) /\ AmongDrafts(db, req[q].seen) /\ Founded(req[q].seen)
        BY <2>1, <4>1, <4>4, KeepsDrafts DEF FlagSees
      <4>6. AmongDrafts(db', req[q].seen)
        <5>. SUFFICES ASSUME NEW h \in db'.his PROVE Own(db', h.design) = Own(req[q].seen, h.design)
          BY DEF AmongDrafts
        <5>1. Own(db', h.design) = Own(db, h.design) /\ h \in Own(db', h.design)
          BY <4>5 DEF AmongDrafts, Own
        <5>2. h \in db.his
          BY <5>1 DEF Own
        <5>. QED
          BY <4>5, <5>1, <5>2 DEF AmongDrafts
      <4>7. \A d \in req[q].seen.designs : d.deployed = 1 =>
              \A h \in NewestSnapshot(req[q].seen, d.id) : h.content \in published'
        BY <2>1, <4>5 DEF Founded
      <4>. QED
        BY <4>1, <4>6, <4>7 DEF Founded
    <3>. QED
      BY <3>1, <3>2
  <2>. QED
    BY <1>0, <2>3, <2>4 DEF FlagsInv
<1>. QED
  BY <1>0, <1>1, <1>2, <1>3, Steps

\* A design that says it is deployed has had its newest draft deployed, if the
\* handlers that write the flag do not overlap those that add drafts: each of
\* them writes the flag it computed from the design it read at its start.
THEOREM FlagsMeanDeployed ==
  ASSUME \A b \in Flagging : \A k \in Drafting \cup {"saveNew"} : {k, b} \in Apart
  PROVE  Spec => []FlagMeansDeployed
<1>1. Init => FlagsInv
  <2>. SUFFICES ASSUME Init PROVE FlagsInv
    OBVIOUS
  <2>1. Founded(db)
    <3>1. CASE db = NoTables
      BY <3>1 DEF NoTables, Founded
    <3>2. ASSUME NEW x \in Contents, db = DeployedDesign(x), published = {x} PROVE Founded(db)
      <4>1. db.his = {[id |-> 0, design |-> 0, content |-> x, serial |-> 0]}
        BY <3>2 DEF DeployedDesign
      <4>2. \A h \in db.his : h.content = x
        BY <4>1
      <4>. QED
        BY <3>2, <4>2 DEF Founded, NewestSnapshot
    <3>. QED
      BY <3>1, <3>2 DEF Init
  <2>2. \A r \in Requests : FlagSees(r)
    BY DEF Init, FlagSees, Under, Idle, Flagging
  <2>. QED
    BY <2>1, <2>2, BaseStart DEF FlagsInv
<1>2. FlagsInv => FlagMeansDeployed
  BY DEF FlagsInv, Founded, FlagMeansDeployed
<1>. QED
  BY <1>1, <1>2, FlagsStep, PTL DEF Spec

(***************************************************************************)
(* The order of drafts.                                                    *)
(***************************************************************************)
LEMMA Products ==
  ASSUME NEW m \in Nat, NEW n \in Nat, m < n, NEW p \in Nat
  PROVE  m * p + p <= n * p /\ m * p \in Nat /\ n * p \in Nat
<1>1. PICK k \in Nat : n = m + 1 + k
  <2>1. n - m - 1 \in Nat /\ n = m + 1 + (n - m - 1)
    OBVIOUS
  <2>. QED
    BY <2>1
<1>2. n * p = m * p + p + k * p
  BY <1>1
<1>3. m * p \in Nat /\ k * p \in Nat /\ n * p \in Nat
  BY <1>1
<1>. QED
  BY <1>2, <1>3

\* Fewer ids than a millisecond has room for.
Room == repo = "sql" => gen.ext.seq < PerMilli

LEMMA NextIdAbove ==
  ASSUME NEW g \in Generator, now \in Nat, g.last <= now,
         repo = "sql" => g.seq < PerMilli \/ g.last = now
  PROVE  /\ IdOf(g) < IdOf(NewId(g)) /\ NewId(g).last <= now
         /\ repo = "sql" => NewId(g).last = now
<1>1. g.last \in Nat /\ g.seq \in Nat /\ PerMilli \in Nat /\ g.last * PerMilli \in Nat
      /\ g = [last |-> g.last, seq |-> g.seq]
  BY DefinitionsAssumption DEF Generator
<1>2. CASE repo # "sql" \/ now = g.last
  <2>1. NewId(g) = [last |-> g.last, seq |-> g.seq + 1]
    BY <1>1, <1>2 DEF NewId, next_id
  <2>. QED
    BY <1>1, <1>2, <2>1 DEF IdOf
<1>3. CASE repo = "sql" /\ now # g.last
  <2>1. NewId(g) = [last |-> now, seq |-> 0]
    BY <1>1, <1>3 DEF NewId, next_id
  <2>2. g.last < now /\ g.seq < PerMilli
    BY <1>1, <1>3
  <2>3. g.last * PerMilli + PerMilli <= now * PerMilli /\ now * PerMilli \in Nat
    BY <1>1, <2>2, Products
  <2>. QED
    BY <1>1, <2>1, <2>2, <2>3 DEF IdOf
<1>. QED
  BY <1>2, <1>3

\* Drafts are numbered in the order of their ids, and no id is above top.
Ordered(t, top) ==
  /\ IsFiniteSet(t.his)
  /\ \A h \in t.his : h.id <= top /\ h.serial \in Nat /\ h.serial < Cardinality(Own(t, h.design))
  /\ \A g, h \in t.his : g.design = h.design /\ g.serial < h.serial => g.id < h.id

LEMMA OwnIsFinite ==
  ASSUME NEW t, IsFiniteSet(t.his), NEW id
  PROVE  IsFiniteSet(Own(t, id)) /\ Cardinality(Own(t, id)) \in Nat
<1>1. Own(t, id) \subseteq t.his
  BY DEF Own
<1>2. IsFiniteSet(Own(t, id))
  BY <1>1, FS_Subset
<1>. QED
  BY <1>2, FS_CardinalityType

LEMMA NotedKeepsOrder ==
  ASSUME NEW t, Sane(t), NEW top \in Nat, Ordered(t, top), NEW id \in Nat, top < id,
         NEW a, NEW x, NEW content, Noted(t, a, id, x, content)
  PROVE  Ordered(a.t, id)
<1>1. PICK n : n = Snapshot(t, id, x, content)
  OBVIOUS
<1>2. n.id = id /\ n.design = x /\ n.serial = Cardinality(Own(t, x))
  BY <1>1 DEF Snapshot
<1>3. a.t.his = t.his \cup {n} /\ n \notin t.his
  BY <1>1, <1>2 DEF Noted
<1>4. \A h \in t.his : /\ h.id \in Nat /\ h.id <= top /\ h.serial \in Nat
                        /\ h.serial < Cardinality(Own(t, h.design))
  BY DEF Ordered, Sane, IsTables, IsSnapshot
<1>5. IsFiniteSet(a.t.his)
  BY <1>3, FS_AddElement DEF Ordered
<1>6. Own(a.t, x) = Own(t, x) \cup {n} /\ n \notin Own(t, x)
  BY <1>2, <1>3 DEF Own
<1>7. Cardinality(Own(t, x)) \in Nat /\ Cardinality(Own(a.t, x)) = Cardinality(Own(t, x)) + 1
  BY <1>6, OwnIsFinite, FS_AddElement DEF Ordered
<1>8. \A h \in t.his : h.design # x => Own(a.t, h.design) = Own(t, h.design)
  BY <1>2, <1>3 DEF Own
<1>9. ASSUME NEW h \in a.t.his
      PROVE  h.id <= id /\ h.serial \in Nat /\ h.serial < Cardinality(Own(a.t, h.design))
  <2>1. CASE h = n
    BY <1>2, <1>7, <2>1
  <2>2. CASE h \in t.his /\ h.design = x
    BY <1>4, <1>7, <2>2
  <2>3. CASE h \in t.his /\ h.design # x
    BY <1>4, <1>8, <2>3
  <2>. QED
    BY <1>3, <2>1, <2>2, <2>3
<1>10. ASSUME NEW g \in a.t.his, NEW h \in a.t.his, g.design = h.design, g.serial < h.serial
       PROVE  g.id < h.id
  <2>1. CASE g \in t.his /\ h \in t.his
    BY <1>10, <2>1 DEF Ordered
  <2>2. CASE g \in t.his /\ h = n
    BY <1>2, <1>4, <2>2
  <2>3. CASE g = n
    <3>1. h.serial < Cardinality(Own(t, x)) \/ h = n
      BY <1>2, <1>3, <1>4, <1>10, <2>3
    <3>. QED
      BY <1>2, <1>3, <1>4, <1>7, <1>10, <2>3, <3>1
  <2>. QED
    BY <1>3, <2>1, <2>2, <2>3
<1>. QED
  BY <1>5, <1>9, <1>10 DEF Ordered

LEMMA RemovalKeepsOrder ==
  ASSUME NEW t, NEW top, Ordered(t, top), NEW u, NEW id, u.his = {h \in t.his : h.design # id}
  PROVE  Ordered(u, top)
<1>1. IsFiniteSet(u.his)
  BY FS_Subset DEF Ordered
<1>2. \A h \in u.his : h \in t.his /\ Own(u, h.design) = Own(t, h.design)
  BY DEF Own
<1>. QED
  BY <1>1, <1>2 DEF Ordered

LEMMA EffectKeepsOrder ==
  ASSUME Room, gen.ext \in Generator, now \in Nat, gen.ext.last <= now,
         NEW c, NEW s, NEW t, Sane(t), Ordered(t, IdOf(gen.ext)), NEW a, ToDrafts(c, s, t, a)
  PROVE  Ordered(a.t, IdOf(a.ext)) /\ a.ext.last <= now
<1>1. PICK g, h : g = NewId(gen.ext) /\ h = NewId(g)
  OBVIOUS
<1>2. g \in Generator /\ h \in Generator /\ IdOf(gen.ext) \in Nat /\ IdOf(g) \in Nat /\ IdOf(h) \in Nat
  <2>1. IdOf(gen.ext) \in Nat
    BY DefinitionsAssumption DEF IdOf, Generator
  <2>. QED
    BY <1>1, <2>1, NewIds
<1>3. IdOf(gen.ext) < IdOf(g) /\ g.last <= now /\ (repo = "sql" => g.last = now)
  BY <1>1, NextIdAbove DEF Room
<1>4. IdOf(g) < IdOf(h) /\ h.last <= now
  BY <1>1, <1>2, <1>3, NextIdAbove
<1>5. CASE a.t.his = t.his /\ a.ext = gen.ext
  BY <1>5 DEF Ordered, Own
<1>6. ASSUME NEW x, NEW content, Noted(t, a, IdOf(g), x, content), a.ext = g
      PROVE  Ordered(a.t, IdOf(a.ext)) /\ a.ext.last <= now
  BY <1>2, <1>3, <1>6, NotedKeepsOrder
<1>7. ASSUME NEW x, NEW content, Noted(t, a, IdOf(h), x, content), a.ext = h
      PROVE  Ordered(a.t, IdOf(a.ext)) /\ a.ext.last <= now
  <2>1. IdOf(gen.ext) < IdOf(h)
    BY <1>2, <1>3, <1>4
  <2>. QED
    BY <1>2, <1>4, <1>7, <2>1, NotedKeepsOrder
<1>8. CASE a.t.his = {x \in t.his : x.design # c.id} /\ a.ext = gen.ext
  <2>1. PICK u, id : u = a.t /\ id = c.id
    OBVIOUS
  <2>2. u.his = {x \in t.his : x.design # id}
    BY <1>8, <2>1
  <2>3. Ordered(u, IdOf(gen.ext))
    BY <2>2, RemovalKeepsOrder
  <2>. QED
    BY <1>8, <2>1, <2>3
<1>. QED
  BY <1>1, <1>5, <1>6, <1>7, <1>8 DEF ToDrafts, SameDrafts

OrderInv == ~setBack => gen.ext.last <= now /\ Ordered(db, IdOf(gen.ext))

LEMMA OrderStep == BaseInv /\ OrderInv /\ Room /\ [Next]_vars => OrderInv'
<1>. SUFFICES ASSUME BaseInv, OrderInv, Room, [Next]_vars, ~setBack' PROVE OrderInv'
  BY DEF OrderInv
<1>0. TypeInv /\ gen.ext.last \in Nat /\ now \in Nat /\ TypeInv'
  BY BaseStep DEF BaseInv, TypeInv, Generator
<1>1. ASSUME UNCHANGED <<db, gen>>, UNCHANGED setBack \/ setBack', setBack' \/ now' >= now PROVE OrderInv'
  <2>1. now' >= now /\ now' \in Nat /\ ~setBack
    BY <1>0, <1>1 DEF TypeInv
  <2>. QED
    BY <1>0, <1>1, <2>1 DEF OrderInv, Ordered, Own, IdOf
<1>2. ASSUME NEW r \in Requests, NEW c, NEW s, NEW a, Leaves(r, c, s, a) PROVE OrderInv'
  <2>1. /\ db' = a.t /\ ToDrafts(c, s, db, a) /\ Sane(db) /\ gen'.ext = a.ext
        /\ now' = now /\ setBack' = setBack
    BY <1>0, <1>2 DEF Leaves, Effect, TypeInv
  <2>2. Ordered(db, IdOf(gen.ext)) /\ gen.ext.last <= now
    BY <2>1 DEF OrderInv
  <2>3. Ordered(a.t, IdOf(a.ext)) /\ a.ext.last <= now
    BY <1>0, <2>1, <2>2, EffectKeepsOrder DEF TypeInv
  <2>. QED
    BY <2>1, <2>3 DEF OrderInv, Ordered, Own, IdOf
<1>. QED
  BY <1>0, <1>1, <1>2, Steps

\* Drafts are listed in the order they were saved, by ids alone, also several in
\* one millisecond and whatever was removed in between: as long as nobody sets
\* the clock back and no millisecond needs more ids than it has room for.
THEOREM DraftsStayInOrder == Spec /\ []Room => []DraftsInOrder
<1>1. Init => OrderInv
  <2>. SUFFICES ASSUME Init PROVE OrderInv
    OBVIOUS
  <2>1. gen.ext.last = 0 /\ now = 0 /\ IdOf(gen.ext) = 0
    BY DefinitionsAssumption DEF Init, FirstGiven, IdOf
  <2>2. Ordered(db, 0)
    <3>1. CASE db = NoTables
      BY <3>1, FS_EmptySet DEF NoTables, Ordered
    <3>2. ASSUME NEW x \in Contents, db = DeployedDesign(x) PROVE Ordered(db, 0)
      <4>1. PICK h : h = [id |-> 0, design |-> 0, content |-> x, serial |-> 0]
        OBVIOUS
      <4>2. db.his = {h} /\ h.id = 0 /\ h.design = 0 /\ h.serial = 0
        BY <3>2, <4>1 DEF DeployedDesign
      <4>3. Own(db, 0) = {h}
        BY <4>2 DEF Own
      <4>4. IsFiniteSet({h}) /\ Cardinality({h}) = 1
        BY FS_Singleton
      <4>. QED
        BY <4>2, <4>3, <4>4 DEF Ordered
    <3>. QED
      BY <3>1, <3>2 DEF Init
  <2>. QED
    BY <2>1, <2>2 DEF OrderInv
<1>2. OrderInv => DraftsInOrder
  BY DEF OrderInv, Ordered, DraftsInOrder
<1>. QED
  BY <1>1, <1>2, BaseStart, BaseStep, OrderStep, PTL DEF Spec
=============================================================================
