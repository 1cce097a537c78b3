----------------------------- MODULE Definitions -----------------------------
(***************************************************************************)
(* Process definitions, the designs they are drafted in and the instances  *)
(* started from them, under the facade's handlers.  The engine reads the   *)
(* definition anew on every request, so a definition that is replaced or   *)
(* removed reaches the instances that run on it.                           *)
(*                                                                         *)
(* Over SQL a request reads at its start and writes at its end, and other  *)
(* requests may run in between, except those Apart names; over the         *)
(* in-memory repository nothing ever suspends a handler.                   *)
(***************************************************************************)
EXTENDS TsIds, FiniteSetsExt, Sequences

CONSTANTS Contents,     \* the contents of drafts: [name, body]
          Requests,     \* the requests that may be under way at one time
          Apart,        \* pairs of handlers that do not overlap
          Calls,        \* the calls requests make
          MaxTime, MaxCalls

Kinds == {"deploy", "redeploy", "remove", "upAndDown", "start", "saveNew", "saveAgain", "updateDefine",
          "updateDesign", "deployDesign", "redeployDesign", "removeDesign"}

ASSUME DefinitionsAssumption ==
    /\ PerMilli \in Nat \ {0}
    /\ \A c \in Calls : c.kind \in Kinds /\ (c.kind = "redeploy" => c.id \in Int)

VARIABLES repo,         \* "sql" or "memory"
          db,           \* the tables: [defines, instances, designs, his]
          published,    \* contents that have reached a definition
          req,          \* req[r]: Idle, or the call and what it read
          gen,          \* gen.def, gen.ext: the id generators of the two repositories
          now,          \* the clock of the id generators
          setBack,      \* the clock has been set back
          calls,
          last          \* the last call answered

vars == <<repo, db, published, req, gen, now, setBack, calls, last>>

Idle == [call |-> [kind |-> "none"]]

Define(id) == {d \in db.defines : d.id = id}

(***************************************************************************)
(* Queries.                                                                *)
(***************************************************************************)
\* Over SQL the highest version of the name, in memory the highest id.
find_define_by_name(t, name) ==
    LET mine == {d \in t.defines : d.name = name}
        Key(d) == IF repo = "sql" THEN d.version ELSE d.id
    IN {d \in mine : \A e \in mine : Key(e) <= Key(d)}

find_define_by_id(t, id) == {d \in t.defines : d.id = id}
has_instances_by_define_id(t, id) == \E i \in t.instances : i.define = id
find_design_by_id(t, id) == {d \in t.designs : d.id = id}

\* The newest snapshot: the first of ORDER BY id DESC.
NewestSnapshot(t, id) ==
    LET mine == {h \in t.his : h.design = id}
    IN {h \in mine : \A g \in mine : g.id <= h.id}

(***************************************************************************)
(* Writes.                                                                 *)
(***************************************************************************)
\* save_define: over SQL version and state 0 are taken for missing.  In memory a
\* row that has the id is replaced; over SQL the caller has refused that.
Stored(version) == IF repo = "sql" /\ version = 0 THEN 1 ELSE version
save_define(t, id, content, version) ==
    [t EXCEPT !.defines = {d \in @ : d.id # id}
                          \cup {[id |-> id, name |-> content.name, version |-> Stored(version),
                                 state |-> 1, content |-> content]}]

\* update_define: over SQL a row that is gone stays gone, in memory it comes back.
update_define(t, d) ==
    IF repo = "sql" /\ find_define_by_id(t, d.id) = {} THEN t
    ELSE [t EXCEPT !.defines = {e \in @ : e.id # d.id} \cup {d}]

update_define_state(t, ids, state) ==
    [t EXCEPT !.defines = {IF d.id \in ids THEN [d EXCEPT !.state = state] ELSE d : d \in @}]

update_design(t, d) ==
    IF repo = "sql" /\ find_design_by_id(t, d.id) = {} THEN t
    ELSE [t EXCEPT !.designs = {e \in @ : e.id # d.id} \cup {d}]

save_design_his(t, id, design, content) ==
    [t EXCEPT !.his = @ \cup {[id |-> id, design |-> design, content |-> content,
                               serial |-> Cardinality({h \in @ : h.design = design})]}]

remove_design(t, id) ==
    [t EXCEPT !.designs = {d \in @ : d.id # id}, !.his = {h \in @ : h.design # id}]

(***************************************************************************)
(* Handlers: [ok, t, def, ext, id, new], t the tables after the call, new  *)
(* the contents it published.  "s" is what the request read.               *)
(***************************************************************************)
Refused(t) == [ok |-> FALSE, t |-> t, def |-> gen.def, ext |-> gen.ext, id |-> 0, new |-> {}]
Done(t) == [Refused(t) EXCEPT !.ok = TRUE]

\* Seeded fault: the version is counted from the definitions of the name.
NextVersion_Fault(s, name) == Cardinality({d \in s.defines : d.name = name})

NextVersion(s, name) ==
    IF find_define_by_name(s, name) = {} THEN 0
    ELSE Max({d.version : d \in find_define_by_name(s, name)}) + 1

\* In memory ids are counted, without a clock.
NewId(g) == IF repo = "sql" THEN next_id(g, now) ELSE [g EXCEPT !.seq = @ + 1]

\* The primary key of the SQL table refuses a second row with an id.
deploy(s, t, content) ==
    LET g == NewId(gen.def)
    IN IF repo = "sql" /\ find_define_by_id(t, IdOf(g)) # {} THEN Refused(t)
       ELSE [Done(save_define(t, IdOf(g), content, NextVersion(s, content.name)))
             EXCEPT !.def = g, !.id = IdOf(g), !.new = {content}]

\* Seeded fault: the definition is written as a new one would be.
Replaced_Fault(d, content) == [d EXCEPT !.name = content.name, !.content = content, !.state = 1]

\* redeploy keeps the state and the version it read.
Replaced(d, content) == [d EXCEPT !.name = content.name, !.content = content]

redeploy(s, t, id, content) ==
    LET old == find_define_by_id(s, id)
        new == IF old = {} THEN [id |-> id, name |-> content.name, version |-> 1, state |-> 1, content |-> content]
               ELSE Replaced(CHOOSE d \in old : TRUE, content)
    IN [Done(update_define(t, new)) EXCEPT !.new = {content}]

\* Seeded fault: one definition without instances is enough.
MayRemoveAll_Fault(s, ids) == \E id \in ids : ~has_instances_by_define_id(s, id)

\* remove checks the whole batch before it deletes anything.
MayRemoveAll(s, ids) == \A id \in ids : ~has_instances_by_define_id(s, id)

remove(s, t, ids) ==
    IF ~MayRemoveAll(s, ids) THEN Refused(t)
    ELSE Done([t EXCEPT !.defines = {d \in @ : d.id \notin ids}])

upAndDown(t, ids, state) == Done(update_define_state(t, ids, state))

\* A start reads the definition, whatever its state, and stores an instance.
start(s, t, id) ==
    IF find_define_by_id(s, id) = {} THEN Refused(t)
    ELSE Done([t EXCEPT !.instances = @ \cup {[serial |-> Cardinality(@), define |-> id]}])

\* A draft saved for the first time: the design, then its snapshot.  The primary
\* keys refuse ids that are taken, as only the clock of the SQL ids brings them.
saveNew(t, content) ==
    LET g == NewId(gen.ext)
        h == NewId(g)
        design == [id |-> IdOf(g), name |-> content.name, deployed |-> 0]
    IN IF find_design_by_id(t, IdOf(g)) # {} \/ (\E x \in t.his : x.id = IdOf(h)) THEN Refused(t)
       ELSE [Done(save_design_his([t EXCEPT !.designs = @ \cup {design}], IdOf(h), IdOf(g), content))
             EXCEPT !.ext = h]

\* Seeded fault: the flag survives a new snapshot.
Undeployed_Fault(design, content) == [design EXCEPT !.name = content.name]

Undeployed(design, content) == [design EXCEPT !.name = content.name, !.deployed = 0]

AddSnapshot(t, design, content) ==
    LET h == NewId(gen.ext)
    IN IF \E x \in t.his : x.id = IdOf(h) THEN Refused(t)
       ELSE [Done(save_design_his(t, IdOf(h), design, content)) EXCEPT !.ext = h]

\* save of a known draft: the flag goes, the name stays, the snapshot is added.
saveAgain(s, t, id, content) ==
    IF find_design_by_id(s, id) = {} THEN Refused(t)
    ELSE LET d == CHOOSE x \in find_design_by_id(s, id) : TRUE
         IN AddSnapshot(update_design(t, [Undeployed(d, content) EXCEPT !.name = d.name]), id, content)

\* updateDefine: a content equal to the newest snapshot is not stored again.
updateDefine(s, t, id, content) ==
    IF find_design_by_id(s, id) = {} THEN Refused(t)
    ELSE LET d == CHOOSE x \in find_design_by_id(s, id) : TRUE
             same == \E h \in NewestSnapshot(s, id) : h.content = content
             stored == IF same THEN Done(t) ELSE AddSnapshot(t, id, content)
         IN [stored EXCEPT !.t = update_design(@, Undeployed(d, content))]

\* update: the basic data as they were read, the flag with them.
updateDesign(s, t, id, name) ==
    IF find_design_by_id(s, id) = {} THEN Refused(t)
    ELSE LET d == CHOOSE x \in find_design_by_id(s, id) : TRUE
         IN Done(update_design(t, [d EXCEPT !.name = name]))

Flagged(s, answer, id) ==
    LET d == CHOOSE x \in find_design_by_id(s, id) : TRUE
    IN IF answer.ok THEN [answer EXCEPT !.t = update_design(@, [d EXCEPT !.deployed = 1])] ELSE answer

\* deploy of a design: its newest snapshot becomes a new version.
deployDesign(s, t, id) ==
    IF find_design_by_id(s, id) = {} \/ NewestSnapshot(s, id) = {} THEN Refused(t)
    ELSE LET content == (CHOOSE h \in NewestSnapshot(s, id) : TRUE).content
         IN Flagged(s, deploy(s, t, content), id)

\* redeploy of a design: the latest definition of the name takes the content.
redeployDesign(s, t, id) ==
    IF find_design_by_id(s, id) = {} \/ NewestSnapshot(s, id) = {} THEN Refused(t)
    ELSE LET content == (CHOOSE h \in NewestSnapshot(s, id) : TRUE).content
             latest == find_define_by_name(s, content.name)
             answer == IF latest = {} THEN deploy(s, t, content)
                       ELSE [Done(update_define(t, Replaced(CHOOSE d \in latest : TRUE, content)))
                             EXCEPT !.new = {content}]
         IN Flagged(s, answer, id)

Do(c, s, t) ==
    CASE c.kind = "deploy"         -> deploy(s, t, c.content)
      [] c.kind = "redeploy"       -> redeploy(s, t, c.id, c.content)
      [] c.kind = "remove"         -> remove(s, t, c.ids)
      [] c.kind = "upAndDown"      -> upAndDown(t, c.ids, c.state)
      [] c.kind = "start"          -> start(s, t, c.id)
      [] c.kind = "saveNew"        -> saveNew(t, c.content)
      [] c.kind = "saveAgain"      -> saveAgain(s, t, c.id, c.content)
      [] c.kind = "updateDefine"   -> updateDefine(s, t, c.id, c.content)
      [] c.kind = "updateDesign"   -> updateDesign(s, t, c.id, c.name)
      [] c.kind = "deployDesign"   -> deployDesign(s, t, c.id)
      [] c.kind = "redeployDesign" -> redeployDesign(s, t, c.id)
      [] c.kind = "removeDesign"   -> Done(remove_design(t, c.id))

(***************************************************************************)
(* The steps.                                                              *)
(***************************************************************************)
NoTables == [defines |-> {}, instances |-> {}, designs |-> {}, his |-> {}]
DeployedDesign(c) ==
    [defines   |-> {[id |-> 0, name |-> c.name, version |-> Stored(0), state |-> 1, content |-> c]},
     instances |-> {},
     designs   |-> {[id |-> 0, name |-> c.name, deployed |-> 1]},
     his       |-> {[id |-> 0, design |-> 0, content |-> c, serial |-> 0]}]

\* Nothing yet, or one design whose only draft has been deployed.
Init ==
    /\ repo \in {"sql", "memory"}
    /\ \/ db = NoTables /\ published = {}
       \/ \E c \in Contents : db = DeployedDesign(c) /\ published = {c}
    /\ req = [r \in Requests |-> Idle]
    /\ gen = [def |-> FirstGiven, ext |-> FirstGiven]
    /\ now = 0 /\ setBack = FALSE /\ calls = 0
    /\ last = [kind |-> "none", ok |-> FALSE, id |-> 0]

Under(r) == req[r].call.kind

Begin(r, c) ==
    /\ calls < MaxCalls /\ req[r] = Idle
    /\ \A q \in Requests \ {r} :
         req[q] # Idle => repo = "sql" /\ {c.kind, Under(q)} \notin Apart
    /\ req' = [req EXCEPT ![r] = [call |-> c, seen |-> db]]
    /\ calls' = calls + 1
    /\ UNCHANGED <<repo, db, published, gen, now, setBack, last>>

Finish(r) ==
    /\ req[r] # Idle
    /\ LET c == req[r].call
           a == Do(c, req[r].seen, db)
       IN /\ db' = a.t
          /\ gen' = [def |-> a.def, ext |-> a.ext]
          /\ published' = published \cup a.new
          /\ last' = [kind |-> c.kind, ok |-> a.ok, id |-> a.id]
    /\ req' = [req EXCEPT ![r] = Idle]
    /\ UNCHANGED <<repo, now, setBack, calls>>

Tick ==
    /\ now < MaxTime /\ now' = now + 1
    /\ UNCHANGED <<repo, db, published, req, gen, setBack, calls, last>>

\* The clock of the machine is corrected backwards.
SetBack ==
    /\ now > 0 /\ now' = now - 1 /\ setBack' = TRUE
    /\ UNCHANGED <<repo, db, published, req, gen, calls, last>>

Next ==
    \/ \E r \in Requests : (\E c \in Calls : Begin(r, c)) \/ Finish(r)
    \/ Tick
    \/ SetBack

Spec == Init /\ [][Next]_vars

(***************************************************************************)
(* Properties.                                                             *)
(***************************************************************************)
\* What was deployed last under a name is what the name stands for: the next
\* deploy counts on from it, the next redeploy of a design replaces it.  One
\* definition, no tie, also after redeploys that changed names and removals.
LatestIsDeployed ==
    last.kind \in {"deploy", "deployDesign"} /\ last.ok =>
      \A d \in Define(last.id) : find_define_by_name(db, d.name) = {d}

\* The ids the definitions' own generator has passed: in memory a redeploy can
\* insert a row under an id that a later deploy is still to be given.
Issued(id) == repo = "memory" => id <= IdOf(gen.def)

\* A definition taken down stays down, and one that is up stays up, until
\* upAndDown is called: replacing the content is no way to revive it.  (A row that
\* a redeploy inserted ahead of the counter is replaced, up again, when a deploy
\* reaches its id: save_define of memory.py looks at nothing.)
StateKept ==
    [][\A d \in db.defines : \A e \in db'.defines :
         d.id = e.id /\ Issued(d.id) /\ d.state # e.state => last'.kind = "upAndDown"]_vars

\* No instance is left without the definition it runs on.
InstancesKeepDefinition ==
    \A i \in db.instances : Define(i.define) # {}

\* A design that says it is deployed has had its newest draft deployed.
FlagMeansDeployed ==
    \A d \in db.designs : d.deployed = 1 =>
      \A h \in NewestSnapshot(db, d.id) : h.content \in published

\* Drafts are listed, by id, in the order they were saved, also several in one
\* millisecond, as long as nobody sets the clock back.
DraftsInOrder ==
    ~setBack =>
    \A g, h \in db.his : g.design = h.design /\ g.serial < h.serial => g.id < h.id
=============================================================================
