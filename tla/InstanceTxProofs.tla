-------------------------- MODULE InstanceTxProofs --------------------------
(***************************************************************************)
(* With the lock outside the transaction (Owner = "engine") and without    *)
(* withdrawals, which take no lock, requests on an instance are serialised: *)
(* InstanceTx implements InstanceAtomic, for any number of branches and     *)
(* requests, under either isolation, whatever fails in between.             *)
(*                                                                         *)
(* The argument. A request between its lock and its unlock holds the lock, *)
(* so nobody else commits meanwhile: what it has read is what is committed *)
(* (Fresh), what it has written is what the atomic step would write        *)
(* (Drafted), and its commit is that step. Every other step is a stutter.  *)
(***************************************************************************)
EXTENDS InstanceTx, TLAPS

States == {"doing", "done", "finished", "withdrawn"}
Labels ==
  {"idle", "called", "begun", "checked", "loaded", "saved", "cascading", "ended",
   "failing", "committed", "failed"}
Partial == UNION {[S -> States] : S \in SUBSET Item}

TxTypeOK ==
  /\ db \in [Item -> States]
  /\ pc \in [Request -> Labels]
  /\ snap \in [Request -> [Item -> States]]
  /\ copy \in [Request -> [Item -> States]]
  /\ writes \in [Request -> Partial]

Busy == {"called", "begun", "checked", "loaded", "saved", "cascading", "ended", "failing"}
Reading == {"begun", "checked", "loaded"}
Writing == {"saved", "cascading", "ended"}

\* The lock is held from its taking to the end of the transaction.
Locked(r) == pc[r] \in Busy => lock = r

\* What the request has read is committed still.
Current(r) ==
  /\ pc[r] \in Reading \cup Writing => snap[r] = db
  /\ pc[r] \in {"checked", "loaded"} \cup Writing => db[Target[r]] = "doing"
  /\ pc[r] = "checked" => copy[r][Target[r]] = "doing"
  /\ pc[r] = "loaded" => copy[r] = db
  /\ pc[r] \in Writing => copy[r] = [db EXCEPT ![Target[r]] = "done"]

\* What it has written is its copy, and at last the instance as the join left it.
Outcome(r) ==
  IF \A b \in Branch : copy[r][b] # "doing" THEN "finished" ELSE copy[r]["inst"]
Drafted(r) ==
  /\ pc[r] \notin Writing \cup {"failing"} => writes[r] = NoWrites
  /\ pc[r] \in {"saved", "cascading"} => \A i \in Written(r) : writes[r][i] = copy[r][i]
  /\ pc[r] = "ended" =>
       /\ Written(r) = Item
       /\ \A b \in Branch : writes[r][b] = copy[r][b]
       /\ writes[r]["inst"] = Outcome(r)

TxInv ==
  /\ TxTypeOK
  /\ \A r \in Request : Locked(r) /\ Current(r) /\ Drafted(r)

\* The requests this is about.
LockedRequests == Owner = "engine" /\ \A r \in Request : Target[r] \in Branch

\* Nobody withdraws.
LEMMA NoWithdrawal ==
  ASSUME LockedRequests, NEW r \in Request
  PROVE  ~Withdraws(r) /\ Target[r] \in Item /\ "inst" \in Item /\ Branch \subseteq Item
BY TxAssumption DEF LockedRequests, Withdraws, Item

\* Only one request is busy.
LEMMA Alone ==
  ASSUME TxInv, NEW r \in Request, pc[r] \in Busy
  PROVE  lock = r /\ \A q \in Request \ {r} : pc[q] \notin Busy
BY DEF TxInv, Locked

\* A step of one request that leaves db alone leaves the others' facts alone.
LEMMA OthersKept ==
  ASSUME TxInv, NEW r \in Request, NEW q \in Request \ {r},
         db' = db, pc'[q] = pc[q], snap'[q] = snap[q], copy'[q] = copy[q],
         writes'[q] = writes[q]
  PROVE  Current(q)' /\ Drafted(q)'
BY DEF TxInv, Current, Drafted, Written, Outcome

\* A write leaves the rows written before as they were.
LEMMA WriteType ==
  ASSUME TxTypeOK, NEW r \in Request, NEW i \in Item, NEW v \in States, Write(r, i, v)
  PROVE  /\ writes' \in [Request -> Partial]
         /\ \A q \in Request \ {r} : writes'[q] = writes[q]
         /\ Written(r)' = Written(r) \cup {i}
         /\ \A j \in Written(r) \cup {i} : writes'[r][j] = IF j = i THEN v ELSE writes[r][j]
<1>. DEFINE new == [j \in Written(r) \cup {i} |-> IF j = i THEN v ELSE writes[r][j]]
<1>1. PICK S \in SUBSET Item : writes[r] \in [S -> States]
  BY DEF TxTypeOK, Partial
<1>2. Written(r) = S
  BY <1>1 DEF Written
<1>3. new \in [S \cup {i} -> States]
  BY <1>1, <1>2
<1>4. new \in Partial
  BY <1>3 DEF Partial
<1>5. writes' = [writes EXCEPT ![r] = new]
  BY DEF Write
<1>6. writes'[r] = new
  BY <1>5 DEF TxTypeOK
<1>. QED
  BY <1>4, <1>5, <1>6 DEF TxTypeOK, Written

\* A step of r: the others move in nothing, the lock passes only between None and r.
Quiet(r) ==
  /\ \A q \in Request \ {r} :
       pc'[q] = pc[q] /\ snap'[q] = snap[q] /\ copy'[q] = copy[q] /\ writes'[q] = writes[q]
  /\ lock' = lock \/ (lock = None /\ lock' = r) \/ (lock = r /\ lock' = None)

\* It is enough to look at the request that moves.
LEMMA OnlyMover ==
  ASSUME TxInv, NEW r \in Request, db' = db, Quiet(r), TxTypeOK',
         Locked(r)', Current(r)', Drafted(r)'
  PROVE  TxInv'
<1>1. ASSUME NEW q \in Request \ {r}
      PROVE  Locked(q)' /\ Current(q)' /\ Drafted(q)'
  <2>1. Current(q)' /\ Drafted(q)'
    BY OthersKept DEF Quiet
  <2>2. Locked(q)'
    BY TxAssumption DEF TxInv, Locked, Quiet
  <2>. QED
    BY <2>1, <2>2
<1>. QED
  BY <1>1 DEF TxInv

\* Taking the lock.
LEMMA LockKeeps ==
  ASSUME LockedRequests, TxInv, NEW r \in Request, Lock(r)
  PROVE  TxInv'
<1>1. pc[r] = "idle" /\ pc' = [pc EXCEPT ![r] = "called"] /\ lock = None /\ lock' = r
  BY DEF Lock, LockedRequests, Goto
<1>2. TxTypeOK' /\ Quiet(r) /\ pc'[r] = "called"
  BY <1>1 DEF TxInv, TxTypeOK, Labels, Lock, Quiet
<1>3. Locked(r)' /\ Current(r)'
  BY <1>1, <1>2 DEF Locked, Current, Reading, Writing
<1>4. Drafted(r)'
  BY <1>1, <1>2 DEF TxInv, Drafted, Writing, Lock
<1>. QED
  BY <1>2, <1>3, <1>4, OnlyMover DEF Lock

\* Opening the transaction fixes the snapshot.
LEMMA BeginKeeps ==
  ASSUME LockedRequests, TxInv, NEW r \in Request, Begin(r)
  PROVE  TxInv'
<1>1. pc[r] = "called" /\ pc' = [pc EXCEPT ![r] = "begun"]
  BY NoWithdrawal DEF Begin, LockedRequests, Goto
<1>2. TxTypeOK' /\ Quiet(r) /\ pc'[r] = "begun" /\ snap'[r] = db
  BY <1>1 DEF TxInv, TxTypeOK, Labels, Begin, Quiet
<1>3. Locked(r)' /\ Current(r)'
  BY <1>1, <1>2 DEF TxInv, Locked, Current, Busy, Reading, Writing, Begin
<1>4. Drafted(r)'
  BY <1>1, <1>2 DEF TxInv, Drafted, Writing, Begin
<1>. QED
  BY <1>2, <1>3, <1>4, OnlyMover DEF Begin

\* The reads, under either isolation.
LEMMA ReadKeeps ==
  ASSUME LockedRequests, TxInv, NEW r \in Request, Check(r) \/ Load(r)
  PROVE  TxInv'
<1>1. Target[r] \in Item
  BY NoWithdrawal
<1>2. pc[r] \in Reading
  BY DEF Check, Load, Reading
<1>3. View(r) = db
  BY <1>2 DEF TxInv, Current, View, Reading
<1>4. writes[r] = NoWrites /\ lock = r /\ snap[r] = db
  BY <1>2 DEF TxInv, Drafted, Locked, Current, Reading, Writing, Busy
<1>5. ASSUME NEW l \in {"checked", "loaded", "failing"},
             pc' = [pc EXCEPT ![r] = l], NEW c \in [Item -> States],
             copy' = [copy EXCEPT ![r] = c],
             l = "checked" => db[Target[r]] = "doing" /\ c[Target[r]] = "doing",
             l = "loaded" => c = db /\ db[Target[r]] = "doing"
      PROVE  TxInv'
  <2>1. TxTypeOK' /\ Quiet(r) /\ pc'[r] = l /\ copy'[r] = c
    BY <1>5 DEF TxInv, TxTypeOK, Labels, Check, Load, Quiet
  <2>2. Locked(r)' /\ Drafted(r)'
    BY <1>4, <1>5, <2>1 DEF Locked, Drafted, Writing, Check, Load, Written
  <2>3. Current(r)'
    BY <1>4, <1>5, <2>1 DEF Current, Reading, Writing, Check, Load
  <2>. QED
    BY <2>1, <2>2, <2>3, OnlyMover DEF Check, Load
<1>6. CASE Check(r) /\ db[Target[r]] = "doing"
  <2>. DEFINE c == [copy[r] EXCEPT ![Target[r]] = "doing"]
  <2>1. c \in [Item -> States] /\ c[Target[r]] = "doing"
    BY <1>1 DEF TxInv, TxTypeOK, States
  <2>2. pc' = [pc EXCEPT ![r] = "checked"] /\ copy' = [copy EXCEPT ![r] = c]
    BY <1>3, <1>6 DEF Check, Goto
  <2>. QED
    BY <1>5, <1>6, <2>1, <2>2
<1>7. CASE Check(r) /\ db[Target[r]] # "doing"
  <2>1. pc' = [pc EXCEPT ![r] = "failing"] /\ copy' = [copy EXCEPT ![r] = copy[r]]
    BY <1>3, <1>7 DEF Check, Goto, TxInv, TxTypeOK
  <2>2. copy[r] \in [Item -> States]
    BY DEF TxInv, TxTypeOK
  <2>. QED
    BY <1>5, <2>1, <2>2
<1>8. CASE Load(r)
  <2>. DEFINE c == [View(r) EXCEPT ![Target[r]] = copy[r][Target[r]]]
  <2>1. db[Target[r]] = "doing"
    BY <1>8 DEF TxInv, Current, Load
  <2>2. copy[r][Target[r]] = "doing"
    BY <1>8 DEF TxInv, Current, Load
  <2>3. c = db
    BY <1>1, <1>3, <2>1, <2>2 DEF TxInv, TxTypeOK
  <2>4. pc' = [pc EXCEPT ![r] = "loaded"] /\ copy' = [copy EXCEPT ![r] = c]
    BY <1>8 DEF Load, Goto
  <2>. QED
    BY <1>5, <2>1, <2>3, <2>4 DEF TxInv, TxTypeOK
<1>. QED
  BY <1>6, <1>7, <1>8

\* What a writing request starts from.
LEMMA Holder ==
  ASSUME LockedRequests, TxInv, NEW r \in Request, pc[r] \in {"loaded"} \cup Writing
  PROVE  /\ lock = r /\ snap[r] = db /\ db[Target[r]] = "doing"
         /\ copy[r] \in [Item -> States] /\ writes[r] \in Partial /\ Target[r] \in Item
         /\ pc[r] \in Writing => copy[r] = [db EXCEPT ![Target[r]] = "done"]
         /\ pc[r] = "loaded" => copy[r] = db /\ writes[r] = NoWrites
BY NoWithdrawal DEF TxInv, TxTypeOK, Locked, Current, Drafted, Reading, Writing, Busy

\* complete_task and update_task.
LEMMA SaveRowKeeps ==
  ASSUME LockedRequests, TxInv, NEW r \in Request, SaveRow(r)
  PROVE  TxInv'
<1>1. pc[r] = "loaded" /\ Write(r, Target[r], "done") /\ db' = db /\ lock' = lock /\ snap' = snap
  BY DEF SaveRow
<1>2. pc' = [pc EXCEPT ![r] = "saved"] /\ copy' = [copy EXCEPT ![r][Target[r]] = "done"]
  BY DEF SaveRow, Goto
<1>3. /\ lock = r /\ snap[r] = db /\ db[Target[r]] = "doing" /\ Target[r] \in Item
      /\ copy[r] = db /\ Written(r) = {}
  BY <1>1, Holder DEF Written, NoWrites
<1>4. /\ writes' \in [Request -> Partial]
      /\ \A q \in Request \ {r} : writes'[q] = writes[q]
      /\ Written(r)' = {Target[r]}
      /\ writes'[r][Target[r]] = "done"
  BY <1>1, <1>3, WriteType DEF TxInv, States
<1>5. copy'[r] = [db EXCEPT ![Target[r]] = "done"] /\ copy' \in [Request -> [Item -> States]]
  BY <1>2, <1>3 DEF TxInv, TxTypeOK, States
<1>6. TxTypeOK' /\ pc'[r] = "saved"
  BY <1>1, <1>2, <1>4, <1>5 DEF TxInv, TxTypeOK, Labels
<1>7. Quiet(r)
  BY <1>1, <1>2, <1>4 DEF Quiet, TxInv, TxTypeOK
<1>8. Locked(r)' /\ Current(r)'
  BY <1>1, <1>3, <1>5, <1>6 DEF Locked, Current, Reading, Writing
<1>9. Drafted(r)'
  BY <1>3, <1>4, <1>5, <1>6 DEF Drafted, Writing, TxInv, TxTypeOK
<1>. QED
  BY <1>1, <1>6, <1>7, <1>8, <1>9, OnlyMover

\* update_instance: the instance row, and each row of the cascade, as the copy has it.
LEMMA CopyRowKeeps ==
  ASSUME LockedRequests, TxInv, NEW r \in Request, pc[r] \in {"saved", "cascading"},
         NEW i \in Item, Write(r, i, copy[r][i]),
         pc' = [pc EXCEPT ![r] = "cascading"], UNCHANGED <<db, lock, snap, copy>>
  PROVE  TxInv'
<1>1. lock = r /\ snap[r] = db /\ db[Target[r]] = "doing" /\ copy[r][i] \in States
  BY Holder DEF Writing
<1>2. copy[r] = [db EXCEPT ![Target[r]] = "done"]
  BY Holder DEF Writing
<1>3. /\ writes' \in [Request -> Partial]
      /\ \A q \in Request \ {r} : writes'[q] = writes[q]
      /\ Written(r)' = Written(r) \cup {i}
      /\ \A j \in Written(r) \cup {i} : writes'[r][j] = IF j = i THEN copy[r][i] ELSE writes[r][j]
  BY <1>1, WriteType DEF TxInv
<1>4. TxTypeOK' /\ Quiet(r) /\ pc'[r] = "cascading"
  BY <1>3 DEF TxInv, TxTypeOK, Labels, Quiet
<1>5. Locked(r)' /\ Current(r)'
  BY <1>1, <1>2, <1>4 DEF Locked, Current, Reading, Writing
<1>6. \A j \in Written(r) : writes[r][j] = copy[r][j]
  BY DEF TxInv, Drafted
<1>7. Drafted(r)'
  BY <1>3, <1>4, <1>6 DEF Drafted, Writing
<1>. QED
  BY <1>4, <1>5, <1>7, OnlyMover

\* merge_ready on the aggregate, and the end node.
LEMMA PassJoinKeeps ==
  ASSUME LockedRequests, TxInv, NEW r \in Request, PassJoin(r)
  PROVE  TxInv'
<1>1. /\ pc[r] = "cascading" /\ Written(r) = Item
      /\ pc' = [pc EXCEPT ![r] = "ended"] /\ UNCHANGED <<db, lock, snap, copy>>
  BY DEF PassJoin, Goto
<1>2. /\ lock = r /\ snap[r] = db /\ db[Target[r]] = "doing"
      /\ copy[r] = [db EXCEPT ![Target[r]] = "done"]
  BY <1>1, Holder DEF Writing
<1>3. /\ \A j \in Item : writes[r][j] = copy[r][j]
      /\ "inst" \in Item /\ Branch \subseteq Item /\ "inst" \notin Branch
  BY <1>1, NoWithdrawal, TxAssumption DEF TxInv, Drafted
<1>4. /\ writes' \in [Request -> Partial]
      /\ \A q \in Request \ {r} : writes'[q] = writes[q]
      /\ Written(r)' = Item
      /\ \A b \in Branch : writes'[r][b] = copy[r][b]
      /\ writes'[r]["inst"] = Outcome(r)
  <2>1. CASE \A b \in Branch : copy[r][b] # "doing"
    <3>1. Write(r, "inst", "finished")
      BY <2>1 DEF PassJoin
    <3>2. /\ writes' \in [Request -> Partial]
          /\ \A q \in Request \ {r} : writes'[q] = writes[q]
          /\ Written(r)' = Item \cup {"inst"}
          /\ \A j \in Item : writes'[r][j] = IF j = "inst" THEN "finished" ELSE writes[r][j]
      BY <1>1, <1>3, <3>1, WriteType DEF TxInv, States
    <3>. QED
      BY <1>3, <2>1, <3>2 DEF Outcome
  <2>2. CASE ~ \A b \in Branch : copy[r][b] # "doing"
    BY <1>1, <1>3, <2>2 DEF PassJoin, Outcome, TxInv, TxTypeOK, Written
  <2>. QED
    BY <2>1, <2>2
<1>5. TxTypeOK' /\ Quiet(r) /\ pc'[r] = "ended"
  BY <1>1, <1>4 DEF TxInv, TxTypeOK, Labels, Quiet
<1>6. Locked(r)' /\ Current(r)'
  BY <1>1, <1>2, <1>5 DEF Locked, Current, Reading, Writing
<1>7. Drafted(r)'
  BY <1>1, <1>4, <1>5 DEF Drafted, Writing, Outcome
<1>. QED
  BY <1>1, <1>5, <1>6, <1>7, OnlyMover

\* A failure anywhere in the transaction.
LEMMA FailKeeps ==
  ASSUME LockedRequests, TxInv, NEW r \in Request, Fail(r) \/ Abort(r)
  PROVE  TxInv'
<1>1. pc[r] \in Busy /\ pc' = [pc EXCEPT ![r] = "failing"] /\ UNCHANGED <<db, lock, snap, copy, writes>>
  BY DEF Fail, Abort, InTx, Circle, Wanted, Busy, Goto
<1>2. TxTypeOK' /\ Quiet(r) /\ pc'[r] = "failing" /\ lock = r
  BY <1>1, Alone DEF TxInv, TxTypeOK, Labels, Quiet
<1>3. Locked(r)' /\ Current(r)' /\ Drafted(r)'
  BY <1>1, <1>2 DEF Locked, Current, Drafted, Reading, Writing
<1>. QED
  BY <1>1, <1>2, <1>3, OnlyMover

\* The transaction is undone, then the lock given back.
LEMMA EndKeeps ==
  ASSUME LockedRequests, TxInv, NEW r \in Request, Rollback(r) \/ Unlock(r)
  PROVE  TxInv'
<1>1. NoWrites \in Partial
  BY DEF NoWrites, Partial
<1>2. UNCHANGED <<db, snap, copy>> /\ TxTypeOK' /\ Quiet(r) /\ pc'[r] \in {"committed", "failed"}
  BY <1>1 DEF TxInv, TxTypeOK, Labels, Quiet, Rollback, Unlock, Goto, LockedRequests
<1>3. writes'[r] = NoWrites
  BY DEF Rollback, Unlock, TxInv, TxTypeOK, Drafted, Writing, LockedRequests
<1>4. Locked(r)' /\ Current(r)' /\ Drafted(r)'
  BY <1>2, <1>3 DEF Locked, Current, Drafted, Reading, Writing, Busy
<1>. QED
  BY <1>2, <1>4, OnlyMover

\* The commit is the atomic execution of the request's row.
LEMMA CommitExecutes ==
  ASSUME LockedRequests, TxInv, NEW r \in Request, Commit(r)
  PROVE  /\ TxInv'
         /\ Atomic!Next
         /\ db[Target[r]] = "doing" /\ db'[Target[r]] = "done"
         /\ \A b \in Branch : b # Target[r] => db'[b] = db[b]
<1>. DEFINE T == Target[r]
<1>1. /\ pc[r] = "ended" /\ pc' = [pc EXCEPT ![r] = "committed"]
      /\ writes' = [writes EXCEPT ![r] = NoWrites] /\ UNCHANGED <<lock, snap, copy>>
      /\ db' = [i \in Item |-> IF i \in Written(r) THEN writes[r][i] ELSE db[i]]
  BY DEF Commit, Goto
<1>2. lock = r /\ db[T] = "doing" /\ copy[r] = [db EXCEPT ![T] = "done"]
  BY <1>1, Holder DEF Writing
<1>3. /\ Written(r) = Item
      /\ \A b \in Branch : writes[r][b] = copy[r][b]
      /\ writes[r]["inst"] = Outcome(r)
  BY <1>1 DEF TxInv, Drafted
<1>4. T \in Branch /\ "inst" \notin Branch /\ Item = Branch \cup {"inst"} /\ db \in [Item -> States]
  BY TxAssumption DEF LockedRequests, Item, TxInv, TxTypeOK
<1>5. \A b \in Branch : copy[r][b] = IF b = T THEN "done" ELSE db[b]
  BY <1>2, <1>4
<1>6. copy[r]["inst"] = db["inst"]
  BY <1>2, <1>4
<1>7. /\ \A b \in Branch : db'[b] = IF b = T THEN "done" ELSE db[b]
      /\ db'["inst"] = IF \A b \in Branch : db'[b] # "doing" THEN "finished" ELSE db["inst"]
  BY <1>1, <1>3, <1>4, <1>5, <1>6 DEF Outcome
<1>8. db' \in [Item -> States]
  BY <1>1, <1>4, <1>7 DEF States
<1>9. NoWrites \in Partial
  BY DEF NoWrites, Partial
<1>10. TxTypeOK'
  BY <1>1, <1>8, <1>9 DEF TxInv, TxTypeOK, Labels
<1>11. ASSUME NEW q \in Request
       PROVE  Locked(q)' /\ Current(q)' /\ Drafted(q)'
  <2>1. pc'[q] \notin Busy
    BY <1>1, Alone DEF TxInv, TxTypeOK, Busy
  <2>2. writes'[q] = NoWrites
    BY <1>1, <2>1, Alone DEF TxInv, TxTypeOK, Drafted, Writing, Busy
  <2>. QED
    BY <2>1, <2>2 DEF Locked, Current, Drafted, Reading, Writing, Busy
<1>12. Atomic!Execute(T)
  <2>. DEFINE task == [b \in Branch |-> db[b]]
              task1 == [b \in Branch |-> db'[b]]
  <2>1. task[T] = "doing" /\ task1 = [task EXCEPT ![T] = "done"]
    BY <1>2, <1>4, <1>7
  <2>2. db'["inst"] = IF \A c \in Branch : task1[c] # "doing" THEN "finished" ELSE db["inst"]
    BY <1>7
  <2>. QED
    BY <2>1, <2>2 DEF Atomic!Execute
<1>13. Atomic!Next
  BY <1>4, <1>12 DEF Atomic!Next
<1>. QED
  BY <1>2, <1>4, <1>7, <1>10, <1>11, <1>13 DEF TxInv

\* A step is one of the above; only a commit changes what is committed.
LEMMA StepKeeps ==
  ASSUME LockedRequests, TxInv, Next
  PROVE  /\ TxInv'
         /\ \/ \E r \in Request : Commit(r)
            \/ db' = db /\ \A r \in Request : pc'[r] = "committed" => pc[r] = "committed"
<1>1. PICK r \in Request : Proceed(r) \/ Fail(r)
  BY DEF Next
<1>2. ~Withdraws(r)
  BY NoWithdrawal
<1>3. CASE Commit(r)
  BY <1>3, CommitExecutes
<1>4. CASE SaveInstance(r)
  <2>1. "inst" \in Item
    BY NoWithdrawal
  <2>. QED
    BY <1>4, <2>1, CopyRowKeeps DEF SaveInstance, Goto, TxInv, TxTypeOK
<1>5. CASE Cascade(r)
  <2>1. PICK b \in Branch : Write(r, b, copy[r][b])
    BY <1>5 DEF Cascade
  <2>2. b \in Item /\ pc' = [pc EXCEPT ![r] = "cascading"]
    BY <1>5, NoWithdrawal DEF Cascade, TxInv, TxTypeOK
  <2>. QED
    BY <1>5, <2>1, <2>2, CopyRowKeeps DEF Cascade
<1>6. CASE Lock(r) \/ Begin(r)
  BY <1>6, LockKeeps, BeginKeeps DEF Lock, Begin, Goto, TxInv, TxTypeOK
<1>7. CASE Check(r) \/ Load(r)
  BY <1>7, ReadKeeps DEF Check, Load, Goto, TxInv, TxTypeOK
<1>8. CASE SaveRow(r) \/ PassJoin(r)
  BY <1>8, SaveRowKeeps, PassJoinKeeps DEF SaveRow, PassJoin, Goto, TxInv, TxTypeOK
<1>9. CASE Fail(r) \/ Abort(r)
  BY <1>9, FailKeeps DEF Fail, Abort, Goto, TxInv, TxTypeOK
<1>10. CASE Rollback(r) \/ Unlock(r)
  BY <1>10, EndKeeps DEF Rollback, Unlock, Goto, TxInv, TxTypeOK
<1>11. CASE WithdrawRow(r) \/ WithdrawInstance(r)
  BY <1>2, <1>11 DEF WithdrawRow, WithdrawInstance
<1>. QED
  BY <1>1, <1>3, <1>4, <1>5, <1>6, <1>7, <1>8, <1>9, <1>10, <1>11 DEF Proceed

\* At first nobody is busy.
LEMMA InitTx ==
  ASSUME LockedRequests, Init
  PROVE  TxInv /\ Atomic!Init
<1>1. TxTypeOK
  <2>1. NoWrites \in Partial
    BY DEF NoWrites, Partial
  <2>2. db \in [Item -> States]
    BY DEF Init, States
  <2>. QED
    BY <2>1, <2>2 DEF Init, TxTypeOK, Labels
<1>2. ASSUME NEW r \in Request PROVE Locked(r) /\ Current(r) /\ Drafted(r)
  BY DEF Init, Locked, Current, Drafted, Reading, Writing, Busy
<1>3. Atomic!Init
  BY DEF Init, Atomic!Init, Item
<1>. QED
  BY <1>1, <1>2, <1>3 DEF TxInv

\* A request that was answered has its row done, and no other request has the same.
Answered ==
  /\ \A r \in Request : pc[r] = "committed" => db[Target[r]] = "done"
  /\ CompletedOnce

\* A commit answers one request more, for a row that was doing till then.
LEMMA AnsweredKept ==
  ASSUME LockedRequests, TxInv, Answered, Next
  PROVE  Answered'
<1>1. CASE db' = db /\ \A r \in Request : pc'[r] = "committed" => pc[r] = "committed"
  BY <1>1 DEF Answered, CompletedOnce
<1>2. CASE \E r \in Request : Commit(r)
  <2>1. PICK r \in Request : Commit(r)
    BY <1>2
  <2>2. /\ db[Target[r]] = "doing" /\ db'[Target[r]] = "done"
        /\ \A b \in Branch : b # Target[r] => db'[b] = db[b]
    BY <2>1, CommitExecutes
  <2>3. \A q \in Request \ {r} : pc'[q] = "committed" => pc[q] = "committed"
    BY <2>1 DEF Commit, Goto, TxInv, TxTypeOK
  <2>4. \A q \in Request \ {r} : pc'[q] = "committed" => Target[q] # Target[r]
    BY <2>2, <2>3 DEF Answered
  <2>5. \A q \in Request : pc'[q] = "committed" => db'[Target[q]] = "done"
    BY <2>2, <2>3, <2>4 DEF Answered, LockedRequests
  <2>. QED
    BY <2>3, <2>4, <2>5 DEF Answered, CompletedOnce
<1>. QED
  BY <1>1, <1>2, StepKeeps

\* Interleaved executions that each take instance_lock outside their own transaction
\* commit what the same executions would have committed one after the other, for any
\* number of branches and requests, whatever fails: InstanceTx implements InstanceAtomic.
THEOREM SerialisedHolds ==
  ASSUME LockedRequests
  PROVE  Spec => Serialised
<1>1. Init => TxInv /\ Atomic!Init
  BY InitTx
<1>2. TxInv /\ [Next]_vars => TxInv'
  <2>1. CASE Next
    BY <2>1, StepKeeps
  <2>2. CASE UNCHANGED vars
    BY <2>2 DEF vars, TxInv, TxTypeOK, Locked, Current, Drafted, Written, Outcome
  <2>. QED
    BY <2>1, <2>2
<1>3. TxInv /\ [Next]_vars => [Atomic!Next]_<<db["inst"], [b \in Branch |-> db[b]]>>
  <2>1. CASE Next
    BY <2>1, StepKeeps, CommitExecutes
  <2>2. CASE UNCHANGED vars
    BY <2>2 DEF vars
  <2>. QED
    BY <2>1, <2>2
<1>. QED
  BY <1>1, <1>2, <1>3, PTL DEF Spec, Serialised, Atomic!Spec

\* However often a row is submitted, at most one of the submits completes it.
THEOREM CompletedOnceHolds ==
  ASSUME LockedRequests
  PROVE  Spec => []CompletedOnce
<1>1. Init => TxInv /\ Answered
  BY InitTx DEF Init, Answered, CompletedOnce
<1>2. TxInv /\ Answered /\ [Next]_vars => TxInv' /\ Answered'
  <2>1. CASE Next
    BY <2>1, StepKeeps, AnsweredKept
  <2>2. CASE UNCHANGED vars
    BY <2>2 DEF vars, TxInv, TxTypeOK, Locked, Current, Drafted, Written, Outcome,
                Answered, CompletedOnce
  <2>. QED
    BY <2>1, <2>2
<1>3. Answered => CompletedOnce
  BY DEF Answered
<1>. QED
  BY <1>1, <1>2, <1>3, PTL DEF Spec
=============================================================================
