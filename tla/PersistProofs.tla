--------------------------- MODULE PersistProofs ---------------------------
(***************************************************************************)
(* The steps of TxScope, as Persist takes them, keep what with_tx promises *)
(* (AfterCommit), for any number of requests, callbacks, connections and   *)
(* faults; and what reaches the business table is what may and should, for *)
(* any fields the definition declares.                                     *)
(***************************************************************************)
EXTENDS Persist, SequenceTheorems, TLAPS

(***************************************************************************)
(* Where a request is among its blocks.                                    *)
(***************************************************************************)
Locks(c) == c.kind \in Locking
Depth(c) == (IF way = "facade" THEN 2 ELSE 1) + (IF Locks(c) THEN 1 ELSE 0)
FirstTx(c) == IF way # "facade" /\ Locks(c) THEN 2 ELSE 1
LockAt == IF way = "facade" THEN 2 ELSE 1

\* The blocks, written out.
LEMMA BlocksAre ==
  ASSUME NEW c
  PROVE  Blocks(c) = IF way = "facade"
                     THEN IF Locks(c) THEN <<"tx", "lock", "tx">> ELSE <<"tx", "tx">>
                     ELSE IF Locks(c) THEN <<"lock", "tx">> ELSE <<"tx">>
<1>. DEFINE S == {"lock", "tx"}
<1>1. <<"tx">> \o <<"tx">> = <<"tx", "tx">>
  <2>. DEFINE s == <<"tx">> \o <<"tx">>
              t == <<"tx", "tx">>
  <2>1. s \in Seq(S) /\ t \in Seq(S) /\ Len(s) = 2 /\ Len(t) = 2
    OBVIOUS
  <2>2. \A i \in 1..2 : s[i] = t[i]
    OBVIOUS
  <2>. QED
    BY <2>1, <2>2, SeqEqual
<1>2. <<"tx">> \o <<"lock", "tx">> = <<"tx", "lock", "tx">>
  <2>. DEFINE s == <<"tx">> \o <<"lock", "tx">>
              t == <<"tx", "lock", "tx">>
  <2>1. s \in Seq(S) /\ t \in Seq(S) /\ Len(s) = 3 /\ Len(t) = 3
    OBVIOUS
  <2>2. \A i \in 1..3 : s[i] = t[i]
    OBVIOUS
  <2>. QED
    BY <2>1, <2>2, SeqEqual
<1>. QED
  BY <1>1, <1>2 DEF Blocks, Locks

LEMMA BlockFacts ==
  ASSUME NEW c
  PROVE  /\ Len(Blocks(c)) = Depth(c) /\ Depth(c) \in Nat
         /\ FirstTx(c) \in 1..Depth(c)
         /\ \A i \in 1..Depth(c) :
              /\ Blocks(c)[i] \in {"lock", "tx"}
              /\ Blocks(c)[i] = "lock" <=> Locks(c) /\ i = LockAt
              /\ i < FirstTx(c) => Blocks(c)[i] # "tx"
         /\ Blocks(c)[FirstTx(c)] = "tx"
         /\ Locks(c) => LockAt \in 1..Depth(c)
<1>1. CASE way = "facade" /\ Locks(c)
  <2>1. Blocks(c) = <<"tx", "lock", "tx">> /\ Depth(c) = 3 /\ FirstTx(c) = 1 /\ LockAt = 2
    BY <1>1, BlocksAre DEF Depth, FirstTx, LockAt
  <2>. QED
    BY <1>1, <2>1
<1>2. CASE way = "facade" /\ ~Locks(c)
  <2>1. Blocks(c) = <<"tx", "tx">> /\ Depth(c) = 2 /\ FirstTx(c) = 1 /\ LockAt = 2
    BY <1>2, BlocksAre DEF Depth, FirstTx, LockAt
  <2>. QED
    BY <1>2, <2>1
<1>3. CASE way # "facade" /\ Locks(c)
  <2>1. Blocks(c) = <<"lock", "tx">> /\ Depth(c) = 2 /\ FirstTx(c) = 2 /\ LockAt = 1
    BY <1>3, BlocksAre DEF Depth, FirstTx, LockAt
  <2>. QED
    BY <1>3, <2>1
<1>4. CASE way # "facade" /\ ~Locks(c)
  <2>1. Blocks(c) = <<"tx">> /\ Depth(c) = 1 /\ FirstTx(c) = 1 /\ LockAt = 1
    BY <1>4, BlocksAre DEF Depth, FirstTx, LockAt
  <2>. QED
    BY <1>4, <2>1
<1>. QED
  BY <1>1, <1>2, <1>3, <1>4

\* What has been entered, as a number.
LEMMA EnteredFacts ==
  ASSUME NEW r \in Requests, req[r].at \in 0..Depth(req[r].call)
  PROVE  /\ InTx(r) <=> req[r].at >= FirstTx(req[r].call)
         /\ req[r].at > 0 => Last(Entered(r)) = Blocks(req[r].call)[req[r].at]
         /\ req[r].at > 0 => (Outermost(r) <=> req[r].at = FirstTx(req[r].call))
<1>. DEFINE b == Blocks(req[r].call)
            n == req[r].at
<1>. HIDE DEF b, n
<1>0. /\ Len(b) = Depth(req[r].call) /\ Depth(req[r].call) \in Nat
      /\ n \in 0..Len(b)
      /\ FirstTx(req[r].call) \in 1..Len(b)
      /\ \A i \in 1..Len(b) : i < FirstTx(req[r].call) => b[i] # "tx"
      /\ b[FirstTx(req[r].call)] = "tx"
  BY BlockFacts DEF b, n
<1>1. b \in Seq({"lock", "tx"})
  <2>. DEFINE S == {"lock", "tx"}
  <2>1. <<"tx", "lock", "tx">> \in Seq(S) /\ <<"tx", "tx">> \in Seq(S)
    OBVIOUS
  <2>2. <<"lock", "tx">> \in Seq(S) /\ <<"tx">> \in Seq(S)
    OBVIOUS
  <2>. QED
    BY <2>1, <2>2, BlocksAre DEF b
<1>2. /\ Entered(r) = SubSeq(b, 1, n)
      /\ Len(SubSeq(b, 1, n)) = n
      /\ \A i \in 1..n : SubSeq(b, 1, n)[i] = b[i]
  BY <1>0, <1>1 DEF Entered, b, n
<1>3. InTx(r) <=> \E i \in 1..n : b[i] = "tx"
  BY <1>2 DEF InTx, Contains
<1>4. InTx(r) <=> n >= FirstTx(req[r].call)
  BY <1>0, <1>3
<1>5. ASSUME n > 0
      PROVE  /\ Last(Entered(r)) = b[n]
             /\ Outermost(r) <=> n = FirstTx(req[r].call)
  <2>1. Last(Entered(r)) = b[n]
    BY <1>0, <1>2, <1>5 DEF Last
  <2>2. Front(Entered(r)) = SubSeq(SubSeq(b, 1, n), 1, n - 1)
    BY <1>2 DEF Front
  <2>3. SubSeq(b, 1, n) \in Seq({"lock", "tx"})
    BY <1>0, <1>1
  <2>4. /\ Len(Front(Entered(r))) = n - 1
        /\ \A i \in 1..(n - 1) : Front(Entered(r))[i] = b[i]
    BY <1>0, <1>2, <1>5, <2>2, <2>3
  <2>5. Contains(Front(Entered(r)), "tx") <=> \E i \in 1..(n - 1) : b[i] = "tx"
    BY <2>4 DEF Contains
  <2>. QED
    BY <1>0, <1>5, <2>1, <2>5 DEF Outermost
<1>. QED
  BY <1>4, <1>5 DEF b, n


EnteredAs(r) ==
  req[r].at \in 0..Depth(req[r].call) =>
    /\ InTx(r) <=> req[r].at >= FirstTx(req[r].call)
    /\ req[r].at > 0 => Last(Entered(r)) = Blocks(req[r].call)[req[r].at]
    /\ req[r].at > 0 => (Outermost(r) <=> req[r].at = FirstTx(req[r].call))

\* The same before and after a step.
LEMMA EnteredAlways == (\A r \in Requests : EnteredAs(r)) /\ (\A r \in Requests : EnteredAs(r))'
<1>1. \A r \in Requests : EnteredAs(r)
  BY EnteredFacts DEF EnteredAs
<1>. QED
  BY <1>1, PTL

(***************************************************************************)
(* The scope of a request: what it has entered and which callbacks it has,  *)
(* by the place it is at.                                                  *)
(***************************************************************************)
Pcs == {"idle", "enter", "body", "acted", "leave", "fire", "over"}
NoCall == NewReq.call

Place ==
  [pc : Pcs, call : Calls \cup {NoCall}, at : 0..3, ok : BOOLEAN, cbs : Seq(Callbacks), given : Nat,
   ran : SUBSET Callbacks]
ReqType == [Requests -> Place]

\* How far in it is.
Placed(r) ==
  LET n == req[r].at
      c == req[r].call
  IN /\ n \in 0..Depth(c)
     /\ req[r].pc \in {"idle", "over"} => n = 0
     /\ req[r].pc = "enter" => n < Depth(c)
     /\ req[r].pc \in {"body", "acted"} => n = Depth(c)
     /\ req[r].pc = "fire" => n = FirstTx(c) - 1
     /\ req[r].pc \notin {"idle", "over"} => c \in Calls

\* It has callbacks from the time it acts until they have run or are gone with
\* the scope, and has run some only while it runs them.
Holding(r) ==
  /\ req[r].cbs # <<>> => req[r].pc \in {"acted", "fire"} \/ (req[r].pc = "leave" /\ InTx(r))
  /\ req[r].ran # {} => req[r].pc = "fire"
  /\ req[r].pc \in {"idle", "enter", "body"} => req[r].given = 0

\* They are its own, each once, and those that wait have not run.
Ordered(r) ==
  /\ \A i \in DOMAIN req[r].cbs :
       /\ req[r].cbs[i] \notin req[r].ran
       /\ req[r].cbs[i][1] = r /\ req[r].cbs[i][2] \in 1..req[r].given
  /\ \A i, j \in DOMAIN req[r].cbs : req[r].cbs[i] = req[r].cbs[j] => i = j

Scoped(r) == Placed(r) /\ Holding(r) /\ Ordered(r)

ScopeInv ==
  /\ way \in {"facade", "engine"}
  /\ req \in ReqType
  /\ \A r \in Requests : Scoped(r)

LEMMA ScopeInit == TxInit => ScopeInv
<1>. SUFFICES ASSUME TxInit PROVE ScopeInv
  OBVIOUS
<1>1. <<>> \in Seq(Callbacks) /\ DOMAIN <<>> = {}
  OBVIOUS
<1>2. req \in ReqType
  BY <1>1 DEF TxInit, ReqType, Place, NewReq, NoCall, Pcs
<1>3. ASSUME NEW r \in Requests
      PROVE  Scoped(r)
  <2>1. req[r] = NewReq
    BY DEF TxInit
  <2>. QED
    BY <1>1, <2>1, BlockFacts DEF NewReq, Scoped, Placed, Holding, Ordered
<1>. QED
  BY <1>2, <1>3 DEF TxInit, ScopeInv

\* A step of r alone.
Moves(r) == way' = way /\ \A q \in Requests \ {r} : req'[q] = req[q]

LEMMA OnlyMover ==
  ASSUME ScopeInv, NEW r \in Requests, Moves(r), req' \in ReqType, Scoped(r)'
  PROVE  ScopeInv'
<1>1. ASSUME NEW q \in Requests \ {r}
      PROVE  Scoped(q)'
  <2>1. req'[q] = req[q] /\ way' = way
    BY DEF Moves
  <2>2. InTx(q)' = InTx(q) /\ Depth(req[q].call)' = Depth(req[q].call)
        /\ FirstTx(req[q].call)' = FirstTx(req[q].call)
    BY <2>1 DEF InTx, Entered, Blocks, Depth, FirstTx, Locks
  <2>. QED
    BY <2>1, <2>2 DEF ScopeInv, Scoped, Placed, Holding, Ordered
<1>. QED
  BY <1>1 DEF ScopeInv, Moves

(***************************************************************************)
(* What a step of r is to the promise.                                     *)
(***************************************************************************)
Kept(r) == req'[r].cbs = req[r].cbs /\ req'[r].ran = req[r].ran

LEMMA OthersLook ==
  ASSUME NEW r \in Requests, Moves(r)
  PROVE  \A q \in Requests \ {r} : TxOf(q)' = TxOf(q) /\ Kept(q)
BY DEF Moves, TxOf, InTx, Entered, Blocks, Kept

LEMMA PromiseStutters ==
  ASSUME NEW r \in Requests, Moves(r), TxOf(r)' = TxOf(r), Kept(r)
  PROVE  UNCHANGED Promise!vars
BY OthersLook DEF Promise!vars, Kept

LEMMA PromiseOpens ==
  ASSUME NEW r \in Requests, Moves(r), TxOf(r) = "none", TxOf(r)' = "open", Kept(r)
  PROVE  Promise!Open(r)
BY OthersLook DEF Promise!Open, Kept

LEMMA PromiseTakes ==
  ASSUME NEW r \in Requests, NEW k, Moves(r), TxOf(r) = "open", TxOf(r)' = "open",
         req'[r].cbs = Append(req[r].cbs, k), req'[r].ran = req[r].ran
  PROVE  Promise!HandOver(r, k)
BY OthersLook DEF Promise!HandOver, Kept

LEMMA PromiseCommits ==
  ASSUME NEW r \in Requests, Moves(r), TxOf(r) = "open", TxOf(r)' = "committed", Kept(r)
  PROVE  Promise!Commit(r)
BY OthersLook DEF Promise!Commit, Kept

LEMMA PromiseRuns ==
  ASSUME NEW r \in Requests, Moves(r), TxOf(r) = "committed", TxOf(r)' = "committed",
         req[r].cbs # <<>>, Head(req[r].cbs) \notin req[r].ran,
         req'[r].cbs = Tail(req[r].cbs), req'[r].ran = req[r].ran \cup {Head(req[r].cbs)}
  PROVE  Promise!Run(r)
BY OthersLook DEF Promise!Run, Kept

LEMMA PromiseAborts ==
  ASSUME NEW r \in Requests, Moves(r), TxOf(r) \in {"none", "open"}, TxOf(r)' = "ended",
         req'[r].cbs = <<>>, req'[r].ran = req[r].ran
  PROVE  Promise!Abort(r)
BY OthersLook DEF Promise!Abort, Kept

LEMMA PromiseEnds ==
  ASSUME NEW r \in Requests, Moves(r), TxOf(r) = "committed", TxOf(r)' = "ended",
         req[r].cbs = <<>>, req'[r].cbs = <<>>, req'[r].ran = {}
  PROVE  Promise!End(r)
BY OthersLook DEF Promise!End, Kept


(***************************************************************************)
(* The steps, one by one.                                                  *)
(***************************************************************************)
Sound == ScopeInv' /\ [Promise!Next]_(Promise!vars)

\* Depths do not depend on anything a step changes.
LEMMA DepthKept ==
  ASSUME NEW c, way' = way
  PROVE  Depth(c)' = Depth(c) /\ FirstTx(c)' = FirstTx(c) /\ LockAt' = LockAt /\ Blocks(c)' = Blocks(c)
BY DEF Depth, FirstTx, LockAt, Locks, Blocks

\* The request that moves gets a new record, of the same call.
LEMMA Lands ==
  ASSUME ScopeInv, NEW r \in Requests, NEW place \in Place, way' = way,
         req' = [req EXCEPT ![r] = place], place.call = req[r].call,
         NEW c, c = req[r].call,
         place.at \in 0..Depth(c)
  PROVE  /\ Moves(r) /\ req' \in ReqType /\ req'[r] = place
         /\ Depth(c) \in 1..3 /\ FirstTx(c) \in 1..Depth(c)
         /\ Depth(c)' = Depth(c) /\ FirstTx(c)' = FirstTx(c)
         /\ InTx(r) <=> req[r].at >= FirstTx(c)
         /\ InTx(r)' <=> place.at >= FirstTx(c)
<1>1. Moves(r) /\ req' \in ReqType /\ req'[r] = place
  BY DEF ScopeInv, ReqType, Moves
<1>2. Depth(c) \in 1..3 /\ FirstTx(c) \in 1..Depth(c)
  BY BlockFacts DEF Depth
<1>3. Depth(c)' = Depth(c) /\ FirstTx(c)' = FirstTx(c)
  BY DepthKept
<1>4. req[r].at \in 0..Depth(c)
  BY DEF ScopeInv, Scoped, Placed
<1>5. EnteredAs(r) /\ EnteredAs(r)'
  BY EnteredAlways
<1>. QED
  BY <1>1, <1>2, <1>3, <1>4, <1>5 DEF EnteredAs

\* What is known of a request before it moves.
LEMMA MoverFacts ==
  ASSUME ScopeInv, NEW r \in Requests, NEW c, c = req[r].call
  PROVE  /\ req[r] \in Place /\ req[r].at \in 0..Depth(c) /\ req[r].at \in 0..3
         /\ Depth(c) \in 1..3 /\ FirstTx(c) \in 1..Depth(c)
         /\ InTx(r) <=> req[r].at >= FirstTx(c)
         /\ req[r].at > 0 => Last(Entered(r)) = Blocks(c)[req[r].at]
         /\ req[r].at > 0 => (Outermost(r) <=> req[r].at = FirstTx(c))
<1>1. Depth(c) \in 1..3 /\ FirstTx(c) \in 1..Depth(c)
  BY BlockFacts DEF Depth
<1>2. req[r] \in Place /\ req[r].at \in 0..Depth(c)
  BY DEF ScopeInv, ReqType, Scoped, Placed
<1>3. EnteredAs(r)
  BY EnteredAlways
<1>. QED
  BY <1>1, <1>2, <1>3 DEF EnteredAs

\* One block further in.
LEMMA GoesIn ==
  ASSUME ScopeInv, NEW r \in Requests, req[r].pc = "enter", Inside(r), way' = way,
         NEW c, c = req[r].call
  PROVE  /\ Moves(r) /\ Kept(r) /\ req' \in ReqType /\ Scoped(r)'
         /\ req[r].at \in 0..2 /\ req[r].at + 1 \in 1..Depth(c)
         /\ FirstTx(c) \in 1..Depth(c)
         /\ req'[r].pc \in {"enter", "body"} /\ (req'[r].pc = "body" => InTx(r)')
         /\ InTx(r) <=> req[r].at >= FirstTx(c)
         /\ InTx(r)' <=> req[r].at + 1 >= FirstTx(c)
<1>. DEFINE n == req[r].at + 1
            pc == IF n = Len(Blocks(c)) THEN "body" ELSE req[r].pc
            place == [req[r] EXCEPT !.at = n, !.pc = pc]
<1>1. req[r] \in Place /\ req[r].at \in 0..2 /\ n \in 1..Depth(c) /\ pc \in {"enter", "body"}
  BY MoverFacts DEF ScopeInv, Scoped, Placed
<1>2. /\ place \in Place /\ place.call = c /\ place.at = n /\ place.pc = pc /\ place.cbs = req[r].cbs
      /\ place.ran = req[r].ran /\ place.given = req[r].given
  <2>1. n \in 0..3
    BY <1>1
  <2>. HIDE DEF n, pc
  <2>. QED
    BY <1>1, <2>1 DEF Place, Pcs
<1>3. req' = [req EXCEPT ![r] = place]
  BY DEF Inside
<1>4. /\ Moves(r) /\ req' \in ReqType /\ req'[r] = place
      /\ FirstTx(c) \in 1..Depth(c) /\ Depth(c)' = Depth(c) /\ Depth(c) \in 1..3
      /\ InTx(r) <=> req[r].at >= FirstTx(c)
      /\ InTx(r)' <=> n >= FirstTx(c)
  <2>1. place.at \in 0..Depth(c)
    BY <1>1, <1>2, MoverFacts
  <2>2. place \in Place /\ place.call = req[r].call
    BY <1>2
  <2>. HIDE DEF place
  <2>3. /\ Moves(r) /\ req' \in ReqType /\ req'[r] = place
        /\ FirstTx(c) \in 1..Depth(c) /\ Depth(c)' = Depth(c) /\ Depth(c) \in 1..3
        /\ InTx(r) <=> req[r].at >= FirstTx(c)
        /\ InTx(r)' <=> place.at >= FirstTx(c)
    BY <1>3, <2>1, <2>2, Lands
  <2>. QED
    BY <1>2, <2>3
<1>5. n = Depth(c) => pc = "body"
  BY BlockFacts
<1>6. n # Depth(c) => pc = "enter"
  BY BlockFacts
<1>7. Scoped(r)'
  <2>. HIDE DEF place, pc
  <2>1. Placed(r)'
    BY <1>1, <1>2, <1>4, <1>5, <1>6 DEF ScopeInv, Scoped, Placed
  <2>2. Holding(r)' /\ Ordered(r)'
    BY <1>1, <1>2, <1>4 DEF ScopeInv, Scoped, Holding, Ordered
  <2>. QED
    BY <2>1, <2>2 DEF Scoped
<1>. QED
  BY <1>1, <1>2, <1>4, <1>6, <1>7 DEF Kept

LEMMA LockSound ==
  ASSUME ScopeInv, NEW r \in Requests, Lock(r)
  PROVE  Sound
<1>. DEFINE c == req[r].call
<1>1. /\ Moves(r) /\ Kept(r) /\ req' \in ReqType /\ Scoped(r)'
      /\ req[r].at \in 0..2 /\ req[r].at + 1 \in 1..Depth(c)
      /\ FirstTx(c) \in 1..Depth(c)
      /\ req[r].pc = "enter" /\ req'[r].pc \in {"enter", "body"} /\ (req'[r].pc = "body" => InTx(r)')
      /\ InTx(r) <=> req[r].at >= FirstTx(c)
      /\ InTx(r)' <=> req[r].at + 1 >= FirstTx(c)
  BY GoesIn DEF Lock
<1>2. req[r].at + 1 # FirstTx(c)
  BY BlockFacts DEF Lock, Step
<1>3. TxOf(r)' = TxOf(r)
  BY <1>1, <1>2 DEF TxOf
<1>. QED
  BY <1>1, <1>3, OnlyMover, PromiseStutters DEF Sound


LEMMA BeginTxSound ==
  ASSUME ScopeInv, NEW r \in Requests, BeginTx(r)
  PROVE  Sound
<1>. DEFINE c == req[r].call
<1>1. /\ Moves(r) /\ Kept(r) /\ req' \in ReqType /\ Scoped(r)'
      /\ req[r].at \in 0..2 /\ req[r].at + 1 \in 1..Depth(c)
      /\ FirstTx(c) \in 1..Depth(c)
      /\ req[r].pc = "enter" /\ req'[r].pc \in {"enter", "body"}
      /\ InTx(r) <=> req[r].at >= FirstTx(c)
      /\ InTx(r)' <=> req[r].at + 1 >= FirstTx(c)
  BY GoesIn DEF BeginTx
<1>2. req[r].at + 1 >= FirstTx(c)
  BY <1>1, BlockFacts DEF BeginTx, Step
<1>3. TxOf(r) = "none" /\ TxOf(r)' = "open"
  BY <1>1, <1>2 DEF TxOf, BeginTx
<1>4. Promise!Open(r)
  BY <1>1, <1>3, PromiseOpens
<1>. QED
  BY <1>1, <1>4, OnlyMover DEF Sound, Promise!Next

LEMMA JoinSound ==
  ASSUME ScopeInv, NEW r \in Requests, Join(r)
  PROVE  Sound
<1>. DEFINE c == req[r].call
<1>1. /\ Moves(r) /\ Kept(r) /\ req' \in ReqType /\ Scoped(r)'
      /\ req[r].at \in 0..2 /\ FirstTx(c) \in 1..Depth(c) /\ Depth(c) \in Nat
      /\ req[r].pc = "enter" /\ req'[r].pc \in {"enter", "body"}
      /\ InTx(r) <=> req[r].at >= FirstTx(c)
      /\ InTx(r)' <=> req[r].at + 1 >= FirstTx(c)
  BY GoesIn, BlockFacts DEF Join
<1>2. TxOf(r)' = TxOf(r)
  BY <1>1 DEF TxOf, Join
<1>. QED
  BY <1>1, <1>2, OnlyMover, PromiseStutters DEF Sound

\* A step that stays where it is: only pc, ok and the callbacks change.
LEMMA GoesOn ==
  ASSUME ScopeInv, NEW r \in Requests, NEW place \in Place, way' = way,
         req' = [req EXCEPT ![r] = place],
         NEW c, c = req[r].call, place.call = c, place.at = req[r].at
  PROVE  /\ Moves(r) /\ req' \in ReqType /\ req'[r] = place
         /\ InTx(r)' <=> InTx(r)
<1>1. place.at \in 0..Depth(c)
  BY MoverFacts
<1>. QED
  BY <1>1, Lands

LEMMA BeginFailsSound ==
  ASSUME ScopeInv, NEW r \in Requests, BeginFails(r)
  PROVE  Sound
<1>0. PICK c : c = req[r].call
  OBVIOUS
<1>a. PICK place : place = [req[r] EXCEPT !.pc = "leave", !.ok = FALSE]
  OBVIOUS
<1>1. /\ place \in Place /\ place.call = c /\ place.at = req[r].at
      /\ place.pc = "leave" /\ place.cbs = req[r].cbs /\ place.ran = req[r].ran
      /\ place.given = req[r].given
  BY <1>0, <1>a, MoverFacts DEF Place, Pcs
<1>2. req' = [req EXCEPT ![r] = place] /\ way' = way
  BY <1>a DEF BeginFails
<1>3. /\ Moves(r) /\ req' \in ReqType /\ req'[r] = place /\ (InTx(r)' <=> InTx(r))
      /\ Depth(c)' = Depth(c)
  BY <1>0, <1>1, <1>2, GoesOn, DepthKept
<1>4. ~InTx(r) /\ req[r].pc = "enter" /\ req[r].cbs = <<>>
  BY DEF BeginFails, ScopeInv, Scoped, Holding
<1>5. Scoped(r)'
  BY <1>0, <1>1, <1>3, <1>4 DEF ScopeInv, Scoped, Placed, Holding, Ordered
<1>6. TxOf(r) = "none" /\ TxOf(r)' = "ended"
  BY <1>1, <1>3, <1>4 DEF TxOf
<1>7. Promise!Abort(r)
  BY <1>1, <1>3, <1>4, <1>6, PromiseAborts
<1>. QED
  BY <1>3, <1>5, <1>7, OnlyMover DEF Sound, Promise!Next

LEMMA AnswerSound ==
  ASSUME ScopeInv, NEW r \in Requests, Answer(r)
  PROVE  Sound
<1>0. PICK c : c = req[r].call
  OBVIOUS
<1>1. PICK ok \in BOOLEAN : req' = [req EXCEPT ![r].pc = "leave", ![r].ok = ok]
  BY DEF Answer
<1>a. PICK place : place = [req[r] EXCEPT !.pc = "leave", !.ok = ok]
  OBVIOUS
<1>2. /\ place \in Place /\ place.call = c /\ place.at = req[r].at
      /\ place.pc = "leave" /\ place.cbs = req[r].cbs /\ place.ran = req[r].ran
      /\ place.given = req[r].given
  BY <1>0, <1>a, MoverFacts DEF Place, Pcs
<1>3. req' = [req EXCEPT ![r] = place] /\ way' = way /\ req[r].pc = "acted"
  BY <1>1, <1>a DEF Answer
<1>4. /\ Moves(r) /\ req' \in ReqType /\ req'[r] = place /\ (InTx(r)' <=> InTx(r))
      /\ Depth(c)' = Depth(c)
  <2>1. c = req[r].call /\ way' = way
    BY <1>0, <1>3
  <2>2. Depth(c)' = Depth(c)
    BY <2>1, DepthKept
  <2>3. place \in Place /\ place.call = c /\ place.at = req[r].at /\ req' = [req EXCEPT ![r] = place]
    BY <1>2, <1>3
  <2>. QED
    BY <2>1, <2>2, <2>3, GoesOn
<1>5. InTx(r)
  BY <1>3, MoverFacts DEF ScopeInv, Scoped, Placed
<1>6. Scoped(r)'
  BY <1>0, <1>2, <1>3, <1>4, <1>5 DEF ScopeInv, Scoped, Placed, Holding, Ordered
<1>7. TxOf(r)' = TxOf(r) /\ Kept(r)
  BY <1>2, <1>3, <1>4, <1>5 DEF TxOf, Kept
<1>. QED
  BY <1>4, <1>6, <1>7, OnlyMover, PromiseStutters DEF Sound


LEMMA RunAfterCommitSound ==
  ASSUME ScopeInv, NEW r \in Requests, RunAfterCommit(r)
  PROVE  Sound
<1>0. PICK c, k, n, s, place :
        /\ c = req[r].call /\ n = req[r].given + 1 /\ k = <<r, n>> /\ s = Append(req[r].cbs, k)
        /\ place = [req[r] EXCEPT !.given = n, !.cbs = s]
  OBVIOUS
<1>1. /\ req[r] \in Place /\ req[r].given \in Nat /\ req[r].cbs \in Seq(Callbacks)
      /\ req[r].pc = "acted" /\ req[r].given < PerRequest
      /\ Placed(r) /\ Holding(r) /\ Ordered(r)
  BY DEF ScopeInv, ReqType, Place, RunAfterCommit, Scoped
<1>2. k \in Callbacks /\ n \in Nat \ {0} /\ k[1] = r /\ k[2] = n
  BY <1>0, <1>1, TxScopeAssumption DEF Callbacks
<1>3. PICK m \in Nat :
        /\ s \in Seq(Callbacks)
        /\ \A i \in 1..m : s[i] = req[r].cbs[i]
        /\ s[m + 1] = k
        /\ DOMAIN req[r].cbs = 1..m /\ DOMAIN s = 1..(m + 1)
  <2>1. Len(req[r].cbs) \in Nat /\ DOMAIN req[r].cbs = 1..Len(req[r].cbs)
    BY <1>1
  <2>2. /\ Append(req[r].cbs, k) \in Seq(Callbacks)
        /\ Len(Append(req[r].cbs, k)) = Len(req[r].cbs) + 1
        /\ \A i \in 1..Len(req[r].cbs) : Append(req[r].cbs, k)[i] = req[r].cbs[i]
        /\ Append(req[r].cbs, k)[Len(req[r].cbs) + 1] = k
        /\ DOMAIN Append(req[r].cbs, k) = 1..(Len(req[r].cbs) + 1)
    BY <1>1, <1>2
  <2>. QED
    BY <1>0, <2>1, <2>2
<1>4. /\ place \in Place /\ place.call = c /\ place.at = req[r].at
      /\ place.pc = "acted" /\ place.cbs = s /\ place.ran = req[r].ran
      /\ place.given = n
  BY <1>0, <1>1, <1>2, <1>3 DEF Place
<1>5. req' = [req EXCEPT ![r] = place] /\ way' = way
  BY <1>0 DEF RunAfterCommit
<1>6. /\ Moves(r) /\ req' \in ReqType /\ req'[r] = place /\ (InTx(r)' <=> InTx(r))
  <2>1. c = req[r].call
    BY <1>0
  <2>. QED
    BY <1>4, <1>5, <2>1, GoesOn
<1>7. InTx(r)
  BY <1>1, MoverFacts DEF Placed
<1>8. Ordered(r)'
  <2>1. \A i \in 1..m : req[r].cbs[i] # k
    BY <1>0, <1>1, <1>2, <1>3, SMTT(30) DEF Ordered
  <2>2. req[r].ran = {}
    BY <1>1 DEF Holding
  <2>3. \A i \in 1..m : s[i][1] = r /\ s[i][2] \in 1..n
    BY <1>0, <1>1, <1>3 DEF Ordered
  <2>4. \A i \in 1..(m + 1) : s[i][1] = r /\ s[i][2] \in 1..n
    BY <1>2, <1>3, <2>3
  <2>5. \A i, j \in 1..m : s[i] = s[j] => i = j
    BY <1>1, <1>3 DEF Ordered
  <2>6. \A i, j \in 1..(m + 1) : s[i] = s[j] => i = j
    BY <1>3, <2>1, <2>5
  <2>. QED
    BY <1>3, <1>4, <1>6, <2>2, <2>4, <2>6 DEF Ordered
<1>9. Scoped(r)'
  <2>1. Depth(c)' = Depth(c)
    BY <1>5, DepthKept
  <2>. QED
    BY <1>0, <1>1, <1>4, <1>6, <1>7, <1>8, <2>1 DEF Scoped, Placed, Holding
<1>10. Promise!HandOver(r, k)
  <2>1. TxOf(r) = "open" /\ TxOf(r)' = "open"
    BY <1>1, <1>4, <1>6, <1>7 DEF TxOf
  <2>2. req'[r].cbs = Append(req[r].cbs, k) /\ req'[r].ran = req[r].ran
    BY <1>0, <1>4, <1>6
  <2>. QED
    BY <1>6, <2>1, <2>2, PromiseTakes
<1>. QED
  BY <1>2, <1>6, <1>9, <1>10, OnlyMover DEF Sound, Promise!Next

\* One block further out, with the callbacks it had or none.
LEMMA GoesOut ==
  ASSUME ScopeInv, NEW r \in Requests, NEW place \in Place, way' = way,
         req' = [req EXCEPT ![r] = place], req[r].at > 0,
         NEW c, c = req[r].call, place.call = c, place.at = req[r].at - 1
  PROVE  /\ Moves(r) /\ req' \in ReqType /\ req'[r] = place
         /\ InTx(r)' <=> req[r].at > FirstTx(c)
         /\ req[r].at \in 1..Depth(c)
<1>1. place.at \in 0..Depth(c) /\ req[r].at \in 1..Depth(c) /\ FirstTx(c) \in Nat /\ Depth(c) \in Nat
  BY MoverFacts
<1>2. /\ Moves(r) /\ req' \in ReqType /\ req'[r] = place
      /\ InTx(r)' <=> place.at >= FirstTx(c)
  BY <1>1, Lands
<1>. QED
  BY <1>1, <1>2

\* Leaving a block that is not the outermost transaction.
LEMMA Leaving ==
  ASSUME ScopeInv, NEW r \in Requests, way' = way, Outside(r),
         req[r].pc = "leave", req[r].at > 0, ~Outermost(r)
  PROVE  Sound
<1>0. PICK c, place : c = req[r].call /\ place = [req[r] EXCEPT !.at = @ - 1]
  OBVIOUS
<1>1. /\ req[r] \in Place /\ req[r].at \in 1..3 /\ req[r].at \in 1..Depth(c) /\ FirstTx(c) \in Nat
      /\ InTx(r) <=> req[r].at >= FirstTx(c)
      /\ req[r].at # FirstTx(c)
  BY <1>0, MoverFacts
<1>2. /\ place \in Place /\ place.call = c /\ place.at = req[r].at - 1
      /\ place.pc = "leave" /\ place.cbs = req[r].cbs /\ place.ran = req[r].ran
      /\ place.given = req[r].given
  BY <1>0, <1>1 DEF Place
<1>3. req' = [req EXCEPT ![r] = place]
  BY <1>0 DEF Outside
<1>4. /\ Moves(r) /\ req' \in ReqType /\ req'[r] = place
      /\ InTx(r)' <=> req[r].at > FirstTx(c)
      /\ Depth(c)' = Depth(c)
  BY <1>0, <1>2, <1>3, GoesOut, DepthKept, ZenonT(30)
<1>5. InTx(r)' <=> InTx(r)
  BY <1>1, <1>4
<1>6. Placed(r)'
  BY <1>0, <1>1, <1>2, <1>4, BlockFacts DEF ScopeInv, Scoped, Placed
<1>7. Scoped(r)'
  BY <1>2, <1>4, <1>5, <1>6 DEF ScopeInv, Scoped, Holding, Ordered
<1>8. TxOf(r)' = TxOf(r) /\ Kept(r)
  BY <1>2, <1>4, <1>5 DEF TxOf, Kept
<1>. QED
  BY <1>4, <1>7, <1>8, OnlyMover, PromiseStutters DEF Sound

LEMMA UnlockSound ==
  ASSUME ScopeInv, NEW r \in Requests, Unlock(r)
  PROVE  Sound
BY Leaving DEF Unlock, Outermost

LEMMA LeaveJoinedSound ==
  ASSUME ScopeInv, NEW r \in Requests, LeaveJoined(r)
  PROVE  Sound
BY Leaving DEF LeaveJoined

\* The transaction ends without having been committed for certain.
LEMMA Dropping ==
  ASSUME ScopeInv, NEW r \in Requests, way' = way, NEW ok \in BOOLEAN,
         req[r].pc = "leave", req[r].at > 0, Outermost(r),
         req' = [req EXCEPT ![r] = [req[r] EXCEPT !.ok = ok, !.cbs = <<>>, !.at = @ - 1]]
  PROVE  Sound
<1>0. PICK c, n, none, place :
        /\ c = req[r].call /\ n = req[r].at - 1 /\ none = <<>>
        /\ place = [req[r] EXCEPT !.ok = ok, !.cbs = none, !.at = n]
  OBVIOUS
<1>1. /\ req[r] \in Place /\ req[r].at \in 1..3 /\ req[r].at \in 1..Depth(c)
      /\ InTx(r) <=> req[r].at >= FirstTx(c)
      /\ req[r].at = FirstTx(c)
  BY <1>0, MoverFacts
<1>2. none \in Seq(Callbacks) /\ DOMAIN none = {} /\ n \in 0..3
  BY <1>0, <1>1
<1>3. /\ place \in Place /\ place.call = c /\ place.at = n
      /\ place.pc = "leave" /\ place.cbs = none /\ place.ran = req[r].ran
      /\ place.given = req[r].given
  BY <1>0, <1>1, <1>2 DEF Place
<1>4. req' = [req EXCEPT ![r] = place]
  BY <1>0
<1>5. /\ Moves(r) /\ req' \in ReqType /\ req'[r] = place
      /\ InTx(r)' <=> req[r].at > FirstTx(c)
  BY <1>0, <1>3, <1>4, GoesOut
<1>6. InTx(r) /\ ~InTx(r)'
  BY <1>1, <1>5
<1>7. Placed(r)'
  <2>1. Depth(c)' = Depth(c) /\ Depth(c) \in Nat
    BY DepthKept, BlockFacts
  <2>. QED
    BY <1>0, <1>1, <1>3, <1>5, <2>1 DEF ScopeInv, Scoped, Placed
<1>8. Scoped(r)'
  BY <1>0, <1>2, <1>3, <1>5, <1>6, <1>7 DEF ScopeInv, Scoped, Holding, Ordered
<1>9. Promise!Abort(r)
  <2>1. TxOf(r) = "open" /\ TxOf(r)' = "ended"
    BY <1>3, <1>5, <1>6 DEF TxOf
  <2>. QED
    BY <1>0, <1>3, <1>5, <2>1, PromiseAborts
<1>. QED
  BY <1>5, <1>8, <1>9, OnlyMover DEF Sound, Promise!Next

LEMMA CommitFailsSound ==
  ASSUME ScopeInv, NEW r \in Requests, CommitFails(r)
  PROVE  Sound
<1>1. req' = [req EXCEPT ![r] = [req[r] EXCEPT !.ok = FALSE, !.cbs = <<>>, !.at = @ - 1]]
  BY DEF CommitFails
<1>. QED
  BY <1>1, Dropping DEF CommitFails, Leaves

LEMMA RollbackSound ==
  ASSUME ScopeInv, NEW r \in Requests, Rollback(r)
  PROVE  Sound
<1>1. req[r].ok \in BOOLEAN /\ req[r].ok = FALSE /\ req[r] \in Place
  BY DEF Rollback, Leaves, ScopeInv, ReqType, Place
<1>2. [req[r] EXCEPT !.ok = FALSE, !.cbs = <<>>, !.at = @ - 1] = [req[r] EXCEPT !.cbs = <<>>, !.at = @ - 1]
  BY <1>1 DEF Place
<1>3. req' = [req EXCEPT ![r] = [req[r] EXCEPT !.ok = FALSE, !.cbs = <<>>, !.at = @ - 1]]
  BY <1>2 DEF Rollback
<1>. QED
  BY <1>3, Dropping DEF Rollback, Leaves


LEMMA CommitSound ==
  ASSUME ScopeInv, NEW r \in Requests, Commit(r)
  PROVE  Sound
<1>0. PICK c, n, place :
        /\ c = req[r].call /\ n = req[r].at - 1
        /\ place = [req[r] EXCEPT !.pc = "fire", !.at = n]
  OBVIOUS
<1>1. /\ req[r] \in Place /\ req[r].at \in 1..3 /\ req[r].at \in 1..Depth(c)
      /\ InTx(r) <=> req[r].at >= FirstTx(c)
      /\ req[r].at = FirstTx(c)
      /\ req[r].pc = "leave" /\ n \in 0..3
  BY <1>0, MoverFacts DEF Commit, Leaves
<1>2. /\ place \in Place /\ place.call = c /\ place.at = n
      /\ place.pc = "fire" /\ place.cbs = req[r].cbs /\ place.ran = req[r].ran
      /\ place.given = req[r].given
  BY <1>0, <1>1 DEF Place, Pcs
<1>3. req' = [req EXCEPT ![r] = place] /\ way' = way
  BY <1>0 DEF Commit
<1>4. /\ Moves(r) /\ req' \in ReqType /\ req'[r] = place
      /\ InTx(r)' <=> req[r].at > FirstTx(c)
  <2>1. c = req[r].call /\ place.at = req[r].at - 1 /\ req[r].at > 0 /\ place.call = c
    BY <1>0, <1>1, <1>2
  <2>2. place \in Place
    BY <1>2
  <2>. QED
    BY <1>3, <2>1, <2>2, GoesOut
<1>5. InTx(r) /\ ~InTx(r)'
  BY <1>1, <1>4
<1>6. Placed(r)'
  <2>1. Depth(c)' = Depth(c) /\ Depth(c) \in Nat /\ FirstTx(c)' = FirstTx(c)
    BY <1>3, DepthKept, BlockFacts
  <2>. QED
    BY <1>0, <1>1, <1>2, <1>4, <2>1 DEF ScopeInv, Scoped, Placed
<1>7. Scoped(r)'
  BY <1>1, <1>2, <1>4, <1>5, <1>6 DEF ScopeInv, Scoped, Holding, Ordered
<1>8. Promise!Commit(r)
  <2>1. TxOf(r) = "open" /\ TxOf(r)' = "committed" /\ Kept(r)
    BY <1>1, <1>2, <1>4, <1>5 DEF TxOf, Kept
  <2>. QED
    BY <1>4, <2>1, PromiseCommits
<1>. QED
  BY <1>4, <1>7, <1>8, OnlyMover DEF Sound, Promise!Next

LEMMA FireSound ==
  ASSUME ScopeInv, NEW r \in Requests, Fire(r)
  PROVE  Sound
<1>0. PICK c, s, k, place :
        /\ c = req[r].call /\ s = Tail(req[r].cbs) /\ k = Head(req[r].cbs)
        /\ place = [req[r] EXCEPT !.cbs = s, !.ran = @ \cup {k}]
  OBVIOUS
<1>1. /\ req[r] \in Place /\ req[r].cbs \in Seq(Callbacks) /\ req[r].cbs # <<>>
      /\ req[r].pc = "fire" /\ req[r].ran \subseteq Callbacks
      /\ Placed(r) /\ Holding(r) /\ Ordered(r)
  BY DEF ScopeInv, ReqType, Place, Fire, Scoped
<1>2. PICK m \in Nat :
        /\ s \in Seq(Callbacks) /\ k \in Callbacks
        /\ DOMAIN req[r].cbs = 1..(m + 1) /\ DOMAIN s = 1..m
        /\ k = req[r].cbs[1]
        /\ \A i \in 1..m : s[i] = req[r].cbs[i + 1]
  <2>1. Len(req[r].cbs) \in Nat \ {0} /\ DOMAIN req[r].cbs = 1..Len(req[r].cbs)
    BY <1>1
  <2>2. /\ Tail(req[r].cbs) \in Seq(Callbacks) /\ Head(req[r].cbs) \in Callbacks
        /\ DOMAIN Tail(req[r].cbs) = 1..(Len(req[r].cbs) - 1)
        /\ Head(req[r].cbs) = req[r].cbs[1]
        /\ \A i \in 1..(Len(req[r].cbs) - 1) : Tail(req[r].cbs)[i] = req[r].cbs[i + 1]
    BY <1>1, <2>1
  <2>3. PICK m \in Nat : Len(req[r].cbs) = m + 1
    <3>1. Len(req[r].cbs) - 1 \in Nat /\ Len(req[r].cbs) = (Len(req[r].cbs) - 1) + 1
      BY <2>1
    <3>. QED
      BY <3>1
  <2>. QED
    BY <1>0, <2>1, <2>2, <2>3
<1>3. /\ place \in Place /\ place.call = c /\ place.at = req[r].at
      /\ place.pc = "fire" /\ place.cbs = s /\ place.ran = req[r].ran \cup {k}
      /\ place.given = req[r].given
  BY <1>0, <1>1, <1>2 DEF Place
<1>4. req' = [req EXCEPT ![r] = place] /\ way' = way
  BY <1>0 DEF Fire
<1>5. /\ Moves(r) /\ req' \in ReqType /\ req'[r] = place /\ (InTx(r)' <=> InTx(r))
  <2>1. c = req[r].call
    BY <1>0
  <2>. QED
    BY <1>3, <1>4, <2>1, GoesOn
<1>6. Ordered(r)'
  <2>. DEFINE q == req[r].cbs
  <2>a. /\ \A i \in 1..(m + 1) : q[i] \notin req[r].ran /\ q[i][1] = r /\ q[i][2] \in 1..req[r].given
        /\ \A i, j \in 1..(m + 1) : q[i] = q[j] => i = j
    BY <1>1, <1>2 DEF Ordered
  <2>b. /\ \A i \in 1..m : i + 1 \in 1..(m + 1) /\ i + 1 # 1 /\ s[i] = q[i + 1]
        /\ 1 \in 1..(m + 1) /\ k = q[1]
    BY <1>2
  <2>. HIDE DEF q
  <2>1. k \notin req[r].ran /\ \A i \in 1..m : s[i] # k /\ s[i] \notin req[r].ran
    BY <2>a, <2>b
  <2>2. \A i \in 1..m : s[i][1] = r /\ s[i][2] \in 1..req[r].given
    BY <2>a, <2>b
  <2>3. \A i, j \in 1..m : s[i] = s[j] => i = j
    <3>. SUFFICES ASSUME NEW i \in 1..m, NEW j \in 1..m, s[i] = s[j] PROVE i = j
      OBVIOUS
    <3>1. i + 1 = j + 1
      BY <2>a, <2>b
    <3>. QED
      BY <3>1
  <2>. QED
    BY <1>2, <1>3, <1>5, <2>1, <2>2, <2>3 DEF Ordered
<1>7. Scoped(r)'
  <2>1. Depth(c)' = Depth(c) /\ FirstTx(c)' = FirstTx(c)
    BY <1>4, DepthKept
  <2>. QED
    BY <1>0, <1>1, <1>3, <1>5, <1>6, <2>1 DEF Scoped, Placed, Holding
<1>8. Promise!Run(r)
  <2>1. TxOf(r) = "committed" /\ TxOf(r)' = "committed"
    BY <1>1, <1>3, <1>5 DEF TxOf
  <2>2. Head(req[r].cbs) \notin req[r].ran
    BY <1>0, <1>1, <1>2, SMTT(30) DEF Ordered
  <2>3. req'[r].cbs = Tail(req[r].cbs) /\ req'[r].ran = req[r].ran \cup {Head(req[r].cbs)}
    BY <1>0, <1>3, <1>5
  <2>. QED
    BY <1>1, <1>5, <2>1, <2>2, <2>3, PromiseRuns
<1>. QED
  BY <1>5, <1>7, <1>8, OnlyMover DEF Sound, Promise!Next

LEMMA FiredSound ==
  ASSUME ScopeInv, NEW r \in Requests, Fired(r)
  PROVE  Sound
<1>0. PICK c, place : c = req[r].call /\ place = [req[r] EXCEPT !.pc = "leave", !.ran = {}]
  OBVIOUS
<1>1. /\ req[r] \in Place /\ req[r].pc = "fire" /\ req[r].cbs = <<>>
      /\ req[r].at = FirstTx(c) - 1 /\ FirstTx(c) \in Nat /\ req[r].at \in 0..3
      /\ InTx(r) <=> req[r].at >= FirstTx(c)
  BY <1>0, MoverFacts DEF Fired, ScopeInv, Scoped, Placed
<1>2. /\ place \in Place /\ place.call = c /\ place.at = req[r].at
      /\ place.pc = "leave" /\ place.cbs = req[r].cbs /\ place.ran = {}
      /\ place.given = req[r].given
  BY <1>0, <1>1 DEF Place, Pcs
<1>3. req' = [req EXCEPT ![r] = place] /\ way' = way
  BY <1>0 DEF Fired
<1>4. /\ Moves(r) /\ req' \in ReqType /\ req'[r] = place /\ (InTx(r)' <=> InTx(r))
  <2>1. c = req[r].call
    BY <1>0
  <2>. QED
    BY <1>2, <1>3, <2>1, GoesOn
<1>5. Scoped(r)'
  <2>1. Depth(c)' = Depth(c)
    BY <1>3, DepthKept
  <2>. QED
    BY <1>0, <1>1, <1>2, <1>4, <2>1 DEF ScopeInv, Scoped, Placed, Holding, Ordered
<1>6. Promise!End(r)
  <2>1. TxOf(r) = "committed" /\ TxOf(r)' = "ended"
    BY <1>1, <1>2, <1>4 DEF TxOf
  <2>. QED
    BY <1>1, <1>2, <1>4, <2>1, PromiseEnds
<1>. QED
  BY <1>4, <1>5, <1>6, OnlyMover DEF Sound, Promise!Next

\* A record at no block.
LEMMA OutsideAll ==
  ASSUME NEW r \in Requests, req[r].at = 0
  PROVE  ~InTx(r)
BY EnteredAlways, BlockFacts DEF EnteredAs

LEMMA EndSound ==
  ASSUME ScopeInv, NEW r \in Requests, End(r)
  PROVE  Sound
<1>0. PICK place : place = [NewReq EXCEPT !.pc = "over"]
  OBVIOUS
<1>1. /\ place \in Place /\ place.at = 0 /\ place.pc = "over" /\ place.cbs = <<>> /\ place.ran = {}
      /\ DOMAIN place.cbs = {}
  <2>1. <<>> \in Seq(Callbacks) /\ DOMAIN <<>> = {}
    OBVIOUS
  <2>2. place = [pc |-> "over", call |-> NoCall, at |-> 0, ok |-> TRUE, cbs |-> <<>>, given |-> 0, ran |-> {}]
    BY <1>0 DEF NewReq, NoCall
  <2>. QED
    BY <2>1, <2>2 DEF Place, Pcs
<1>2. req' = [req EXCEPT ![r] = place] /\ way' = way
  BY <1>0 DEF End
<1>3. Moves(r) /\ req' \in ReqType /\ req'[r] = place
  BY <1>1, <1>2 DEF Moves, ScopeInv, ReqType
<1>4. ~InTx(r) /\ req[r].pc = "leave" /\ req[r].cbs = <<>> /\ req[r].ran = {}
  BY OutsideAll DEF End, ScopeInv, Scoped, Holding
<1>5. ~InTx(r)'
  <2>1. req'[r].at = 0
    BY <1>1, <1>3
  <2>2. EnteredAs(r)'
    BY EnteredAlways
  <2>3. FirstTx(req[r].call)' \in Nat \ {0} /\ Depth(req[r].call)' \in Nat
    BY DEF FirstTx, Depth
  <2>. QED
    BY <2>1, <2>2, <2>3 DEF EnteredAs
<1>6. Scoped(r)'
  <2>1. Depth(req[r].call)' \in Nat
    BY DEF Depth
  <2>. QED
    BY <1>1, <1>3, <2>1 DEF Scoped, Placed, Holding, Ordered
<1>7. TxOf(r)' = TxOf(r) /\ Kept(r)
  BY <1>1, <1>3, <1>4, <1>5 DEF TxOf, Kept
<1>. QED
  BY <1>3, <1>6, <1>7, OnlyMover, PromiseStutters DEF Sound

LEMMA BeginSound ==
  ASSUME ScopeInv, NEW r \in Requests, NEW c \in Calls, Begin(r, c)
  PROVE  Sound
<1>0. PICK place : place = [req[r] EXCEPT !.pc = "enter", !.call = c]
  OBVIOUS
<1>1. req[r] \in Place /\ req[r].pc = "idle" /\ Scoped(r)
  BY DEF Begin, ScopeInv, ReqType
<1>2. /\ req[r].at = 0 /\ req[r].cbs = <<>> /\ req[r].ran = {} /\ req[r].given = 0
  BY <1>1 DEF Scoped, Placed, Holding
<1>3. /\ place \in Place /\ place.at = 0 /\ place.pc = "enter" /\ place.cbs = <<>> /\ place.ran = {}
      /\ place.given = 0 /\ place.call = c
  BY <1>0, <1>1, <1>2 DEF Place, Pcs
<1>4. req' = [req EXCEPT ![r] = place] /\ way' = way
  BY <1>0 DEF Begin
<1>5. Moves(r) /\ req' \in ReqType /\ req'[r] = place
  BY <1>3, <1>4 DEF Moves, ScopeInv, ReqType
<1>6. ~InTx(r) /\ ~InTx(r)'
  <2>1. req'[r].at = 0
    BY <1>3, <1>5
  <2>2. EnteredAs(r)'
    BY EnteredAlways
  <2>3. FirstTx(req[r].call)' \in Nat \ {0} /\ Depth(req[r].call)' \in Nat
    BY DEF FirstTx, Depth
  <2>. QED
    BY <1>2, <2>1, <2>2, <2>3, OutsideAll DEF EnteredAs
<1>7. Scoped(r)'
  <2>1. Depth(req[r].call)' \in Nat \ {0}
    BY DEF Depth
  <2>2. DOMAIN <<>> = {}
    OBVIOUS
  <2>. QED
    BY <1>3, <1>5, <2>1, <2>2 DEF Scoped, Placed, Holding, Ordered
<1>8. TxOf(r)' = TxOf(r) /\ Kept(r)
  BY <1>1, <1>2, <1>3, <1>5, <1>6 DEF TxOf, Kept
<1>. QED
  BY <1>5, <1>7, <1>8, OnlyMover, PromiseStutters DEF Sound

(***************************************************************************)
(* The calls, and what the action answers.                                 *)
(***************************************************************************)
Form == [Fields -> Nat]

LEMMA Names ==
  /\ Range(Tasks) = {"apply", "check"}
  /\ NodeNames = {"apply", "check", "gate", "end"}
  /\ \A n : IsTask(n) <=> n \in {"apply", "check"}
<1>1. Range(Tasks) = {"apply", "check"}
  <2>1. DOMAIN Tasks = {1, 2} /\ Tasks[1] = "apply" /\ Tasks[2] = "check"
    BY DEF Tasks
  <2>. QED
    BY <2>1 DEF Range
<1>. QED
  BY <1>1 DEF NodeNames, IsTask

LEMMA CallKinds ==
  ASSUME NEW c \in Calls
  PROVE  /\ c.form \in Form
         /\ c.kind = "start" \/ (/\ c.kind \in {"submit", "reject", "return"}
                                 /\ c.task \in {"apply", "check"} /\ c.submitType \in SubmitTypes)
<1>1. c \in StartCalls \/ c \in TaskCalls
  BY PersistAssumption
<1>2. CASE c \in StartCalls
  BY <1>2 DEF StartCalls, Form
<1>3. CASE c \in TaskCalls
  BY <1>3, Names DEF TaskCalls, Form
<1>. QED
  BY <1>1, <1>2, <1>3

LEMMA DoAnswers ==
  ASSUME NEW c \in Calls, NEW w
  PROVE  Do(c, w).ok \in BOOLEAN
<1>1. CASE c.kind = "start"
  BY <1>1 DEF Do, Start
<1>2. CASE c.kind = "submit"
  <2>1. CASE ~Loads(c, w)
    BY <1>2, <2>1 DEF Do, Submit, Refused
  <2>2. CASE Loads(c, w) /\ c.task = "apply"
    BY <1>2, <2>2 DEF Do, Submit
  <2>3. CASE Loads(c, w) /\ c.task # "apply"
    BY <1>2, <2>3 DEF Do, Submit
  <2>. QED
    BY <2>1, <2>2, <2>3
<1>3. CASE c.kind = "reject"
  BY <1>3 DEF Do, Reject, Refused
<1>4. CASE c.kind = "return"
  BY <1>4 DEF Do, ReturnToFirst, Refused
<1>. QED
  BY <1>1, <1>2, <1>3, <1>4, CallKinds

LEMMA ActAnswers ==
  ASSUME ScopeInv, NEW r \in Requests, Act(r)
  PROVE  \E ok \in BOOLEAN :
           req' = [req EXCEPT ![r].pc = IF ok THEN "acted" ELSE "leave", ![r].ok = ok] /\ way' = way
<1>1. PICK w : w = IF setup.wired THEN mine[r] ELSE [mine[r] EXCEPT !.rows = db.rows]
  OBVIOUS
<1>2. PICK c, ok : c = req[r].call /\ ok = Do(c, w).ok
  OBVIOUS
<1>3. c \in Calls
  BY <1>2 DEF Act, ScopeInv, Scoped, Placed
<1>4. ok \in BOOLEAN
  BY <1>2, <1>3, DoAnswers
<1>5. req' = [req EXCEPT ![r].pc = IF ok THEN "acted" ELSE "leave", ![r].ok = ok] /\ way' = way
  BY <1>1, <1>2 DEF Act
<1>. QED
  BY <1>4, <1>5

LEMMA ActSound ==
  ASSUME ScopeInv, NEW r \in Requests, Act(r)
  PROVE  Sound
<1>0. PICK c : c = req[r].call
  OBVIOUS
<1>b. c \in Calls /\ req[r].pc = "body"
  BY <1>0 DEF Act, ScopeInv, Scoped, Placed
<1>1. PICK ok \in BOOLEAN :
        req' = [req EXCEPT ![r].pc = IF ok THEN "acted" ELSE "leave", ![r].ok = ok] /\ way' = way
  BY ActAnswers
<1>a. PICK place : place = [req[r] EXCEPT !.pc = IF ok THEN "acted" ELSE "leave", !.ok = ok]
  OBVIOUS
<1>2. /\ place \in Place /\ place.call = c /\ place.at = req[r].at
      /\ place.pc \in {"acted", "leave"} /\ place.cbs = req[r].cbs /\ place.ran = req[r].ran
      /\ place.given = req[r].given
  BY <1>0, <1>a, MoverFacts DEF Place, Pcs
<1>3. req' = [req EXCEPT ![r] = place] /\ way' = way
  BY <1>1, <1>a
<1>4. /\ Moves(r) /\ req' \in ReqType /\ req'[r] = place /\ (InTx(r)' <=> InTx(r))
      /\ Depth(c)' = Depth(c)
  <2>1. c = req[r].call /\ way' = way
    BY <1>0, <1>3
  <2>2. Depth(c)' = Depth(c)
    BY <2>1, DepthKept
  <2>3. place \in Place /\ place.call = c /\ place.at = req[r].at /\ req' = [req EXCEPT ![r] = place]
    BY <1>2, <1>3
  <2>. QED
    BY <2>1, <2>2, <2>3, GoesOn
<1>5. InTx(r)
  BY <1>b, MoverFacts DEF ScopeInv, Scoped, Placed
<1>6. Scoped(r)'
  BY <1>0, <1>b, <1>2, <1>4, <1>5 DEF ScopeInv, Scoped, Placed, Holding, Ordered
<1>7. TxOf(r)' = TxOf(r) /\ Kept(r)
  BY <1>b, <1>2, <1>4, <1>5 DEF TxOf, Kept
<1>. QED
  BY <1>4, <1>6, <1>7, OnlyMover, PromiseStutters DEF Sound

LEMMA QuietlySound ==
  ASSUME ScopeInv, NEW r \in Requests, Quietly(r)
  PROVE  Sound
BY LockSound, BeginFailsSound, JoinSound, RunAfterCommitSound, AnswerSound, UnlockSound,
   LeaveJoinedSound, FireSound, FiredSound, EndSound DEF Quietly

LEMMA StepSound ==
  ASSUME ScopeInv, [Next]_vars
  PROVE  Sound
<1>1. ASSUME NEW r \in Requests, Receive(r)
      PROVE  Sound
  BY <1>1, BeginSound DEF Receive
<1>2. ASSUME NEW r \in Requests, Goes(r)
      PROVE  Sound
  BY <1>2, BeginTxSound, ActSound, CommitSound, CommitFailsSound, RollbackSound, QuietlySound
     DEF Goes, OpenTx, CommitTx, CommitTxFails, RollbackTx
<1>3. CASE UNCHANGED vars
  <2>1. way' = way /\ req' = req
    BY <1>3 DEF vars
  <2>2. ScopeInv'
    BY <2>1 DEF ScopeInv, Scoped, Placed, Holding, Ordered, ReqType, InTx, Entered, Blocks, Depth, FirstTx, Locks
  <2>3. UNCHANGED Promise!vars
    BY <2>1 DEF Promise!vars, TxOf, InTx, Entered, Blocks
  <2>. QED
    BY <2>2, <2>3 DEF Sound
<1>. QED
  BY <1>1, <1>2, <1>3 DEF Next

THEOREM ScopeAlways == Spec => []ScopeInv
<1>1. Init => ScopeInv
  BY ScopeInit DEF Init
<1>2. ScopeInv /\ [Next]_vars => ScopeInv'
  BY StepSound DEF Sound
<1>. QED
  BY <1>1, <1>2, PTL DEF Spec

LEMMA PromiseInit ==
  ASSUME TxInit
  PROVE  Promise!Init
<1>1. ASSUME NEW r \in Requests
      PROVE  TxOf(r) = "none" /\ req[r].cbs = <<>> /\ req[r].ran = {}
  <2>1. req[r] = NewReq
    BY DEF TxInit
  <2>2. ~InTx(r)
    BY <2>1, OutsideAll DEF NewReq
  <2>. QED
    BY <2>1, <2>2 DEF NewReq, TxOf
<1>. QED
  BY <1>1 DEF Promise!Init

(***************************************************************************)
(* A callback handed over inside with_tx (run_after_commit) runs once, in  *)
(* order, after the outermost with_tx has committed, and not at all when   *)
(* it has not: the steps of the requests, whatever block each is in,       *)
(* implement AfterCommit.  It holds for requests that overlap in any way   *)
(* and for any number of database faults.                                  *)
(***************************************************************************)
THEOREM ScopesKeepPromise == Spec => KeepsPromise
<1>1. Init => Promise!Init
  BY PromiseInit DEF Init
<1>2. ScopeInv /\ [Next]_vars => [Promise!Next]_(Promise!vars)
  BY StepSound DEF Sound
<1>. QED
  BY <1>1, <1>2, ScopeAlways, PTL DEF Spec, KeepsPromise, Promise!Spec

(***************************************************************************)
(* What a step does to the place of its request: it goes one block further *)
(* in, stays, goes one block out, or is over.                              *)
(***************************************************************************)
Steps(r) == req'[r].call = req[r].call /\ Moves(r)

InBlock(r) ==
  /\ Steps(r) /\ req[r].pc = "enter" /\ req'[r].pc \in {"enter", "body"} /\ req'[r].at = req[r].at + 1
  /\ \/ Step(r) = "lock" /\ lock = Nobody /\ lock' = r
     \/ Step(r) = "tx" /\ lock' = lock

Stays(r) ==
  /\ Steps(r) /\ req'[r].at = req[r].at /\ lock' = lock
  /\ req[r].pc \notin {"idle", "leave", "over"}
  /\ req'[r].pc \notin {"idle", "enter", "body", "over"}

OutOfBlock(r) ==
  /\ Steps(r) /\ req[r].pc = "leave" /\ req'[r].pc \in {"leave", "fire"}
  /\ req[r].at > 0 /\ req'[r].at = req[r].at - 1
  /\ \/ Last(Entered(r)) = "lock" /\ lock' = Nobody
     \/ Last(Entered(r)) = "tx" /\ lock' = lock

Over(r) ==
  /\ Moves(r) /\ lock' = lock /\ req[r].at = 0
  /\ req[r].pc = "leave" /\ req'[r] = [NewReq EXCEPT !.pc = "over"]

LEMMA EnteringIs ==
  ASSUME ScopeInv, NEW r \in Requests, Lock(r) \/ BeginTx(r) \/ Join(r)
  PROVE  InBlock(r)
<1>1. req[r] \in Place /\ req \in [Requests -> Place]
  BY DEF ScopeInv, ReqType
<1>2. PICK pc \in {"enter", "body"} : req' = [req EXCEPT ![r].at = @ + 1, ![r].pc = pc] /\ way' = way
  BY DEF Lock, BeginTx, Join, Inside
<1>3. PICK place : place = [req[r] EXCEPT !.at = @ + 1, !.pc = pc]
  OBVIOUS
<1>4. place.call = req[r].call /\ place.at = req[r].at + 1 /\ place.pc = pc
  BY <1>1, <1>3 DEF Place
<1>5. req' = [req EXCEPT ![r] = place]
  BY <1>2, <1>3
<1>6. Moves(r) /\ req'[r] = place
  BY <1>1, <1>2, <1>5 DEF Moves
<1>. QED
  BY <1>4, <1>6 DEF InBlock, Steps, Lock, BeginTx, Join

LEMMA StayingIs ==
  ASSUME ScopeInv, NEW r \in Requests,
         BeginFails(r) \/ Act(r) \/ RunAfterCommit(r) \/ Answer(r) \/ Fire(r) \/ Fired(r)
  PROVE  Stays(r)
<1>1. req[r] \in Place /\ req \in [Requests -> Place]
  BY DEF ScopeInv, ReqType
<1>2. ASSUME NEW place, place.call = req[r].call, place.at = req[r].at,
             place.pc \in {"acted", "leave", "fire"},
             req' = [req EXCEPT ![r] = place], way' = way, lock' = lock,
             req[r].pc \notin {"idle", "leave", "over"}
      PROVE  Stays(r)
  <2>1. Moves(r) /\ req'[r] = place
    BY <1>1, <1>2 DEF Moves
  <2>. QED
    BY <1>2, <2>1 DEF Stays, Steps
<1>3. CASE BeginFails(r)
  <2>1. PICK place : place = [req[r] EXCEPT !.pc = "leave", !.ok = FALSE]
    OBVIOUS
  <2>2. place.call = req[r].call /\ place.at = req[r].at /\ place.pc = "leave"
    BY <1>1, <2>1 DEF Place
  <2>3. req' = [req EXCEPT ![r] = place] /\ way' = way /\ lock' = lock /\ req[r].pc = "enter"
    BY <1>3, <2>1 DEF BeginFails
  <2>. QED
    BY <1>2, <2>2, <2>3
<1>4. CASE Act(r)
  <2>1. PICK ok \in BOOLEAN :
          req' = [req EXCEPT ![r].pc = IF ok THEN "acted" ELSE "leave", ![r].ok = ok] /\ way' = way
    BY <1>4, ActAnswers
  <2>2. PICK place : place = [req[r] EXCEPT !.pc = IF ok THEN "acted" ELSE "leave", !.ok = ok]
    OBVIOUS
  <2>3. place.call = req[r].call /\ place.at = req[r].at /\ place.pc \in {"acted", "leave"}
    BY <1>1, <2>2 DEF Place
  <2>4. req' = [req EXCEPT ![r] = place]
    BY <2>1, <2>2
  <2>5. lock' = lock /\ req[r].pc = "body"
    BY <1>4, Zenon DEF Act
  <2>. QED
    BY <1>2, <2>1, <2>3, <2>4, <2>5
<1>5. CASE RunAfterCommit(r)
  <2>1. PICK place : place = [req[r] EXCEPT !.given = @ + 1, !.cbs = Append(@, <<r, req[r].given + 1>>)]
    OBVIOUS
  <2>2. place.call = req[r].call /\ place.at = req[r].at /\ place.pc = req[r].pc
    BY <1>1, <2>1 DEF Place
  <2>3. req' = [req EXCEPT ![r] = place] /\ way' = way /\ lock' = lock /\ req[r].pc = "acted"
    BY <1>5, <2>1 DEF RunAfterCommit
  <2>. QED
    BY <1>2, <2>2, <2>3
<1>6. CASE Answer(r)
  <2>1. PICK ok : req' = [req EXCEPT ![r].pc = "leave", ![r].ok = ok]
    BY <1>6 DEF Answer
  <2>2. PICK place : place = [req[r] EXCEPT !.pc = "leave", !.ok = ok]
    OBVIOUS
  <2>3. place.call = req[r].call /\ place.at = req[r].at /\ place.pc = "leave"
    BY <1>1, <2>2 DEF Place
  <2>4. req' = [req EXCEPT ![r] = place] /\ way' = way /\ lock' = lock /\ req[r].pc = "acted"
    BY <1>6, <2>1, <2>2 DEF Answer
  <2>. QED
    BY <1>2, <2>3, <2>4
<1>7. CASE Fire(r)
  <2>1. PICK place : place = [req[r] EXCEPT !.cbs = Tail(@), !.ran = @ \cup {Head(req[r].cbs)}]
    OBVIOUS
  <2>2. place.call = req[r].call /\ place.at = req[r].at /\ place.pc = req[r].pc
    BY <1>1, <2>1 DEF Place
  <2>3. req' = [req EXCEPT ![r] = place] /\ way' = way /\ lock' = lock /\ req[r].pc = "fire"
    BY <1>7, <2>1 DEF Fire
  <2>. QED
    BY <1>2, <2>2, <2>3
<1>8. CASE Fired(r)
  <2>1. PICK place : place = [req[r] EXCEPT !.pc = "leave", !.ran = {}]
    OBVIOUS
  <2>2. place.call = req[r].call /\ place.at = req[r].at /\ place.pc = "leave"
    BY <1>1, <2>1 DEF Place
  <2>3. req' = [req EXCEPT ![r] = place] /\ way' = way /\ lock' = lock /\ req[r].pc = "fire"
    BY <1>8, <2>1 DEF Fired
  <2>. QED
    BY <1>2, <2>2, <2>3
<1>. QED
  BY <1>3, <1>4, <1>5, <1>6, <1>7, <1>8

LEMMA LeavingIs ==
  ASSUME ScopeInv, NEW r \in Requests,
         Unlock(r) \/ LeaveJoined(r) \/ Commit(r) \/ CommitFails(r) \/ Rollback(r)
  PROVE  OutOfBlock(r)
<1>1. req[r] \in Place /\ req \in [Requests -> Place]
  BY DEF ScopeInv, ReqType
<1>2. ASSUME NEW place, place.call = req[r].call, place.at = req[r].at - 1,
             place.pc \in {"leave", "fire"}, req' = [req EXCEPT ![r] = place]
      PROVE  OutOfBlock(r)
  <2>1. way' = way /\ req[r].pc = "leave" /\ req[r].at > 0
    BY DEF Unlock, LeaveJoined, Commit, CommitFails, Rollback, Leaves
  <2>2. Moves(r) /\ req'[r] = place
    BY <1>1, <1>2, <2>1 DEF Moves
  <2>3. \/ Last(Entered(r)) = "lock" /\ lock' = Nobody
        \/ Last(Entered(r)) = "tx" /\ lock' = lock
    BY DEF Unlock, LeaveJoined, Commit, CommitFails, Rollback, Leaves, Outermost
  <2>. QED
    BY <1>2, <2>1, <2>2, <2>3 DEF OutOfBlock, Steps
<1>3. CASE Unlock(r) \/ LeaveJoined(r)
  <2>1. PICK place : place = [req[r] EXCEPT !.at = @ - 1]
    OBVIOUS
  <2>2. place.call = req[r].call /\ place.at = req[r].at - 1 /\ place.pc = req[r].pc
    BY <1>1, <2>1 DEF Place
  <2>3. req' = [req EXCEPT ![r] = place] /\ req[r].pc = "leave"
    BY <1>3, <2>1 DEF Unlock, LeaveJoined, Outside
  <2>. QED
    BY <1>2, <2>2, <2>3
<1>4. CASE Commit(r)
  <2>1. PICK place : place = [req[r] EXCEPT !.pc = "fire", !.at = @ - 1]
    OBVIOUS
  <2>2. place.call = req[r].call /\ place.at = req[r].at - 1 /\ place.pc = "fire"
    BY <1>1, <2>1 DEF Place
  <2>3. req' = [req EXCEPT ![r] = place]
    BY <1>4, <2>1 DEF Commit
  <2>. QED
    BY <1>2, <2>2, <2>3
<1>5. CASE CommitFails(r)
  <2>1. PICK place : place = [req[r] EXCEPT !.ok = FALSE, !.cbs = <<>>, !.at = @ - 1]
    OBVIOUS
  <2>2. place.call = req[r].call /\ place.at = req[r].at - 1 /\ place.pc = req[r].pc
    BY <1>1, <2>1 DEF Place
  <2>3. req' = [req EXCEPT ![r] = place] /\ req[r].pc = "leave"
    BY <1>5, <2>1 DEF CommitFails, Leaves
  <2>. QED
    BY <1>2, <2>2, <2>3
<1>6. CASE Rollback(r)
  <2>1. PICK place : place = [req[r] EXCEPT !.cbs = <<>>, !.at = @ - 1]
    OBVIOUS
  <2>2. place.call = req[r].call /\ place.at = req[r].at - 1 /\ place.pc = req[r].pc
    BY <1>1, <2>1 DEF Place
  <2>3. req' = [req EXCEPT ![r] = place] /\ req[r].pc = "leave"
    BY <1>6, <2>1 DEF Rollback, Leaves
  <2>. QED
    BY <1>2, <2>2, <2>3
<1>. QED
  BY <1>3, <1>4, <1>5, <1>6

LEMMA OverIs ==
  ASSUME ScopeInv, NEW r \in Requests, End(r)
  PROVE  Over(r)
BY DEF End, Over, Moves, ScopeInv, ReqType

(***************************************************************************)
(* Who may be in a transaction: requests on one instance may overlap only  *)
(* where the lock is taken before the transaction, that is when a program  *)
(* calls the engine.                                                       *)
(***************************************************************************)
AloneInv ==
  /\ \A r, q \in Requests : r # q /\ Under(r) /\ Under(q) => way = "engine" /\ Locks(req[r].call)
  /\ \A r \in Requests : Locks(req[r].call) /\ req[r].at >= LockAt => lock = r


\* In a transaction means at the lock's block or further in, where both are taken
\* and the lock is the outer one.
LEMMA OneInTx ==
  ASSUME ScopeInv, AloneInv, NEW r \in Requests, InTx(r), NEW q \in Requests, InTx(q)
  PROVE  q = r
<1>. SUFFICES ASSUME q # r PROVE FALSE
  OBVIOUS
<1>1. ASSUME NEW p \in Requests, InTx(p)
      PROVE  Under(p) /\ req[p].at >= FirstTx(req[p].call)
  <2>1. req[p].at >= FirstTx(req[p].call) /\ FirstTx(req[p].call) \in Nat \ {0}
    BY <1>1, MoverFacts
  <2>. QED
    BY <2>1 DEF ScopeInv, Scoped, Placed, Under
<1>2. Under(r) /\ Under(q)
  BY <1>1
<1>3. way = "engine" /\ Locks(req[r].call) /\ Locks(req[q].call)
  BY <1>2 DEF AloneInv
<1>4. FirstTx(req[r].call) = 2 /\ FirstTx(req[q].call) = 2 /\ LockAt = 1
  BY <1>3 DEF FirstTx, LockAt
<1>5. req[r].at \in Nat /\ req[q].at \in Nat
  BY MoverFacts
<1>. QED
  BY <1>1, <1>3, <1>4, <1>5 DEF AloneInv

LEMMA AloneInit ==
  ASSUME TxInit
  PROVE  AloneInv
<1>1. \A r \in Requests : req[r] = NewReq
  BY DEF TxInit
<1>2. \A r \in Requests : ~Under(r) /\ ~Locks(req[r].call)
  BY <1>1 DEF NewReq, Under, Locks, Locking
<1>. QED
  BY <1>2 DEF AloneInv

\* Requests under way stay under way or end, with the call they came with.
LEMMA AloneKept ==
  ASSUME ScopeInv, AloneInv, NEW r \in Requests, Moves(r), r \in Nat \ {0},
         Under(r), Under(r)' => req'[r].call = req[r].call,
         \/ lock' = lock
         \/ lock = Nobody /\ lock' = r
         \/ lock = r /\ lock' = Nobody /\ ~(req'[r].at >= LockAt),
         Locks(req'[r].call) /\ req'[r].at >= LockAt => lock' = r
  PROVE  AloneInv'
<1>1. /\ \A q \in Requests \ {r} : Under(q)' = Under(q) /\ req'[q] = req[q]
      /\ way' = way /\ LockAt' = LockAt
  BY DEF Moves, Under, LockAt
<1>2. ASSUME NEW p \in Requests, NEW q \in Requests, p # q, Under(p)', Under(q)'
      PROVE  way' = "engine" /\ Locks(req[p].call)'
  <2>1. Under(p) /\ Under(q)
    BY <1>1, <1>2
  <2>2. req'[p].call = req[p].call
    BY <1>1, <1>2
  <2>. QED
    BY <1>1, <1>2, <2>1, <2>2 DEF AloneInv, Locks
<1>3. ASSUME NEW q \in Requests, Locks(req[q].call)', req'[q].at >= LockAt
      PROVE  lock' = q
  <2>1. CASE q = r
    BY <1>3, <2>1 DEF Locks
  <2>2. CASE q # r
    <3>1. lock = q /\ q # Nobody
      BY <1>1, <1>3, <2>2 DEF AloneInv, Locks, Nobody, Requests
    <3>. QED
      BY <2>2, <3>1
  <2>. QED
    BY <2>1, <2>2
<1>. QED
  BY <1>1, <1>2, <1>3 DEF AloneInv

\* Which block the next one in, or the last one entered, is.
LEMMA BlockIs ==
  ASSUME ScopeInv, NEW r \in Requests, NEW c, c = req[r].call
  PROVE  /\ req[r].at < Depth(c) => (Step(r) = "lock" <=> Locks(c) /\ req[r].at + 1 = LockAt)
         /\ req[r].at > 0 => (Last(Entered(r)) = "lock" <=> Locks(c) /\ req[r].at = LockAt)
         /\ req[r].at \in Nat /\ LockAt \in {1, 2}
<1>1. req[r].at \in 0..Depth(c) /\ Depth(c) \in Nat
  BY MoverFacts
<1>2. req[r].at < Depth(c) => (Step(r) = "lock" <=> Locks(c) /\ req[r].at + 1 = LockAt)
  BY <1>1, BlockFacts DEF Step
<1>3. req[r].at > 0 => (Last(Entered(r)) = "lock" <=> Locks(c) /\ req[r].at = LockAt)
  BY <1>1, MoverFacts, BlockFacts
<1>. QED
  BY <1>1, <1>2, <1>3 DEF LockAt

LEMMA InBlockAlone ==
  ASSUME ScopeInv, AloneInv, NEW r \in Requests, InBlock(r)
  PROVE  AloneInv'
<1>. PICK c, n : c = req[r].call /\ n = req[r].at
  OBVIOUS
<1>1. /\ Moves(r) /\ req'[r].call = c /\ req'[r].at = n + 1 /\ n \in Nat /\ n < Depth(c)
      /\ req[r].pc = "enter" /\ Under(r)
  BY BlockIs DEF InBlock, Steps, ScopeInv, Scoped, Placed, Under
<1>2. (Step(r) = "lock" <=> Locks(c) /\ n + 1 = LockAt) /\ LockAt \in {1, 2}
  BY <1>1, BlockIs
<1>3. Locks(req'[r].call) /\ req'[r].at >= LockAt => lock' = r
  <2>1. CASE Step(r) = "lock"
    BY <2>1 DEF InBlock
  <2>2. CASE Step(r) # "lock"
    <3>1. Locks(c) /\ n + 1 >= LockAt => n >= LockAt
      BY <1>1, <1>2, <2>2
    <3>. QED
      BY <1>1, <2>2, <3>1 DEF InBlock, AloneInv
  <2>. QED
    BY <2>1, <2>2
<1>4. lock' = lock \/ (lock = Nobody /\ lock' = r)
  BY DEF InBlock
<1>. QED
  BY <1>1, <1>3, <1>4, AloneKept DEF Requests

LEMMA StaysAlone ==
  ASSUME ScopeInv, AloneInv, NEW r \in Requests, Stays(r)
  PROVE  AloneInv'
<1>1. Under(r) /\ Moves(r) /\ req'[r].call = req[r].call /\ req'[r].at = req[r].at /\ lock' = lock
  BY DEF Stays, Steps, Under
<1>2. Locks(req'[r].call) /\ req'[r].at >= LockAt => lock' = r
  BY <1>1 DEF AloneInv
<1>. QED
  BY <1>1, <1>2, AloneKept DEF Requests

LEMMA OutOfBlockAlone ==
  ASSUME ScopeInv, AloneInv, NEW r \in Requests, OutOfBlock(r)
  PROVE  AloneInv'
<1>. PICK c, n : c = req[r].call /\ n = req[r].at
  OBVIOUS
<1>1. /\ Moves(r) /\ req'[r].call = c /\ req'[r].at = n - 1 /\ n \in Nat /\ n > 0 /\ Under(r)
  BY BlockIs DEF OutOfBlock, Steps, Under
<1>2. (Last(Entered(r)) = "lock" <=> Locks(c) /\ n = LockAt) /\ LockAt \in {1, 2}
  BY <1>1, BlockIs
<1>3. Locks(c) /\ n >= LockAt => lock = r
  BY DEF AloneInv
<1>4. CASE Last(Entered(r)) = "lock"
  <2>1. lock' = Nobody /\ lock = r /\ ~(req'[r].at >= LockAt)
    BY <1>1, <1>2, <1>3, <1>4 DEF OutOfBlock
  <2>. QED
    BY <1>1, <2>1, AloneKept DEF Requests
<1>5. CASE Last(Entered(r)) # "lock"
  <2>1. lock' = lock
    BY <1>5 DEF OutOfBlock
  <2>2. Locks(req'[r].call) /\ req'[r].at >= LockAt => lock' = r
    BY <1>1, <1>2, <1>3, <2>1
  <2>. QED
    BY <1>1, <2>1, <2>2, AloneKept DEF Requests
<1>. QED
  BY <1>4, <1>5

LEMMA OverAlone ==
  ASSUME ScopeInv, AloneInv, NEW r \in Requests, Over(r)
  PROVE  AloneInv'
<1>1. ~Under(r)' /\ ~Locks(req'[r].call)
  BY DEF Over, Under, NewReq, Locks, Locking
<1>2. Under(r) /\ Moves(r) /\ lock' = lock
  BY DEF Over, Under
<1>. QED
  BY <1>1, <1>2, AloneKept DEF Requests

LEMMA BeginAlone ==
  ASSUME ScopeInv, AloneInv, Overlap \subseteq {"engine"}, NEW r \in Requests, NEW c, Begin(r, c)
  PROVE  AloneInv'
<1>1. /\ Moves(r) /\ req'[r].call = c /\ req'[r].at = 0 /\ lock' = lock /\ LockAt' = LockAt
      /\ way' = way /\ \A q \in Requests \ {r} : Under(q)' = Under(q) /\ req'[q] = req[q]
  <2>1. req \in [Requests -> Place] /\ req[r].pc = "idle" /\ Placed(r)
    BY DEF Begin, ScopeInv, ReqType, Scoped
  <2>2. req[r].at = 0
    BY <2>1 DEF Placed
  <2>3. PICK place : place = [req[r] EXCEPT !.pc = "enter", !.call = c]
    OBVIOUS
  <2>4. place.call = c /\ place.at = 0
    BY <2>1, <2>2, <2>3 DEF Place
  <2>5. req' = [req EXCEPT ![r] = place] /\ way' = way /\ lock' = lock
    BY <2>3 DEF Begin
  <2>. QED
    BY <2>1, <2>4, <2>5 DEF Moves, Under, LockAt
<1>2. \A q \in Requests \ {r} : Under(q) => way = "engine" /\ Locks(c) /\ Locks(req[q].call)
  BY DEF Begin, Locks
<1>3. ASSUME NEW p \in Requests, NEW q \in Requests, p # q, Under(p)', Under(q)'
      PROVE  way' = "engine" /\ Locks(req[p].call)'
  <2>1. CASE p = r
    BY <1>1, <1>2, <1>3, <2>1 DEF Locks
  <2>2. CASE p # r
    BY <1>1, <1>2, <1>3, <2>2 DEF AloneInv, Locks
  <2>. QED
    BY <2>1, <2>2
<1>4. ASSUME NEW q \in Requests, Locks(req[q].call)', req'[q].at >= LockAt
      PROVE  lock' = q
  <2>1. q # r
    BY <1>1, <1>4 DEF LockAt
  <2>. QED
    BY <1>1, <1>4, <2>1 DEF AloneInv, Locks
<1>. QED
  BY <1>1, <1>3, <1>4 DEF AloneInv

LEMMA AloneStep ==
  ASSUME ScopeInv, AloneInv, Overlap \subseteq {"engine"}, [Next]_vars
  PROVE  AloneInv'
<1>1. ASSUME NEW r \in Requests, Receive(r)
      PROVE  AloneInv'
  BY <1>1, BeginAlone DEF Receive
<1>2. ASSUME NEW r \in Requests, Goes(r)
      PROVE  AloneInv'
  <2>1. InBlock(r) \/ Stays(r) \/ OutOfBlock(r) \/ Over(r)
    BY <1>2, EnteringIs, StayingIs, LeavingIs, OverIs
       DEF Goes, Quietly, OpenTx, CommitTx, CommitTxFails, RollbackTx
  <2>. QED
    BY <2>1, InBlockAlone, StaysAlone, OutOfBlockAlone, OverAlone
<1>3. CASE UNCHANGED vars
  BY <1>3 DEF vars, AloneInv, Under, Locks, LockAt
<1>. QED
  BY <1>1, <1>2, <1>3 DEF Next

(***************************************************************************)
(* The data: what the interceptor and the engine's actions make of a view. *)
(***************************************************************************)
StateNames == {"none", "doing", "done", "rejected"}
Inst ==
  [state : StateNames, doing : {"none", "apply", "check"}, passed : SUBSET {"apply", "check"}, vars : Form,
   submitType : SubmitTypes]
BRow == [form : Form, cols : [NodeNames -> StateNames \cup {"null"}]]
View == [inst : Inst, rows : Seq(BRow), inserts : BOOLEAN]

\* A form whose values were all sent where the field may be edited.
Vouched(form, g) == \A f \in Fields : form[f] # Absent => form[f] \in g[f]
AllVouched(rows, g) == \A i \in DOMAIN rows : Vouched(rows[i].form, g)

LEMMA EditableForm ==
  ASSUME NEW node, NEW form \in Form
  PROVE  /\ Editable(node, form) \in Form
         /\ \A g : Vouched(form, g) => Vouched(Editable(node, form), g)
<1>1. \A f \in Fields : Editable(node, form)[f] \in {form[f], Absent}
  BY DEF Editable
<1>2. Editable(node, form) \in Form
  BY DEF Editable, Form, Absent
<1>. QED
  BY <1>1, <1>2 DEF Vouched

LEMMA MergedForm ==
  ASSUME NEW old \in Form, NEW new \in Form
  PROVE  /\ Merge(old, new) \in Form
         /\ \A g : Vouched(old, g) /\ Vouched(new, g) => Vouched(Merge(old, new), g)
BY DEF Merge, Form, Vouched

\* The interceptor keeps types, adds a row to an empty table only, and writes
\* nothing that is not in the instance or in the row.
LEMMA PostHandleRows ==
  ASSUME NEW node \in NodeNames, NEW inst \in Inst, NEW rows \in Seq(BRow)
  PROVE  /\ post_handle(node, inst, rows) \in Seq(BRow)
         /\ rows # <<>> => Len(post_handle(node, inst, rows)) = Len(rows)
         /\ rows = <<>> => Len(post_handle(node, inst, rows)) <= 1
         /\ \A g : Vouched(inst.vars, g) /\ AllVouched(rows, g) => AllVouched(post_handle(node, inst, rows), g)
<1>. DEFINE form == Editable(node, inst.vars)
            code == StateCode(node, inst)
<1>0. inst.vars \in Form /\ form \in Form /\ code \in StateNames
  BY EditableForm DEF Inst, StateCode, StateNames
<1>1. NewCols \in [NodeNames -> StateNames \cup {"null"}]
  BY DEF NewCols
<1>2. ASSUME NEW cols \in [NodeNames -> StateNames \cup {"null"}], NEW f \in Form
      PROVE  /\ Inserted(f, cols) \in BRow
             /\ Append(<<>>, Inserted(f, cols)) \in Seq(BRow)
             /\ Len(Append(<<>>, Inserted(f, cols))) = 1
             /\ DOMAIN Append(<<>>, Inserted(f, cols)) = {1}
             /\ Append(<<>>, Inserted(f, cols))[1].form = f
  <2>1. PICK row : row = Inserted(f, cols)
    OBVIOUS
  <2>2. row \in BRow /\ row.form = f
    BY <2>1 DEF Inserted, BRow
  <2>. QED
    BY <2>1, <2>2
<1>3. CASE setup.mode = "SYNC" /\ rows # <<>>
  <2>. DEFINE new == [i \in DOMAIN rows |-> Updated(rows[i], node, form, code)]
  <2>1. post_handle(node, inst, rows) = new
    BY <1>3 DEF post_handle, HandleSync, Exists
  <2>2. ASSUME NEW row \in BRow
        PROVE  /\ Updated(row, node, form, code) \in BRow
               /\ \A g : Vouched(inst.vars, g) /\ Vouched(row.form, g) =>
                         Vouched(Updated(row, node, form, code).form, g)
    <3>. HIDE DEF code
    <3>1. row.form \in Form /\ row.cols \in [NodeNames -> StateNames \cup {"null"}]
      BY DEF BRow
    <3>2. Merge(row.form, form) \in Form
      BY <1>0, <3>1, MergedForm
    <3>3. [row.cols EXCEPT ![node] = code] \in [NodeNames -> StateNames \cup {"null"}]
      BY <1>0, <3>1
    <3>4. Updated(row, node, form, code) \in BRow
      BY <3>1, <3>2, <3>3 DEF Updated, BRow
    <3>5. Updated(row, node, form, code).form \in {row.form, Merge(row.form, form)}
      BY DEF Updated
    <3>. QED
      BY <1>0, <3>1, <3>4, <3>5, MergedForm, EditableForm
  <2>3. \A i \in DOMAIN rows : rows[i] \in BRow
    OBVIOUS
  <2>4. DOMAIN rows = 1..Len(rows) /\ Len(rows) \in Nat
    OBVIOUS
  <2>5. \A i \in 1..Len(rows) : new[i] \in BRow
    BY <2>2, <2>3, <2>4
  <2>6. new \in Seq(BRow) /\ Len(new) = Len(rows) /\ DOMAIN new = DOMAIN rows
    <3>1. new \in [1..Len(rows) -> BRow]
      BY <2>4, <2>5
    <3>. HIDE DEF new
    <3>. QED
      BY <2>4, <3>1, SeqDef
  <2>. QED
    BY <1>3, <2>1, <2>2, <2>3, <2>6 DEF AllVouched
<1>4. CASE setup.mode = "SYNC" /\ rows = <<>>
  <2>1. [NewCols EXCEPT ![node] = code] \in [NodeNames -> StateNames \cup {"null"}]
    BY <1>0, <1>1
  <2>2. post_handle(node, inst, rows) = Append(<<>>, Inserted(form, [NewCols EXCEPT ![node] = code]))
    BY <1>4 DEF post_handle, HandleSync, Exists
  <2>3. PICK cols, f : cols = [NewCols EXCEPT ![node] = code] /\ f = form
    OBVIOUS
  <2>4. /\ Append(<<>>, Inserted(f, cols)) \in Seq(BRow)
        /\ Len(Append(<<>>, Inserted(f, cols))) = 1
    BY <1>0, <1>2, <2>1, <2>3
  <2>5. \A g : Vouched(f, g) => AllVouched(Append(<<>>, Inserted(f, cols)), g)
    <3>1. PICK s : s = Append(<<>>, Inserted(f, cols))
      OBVIOUS
    <3>2. DOMAIN s = {1} /\ s[1].form = f
      BY <1>0, <1>2, <2>1, <2>3, <3>1
    <3>. QED
      BY <3>1, <3>2 DEF AllVouched
  <2>6. \A g : Vouched(inst.vars, g) => Vouched(f, g)
    BY <1>0, <2>3, EditableForm
  <2>7. PICK s : s = Append(<<>>, Inserted(f, cols))
    OBVIOUS
  <2>8. post_handle(node, inst, rows) = s
    BY <2>2, <2>3, <2>7
  <2>9. s \in Seq(BRow) /\ Len(s) = 1 /\ \A g : Vouched(f, g) => AllVouched(s, g)
    BY <2>4, <2>5, <2>7
  <2>10. \A g : Vouched(inst.vars, g) => AllVouched(post_handle(node, inst, rows), g)
    BY <2>6, <2>8, <2>9
  <2>11. post_handle(node, inst, rows) \in Seq(BRow) /\ Len(post_handle(node, inst, rows)) <= 1
    BY <2>8, <2>9
  <2>. QED
    BY <1>4, <2>10, <2>11
<1>5. CASE setup.mode # "SYNC"
  <2>1. \/ post_handle(node, inst, rows) = rows
        \/ rows = <<>> /\ post_handle(node, inst, rows) = Append(<<>>, Inserted(inst.vars, NewCols))
    <3>1. CASE rows = <<>>
      BY <1>5, <3>1 DEF post_handle, HandleArchive, Exists
    <3>2. CASE rows # <<>>
      BY <1>5, <3>2 DEF post_handle, HandleArchive, Exists
    <3>. QED
      BY <3>1, <3>2
  <2>2. rows = <<>> => Len(rows) = 0
    OBVIOUS
  <2>3. PICK s : s = Append(<<>>, Inserted(inst.vars, NewCols))
    OBVIOUS
  <2>4. s \in Seq(BRow) /\ Len(s) = 1 /\ DOMAIN s = {1} /\ s[1].form = inst.vars
    BY <1>0, <1>1, <1>2, <2>3
  <2>5. \A g : Vouched(inst.vars, g) => AllVouched(s, g)
    BY <2>4 DEF AllVouched
  <2>6. post_handle(node, inst, rows) \in {rows, s}
        /\ (rows # <<>> => post_handle(node, inst, rows) = rows)
    BY <2>1, <2>3
  <2>7. \A g : Vouched(inst.vars, g) /\ AllVouched(rows, g) => AllVouched(post_handle(node, inst, rows), g)
    BY <2>5, <2>6
  <2>8. post_handle(node, inst, rows) \in Seq(BRow)
    BY <2>4, <2>6
  <2>9. rows = <<>> => Len(post_handle(node, inst, rows)) <= 1
    <3>1. rows = <<>> => Len(rows) <= 1
      BY <2>2
    <3>2. Len(s) <= 1
      BY <2>4
    <3>. QED
      BY <2>6, <3>1, <3>2
  <2>10. rows # <<>> => Len(post_handle(node, inst, rows)) = Len(rows)
    BY <2>6
  <2>. QED
    BY <2>7, <2>8, <2>9, <2>10
<1>. QED
  BY <1>3, <1>4, <1>5

LEMMA GrantedMore ==
  ASSUME NEW g \in [Fields -> SUBSET Nat], NEW c
  PROVE  /\ \A form : Vouched(form, g) => Vouched(form, Granted(g, c))
         /\ \A rows : AllVouched(rows, g) => AllVouched(rows, Granted(g, c))
         /\ Vouched(Grants(c), Granted(g, c))
BY DEF Vouched, AllVouched, Granted

\* A task is completed with the part of the form that it lets through.
LEMMA PreparedData ==
  ASSUME NEW c \in Calls, c.kind # "start", NEW inst \in Inst
  PROVE  /\ Prepared(c, inst) \in Inst
         /\ Prepared(c, inst).state = inst.state /\ Prepared(c, inst).passed = inst.passed
         /\ Prepared(c, inst).submitType = c.submitType
         /\ \A g \in [Fields -> SUBSET Nat] :
              Vouched(inst.vars, g) => Vouched(Prepared(c, inst).vars, Granted(g, c))
<1>1. PICK f, new : f = Filtered(c.task, c.form) /\ new = Merge(inst.vars, f)
  OBVIOUS
<1>2. c.form \in Form /\ c.submitType \in SubmitTypes
  BY CallKinds
<1>3. f \in Form /\ f = Grants(c)
  BY <1>1, <1>2, EditableForm DEF Filtered, Grants
<1>4. inst.vars \in Form
  BY DEF Inst
<1>5. new \in Form /\ \A g : Vouched(inst.vars, g) /\ Vouched(f, g) => Vouched(new, g)
  BY <1>1, <1>3, <1>4, MergedForm
<1>6. Prepared(c, inst) = [inst EXCEPT !.vars = new, !.submitType = c.submitType, !.doing = "none"]
  BY <1>1, <1>4 DEF Prepared, Inst
<1>7. /\ Prepared(c, inst) \in Inst /\ Prepared(c, inst).vars = new
      /\ Prepared(c, inst).state = inst.state /\ Prepared(c, inst).passed = inst.passed
      /\ Prepared(c, inst).submitType = c.submitType
  BY <1>2, <1>5, <1>6 DEF Inst
<1>8. ASSUME NEW g \in [Fields -> SUBSET Nat], Vouched(inst.vars, g)
      PROVE  Vouched(Prepared(c, inst).vars, Granted(g, c))
  <2>1. Vouched(inst.vars, Granted(g, c)) /\ Vouched(f, Granted(g, c))
    BY <1>3, <1>8, GrantedMore
  <2>. QED
    BY <1>5, <1>7, <2>1
<1>. QED
  BY <1>7, <1>8

\* What an action makes of the view it works on.
Rows(old, new) ==
  /\ new \in Seq(BRow)
  /\ old # <<>> => Len(new) = Len(old)
  /\ old = <<>> => Len(new) <= 1

LEMMA RowsKept ==
  ASSUME NEW rows \in Seq(BRow)
  PROVE  Rows(rows, rows)
<1>1. rows = <<>> => Len(rows) = 0
  OBVIOUS
<1>. QED
  BY <1>1 DEF Rows

LEMMA RowsTwice ==
  ASSUME NEW a \in Seq(BRow), NEW b, NEW d, Rows(a, b), Rows(b, d)
  PROVE  Rows(a, d)
<1>1. b \in Seq(BRow) /\ d \in Seq(BRow) /\ Len(a) \in Nat /\ Len(b) \in Nat /\ Len(d) \in Nat
  BY DEF Rows
<1>2. (a = <<>> <=> Len(a) = 0) /\ (b = <<>> <=> Len(b) = 0)
  BY <1>1, EmptySeq
<1>. QED
  BY <1>1, <1>2 DEF Rows

LEMMA PostHandleIs ==
  ASSUME NEW node \in NodeNames, NEW inst \in Inst, NEW rows \in Seq(BRow)
  PROVE  /\ Rows(rows, post_handle(node, inst, rows))
         /\ \A g : Vouched(inst.vars, g) /\ AllVouched(rows, g) => AllVouched(post_handle(node, inst, rows), g)
BY PostHandleRows DEF Rows

DataMade(c, w, d) ==
  /\ d.inst \in Inst
  /\ Rows(w.rows, d.rows)
  /\ ~d.ok => d.inst = w.inst /\ d.rows = w.rows
  /\ \A g \in [Fields -> SUBSET Nat] :
       Vouched(w.inst.vars, g) /\ AllVouched(w.rows, g) =>
         Vouched(d.inst.vars, Granted(g, c)) /\ AllVouched(d.rows, Granted(g, c))

LEMMA NoInstanceData ==
  /\ NoInstance \in Inst
  /\ Nothing \in Form /\ \A g : Vouched(Nothing, g)
  /\ \A g : AllVouched(<<>>, g)
<1>1. Nothing \in Form /\ \A g : Vouched(Nothing, g)
  BY DEF Nothing, Form, Vouched, Absent
<1>2. NoInstance \in Inst
  BY <1>1 DEF NoInstance, Inst, StateNames, SubmitTypes
<1>3. \A g : AllVouched(<<>>, g)
  <2>1. DOMAIN <<>> = {}
    OBVIOUS
  <2>. QED
    BY <2>1 DEF AllVouched
<1>. QED
  BY <1>1, <1>2, <1>3

LEMMA StartData ==
  ASSUME NEW c \in Calls \cup StartCalls, c.kind = "start", NEW w, w.rows \in Seq(BRow)
  PROVE  DataMade(c, w, Start(c, w)) /\ Start(c, w).ok = TRUE
<1>1. PICK inst : inst = [NoInstance EXCEPT !.state = "doing", !.doing = "apply", !.vars = c.form]
  OBVIOUS
<1>2. c.form \in Form
  BY CallKinds DEF StartCalls, Form
<1>3. inst \in Inst /\ inst.vars = c.form
  BY <1>1, <1>2, NoInstanceData DEF Inst, StateNames
<1>4. PICK rows, new : /\ rows = w.rows /\ rows \in Seq(BRow)
                       /\ new = IF setup.gate THEN post_handle("gate", inst, rows) ELSE rows
  OBVIOUS
<1>5. /\ Rows(rows, new)
      /\ \A g : Vouched(inst.vars, g) /\ AllVouched(rows, g) => AllVouched(new, g)
  <2>1. "gate" \in NodeNames
    BY Names
  <2>. QED
    BY <1>3, <1>4, <2>1, PostHandleIs, RowsKept
<1>6. Start(c, w) = [ok |-> TRUE, inst |-> inst, rows |-> new]
  BY <1>1, <1>4 DEF Start
<1>7. ASSUME NEW g \in [Fields -> SUBSET Nat], AllVouched(rows, g)
      PROVE  Vouched(inst.vars, Granted(g, c)) /\ AllVouched(new, Granted(g, c))
  <2>1. Vouched(inst.vars, Granted(g, c)) /\ AllVouched(rows, Granted(g, c))
    BY <1>3, <1>7, GrantedMore DEF Grants
  <2>. QED
    BY <1>5, <2>1
<1>. QED
  BY <1>3, <1>4, <1>5, <1>6, <1>7 DEF DataMade

LEMMA RefusedData ==
  ASSUME NEW c, NEW w, w.inst \in Inst, w.rows \in Seq(BRow)
  PROVE  DataMade(c, w, Refused(w)) /\ Refused(w).ok = FALSE
BY RowsKept, GrantedMore DEF DataMade, Refused

\* A task that is submitted, through both calls of the interceptor.
LEMMA SubmitData ==
  ASSUME NEW c \in Calls, c.kind # "start", NEW w, w.inst \in Inst, w.rows \in Seq(BRow)
  PROVE  DataMade(c, w, Submit(c, w)) /\ Submit(c, w).ok = Loads(c, w)
<1>1. CASE ~Loads(c, w)
  <2>1. Submit(c, w) = Refused(w)
    BY <1>1 DEF Submit
  <2>. QED
    BY <1>1, <2>1, RefusedData DEF Loads
<1>2. CASE Loads(c, w)
  <2>1. PICK prep, inst, passed, final, ended :
          /\ prep = Prepared(c, w.inst)
          /\ inst = [prep EXCEPT !.passed = @ \cup {c.task}]
          /\ passed = post_handle(c.task, inst, w.rows)
          /\ final = [inst EXCEPT !.state = IF c.submitType = "reject" THEN "rejected" ELSE "done"]
          /\ ended = post_handle("end", final, passed)
    OBVIOUS
  <2>2. c.task \in {"apply", "check"} /\ c.task \in NodeNames /\ "end" \in NodeNames
    BY CallKinds, Names
  <2>3. prep \in Inst
    BY <2>1, PreparedData
  <2>4. inst \in Inst /\ inst.vars = prep.vars
    BY <2>1, <2>2, <2>3 DEF Inst
  <2>5. final \in Inst /\ final.vars = prep.vars
    BY <2>1, <2>4, ZenonT(30) DEF Inst, StateNames
  <2>6. /\ Rows(w.rows, passed)
        /\ \A g : Vouched(prep.vars, g) /\ AllVouched(w.rows, g) => AllVouched(passed, g)
    BY <2>1, <2>2, <2>4, PostHandleIs
  <2>7. /\ Rows(passed, ended)
        /\ \A g : Vouched(prep.vars, g) /\ AllVouched(passed, g) => AllVouched(ended, g)
    <3>1. passed \in Seq(BRow)
      BY <2>6 DEF Rows
    <3>. QED
      BY <2>1, <2>2, <2>5, <3>1, PostHandleIs
  <2>8. Rows(w.rows, ended)
    <3>1. passed \in Seq(BRow)
      BY <2>6 DEF Rows
    <3>. QED
      BY <2>6, <2>7, <3>1, RowsTwice
  <2>9. ASSUME NEW g \in [Fields -> SUBSET Nat], Vouched(w.inst.vars, g), AllVouched(w.rows, g)
        PROVE  /\ Vouched(prep.vars, Granted(g, c))
               /\ AllVouched(passed, Granted(g, c)) /\ AllVouched(ended, Granted(g, c))
    <3>1. Vouched(prep.vars, Granted(g, c)) /\ AllVouched(w.rows, Granted(g, c))
      BY <2>1, <2>9, PreparedData, GrantedMore
    <3>2. AllVouched(passed, Granted(g, c))
      BY <2>6, <3>1
    <3>3. AllVouched(ended, Granted(g, c))
      BY <2>7, <3>1, <3>2
    <3>. QED
      BY <3>1, <3>2, <3>3
  <2>10. CASE c.task = "apply"
    <3>1. PICK to : to = [inst EXCEPT !.doing = "check"]
      OBVIOUS
    <3>2. to \in Inst /\ to.vars = prep.vars
      BY <2>4, <3>1 DEF Inst
    <3>3. Submit(c, w) = [ok |-> TRUE, inst |-> to, rows |-> passed]
      BY <1>2, <2>1, <2>10, <3>1 DEF Submit
    <3>. QED
      BY <1>2, <2>6, <2>9, <3>2, <3>3 DEF DataMade
  <2>11. CASE c.task # "apply"
    <3>1. Submit(c, w) = [ok |-> TRUE, inst |-> final, rows |-> ended]
      BY <1>2, <2>1, <2>11 DEF Submit
    <3>. QED
      BY <1>2, <2>5, <2>8, <2>9, <3>1 DEF DataMade
  <2>. QED
    BY <2>10, <2>11
<1>. QED
  BY <1>1, <1>2

\* A task that is given up: rejected through the facade, or sent back.
LEMMA GivenUpData ==
  ASSUME NEW c \in Calls, c.kind # "start", NEW w, w.inst \in Inst, w.rows \in Seq(BRow)
  PROVE  /\ DataMade(c, w, Reject(c, w)) /\ Reject(c, w).ok = Loads(c, w)
         /\ DataMade(c, w, ReturnToFirst(c, w)) /\ ReturnToFirst(c, w).ok = Loads(c, w)
<1>1. CASE ~Loads(c, w)
  <2>1. Reject(c, w) = Refused(w) /\ ReturnToFirst(c, w) = Refused(w)
    BY <1>1 DEF Reject, ReturnToFirst
  <2>. QED
    BY <1>1, <2>1, RefusedData DEF Loads
<1>2. CASE Loads(c, w)
  <2>1. PICK prep, rejected, returned :
          /\ prep = Prepared(c, w.inst)
          /\ rejected = [prep EXCEPT !.state = "rejected"]
          /\ returned = [prep EXCEPT !.doing = "apply"]
    OBVIOUS
  <2>2. prep \in Inst
    BY <2>1, PreparedData
  <2>3. /\ rejected \in Inst /\ rejected.vars = prep.vars
        /\ returned \in Inst /\ returned.vars = prep.vars
    BY <2>1, <2>2 DEF Inst, StateNames
  <2>4. ASSUME NEW g \in [Fields -> SUBSET Nat], Vouched(w.inst.vars, g), AllVouched(w.rows, g)
        PROVE  Vouched(prep.vars, Granted(g, c)) /\ AllVouched(w.rows, Granted(g, c))
    BY <2>1, <2>4, PreparedData, GrantedMore
  <2>5. /\ Reject(c, w) = [ok |-> TRUE, inst |-> rejected, rows |-> w.rows]
        /\ ReturnToFirst(c, w) = [ok |-> TRUE, inst |-> returned, rows |-> w.rows]
    BY <1>2, <2>1 DEF Reject, ReturnToFirst
  <2>. QED
    BY <1>2, <2>3, <2>4, <2>5, RowsKept DEF DataMade
<1>. QED
  BY <1>1, <1>2

LEMMA DoData ==
  ASSUME NEW c \in Calls, NEW w, w.inst \in Inst, w.rows \in Seq(BRow)
  PROVE  /\ DataMade(c, w, Do(c, w))
         /\ Do(c, w).ok = IF c.kind = "start" THEN TRUE ELSE Loads(c, w)
<1>1. CASE c.kind = "start"
  BY <1>1, StartData DEF Do
<1>2. CASE c.kind = "submit"
  BY <1>2, SubmitData DEF Do
<1>3. CASE c.kind = "reject"
  BY <1>3, GivenUpData DEF Do
<1>4. CASE c.kind = "return"
  BY <1>4, GivenUpData DEF Do
<1>. QED
  BY <1>1, <1>2, <1>3, <1>4, CallKinds

(***************************************************************************)
(* Every value that is stored, or on its way, was sent where it may be     *)
(* edited: the committed instance and rows, and what each transaction sees. *)
(***************************************************************************)
SetupType == [mode : {"SYNC", "ARCHIVE"}, wired : BOOLEAN, gate : BOOLEAN]

DataType ==
  /\ setup \in SetupType
  /\ db \in [inst : Inst, rows : Seq(BRow)]
  /\ mine \in [Requests -> View]
  /\ granted \in [Fields -> SUBSET Nat]

DataVouched ==
  /\ Vouched(db.inst.vars, granted) /\ AllVouched(db.rows, granted)
  /\ \A r \in Requests : Vouched(mine[r].inst.vars, granted) /\ AllVouched(mine[r].rows, granted)

DataInv == DataType /\ DataVouched

LEMMA NoViewData ==
  /\ NoView \in View
  /\ \A g : Vouched(NoView.inst.vars, g) /\ AllVouched(NoView.rows, g)
<1>1. <<>> \in Seq(BRow)
  OBVIOUS
<1>2. NoView.inst.vars = Nothing
  BY DEF NoView, NoInstance
<1>. QED
  BY <1>1, <1>2, NoInstanceData DEF NoView, View

LEMMA DataInit ==
  ASSUME Init
  PROVE  DataInv
<1>1. setup \in SetupType /\ mine \in [Requests -> View]
  BY NoViewData, PersistAssumption DEF Init, SetupType
<1>2. \A r \in Requests : Vouched(mine[r].inst.vars, granted) /\ AllVouched(mine[r].rows, granted)
  BY NoViewData DEF Init
<1>3. NothingGranted \in [Fields -> SUBSET Nat]
  BY DEF NothingGranted
<1>4. CASE db = NoWork /\ granted = NothingGranted
  <2>1. <<>> \in Seq(BRow)
    OBVIOUS
  <2>2. db.inst = NoInstance /\ db.rows = <<>> /\ db \in [inst : Inst, rows : Seq(BRow)]
    BY <1>4, <2>1, NoInstanceData DEF NoWork
  <2>3. Vouched(db.inst.vars, granted) /\ AllVouched(db.rows, granted)
    BY <2>2, NoInstanceData DEF NoInstance
  <2>. QED
    BY <1>1, <1>2, <1>3, <1>4, <2>2, <2>3 DEF DataInv, DataType, DataVouched
<1>5. CASE /\ db = [inst |-> Start(InitialCall, NoWork).inst, rows |-> Start(InitialCall, NoWork).rows]
           /\ granted = Granted(NothingGranted, InitialCall)
  <2>1. PICK c, d : c = InitialCall /\ d = Start(InitialCall, NoWork)
    OBVIOUS
  <2>2. c \in StartCalls /\ c.kind = "start" /\ c.form \in Form
    BY <2>1, PersistAssumption DEF StartCalls, Form
  <2>3. NoWork.rows = <<>> /\ NoWork.inst = NoInstance /\ NoWork.rows \in Seq(BRow)
    BY DEF NoWork
  <2>4. DataMade(c, NoWork, d)
    BY <2>1, <2>2, <2>3, StartData
  <2>5. d.inst \in Inst /\ d.rows \in Seq(BRow)
    BY <2>3, <2>4 DEF DataMade, Rows
  <2>6. Vouched(d.inst.vars, granted) /\ AllVouched(d.rows, granted)
    <3>1. Vouched(NoWork.inst.vars, NothingGranted) /\ AllVouched(NoWork.rows, NothingGranted)
      BY <2>3, NoInstanceData DEF NoInstance
    <3>. QED
      BY <1>3, <1>5, <2>1, <2>4, <3>1 DEF DataMade
  <2>7. granted \in [Fields -> SUBSET Nat]
    <3>1. Grants(c) \in Form
      BY <2>2 DEF Grants
    <3>. QED
      BY <1>3, <1>5, <2>1, <3>1 DEF Granted, Form
  <2>. QED
    BY <1>1, <1>2, <1>5, <2>1, <2>5, <2>6, <2>7 DEF DataInv, DataType, DataVouched
<1>. QED
  BY <1>4, <1>5 DEF Init

\* What r sees when it acts.
ViewOf(r) == IF setup.wired THEN mine[r] ELSE [mine[r] EXCEPT !.rows = db.rows]

LEMMA ViewData ==
  ASSUME DataInv, NEW r \in Requests
  PROVE  /\ ViewOf(r) \in View
         /\ ViewOf(r).inst = mine[r].inst
         /\ ViewOf(r).rows = IF setup.wired THEN mine[r].rows ELSE db.rows
         /\ Vouched(ViewOf(r).inst.vars, granted) /\ AllVouched(ViewOf(r).rows, granted)
<1>1. mine[r] \in View /\ db.rows \in Seq(BRow)
  BY DEF DataInv, DataType
<1>2. /\ ViewOf(r) \in View /\ ViewOf(r).inst = mine[r].inst
      /\ ViewOf(r).rows = IF setup.wired THEN mine[r].rows ELSE db.rows
  BY <1>1 DEF ViewOf, View
<1>. QED
  BY <1>2 DEF DataInv, DataVouched

\* The action, in terms of what it makes of the view.
LEMMA ActIs ==
  ASSUME NEW r \in Requests, Act(r), ScopeInv, DataInv
  PROVE  \E c, w, d :
           /\ c \in Calls /\ w \in View
           /\ c = req[r].call /\ w = ViewOf(r) /\ d = Do(c, w) /\ DataMade(c, w, d)
           /\ d.ok = IF c.kind = "start" THEN TRUE ELSE Loads(c, w)
           /\ mine' = [mine EXCEPT ![r] = [inst |-> d.inst, rows |-> d.rows, inserts |-> w.rows = <<>>]]
           /\ db' = IF setup.wired THEN db ELSE [db EXCEPT !.rows = d.rows]
           /\ granted' = IF d.ok THEN Granted(granted, c) ELSE granted
           /\ setup' = setup
<1>1. PICK c, w, d : c = req[r].call /\ w = ViewOf(r) /\ d = Do(c, w)
  OBVIOUS
<1>2. c \in Calls
  BY <1>1 DEF Act, ScopeInv, Scoped, Placed
<1>3. w \in View /\ w.inst \in Inst /\ w.rows \in Seq(BRow)
  BY <1>1, ViewData DEF View
<1>4. DataMade(c, w, d) /\ d.ok = IF c.kind = "start" THEN TRUE ELSE Loads(c, w)
  BY <1>1, <1>2, <1>3, DoData
<1>5. /\ mine' = [mine EXCEPT ![r] = [inst |-> d.inst, rows |-> d.rows, inserts |-> w.rows = <<>>]]
      /\ db' = IF setup.wired THEN db ELSE [db EXCEPT !.rows = d.rows]
      /\ granted' = IF d.ok THEN Granted(granted, c) ELSE granted
      /\ setup' = setup
  BY <1>1 DEF Act, ViewOf
<1>. QED
  BY <1>1, <1>2, <1>3, <1>4, <1>5

LEMMA ActData ==
  ASSUME ScopeInv, DataInv, NEW r \in Requests, Act(r)
  PROVE  DataInv'
<1>1. PICK c, w, d :
        /\ c \in Calls /\ w \in View
        /\ w = ViewOf(r) /\ DataMade(c, w, d)
        /\ mine' = [mine EXCEPT ![r] = [inst |-> d.inst, rows |-> d.rows, inserts |-> w.rows = <<>>]]
        /\ db' = IF setup.wired THEN db ELSE [db EXCEPT !.rows = d.rows]
        /\ granted' = IF d.ok THEN Granted(granted, c) ELSE granted
        /\ setup' = setup
  BY ActIs
<1>2. PICK v : v = [inst |-> d.inst, rows |-> d.rows, inserts |-> w.rows = <<>>]
  OBVIOUS
<1>3. v.inst = d.inst /\ v.rows = d.rows /\ v \in View
  <2>1. (w.rows = <<>>) \in BOOLEAN
    OBVIOUS
  <2>2. PICK b \in BOOLEAN : b = (w.rows = <<>>)
    BY <2>1
  <2>3. v = [inst |-> d.inst, rows |-> d.rows, inserts |-> b]
    BY <1>2, <2>2
  <2>4. d.inst \in Inst /\ d.rows \in Seq(BRow)
    BY <1>1 DEF DataMade, Rows
  <2>. QED
    BY <2>3, <2>4 DEF View
<1>4. mine' = [mine EXCEPT ![r] = v]
  BY <1>1, <1>2
<1>5. granted \in [Fields -> SUBSET Nat] /\ granted' \in [Fields -> SUBSET Nat]
  <2>1. Grants(c) \in Form
    BY <1>1, CallKinds, EditableForm DEF Grants
  <2>. QED
    BY <1>1, <2>1 DEF Granted, Form, DataInv, DataType
<1>6. DataType'
  <2>1. mine' \in [Requests -> View]
    BY <1>3, <1>4 DEF DataInv, DataType
  <2>2. db' \in [inst : Inst, rows : Seq(BRow)]
    <3>1. d.rows \in Seq(BRow) /\ db \in [inst : Inst, rows : Seq(BRow)]
      BY <1>1 DEF DataMade, Rows, DataInv, DataType
    <3>2. db' = db \/ db' = [db EXCEPT !.rows = d.rows]
      BY <1>1
    <3>. QED
      BY <3>1, <3>2
  <2>3. setup' \in SetupType
    BY <1>1 DEF DataInv, DataType
  <2>. QED
    BY <1>5, <2>1, <2>2, <2>3 DEF DataType
<1>7. /\ \A f : Vouched(f, granted) => Vouched(f, granted')
      /\ \A rows : AllVouched(rows, granted) => AllVouched(rows, granted')
  BY <1>1, <1>5, GrantedMore
<1>8. Vouched(d.inst.vars, granted') /\ AllVouched(d.rows, granted')
  <2>1. Vouched(w.inst.vars, granted) /\ AllVouched(w.rows, granted)
    BY <1>1, ViewData
  <2>2. CASE d.ok
    BY <1>1, <1>5, <2>1, <2>2 DEF DataMade
  <2>3. CASE ~d.ok
    BY <1>1, <1>7, <2>1, <2>3 DEF DataMade
  <2>. QED
    BY <2>2, <2>3
<1>9. \A q \in Requests : Vouched(mine'[q].inst.vars, granted') /\ AllVouched(mine'[q].rows, granted')
  <2>1. \A q \in Requests : mine'[q] = IF q = r THEN v ELSE mine[q]
    BY <1>4 DEF DataInv, DataType
  <2>. QED
    BY <1>3, <1>7, <1>8, <2>1 DEF DataInv, DataVouched
<1>10. Vouched(db'.inst.vars, granted') /\ AllVouched(db'.rows, granted')
  <2>1. db'.inst = db.inst /\ db'.rows \in {db.rows, d.rows}
    BY <1>1 DEF DataInv, DataType
  <2>. QED
    BY <1>7, <1>8, <2>1 DEF DataInv, DataVouched
<1>. QED
  BY <1>6, <1>9, <1>10 DEF DataInv, DataVouched

\* The rows of two transactions, one after the other.
LEMMA RowsJoined ==
  ASSUME NEW a \in Seq(BRow), NEW b \in Seq(BRow)
  PROVE  /\ a \o b \in Seq(BRow)
         /\ \A g : AllVouched(a, g) /\ AllVouched(b, g) => AllVouched(a \o b, g)
<1>1. /\ a \o b \in Seq(BRow) /\ Len(a \o b) = Len(a) + Len(b)
      /\ \A i \in 1..(Len(a) + Len(b)) : (a \o b)[i] = IF i <= Len(a) THEN a[i] ELSE b[i - Len(a)]
  BY ConcatProperties
<1>2. Len(a) \in Nat /\ Len(b) \in Nat /\ DOMAIN a = 1..Len(a) /\ DOMAIN b = 1..Len(b)
      /\ DOMAIN (a \o b) = 1..(Len(a) + Len(b))
  BY <1>1
<1>3. PICK m \in Nat, n \in Nat, s \in Seq(BRow) : s = a \o b /\ m = Len(a) /\ n = Len(b)
  BY <1>1, <1>2
<1>4. \A i \in 1..(m + n) : (i \in 1..m /\ s[i] = a[i]) \/ (i - m \in 1..n /\ s[i] = b[i - m])
  BY <1>1, <1>3
<1>5. ASSUME NEW g, AllVouched(a, g), AllVouched(b, g)
      PROVE  AllVouched(s, g)
  <2>1. \A i \in 1..m : Vouched(a[i].form, g)
    BY <1>2, <1>3, <1>5 DEF AllVouched
  <2>2. \A i \in 1..n : Vouched(b[i].form, g)
    BY <1>2, <1>3, <1>5 DEF AllVouched
  <2>3. DOMAIN s = 1..(m + n)
    BY <1>2, <1>3
  <2>. QED
    BY <1>4, <2>1, <2>2, <2>3 DEF AllVouched
<1>. QED
  BY <1>1, <1>3, <1>5

LEMMA CommittedData ==
  ASSUME DataInv, NEW r \in Requests
  PROVE  /\ Committed(r) \in [inst : Inst, rows : Seq(BRow)]
         /\ Vouched(Committed(r).inst.vars, granted) /\ AllVouched(Committed(r).rows, granted)
<1>1. mine[r].inst \in Inst /\ mine[r].rows \in Seq(BRow) /\ db.rows \in Seq(BRow)
  BY DEF DataInv, DataType, View
<1>2. /\ db.rows \o mine[r].rows \in Seq(BRow)
      /\ AllVouched(db.rows \o mine[r].rows, granted)
  BY <1>1, RowsJoined DEF DataInv, DataVouched
<1>3. PICK s : s = db.rows \o mine[r].rows
  OBVIOUS
<1>4. /\ Committed(r).inst = mine[r].inst
      /\ Committed(r).rows \in {db.rows, s, mine[r].rows}
      /\ Committed(r) = [inst |-> Committed(r).inst, rows |-> Committed(r).rows]
  BY <1>3 DEF Committed
<1>5. Committed(r).rows \in Seq(BRow)
  BY <1>1, <1>2, <1>3, <1>4
<1>6. AllVouched(Committed(r).rows, granted)
  BY <1>2, <1>3, <1>4 DEF DataInv, DataVouched
<1>. QED
  BY <1>1, <1>4, <1>5, <1>6 DEF DataInv, DataVouched

LEMMA DataStep ==
  ASSUME ScopeInv, DataInv, [Next]_vars
  PROVE  DataInv'
<1>1. ASSUME UNCHANGED <<setup, db, mine, granted>>
      PROVE  DataInv'
  BY <1>1 DEF DataInv, DataType, DataVouched
<1>2. ASSUME NEW r \in Requests, NEW v \in View, mine' = [mine EXCEPT ![r] = v],
             Vouched(v.inst.vars, granted), AllVouched(v.rows, granted),
             db' \in {db, Committed(r)}, UNCHANGED <<setup, granted>>
      PROVE  DataInv'
  <2>1. db' \in [inst : Inst, rows : Seq(BRow)]
        /\ Vouched(db'.inst.vars, granted) /\ AllVouched(db'.rows, granted)
    BY <1>2, CommittedData DEF DataInv, DataType, DataVouched
  <2>2. \A q \in Requests : mine'[q] = IF q = r THEN v ELSE mine[q]
    BY <1>2 DEF DataInv, DataType
  <2>3. mine' \in [Requests -> View]
    BY <1>2 DEF DataInv, DataType
  <2>4. \A q \in Requests : Vouched(mine'[q].inst.vars, granted) /\ AllVouched(mine'[q].rows, granted)
    BY <1>2, <2>2 DEF DataInv, DataVouched
  <2>. QED
    BY <1>2, <2>1, <2>3, <2>4 DEF DataInv, DataType, DataVouched
<1>3. ASSUME NEW r \in Requests, OpenTx(r)
      PROVE  DataInv'
  <2>1. PICK v : v = [inst |-> db.inst, rows |-> db.rows, inserts |-> FALSE]
    OBVIOUS
  <2>2. v \in View /\ v.inst = db.inst /\ v.rows = db.rows
    BY <2>1 DEF View, DataInv, DataType
  <2>. QED
    BY <1>2, <1>3, <2>1, <2>2 DEF OpenTx, DataInv, DataVouched
<1>4. ASSUME NEW r \in Requests, CommitTx(r) \/ CommitTxFails(r) \/ RollbackTx(r)
      PROVE  DataInv'
  <2>1. /\ mine' = [mine EXCEPT ![r] = NoView] /\ db' \in {db, Committed(r)}
        /\ UNCHANGED <<setup, granted>>
    BY <1>4 DEF CommitTx, CommitTxFails, RollbackTx, Forget
  <2>. QED
    BY <1>2, <2>1, NoViewData
<1>5. ASSUME NEW r \in Requests, Receive(r) \/ Goes(r)
      PROVE  DataInv'
  BY <1>1, <1>3, <1>4, <1>5, ActData DEF Receive, Goes
<1>. QED
  BY <1>1, <1>5 DEF Next, vars

(***************************************************************************)
(* A value sent only where the task's declaration closes the field is in   *)
(* no business row (_filter_field_by_perm before the instance is touched,  *)
(* _is_editable before a row is written), however requests overlap and     *)
(* whether or not the writer is wired to the transaction.                  *)
(***************************************************************************)
THEOREM RefusedValuesStayOut == Spec => []RefusedNeverStored
<1>1. Init => DataInv
  BY DataInit
<1>2. ScopeInv /\ DataInv /\ [Next]_vars => DataInv'
  BY DataStep
<1>3. DataInv => RefusedNeverStored
  BY DEF DataInv, DataVouched, AllVouched, Vouched, RefusedNeverStored
<1>. QED
  BY <1>1, <1>2, <1>3, ScopeAlways, PTL DEF Spec

(***************************************************************************)
(* The row tells where the instance is.                                    *)
(***************************************************************************)
\* The row, if there is one, says where the instance is.
Col(rows, n) == IF rows = <<>> THEN "null" ELSE Head(rows).cols[n]

Tells(inst, rows) ==
  IF setup.mode = "SYNC"
  THEN /\ \A t \in {"apply", "check"} : Col(rows, t) = "doing" <=> t \in inst.passed
       /\ inst.state = "done" => Col(rows, "end") = "done"
       /\ inst.state = "doing" => Col(rows, "end") = "null"
       /\ Col(rows, "end") \in {"null", inst.state}
       /\ inst.state = "none" => rows = <<>>
  ELSE rows # <<>> <=> inst.state = "done" /\ inst.submitType = "agree"


\* In SYNC mode the interceptor writes one column.
LEMMA SyncCol ==
  ASSUME setup.mode = "SYNC", NEW node \in NodeNames, NEW inst \in Inst, NEW rows \in Seq(BRow)
  PROVE  /\ post_handle(node, inst, rows) # <<>>
         /\ \A n \in NodeNames : Col(post_handle(node, inst, rows), n) =
                                  IF n = node THEN StateCode(node, inst) ELSE Col(rows, n)
<1>1. PICK form, code, p : form = Editable(node, inst.vars) /\ code = StateCode(node, inst)
                           /\ p = post_handle(node, inst, rows)
  OBVIOUS
<1>2. CASE rows = <<>>
  <2>1. PICK cols, row : cols = [NewCols EXCEPT ![node] = code] /\ row = Inserted(form, cols)
    OBVIOUS
  <2>2. p = Append(<<>>, row)
    BY <1>1, <1>2, <2>1 DEF post_handle, HandleSync, Exists
  <2>3. p # <<>> /\ Head(p) = row
    BY <2>2
  <2>4. row.cols = cols
    BY <2>1 DEF Inserted
  <2>5. \A n \in NodeNames : cols[n] = IF n = node THEN code ELSE "null"
    BY <2>1 DEF NewCols
  <2>6. \A n \in NodeNames : Col(p, n) = IF n = node THEN code ELSE Col(rows, n)
    BY <1>2, <2>3, <2>4, <2>5 DEF Col
  <2>. QED
    BY <1>1, <2>3, <2>6
<1>3. CASE rows # <<>>
  <2>1. p = [i \in DOMAIN rows |-> Updated(rows[i], node, form, code)]
    BY <1>1, <1>3 DEF post_handle, HandleSync, Exists
  <2>2. 1 \in DOMAIN rows /\ rows[1] \in BRow /\ Head(rows) = rows[1]
    <3>1. Len(rows) \in Nat \ {0} /\ DOMAIN rows = 1..Len(rows)
      BY <1>3
    <3>. QED
      BY <1>3, <3>1
  <2>3. p \in Seq(BRow) /\ p # <<>>
    <3>1. p \in Seq(BRow) /\ Len(p) = Len(rows)
      BY <1>1, <1>3, PostHandleRows
    <3>2. Len(rows) # 0
      BY <1>3
    <3>. QED
      BY <3>1, <3>2
  <2>4. Head(p) = Updated(rows[1], node, form, code)
    BY <2>1, <2>2, <2>3
  <2>5. Head(p).cols = [rows[1].cols EXCEPT ![node] = code]
    BY <2>4 DEF Updated
  <2>6. \A n \in NodeNames : Head(p).cols[n] = IF n = node THEN code ELSE rows[1].cols[n]
    BY <2>2, <2>5 DEF BRow
  <2>7. \A n \in NodeNames : Col(p, n) = IF n = node THEN code ELSE Col(rows, n)
    BY <1>3, <2>2, <2>3, <2>6 DEF Col
  <2>. QED
    BY <1>1, <2>3, <2>7
<1>. QED
  BY <1>2, <1>3

\* In ARCHIVE mode it adds the row when the instance is done and the last step agreed.
LEMMA ArchiveRow ==
  ASSUME setup.mode # "SYNC", NEW node, NEW inst, NEW rows \in Seq(BRow)
  PROVE  /\ node # "end" => post_handle(node, inst, rows) = rows
         /\ node = "end" => (post_handle(node, inst, rows) # <<>> <=>
                               rows # <<>> \/ (inst.state = "done" /\ inst.submitType = "agree"))
<1>1. PICK p : p = post_handle(node, inst, rows)
  OBVIOUS
<1>2. p = HandleArchive(node, inst, rows)
  BY <1>1 DEF post_handle
<1>3. ASSUME rows = <<>>, NEW row
      PROVE  Append(rows, row) # <<>>
  BY <1>3
<1>. QED
  BY <1>1, <1>2, <1>3 DEF HandleArchive, Exists

LEMMA TellsStart ==
  ASSUME NEW c \in Calls \cup StartCalls, c.kind = "start", NEW w, w.rows = <<>>
  PROVE  Tells(Start(c, w).inst, Start(c, w).rows)
<1>1. PICK inst, rows, new :
        /\ inst = [NoInstance EXCEPT !.state = "doing", !.doing = "apply", !.vars = c.form]
        /\ rows = w.rows
        /\ new = IF setup.gate THEN post_handle("gate", inst, rows) ELSE rows
  OBVIOUS
<1>2. c.form \in Form
  BY CallKinds DEF StartCalls, Form
<1>3. inst \in Inst /\ inst.passed = {} /\ inst.state = "doing"
  <2>1. NoInstance.passed = {}
    BY DEF NoInstance
  <2>. QED
    BY <1>1, <1>2, <2>1, NoInstanceData DEF Inst, StateNames
<1>4. Start(c, w).inst = inst /\ Start(c, w).rows = new
  BY <1>1 DEF Start
<1>5. rows \in Seq(BRow) /\ "gate" \in NodeNames
  BY <1>1, Names
<1>a. rows = <<>> /\ (new = post_handle("gate", inst, rows) \/ new = rows)
  BY <1>1
<1>6. CASE setup.mode = "SYNC"
  <2>1. \A n \in {"apply", "check", "end"} : Col(new, n) = "null"
    <3>1. \A n : Col(rows, n) = "null"
      BY <1>a DEF Col
    <3>2. \A n \in {"apply", "check", "end"} : Col(post_handle("gate", inst, rows), n) = Col(rows, n)
      <4>1. {"apply", "check", "end"} \subseteq NodeNames
        BY Names
      <4>. QED
        BY <1>3, <1>5, <1>6, <4>1, SyncCol
    <3>. QED
      BY <1>a, <3>1, <3>2
  <2>. QED
    BY <1>3, <1>4, <1>6, <2>1 DEF Tells
<1>7. CASE setup.mode # "SYNC"
  <2>1. new = <<>>
    <3>1. post_handle("gate", inst, rows) = rows
      BY <1>5, <1>7, ArchiveRow
    <3>. QED
      BY <1>a, <3>1
  <2>. QED
    BY <1>3, <1>4, <1>7, <2>1 DEF Tells
<1>. QED
  BY <1>6, <1>7

LEMMA TellsSubmit ==
  ASSUME NEW c \in Calls, c.kind # "start", NEW w, w.inst \in Inst, w.rows \in Seq(BRow),
         Tells(w.inst, w.rows)
  PROVE  Tells(Submit(c, w).inst, Submit(c, w).rows)
<1>1. CASE ~Loads(c, w)
  BY <1>1 DEF Submit, Refused
<1>2. CASE Loads(c, w)
  <2>1. PICK task, prep, inst, passed, final, ended :
          /\ task = c.task
          /\ prep = Prepared(c, w.inst)
          /\ inst = [prep EXCEPT !.passed = @ \cup {c.task}]
          /\ passed = post_handle(c.task, inst, w.rows)
          /\ final = [inst EXCEPT !.state = IF c.submitType = "reject" THEN "rejected" ELSE "done"]
          /\ ended = post_handle("end", final, passed)
    OBVIOUS
  <2>2. task \in {"apply", "check"} /\ task \in NodeNames /\ "end" \in NodeNames
    BY <2>1, CallKinds, Names
  <2>3. /\ prep \in Inst /\ prep.state = "doing" /\ prep.passed = w.inst.passed
        /\ prep.submitType = c.submitType
    BY <1>2, <2>1, PreparedData DEF Loads
  <2>4. /\ inst \in Inst /\ inst.state = "doing" /\ inst.passed = w.inst.passed \cup {task}
        /\ inst.submitType = c.submitType
    BY <2>1, <2>2, <2>3 DEF Inst
  <2>5. /\ final \in Inst /\ final.passed = w.inst.passed \cup {task} /\ final.submitType = c.submitType
        /\ final.state = IF c.submitType = "reject" THEN "rejected" ELSE "done"
    BY <2>1, <2>4 DEF Inst, StateNames
  <2>6. passed \in Seq(BRow)
    BY <2>1, <2>2, <2>4, PostHandleRows
  <2>7. w.inst.state = "doing" /\ w.rows \in Seq(BRow)
    BY <1>2 DEF Loads
  <2>8. CASE setup.mode = "SYNC"
    <3>1. passed # <<>> /\ \A n \in NodeNames : Col(passed, n) = IF n = task THEN "doing" ELSE Col(w.rows, n)
      <4>1. StateCode(task, inst) = "doing"
        BY <2>2, Names DEF StateCode
      <4>2. passed = post_handle(task, inst, w.rows)
        BY <2>1
      <4>. QED
        BY <2>2, <2>4, <2>7, <2>8, <4>1, <4>2, SyncCol
    <3>2. ended # <<>> /\ \A n \in NodeNames : Col(ended, n) = IF n = "end" THEN final.state ELSE Col(passed, n)
      <4>1. StateCode("end", final) = final.state
        BY Names DEF StateCode
      <4>2. ended = post_handle("end", final, passed)
        BY <2>1
      <4>. QED
        BY <2>2, <2>5, <2>6, <2>8, <4>1, <4>2, SyncCol
    <3>3. /\ \A t \in {"apply", "check"} : Col(w.rows, t) = "doing" <=> t \in w.inst.passed
          /\ Col(w.rows, "end") = "null"
      BY <2>7, <2>8 DEF Tells
    <3>4. \A t \in {"apply", "check"} : Col(passed, t) = "doing" <=> t \in inst.passed
      BY <2>4, <3>1, <3>3, Names
    <3>5. Col(passed, "end") = "null"
      BY <2>2, <3>1, <3>3
    <3>6. \A t \in {"apply", "check"} : Col(ended, t) = "doing" <=> t \in final.passed
      BY <2>4, <2>5, <3>2, <3>4, Names
    <3>7. Col(ended, "end") = final.state
      BY <2>2, <3>2
    <3>8. CASE c.task = "apply"
      <4>1. PICK to : to = [inst EXCEPT !.doing = "check"]
        OBVIOUS
      <4>2. to.state = "doing" /\ to.passed = inst.passed
        BY <2>4, <4>1 DEF Inst
      <4>3. Submit(c, w).inst = to /\ Submit(c, w).rows = passed
        BY <1>2, <2>1, <3>8, <4>1 DEF Submit
      <4>. QED
        BY <2>8, <3>4, <3>5, <4>2, <4>3 DEF Tells
    <3>9. CASE c.task # "apply"
      <4>1. Submit(c, w).inst = final /\ Submit(c, w).rows = ended
        BY <1>2, <2>1, <3>9 DEF Submit
      <4>2. final.state \in {"done", "rejected"}
        BY <2>5
      <4>. QED
        BY <2>8, <3>6, <3>7, <4>1, <4>2 DEF Tells
    <3>. QED
      BY <3>8, <3>9
  <2>9. CASE setup.mode # "SYNC"
    <3>1. w.rows = <<>>
      BY <2>7, <2>9 DEF Tells
    <3>2. passed = <<>>
      <4>1. passed = post_handle(task, inst, w.rows) /\ task # "end"
        BY <2>1, <2>2
      <4>2. post_handle(task, inst, w.rows) = w.rows
        BY <2>7, <2>9, <4>1, ArchiveRow
      <4>. QED
        BY <3>1, <4>1, <4>2
    <3>3. ended # <<>> <=> final.state = "done" /\ final.submitType = "agree"
      <4>1. ended = post_handle("end", final, passed)
        BY <2>1
      <4>2. ended # <<>> <=> passed # <<>> \/ (final.state = "done" /\ final.submitType = "agree")
        BY <2>6, <2>9, <4>1, ArchiveRow
      <4>. QED
        BY <3>2, <4>2
    <3>4. CASE c.task = "apply"
      <4>1. PICK to : to = [inst EXCEPT !.doing = "check"]
        OBVIOUS
      <4>2. to.state = "doing"
        BY <2>4, <4>1 DEF Inst
      <4>3. Submit(c, w).inst = to /\ Submit(c, w).rows = passed
        BY <1>2, <2>1, <3>4, <4>1 DEF Submit
      <4>. QED
        BY <2>9, <3>2, <4>2, <4>3 DEF Tells
    <3>5. CASE c.task # "apply"
      <4>1. Submit(c, w).inst = final /\ Submit(c, w).rows = ended
        BY <1>2, <2>1, <3>5 DEF Submit
      <4>. QED
        BY <2>9, <3>3, <4>1 DEF Tells
    <3>. QED
      BY <3>4, <3>5
  <2>. QED
    BY <2>8, <2>9
<1>. QED
  BY <1>1, <1>2

LEMMA TellsGivenUp ==
  ASSUME NEW c \in Calls, c.kind # "start", NEW w, w.inst \in Inst, w.rows \in Seq(BRow),
         Tells(w.inst, w.rows)
  PROVE  /\ Tells(Reject(c, w).inst, Reject(c, w).rows)
         /\ Tells(ReturnToFirst(c, w).inst, ReturnToFirst(c, w).rows)
<1>1. CASE ~Loads(c, w)
  BY <1>1 DEF Reject, ReturnToFirst, Refused
<1>2. CASE Loads(c, w)
  <2>1. PICK prep, rejected, returned :
          /\ prep = Prepared(c, w.inst)
          /\ rejected = [prep EXCEPT !.state = "rejected"]
          /\ returned = [prep EXCEPT !.doing = "apply"]
    OBVIOUS
  <2>2. prep \in Inst /\ prep.state = "doing" /\ prep.passed = w.inst.passed
    BY <1>2, <2>1, PreparedData DEF Loads
  <2>3. /\ rejected.state = "rejected" /\ rejected.passed = w.inst.passed
        /\ returned.state = "doing" /\ returned.passed = w.inst.passed
    BY <2>1, <2>2 DEF Inst
  <2>4. /\ Reject(c, w).inst = rejected /\ Reject(c, w).rows = w.rows
        /\ ReturnToFirst(c, w).inst = returned /\ ReturnToFirst(c, w).rows = w.rows
    BY <1>2, <2>1 DEF Reject, ReturnToFirst
  <2>. QED
    BY <1>2, <2>3, <2>4 DEF Tells, Loads
<1>. QED
  BY <1>1, <1>2

LEMMA TellsDo ==
  ASSUME NEW c \in Calls, NEW w, w.inst \in Inst, w.rows \in Seq(BRow), Tells(w.inst, w.rows),
         c.kind = "start" => w.inst.state = "none"
  PROVE  Tells(Do(c, w).inst, Do(c, w).rows)
<1>1. CASE c.kind = "start"
  <2>1. w.rows = <<>>
    BY <1>1 DEF Tells
  <2>. QED
    BY <1>1, <2>1, TellsStart DEF Do
<1>2. CASE c.kind = "submit"
  BY <1>2, TellsSubmit DEF Do
<1>3. CASE c.kind = "reject"
  BY <1>3, TellsGivenUp DEF Do
<1>4. CASE c.kind = "return"
  BY <1>4, TellsGivenUp DEF Do
<1>. QED
  BY <1>1, <1>2, <1>3, <1>4, CallKinds

(***************************************************************************)
(* What is committed and what a transaction is working on, where requests  *)
(* overlap only under the lock.                                            *)
(***************************************************************************)
\* What a transaction works on: what is committed, then what it made of it.
Working(r) ==
  /\ req[r].pc \in {"enter", "body"} => mine[r].inst = db.inst /\ mine[r].rows = db.rows
  /\ req[r].pc \in {"acted", "leave"} =>
       /\ Len(mine[r].rows) <= 1
       /\ setup.wired => /\ Tells(mine[r].inst, mine[r].rows)
                         /\ mine[r].inserts <=> db.rows = <<>>

WorkInv ==
  /\ Len(db.rows) <= 1
  /\ setup.wired => Tells(db.inst, db.rows)
  /\ \A r \in Requests :
       req[r].pc \in {"enter", "body"} /\ req[r].call.kind = "start" => db.inst.state = "none"
  /\ \A r \in Requests : InTx(r) => Working(r)

\* Into and out of the transaction, by the kind of step.
LEMMA TxMoves ==
  ASSUME ScopeInv, ScopeInv', NEW r \in Requests
  PROVE  /\ Stays(r) => (InTx(r)' <=> InTx(r))
         /\ Lock(r) \/ Join(r) => (InTx(r)' => InTx(r))
         /\ OutOfBlock(r) => (InTx(r)' => InTx(r))
         /\ Over(r) => ~InTx(r)'
         /\ Commit(r) \/ CommitFails(r) \/ Rollback(r) => InTx(r) /\ ~InTx(r)'
<1>. PICK c, n, k : c = req[r].call /\ n = req[r].at /\ k = FirstTx(c)
  OBVIOUS
<1>1. /\ n \in Nat /\ k \in Nat \ {0} /\ n <= Depth(c) /\ Depth(c) \in Nat
      /\ InTx(r) <=> n >= k
      /\ n > 0 => (Outermost(r) <=> n = k)
  BY MoverFacts
<1>2. ASSUME Steps(r)
      PROVE  req'[r].at \in Nat /\ (InTx(r)' <=> req'[r].at >= k)
  <2>1. req'[r].call = c /\ way' = way
    BY <1>2 DEF Steps, Moves
  <2>2. FirstTx(c)' = k /\ Depth(c)' = Depth(c)
    BY <2>1, DepthKept
  <2>3. req'[r].at \in 0..Depth(c)
    BY <2>1, <2>2 DEF ScopeInv, Scoped, Placed
  <2>4. EnteredAs(r)'
    BY EnteredAlways
  <2>. QED
    BY <1>1, <2>1, <2>2, <2>3, <2>4 DEF EnteredAs
<1>3. Stays(r) => (InTx(r)' <=> InTx(r))
  BY <1>1, <1>2 DEF Stays
<1>4. OutOfBlock(r) => (InTx(r)' => InTx(r)) /\ req'[r].at = n - 1 /\ Steps(r)
  BY <1>1, <1>2 DEF OutOfBlock
<1>5. Join(r) => InTx(r)
  BY DEF Join
<1>6. ASSUME Lock(r), InTx(r)' PROVE InTx(r)
  <2>1. InBlock(r)
    BY <1>6, EnteringIs
  <2>2. Steps(r) /\ req'[r].at = n + 1 /\ n < Depth(c)
    BY <2>1 DEF InBlock, ScopeInv, Scoped, Placed
  <2>3. n + 1 >= k
    BY <1>2, <1>6, <2>2
  <2>4. Locks(c) /\ n + 1 = LockAt
    BY <1>6, <2>2, BlockIs DEF Lock
  <2>5. k # LockAt /\ (k = 1 \/ LockAt = 1) /\ k \in {1, 2} /\ LockAt \in {1, 2}
    BY <2>4 DEF FirstTx, LockAt
  <2>. QED
    BY <1>1, <2>3, <2>4, <2>5
<1>7. Over(r) => ~InTx(r)'
  <2>. SUFFICES ASSUME Over(r) PROVE ~InTx(r)'
    OBVIOUS
  <2>1. req'[r].at = 0
    BY DEF Over, NewReq
  <2>2. EnteredAs(r)'
    BY EnteredAlways
  <2>3. FirstTx(req[r].call)' \in Nat \ {0} /\ Depth(req[r].call)' \in Nat
    BY DEF FirstTx, Depth
  <2>. QED
    BY <2>1, <2>2, <2>3 DEF EnteredAs
<1>8. ASSUME Commit(r) \/ CommitFails(r) \/ Rollback(r)
      PROVE  InTx(r) /\ ~InTx(r)'
  <2>1. n > 0 /\ Outermost(r)
    BY <1>8 DEF Commit, CommitFails, Rollback, Leaves
  <2>2. OutOfBlock(r)
    BY <1>8, LeavingIs
  <2>3. n = k
    BY <1>1, <2>1
  <2>. QED
    BY <1>1, <1>2, <1>4, <2>2, <2>3
<1>. QED
  BY <1>3, <1>4, <1>5, <1>6, <1>7, <1>8

\* A quiet step is not where a transaction's work is opened or done.
QuietPlace(r) ==
  /\ Moves(r)
  /\ req'[r].pc \in {"enter", "body"} => req[r].pc \in {"enter", "body"} /\ req'[r].call = req[r].call
  /\ InTx(r)' => InTx(r) /\ (req'[r].pc \in {"acted", "leave"} => req[r].pc \in {"acted", "leave"})

LEMMA QuietIs ==
  ASSUME ScopeInv, ScopeInv', NEW r \in Requests, Quietly(r)
  PROVE  QuietPlace(r)
<1>1. CASE Lock(r) \/ Join(r)
  <2>1. InBlock(r)
    BY <1>1, EnteringIs
  <2>. QED
    BY <1>1, <2>1, TxMoves DEF InBlock, Steps, QuietPlace
<1>2. CASE BeginFails(r) \/ RunAfterCommit(r) \/ Answer(r) \/ Fire(r) \/ Fired(r)
  <2>1. Stays(r)
    BY <1>2, StayingIs
  <2>2. InTx(r) => req[r].pc = "acted"
    <3>1. req[r].pc = "fire" => ~InTx(r)
      BY MoverFacts DEF ScopeInv, Scoped, Placed
    <3>. QED
      BY <1>2, <3>1 DEF BeginFails, RunAfterCommit, Answer, Fire, Fired
  <2>. QED
    BY <2>1, <2>2, TxMoves DEF Stays, Steps, QuietPlace
<1>3. CASE Unlock(r) \/ LeaveJoined(r)
  <2>1. OutOfBlock(r)
    BY <1>3, LeavingIs
  <2>. QED
    BY <2>1, TxMoves DEF OutOfBlock, Steps, QuietPlace
<1>4. CASE End(r)
  <2>1. Over(r)
    BY <1>4, OverIs
  <2>2. req'[r].pc = "over"
    BY <2>1 DEF Over, NewReq
  <2>. QED
    BY <2>1, <2>2, TxMoves DEF Over, QuietPlace
<1>. QED
  BY <1>1, <1>2, <1>3, <1>4 DEF Quietly

LEMMA TellsKept ==
  ASSUME setup' = setup, NEW inst, NEW rows
  PROVE  Tells(inst, rows)' <=> Tells(inst, rows)
BY DEF Tells, Col

\* Requests that do not move and whose data stays are where they were.
LEMMA OthersWork ==
  ASSUME WorkInv, NEW r \in Requests, Moves(r), setup' = setup, db' = db,
         \A q \in Requests \ {r} : mine'[q] = mine[q],
         req'[r].pc \in {"enter", "body"} /\ req'[r].call.kind = "start" => db.inst.state = "none",
         InTx(r)' => Working(r)'
  PROVE  WorkInv'
<1>1. \A q \in Requests \ {r} : req'[q] = req[q] /\ (InTx(q)' <=> InTx(q))
  BY DEF Moves, InTx, Entered, Blocks
<1>2. ASSUME NEW q \in Requests, InTx(q)'
      PROVE  Working(q)'
  <2>1. CASE q = r
    BY <1>2, <2>1
  <2>2. CASE q # r
    <3>1. Working(q) /\ req'[q] = req[q] /\ mine'[q] = mine[q]
      BY <1>1, <1>2, <2>2 DEF WorkInv
    <3>2. Tells(mine[q].inst, mine[q].rows)' <=> Tells(mine[q].inst, mine[q].rows)
      BY <2>2, <1>1 DEF Tells, Col
    <3>. QED
      BY <3>1, <3>2 DEF Working
  <2>. QED
    BY <2>1, <2>2
<1>3. Len(db'.rows) <= 1 /\ (setup'.wired => Tells(db.inst, db.rows)')
  BY DEF WorkInv, Tells, Col
<1>4. ASSUME NEW q \in Requests, req'[q].pc \in {"enter", "body"}, req'[q].call.kind = "start"
      PROVE  db'.inst.state = "none"
  BY <1>1, <1>4 DEF WorkInv
<1>. QED
  BY <1>2, <1>3, <1>4 DEF WorkInv

\* A request in its transaction changes what is committed: no other is in one,
\* and none is about to start the instance.
LEMMA OnlyOneWorks ==
  ASSUME ScopeInv, AloneInv, WorkInv, NEW r \in Requests, InTx(r), Moves(r), setup' = setup,
         req'[r].pc \notin {"enter", "body"},
         Len(db'.rows) <= 1, setup.wired => Tells(db.inst, db.rows)',
         InTx(r)' => Working(r)'
  PROVE  WorkInv'
<1>1. \A q \in Requests \ {r} : req'[q] = req[q] /\ (InTx(q)' <=> InTx(q))
  BY DEF Moves, InTx, Entered, Blocks
<1>2. \A q \in Requests \ {r} : ~InTx(q)
  BY OneInTx
<1>3. Under(r)
  <2>1. req[r].at >= FirstTx(req[r].call) /\ FirstTx(req[r].call) \in Nat \ {0}
    BY MoverFacts
  <2>. QED
    BY <2>1 DEF ScopeInv, Scoped, Placed, Under
<1>4. ASSUME NEW q \in Requests, req'[q].pc \in {"enter", "body"}, req'[q].call.kind = "start"
      PROVE  FALSE
  <2>1. q # r /\ req'[q] = req[q]
    BY <1>1, <1>4
  <2>2. Under(q)
    BY <1>4, <2>1 DEF Under
  <2>3. Locks(req[q].call)
    BY <1>3, <2>1, <2>2 DEF AloneInv
  <2>. QED
    BY <1>4, <2>1, <2>3 DEF Locks, Locking
<1>. QED
  BY <1>1, <1>2, <1>4 DEF WorkInv

LEMMA BeginWork ==
  ASSUME ScopeInv, ScopeInv', WorkInv, NEW r \in Requests, Receive(r)
  PROVE  WorkInv'
<1>1. PICK c \in Calls : (c.kind = "start") = (db.inst.state = "none") /\ Begin(r, c)
  BY DEF Receive
<1>2. UNCHANGED <<setup, db, mine>>
  BY DEF Receive
<1>3. req[r] \in Place /\ req \in [Requests -> Place] /\ req[r].pc = "idle" /\ req[r].at = 0
  BY <1>1 DEF Begin, ScopeInv, ReqType, Scoped, Placed
<1>4. PICK place : place = [req[r] EXCEPT !.pc = "enter", !.call = c]
  OBVIOUS
<1>5. place.at = 0 /\ place.pc = "enter" /\ place.call = c
  BY <1>3, <1>4 DEF Place
<1>6. req' = [req EXCEPT ![r] = place] /\ way' = way
  BY <1>1, <1>4 DEF Begin
<1>7. Moves(r) /\ req'[r] = place
  BY <1>3, <1>6 DEF Moves
<1>8. ~InTx(r)'
  <2>1. EnteredAs(r)'
    BY EnteredAlways
  <2>2. FirstTx(req[r].call)' \in Nat \ {0} /\ Depth(req[r].call)' \in Nat
    BY DEF FirstTx, Depth
  <2>. QED
    BY <1>5, <1>7, <2>1, <2>2 DEF EnteredAs
<1>9. req'[r].call.kind = "start" => db.inst.state = "none"
  BY <1>1, <1>5, <1>7
<1>. QED
  BY <1>2, <1>7, <1>8, <1>9, OthersWork

LEMMA OpenWork ==
  ASSUME ScopeInv, ScopeInv', DataInv, WorkInv, NEW r \in Requests, OpenTx(r)
  PROVE  WorkInv'
<1>1. InBlock(r)
  BY EnteringIs DEF OpenTx
<1>2. Moves(r) /\ req[r].pc = "enter" /\ req'[r].pc \in {"enter", "body"} /\ req'[r].call = req[r].call
  BY <1>1 DEF InBlock, Steps
<1>3. PICK v : v = [inst |-> db.inst, rows |-> db.rows, inserts |-> FALSE]
  OBVIOUS
<1>4. /\ v.inst = db.inst /\ v.rows = db.rows /\ mine' = [mine EXCEPT ![r] = v]
      /\ setup' = setup /\ db' = db
  BY <1>3 DEF OpenTx
<1>5. mine'[r] = v /\ \A q \in Requests \ {r} : mine'[q] = mine[q]
  BY <1>4 DEF DataInv, DataType
<1>6. Working(r)'
  BY <1>2, <1>4, <1>5 DEF Working
<1>7. req[r].call.kind = "start" => db.inst.state = "none"
  BY <1>2 DEF WorkInv
<1>. QED
  BY <1>2, <1>4, <1>5, <1>6, <1>7, OthersWork

LEMMA QuietWork ==
  ASSUME ScopeInv, ScopeInv', WorkInv, NEW r \in Requests, Quietly(r), UNCHANGED <<setup, db, mine>>
  PROVE  WorkInv'
<1>1. QuietPlace(r)
  BY QuietIs
<1>2. Moves(r)
  BY <1>1 DEF QuietPlace
<1>3. req'[r].pc \in {"enter", "body"} /\ req'[r].call.kind = "start" => db.inst.state = "none"
  BY <1>1 DEF QuietPlace, WorkInv
<1>4. ASSUME InTx(r)' PROVE Working(r)'
  <2>1. Working(r)
    BY <1>1, <1>4 DEF QuietPlace, WorkInv
  <2>2. Tells(mine[r].inst, mine[r].rows)' <=> Tells(mine[r].inst, mine[r].rows)
    BY DEF Tells, Col
  <2>. QED
    BY <1>1, <1>4, <2>1, <2>2 DEF QuietPlace, Working
<1>. QED
  BY <1>2, <1>3, <1>4, OthersWork

LEMMA ActWork ==
  ASSUME ScopeInv, ScopeInv', DataInv, AloneInv, WorkInv, NEW r \in Requests, Act(r)
  PROVE  WorkInv'
<1>1. PICK c, w, d :
        /\ c \in Calls /\ w \in View
        /\ c = req[r].call /\ w = ViewOf(r) /\ d = Do(c, w) /\ DataMade(c, w, d)
        /\ mine' = [mine EXCEPT ![r] = [inst |-> d.inst, rows |-> d.rows, inserts |-> w.rows = <<>>]]
        /\ db' = IF setup.wired THEN db ELSE [db EXCEPT !.rows = d.rows]
        /\ setup' = setup
  BY ActIs
<1>2. Stays(r) /\ req[r].pc = "body"
  BY StayingIs DEF Act
<1>3. InTx(r) /\ Moves(r) /\ req'[r].pc \notin {"enter", "body"}
  BY <1>2, MoverFacts DEF ScopeInv, Scoped, Placed, Stays, Steps
<1>4. w.inst = db.inst /\ w.rows = db.rows
  <2>1. mine[r].inst = db.inst /\ mine[r].rows = db.rows
    BY <1>2, <1>3 DEF WorkInv, Working
  <2>. QED
    BY <1>1, <2>1, ViewData
<1>5. w.inst \in Inst /\ w.rows \in Seq(BRow)
  BY <1>1 DEF View
<1>6. Len(d.rows) <= 1
  <2>1. Rows(w.rows, d.rows)
    BY <1>1 DEF DataMade
  <2>2. Len(w.rows) <= 1
    BY <1>4 DEF WorkInv
  <2>. QED
    BY <2>1, <2>2 DEF Rows
<1>7. setup.wired => Tells(d.inst, d.rows)
  <2>1. c.kind = "start" => w.inst.state = "none"
    BY <1>1, <1>2, <1>4 DEF WorkInv
  <2>2. setup.wired => Tells(w.inst, w.rows)
    BY <1>4 DEF WorkInv
  <2>. QED
    BY <1>1, <1>5, <2>1, <2>2, TellsDo
<1>8. /\ mine'[r].inst = d.inst /\ mine'[r].rows = d.rows
      /\ mine'[r].inserts <=> w.rows = <<>>
  <2>1. mine \in [Requests -> View]
    BY DEF DataInv, DataType
  <2>. QED
    BY <1>1, <2>1
<1>9. Working(r)'
  <2>1. Tells(mine'[r].inst, mine'[r].rows) => Tells(mine[r].inst, mine[r].rows)'
    BY <1>1 DEF Tells, Col
  <2>2. Len(mine'[r].rows) <= 1 /\ (setup.wired => Tells(mine[r].inst, mine[r].rows)')
    BY <1>6, <1>7, <1>8, <2>1
  <2>3. setup.wired => db' = db
    BY <1>1
  <2>4. setup.wired => (mine'[r].inserts <=> db'.rows = <<>>)
    BY <1>4, <1>8, <2>3
  <2>. QED
    BY <1>1, <1>3, <2>2, <2>4 DEF Working
<1>10. Len(db'.rows) <= 1
  <2>1. CASE setup.wired
    BY <1>1, <2>1 DEF WorkInv
  <2>2. CASE ~setup.wired
    <3>1. db'.rows = d.rows
      BY <1>1, <2>2 DEF DataInv, DataType
    <3>. QED
      BY <1>6, <3>1
  <2>. QED
    BY <2>1, <2>2
<1>11. setup.wired => Tells(db.inst, db.rows)'
  <2>. SUFFICES ASSUME setup.wired PROVE Tells(db.inst, db.rows)'
    OBVIOUS
  <2>1. db' = db /\ setup' = setup
    BY <1>1
  <2>. QED
    BY <2>1 DEF WorkInv, Tells, Col
<1>. QED
  BY <1>1, <1>3, <1>9, <1>10, <1>11, OnlyOneWorks

\* What a commit leaves is what the transaction made of the only version there is.
LEMMA CommittedIs ==
  ASSUME DataInv, WorkInv, NEW r \in Requests, InTx(r), req[r].pc = "leave"
  PROVE  /\ Len(Committed(r).rows) <= 1
         /\ setup.wired => Tells(Committed(r).inst, Committed(r).rows)
<1>1. Working(r)
  BY DEF WorkInv
<1>2. CASE setup.wired
  <2>1. /\ Len(mine[r].rows) <= 1 /\ Tells(mine[r].inst, mine[r].rows)
        /\ mine[r].inserts <=> db.rows = <<>>
    BY <1>1, <1>2 DEF Working
  <2>2. mine[r].rows \in Seq(BRow)
    BY DEF DataInv, DataType, View
  <2>3. <<>> \o mine[r].rows = mine[r].rows
    BY <2>2
  <2>4. Committed(r).rows = mine[r].rows /\ Committed(r).inst = mine[r].inst
    <3>1. CASE mine[r].inserts
      BY <1>2, <2>1, <2>3, <3>1 DEF Committed
    <3>2. CASE ~mine[r].inserts
      BY <1>2, <3>2 DEF Committed
    <3>. QED
      BY <3>1, <3>2
  <2>. QED
    BY <2>1, <2>4
<1>3. CASE ~setup.wired
  <2>1. Committed(r).rows = db.rows
    BY <1>3 DEF Committed
  <2>. QED
    BY <1>3, <2>1 DEF WorkInv
<1>. QED
  BY <1>2, <1>3

LEMMA LeaveWork ==
  ASSUME ScopeInv, ScopeInv', DataInv, AloneInv, WorkInv, NEW r \in Requests,
         CommitTx(r) \/ CommitTxFails(r) \/ RollbackTx(r)
  PROVE  WorkInv'
<1>1. Commit(r) \/ CommitFails(r) \/ Rollback(r)
  BY DEF CommitTx, CommitTxFails, RollbackTx
<1>2. setup' = setup /\ (db' = db \/ db' = Committed(r))
  BY DEF CommitTx, CommitTxFails, RollbackTx
<1>3. OutOfBlock(r) /\ InTx(r) /\ ~InTx(r)'
  BY <1>1, LeavingIs, TxMoves
<1>4. Moves(r) /\ req[r].pc = "leave" /\ req'[r].pc \notin {"enter", "body"}
  BY <1>3 DEF OutOfBlock, Steps
<1>5. Len(db'.rows) <= 1
  BY <1>2, <1>3, <1>4, CommittedIs DEF WorkInv
<1>6. setup.wired => Tells(db.inst, db.rows)'
  <2>. SUFFICES ASSUME setup.wired PROVE Tells(db.inst, db.rows)'
    OBVIOUS
  <2>1. Tells(db'.inst, db'.rows)
    BY <1>2, <1>3, <1>4, CommittedIs DEF WorkInv
  <2>. QED
    BY <1>2, <2>1 DEF Tells, Col
<1>. QED
  BY <1>2, <1>3, <1>4, <1>5, <1>6, OnlyOneWorks

LEMMA WorkStep ==
  ASSUME ScopeInv, ScopeInv', DataInv, AloneInv, WorkInv, [Next]_vars
  PROVE  WorkInv'
<1>1. ASSUME NEW r \in Requests, Receive(r) \/ Goes(r)
      PROVE  WorkInv'
  BY <1>1, BeginWork, OpenWork, ActWork, LeaveWork, QuietWork DEF Goes
<1>2. CASE UNCHANGED vars
  BY <1>2, ZenonT(30) DEF vars, WorkInv, Working, Tells, Col, InTx, Entered, Blocks
<1>. QED
  BY <1>1, <1>2 DEF Next

LEMMA WorkInit ==
  ASSUME Init
  PROVE  WorkInv
<1>1. ASSUME NEW r \in Requests
      PROVE  ~InTx(r) /\ req[r].pc = "idle"
  <2>1. req[r] = NewReq
    BY DEF Init, TxInit
  <2>. QED
    BY <2>1, OutsideAll DEF NewReq
<1>2. Len(db.rows) <= 1 /\ Tells(db.inst, db.rows)
  <2>1. CASE db = NoWork
    <3>1. db.rows = <<>> /\ db.inst.state = "none" /\ db.inst.passed = {}
      BY <2>1 DEF NoWork, NoInstance
    <3>2. \A n : Col(db.rows, n) = "null"
      BY <3>1 DEF Col
    <3>3. Len(db.rows) = 0
      BY <3>1
    <3>. QED
      BY <3>1, <3>2, <3>3 DEF Tells
  <2>2. CASE db = [inst |-> Start(InitialCall, NoWork).inst, rows |-> Start(InitialCall, NoWork).rows]
    <3>1. PICK c : c = InitialCall
      OBVIOUS
    <3>2. c \in StartCalls /\ c.kind = "start"
      BY <3>1, PersistAssumption DEF StartCalls
    <3>3. NoWork.rows \in Seq(BRow)
      BY DEF NoWork
    <3>4. NoWork.rows = <<>>
      BY DEF NoWork
    <3>5. Tells(Start(c, NoWork).inst, Start(c, NoWork).rows)
      BY <3>2, <3>4, TellsStart
    <3>6. Rows(NoWork.rows, Start(c, NoWork).rows)
      BY <3>2, <3>3, StartData DEF DataMade
    <3>. QED
      BY <2>2, <3>1, <3>4, <3>5, <3>6 DEF Rows
  <2>. QED
    BY <2>1, <2>2 DEF Init
<1>. QED
  BY <1>1, <1>2 DEF WorkInv

PersistInv == ScopeInv /\ DataInv /\ AloneInv /\ WorkInv

THEOREM PersistAlways ==
  ASSUME Overlap \subseteq {"engine"}
  PROVE  Spec => []PersistInv
<1>1. Init => PersistInv
  BY ScopeInit, DataInit, AloneInit, WorkInit DEF Init, PersistInv
<1>2. PersistInv /\ [Next]_vars => PersistInv'
  <2>. SUFFICES ASSUME PersistInv, [Next]_vars PROVE PersistInv'
    OBVIOUS
  <2>1. ScopeInv /\ DataInv /\ AloneInv /\ WorkInv
    BY DEF PersistInv
  <2>2. ScopeInv'
    BY <2>1, StepSound DEF Sound
  <2>. QED
    BY <2>1, <2>2, DataStep, AloneStep, WorkStep DEF PersistInv
<1>. QED
  BY <1>1, <1>2, PTL DEF Spec

(***************************************************************************)
(* An instance has one business row at most (a_exists keeps rows apart, the *)
(* table does not), for any number of requests, repeats, faults and        *)
(* callbacks, where requests overlap only when they come from the engine's *)
(* own entries, which take the instance lock before the transaction.       *)
(***************************************************************************)
THEOREM OneRowPerInstance ==
  ASSUME Overlap \subseteq {"engine"}
  PROVE  Spec => []OneBusinessRow
<1>1. PersistInv => OneBusinessRow
  BY DEF PersistInv, WorkInv, OneBusinessRow
<1>. QED
  BY <1>1, PersistAlways, PTL

(***************************************************************************)
(* A business row written in the transaction of the request tells what was *)
(* committed of the flow: a task's column, the end's column and the        *)
(* archived row are there when, and only when, the instance got there.     *)
(***************************************************************************)
THEOREM RowTellsWhatWasCommitted ==
  ASSUME Overlap \subseteq {"engine"}
  PROVE  Spec => []RowTellsOutcome
<1>1. PersistInv => RowTellsOutcome
  <2>. SUFFICES ASSUME PersistInv, setup.wired PROVE RowTellsOutcome
    BY DEF RowTellsOutcome
  <2>1. Tells(db.inst, db.rows)
    BY DEF PersistInv, WorkInv
  <2>. QED
    BY <2>1, Names DEF RowTellsOutcome, Tells, Col
<1>. QED
  BY <1>1, PersistAlways, PTL
=============================================================================
