-------------------------- MODULE TaskActorsProofs --------------------------
(***************************************************************************)
(* Who may act, who is copied and who stands in for whom, for any people,  *)
(* calls, rows and records, when requests take turns.                      *)
(***************************************************************************)
EXTENDS TaskActors, SequenceTheorems, FiniteSetTheorems, WellFoundedInduction, TLAPS

LEMMA LeastOf ==
  ASSUME NEW X \in SUBSET Nat, X # {}
  PROVE  \E m \in X : \A k \in X : m <= k
<1>1. PICK R : R = OpToRel(<, Nat)
  OBVIOUS
<1>2. IsWellFoundedOn(R, Nat)
  BY <1>1, NatLessThanWellFounded
<1>3. PICK m \in X : \A y \in X : ~(<<y, m>> \in R)
  BY <1>2, WFMin
<1>4. \A x, y \in Nat : x < y => <<x, y>> \in R
  BY <1>1 DEF OpToRel
<1>5. ASSUME NEW k \in X
      PROVE  m <= k
  <2>1. m \in Nat /\ k \in Nat
    OBVIOUS
  <2>2. ~(k < m)
    BY <1>3, <1>4, <2>1
  <2>. QED
    BY <2>1, <2>2
<1>. QED
  BY <1>5

(***************************************************************************)
(* Keep and Merge, prefix by prefix.                                       *)
(***************************************************************************)
KeepStep(out, x, S) == IF x \in S THEN Append(out, x) ELSE out
KeepFun(F, n, seq, S) == F = [i \in 0..n |-> IF i = 0 THEN <<>> ELSE KeepStep(F[i-1], seq[i], S)]

LEMMA KeepFunExists ==
  ASSUME NEW seq, NEW S, NEW n \in Nat
  PROVE  \E F : KeepFun(F, n, seq, S)
<1>. DEFINE X == {m \in Nat : ~ \E F : KeepFun(F, m, seq, S)}
<1>1. SUFFICES ASSUME X # {} PROVE FALSE
  OBVIOUS
<1>2. PICK m \in X : \A k \in X : m <= k
  <2>. HIDE DEF X
  <2>1. X \in SUBSET Nat
    BY DEF X
  <2>. QED
    BY <1>1, <2>1, LeastOf
<1>3. CASE m = 0
  <2>1. KeepFun([i \in 0..0 |-> <<>>], 0, seq, S)
    BY DEF KeepFun
  <2>. QED
    BY <1>3, <2>1
<1>4. CASE m # 0
  <2>1. m - 1 \in Nat /\ m - 1 \notin X /\ m \in Nat
    BY <1>2, <1>4
  <2>2. PICK F : KeepFun(F, m-1, seq, S)
    BY <2>1
  <2>3. PICK G : G = [i \in 0..m |-> IF i < m THEN F[i] ELSE KeepStep(F[m-1], seq[m], S)]
    OBVIOUS
  <2>4. \A i \in 0..m : G[i] = IF i = 0 THEN <<>> ELSE KeepStep(G[i-1], seq[i], S)
    BY <1>4, <2>1, <2>2, <2>3 DEF KeepFun
  <2>5. KeepFun(G, m, seq, S)
    BY <2>3, <2>4 DEF KeepFun
  <2>. QED
    BY <2>5
<1>. QED
  BY <1>3, <1>4

LEMMA KeepPrefixes ==
  ASSUME NEW seq, NEW S, Len(seq) \in Nat
  PROVE  \E F : KeepFun(F, Len(seq), seq, S) /\ Keep(seq, S) = F[Len(seq)]
<1>1. PICK F : F = CHOOSE G : KeepFun(G, Len(seq), seq, S)
  OBVIOUS
<1>2. KeepFun(F, Len(seq), seq, S)
  BY <1>1, KeepFunExists
<1>3. Keep(seq, S) = F[Len(seq)]
  BY <1>1 DEF Keep, KeepFun, KeepStep
<1>. QED
  BY <1>2, <1>3

MergeFun(F, n, xs, ys) == F = [i \in 0..n |-> IF i = 0 THEN xs ELSE AppendNew(F[i-1], ys[i])]

LEMMA MergeFunExists ==
  ASSUME NEW xs, NEW ys, NEW n \in Nat
  PROVE  \E F : MergeFun(F, n, xs, ys)
<1>. DEFINE X == {m \in Nat : ~ \E F : MergeFun(F, m, xs, ys)}
<1>1. SUFFICES ASSUME X # {} PROVE FALSE
  OBVIOUS
<1>2. PICK m \in X : \A k \in X : m <= k
  <2>. HIDE DEF X
  <2>1. X \in SUBSET Nat
    BY DEF X
  <2>. QED
    BY <1>1, <2>1, LeastOf
<1>3. CASE m = 0
  <2>1. MergeFun([i \in 0..0 |-> xs], 0, xs, ys)
    BY DEF MergeFun
  <2>. QED
    BY <1>3, <2>1
<1>4. CASE m # 0
  <2>1. m - 1 \in Nat /\ m - 1 \notin X /\ m \in Nat
    BY <1>2, <1>4
  <2>2. PICK F : MergeFun(F, m-1, xs, ys)
    BY <2>1
  <2>3. PICK G : G = [i \in 0..m |-> IF i < m THEN F[i] ELSE AppendNew(F[m-1], ys[m])]
    OBVIOUS
  <2>4. \A i \in 0..m : G[i] = IF i = 0 THEN xs ELSE AppendNew(G[i-1], ys[i])
    BY <1>4, <2>1, <2>2, <2>3 DEF MergeFun
  <2>5. MergeFun(G, m, xs, ys)
    BY <2>3, <2>4 DEF MergeFun
  <2>. QED
    BY <2>5
<1>. QED
  BY <1>3, <1>4

LEMMA MergePrefixes ==
  ASSUME NEW xs, NEW ys, Len(ys) \in Nat
  PROVE  \E F : MergeFun(F, Len(ys), xs, ys) /\ Merge(xs, ys) = F[Len(ys)]
<1>1. PICK F : F = CHOOSE G : MergeFun(G, Len(ys), xs, ys)
  OBVIOUS
<1>2. MergeFun(F, Len(ys), xs, ys)
  BY <1>1, MergeFunExists
<1>3. Merge(xs, ys) = F[Len(ys)]
  BY <1>1 DEF Merge, MergeFun
<1>. QED
  BY <1>2, <1>3

LEMMA AppendFacts ==
  ASSUME NEW T, NEW s \in Seq(T), NEW x \in T
  PROVE  /\ Append(s, x) \in Seq(T)
         /\ Append(s, x) # <<>>
         /\ Range(Append(s, x)) = Range(s) \cup {x}
         /\ IsInjective(s) /\ x \notin Range(s) => IsInjective(Append(s, x))
         /\ Contains(s, x) <=> x \in Range(s)
<1>. DEFINE t == Append(s, x)
<1>1. t \in Seq(T) /\ Len(t) = Len(s) + 1 /\ Len(s) \in Nat
  OBVIOUS
<1>2. DOMAIN t = 1..Len(s)+1 /\ DOMAIN s = 1..Len(s)
  OBVIOUS
<1>3. \A i \in 1..Len(s) : t[i] = s[i]
  OBVIOUS
<1>4. t[Len(s)+1] = x
  OBVIOUS
<1>. HIDE DEF t
<1>5. Range(t) = Range(s) \cup {x}
  BY <1>1, <1>2, <1>3, <1>4 DEF Range
<1>6. IsInjective(s) /\ x \notin Range(s) => IsInjective(t)
  BY <1>1, <1>2, <1>3, <1>4 DEF Range, IsInjective
<1>7. Contains(s, x) <=> x \in Range(s)
  BY <1>2 DEF Contains, Range
<1>8. t # <<>>
  BY <1>1
<1>. QED
  BY <1>1, <1>5, <1>6, <1>7, <1>8 DEF t

\* What a prefix of a sequence has kept.
KeptSoFar(F, k, seq, S, T) ==
  /\ F[k] \in Seq(T)
  /\ Range(F[k]) = {seq[i] : i \in 1..k} \cap S
  /\ IsInjective(seq) => IsInjective(F[k])

LEMMA KeepFacts ==
  ASSUME NEW T, NEW seq \in Seq(T), NEW S
  PROVE  /\ Keep(seq, S) \in Seq(T)
         /\ Range(Keep(seq, S)) = Range(seq) \cap S
         /\ IsInjective(seq) => IsInjective(Keep(seq, S))
<1>1. PICK n \in Nat : n = Len(seq) /\ DOMAIN seq = 1..n /\ \A i \in 1..n : seq[i] \in T
  OBVIOUS
<1>2. PICK F : KeepFun(F, n, seq, S) /\ Keep(seq, S) = F[n]
  BY <1>1, KeepPrefixes
<1>3. PICK X : X = {k \in 0..n : ~KeptSoFar(F, k, seq, S, T)}
  OBVIOUS
<1>4. X = {}
  <2>1. SUFFICES ASSUME X # {} PROVE FALSE
    OBVIOUS
  <2>2. PICK k \in X : \A j \in X : k <= j
    <3>1. X \in SUBSET Nat
      BY <1>3
    <3>. QED
      BY <2>1, <3>1, LeastOf
  <2>3. k \in 0..n /\ ~KeptSoFar(F, k, seq, S, T)
    BY <1>3
  <2>4. CASE k = 0
    <3>1. F[0] = <<>>
      BY <1>1, <1>2 DEF KeepFun
    <3>2. Range(<<>>) = {} /\ IsInjective(<<>>) /\ <<>> \in Seq(T)
      BY DEF Range, IsInjective
    <3>3. {seq[i] : i \in 1..0} = {}
      OBVIOUS
    <3>. QED
      BY <2>3, <2>4, <3>1, <3>2, <3>3 DEF KeptSoFar
  <2>5. CASE k # 0
    <3>1. k \in 1..n /\ k - 1 \in 0..n /\ k - 1 \notin X
      BY <1>1, <2>2, <2>3, <2>5
    <3>2. KeptSoFar(F, k-1, seq, S, T)
      BY <1>3, <3>1
    <3>3. F[k] = KeepStep(F[k-1], seq[k], S)
      BY <1>1, <1>2, <3>1 DEF KeepFun
    <3>4. {seq[i] : i \in 1..k} = {seq[i] : i \in 1..k-1} \cup {seq[k]}
      BY <3>1
    <3>5. seq[k] \in T
      BY <1>1, <3>1
    <3>6. IsInjective(seq) => seq[k] \notin {seq[i] : i \in 1..k-1}
      BY <1>1, <3>1 DEF IsInjective
    <3>7. CASE seq[k] \in S
      <4>1. F[k] = Append(F[k-1], seq[k])
        BY <3>3, <3>7 DEF KeepStep
      <4>2. F[k] \in Seq(T) /\ Range(F[k]) = Range(F[k-1]) \cup {seq[k]}
        BY <3>2, <3>5, <4>1, AppendFacts DEF KeptSoFar
      <4>3. IsInjective(seq) => IsInjective(F[k])
        BY <3>2, <3>5, <3>6, <4>1, AppendFacts DEF KeptSoFar
      <4>. QED
        BY <2>3, <3>2, <3>4, <3>7, <4>2, <4>3 DEF KeptSoFar
    <3>8. CASE seq[k] \notin S
      <4>1. F[k] = F[k-1]
        BY <3>3, <3>8 DEF KeepStep
      <4>. QED
        BY <2>3, <3>2, <3>4, <3>8, <4>1 DEF KeptSoFar
    <3>. QED
      BY <3>7, <3>8
  <2>. QED
    BY <2>4, <2>5
<1>5. KeptSoFar(F, n, seq, S, T)
  BY <1>1, <1>3, <1>4
<1>6. Range(seq) = {seq[i] : i \in 1..n}
  BY <1>1 DEF Range
<1>. QED
  BY <1>2, <1>5, <1>6 DEF KeptSoFar

LEMMA EmptyRange ==
  ASSUME NEW T, NEW s \in Seq(T)
  PROVE  Range(s) = {} <=> s = <<>>
<1>1. Len(s) \in Nat /\ DOMAIN s = 1..Len(s)
  OBVIOUS
<1>2. ASSUME Range(s) = {}
      PROVE  s = <<>>
  <2>1. 1 \in DOMAIN s => s[1] \in Range(s)
    BY DEF Range
  <2>2. Len(s) = 0
    BY <1>1, <1>2, <2>1
  <2>. QED
    BY <2>2
<1>3. Range(<<>>) = {}
  BY DEF Range
<1>. QED
  BY <1>2, <1>3

\* Keep depends on the members of the sequence only.
LEMMA KeepSame ==
  ASSUME NEW T, NEW seq \in Seq(T), NEW S1, NEW S2, Range(seq) \cap S1 = Range(seq) \cap S2
  PROVE  Keep(seq, S1) = Keep(seq, S2)
<1>1. PICK n \in Nat : n = Len(seq) /\ DOMAIN seq = 1..n
  OBVIOUS
<1>2. PICK F : KeepFun(F, n, seq, S1) /\ Keep(seq, S1) = F[n]
  BY <1>1, KeepPrefixes
<1>3. PICK G : KeepFun(G, n, seq, S2) /\ Keep(seq, S2) = G[n]
  BY <1>1, KeepPrefixes
<1>4. PICK X : X = {k \in 0..n : F[k] # G[k]}
  OBVIOUS
<1>5. X = {}
  <2>1. SUFFICES ASSUME X # {} PROVE FALSE
    OBVIOUS
  <2>2. PICK k \in X : \A j \in X : k <= j
    <3>1. X \in SUBSET Nat
      BY <1>4
    <3>. QED
      BY <2>1, <3>1, LeastOf
  <2>3. k \in 0..n /\ F[k] # G[k]
    BY <1>4
  <2>4. k # 0
    BY <1>1, <1>2, <1>3, <2>3 DEF KeepFun
  <2>5. k \in 1..n /\ k - 1 \in 0..n /\ F[k-1] = G[k-1]
    BY <1>1, <1>4, <2>2, <2>3, <2>4
  <2>6. seq[k] \in S1 <=> seq[k] \in S2
    <3>1. seq[k] \in Range(seq)
      BY <1>1, <2>5 DEF Range
    <3>. QED
      BY <3>1
  <2>7. F[k] = KeepStep(F[k-1], seq[k], S1) /\ G[k] = KeepStep(G[k-1], seq[k], S2)
    <3>1. k \in 0..n /\ k # 0
      BY <2>3, <2>4
    <3>2. F[k] = KeepStep(F[k-1], seq[k], S1)
      BY <1>2, <3>1 DEF KeepFun
    <3>3. G[k] = KeepStep(G[k-1], seq[k], S2)
      BY <1>3, <3>1 DEF KeepFun
    <3>. QED
      BY <3>2, <3>3
  <2>8. F[k] = G[k]
    BY <2>5, <2>6, <2>7, Zenon DEF KeepStep
  <2>. QED
    BY <2>3, <2>8
<1>. QED
  BY <1>1, <1>2, <1>3, <1>4, <1>5

LEMMA KeepAll ==
  ASSUME NEW T, NEW seq \in Seq(T), NEW S, Range(seq) \subseteq S
  PROVE  Keep(seq, S) = seq
<1>1. PICK n \in Nat : n = Len(seq) /\ DOMAIN seq = 1..n /\ \A i \in 1..n : seq[i] \in T
  OBVIOUS
<1>2. PICK F : KeepFun(F, n, seq, S) /\ Keep(seq, S) = F[n]
  BY <1>1, KeepPrefixes
<1>. DEFINE P(k) == F[k] \in Seq(T) /\ Len(F[k]) = k /\ \A i \in 1..k : F[k][i] = seq[i]
<1>3. PICK X : X = {k \in 0..n : ~P(k)}
  OBVIOUS
<1>4. X = {}
  <2>1. SUFFICES ASSUME X # {} PROVE FALSE
    OBVIOUS
  <2>2. PICK k \in X : \A j \in X : k <= j
    <3>1. X \in SUBSET Nat
      BY <1>3
    <3>. HIDE DEF P
    <3>. QED
      BY <2>1, <3>1, LeastOf
  <2>3. k \in 0..n /\ ~P(k)
    BY <1>3
  <2>4. k # 0
    <3>1. F[0] = <<>>
      BY <1>1, <1>2 DEF KeepFun
    <3>2. <<>> \in Seq(T) /\ Len(<<>>) = 0 /\ 1..0 = {}
      OBVIOUS
    <3>3. P(0)
      BY <3>1, <3>2
    <3>. QED
      BY <2>3, <3>3
  <2>5. k \in 1..n /\ k - 1 \in 0..n /\ P(k-1)
    <3>. HIDE DEF P
    <3>. QED
      BY <1>1, <1>3, <2>2, <2>3, <2>4
  <2>6. seq[k] \in S /\ seq[k] \in T
    BY <1>1, <2>5 DEF Range
  <2>7. F[k] = Append(F[k-1], seq[k])
    <3>1. k \in 0..n /\ k # 0
      BY <2>3, <2>4
    <3>2. F[k] = KeepStep(F[k-1], seq[k], S)
      BY <1>2, <3>1 DEF KeepFun
    <3>. QED
      BY <2>6, <3>2 DEF KeepStep
  <2>8. PICK g \in Seq(T) : g = F[k-1] /\ Len(g) = k - 1 /\ \A i \in 1..k-1 : g[i] = seq[i]
    BY <2>5
  <2>9. PICK a \in Seq(T) : a = Append(g, seq[k]) /\ Len(a) = k /\ a[k] = seq[k] /\ \A i \in 1..k-1 : a[i] = g[i]
    <3>1. g \in Seq(T) /\ seq[k] \in T /\ Len(g) + 1 = k
      BY <2>5, <2>6, <2>8
    <3>2. /\ Append(g, seq[k]) \in Seq(T)
          /\ Len(Append(g, seq[k])) = Len(g) + 1
          /\ \A i \in 1..Len(g) : Append(g, seq[k])[i] = g[i]
          /\ Append(g, seq[k])[Len(g) + 1] = seq[k]
      BY <3>1, AppendProperties
    <3>3. Len(g) = k - 1
      BY <2>8
    <3>. QED
      BY <3>1, <3>2, <3>3
  <2>10. F[k] = a /\ \A i \in 1..k : i = k \/ i \in 1..k-1
    BY <2>5, <2>7, <2>8, <2>9
  <2>11. P(k)
    BY <2>8, <2>9, <2>10
  <2>. QED
    BY <2>3, <2>11
<1>5. P(n)
  <2>. HIDE DEF P
  <2>. QED
    BY <1>1, <1>3, <1>4
<1>. QED
  BY <1>1, <1>2, <1>5, SeqEqual

LEMMA WithoutFacts ==
  ASSUME NEW T, NEW seq \in Seq(T), NEW S
  PROVE  /\ Without(seq, S) \in Seq(T)
         /\ Range(Without(seq, S)) = Range(seq) \ S
         /\ IsInjective(seq) => IsInjective(Without(seq, S))
         /\ Range(seq) \cap S = {} => Without(seq, S) = seq
<1>1. Range(seq) \cap (Range(seq) \ S) = Range(seq) \ S
  OBVIOUS
<1>2. Range(seq) \cap S = {} => Range(seq) \subseteq Range(seq) \ S
  OBVIOUS
<1>. QED
  BY <1>1, <1>2, KeepFacts, KeepAll DEF Without

\* What a prefix of ys has brought.
MergedSoFar(F, k, xs, ys, T) ==
  /\ F[k] \in Seq(T)
  /\ Range(F[k]) = Range(xs) \cup {ys[i] : i \in 1..k}
  /\ IsInjective(xs) => IsInjective(F[k])
  /\ Len(xs) <= Len(F[k])
  /\ \A i \in 1..Len(xs) : F[k][i] = xs[i]

LEMMA AppendNewFacts ==
  ASSUME NEW T, NEW s \in Seq(T), NEW x \in T
  PROVE  /\ AppendNew(s, x) \in Seq(T)
         /\ Range(AppendNew(s, x)) = Range(s) \cup {x}
         /\ IsInjective(s) => IsInjective(AppendNew(s, x))
         /\ Len(s) <= Len(AppendNew(s, x))
         /\ \A i \in 1..Len(s) : AppendNew(s, x)[i] = s[i]
<1>1. CASE Contains(s, x)
  <2>1. AppendNew(s, x) = s /\ x \in Range(s) /\ Len(s) \in Nat
    BY <1>1, AppendFacts DEF AppendNew
  <2>. QED
    BY <2>1
<1>2. CASE ~Contains(s, x)
  <2>1. AppendNew(s, x) = Append(s, x) /\ x \notin Range(s)
    BY <1>2, AppendFacts DEF AppendNew
  <2>2. Len(s) <= Len(Append(s, x)) /\ \A i \in 1..Len(s) : Append(s, x)[i] = s[i]
    OBVIOUS
  <2>. QED
    BY <2>1, <2>2, AppendFacts
<1>. QED
  BY <1>1, <1>2

LEMMA MergeFacts ==
  ASSUME NEW T, NEW xs \in Seq(T), NEW ys \in Seq(T)
  PROVE  /\ Merge(xs, ys) \in Seq(T)
         /\ Range(Merge(xs, ys)) = Range(xs) \cup Range(ys)
         /\ IsInjective(xs) => IsInjective(Merge(xs, ys))
         /\ Len(xs) <= Len(Merge(xs, ys))
         /\ \A i \in 1..Len(xs) : Merge(xs, ys)[i] = xs[i]
<1>1. PICK n \in Nat : n = Len(ys) /\ DOMAIN ys = 1..n /\ \A i \in 1..n : ys[i] \in T
  OBVIOUS
<1>2. PICK F : MergeFun(F, n, xs, ys) /\ Merge(xs, ys) = F[n]
  BY <1>1, MergePrefixes
<1>3. PICK X : X = {k \in 0..n : ~MergedSoFar(F, k, xs, ys, T)}
  OBVIOUS
<1>4. X = {}
  <2>1. SUFFICES ASSUME X # {} PROVE FALSE
    OBVIOUS
  <2>2. PICK k \in X : \A j \in X : k <= j
    <3>1. X \in SUBSET Nat
      BY <1>3
    <3>. QED
      BY <2>1, <3>1, LeastOf
  <2>3. k \in 0..n /\ ~MergedSoFar(F, k, xs, ys, T)
    BY <1>3
  <2>4. CASE k = 0
    <3>1. F[0] = xs
      BY <1>1, <1>2 DEF MergeFun
    <3>2. {ys[i] : i \in 1..0} = {}
      OBVIOUS
    <3>3. Len(xs) \in Nat
      OBVIOUS
    <3>. QED
      BY <2>3, <2>4, <3>1, <3>2, <3>3 DEF MergedSoFar
  <2>5. CASE k # 0
    <3>1. k \in 1..n /\ k - 1 \in 0..n /\ k - 1 \notin X
      BY <1>1, <2>2, <2>3, <2>5
    <3>2. MergedSoFar(F, k-1, xs, ys, T)
      BY <1>3, <3>1
    <3>3. F[k] = AppendNew(F[k-1], ys[k])
      BY <1>1, <1>2, <3>1 DEF MergeFun
    <3>4. {ys[i] : i \in 1..k} = {ys[i] : i \in 1..k-1} \cup {ys[k]}
      BY <3>1
    <3>5. ys[k] \in T
      BY <1>1, <3>1
    <3>6. PICK s \in Seq(T) : s = F[k-1]
      BY <3>2 DEF MergedSoFar
    <3>7. /\ Range(s) = Range(xs) \cup {ys[i] : i \in 1..k-1}
          /\ IsInjective(xs) => IsInjective(s)
          /\ Len(xs) <= Len(s)
          /\ \A i \in 1..Len(xs) : s[i] = xs[i]
      BY <3>2, <3>6 DEF MergedSoFar
    <3>8. /\ F[k] \in Seq(T)
          /\ Range(F[k]) = Range(s) \cup {ys[k]}
          /\ IsInjective(s) => IsInjective(F[k])
          /\ Len(s) <= Len(F[k])
          /\ \A i \in 1..Len(s) : F[k][i] = s[i]
      <4>1. PICK y \in T : y = ys[k]
        BY <3>5
      <4>2. F[k] = AppendNew(s, y)
        BY <3>3, <3>6, <4>1
      <4>3. s \in Seq(T)
        OBVIOUS
      <4>4. y \in T
        OBVIOUS
      <4>5. /\ AppendNew(s, y) \in Seq(T)
            /\ Range(AppendNew(s, y)) = Range(s) \cup {y}
            /\ IsInjective(s) => IsInjective(AppendNew(s, y))
            /\ Len(s) <= Len(AppendNew(s, y))
            /\ \A i \in 1..Len(s) : AppendNew(s, y)[i] = s[i]
        BY <4>3, <4>4, AppendNewFacts
      <4>. QED
        BY <4>1, <4>2, <4>5
    <3>9. Len(xs) \in Nat /\ Len(s) \in Nat /\ Len(F[k]) \in Nat
      BY <3>6, <3>8
    <3>10. Len(xs) <= Len(F[k]) /\ \A i \in 1..Len(xs) : F[k][i] = xs[i]
      BY <3>7, <3>8, <3>9
    <3>11. Range(F[k]) = Range(xs) \cup {ys[i] : i \in 1..k}
      BY <3>4, <3>7, <3>8
    <3>. QED
      BY <2>3, <3>7, <3>8, <3>10, <3>11 DEF MergedSoFar
  <2>. QED
    BY <2>4, <2>5
<1>5. MergedSoFar(F, n, xs, ys, T)
  BY <1>1, <1>3, <1>4
<1>6. Range(ys) = {ys[i] : i \in 1..n}
  BY <1>1 DEF Range
<1>. QED
  BY <1>2, <1>5, <1>6 DEF MergedSoFar

LEMMA ConcatFacts ==
  ASSUME NEW T, NEW s \in Seq(T), NEW t \in Seq(T)
  PROVE  /\ s \o t \in Seq(T)
         /\ Range(s \o t) = Range(s) \cup Range(t)
         /\ IsInjective(s) /\ IsInjective(t) /\ Range(s) \cap Range(t) = {} => IsInjective(s \o t)
<1>. DEFINE u == s \o t
<1>1. u \in Seq(T) /\ Len(u) = Len(s) + Len(t) /\ Len(s) \in Nat /\ Len(t) \in Nat
  BY ConcatProperties
<1>2. DOMAIN u = 1..Len(s)+Len(t) /\ DOMAIN s = 1..Len(s) /\ DOMAIN t = 1..Len(t)
  BY <1>1
<1>3. \A i \in 1..Len(s) : u[i] = s[i]
  BY <1>1, ConcatProperties
<1>4. \A i \in 1..Len(t) : u[Len(s) + i] = t[i]
  BY <1>1, ConcatProperties
<1>. HIDE DEF u
<1>5. \A i \in DOMAIN u : (i \in 1..Len(s)) \/ (i - Len(s) \in 1..Len(t) /\ i = Len(s) + (i - Len(s)))
  BY <1>1, <1>2
<1>6. Range(u) = Range(s) \cup Range(t)
  <2>1. ASSUME NEW i \in DOMAIN u
        PROVE  u[i] \in Range(s) \cup Range(t)
    BY <1>2, <1>3, <1>4, <1>5 DEF Range
  <2>2. ASSUME NEW i \in DOMAIN s
        PROVE  s[i] \in Range(u)
    <3>1. i \in DOMAIN u /\ u[i] = s[i]
      BY <1>1, <1>2, <1>3
    <3>. QED
      BY <3>1 DEF Range
  <2>3. ASSUME NEW i \in DOMAIN t
        PROVE  t[i] \in Range(u)
    <3>1. Len(s) + i \in DOMAIN u /\ u[Len(s) + i] = t[i]
      BY <1>1, <1>2, <1>4
    <3>. QED
      BY <3>1 DEF Range
  <2>. QED
    BY <2>1, <2>2, <2>3 DEF Range
<1>7. ASSUME IsInjective(s), IsInjective(t), Range(s) \cap Range(t) = {}
      PROVE  IsInjective(u)
  <2>. SUFFICES ASSUME NEW i \in DOMAIN u, NEW j \in DOMAIN u, u[i] = u[j]
                PROVE  i = j
    BY DEF IsInjective
  <2>1. \A a \in DOMAIN s, b \in DOMAIN t : s[a] # t[b]
    BY <1>7 DEF Range
  <2>2. CASE i \in 1..Len(s) /\ j \in 1..Len(s)
    BY <1>2, <1>3, <1>7, <2>2 DEF IsInjective
  <2>3. CASE i \in 1..Len(s) /\ j \notin 1..Len(s)
    BY <1>2, <1>3, <1>4, <1>5, <2>1, <2>3
  <2>4. CASE i \notin 1..Len(s) /\ j \in 1..Len(s)
    BY <1>2, <1>3, <1>4, <1>5, <2>1, <2>4
  <2>5. CASE i \notin 1..Len(s) /\ j \notin 1..Len(s)
    <3>1. i - Len(s) \in DOMAIN t /\ j - Len(s) \in DOMAIN t /\ t[i - Len(s)] = t[j - Len(s)]
      BY <1>2, <1>4, <1>5, <2>5
    <3>2. i - Len(s) = j - Len(s)
      BY <1>7, <3>1 DEF IsInjective
    <3>. QED
      BY <1>1, <1>2, <3>2
  <2>. QED
    BY <2>2, <2>3, <2>4, <2>5
<1>. QED
  BY <1>1, <1>6, <1>7 DEF u

\* The two ways to add: one by one, and the ones that are missing at once.
LEMMA MergeDistinct ==
  ASSUME NEW T, NEW xs \in Seq(T), NEW ys \in Seq(T), IsInjective(ys)
  PROVE  Merge(xs, ys) = xs \o Without(ys, Range(xs))
<1>1. PICK n \in Nat : n = Len(ys) /\ DOMAIN ys = 1..n /\ \A i \in 1..n : ys[i] \in T
  OBVIOUS
<1>2. PICK F : MergeFun(F, n, xs, ys) /\ Merge(xs, ys) = F[n]
  BY <1>1, MergePrefixes
<1>3. PICK S : S = Range(ys) \ Range(xs)
  OBVIOUS
<1>4. PICK G : KeepFun(G, n, ys, S) /\ Without(ys, Range(xs)) = G[n]
  BY <1>1, <1>3, KeepPrefixes DEF Without
<1>. DEFINE P(k) == /\ F[k] = xs \o G[k]
                    /\ G[k] \in Seq(T)
                    /\ Range(G[k]) \subseteq {ys[i] : i \in 1..k}
<1>5. PICK X : X = {k \in 0..n : ~P(k)}
  OBVIOUS
<1>6. X = {}
  <2>1. SUFFICES ASSUME X # {} PROVE FALSE
    OBVIOUS
  <2>2. PICK k \in X : \A j \in X : k <= j
    <3>1. X \in SUBSET Nat
      BY <1>5
    <3>. HIDE DEF P
    <3>. QED
      BY <2>1, <3>1, LeastOf
  <2>3. k \in 0..n /\ ~P(k)
    BY <1>5
  <2>4. k # 0
    <3>1. F[0] = xs /\ G[0] = <<>>
      BY <1>1, <1>2, <1>4 DEF KeepFun, MergeFun
    <3>2. <<>> \in Seq(T) /\ xs \o <<>> = xs /\ Range(<<>>) = {}
      BY ConcatEmptySeq DEF Range
    <3>3. P(0)
      BY <3>1, <3>2
    <3>. QED
      BY <2>3, <3>3
  <2>5. k \in 1..n /\ k - 1 \in 0..n /\ P(k-1)
    <3>. HIDE DEF P
    <3>. QED
      BY <1>1, <1>5, <2>2, <2>3, <2>4
  <2>6. PICK y \in T : y = ys[k] /\ y \in Range(ys) /\ y \notin {ys[i] : i \in 1..k-1}
    <3>1. k \in DOMAIN ys /\ ys[k] \in T /\ ys[k] \in Range(ys)
      BY <1>1, <2>5 DEF Range
    <3>2. \A i \in 1..k-1 : i \in DOMAIN ys /\ i # k
      BY <1>1, <2>5
    <3>3. \A i \in 1..k-1 : ys[i] # ys[k]
      BY <3>1, <3>2 DEF IsInjective
    <3>. QED
      BY <3>1, <3>3
  <2>7. PICK g \in Seq(T) : g = G[k-1] /\ Range(g) \subseteq {ys[i] : i \in 1..k-1}
    BY <2>5
  <2>8. {ys[i] : i \in 1..k-1} \cup {y} \subseteq {ys[i] : i \in 1..k}
    BY <2>5, <2>6
  <2>9. xs \o g \in Seq(T) /\ (y \in Range(xs \o g) <=> y \in Range(xs))
    BY <2>6, <2>7, ConcatFacts
  <2>10. F[k] = AppendNew(xs \o g, y)
    <3>1. F[k] = AppendNew(F[k-1], ys[k])
      BY <1>1, <1>2, <2>3, <2>4 DEF MergeFun
    <3>. QED
      BY <2>5, <2>6, <2>7, <3>1
  <2>11. G[k] = KeepStep(g, y, S)
    <3>1. G[k] = KeepStep(G[k-1], ys[k], S)
      BY <1>1, <1>4, <2>3, <2>4 DEF KeepFun
    <3>. QED
      BY <2>6, <2>7, <3>1
  <2>12. Contains(xs \o g, y) <=> y \in Range(xs)
    <3>1. xs \o g \in Seq(T) /\ y \in T
      BY <2>6, <2>9
    <3>2. Contains(xs \o g, y) <=> y \in Range(xs \o g)
      BY <3>1, AppendFacts
    <3>. QED
      BY <2>9, <3>2
  <2>13. CASE y \in Range(xs)
    <3>1. F[k] = xs \o g /\ G[k] = g
      BY <1>3, <2>10, <2>11, <2>12, <2>13 DEF AppendNew, KeepStep
    <3>2. P(k)
      BY <2>7, <2>8, <3>1
    <3>. QED
      BY <2>3, <3>2
  <2>14. CASE y \notin Range(xs)
    <3>1. F[k] = Append(xs \o g, y) /\ G[k] = Append(g, y)
      BY <1>3, <2>6, <2>10, <2>11, <2>12, <2>14 DEF AppendNew, KeepStep
    <3>2. xs \in Seq(T) /\ g \in Seq(T) /\ <<y>> \in Seq(T) /\ xs \o g \in Seq(T)
      BY <2>9
    <3>3. Append(xs \o g, y) = (xs \o g) \o <<y>> /\ Append(g, y) = g \o <<y>>
      BY <3>2, AppendIsConcat
    <3>4. Append(xs \o g, y) = xs \o Append(g, y)
      BY <3>2, <3>3, ConcatAssociative
    <3>5. Append(g, y) \in Seq(T) /\ Range(Append(g, y)) = Range(g) \cup {y}
      <4>1. g \in Seq(T) /\ y \in T
        BY <3>2, <2>6
      <4>. QED
        BY <4>1, AppendFacts
    <3>6. P(k)
      BY <2>7, <2>8, <3>1, <3>4, <3>5
    <3>. QED
      BY <2>3, <3>6
  <2>. QED
    BY <2>13, <2>14
<1>7. P(n)
  <2>. HIDE DEF P
  <2>. QED
    BY <1>1, <1>5, <1>6
<1>. QED
  BY <1>2, <1>4, <1>7

(***************************************************************************)
(* Values and their forms.                                                 *)
(***************************************************************************)
Plains == {Plain(p) : p \in People}

LEMMA Plainly ==
  ASSUME NEW p \in People
  PROVE  /\ Plain(p) \in Value /\ Plain(p) \in Plains
         /\ Plain(p).who = p
         /\ Plain(p) # Blank
         /\ Trim(Plain(p)) = Plain(p)
<1>1. Plain(p) \in Value /\ Plain(p).who = p /\ Plain(p) \in Plains
  BY DEF Plain, Value, Plains
<1>2. p # Nobody
  BY NobodyAssumption
<1>3. Plain(p) # Blank
  BY <1>2 DEF Plain, Blank
<1>4. Trim(Plain(p)) = Plain(p)
  BY <1>1, <1>2 DEF Trim
<1>. QED
  BY <1>1, <1>3, <1>4

\* A value is blank or trims to a person.
LEMMA Trims ==
  ASSUME NEW v \in Value
  PROVE  \/ v = Blank /\ Trim(v) = Blank /\ v.who = Nobody
         \/ v # Blank /\ v.who \in People /\ Trim(v) = Plain(v.who)
<1>1. CASE v = Blank
  <2>1. Blank.who = Nobody /\ Trim(Blank) = Blank
    BY DEF Blank, Trim
  <2>. QED
    BY <1>1, <2>1
<1>2. CASE v # Blank
  <2>1. v \in [who : People, spaced : BOOLEAN]
    BY <1>2 DEF Value
  <2>2. v.who \in People /\ v.who # Nobody /\ v = [who |-> v.who, spaced |-> v.spaced]
    BY <2>1, NobodyAssumption
  <2>3. Trim(v) = Plain(v.who)
    BY <2>2 DEF Trim
  <2>. QED
    BY <1>2, <2>2, <2>3
<1>. QED
  BY <1>1, <1>2

LEMMA TrimFacts ==
  ASSUME NEW v \in Value
  PROVE  /\ Trim(v) \in Value
         /\ Trim(v) = Blank <=> v = Blank
         /\ v # Blank => v.who \in People /\ Trim(v) = Plain(v.who) /\ Trim(v) \in Plains
         /\ v = Blank => v.who = Nobody
         /\ Trim(Trim(v)) = Trim(v)
<1>1. CASE v = Blank
  <2>1. Blank \in Value
    BY DEF Value
  <2>. QED
    BY <1>1, <2>1, Trims
<1>2. CASE v # Blank
  <2>1. v.who \in People /\ Trim(v) = Plain(v.who)
    BY <1>2, Trims
  <2>. QED
    BY <1>2, <2>1, Plainly
<1>. QED
  BY <1>1, <1>2

LEMMA PlainsFacts ==
  ASSUME NEW v \in Plains
  PROVE  /\ v \in Value /\ v # Blank /\ Trim(v) = v
         /\ v.who \in People /\ v = Plain(v.who)
<1>1. PICK p \in People : v = Plain(p)
  BY DEF Plains
<1>. QED
  BY <1>1, Plainly

LEMMA NamedAre ==
  ASSUME NEW raw \in Seq(Value)
  PROVE  Range(raw) \subseteq Value /\ Named(raw) = Range(raw) \ {Blank}
<1>1. Range(raw) \subseteq Value
  BY DEF Range
<1>2. \A v \in Value : Trim(v) # Blank <=> v # Blank
  BY TrimFacts
<1>. QED
  BY <1>1, <1>2 DEF Named

LEMMA TrimAllFacts ==
  ASSUME NEW raw \in Seq(Value)
  PROVE  /\ TrimAll(raw) \in Seq(Value)
         /\ Range(TrimAll(raw)) = {Trim(v) : v \in Range(raw)}
         /\ raw \in Seq(Plains) => TrimAll(raw) = raw
<1>1. PICK n \in Nat : n = Len(raw) /\ DOMAIN raw = 1..n /\ \A i \in 1..n : raw[i] \in Value
  OBVIOUS
<1>2. TrimAll(raw) = [i \in 1..n |-> Trim(raw[i])]
  BY <1>1 DEF TrimAll
<1>3. TrimAll(raw) \in [1..n -> Value]
  BY <1>1, <1>2, TrimFacts
<1>4. TrimAll(raw) \in Seq(Value)
  BY <1>3, SeqDef
<1>5. Range(TrimAll(raw)) = {Trim(v) : v \in Range(raw)}
  BY <1>1, <1>2 DEF Range
<1>6. ASSUME raw \in Seq(Plains)
      PROVE  TrimAll(raw) = raw
  <2>1. \A i \in 1..n : Trim(raw[i]) = raw[i]
    <3>1. \A i \in 1..n : raw[i] \in Plains
      BY <1>1, <1>6
    <3>. QED
      BY <3>1, PlainsFacts
  <2>2. raw = [i \in 1..n |-> raw[i]]
    BY <1>1
  <2>. QED
    BY <1>2, <2>1, <2>2
<1>. QED
  BY <1>4, <1>5, <1>6

LEMMA NormalizeFacts ==
  ASSUME NEW raw \in Seq(Value)
  PROVE  /\ normalize_actors(raw) \in Seq(Value)
         /\ Range(normalize_actors(raw)) = {Trim(v) : v \in Named(raw)}
         /\ IsInjective(normalize_actors(raw))
         /\ Range(normalize_actors(raw)) \subseteq Plains
<1>1. PICK k : k = Keep(raw, Named(raw))
  OBVIOUS
<1>2. k \in Seq(Value) /\ Range(k) = Named(raw)
  <2>1. Range(raw) \cap Named(raw) = Named(raw)
    BY NamedAre
  <2>. QED
    BY <1>1, <2>1, KeepFacts
<1>3. TrimAll(k) \in Seq(Value) /\ Range(TrimAll(k)) = {Trim(v) : v \in Named(raw)}
  BY <1>2, TrimAllFacts
<1>4. <<>> \in Seq(Value) /\ Range(<<>>) = {} /\ IsInjective(<<>>)
  BY DEF Range, IsInjective
<1>5. PICK e : e = <<>>
  OBVIOUS
<1>6. e = <<>> /\ e \in Seq(Value) /\ Range(e) = {} /\ IsInjective(e)
  BY <1>4, <1>5
<1>7. PICK t : t = TrimAll(k)
  OBVIOUS
<1>8. normalize_actors(raw) = Merge(e, t)
  BY <1>1, <1>6, <1>7 DEF normalize_actors
<1>9. t \in Seq(Value) /\ Range(t) = {Trim(v) : v \in Named(raw)}
  BY <1>3, <1>7
<1>10. PICK m : m = Merge(e, t)
  OBVIOUS
<1>11. m \in Seq(Value) /\ Range(m) = Range(t) /\ IsInjective(m)
  <2>1. e \in Seq(Value) /\ t \in Seq(Value)
    BY <1>6, <1>9
  <2>2. /\ Merge(e, t) \in Seq(Value)
        /\ Range(Merge(e, t)) = Range(e) \cup Range(t)
        /\ IsInjective(e) => IsInjective(Merge(e, t))
    BY <2>1, MergeFacts
  <2>. QED
    BY <1>6, <1>10, <2>2
<1>12. \A v \in Named(raw) : Trim(v) \in Plains
  BY NamedAre, TrimFacts
<1>. QED
  BY <1>8, <1>9, <1>10, <1>11, <1>12

LEMMA RangeSeq ==
  ASSUME NEW S, NEW T, NEW s \in Seq(S), Range(s) \subseteq T
  PROVE  s \in Seq(T)
<1>1. Len(s) \in Nat /\ s \in [1..Len(s) -> S] /\ \A i \in 1..Len(s) : s[i] \in Range(s)
  BY DEF Range
<1>2. s \in [1..Len(s) -> T]
  BY <1>1
<1>. QED
  BY <1>1, <1>2, SeqDef

\* Actors that are normalised are left as they are.
LEMMA NormalizeAgain ==
  ASSUME NEW s \in Seq(Value), Range(s) \subseteq Plains, IsInjective(s)
  PROVE  normalize_actors(s) = s
<1>1. s \in Seq(Plains)
  BY RangeSeq
<1>2. Named(s) = Range(s)
  BY NamedAre, PlainsFacts
<1>3. Keep(s, Named(s)) = s
  BY <1>2, KeepAll
<1>4. TrimAll(s) = s
  BY <1>1, TrimAllFacts
<1>5. <<>> \in Seq(Value) /\ Range(<<>>) = {}
  BY DEF Range
<1>6. Merge(<<>>, s) = <<>> \o Without(s, {})
  BY <1>5, MergeDistinct
<1>7. Without(s, {}) = s
  BY WithoutFacts
<1>. QED
  BY <1>3, <1>4, <1>6, <1>7, ConcatEmptySeq DEF normalize_actors

LEMMA OnePlain ==
  ASSUME NEW p \in People
  PROVE  /\ <<Plain(p)>> \in Seq(Value) /\ Range(<<Plain(p)>>) = {Plain(p)} /\ IsInjective(<<Plain(p)>>)
         /\ normalize_actors(<<Plain(p)>>) = <<Plain(p)>>
         /\ actor_delete_forms(<<Plain(p)>>) = {Plain(p)}
<1>1. PICK v \in Value : v = Plain(p) /\ v \in Plains /\ Trim(v) = v /\ v # Blank
  BY Plainly
<1>2. <<v>> \in Seq(Value) /\ Range(<<v>>) = {v} /\ IsInjective(<<v>>)
  BY <1>1 DEF Range, IsInjective
<1>3. normalize_actors(<<v>>) = <<v>>
  BY <1>1, <1>2, NormalizeAgain
<1>4. Named(<<v>>) = {v}
  BY <1>1, <1>2, NamedAre
<1>5. actor_delete_forms(<<v>>) = {v}
  BY <1>1, <1>4 DEF actor_delete_forms
<1>. QED
  BY <1>1, <1>2, <1>3, <1>5

LEMMA PersonsAre ==
  ASSUME NEW rows \in Seq(Value)
  PROVE  /\ Persons(rows) = {v.who : v \in Named(rows)}
         /\ Persons(rows) \subseteq People
<1>1. Persons(rows) = {v.who : v \in Range(rows)} \ {Nobody}
  BY DEF Persons, Range
<1>2. \A v \in Range(rows) : v.who # Nobody <=> v # Blank
  BY NamedAre, TrimFacts, NobodyAssumption
<1>3. \A v \in Named(rows) : v.who \in People
  BY NamedAre, TrimFacts
<1>. QED
  BY <1>1, <1>2, <1>3, NamedAre

LEMMA SamePersons ==
  ASSUME NEW raw \in Seq(Value)
  PROVE  Persons(normalize_actors(raw)) = Persons(raw)
<1>1. PICK n \in Seq(Value) : n = normalize_actors(raw) /\ Range(n) = {Trim(v) : v \in Named(raw)}
  BY NormalizeFacts
<1>2. \A v \in Named(raw) : Trim(v).who = v.who /\ Trim(v) # Blank
  BY NamedAre, TrimFacts, Plainly
<1>3. Named(n) = {Trim(v) : v \in Named(raw)}
  BY <1>1, <1>2, NamedAre
<1>4. {u.who : u \in Named(n)} = {v.who : v \in Named(raw)}
  BY <1>2, <1>3
<1>. QED
  BY <1>1, <1>4, PersonsAre

(***************************************************************************)
(* The operations of the two repositories agree.                           *)
(***************************************************************************)
LEMMA AddSame ==
  ASSUME NEW rows \in Seq(Value), NEW raw \in Seq(Value)
  PROVE  /\ SqlAddTaskActor(rows, rows, raw) = MemAddTaskActor(rows, raw)
         /\ MemAddTaskActor(rows, raw) \in Seq(Value)
         /\ Range(MemAddTaskActor(rows, raw)) = Range(rows) \cup Range(normalize_actors(raw))
<1>1. PICK n : n = normalize_actors(raw)
  OBVIOUS
<1>2. n \in Seq(Value) /\ IsInjective(n)
  BY <1>1, NormalizeFacts
<1>3. Merge(rows, n) = rows \o Without(n, Range(rows))
  BY <1>2, MergeDistinct
<1>4. Merge(rows, n) \in Seq(Value) /\ Range(Merge(rows, n)) = Range(rows) \cup Range(n)
  BY <1>2, MergeFacts
<1>. QED
  BY <1>1, <1>3, <1>4 DEF SqlAddTaskActor, MemAddTaskActor

LEMMA RemoveSame ==
  ASSUME NEW rows \in Seq(Value), NEW raw
  PROVE  /\ SqlRemoveTaskActor(rows, raw) = MemRemoveTaskActor(rows, raw)
         /\ SqlRemoveTaskActor(rows, raw) \in Seq(Value)
         /\ Range(SqlRemoveTaskActor(rows, raw)) = Range(rows) \ actor_delete_forms(raw)
<1>1. PICK forms : forms = actor_delete_forms(raw)
  OBVIOUS
<1>2. Without(rows, forms) \in Seq(Value) /\ Range(Without(rows, forms)) = Range(rows) \ forms
  BY WithoutFacts
<1>3. forms = {} => Without(rows, forms) = rows
  BY WithoutFacts
<1>. QED
  BY <1>1, <1>2, <1>3 DEF SqlRemoveTaskActor, MemRemoveTaskActor

\* Of the rows and of the aggregate that a transfer writes.
LEMMA TransferSame ==
  ASSUME NEW rows \in Seq(Value), NEW c, c.from \in People, c.to \in People,
         Plain(c.from) \in Range(rows), Plain(c.to) \notin Range(rows)
  PROVE  LET left == SqlRemoveTaskActor(rows, <<Plain(c.from)>>)
         IN /\ SqlAddTaskActor(left, left, <<Plain(c.to)>>) = Synced(rows, c)
            /\ Synced(rows, c) \in Seq(Value) /\ Synced(rows, c) # <<>>
            /\ Range(Synced(rows, c)) = (Range(rows) \ {Plain(c.from)}) \cup {Plain(c.to)}
<1>1. PICK f \in Value : f = Plain(c.from)
  BY Plainly
<1>2. PICK t \in Value : t = Plain(c.to)
  BY Plainly
<1>3. PICK left \in Seq(Value) : /\ left = Without(rows, {f})
                                 /\ Range(left) = Range(rows) \ {f}
  BY WithoutFacts
<1>4. SqlRemoveTaskActor(rows, <<Plain(c.from)>>) = left
  BY <1>1, <1>3, OnePlain DEF SqlRemoveTaskActor
<1>5. normalize_actors(<<t>>) = <<t>> /\ <<t>> \in Seq(Value) /\ Range(<<t>>) = {t}
  BY <1>2, OnePlain
<1>6. t \notin Range(left)
  BY <1>2, <1>3
<1>7. Without(<<t>>, Range(left)) = <<t>>
  <2>1. <<t>> \in Seq(Value) /\ Range(<<t>>) \cap Range(left) = {}
    BY <1>5, <1>6
  <2>. QED
    BY <2>1, WithoutFacts
<1>8. SqlAddTaskActor(left, left, <<t>>) = left \o <<t>>
  BY <1>5, <1>7 DEF SqlAddTaskActor
<1>9. left \in Seq(Value) /\ t \in Value
  OBVIOUS
<1>10. Append(left, t) = left \o <<t>>
  BY <1>9, AppendIsConcat
<1>11. Append(left, t) \in Seq(Value) /\ Append(left, t) # <<>> /\ Range(Append(left, t)) = Range(left) \cup {t}
  BY <1>9, AppendFacts
<1>12. Synced(rows, c) = Append(left, t)
  BY <1>1, <1>2, <1>3 DEF Synced
<1>. QED
  BY <1>1, <1>2, <1>3, <1>4, <1>8, <1>10, <1>11, <1>12

\* What a removal matches and what it leaves.
LEMMA MatchingFacts ==
  ASSUME NEW rows \in Seq(Value), NEW targets
  PROVE  /\ Matching(rows, targets) \in Seq(Value)
         /\ Range(Matching(rows, targets)) = {v \in Named(rows) : Trim(v) \in Range(targets)}
         /\ Remaining(rows, targets) \in Seq(Value)
         /\ Range(Remaining(rows, targets)) = {v \in Named(rows) : Trim(v) \notin Range(targets)}
<1>1. PICK M : M = {v \in Named(rows) : Trim(v) \in Range(targets)}
  OBVIOUS
<1>2. PICK N : N = {v \in Named(rows) : Trim(v) \notin Range(targets)}
  OBVIOUS
<1>3. Range(rows) \cap M = M /\ Range(rows) \cap N = N
  BY <1>1, <1>2, NamedAre
<1>4. Keep(rows, M) \in Seq(Value) /\ Range(Keep(rows, M)) = M
  BY <1>3, KeepFacts
<1>5. Keep(rows, N) \in Seq(Value) /\ Range(Keep(rows, N)) = N
  BY <1>3, KeepFacts
<1>. QED
  BY <1>1, <1>2, <1>4, <1>5 DEF Matching, Remaining

(***************************************************************************)
(* Copies.                                                                 *)
(***************************************************************************)
CcRow == [actor : Plains, read : BOOLEAN]
CcOK(cc) == cc \in Seq(CcRow) /\ IsInjective(CcNames(cc))

LEMMA CcNamesFacts ==
  ASSUME NEW cc \in Seq(CcRow)
  PROVE  /\ CcNames(cc) \in Seq(Plains) /\ CcNames(cc) \in Seq(Value)
         /\ Len(CcNames(cc)) = Len(cc)
         /\ \A i \in 1..Len(cc) : CcNames(cc)[i] = cc[i].actor
<1>1. PICK n \in Nat : n = Len(cc) /\ DOMAIN cc = 1..n /\ \A i \in 1..n : cc[i] \in CcRow
  OBVIOUS
<1>2. CcNames(cc) = [i \in 1..n |-> cc[i].actor]
  BY <1>1 DEF CcNames
<1>3. \A i \in 1..n : cc[i].actor \in Plains
  BY <1>1 DEF CcRow
<1>4. CcNames(cc) \in [1..n -> Plains]
  BY <1>2, <1>3
<1>5. CcNames(cc) \in Seq(Plains)
  BY <1>4, SeqDef
<1>6. Plains \subseteq Value
  BY PlainsFacts
<1>7. CcNames(cc) \in Seq(Value)
  BY <1>5, <1>6, SeqMonotonic
<1>8. Len(CcNames(cc)) = n
  BY <1>2
<1>. QED
  BY <1>1, <1>2, <1>5, <1>7, <1>8

\* New rows for the people of a list, after the rows there are.
Copied(cc, new) == cc \o [i \in DOMAIN new |-> Unread(new[i])]

LEMMA CopiedFacts ==
  ASSUME NEW cc \in Seq(CcRow), NEW new \in Seq(Plains)
  PROVE  /\ Copied(cc, new) \in Seq(CcRow)
         /\ CcNames(Copied(cc, new)) = CcNames(cc) \o new
         /\ Copied(cc, new) = [i \in 1..Len(cc)+Len(new) |->
                                 IF i \in DOMAIN cc THEN cc[i] ELSE Unread((CcNames(cc) \o new)[i])]
<1>1. PICK n \in Nat : n = Len(cc) /\ DOMAIN cc = 1..n /\ \A i \in 1..n : cc[i] \in CcRow
  OBVIOUS
<1>2. PICK m \in Nat : m = Len(new) /\ DOMAIN new = 1..m /\ \A i \in 1..m : new[i] \in Plains
  OBVIOUS
<1>3. PICK u : u = [i \in 1..m |-> Unread(new[i])]
  OBVIOUS
<1>4. \A i \in 1..m : Unread(new[i]) \in CcRow /\ Unread(new[i]).actor = new[i]
  BY <1>2 DEF Unread, CcRow
<1>5. u \in [1..m -> CcRow]
  BY <1>3, <1>4
<1>6. u \in Seq(CcRow) /\ Len(u) = m
  BY <1>3, <1>5, SeqDef
<1>7. Copied(cc, new) = cc \o u
  BY <1>2, <1>3 DEF Copied
<1>8. PICK w : w = cc \o u
  OBVIOUS
<1>9. w \in Seq(CcRow) /\ Len(w) = n + m /\ \A i \in 1..n+m : w[i] = IF i <= n THEN cc[i] ELSE u[i - n]
  BY <1>1, <1>6, <1>8, ConcatProperties
<1>10. PICK a \in Seq(Plains) : /\ a = CcNames(cc) /\ Len(a) = n
                                /\ \A i \in 1..n : a[i] = cc[i].actor
  BY <1>1, CcNamesFacts
<1>11. PICK b : b = a \o new
  OBVIOUS
<1>12. /\ b \in Seq(Plains) /\ Len(b) = n + m
       /\ \A i \in 1..n+m : b[i] = IF i <= n THEN a[i] ELSE new[i - n]
  <2>1. a \in Seq(Plains) /\ new \in Seq(Plains)
    OBVIOUS
  <2>2. /\ a \o new \in Seq(Plains) /\ Len(a \o new) = Len(a) + Len(new)
        /\ \A i \in 1..Len(a)+Len(new) : (a \o new)[i] = IF i <= Len(a) THEN a[i] ELSE new[i - Len(a)]
    BY <2>1, ConcatProperties
  <2>. QED
    BY <1>2, <1>10, <1>11, <2>2
<1>13. /\ CcNames(w) \in Seq(Plains) /\ Len(CcNames(w)) = n + m
       /\ \A i \in 1..n+m : CcNames(w)[i] = w[i].actor
  BY <1>9, CcNamesFacts
<1>14. \A i \in 1..n+m : CcNames(w)[i] = b[i]
  <2>. TAKE i \in 1..n+m
  <2>1. CASE i <= n
    BY <1>1, <1>9, <1>10, <1>12, <1>13, <2>1
  <2>2. CASE ~(i <= n)
    <3>1. i - n \in 1..m
      BY <1>1, <1>2, <2>2
    <3>2. w[i] = u[i - n] /\ b[i] = new[i - n] /\ u[i - n] = Unread(new[i - n])
      BY <1>3, <1>9, <1>12, <2>2, <3>1
    <3>. QED
      BY <1>4, <1>13, <3>1, <3>2
  <2>. QED
    BY <2>1, <2>2
<1>15. CcNames(w) = b
  BY <1>12, <1>13, <1>14, SeqEqual
<1>16. \A i \in 1..n+m : w[i] = IF i \in 1..n THEN cc[i] ELSE Unread(b[i])
  <2>. TAKE i \in 1..n+m
  <2>1. CASE i <= n
    BY <1>1, <1>9, <2>1
  <2>2. CASE ~(i <= n)
    <3>1. i - n \in 1..m /\ i \notin 1..n
      BY <1>1, <1>2, <2>2
    <3>. QED
      BY <1>3, <1>9, <1>12, <2>2, <3>1
  <2>. QED
    BY <2>1, <2>2
<1>17. w = [i \in 1..n+m |-> w[i]]
  BY <1>9
<1>18. w = [i \in 1..n+m |-> IF i \in 1..n THEN cc[i] ELSE Unread(b[i])]
  BY <1>16, <1>17
<1>. QED
  BY <1>1, <1>2, <1>7, <1>8, <1>9, <1>10, <1>11, <1>15, <1>18

LEMMA CopySame ==
  ASSUME NEW cc, CcOK(cc), NEW raw \in Seq(Value)
  PROVE  /\ Fresh(cc, raw) \in Seq(Plains)
         /\ SqlCreateCc(cc, cc, Fresh(cc, raw)) = Copied(cc, Fresh(cc, raw))
         /\ MemCreateCc(cc, Fresh(cc, raw)) = Copied(cc, Fresh(cc, raw))
         /\ CcOK(Copied(cc, Fresh(cc, raw)))
<1>1. cc \in Seq(CcRow) /\ IsInjective(CcNames(cc))
  BY DEF CcOK
<1>2. PICK a : a = CcNames(cc)
  OBVIOUS
<1>3. a \in Seq(Value) /\ Len(a) = Len(cc) /\ IsInjective(a) /\ a \in Seq(Plains)
  BY <1>1, <1>2, CcNamesFacts
<1>4. PICK n : n = normalize_actors(raw)
  OBVIOUS
<1>5. n \in Seq(Value) /\ IsInjective(n) /\ Range(n) \subseteq Plains
  BY <1>4, NormalizeFacts
<1>6. PICK new : new = Without(n, Range(a))
  OBVIOUS
<1>7. new \in Seq(Value) /\ Range(new) = Range(n) \ Range(a) /\ IsInjective(new)
  BY <1>5, <1>6, WithoutFacts
<1>8. Range(new) \subseteq Plains /\ Range(new) \cap Range(a) = {}
  BY <1>5, <1>7
<1>9. new \in Seq(Plains)
  BY <1>7, <1>8, RangeSeq
<1>10. Fresh(cc, raw) = new
  BY <1>2, <1>4, <1>6 DEF Fresh, CcActors
<1>11. normalize_actors(new) = new
  BY <1>7, <1>8, NormalizeAgain
<1>12. Without(new, Range(a)) = new
  BY <1>7, <1>8, WithoutFacts
<1>13. SqlCreateCc(cc, cc, new) = Copied(cc, new)
  BY <1>2, <1>11, <1>12 DEF SqlCreateCc, CcActors, Copied
<1>14. Merge(a, new) = a \o new
  BY <1>3, <1>7, <1>12, MergeDistinct
<1>15. PICK b : b = a \o new
  OBVIOUS
<1>16. b \in Seq(Value) /\ Len(b) = Len(cc) + Len(new)
  BY <1>3, <1>7, <1>15, ConcatProperties
<1>17. DOMAIN b = 1..Len(cc)+Len(new)
  BY <1>16
<1>18. Copied(cc, new) = [i \in 1..Len(cc)+Len(new) |-> IF i \in DOMAIN cc THEN cc[i] ELSE Unread(b[i])]
  <2>1. cc \in Seq(CcRow) /\ new \in Seq(Plains) /\ b = CcNames(cc) \o new
    BY <1>1, <1>2, <1>9, <1>15
  <2>2. Copied(cc, new) = [i \in 1..Len(cc)+Len(new) |->
                             IF i \in DOMAIN cc THEN cc[i] ELSE Unread((CcNames(cc) \o new)[i])]
    BY <2>1, CopiedFacts
  <2>. QED
    BY <2>1, <2>2
<1>19. MemCreateCc(cc, new) = [i \in DOMAIN b |-> IF i \in DOMAIN cc THEN cc[i] ELSE Unread(b[i])]
  BY <1>2, <1>11, <1>14, <1>15 DEF MemCreateCc
<1>20. IsInjective(b)
  BY <1>3, <1>7, <1>8, <1>15, ConcatFacts
<1>21. Copied(cc, new) \in Seq(CcRow) /\ CcNames(Copied(cc, new)) = b
  BY <1>1, <1>2, <1>9, <1>15, CopiedFacts
<1>. QED
  BY <1>9, <1>10, <1>13, <1>17, <1>18, <1>19, <1>20, <1>21 DEF CcOK

LEMMA NormalizeOne ==
  ASSUME NEW v \in Value
  PROVE  /\ v = Blank => normalize_actors(<<v>>) = <<>>
         /\ v # Blank => normalize_actors(<<v>>) = <<Trim(v)>>
<1>1. <<v>> \in Seq(Value) /\ Range(<<v>>) = {v}
  BY DEF Range
<1>2. PICK n : n = normalize_actors(<<v>>)
  OBVIOUS
<1>3. n \in Seq(Value) /\ Range(n) = {Trim(u) : u \in Named(<<v>>)} /\ IsInjective(n)
  BY <1>1, <1>2, NormalizeFacts
<1>4. Named(<<v>>) = {v} \ {Blank}
  BY <1>1, NamedAre
<1>5. CASE v = Blank
  <2>1. Range(n) = {}
    BY <1>3, <1>4, <1>5
  <2>. QED
    BY <1>2, <1>3, <1>5, <2>1, EmptyRange
<1>6. CASE v # Blank
  <2>1. Range(n) = {Trim(v)}
    BY <1>3, <1>4, <1>6
  <2>2. PICK m \in Nat : m = Len(n) /\ DOMAIN n = 1..m
    BY <1>3
  <2>3. \A i \in 1..m : n[i] = Trim(v)
    BY <2>1, <2>2 DEF Range
  <2>4. m # 0
    BY <2>1, <2>2 DEF Range
  <2>5. \A i, j \in 1..m : i = j
    BY <1>3, <2>2, <2>3 DEF IsInjective
  <2>6. m = 1
    <3>1. 1 \in 1..m /\ m \in 1..m
      BY <2>2, <2>4
    <3>. QED
      BY <2>5, <3>1
  <2>7. <<Trim(v)>> \in Seq(Value) /\ Len(<<Trim(v)>>) = 1
    BY TrimFacts
  <2>8. n = <<Trim(v)>>
    BY <1>3, <2>2, <2>3, <2>6, <2>7, SeqEqual
  <2>. QED
    BY <1>2, <1>6, <2>8
<1>. QED
  BY <1>5, <1>6

LEMMA ReadSame ==
  ASSUME NEW cc, CcOK(cc), NEW v \in Value
  PROVE  /\ SqlUpdateCcStatus(cc, v) = MemUpdateCcStatus(cc, v)
         /\ CcOK(MemUpdateCcStatus(cc, v))
         /\ CcNames(MemUpdateCcStatus(cc, v)) = CcNames(cc)
<1>1. PICK n \in Nat : n = Len(cc) /\ DOMAIN cc = 1..n /\ \A i \in 1..n : cc[i] \in CcRow
  BY DEF CcOK
<1>2. CASE v = Blank
  <2>1. normalize_actors(<<v>>) = <<>>
    BY <1>2, NormalizeOne
  <2>2. \A x : <<x>> # <<>>
    OBVIOUS
  <2>3. SqlUpdateCcStatus(cc, v) = [i \in 1..n |-> cc[i]]
    BY <1>1, <2>1, <2>2 DEF SqlUpdateCcStatus
  <2>4. cc = [i \in 1..n |-> cc[i]]
    BY <1>1 DEF CcOK
  <2>5. MemUpdateCcStatus(cc, v) = cc
    BY <2>1 DEF MemUpdateCcStatus
  <2>. QED
    BY <2>3, <2>4, <2>5
<1>3. CASE v # Blank
  <2>1. PICK t : t = Trim(v)
    OBVIOUS
  <2>2. normalize_actors(<<v>>) = <<t>>
    BY <1>3, <2>1, NormalizeOne
  <2>3. \A x : (<<t>> = <<x>>) <=> (x = t)
    OBVIOUS
  <2>4. <<t>> # <<>> /\ <<t>>[1] = t
    OBVIOUS
  <2>5. PICK new : new = [i \in 1..n |-> IF cc[i].actor = t THEN Seen(cc[i]) ELSE cc[i]]
    OBVIOUS
  <2>6. SqlUpdateCcStatus(cc, v) = new
    BY <1>1, <2>2, <2>3, <2>5 DEF SqlUpdateCcStatus
  <2>7. MemUpdateCcStatus(cc, v) = new
    BY <1>1, <2>2, <2>4, <2>5 DEF MemUpdateCcStatus
  <2>8. \A i \in 1..n : Seen(cc[i]) \in CcRow /\ Seen(cc[i]).actor = cc[i].actor
    BY <1>1 DEF Seen, CcRow
  <2>9. \A i \in 1..n : new[i] \in CcRow /\ new[i].actor = cc[i].actor
    BY <1>1, <2>5, <2>8
  <2>10. new \in [1..n -> CcRow]
    BY <2>5, <2>9
  <2>11. new \in Seq(CcRow)
    BY <2>10, SeqDef
  <2>12. CcNames(new) = CcNames(cc)
    BY <1>1, <2>5, <2>9 DEF CcNames
  <2>. QED
    BY <2>6, <2>7, <2>11, <2>12 DEF CcOK
<1>. QED
  BY <1>2, <1>3

(***************************************************************************)
(* The handlers, one call at a time.                                       *)
(***************************************************************************)
IsTask(t) == t = [state |-> t.state, process |-> t.process, history |-> t.history, operator |-> t.operator]
StoreOK(st) ==
  /\ st = [task |-> st.task, rows |-> st.rows, cc |-> st.cc, ledger |-> st.ledger]
  /\ IsTask(st.task)
  /\ st.rows \in Seq(Value)
  /\ CcOK(st.cc)

\* What an answer "a" to the call c, given of the store st, keeps and achieves.
Keeps(c, st, a) ==
  /\ StoreOK(a.st)
  /\ a.st.ledger = st.ledger
  /\ a.st.task.state # "none"
  /\ CcNames(a.st.cc) = CcNames(st.cc) \o a.new
  /\ c.kind # "purge" /\ Persons(st.rows) # {} => Persons(a.st.rows) # {}
  /\ a.ok /\ c.kind = "remove" => Persons(a.st.rows) \cap Persons(normalize_actors(c.raw)) = {}
  /\ a.ok /\ c.kind = "purge" => \A v \in Range(normalize_actors(c.raw)) : ~Contains(a.st.rows, v)

LEMMA Updated ==
  ASSUME NEW st, StoreOK(st), NEW x
  PROVE  /\ [st EXCEPT !.rows = x] = [task |-> st.task, rows |-> x, cc |-> st.cc, ledger |-> st.ledger]
         /\ [st EXCEPT !.task = x] = [task |-> x, rows |-> st.rows, cc |-> st.cc, ledger |-> st.ledger]
         /\ [st EXCEPT !.cc = x] = [task |-> st.task, rows |-> st.rows, cc |-> x, ledger |-> st.ledger]
<1>1. PICK t, r, k : t = st.task /\ r = st.rows /\ k = st.cc
  OBVIOUS
<1>2. PICK l : l = st.ledger
  OBVIOUS
<1>3. st = [task |-> t, rows |-> r, cc |-> k, ledger |-> l]
  BY <1>1, <1>2 DEF StoreOK
<1>. QED
  BY <1>3

LEMMA UpdatedBoth ==
  ASSUME NEW st, StoreOK(st), NEW x, NEW y, NEW new, new = [st EXCEPT !.task = x, !.rows = y]
  PROVE  new = [task |-> x, rows |-> y, cc |-> st.cc, ledger |-> st.ledger]
<1>1. PICK t, r, k : t = st.task /\ r = st.rows /\ k = st.cc
  OBVIOUS
<1>2. PICK l : l = st.ledger
  OBVIOUS
<1>3. st = [task |-> t, rows |-> r, cc |-> k, ledger |-> l]
  BY <1>1, <1>2 DEF StoreOK
<1>4. new = [task |-> x, rows |-> y, cc |-> k, ledger |-> l]
  BY <1>3
<1>. QED
  BY <1>1, <1>2, <1>4

LEMMA NoneNew ==
  ASSUME NEW st, StoreOK(st)
  PROVE  CcNames(st.cc) = CcNames(st.cc) \o <<>>
<1>1. CcNames(st.cc) \in Seq(Value)
  BY CcNamesFacts DEF StoreOK, CcOK
<1>. QED
  BY <1>1, ConcatEmptySeq

LEMMA RefusedKeeps ==
  ASSUME NEW st, StoreOK(st), st.task.state # "none", NEW c
  PROVE  Keeps(c, st, Refused(st))
<1>1. PICK a : a = Refused(st)
  OBVIOUS
<1>2. a.st = st /\ a.new = <<>> /\ a.ok = FALSE
  BY <1>1 DEF Refused
<1>. QED
  BY <1>1, <1>2, NoneNew DEF Keeps

\* An answer that changes the actor rows only.
LEMMA RowsKeeps ==
  ASSUME NEW st, StoreOK(st), st.task.state # "none", NEW c, NEW rows \in Seq(Value),
         c.kind # "purge" /\ Persons(st.rows) # {} => Persons(rows) # {},
         c.kind = "remove" => Persons(rows) \cap Persons(normalize_actors(c.raw)) = {},
         c.kind = "purge" => \A v \in Range(normalize_actors(c.raw)) : ~Contains(rows, v)
  PROVE  Keeps(c, st, Ok([st EXCEPT !.rows = rows]))
<1>1. PICK new : new = [task |-> st.task, rows |-> rows, cc |-> st.cc, ledger |-> st.ledger]
  OBVIOUS
<1>2. new = [st EXCEPT !.rows = rows]
  BY <1>1, Updated
<1>3. new.task = st.task /\ new.rows = rows /\ new.cc = st.cc /\ new.ledger = st.ledger
  BY <1>1
<1>4. StoreOK(new)
  BY <1>1, <1>3 DEF StoreOK
<1>5. PICK a : a = Ok(new)
  OBVIOUS
<1>6. a.st = new /\ a.new = <<>>
  BY <1>5 DEF Ok
<1>7. Keeps(c, st, a)
  BY <1>3, <1>4, <1>6, NoneNew DEF Keeps
<1>. QED
  BY <1>2, <1>5, <1>7

LEMMA PersonsGrow ==
  ASSUME NEW rows \in Seq(Value), NEW new \in Seq(Value), Range(rows) \subseteq Range(new)
  PROVE  Persons(rows) \subseteq Persons(new)
<1>1. Named(rows) \subseteq Named(new)
  BY NamedAre
<1>. QED
  BY <1>1, PersonsAre

LEMMA AddKeeps ==
  ASSUME NEW st, StoreOK(st), st.task.state # "none", NEW c, c.raw \in Seq(Value), c.kind = "add"
  PROVE  /\ SqlTaskAddActor(c, st, st) = MemTaskAddActor(c, st)
         /\ Keeps(c, st, MemTaskAddActor(c, st))
<1>1. PICK rows : rows = MemAddTaskActor(st.rows, c.raw)
  OBVIOUS
<1>2. st.rows \in Seq(Value)
  BY DEF StoreOK
<1>3. /\ SqlAddTaskActor(st.rows, st.rows, c.raw) = rows
      /\ rows \in Seq(Value)
      /\ Range(st.rows) \subseteq Range(rows)
  BY <1>1, <1>2, AddSame
<1>4. Persons(st.rows) \subseteq Persons(rows)
  BY <1>2, <1>3, PersonsGrow
<1>5. Keeps(c, st, Ok([st EXCEPT !.rows = rows]))
  BY <1>3, <1>4, RowsKeeps
<1>6. CASE normalize_actors(c.raw) = <<>>
  BY <1>6, RefusedKeeps DEF SqlTaskAddActor, MemTaskAddActor
<1>7. CASE normalize_actors(c.raw) # <<>>
  <2>1. SqlTaskAddActor(c, st, st) = Ok([st EXCEPT !.rows = rows])
    BY <1>3, <1>7 DEF SqlTaskAddActor
  <2>2. MemTaskAddActor(c, st) = Ok([st EXCEPT !.rows = rows])
    BY <1>1, <1>7 DEF MemTaskAddActor
  <2>. QED
    BY <1>5, <2>1, <2>2
<1>. QED
  BY <1>6, <1>7

LEMMA PurgeKeeps ==
  ASSUME NEW st, StoreOK(st), st.task.state # "none", NEW c, c.raw \in Seq(Value), c.kind = "purge"
  PROVE  /\ [st EXCEPT !.rows = SqlRemoveTaskActor(@, c.raw)] = [st EXCEPT !.rows = MemRemoveTaskActor(@, c.raw)]
         /\ Keeps(c, st, Ok([st EXCEPT !.rows = MemRemoveTaskActor(@, c.raw)]))
<1>1. st.rows \in Seq(Value)
  BY DEF StoreOK
<1>2. PICK rows : rows = MemRemoveTaskActor(st.rows, c.raw)
  OBVIOUS
<1>3. /\ SqlRemoveTaskActor(st.rows, c.raw) = rows /\ rows \in Seq(Value)
      /\ Range(rows) = Range(st.rows) \ actor_delete_forms(c.raw)
  BY <1>1, <1>2, RemoveSame
<1>4. Range(normalize_actors(c.raw)) \subseteq actor_delete_forms(c.raw)
  BY NormalizeFacts DEF actor_delete_forms
<1>5. \A v : Contains(rows, v) => v \in Range(rows)
  <2>1. DOMAIN rows = 1..Len(rows)
    BY <1>3
  <2>. QED
    BY <2>1 DEF Contains, Range
<1>6. Keeps(c, st, Ok([st EXCEPT !.rows = rows]))
  BY <1>3, <1>4, <1>5, RowsKeeps
<1>. QED
  BY <1>2, <1>3, <1>6

LEMMA RemoveKeeps ==
  ASSUME NEW st, StoreOK(st), st.task.state # "none", NEW c, c.raw \in Seq(Value), c.kind = "remove"
  PROVE  /\ SqlRemove(c, st, st) = MemRemove(c, st)
         /\ Keeps(c, st, MemRemove(c, st))
<1>1. PICK rows \in Seq(Value) : rows = st.rows
  BY DEF StoreOK
<1>2. PICK targets : targets = normalize_actors(c.raw)
  OBVIOUS
<1>3. targets \in Seq(Value) /\ Range(targets) \subseteq Plains
  BY <1>2, NormalizeFacts
<1>4. PICK match : match = Matching(rows, targets)
  OBVIOUS
<1>5. match \in Seq(Value) /\ Range(match) = {v \in Named(rows) : Trim(v) \in Range(targets)}
  BY <1>4, MatchingFacts
<1>6. PICK new : new = SqlRemoveTaskActor(rows, match)
  OBVIOUS
<1>7. PICK forms : forms = actor_delete_forms(match)
  OBVIOUS
<1>8. MemRemoveTaskActor(rows, match) = new /\ new \in Seq(Value) /\ Range(new) = Range(rows) \ forms
  BY <1>6, <1>7, RemoveSame
<1>9. Named(match) = Range(match)
  <2>1. Blank \notin Range(match)
    BY <1>5, NamedAre
  <2>. QED
    BY <1>5, <2>1, NamedAre
<1>10. forms = Range(match) \cup {Trim(v) : v \in Range(match)}
  BY <1>7, <1>9 DEF actor_delete_forms
<1>11. Persons(new) \cap Persons(targets) = {}
  <2>1. SUFFICES ASSUME NEW p \in Persons(new), p \in Persons(targets)
                 PROVE  FALSE
    OBVIOUS
  <2>2. PICK v \in Named(new) : v.who = p
    BY <1>8, PersonsAre
  <2>3. PICK u \in Named(targets) : u.who = p
    BY <1>3, <2>1, PersonsAre
  <2>4. v \in Range(rows) /\ v \notin forms /\ v # Blank /\ v \in Value
    BY <1>8, <2>2, NamedAre
  <2>5. u \in Range(targets) /\ u \in Plains
    BY <1>3, <2>3, NamedAre
  <2>6. Trim(v) = u
    BY <2>2, <2>3, <2>4, <2>5, TrimFacts, PlainsFacts
  <2>7. v \in Named(rows)
    BY <2>4, NamedAre
  <2>8. v \in Range(match)
    BY <1>5, <2>5, <2>6, <2>7
  <2>. QED
    BY <1>10, <2>4, <2>8
<1>12. MayRemove(st, c) /\ Persons(rows) # {} => Persons(new) # {}
  <2>. SUFFICES ASSUME MayRemove(st, c), Persons(rows) # {}
                PROVE  Persons(new) # {}
    OBVIOUS
  <2>1. CASE match = <<>>
    <3>1. Range(match) = {}
      BY <1>5, <2>1, EmptyRange
    <3>2. forms = {}
      BY <1>10, <3>1
    <3>. QED
      BY <1>8, <3>2, PersonsGrow
  <2>2. CASE match # <<>>
    <3>1. Remaining(rows, targets) # <<>>
      BY <1>1, <1>2, <1>4, <2>2 DEF MayRemove
    <3>2. Range(Remaining(rows, targets)) # {}
      BY <3>1, MatchingFacts, EmptyRange
    <3>3. PICK v \in Named(rows) : Trim(v) \notin Range(targets)
      BY <3>2, MatchingFacts
    <3>4. v \in Range(rows) /\ v \in Value /\ v # Blank
      BY NamedAre
    <3>5. \A u \in Range(match) : Trim(u) \in Range(targets) /\ Trim(Trim(u)) = Trim(u)
      BY <1>5, NamedAre, TrimFacts
    <3>6. v \notin forms
      BY <1>10, <3>3, <3>5
    <3>7. v \in Named(new)
      BY <1>8, <3>4, <3>6, NamedAre
    <3>8. Persons(new) = {u.who : u \in Named(new)}
      BY <1>8, PersonsAre
    <3>. QED
      BY <3>7, <3>8
  <2>. QED
    BY <2>1, <2>2
<1>13. CASE ~MayRemove(st, c)
  BY <1>13, RefusedKeeps DEF SqlRemove, MemRemove
<1>14. CASE MayRemove(st, c)
  <2>1. SqlRemove(c, st, st) = Ok([st EXCEPT !.rows = new])
    BY <1>1, <1>2, <1>4, <1>6, <1>14 DEF SqlRemove
  <2>2. MemRemove(c, st) = Ok([st EXCEPT !.rows = new])
    BY <1>1, <1>2, <1>4, <1>8, <1>14 DEF MemRemove
  <2>3. Keeps(c, st, Ok([st EXCEPT !.rows = new]))
    <3>1. c.kind # "purge" /\ Persons(st.rows) # {} => Persons(new) # {}
      BY <1>1, <1>12, <1>14
    <3>2. c.kind = "remove" => Persons(new) \cap Persons(normalize_actors(c.raw)) = {}
      BY <1>2, <1>11
    <3>. QED
      BY <1>8, <3>1, <3>2, RowsKeeps
  <2>. QED
    BY <2>1, <2>2, <2>3
<1>. QED
  BY <1>13, <1>14

LEMMA InRange ==
  ASSUME NEW rows \in Seq(Value), NEW v
  PROVE  /\ Contains(rows, v) <=> v \in Range(rows)
         /\ \A x : v = Plain(x) /\ v \in Range(rows) => x \in People
<1>1. DOMAIN rows = 1..Len(rows)
  OBVIOUS
<1>2. Contains(rows, v) <=> v \in Range(rows)
  BY <1>1 DEF Contains, Range
<1>3. ASSUME NEW x, v = Plain(x), v \in Value
      PROVE  x \in People
  <2>1. v.who = x /\ v.spaced = FALSE
    BY <1>3 DEF Plain
  <2>2. v # Blank
    BY <2>1 DEF Blank
  <2>. QED
    BY <1>3, <2>1, <2>2, TrimFacts
<1>. QED
  BY <1>2, <1>3, NamedAre

LEMMA TransferKeeps ==
  ASSUME NEW st, StoreOK(st), st.task.state # "none", NEW c, c.kind = "transfer", c.to \in People
  PROVE  /\ SqlTransfer(c, st, st, st) = MemTransfer(c, st)
         /\ Keeps(c, st, MemTransfer(c, st))
<1>1. CASE ~MayTransfer(st, c)
  BY <1>1, RefusedKeeps DEF SqlTransfer, MemTransfer
<1>2. CASE MayTransfer(st, c)
  <2>1. PICK rows \in Seq(Value) : rows = st.rows
    BY DEF StoreOK
  <2>2. Plain(c.from) \in Range(rows) /\ Plain(c.to) \notin Range(rows) /\ c.from \in People
    BY <1>2, <2>1, InRange DEF MayTransfer
  <2>3. PICK left : left = SqlRemoveTaskActor(rows, <<Plain(c.from)>>)
    OBVIOUS
  <2>4. PICK new : new = Synced(rows, c)
    OBVIOUS
  <2>5. /\ SqlAddTaskActor(left, left, <<Plain(c.to)>>) = new
        /\ new \in Seq(Value) /\ new # <<>>
        /\ Range(new) = (Range(rows) \ {Plain(c.from)}) \cup {Plain(c.to)}
    BY <2>2, <2>3, <2>4, TransferSame
  <2>6. PICK task : task = Transferred(st.task, c)
    OBVIOUS
  <2>7. PICK a : a = [task |-> task, rows |-> new, cc |-> st.cc, ledger |-> st.ledger]
    OBVIOUS
  <2>8. PICK b : b = [st EXCEPT !.rows = new]
    OBVIOUS
  <2>9. b = [task |-> st.task, rows |-> new, cc |-> st.cc, ledger |-> st.ledger]
    BY <2>8, Updated
  <2>10. SqlTransfer(c, st, st, st) = Ok(a)
    <3>1. SqlTransfer(c, st, st, st) = Ok(SqlUpdateTask(b, task))
      BY <1>2, <2>1, <2>3, <2>5, <2>6, <2>8 DEF SqlTransfer
    <3>2. SqlUpdateTask(b, task) = a
      BY <2>7, <2>9 DEF SqlUpdateTask
    <3>. QED
      BY <3>1, <3>2
  <2>11. MemTransfer(c, st) = Ok(a)
    <3>1. PICK r : r = MemAddTaskActor(MemRemoveTaskActor(rows, <<Plain(c.from)>>), <<Plain(c.to)>>)
      OBVIOUS
    <3>2. PICK q : q = [st EXCEPT !.rows = r]
      OBVIOUS
    <3>3. MemTransfer(c, st) = Ok(MemUpdateTask(q, task, new))
      BY <1>2, <2>1, <2>4, <2>6, <3>1, <3>2 DEF MemTransfer
    <3>4. q = [task |-> st.task, rows |-> r, cc |-> st.cc, ledger |-> st.ledger]
      BY <3>2, Updated
    <3>5. PICK t, k, l : t = st.task /\ k = st.cc /\ l = st.ledger
      OBVIOUS
    <3>6. PICK z : z = [q EXCEPT !.task = task, !.rows = new]
      OBVIOUS
    <3>7. q = [task |-> t, rows |-> r, cc |-> k, ledger |-> l]
      BY <3>4, <3>5
    <3>8. z = [task |-> task, rows |-> new, cc |-> k, ledger |-> l]
      BY <3>6, <3>7
    <3>9. MemUpdateTask(q, task, new) = z
      BY <2>5, <3>6 DEF MemUpdateTask
    <3>. QED
      BY <2>7, <3>3, <3>5, <3>8, <3>9
  <2>12. StoreOK(a)
    <3>1. IsTask(task) /\ task.state = st.task.state
      <4>1. PICK t : t = st.task
        OBVIOUS
      <4>2. t = [state |-> t.state, process |-> t.process, history |-> t.history, operator |-> t.operator]
        BY <4>1 DEF StoreOK, IsTask
      <4>3. task = [t EXCEPT !.history = Append(t.history, Hop(c))]
        BY <2>6, <4>1 DEF Transferred
      <4>4. task = [state |-> t.state, process |-> t.process, history |-> Append(t.history, Hop(c)),
                    operator |-> t.operator]
        BY <4>2, <4>3
      <4>. QED
        BY <4>1, <4>4 DEF IsTask
    <3>. QED
      BY <2>5, <2>7, <3>1 DEF StoreOK
  <2>13. a.task.state = st.task.state
    <3>1. "state" \in DOMAIN st.task
      BY DEF StoreOK, IsTask
    <3>. QED
      BY <2>6, <2>7, <3>1 DEF Transferred
  <2>14. Persons(new) # {}
    <3>1. Plain(c.to) \in Named(new)
      BY <2>5, NamedAre, Plainly
    <3>2. Persons(new) = {u.who : u \in Named(new)}
      BY <2>5, PersonsAre
    <3>. QED
      BY <3>1, <3>2
  <2>15. PICK r : r = Ok(a)
    OBVIOUS
  <2>16. r.st = a /\ r.new = <<>>
    BY <2>15 DEF Ok
  <2>17. a.cc = st.cc /\ a.ledger = st.ledger /\ a.rows = new
    BY <2>7
  <2>18. Keeps(c, st, r)
    BY <2>12, <2>13, <2>14, <2>16, <2>17, NoneNew DEF Keeps
  <2>. QED
    BY <2>10, <2>11, <2>15, <2>18
<1>. QED
  BY <1>1, <1>2

LEMMA CompleteKeeps ==
  ASSUME NEW st, StoreOK(st), st.task.state # "none", NEW c, c.kind = "complete"
  PROVE  /\ SqlComplete(c, st, st) = MemComplete(c, st)
         /\ Keeps(c, st, MemComplete(c, st))
<1>1. CASE ~MayComplete(st, c)
  BY <1>1, RefusedKeeps DEF SqlComplete, MemComplete
<1>2. CASE MayComplete(st, c)
  <2>1. PICK task : task = Completed(st.task, c)
    OBVIOUS
  <2>2. PICK rows : rows = st.rows
    OBVIOUS
  <2>3. PICK a : a = [task |-> task, rows |-> rows, cc |-> st.cc, ledger |-> st.ledger]
    OBVIOUS
  <2>4. SqlComplete(c, st, st) = Ok(a)
    <3>1. [st EXCEPT !.task = task] = a
      BY <2>2, <2>3, Updated
    <3>. QED
      BY <1>2, <2>1, <3>1 DEF SqlComplete, SqlUpdateTask
  <2>5. MemComplete(c, st) = Ok(a)
    <3>1. PICK z : z = [st EXCEPT !.task = task, !.rows = rows]
      OBVIOUS
    <3>2. z = a
      BY <2>3, <3>1, UpdatedBoth
    <3>3. MemUpdateTask(st, task, rows) = z
      BY <2>2, <3>1 DEF MemUpdateTask
    <3>. QED
      BY <1>2, <2>1, <2>2, <3>2, <3>3 DEF MemComplete
  <2>6. IsTask(task) /\ task.state = "done"
    <3>1. PICK t : t = st.task
      OBVIOUS
    <3>2. t = [state |-> t.state, process |-> t.process, history |-> t.history, operator |-> t.operator]
      BY <3>1 DEF StoreOK, IsTask
    <3>3. task = [t EXCEPT !.state = "done", !.operator = Plain(c.operator)]
      BY <2>1, <3>1 DEF Completed
    <3>4. task = [state |-> "done", process |-> t.process, history |-> t.history, operator |-> Plain(c.operator)]
      BY <3>2, <3>3
    <3>. QED
      BY <3>4 DEF IsTask
  <2>7. a.task = task /\ a.rows = rows /\ a.cc = st.cc /\ a.ledger = st.ledger
    BY <2>3
  <2>8. StoreOK(a)
    BY <2>2, <2>3, <2>6, <2>7 DEF StoreOK
  <2>9. PICK r : r = Ok(a)
    OBVIOUS
  <2>10. r.st = a /\ r.new = <<>>
    BY <2>9 DEF Ok
  <2>11. Keeps(c, st, r)
    BY <2>2, <2>6, <2>7, <2>8, <2>10, NoneNew DEF Keeps
  <2>. QED
    BY <2>4, <2>5, <2>9, <2>11
<1>. QED
  BY <1>1, <1>2

\* An answer that changes the cc rows only.
LEMMA CcKeeps ==
  ASSUME NEW st, StoreOK(st), st.task.state # "none", NEW c, c.kind \notin {"remove", "purge"},
         NEW cc, CcOK(cc), NEW a, a.st = [st EXCEPT !.cc = cc],
         CcNames(cc) = CcNames(st.cc) \o a.new
  PROVE  Keeps(c, st, a)
<1>1. PICK new : new = a.st
  OBVIOUS
<1>2. new = [task |-> st.task, rows |-> st.rows, cc |-> cc, ledger |-> st.ledger]
  BY <1>1, Updated
<1>3. new.task = st.task /\ new.rows = st.rows /\ new.cc = cc /\ new.ledger = st.ledger
  BY <1>2
<1>4. StoreOK(new)
  BY <1>2, <1>3 DEF StoreOK
<1>. QED
  BY <1>1, <1>3, <1>4 DEF Keeps

LEMMA CopyKeeps ==
  ASSUME NEW st, StoreOK(st), st.task.state # "none", NEW c, c.raw \in Seq(Value), c.kind = "copy"
  PROVE  /\ SqlHandleCc(c, st, st) = MemHandleCc(c, st)
         /\ Keeps(c, st, MemHandleCc(c, st))
<1>1. PICK cc : cc = st.cc /\ CcOK(cc)
  BY DEF StoreOK
<1>2. PICK fresh : fresh = Fresh(cc, c.raw)
  OBVIOUS
<1>3. PICK new : new = Copied(cc, fresh)
  OBVIOUS
<1>4. fresh \in Seq(Plains) /\ SqlCreateCc(cc, cc, fresh) = new /\ MemCreateCc(cc, fresh) = new /\ CcOK(new)
  BY <1>1, <1>2, <1>3, CopySame
<1>5. CcNames(new) = CcNames(cc) \o fresh
  BY <1>1, <1>3, <1>4, CopiedFacts DEF CcOK
<1>6. CASE normalize_actors(c.raw) = <<>>
  BY <1>6, RefusedKeeps DEF SqlHandleCc, MemHandleCc
<1>7. CASE normalize_actors(c.raw) # <<>>
  <2>1. PICK a : a = [ok |-> TRUE, st |-> [st EXCEPT !.cc = new], new |-> fresh]
    OBVIOUS
  <2>2. SqlHandleCc(c, st, st) = a
    BY <1>1, <1>2, <1>4, <1>7, <2>1 DEF SqlHandleCc
  <2>3. MemHandleCc(c, st) = a
    BY <1>1, <1>2, <1>4, <1>7, <2>1 DEF MemHandleCc
  <2>4. a.st = [st EXCEPT !.cc = new] /\ a.new = fresh
    BY <2>1
  <2>5. Keeps(c, st, a)
    BY <1>1, <1>4, <1>5, <2>4, CcKeeps
  <2>. QED
    BY <2>2, <2>3, <2>5
<1>. QED
  BY <1>6, <1>7

LEMMA ReadKeeps ==
  ASSUME NEW st, StoreOK(st), st.task.state # "none", NEW c, NEW v \in Value, c.kind = "read"
  PROVE  /\ [st EXCEPT !.cc = SqlUpdateCcStatus(@, v)] = [st EXCEPT !.cc = MemUpdateCcStatus(@, v)]
         /\ Keeps(c, st, Ok([st EXCEPT !.cc = MemUpdateCcStatus(@, v)]))
<1>1. CcOK(st.cc)
  BY DEF StoreOK
<1>2. PICK cc : cc = MemUpdateCcStatus(st.cc, v)
  OBVIOUS
<1>3. SqlUpdateCcStatus(st.cc, v) = cc /\ CcOK(cc) /\ CcNames(cc) = CcNames(st.cc)
  BY <1>1, <1>2, ReadSame
<1>4. PICK a : a = Ok([st EXCEPT !.cc = cc])
  OBVIOUS
<1>5. a.st = [st EXCEPT !.cc = cc] /\ a.new = <<>>
  BY <1>4 DEF Ok
<1>6. CcNames(cc) = CcNames(st.cc) \o a.new
  BY <1>3, <1>5, NoneNew
<1>7. Keeps(c, st, a)
  BY <1>3, <1>5, <1>6, CcKeeps
<1>. QED
  BY <1>2, <1>3, <1>4, <1>7

\* A request that reads the rows it writes: both repositories give one answer.
LEMMA DoKeeps ==
  ASSUME NEW st, StoreOK(st), st.task.state # "none", NEW c \in Calls
  PROVE  SqlDo(c, st, st, st) = MemDo(c, st) /\ Keeps(c, st, MemDo(c, st))
<1>1. c.kind \in CallKinds /\ c.raw \in Seq(Value)
  BY CallsAssumption
<1>2. CASE c.kind = "add"
  <2>1. SqlDo(c, st, st, st) = SqlTaskAddActor(c, st, st) /\ MemDo(c, st) = MemTaskAddActor(c, st)
    BY <1>2 DEF SqlDo, MemDo
  <2>. QED
    BY <1>1, <1>2, <2>1, AddKeeps
<1>3. CASE c.kind = "transfer"
  <2>1. SqlDo(c, st, st, st) = SqlTransfer(c, st, st, st) /\ MemDo(c, st) = MemTransfer(c, st)
    BY <1>3 DEF SqlDo, MemDo
  <2>2. c.to \in People
    BY <1>3, CallsAssumption
  <2>. QED
    BY <1>3, <2>1, <2>2, TransferKeeps
<1>4. CASE c.kind = "remove"
  <2>1. SqlDo(c, st, st, st) = SqlRemove(c, st, st) /\ MemDo(c, st) = MemRemove(c, st)
    BY <1>4 DEF SqlDo, MemDo
  <2>. QED
    BY <1>1, <1>4, <2>1, RemoveKeeps
<1>5. CASE c.kind = "purge"
  <2>1. /\ SqlDo(c, st, st, st) = Ok([st EXCEPT !.rows = SqlRemoveTaskActor(@, c.raw)])
        /\ MemDo(c, st) = Ok([st EXCEPT !.rows = MemRemoveTaskActor(@, c.raw)])
    BY <1>5 DEF SqlDo, MemDo
  <2>. QED
    BY <1>1, <1>5, <2>1, PurgeKeeps
<1>6. CASE c.kind = "complete"
  <2>1. SqlDo(c, st, st, st) = SqlComplete(c, st, st) /\ MemDo(c, st) = MemComplete(c, st)
    BY <1>6 DEF SqlDo, MemDo
  <2>. QED
    BY <1>6, <2>1, CompleteKeeps
<1>7. CASE c.kind = "copy"
  <2>1. SqlDo(c, st, st, st) = SqlHandleCc(c, st, st) /\ MemDo(c, st) = MemHandleCc(c, st)
    BY <1>7 DEF SqlDo, MemDo
  <2>. QED
    BY <1>1, <1>7, <2>1, CopyKeeps
<1>8. CASE c.kind = "read"
  <2>1. c.raw # <<>>
    BY <1>8, CallsAssumption
  <2>2. PICK v \in Value : v = c.raw[1]
    BY <1>1, <2>1
  <2>3. /\ SqlDo(c, st, st, st) = Ok([st EXCEPT !.cc = SqlUpdateCcStatus(@, v)])
        /\ MemDo(c, st) = Ok([st EXCEPT !.cc = MemUpdateCcStatus(@, v)])
    BY <1>8, <2>2 DEF SqlDo, MemDo
  <2>. QED
    BY <1>8, <2>3, ReadKeeps
<1>. QED
  BY <1>1, <1>2, <1>3, <1>4, <1>5, <1>6, <1>7, <1>8 DEF CallKinds

(***************************************************************************)
(* The invariant of requests that take turns.  Each conjunct is kept with  *)
(* the help of the others: a request may only act on what it has seen when *)
(* that is still what is stored (TurnsOK); both stores stay equal only     *)
(* because the cc rows are distinct and plain (StoresOK); the newest       *)
(* record is one because ids are given out once (LedgerOK).                *)
(***************************************************************************)
StoresOK ==
  /\ mem = sql
  /\ StoreOK(sql)
  /\ sql.task.state = "none" => sql.rows = <<>>

TurnsOK ==
  /\ DOMAIN req = Requests
  /\ req = [r \in Requests |-> req[r]]
  /\ \A r \in Requests : req[r] # Idle =>
       sql.task.state # "none" /\ req[r].seen = sql /\ req[r].call \in Calls
  /\ \A r, q \in Requests : req[r] # Idle /\ req[q] # Idle => r = q

LedgerOK ==
  /\ ids \in Nat
  /\ \A s \in sql.ledger : s.id \in 1..ids /\ s.surrogate \in People \cup {Nobody}
  /\ \A s, t \in sql.ledger : s.id = t.id => s = t

EventsOK == fired = CcNames(sql.cc)

AnswersOK ==
  /\ last.kind = "create" => sql.task.state # "none"
  /\ Answered => last.sqlOk = last.memOk /\ last.memNew

TurnInv == StoresOK /\ TurnsOK /\ LedgerOK /\ EventsOK /\ AnswersOK /\ RemovedIsGone /\ LatestWordDecides

LEMMA StoreMade ==
  ASSUME NEW t, IsTask(t), NEW rows \in Seq(Value)
  PROVE  /\ StoreOK(Store(t, rows))
         /\ Store(t, rows).task = t /\ Store(t, rows).rows = rows
         /\ Store(t, rows).ledger = {} /\ CcNames(Store(t, rows).cc) = <<>>
<1>1. PICK st : st = [task |-> t, rows |-> rows, cc |-> <<>>, ledger |-> {}]
  OBVIOUS
<1>2. st = Store(t, rows)
  BY <1>1 DEF Store
<1>3. /\ st.task = t /\ st.rows = rows /\ st.cc = <<>> /\ st.ledger = {}
      /\ st = [task |-> st.task, rows |-> st.rows, cc |-> st.cc, ledger |-> st.ledger]
  BY <1>1
<1>4. <<>> \in Seq(CcRow) /\ DOMAIN <<>> = {}
  OBVIOUS
<1>5. CcNames(<<>>) = <<>>
  BY <1>4 DEF CcNames
<1>6. IsInjective(<<>>)
  BY <1>4 DEF IsInjective
<1>7. CcOK(<<>>)
  BY <1>4, <1>5, <1>6 DEF CcOK
<1>8. StoreOK(st)
  BY <1>3, <1>7 DEF StoreOK
<1>. QED
  BY <1>2, <1>3, <1>5, <1>8

LEMMA TasksMade ==
  ASSUME NEW p
  PROVE  /\ IsTask(NoTask) /\ NoTask.state = "none"
         /\ IsTask(NewTask(p)) /\ NewTask(p).state = "doing" /\ NewTask(p).process = p
<1>1. PICK a, n : a = AllProcesses /\ n = NoValue
  OBVIOUS
<1>2. PICK t : t = [state |-> "none", process |-> a, history |-> <<>>, operator |-> n]
  OBVIOUS
<1>3. t = NoTask
  BY <1>1, <1>2, Zenon DEF NoTask
<1>4. PICK u : u = [t EXCEPT !.state = "doing", !.process = p]
  OBVIOUS
<1>5. u = [state |-> "doing", process |-> p, history |-> <<>>, operator |-> n]
  BY <1>2, <1>4
<1>6. u = NewTask(p)
  BY <1>3, <1>4 DEF NewTask
<1>7. IsTask(t) /\ t.state = "none"
  BY <1>2 DEF IsTask
<1>8. IsTask(u) /\ u.state = "doing" /\ u.process = p
  BY <1>5 DEF IsTask
<1>. QED
  BY <1>3, <1>6, <1>7, <1>8

LEMMA TurnInit ==
  ASSUME Init
  PROVE  TurnInv
<1>1. PICK t, rows : /\ sql = Store(t, rows) /\ IsTask(t) /\ rows \in Seq(Value)
                     /\ t.state = "none" => rows = <<>>
  <2>1. CASE sql = Store(NoTask, <<>>)
    <3>1. PICK t : t = NoTask
      OBVIOUS
    <3>2. IsTask(t)
      BY <3>1, TasksMade
    <3>3. <<>> \in Seq(Value)
      OBVIOUS
    <3>4. sql = Store(t, <<>>)
      BY <2>1, <3>1
    <3>. QED
      BY <3>2, <3>3, <3>4
  <2>2. CASE \E rows \in OldRows : sql = Store(NewTask("p"), rows)
    <3>1. PICK t, rows : t = NewTask("p") /\ rows \in OldRows /\ sql = Store(t, rows)
      BY <2>2
    <3>2. rows \in Seq(Value)
      BY <3>1, RowsAssumption
    <3>3. t.state # "none" /\ IsTask(t)
      BY <3>1, TasksMade
    <3>. QED
      BY <3>1, <3>2, <3>3
  <2>. QED
    BY <2>1, <2>2 DEF Init
<1>2. /\ StoreOK(sql) /\ sql.task = t /\ sql.rows = rows
      /\ sql.ledger = {} /\ CcNames(sql.cc) = <<>>
  BY <1>1, StoreMade
<1>3. mem = sql /\ fired = <<>> /\ req = [r \in Requests |-> Idle] /\ ids = 0 /\ last = [kind |-> "none"]
  BY DEF Init
<1>4. StoresOK
  BY <1>1, <1>2, <1>3 DEF StoresOK
<1>5. TurnsOK
  BY <1>3 DEF TurnsOK
<1>6. LedgerOK
  BY <1>2, <1>3 DEF LedgerOK
<1>7. EventsOK
  BY <1>2, <1>3 DEF EventsOK
<1>8. last.kind = "none" /\ ~Answered
  BY <1>3 DEF Answered
<1>9. AnswersOK /\ RemovedIsGone /\ LatestWordDecides
  BY <1>8 DEF AnswersOK, RemovedIsGone, LatestWordDecides
<1>. QED
  BY <1>4, <1>5, <1>6, <1>7, <1>9 DEF TurnInv

\* What a step that leaves the stores and the answers alone keeps.
LEMMA StoresStay ==
  ASSUME TurnInv, UNCHANGED <<sql, mem, fired, last>>
  PROVE  /\ StoresOK' /\ EventsOK' /\ AnswersOK' /\ RemovedIsGone'
         /\ UNCHANGED ids => LedgerOK'
         /\ UNCHANGED now => LatestWordDecides'
<1>1. StoresOK' /\ EventsOK' /\ AnswersOK'
  BY DEF TurnInv, StoresOK, EventsOK, AnswersOK, Answered
<1>2. RemovedIsGone'
  BY DEF TurnInv, RemovedIsGone, Answered
<1>3. UNCHANGED ids => LedgerOK'
  BY DEF TurnInv, LedgerOK
<1>4. UNCHANGED now => LatestWordDecides'
  <2>1. SUFFICES ASSUME UNCHANGED now PROVE LatestWordDecides'
    OBVIOUS
  <2>2. ASSUME NEW a, NEW name PROVE Word(a, name)' = Word(a, name)
    BY <2>1 DEF Word
  <2>3. ASSUME NEW a PROVE Deciding(a)' = Deciding(a)
    BY <2>2 DEF Deciding
  <2>4. {Plain(s.surrogate) : s \in UNION {Deciding(a) : a \in Range(last.base)}}'
          = {Plain(s.surrogate) : s \in UNION {Deciding(a) : a \in Range(last.base)}}
    BY <2>3
  <2>. QED
    BY <2>4 DEF TurnInv, LatestWordDecides
<1>. QED
  BY <1>1, <1>2, <1>3, <1>4

LEMMA BeginTurn ==
  ASSUME Overlap = FALSE, TurnInv, NEW r \in Requests, NEW c \in Calls, Begin(r, c)
  PROVE  TurnInv'
<1>1. /\ sql.task.state # "none" /\ Quiet
      /\ req' = [req EXCEPT ![r] = [call |-> c, seen |-> sql]]
      /\ UNCHANGED <<sql, mem, fired, now, ids, last>>
  BY DEF Begin
<1>2. TurnsOK'
  <2>1. PICK b : b = [call |-> c, seen |-> sql]
    OBVIOUS
  <2>. b.call = c /\ b.seen = sql
    BY <2>1
  <2>2. DOMAIN req = Requests /\ \A q \in Requests : req[q] = Idle
    BY <1>1 DEF TurnInv, TurnsOK, Quiet
  <2>3. req' = [q \in Requests |-> IF q = r THEN b ELSE req[q]]
    BY <1>1, <2>1, <2>2 DEF TurnInv, TurnsOK
  <2>4. DOMAIN req' = Requests /\ req'[r] = b /\ \A q \in Requests : q # r => req'[q] = Idle
    BY <2>2, <2>3
  <2>5. req' = [q \in Requests |-> req'[q]]
    BY <2>3
  <2>6. \A q \in Requests : req'[q] # Idle => q = r
    BY <2>4
  <2>7. \A q \in Requests : req'[q] # Idle =>
          sql'.task.state # "none" /\ req'[q].seen = sql' /\ req'[q].call \in Calls
    BY <1>1, <2>1, <2>4, <2>6
  <2>. QED
    BY <2>4, <2>5, <2>6, <2>7 DEF TurnsOK
<1>3. /\ StoresOK' /\ EventsOK' /\ AnswersOK' /\ RemovedIsGone' /\ LedgerOK' /\ LatestWordDecides'
  BY <1>1, StoresStay
<1>. QED
  BY <1>2, <1>3 DEF TurnInv

\* A surrogate is saved, changed or removed, or time passes, before there is a task.
LEMMA NoTurns ==
  ASSUME TurnInv, sql.task.state = "none", UNCHANGED req
  PROVE  TurnsOK'
<1>1. \A r \in Requests : req[r] = Idle
  BY DEF TurnInv, TurnsOK
<1>. QED
  BY <1>1 DEF TurnInv, TurnsOK

LEMMA TickTurn ==
  ASSUME TurnInv, Tick
  PROVE  TurnInv'
<1>1. sql.task.state = "none" /\ UNCHANGED <<sql, mem, fired, req, ids, last>>
  BY DEF Tick
<1>2. StoresOK' /\ EventsOK' /\ AnswersOK' /\ RemovedIsGone' /\ LedgerOK'
  BY <1>1, StoresStay
<1>3. TurnsOK'
  BY <1>1, NoTurns
<1>4. last'.kind # "create"
  BY <1>1 DEF TurnInv, AnswersOK
<1>5. LatestWordDecides'
  BY <1>4 DEF LatestWordDecides
<1>. QED
  BY <1>2, <1>3, <1>5 DEF TurnInv

LEMMA LedgerTurn ==
  ASSUME TurnInv, sql.task.state = "none", NEW ledger, BothLedgers(ledger),
         ids' \in Nat, ids <= ids',
         \A s \in ledger : s.id \in 1..ids' /\ s.surrogate \in People \cup {Nobody},
         \A s, t \in ledger : s.id = t.id => s = t
  PROVE  TurnInv'
<1>1. /\ sql' = [sql EXCEPT !.ledger = ledger] /\ mem' = [mem EXCEPT !.ledger = ledger]
      /\ UNCHANGED <<fired, req, last>>
  BY DEF BothLedgers
<1>2. mem = sql /\ StoreOK(sql) /\ sql.rows = <<>>
  BY DEF TurnInv, StoresOK
<1>3. /\ sql' = [task |-> sql.task, rows |-> sql.rows, cc |-> sql.cc, ledger |-> ledger]
      /\ mem' = sql'
  <2>1. PICK t, rows, cc : sql.task = t /\ sql.rows = rows /\ sql.cc = cc
    OBVIOUS
  <2>2. PICK l : l = sql.ledger
    OBVIOUS
  <2>3. sql = [task |-> t, rows |-> rows, cc |-> cc, ledger |-> l]
    BY <1>2, <2>1, <2>2 DEF StoreOK
  <2>. QED
    BY <1>1, <1>2, <2>1, <2>3
<1>4. sql'.task = sql.task /\ sql'.rows = sql.rows /\ sql'.cc = sql.cc /\ sql'.ledger = ledger
  BY <1>3
<1>5. StoreOK(sql')
  BY <1>2, <1>3, <1>4 DEF StoreOK
<1>6. StoresOK'
  BY <1>2, <1>3, <1>4, <1>5 DEF StoresOK
<1>7. TurnsOK'
  BY <1>1, NoTurns
<1>8. LedgerOK'
  BY <1>4 DEF LedgerOK
<1>9. EventsOK'
  BY <1>1, <1>4 DEF TurnInv, EventsOK
<1>10. last'.kind # "create" /\ last' = last
  BY <1>1 DEF TurnInv, AnswersOK
<1>11. AnswersOK'
  BY <1>10 DEF TurnInv, AnswersOK, Answered
<1>12. RemovedIsGone'
  BY <1>4, <1>10 DEF TurnInv, RemovedIsGone, Answered
<1>13. LatestWordDecides'
  BY <1>10 DEF LatestWordDecides
<1>. QED
  BY <1>6, <1>7, <1>8, <1>9, <1>11, <1>12, <1>13 DEF TurnInv

LEMMA RecordMade ==
  ASSUME NEW id, NEW operator, NEW f \in Fields
  PROVE  Record(id, operator, f).id = id /\ Record(id, operator, f).surrogate \in People \cup {Nobody}
<1>1. Record(id, operator, f).id = id /\ Record(id, operator, f).surrogate = f.surrogate
  BY DEF Record
<1>. QED
  BY <1>1, FieldsAssumption

LEMMA SaveTurn ==
  ASSUME TurnInv, NEW operator, NEW f \in Fields, SaveSurrogate(operator, f)
  PROVE  TurnInv'
<1>1. PICK s : s = Record(ids + 1, operator, f) /\ s.id = ids + 1 /\ s.surrogate \in People \cup {Nobody}
  BY RecordMade
<1>2. sql.task.state = "none" /\ ids' = ids + 1 /\ BothLedgers(sql.ledger \cup {s})
  BY <1>1 DEF SaveSurrogate
<1>3. LedgerOK
  BY DEF TurnInv
<1>4. ids' \in Nat /\ ids <= ids'
  BY <1>2, <1>3 DEF LedgerOK
<1>5. \A t \in sql.ledger \cup {s} : t.id \in 1..ids' /\ t.surrogate \in People \cup {Nobody}
  BY <1>1, <1>2, <1>3 DEF LedgerOK
<1>6. \A t, u \in sql.ledger \cup {s} : t.id = u.id => t = u
  BY <1>1, <1>3 DEF LedgerOK
<1>. QED
  BY <1>2, <1>4, <1>5, <1>6, LedgerTurn

LEMMA UpdateTurn ==
  ASSUME TurnInv, NEW s \in sql.ledger, NEW operator, NEW f \in Fields, UpdateSurrogate(s, operator, f)
  PROVE  TurnInv'
<1>1. PICK new : new = Record(s.id, operator, f) /\ new.id = s.id /\ new.surrogate \in People \cup {Nobody}
  BY RecordMade
<1>2. sql.task.state = "none" /\ ids' = ids /\ BothLedgers((sql.ledger \ {s}) \cup {new})
  BY <1>1 DEF UpdateSurrogate
<1>3. LedgerOK
  BY DEF TurnInv
<1>4. ids' \in Nat /\ ids <= ids'
  BY <1>2, <1>3 DEF LedgerOK
<1>5. \A t \in (sql.ledger \ {s}) \cup {new} : t.id \in 1..ids' /\ t.surrogate \in People \cup {Nobody}
  BY <1>1, <1>2, <1>3 DEF LedgerOK
<1>6. \A t, u \in (sql.ledger \ {s}) \cup {new} : t.id = u.id => t = u
  BY <1>1, <1>3 DEF LedgerOK
<1>. QED
  BY <1>2, <1>4, <1>5, <1>6, LedgerTurn

LEMMA DropTurn ==
  ASSUME TurnInv, NEW s \in sql.ledger, RemoveSurrogate(s)
  PROVE  TurnInv'
<1>1. sql.task.state = "none" /\ ids' = ids /\ BothLedgers(sql.ledger \ {s})
  BY DEF RemoveSurrogate
<1>2. LedgerOK
  BY DEF TurnInv
<1>3. ids' \in Nat /\ ids <= ids'
  BY <1>1, <1>2 DEF LedgerOK
<1>4. \A t \in sql.ledger \ {s} : t.id \in 1..ids' /\ t.surrogate \in People \cup {Nobody}
  BY <1>1, <1>2 DEF LedgerOK
<1>5. \A t, u \in sql.ledger \ {s} : t.id = u.id => t = u
  BY <1>2 DEF LedgerOK
<1>. QED
  BY <1>1, <1>3, <1>4, <1>5, LedgerTurn

\* The answer both repositories give to a request whose turn it is.
LEMMA OneAnswer ==
  ASSUME TurnInv, NEW r \in Requests, Finish(r)
  PROVE  \E c, a :
           /\ c \in Calls /\ c = req[r].call
           /\ a = MemDo(c, sql) /\ Keeps(c, sql, a)
           /\ sql.task.state # "none"
           /\ sql' = a.st /\ mem' = a.st /\ fired' = fired \o a.new
           /\ last' = [kind |-> c.kind, call |-> c, sqlOk |-> a.ok, memOk |-> a.ok, memNew |-> TRUE]

<1>1. PICK c : c \in Calls /\ c = req[r].call /\ req[r].seen = sql /\ sql.task.state # "none"
  BY DEF Finish, TurnInv, TurnsOK
<1>2. mem = sql /\ StoreOK(sql)
  BY DEF TurnInv, StoresOK
<1>3. PICK a : a = MemDo(c, sql) /\ a = SqlDo(c, sql, sql, sql) /\ Keeps(c, sql, a)
  BY <1>1, <1>2, DoKeeps
<1>4. \E look \in {req[r].seen, sql} :
        LET s == SqlDo(c, req[r].seen, sql, look)
        IN /\ sql' = s.st
           /\ mem' = MemDo(c, mem).st
           /\ fired' = fired \o s.new
           /\ last' = [kind |-> c.kind, call |-> c, sqlOk |-> s.ok, memOk |-> MemDo(c, mem).ok,
                       memNew |-> MemDo(c, mem).new = s.new]
  BY <1>1 DEF Finish
<1>5. /\ sql' = a.st /\ mem' = a.st /\ fired' = fired \o a.new
      /\ last' = [kind |-> c.kind, call |-> c, sqlOk |-> a.ok, memOk |-> a.ok, memNew |-> a.new = a.new]
  BY <1>1, <1>2, <1>3, <1>4, Zenon
<1>6. last' = [kind |-> c.kind, call |-> c, sqlOk |-> a.ok, memOk |-> a.ok, memNew |-> TRUE]
  BY <1>5, Zenon
<1>. QED
  BY <1>1, <1>3, <1>5, <1>6, Zenon

LEMMA FinishTurn ==
  ASSUME TurnInv, NEW r \in Requests, Finish(r)
  PROVE  TurnInv'
<1>1. PICK c, a :
        /\ c \in Calls
        /\ Keeps(c, sql, a)
        /\ sql' = a.st /\ mem' = a.st /\ fired' = fired \o a.new
        /\ last' = [kind |-> c.kind, call |-> c, sqlOk |-> a.ok, memOk |-> a.ok, memNew |-> TRUE]
  BY OneAnswer, Zenon
<1>2. /\ StoreOK(sql') /\ sql'.ledger = sql.ledger /\ sql'.task.state # "none"
      /\ CcNames(sql'.cc) = CcNames(sql.cc) \o a.new
      /\ a.ok /\ c.kind = "remove" => Persons(sql'.rows) \cap Persons(normalize_actors(c.raw)) = {}
      /\ a.ok /\ c.kind = "purge" => \A v \in Range(normalize_actors(c.raw)) : ~Contains(sql'.rows, v)
  BY <1>1, Zenon DEF Keeps
<1>3. StoresOK'
  BY <1>1, <1>2 DEF StoresOK
<1>4. TurnsOK'
  <2>1. req' = [req EXCEPT ![r] = Idle] /\ req[r] # Idle
    BY DEF Finish
  <2>2. \A q \in Requests : q # r => req[q] = Idle
    BY <2>1 DEF TurnInv, TurnsOK
  <2>3. DOMAIN req' = Requests /\ \A q \in Requests : req'[q] = Idle
    BY <2>1, <2>2 DEF TurnInv, TurnsOK
  <2>4. req' = [q \in Requests |-> req'[q]]
    BY <2>1, <2>3 DEF TurnInv, TurnsOK
  <2>. QED
    BY <2>3, <2>4 DEF TurnsOK
<1>5. LedgerOK'
  <2>1. UNCHANGED ids
    BY DEF Finish
  <2>. QED
    BY <1>2, <2>1 DEF TurnInv, LedgerOK
<1>6. EventsOK'
  BY <1>1, <1>2 DEF TurnInv, EventsOK
<1>7. /\ last'.kind = c.kind /\ last'.call = c /\ last'.kind \in CallKinds
      /\ last'.sqlOk = a.ok /\ last'.memOk = a.ok /\ last'.memNew
  BY <1>1, CallsAssumption, Zenon
<1>8. last'.kind # "create"
  BY <1>7 DEF CallKinds
<1>9. AnswersOK'
  BY <1>7, <1>8, Zenon DEF AnswersOK
<1>10. RemovedIsGone'
  BY <1>2, <1>7, Zenon DEF RemovedIsGone
<1>11. LatestWordDecides'
  BY <1>8 DEF LatestWordDecides
<1>. QED
  BY <1>3, <1>4, <1>5, <1>6, <1>9, <1>10, <1>11 DEF TurnInv

(***************************************************************************)
(* A new task: both repositories find the same surrogates, at most one for *)
(* a principal, and the rows stand for the actors and for them.            *)
(***************************************************************************)
LEMMA NamedProcess ==
  ASSUME NEW p \in Processes
  PROVE  p # AllProcesses
BY Zenon DEF Processes, AllProcesses

LEMMA FoundSame ==
  ASSUME NEW ledger, NEW w, NEW p \in Processes, NEW at
  PROVE  SqlGetSurrogate(ledger, w, p, at) = MemGetSurrogate(ledger, w, p, at)
<1>1. p # AllProcesses
  BY NamedProcess
<1>. DEFINE Of(n) == {s \in ledger : s.operator = w /\ s.processName = n}
            Live(n) == {s \in Newest(Of(n)) : is_effective(s, w, at)}
            mine == {s \in ledger : s.operator = w}
<1>2. {s \in mine : p # AllProcesses /\ s.processName = p} = Of(p)
  BY <1>1
<1>3. {s \in mine : s.processName = AllProcesses} = Of(AllProcesses)
  OBVIOUS
<1>4. SqlGetSurrogate(ledger, w, p, at) = IF Live(p) # {} THEN Live(p) ELSE Live(AllProcesses)
  BY Zenon DEF SqlGetSurrogate, QueryNewest
<1>5. MemGetSurrogate(ledger, w, p, at) = IF Live(p) # {} THEN Live(p) ELSE Live(AllProcesses)
  BY <1>2, <1>3, Zenon DEF MemGetSurrogate, Effective
<1>. QED
  BY <1>4, <1>5

\* What get_surrogate may return: nobody, or one record that names a person.
OneOrNone(found) == found = {} \/ \E s : found = {s} /\ s.surrogate \in People

LEMMA FoundOne ==
  ASSUME LedgerOK, NEW w, NEW p, NEW at
  PROVE  OneOrNone(SqlGetSurrogate(sql.ledger, w, p, at))
<1>. DEFINE Live(n) == {s \in QueryNewest(sql.ledger, w, n) : is_effective(s, w, at)}
<1>1. ASSUME NEW n PROVE OneOrNone(Live(n))
  <2>1. SUFFICES ASSUME NEW s \in Live(n) PROVE Live(n) = {s} /\ s.surrogate \in People
    BY DEF OneOrNone
  <2>2. /\ s \in sql.ledger /\ is_effective(s, w, at)
        /\ \A t \in Live(n) : t \in sql.ledger /\ t.id <= s.id /\ s.id <= t.id
    BY DEF QueryNewest, Newest
  <2>3. s.surrogate \in People
    BY <2>2 DEF LedgerOK, is_effective
  <2>4. \A t \in Live(n) : t.id = s.id
    BY <2>2 DEF LedgerOK
  <2>5. \A t \in Live(n) : t = s
    BY <2>2, <2>4 DEF LedgerOK
  <2>. QED
    BY <2>3, <2>5
<1>2. SqlGetSurrogate(sql.ledger, w, p, at) = IF Live(p) # {} THEN Live(p) ELSE Live(AllProcesses)
  BY Zenon DEF SqlGetSurrogate
<1>3. OneOrNone(Live(p)) /\ OneOrNone(Live(AllProcesses))
  BY <1>1, Zenon
<1>. QED
  BY <1>2, <1>3, Zenon

\* The people the records found for some actors name.
Agents(found, actors) == {Plain(s.surrogate) : s \in UNION {found[a] : a \in actors}}

LEMMA ExpandFacts ==
  ASSUME NEW base \in Seq(Value), NEW found, \A v \in Range(base) : OneOrNone(found[v])
  PROVE  /\ expand(base, found) \in Seq(Value)
         /\ Range(expand(base, found)) = Range(base) \cup Agents(found, Range(base))
<1>. DEFINE served == Keep(base, {v \in Range(base) : found[v] # {}})
            Agent(v) == Plain((CHOOSE s \in found[v] : TRUE).surrogate)
            agents == [i \in DOMAIN served |-> Agent(served[i])]
<1>1. expand(base, found) = Merge(base, agents)
  BY Zenon DEF expand
<1>2. served \in Seq(Value) /\ Range(served) = {v \in Range(base) : found[v] # {}}
  <2>. HIDE DEF served
  <2>1. /\ Keep(base, {v \in Range(base) : found[v] # {}}) \in Seq(Value)
        /\ Range(Keep(base, {v \in Range(base) : found[v] # {}}))
             = Range(base) \cap {v \in Range(base) : found[v] # {}}
    BY KeepFacts
  <2>. QED
    BY <2>1 DEF served
<1>3. ASSUME NEW v \in Range(base), found[v] # {}
      PROVE  Agent(v) \in Value /\ \E s : found[v] = {s} /\ Agent(v) = Plain(s.surrogate)
  <2>1. PICK s : found[v] = {s} /\ s.surrogate \in People
    BY <1>3 DEF OneOrNone
  <2>2. (CHOOSE t \in {s} : TRUE) = s
    OBVIOUS
  <2>3. Agent(v) = Plain(s.surrogate)
    BY <2>1, <2>2, Zenon
  <2>. QED
    BY <2>1, <2>3, Plainly
<1>. HIDE DEF Agent, served
<1>4. agents \in Seq(Value) /\ Range(agents) = {Agent(v) : v \in Range(served)}
  <2>1. PICK n \in Nat : n = Len(served) /\ DOMAIN served = 1..n /\ \A i \in 1..n : served[i] \in Range(served)
    BY <1>2 DEF Range
  <2>2. agents = [i \in 1..n |-> Agent(served[i])] /\ \A i \in 1..n : Agent(served[i]) \in Value
    BY <1>2, <1>3, <2>1
  <2>3. agents \in Seq(Value)
    BY <2>2
  <2>. QED
    BY <2>1, <2>2, <2>3 DEF Range
<1>. HIDE DEF agents
<1>5. Merge(base, agents) \in Seq(Value) /\ Range(Merge(base, agents)) = Range(base) \cup Range(agents)
  BY <1>4, MergeFacts
<1>6. ASSUME NEW v \in Range(agents) PROVE v \in Agents(found, Range(base))
  <2>1. PICK b \in Range(base) : found[b] # {} /\ v = Agent(b)
    BY <1>2, <1>4
  <2>2. PICK s : found[b] = {s} /\ v = Plain(s.surrogate)
    BY <1>3, <2>1
  <2>. QED
    BY <2>2 DEF Agents
<1>7. ASSUME NEW v \in Agents(found, Range(base)) PROVE v \in Range(agents)
  <2>1. PICK s \in UNION {found[a] : a \in Range(base)} : v = Plain(s.surrogate)
    BY DEF Agents
  <2>2. PICK b \in Range(base) : s \in found[b]
    OBVIOUS
  <2>3. PICK t : found[b] = {t} /\ Agent(b) = Plain(t.surrogate)
    BY <1>3, <2>2
  <2>4. t = s /\ b \in Range(served)
    BY <1>2, <2>2, <2>3
  <2>. QED
    BY <1>4, <2>1, <2>3, <2>4
<1>. QED
  BY <1>1, <1>5, <1>6, <1>7

\* The step that creates the task, told once: one list of rows in both stores.
LEMMA TaskRows ==
  ASSUME TurnInv, NEW next \in NextOperators, NEW resolved \in Resolved, NEW p \in Processes,
         CreateTask(next, resolved, p)
  PROVE  \E rows, hit :
           /\ rows \in Seq(Value)
           /\ sql' = [task |-> NewTask(p), rows |-> rows, cc |-> sql.cc, ledger |-> sql.ledger]
           /\ mem' = sql'
           /\ Range(rows) = Range(last'.base) \cup Agents(hit, Range(last'.base))
           /\ \A a \in Range(last'.base) : hit[a] = SqlGetSurrogate(sql.ledger, a, p, now)
<1>1. PICK base : base = resolve_actors(next, resolved)
  OBVIOUS
<1>2. next \in Seq(Value) /\ resolved \in Seq(Value)
  BY RowsAssumption
<1>3. base \in Seq(Value)
  BY <1>1, <1>2, NormalizeFacts DEF resolve_actors
<1>. DEFINE sqlHit == [a \in Range(base) |-> SqlGetSurrogate(sql.ledger, a, p, now)]
            memHit == [a \in Range(base) |-> MemGetSurrogate(mem.ledger, a, p, now)]
<1>4. mem = sql /\ StoreOK(sql) /\ sql.task.state = "none" /\ sql.rows = <<>>
  BY DEF CreateTask, TurnInv, StoresOK
<1>5. /\ sql' = SqlSaveTask(sql, NewTask(p), expand(base, sqlHit))
      /\ mem' = MemSaveTask(mem, NewTask(p), expand(base, memHit))
      /\ last' = [kind |-> "create", base |-> base]
  BY <1>1, Zenon DEF CreateTask
<1>6. memHit = sqlHit
  <2>1. ASSUME NEW w PROVE SqlGetSurrogate(sql.ledger, w, p, now) = MemGetSurrogate(sql.ledger, w, p, now)
    BY FoundSame
  <2>. QED
    BY <1>4, <2>1
<1>7. PICK hit : /\ hit = sqlHit
                 /\ \A a \in Range(base) : hit[a] = SqlGetSurrogate(sql.ledger, a, p, now)
  <2>1. \A a \in Range(base) : sqlHit[a] = SqlGetSurrogate(sql.ledger, a, p, now)
    OBVIOUS
  <2>. HIDE DEF sqlHit
  <2>. QED
    BY <2>1
<1>8. \A v \in Range(base) : OneOrNone(hit[v])
  <2>1. LedgerOK
    BY DEF TurnInv
  <2>. QED
    BY <1>7, <2>1, FoundOne
<1>9. PICK rows : rows = expand(base, hit)
  OBVIOUS
<1>10. rows \in Seq(Value) /\ Range(rows) = Range(base) \cup Agents(hit, Range(base))
  BY <1>3, <1>8, <1>9, ExpandFacts
<1>11. last'.base = base
  BY <1>5
<1>13. sql' = [sql EXCEPT !.task = NewTask(p), !.rows = rows] /\ mem' = sql'
  <2>1. sql' = SqlSaveTask(sql, NewTask(p), rows) /\ mem' = MemSaveTask(sql, NewTask(p), rows)
    BY <1>4, <1>5, <1>6, <1>7, <1>9, Zenon
  <2>2. (IF rows = <<>> THEN sql.rows ELSE rows) = rows
    BY <1>4
  <2>3. mem' = [sql EXCEPT !.task = NewTask(p), !.rows = IF rows = <<>> THEN sql.rows ELSE rows]
    BY <2>1, Zenon DEF MemSaveTask
  <2>. QED
    BY <2>1, <2>2, <2>3, Zenon DEF SqlSaveTask
<1>14. sql' = [task |-> NewTask(p), rows |-> rows, cc |-> sql.cc, ledger |-> sql.ledger]
  <2>1. PICK st, new, t : st = sql /\ new = sql' /\ t = NewTask(p)
    OBVIOUS
  <2>2. StoreOK(st) /\ new = [st EXCEPT !.task = t, !.rows = rows]
    BY <1>4, <1>13, <2>1
  <2>3. new = [task |-> t, rows |-> rows, cc |-> st.cc, ledger |-> st.ledger]
    BY <2>2, UpdatedBoth, Zenon
  <2>. QED
    BY <2>1, <2>3
<1>. QED
  BY <1>7, <1>10, <1>11, <1>13, <1>14, Zenon

LEMMA CreateTurn ==
  ASSUME TurnInv, NEW next \in NextOperators, NEW resolved \in Resolved, NEW p \in Processes,
         CreateTask(next, resolved, p)
  PROVE  TurnInv'
<1>1. PICK rows, hit :
        /\ rows \in Seq(Value)
        /\ sql' = [task |-> NewTask(p), rows |-> rows, cc |-> sql.cc, ledger |-> sql.ledger]
        /\ mem' = sql'
        /\ Range(rows) = Range(last'.base) \cup Agents(hit, Range(last'.base))
        /\ \A a \in Range(last'.base) : hit[a] = SqlGetSurrogate(sql.ledger, a, p, now)
  BY TaskRows, Zenon
<1>2. PICK t : t = NewTask(p) /\ IsTask(t) /\ t.state = "doing" /\ t.process = p
  BY TasksMade
<1>3. sql' = [task |-> t, rows |-> rows, cc |-> sql.cc, ledger |-> sql.ledger]
  BY <1>1, <1>2
<1>4. sql'.task = t /\ sql'.rows = rows /\ sql'.cc = sql.cc /\ sql'.ledger = sql.ledger
  BY <1>3
<1>5. /\ UNCHANGED <<fired, req, now, ids>> /\ sql.task.state = "none"
      /\ last' = [kind |-> "create", base |-> resolve_actors(next, resolved)]
  BY DEF CreateTask
<1>6. last'.kind = "create" /\ ~Answered'
  BY <1>5 DEF Answered
<1>7. StoresOK'
  <2>1. StoreOK(sql')
    BY <1>1, <1>2, <1>3, <1>4 DEF TurnInv, StoresOK, StoreOK
  <2>. QED
    BY <1>1, <1>2, <1>4, <2>1 DEF StoresOK
<1>8. TurnsOK'
  BY <1>5, NoTurns
<1>9. LedgerOK'
  BY <1>4, <1>5 DEF TurnInv, LedgerOK
<1>10. EventsOK'
  BY <1>4, <1>5 DEF TurnInv, EventsOK
<1>11. AnswersOK'
  BY <1>2, <1>4, <1>6 DEF AnswersOK
<1>12. RemovedIsGone'
  BY <1>6 DEF RemovedIsGone
<1>13. LatestWordDecides'
  <2>1. ASSUME NEW a, NEW name
        PROVE  Word(a, name)' = {s \in QueryNewest(sql.ledger, a, name) : is_effective(s, a, now)}
    BY <1>4, <1>5 DEF Word, QueryNewest
  <2>2. ASSUME NEW a PROVE Deciding(a)' = SqlGetSurrogate(sql.ledger, a, p, now)
    BY <1>2, <1>4, <2>1, Zenon DEF Deciding, SqlGetSurrogate
  <2>3. Agents(hit, Range(last'.base)) =
          {Plain(s.surrogate) : s \in UNION {Deciding(a)' : a \in Range(last'.base)}}
    BY <1>1, <2>2 DEF Agents
  <2>4. Range(sql'.rows) = Range(last'.base)
          \cup {Plain(s.surrogate) : s \in UNION {Deciding(a)' : a \in Range(last'.base)}}
    BY <1>1, <1>4, <2>3
  <2>. QED
    BY <2>4 DEF LatestWordDecides
<1>. QED
  BY <1>7, <1>8, <1>9, <1>10, <1>11, <1>12, <1>13 DEF TurnInv

(***************************************************************************)
(* What the invariant says.                                                *)
(***************************************************************************)
LEMMA TurnNext ==
  ASSUME Overlap = FALSE, TurnInv, [Next]_vars
  PROVE  TurnInv'
<1>1. ASSUME NEW r \in Requests, NEW c \in Calls, Begin(r, c) PROVE TurnInv'
  BY <1>1, BeginTurn
<1>2. ASSUME NEW r \in Requests, Finish(r) PROVE TurnInv'
  BY <1>2, FinishTurn
<1>3. ASSUME NEW operator \in Principals, NEW f \in Fields, SaveSurrogate(operator, f) PROVE TurnInv'
  BY <1>3, SaveTurn
<1>4. ASSUME NEW s \in sql.ledger, NEW operator \in Principals, NEW f \in Fields, UpdateSurrogate(s, operator, f)
      PROVE  TurnInv'
  BY <1>4, UpdateTurn
<1>5. ASSUME NEW s \in sql.ledger, RemoveSurrogate(s) PROVE TurnInv'
  BY <1>5, DropTurn
<1>6. ASSUME NEW next \in NextOperators, NEW resolved \in Resolved, NEW p \in Processes,
             CreateTask(next, resolved, p)
      PROVE  TurnInv'
  BY <1>6, CreateTurn
<1>7. ASSUME Tick PROVE TurnInv'
  BY <1>7, TickTurn
<1>8. ASSUME UNCHANGED vars PROVE TurnInv'
  <2>1. UNCHANGED <<sql, mem, fired, req, now, ids, last>>
    BY <1>8 DEF vars
  <2>2. StoresOK' /\ EventsOK' /\ AnswersOK' /\ RemovedIsGone' /\ LedgerOK' /\ LatestWordDecides'
    BY <2>1, StoresStay
  <2>3. TurnsOK'
    BY <2>1 DEF TurnInv, TurnsOK
  <2>. QED
    BY <2>2, <2>3 DEF TurnInv
<1>. QED
  BY <1>1, <1>2, <1>3, <1>4, <1>5, <1>6, <1>7, <1>8 DEF Next

\* Of two equal stores the lists a person asks for are the same.
LEMMA SameLists ==
  ASSUME NEW st, NEW v \in Value \ {Blank}
  PROVE  SqlTodo(st, v) = MemTodo(st, v) /\ SqlDone(st, v) = MemDone(st, v)
<1>1. v # NoValue /\ v # Blank
  <2>1. v # Blank /\ v.who \in People
    BY TrimFacts
  <2>2. NoValue.who = Nobody
    BY DEF NoValue
  <2>. QED
    BY <2>1, <2>2, NobodyAssumption
<1>2. SqlTodo(st, v) = MemTodo(st, v)
  BY <1>1, Zenon DEF SqlTodo, MemTodo
<1>3. SqlDone(st, v) = MemDone(st, v)
  BY <1>1, Zenon DEF SqlDone, MemDone
<1>. QED
  BY <1>2, <1>3, Zenon

\* A person has at most one cc row, so a page joins the instance at most once.
LEMMA RowsOfOne ==
  ASSUME NEW cc, CcOK(cc), NEW v
  PROVE  Cardinality({i \in DOMAIN cc : cc[i].actor = v}) = IF v \in CcActors(cc) THEN 1 ELSE 0
<1>1. PICK n \in Nat : n = Len(cc) /\ DOMAIN cc = 1..n
  BY DEF CcOK
<1>2. /\ DOMAIN CcNames(cc) = 1..n /\ IsInjective(CcNames(cc))
      /\ \A i \in 1..n : CcNames(cc)[i] = cc[i].actor
  BY <1>1 DEF CcNames, CcOK
<1>3. CASE v \in CcActors(cc)
  <2>1. PICK i \in 1..n : cc[i].actor = v
    BY <1>2, <1>3 DEF CcActors, Range
  <2>2. \A j \in 1..n : cc[j].actor = v => j = i
    BY <1>2, <2>1 DEF IsInjective
  <2>3. {j \in DOMAIN cc : cc[j].actor = v} = {i}
    BY <1>1, <2>1, <2>2
  <2>. QED
    BY <1>3, <2>3, FS_Singleton
<1>4. CASE v \notin CcActors(cc)
  <2>1. {j \in DOMAIN cc : cc[j].actor = v} = {}
    BY <1>1, <1>2, <1>4 DEF CcActors, Range
  <2>. QED
    BY <1>4, <2>1, FS_EmptySet
<1>. QED
  BY <1>3, <1>4

LEMMA SamePages ==
  ASSUME NEW st, CcOK(st.cc), NEW v \in Value \ {Blank}
  PROVE  /\ \A cond \in {NoCondition, <<v>>} : SqlCcPage(st, v, cond) = MemCcPage(st, v, cond)
         /\ SqlCcPage(st, NoValue, <<v>>) = MemCcPage(st, NoValue, <<v>>)
<1>1. v # NoValue /\ v # Blank /\ ~BlankValue(v) /\ BlankValue(NoValue)
  <2>1. v # Blank /\ v.who \in People
    BY TrimFacts
  <2>2. NoValue.who = Nobody
    BY DEF NoValue
  <2>. QED
    BY <2>1, <2>2, NobodyAssumption DEF BlankValue
<1>2. <<v>> # NoCondition /\ <<v>>[1] = v
  BY DEF NoCondition
<1>. DEFINE Rows == {i \in DOMAIN st.cc : st.cc[i].actor = v}
<1>3. v \in CcActors(st.cc) => st.cc # <<>>
  <2>1. \A cc : cc = <<>> => DOMAIN cc = {}
    OBVIOUS
  <2>2. v \in CcActors(st.cc) => DOMAIN st.cc # {}
    BY DEF CcActors, CcNames, Range
  <2>. QED
    BY <2>1, <2>2, Zenon
<1>4. Cardinality(Rows) = IF v \in CcActors(st.cc) THEN 1 ELSE 0
  BY RowsOfOne
<1>5. ASSUME NEW cond, cond = NoCondition \/ cond = <<v>>
      PROVE  /\ SqlCcPage(st, v, cond) = Cardinality(Rows)
             /\ MemCcPage(st, v, cond) = IF v \in CcActors(st.cc) THEN 1 ELSE 0
  <2>1. HasOwner(v, cond)
    BY <1>1 DEF HasOwner
  <2>2. cond # NoCondition => cond[1] = v
    BY <1>2, <1>5
  <2>3. {i \in DOMAIN st.cc : /\ BlankValue(v) \/ st.cc[i].actor = v
                              /\ SqlCond(cond, {st.cc[i].actor})} = Rows
    BY <1>1, <2>2 DEF SqlCond
  <2>4. v \in CcActors(st.cc) => MemCond(cond, CcActors(st.cc))
    BY <2>2 DEF MemCond
  <2>5. SqlCcPage(st, v, cond) = Cardinality(Rows)
    BY <2>1, <2>3, Zenon DEF SqlCcPage
  <2>6. MemCcPage(st, v, cond) = IF v \in CcActors(st.cc) THEN 1 ELSE 0
    BY <1>1, <1>3, <2>1, <2>4, Zenon DEF MemCcPage
  <2>. QED
    BY <2>5, <2>6
<1>6. SqlCcPage(st, NoValue, <<v>>) = MemCcPage(st, NoValue, <<v>>)
  <2>1. HasOwner(NoValue, <<v>>)
    BY <1>1, <1>2 DEF HasOwner
  <2>2. {i \in DOMAIN st.cc : /\ BlankValue(NoValue) \/ st.cc[i].actor = NoValue
                              /\ SqlCond(<<v>>, {st.cc[i].actor})} = Rows
    BY <1>1, <1>2 DEF SqlCond
  <2>3. MemCond(<<v>>, CcActors(st.cc)) <=> v \in CcActors(st.cc)
    BY <1>1, <1>2 DEF MemCond
  <2>4. SqlCcPage(st, NoValue, <<v>>) = Cardinality(Rows)
    BY <2>1, <2>2, Zenon DEF SqlCcPage
  <2>5. MemCcPage(st, NoValue, <<v>>) = IF v \in CcActors(st.cc) THEN 1 ELSE 0
    BY <1>3, <2>1, <2>3, Zenon DEF MemCcPage
  <2>. QED
    BY <1>4, <2>4, <2>5
<1>. QED
  BY <1>4, <1>5, <1>6

\* With neither an owner nor a condition nobody's page is asked for.
LEMMA NobodysPage ==
  ASSUME NEW st, NEW su
  PROVE  SqlCcPage(st, NoValue, NoCondition) = MemCcPage(su, NoValue, NoCondition)
<1>1. ~HasOwner(NoValue, NoCondition)
  BY DEF HasOwner, BlankValue
<1>. QED
  BY <1>1 DEF SqlCcPage, MemCcPage

LEMMA TwinsFollow ==
  ASSUME TurnInv
  PROVE  TwinsAgree
<1>1. sql = mem /\ CcOK(sql.cc)
  BY DEF TurnInv, StoresOK, StoreOK
<1>2. Answered => last.sqlOk = last.memOk /\ last.memNew
  BY Zenon DEF TurnInv, AnswersOK
<1>3. ASSUME NEW v \in Value \ {Blank}
      PROVE  SqlTodo(sql, v) = MemTodo(mem, v) /\ SqlDone(sql, v) = MemDone(mem, v)
  BY <1>1, SameLists, Zenon
<1>4. ASSUME NEW v \in Value \ {Blank}
      PROVE  /\ \A cond \in {NoCondition, <<v>>} : SqlCcPage(sql, v, cond) = MemCcPage(mem, v, cond)
             /\ SqlCcPage(sql, NoValue, <<v>>) = MemCcPage(mem, NoValue, <<v>>)
  BY <1>1, SamePages, Zenon
<1>5. SqlCcPage(sql, NoValue, NoCondition) = MemCcPage(mem, NoValue, NoCondition)
  BY NobodysPage
<1>. QED
  BY <1>1, <1>2, <1>3, <1>4, <1>5, Zenon DEF TwinsAgree

LEMMA CopiesFollow ==
  ASSUME TurnInv
  PROVE  CopiedOnce
<1>1. PICK n \in Nat : n = Len(sql.cc) /\ DOMAIN sql.cc = 1..n /\ IsInjective(CcNames(sql.cc))
  BY DEF TurnInv, StoresOK, StoreOK, CcOK
<1>2. fired = [i \in 1..n |-> sql.cc[i].actor]
  BY <1>1 DEF TurnInv, EventsOK, CcNames
<1>3. IsInjective(fired)
  BY <1>1 DEF TurnInv, EventsOK
<1>4. Len(fired) = n /\ DOMAIN fired = 1..n /\ \A i \in 1..n : fired[i] = sql.cc[i].actor
  BY <1>2
<1>. QED
  BY <1>1, <1>3, <1>4 DEF CopiedOnce

\* No step but a deletion straight at the repository empties a task: the rows of a
\* task that has people change only when a request is answered.
LEMMA StepLeavesSomeone ==
  ASSUME Overlap = FALSE, TurnInv, [Next]_vars
  PROVE  last'.kind # "purge" /\ Persons(sql.rows) # {} => Persons(sql'.rows) # {}
<1>1. ASSUME NEW r \in Requests, Finish(r)
      PROVE  last'.kind # "purge" /\ Persons(sql.rows) # {} => Persons(sql'.rows) # {}
  <2>1. PICK c, a :
          /\ Keeps(c, sql, a)
          /\ sql' = a.st
          /\ last' = [kind |-> c.kind, call |-> c, sqlOk |-> a.ok, memOk |-> a.ok, memNew |-> TRUE]
    BY <1>1, OneAnswer, Zenon
  <2>2. last'.kind = c.kind
    BY <2>1, Zenon
  <2>. QED
    BY <2>1, <2>2, Zenon DEF Keeps
<1>2. ASSUME sql'.rows = sql.rows
      PROVE  last'.kind # "purge" /\ Persons(sql.rows) # {} => Persons(sql'.rows) # {}
  BY <1>2
<1>3. ASSUME sql.task.state = "none" PROVE Persons(sql.rows) = {}
  <2>1. sql.rows = <<>>
    BY <1>3 DEF TurnInv, StoresOK
  <2>. QED
    BY <2>1 DEF Persons
<1>4. ASSUME NEW operator \in Principals, NEW f \in Fields, SaveSurrogate(operator, f)
      PROVE  sql.task.state = "none"
  BY <1>4 DEF SaveSurrogate
<1>5. ASSUME NEW s \in sql.ledger, NEW operator \in Principals, NEW f \in Fields, UpdateSurrogate(s, operator, f)
      PROVE  sql.task.state = "none"
  BY <1>5 DEF UpdateSurrogate
<1>6. ASSUME NEW s \in sql.ledger, RemoveSurrogate(s) PROVE sql.task.state = "none"
  BY <1>6 DEF RemoveSurrogate
<1>7. ASSUME NEW next \in NextOperators, NEW resolved \in Resolved, NEW p \in Processes,
             CreateTask(next, resolved, p)
      PROVE  sql.task.state = "none"
  BY <1>7 DEF CreateTask
<1>8. ASSUME NEW r \in Requests, NEW c \in Calls, Begin(r, c) PROVE sql'.rows = sql.rows
  BY <1>8 DEF Begin
<1>9. ASSUME Tick PROVE sql'.rows = sql.rows
  BY <1>9 DEF Tick
<1>10. ASSUME UNCHANGED vars PROVE sql'.rows = sql.rows
  BY <1>10 DEF vars
<1>. QED
  BY <1>1, <1>2, <1>3, <1>4, <1>5, <1>6, <1>7, <1>8, <1>9, <1>10 DEF Next

(***************************************************************************)
(* The theorems, for requests that take turns.                             *)
(***************************************************************************)
LEMMA TurnsInvariant ==
  ASSUME Overlap = FALSE
  PROVE  Spec => []TurnInv
<1>1. Init => TurnInv
  BY TurnInit
<1>2. TurnInv /\ [Next]_vars => TurnInv'
  BY TurnNext, Zenon
<1>. QED
  BY <1>1, <1>2, PTL DEF Spec

\* After the same requests both repositories hold the same task, actors in the same
\* order, cc rows and surrogates, have given the same answers, and show everybody the
\* same lists: whatever the people, the old rows, the ledger and the calls.
THEOREM TwinsAgreeHolds ==
  ASSUME Overlap = FALSE
  PROVE  Spec => []TwinsAgree
<1>1. TurnInv => TwinsAgree
  BY TwinsFollow
<1>. QED
  BY <1>1, TurnsInvariant, PTL

\* A removal that reports success has removed the person in whatever form the rows
\* held the name.
THEOREM RemovedIsGoneHolds ==
  ASSUME Overlap = FALSE
  PROVE  Spec => []RemovedIsGone
<1>1. TurnInv => RemovedIsGone
  BY DEF TurnInv
<1>. QED
  BY <1>1, TurnsInvariant, PTL

\* One cc row and one CC_CREATE event for each person copied, however often and in
\* whatever form the copy is asked for.
THEOREM CopiedOnceHolds ==
  ASSUME Overlap = FALSE
  PROVE  Spec => []CopiedOnce
<1>1. TurnInv => CopiedOnce
  BY CopiesFollow
<1>. QED
  BY <1>1, TurnsInvariant, PTL

\* A new task belongs to those it was resolved to, as they were named, and to the
\* surrogates the latest records under those names give, whatever lists a node
\* resolves to and whatever ledger the saves, changes and removals left.
THEOREM LatestWordDecidesHolds ==
  ASSUME Overlap = FALSE
  PROVE  Spec => []LatestWordDecides
<1>1. TurnInv => LatestWordDecides
  BY DEF TurnInv
<1>. QED
  BY <1>1, TurnsInvariant, PTL

\* No transfer, removal or addition through the facade leaves a task whose rows name
\* somebody with rows that name nobody.
THEOREM NeverEmptiedHolds ==
  ASSUME Overlap = FALSE
  PROVE  Spec => NeverEmptied
<1>1. TurnInv /\ [Next]_vars =>
        [last'.kind # "purge" /\ Persons(sql.rows) # {} => Persons(sql'.rows) # {}]_vars
  BY StepLeavesSomeone
<1>. QED
  BY <1>1, TurnsInvariant, PTL DEF Spec, NeverEmptied
=============================================================================
