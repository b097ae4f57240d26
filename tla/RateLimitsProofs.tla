---------------------------- MODULE RateLimitsProofs ----------------------------
(***************************************************************************)
(* Proofs about RateLimits, for any keys, limits, windows and number of      *)
(* requests.                                                                 *)
(***************************************************************************)
EXTENDS RateLimits, FiniteSetTheorems, TLAPS

-----------------------------------------------------------------------------
(* Sets of positions *)

Increasing(f) == \A m, n \in DOMAIN f : m < n => f[m] < f[n]
Enumerable(K) == \E f \in [1 .. Cardinality(K) -> K] : Increasing(f)

\* A set of naturals that is not empty has a least element.
LEMMA Least ==
  ASSUME NEW T \in SUBSET Nat, T # {}
  PROVE  \E n \in T : \A m \in T : n <= m
<1>1. PICK n \in T : \A m \in T : ~(<<m, n>> \in OpToRel(<, Nat))
  BY NatLessThanWellFounded, WFMin
<1>2. \A m \in T : ~(m < n)
  BY <1>1 DEF OpToRel
<1>3. QED  BY <1>2

\* A set of positions can be listed in its order.
LEMMA Enumeration ==
  ASSUME NEW m \in Nat
  PROVE  \A K \in SUBSET (1..m) : Enumerable(K)
<1> DEFINE Bad == {n \in Nat : ~ \A K \in SUBSET (1..n) : Enumerable(K)}
<1>1. SUFFICES ASSUME Bad # {} PROVE FALSE  OBVIOUS
<1>2. PICK n \in Bad : \A k \in Bad : n <= k  BY <1>1, Least
<1>3. PICK K \in SUBSET (1..n) : ~Enumerable(K)  BY <1>2
<1>4. n \in Nat /\ \A k \in K : k \in Nat /\ 1 <= k /\ k <= n  BY <1>2, <1>3
<1>5. CASE n = 0
  <2>1. K = {}  BY <1>4, <1>5
  <2>2. Cardinality(K) = 0 /\ 1 .. 0 = {}  BY <2>1, FS_EmptySet
  <2>3. [i \in 1..0 |-> i] \in [1..0 -> K] /\ Increasing([i \in 1..0 |-> i])
    BY <2>2 DEF Increasing
  <2>4. QED  BY <1>3, <2>2, <2>3 DEF Enumerable
<1>6. CASE n # 0
  <2>1. n-1 \in Nat /\ n-1 \notin Bad  BY <1>2, <1>4, <1>6
  <2>2. CASE n \notin K
    <3>1. \A k \in K : k \in 1 .. n-1  BY <1>4, <2>2
    <3>2. K \in SUBSET (1 .. n-1)  BY <3>1
    <3>3. QED  BY <1>3, <2>1, <3>2
  <2>3. CASE n \in K
    <3>1. PICK J : J = K \ {n}  OBVIOUS
    <3>2. \A k \in J : k \in 1 .. n-1 /\ k \in Nat /\ k < n  BY <1>4, <3>1
    <3>3. J \in SUBSET (1 .. n-1)  BY <3>2
    <3>4. PICK f \in [1 .. Cardinality(J) -> J] : Increasing(f)
      BY <2>1, <3>3 DEF Enumerable
    <3>5. IsFiniteSet(1..n)  BY <1>4, FS_Interval
    <3>6. IsFiniteSet(K)  BY <3>5, FS_Subset
    <3>7. PICK c \in Nat : c = Cardinality(J) /\ Cardinality(K) = c + 1
      <4>1. IsFiniteSet(J) /\ Cardinality(J) = Cardinality(K) - 1
        BY <2>3, <3>1, <3>6, FS_RemoveElement
      <4>2. Cardinality(J) \in Nat /\ Cardinality(K) \in Nat
        BY <3>6, <4>1, FS_CardinalityType
      <4>3. QED  BY <4>1, <4>2
    <3> DEFINE g == [i \in 1 .. c + 1 |-> IF i = c + 1 THEN n ELSE f[i]]
    <3>8. \A i \in 1..c : f[i] \in J  BY <3>4, <3>7
    <3>9. \A i \in 1 .. c+1 : i # c + 1 => i \in 1..c  BY <3>7
    <3>10. g \in [1 .. c + 1 -> K]  BY <2>3, <3>1, <3>8, <3>9
    <3>11. ASSUME NEW i \in 1 .. c+1, NEW j \in 1 .. c+1, i < j PROVE g[i] < g[j]
      <4>1. i \in 1..c  BY <3>7, <3>11
      <4>2. CASE j = c + 1  BY <3>2, <3>8, <3>7, <4>1, <4>2
      <4>3. CASE j # c + 1
        <5>1. j \in 1..c /\ DOMAIN f = 1..c  BY <3>4, <3>7, <3>9, <4>3
        <5>2. f[i] < f[j]  BY <3>4, <3>11, <4>1, <5>1 DEF Increasing
        <5>3. QED  BY <3>7, <4>1, <5>1, <5>2
      <4>4. QED  BY <4>2, <4>3
    <3>12. Increasing(g)  BY <3>11 DEF Increasing
    <3>13. QED  BY <1>3, <3>7, <3>10, <3>12 DEF Enumerable
  <2>4. QED  BY <2>2, <2>3
<1>7. QED  BY <1>5, <1>6

-----------------------------------------------------------------------------
(* Lists of ages *)

LEMMA Bounds ==
  /\ Window \in Nat \ {0} /\ PruneEvery \in Nat /\ MaxLag \in Nat /\ MaxLag < Window
  /\ Old \in Nat /\ Old = Window + PruneEvery + MaxLag
  /\ Age = 0..Old /\ 0..MaxLag \subseteq Age
  /\ Scope \in [Key -> Limiter] /\ Limit \in [Limiter -> Nat \ {0}]
BY RateLimitConstants DEF Old, Age

Standing(s, lag) == {i \in DOMAIN s : ~Stale(s[i], lag)}
LiveIn(s) == {i \in DOMAIN s : s[i] < Window}

LEMMA PositionsFinite ==
  ASSUME NEW s \in Seq(Age), NEW P \in SUBSET DOMAIN s
  PROVE  IsFiniteSet(P) /\ Cardinality(P) \in Nat /\ Cardinality(P) <= Len(s)
<1>1. Len(s) \in Nat /\ DOMAIN s = 1 .. Len(s)  OBVIOUS
<1>2. PICK n \in Nat : n = Len(s) /\ DOMAIN s = 1..n  BY <1>1
<1>3. IsFiniteSet(1..n) /\ Cardinality(1..n) = n  BY FS_Interval
<1>4. IsFiniteSet(P) /\ Cardinality(P) <= n  BY <1>2, <1>3, FS_Subset
<1>5. QED  BY <1>2, <1>4, FS_CardinalityType

\* Kept lists the ages that stay in their order, each of them once.
Orders(f, s, lag) ==
  LET P == Standing(s, lag)
  IN  /\ f \in [1 .. Cardinality(P) -> P] /\ Increasing(f)
      /\ \A i \in P : \E n \in 1 .. Cardinality(P) : f[n] = i
      /\ Kept(s, lag) = [n \in 1 .. Cardinality(P) |-> s[f[n]]]

LEMMA KeptOrders ==
  ASSUME NEW s \in Seq(Age), NEW lag
  PROVE  \E f : Orders(f, s, lag)
<1> DEFINE P == Standing(s, lag)
           f == CHOOSE g \in [1 .. Cardinality(P) -> P] :
                  \A m, n \in DOMAIN g : m < n => g[m] < g[n]
<1>1. P \in SUBSET DOMAIN s  BY DEF Standing
<1>2. IsFiniteSet(P) /\ Cardinality(P) \in Nat  BY <1>1, PositionsFinite
<1>3. Len(s) \in Nat /\ P \in SUBSET (1 .. Len(s))  BY <1>1
<1>4. Enumerable(P)  BY <1>3, Enumeration
<1>5. f \in [1 .. Cardinality(P) -> P] /\ Increasing(f)
  BY <1>4 DEF Enumerable, Increasing
<1>6. Kept(s, lag) = [n \in 1 .. Cardinality(P) |-> s[f[n]]]
  BY DEF Kept, Standing
<1> HIDE DEF f
<1>7. \A m, n \in 1 .. Cardinality(P) : f[m] = f[n] => m = n
  <2>1. \A m \in 1 .. Cardinality(P) : m \in Int /\ f[m] \in Int  BY <1>2, <1>3, <1>5
  <2>2. QED  BY <1>5, <2>1 DEF Increasing
<1>8. f \in Injection(1 .. Cardinality(P), P)  BY <1>5, <1>7 DEF Injection, IsInjective
<1>9. Cardinality(1 .. Cardinality(P)) = Cardinality(P)  BY <1>2, FS_Interval
<1>10. f \in Surjection(1 .. Cardinality(P), P)  BY <1>2, <1>8, <1>9, FS_Injection
<1>11. \A i \in P : \E n \in 1 .. Cardinality(P) : f[n] = i  BY <1>10 DEF Surjection
<1>12. QED  BY <1>5, <1>6, <1>11 DEF Orders

LEMMA KeptTyped ==
  ASSUME NEW s \in Seq(Age), NEW lag
  PROVE  /\ Kept(s, lag) \in Seq(Age)
         /\ Len(Kept(s, lag)) = Cardinality(Standing(s, lag))
         /\ Cardinality(Standing(s, lag)) \in Nat
         /\ DOMAIN Kept(s, lag) = 1 .. Cardinality(Standing(s, lag))
<1>1. PICK f : Orders(f, s, lag)  BY KeptOrders
<1>2. PICK n \in Nat : n = Cardinality(Standing(s, lag))
  BY PositionsFinite DEF Standing
<1>3. \A i \in Standing(s, lag) : s[i] \in Age  BY DEF Standing
<1>4. \A m \in 1..n : f[m] \in Standing(s, lag)  BY <1>1, <1>2 DEF Orders
<1>5. Kept(s, lag) = [m \in 1..n |-> s[f[m]]]  BY <1>1, <1>2 DEF Orders
<1>6. Kept(s, lag) \in [1..n -> Age]  BY <1>3, <1>4, <1>5
<1>7. QED  BY <1>2, <1>5, <1>6

\* What is kept is old, and no more of it than the lag allows.
LEMMA KeptFrom ==
  ASSUME NEW s \in Seq(Age), NEW lag \in 0..MaxLag, NEW n \in DOMAIN Kept(s, lag)
  PROVE  /\ Kept(s, lag)[n] < Window + lag
         /\ \E i \in DOMAIN s : Kept(s, lag)[n] = s[i]
<1>1. PICK f : Orders(f, s, lag)  BY KeptOrders
<1>2. f[n] \in Standing(s, lag) /\ Kept(s, lag)[n] = s[f[n]]  BY <1>1, KeptTyped DEF Orders
<1>3. f[n] \in DOMAIN s /\ s[f[n]] \in Age /\ ~Stale(s[f[n]], lag)  BY <1>2 DEF Standing
<1>4. QED  BY <1>2, <1>3, Bounds DEF Stale

LEMMA KeptHas ==
  ASSUME NEW s \in Seq(Age), NEW lag, NEW i \in Standing(s, lag)
  PROVE  \E n \in DOMAIN Kept(s, lag) : Kept(s, lag)[n] = s[i]
<1>1. PICK f : Orders(f, s, lag)  BY KeptOrders
<1>2. PICK n \in DOMAIN Kept(s, lag) : f[n] = i  BY <1>1, KeptTyped DEF Orders
<1>3. QED  BY <1>1, <1>2, KeptTyped DEF Orders

\* What still counts is kept.
LEMMA KeptLive ==
  ASSUME NEW s \in Seq(Age), NEW lag \in 0..MaxLag
  PROVE  /\ Cardinality(LiveIn(Kept(s, lag))) = Cardinality(LiveIn(s))
         /\ Cardinality(LiveIn(s)) <= Len(Kept(s, lag))
<1> DEFINE P == Standing(s, lag)
           kept == Kept(s, lag)
<1>1. PICK f : Orders(f, s, lag)  BY KeptOrders
<1>2. P \in SUBSET DOMAIN s /\ LiveIn(s) \in SUBSET P
  <2>1. \A i \in DOMAIN s : s[i] \in Age  OBVIOUS
  <2>2. QED  BY <2>1, Bounds DEF Standing, LiveIn, Stale
<1>3. IsFiniteSet(P) /\ IsFiniteSet(LiveIn(s))  BY <1>2, PositionsFinite
<1>4. Cardinality(LiveIn(s)) <= Len(kept)  BY <1>2, <1>3, KeptTyped, FS_Subset
<1>5. kept \in Seq(Age) /\ LiveIn(kept) \in SUBSET DOMAIN kept  BY KeptTyped DEF LiveIn
<1>6. IsFiniteSet(LiveIn(kept))  BY <1>5, PositionsFinite
<1> DEFINE h == [n \in LiveIn(kept) |-> f[n]]
<1>7. \A n \in DOMAIN kept : f[n] \in P /\ f[n] \in DOMAIN s /\ kept[n] = s[f[n]]
  BY <1>1, <1>2, KeptTyped DEF Orders
<1>8. h \in [LiveIn(kept) -> LiveIn(s)]  BY <1>7 DEF LiveIn
<1>9. \A m, n \in LiveIn(kept) : h[m] = h[n] => m = n
  <2>1. \A n \in DOMAIN kept : n \in Int /\ f[n] \in Int  BY <1>7, KeptTyped
  <2>2. DOMAIN f = DOMAIN kept  BY <1>1, KeptTyped DEF Orders
  <2>3. \A m, n \in DOMAIN kept : m < n => f[m] < f[n]  BY <1>1, <2>2 DEF Orders, Increasing
  <2>4. \A m, n \in DOMAIN kept : f[m] = f[n] => m = n  BY <2>1, <2>3
  <2>5. QED  BY <1>5, <2>4
<1>10. \A i \in LiveIn(s) : \E n \in LiveIn(kept) : h[n] = i
  <2>1. SUFFICES ASSUME NEW i \in LiveIn(s) PROVE \E n \in LiveIn(kept) : h[n] = i  OBVIOUS
  <2>2. PICK n \in DOMAIN kept : f[n] = i  BY <1>1, <1>2, KeptTyped DEF Orders
  <2>3. n \in LiveIn(kept)  BY <1>7, <2>2 DEF LiveIn
  <2>4. QED  BY <2>2, <2>3
<1> HIDE DEF h, kept
<1>11. h \in Bijection(LiveIn(kept), LiveIn(s))
  BY <1>8, <1>9, <1>10 DEF Bijection, Injection, Surjection, IsInjective
<1>12. Cardinality(LiveIn(s)) = Cardinality(LiveIn(kept))
  BY <1>6, <1>11, FS_Bijection DEF ExistsBijection
<1>13. QED  BY <1>4, <1>12 DEF kept

Descending(s) == \A i, j \in DOMAIN s : i < j => s[i] >= s[j]

LEMMA KeptDescending ==
  ASSUME NEW s \in Seq(Age), NEW lag, Descending(s)
  PROVE  Descending(Kept(s, lag))
<1>1. PICK f : Orders(f, s, lag)  BY KeptOrders
<1>2. DOMAIN f = DOMAIN Kept(s, lag)  BY <1>1, KeptTyped DEF Orders
<1>3. \A n \in DOMAIN f : f[n] \in DOMAIN s /\ Kept(s, lag)[n] = s[f[n]]
  BY <1>1, <1>2, KeptTyped DEF Orders, Standing
<1>4. QED  BY <1>1, <1>2, <1>3 DEF Orders, Increasing, Descending

LEMMA AppendLive ==
  ASSUME NEW s \in Seq(Age), NEW a \in Age
  PROVE  /\ Append(s, a) \in Seq(Age)
         /\ Cardinality(LiveIn(s)) <= Cardinality(LiveIn(Append(s, a)))
         /\ Cardinality(LiveIn(Append(s, a))) <= Cardinality(LiveIn(s)) + 1
         /\ Cardinality(LiveIn(s)) \in Nat /\ Cardinality(LiveIn(Append(s, a))) \in Nat
<1> DEFINE t == Append(s, a)
<1>1. PICK n \in Nat : n = Len(s)  OBVIOUS
<1>2. t \in Seq(Age) /\ DOMAIN s = 1..n /\ DOMAIN t = 1 .. n+1
      /\ \A i \in 1..n : t[i] = s[i]
  BY <1>1
<1> HIDE DEF t
<1>3. \A i \in 1..n : i \in 1 .. n+1  OBVIOUS
<1>4. \A i \in 1 .. n+1 : i \in 1..n \/ i = n+1  OBVIOUS
<1>5. LiveIn(s) \in SUBSET LiveIn(t) /\ LiveIn(t) \in SUBSET (LiveIn(s) \cup {n+1})
  BY <1>2, <1>3, <1>4 DEF LiveIn
<1>6. IsFiniteSet(LiveIn(s)) /\ IsFiniteSet(LiveIn(t))
      /\ Cardinality(LiveIn(s)) \in Nat /\ Cardinality(LiveIn(t)) \in Nat
  BY <1>2, PositionsFinite DEF LiveIn
<1>7. Cardinality(LiveIn(s)) <= Cardinality(LiveIn(t))  BY <1>5, <1>6, FS_Subset
<1>8. /\ IsFiniteSet(LiveIn(s) \cup {n+1})
      /\ Cardinality(LiveIn(s) \cup {n+1}) <= Cardinality(LiveIn(s)) + 1
  <2>1. PICK c \in Nat : c = Cardinality(LiveIn(s))  BY <1>6
  <2>2. /\ IsFiniteSet(LiveIn(s) \cup {n+1})
        /\ Cardinality(LiveIn(s) \cup {n+1}) = IF n+1 \in LiveIn(s) THEN c ELSE c + 1
    BY <1>6, <2>1, FS_AddElement
  <2>3. QED  BY <2>1, <2>2
<1>9. Cardinality(LiveIn(s) \cup {n+1}) \in Nat  BY <1>8, FS_CardinalityType
<1>10. Cardinality(LiveIn(t)) <= Cardinality(LiveIn(s) \cup {n+1})  BY <1>5, <1>8, FS_Subset
<1>11. QED  BY <1>2, <1>6, <1>7, <1>8, <1>9, <1>10 DEF t

-----------------------------------------------------------------------------
(* Types *)

Asking(q) == q.at \in {"arrived", "check", "admitted", "record"}

\* A request at a gate has a gate.
Gated == \A r \in Request : Asking(req[r]) => req[r].gates # <<>>

Typed == TypeOK /\ Gated

\* What a step makes of a request, field by field.
Moved(p, q, at, lag) ==
  /\ p \in InProgress /\ p.at = at /\ p.gates = q.gates /\ p.resets = q.resets /\ p.lag = lag

LEMMA Fields ==
  ASSUME Typed, NEW r \in Request, req[r] # Idle
  PROVE  /\ req[r] \in InProgress /\ req[r].at \in Phases /\ req[r].gates \in Seq(Key)
         /\ req[r].resets \in SUBSET Key /\ req[r].lag \in 0..MaxLag
         /\ Asking(req[r]) => /\ Head(req[r].gates) \in Key
                              /\ Tail(req[r].gates) \in Seq(Key)
<1>1. req[r] \in InProgress  BY DEF Typed, TypeOK
<1>2. req[r].gates \in Seq(Key) /\ (Asking(req[r]) => req[r].gates # <<>>)
  BY <1>1 DEF InProgress, Typed, Gated
<1>3. QED  BY <1>1, <1>2 DEF InProgress

LEMMA IdleAt ==
  ASSUME Typed, NEW r \in Request
  PROVE  /\ req[r] = Idle <=> req[r].at = "idle"
         /\ ~Asking(Idle) /\ Idle.at = "idle" /\ Idle.lag = 0
<1>1. req[r] \in InProgress \cup {Idle}  BY DEF Typed, TypeOK
<1>2. \A q \in InProgress : q.at # "idle"  BY DEF InProgress, Phases
<1>3. Idle.at = "idle" /\ Idle.lag = 0  BY DEF Idle
<1>4. ~Asking(Idle)  BY <1>3 DEF Asking
<1>5. QED  BY <1>1, <1>2, <1>3, <1>4

LEMMA GotoForm ==
  ASSUME Typed, NEW r \in Request, req[r] # Idle, NEW at \in Phases, Goto(r, at)
  PROVE  /\ req' \in [Request -> InProgress \cup {Idle}]
         /\ Moved(req'[r], req[r], at, 0)
         /\ \A q \in Request \ {r} : req'[q] = req[q]
<1>1. req \in [Request -> InProgress \cup {Idle}]  BY DEF Typed, TypeOK
<1>2. req[r] \in InProgress  BY Fields
<1>3. PICK p : p = [req[r] EXCEPT !.at = at, !.lag = 0]  OBVIOUS
<1>4. 0 \in 0..MaxLag  BY Bounds
<1>5. Moved(p, req[r], at, 0)  BY <1>2, <1>3, <1>4 DEF Moved, InProgress
<1>6. req' = [req EXCEPT ![r] = p]  BY <1>1, <1>3 DEF Goto
<1>7. QED  BY <1>1, <1>5, <1>6 DEF Moved

LEMMA DoneForm ==
  ASSUME Typed, NEW r \in Request, Done(r)
  PROVE  /\ req' \in [Request -> InProgress \cup {Idle}]
         /\ req'[r] = Idle
         /\ \A q \in Request \ {r} : req'[q] = req[q]
BY DEF Typed, TypeOK, Done

\* Cleaning up leaves a key as it was, or forgets one that has nothing to count.
LEMMA PrunedForm ==
  ASSUME TypeOK, NEW l, NEW lag \in 0..MaxLag, NEW k \in Key
  PROVE  /\ Pruned(l, lag) \in [Key -> Seq(Age)]
         /\ \/ Pruned(l, lag)[k] = attempts[k]
            \/ Pruned(l, lag)[k] = <<>> /\ AllStale(attempts[k], lag)
         /\ Cardinality(LiveIn(Pruned(l, lag)[k])) = Cardinality(LiveIn(attempts[k]))
<1>1. attempts \in [Key -> Seq(Age)]  BY DEF TypeOK
<1>2. Pruned(l, lag) \in [Key -> Seq(Age)]  BY <1>1 DEF Pruned
<1>3. \/ Pruned(l, lag)[k] = attempts[k]
      \/ Pruned(l, lag)[k] = <<>> /\ AllStale(attempts[k], lag)
  BY <1>1 DEF Pruned
<1>4. ASSUME AllStale(attempts[k], lag) PROVE LiveIn(attempts[k]) = {}
  <2>1. \A i \in DOMAIN attempts[k] : attempts[k][i] \in Age  BY <1>1
  <2>2. QED  BY <1>4, <2>1, Bounds DEF AllStale, Stale, LiveIn
<1>5. LiveIn(<<>>) = {}  BY DEF LiveIn
<1>6. QED  BY <1>2, <1>3, <1>4, <1>5

LEMMA LeftForm ==
  ASSUME TypeOK, NEW lag \in 0..MaxLag, NEW k \in Key
  PROVE  /\ Left(k, lag) \in Seq(Age) /\ Found(k, lag) \in Seq(Age)
         /\ Cardinality(LiveIn(Left(k, lag))) = Cardinality(LiveIn(attempts[k]))
         /\ Cardinality(LiveIn(attempts[k])) <= Len(Found(k, lag))
<1>1. attempts[k] \in Seq(Age) /\ Pruned(Scope[k], lag)[k] \in Seq(Age)
      /\ Cardinality(LiveIn(Pruned(Scope[k], lag)[k])) = Cardinality(LiveIn(attempts[k]))
  BY PrunedForm DEF TypeOK
<1>2. Found(k, lag) \in Seq(Age)  BY <1>1, KeptTyped DEF Found
<1>3. /\ Cardinality(LiveIn(Found(k, lag))) = Cardinality(LiveIn(attempts[k]))
      /\ Cardinality(LiveIn(attempts[k])) <= Len(Found(k, lag))
  BY <1>1, KeptLive DEF Found
<1>4. QED  BY <1>1, <1>2, <1>3 DEF Left

LEMMA ScheduledTyped ==
  ASSUME TypeOK, NEW l \in Limiter, NEW lag \in 0..MaxLag
  PROVE  /\ Scheduled(l, lag) \in [Limiter -> -MaxLag..PruneEvery]
         /\ \A n \in Limiter : Scheduled(l, lag)[n] =
              IF n = l /\ PruneDue(l, lag) THEN PruneEvery - lag ELSE untilPrune[n]
<1>1. untilPrune \in [Limiter -> -MaxLag..PruneEvery]  BY DEF TypeOK
<1>2. PruneEvery - lag \in -MaxLag..PruneEvery  BY Bounds
<1>3. QED  BY <1>1, <1>2 DEF Scheduled

\* A step that asks or tells the limiter, as far as the store is concerned.
LEMMA StoreTyped ==
  ASSUME Typed, NEW r \in Request, Check(r) \/ Record(r)
  PROVE  /\ req[r] # Idle /\ req[r].lag \in 0..MaxLag /\ Head(req[r].gates) \in Key
         /\ attempts' \in [Key -> Seq(Age)] /\ untilPrune' \in [Limiter -> -MaxLag..PruneEvery]
<1>1. req[r] # Idle /\ Asking(req[r])  BY IdleAt DEF Check, Record, Asking, Idle
<1>2. req[r].lag \in 0..MaxLag /\ Head(req[r].gates) \in Key  BY <1>1, Fields
<1>3. PICK k \in Key : k = Head(req[r].gates)  BY <1>2
<1>4. PICK lag \in 0..MaxLag : lag = req[r].lag  BY <1>2
<1>5. Pruned(Scope[k], lag) \in [Key -> Seq(Age)] /\ Left(k, lag) \in Seq(Age) /\ lag \in Age
  BY <1>4, PrunedForm, LeftForm, Bounds DEF Typed
<1>6. Append(Left(k, lag), lag) \in Seq(Age)  BY <1>5
<1>7. attempts' = [Pruned(Scope[k], lag) EXCEPT ![k] = Left(k, lag)]
      \/ attempts' = [Pruned(Scope[k], lag) EXCEPT ![k] = Append(Left(k, lag), lag)]
  BY <1>3, <1>4 DEF Check, Record
<1>8. attempts' \in [Key -> Seq(Age)]  BY <1>5, <1>6, <1>7
<1>9. untilPrune' = Scheduled(Scope[k], lag)  BY <1>3, <1>4 DEF Check, Record
<1>10. QED  BY <1>1, <1>2, <1>4, <1>8, <1>9, ScheduledTyped, Bounds DEF Typed

LEMMA RecordForm ==
  ASSUME Typed, NEW r \in Request, Record(r)
  PROVE  /\ req' \in [Request -> InProgress \cup {Idle}]
         /\ req[r].at = "record" /\ Asking(req[r]) /\ req[r] # Idle
         /\ req'[r].at \in {"arrived", "handler"} /\ req'[r].lag = 0
         /\ req'[r].at = "arrived" => req'[r].gates # <<>>
         /\ \A q \in Request \ {r} : req'[q] = req[q]
<1>1. req \in [Request -> InProgress \cup {Idle}]  BY DEF Typed, TypeOK
<1>2. req[r].at = "record" /\ Asking(req[r])  BY DEF Record, Asking
<1>3. req[r] # Idle  BY <1>2 DEF Idle
<1>4. req[r] \in InProgress /\ Tail(req[r].gates) \in Seq(Key)  BY <1>2, <1>3, Fields
<1>5. PICK at \in {"arrived", "handler"} :
        at = IF Tail(req[r].gates) = <<>> THEN "handler" ELSE "arrived"
  OBVIOUS
<1>6. PICK p : p = [req[r] EXCEPT !.gates = Tail(req[r].gates), !.lag = 0, !.at = at]
  OBVIOUS
<1>7. 0 \in 0..MaxLag  BY Bounds
<1>8. /\ p \in InProgress /\ p.at = at /\ p.lag = 0
      /\ at = "arrived" => p.gates # <<>>
  BY <1>4, <1>5, <1>6, <1>7 DEF InProgress, Phases
<1>9. req' = [req EXCEPT ![r] = p]  BY <1>1, <1>5, <1>6 DEF Record
<1>10. QED  BY <1>1, <1>2, <1>3, <1>8, <1>9

LEMMA ArriveForm ==
  ASSUME Typed, NEW r \in Request, NEW route \in Routes, Arrive(r, route)
  PROVE  /\ req' \in [Request -> InProgress \cup {Idle}]
         /\ req'[r].at = "arrived" /\ req'[r].gates # <<>> /\ req'[r].lag = 0
         /\ \A q \in Request \ {r} : req'[q] = req[q]
<1>1. route \in Route /\ route.gates # <<>>  BY RateLimitConstants
<1>2. PICK p : p = [at |-> "arrived", gates |-> route.gates,
                    resets |-> route.resets, lag |-> 0]
  OBVIOUS
<1>3. 0 \in 0..MaxLag  BY Bounds
<1>4. p \in InProgress /\ p.at = "arrived" /\ p.gates # <<>> /\ p.lag = 0
  BY <1>1, <1>2, <1>3 DEF Route, InProgress, Phases
<1>5. req' = [req EXCEPT ![r] = p]  BY <1>2 DEF Arrive
<1>6. QED  BY <1>4, <1>5 DEF Typed, TypeOK

\* A tick moves the clock away from those that have read it, and nothing else.
LEMMA TickForm ==
  ASSUME Typed, Tick, NEW r \in Request
  PROVE  /\ req'[r] \in InProgress \cup {Idle}
         /\ req'[r].at = req[r].at
         /\ req[r] # Idle => /\ req'[r].gates = req[r].gates /\ req'[r] # Idle
         /\ req[r] = Idle => req'[r] = Idle
         /\ req'[r].lag = IF req[r].at \in {"check", "record"}
                           THEN req[r].lag + 1 ELSE req[r].lag
<1>1. CASE req[r].at \in {"check", "record"}
  <2>1. req[r] # Idle  BY <1>1 DEF Idle
  <2>2. req[r] \in InProgress /\ req[r].lag \in 0..MaxLag  BY <2>1, Fields
  <2>3. req[r].lag < MaxLag  BY <1>1 DEF Tick
  <2>4. req[r].lag + 1 \in 0..MaxLag  BY <2>2, <2>3, Bounds
  <2>5. PICK p : p = [req[r] EXCEPT !.lag = @ + 1]  OBVIOUS
  <2>6. /\ p \in InProgress /\ p.at = req[r].at /\ p.gates = req[r].gates
        /\ p.lag = req[r].lag + 1
    BY <2>2, <2>4, <2>5 DEF InProgress
  <2>7. req'[r] = p  BY <1>1, <2>5 DEF Tick
  <2>8. p # Idle  BY <1>1, <2>6 DEF Idle
  <2>9. QED  BY <1>1, <2>1, <2>6, <2>7, <2>8
<1>2. CASE req[r].at \notin {"check", "record"}
  BY <1>2 DEF Typed, TypeOK, Tick
<1>3. QED  BY <1>1, <1>2

\* Ages only grow, and no attempt is added.
LEMMA TickStore ==
  ASSUME Typed, Tick, NEW k \in Key
  PROVE  \E aged \in Seq(Age) :
           /\ Len(aged) = Len(attempts[k])
           /\ \A i \in DOMAIN aged :
                aged[i] = IF attempts[k][i] = Old THEN Old ELSE attempts[k][i] + 1
           /\ attempts'[k] = IF backend = "memory" THEN aged ELSE Kept(aged, MaxLag)
           /\ attempts' = [n \in Key |-> attempts'[n]]
<1> DEFINE Older(a) == IF a = Old THEN Old ELSE a + 1
           Aged == [n \in Key |-> [i \in DOMAIN attempts[n] |-> Older(attempts[n][i])]]
<1>1. PICK s \in Seq(Age) : s = attempts[k]  BY DEF Typed, TypeOK
<1>2. \A a \in Age : Older(a) \in Age  BY Bounds
<1>3. PICK n \in Nat : n = Len(s) /\ DOMAIN s = 1..n /\ \A i \in 1..n : s[i] \in Age
  OBVIOUS
<1>4. PICK aged : aged = [i \in 1..n |-> Older(s[i])]  OBVIOUS
<1>5. aged \in Seq(Age) /\ Len(aged) = n /\ DOMAIN aged = 1..n  BY <1>2, <1>3, <1>4
<1>6. Aged[k] = aged  BY <1>1, <1>3, <1>4
<1>7. attempts' = IF backend = "memory" THEN Aged
                  ELSE [m \in Key |-> Kept(Aged[m], MaxLag)]
  BY DEF Tick
<1>8. attempts'[k] = IF backend = "memory" THEN aged ELSE Kept(aged, MaxLag)
  BY <1>6, <1>7
<1>9. attempts' = [m \in Key |-> attempts'[m]]  BY <1>7
<1>10. QED  BY <1>1, <1>3, <1>4, <1>5, <1>8, <1>9

LEMMA TickLive ==
  ASSUME Typed, Tick, NEW k \in Key
  PROVE  /\ attempts'[k] \in Seq(Age)
         /\ Cardinality(LiveIn(attempts'[k])) <= Cardinality(LiveIn(attempts[k]))
         /\ Cardinality(LiveIn(attempts[k])) \in Nat
         /\ Cardinality(LiveIn(attempts'[k])) \in Nat
<1>1. PICK aged \in Seq(Age) :
           /\ Len(aged) = Len(attempts[k])
           /\ \A i \in DOMAIN aged :
                aged[i] = IF attempts[k][i] = Old THEN Old ELSE attempts[k][i] + 1
           /\ attempts'[k] = IF backend = "memory" THEN aged ELSE Kept(aged, MaxLag)
  BY TickStore
<1>2. PICK s \in Seq(Age) : s = attempts[k]  BY DEF Typed, TypeOK
<1>3. DOMAIN aged = DOMAIN s /\ \A i \in DOMAIN s : s[i] \in Age  BY <1>1, <1>2
<1>4. LiveIn(aged) \in SUBSET LiveIn(s)
  <2>1. ASSUME NEW i \in DOMAIN s, aged[i] < Window PROVE s[i] < Window
    <3>1. aged[i] = IF s[i] = Old THEN Old ELSE s[i] + 1  BY <1>1, <1>2, <1>3
    <3>2. s[i] \in 0..Old /\ Old \in Nat /\ Window \in Nat /\ Old >= Window
      BY <1>3, Bounds
    <3>3. QED  BY <2>1, <3>1, <3>2
  <2>2. QED  BY <1>3, <2>1 DEF LiveIn
<1>5. IsFiniteSet(LiveIn(s)) /\ Cardinality(LiveIn(s)) \in Nat
  BY PositionsFinite DEF LiveIn
<1>6. Cardinality(LiveIn(aged)) <= Cardinality(LiveIn(s))  BY <1>4, <1>5, FS_Subset
<1>7. Cardinality(LiveIn(aged)) \in Nat  BY PositionsFinite DEF LiveIn
<1>8. MaxLag \in 0..MaxLag  BY Bounds
<1>9. /\ Kept(aged, MaxLag) \in Seq(Age)
      /\ Cardinality(LiveIn(Kept(aged, MaxLag))) = Cardinality(LiveIn(aged))
  BY <1>8, KeptTyped, KeptLive
<1>10. QED  BY <1>1, <1>2, <1>5, <1>6, <1>7, <1>9

LEMMA ReadClockForm ==
  ASSUME Typed, NEW r \in Request, ReadClock(r)
  PROVE  /\ req' \in [Request -> InProgress \cup {Idle}]
         /\ req[r] # Idle /\ Asking(req[r])
         /\ \/ req[r].at = "arrived" /\ Moved(req'[r], req[r], "check", 0)
            \/ req[r].at = "admitted" /\ Moved(req'[r], req[r], "record", 0)
         /\ \A q \in Request \ {r} : req'[q] = req[q]
<1>1. req[r] # Idle /\ Asking(req[r])  BY DEF ReadClock, Idle, Asking
<1>2. CASE req[r].at = "arrived" /\ Goto(r, "check")
  <2>1. "check" \in Phases  BY DEF Phases
  <2>2. QED  BY <1>1, <1>2, <2>1, GotoForm
<1>3. CASE req[r].at = "admitted" /\ Goto(r, "record")
  <2>1. "record" \in Phases  BY DEF Phases
  <2>2. QED  BY <1>1, <1>3, <2>1, GotoForm
<1>4. QED  BY <1>2, <1>3 DEF ReadClock

LEMMA CheckForm ==
  ASSUME Typed, NEW r \in Request, Check(r)
  PROVE  /\ req' \in [Request -> InProgress \cup {Idle}]
         /\ req[r].at = "check" /\ req[r] # Idle /\ Asking(req[r])
         /\ \/ Limited(r) /\ req'[r] = Idle
            \/ ~Limited(r) /\ Moved(req'[r], req[r], "admitted", 0)
         /\ \A q \in Request \ {r} : req'[q] = req[q]
<1>1. req[r].at = "check" /\ req[r] # Idle /\ Asking(req[r])
  BY DEF Check, Idle, Asking
<1>2. CASE Limited(r)
  <2>1. Done(r)  BY <1>2 DEF Check
  <2>2. QED  BY <1>1, <1>2, <2>1, DoneForm
<1>3. CASE ~Limited(r)
  <2>1. Goto(r, "admitted") /\ "admitted" \in Phases  BY <1>3 DEF Check, Phases
  <2>2. QED  BY <1>1, <1>3, <2>1, GotoForm
<1>4. QED  BY <1>2, <1>3

LEMMA TypedInit == Init => Typed
<1>1. SUFFICES ASSUME Init PROVE Typed  OBVIOUS
<1>2. attempts \in [Key -> Seq(Age)] /\ untilPrune \in [Limiter -> -MaxLag..PruneEvery]
  BY <1>1, Bounds DEF Init
<1>3. \A r \in Request : req[r] = Idle /\ ~Asking(req[r])
  BY <1>1 DEF Init, Asking, Idle
<1>4. Cardinality(Request) \in Nat  BY RateLimitConstants, FS_CardinalityType
<1>5. workers \in Nat  BY <1>1, <1>4 DEF Init
<1>6. QED  BY <1>1, <1>2, <1>3, <1>5 DEF Init, Typed, TypeOK, Gated

LEMMA TypedNext == Typed /\ [Next]_vars => Typed'
<1>1. SUFFICES ASSUME Typed, [Next]_vars PROVE Typed'  OBVIOUS
<1>2. /\ attempts \in [Key -> Seq(Age)] /\ untilPrune \in [Limiter -> -MaxLag..PruneEvery]
      /\ req \in [Request -> InProgress \cup {Idle}]
      /\ backend \in {"memory", "postgres"} /\ workers \in Nat
      /\ \A q \in Request : Asking(req[q]) => req[q].gates # <<>>
  BY <1>1 DEF Typed, TypeOK, Gated
<1>3. backend' = backend /\ workers' = workers
  BY <1>1 DEF Next, vars, Serve, Arrive, ReadClock, Check, Record, Succeed, Fail, Tick, Restart
<1>4. ASSUME NEW r \in Request, NEW route \in Routes, Arrive(r, route) PROVE Typed'
  <2>1. /\ req' \in [Request -> InProgress \cup {Idle}]
        /\ req'[r].gates # <<>>
        /\ \A q \in Request \ {r} : req'[q] = req[q]
    BY <1>1, <1>4, ArriveForm
  <2>2. \A q \in Request : Asking(req'[q]) => req'[q].gates # <<>>  BY <1>2, <2>1
  <2>3. QED  BY <1>2, <1>3, <1>4, <2>1, <2>2 DEF Arrive, Typed, TypeOK, Gated
<1>5. ASSUME NEW r \in Request, ReadClock(r) PROVE Typed'
  <2>1. /\ req' \in [Request -> InProgress \cup {Idle}]
        /\ Asking(req[r]) /\ req'[r].gates = req[r].gates
        /\ \A q \in Request \ {r} : req'[q] = req[q]
    BY <1>1, <1>5, ReadClockForm DEF Moved
  <2>2. \A q \in Request : Asking(req'[q]) => req'[q].gates # <<>>  BY <1>2, <2>1
  <2>3. QED  BY <1>2, <1>3, <1>5, <2>1, <2>2 DEF ReadClock, Typed, TypeOK, Gated
<1>6. ASSUME NEW r \in Request, Check(r) PROVE Typed'
  <2>1. /\ req' \in [Request -> InProgress \cup {Idle}]
        /\ Asking(req[r]) /\ (req'[r] = Idle \/ req'[r].gates = req[r].gates)
        /\ \A q \in Request \ {r} : req'[q] = req[q]
    BY <1>1, <1>6, CheckForm DEF Moved
  <2>2. \A q \in Request : Asking(req'[q]) => req'[q].gates # <<>>
    BY <1>1, <1>2, <2>1, IdleAt
  <2>3. attempts' \in [Key -> Seq(Age)] /\ untilPrune' \in [Limiter -> -MaxLag..PruneEvery]
    BY <1>1, <1>6, StoreTyped
  <2>4. QED  BY <1>2, <1>3, <2>1, <2>2, <2>3 DEF Typed, TypeOK, Gated
<1>7. ASSUME NEW r \in Request, Record(r) PROVE Typed'
  <2>1. /\ req' \in [Request -> InProgress \cup {Idle}]
        /\ req'[r].at \in {"arrived", "handler"}
        /\ req'[r].at = "arrived" => req'[r].gates # <<>>
        /\ \A q \in Request \ {r} : req'[q] = req[q]
    BY <1>1, <1>7, RecordForm
  <2>2. \A q \in Request : Asking(req'[q]) => req'[q].gates # <<>>
    BY <1>2, <2>1 DEF Asking
  <2>3. attempts' \in [Key -> Seq(Age)] /\ untilPrune' \in [Limiter -> -MaxLag..PruneEvery]
    BY <1>1, <1>7, StoreTyped
  <2>4. QED  BY <1>2, <1>3, <2>1, <2>2, <2>3 DEF Typed, TypeOK, Gated
<1>8. ASSUME NEW r \in Request, Succeed(r) \/ Fail(r) PROVE Typed'
  <2>1. Done(r) /\ untilPrune' = untilPrune  BY <1>8 DEF Succeed, Fail
  <2>2. /\ req' \in [Request -> InProgress \cup {Idle}]
        /\ req'[r] = Idle
        /\ \A q \in Request \ {r} : req'[q] = req[q]
    BY <1>1, <2>1, DoneForm
  <2>3. \A q \in Request : Asking(req'[q]) => req'[q].gates # <<>>
    BY <1>1, <1>2, <2>2, IdleAt
  <2>4. attempts' \in [Key -> Seq(Age)]
    <3>1. CASE Succeed(r)
      <4>1. <<>> \in Seq(Age) /\ \A k \in Key : attempts[k] \in Seq(Age)  BY <1>2
      <4>2. attempts' = [k \in Key |-> IF k \in req[r].resets THEN <<>> ELSE attempts[k]]
        BY <3>1 DEF Succeed
      <4>3. QED  BY <4>1, <4>2
    <3>2. CASE Fail(r)  BY <1>2, <3>2 DEF Fail
    <3>3. QED  BY <1>8, <3>1, <3>2
  <2>5. QED  BY <1>2, <1>3, <2>1, <2>2, <2>3, <2>4 DEF Typed, TypeOK, Gated
<1>9. CASE Tick
  <2>1. \A r \in Request : req'[r] \in InProgress \cup {Idle}  BY <1>1, <1>9, TickForm
  <2>2. req' = [r \in Request |-> req'[r]]  BY <1>9 DEF Tick
  <2>3. req' \in [Request -> InProgress \cup {Idle}]  BY <2>1, <2>2
  <2>4. ASSUME NEW q \in Request, Asking(req'[q]) PROVE req'[q].gates # <<>>
    <3>1. Asking(req[q])  BY <1>1, <1>9, <2>4, TickForm DEF Asking
    <3>2. req[q] # Idle  BY <1>1, <3>1, IdleAt
    <3>3. QED  BY <1>1, <1>2, <1>9, <3>1, <3>2, TickForm
  <2>5. \A k \in Key : attempts'[k] \in Seq(Age)  BY <1>1, <1>9, TickLive
  <2>6. attempts' = [k \in Key |-> attempts'[k]]  BY <1>9 DEF Tick
  <2>7. attempts' \in [Key -> Seq(Age)]  BY <2>5, <2>6
  <2>8. untilPrune' \in [Limiter -> -MaxLag..PruneEvery]  BY <1>2, <1>9, Bounds DEF Tick
  <2>9. QED  BY <1>2, <1>3, <2>3, <2>4, <2>7, <2>8 DEF Typed, TypeOK, Gated
<1>10. CASE Restart
  <2>1. attempts' \in [Key -> Seq(Age)] /\ untilPrune' \in [Limiter -> -MaxLag..PruneEvery]
    BY <1>2, <1>10, Bounds DEF Restart
  <2>2. req' \in [Request -> InProgress \cup {Idle}] /\ \A q \in Request : ~Asking(req'[q])
    BY <1>1, <1>10, IdleAt DEF Restart
  <2>3. QED  BY <1>2, <1>3, <2>1, <2>2 DEF Typed, TypeOK, Gated
<1>11. CASE UNCHANGED vars
  BY <1>2, <1>11 DEF vars, Typed, TypeOK, Gated
<1>12. QED
  BY <1>1, <1>4, <1>5, <1>6, <1>7, <1>8, <1>9, <1>10, <1>11 DEF Next, Serve

\* The store, the requests and the clock keep their types, for every set of keys,
\* limits, windows, requests and endpoints (TypeOK; _RateLimitBackend and its two
\* implementations, rate_limit.py).
THEOREM TypeCorrect == Spec => []TypeOK
<1>1. Spec => []Typed  BY TypedInit, TypedNext, PTL DEF Spec
<1>2. Typed => TypeOK  BY DEF Typed
<1>3. QED  BY <1>1, <1>2, PTL

-----------------------------------------------------------------------------
(* The bound *)

Pending(k) == {r \in Request : /\ req[r].at \in {"admitted", "record"}
                               /\ Head(req[r].gates) = k}

\* What a key may still have to count, and what the deployment serves at a time.
Load(k) ==
  Cardinality(LiveIn(attempts[k])) + Cardinality(Pending(k)) <= Limit[Scope[k]] + workers - 1
BusyBound == Cardinality(Busy) <= workers
Loaded == Typed /\ BusyBound /\ workers # 0 /\ \A k \in Key : Load(k)

LEMMA RequestsFinite ==
  ASSUME NEW P \in SUBSET Request
  PROVE  IsFiniteSet(P) /\ Cardinality(P) \in Nat
BY RateLimitConstants, FS_Subset, FS_CardinalityType

LEMMA BusyFinite ==
  ASSUME NEW P \in SUBSET Request, NEW Q \in SUBSET P
  PROVE  Cardinality(Q) <= Cardinality(P)
BY RequestsFinite, FS_Subset

LEMMA KeyTyped ==
  ASSUME Typed, NEW k \in Key
  PROVE  /\ Cardinality(LiveIn(attempts[k])) \in Nat /\ Cardinality(Pending(k)) \in Nat
         /\ Limit[Scope[k]] \in Nat \ {0} /\ workers \in Nat
<1>1. attempts[k] \in Seq(Age) /\ workers \in Nat  BY DEF Typed, TypeOK
<1>2. Cardinality(LiveIn(attempts[k])) \in Nat  BY <1>1, PositionsFinite DEF LiveIn
<1>3. Cardinality(Pending(k)) \in Nat  BY RequestsFinite DEF Pending
<1>4. QED  BY <1>1, <1>2, <1>3, RateLimitConstants

LEMMA BusyInit == Init => BusyBound /\ workers # 0
<1>1. SUFFICES ASSUME Init PROVE BusyBound /\ workers # 0  OBVIOUS
<1>2. Busy = {}  BY <1>1 DEF Init, Busy
<1>3. Cardinality(Busy) = 0  BY <1>2, FS_EmptySet
<1>4. Cardinality(Request) \in Nat  BY RequestsFinite
<1>5. QED  BY <1>1, <1>3, <1>4 DEF Init, BusyBound

LEMMA BusyNext == Typed /\ BusyBound /\ [Next]_vars => BusyBound'
<1>1. SUFFICES ASSUME Typed, BusyBound, [Next]_vars PROVE BusyBound'  OBVIOUS
<1>2. workers' = workers /\ workers \in Nat
  BY <1>1 DEF Next, vars, Serve, Arrive, ReadClock, Check, Record, Succeed, Fail, Tick, Restart,
              Typed, TypeOK
<1>3. Cardinality(Busy) \in Nat /\ Cardinality(Busy') \in Nat /\ IsFiniteSet(Busy)
  BY RequestsFinite DEF Busy
<1>4. ASSUME Busy' \subseteq Busy PROVE BusyBound'
  <2>1. Cardinality(Busy') <= Cardinality(Busy)  BY <1>4, BusyFinite DEF Busy
  <2>2. QED  BY <1>1, <1>2, <1>3, <2>1 DEF BusyBound
<1>5. ASSUME NEW r \in Request, NEW route \in Routes, Arrive(r, route) PROVE BusyBound'
  <2>1. \A q \in Request \ {r} : req'[q] = req[q]  BY <1>1, <1>5, ArriveForm
  <2>2. Busy' \subseteq Busy \cup {r}  BY <2>1 DEF Busy
  <2>3. PICK c \in Nat : c = Cardinality(Busy)  BY <1>3
  <2>4. c < workers  BY <1>5, <2>3 DEF Arrive
  <2>5. Cardinality(Busy \cup {r}) = IF r \in Busy THEN c ELSE c + 1
    BY <1>3, <2>3, FS_AddElement
  <2>6. Cardinality(Busy \cup {r}) <= workers  BY <1>2, <2>3, <2>4, <2>5
  <2>7. Cardinality(Busy') <= Cardinality(Busy \cup {r})  BY <2>2, BusyFinite DEF Busy
  <2>8. Cardinality(Busy \cup {r}) \in Nat  BY <2>3, <2>5
  <2>9. QED  BY <1>2, <1>3, <2>6, <2>7, <2>8 DEF BusyBound
<1>6. ASSUME NEW r \in Request, req[r] # Idle, \A q \in Request \ {r} : req'[q] = req[q]
      PROVE  BusyBound'
  BY <1>4, <1>6 DEF Busy
<1>7. ASSUME NEW r \in Request, Serve(r) PROVE BusyBound'
  <2>1. req[r] # Idle
    BY <1>7 DEF Serve, ReadClock, Check, Record, Succeed, Fail, Idle
  <2>2. \A q \in Request \ {r} : req'[q] = req[q]
    <3>1. CASE ReadClock(r)  BY <1>1, <3>1, ReadClockForm
    <3>2. CASE Check(r)  BY <1>1, <3>2, CheckForm
    <3>3. CASE Record(r)  BY <1>1, <3>3, RecordForm
    <3>4. CASE Succeed(r) \/ Fail(r)
      <4>1. Done(r)  BY <3>4 DEF Succeed, Fail
      <4>2. QED  BY <1>1, <4>1, DoneForm
    <3>5. QED  BY <1>7, <3>1, <3>2, <3>3, <3>4 DEF Serve
  <2>3. QED  BY <1>6, <2>1, <2>2
<1>8. CASE Tick  BY <1>1, <1>4, <1>8, TickForm DEF Busy
<1>9. CASE Restart  BY <1>4, <1>9 DEF Busy, Restart
<1>10. CASE UNCHANGED vars  BY <1>4, <1>10 DEF Busy, vars
<1>11. QED  BY <1>1, <1>5, <1>7, <1>8, <1>9, <1>10 DEF Next

LEMMA LoadInit == Init => \A k \in Key : Load(k)
<1>1. SUFFICES ASSUME Init, NEW k \in Key PROVE Load(k)  OBVIOUS
<1>2. LiveIn(attempts[k]) = {}  BY <1>1 DEF Init, LiveIn
<1>3. Pending(k) = {}  BY <1>1 DEF Init, Pending, Idle
<1>4. Typed /\ workers # 0  BY <1>1, TypedInit, BusyInit
<1>5. QED  BY <1>2, <1>3, <1>4, KeyTyped, FS_EmptySet DEF Load

\* A step that brings nothing to count keeps the bound.
LEMMA LoadKept ==
  ASSUME Typed, Typed', workers' = workers, NEW k \in Key, Load(k),
         Cardinality(LiveIn(attempts'[k])) <= Cardinality(LiveIn(attempts[k])),
         Pending(k)' \subseteq Pending(k)
  PROVE  Load(k)'
<1>1. Cardinality(Pending(k)') <= Cardinality(Pending(k))  BY BusyFinite DEF Pending
<1>2. /\ Cardinality(LiveIn(attempts[k])) \in Nat /\ Cardinality(Pending(k)) \in Nat
      /\ Limit[Scope[k]] \in Nat /\ workers \in Nat
  BY KeyTyped
<1>3. Cardinality(LiveIn(attempts'[k])) \in Nat
  <2>1. attempts'[k] \in Seq(Age)  BY DEF Typed, TypeOK
  <2>2. QED  BY <2>1, PositionsFinite DEF LiveIn
<1>4. Cardinality(Pending(k)') \in Nat  BY RequestsFinite DEF Pending
<1>5. QED  BY <1>1, <1>2, <1>3, <1>4 DEF Load

\* Asking changes no key's live attempts, and telling adds one to the key told.
LEMMA StoreLive ==
  ASSUME Typed, NEW r \in Request, NEW k \in Key
  PROVE  /\ Check(r) => Cardinality(LiveIn(attempts'[k])) = Cardinality(LiveIn(attempts[k]))
         /\ Record(r) =>
              /\ Cardinality(LiveIn(attempts'[k])) >= Cardinality(LiveIn(attempts[k]))
              /\ IF k = Head(req[r].gates)
                 THEN Cardinality(LiveIn(attempts'[k])) <= Cardinality(LiveIn(attempts[k])) + 1
                 ELSE Cardinality(LiveIn(attempts'[k])) = Cardinality(LiveIn(attempts[k]))
<1>1. SUFFICES ASSUME Check(r) \/ Record(r)
      PROVE  /\ Check(r) => Cardinality(LiveIn(attempts'[k])) = Cardinality(LiveIn(attempts[k]))
             /\ Record(r) =>
                  /\ Cardinality(LiveIn(attempts'[k])) >= Cardinality(LiveIn(attempts[k]))
                  /\ IF k = Head(req[r].gates)
                     THEN Cardinality(LiveIn(attempts'[k])) <= Cardinality(LiveIn(attempts[k])) + 1
                     ELSE Cardinality(LiveIn(attempts'[k])) = Cardinality(LiveIn(attempts[k]))
  OBVIOUS
<1>2. PICK lag \in 0..MaxLag : lag = req[r].lag  BY <1>1, StoreTyped
<1>3. PICK h \in Key : h = Head(req[r].gates)  BY <1>1, StoreTyped
<1>4. /\ Pruned(Scope[h], lag) \in [Key -> Seq(Age)] /\ Left(k, lag) \in Seq(Age) /\ lag \in Age
      /\ Cardinality(LiveIn(Pruned(Scope[h], lag)[k])) = Cardinality(LiveIn(attempts[k]))
      /\ Cardinality(LiveIn(Left(k, lag))) = Cardinality(LiveIn(attempts[k]))
      /\ Cardinality(LiveIn(attempts[k])) \in Nat
  BY PrunedForm, LeftForm, Bounds, KeyTyped DEF Typed
<1>5. ASSUME Check(r)
      PROVE  Cardinality(LiveIn(attempts'[k])) = Cardinality(LiveIn(attempts[k]))
  <2>1. attempts' = [Pruned(Scope[h], lag) EXCEPT ![h] = Left(h, lag)]
    BY <1>2, <1>3, <1>5 DEF Check
  <2>2. attempts'[k] = IF k = h THEN Left(k, lag) ELSE Pruned(Scope[h], lag)[k]  BY <1>4, <2>1
  <2>3. QED  BY <1>4, <2>2
<1>6. ASSUME Record(r)
      PROVE  /\ k # h => Cardinality(LiveIn(attempts'[k])) = Cardinality(LiveIn(attempts[k]))
             /\ k = h =>
                  /\ Cardinality(LiveIn(attempts'[k])) >= Cardinality(LiveIn(attempts[k]))
                  /\ Cardinality(LiveIn(attempts'[k])) <= Cardinality(LiveIn(attempts[k])) + 1
  <2>1. attempts' = [Pruned(Scope[h], lag) EXCEPT ![h] = Append(Left(h, lag), lag)]
    BY <1>2, <1>3, <1>6 DEF Record
  <2>2. attempts'[k] = IF k = h THEN Append(Left(k, lag), lag) ELSE Pruned(Scope[h], lag)[k]
    BY <1>4, <2>1
  <2>3. /\ Cardinality(LiveIn(Left(k, lag))) <= Cardinality(LiveIn(Append(Left(k, lag), lag)))
        /\ Cardinality(LiveIn(Append(Left(k, lag), lag))) <= Cardinality(LiveIn(Left(k, lag))) + 1
    BY <1>4, AppendLive
  <2>4. QED  BY <1>4, <2>2, <2>3
<1>7. QED  BY <1>1, <1>3, <1>4, <1>5, <1>6

\* Being let through: fewer attempts count than the limit, and at most as many
\* requests are between check and record as are served.
LEMMA Admitted ==
  ASSUME Typed, Typed', BusyBound', workers' = workers,
         NEW r \in Request, Check(r), ~Limited(r), NEW k \in Key, k = Head(req[r].gates)
  PROVE  Load(k)'
<1>1. PICK lag \in 0..MaxLag : lag = req[r].lag  BY StoreTyped
<1>2. PICK n : n = Len(Found(k, lag))  OBVIOUS
<1>3. /\ n \in Nat /\ Cardinality(LiveIn(attempts[k])) <= n
      /\ Cardinality(LiveIn(attempts[k])) \in Nat
      /\ Limit[Scope[k]] \in Nat /\ workers \in Nat
  BY <1>2, LeftForm, KeyTyped DEF Typed
<1>4. n < Limit[Scope[k]]  BY <1>1, <1>2, <1>3 DEF Limited
<1>5. Cardinality(LiveIn(attempts'[k])) = Cardinality(LiveIn(attempts[k]))  BY StoreLive
<1>6. Pending(k)' \subseteq Busy'  BY DEF Pending, Busy, Idle
<1>7. Cardinality(Pending(k)') <= Cardinality(Busy')  BY <1>6, BusyFinite DEF Busy
<1>8. Cardinality(Pending(k)') \in Nat /\ Cardinality(Busy') \in Nat
  BY RequestsFinite DEF Pending, Busy
<1>9. Cardinality(Busy') <= workers  BY DEF BusyBound
<1>10. QED  BY <1>3, <1>4, <1>5, <1>7, <1>8, <1>9 DEF Load

\* Being recorded: one that was pending counts instead.
LEMMA Recorded ==
  ASSUME Typed, Typed', workers' = workers,
         NEW r \in Request, Record(r), NEW k \in Key, k = Head(req[r].gates), Load(k)
  PROVE  Load(k)'
<1>1. /\ req[r].at = "record" /\ req'[r].at \in {"arrived", "handler"}
      /\ \A q \in Request \ {r} : req'[q] = req[q]
  BY RecordForm
<1>2. r \in Pending(k) /\ Pending(k)' \subseteq Pending(k) \ {r}  BY <1>1 DEF Pending
<1>3. PICK p \in Nat : p = Cardinality(Pending(k))  BY KeyTyped
<1>4. IsFiniteSet(Pending(k)) /\ Pending(k) \ {r} \in SUBSET Request
  BY RequestsFinite DEF Pending
<1>5. Cardinality(Pending(k) \ {r}) = p - 1  BY <1>2, <1>3, <1>4, FS_RemoveElement
<1>6. Cardinality(Pending(k)') <= Cardinality(Pending(k) \ {r})  BY <1>2, <1>4, BusyFinite
<1>7. Cardinality(Pending(k)') \in Nat  BY RequestsFinite DEF Pending
<1>8. Cardinality(LiveIn(attempts'[k])) <= Cardinality(LiveIn(attempts[k])) + 1  BY StoreLive
<1>9. /\ Cardinality(LiveIn(attempts[k])) \in Nat /\ Limit[Scope[k]] \in Nat /\ workers \in Nat
  BY KeyTyped
<1>10. Cardinality(LiveIn(attempts'[k])) \in Nat
  <2>1. attempts'[k] \in Seq(Age)  BY DEF Typed, TypeOK
  <2>2. QED  BY <2>1, PositionsFinite DEF LiveIn
<1>11. PICK a \in Nat, b \in Nat, q \in Nat :
         /\ a = Cardinality(LiveIn(attempts[k])) /\ b = Cardinality(LiveIn(attempts'[k]))
         /\ q = Cardinality(Pending(k)')
  BY <1>7, <1>9, <1>10
<1>12. a + p <= Limit[Scope[k]] + workers - 1  BY <1>3, <1>11 DEF Load
<1>13. b <= a + 1 /\ q <= p - 1  BY <1>3, <1>5, <1>6, <1>8, <1>11
<1>14. b + q <= Limit[Scope[k]] + workers - 1  BY <1>9, <1>12, <1>13
<1>15. QED  BY <1>11, <1>14 DEF Load

LEMMA LoadNext ==
  ASSUME Loaded, [Next]_vars, NEW k \in Key
  PROVE  Load(k)'
<1>1. Typed /\ BusyBound /\ Load(k) /\ Typed' /\ BusyBound'
  BY TypedNext, BusyNext DEF Loaded
<1>2. workers' = workers
  BY DEF Next, vars, Serve, Arrive, ReadClock, Check, Record, Succeed, Fail, Tick, Restart
<1>3. Cardinality(LiveIn(attempts[k])) \in Nat  BY <1>1, KeyTyped
<1>4. ASSUME NEW r \in Request, NEW route \in Routes, Arrive(r, route) PROVE Load(k)'
  <2>1. req'[r].at = "arrived" /\ \A q \in Request \ {r} : req'[q] = req[q]
    BY <1>1, <1>4, ArriveForm
  <2>2. Pending(k)' \subseteq Pending(k)  BY <2>1 DEF Pending
  <2>3. attempts' = attempts  BY <1>4 DEF Arrive
  <2>4. QED  BY <1>1, <1>2, <1>3, <2>2, <2>3, LoadKept
<1>5. ASSUME NEW r \in Request, ReadClock(r) PROVE Load(k)'
  <2>1. /\ \/ req[r].at = "arrived" /\ req'[r].at = "check"
           \/ req[r].at = "admitted" /\ req'[r].at = "record"
        /\ req'[r].gates = req[r].gates
        /\ \A q \in Request \ {r} : req'[q] = req[q]
    BY <1>1, <1>5, ReadClockForm DEF Moved
  <2>2. Pending(k)' \subseteq Pending(k)  BY <2>1 DEF Pending
  <2>3. attempts' = attempts  BY <1>5 DEF ReadClock
  <2>4. QED  BY <1>1, <1>2, <1>3, <2>2, <2>3, LoadKept
<1>6. ASSUME NEW r \in Request, Check(r) PROVE Load(k)'
  <2>1. /\ \/ Limited(r) /\ req'[r] = Idle
           \/ ~Limited(r) /\ req'[r].at = "admitted" /\ req'[r].gates = req[r].gates
        /\ \A q \in Request \ {r} : req'[q] = req[q]
    BY <1>1, <1>6, CheckForm DEF Moved
  <2>2. CASE ~Limited(r) /\ k = Head(req[r].gates)
    BY <1>1, <1>2, <1>6, <2>2, Admitted
  <2>3. CASE Limited(r) \/ k # Head(req[r].gates)
    <3>1. Pending(k)' \subseteq Pending(k)  BY <2>1, <2>3 DEF Pending, Idle
    <3>2. Cardinality(LiveIn(attempts'[k])) <= Cardinality(LiveIn(attempts[k]))
      BY <1>1, <1>3, <1>6, StoreLive
    <3>3. QED  BY <1>1, <1>2, <3>1, <3>2, LoadKept
  <2>4. QED  BY <2>2, <2>3
<1>7. ASSUME NEW r \in Request, Record(r) PROVE Load(k)'
  <2>1. /\ req'[r].at \in {"arrived", "handler"}
        /\ \A q \in Request \ {r} : req'[q] = req[q]
    BY <1>1, <1>7, RecordForm
  <2>2. CASE k = Head(req[r].gates)  BY <1>1, <1>2, <1>7, <2>2, Recorded
  <2>3. CASE k # Head(req[r].gates)
    <3>1. Pending(k)' \subseteq Pending(k)  BY <2>1 DEF Pending
    <3>2. Cardinality(LiveIn(attempts'[k])) <= Cardinality(LiveIn(attempts[k]))
      BY <1>1, <1>3, <1>7, <2>3, StoreLive
    <3>3. QED  BY <1>1, <1>2, <3>1, <3>2, LoadKept
  <2>4. QED  BY <2>2, <2>3
<1>8. ASSUME NEW r \in Request, Succeed(r) \/ Fail(r) PROVE Load(k)'
  <2>1. Done(r)  BY <1>8 DEF Succeed, Fail
  <2>2. req'[r] = Idle /\ \A q \in Request \ {r} : req'[q] = req[q]
    BY <1>1, <2>1, DoneForm
  <2>3. Pending(k)' \subseteq Pending(k)  BY <2>2 DEF Pending, Idle
  <2>4. attempts'[k] = <<>> \/ attempts'[k] = attempts[k]  BY <1>8 DEF Succeed, Fail
  <2>5. Cardinality(LiveIn(<<>>)) = 0
    <3>1. LiveIn(<<>>) = {}  BY DEF LiveIn
    <3>2. QED  BY <3>1, FS_EmptySet
  <2>6. Cardinality(LiveIn(attempts'[k])) <= Cardinality(LiveIn(attempts[k]))
    BY <1>3, <2>4, <2>5
  <2>7. QED  BY <1>1, <1>2, <2>3, <2>6, LoadKept
<1>9. CASE Tick
  <2>1. Cardinality(LiveIn(attempts'[k])) <= Cardinality(LiveIn(attempts[k]))
    BY <1>1, <1>9, TickLive
  <2>2. ASSUME NEW q \in Pending(k)' PROVE q \in Pending(k)
    <3>1. q \in Request /\ req'[q].at \in {"admitted", "record"} /\ Head(req'[q].gates) = k
      BY <2>2 DEF Pending
    <3>2. req'[q].at = req[q].at  BY <1>1, <1>9, <3>1, TickForm
    <3>3. req[q] # Idle  BY <3>1, <3>2 DEF Idle
    <3>4. req'[q].gates = req[q].gates  BY <1>1, <1>9, <3>1, <3>3, TickForm
    <3>5. QED  BY <3>1, <3>2, <3>4 DEF Pending
  <2>3. Pending(k)' \subseteq Pending(k)  BY <2>2
  <2>4. QED  BY <1>1, <1>2, <2>1, <2>3, LoadKept
<1>10. CASE Restart
  <2>1. Pending(k)' \subseteq Pending(k)  BY <1>10 DEF Pending, Restart, Idle
  <2>2. attempts'[k] = <<>> \/ attempts'[k] = attempts[k]  BY <1>10 DEF Restart
  <2>3. Cardinality(LiveIn(<<>>)) = 0
    <3>1. LiveIn(<<>>) = {}  BY DEF LiveIn
    <3>2. QED  BY <3>1, FS_EmptySet
  <2>4. Cardinality(LiveIn(attempts'[k])) <= Cardinality(LiveIn(attempts[k]))
    BY <1>3, <2>2, <2>3
  <2>5. QED  BY <1>1, <1>2, <2>1, <2>4, LoadKept
<1>11. CASE UNCHANGED vars
  <2>1. Pending(k)' \subseteq Pending(k) /\ attempts' = attempts  BY <1>11 DEF Pending, vars
  <2>2. QED  BY <1>1, <1>2, <1>3, <2>1, LoadKept
<1>12. QED  BY <1>4, <1>5, <1>6, <1>7, <1>8, <1>9, <1>10, <1>11 DEF Next, Serve

\* However many requests a deployment serves at a time, no window holds more
\* attempts of a key than its limit and those requests but one, the ones about to
\* be recorded included (WithinBound; check and record, rate_limit.py, which are
\* atomic each and not together).  With one request at a time that is the limit.
THEOREM NeverMoreThanServed == Spec => []WithinBound
<1>1. Init => Loaded  BY TypedInit, BusyInit, LoadInit DEF Loaded
<1>2. Loaded /\ [Next]_vars => Loaded'
  <2>1. SUFFICES ASSUME Loaded, [Next]_vars PROVE Loaded'  OBVIOUS
  <2>2. Typed' /\ BusyBound'  BY <2>1, TypedNext, BusyNext DEF Loaded
  <2>3. workers' = workers
    BY <2>1
    DEF Next, vars, Serve, Arrive, ReadClock, Check, Record, Succeed, Fail, Tick, Restart
  <2>4. \A k \in Key : Load(k)'  BY <2>1, LoadNext
  <2>5. QED  BY <2>1, <2>2, <2>3, <2>4 DEF Loaded
<1>3. Loaded => WithinBound
  BY DEF Loaded, Load, LiveIn, Pending, WithinBound, Live
<1>4. QED  BY <1>1, <1>2, <1>3, PTL DEF Spec

-----------------------------------------------------------------------------
(* Cleaning up *)

Young(s, bound) == s # <<>> => \E i \in DOMAIN s : s[i] < bound

\* Until the prune of its limiter is past due for every clock, a key that has attempts
\* has one that was not stale at the last prune.
Recent ==
  backend = "memory" =>
    \A k \in Key : untilPrune[Scope[k]] > -MaxLag =>
      Young(attempts[k], Window + PruneEvery - untilPrune[Scope[k]])

LEMMA KeptYoung ==
  ASSUME NEW s \in Seq(Age), NEW lag \in 0..MaxLag, NEW bound \in Int,
         Young(s, bound) \/ Window + lag <= bound
  PROVE  Young(Kept(s, lag), bound)
<1>1. SUFFICES ASSUME Kept(s, lag) # <<>>
      PROVE  \E n \in DOMAIN Kept(s, lag) : Kept(s, lag)[n] < bound
  BY DEF Young
<1>2. PICK t \in Seq(Age) : t = Kept(s, lag)  BY KeptTyped
<1>3. 1 \in DOMAIN t /\ t[1] \in Age  BY <1>1, <1>2
<1>4. t[1] < Window + lag /\ \E i \in DOMAIN s : t[1] = s[i]  BY <1>2, <1>3, KeptFrom
<1>5. t[1] \in Int /\ Window + lag \in Int  BY <1>3, Bounds
<1>6. CASE Window + lag <= bound
  <2>1. t[1] < bound  BY <1>4, <1>5, <1>6
  <2>2. QED  BY <1>2, <1>3, <2>1
<1>7. CASE Young(s, bound)
  <2>1. s # <<>>  BY <1>4
  <2>2. PICK i \in DOMAIN s : s[i] < bound  BY <1>7, <2>1 DEF Young
  <2>3. s[i] \in Age /\ s[i] \in Int  BY <2>2, Bounds
  <2>4. CASE Stale(s[i], lag)
    <3>1. t[1] < bound  BY <1>4, <1>5, <2>2, <2>3, <2>4 DEF Stale
    <3>2. QED  BY <1>2, <1>3, <3>1
  <2>5. CASE ~Stale(s[i], lag)
    <3>1. i \in Standing(s, lag)  BY <2>2, <2>5 DEF Standing
    <3>2. QED  BY <2>2, <3>1, KeptHas
  <2>6. QED  BY <2>4, <2>5
<1>8. QED  BY <1>6, <1>7

LEMMA PrunedYoung ==
  ASSUME Typed, Recent, backend = "memory", NEW lag \in 0..MaxLag, NEW k \in Key,
         NEW l \in Limiter, Scope[k] = l
  PROVE  /\ Young(Pruned(l, lag)[k], Window + PruneEvery - Scheduled(l, lag)[l])
         /\ Window <= Window + PruneEvery - Scheduled(l, lag)[l]
         /\ Window + PruneEvery - Scheduled(l, lag)[l] <= Old
         /\ Window + PruneEvery - Scheduled(l, lag)[l] \in Int
<1>1. /\ attempts \in [Key -> Seq(Age)] /\ untilPrune \in [Limiter -> -MaxLag..PruneEvery]
      /\ untilPrune[l] \in Int /\ lag \in Int
  BY Bounds DEF Typed, TypeOK
<1>2. CASE PruneDue(l, lag)
  <2>1. Window + PruneEvery - Scheduled(l, lag)[l] = Window + lag
    BY <1>1, <1>2, Bounds DEF Scheduled
  <2>2. Pruned(l, lag)[k] = IF AllStale(attempts[k], lag) THEN <<>> ELSE attempts[k]
    BY <1>2 DEF Pruned
  <2>3. PICK s \in Seq(Age) : s = attempts[k]  BY <1>1
  <2>4. ASSUME ~AllStale(s, lag) PROVE \E i \in DOMAIN s : s[i] < Window + lag
    <3>1. PICK i \in DOMAIN s : ~Stale(s[i], lag)  BY <2>4 DEF AllStale
    <3>2. s[i] \in Int  BY <3>1, Bounds
    <3>3. QED  BY <1>1, <3>1, <3>2, Bounds DEF Stale
  <2>5. Young(Pruned(l, lag)[k], Window + lag)  BY <2>2, <2>3, <2>4 DEF Young
  <2>6. QED  BY <1>1, <2>1, <2>5, Bounds
<1>3. CASE ~PruneDue(l, lag)
  <2>1. untilPrune[l] + lag > 0  BY <1>1, <1>3, Bounds DEF PruneDue
  <2>2. untilPrune[l] > -MaxLag  BY <1>1, <2>1, Bounds
  <2>3. Young(attempts[k], Window + PruneEvery - untilPrune[l])  BY <2>2 DEF Recent
  <2>4. Pruned(l, lag)[k] = attempts[k] /\ Scheduled(l, lag)[l] = untilPrune[l]
    BY <1>1, <1>3 DEF Pruned, Scheduled
  <2>5. QED  BY <1>1, <2>3, <2>4, Bounds
<1>4. QED  BY <1>2, <1>3

\* After a cleanup every key of the limiter that is left has an attempt that was young.
LEMMA StoreYoung ==
  ASSUME Typed, Recent, backend = "memory", NEW r \in Request, Check(r) \/ Record(r),
         NEW k \in Key, NEW l \in Limiter, Scope[k] = l, Scope[Head(req[r].gates)] = l
  PROVE  /\ Young(attempts'[k], Window + PruneEvery - untilPrune'[l])
         /\ Window + PruneEvery - untilPrune'[l] <= Old
         /\ Window + PruneEvery - untilPrune'[l] \in Int
<1>1. PICK lag \in 0..MaxLag : lag = req[r].lag  BY StoreTyped
<1>2. PICK h \in Key : h = Head(req[r].gates)  BY StoreTyped
<1>3. untilPrune'[l] = Scheduled(l, lag)[l]  BY <1>1 DEF Check, Record
<1>4. PICK bound \in Int : bound = Window + PruneEvery - Scheduled(l, lag)[l]  BY PrunedYoung
<1>5. Window <= bound /\ bound <= Old /\ \A n \in {h, k} : Young(Pruned(l, lag)[n], bound)
  BY <1>2, <1>4, PrunedYoung
<1>6. Pruned(l, lag) \in [Key -> Seq(Age)]  BY PrunedForm DEF Typed
<1>7. PICK s \in Seq(Age) : s = Left(h, lag)  BY LeftForm DEF Typed
<1>8. s = Kept(Pruned(l, lag)[h], lag)  BY <1>2, <1>7 DEF Left, Found
<1>9. Young(s, bound)  BY <1>5, <1>6, <1>8, KeptYoung
<1>10. lag < Window /\ lag \in Age  BY Bounds
<1>11. Young(Append(s, lag), bound)
  <2>1. Append(s, lag)[Len(s) + 1] = lag /\ Len(s) + 1 \in DOMAIN Append(s, lag)  OBVIOUS
  <2>2. lag < bound  BY <1>5, <1>10, Bounds
  <2>3. QED  BY <2>1, <2>2 DEF Young
<1>12. \/ attempts' = [Pruned(l, lag) EXCEPT ![h] = s]
       \/ attempts' = [Pruned(l, lag) EXCEPT ![h] = Append(s, lag)]
  BY <1>1, <1>2, <1>7 DEF Check, Record
<1>13. \/ attempts'[k] = Pruned(l, lag)[k] \/ attempts'[k] = s \/ attempts'[k] = Append(s, lag)
  BY <1>6, <1>12
<1>14. Young(attempts'[k], bound)  BY <1>5, <1>9, <1>11, <1>13
<1>15. QED  BY <1>3, <1>4, <1>5, <1>14

\* The keys and the clock of another limiter stay as they are.
LEMMA StoreOther ==
  ASSUME Typed, NEW r \in Request, Check(r) \/ Record(r), NEW k \in Key,
         Scope[k] # Scope[Head(req[r].gates)]
  PROVE  attempts'[k] = attempts[k] /\ untilPrune'[Scope[k]] = untilPrune[Scope[k]]
<1>1. PICK lag \in 0..MaxLag : lag = req[r].lag  BY StoreTyped
<1>2. PICK h \in Key : h = Head(req[r].gates)  BY StoreTyped
<1>3. PICK l \in Limiter : l = Scope[h]  BY <1>2, Bounds
<1>4. Pruned(l, lag) \in [Key -> Seq(Age)]  BY PrunedForm DEF Typed
<1>5. Pruned(l, lag)[k] = attempts[k]  BY <1>2, <1>3 DEF Pruned
<1>6. attempts'[k] = Pruned(l, lag)[k]  BY <1>1, <1>2, <1>3, <1>4 DEF Check, Record
<1>7. untilPrune' = Scheduled(l, lag)  BY <1>1, <1>2, <1>3 DEF Check, Record
<1>8. QED  BY <1>2, <1>3, <1>5, <1>6, <1>7, ScheduledTyped, Bounds DEF Typed

LEMMA RecentNext ==
  ASSUME Typed, Recent, [Next]_vars
  PROVE  Recent'
<1>1. backend' = backend /\ untilPrune \in [Limiter -> -MaxLag..PruneEvery]
  <2>1. backend' = backend
    BY DEF Next, vars, Serve, Arrive, ReadClock, Check, Record, Succeed, Fail, Tick, Restart
  <2>2. QED  BY <2>1, Bounds DEF Typed, TypeOK
<1>2. SUFFICES ASSUME backend = "memory", NEW k \in Key, NEW l \in Limiter, l = Scope[k],
                      untilPrune'[l] > -MaxLag
      PROVE  Young(attempts'[k], Window + PruneEvery - untilPrune'[l])
  BY <1>1, Bounds DEF Recent
<1>3. Young(<<>>, Window + PruneEvery - untilPrune'[l])  BY DEF Young
<1>4. ASSUME untilPrune'[l] = untilPrune[l], attempts'[k] = <<>> \/ attempts'[k] = attempts[k]
      PROVE  Young(attempts'[k], Window + PruneEvery - untilPrune'[l])
  BY <1>2, <1>3, <1>4 DEF Recent
<1>5. ASSUME NEW r \in Request, Serve(r)
      PROVE  Young(attempts'[k], Window + PruneEvery - untilPrune'[l])
  <2>1. CASE Check(r) \/ Record(r)
    <3>1. CASE Scope[Head(req[r].gates)] = l  BY <1>2, <2>1, <3>1, StoreYoung
    <3>2. CASE Scope[Head(req[r].gates)] # l  BY <1>2, <1>4, <2>1, <3>2, StoreOther
    <3>3. QED  BY <3>1, <3>2
  <2>2. CASE ReadClock(r) \/ Succeed(r) \/ Fail(r)
    <3>1. untilPrune'[l] = untilPrune[l]  BY <2>2 DEF ReadClock, Succeed, Fail
    <3>2. attempts'[k] = <<>> \/ attempts'[k] = attempts[k]
      BY <2>2 DEF ReadClock, Succeed, Fail
    <3>3. QED  BY <1>4, <3>1, <3>2
  <2>3. QED  BY <1>5, <2>1, <2>2 DEF Serve
<1>6. ASSUME NEW r \in Request, NEW route \in Routes, Arrive(r, route)
      PROVE  Young(attempts'[k], Window + PruneEvery - untilPrune'[l])
  BY <1>4, <1>6 DEF Arrive
<1>7. CASE Tick
  <2>1. untilPrune[l] > -MaxLag /\ untilPrune'[l] = untilPrune[l] - 1
    BY <1>1, <1>2, <1>7, Bounds DEF Tick
  <2>2. PICK s \in Seq(Age) : s = attempts[k]  BY DEF Typed, TypeOK
  <2>3. Young(s, Window + PruneEvery - untilPrune[l])  BY <1>2, <2>1, <2>2 DEF Recent
  <2>4. PICK aged \in Seq(Age) :
           /\ Len(aged) = Len(s)
           /\ \A i \in DOMAIN aged : aged[i] = IF s[i] = Old THEN Old ELSE s[i] + 1
           /\ attempts'[k] = aged
    BY <1>2, <1>7, <2>2, TickStore
  <2>5. DOMAIN aged = DOMAIN s /\ (aged # <<>> => s # <<>>)  BY <2>4
  <2>6. SUFFICES ASSUME aged # <<>>
        PROVE  \E i \in DOMAIN aged : aged[i] < Window + PruneEvery - untilPrune'[l]
    BY <2>4 DEF Young
  <2>7. PICK i \in DOMAIN s : s[i] < Window + PruneEvery - untilPrune[l]
    BY <2>3, <2>5, <2>6 DEF Young
  <2>8. s[i] \in Int  BY <2>7, Bounds
  <2>9. s[i] < Old  BY <1>1, <2>1, <2>7, <2>8, Bounds
  <2>10. aged[i] = s[i] + 1  BY <2>4, <2>5, <2>7, <2>8, <2>9, Bounds
  <2>11. aged[i] < Window + PruneEvery - untilPrune'[l]
    BY <1>1, <2>1, <2>7, <2>8, <2>10, Bounds
  <2>12. QED  BY <2>5, <2>11
<1>8. CASE Restart
  <2>1. attempts'[k] = <<>>  BY <1>2, <1>8 DEF Restart
  <2>2. QED  BY <1>3, <2>1
<1>9. CASE UNCHANGED vars  BY <1>4, <1>9 DEF vars
<1>10. QED  BY <1>5, <1>6, <1>7, <1>8, <1>9 DEF Next

LEMMA RecentAlways == Spec => [](Typed /\ Recent)
<1>1. Init => Typed /\ Recent
  <2>1. Init => Recent  BY DEF Init, Recent, Young
  <2>2. QED  BY <2>1, TypedInit
<1>2. Typed /\ Recent /\ [Next]_vars => (Typed /\ Recent)'  BY TypedNext, RecentNext
<1>3. QED  BY <1>1, <1>2, PTL DEF Spec

\* Whatever clock a request has read, the cleanup that its check or its record does
\* forgets no attempt that still counts, of any key, and leaves in the memory of the
\* limiter that is asked no key whose last attempt is older than a window, a prune
\* interval and the lag (CleanupExact; _prune_stale_keys and _cleanup_key).
THEOREM CleanupForgetsAndKeepsNothing == Spec => CleanupExact
<1> DEFINE Exact ==
      \A r \in Request : Check(r) \/ Record(r) =>
        \A k \in Key :
          /\ Cardinality(Live(k)') >= Cardinality(Live(k))
          /\ /\ backend = "memory" /\ attempts'[k] # <<>>
             /\ Scope[k] = Scope[Head(req[r].gates)]
             => \E i \in DOMAIN attempts'[k] : attempts'[k][i] < Old
<1>1. ASSUME Typed, Recent PROVE Exact
  <2>1. SUFFICES ASSUME NEW r \in Request, Check(r) \/ Record(r), NEW k \in Key
        PROVE  /\ Cardinality(Live(k)') >= Cardinality(Live(k))
               /\ /\ backend = "memory" /\ attempts'[k] # <<>>
                  /\ Scope[k] = Scope[Head(req[r].gates)]
                  => \E i \in DOMAIN attempts'[k] : attempts'[k][i] < Old
    OBVIOUS
  <2>2. Cardinality(LiveIn(attempts'[k])) >= Cardinality(LiveIn(attempts[k]))
    <3>1. Cardinality(LiveIn(attempts[k])) \in Nat  BY <1>1, KeyTyped
    <3>2. QED  BY <1>1, <2>1, <3>1, StoreLive
  <2>3. ASSUME backend = "memory", attempts'[k] # <<>>, NEW l \in Limiter, l = Scope[k],
               l = Scope[Head(req[r].gates)]
        PROVE  \E i \in DOMAIN attempts'[k] : attempts'[k][i] < Old
    <3>1. PICK bound \in Int : bound = Window + PruneEvery - untilPrune'[l] /\ bound <= Old
      BY <1>1, <2>1, <2>3, StoreYoung
    <3>2. Young(attempts'[k], bound)  BY <1>1, <2>1, <2>3, <3>1, StoreYoung
    <3>3. PICK i \in DOMAIN attempts'[k] : attempts'[k][i] < bound  BY <2>3, <3>2 DEF Young
    <3>4. attempts' \in [Key -> Seq(Age)]  BY <1>1, <2>1, StoreTyped
    <3>5. attempts'[k][i] \in Age  BY <3>3, <3>4
    <3>6. attempts'[k][i] < Old  BY <3>1, <3>3, <3>5, Bounds
    <3>7. QED  BY <3>3, <3>6
  <2>4. QED  BY <2>2, <2>3, Bounds DEF Live, LiveIn
<1>2. Typed /\ Recent => [Exact]_vars  BY <1>1
<1>3. [][Exact]_vars => CleanupExact  BY PTL DEF CleanupExact
<1>4. QED  BY <1>2, <1>3, RecentAlways, PTL

-----------------------------------------------------------------------------
(* One request at a time *)

Since(s, lag) == \A i \in DOMAIN s : s[i] >= lag

\* The lists are in the order of time, and stay so when the attempt of a request
\* that has read the clock is appended.
Ordered ==
  workers = 1 => \A k \in Key :
    /\ Descending(attempts[k])
    /\ \A r \in Request : req[r].at = "record" => Since(attempts[k], req[r].lag)

LEMMA KeptSince ==
  ASSUME NEW s \in Seq(Age), NEW lag \in 0..MaxLag, NEW least, Since(s, least)
  PROVE  Since(Kept(s, lag), least)
BY KeptFrom DEF Since

LEMMA AppendDescending ==
  ASSUME NEW s \in Seq(Age), NEW a \in Age, Descending(s), Since(s, a)
  PROVE  Descending(Append(s, a))
<1>1. PICK n \in Nat : n = Len(s) /\ DOMAIN s = 1..n  OBVIOUS
<1>2. PICK t : t = Append(s, a)  OBVIOUS
<1>3. /\ DOMAIN t = 1 .. n+1 /\ t[n+1] = a
      /\ \A i \in 1..n : t[i] = s[i] /\ s[i] \in Age
  BY <1>1, <1>2
<1>4. SUFFICES ASSUME NEW i \in 1 .. n+1, NEW j \in 1 .. n+1, i < j PROVE t[i] >= t[j]
  BY <1>2, <1>3 DEF Descending
<1>5. i \in 1..n  BY <1>1, <1>4
<1>6. CASE j = n+1  BY <1>1, <1>3, <1>5, <1>6 DEF Since
<1>7. CASE j # n+1
  <2>1. j \in 1..n  BY <1>1, <1>7
  <2>2. s[i] >= s[j]  BY <1>1, <1>4, <1>5, <2>1 DEF Descending
  <2>3. QED  BY <1>3, <1>5, <2>1, <2>2
<1>8. QED  BY <1>6, <1>7

LEMMA LeftOrdered ==
  ASSUME Typed, NEW lag \in 0..MaxLag, NEW k \in Key, Descending(attempts[k]), NEW l
  PROVE  /\ Descending(Pruned(l, lag)[k])
         /\ Descending(Left(k, lag)) /\ Descending(Found(k, lag))
         /\ \A least \in Age : Since(attempts[k], least) =>
               Since(Pruned(l, lag)[k], least) /\ Since(Left(k, lag), least)
<1>1. attempts[k] \in Seq(Age) /\ Pruned(Scope[k], lag)[k] \in Seq(Age)
  BY PrunedForm DEF Typed, TypeOK
<1>2. \A n : Pruned(n, lag)[k] = attempts[k] \/ Pruned(n, lag)[k] = <<>>
  BY PrunedForm DEF Typed
<1>3. \A n : Descending(Pruned(n, lag)[k])  BY <1>2 DEF Descending
<1>4. Descending(Found(k, lag))  BY <1>1, <1>3, KeptDescending DEF Found
<1>5. ASSUME NEW least \in Age, Since(attempts[k], least)
      PROVE  Since(Pruned(l, lag)[k], least) /\ Since(Left(k, lag), least)
  <2>1. \A n : Since(Pruned(n, lag)[k], least)  BY <1>2, <1>5 DEF Since
  <2>2. Since(Found(k, lag), least)  BY <1>1, <2>1, KeptSince DEF Found
  <2>3. QED  BY <1>5, <2>1, <2>2 DEF Left
<1>6. QED  BY <1>3, <1>4, <1>5 DEF Left

\* With one worker a request that is served is the only one.
LEMMA Alone ==
  ASSUME Typed, BusyBound, workers = 1,
         NEW p \in Request, NEW q \in Request, req[p] # Idle, req[q] # Idle
  PROVE  p = q
<1>1. SUFFICES ASSUME p # q PROVE FALSE  OBVIOUS
<1>2. {p} \in SUBSET Request /\ {p} \cup {q} \in SUBSET Busy /\ Busy \in SUBSET Request
  BY DEF Busy
<1>3. Cardinality({p}) = 1 /\ IsFiniteSet({p})  BY FS_Singleton
<1>4. Cardinality({p} \cup {q}) = 2  BY <1>1, <1>3, FS_AddElement
<1>5. Cardinality({p} \cup {q}) <= Cardinality(Busy)  BY <1>2, BusyFinite
<1>6. Cardinality(Busy) \in Nat  BY <1>2, RequestsFinite
<1>7. QED  BY <1>4, <1>5, <1>6 DEF BusyBound

LEMMA OrderedNext ==
  ASSUME Loaded, Ordered, [Next]_vars
  PROVE  Ordered'
<1>1. Typed /\ Typed' /\ BusyBound  BY TypedNext DEF Loaded
<1>2. workers' = workers
  BY DEF Next, vars, Serve, Arrive, ReadClock, Check, Record, Succeed, Fail, Tick, Restart
<1>3. SUFFICES ASSUME workers = 1, NEW k \in Key
      PROVE  /\ Descending(attempts'[k])
             /\ \A r \in Request : req'[r].at = "record" => Since(attempts'[k], req'[r].lag)
  BY <1>2 DEF Ordered
<1>4. /\ Descending(attempts[k])
      /\ \A r \in Request : req[r].at = "record" => Since(attempts[k], req[r].lag)
  BY <1>3 DEF Ordered
<1>5. attempts[k] \in Seq(Age) /\ attempts'[k] \in Seq(Age)  BY <1>1 DEF Typed, TypeOK
<1> DEFINE Goal == /\ Descending(attempts'[k])
                   /\ \A r \in Request : req'[r].at = "record" => Since(attempts'[k], req'[r].lag)
<1>6. ASSUME attempts'[k] = <<>> PROVE Goal  BY <1>6 DEF Descending, Since
<1>7. ASSUME NEW r \in Request, NEW route \in Routes, Arrive(r, route) PROVE Goal
  <2>1. req'[r].at = "arrived" /\ \A q \in Request \ {r} : req'[q] = req[q]
    BY <1>1, <1>7, ArriveForm
  <2>2. QED  BY <1>4, <1>7, <2>1 DEF Arrive
<1>8. ASSUME NEW r \in Request, ReadClock(r) PROVE Goal
  <2>1. /\ req'[r].lag = 0 /\ \A q \in Request \ {r} : req'[q] = req[q]
    BY <1>1, <1>8, ReadClockForm DEF Moved
  <2>2. attempts' = attempts  BY <1>8 DEF ReadClock
  <2>3. \A i \in DOMAIN attempts[k] : attempts[k][i] \in Age  BY <1>5
  <2>4. Since(attempts[k], 0)  BY <2>3, Bounds DEF Since
  <2>5. QED  BY <1>4, <2>1, <2>2, <2>4
<1>9. ASSUME NEW r \in Request, Check(r) PROVE Goal
  <2>1. /\ req[r] # Idle /\ (req'[r] = Idle \/ req'[r].at = "admitted")
        /\ \A q \in Request \ {r} : req'[q] = req[q]
    BY <1>1, <1>9, CheckForm DEF Moved
  <2>2. \A q \in Request : req'[q].at # "record"
    <3>1. req'[r].at # "record"  BY <2>1 DEF Idle
    <3>2. ASSUME NEW q \in Request \ {r} PROVE req'[q].at # "record"
      <4>1. req[q] = Idle  BY <1>1, <1>3, <2>1, <3>2, Alone
      <4>2. QED  BY <2>1, <4>1 DEF Idle
    <3>3. QED  BY <3>1, <3>2
  <2>3. PICK lag \in 0..MaxLag : lag = req[r].lag  BY <1>1, <1>9, StoreTyped
  <2>4. PICK h \in Key : h = Head(req[r].gates)  BY <1>1, <1>9, StoreTyped
  <2>5. attempts' = [Pruned(Scope[h], lag) EXCEPT ![h] = Left(h, lag)]
    BY <1>9, <2>3, <2>4 DEF Check
  <2>6. Pruned(Scope[h], lag) \in [Key -> Seq(Age)]  BY <1>1, PrunedForm DEF Typed
  <2>7. attempts'[k] = Pruned(Scope[h], lag)[k] \/ attempts'[k] = Left(k, lag)  BY <2>5, <2>6
  <2>8. Descending(attempts'[k])  BY <1>1, <1>4, <2>7, LeftOrdered
  <2>9. QED  BY <2>2, <2>8
<1>10. ASSUME NEW r \in Request, Record(r) PROVE Goal
  <2>1. /\ req[r] # Idle /\ req[r].at = "record" /\ req'[r].at \in {"arrived", "handler"}
        /\ \A q \in Request \ {r} : req'[q] = req[q]
    BY <1>1, <1>10, RecordForm
  <2>2. \A q \in Request : req'[q].at # "record"
    <3>1. req'[r].at # "record"  BY <2>1
    <3>2. ASSUME NEW q \in Request \ {r} PROVE req'[q].at # "record"
      <4>1. req[q] = Idle  BY <1>1, <1>3, <2>1, <3>2, Alone
      <4>2. QED  BY <2>1, <4>1 DEF Idle
    <3>3. QED  BY <3>1, <3>2
  <2>3. PICK lag \in 0..MaxLag : lag = req[r].lag  BY <1>1, <1>10, StoreTyped
  <2>4. PICK h \in Key : h = Head(req[r].gates)  BY <1>1, <1>10, StoreTyped
  <2>5. attempts' = [Pruned(Scope[h], lag) EXCEPT ![h] = Append(Left(h, lag), lag)]
    BY <1>10, <2>3, <2>4 DEF Record
  <2>6. Pruned(Scope[h], lag) \in [Key -> Seq(Age)]  BY <1>1, PrunedForm DEF Typed
  <2>7. attempts'[k] = Pruned(Scope[h], lag)[k] \/ attempts'[k] = Append(Left(k, lag), lag)
    BY <2>5, <2>6
  <2>8. lag \in Age /\ Left(k, lag) \in Seq(Age)  BY <1>1, Bounds, LeftForm DEF Typed
  <2>9. Since(attempts[k], lag)  BY <1>4, <2>1, <2>3
  <2>10. /\ Descending(Pruned(Scope[h], lag)[k]) /\ Descending(Left(k, lag))
         /\ Since(Left(k, lag), lag)
    BY <1>1, <1>4, <2>8, <2>9, LeftOrdered
  <2>11. Descending(attempts'[k])  BY <2>7, <2>8, <2>10, AppendDescending
  <2>12. QED  BY <2>2, <2>11
<1>11. ASSUME NEW r \in Request, Succeed(r) \/ Fail(r) PROVE Goal
  <2>1. Done(r)  BY <1>11 DEF Succeed, Fail
  <2>2. req'[r] = Idle /\ \A q \in Request \ {r} : req'[q] = req[q]
    BY <1>1, <2>1, DoneForm
  <2>3. attempts'[k] = <<>> \/ attempts'[k] = attempts[k]  BY <1>11 DEF Succeed, Fail
  <2>4. CASE attempts'[k] = attempts[k]  BY <1>4, <2>2, <2>4 DEF Idle
  <2>5. QED  BY <1>6, <2>3, <2>4
<1>12. CASE Tick
  <2>1. PICK s \in Seq(Age) : s = attempts[k]  BY <1>5
  <2>2. PICK aged \in Seq(Age) :
           /\ Len(aged) = Len(s)
           /\ \A i \in DOMAIN aged : aged[i] = IF s[i] = Old THEN Old ELSE s[i] + 1
           /\ attempts'[k] = IF backend = "memory" THEN aged ELSE Kept(aged, MaxLag)
    BY <1>1, <1>12, <2>1, TickStore
  <2>3. DOMAIN aged = DOMAIN s /\ \A i \in DOMAIN s : s[i] \in 0..Old  BY <2>2, Bounds
  <2>4. Descending(aged)
    <3>1. SUFFICES ASSUME NEW i \in DOMAIN s, NEW j \in DOMAIN s, i < j
          PROVE  aged[i] >= aged[j]
      BY <2>3 DEF Descending
    <3>2. s[i] >= s[j]  BY <1>4, <2>1, <3>1 DEF Descending
    <3>3. s[i] \in 0..Old /\ s[j] \in 0..Old /\ Old \in Nat  BY <2>3, Bounds
    <3>4. /\ aged[i] = IF s[i] = Old THEN Old ELSE s[i] + 1
          /\ aged[j] = IF s[j] = Old THEN Old ELSE s[j] + 1
      BY <2>2, <2>3
    <3>5. QED  BY <3>2, <3>3, <3>4
  <2>5. MaxLag \in 0..MaxLag  BY Bounds
  <2>6. Descending(attempts'[k])  BY <2>2, <2>4, <2>5, KeptDescending
  <2>7. ASSUME NEW r \in Request, req'[r].at = "record"
        PROVE  Since(attempts'[k], req'[r].lag)
    <3>1. req[r].at = "record"  BY <1>1, <1>12, <2>7, TickForm
    <3>2. req'[r].lag = req[r].lag + 1  BY <1>1, <1>12, <3>1, TickForm
    <3>3. req[r] # Idle  BY <3>1 DEF Idle
    <3>4. PICK lag \in 0..MaxLag : lag = req[r].lag  BY <1>1, <3>3, Fields
    <3>5. lag < MaxLag  BY <1>12, <3>1, <3>4 DEF Tick
    <3>6. Since(s, lag)  BY <1>4, <2>1, <3>1, <3>4
    <3>7. lag \in Nat /\ lag + 1 <= Old /\ Old \in Nat  BY <3>4, <3>5, Bounds
    <3>8. ASSUME NEW i \in DOMAIN s PROVE aged[i] >= lag + 1
      <4>1. aged[i] = IF s[i] = Old THEN Old ELSE s[i] + 1  BY <2>2, <2>3
      <4>2. s[i] \in 0..Old /\ s[i] >= lag  BY <2>3, <3>6 DEF Since
      <4>3. QED  BY <3>7, <4>1, <4>2
    <3>9. Since(aged, lag + 1)  BY <2>3, <3>8 DEF Since
    <3>10. Since(Kept(aged, MaxLag), lag + 1)  BY <2>5, <3>9, KeptSince
    <3>11. QED  BY <2>2, <3>2, <3>4, <3>9, <3>10
  <2>8. QED  BY <2>6, <2>7
<1>13. CASE Restart
  <2>1. \A r \in Request : req'[r].at # "record"  BY <1>13 DEF Restart, Idle
  <2>2. attempts'[k] = <<>> \/ attempts'[k] = attempts[k]  BY <1>13 DEF Restart
  <2>3. QED  BY <1>4, <1>6, <2>1, <2>2
<1>14. CASE UNCHANGED vars  BY <1>4, <1>14 DEF vars
<1>15. QED
  BY <1>7, <1>8, <1>9, <1>10, <1>11, <1>12, <1>13, <1>14 DEF Next, Serve

\* The first of a list in the order of time, or the maximum of any list.
LEMMA OldestIsOldest ==
  ASSUME NEW s \in Seq(Age), s # <<>>, backend = "memory" => Descending(s)
  PROVE  /\ \E i \in DOMAIN s : s[i] = Oldest(s)
         /\ \A j \in DOMAIN s : s[j] <= Oldest(s)
<1>1. PICK n \in Nat \ {0} : n = Len(s) /\ DOMAIN s = 1..n  OBVIOUS
<1>2. \A i \in 1..n : s[i] \in 0..Old /\ s[i] \in Age  BY <1>1, Bounds
<1>3. CASE backend = "memory"
  <2>1. Oldest(s) = s[1] /\ 1 \in 1..n  BY <1>1, <1>3 DEF Oldest
  <2>2. \A j \in 1..n : j # 1 => s[j] <= s[1]  BY <1>1, <1>2, <1>3 DEF Descending
  <2>3. QED  BY <1>1, <1>2, <2>1, <2>2
<1>4. CASE backend # "memory"
  <2> DEFINE T == {Old - s[i] : i \in 1..n}
  <2>1. T \in SUBSET Nat /\ Old - s[1] \in T  BY <1>1, <1>2, Bounds
  <2>2. PICK t \in T : \A m \in T : t <= m  BY <2>1, Least
  <2>3. PICK i \in 1..n : t = Old - s[i]  BY <2>2
  <2>4. ASSUME NEW j \in 1..n PROVE s[j] <= s[i]
    <3>1. Old - s[i] <= Old - s[j]  BY <2>2, <2>3
    <3>2. QED  BY <1>2, <3>1, Bounds
  <2>5. \E a \in Age : (\E m \in DOMAIN s : s[m] = a) /\ \A j \in DOMAIN s : s[j] <= a
    BY <1>1, <1>2, <2>4
  <2>6. Oldest(s) = CHOOSE a \in Age :
                      \E m \in DOMAIN s : s[m] = a /\ \A j \in DOMAIN s : s[j] <= a
    BY <1>4 DEF Oldest
  <2>7. QED  BY <2>5, <2>6
<1>5. QED  BY <1>3, <1>4

\* What a refusal answers: the oldest attempt that counts leaves the window then.
LEMMA Refused ==
  ASSUME Loaded, Ordered, workers = 1, NEW r \in Request, Check(r), Limited(r), req[r].lag = 0,
         NEW k \in Key, k = Head(req[r].gates)
  PROVE  \E o \in Age :
           /\ o < Window /\ RetryAfter(k, 0) = Window - o
           /\ \E i \in Live(k) : attempts[k][i] = o
           /\ \A i \in Live(k) : attempts[k][i] <= o
           /\ Cardinality(Live(k)) = Limit[Scope[k]]
<1>1. Typed /\ TypeOK /\ Load(k) /\ Descending(attempts[k])
  BY DEF Loaded, Typed, Ordered
<1>2. 0 \in 0..MaxLag /\ Window \in Nat \ {0}  BY Bounds
<1>3. PICK a \in Seq(Age) : a = attempts[k]  BY <1>1 DEF TypeOK
<1>4. PICK s \in Seq(Age) : s = Found(k, 0)  BY <1>1, <1>2, LeftForm
<1>5. Pruned(Scope[k], 0)[k] \in Seq(Age) /\ s = Kept(Pruned(Scope[k], 0)[k], 0)
  BY <1>1, <1>2, <1>4, PrunedForm DEF Found
<1>6. Len(s) >= Limit[Scope[k]] /\ Limit[Scope[k]] \in Nat \ {0}
  BY <1>4, RateLimitConstants DEF Limited
<1>7. s # <<>> /\ Len(s) \in Nat  BY <1>6
<1>8. Pruned(Scope[k], 0)[k] = a
  <2>1. ASSUME Pruned(Scope[k], 0)[k] = <<>> PROVE FALSE
    <3>1. s = Kept(<<>>, 0)  BY <1>5, <2>1
    <3>2. 1 \in DOMAIN Kept(<<>>, 0) /\ <<>> \in Seq(Age)  BY <1>7, <3>1
    <3>3. \E i \in DOMAIN <<>> : Kept(<<>>, 0)[1] = <<>>[i]  BY <1>2, <3>2, KeptFrom
    <3>4. QED  BY <3>3
  <2>2. QED  BY <1>1, <1>2, <1>3, <2>1, PrunedForm
<1>9. s = Kept(a, 0) /\ \A i \in DOMAIN a : a[i] \in Age /\ a[i] \in Int
  BY <1>5, <1>8, Bounds
<1>10. Standing(a, 0) = LiveIn(a)  BY <1>2, <1>9 DEF Standing, LiveIn, Stale
<1>11. Live(k) = LiveIn(a) /\ Live(k) = Standing(a, 0)  BY <1>3, <1>10 DEF Live, LiveIn
<1>12. Cardinality(Live(k)) = Len(s)  BY <1>9, <1>11, KeptTyped
<1>13. Cardinality(Live(k)) = Limit[Scope[k]]
  <2>1. Cardinality(Pending(k)) \in Nat  BY <1>1, KeyTyped
  <2>2. Cardinality(Live(k)) + Cardinality(Pending(k)) <= Limit[Scope[k]] + 1 - 1
    BY <1>3, <1>1, <1>11 DEF Load
  <2>3. QED  BY <1>6, <1>7, <1>12, <2>1, <2>2
<1>14. PICK o : o = Oldest(s)  OBVIOUS
<1>15. Descending(s)  BY <1>1, <1>3, <1>9, KeptDescending
<1>16. (\E n \in DOMAIN s : s[n] = o) /\ \A n \in DOMAIN s : s[n] <= o
  BY <1>7, <1>14, <1>15, OldestIsOldest
<1>17. PICK n \in DOMAIN s : s[n] = o  BY <1>16
<1>18. s[n] < Window + 0 /\ \E i \in DOMAIN a : s[n] = a[i]
  BY <1>2, <1>9, <1>17, KeptFrom
<1>19. PICK i \in DOMAIN a : o = a[i] /\ a[i] < Window  BY <1>2, <1>9, <1>17, <1>18
<1>20. i \in Live(k) /\ o \in Age /\ o \in Int /\ o < Window
  BY <1>9, <1>11, <1>19 DEF LiveIn
<1>21. \A j \in Live(k) : a[j] <= o
  <2>1. SUFFICES ASSUME NEW j \in Standing(a, 0) PROVE a[j] <= o  BY <1>11
  <2>2. PICK m \in DOMAIN s : s[m] = a[j]  BY <1>9, <2>1, KeptHas
  <2>3. QED  BY <1>16, <2>2
<1>22. RetryAfter(k, 0) = Window - o
  <2>1. ~(Window - o < 1) /\ Window + 0 - o = Window - o  BY <1>2, <1>20
  <2>2. QED  BY <1>4, <1>14, <2>1 DEF RetryAfter
<1>23. QED  BY <1>3, <1>13, <1>19, <1>20, <1>21, <1>22

\* With one request at a time a refused client is told the exact number of seconds
\* after which the key has room again: then fewer attempts count than the limit,
\* and one second before they do not (RetryAfterExact; retry_after of check,
\* rate_limit.py).
THEOREM RetryAfterIsExact == Spec => RetryAfterExact
<1> DEFINE Exact ==
      \A r \in Request :
        workers = 1 /\ Check(r) /\ Limited(r) /\ req[r].lag = 0 =>
           LET k == Head(req[r].gates)
               wait == RetryAfter(k, 0)
               liveIn(n) == {i \in Live(k) : attempts[k][i] + n < Window}
           IN  /\ Cardinality(liveIn(wait)) < Limit[Scope[k]]
               /\ Cardinality(liveIn(wait - 1)) >= Limit[Scope[k]]
<1>1. Init => Loaded /\ Ordered
  <2>1. Init => Ordered  BY DEF Init, Ordered, Descending, Idle
  <2>2. QED  BY <2>1, TypedInit, BusyInit, LoadInit DEF Loaded
<1>2. Loaded /\ Ordered /\ [Next]_vars => (Loaded /\ Ordered)'
  <2>1. SUFFICES ASSUME Loaded, Ordered, [Next]_vars PROVE Loaded' /\ Ordered'  OBVIOUS
  <2>2. Typed' /\ BusyBound'  BY <2>1, TypedNext, BusyNext DEF Loaded
  <2>3. workers' = workers
    BY <2>1
    DEF Next, vars, Serve, Arrive, ReadClock, Check, Record, Succeed, Fail, Tick, Restart
  <2>4. \A k \in Key : Load(k)'  BY <2>1, LoadNext
  <2>5. QED  BY <2>1, <2>2, <2>3, <2>4, OrderedNext DEF Loaded
<1>3. ASSUME Loaded, Ordered PROVE Exact
  <2>1. SUFFICES ASSUME NEW r \in Request, workers = 1, Check(r), Limited(r), req[r].lag = 0,
                        NEW k, k = Head(req[r].gates), NEW wait, wait = RetryAfter(k, 0)
        PROVE  /\ Cardinality({i \in Live(k) : attempts[k][i] + wait < Window}) < Limit[Scope[k]]
               /\ Cardinality({i \in Live(k) : attempts[k][i] + (wait - 1) < Window})
                    >= Limit[Scope[k]]
    OBVIOUS
  <2>2. Typed /\ k \in Key  BY <1>3, <2>1, StoreTyped DEF Loaded
  <2>3. PICK o \in Age :
           /\ o < Window /\ wait = Window - o
           /\ \E i \in Live(k) : attempts[k][i] = o
           /\ \A i \in Live(k) : attempts[k][i] <= o
           /\ Cardinality(Live(k)) = Limit[Scope[k]]
    BY <1>3, <2>1, <2>2, Refused
  <2>4. PICK i \in Live(k) : attempts[k][i] = o  BY <2>3
  <2>5. PICK a \in Seq(Age) : a = attempts[k]  BY <2>2 DEF Typed, TypeOK
  <2>6. \A j \in Live(k) : a[j] \in Int /\ a[j] <= o  BY <2>3, <2>5, Bounds DEF Live
  <2>7. o \in Int /\ Window \in Int /\ Limit[Scope[k]] \in Nat
    BY <2>2, Bounds, RateLimitConstants
  <2>8. IsFiniteSet(Live(k))  BY <2>5, PositionsFinite DEF Live
  <2>9. Cardinality({j \in Live(k) : a[j] + wait < Window}) < Limit[Scope[k]]
    <3>1. i \notin {j \in Live(k) : a[j] + wait < Window}  BY <2>3, <2>4, <2>5, <2>7
    <3>2. {j \in Live(k) : a[j] + wait < Window} \subseteq Live(k) \ {i}  BY <3>1
    <3>3. IsFiniteSet(Live(k) \ {i}) /\ Cardinality(Live(k) \ {i}) = Cardinality(Live(k)) - 1
      BY <2>8, FS_RemoveElement
    <3>4. /\ Cardinality({j \in Live(k) : a[j] + wait < Window}) <= Cardinality(Live(k) \ {i})
          /\ IsFiniteSet({j \in Live(k) : a[j] + wait < Window})
      BY <3>2, <3>3, FS_Subset
    <3>5. Cardinality({j \in Live(k) : a[j] + wait < Window}) \in Nat
      BY <3>4, FS_CardinalityType
    <3>6. QED  BY <2>3, <2>7, <3>3, <3>4, <3>5
  <2>10. {j \in Live(k) : a[j] + (wait - 1) < Window} = Live(k)
    BY <2>3, <2>6, <2>7
  <2>11. Cardinality({j \in Live(k) : a[j] + (wait - 1) < Window}) >= Limit[Scope[k]]
    <3>1. Cardinality(Live(k)) >= Limit[Scope[k]]  BY <2>3, <2>7
    <3>2. QED  BY <2>10, <3>1
  <2>12. QED  BY <2>5, <2>9, <2>11
<1>4. Loaded /\ Ordered => [Exact]_vars  BY <1>3
<1>5. [][Exact]_vars => RetryAfterExact  BY PTL DEF RetryAfterExact
<1>6. QED  BY <1>1, <1>2, <1>4, <1>5, PTL DEF Spec
=============================================================================
