--------------------------- MODULE KVBlocksProofs ---------------------------
(***************************************************************************)
(* The block pool for any requests, prompts, number and size of blocks:    *)
(* reference counts, free queue and hash map are exact, with a block its   *)
(* whole prefix is cached, and under FCFS the pool implements PrivateKV.   *)
(* The linked list below implements FreeQueue for any number of blocks.    *)
(***************************************************************************)
EXTENDS KVBlocks, FreeBlockList, FiniteSetTheorems, SequenceTheorems, TLAPS

-----------------------------------------------------------------------------
(* The invariant.                                                          *)

Steps == [req : Reqs, blocks : Seq(Blocks), from : Nat, to : Nat, first : BOOLEAN,
          live : BOOLEAN]

\* A request has blocks for exactly its computed tokens, and published the full
\* ones; a block has finitely many users.
Shape ==
    /\ workload \in Workloads
    /\ inflight \in Seq(Steps)
    /\ computed \in [Reqs -> Nat] /\ numCached \in [Reqs -> Nat]
    /\ \A r \in Reqs : /\ Len(table[r]) = Cdiv(computed[r], BlockSize)
                       /\ numCached[r] = computed[r] \div BlockSize
    /\ \A b \in Blocks : IsFiniteSet(Holders(b))

PoolInv == PoolConsistent /\ Shape

\* The published blocks of a request have its hashes.
TableHashes ==
    \A r \in Reqs : \A i \in 1 .. numCached[r] : hash[table[r][i]] = BlockHashOf(r, i)

\* The block before a free one is in use or freed after it, so it outlives it.
FreeChain ==
    \A k \in 1 .. Len(free) : \A r \in Reqs : \A i \in 2 .. FullBlocks(r) :
        hash[free[k]] = BlockHashOf(r, i) =>
            \E b \in Blocks : /\ hash[b] = BlockHashOf(r, i - 1)
                              /\ \/ refCnt[b] > 0
                                 \/ \E m \in k + 1 .. Len(free) : free[m] = b

ChainInv == ~workload.mayInvalidate => TableHashes /\ FreeChain

-----------------------------------------------------------------------------
(* Numbers and sequences.                                                  *)

\* A set of natural numbers has a least one.
LEMMA NatLeast ==
    ASSUME NEW S \in SUBSET Nat, S # {}
    PROVE  \E x \in S : \A y \in S : x <= y
<1>1. PICK x \in S : \A y \in S : ~(<<y, x>> \in OpToRel(<, Nat))
  BY NatLessThanWellFounded, WFMin, Zenon
<1>2. \A y \in S : ~(y < x)
  BY <1>1 DEF OpToRel
<1> QED BY <1>2

\* One more place counts one more.
LEMMA CardLess ==
    ASSUME NEW B, IsFiniteSet(B), NEW A \in SUBSET B, NEW x \in B, x \notin A
    PROVE  /\ IsFiniteSet(A) /\ Cardinality(A) \in Nat /\ Cardinality(B) \in Nat
           /\ Cardinality(A) < Cardinality(B)
<1>1. /\ IsFiniteSet(A) /\ Cardinality(A) <= Cardinality(B)
      /\ Cardinality(B) = Cardinality(A) => B = A
  BY FS_Subset
<1>2. Cardinality(A) \in Nat /\ Cardinality(B) \in Nat
  BY <1>1, FS_CardinalityType
<1>3. A # B
  OBVIOUS
<1> QED BY <1>1, <1>2, <1>3

\* t holds the items of s at the places K, all of them and in their order: e says
\* where each of them was.
Lists(t, s, K, e) ==
    /\ e \in [1 .. Len(t) -> K]
    /\ \A k \in 1 .. Len(t) : t[k] = s[e[k]]
    /\ \A i \in K : \E k \in 1 .. Len(t) : e[k] = i
    /\ \A k, l \in 1 .. Len(t) : k < l => e[k] < e[l]

\* That is what AtPlaces returns.
LEMMA AtPlacesFacts ==
    ASSUME NEW T, NEW s \in Seq(T), NEW K \in SUBSET (1 .. Len(s))
    PROVE  AtPlaces(s, K) \in Seq(T) /\ \E e : Lists(AtPlaces(s, K), s, K, e)
<1> DEFINE N == Cardinality(K)
           Upto(i) == {j \in K : j <= i}
           rank == [i \in K |-> Cardinality(Upto(i))]
           e == [k \in 1 .. N |-> CHOOSE i \in K : Cardinality({j \in K : j <= i}) = k]
<1>0. \A i \in K : i \in Int /\ s[i] \in T
  OBVIOUS
<1>1. IsFiniteSet(1 .. Len(s))
  BY FS_Interval
<1>2. IsFiniteSet(K) /\ N \in Nat
  BY <1>1, FS_Subset, FS_CardinalityType
<1>3. ASSUME NEW i \in K PROVE Cardinality(Upto(i)) \in 1 .. N
  <2>1. Upto(i) \in SUBSET K /\ i \in Upto(i)
    OBVIOUS
  <2> HIDE DEF Upto
  <2>2. IsFiniteSet(Upto(i)) /\ Cardinality(Upto(i)) <= N
    BY <1>2, <2>1, FS_Subset
  <2>3. Cardinality(Upto(i)) \in Nat /\ Cardinality(Upto(i)) # 0
    BY <2>1, <2>2, FS_CardinalityType, FS_EmptySet
  <2> HIDE DEF N
  <2> QED BY <1>2, <2>2, <2>3
<1>4. ASSUME NEW i \in K, NEW j \in K, i < j PROVE Cardinality(Upto(i)) < Cardinality(Upto(j))
  <2>1. Upto(j) \in SUBSET K /\ Upto(i) \in SUBSET Upto(j) /\ j \in Upto(j) /\ j \notin Upto(i)
    <3>1. i \in Int /\ j \in Int
      BY <1>0
    <3>2. \A x \in K : x \in Int /\ (x <= i => x <= j)
      BY <1>0, <1>4, <3>1
    <3>3. j <= j /\ ~(j <= i)
      BY <1>4, <3>1
    <3> QED BY <3>2, <3>3
  <2> HIDE DEF Upto
  <2>2. IsFiniteSet(Upto(j))
    BY <1>2, <2>1, FS_Subset
  <2> QED BY <2>1, <2>2, CardLess
<1>5. rank \in Injection(K, 1 .. N)
  <2>1. rank \in [K -> 1 .. N]
    BY <1>3
  <2>2. ASSUME NEW i \in K, NEW j \in K, rank[i] = rank[j] PROVE i = j
    <3>1. ~(i < j) /\ ~(j < i)
      <4>0. Cardinality(Upto(i)) \in Int /\ Cardinality(Upto(j)) \in Int
            /\ Cardinality(Upto(i)) = Cardinality(Upto(j))
        BY <1>3, <2>2
      <4> HIDE DEF Upto
      <4> QED BY <4>0, <1>4
    <3> QED BY <3>1
  <2> HIDE DEF rank, N
  <2> QED BY <2>1, <2>2 DEF Injection, IsInjective
<1>6. rank \in Surjection(K, 1 .. N)
  <2>1. IsFiniteSet(1 .. N) /\ Cardinality(1 .. N) = IF 1 > N THEN 0 ELSE N - 1 + 1
    <3> HIDE DEF N
    <3> QED BY <1>2, FS_Interval
  <2>2. Cardinality(1 .. N) = Cardinality(K)
    <3> HIDE DEF N
    <3>1. Cardinality(1 .. N) = N
      BY <1>2, <2>1
    <3> QED BY <3>1 DEF N
  <2> HIDE DEF rank, N
  <2> QED BY <1>5, <2>1, <2>2, FS_Injection
<1>7. ASSUME NEW k \in 1 .. N
      PROVE  e[k] \in K /\ Cardinality(Upto(e[k])) = k
  <2>1. \E i \in K : rank[i] = k
    <3> HIDE DEF rank, N
    <3> QED BY <1>6 DEF Surjection
  <2>2. \E i \in K : Cardinality({j \in K : j <= i}) = k
    BY <2>1
  <2> QED BY <2>2
<1>8. e \in [1 .. N -> K]
  BY <1>7
<1>9. ASSUME NEW i \in K PROVE \E k \in 1 .. N : e[k] = i
  <2> DEFINE k == Cardinality(Upto(i))
  <2>1. k \in 1 .. N /\ rank[i] = k
    BY <1>3
  <2>2. e[k] \in K /\ Cardinality(Upto(e[k])) = k
    BY <1>7, <2>1
  <2>3. rank[e[k]] = rank[i]
    BY <2>1, <2>2
  <2>4. e[k] = i
    <3> HIDE DEF rank, k, e, N
    <3> QED BY <1>5, <2>2, <2>3 DEF Injection, IsInjective
  <2> QED BY <2>1, <2>4
<1>10. ASSUME NEW k \in 1 .. N, NEW l \in 1 .. N, k < l PROVE e[k] < e[l]
  <2>1. /\ e[k] \in K /\ Cardinality(Upto(e[k])) = k
        /\ e[l] \in K /\ Cardinality(Upto(e[l])) = l
    BY <1>7
  <2>2. ~(e[l] < e[k])
    <3> HIDE DEF e, N, Upto
    <3>1. SUFFICES ASSUME e[l] < e[k] PROVE FALSE
      OBVIOUS
    <3>2. Cardinality(Upto(e[l])) < Cardinality(Upto(e[k]))
      BY <1>4, <2>1, <3>1
    <3> QED BY <2>1, <3>2, <1>10
  <2>3. e[k] # e[l]
    <3> HIDE DEF e, N, Upto
    <3> QED BY <2>1, <1>10
  <2> HIDE DEF e, N
  <2>4. e[k] \in Int /\ e[l] \in Int
    BY <1>0, <2>1
  <2> QED BY <2>2, <2>3, <2>4
<1>11. AtPlaces(s, K) = [k \in 1 .. N |-> s[e[k]]]
  BY DEF AtPlaces
<1>12. /\ AtPlaces(s, K) \in Seq(T) /\ Len(AtPlaces(s, K)) = N
       /\ \A k \in 1 .. N : AtPlaces(s, K)[k] = s[e[k]]
  <2> HIDE DEF e, N
  <2>1. \A k \in 1 .. N : s[e[k]] \in T
    BY <1>0, <1>8
  <2> QED BY <1>2, <1>11, <2>1
<1> HIDE DEF e, N
<1>13. Lists(AtPlaces(s, K), s, K, e)
  BY <1>8, <1>9, <1>10, <1>12 DEF Lists
<1> QED BY <1>12, <1>13

\* What a sequence holds.
LEMMA InSeq ==
    ASSUME NEW T, NEW s \in Seq(T)
    PROVE  /\ DOMAIN s = 1 .. Len(s) /\ Len(s) \in Nat
           /\ \A x : x \in ToSet(s) <=> \E i \in 1 .. Len(s) : s[i] = x
           /\ IsInjective(s) <=> \A i, j \in 1 .. Len(s) : s[i] = s[j] => i = j
BY DEF ToSet, IsInjective

\* The items kept by AtPlaces, without their order.
LEMMA AtPlacesSet ==
    ASSUME NEW T, NEW s \in Seq(T), NEW K \in SUBSET (1 .. Len(s))
    PROVE  /\ AtPlaces(s, K) \in Seq(T)
           /\ \A x : x \in ToSet(AtPlaces(s, K)) <=> \E i \in K : s[i] = x
           /\ IsInjective(s) => IsInjective(AtPlaces(s, K))
<1> DEFINE t == AtPlaces(s, K)  N == Len(t)
<1>0. t \in Seq(T) /\ \E e : Lists(t, s, K, e)
  BY AtPlacesFacts
<1> HIDE DEF t
<1>1. PICK e : Lists(t, s, K, e)
  BY <1>0
<1>2. /\ e \in [1 .. N -> K] /\ N \in Nat /\ t \in Seq(T) /\ Len(t) = N
      /\ \A k \in 1 .. N : t[k] = s[e[k]]
      /\ \A i \in K : \E k \in 1 .. N : e[k] = i
      /\ \A k, l \in 1 .. N : k < l => e[k] < e[l]
  BY <1>0, <1>1 DEF Lists
<1> HIDE DEF N
<1>3. \A x : x \in ToSet(t) <=> \E i \in K : s[i] = x
  <2>1. \A x : x \in ToSet(t) <=> \E k \in 1 .. N : t[k] = x
    BY <1>2, InSeq
  <2>2. ASSUME NEW x, NEW k \in 1 .. N, t[k] = x PROVE \E i \in K : s[i] = x
    BY <1>2, <2>2
  <2>3. ASSUME NEW i \in K PROVE \E k \in 1 .. N : t[k] = s[i]
    BY <1>2
  <2> QED BY <2>1, <2>2, <2>3
<1>4. ASSUME IsInjective(s), NEW k \in DOMAIN t, NEW l \in DOMAIN t, t[k] = t[l] PROVE k = l
  <2>0. DOMAIN t = 1 .. N /\ DOMAIN s = 1 .. Len(s)
    BY <1>2, InSeq
  <2>1. k \in 1 .. N /\ l \in 1 .. N /\ e[k] \in DOMAIN s /\ e[l] \in DOMAIN s
    BY <1>2, <1>4, <2>0
  <2>2. e[k] = e[l]
    BY <1>2, <1>4, <2>1 DEF IsInjective
  <2>3. k \in Int /\ l \in Int /\ ~(e[k] < e[l]) /\ ~(e[l] < e[k])
    BY <1>2, <2>1, <2>2
  <2> QED BY <1>2, <2>1, <2>3
<1>5. IsInjective(s) => IsInjective(t)
  BY <1>4 DEF IsInjective
<1> QED BY <1>2, <1>3, <1>5 DEF t

\* Taking items out of a sequence.
LEMMA WithoutFacts ==
    ASSUME NEW T, NEW s \in Seq(T), NEW S
    PROVE  /\ Without(s, S) \in Seq(T)
           /\ ToSet(Without(s, S)) = ToSet(s) \ S
           /\ IsInjective(s) => IsInjective(Without(s, S))
<1> DEFINE K == {i \in DOMAIN s : s[i] \notin S}
<1>1. K \in SUBSET (1 .. Len(s)) /\ \A i \in 1 .. Len(s) : i \in K <=> s[i] \notin S
  OBVIOUS
<1>2. Without(s, S) = AtPlaces(s, K)
  BY DEF Without
<1> HIDE DEF K
<1>3. ToSet(s) = {s[i] : i \in 1 .. Len(s)}
  BY DEF ToSet
<1> DEFINE t == AtPlaces(s, K)
<1>4. /\ t \in Seq(T) /\ (IsInjective(s) => IsInjective(t))
      /\ \A x : x \in ToSet(t) <=> \E i \in K : s[i] = x
  BY <1>1, AtPlacesSet
<1> HIDE DEF t
<1>5. ToSet(t) = ToSet(s) \ S
  BY <1>1, <1>3, <1>4
<1> QED BY <1>2, <1>4, <1>5 DEF t

\* A sequence without repetitions is as long as it has items.
LEMMA InjectiveLen ==
    ASSUME NEW T, NEW s \in Seq(T), IsInjective(s)
    PROVE  IsFiniteSet(ToSet(s)) /\ Cardinality(ToSet(s)) = Len(s)
<1> DEFINE S == 1 .. Len(s)
<1>0. Len(s) \in Nat /\ DOMAIN s = S
  OBVIOUS
<1>1. IsFiniteSet(S) /\ Cardinality(S) = Len(s)
  <2>1. IsFiniteSet(S) /\ Cardinality(S) = IF 1 > Len(s) THEN 0 ELSE Len(s) - 1 + 1
    BY <1>0, FS_Interval
  <2> QED BY <1>0, <2>1
<1>2. s \in [S -> ToSet(s)]
  BY DEF ToSet
<1>3. s \in Surjection(S, ToSet(s)) /\ s \in Injection(S, ToSet(s))
  <2> HIDE DEF S
  <2> QED BY <1>0, <1>2 DEF Surjection, Injection, IsInjective, ToSet
<1> HIDE DEF S
<1> QED BY <1>1, <1>3, FS_Surjection

\* SetToSeq lists a finite set.
LEMMA SetToSeqFacts ==
    ASSUME NEW S, IsFiniteSet(S)
    PROVE  /\ SetToSeq(S) \in Seq(S) /\ ToSet(SetToSeq(S)) = S
           /\ IsInjective(SetToSeq(S))
<1> DEFINE N == Cardinality(S)  t == SetToSeq(S)
<1>1. N \in Nat /\ ExistsBijection(1 .. N, S)
  BY FS_CardinalityType
<1>2. \E f \in [1 .. N -> S] : IsInjective(f)
  <2> HIDE DEF N
  <2> QED BY <1>1 DEF ExistsBijection, Bijection, Injection
<1>3. t \in [1 .. N -> S] /\ IsInjective(t)
  BY <1>2 DEF SetToSeq
<1>4. t \in Seq(S)
  <2> HIDE DEF N, t
  <2> QED BY <1>1, <1>3
<1> HIDE DEF t
<1>5. ToSet(t) \in SUBSET S
  BY <1>4 DEF ToSet
<1>6. IsFiniteSet(ToSet(t)) /\ Cardinality(ToSet(t)) = Len(t)
  BY <1>3, <1>4, InjectiveLen
<1>7. Len(t) = N
  <2> HIDE DEF N
  <2> QED BY <1>1, <1>3, <1>4
<1>8. ToSet(t) = S
  BY <1>5, <1>6, <1>7, FS_Subset
<1> QED BY <1>3, <1>4, <1>8 DEF t

\* Two sequences one after the other.
LEMMA ConcatFacts ==
    ASSUME NEW T, NEW s \in Seq(T), NEW t \in Seq(T)
    PROVE  /\ s \o t \in Seq(T) /\ Len(s \o t) = Len(s) + Len(t)
           /\ \A i \in 1 .. Len(s) : (s \o t)[i] = s[i]
           /\ \A i \in 1 .. Len(t) : (s \o t)[Len(s) + i] = t[i]
           /\ ToSet(s \o t) = ToSet(s) \cup ToSet(t)
           /\ IsInjective(s) /\ IsInjective(t) /\ ToSet(s) \cap ToSet(t) = {}
                => IsInjective(s \o t)
<1> DEFINE u == s \o t
<1>1. /\ u \in Seq(T) /\ Len(u) = Len(s) + Len(t) /\ Len(s) \in Nat /\ Len(t) \in Nat
      /\ \A i \in 1 .. Len(s) : u[i] = s[i]
  OBVIOUS
<1>2. ASSUME NEW i \in 1 .. Len(t) PROVE u[Len(s) + i] = t[i]
  <2>1. Len(s) + i \in 1 .. Len(s) + Len(t) /\ ~(Len(s) + i <= Len(s)) /\ Len(s) + i - Len(s) = i
    BY <1>1
  <2> QED BY <1>1, <2>1
<1> HIDE DEF u
<1>3. \A i \in 1 .. Len(u) : i \in 1 .. Len(s)
                            \/ \E j \in 1 .. Len(t) : i = Len(s) + j
  <2> SUFFICES ASSUME NEW i \in 1 .. Len(u), i \notin 1 .. Len(s)
               PROVE  \E j \in 1 .. Len(t) : i = Len(s) + j
    OBVIOUS
  <2>1. i - Len(s) \in 1 .. Len(t) /\ i = Len(s) + (i - Len(s))
    BY <1>1
  <2> QED BY <2>1
<1>4. ToSet(u) = ToSet(s) \cup ToSet(t)
  <2>1. /\ ToSet(u) = {u[i] : i \in 1 .. Len(u)} /\ ToSet(s) = {s[i] : i \in 1 .. Len(s)}
        /\ ToSet(t) = {t[i] : i \in 1 .. Len(t)}
    <3>1. DOMAIN u = 1 .. Len(u) /\ DOMAIN s = 1 .. Len(s) /\ DOMAIN t = 1 .. Len(t)
      BY <1>1
    <3> QED BY ONLY <3>1 DEF ToSet
  <2>2. ASSUME NEW i \in 1 .. Len(u) PROVE u[i] \in ToSet(s) \cup ToSet(t)
    <3>1. CASE i \in 1 .. Len(s)
      BY <1>1, <2>1, <3>1
    <3>2. ASSUME NEW j \in 1 .. Len(t), i = Len(s) + j PROVE u[i] \in ToSet(t)
      BY <1>2, <2>1, <3>2
    <3> QED BY <1>3, <3>1, <3>2
  <2>3. ASSUME NEW i \in 1 .. Len(s) PROVE s[i] \in ToSet(u)
    <3>1. i \in 1 .. Len(u) /\ u[i] = s[i]
      BY <1>1
    <3> QED BY <2>1, <3>1
  <2>4. ASSUME NEW i \in 1 .. Len(t) PROVE t[i] \in ToSet(u)
    <3>1. Len(s) + i \in 1 .. Len(u) /\ u[Len(s) + i] = t[i]
      BY <1>1, <1>2
    <3> QED BY <2>1, <3>1
  <2> QED BY <2>1, <2>2, <2>3, <2>4
<1>5. ASSUME IsInjective(s), IsInjective(t), ToSet(s) \cap ToSet(t) = {},
             NEW i \in 1 .. Len(u), NEW j \in 1 .. Len(u), u[i] = u[j]
      PROVE  i = j
  <2>0. \A k \in 1 .. Len(s) : \A l \in 1 .. Len(t) : s[k] # t[l]
    <3>1. DOMAIN s = 1 .. Len(s) /\ DOMAIN t = 1 .. Len(t)
      BY <1>1
    <3>2. \A k \in 1 .. Len(s) : s[k] \in ToSet(s)
      BY <3>1 DEF ToSet
    <3>3. \A l \in 1 .. Len(t) : t[l] \in ToSet(t)
      BY <3>1 DEF ToSet
    <3> QED BY <1>5, <3>2, <3>3
  <2>1. CASE i \in 1 .. Len(s) /\ j \in 1 .. Len(s)
    BY <1>1, <1>5, <2>1 DEF IsInjective
  <2>2. ASSUME NEW k \in 1 .. Len(t), NEW l \in 1 .. Len(t), i = Len(s) + k, j = Len(s) + l
        PROVE  i = j
    BY <1>1, <1>2, <1>5, <2>2 DEF IsInjective
  <2>3. ASSUME i \in 1 .. Len(s), NEW l \in 1 .. Len(t), j = Len(s) + l PROVE FALSE
    BY <1>1, <1>2, <1>5, <2>0, <2>3
  <2>4. ASSUME j \in 1 .. Len(s), NEW l \in 1 .. Len(t), i = Len(s) + l PROVE FALSE
    BY <1>1, <1>2, <1>5, <2>0, <2>4
  <2> QED BY <1>3, <2>1, <2>2, <2>3, <2>4
<1>6. IsInjective(s) /\ IsInjective(t) /\ ToSet(s) \cap ToSet(t) = {} => IsInjective(u)
  BY <1>1, <1>5 DEF IsInjective
<1> QED BY <1>1, <1>2, <1>4, <1>6 DEF u

\* A sequence without repetitions, cut in two.
LEMMA CutFacts ==
    ASSUME NEW T, NEW s \in Seq(T), NEW n \in Nat, n <= Len(s), IsInjective(s)
    PROVE  /\ SubSeq(s, 1, n) \in Seq(T) /\ Len(SubSeq(s, 1, n)) = n
           /\ \A i \in 1 .. n : SubSeq(s, 1, n)[i] = s[i]
           /\ SubSeq(s, n + 1, Len(s)) \in Seq(T)
           /\ Len(SubSeq(s, n + 1, Len(s))) = Len(s) - n
           /\ \A i \in 1 .. Len(s) - n : SubSeq(s, n + 1, Len(s))[i] = s[n + i]
           /\ IsInjective(SubSeq(s, 1, n)) /\ IsInjective(SubSeq(s, n + 1, Len(s)))
           /\ ToSet(SubSeq(s, 1, n)) \cap ToSet(SubSeq(s, n + 1, Len(s))) = {}
           /\ ToSet(SubSeq(s, 1, n)) \cup ToSet(SubSeq(s, n + 1, Len(s))) = ToSet(s)
<1> DEFINE u == SubSeq(s, 1, n)  v == SubSeq(s, n + 1, Len(s))
<1>1. /\ u \in Seq(T) /\ Len(u) = n /\ Len(s) \in Nat
      /\ \A i \in 1 .. n : u[i] = s[i]
  OBVIOUS
<1>2. v \in Seq(T) /\ Len(v) = Len(s) - n
  OBVIOUS
<1>3. ASSUME NEW i \in 1 .. Len(s) - n PROVE v[i] = s[n + i]
  <2>1. v[i] = s[n + 1 + i - 1] /\ n + 1 + i - 1 = n + i
    BY <1>1
  <2> QED BY <2>1
<1> HIDE DEF u, v
<1>4. /\ ToSet(u) = {u[i] : i \in 1 .. n} /\ ToSet(s) = {s[i] : i \in 1 .. Len(s)}
      /\ ToSet(v) = {v[i] : i \in 1 .. Len(s) - n}
  BY <1>1, <1>2 DEF ToSet
<1>5. IsInjective(u)
  BY <1>1 DEF IsInjective
<1>6. ASSUME NEW i \in DOMAIN v, NEW j \in DOMAIN v, v[i] = v[j] PROVE i = j
  <2>1. i \in 1 .. Len(s) - n /\ j \in 1 .. Len(s) - n
    BY <1>2
  <2>2. s[n + i] = s[n + j]
    BY <1>3, <1>6, <2>1
  <2>3. n + i \in DOMAIN s /\ n + j \in DOMAIN s
    BY <1>1, <2>1, InSeq
  <2>4. n + i = n + j
    BY <2>2, <2>3 DEF IsInjective
  <2> QED BY <2>1, <2>4
<1>7. ToSet(u) \cap ToSet(v) = {}
  <2> SUFFICES ASSUME NEW i \in 1 .. n, NEW j \in 1 .. Len(s) - n, u[i] = v[j] PROVE FALSE
    BY <1>4
  <2>1. s[i] = s[n + j] /\ i \in DOMAIN s /\ n + j \in DOMAIN s
    BY <1>1, <1>3
  <2> QED BY <2>1 DEF IsInjective
<1>8. ToSet(u) \cup ToSet(v) = ToSet(s)
  <2>1. ASSUME NEW i \in 1 .. Len(s) PROVE s[i] \in ToSet(u) \cup ToSet(v)
    <3>1. CASE i \in 1 .. n
      BY <1>1, <1>4, <3>1
    <3>2. CASE i \notin 1 .. n
      <4>1. i - n \in 1 .. Len(s) - n /\ n + (i - n) = i
        BY <1>1, <3>2
      <4> QED BY <1>3, <1>4, <4>1
    <3> QED BY <3>1, <3>2
  <2>2. ASSUME NEW i \in 1 .. n PROVE u[i] \in ToSet(s)
    BY <1>1, <1>4
  <2>3. ASSUME NEW i \in 1 .. Len(s) - n PROVE v[i] \in ToSet(s)
    <3>1. n + i \in 1 .. Len(s)
      BY <1>1
    <3> QED BY <1>3, <1>4, <3>1
  <2> QED BY <1>4, <2>1, <2>2, <2>3
<1> QED BY <1>1, <1>2, <1>3, <1>5, <1>6, <1>7, <1>8 DEF IsInjective, u, v

\* A sequence read backwards.
LEMMA ReverseFacts ==
    ASSUME NEW T, NEW s \in Seq(T)
    PROVE  /\ Reverse(s) \in Seq(T) /\ Len(Reverse(s)) = Len(s)
           /\ \A i \in 1 .. Len(s) : Reverse(s)[i] = s[(Len(s) - i) + 1]
           /\ ToSet(Reverse(s)) = ToSet(s)
           /\ IsInjective(s) => IsInjective(Reverse(s))
<1> DEFINE t == Reverse(s)
<1>1. /\ t = [i \in 1 .. Len(s) |-> s[(Len(s) - i) + 1]] /\ Len(s) \in Nat
      /\ \A i \in 1 .. Len(s) : (Len(s) - i) + 1 \in 1 .. Len(s)
      /\ \A i \in 1 .. Len(s) : s[(Len(s) - i) + 1] \in T
  BY DEF Reverse
<1> HIDE DEF t
<1>2. /\ t \in Seq(T) /\ Len(t) = Len(s)
      /\ \A i \in 1 .. Len(s) : t[i] = s[(Len(s) - i) + 1]
  BY <1>1
<1>3. /\ \A x : x \in ToSet(t) <=> \E i \in 1 .. Len(s) : t[i] = x
      /\ \A x : x \in ToSet(s) <=> \E i \in 1 .. Len(s) : s[i] = x
  BY <1>2, InSeq
<1>4. ASSUME NEW i \in 1 .. Len(s) PROVE s[i] \in ToSet(t)
  <2>1. (Len(s) - i) + 1 \in 1 .. Len(s) /\ (Len(s) - ((Len(s) - i) + 1)) + 1 = i
    BY <1>1
  <2> QED BY <1>2, <1>3, <2>1
<1>5. ToSet(t) = ToSet(s)
  BY <1>1, <1>2, <1>3, <1>4
<1>6. ASSUME IsInjective(s), NEW i \in DOMAIN t, NEW j \in DOMAIN t, t[i] = t[j] PROVE i = j
  <2>1. i \in 1 .. Len(s) /\ j \in 1 .. Len(s)
    BY <1>2
  <2>2. (Len(s) - i) + 1 = (Len(s) - j) + 1
    BY <1>1, <1>2, <1>6, <2>1 DEF IsInjective
  <2> QED BY <1>1, <2>1, <2>2
<1>7. IsInjective(s) => IsInjective(t)
  BY <1>6 DEF IsInjective
<1> QED BY <1>2, <1>5, <1>7 DEF t

-----------------------------------------------------------------------------
(* Blocks of tokens.                                                       *)

\* What a // d is for a positive d.
LEMMA Euclid ==
    ASSUME NEW x \in Nat, NEW d \in Nat \ {0}
    PROVE  x \div d \in Nat /\ (x \div d) * d <= x /\ x < (x \div d) * d + d
BY SMT

\* Products are ordered as their factors.
LEMMA MulOrder ==
    ASSUME NEW a \in Nat, NEW b \in Nat, NEW d \in Nat
    PROVE  /\ a * d \in Nat /\ b * d \in Nat
           /\ a <= b => a * d <= b * d
           /\ a < b => a * d + d <= b * d
<1>1. a * d \in Nat /\ b * d \in Nat
  BY SMT
<1>2. ASSUME NEW x \in Nat, NEW y \in Nat, x <= y PROVE x * d <= y * d
  <2>1. PICK k \in Nat : y = x + k
    BY <1>2, y - x \in Nat, y = x + (y - x)
  <2>2. (x + k) * d = x * d + k * d /\ k * d \in Nat /\ x * d \in Nat
    BY SMT
  <2> DEFINE u == x * d  v == k * d
  <2>3. y * d = u + v /\ u \in Nat /\ v \in Nat
    BY <2>1, <2>2
  <2> HIDE DEF u, v
  <2>4. u <= u + v
    BY <2>3
  <2> QED BY <2>3, <2>4 DEF u
<1>3. ASSUME a < b PROVE a * d + d <= b * d
  <2>1. (a + 1) * d = a * d + d
    BY SMT
  <2>2. (a + 1) * d <= b * d
    BY <1>2, <1>3
  <2> QED BY <2>1, <2>2
<1> QED BY <1>1, <1>2, <1>3

\* The multiple of d below x tells x // d.
LEMMA DivUnique ==
    ASSUME NEW x \in Nat, NEW d \in Nat \ {0}, NEW q \in Nat, q * d <= x, x < q * d + d
    PROVE  x \div d = q
<1> DEFINE p == x \div d  u == p * d  v == q * d
<1>1. p \in Nat /\ u <= x /\ x < u + d /\ v <= x /\ x < v + d
  BY Euclid
<1> HIDE DEF p
<1>2. u \in Nat /\ v \in Nat /\ (p < q => u + d <= v) /\ (q < p => v + d <= u)
  BY <1>1, MulOrder
<1> HIDE DEF u, v
<1>3. ~(p < q) /\ ~(q < p)
  BY <1>1, <1>2
<1>4. p = q
  BY <1>1, <1>3
<1> QED BY <1>4 DEF p

\* Full blocks of more tokens.
LEMMA DivMono ==
    ASSUME NEW x \in Nat, NEW y \in Nat, NEW d \in Nat \ {0}, x <= y
    PROVE  x \div d <= y \div d
<1> DEFINE p == x \div d  q == y \div d  u == p * d  v == q * d
<1>1. p \in Nat /\ u <= x /\ q \in Nat /\ y < v + d
  BY Euclid
<1> HIDE DEF p, q
<1>2. u \in Nat /\ v \in Nat /\ (q < p => v + d <= u)
  BY <1>1, MulOrder
<1> HIDE DEF u, v
<1>3. p <= q
  BY <1>1, <1>2
<1> QED BY <1>3 DEF p, q

\* The blocks some tokens need: the full ones and perhaps one more.
LEMMA CdivFacts ==
    ASSUME NEW x \in Nat, NEW d \in Nat \ {0}
    PROVE  /\ Cdiv(x, d) \in Nat /\ x \div d \in Nat
           /\ x \div d <= Cdiv(x, d) /\ Cdiv(x, d) <= (x \div d) + 1
           /\ Cdiv(x, d) = 0 <=> x = 0
<1> DEFINE q == x \div d  u == q * d  p == (x + d - 1) \div d  v == p * d
<1>1. x + d - 1 \in Nat /\ x <= x + d - 1
  OBVIOUS
<1>2. /\ q \in Nat /\ u <= x /\ x < u + d
      /\ p \in Nat /\ v <= x + d - 1 /\ x + d - 1 < v + d /\ q <= p
  BY <1>1, Euclid, DivMono
<1>3. Cdiv(x, d) = p
  BY DEF Cdiv
<1> HIDE DEF p, q
<1>4. /\ u \in Nat /\ v \in Nat /\ q + 1 \in Nat /\ (q + 1) * d \in Nat
      /\ (q + 1 < p => (q + 1) * d + d <= v)
  BY <1>2, MulOrder
<1>5. (q + 1) * d = u + d
  BY <1>2, SMT
<1>6. p = 0 => v = 0
  BY SMT
<1>7. q = 0 => u = 0
  BY SMT
<1>8. p > 0 => v >= d
  <2>1. 0 * d = 0 /\ (0 < p => 0 * d + d <= p * d)
    BY <1>2, MulOrder
  <2> QED BY <1>2, <2>1
<1> HIDE DEF u, v
<1>9. p <= q + 1
  BY <1>2, <1>4, <1>5
<1>10. p = 0 <=> x = 0
  <2>1. ASSUME p = 0 PROVE x = 0
    BY <1>2, <1>6, <2>1
  <2>2. ASSUME x = 0 PROVE p = 0
    BY <1>2, <1>4, <1>8, <2>2
  <2> QED BY <2>1, <2>2
<1> QED BY <1>2, <1>3, <1>9, <1>10 DEF q

\* More tokens need more blocks.
LEMMA CdivMono ==
    ASSUME NEW x \in Nat, NEW y \in Nat, NEW d \in Nat \ {0}, x <= y
    PROVE  Cdiv(x, d) <= Cdiv(y, d)
<1>1. x + d - 1 \in Nat /\ y + d - 1 \in Nat /\ x + d - 1 <= y + d - 1
  OBVIOUS
<1> DEFINE u == x + d - 1  v == y + d - 1
<1> HIDE DEF u, v
<1>2. u \div d <= v \div d
  BY <1>1, DivMono DEF u, v
<1> QED BY <1>2 DEF Cdiv, u, v

\* A request has at least one token.
LEMMA PromptLen ==
    ASSUME NEW r \in Reqs
    PROVE  /\ NumTokens(r) \in Nat \ {0} /\ BlockSize \in Nat \ {0}
           /\ FullBlocks(r) \in Nat /\ HitLimit(r) \in Nat /\ HitLimit(r) <= FullBlocks(r)
<1>1. Prompt[r] \in Seq(ToSet(Prompt[r])) /\ Prompt[r] # <<>> /\ BlockSize \in Nat \ {0}
  BY KVAssumption
<1>2. NumTokens(r) \in Nat \ {0}
  BY <1>1 DEF NumTokens
<1> DEFINE n == NumTokens(r)
<1>3. n \in Nat /\ n - 1 \in Nat /\ n - 1 <= n
  BY <1>2
<1> HIDE DEF n
<1> DEFINE m == n - 1
<1>4. m \in Nat /\ m <= n
  BY <1>3
<1> HIDE DEF m
<1>5. n \div BlockSize \in Nat /\ m \div BlockSize \in Nat /\ m \div BlockSize <= n \div BlockSize
  BY <1>1, <1>3, <1>4, Euclid, DivMono
<1>6. FullBlocks(r) = n \div BlockSize /\ HitLimit(r) = m \div BlockSize
  BY DEF FullBlocks, HitLimit, n, m
<1> QED BY <1>1, <1>2, <1>5, <1>6

\* The hash of a full block: the tokens up to its end.
LEMMA HashFacts ==
    ASSUME NEW r \in Reqs, NEW i \in 1 .. FullBlocks(r)
    PROVE  /\ BlockHashOf(r, i) \in Hashes
           /\ BlockHashOf(r, i) \in Seq(ToSet(Prompt[r]))
           /\ i * BlockSize \in Nat /\ i * BlockSize <= NumTokens(r)
           /\ Len(BlockHashOf(r, i)) = i * BlockSize
           /\ \A p \in 1 .. i * BlockSize : BlockHashOf(r, i)[p] = Prompt[r][p]
           /\ BlockHashOf(r, i) # NoHash
<1> DEFINE n == i * BlockSize  m == FullBlocks(r) * BlockSize  T == ToSet(Prompt[r])
<1>1. /\ NumTokens(r) \in Nat /\ BlockSize \in Nat \ {0} /\ FullBlocks(r) \in Nat
      /\ Prompt[r] \in Seq(T) /\ Len(Prompt[r]) = NumTokens(r) /\ i \in Nat /\ i > 0
  BY PromptLen, KVAssumption DEF NumTokens
<1>2. m <= NumTokens(r)
  BY <1>1, Euclid DEF FullBlocks
<1>3. n \in Nat /\ m \in Nat /\ n <= m
  BY <1>1, MulOrder
<1>4. n > 0
  <2>1. 0 * BlockSize = 0 /\ (0 < i => 0 * BlockSize + BlockSize <= i * BlockSize)
    BY <1>1, MulOrder
  <2> QED BY <1>1, <2>1
<1>5. BlockHashOf(r, i) = SubSeq(Prompt[r], 1, n)
  BY DEF BlockHashOf
<1> HIDE DEF n, m, T
<1>6. n <= Len(Prompt[r])
  BY <1>1, <1>2, <1>3
<1>7. /\ SubSeq(Prompt[r], 1, n) \in Seq(T) /\ Len(SubSeq(Prompt[r], 1, n)) = n
      /\ \A p \in 1 .. n : SubSeq(Prompt[r], 1, n)[p] = Prompt[r][p]
  BY <1>1, <1>3, <1>6
<1>8. BlockHashOf(r, i) # <<>>
  <2>1. Len(<<>>) = 0 /\ Len(BlockHashOf(r, i)) # 0
    BY <1>3, <1>4, <1>5, <1>7
  <2> QED BY <2>1
<1>9. BlockHashOf(r, i) \in Hashes
  BY DEF Hashes
<1> QED BY <1>1, <1>3, <1>5, <1>6, <1>7, <1>8, <1>9 DEF NoHash, n, T

\* A hash tells which block of a prompt it is of, and the hashes before it.
LEMMA HashIndex ==
    ASSUME NEW r \in Reqs, NEW i \in 1 .. FullBlocks(r),
           NEW q \in Reqs, NEW j \in 1 .. FullBlocks(q),
           BlockHashOf(r, i) = BlockHashOf(q, j)
    PROVE  i = j
<1> DEFINE u == i * BlockSize  v == j * BlockSize
<1>0. /\ i \in Nat /\ j \in Nat /\ BlockSize \in Nat \ {0}
  BY PromptLen
<1>1. u \in Nat /\ v \in Nat /\ u = v
  BY HashFacts
<1>2. (i < j => u + BlockSize <= v) /\ (j < i => v + BlockSize <= u)
  BY <1>0, MulOrder
<1> HIDE DEF u, v
<1>3. ~(i < j) /\ ~(j < i)
  BY <1>0, <1>1, <1>2
<1> QED BY <1>0, <1>3

LEMMA HashBefore ==
    ASSUME NEW r \in Reqs, NEW i \in 2 .. FullBlocks(r),
           NEW q \in Reqs, NEW j \in 1 .. FullBlocks(q),
           BlockHashOf(r, i) = BlockHashOf(q, j)
    PROVE  j = i /\ i - 1 \in 1 .. FullBlocks(r) /\ i - 1 \in 1 .. FullBlocks(q)
           /\ BlockHashOf(r, i - 1) = BlockHashOf(q, i - 1)
<1> DEFINE n == (i - 1) * BlockSize  m == i * BlockSize
<1>0. FullBlocks(r) \in Nat /\ FullBlocks(q) \in Nat /\ BlockSize \in Nat \ {0}
  BY PromptLen
<1>1. i \in 1 .. FullBlocks(r) /\ i - 1 \in 1 .. FullBlocks(r)
  BY <1>0
<1>2. j = i
  BY <1>1, HashIndex
<1>3. i - 1 \in 1 .. FullBlocks(q)
  BY <1>0, <1>1, <1>2
<1>4. n \in Nat /\ m \in Nat /\ n <= m
  BY <1>0, <1>1, MulOrder
<1>5. /\ \A p \in 1 .. m : BlockHashOf(r, i)[p] = Prompt[r][p]
      /\ \A p \in 1 .. m : BlockHashOf(q, i)[p] = Prompt[q][p]
  BY <1>1, <1>2, HashFacts
<1>6. /\ BlockHashOf(r, i - 1) \in Seq(ToSet(Prompt[r])) /\ Len(BlockHashOf(r, i - 1)) = n
      /\ \A p \in 1 .. n : BlockHashOf(r, i - 1)[p] = Prompt[r][p]
      /\ BlockHashOf(q, i - 1) \in Seq(ToSet(Prompt[q])) /\ Len(BlockHashOf(q, i - 1)) = n
      /\ \A p \in 1 .. n : BlockHashOf(q, i - 1)[p] = Prompt[q][p]
  BY <1>1, <1>3, HashFacts
<1> HIDE DEF n, m
<1>7. \A p \in 1 .. n : Prompt[r][p] = Prompt[q][p]
  BY <1>2, <1>4, <1>5
<1> DEFINE g == BlockHashOf(r, i - 1)  h == BlockHashOf(q, i - 1)
<1> HIDE DEF g, h
<1>8. g = h
  <2>1. DOMAIN g = 1 .. n /\ DOMAIN h = 1 .. n /\ \A p \in 1 .. n : g[p] = h[p]
    BY <1>4, <1>6, <1>7 DEF g, h
  <2>2. g \in Seq(ToSet(Prompt[r])) /\ h \in Seq(ToSet(Prompt[q]))
    BY <1>6 DEF g, h
  <2>3. g = [p \in 1 .. n |-> g[p]] /\ h = [p \in 1 .. n |-> h[p]]
    BY <2>1, <2>2
  <2> QED BY <2>1, <2>3
<1> QED BY <1>1, <1>2, <1>3, <1>8 DEF g, h

\* Every hash is the hash of a full block of some request.
LEMMA HashOf ==
    ASSUME NEW h \in Hashes
    PROVE  h # NoHash /\ \E r \in Reqs : \E i \in 1 .. FullBlocks(r) : h = BlockHashOf(r, i)
<1>1. PICK r \in Reqs : \E i \in 1 .. FullBlocks(r) : h = BlockHashOf(r, i)
  BY DEF Hashes
<1> QED BY <1>1, HashFacts

-----------------------------------------------------------------------------
(* Users of blocks, and hits.                                              *)

\* What the invariant says of one block.
LEMMA Used ==
    ASSUME PoolInv, NEW b \in Blocks
    PROVE  /\ refCnt[b] \in Nat /\ refCnt[b] = Cardinality(Holders(b))
           /\ IsFiniteSet(Holders(b))
           /\ b \in ToSet(free) <=> refCnt[b] = 0
           /\ refCnt[b] = 0 <=> Holders(b) = {}
<1>1. /\ refCnt[b] = Cardinality(Holders(b)) /\ IsFiniteSet(Holders(b)) /\ refCnt[b] \in Nat
      /\ b \in ToSet(free) <=> Holders(b) = {}
  BY DEF PoolInv, Shape, PoolConsistent, KVTypeOK, RefCountsHolders, FreeQueueExact
<1>2. Cardinality(Holders(b)) = 0 <=> Holders(b) = {}
  BY <1>1, FS_EmptySet
<1> QED BY <1>1, <1>2

\* The only user.
LEMMA Sole ==
    ASSUME PoolInv, NEW b \in Blocks, refCnt[b] = 1, NEW r \in Holders(b), NEW q \in Holders(b)
    PROVE  r = q
<1>1. IsFiniteSet(Holders(b)) /\ Cardinality(Holders(b)) = 1
  BY Used
<1>2. \E x : Holders(b) = {x}
  BY <1>1, FS_Singleton
<1> QED BY <1>2

\* The parts of the invariant.
LEMMA Types ==
    ASSUME PoolInv
    PROVE  /\ refCnt \in [Blocks -> Nat] /\ hash \in [Blocks -> Hashes \cup {NoHash}]
           /\ cache \in [Hashes -> Seq(Blocks)] /\ free \in Seq(Blocks)
           /\ table \in [Reqs -> Seq(Blocks)] /\ IsInjective(free)
           /\ workload \in Workloads /\ inflight \in Seq(Steps)
           /\ computed \in [Reqs -> Nat] /\ numCached \in [Reqs -> Nat]
           /\ Len(inflight) <= MaxInFlight
BY DEF PoolInv, PoolConsistent, KVTypeOK, FreeQueueExact, Shape

\* Tables and computed tokens of a request.
LEMMA OfRequest ==
    ASSUME PoolInv, NEW r \in Reqs
    PROVE  /\ table[r] \in Seq(Blocks) /\ IsInjective(table[r]) /\ Len(table[r]) \in Nat
           /\ computed[r] \in Nat /\ computed[r] <= NumTokens(r) /\ NumTokens(r) \in Nat
           /\ numCached[r] \in Nat /\ numCached[r] <= FullBlocks(r) /\ FullBlocks(r) \in Nat
           /\ numCached[r] = computed[r] \div BlockSize
           /\ Len(table[r]) = Cdiv(computed[r], BlockSize)
           /\ numCached[r] <= Len(table[r]) /\ Len(table[r]) <= numCached[r] + 1
           /\ table[r] = <<>> <=> computed[r] = 0
           /\ table[r] = <<>> => numCached[r] = 0
           /\ \A i \in 1 .. Len(table[r]) : /\ table[r][i] \in Blocks
                                            /\ r \in Holders(table[r][i])
                                            /\ refCnt[table[r][i]] > 0
                                            /\ table[r][i] \notin ToSet(free)
           /\ \A i \in numCached[r] + 1 .. Len(table[r]) :
                  refCnt[table[r][i]] = 1 /\ hash[table[r][i]] = NoHash
<1>1. /\ NumTokens(r) \in Nat \ {0} /\ BlockSize \in Nat \ {0} /\ FullBlocks(r) \in Nat
  BY PromptLen
<1>2. /\ table[r] \in Seq(Blocks) /\ IsInjective(table[r])
      /\ numCached[r] \in 0 .. FullBlocks(r) /\ computed[r] \in 0 .. NumTokens(r)
      /\ numCached[r] = computed[r] \div BlockSize
      /\ Len(table[r]) = Cdiv(computed[r], BlockSize)
      /\ \A i \in (computed[r] \div BlockSize) + 1 .. Len(table[r]) :
             refCnt[table[r][i]] = 1 /\ hash[table[r][i]] = NoHash
  BY DEF PoolInv, PoolConsistent, KVTypeOK, RefCountsHolders, OpenBlocksPrivate, Shape
<1>3. computed[r] \in Nat /\ computed[r] <= NumTokens(r) /\ numCached[r] \in Nat
      /\ numCached[r] <= FullBlocks(r)
  BY <1>1, <1>2
<1>4. /\ numCached[r] <= Len(table[r]) /\ Len(table[r]) <= numCached[r] + 1
      /\ Len(table[r]) = 0 <=> computed[r] = 0
  BY <1>1, <1>2, <1>3, CdivFacts
<1>5. Len(table[r]) \in Nat /\ (Len(table[r]) = 0 <=> table[r] = <<>>)
  BY <1>2
<1>6. Len(table[r]) = 0 => numCached[r] = 0
  BY <1>3, <1>4
<1>7. ASSUME NEW i \in 1 .. Len(table[r])
      PROVE  /\ table[r][i] \in Blocks /\ r \in Holders(table[r][i])
             /\ refCnt[table[r][i]] > 0 /\ table[r][i] \notin ToSet(free)
  <2>1. table[r][i] \in Blocks /\ table[r][i] \in ToSet(table[r])
    BY <1>2, InSeq
  <2>2. r \in Holders(table[r][i])
    BY <2>1 DEF Holders
  <2>3. refCnt[table[r][i]] \in Nat /\ refCnt[table[r][i]] # 0 /\ table[r][i] \notin ToSet(free)
    BY <2>1, <2>2, Used
  <2> QED BY <2>1, <2>2, <2>3
<1> QED BY <1>1, <1>2, <1>3, <1>4, <1>5, <1>6, <1>7

\* A block in use with a hash is a published block of its user.
LEMMA PublishedAt ==
    ASSUME PoolInv, NEW r \in Reqs, NEW i \in 1 .. Len(table[r]), hash[table[r][i]] # NoHash
    PROVE  i \in 1 .. numCached[r]
<1>1. Len(table[r]) \in Nat /\ numCached[r] \in Nat /\ i \notin numCached[r] + 1 .. Len(table[r])
  BY OfRequest
<1> QED BY <1>1

\* A cached hash is the hash of the blocks listed for it.
LEMMA CachedAt ==
    ASSUME PoolInv, NEW h \in Hashes
    PROVE  /\ cache[h] \in Seq(Blocks) /\ IsInjective(cache[h])
           /\ \A b \in Blocks : b \in ToSet(cache[h]) <=> hash[b] = h
           /\ cache[h] # <<>> => Head(cache[h]) \in Blocks /\ hash[Head(cache[h])] = h
           /\ cache[h] # <<>> <=> \E b \in Blocks : hash[b] = h
<1>1. /\ cache[h] \in Seq(Blocks) /\ IsInjective(cache[h])
      /\ \A b \in Blocks : b \in ToSet(cache[h]) <=> hash[b] = h
  BY Types DEF PoolInv, PoolConsistent, MapAgreesWithBlocks
<1>2. \A x : x \in ToSet(cache[h]) <=> \E i \in 1 .. Len(cache[h]) : cache[h][i] = x
  BY <1>1, InSeq
<1>3. ASSUME cache[h] # <<>> PROVE Head(cache[h]) \in Blocks /\ hash[Head(cache[h])] = h
  <2>1. 1 \in 1 .. Len(cache[h]) /\ Head(cache[h]) = cache[h][1] /\ cache[h][1] \in Blocks
    BY <1>1, <1>3
  <2> QED BY <1>1, <1>2, <2>1
<1>4. ASSUME NEW b \in Blocks, hash[b] = h PROVE cache[h] # <<>>
  BY <1>1, <1>2, <1>4
<1> QED BY <1>1, <1>3, <1>4

\* find_longest_cache_hit finds a chain: blocks with the first hashes of the
\* request, each once.
LEMMA HitFacts ==
    ASSUME PoolInv, NEW r \in Reqs
    PROVE  /\ HitLength(r) \in Nat /\ HitLength(r) <= FullBlocks(r)
           /\ HitBlocks(r) \in Seq(Blocks) /\ Len(HitBlocks(r)) = HitLength(r)
           /\ IsInjective(HitBlocks(r))
           /\ \A i \in 1 .. HitLength(r) : hash[HitBlocks(r)[i]] = BlockHashOf(r, i)
<1> DEFINE L == HitLimit(r)  k == HitLength(r)  hits == HitBlocks(r)
           S == {x \in 0 .. L : x = L \/ cache[BlockHashOf(r, x + 1)] = <<>>}
<1>1. L \in Nat /\ FullBlocks(r) \in Nat /\ L <= FullBlocks(r)
  BY PromptLen
<1>2. \E x \in S : \A y \in S : x <= y
  <2>1. S \in SUBSET Nat /\ L \in S
    BY <1>1
  <2> HIDE DEF S
  <2> QED BY <2>1, NatLeast
<1>3. PICK x \in S : \A y \in S : x <= y
  BY <1>2
<1>4. ASSUME NEW i \in 1 .. x PROVE cache[BlockHashOf(r, i)] # <<>>
  <2>1. i - 1 \in 0 .. L /\ i - 1 # L /\ (i - 1) + 1 = i /\ ~(x <= i - 1)
    BY <1>1, <1>3
  <2>2. i - 1 \notin S
    BY <1>3, <2>1
  <2> QED BY <2>1, <2>2
<1>5. /\ x \in 0 .. L /\ \A i \in 1 .. x : cache[BlockHashOf(r, i)] # <<>>
      /\ x < L => cache[BlockHashOf(r, x + 1)] = <<>>
  BY <1>1, <1>3, <1>4
<1>6. k \in 0 .. L /\ \A i \in 1 .. k : cache[BlockHashOf(r, i)] # <<>>
  BY <1>5 DEF HitLength
<1>7. k \in Nat /\ k <= FullBlocks(r)
  BY <1>1, <1>6
<1>8. hits = [i \in 1 .. k |-> Head(cache[BlockHashOf(r, i)])]
  BY DEF HitBlocks
<1> HIDE DEF k, hits
<1>9. ASSUME NEW i \in 1 .. k
      PROVE  hits[i] \in Blocks /\ hash[hits[i]] = BlockHashOf(r, i) /\ i \in 1 .. FullBlocks(r)
  <2>1. i \in 1 .. FullBlocks(r)
    BY <1>1, <1>7
  <2>2. BlockHashOf(r, i) \in Hashes
    BY <2>1, HashFacts
  <2> QED BY <1>6, <1>8, <2>1, <2>2, CachedAt
<1>10. hits \in Seq(Blocks) /\ Len(hits) = k
  BY <1>7, <1>8, <1>9
<1>11. ASSUME NEW i \in 1 .. k, NEW j \in 1 .. k, hits[i] = hits[j] PROVE i = j
  BY <1>9, <1>11, HashIndex
<1>12. IsInjective(hits)
  BY <1>10, <1>11, InSeq
<1> QED BY <1>7, <1>9, <1>10, <1>12 DEF k, hits

-----------------------------------------------------------------------------
(* allocate_slots.                                                         *)

\* What AllocateSlots(r, hits, n) works with.
Start(r, hits) == computed[r] + Len(hits) * BlockSize
From(r, hits) == numCached[r] + Len(hits)
Upto(r, hits, n) == Start(r, hits) + n
Need(r, hits, n) == Cdiv(Upto(r, hits, n), BlockSize) - Len(table[r]) - Len(hits)
Rest(hits) == FreeAfterTouch(ToSet(hits))
New(r, hits, n) == SubSeq(Rest(hits), 1, Need(r, hits, n))
Listed(r, hits, n) == table[r] \o hits \o New(r, hits, n)

\* A call of allocate_slots as the scheduler makes it: with hits for a waiting
\* request, without for a running one.
Allocates(r, hits, n) ==
    /\ PoolInv /\ r \in Reqs /\ n \in Nat \ {0} /\ Len(inflight) < MaxInFlight
    /\ hits \in Seq(Blocks) /\ IsInjective(hits)
    /\ table[r] = <<>> \/ hits = <<>>
    /\ Len(hits) <= FullBlocks(r)
    /\ \A i \in 1 .. Len(hits) : hash[hits[i]] = BlockHashOf(r, i)
    /\ Upto(r, hits, n) <= NumTokens(r)
    /\ AllocateSlots(r, hits, n) /\ UNCHANGED workload

\* Both kinds of admission are such a call.
LEMMA WaitingAllocates ==
    ASSUME PoolInv, NEW r \in Reqs, NEW n \in 1 .. NumTokens(r), Len(inflight) < MaxInFlight,
           AllocateWaiting(r, n), UNCHANGED workload
    PROVE  Allocates(r, HitBlocks(r), n)
<1>1. /\ table[r] = <<>> /\ HitLength(r) * BlockSize + n <= NumTokens(r)
      /\ AllocateSlots(r, HitBlocks(r), n) /\ computed[r] = 0
  BY OfRequest DEF AllocateWaiting
<1>2. /\ HitLength(r) \in Nat /\ HitLength(r) <= FullBlocks(r) /\ HitBlocks(r) \in Seq(Blocks)
      /\ Len(HitBlocks(r)) = HitLength(r) /\ IsInjective(HitBlocks(r))
      /\ \A i \in 1 .. HitLength(r) : hash[HitBlocks(r)[i]] = BlockHashOf(r, i)
  BY HitFacts
<1>3. BlockSize \in Nat /\ NumTokens(r) \in Nat
  BY PromptLen
<1>4. HitLength(r) * BlockSize \in Nat
  BY <1>2, <1>3, MulOrder
<1>5. Upto(r, HitBlocks(r), n) <= NumTokens(r)
  BY <1>1, <1>2, <1>3, <1>4 DEF Upto, Start
<1>6. n \in Nat \ {0}
  BY <1>3
<1> QED BY <1>1, <1>2, <1>5, <1>6 DEF Allocates

LEMMA RunningAllocates ==
    ASSUME PoolInv, NEW r \in Reqs, NEW n \in 1 .. NumTokens(r), Len(inflight) < MaxInFlight,
           AllocateRunning(r, n), UNCHANGED workload
    PROVE  Allocates(r, <<>>, n)
<1>1. computed[r] + n <= NumTokens(r) /\ AllocateSlots(r, <<>>, n)
  BY DEF AllocateRunning
<1>2. /\ BlockSize \in Nat /\ NumTokens(r) \in Nat /\ FullBlocks(r) \in Nat /\ computed[r] \in Nat
  BY PromptLen, OfRequest
<1>3. <<>> \in Seq(Blocks) /\ Len(<<>>) = 0 /\ IsInjective(<<>>)
  BY DEF IsInjective
<1>4. 0 * BlockSize = 0
  BY <1>2, SMT
<1>5. Upto(r, <<>>, n) <= NumTokens(r)
  BY <1>1, <1>2, <1>3, <1>4 DEF Upto, Start
<1>6. n \in Nat \ {0}
  BY <1>2
<1> QED BY <1>1, <1>2, <1>3, <1>5, <1>6 DEF Allocates

\* The numbers: what is scheduled needs no fewer blocks than there are.
LEMMA AllocNumbers ==
    ASSUME NEW r, NEW hits, NEW n, Allocates(r, hits, n)
    PROVE  /\ Start(r, hits) \in Nat /\ Upto(r, hits, n) \in Nat /\ Upto(r, hits, n) # 0
           /\ computed[r] <= Upto(r, hits, n)
           /\ Need(r, hits, n) \in Nat
           /\ From(r, hits) \in Nat
           /\ Upto(r, hits, n) \div BlockSize \in Nat
           /\ From(r, hits) <= Upto(r, hits, n) \div BlockSize
           /\ Upto(r, hits, n) \div BlockSize <= FullBlocks(r)
           /\ Upto(r, hits, n) \div BlockSize <= Cdiv(Upto(r, hits, n), BlockSize)
<1> DEFINE u == Upto(r, hits, n)  m == Len(hits) * BlockSize
<1>1. /\ r \in Reqs /\ PoolInv /\ hits \in Seq(Blocks) /\ n \in Nat /\ n > 0 /\ u <= NumTokens(r)
      /\ (table[r] = <<>> \/ hits = <<>>)
  BY DEF Allocates
<1>2. /\ computed[r] \in Nat /\ Len(table[r]) \in Nat /\ numCached[r] \in Nat
      /\ numCached[r] = computed[r] \div BlockSize
      /\ Len(table[r]) = Cdiv(computed[r], BlockSize)
      /\ (table[r] = <<>> => computed[r] = 0 /\ numCached[r] = 0)
  BY <1>1, OfRequest
<1>3. BlockSize \in Nat \ {0} /\ NumTokens(r) \in Nat /\ Len(hits) \in Nat
  BY <1>1, PromptLen
<1>4. m \in Nat /\ (hits = <<>> => Len(hits) = 0)
  BY <1>1, <1>3, MulOrder
<1>5. u = computed[r] + m + n
  BY DEF Upto, Start
<1>6. Start(r, hits) \in Nat
  BY <1>2, <1>4 DEF Start
<1> HIDE DEF u, m
<1>7. u \in Nat /\ u # 0 /\ computed[r] <= u /\ m <= u
  BY <1>1, <1>2, <1>4, <1>5
<1>8. /\ u \div BlockSize \in Nat /\ Cdiv(u, BlockSize) \in Nat
      /\ u \div BlockSize <= Cdiv(u, BlockSize) /\ Cdiv(computed[r], BlockSize) <= Cdiv(u, BlockSize)
      /\ computed[r] \div BlockSize <= u \div BlockSize
      /\ u \div BlockSize <= NumTokens(r) \div BlockSize
  BY <1>1, <1>2, <1>3, <1>7, CdivFacts, CdivMono, DivMono
<1>9. Len(hits) <= u \div BlockSize
  <2>1. m \div BlockSize = Len(hits)
    BY <1>3, <1>4, DivUnique DEF m
  <2>2. m \div BlockSize <= u \div BlockSize
    BY <1>3, <1>4, <1>7, DivMono
  <2> QED BY <2>1, <2>2
<1>10. From(r, hits) \in Nat /\ From(r, hits) <= u \div BlockSize
  <2>1. CASE table[r] = <<>>
    BY <1>2, <1>3, <1>9, <2>1 DEF From
  <2>2. CASE hits = <<>>
    BY <1>2, <1>3, <1>4, <1>8, <2>2 DEF From
  <2> QED BY <1>1, <2>1, <2>2
<1>11. Need(r, hits, n) \in Nat
  <2>0. Need(r, hits, n) = Cdiv(u, BlockSize) - Len(table[r]) - Len(hits)
    BY DEF Need, u
  <2>1. CASE table[r] = <<>>
    <3>1. Len(table[r]) = 0
      BY <2>1
    <3> QED BY <1>3, <1>8, <1>9, <2>0, <3>1
  <2>2. CASE hits = <<>>
    BY <1>2, <1>3, <1>4, <1>8, <2>0, <2>2
  <2> QED BY <1>1, <2>1, <2>2
<1>12. u \div BlockSize <= FullBlocks(r)
  BY <1>8 DEF FullBlocks
<1> QED BY <1>6, <1>7, <1>8, <1>10, <1>11, <1>12 DEF u

\* What the step does, in these terms.
LEMMA AllocDef ==
    ASSUME NEW r, NEW hits, NEW n, Allocates(r, hits, n)
    PROVE  /\ Need(r, hits, n) + Evictable(ToSet(hits)) <= Len(free)
           /\ refCnt' = RefsAfter(ToSet(hits), ToSet(New(r, hits, n)))
           /\ free' = SubSeq(Rest(hits), Need(r, hits, n) + 1, Len(Rest(hits)))
           /\ table' = [table EXCEPT ![r] = Listed(r, hits, n)]
           /\ Publish(r, Listed(r, hits, n), From(r, hits), Upto(r, hits, n) \div BlockSize,
                      ToSet(New(r, hits, n)))
           /\ numCached' = [numCached EXCEPT ![r] = Upto(r, hits, n) \div BlockSize]
           /\ computed' = [computed EXCEPT ![r] = Upto(r, hits, n)]
           /\ slots' = slots /\ workload' = workload
BY DEF Allocates, AllocateSlots, Start, From, Upto, Need, Rest, New, Listed, Published

LEMMA AllocStep ==
    ASSUME NEW r, NEW hits, NEW n, Allocates(r, hits, n)
    PROVE  inflight' = Append(inflight, [req |-> r, blocks |-> Listed(r, hits, n),
                                         from |-> Start(r, hits), to |-> Upto(r, hits, n),
                                         first |-> table[r] = <<>>, live |-> TRUE])
BY DEF Allocates, AllocateSlots, Start, Upto, Need, Rest, New, Listed

\* The blocks handed out: free ones for what the hits do not cover, and the queue
\* keeps the others.
LEMMA AllocBlocks ==
    ASSUME NEW r, NEW hits, NEW n, Allocates(r, hits, n)
    PROVE  /\ New(r, hits, n) \in Seq(Blocks) /\ IsInjective(New(r, hits, n))
           /\ Len(New(r, hits, n)) = Need(r, hits, n)
           /\ ToSet(New(r, hits, n)) \subseteq ToSet(free) \ ToSet(hits)
           /\ Rest(hits) \in Seq(Blocks) /\ Need(r, hits, n) <= Len(Rest(hits))
           /\ free' \in Seq(Blocks) /\ IsInjective(free')
           /\ ToSet(free') = ToSet(free) \ (ToSet(hits) \cup ToSet(New(r, hits, n)))
<1> DEFINE H == ToSet(hits)  Z == {b \in H : refCnt[b] = 0}  t == Rest(hits)
           k == Need(r, hits, n)  new == New(r, hits, n)
<1>1. /\ PoolInv /\ hits \in Seq(Blocks) /\ IsInjective(hits) /\ k \in Nat
      /\ k + Evictable(H) <= Len(free)
      /\ free' = SubSeq(t, k + 1, Len(t)) /\ new = SubSeq(t, 1, k)
  <2>1. PoolInv /\ hits \in Seq(Blocks) /\ IsInjective(hits)
    BY DEF Allocates
  <2>2. k \in Nat
    BY AllocNumbers
  <2>3. k + Evictable(H) <= Len(free) /\ free' = SubSeq(t, k + 1, Len(t))
    BY AllocDef
  <2> QED BY <2>1, <2>2, <2>3 DEF New
<1>2. free \in Seq(Blocks) /\ IsInjective(free)
  BY <1>1, Types
<1>3. \A b \in H : b \in Blocks
  BY <1>1, InSeq
<1>4. ToSet(free) \subseteq Blocks
  BY <1>2, InSeq
<1>5. Z \in SUBSET ToSet(free) /\ \A b \in H : b \in ToSet(free) => b \in Z
  BY <1>1, <1>3, Used
<1>6. t = Without(free, Z)
  BY DEF Rest, FreeAfterTouch
<1>7. t \in Seq(Blocks) /\ IsInjective(t) /\ ToSet(t) = ToSet(free) \ Z
  BY <1>2, <1>6, WithoutFacts
<1>8. Len(t) = Len(free) - Evictable(H)
  <2>1. /\ IsFiniteSet(ToSet(free)) /\ Cardinality(ToSet(free)) = Len(free)
        /\ Cardinality(ToSet(t)) = Len(t) /\ IsFiniteSet(ToSet(t))
    BY <1>2, <1>7, InjectiveLen
  <2>2. Cardinality(ToSet(free) \ Z) = Cardinality(ToSet(free)) - Cardinality(ToSet(free) \cap Z)
    BY <2>1, FS_Difference
  <2>3. ToSet(free) \cap Z = Z /\ Evictable(H) = Cardinality(Z)
    BY <1>5 DEF Evictable
  <2> HIDE DEF Z, t, H
  <2> QED BY <1>7, <2>1, <2>2, <2>3
<1>9. Evictable(H) \in Nat /\ Len(free) \in Nat
  <2>1. IsFiniteSet(ToSet(free))
    BY <1>2, InjectiveLen
  <2>2. IsFiniteSet(Z)
    BY <1>5, <2>1, FS_Subset
  <2> QED BY <1>2, <2>2, FS_CardinalityType DEF Evictable
<1> HIDE DEF Z, t, H, k, new
<1>10. k <= Len(t)
  BY <1>1, <1>8, <1>9
<1>11. /\ new \in Seq(Blocks) /\ Len(new) = k /\ IsInjective(new)
       /\ free' \in Seq(Blocks) /\ IsInjective(free')
       /\ ToSet(new) \cap ToSet(free') = {} /\ ToSet(new) \cup ToSet(free') = ToSet(t)
  BY <1>1, <1>7, <1>10, CutFacts
<1>12. ToSet(new) \subseteq ToSet(free) \ H
  BY <1>5, <1>7, <1>11
<1>13. ToSet(free') = ToSet(free) \ (H \cup ToSet(new))
  <2>1. Z \subseteq H
    BY DEF Z
  <2> QED BY <1>5, <1>7, <1>11, <2>1
<1> QED BY <1>7, <1>10, <1>11, <1>12, <1>13 DEF new, k, t, H

\* The new block table: its published part first, then what was open or free.
LEMMA AllocTable ==
    ASSUME NEW r, NEW hits, NEW n, Allocates(r, hits, n)
    PROVE  LET bs == Listed(r, hits, n) IN
           /\ bs \in Seq(Blocks) /\ IsInjective(bs)
           /\ Len(bs) = Cdiv(Upto(r, hits, n), BlockSize)
           /\ ToSet(bs) = ToSet(table[r]) \cup ToSet(hits) \cup ToSet(New(r, hits, n))
           /\ From(r, hits) <= Len(bs)
           /\ \A i \in 1 .. From(r, hits) :
                  /\ i \in 1 .. Len(bs) /\ bs[i] \notin ToSet(New(r, hits, n))
                  /\ \/ i \in 1 .. numCached[r] /\ bs[i] = table[r][i]
                     \/ table[r] = <<>> /\ i \in 1 .. Len(hits) /\ bs[i] = hits[i]
           /\ \A i \in From(r, hits) + 1 .. Len(bs) :
                  \/ bs[i] \in ToSet(New(r, hits, n))
                  \/ /\ i \in numCached[r] + 1 .. Len(table[r]) /\ bs[i] = table[r][i]
                     /\ hits = <<>>
<1> DEFINE T == table[r]  new == New(r, hits, n)  bs == Listed(r, hits, n)
           s == T \o hits
<1>1. /\ PoolInv /\ r \in Reqs /\ hits \in Seq(Blocks) /\ IsInjective(hits)
      /\ (T = <<>> \/ hits = <<>>)
  BY DEF Allocates
<1>2. /\ T \in Seq(Blocks) /\ IsInjective(T) /\ numCached[r] <= Len(T) /\ numCached[r] \in Nat
      /\ (T = <<>> => numCached[r] = 0) /\ Len(T) \in Nat
      /\ \A i \in 1 .. Len(T) : T[i] \notin ToSet(free)
  BY <1>1, OfRequest
<1>3. /\ new \in Seq(Blocks) /\ IsInjective(new) /\ Len(new) = Need(r, hits, n)
      /\ ToSet(new) \subseteq ToSet(free) \ ToSet(hits)
  BY AllocBlocks
<1>4. bs = s \o new
  BY DEF Listed
<1> HIDE DEF T, new, bs
<1>5. /\ s \in Seq(Blocks) /\ Len(s) = Len(T) + Len(hits) /\ Len(hits) \in Nat
      /\ \A i \in 1 .. Len(T) : s[i] = T[i]
      /\ \A i \in 1 .. Len(hits) : s[Len(T) + i] = hits[i]
      /\ ToSet(s) = ToSet(T) \cup ToSet(hits)
      /\ ToSet(T) \cap ToSet(hits) = {} => IsInjective(s)
  BY <1>1, <1>2, ConcatFacts
<1>6. ToSet(T) \cap ToSet(hits) = {}
  BY <1>1, <1>2, InSeq
<1>7. ToSet(s) \cap ToSet(new) = {}
  <2>1. ToSet(T) \cap ToSet(free) = {}
    BY <1>2, InSeq
  <2> QED BY <1>3, <1>5, <2>1
<1> HIDE DEF s
<1>8. /\ bs \in Seq(Blocks) /\ Len(bs) = Len(s) + Len(new) /\ Len(new) \in Nat
      /\ \A i \in 1 .. Len(s) : bs[i] = s[i]
      /\ \A i \in 1 .. Len(new) : bs[Len(s) + i] = new[i]
      /\ ToSet(bs) = ToSet(s) \cup ToSet(new) /\ IsInjective(bs)
  <2>1. s \in Seq(Blocks) /\ new \in Seq(Blocks) /\ IsInjective(s) /\ Len(new) \in Nat
    BY <1>3, <1>5, <1>6
  <2>2. /\ s \o new \in Seq(Blocks) /\ Len(s \o new) = Len(s) + Len(new)
        /\ \A i \in 1 .. Len(s) : (s \o new)[i] = s[i]
        /\ \A i \in 1 .. Len(new) : (s \o new)[Len(s) + i] = new[i]
        /\ ToSet(s \o new) = ToSet(s) \cup ToSet(new)
    BY <2>1, ConcatFacts
  <2>3. IsInjective(s \o new)
    BY <1>3, <1>7, <2>1, ConcatFacts
  <2> QED BY <1>4, <2>1, <2>2, <2>3
<1>9. Len(bs) = Cdiv(Upto(r, hits, n), BlockSize)
  <2> DEFINE c == Cdiv(Upto(r, hits, n), BlockSize)
  <2>1. Need(r, hits, n) = c - Len(T) - Len(hits)
    BY DEF Need, T
  <2>2. c \in Nat
    <3>1. Upto(r, hits, n) \in Nat /\ BlockSize \in Nat \ {0}
      BY <1>1, AllocNumbers, PromptLen
    <3> QED BY <3>1, CdivFacts
  <2> HIDE DEF c
  <2>3. Len(bs) = c
    BY <1>2, <1>3, <1>5, <1>8, <2>1, <2>2
  <2> QED BY <2>3 DEF c
<1>10. From(r, hits) = numCached[r] + Len(hits) /\ From(r, hits) <= Len(s)
  BY <1>2, <1>5 DEF From
<1>11. ASSUME NEW i \in 1 .. From(r, hits)
       PROVE  /\ i \in 1 .. Len(bs) /\ bs[i] \notin ToSet(new)
              /\ \/ i \in 1 .. numCached[r] /\ bs[i] = T[i]
                 \/ T = <<>> /\ i \in 1 .. Len(hits) /\ bs[i] = hits[i]
  <2>1. i \in 1 .. Len(s) /\ i \in 1 .. Len(bs)
    BY <1>2, <1>5, <1>8, <1>10
  <2>2. bs[i] = s[i] /\ bs[i] \in ToSet(s)
    BY <1>5, <1>8, <2>1, InSeq
  <2>3. CASE T = <<>>
    <3>1. Len(T) = 0 /\ numCached[r] = 0
      BY <1>2, <2>3
    <3>2. i \in 1 .. Len(hits) /\ s[Len(T) + i] = hits[i] /\ Len(T) + i = i
      BY <1>5, <1>10, <3>1
    <3> QED BY <1>7, <2>1, <2>2, <2>3, <3>2
  <2>4. CASE hits = <<>>
    <3>1. Len(hits) = 0
      BY <2>4
    <3>2. i \in 1 .. numCached[r] /\ i \in 1 .. Len(T)
      BY <1>2, <1>10, <3>1
    <3> QED BY <1>5, <1>7, <2>1, <2>2, <3>2
  <2> QED BY <1>1, <2>3, <2>4 DEF T
<1>12. ASSUME NEW i \in From(r, hits) + 1 .. Len(bs)
       PROVE  \/ bs[i] \in ToSet(new)
              \/ i \in numCached[r] + 1 .. Len(T) /\ bs[i] = T[i] /\ hits = <<>>
  <2>1. CASE i > Len(s)
    <3>1. i - Len(s) \in 1 .. Len(new) /\ Len(s) + (i - Len(s)) = i
      BY <1>2, <1>5, <1>8, <1>10, <2>1
    <3>2. bs[i] = new[i - Len(s)]
      BY <1>8, <3>1
    <3> QED BY <1>3, <3>1, <3>2, InSeq
  <2>2. CASE ~(i > Len(s))
    <3>1. i > numCached[r] + Len(hits) /\ i <= Len(T) + Len(hits) /\ i \in Int
      BY <1>2, <1>5, <1>8, <1>10, <2>2
    <3>2. T # <<>>
      <4>1. SUFFICES ASSUME T = <<>> PROVE FALSE
        OBVIOUS
      <4>2. Len(T) = 0 /\ numCached[r] = 0
        BY <1>2, <4>1
      <4> QED BY <1>5, <3>1, <4>2
    <3>3. hits = <<>> /\ Len(hits) = 0
      BY <1>1, <3>2 DEF T
    <3>4. i \in numCached[r] + 1 .. Len(T) /\ i \in 1 .. Len(T) /\ i \in 1 .. Len(s)
      BY <1>2, <1>5, <3>1, <3>3
    <3> QED BY <1>5, <1>8, <3>3, <3>4
  <2> QED BY <2>1, <2>2
<1>13. From(r, hits) <= Len(bs)
  BY <1>2, <1>5, <1>8, <1>10
<1>14. ToSet(bs) = ToSet(T) \cup ToSet(hits) \cup ToSet(new)
  BY <1>5, <1>8
<1> QED BY <1>8, <1>9, <1>11, <1>12, <1>13, <1>14 DEF bs, new, T

\* The places of the table that the step publishes.
Fresh(r, hits, n) ==
    {i \in 1 .. Len(Listed(r, hits, n)) :
        i > From(r, hits) /\ i <= Upto(r, hits, n) \div BlockSize}

\* The blocks it publishes with hash h.
FreshOf(r, hits, n, h) ==
    {Listed(r, hits, n)[i] : i \in {j \in Fresh(r, hits, n) : BlockHashOf(r, j) = h}}

\* What a block's hash is afterwards.
LEMMA AllocHash ==
    ASSUME NEW r, NEW hits, NEW n, Allocates(r, hits, n)
    PROVE  LET bs == Listed(r, hits, n)
               new == ToSet(New(r, hits, n))
               fresh == Fresh(r, hits, n)
           IN  /\ hash' \in [Blocks -> Hashes \cup {NoHash}]
               /\ \A i \in fresh : /\ i \in 1 .. Len(bs) /\ i \in 1 .. FullBlocks(r)
                                   /\ hash'[bs[i]] = BlockHashOf(r, i)
                                   /\ bs[i] \in new \/ hash[bs[i]] = NoHash
               /\ \A b \in Blocks : (\A i \in fresh : bs[i] # b) =>
                                        hash'[b] = IF b \in new THEN NoHash ELSE hash[b]
               /\ \A h \in Hashes :
                      cache'[h] = Without(cache[h], EvictedOf(new)) \o
                                  SetToSeq(FreshOf(r, hits, n, h))
               /\ DOMAIN cache' = Hashes /\ cache' = [h \in Hashes |-> cache'[h]]
<1> DEFINE bs == Listed(r, hits, n)  new == ToSet(New(r, hits, n))  fresh == Fresh(r, hits, n)
           to == Upto(r, hits, n) \div BlockSize
<1>1. /\ PoolInv /\ r \in Reqs
  BY DEF Allocates
<1>2. Publish(r, bs, From(r, hits), to, new)
  BY AllocDef
<1>3. /\ bs \in Seq(Blocks) /\ IsInjective(bs) /\ Len(bs) \in Nat
      /\ \A i \in From(r, hits) + 1 .. Len(bs) :
             \/ bs[i] \in new
             \/ i \in numCached[r] + 1 .. Len(table[r]) /\ bs[i] = table[r][i]
  BY AllocTable
<1>4. From(r, hits) \in Nat /\ to \in Nat /\ to <= FullBlocks(r) /\ FullBlocks(r) \in Nat
  BY <1>1, AllocNumbers, PromptLen
<1>5. fresh = {i \in 1 .. Len(bs) : i > From(r, hits) /\ i <= to}
  BY DEF Fresh
<1>6. /\ hash' = [b \in Blocks |->
                     IF \E i \in fresh : bs[i] = b
                     THEN BlockHashOf(r, CHOOSE i \in fresh : bs[i] = b)
                     ELSE IF b \in EvictedOf(new) THEN NoHash ELSE hash[b]]
      /\ cache' = [h \in Hashes |->
                     MapAfterEvict(new)[h] \o
                     SetToSeq({bs[i] : i \in {j \in fresh : BlockHashOf(r, j) = h}})]
  BY <1>2, <1>5 DEF Publish
<1>7. \A h \in Hashes : MapAfterEvict(new)[h] = Without(cache[h], EvictedOf(new))
  BY DEF MapAfterEvict
<1>8. \A b \in new : b \in EvictedOf(new) <=> hash[b] # NoHash
  BY DEF EvictedOf
<1>9. EvictedOf(new) \subseteq new
  BY DEF EvictedOf
<1> HIDE DEF bs, new, fresh, to
<1>10. ASSUME NEW i \in fresh
       PROVE  /\ i \in 1 .. Len(bs) /\ i \in 1 .. FullBlocks(r) /\ bs[i] \in Blocks
              /\ i \in From(r, hits) + 1 .. Len(bs)
  BY <1>3, <1>4, <1>5
<1>11. ASSUME NEW i \in fresh PROVE hash'[bs[i]] = BlockHashOf(r, i)
  <2>1. \A j \in fresh : bs[j] = bs[i] => j = i
    BY <1>3, <1>10, InSeq
  <2>2. (CHOOSE j \in fresh : bs[j] = bs[i]) = i
    BY <2>1
  <2> QED BY <1>6, <1>10, <2>2
<1>12. ASSUME NEW i \in fresh PROVE bs[i] \in new \/ hash[bs[i]] = NoHash
  BY <1>1, <1>3, <1>10, OfRequest
<1>13. ASSUME NEW b \in Blocks, \A i \in fresh : bs[i] # b
       PROVE  hash'[b] = IF b \in new THEN NoHash ELSE hash[b]
  BY <1>6, <1>8, <1>9, <1>13
<1>14. hash \in [Blocks -> Hashes \cup {NoHash}]
  BY <1>1, Types
<1>15. ASSUME NEW b \in Blocks PROVE hash'[b] \in Hashes \cup {NoHash}
  <2>1. CASE \A i \in fresh : bs[i] # b
    BY <1>13, <1>14, <2>1
  <2>2. ASSUME NEW i \in fresh, bs[i] = b PROVE hash'[b] \in Hashes
    BY <1>1, <1>10, <1>11, <2>2, HashFacts
  <2> QED BY <2>1, <2>2
<1>16. hash' \in [Blocks -> Hashes \cup {NoHash}]
  BY <1>6, <1>15
<1>17. /\ DOMAIN cache' = Hashes /\ cache' = [h \in Hashes |-> cache'[h]]
       /\ \A h \in Hashes :
              cache'[h] = Without(cache[h], EvictedOf(new)) \o
                          SetToSeq({bs[i] : i \in {j \in fresh : BlockHashOf(r, j) = h}})
  BY <1>6, <1>7
<1>18. \A h : {bs[i] : i \in {j \in fresh : BlockHashOf(r, j) = h}} = FreshOf(r, hits, n, h)
  BY DEF FreshOf, bs, fresh
<1>19. \A h \in Hashes : cache'[h] = Without(cache[h], EvictedOf(new)) \o
                                     SetToSeq(FreshOf(r, hits, n, h))
  BY <1>17, <1>18
<1> QED BY <1>10, <1>11, <1>12, <1>13, <1>16, <1>17, <1>19 DEF bs, new, fresh

\* The map lists a block for a hash exactly if the block has it.
LEMMA AllocMap ==
    ASSUME NEW r, NEW hits, NEW n, Allocates(r, hits, n)
    PROVE  cache' \in [Hashes -> Seq(Blocks)] /\ MapAgreesWithBlocks'
<1> DEFINE bs == Listed(r, hits, n)  new == ToSet(New(r, hits, n))  fresh == Fresh(r, hits, n)
           of(h) == FreshOf(r, hits, n, h)
<1>1. PoolInv /\ bs \in Seq(Blocks) /\ IsInjective(bs)
  BY AllocTable DEF Allocates
<1>2. /\ \A i \in fresh : /\ i \in 1 .. Len(bs)
                          /\ hash'[bs[i]] = BlockHashOf(r, i)
                          /\ bs[i] \in new \/ hash[bs[i]] = NoHash
      /\ \A b \in Blocks : (\A i \in fresh : bs[i] # b) =>
                               hash'[b] = IF b \in new THEN NoHash ELSE hash[b]
      /\ \A h \in Hashes : cache'[h] = Without(cache[h], EvictedOf(new)) \o SetToSeq(of(h))
      /\ cache' = [h \in Hashes |-> cache'[h]]
  <2>1. /\ \A i \in fresh : /\ i \in 1 .. Len(bs)
                            /\ hash'[bs[i]] = BlockHashOf(r, i)
                            /\ bs[i] \in new \/ hash[bs[i]] = NoHash
        /\ \A b \in Blocks : (\A i \in fresh : bs[i] # b) =>
                                 hash'[b] = IF b \in new THEN NoHash ELSE hash[b]
        /\ cache' = [h \in Hashes |-> cache'[h]]
    BY AllocHash
  <2>2. \A h \in Hashes : cache'[h] = Without(cache[h], EvictedOf(new)) \o SetToSeq(of(h))
    BY AllocHash
  <2> QED BY <2>1, <2>2
<1>3. \A b : b \in EvictedOf(new) <=> b \in new /\ hash[b] # NoHash
  BY DEF EvictedOf
<1>4. \A h : \A b : b \in of(h) <=> \E i \in fresh : bs[i] = b /\ BlockHashOf(r, i) = h
  BY DEF FreshOf
<1>5. \A h : of(h) \in SUBSET ToSet(bs)
  BY <1>1, <1>2, <1>4, InSeq
<1>6. ToSet(bs) \subseteq Blocks /\ IsFiniteSet(ToSet(bs))
  BY <1>1, InSeq, InjectiveLen
<1> HIDE DEF bs, new, fresh, of
<1>7. ASSUME NEW h \in Hashes
      PROVE  /\ cache'[h] \in Seq(Blocks) /\ IsInjective(cache'[h])
             /\ ToSet(cache'[h]) = {b \in Blocks : hash'[b] = h}
  <2> DEFINE s == Without(cache[h], EvictedOf(new))  t == SetToSeq(of(h))
  <2>1. /\ cache[h] \in Seq(Blocks) /\ IsInjective(cache[h]) /\ h # NoHash
        /\ \A b \in Blocks : b \in ToSet(cache[h]) <=> hash[b] = h
    BY <1>1, CachedAt, HashOf
  <2>2. s \in Seq(Blocks) /\ IsInjective(s) /\ ToSet(s) = ToSet(cache[h]) \ EvictedOf(new)
    BY <2>1, WithoutFacts
  <2>3. IsFiniteSet(of(h))
    BY <1>5, <1>6, FS_Subset
  <2>4. t \in Seq(of(h)) /\ IsInjective(t) /\ ToSet(t) = of(h)
    BY <2>3, SetToSeqFacts
  <2>5. of(h) \subseteq Blocks
    BY <1>5, <1>6
  <2> HIDE DEF s, t
  <2>6. t \in Seq(Blocks)
    BY <2>4, <2>5
  <2>7. ToSet(s) \subseteq Blocks
    BY <2>2, InSeq
  <2>8. ToSet(s) \cap ToSet(t) = {}
    <3> SUFFICES ASSUME NEW b \in ToSet(s), b \in of(h) PROVE FALSE
      BY <2>4
    <3>1. b \in Blocks /\ hash[b] = h /\ b \notin EvictedOf(new)
      BY <2>1, <2>2, <2>7
    <3>2. b \in new \/ hash[b] = NoHash
      BY <1>2, <1>4
    <3> QED BY <1>3, <2>1, <3>1, <3>2
  <2>9. cache'[h] = s \o t
    BY <1>2 DEF s, t
  <2>10. s \o t \in Seq(Blocks) /\ ToSet(s \o t) = ToSet(s) \cup ToSet(t) /\ IsInjective(s \o t)
    BY <2>2, <2>4, <2>6, <2>8, ConcatFacts
  <2>11. ASSUME NEW b \in Blocks PROVE b \in ToSet(s) \cup ToSet(t) <=> hash'[b] = h
    <3>1. CASE \A i \in fresh : bs[i] # b
      <4>1. b \notin of(h) /\ hash'[b] = IF b \in new THEN NoHash ELSE hash[b]
        BY <1>2, <1>4, <3>1
      <4> QED BY <1>3, <2>1, <2>2, <2>4, <4>1
    <3>2. ASSUME NEW i \in fresh, bs[i] = b PROVE b \in ToSet(s) \cup ToSet(t) <=> hash'[b] = h
      <4>1. hash'[b] = BlockHashOf(r, i) /\ (b \in new \/ hash[b] = NoHash)
        BY <1>2, <3>2
      <4>2. b \notin ToSet(s)
        BY <1>3, <2>1, <2>2, <4>1
      <4>3. hash'[b] = h => b \in of(h)
        BY <1>4, <3>2, <4>1
      <4>4. ASSUME b \in of(h) PROVE hash'[b] = h
        <5>1. PICK j \in fresh : bs[j] = b /\ BlockHashOf(r, j) = h
          BY <1>4, <4>4
        <5> QED BY <1>2, <5>1
      <4> QED BY <2>4, <4>2, <4>3, <4>4
    <3> QED BY <3>1, <3>2
  <2> QED BY <2>4, <2>5, <2>7, <2>9, <2>10, <2>11
<1>8. cache' \in [Hashes -> Seq(Blocks)]
  BY <1>2, <1>7
<1> QED BY <1>7, <1>8 DEF MapAgreesWithBlocks

\* Who uses a block afterwards, and how often it is counted.
LEMMA AllocUsers ==
    ASSUME NEW r, NEW hits, NEW n, Allocates(r, hits, n), NEW b \in Blocks
    PROVE  LET got == ToSet(hits) \cup ToSet(New(r, hits, n)) IN
           /\ Holders(b)' = IF b \in got THEN Holders(b) \cup {r} ELSE Holders(b)
           /\ refCnt'[b] = IF b \in got THEN refCnt[b] + 1 ELSE refCnt[b]
           /\ b \in got => r \notin Holders(b)
           /\ IsFiniteSet(Holders(b)')
           /\ refCnt'[b] = Cardinality(Holders(b)')
           /\ b \in ToSet(free') <=> Holders(b)' = {}
<1> DEFINE new == ToSet(New(r, hits, n))  got == ToSet(hits) \cup new  bs == Listed(r, hits, n)
<1>1. /\ PoolInv /\ r \in Reqs /\ (table[r] = <<>> \/ hits = <<>>) /\ hits \in Seq(Blocks)
  BY DEF Allocates
<1>2. /\ refCnt' = RefsAfter(ToSet(hits), new) /\ table' = [table EXCEPT ![r] = bs]
  BY AllocDef
<1>3. table \in [Reqs -> Seq(Blocks)]
  BY <1>1, Types
<1>4. ToSet(bs) = ToSet(table[r]) \cup got
  BY AllocTable
<1>5. new \subseteq ToSet(free) \ ToSet(hits) /\ ToSet(free') = ToSet(free) \ got
  BY AllocBlocks
<1>6. /\ refCnt[b] \in Nat /\ refCnt[b] = Cardinality(Holders(b)) /\ IsFiniteSet(Holders(b))
      /\ b \in ToSet(free) <=> refCnt[b] = 0
      /\ refCnt[b] = 0 <=> Holders(b) = {}
  BY <1>1, Used
<1>7. refCnt'[b] = IF b \in got THEN refCnt[b] + 1 ELSE refCnt[b]
  BY <1>2 DEF RefsAfter
<1>8. b \in got => r \notin Holders(b)
  <2>1. CASE b \in new
    BY <1>5, <1>6, <2>1
  <2>2. CASE b \in ToSet(hits)
    <3>1. hits # <<>>
      BY <1>1, <2>2, InSeq
    <3>2. ToSet(table[r]) = {}
      BY <1>1, <3>1 DEF ToSet
    <3> QED BY <3>2 DEF Holders
  <2> QED BY <2>1, <2>2
<1> HIDE DEF bs, new
<1>9. Holders(b)' = IF b \in got THEN Holders(b) \cup {r} ELSE Holders(b)
  <2>1. Holders(b)' = {q \in Reqs : b \in ToSet(table'[q])}
    BY DEF Holders
  <2>2. \A q \in Reqs : table'[q] = IF q = r THEN bs ELSE table[q]
    BY <1>2, <1>3
  <2> HIDE DEF got
  <2>3. \A q \in Reqs : b \in ToSet(table'[q])
                        <=> b \in ToSet(table[q]) \/ (q = r /\ b \in got)
    BY <1>4, <2>2
  <2>4. Holders(b) = {q \in Reqs : b \in ToSet(table[q])}
    BY DEF Holders
  <2> QED BY <1>1, <2>1, <2>3, <2>4
<1> HIDE DEF got
<1>10. IsFiniteSet(Holders(b)') /\ refCnt'[b] = Cardinality(Holders(b)')
  <2>1. CASE b \in got
    <3>1. /\ IsFiniteSet(Holders(b) \cup {r})
          /\ Cardinality(Holders(b) \cup {r}) = Cardinality(Holders(b)) + 1
      BY <1>6, <1>8, <2>1, FS_AddElement
    <3> QED BY <1>6, <1>7, <1>9, <2>1, <3>1
  <2>2. CASE b \notin got
    BY <1>6, <1>7, <1>9, <2>2
  <2> QED BY <2>1, <2>2
<1>11. b \in ToSet(free') <=> Holders(b)' = {}
  BY <1>5, <1>6, <1>9
<1> QED BY <1>7, <1>8, <1>9, <1>10, <1>11 DEF got, new

\* Blocks with room left are still private.
LEMMA AllocOpen ==
    ASSUME NEW r, NEW hits, NEW n, Allocates(r, hits, n)
    PROVE  OpenBlocksPrivate'
<1> DEFINE bs == Listed(r, hits, n)  new == ToSet(New(r, hits, n))  fresh == Fresh(r, hits, n)
           u == Upto(r, hits, n)
<1>1. /\ PoolInv /\ r \in Reqs /\ hits \in Seq(Blocks) /\ Len(hits) <= FullBlocks(r)
      /\ \A i \in 1 .. Len(hits) : hash[hits[i]] = BlockHashOf(r, i)
  BY DEF Allocates
<1>2. table' = [table EXCEPT ![r] = bs] /\ computed' = [computed EXCEPT ![r] = u]
  BY AllocDef
<1>3. table \in [Reqs -> Seq(Blocks)] /\ computed \in [Reqs -> Nat]
  BY <1>1, Types
<1>4. /\ bs \in Seq(Blocks) /\ IsInjective(bs) /\ Len(bs) \in Nat
      /\ \A i \in From(r, hits) + 1 .. Len(bs) :
             \/ bs[i] \in new
             \/ i \in numCached[r] + 1 .. Len(table[r]) /\ bs[i] = table[r][i] /\ hits = <<>>
  BY AllocTable
<1>5. From(r, hits) \in Nat /\ u \div BlockSize \in Nat /\ From(r, hits) <= u \div BlockSize
  BY AllocNumbers
<1>6. /\ \A i \in fresh : i \in 1 .. Len(bs) /\ (bs[i] \in new \/ hash[bs[i]] = NoHash)
      /\ \A b \in Blocks : (\A i \in fresh : bs[i] # b) =>
                               hash'[b] = IF b \in new THEN NoHash ELSE hash[b]
  BY AllocHash
<1>7. \A i \in fresh : i > From(r, hits) /\ i <= u \div BlockSize /\ i \in From(r, hits) + 1 .. Len(bs)
  BY <1>4, <1>5 DEF Fresh
<1>8. \A b \in Blocks : refCnt'[b] = IF b \in ToSet(hits) \cup new THEN refCnt[b] + 1 ELSE refCnt[b]
  BY AllocUsers
<1>9. new \subseteq ToSet(free)
  BY AllocBlocks
<1>10. \A i \in 1 .. Len(hits) : hash[hits[i]] # NoHash
  <2>1. Len(hits) \in Nat /\ FullBlocks(r) \in Nat
    BY <1>1, PromptLen
  <2>2. \A i \in 1 .. Len(hits) : i \in 1 .. FullBlocks(r)
    BY <1>1, <2>1
  <2> QED BY <1>1, <2>2, HashFacts
<1> HIDE DEF bs, new, fresh
<1>11. ASSUME NEW i \in (u \div BlockSize) + 1 .. Len(bs)
       PROVE  refCnt'[bs[i]] = 1 /\ hash'[bs[i]] = NoHash
  <2>1. i \in From(r, hits) + 1 .. Len(bs) /\ i \in 1 .. Len(bs) /\ i \in Int /\ ~(i <= u \div BlockSize)
    BY <1>4, <1>5
  <2>2. bs[i] \in Blocks
    BY <1>4, <2>1
  <2>3. \A j \in fresh : bs[j] # bs[i]
    BY <1>4, <1>6, <1>7, <2>1, InSeq
  <2>4. hash'[bs[i]] = IF bs[i] \in new THEN NoHash ELSE hash[bs[i]]
    BY <1>6, <2>2, <2>3
  <2>5. CASE bs[i] \in new
    <3>1. refCnt[bs[i]] = 0
      BY <1>1, <1>9, <2>2, <2>5, Used
    <3>2. refCnt'[bs[i]] = refCnt[bs[i]] + 1
      BY <1>8, <2>2, <2>5
    <3> QED BY <2>4, <2>5, <3>1, <3>2
  <2>6. CASE bs[i] \notin new
    <3>1. /\ i \in numCached[r] + 1 .. Len(table[r]) /\ bs[i] = table[r][i] /\ hits = <<>>
      BY <1>4, <2>1, <2>6
    <3>2. refCnt[bs[i]] = 1 /\ hash[bs[i]] = NoHash
      BY <1>1, <3>1, OfRequest
    <3>3. bs[i] \notin ToSet(hits)
      BY <3>1 DEF ToSet
    <3> QED BY <1>8, <2>2, <2>4, <2>6, <3>2, <3>3
  <2> QED BY <2>5, <2>6
<1>12. ASSUME NEW q \in Reqs, q # r, NEW i \in numCached[q] + 1 .. Len(table[q])
       PROVE  refCnt'[table[q][i]] = 1 /\ hash'[table[q][i]] = NoHash
  <2> DEFINE b == table[q][i]
  <2>1. numCached[q] \in Nat /\ Len(table[q]) \in Nat
    BY <1>1, OfRequest
  <2>2. i \in 1 .. Len(table[q])
    BY <2>1
  <2>3. b \in Blocks /\ q \in Holders(b) /\ b \notin ToSet(free) /\ refCnt[b] = 1 /\ hash[b] = NoHash
    BY <1>1, <2>2, OfRequest
  <2> HIDE DEF b
  <2>4. b \notin new
    BY <1>9, <2>3
  <2>5. b \notin ToSet(hits)
    BY <1>1, <1>10, <2>3, InSeq
  <2>6. ASSUME NEW j \in fresh, bs[j] = b PROVE FALSE
    <3>1. j \in numCached[r] + 1 .. Len(table[r]) /\ b = table[r][j]
      BY <1>4, <1>7, <2>4, <2>6
    <3>2. j \in 1 .. Len(table[r])
      BY <1>1, <3>1, OfRequest
    <3>3. r \in Holders(b)
      BY <1>1, <3>1, <3>2, OfRequest
    <3> QED BY <1>1, <1>12, <2>3, <3>3, Sole
  <2> QED BY <1>6, <1>8, <2>3, <2>4, <2>5, <2>6 DEF b
<1>13. SUFFICES ASSUME NEW q \in Reqs,
                       NEW i \in (computed'[q] \div BlockSize) + 1 .. Len(table'[q])
                PROVE  refCnt'[table'[q][i]] = 1 /\ hash'[table'[q][i]] = NoHash
  BY DEF OpenBlocksPrivate
<1>14. CASE q = r
  <2>1. table'[q] = bs
    BY <1>1, <1>2, <1>3, <1>14
  <2>2. computed'[q] = u
    BY <1>1, <1>2, <1>3, <1>14
  <2> QED BY <1>11, <1>13, <2>1, <2>2
<1>15. CASE q # r
  <2>1. table'[q] = table[q] /\ computed'[q] = computed[q]
    BY <1>2, <1>3, <1>15
  <2>2. computed[q] \div BlockSize = numCached[q]
    BY <1>1, OfRequest
  <2> QED BY <1>12, <1>13, <1>15, <2>1, <2>2
<1> QED BY <1>14, <1>15

\* allocate_slots keeps the books.
LEMMA AllocPool ==
    ASSUME NEW r, NEW hits, NEW n, Allocates(r, hits, n)
    PROVE  PoolInv'
<1> DEFINE bs == Listed(r, hits, n)  u == Upto(r, hits, n)  d == u \div BlockSize
<1>1. PoolInv /\ r \in Reqs /\ u <= NumTokens(r) /\ Len(inflight) < MaxInFlight
  BY DEF Allocates
<1>2. /\ table' = [table EXCEPT ![r] = bs] /\ computed' = [computed EXCEPT ![r] = u]
      /\ numCached' = [numCached EXCEPT ![r] = d] /\ workload' = workload
      /\ DOMAIN refCnt' = Blocks /\ refCnt' = [b \in Blocks |-> refCnt'[b]]
  BY AllocDef DEF RefsAfter
<1>3. /\ table \in [Reqs -> Seq(Blocks)] /\ computed \in [Reqs -> Nat]
      /\ numCached \in [Reqs -> Nat] /\ workload \in Workloads /\ inflight \in Seq(Steps)
  BY <1>1, Types
<1>4. /\ u \in Nat /\ d \in Nat /\ d <= FullBlocks(r) /\ Start(r, hits) \in Nat
      /\ NumTokens(r) \in Nat /\ FullBlocks(r) \in Nat
  BY <1>1, AllocNumbers, PromptLen
<1>5. bs \in Seq(Blocks) /\ IsInjective(bs) /\ Len(bs) = Cdiv(u, BlockSize)
  BY AllocTable
<1>6. ASSUME NEW b \in Blocks
      PROVE  /\ refCnt'[b] \in Nat /\ IsFiniteSet(Holders(b)')
             /\ refCnt'[b] = Cardinality(Holders(b)')
             /\ b \in ToSet(free') <=> Holders(b)' = {}
  <2>1. refCnt[b] \in Nat
    BY <1>1, Used
  <2> QED BY <2>1, AllocUsers
<1>7. free' \in Seq(Blocks) /\ IsInjective(free')
  BY AllocBlocks
<1>8. hash' \in [Blocks -> Hashes \cup {NoHash}]
  BY AllocHash
<1>9. cache' \in [Hashes -> Seq(Blocks)] /\ MapAgreesWithBlocks'
  BY AllocMap
<1> HIDE DEF bs, u, d
<1>10. inflight' \in Seq(Steps) /\ Len(inflight') <= MaxInFlight
  <2> DEFINE e == [req |-> r, blocks |-> bs, from |-> Start(r, hits), to |-> u,
                   first |-> table[r] = <<>>, live |-> TRUE]
  <2>1. e \in Steps
    BY <1>1, <1>4, <1>5 DEF Steps
  <2>2. inflight' = Append(inflight, e)
    BY AllocStep DEF bs, u
  <2>3. MaxInFlight \in Nat
    BY KVAssumption
  <2> HIDE DEF e
  <2> QED BY <1>1, <1>3, <2>1, <2>2, <2>3
<1>11. refCnt' \in [Blocks -> Nat]
  BY <1>2, <1>6
<1>12. ASSUME NEW q \in Reqs
       PROVE  /\ IsInjective(table'[q]) /\ numCached'[q] \in 0 .. FullBlocks(q)
              /\ computed'[q] \in 0 .. NumTokens(q)
              /\ Len(table'[q]) = Cdiv(computed'[q], BlockSize)
              /\ numCached'[q] = computed'[q] \div BlockSize
  <2>1. CASE q = r
    <3>1. table'[q] = bs /\ computed'[q] = u /\ numCached'[q] = d
      BY <1>1, <1>2, <1>3, <2>1
    <3>2. d \in 0 .. FullBlocks(q) /\ u \in 0 .. NumTokens(q)
      BY <1>1, <1>4, <2>1 DEF u
    <3> QED BY <1>5, <3>1, <3>2 DEF d
  <2>2. CASE q # r
    <3>1. table'[q] = table[q] /\ computed'[q] = computed[q] /\ numCached'[q] = numCached[q]
      BY <1>2, <1>3, <2>2
    <3> QED BY <1>1, <3>1 DEF PoolInv, PoolConsistent, KVTypeOK, RefCountsHolders, Shape
  <2> QED BY <2>1, <2>2
<1>13. table' \in [Reqs -> Seq(Blocks)] /\ computed' \in [Reqs -> Nat] /\ numCached' \in [Reqs -> Nat]
  BY <1>2, <1>3, <1>4, <1>5
<1>14. KVTypeOK'
  BY <1>7, <1>8, <1>9, <1>10, <1>11, <1>12, <1>13 DEF KVTypeOK
<1>15. RefCountsHolders'
  BY <1>6, <1>12 DEF RefCountsHolders
<1>16. FreeQueueExact'
  <2>1. \A x \in ToSet(free') : x \in Blocks
    BY <1>7, InSeq
  <2> QED BY <1>6, <1>7, <2>1 DEF FreeQueueExact
<1>17. OpenBlocksPrivate'
  BY AllocOpen
<1>18. Shape'
  BY <1>2, <1>3, <1>6, <1>10, <1>12, <1>13 DEF Shape
<1> QED BY <1>9, <1>14, <1>15, <1>16, <1>17, <1>18 DEF PoolInv, PoolConsistent

-----------------------------------------------------------------------------
(* free, evict_blocks, reset_prefix_cache and the worker.                  *)

\* The blocks that nobody else uses, last one first.
LastUsed(r) ==
    LET bs == FreeOrder(table[r]) IN AtPlaces(bs, {i \in DOMAIN bs : refCnt[bs[i]] = 1})

\* free puts them at the end of the queue.
LEMMA FreeBlocks ==
    ASSUME PoolInv, NEW r \in Reqs, Release(r)
    PROVE  /\ free' = free \o LastUsed(r) /\ LastUsed(r) \in Seq(Blocks)
           /\ \A b \in Blocks : b \in ToSet(LastUsed(r)) <=> b \in ToSet(table[r]) /\ refCnt[b] = 1
           /\ free' \in Seq(Blocks) /\ IsInjective(free')
           /\ ToSet(free') = ToSet(free) \cup ToSet(LastUsed(r))
<1> DEFINE T == table[r]  bs == FreeOrder(T)  K == {i \in DOMAIN bs : refCnt[bs[i]] = 1}
           f == LastUsed(r)
<1>1. T \in Seq(Blocks) /\ IsInjective(T) /\ \A i \in 1 .. Len(T) : T[i] \notin ToSet(free)
  BY OfRequest
<1>2. free' = free \o f /\ f = AtPlaces(bs, K)
  BY DEF Release, LastUsed
<1>3. bs \in Seq(Blocks) /\ IsInjective(bs) /\ ToSet(bs) = ToSet(T)
  BY <1>1, ReverseFacts DEF FreeOrder
<1> HIDE DEF T, bs, f
<1>4. DOMAIN bs = 1 .. Len(bs) /\ \A x : x \in ToSet(bs) <=> \E i \in 1 .. Len(bs) : bs[i] = x
  BY <1>3, InSeq
<1>5. K \in SUBSET (1 .. Len(bs)) /\ \A i \in 1 .. Len(bs) : i \in K <=> refCnt[bs[i]] = 1
  BY <1>4
<1> HIDE DEF K
<1>6. /\ f \in Seq(Blocks) /\ IsInjective(f)
      /\ \A x : x \in ToSet(f) <=> \E i \in K : bs[i] = x
  BY <1>2, <1>3, <1>5, AtPlacesSet
<1>7. \A x : x \in ToSet(f) <=> x \in ToSet(T) /\ refCnt[x] = 1
  BY <1>3, <1>4, <1>5, <1>6
<1>8. free \in Seq(Blocks) /\ IsInjective(free)
  BY Types
<1>9. ToSet(free) \cap ToSet(f) = {}
  BY <1>1, <1>7, InSeq
<1>10. /\ free \o f \in Seq(Blocks) /\ IsInjective(free \o f)
       /\ ToSet(free \o f) = ToSet(free) \cup ToSet(f)
  BY <1>6, <1>8, <1>9, ConcatFacts
<1> QED BY <1>2, <1>6, <1>7, <1>10 DEF T, f

\* Users and counts after free.
LEMMA FreeUsers ==
    ASSUME PoolInv, NEW r \in Reqs, Release(r), NEW b \in Blocks
    PROVE  /\ Holders(b)' = Holders(b) \ {r} /\ IsFiniteSet(Holders(b)')
           /\ refCnt'[b] = IF b \in ToSet(table[r]) THEN refCnt[b] - 1 ELSE refCnt[b]
           /\ refCnt'[b] = Cardinality(Holders(b)') /\ refCnt'[b] \in Nat
           /\ b \in ToSet(free') <=> Holders(b)' = {}
           /\ b \in ToSet(table[r]) <=> r \in Holders(b)
<1>1. /\ table' = [table EXCEPT ![r] = <<>>] /\ table \in [Reqs -> Seq(Blocks)]
      /\ refCnt'[b] = IF b \in ToSet(table[r]) THEN refCnt[b] - 1 ELSE refCnt[b]
  BY Types DEF Release
<1>2. /\ refCnt[b] \in Nat /\ refCnt[b] = Cardinality(Holders(b)) /\ IsFiniteSet(Holders(b))
      /\ b \in ToSet(free) <=> refCnt[b] = 0
      /\ refCnt[b] = 0 <=> Holders(b) = {}
  BY Used
<1>3. b \in ToSet(table[r]) <=> r \in Holders(b)
  BY DEF Holders
<1>4. Holders(b)' = Holders(b) \ {r}
  <2>1. \A q \in Reqs : ToSet(table'[q]) = IF q = r THEN {} ELSE ToSet(table[q])
    BY <1>1 DEF ToSet
  <2>2. Holders(b)' = {q \in Reqs : b \in ToSet(table'[q])}
    BY DEF Holders
  <2>3. Holders(b) = {q \in Reqs : b \in ToSet(table[q])}
    BY DEF Holders
  <2> QED BY <2>1, <2>2, <2>3
<1>5. /\ IsFiniteSet(Holders(b) \ {r})
      /\ Cardinality(Holders(b) \ {r}) =
             IF r \in Holders(b) THEN Cardinality(Holders(b)) - 1 ELSE Cardinality(Holders(b))
  BY <1>2, FS_RemoveElement
<1>6. refCnt'[b] = Cardinality(Holders(b) \ {r})
  BY <1>1, <1>2, <1>3, <1>5
<1>7. Cardinality(Holders(b) \ {r}) \in Nat
  BY <1>5, FS_CardinalityType
<1>8. Cardinality(Holders(b) \ {r}) = 0 <=> Holders(b) \ {r} = {}
  BY <1>5, FS_EmptySet
<1>9. b \in ToSet(free') <=> refCnt'[b] = 0
  <2>1. b \in ToSet(free') <=> b \in ToSet(free) \/ (b \in ToSet(table[r]) /\ refCnt[b] = 1)
    BY FreeBlocks
  <2> QED BY <1>1, <1>2, <1>3, <2>1
<1> QED BY <1>1, <1>3, <1>4, <1>5, <1>6, <1>7, <1>8, <1>9

\* Preemption, finish or abort keeps the books.
LEMMA FreePool ==
    ASSUME PoolInv, NEW r \in Reqs, Release(r), UNCHANGED workload,
           inflight' \in Seq(Steps), Len(inflight') <= MaxInFlight
    PROVE  PoolInv'
<1>1. /\ table' = [table EXCEPT ![r] = <<>>] /\ numCached' = [numCached EXCEPT ![r] = 0]
      /\ computed' = [computed EXCEPT ![r] = 0] /\ UNCHANGED <<hash, cache>>
      /\ refCnt' = [b \in Blocks |-> refCnt'[b]]
  BY DEF Release
<1>2. /\ table \in [Reqs -> Seq(Blocks)] /\ hash \in [Blocks -> Hashes \cup {NoHash}]
      /\ cache \in [Hashes -> Seq(Blocks)] /\ workload \in Workloads
      /\ computed \in [Reqs -> Nat] /\ numCached \in [Reqs -> Nat]
  BY Types
<1>3. free' \in Seq(Blocks) /\ IsInjective(free')
  BY FreeBlocks
<1>4. \A b \in Blocks : /\ IsFiniteSet(Holders(b)') /\ refCnt'[b] = Cardinality(Holders(b)')
                        /\ refCnt'[b] \in Nat /\ (b \in ToSet(free') <=> Holders(b)' = {})
  BY FreeUsers
<1>5. inflight' \in Seq(Steps) /\ Len(inflight') <= MaxInFlight
  OBVIOUS
<1>6. <<>> \in Seq(Blocks) /\ IsInjective(<<>>) /\ Len(<<>>) = 0
  BY DEF IsInjective
<1>7. Cdiv(0, BlockSize) = 0 /\ 0 \div BlockSize = 0
  <2>1. BlockSize \in Nat \ {0} /\ 0 * BlockSize = 0
    BY PromptLen, SMT
  <2> QED BY <2>1, CdivFacts, DivUnique
<1>8. ASSUME NEW q \in Reqs
      PROVE  /\ IsInjective(table'[q]) /\ numCached'[q] \in 0 .. FullBlocks(q)
             /\ computed'[q] \in 0 .. NumTokens(q)
             /\ Len(table'[q]) = Cdiv(computed'[q], BlockSize)
             /\ numCached'[q] = computed'[q] \div BlockSize
             /\ \A i \in (computed'[q] \div BlockSize) + 1 .. Len(table'[q]) :
                    refCnt'[table'[q][i]] = 1 /\ hash'[table'[q][i]] = NoHash
  <2>1. CASE q = r
    <3>1. table'[q] = <<>> /\ computed'[q] = 0 /\ numCached'[q] = 0
      BY <1>1, <1>2, <2>1
    <3>2. NumTokens(q) \in Nat /\ FullBlocks(q) \in Nat
      BY PromptLen
    <3> QED BY <1>6, <1>7, <3>1, <3>2
  <2>2. CASE q # r
    <3>1. table'[q] = table[q] /\ computed'[q] = computed[q] /\ numCached'[q] = numCached[q]
      BY <1>1, <1>2, <2>2
    <3>2. ASSUME NEW i \in numCached[q] + 1 .. Len(table[q])
          PROVE  refCnt'[table[q][i]] = 1 /\ hash'[table[q][i]] = NoHash
      <4>1. i \in 1 .. Len(table[q])
        BY OfRequest
      <4>2. /\ table[q][i] \in Blocks /\ q \in Holders(table[q][i]) /\ refCnt[table[q][i]] = 1
            /\ hash[table[q][i]] = NoHash
        BY <4>1, OfRequest
      <4>3. r \notin Holders(table[q][i])
        BY <2>2, <4>2, Sole
      <4> QED BY <1>1, <4>2, <4>3, FreeUsers
    <3>3. numCached[q] = computed[q] \div BlockSize
      BY OfRequest
    <3>4. /\ IsInjective(table'[q]) /\ numCached'[q] \in 0 .. FullBlocks(q)
          /\ computed'[q] \in 0 .. NumTokens(q)
          /\ Len(table'[q]) = Cdiv(computed'[q], BlockSize)
          /\ numCached'[q] = computed'[q] \div BlockSize
      BY <3>1 DEF PoolInv, PoolConsistent, KVTypeOK, RefCountsHolders, Shape
    <3> QED BY <3>1, <3>2, <3>3, <3>4
  <2> QED BY <2>1, <2>2
<1>9. table' \in [Reqs -> Seq(Blocks)] /\ computed' \in [Reqs -> Nat] /\ numCached' \in [Reqs -> Nat]
  BY <1>1, <1>2, <1>6
<1>10. KVTypeOK'
  BY <1>1, <1>2, <1>3, <1>4, <1>5, <1>8, <1>9 DEF KVTypeOK
<1>11. RefCountsHolders'
  BY <1>4, <1>8 DEF RefCountsHolders
<1>12. FreeQueueExact'
  <2>1. \A x \in ToSet(free') : x \in Blocks
    BY <1>3, InSeq
  <2> QED BY <1>3, <1>4, <2>1 DEF FreeQueueExact
<1>13. MapAgreesWithBlocks'
  BY <1>1 DEF PoolInv, PoolConsistent, MapAgreesWithBlocks
<1>14. OpenBlocksPrivate'
  BY <1>8 DEF OpenBlocksPrivate
<1>15. Shape'
  BY <1>2, <1>4, <1>5, <1>8, <1>9 DEF Shape
<1> QED BY <1>10, <1>11, <1>12, <1>13, <1>14, <1>15 DEF PoolInv, PoolConsistent

\* Steps that lose their request are still steps.
LEMMA DisownedSteps ==
    ASSUME NEW s \in Seq(Steps), NEW r \in Reqs
    PROVE  Disowned(s, r) \in Seq(Steps) /\ Len(Disowned(s, r)) = Len(s)
<1>1. \A i \in 1 .. Len(s) : [s[i] EXCEPT !.live = @ /\ s[i].req # r] \in Steps
  <2> SUFFICES ASSUME NEW e \in Steps
               PROVE  [e EXCEPT !.live = e.live /\ e.req # r] \in Steps
    OBVIOUS
  <2>1. PICK v \in BOOLEAN : v = (e.live /\ e.req # r)
    OBVIOUS
  <2>2. [e EXCEPT !.live = v] \in Steps
    BY DEF Steps
  <2> QED BY <2>1, <2>2
<1>2. DOMAIN s = 1 .. Len(s) /\ Len(s) \in Nat
  OBVIOUS
<1> QED BY <1>1, <1>2 DEF Disowned

\* free and the withdrawal of a step give the blocks of a request back.
LEMMA ReleasePool ==
    ASSUME PoolInv, NEW r \in Reqs, UNCHANGED workload,
           \/ Free(r)
           \/ \E q \in Reqs : \E i \in DOMAIN inflight : \E n \in 1 .. NumTokens(q) :
                  Withdraw(r, i, q, n)
    PROVE  Release(r) /\ PoolInv'
<1>1. inflight \in Seq(Steps) /\ Len(inflight) <= MaxInFlight /\ MaxInFlight \in Nat
  BY Types, KVAssumption
<1>2. CASE Free(r)
  <2>1. Release(r) /\ inflight' = Disowned(inflight, r)
    BY <1>2 DEF Free
  <2> QED BY <1>1, <2>1, DisownedSteps, FreePool
<1>3. ASSUME NEW q \in Reqs, NEW i \in DOMAIN inflight, NEW n \in 1 .. NumTokens(q),
             Withdraw(r, i, q, n)
      PROVE  Release(r) /\ PoolInv'
  <2>1. Release(r) /\ inflight' = Disowned(RemoveAt(inflight, i), r)
    BY <1>3 DEF Withdraw
  <2>2. i \in 1 .. Len(inflight) /\ Len(inflight) \in Nat
    BY <1>1
  <2>3. /\ SubSeq(inflight, 1, i - 1) \in Seq(Steps) /\ Len(SubSeq(inflight, 1, i - 1)) = i - 1
        /\ SubSeq(inflight, i + 1, Len(inflight)) \in Seq(Steps)
        /\ Len(SubSeq(inflight, i + 1, Len(inflight))) = Len(inflight) - i
    BY <1>1, <2>2
  <2>4. /\ RemoveAt(inflight, i) \in Seq(Steps)
        /\ Len(RemoveAt(inflight, i)) = (i - 1) + (Len(inflight) - i)
    BY <2>3, ConcatProperties DEF RemoveAt
  <2> QED BY <1>1, <2>1, <2>2, <2>4, DisownedSteps, FreePool
<1> QED BY <1>2, <1>3

\* A step that changes hashes only, some of them to none.
LEMMA HashesDropped ==
    ASSUME PoolInv, UNCHANGED <<refCnt, free, table, numCached, computed, inflight, workload>>,
           hash' \in [Blocks -> Hashes \cup {NoHash}], cache' \in [Hashes -> Seq(Blocks)],
           \A b \in Blocks : hash'[b] \in {hash[b], NoHash},
           \A h \in Hashes : /\ IsInjective(cache'[h])
                             /\ ToSet(cache'[h]) = {b \in Blocks : hash'[b] = h}
    PROVE  PoolInv'
<1>1. KVTypeOK' /\ RefCountsHolders' /\ FreeQueueExact' /\ Shape'
  BY DEF PoolInv, PoolConsistent, KVTypeOK, RefCountsHolders, FreeQueueExact, Shape, Holders
<1>2. OpenBlocksPrivate'
  <2> SUFFICES ASSUME NEW r \in Reqs, NEW i \in numCached[r] + 1 .. Len(table[r])
               PROVE  refCnt[table[r][i]] = 1 /\ hash'[table[r][i]] = NoHash
    BY OfRequest DEF OpenBlocksPrivate
  <2>1. i \in 1 .. Len(table[r])
    BY OfRequest
  <2>2. table[r][i] \in Blocks /\ refCnt[table[r][i]] = 1 /\ hash[table[r][i]] = NoHash
    BY <2>1, OfRequest
  <2> QED BY <2>2
<1>3. MapAgreesWithBlocks'
  BY DEF MapAgreesWithBlocks
<1> QED BY <1>1, <1>2, <1>3 DEF PoolInv, PoolConsistent

LEMMA EvictPool ==
    ASSUME PoolInv, NEW b \in Blocks, EvictBlock(b), UNCHANGED workload
    PROVE  PoolInv'
<1>1. /\ hash[b] # NoHash /\ hash' = [hash EXCEPT ![b] = NoHash]
      /\ cache' = [cache EXCEPT ![hash[b]] = Without(cache[hash[b]], {b})]
      /\ UNCHANGED <<refCnt, free, table, numCached, computed, inflight, workload>>
  BY DEF EvictBlock
<1>2. hash \in [Blocks -> Hashes \cup {NoHash}] /\ cache \in [Hashes -> Seq(Blocks)]
  BY Types
<1>3. \A x \in Blocks : hash'[x] = IF x = b THEN NoHash ELSE hash[x]
  BY <1>1, <1>2
<1>4. ASSUME NEW h \in Hashes
      PROVE  /\ cache'[h] \in Seq(Blocks) /\ IsInjective(cache'[h])
             /\ ToSet(cache'[h]) = {x \in Blocks : hash'[x] = h}
  <2>1. /\ cache[h] \in Seq(Blocks) /\ IsInjective(cache[h]) /\ h # NoHash
        /\ \A x \in Blocks : x \in ToSet(cache[h]) <=> hash[x] = h
    BY CachedAt, HashOf
  <2>2. ToSet(cache[h]) \subseteq Blocks
    BY <2>1, InSeq
  <2>3. CASE h = hash[b]
    <3>1. cache'[h] = Without(cache[h], {b})
      BY <1>1, <1>2, <2>3
    <3>2. /\ Without(cache[h], {b}) \in Seq(Blocks) /\ IsInjective(Without(cache[h], {b}))
          /\ ToSet(Without(cache[h], {b})) = ToSet(cache[h]) \ {b}
      BY <2>1, WithoutFacts
    <3> QED BY <1>3, <2>1, <2>2, <3>1, <3>2
  <2>4. CASE h # hash[b]
    <3>1. cache'[h] = cache[h]
      BY <1>1, <1>2, <2>4
    <3> QED BY <1>3, <2>1, <2>2, <2>4, <3>1
  <2> QED BY <2>3, <2>4
<1>5. cache' \in [Hashes -> Seq(Blocks)] /\ hash' \in [Blocks -> Hashes \cup {NoHash}]
  BY <1>1, <1>2, <1>4
<1> QED BY <1>1, <1>3, <1>4, <1>5, HashesDropped

LEMMA ResetPool ==
    ASSUME PoolInv, ResetPrefixCache, UNCHANGED workload
    PROVE  PoolInv'
<1>1. /\ hash' = [b \in Blocks |-> NoHash] /\ cache' = [h \in Hashes |-> <<>>]
      /\ UNCHANGED <<refCnt, free, table, numCached, computed, inflight, workload>>
  BY DEF ResetPrefixCache
<1>2. \A h \in Hashes : h # NoHash
  BY HashOf
<1>3. <<>> \in Seq(Blocks) /\ IsInjective(<<>>) /\ ToSet(<<>>) = {}
  BY DEF IsInjective, ToSet
<1>4. cache' \in [Hashes -> Seq(Blocks)] /\ hash' \in [Blocks -> Hashes \cup {NoHash}]
  BY <1>1, <1>3
<1>5. \A h \in Hashes : /\ IsInjective(cache'[h])
                        /\ ToSet(cache'[h]) = {b \in Blocks : hash'[b] = h}
  BY <1>1, <1>2, <1>3
<1>6. \A b \in Blocks : hash'[b] \in {hash[b], NoHash}
  BY <1>1
<1> QED BY <1>1, <1>4, <1>5, <1>6, HashesDropped

LEMMA ExecutePool ==
    ASSUME PoolInv, \/ Execute /\ UNCHANGED workload
                    \/ UNCHANGED kvVars
    PROVE  PoolInv'
<1>1. UNCHANGED <<refCnt, hash, cache, free, table, numCached, computed, workload>>
  BY DEF Execute, kvVars
<1>2. inflight' \in Seq(Steps) /\ Len(inflight') <= MaxInFlight
  <2>1. inflight \in Seq(Steps) /\ Len(inflight) <= MaxInFlight /\ MaxInFlight \in Nat
    BY Types, KVAssumption
  <2>2. CASE inflight # <<>> /\ inflight' = Tail(inflight)
    BY <2>1, <2>2
  <2>3. CASE inflight' = inflight
    BY <2>1, <2>3
  <2> QED BY <2>2, <2>3 DEF Execute, kvVars
<1> QED BY <1>1, <1>2 DEF PoolInv, PoolConsistent, KVTypeOK, RefCountsHolders, FreeQueueExact,
                          MapAgreesWithBlocks, OpenBlocksPrivate, Shape, Holders

LEMMA PoolInit == KVBlocksInit => PoolInv
<1> SUFFICES ASSUME KVBlocksInit PROVE PoolInv
  OBVIOUS
<1>1. /\ workload \in Workloads
      /\ refCnt = [b \in Blocks |-> 0] /\ hash = [b \in Blocks |-> NoHash]
      /\ cache = [h \in Hashes |-> <<>>] /\ free = [i \in 1 .. NumBlocks - 1 |-> i]
      /\ table = [r \in Reqs |-> <<>>] /\ numCached = [r \in Reqs |-> 0]
      /\ computed = [r \in Reqs |-> 0] /\ inflight = <<>>
  BY DEF KVBlocksInit
<1>2. NumBlocks \in Nat \ {0} /\ MaxInFlight \in Nat /\ BlockSize \in Nat \ {0}
  BY KVAssumption
<1>3. <<>> \in Seq(Blocks) /\ IsInjective(<<>>) /\ ToSet(<<>>) = {} /\ Len(<<>>) = 0 /\ <<>> \in Seq(Steps)
  BY DEF IsInjective, ToSet
<1>4. Cdiv(0, BlockSize) = 0 /\ 0 \div BlockSize = 0
  <2>1. 0 * BlockSize = 0
    BY <1>2, SMT
  <2> QED BY <1>2, <2>1, CdivFacts, DivUnique
<1>5. \A r \in Reqs : NumTokens(r) \in Nat /\ FullBlocks(r) \in Nat
  BY PromptLen
<1>6. free \in Seq(Blocks) /\ IsInjective(free) /\ ToSet(free) = Blocks
  BY <1>1, <1>2 DEF Blocks, IsInjective, ToSet
<1>7. \A b \in Blocks : Holders(b) = {}
  BY <1>1, <1>3 DEF Holders
<1>8. \A h \in Hashes : h # NoHash
  BY HashOf
<1>9. KVTypeOK
  BY <1>1, <1>2, <1>3, <1>5, <1>6 DEF KVTypeOK
<1>10. RefCountsHolders
  BY <1>1, <1>3, <1>7, FS_EmptySet DEF RefCountsHolders
<1>11. FreeQueueExact
  BY <1>6, <1>7 DEF FreeQueueExact
<1>12. MapAgreesWithBlocks
  BY <1>1, <1>3, <1>8 DEF MapAgreesWithBlocks
<1>13. OpenBlocksPrivate
  BY <1>1, <1>3, <1>4 DEF OpenBlocksPrivate
<1>14. Shape
  BY <1>1, <1>3, <1>4, <1>7, FS_EmptySet DEF Shape
<1> QED BY <1>9, <1>10, <1>11, <1>12, <1>13, <1>14 DEF PoolInv, PoolConsistent

\* A request of the workload is one of the requests.
LEMMA Clients ==
    ASSUME PoolInv, NEW r \in workload.clients
    PROVE  r \in Reqs
BY KVAssumption, Types

LEMMA PoolNext == PoolInv /\ [KVBlocksNext]_kvVars => PoolInv'
<1> SUFFICES ASSUME PoolInv, [KVBlocksNext]_kvVars PROVE PoolInv'
  OBVIOUS
<1>1. ASSUME NEW r \in workload.clients, NEW n \in 1 .. NumTokens(r),
             Len(inflight) < MaxInFlight, AllocateWaiting(r, n) \/ AllocateRunning(r, n),
             UNCHANGED workload
      PROVE  PoolInv'
  BY <1>1, Clients, WaitingAllocates, RunningAllocates, AllocPool
<1>2. ASSUME NEW r \in Reqs, UNCHANGED workload,
             \/ Free(r)
             \/ \E q \in Reqs : \E i \in DOMAIN inflight : \E n \in 1 .. NumTokens(q) :
                    Withdraw(r, i, q, n)
      PROVE  PoolInv'
  BY <1>2, ReleasePool
<1>3. ASSUME NEW b \in Blocks, EvictBlock(b), UNCHANGED workload PROVE PoolInv'
  BY <1>3, EvictPool
<1>4. CASE ResetPrefixCache /\ UNCHANGED workload
  BY <1>4, ResetPool
<1>5. CASE (Execute /\ UNCHANGED workload) \/ UNCHANGED kvVars
  BY <1>5, ExecutePool
<1> QED BY <1>1, <1>2, <1>3, <1>4, <1>5 DEF KVBlocksNext

\* The invariant holds in every state of the pool.
LEMMA PoolAlways == KVBlocksSpec => []PoolInv
BY PoolInit, PoolNext, PTL DEF KVBlocksSpec

\* For any requests, prompts, number and size of blocks: after any sequence of
\* hits, allocations, frees, evictions and resets a block is counted once for each
\* request that uses it, is in the free queue exactly if nobody does, is in the
\* hash map exactly under its own hash, and is private as long as it is written.
THEOREM PoolConsistentHolds == KVBlocksSpec => []PoolConsistent
<1>1. PoolInv => PoolConsistent
  BY DEF PoolInv
<1> QED BY <1>1, PoolAlways, PTL

-----------------------------------------------------------------------------
(* A cached block has its whole prefix cached.                             *)

\* The queue keeps its order when blocks are taken out of it: what was behind a
\* block that stays is still behind it, or was hit.
LEMMA AllocOrder ==
    ASSUME NEW r, NEW hits, NEW n, Allocates(r, hits, n), NEW k \in 1 .. Len(free')
    PROVE  \E j \in 1 .. Len(free) :
               /\ free'[k] = free[j]
               /\ \A m \in j + 1 .. Len(free) :
                      \/ free[m] \in ToSet(hits)
                      \/ \E l \in k + 1 .. Len(free') : free'[l] = free[m]
<1> DEFINE Z == {b \in ToSet(hits) : refCnt[b] = 0}  t == Rest(hits)  d == Need(r, hits, n)
           K == {i \in DOMAIN free : free[i] \notin Z}
<1>1. PoolInv /\ d \in Nat /\ d <= Len(t) /\ t \in Seq(Blocks)
  BY AllocNumbers, AllocBlocks DEF Allocates
<1>2. free' = SubSeq(t, d + 1, Len(t))
  BY AllocDef
<1>3. free \in Seq(Blocks) /\ DOMAIN free = 1 .. Len(free) /\ Len(free) \in Nat
  BY <1>1, Types, InSeq
<1>4. t = AtPlaces(free, K)
  BY DEF Rest, FreeAfterTouch, Without
<1>5. K \in SUBSET (1 .. Len(free)) /\ \A i \in 1 .. Len(free) : i \notin K => free[i] \in ToSet(hits)
  BY <1>3
<1> HIDE DEF Z, t, d, K
<1>6. PICK e : Lists(t, free, K, e)
  BY <1>3, <1>4, <1>5, AtPlacesFacts
<1>7. /\ e \in [1 .. Len(t) -> K] /\ \A x \in 1 .. Len(t) : t[x] = free[e[x]]
      /\ \A i \in K : \E x \in 1 .. Len(t) : e[x] = i
      /\ \A x, y \in 1 .. Len(t) : x < y => e[x] < e[y]
  BY <1>6 DEF Lists
<1>8. Len(t) \in Nat
  BY <1>1
<1>9. Len(free') = Len(t) - d /\ \A l \in 1 .. Len(t) - d : free'[l] = t[d + l]
  BY <1>1, <1>2, <1>8
<1>10. d + k \in 1 .. Len(t)
  BY <1>1, <1>8, <1>9
<1> DEFINE j == e[d + k]
<1>11. j \in K /\ free'[k] = free[j]
  BY <1>7, <1>9, <1>10
<1> HIDE DEF j
<1>12. ASSUME NEW m \in j + 1 .. Len(free), m \in K
       PROVE  \E l \in k + 1 .. Len(free') : free'[l] = free[m]
  <2>1. PICK x \in 1 .. Len(t) : e[x] = m
    BY <1>7, <1>12
  <2>2. j \in Nat /\ m \in Nat /\ j < m
    BY <1>3, <1>5, <1>11
  <2>3. ~(x < d + k) /\ x # d + k
    <3>1. x < d + k => m < j
      BY <1>7, <1>10, <2>1 DEF j
    <3>2. x = d + k => m = j
      BY <2>1 DEF j
    <3> QED BY <2>2, <3>1, <3>2
  <2>4. x - d \in k + 1 .. Len(free') /\ d + (x - d) = x /\ x - d \in 1 .. Len(t) - d
    BY <1>1, <1>8, <1>9, <1>10, <2>1, <2>3
  <2>5. free'[x - d] = t[x] /\ t[x] = free[m]
    BY <1>7, <1>9, <2>1, <2>4
  <2> QED BY <2>4, <2>5
<1>13. j \in 1 .. Len(free)
  BY <1>5, <1>11
<1>14. \A m \in j + 1 .. Len(free) : m \in 1 .. Len(free)
  BY <1>3, <1>13
<1> QED BY <1>5, <1>11, <1>12, <1>13, <1>14

\* A block that keeps its contents keeps its hash.
LEMMA AllocKeeps ==
    ASSUME NEW r, NEW hits, NEW n, Allocates(r, hits, n),
           NEW b \in Blocks, hash[b] # NoHash, b \notin ToSet(New(r, hits, n))
    PROVE  hash'[b] = hash[b]
<1>1. \A i \in Fresh(r, hits, n) : Listed(r, hits, n)[i] # b
  BY AllocHash
<1> QED BY <1>1, AllocHash

\* The step publishes the request's hashes, and takes nobody's away.
LEMMA AllocTableHashes ==
    ASSUME NEW r, NEW hits, NEW n, Allocates(r, hits, n), TableHashes
    PROVE  TableHashes'
<1> DEFINE bs == Listed(r, hits, n)  new == ToSet(New(r, hits, n))
           d == Upto(r, hits, n) \div BlockSize
<1>1. /\ PoolInv /\ r \in Reqs /\ Len(hits) <= FullBlocks(r) /\ hits \in Seq(Blocks)
      /\ \A i \in 1 .. Len(hits) : hash[hits[i]] = BlockHashOf(r, i)
  BY DEF Allocates
<1>2. table' = [table EXCEPT ![r] = bs] /\ numCached' = [numCached EXCEPT ![r] = d]
  BY AllocDef
<1>3. table \in [Reqs -> Seq(Blocks)] /\ numCached \in [Reqs -> Nat]
  BY <1>1, Types
<1>4. new \subseteq ToSet(free)
  BY AllocBlocks
<1>5. /\ From(r, hits) \in Nat /\ d \in Nat /\ d <= FullBlocks(r) /\ d <= Len(bs)
      /\ FullBlocks(r) \in Nat /\ numCached[r] \in Nat /\ numCached[r] <= FullBlocks(r)
  <2>1. d <= Cdiv(Upto(r, hits, n), BlockSize) /\ From(r, hits) \in Nat /\ d \in Nat
        /\ d <= FullBlocks(r)
    BY AllocNumbers
  <2>2. Len(bs) = Cdiv(Upto(r, hits, n), BlockSize)
    BY AllocTable
  <2> QED BY <1>1, <2>1, <2>2, OfRequest
<1>6. bs \in Seq(Blocks) /\ \A i \in 1 .. From(r, hits) :
          /\ i \in 1 .. Len(bs) /\ bs[i] \notin new
          /\ \/ i \in 1 .. numCached[r] /\ bs[i] = table[r][i]
             \/ i \in 1 .. Len(hits) /\ bs[i] = hits[i]
  BY AllocTable
<1>7. ASSUME NEW i \in 1 .. d PROVE hash'[bs[i]] = BlockHashOf(r, i)
  <2>1. i \in 1 .. FullBlocks(r) /\ i \in 1 .. Len(bs)
    <3>1. Len(bs) \in Nat
      BY <1>6
    <3> HIDE DEF bs, d
    <3> QED BY <1>5, <3>1
  <2>2. CASE i <= From(r, hits)
    <3>1. i \in 1 .. From(r, hits)
      BY <1>5, <2>1, <2>2
    <3>2. hash[bs[i]] = BlockHashOf(r, i)
      BY <1>1, <1>6, <3>1 DEF TableHashes
    <3>3. BlockHashOf(r, i) # NoHash
      BY <1>1, <2>1, HashFacts
    <3>4. bs[i] \in Blocks /\ bs[i] \notin new
      BY <1>6, <2>1, <3>1
    <3> QED BY <3>2, <3>3, <3>4, AllocKeeps
  <2>3. CASE i > From(r, hits)
    <3>1. i \in Fresh(r, hits, n)
      BY <2>1, <2>3 DEF Fresh
    <3> QED BY <3>1, AllocHash
  <2>4. i \in Nat
    OBVIOUS
  <2> QED BY <1>5, <2>2, <2>3, <2>4
<1>8. ASSUME NEW q \in Reqs, q # r, NEW i \in 1 .. numCached[q]
      PROVE  hash'[table[q][i]] = BlockHashOf(q, i)
  <2>1. i \in 1 .. Len(table[q]) /\ i \in 1 .. FullBlocks(q)
    BY <1>1, OfRequest
  <2>2. table[q][i] \in Blocks /\ table[q][i] \notin ToSet(free)
    BY <1>1, <2>1, OfRequest
  <2>3. hash[table[q][i]] = BlockHashOf(q, i)
    BY DEF TableHashes
  <2>4. BlockHashOf(q, i) # NoHash
    BY <2>1, HashFacts
  <2> QED BY <1>4, <2>2, <2>3, <2>4, AllocKeeps
<1> HIDE DEF bs, d
<1>9. table'[r] = bs /\ numCached'[r] = d
  BY <1>1, <1>2, <1>3
<1>10. \A q \in Reqs : q # r => table'[q] = table[q] /\ numCached'[q] = numCached[q]
  BY <1>2, <1>3
<1> QED BY <1>7, <1>8, <1>9, <1>10 DEF TableHashes

\* Blocks leave the queue from the front, where the ends of chains are.
LEMMA AllocFreeChain ==
    ASSUME NEW r, NEW hits, NEW n, Allocates(r, hits, n), FreeChain
    PROVE  FreeChain'
<1> DEFINE new == ToSet(New(r, hits, n))
<1>1. PoolInv /\ hits \in Seq(Blocks)
  BY DEF Allocates
<1>2. /\ new \subseteq ToSet(free) \ ToSet(hits) /\ free' \in Seq(Blocks)
      /\ ToSet(free') = ToSet(free) \ (ToSet(hits) \cup new)
  BY AllocBlocks
<1>3. \A b \in Blocks : refCnt'[b] = IF b \in ToSet(hits) \cup new THEN refCnt[b] + 1 ELSE refCnt[b]
  BY AllocUsers
<1>4. \A b \in Blocks : refCnt[b] \in Nat /\ (b \in ToSet(free) <=> refCnt[b] = 0)
  BY <1>1, Used
<1>5. free \in Seq(Blocks)
  BY <1>1, Types
<1> HIDE DEF new
<1> SUFFICES ASSUME NEW k \in 1 .. Len(free'), NEW q \in Reqs, NEW i \in 2 .. FullBlocks(q),
                    hash'[free'[k]] = BlockHashOf(q, i)
             PROVE  \E b \in Blocks : /\ hash'[b] = BlockHashOf(q, i - 1)
                                      /\ \/ refCnt'[b] > 0
                                         \/ \E m \in k + 1 .. Len(free') : free'[m] = b
  BY DEF FreeChain
<1>6. PICK j \in 1 .. Len(free) :
               /\ free'[k] = free[j]
               /\ \A m \in j + 1 .. Len(free) :
                      \/ free[m] \in ToSet(hits)
                      \/ \E l \in k + 1 .. Len(free') : free'[l] = free[m]
  BY AllocOrder
<1>7. i \in 1 .. FullBlocks(q) /\ i - 1 \in 1 .. FullBlocks(q)
  BY PromptLen
<1>8. BlockHashOf(q, i) # NoHash /\ BlockHashOf(q, i - 1) # NoHash
  BY <1>7, HashFacts
<1>9. free[j] \in Blocks /\ free[j] \in ToSet(free')
  BY <1>2, <1>5, <1>6, InSeq
<1>10. hash[free[j]] = BlockHashOf(q, i)
  <2>1. free[j] \notin new
    BY <1>2, <1>9
  <2>2. hash'[free[j]] = IF free[j] \in new THEN NoHash ELSE hash[free[j]]
    <3>1. free[j] \notin ToSet(Listed(r, hits, n))
      <4>1. ToSet(Listed(r, hits, n)) = ToSet(table[r]) \cup ToSet(hits) \cup new
        BY AllocTable DEF new
      <4>2. r \in Reqs
        BY DEF Allocates
      <4>3. \A x \in ToSet(table[r]) : x \notin ToSet(free)
        <5>1. table[r] \in Seq(Blocks) /\ \A x \in 1 .. Len(table[r]) : table[r][x] \notin ToSet(free)
          BY <1>1, <4>2, OfRequest
        <5>2. \A x \in ToSet(table[r]) : \E y \in 1 .. Len(table[r]) : table[r][y] = x
          BY <5>1, InSeq
        <5> QED BY <5>1, <5>2
      <4> QED BY <1>2, <1>9, <4>1, <4>3
    <3>2. Listed(r, hits, n) \in Seq(Blocks)
      BY AllocTable
    <3>3. \A x \in Fresh(r, hits, n) : Listed(r, hits, n)[x] # free[j]
      BY <3>1, <3>2, InSeq DEF Fresh
    <3> QED BY <1>9, <3>3, AllocHash DEF new
  <2> QED BY <1>6, <2>1, <2>2
<1>11. PICK b \in Blocks : /\ hash[b] = BlockHashOf(q, i - 1)
                           /\ \/ refCnt[b] > 0
                              \/ \E m \in j + 1 .. Len(free) : free[m] = b
  BY <1>10 DEF FreeChain
<1>12. ASSUME b \notin new PROVE hash'[b] = BlockHashOf(q, i - 1)
  BY <1>8, <1>11, <1>12, AllocKeeps DEF new
<1>13. CASE refCnt[b] > 0
  <2>1. b \notin new
    BY <1>2, <1>4, <1>13
  <2>2. refCnt'[b] > 0
    BY <1>3, <1>4, <1>13
  <2> QED BY <1>12, <2>1, <2>2
<1>14. CASE b \in ToSet(hits)
  <2>1. b \notin new
    BY <1>2, <1>14
  <2>2. refCnt'[b] > 0
    BY <1>3, <1>4, <1>14
  <2> QED BY <1>12, <2>1, <2>2
<1>15. ASSUME NEW l \in k + 1 .. Len(free'), free'[l] = b
       PROVE  \E x \in Blocks : /\ hash'[x] = BlockHashOf(q, i - 1)
                                /\ \E m \in k + 1 .. Len(free') : free'[m] = x
  <2>1. l \in 1 .. Len(free')
    BY <1>2
  <2>2. b \in ToSet(free')
    BY <1>2, <1>15, <2>1, InSeq
  <2> QED BY <1>2, <1>12, <1>15, <2>2
<1> QED BY <1>6, <1>11, <1>13, <1>14, <1>15

\* Blocks are freed last one first: the earlier blocks of the request that lose
\* their last user too are queued behind.
LEMMA FreeOrdered ==
    ASSUME PoolInv, NEW r \in Reqs, Release(r), NEW k \in 1 .. Len(LastUsed(r))
    PROVE  \E j \in 1 .. Len(table[r]) :
               /\ LastUsed(r)[k] = table[r][j]
               /\ \A i \in 1 .. j - 1 : refCnt[table[r][i]] = 1 =>
                      \E l \in k + 1 .. Len(LastUsed(r)) : LastUsed(r)[l] = table[r][i]
<1> DEFINE T == table[r]  N == Len(T)  bs == FreeOrder(T)
           K == {i \in DOMAIN bs : refCnt[bs[i]] = 1}  f == LastUsed(r)
<1>1. T \in Seq(Blocks) /\ N \in Nat
  BY OfRequest
<1>2. f = AtPlaces(bs, K)
  BY DEF LastUsed
<1>3. bs \in Seq(Blocks) /\ Len(bs) = N /\ \A i \in 1 .. N : bs[i] = T[(N - i) + 1]
  BY <1>1, ReverseFacts DEF FreeOrder
<1> HIDE DEF T, N, bs, f
<1>4. DOMAIN bs = 1 .. N
  BY <1>3
<1>5. K \in SUBSET (1 .. Len(bs)) /\ \A i \in 1 .. N : i \in K <=> refCnt[bs[i]] = 1
  BY <1>3, <1>4
<1> HIDE DEF K
<1>6. f \in Seq(Blocks) /\ \E e : Lists(f, bs, K, e)
  BY <1>2, <1>3, <1>5, AtPlacesFacts
<1>7. PICK e : Lists(f, bs, K, e)
  BY <1>6
<1>8. /\ e \in [1 .. Len(f) -> K] /\ \A x \in 1 .. Len(f) : f[x] = bs[e[x]]
      /\ \A i \in K : \E x \in 1 .. Len(f) : e[x] = i
      /\ \A x, y \in 1 .. Len(f) : x < y => e[x] < e[y]
  BY <1>7 DEF Lists
<1>9. k \in 1 .. Len(f) /\ Len(f) \in Nat
  BY <1>6 DEF f
<1> DEFINE p == e[k]  j == (N - p) + 1
<1>10. p \in 1 .. N
  BY <1>3, <1>5, <1>8, <1>9
<1>11. f[k] = bs[p]
  BY <1>8, <1>9
<1> HIDE DEF p
<1>12. j \in 1 .. N /\ f[k] = T[j]
  BY <1>1, <1>3, <1>10, <1>11
<1>13. ASSUME NEW i \in 1 .. j - 1, refCnt[T[i]] = 1
       PROVE  \E l \in k + 1 .. Len(f) : f[l] = T[i]
  <2> DEFINE m == (N - i) + 1
  <2>1. m \in 1 .. N /\ p < m /\ (N - m) + 1 = i
    BY <1>1, <1>10, <1>12
  <2> HIDE DEF m
  <2>2. bs[m] = T[i] /\ m \in K
    BY <1>3, <1>5, <1>13, <2>1
  <2>3. PICK l \in 1 .. Len(f) : e[l] = m
    BY <1>8, <2>2
  <2>4. f[l] = T[i]
    BY <1>8, <2>2, <2>3
  <2>5. ~(l < k) /\ l # k
    <3>1. l < k => m < p
      BY <1>8, <1>9, <2>3 DEF p
    <3>2. l = k => m = p
      BY <2>3 DEF p
    <3> QED BY <1>10, <2>1, <3>1, <3>2
  <2>6. l \in k + 1 .. Len(f)
    BY <1>9, <2>5
  <2> QED BY <2>4, <2>6
<1> QED BY <1>12, <1>13 DEF T, N, f

LEMMA FreeTableHashes ==
    ASSUME PoolInv, NEW r \in Reqs, Release(r), TableHashes
    PROVE  TableHashes'
<1>1. /\ table' = [table EXCEPT ![r] = <<>>] /\ numCached' = [numCached EXCEPT ![r] = 0]
      /\ hash' = hash
  BY DEF Release
<1>2. table \in [Reqs -> Seq(Blocks)] /\ numCached \in [Reqs -> Nat]
  BY Types
<1> QED BY <1>1, <1>2 DEF TableHashes

LEMMA FreeFreeChain ==
    ASSUME PoolInv, NEW r \in Reqs, Release(r), TableHashes, FreeChain
    PROVE  FreeChain'
<1> DEFINE T == table[r]  f == LastUsed(r)
<1>1. hash' = hash
  BY DEF Release
<1>2. /\ free' = free \o f /\ f \in Seq(Blocks) /\ free' \in Seq(Blocks)
      /\ ToSet(free') = ToSet(free) \cup ToSet(f)
  BY FreeBlocks
<1>3. free \in Seq(Blocks) /\ Len(free) \in Nat
  BY Types
<1> HIDE DEF f
<1>4. /\ Len(free') = Len(free) + Len(f) /\ Len(f) \in Nat
      /\ \A i \in 1 .. Len(free) : free'[i] = free[i]
      /\ \A i \in 1 .. Len(f) : free'[Len(free) + i] = f[i]
  BY <1>2, <1>3, ConcatFacts
<1>5. ASSUME NEW b \in Blocks
      PROVE  /\ refCnt[b] \in Nat /\ refCnt'[b] \in Nat /\ (refCnt[b] = 0 <=> b \in ToSet(free))
             /\ refCnt'[b] = IF b \in ToSet(T) THEN refCnt[b] - 1 ELSE refCnt[b]
             /\ refCnt'[b] = 0 => b \in ToSet(free')
  <2>1. /\ refCnt[b] \in Nat /\ (refCnt[b] = 0 <=> b \in ToSet(free))
    BY Used
  <2>2. /\ refCnt'[b] = (IF b \in ToSet(T) THEN refCnt[b] - 1 ELSE refCnt[b])
        /\ refCnt'[b] = Cardinality(Holders(b)') /\ refCnt'[b] \in Nat
        /\ (b \in ToSet(free') <=> Holders(b)' = {}) /\ IsFiniteSet(Holders(b)')
    BY FreeUsers
  <2>3. refCnt'[b] = 0 => Holders(b)' = {}
    BY <2>2, FS_EmptySet
  <2> QED BY <2>1, <2>2, <2>3
<1> SUFFICES ASSUME NEW k \in 1 .. Len(free'), NEW q \in Reqs, NEW i \in 2 .. FullBlocks(q),
                    hash[free'[k]] = BlockHashOf(q, i)
             PROVE  \E b \in Blocks : /\ hash[b] = BlockHashOf(q, i - 1)
                                      /\ \/ refCnt'[b] > 0
                                         \/ \E m \in k + 1 .. Len(free') : free'[m] = b
  BY <1>1 DEF FreeChain
<1>6. i \in 1 .. FullBlocks(q) /\ i - 1 \in 1 .. FullBlocks(q) /\ i \in Nat
  BY PromptLen
<1>7. CASE k <= Len(free)
  <2>1. k \in 1 .. Len(free) /\ free'[k] = free[k]
    BY <1>4, <1>7
  <2>2. PICK b \in Blocks : /\ hash[b] = BlockHashOf(q, i - 1)
                            /\ \/ refCnt[b] > 0
                               \/ \E m \in k + 1 .. Len(free) : free[m] = b
    BY <2>1 DEF FreeChain
  <2>3. CASE refCnt'[b] > 0
    BY <2>2, <2>3
  <2>4. ASSUME NEW m \in k + 1 .. Len(free), free[m] = b
        PROVE  m \in k + 1 .. Len(free') /\ free'[m] = b
    BY <1>3, <1>4, <2>1, <2>4
  <2>5. CASE refCnt[b] > 0 /\ refCnt'[b] = 0
    <3>1. b \in ToSet(f)
      BY <1>2, <1>5, <2>5
    <3>2. PICK l \in 1 .. Len(f) : f[l] = b
      BY <1>2, <3>1, InSeq
    <3>3. Len(free) + l \in k + 1 .. Len(free') /\ free'[Len(free) + l] = b
      BY <1>3, <1>4, <2>1, <3>2
    <3> QED BY <2>2, <3>3
  <2> QED BY <1>5, <2>2, <2>3, <2>4, <2>5
<1>8. CASE k > Len(free)
  <2> DEFINE l == k - Len(free)
  <2>1. l \in 1 .. Len(f) /\ free'[k] = f[l] /\ k = Len(free) + l
    BY <1>3, <1>4, <1>8
  <2> HIDE DEF l
  <2>2. PICK j \in 1 .. Len(T) :
               /\ f[l] = T[j]
               /\ \A x \in 1 .. j - 1 : refCnt[T[x]] = 1 =>
                      \E m \in l + 1 .. Len(f) : f[m] = T[x]
    BY <2>1, FreeOrdered DEF f
  <2>3. hash[T[j]] = BlockHashOf(q, i) /\ hash[T[j]] # NoHash
    BY <1>6, <2>1, <2>2, HashFacts
  <2>4. j \in 1 .. numCached[r] /\ hash[T[j]] = BlockHashOf(r, j)
    BY <2>3, PublishedAt DEF TableHashes
  <2>5. j \in 1 .. FullBlocks(r)
    BY <2>4, OfRequest
  <2>6. j = i /\ BlockHashOf(q, i - 1) = BlockHashOf(r, i - 1)
    <3>1. BlockHashOf(q, i) = BlockHashOf(r, j)
      BY <2>3, <2>4
    <3> QED BY <2>5, <3>1, HashBefore
  <2>7. i - 1 \in 1 .. numCached[r] /\ i - 1 \in 1 .. Len(T) /\ i - 1 \in 1 .. j - 1
    <3>1. numCached[r] \in Nat /\ Len(T) \in Nat /\ numCached[r] <= Len(T)
      BY OfRequest
    <3> HIDE DEF T
    <3> QED BY <1>6, <2>4, <2>6, <3>1
  <2> DEFINE b == T[i - 1]
  <2>8. b \in Blocks /\ hash[b] = BlockHashOf(q, i - 1)
    BY <2>6, <2>7, OfRequest DEF TableHashes
  <2>9. b \in ToSet(T)
    <3>1. T \in Seq(Blocks)
      BY OfRequest
    <3> HIDE DEF T
    <3> QED BY <2>7, <3>1, InSeq
  <2>10. refCnt[b] > 0
    BY <2>7, OfRequest
  <2> HIDE DEF b
  <2>11. CASE refCnt[b] = 1
    <3>1. PICK m \in l + 1 .. Len(f) : f[m] = b
      BY <2>2, <2>7, <2>11 DEF b
    <3>2. Len(free) + m \in k + 1 .. Len(free') /\ free'[Len(free) + m] = b
      BY <1>3, <1>4, <2>1, <3>1
    <3> QED BY <2>8, <3>2
  <2>12. CASE refCnt[b] # 1
    <3>1. refCnt'[b] > 0
      BY <1>5, <2>8, <2>9, <2>10, <2>12
    <3> QED BY <2>8, <3>1
  <2> QED BY <2>11, <2>12
<1>9. k \in Nat
  BY <1>4
<1> QED BY <1>3, <1>7, <1>8, <1>9

\* A reset finds every block free.
LEMMA ResetChain ==
    ASSUME PoolInv, ResetPrefixCache
    PROVE  TableHashes' /\ FreeChain'
<1>1. /\ Len(free) = NumBlocks - 1 /\ hash' = [b \in Blocks |-> NoHash]
      /\ UNCHANGED <<free, table, numCached>>
  BY DEF ResetPrefixCache
<1>2. free \in Seq(Blocks) /\ IsInjective(free) /\ NumBlocks \in Nat \ {0}
  BY Types, KVAssumption
<1>3. ToSet(free) = Blocks
  <2>1. IsFiniteSet(ToSet(free)) /\ Cardinality(ToSet(free)) = NumBlocks - 1
    BY <1>1, <1>2, InjectiveLen
  <2>2. IsFiniteSet(Blocks) /\ Cardinality(Blocks) = NumBlocks - 1
    BY <1>2, FS_Interval DEF Blocks
  <2>3. ToSet(free) \in SUBSET Blocks
    BY <1>2, InSeq
  <2> QED BY <2>1, <2>2, <2>3, FS_Subset
<1>4. ASSUME NEW r \in Reqs PROVE numCached[r] = 0
  <2>1. /\ Len(table[r]) \in Nat /\ numCached[r] \in Nat /\ numCached[r] <= Len(table[r])
        /\ \A i \in 1 .. Len(table[r]) : table[r][i] \in Blocks /\ table[r][i] \notin ToSet(free)
    BY OfRequest
  <2>2. 1 \notin 1 .. Len(table[r])
    BY <1>3, <2>1
  <2> QED BY <2>1, <2>2
<1>5. TableHashes'
  BY <1>1, <1>4 DEF TableHashes
<1>6. \A r \in Reqs : \A i \in 2 .. FullBlocks(r) : BlockHashOf(r, i) # NoHash
  <2> SUFFICES ASSUME NEW r \in Reqs, NEW i \in 2 .. FullBlocks(r)
               PROVE  BlockHashOf(r, i) # NoHash
    OBVIOUS
  <2>1. i \in 1 .. FullBlocks(r)
    BY PromptLen
  <2> QED BY <2>1, HashFacts
<1>7. FreeChain'
  BY <1>1, <1>2, <1>6 DEF FreeChain
<1> QED BY <1>5, <1>7

LEMMA ChainInit == KVBlocksInit => ChainInv
<1> SUFFICES ASSUME KVBlocksInit PROVE TableHashes /\ FreeChain
  BY DEF ChainInv
<1>1. /\ numCached = [r \in Reqs |-> 0] /\ hash = [b \in Blocks |-> NoHash] /\ free \in Seq(Blocks)
  BY PoolInit, Types DEF KVBlocksInit
<1>2. TableHashes
  BY <1>1 DEF TableHashes
<1>3. \A r \in Reqs : \A i \in 2 .. FullBlocks(r) : BlockHashOf(r, i) # NoHash
  <2> SUFFICES ASSUME NEW r \in Reqs, NEW i \in 2 .. FullBlocks(r)
               PROVE  BlockHashOf(r, i) # NoHash
    OBVIOUS
  <2>1. i \in 1 .. FullBlocks(r)
    BY PromptLen
  <2> QED BY <2>1, HashFacts
<1>4. FreeChain
  BY <1>1, <1>3 DEF FreeChain
<1> QED BY <1>2, <1>4

LEMMA ChainNext == PoolInv /\ ChainInv /\ [KVBlocksNext]_kvVars => ChainInv'
<1> SUFFICES ASSUME PoolInv, ChainInv, [KVBlocksNext]_kvVars, ~workload.mayInvalidate
             PROVE  TableHashes' /\ FreeChain'
  <2>1. [KVBlocksNext]_kvVars => workload' = workload
    BY DEF KVBlocksNext, kvVars
  <2> QED BY <2>1 DEF ChainInv
<1>0. TableHashes /\ FreeChain
  BY DEF ChainInv
<1>1. ASSUME NEW r \in workload.clients, NEW n \in 1 .. NumTokens(r),
             Len(inflight) < MaxInFlight, AllocateWaiting(r, n) \/ AllocateRunning(r, n),
             UNCHANGED workload
      PROVE  TableHashes' /\ FreeChain'
  <2>1. Allocates(r, HitBlocks(r), n) \/ Allocates(r, <<>>, n)
    BY <1>1, Clients, WaitingAllocates, RunningAllocates
  <2> QED BY <1>0, <2>1, AllocTableHashes, AllocFreeChain
<1>2. ASSUME NEW r \in Reqs, UNCHANGED workload,
             \/ Free(r)
             \/ \E q \in Reqs : \E i \in DOMAIN inflight : \E n \in 1 .. NumTokens(q) :
                    Withdraw(r, i, q, n)
      PROVE  TableHashes' /\ FreeChain'
  BY <1>0, <1>2, ReleasePool, FreeTableHashes, FreeFreeChain
<1>3. ASSUME NEW b \in Blocks, EvictBlock(b) PROVE FALSE
  BY <1>3 DEF EvictBlock
<1>4. CASE ResetPrefixCache
  BY <1>4, ResetChain
<1>5. CASE (Execute /\ UNCHANGED workload) \/ UNCHANGED kvVars
  <2>1. UNCHANGED <<refCnt, hash, free, table, numCached>>
    BY <1>5 DEF Execute, kvVars
  <2> QED BY <1>0, <2>1 DEF TableHashes, FreeChain
<1> QED BY <1>1, <1>2, <1>3, <1>4, <1>5 DEF KVBlocksNext

\* A block with a hash has a block with the hash before it, be it free or in use.
LEMMA ChainClosed == PoolInv /\ ChainInv => CacheClosedUnderPrefix
<1> SUFFICES ASSUME PoolInv, TableHashes, FreeChain,
                    NEW r \in Reqs, NEW i \in 2 .. FullBlocks(r), cache[BlockHashOf(r, i)] # <<>>
             PROVE  cache[BlockHashOf(r, i - 1)] # <<>>
  BY DEF ChainInv, CacheClosedUnderPrefix, Cached
<1>1. i \in 1 .. FullBlocks(r) /\ i - 1 \in 1 .. FullBlocks(r)
  BY PromptLen
<1>2. /\ BlockHashOf(r, i) \in Hashes /\ BlockHashOf(r, i - 1) \in Hashes
      /\ BlockHashOf(r, i) # NoHash
  BY <1>1, HashFacts
<1>3. PICK b \in Blocks : hash[b] = BlockHashOf(r, i)
  BY <1>2, CachedAt
<1> SUFFICES \E x \in Blocks : hash[x] = BlockHashOf(r, i - 1)
  BY <1>2, CachedAt
<1>4. CASE b \in ToSet(free)
  <2>1. PICK k \in 1 .. Len(free) : free[k] = b
    BY <1>4, Types, InSeq
  <2> QED BY <1>3, <2>1 DEF FreeChain
<1>5. CASE b \notin ToSet(free)
  <2>1. PICK q \in Reqs : b \in ToSet(table[q])
    BY <1>5, Used DEF Holders
  <2>2. PICK j \in 1 .. Len(table[q]) : table[q][j] = b
    <3>1. table[q] \in Seq(Blocks)
      BY OfRequest
    <3> QED BY <2>1, <3>1, InSeq
  <2>3. j \in 1 .. numCached[q] /\ hash[b] = BlockHashOf(q, j)
    BY <1>2, <1>3, <2>2, PublishedAt DEF TableHashes
  <2>4. j \in 1 .. FullBlocks(q) /\ numCached[q] \in Nat /\ numCached[q] <= Len(table[q])
    BY <2>3, OfRequest
  <2>5. j = i /\ BlockHashOf(r, i - 1) = BlockHashOf(q, i - 1)
    <3>1. BlockHashOf(r, i) = BlockHashOf(q, j)
      BY <1>3, <2>3
    <3> QED BY <2>4, <3>1, HashBefore
  <2>6. i - 1 \in 1 .. numCached[q] /\ i - 1 \in 1 .. Len(table[q])
    BY <1>1, <2>3, <2>4, <2>5, OfRequest
  <2>7. table[q][i - 1] \in Blocks /\ hash[table[q][i - 1]] = BlockHashOf(q, i - 1)
    BY <2>6, OfRequest DEF TableHashes
  <2> QED BY <2>5, <2>7
<1> QED BY <1>4, <1>5

\* For any requests, prompts, number and size of blocks: as long as no block is
\* reported invalid, the prefix cache never holds a block without the block before
\* it, so find_longest_cache_hit loses nothing by stopping at the first miss.
THEOREM CacheClosedUnderPrefixHolds == KVBlocksSpec => []CacheClosedUnderPrefix
<1>1. PoolInv /\ ChainInv /\ [KVBlocksNext]_kvVars => ChainInv'
  BY ChainNext
<1>2. KVBlocksInit => ChainInv
  BY ChainInit
<1>3. KVBlocksSpec => []ChainInv
  BY <1>1, <1>2, PoolAlways, PTL DEF KVBlocksSpec
<1> QED BY <1>3, ChainClosed, PoolAlways, PTL

-----------------------------------------------------------------------------
(* The refinement: every request sees a cache of its own.                  *)

\* Block of a table and slot in it where a position is kept.
Place(p) == Cdiv(p, BlockSize)
Offset(p) == ((p - 1) % BlockSize) + 1
At(r, p) == table[r][Place(p)]

\* The key and value of a position are computed from the tokens up to it.
Key(r, p) == SubSeq(Prompt[r], 1, p)
Keys(r, n) == [p \in 1 .. n |-> Key(r, p)]

\* Step e writes the key of position p into slot j of block b.
Writes(e, p, b, j) ==
    p \in e.from + 1 .. e.to /\ e.blocks[Place(p)] = b /\ Offset(p) = j
Written(e, b, j) == \E p \in Nat : Writes(e, p, b, j)

\* What the slot holds once all steps in flight are executed.
WillHold(b, j, v) ==
    \/ /\ slots[b][j] = v
       /\ \A l \in 1 .. Len(inflight) : ~Written(inflight[l], b, j)
    \/ \E k \in 1 .. Len(inflight) : \E p \in Nat :
           /\ Writes(inflight[k], p, b, j) /\ v = Key(inflight[k].req, p)
           /\ \A l \in k + 1 .. Len(inflight) : ~Written(inflight[l], b, j)

\* The steps in flight of a request that was not freed since.
Live(r) == {k \in 1 .. Len(inflight) : inflight[k].req = r /\ inflight[k].live}

\* A step has a block for each of its tokens.
StepsInv ==
    \A k \in 1 .. Len(inflight) :
        /\ inflight[k].from < inflight[k].to /\ inflight[k].to <= NumTokens(inflight[k].req)
        /\ IsInjective(inflight[k].blocks)
        /\ Len(inflight[k].blocks) = Cdiv(inflight[k].to, BlockSize)

\* They follow one another up to the computed tokens, in the blocks the request
\* still has.
LiveInv ==
    \A r \in Reqs : \A k \in Live(r) :
        /\ inflight[k].to <= computed[r]
        /\ \A i \in 1 .. Len(inflight[k].blocks) : inflight[k].blocks[i] = table[r][i]
        /\ (\A l \in Live(r) : l <= k) => inflight[k].to = computed[r]
        /\ \A l \in Live(r) : k < l =>
               /\ inflight[k].to <= inflight[l].from /\ ~inflight[l].first
               /\ (\A m \in Live(r) : m <= k \/ l <= m) => inflight[k].to = inflight[l].from

\* A position shown is written no more, nor after the step that writes it.
Settled ==
    \A r \in Reqs : \A p \in 1 .. computed[r] :
        /\ (\A k \in Live(r) : ~inflight[k].first /\ p <= inflight[k].from)
               => \A l \in 1 .. Len(inflight) : ~Written(inflight[l], At(r, p), Offset(p))
        /\ \A k \in Live(r) : p <= inflight[k].to =>
               \A l \in k + 1 .. Len(inflight) : ~Written(inflight[l], At(r, p), Offset(p))

\* Every computed position of a request will be the request's own.
OwnKeys ==
    \A r \in Reqs : \A p \in 1 .. computed[r] : WillHold(At(r, p), Offset(p), Key(r, p))

\* A block with a hash will hold the keys the hash is of.
HashKeys ==
    \A b \in Blocks : \A r \in Reqs : \A i \in 1 .. FullBlocks(r) :
        hash[b] = BlockHashOf(r, i) =>
            \A p \in 1 .. NumTokens(r) : Place(p) = i => WillHold(b, Offset(p), Key(r, p))

SlotInv == StepsInv /\ LiveInv /\ Settled /\ OwnKeys /\ HashKeys

LEMMA Modulo ==
    ASSUME NEW x \in Nat, NEW d \in Nat \ {0}
    PROVE  x % d \in 0 .. d - 1 /\ x = (x \div d) * d + (x % d)
BY SMT

\* A position is determined by its block and slot.
LEMMA PosFacts ==
    ASSUME NEW p \in Nat \ {0}
    PROVE  /\ Place(p) \in Nat \ {0} /\ Offset(p) \in 1 .. BlockSize
           /\ Place(p) = ((p - 1) \div BlockSize) + 1
           /\ p = (Place(p) - 1) * BlockSize + Offset(p)
<1> DEFINE x == p - 1  d == BlockSize  q == x \div d  u == q * d
<1>1. x \in Nat /\ d \in Nat \ {0}
  BY KVAssumption
<1> HIDE DEF x, d
<1>2. q \in Nat /\ u <= x /\ x < u + d
  BY <1>1, Euclid
<1>3. x % d \in 0 .. d - 1 /\ x = u + (x % d)
  BY <1>1, Modulo
<1> HIDE DEF q
<1>4. u \in Nat /\ (q + 1) * d = u + d
  BY <1>1, <1>2, SMT
<1>5. x + d \in Nat /\ q + 1 \in Nat
  BY <1>1, <1>2
<1>6. (x + d) \div d = q + 1
  <2>1. (q + 1) * d <= x + d /\ x + d < (q + 1) * d + d
    <3> HIDE DEF u
    <3> QED BY <1>1, <1>2, <1>4
  <2> QED BY <1>1, <1>5, <2>1, DivUnique
<1>7. Place(p) = q + 1
  <2>1. p + d - 1 = x + d
    BY <1>1 DEF x
  <2> QED BY <1>6, <2>1 DEF Place, Cdiv, d
<1>8. Offset(p) = (x % d) + 1
  BY DEF Offset, x, d
<1>9. (q + 1) - 1 = q
  BY <1>2
<1>10. p = x + 1
  BY DEF x
<1> HIDE DEF u
<1>11. p = u + ((x % d) + 1)
  <2>1. x % d \in Int
    BY <1>1, <1>3
  <2> DEFINE z == x % d
  <2> HIDE DEF z
  <2>2. p = u + (z + 1)
    BY <1>3, <1>4, <1>10, <2>1 DEF z
  <2> QED BY <2>2 DEF z
<1>12. (x % d) + 1 \in 1 .. d
  BY <1>1, <1>3
<1> QED BY <1>5, <1>7, <1>8, <1>9, <1>11, <1>12, <1>2 DEF u, q, d, x

LEMMA PosSame ==
    ASSUME NEW p \in Nat \ {0}, NEW x \in Nat \ {0}, Place(p) = Place(x), Offset(p) = Offset(x)
    PROVE  p = x
BY PosFacts

\* The positions up to the end of block i are those in the blocks up to i.
LEMMA PosUpto ==
    ASSUME NEW p \in Nat \ {0}, NEW i \in Nat
    PROVE  p <= i * BlockSize <=> Place(p) <= i
<1> DEFINE q == Place(p) - 1  u == q * BlockSize  v == i * BlockSize
<1>1. Place(p) \in Nat \ {0} /\ Offset(p) \in 1 .. BlockSize /\ p = u + Offset(p)
  BY PosFacts
<1>2. q \in Nat /\ Place(p) = q + 1 /\ BlockSize \in Nat
  BY <1>1, KVAssumption
<1> HIDE DEF q
<1>3. u \in Nat /\ v \in Nat /\ (i <= q => v <= u) /\ (q < i => u + BlockSize <= v)
  BY <1>2, MulOrder
<1> HIDE DEF u, v
<1>4. p <= v <=> q < i
  BY <1>1, <1>2, <1>3
<1> QED BY <1>2, <1>4 DEF v

\* A position behind x tokens is not in one of their full blocks.
LEMMA PosAfter ==
    ASSUME NEW p \in Nat \ {0}, NEW x \in Nat, x < p
    PROVE  x \div BlockSize < Place(p)
<1> DEFINE y == p - 1
<1>1. y \in Nat /\ x <= y /\ BlockSize \in Nat \ {0}
  BY KVAssumption
<1>2. Place(p) = (y \div BlockSize) + 1
  BY PosFacts
<1> HIDE DEF y
<1>3. x \div BlockSize <= y \div BlockSize /\ x \div BlockSize \in Nat /\ y \div BlockSize \in Nat
  BY <1>1, DivMono, Euclid
<1> QED BY <1>2, <1>3

\* A position up to x is in one of the blocks x tokens need.
LEMMA PosIn ==
    ASSUME NEW x \in Nat, NEW p \in 1 .. x
    PROVE  /\ p \in Nat \ {0} /\ Place(p) \in 1 .. Cdiv(x, BlockSize) /\ Cdiv(x, BlockSize) \in Nat
           /\ Offset(p) \in 1 .. BlockSize
<1>1. p \in Nat \ {0} /\ p <= x /\ BlockSize \in Nat \ {0}
  BY KVAssumption
<1>2. Place(p) \in Nat \ {0} /\ Offset(p) \in 1 .. BlockSize
  BY <1>1, PosFacts
<1>3. Cdiv(p, BlockSize) <= Cdiv(x, BlockSize) /\ Cdiv(x, BlockSize) \in Nat
  BY <1>1, CdivMono, CdivFacts
<1> QED BY <1>1, <1>2, <1>3 DEF Place

\* Equal hashes are of equal keys.
LEMMA KeysOfHash ==
    ASSUME NEW r \in Reqs, NEW q \in Reqs, NEW i \in 1 .. FullBlocks(r), i \in 1 .. FullBlocks(q),
           BlockHashOf(r, i) = BlockHashOf(q, i), NEW p \in Nat, p <= i * BlockSize
    PROVE  Key(r, p) = Key(q, p)
<1> DEFINE m == i * BlockSize
<1>1. /\ m \in Nat /\ m <= NumTokens(r) /\ m <= NumTokens(q)
      /\ \A x \in 1 .. m : BlockHashOf(r, i)[x] = Prompt[r][x]
      /\ \A x \in 1 .. m : BlockHashOf(q, i)[x] = Prompt[q][x]
  BY HashFacts
<1>2. /\ Prompt[r] \in Seq(ToSet(Prompt[r])) /\ Prompt[q] \in Seq(ToSet(Prompt[q]))
      /\ Len(Prompt[r]) = NumTokens(r) /\ Len(Prompt[q]) = NumTokens(q)
  BY KVAssumption DEF NumTokens
<1>3. p <= m
  OBVIOUS
<1> HIDE DEF m
<1>4. \A x \in 1 .. p : Prompt[r][x] = Prompt[q][x]
  BY <1>1, <1>3
<1>5. NumTokens(r) \in Nat /\ NumTokens(q) \in Nat /\ p <= NumTokens(r) /\ p <= NumTokens(q)
  BY <1>1, <1>3, PromptLen
<1>6. /\ SubSeq(Prompt[r], 1, p) = [x \in 1 .. p |-> Prompt[r][x]]
      /\ SubSeq(Prompt[q], 1, p) = [x \in 1 .. p |-> Prompt[q][x]]
  BY <1>2, <1>5
<1> QED BY <1>4, <1>6 DEF Key

\* The parts of a step.
LEMMA StepTypes ==
    ASSUME PoolInv, NEW k \in 1 .. Len(inflight)
    PROVE  /\ inflight[k].req \in Reqs /\ inflight[k].blocks \in Seq(Blocks)
           /\ inflight[k].from \in Nat /\ inflight[k].to \in Nat
           /\ inflight[k].first \in BOOLEAN /\ inflight[k].live \in BOOLEAN
<1>1. inflight[k] \in Steps
  BY Types
<1> QED BY <1>1 DEF Steps

\* A step writes a slot once, and into one of its blocks.
LEMMA WritesOnce ==
    ASSUME PoolInv, StepsInv, NEW k \in 1 .. Len(inflight), NEW b, NEW j,
           NEW p, Writes(inflight[k], p, b, j)
    PROVE  /\ p \in Nat \ {0} /\ p \in inflight[k].from + 1 .. inflight[k].to
           /\ b \in Blocks /\ j \in 1 .. BlockSize
           /\ \A x : Writes(inflight[k], x, b, j) => x = p
<1> DEFINE e == inflight[k]
<1>1. e.from \in Nat /\ e.to \in Nat /\ e.blocks \in Seq(Blocks)
  BY StepTypes
<1>2. IsInjective(e.blocks) /\ Len(e.blocks) = Cdiv(e.to, BlockSize)
  BY DEF StepsInv
<1> HIDE DEF e
<1>3. ASSUME NEW x, Writes(e, x, b, j)
      PROVE  /\ x \in 1 .. e.to /\ x \in Nat \ {0} /\ Place(x) \in 1 .. Len(e.blocks)
             /\ e.blocks[Place(x)] = b /\ Offset(x) = j /\ j \in 1 .. BlockSize
  <2>1. x \in 1 .. e.to /\ e.blocks[Place(x)] = b /\ Offset(x) = j
    BY <1>1, <1>3 DEF Writes
  <2> QED BY <1>1, <1>2, <2>1, PosIn
<1>4. Writes(e, p, b, j)
  BY DEF e
<1>5. b \in Blocks /\ j \in 1 .. BlockSize /\ p \in Nat \ {0}
  BY <1>1, <1>3, <1>4
<1>6. ASSUME NEW x, Writes(e, x, b, j) PROVE x = p
  <2>1. Place(x) = Place(p)
    BY <1>1, <1>2, <1>3, <1>4, <1>6, InSeq
  <2> QED BY <1>3, <1>4, <1>6, <2>1, PosSame
<1>7. p \in e.from + 1 .. e.to
  BY <1>4 DEF Writes
<1> QED BY <1>5, <1>6, <1>7 DEF e

\* The step is queued behind the others.
NewStep(r, hits, n) ==
    [req |-> r, blocks |-> Listed(r, hits, n), from |-> Start(r, hits), to |-> Upto(r, hits, n),
     first |-> table[r] = <<>>, live |-> TRUE]

LEMMA AllocQueue ==
    ASSUME NEW r, NEW hits, NEW n, Allocates(r, hits, n)
    PROVE  /\ Len(inflight) \in Nat /\ Len(inflight') = Len(inflight) + 1
           /\ \A k \in 1 .. Len(inflight) : inflight'[k] = inflight[k]
           /\ inflight'[Len(inflight) + 1] = NewStep(r, hits, n)
<1>1. inflight' = Append(inflight, NewStep(r, hits, n))
  BY AllocStep DEF NewStep
<1>2. inflight \in Seq(Steps)
  BY Types DEF Allocates
<1> HIDE DEF NewStep
<1> QED BY <1>1, <1>2

\* The old blocks come first, or the hits.
LEMMA AllocPrefix ==
    ASSUME NEW r, NEW hits, NEW n, Allocates(r, hits, n)
    PROVE  /\ \A i \in 1 .. Len(table[r]) : Listed(r, hits, n)[i] = table[r][i]
           /\ \A i \in 1 .. Len(hits) : Listed(r, hits, n)[Len(table[r]) + i] = hits[i]
<1> DEFINE T == table[r]  s == T \o hits  new == New(r, hits, n)
<1>1. T \in Seq(Blocks) /\ hits \in Seq(Blocks) /\ new \in Seq(Blocks)
  BY OfRequest, AllocBlocks DEF Allocates
<1>2. Listed(r, hits, n) = s \o new
  BY DEF Listed
<1> HIDE DEF T, new
<1>3. /\ s \in Seq(Blocks) /\ Len(s) = Len(T) + Len(hits) /\ Len(T) \in Nat /\ Len(hits) \in Nat
      /\ \A i \in 1 .. Len(T) : s[i] = T[i]
      /\ \A i \in 1 .. Len(hits) : s[Len(T) + i] = hits[i]
  BY <1>1, ConcatFacts
<1> HIDE DEF s
<1>4. \A i \in 1 .. Len(s) : (s \o new)[i] = s[i]
  BY <1>1, <1>3, ConcatFacts
<1> QED BY <1>2, <1>3, <1>4 DEF T

\* Tokens are computed behind the published blocks and the hits.
LEMMA AllocStart ==
    ASSUME NEW r, NEW hits, NEW n, Allocates(r, hits, n)
    PROVE  /\ Start(r, hits) \in Nat /\ Upto(r, hits, n) \in Nat
           /\ Start(r, hits) < Upto(r, hits, n) /\ Upto(r, hits, n) <= NumTokens(r)
           /\ computed[r] <= Start(r, hits) /\ computed[r] \in Nat
           /\ hits = <<>> => Start(r, hits) = computed[r]
           /\ table[r] = <<>> => Start(r, hits) = Len(hits) * BlockSize /\ computed[r] = 0
           /\ \A p \in Start(r, hits) + 1 .. Upto(r, hits, n) :
                  /\ p \in Nat \ {0}
                  /\ Place(p) \in From(r, hits) + 1 .. Len(Listed(r, hits, n))
<1> DEFINE s == Start(r, hits)  u == Upto(r, hits, n)  m == Len(hits) * BlockSize
           L == Len(Listed(r, hits, n))
<1>1. /\ PoolInv /\ r \in Reqs /\ hits \in Seq(Blocks) /\ n \in Nat /\ n > 0 /\ u <= NumTokens(r)
      /\ (table[r] = <<>> \/ hits = <<>>)
  BY DEF Allocates
<1>2. /\ computed[r] \in Nat /\ numCached[r] = computed[r] \div BlockSize /\ numCached[r] \in Nat
      /\ (table[r] = <<>> => computed[r] = 0 /\ numCached[r] = 0)
  BY <1>1, OfRequest
<1>3. BlockSize \in Nat \ {0} /\ Len(hits) \in Nat /\ (hits = <<>> => Len(hits) = 0)
  BY <1>1, PromptLen
<1>4. m \in Nat /\ (Len(hits) = 0 => m = 0)
  <2>1. m \in Nat
    BY <1>3, MulOrder
  <2>2. 0 * BlockSize = 0
    BY <1>3, SMT
  <2> QED BY <2>1, <2>2
<1>5. s = computed[r] + m /\ u = s + n /\ From(r, hits) = numCached[r] + Len(hits)
  BY DEF Start, Upto, From
<1>6. L = Cdiv(u, BlockSize)
  BY AllocTable
<1> HIDE DEF s, u, m, L
<1>7. s \in Nat /\ u \in Nat /\ s < u /\ computed[r] <= s /\ (hits = <<>> => s = computed[r])
  <2>1. n \in Nat /\ n > 0 /\ computed[r] \in Nat /\ m \in Nat
    BY <1>1, <1>2, <1>4
  <2>2. s \in Nat /\ u \in Nat /\ s < u /\ computed[r] <= s
    BY <1>5, <2>1
  <2>3. hits = <<>> => m = 0
    BY <1>3, <1>4
  <2> QED BY <1>5, <2>1, <2>2, <2>3
<1>8. table[r] = <<>> => s = m
  BY <1>2, <1>4, <1>5
<1>9. ASSUME NEW p \in s + 1 .. u PROVE p \in Nat \ {0} /\ Place(p) \in From(r, hits) + 1 .. L
  <2>1. p \in 1 .. u /\ s < p /\ p \in Nat
    BY <1>7
  <2>2. p \in Nat \ {0} /\ Place(p) \in 1 .. L /\ L \in Nat
    BY <1>6, <1>7, <2>1, PosIn
  <2>3. From(r, hits) < Place(p)
    <3>1. CASE hits = <<>>
      <4>1. computed[r] < p
        BY <1>7, <2>1, <3>1
      <4>2. computed[r] \div BlockSize < Place(p)
        BY <1>2, <2>2, <4>1, PosAfter
      <4> QED BY <1>2, <1>3, <1>5, <3>1, <4>2
    <3>2. CASE table[r] = <<>>
      <4>1. ~(p <= Len(hits) * BlockSize)
        BY <1>4, <1>8, <2>1, <3>2 DEF m
      <4>2. ~(Place(p) <= Len(hits))
        BY <1>3, <2>2, <4>1, PosUpto
      <4> QED BY <1>2, <1>3, <1>5, <2>2, <3>2, <4>2
    <3> QED BY <1>1, <3>1, <3>2
  <2>4. From(r, hits) \in Nat
    BY <1>2, <1>3, <1>5
  <2> QED BY <2>2, <2>3, <2>4
<1> QED BY <1>1, <1>2, <1>7, <1>8, <1>9 DEF s, u, m, L

\* What the step writes into is new or its request's open block: nobody else's, and
\* without a hash.
LEMMA AllocPrivate ==
    ASSUME NEW r, NEW hits, NEW n, Allocates(r, hits, n),
           NEW b, NEW j, Written(NewStep(r, hits, n), b, j)
    PROVE  /\ b \in Blocks /\ j \in 1 .. BlockSize
           /\ b \in ToSet(New(r, hits, n)) \/ hash[b] = NoHash
           /\ \A q \in Reqs : q # r => b \notin ToSet(table[q])
<1> DEFINE bs == Listed(r, hits, n)  new == ToSet(New(r, hits, n))
<1>1. PoolInv /\ r \in Reqs
  BY DEF Allocates
<1>2. PICK p \in Start(r, hits) + 1 .. Upto(r, hits, n) : bs[Place(p)] = b /\ Offset(p) = j
  BY DEF Written, Writes, NewStep
<1>3. p \in Nat \ {0} /\ Place(p) \in From(r, hits) + 1 .. Len(bs)
  BY AllocStart
<1>4. /\ bs \in Seq(Blocks) /\ new \subseteq ToSet(free) /\ From(r, hits) \in Nat
      /\ \/ bs[Place(p)] \in new
         \/ Place(p) \in numCached[r] + 1 .. Len(table[r]) /\ bs[Place(p)] = table[r][Place(p)]
  BY <1>3, AllocTable, AllocBlocks, AllocNumbers
<1>5. j \in 1 .. BlockSize
  BY <1>2, <1>3, PosFacts
<1>6. b \in Blocks
  <2>1. Len(bs) \in Nat
    BY <1>4
  <2>2. Place(p) \in 1 .. Len(bs)
    BY <1>3, <1>4, <2>1
  <2> QED BY <1>2, <1>4, <2>2
<1>7. CASE b \in new
  <2>1. ASSUME NEW q \in Reqs PROVE b \notin ToSet(table[q])
    <3>1. Holders(b) = {}
      BY <1>1, <1>4, <1>6, <1>7, Used
    <3> QED BY <3>1 DEF Holders
  <2> QED BY <1>5, <1>6, <1>7, <2>1
<1>8. CASE Place(p) \in numCached[r] + 1 .. Len(table[r]) /\ b = table[r][Place(p)]
  <2>1. Place(p) \in 1 .. Len(table[r])
    BY <1>1, <1>8, OfRequest
  <2>2. hash[b] = NoHash /\ refCnt[b] = 1 /\ r \in Holders(b)
    BY <1>1, <1>8, <2>1, OfRequest
  <2>3. ASSUME NEW q \in Reqs, q # r PROVE b \notin ToSet(table[q])
    <3>1. q \notin Holders(b)
      BY <1>1, <1>6, <2>2, <2>3, Sole
    <3> QED BY <3>1 DEF Holders
  <2> QED BY <1>5, <1>6, <2>2, <2>3
<1> QED BY <1>2, <1>4, <1>7, <1>8

\* What the slots will hold: as before where the step does not write, else what it
\* writes.
LEMMA AllocOld ==
    ASSUME NEW r, NEW hits, NEW n, Allocates(r, hits, n),
           NEW b, NEW j, NEW v, ~Written(NewStep(r, hits, n), b, j), WillHold(b, j, v)
    PROVE  WillHold(b, j, v)'
<1> DEFINE N == Len(inflight)  e == NewStep(r, hits, n)
<1>1. /\ N \in Nat /\ Len(inflight') = N + 1 /\ inflight'[N + 1] = e
      /\ \A k \in 1 .. N : inflight'[k] = inflight[k]
  BY AllocQueue
<1>2. slots' = slots
  BY AllocDef
<1>3. ~Written(e, b, j)
  OBVIOUS
<1>4. \/ slots[b][j] = v /\ \A l \in 1 .. N : ~Written(inflight[l], b, j)
      \/ \E k \in 1 .. N : \E p \in Nat :
             /\ Writes(inflight[k], p, b, j) /\ v = Key(inflight[k].req, p)
             /\ \A l \in k + 1 .. N : ~Written(inflight[l], b, j)
  BY DEF WillHold
<1> HIDE DEF N, e
<1>5. \A l \in 1 .. N + 1 : l \in 1 .. N \/ l = N + 1
  BY <1>1
<1>6. CASE slots[b][j] = v /\ \A l \in 1 .. N : ~Written(inflight[l], b, j)
  <2>1. \A l \in 1 .. N + 1 : ~Written(inflight'[l], b, j)
    BY <1>1, <1>3, <1>5, <1>6
  <2> QED BY <1>1, <1>2, <1>6, <2>1 DEF WillHold
<1>7. ASSUME NEW k \in 1 .. N, NEW p \in Nat,
             Writes(inflight[k], p, b, j), v = Key(inflight[k].req, p),
             \A l \in k + 1 .. N : ~Written(inflight[l], b, j)
      PROVE  WillHold(b, j, v)'
  <2>1. \A l \in k + 1 .. N + 1 : l \in 1 .. N + 1 /\ (l \in k + 1 .. N \/ l = N + 1)
    BY <1>1
  <2>2. \A l \in k + 1 .. N + 1 : ~Written(inflight'[l], b, j)
    BY <1>1, <1>3, <1>7, <2>1
  <2>3. inflight'[k] = inflight[k] /\ k \in 1 .. N + 1
    BY <1>1
  <2> QED BY <1>1, <1>7, <2>2, <2>3 DEF WillHold
<1> QED BY <1>4, <1>6, <1>7

LEMMA AllocNew ==
    ASSUME NEW r, NEW hits, NEW n, Allocates(r, hits, n),
           NEW p \in Start(r, hits) + 1 .. Upto(r, hits, n),
           NEW b, b = Listed(r, hits, n)[Place(p)]
    PROVE  WillHold(b, Offset(p), Key(r, p))'
<1> DEFINE N == Len(inflight)  e == NewStep(r, hits, n)
<1>1. N \in Nat /\ Len(inflight') = N + 1 /\ inflight'[N + 1] = e
  BY AllocQueue
<1>2. Writes(e, p, b, Offset(p)) /\ e.req = r /\ p \in Nat
  BY AllocStart DEF Writes, NewStep
<1> HIDE DEF N, e
<1>3. N + 1 \in 1 .. N + 1 /\ \A l \in (N + 1) + 1 .. N + 1 : FALSE
  BY <1>1
<1> QED BY <1>1, <1>2, <1>3 DEF WillHold

\* The positions the request starts with are its own, and the step leaves them.
LEMMA AllocTaken ==
    ASSUME NEW r, NEW hits, NEW n, Allocates(r, hits, n), OwnKeys, HashKeys,
           NEW p \in 1 .. Start(r, hits), NEW b, b = Listed(r, hits, n)[Place(p)]
    PROVE  /\ b \in Blocks /\ WillHold(b, Offset(p), Key(r, p))
           /\ ~Written(NewStep(r, hits, n), b, Offset(p))
           /\ p <= computed[r] => b = At(r, p)
<1> DEFINE bs == Listed(r, hits, n)  s == Start(r, hits)  u == Upto(r, hits, n)
<1>1. /\ PoolInv /\ r \in Reqs /\ hits \in Seq(Blocks) /\ (table[r] = <<>> \/ hits = <<>>)
      /\ Len(hits) <= FullBlocks(r) /\ \A i \in 1 .. Len(hits) : hash[hits[i]] = BlockHashOf(r, i)
  BY DEF Allocates
<1>2. /\ s \in Nat /\ u \in Nat /\ s < u /\ u <= NumTokens(r) /\ computed[r] \in Nat
      /\ (hits = <<>> => s = computed[r])
      /\ (table[r] = <<>> => s = Len(hits) * BlockSize /\ computed[r] = 0)
      /\ \A x \in s + 1 .. u : x \in Nat \ {0} /\ Place(x) \in From(r, hits) + 1 .. Len(bs)
  BY AllocStart
<1>3. bs \in Seq(Blocks) /\ IsInjective(bs) /\ Len(bs) = Cdiv(u, BlockSize)
  BY AllocTable
<1>4. /\ \A i \in 1 .. Len(table[r]) : bs[i] = table[r][i]
      /\ \A i \in 1 .. Len(hits) : bs[Len(table[r]) + i] = hits[i]
  BY AllocPrefix
<1>5. Len(table[r]) = Cdiv(computed[r], BlockSize) /\ FullBlocks(r) \in Nat /\ Len(hits) \in Nat
      /\ NumTokens(r) \in Nat
  BY <1>1, OfRequest
<1> HIDE DEF bs, s, u
<1>6. p \in 1 .. s /\ b = bs[Place(p)]
  BY DEF bs, s
<1>7. p \in 1 .. u /\ p \in 1 .. NumTokens(r) /\ p <= s
  BY <1>2, <1>5, <1>6
<1>8. p \in Nat \ {0} /\ Place(p) \in 1 .. Len(bs) /\ Len(bs) \in Nat
  BY <1>2, <1>3, <1>7, PosIn
<1>9. b \in Blocks
  BY <1>3, <1>6, <1>8
<1>10. ASSUME p <= computed[r] PROVE b = At(r, p)
  <2>1. p \in 1 .. computed[r]
    BY <1>2, <1>7, <1>10
  <2>2. Place(p) \in 1 .. Len(table[r])
    BY <1>2, <1>5, <2>1, PosIn
  <2> QED BY <1>4, <1>6, <2>2 DEF At
<1>11. WillHold(b, Offset(p), Key(r, p))
  <2>1. CASE hits = <<>>
    <3>1. p \in 1 .. computed[r] /\ b = At(r, p)
      BY <1>2, <1>6, <1>7, <1>10, <2>1
    <3> QED BY <1>1, <3>1 DEF OwnKeys
  <2>2. CASE table[r] = <<>>
    <3>1. Place(p) <= Len(hits)
      BY <1>2, <1>5, <1>7, <1>8, <2>2, PosUpto
    <3>2. Place(p) \in 1 .. Len(hits) /\ Place(p) \in 1 .. FullBlocks(r)
      BY <1>1, <1>5, <1>8, <3>1
    <3>3. Len(table[r]) = 0
      BY <2>2
    <3>4. b = hits[Place(p)]
      BY <1>4, <1>6, <1>8, <3>2, <3>3
    <3>5. hash[b] = BlockHashOf(r, Place(p))
      BY <1>1, <3>2, <3>4
    <3> QED BY <1>1, <1>7, <1>9, <3>2, <3>5 DEF HashKeys
  <2> QED BY <1>1, <2>1, <2>2
<1>12. ASSUME Written(NewStep(r, hits, n), b, Offset(p)) PROVE FALSE
  <2>1. PICK x \in s + 1 .. u : bs[Place(x)] = b /\ Offset(x) = Offset(p)
    BY <1>12 DEF Written, Writes, NewStep, s, u, bs
  <2>2. x \in Nat \ {0} /\ x \in 1 .. u
    BY <1>2
  <2>3. Place(x) \in 1 .. Len(bs)
    BY <1>2, <1>3, <2>2, PosIn
  <2>4. Place(x) = Place(p)
    BY <1>3, <1>6, <1>8, <2>1, <2>3, InSeq
  <2>5. x = p
    BY <1>8, <2>1, <2>2, <2>4, PosSame
  <2> QED BY <1>2, <1>7, <2>5
<1> QED BY <1>9, <1>10, <1>11, <1>12

LEMMA AllocStepsInv ==
    ASSUME NEW r, NEW hits, NEW n, Allocates(r, hits, n), StepsInv
    PROVE  StepsInv'
<1> DEFINE N == Len(inflight)  e == NewStep(r, hits, n)
<1>1. /\ N \in Nat /\ Len(inflight') = N + 1 /\ inflight'[N + 1] = e
      /\ \A k \in 1 .. N : inflight'[k] = inflight[k]
  BY AllocQueue
<1>2. /\ e.from < e.to /\ e.to <= NumTokens(e.req)
      /\ IsInjective(e.blocks) /\ Len(e.blocks) = Cdiv(e.to, BlockSize)
  BY AllocStart, AllocTable DEF NewStep
<1>3. \A k \in 1 .. N + 1 : k \in 1 .. N \/ k = N + 1
  BY <1>1
<1> HIDE DEF N, e
<1>4. \A k \in 1 .. N : /\ inflight[k].from < inflight[k].to
                        /\ inflight[k].to <= NumTokens(inflight[k].req)
                        /\ IsInjective(inflight[k].blocks)
                        /\ Len(inflight[k].blocks) = Cdiv(inflight[k].to, BlockSize)
  BY DEF StepsInv, N
<1> QED BY <1>1, <1>2, <1>3, <1>4 DEF StepsInv

\* The live steps after the call.
LEMMA AllocLive ==
    ASSUME NEW r, NEW hits, NEW n, Allocates(r, hits, n), NEW q \in Reqs
    PROVE  Live(q)' = IF q = r THEN Live(q) \cup {Len(inflight) + 1} ELSE Live(q)
<1> DEFINE N == Len(inflight)  e == NewStep(r, hits, n)
<1>1. /\ N \in Nat /\ Len(inflight') = N + 1 /\ inflight'[N + 1] = e
      /\ \A k \in 1 .. N : inflight'[k] = inflight[k]
  BY AllocQueue
<1>2. e.req = r /\ e.live
  BY DEF NewStep
<1> HIDE DEF N, e
<1>3. \A k : k \in 1 .. N + 1 <=> k \in 1 .. N \/ k = N + 1
  BY <1>1
<1>4. N + 1 \notin 1 .. N
  BY <1>1
<1>5. Live(q)' = {k \in 1 .. N + 1 : inflight'[k].req = q /\ inflight'[k].live}
  BY <1>1 DEF Live
<1>6. Live(q) = {k \in 1 .. N : inflight[k].req = q /\ inflight[k].live}
  BY DEF Live, N
<1>7. \A k : k \in Live(q)' <=> k \in Live(q) \/ (k = N + 1 /\ q = r)
  BY <1>1, <1>2, <1>3, <1>4, <1>5, <1>6
<1> QED BY <1>7 DEF N

\* What the invariant says of one live step.
LEMMA OfLive ==
    ASSUME PoolInv, StepsInv, LiveInv, NEW r \in Reqs, NEW k \in Live(r)
    PROVE  /\ k \in 1 .. Len(inflight) /\ inflight[k].req = r
           /\ inflight[k].from \in Nat /\ inflight[k].to \in Nat /\ inflight[k].first \in BOOLEAN
           /\ inflight[k].from < inflight[k].to /\ inflight[k].to <= computed[r]
           /\ computed[r] \in Nat /\ computed[r] > 0 /\ table[r] # <<>>
           /\ Len(inflight[k].blocks) \in Nat /\ Len(inflight[k].blocks) <= Len(table[r])
<1>1. k \in 1 .. Len(inflight) /\ inflight[k].req = r
  BY DEF Live
<1>2. /\ inflight[k].from \in Nat /\ inflight[k].to \in Nat /\ inflight[k].first \in BOOLEAN
      /\ inflight[k].blocks \in Seq(Blocks)
  BY <1>1, StepTypes
<1>3. /\ inflight[k].from < inflight[k].to
      /\ Len(inflight[k].blocks) = Cdiv(inflight[k].to, BlockSize)
  BY <1>1 DEF StepsInv
<1>4. inflight[k].to <= computed[r]
  BY DEF LiveInv
<1>5. /\ computed[r] \in Nat /\ (table[r] = <<>> <=> computed[r] = 0)
      /\ Len(table[r]) = Cdiv(computed[r], BlockSize) /\ BlockSize \in Nat \ {0}
  BY OfRequest, PromptLen
<1>6. computed[r] > 0
  BY <1>2, <1>3, <1>4, <1>5
<1>7. Cdiv(inflight[k].to, BlockSize) <= Cdiv(computed[r], BlockSize)
  BY <1>2, <1>4, <1>5, CdivMono
<1>8. Len(inflight[k].blocks) \in Nat
  BY <1>2
<1> QED BY <1>1, <1>2, <1>3, <1>4, <1>5, <1>6, <1>7, <1>8

LEMMA AllocLiveInv ==
    ASSUME NEW r, NEW hits, NEW n, Allocates(r, hits, n), StepsInv, LiveInv
    PROVE  LiveInv'
<1> DEFINE N == Len(inflight)  e == NewStep(r, hits, n)  bs == Listed(r, hits, n)
           s == Start(r, hits)  u == Upto(r, hits, n)
<1>1. /\ N \in Nat /\ inflight'[N + 1] = e /\ \A k \in 1 .. N : inflight'[k] = inflight[k]
  BY AllocQueue
<1>2. PoolInv /\ r \in Reqs /\ (table[r] = <<>> \/ hits = <<>>)
  BY DEF Allocates
<1>3. /\ s \in Nat /\ u \in Nat /\ s < u /\ computed[r] \in Nat /\ computed[r] <= s
      /\ (hits = <<>> => s = computed[r])
  BY AllocStart
<1>4. e.from = s /\ e.to = u /\ e.blocks = bs /\ e.first = (table[r] = <<>>)
  BY DEF NewStep
<1>5. table' = [table EXCEPT ![r] = bs] /\ computed' = [computed EXCEPT ![r] = u]
  BY AllocDef
<1>6. table \in [Reqs -> Seq(Blocks)] /\ computed \in [Reqs -> Nat]
  BY <1>2, Types
<1>7. \A i \in 1 .. Len(table[r]) : bs[i] = table[r][i]
  BY AllocPrefix
<1>8. \A q \in Reqs : Live(q)' = IF q = r THEN Live(q) \cup {N + 1} ELSE Live(q)
  BY AllocLive
<1> HIDE DEF N, e, bs, s, u
<1>9. table'[r] = bs /\ computed'[r] = u
  BY <1>2, <1>5, <1>6
<1>10. \A q \in Reqs : \A k \in Live(q) : k \in 1 .. N
  BY DEF Live, N
<1>11. ASSUME NEW q \in Reqs, q # r, NEW k \in Live(q)
       PROVE  /\ inflight'[k].to <= computed'[q]
              /\ \A i \in 1 .. Len(inflight'[k].blocks) : inflight'[k].blocks[i] = table'[q][i]
              /\ (\A l \in Live(q) : l <= k) => inflight'[k].to = computed'[q]
              /\ \A l \in Live(q) : k < l =>
                     /\ inflight'[k].to <= inflight'[l].from /\ ~inflight'[l].first
                     /\ (\A m \in Live(q) : m <= k \/ l <= m) => inflight'[k].to = inflight'[l].from
  <2>1. table'[q] = table[q] /\ computed'[q] = computed[q]
    BY <1>5, <1>6, <1>11
  <2>2. \A l \in Live(q) : inflight'[l] = inflight[l]
    BY <1>1, <1>10
  <2> QED BY <2>1, <2>2 DEF LiveInv
<1>12. ASSUME NEW k \in Live(r)
       PROVE  /\ inflight'[k] = inflight[k] /\ k <= N /\ k \in Nat
              /\ inflight[k].to \in Nat /\ inflight[k].to <= computed[r]
              /\ Len(inflight[k].blocks) \in Nat /\ Len(inflight[k].blocks) <= Len(table[r])
              /\ s = computed[r] /\ table[r] # <<>>
              /\ Len(table[r]) \in Nat
              /\ \A i \in 1 .. Len(inflight[k].blocks) : inflight[k].blocks[i] = table[r][i]
              /\ (\A l \in Live(r) : l <= k) => inflight[k].to = computed[r]
              /\ \A l \in Live(r) : k < l =>
                     /\ inflight[k].to <= inflight[l].from /\ ~inflight[l].first
                     /\ (\A m \in Live(r) : m <= k \/ l <= m) => inflight[k].to = inflight[l].from
  <2>1. inflight'[k] = inflight[k] /\ k <= N /\ k \in Nat
    BY <1>1, <1>2, <1>10
  <2>2. /\ inflight[k].to \in Nat /\ inflight[k].to <= computed[r] /\ table[r] # <<>>
        /\ Len(inflight[k].blocks) \in Nat /\ Len(inflight[k].blocks) <= Len(table[r])
    BY <1>2, OfLive
  <2>3. s = computed[r]
    BY <1>2, <1>3, <2>2
  <2>4. Len(table[r]) \in Nat
    BY <1>2, OfRequest
  <2>5. /\ \A i \in 1 .. Len(inflight[k].blocks) : inflight[k].blocks[i] = table[r][i]
        /\ (\A l \in Live(r) : l <= k) => inflight[k].to = computed[r]
        /\ \A l \in Live(r) : k < l =>
               /\ inflight[k].to <= inflight[l].from /\ ~inflight[l].first
               /\ (\A m \in Live(r) : m <= k \/ l <= m) => inflight[k].to = inflight[l].from
    BY <1>2 DEF LiveInv
  <2> QED BY <2>1, <2>2, <2>3, <2>4, <2>5
<1>13. ASSUME NEW k \in Live(r) \cup {N + 1}
       PROVE  /\ inflight'[k].to <= u
              /\ \A i \in 1 .. Len(inflight'[k].blocks) : inflight'[k].blocks[i] = bs[i]
              /\ (\A l \in Live(r) \cup {N + 1} : l <= k) => inflight'[k].to = u
  <2>1. CASE k = N + 1
    BY <1>1, <1>3, <1>4, <2>1
  <2>2. CASE k \in Live(r)
    <3>1. inflight'[k].to <= u
      BY <1>3, <1>12, <2>2
    <3>2. ASSUME NEW i \in 1 .. Len(inflight'[k].blocks) PROVE inflight'[k].blocks[i] = bs[i]
      <4>1. i \in 1 .. Len(inflight[k].blocks) /\ i \in 1 .. Len(table[r])
        BY <1>12, <2>2
      <4> QED BY <1>7, <1>12, <2>2, <4>1
    <3>3. ~(N + 1 <= k)
      BY <1>1, <1>12, <2>2
    <3> QED BY <3>1, <3>2, <3>3
  <2> QED BY <2>1, <2>2
<1>14. ASSUME NEW k \in Live(r) \cup {N + 1}, NEW l \in Live(r) \cup {N + 1}, k < l
       PROVE  /\ inflight'[k].to <= inflight'[l].from /\ ~inflight'[l].first
              /\ (\A m \in Live(r) \cup {N + 1} : m <= k \/ l <= m)
                     => inflight'[k].to = inflight'[l].from
  <2>1. k \in Live(r)
    <3>1. l <= N + 1 /\ l \in Nat
      BY <1>1, <1>12
    <3>2. k # N + 1
      BY <1>1, <1>14, <3>1
    <3> QED BY <3>2
  <2>2. CASE l \in Live(r)
    <3>1. inflight'[k] = inflight[k] /\ inflight'[l] = inflight[l]
      BY <1>12, <2>1, <2>2
    <3> QED BY <1>12, <1>14, <2>1, <2>2, <3>1
  <2>3. CASE l = N + 1
    <3>1. /\ inflight'[k] = inflight[k] /\ inflight[k].to <= s /\ inflight'[l].from = s
          /\ ~inflight'[l].first /\ k <= N /\ k \in Nat
      BY <1>1, <1>4, <1>12, <2>1, <2>3
    <3>2. ASSUME \A m \in Live(r) \cup {N + 1} : m <= k \/ l <= m PROVE inflight[k].to = s
      <4>1. \A m \in Live(r) : m <= k
        BY <1>1, <1>12, <2>3, <3>2
      <4> QED BY <1>12, <2>1, <4>1
    <3> QED BY <3>1, <3>2
  <2> QED BY <2>2, <2>3
<1> QED BY <1>8, <1>9, <1>11, <1>13, <1>14 DEF LiveInv

LEMMA AllocSettled ==
    ASSUME NEW r, NEW hits, NEW n, Allocates(r, hits, n), SlotInv
    PROVE  Settled'
<1> DEFINE N == Len(inflight)  e == NewStep(r, hits, n)  bs == Listed(r, hits, n)
           s == Start(r, hits)  u == Upto(r, hits, n)
<1>1. /\ N \in Nat /\ Len(inflight') = N + 1 /\ inflight'[N + 1] = e
      /\ \A k \in 1 .. N : inflight'[k] = inflight[k]
  BY AllocQueue
<1>2. PoolInv /\ r \in Reqs /\ (table[r] = <<>> \/ hits = <<>>)
  BY DEF Allocates
<1>3. /\ s \in Nat /\ u \in Nat /\ s < u /\ computed[r] \in Nat /\ computed[r] <= s
      /\ (hits = <<>> => s = computed[r])
  BY AllocStart
<1>4. e.from = s /\ e.to = u /\ e.first = (table[r] = <<>>)
  BY DEF NewStep
<1>5. table' = [table EXCEPT ![r] = bs] /\ computed' = [computed EXCEPT ![r] = u]
  BY AllocDef
<1>6. table \in [Reqs -> Seq(Blocks)] /\ computed \in [Reqs -> Nat]
  BY <1>2, Types
<1>7. \A q \in Reqs : Live(q)' = IF q = r THEN Live(q) \cup {N + 1} ELSE Live(q)
  BY AllocLive
<1>8. ASSUME NEW p \in 1 .. computed[r]
      PROVE  bs[Place(p)] = At(r, p) /\ ~Written(e, At(r, p), Offset(p))
  <2>1. p \in 1 .. s
    BY <1>3
  <2> QED BY <2>1, AllocTaken DEF SlotInv
<1>9. ASSUME NEW q \in Reqs, q # r, NEW p \in 1 .. computed[q]
      PROVE  ~Written(e, At(q, p), Offset(p))
  <2>1. Place(p) \in 1 .. Len(table[q]) /\ table[q] \in Seq(Blocks)
    BY <1>2, OfRequest, PosIn
  <2>2. At(q, p) \in ToSet(table[q])
    BY <2>1, InSeq DEF At
  <2> QED BY <1>9, <2>2, AllocPrivate
<1> HIDE DEF N, e, bs, s, u
<1>10. \A q \in Reqs : \A k \in Live(q) : k \in 1 .. N /\ inflight'[k] = inflight[k]
  BY <1>1 DEF Live, N
<1>11. ASSUME NEW q \in Reqs, NEW p \in 1 .. computed[q], NEW b, b = At(q, p)
       PROVE  /\ (\A k \in Live(q) : ~inflight'[k].first /\ p <= inflight'[k].from)
                     => \A l \in 1 .. N + 1 : ~Written(inflight'[l], b, Offset(p))
              /\ \A k \in Live(q) : p <= inflight'[k].to =>
                     \A l \in k + 1 .. N + 1 : ~Written(inflight'[l], b, Offset(p))
  <2>1. ~Written(inflight'[N + 1], b, Offset(p))
    BY <1>1, <1>8, <1>9, <1>11
  <2>2. /\ (\A k \in Live(q) : ~inflight[k].first /\ p <= inflight[k].from)
                => \A l \in 1 .. N : ~Written(inflight[l], b, Offset(p))
        /\ \A k \in Live(q) : p <= inflight[k].to =>
                \A l \in k + 1 .. N : ~Written(inflight[l], b, Offset(p))
    BY <1>11 DEF SlotInv, Settled, N
  <2>3. \A l \in 1 .. N + 1 : l = N + 1 \/ (l \in 1 .. N /\ inflight'[l] = inflight[l])
    BY <1>1
  <2>4. ASSUME \A k \in Live(q) : ~inflight'[k].first /\ p <= inflight'[k].from,
               NEW l \in 1 .. N + 1
        PROVE  ~Written(inflight'[l], b, Offset(p))
    BY <1>10, <2>1, <2>2, <2>3, <2>4
  <2>5. ASSUME NEW k \in Live(q), p <= inflight'[k].to, NEW l \in k + 1 .. N + 1
        PROVE  ~Written(inflight'[l], b, Offset(p))
    <3>1. l \in 1 .. N + 1 /\ (l # N + 1 => l \in k + 1 .. N)
      BY <1>1, <1>10
    <3> QED BY <1>10, <2>1, <2>2, <2>3, <2>5, <3>1
  <2> QED BY <2>4, <2>5
<1>12. ASSUME NEW q \in Reqs, NEW p \in 1 .. computed'[q], NEW b, b = table'[q][Place(p)]
       PROVE  /\ (\A k \in Live(q)' : ~inflight'[k].first /\ p <= inflight'[k].from)
                     => \A l \in 1 .. N + 1 : ~Written(inflight'[l], b, Offset(p))
              /\ \A k \in Live(q)' : p <= inflight'[k].to =>
                     \A l \in k + 1 .. N + 1 : ~Written(inflight'[l], b, Offset(p))
  <2>1. CASE q # r
    <3>1. p \in 1 .. computed[q] /\ b = At(q, p) /\ Live(q)' = Live(q)
      BY <1>5, <1>6, <1>7, <1>12, <2>1 DEF At
    <3> QED BY <1>11, <3>1
  <2>2. CASE q = r /\ p <= computed[r]
    <3>1. p \in 1 .. computed[r] /\ b = At(r, p) /\ Live(r)' = Live(r) \cup {N + 1}
      <4>1. p \in 1 .. u /\ b = bs[Place(p)]
        BY <1>2, <1>5, <1>6, <1>12, <2>2
      <4>2. p \in 1 .. computed[r]
        BY <1>3, <2>2, <4>1
      <4> QED BY <1>2, <1>7, <1>8, <4>1, <4>2
    <3>2. \A l \in (N + 1) + 1 .. N + 1 : FALSE
      BY <1>1
    <3> QED BY <1>2, <1>11, <2>2, <3>1, <3>2
  <2>3. CASE q = r /\ ~(p <= computed[r])
    <3>1. p \in Nat /\ Live(r)' = Live(r) \cup {N + 1}
      BY <1>2, <1>3, <1>5, <1>6, <1>7, <2>3
    <3>2. ~(~inflight'[N + 1].first /\ p <= inflight'[N + 1].from)
      BY <1>1, <1>2, <1>3, <1>4, <2>3
    <3>3. ASSUME NEW k \in Live(r), p <= inflight'[k].to PROVE FALSE
      <4>1. inflight'[k].to <= computed[r] /\ inflight'[k].to \in Nat
        BY <1>2, <1>10, OfLive DEF SlotInv
      <4> QED BY <1>3, <2>3, <3>1, <3>3, <4>1
    <3>4. \A l \in (N + 1) + 1 .. N + 1 : FALSE
      BY <1>1
    <3> QED BY <2>3, <3>1, <3>2, <3>3, <3>4
  <2> QED BY <2>1, <2>2, <2>3
<1> QED BY <1>1, <1>12 DEF Settled, At

LEMMA AllocOwnKeys ==
    ASSUME NEW r, NEW hits, NEW n, Allocates(r, hits, n), SlotInv
    PROVE  OwnKeys'
<1> DEFINE bs == Listed(r, hits, n)  s == Start(r, hits)  u == Upto(r, hits, n)
<1>1. PoolInv /\ r \in Reqs
  BY DEF Allocates
<1>2. s \in Nat /\ u \in Nat
  BY AllocStart
<1>3. table' = [table EXCEPT ![r] = bs] /\ computed' = [computed EXCEPT ![r] = u]
  BY AllocDef
<1>4. table \in [Reqs -> Seq(Blocks)] /\ computed \in [Reqs -> Nat]
  BY <1>1, Types
<1>5. ASSUME NEW q \in Reqs, NEW p \in 1 .. computed'[q], NEW b, b = table'[q][Place(p)]
      PROVE  WillHold(b, Offset(p), Key(q, p))'
  <2>1. CASE q # r
    <3>1. p \in 1 .. computed[q] /\ b = At(q, p)
      BY <1>3, <1>4, <1>5, <2>1 DEF At
    <3>2. Place(p) \in 1 .. Len(table[q]) /\ table[q] \in Seq(Blocks)
      BY <1>1, <3>1, OfRequest, PosIn
    <3>3. b \in ToSet(table[q])
      BY <3>1, <3>2, InSeq DEF At
    <3>4. ~Written(NewStep(r, hits, n), b, Offset(p))
      BY <2>1, <3>3, AllocPrivate
    <3>5. WillHold(b, Offset(p), Key(q, p))
      BY <3>1 DEF SlotInv, OwnKeys
    <3> QED BY <3>4, <3>5, AllocOld
  <2>2. CASE q = r
    <3>1. p \in 1 .. u /\ b = bs[Place(p)]
      BY <1>1, <1>3, <1>4, <1>5, <2>2
    <3>2. CASE p <= s
      <4>1. p \in 1 .. s
        BY <1>2, <3>1, <3>2
      <4>2. WillHold(b, Offset(p), Key(r, p)) /\ ~Written(NewStep(r, hits, n), b, Offset(p))
        BY <3>1, <4>1, AllocTaken DEF SlotInv
      <4> QED BY <2>2, <4>2, AllocOld
    <3>3. CASE ~(p <= s)
      <4>1. p \in s + 1 .. u
        BY <1>2, <3>1, <3>3
      <4> QED BY <2>2, <3>1, <4>1, AllocNew
    <3> QED BY <3>2, <3>3
  <2> QED BY <2>1, <2>2
<1> QED BY <1>5 DEF OwnKeys, At

LEMMA AllocHashKeys ==
    ASSUME NEW r, NEW hits, NEW n, Allocates(r, hits, n), SlotInv
    PROVE  HashKeys'
<1> DEFINE bs == Listed(r, hits, n)  u == Upto(r, hits, n)  new == ToSet(New(r, hits, n))
           fresh == Fresh(r, hits, n)
<1>1. PoolInv /\ r \in Reqs /\ u \in Nat /\ u \div BlockSize \in Nat /\ BlockSize \in Nat \ {0}
  BY AllocStart, AllocNumbers, PromptLen DEF Allocates
<1>2. table' = [table EXCEPT ![r] = bs] /\ computed' = [computed EXCEPT ![r] = u]
  BY AllocDef
<1>3. table \in [Reqs -> Seq(Blocks)] /\ computed \in [Reqs -> Nat]
  BY <1>1, Types
<1>4. table'[r] = bs /\ computed'[r] = u
  BY <1>1, <1>2, <1>3
<1>5. ASSUME NEW b \in Blocks, NEW q \in Reqs, NEW i \in 1 .. FullBlocks(q),
             hash'[b] = BlockHashOf(q, i), NEW p \in 1 .. NumTokens(q), Place(p) = i
      PROVE  WillHold(b, Offset(p), Key(q, p))'
  <2>1. BlockHashOf(q, i) # NoHash /\ p \in Nat \ {0} /\ i \in Nat
    BY HashFacts, PromptLen
  <2>2. ASSUME NEW x \in fresh, bs[x] = b PROVE WillHold(b, Offset(p), Key(q, p))'
    <3>1. x \in 1 .. FullBlocks(r) /\ hash'[b] = BlockHashOf(r, x)
      BY <2>2, AllocHash
    <3>2. x = i
      BY <1>1, <1>5, <3>1, HashIndex
    <3>3. p <= i * BlockSize
      BY <1>5, <2>1, PosUpto
    <3>4. Key(q, p) = Key(r, p)
      <4>1. BlockHashOf(q, i) = BlockHashOf(r, i) /\ i \in 1 .. FullBlocks(r) /\ p \in Nat
        BY <1>5, <2>1, <3>1, <3>2
      <4> QED BY <1>1, <3>3, <4>1, KeysOfHash
    <3>5. p \in 1 .. u
      <4> DEFINE d == u \div BlockSize  v == d * BlockSize
      <4>1. x <= d
        BY <2>2 DEF Fresh
      <4>2. v <= u /\ d \in Nat
        BY <1>1, Euclid
      <4> HIDE DEF d
      <4>3. p <= v
        BY <1>5, <2>1, <3>2, <4>1, <4>2, PosUpto
      <4>4. v \in Nat
        BY <1>1, <4>2, MulOrder
      <4> HIDE DEF v
      <4> QED BY <1>1, <2>1, <4>2, <4>3, <4>4
    <3>6. b = table'[r][Place(p)] /\ p \in 1 .. computed'[r]
      BY <1>4, <1>5, <2>2, <3>2, <3>5
    <3>7. OwnKeys'
      BY AllocOwnKeys
    <3> QED BY <1>1, <3>4, <3>6, <3>7 DEF OwnKeys, At
  <2>3. CASE \A x \in fresh : bs[x] # b
    <3>1. hash'[b] = IF b \in new THEN NoHash ELSE hash[b]
      BY <2>3, AllocHash
    <3>2. b \notin new /\ hash[b] = BlockHashOf(q, i)
      BY <1>5, <2>1, <3>1
    <3>3. WillHold(b, Offset(p), Key(q, p))
      BY <1>5, <3>2 DEF SlotInv, HashKeys
    <3>4. ~Written(NewStep(r, hits, n), b, Offset(p))
      BY <2>1, <3>2, AllocPrivate
    <3> QED BY <3>3, <3>4, AllocOld
  <2> QED BY <2>2, <2>3
<1> QED BY <1>5 DEF HashKeys

LEMMA AllocSlot ==
    ASSUME NEW r, NEW hits, NEW n, Allocates(r, hits, n), SlotInv
    PROVE  SlotInv'
<1>1. StepsInv' /\ LiveInv'
  BY AllocStepsInv, AllocLiveInv DEF SlotInv
<1>2. Settled' /\ OwnKeys' /\ HashKeys'
  BY AllocSettled, AllocOwnKeys, AllocHashKeys
<1> QED BY <1>1, <1>2 DEF SlotInv

\* A step that leaves the queue, the tables and the slots alone, and gives no block
\* another hash.
LEMMA SlotsSame ==
    ASSUME SlotInv, UNCHANGED <<table, computed, inflight, slots>>,
           \A b \in Blocks : hash'[b] \in {hash[b], NoHash}
    PROVE  SlotInv'
<1>1. \A b, j, v : WillHold(b, j, v) => WillHold(b, j, v)'
  BY DEF WillHold
<1>2. StepsInv' /\ LiveInv' /\ Settled'
  BY DEF SlotInv, StepsInv, LiveInv, Settled, Live, At
<1>3. OwnKeys'
  BY <1>1 DEF SlotInv, OwnKeys, At
<1>4. HashKeys'
  <2> SUFFICES ASSUME NEW b \in Blocks, NEW r \in Reqs, NEW i \in 1 .. FullBlocks(r),
                      hash'[b] = BlockHashOf(r, i), NEW p \in 1 .. NumTokens(r), Place(p) = i
               PROVE  WillHold(b, Offset(p), Key(r, p))'
    BY DEF HashKeys
  <2>1. BlockHashOf(r, i) # NoHash
    BY HashFacts
  <2>2. hash[b] = BlockHashOf(r, i)
    BY <2>1
  <2>3. WillHold(b, Offset(p), Key(r, p))
    BY <2>2 DEF SlotInv, HashKeys
  <2> QED BY <1>1, <2>3
<1> QED BY <1>2, <1>3, <1>4 DEF SlotInv

\* free marks the steps of the request as nobody's.
LEMMA FreeSteps ==
    ASSUME PoolInv, NEW r \in Reqs, Free(r)
    PROVE  /\ Len(inflight') = Len(inflight) /\ Len(inflight) \in Nat
           /\ \A k \in 1 .. Len(inflight) :
                  /\ inflight'[k].req = inflight[k].req /\ inflight'[k].blocks = inflight[k].blocks
                  /\ inflight'[k].from = inflight[k].from /\ inflight'[k].to = inflight[k].to
                  /\ inflight'[k].first = inflight[k].first
                  /\ inflight'[k].live <=> inflight[k].live /\ inflight[k].req # r
<1>1. inflight' = [i \in DOMAIN inflight |->
                      [inflight[i] EXCEPT !.live = @ /\ inflight[i].req # r]]
  BY DEF Free, Disowned
<1>2. inflight \in Seq(Steps)
  BY Types
<1>3. DOMAIN inflight = 1 .. Len(inflight) /\ Len(inflight) \in Nat
  BY <1>2
<1>4. Len(inflight') = Len(inflight)
  BY <1>1, <1>3
<1>5. ASSUME NEW k \in 1 .. Len(inflight)
      PROVE  /\ inflight'[k].req = inflight[k].req /\ inflight'[k].blocks = inflight[k].blocks
             /\ inflight'[k].from = inflight[k].from /\ inflight'[k].to = inflight[k].to
             /\ inflight'[k].first = inflight[k].first
             /\ inflight'[k].live = (inflight[k].live /\ inflight[k].req # r)
  <2>1. inflight[k] \in Steps
    BY <1>2
  <2>2. inflight'[k] = [inflight[k] EXCEPT !.live = inflight[k].live /\ inflight[k].req # r]
    BY <1>1, <1>3
  <2> QED BY <2>1, <2>2 DEF Steps
<1> QED BY <1>3, <1>4, <1>5

LEMMA FreeLive ==
    ASSUME PoolInv, NEW r \in Reqs, Free(r), NEW q \in Reqs
    PROVE  Live(q)' = IF q = r THEN {} ELSE Live(q)
<1>1. Live(q)' = {k \in 1 .. Len(inflight') : inflight'[k].req = q /\ inflight'[k].live}
  BY DEF Live
<1>2. Live(q) = {k \in 1 .. Len(inflight) : inflight[k].req = q /\ inflight[k].live}
  BY DEF Live
<1> QED BY <1>1, <1>2, FreeSteps

LEMMA FreeSlot ==
    ASSUME PoolInv, SlotInv, NEW r \in Reqs, Free(r)
    PROVE  SlotInv'
<1> DEFINE N == Len(inflight)
<1>1. /\ Len(inflight') = N /\ N \in Nat
      /\ \A k \in 1 .. N :
             /\ inflight'[k].req = inflight[k].req /\ inflight'[k].blocks = inflight[k].blocks
             /\ inflight'[k].from = inflight[k].from /\ inflight'[k].to = inflight[k].to
             /\ inflight'[k].first = inflight[k].first
  BY FreeSteps
<1>2. /\ table' = [table EXCEPT ![r] = <<>>] /\ computed' = [computed EXCEPT ![r] = 0]
      /\ UNCHANGED <<hash, slots>>
  BY DEF Free, Release
<1>3. table \in [Reqs -> Seq(Blocks)] /\ computed \in [Reqs -> Nat]
  BY Types
<1>4. \A q \in Reqs : q # r => table'[q] = table[q] /\ computed'[q] = computed[q]
  BY <1>2, <1>3
<1>5. computed'[r] = 0
  BY <1>2, <1>3
<1>6. \A q \in Reqs : Live(q)' = IF q = r THEN {} ELSE Live(q)
  BY FreeLive
<1>7. \A q \in Reqs : \A k \in Live(q) : k \in 1 .. N
  BY DEF Live
<1>8. \A k \in 1 .. N : \A p, b, j : Writes(inflight'[k], p, b, j) <=> Writes(inflight[k], p, b, j)
  BY <1>1 DEF Writes
<1>9. \A k \in 1 .. N : \A b, j : Written(inflight'[k], b, j) <=> Written(inflight[k], b, j)
  BY <1>8 DEF Written
<1>10. ASSUME NEW b, NEW j, NEW v, WillHold(b, j, v) PROVE WillHold(b, j, v)'
  <2>1. CASE slots[b][j] = v /\ \A l \in 1 .. N : ~Written(inflight[l], b, j)
    BY <1>1, <1>2, <1>9, <2>1 DEF WillHold
  <2>2. ASSUME NEW k \in 1 .. N, NEW p \in Nat,
               Writes(inflight[k], p, b, j), v = Key(inflight[k].req, p),
               \A l \in k + 1 .. N : ~Written(inflight[l], b, j)
        PROVE  WillHold(b, j, v)'
    <3>1. \A l \in k + 1 .. N : l \in 1 .. N
      BY <1>1
    <3>2. \A l \in k + 1 .. N : ~Written(inflight'[l], b, j)
      BY <1>9, <2>2, <3>1
    <3>3. Writes(inflight'[k], p, b, j) /\ v = Key(inflight'[k].req, p)
      BY <1>1, <1>8, <2>2
    <3> QED BY <1>1, <3>2, <3>3 DEF WillHold
  <2> QED BY <1>10, <2>1, <2>2 DEF WillHold
<1>11. StepsInv'
  BY <1>1 DEF SlotInv, StepsInv
<1>12. LiveInv'
  <2> SUFFICES ASSUME NEW q \in Reqs, q # r, NEW k \in Live(q)
               PROVE  /\ inflight'[k].to <= computed'[q]
                      /\ \A i \in 1 .. Len(inflight'[k].blocks) :
                             inflight'[k].blocks[i] = table'[q][i]
                      /\ (\A l \in Live(q) : l <= k) => inflight'[k].to = computed'[q]
                      /\ \A l \in Live(q) : k < l =>
                             /\ inflight'[k].to <= inflight'[l].from /\ ~inflight'[l].first
                             /\ (\A m \in Live(q) : m <= k \/ l <= m)
                                    => inflight'[k].to = inflight'[l].from
    BY <1>6 DEF LiveInv
  <2>1. \A l \in Live(q) : /\ inflight'[l].blocks = inflight[l].blocks
                           /\ inflight'[l].from = inflight[l].from /\ inflight'[l].to = inflight[l].to
                           /\ inflight'[l].first = inflight[l].first
    BY <1>1, <1>7
  <2> QED BY <1>4, <2>1 DEF SlotInv, LiveInv
<1>13. \A q \in Reqs : \A p \in 1 .. computed'[q] :
           q # r /\ p \in 1 .. computed[q] /\ At(q, p)' = At(q, p) /\ Live(q)' = Live(q)
  BY <1>4, <1>5, <1>6 DEF At
<1>14. Settled'
  <2> SUFFICES ASSUME NEW q \in Reqs, NEW p \in 1 .. computed'[q], NEW b, b = At(q, p)
               PROVE  /\ (\A k \in Live(q) : ~inflight'[k].first /\ p <= inflight'[k].from)
                             => \A l \in 1 .. N : ~Written(inflight'[l], b, Offset(p))
                      /\ \A k \in Live(q) : p <= inflight'[k].to =>
                             \A l \in k + 1 .. N : ~Written(inflight'[l], b, Offset(p))
    BY <1>1, <1>13 DEF Settled
  <2>1. /\ (\A k \in Live(q) : ~inflight[k].first /\ p <= inflight[k].from)
                => \A l \in 1 .. N : ~Written(inflight[l], b, Offset(p))
        /\ \A k \in Live(q) : p <= inflight[k].to =>
                \A l \in k + 1 .. N : ~Written(inflight[l], b, Offset(p))
    BY <1>13 DEF SlotInv, Settled
  <2>2. \A l \in Live(q) : /\ inflight'[l].from = inflight[l].from /\ inflight'[l].to = inflight[l].to
                           /\ inflight'[l].first = inflight[l].first
    BY <1>1, <1>7
  <2>3. \A k \in Live(q) : \A l \in k + 1 .. N : l \in 1 .. N
    BY <1>1, <1>7
  <2> QED BY <1>9, <2>1, <2>2, <2>3
<1>15. OwnKeys'
  <2> SUFFICES ASSUME NEW q \in Reqs, NEW p \in 1 .. computed'[q], NEW b, b = At(q, p)
               PROVE  WillHold(b, Offset(p), Key(q, p))'
    BY <1>13 DEF OwnKeys
  <2>1. WillHold(b, Offset(p), Key(q, p))
    BY <1>13 DEF SlotInv, OwnKeys
  <2> QED BY <1>10, <2>1
<1>16. HashKeys'
  BY <1>2, <1>10 DEF SlotInv, HashKeys
<1> QED BY <1>11, <1>12, <1>14, <1>15, <1>16 DEF SlotInv

\* Execution writes the slots of the oldest step.
LEMMA ExecuteSlots ==
    ASSUME PoolInv, SlotInv, Execute
    PROVE  /\ Len(inflight) \in Nat \ {0} /\ Len(inflight') = Len(inflight) - 1
           /\ \A k \in 1 .. Len(inflight) - 1 : inflight'[k] = inflight[k + 1]
           /\ \A b \in Blocks : \A j \in 1 .. BlockSize :
                  /\ \A p : Writes(inflight[1], p, b, j) => slots'[b][j] = Key(inflight[1].req, p)
                  /\ ~Written(inflight[1], b, j) => slots'[b][j] = slots[b][j]
<1> DEFINE e == Head(inflight)
           at(b, i) == {p \in e.from + 1 .. e.to : /\ e.blocks[Cdiv(p, BlockSize)] = b
                                                   /\ ((p - 1) % BlockSize) + 1 = i}
<1>1. /\ inflight # <<>> /\ inflight' = Tail(inflight)
      /\ slots' = [b \in Blocks |-> [i \in 1 .. BlockSize |->
                      IF at(b, i) = {} THEN slots[b][i]
                      ELSE SubSeq(Prompt[e.req], 1, CHOOSE p \in at(b, i) : TRUE)]]
  BY DEF Execute
<1>2. inflight \in Seq(Steps)
  BY Types
<1>3. /\ Len(inflight) \in Nat \ {0} /\ Len(inflight') = Len(inflight) - 1
      /\ \A k \in 1 .. Len(inflight) - 1 : inflight'[k] = inflight[k + 1]
      /\ e = inflight[1]
  BY <1>1, <1>2
<1>4. 1 \in 1 .. Len(inflight)
  BY <1>3
<1>5. \A b, i, p : p \in at(b, i) <=> Writes(inflight[1], p, b, i)
  BY <1>3 DEF Writes, Place, Offset
<1> HIDE DEF e, at
<1>6. ASSUME NEW b \in Blocks, NEW j \in 1 .. BlockSize,
             NEW p, Writes(inflight[1], p, b, j)
      PROVE  slots'[b][j] = Key(inflight[1].req, p)
  <2>1. p \in at(b, j) /\ \A x \in at(b, j) : x = p
    BY <1>4, <1>5, <1>6, WritesOnce DEF SlotInv
  <2>2. (CHOOSE x \in at(b, j) : TRUE) = p
    BY <2>1
  <2> QED BY <1>1, <1>3, <2>1, <2>2 DEF Key
<1>7. ASSUME NEW b \in Blocks, NEW j \in 1 .. BlockSize, ~Written(inflight[1], b, j)
      PROVE  slots'[b][j] = slots[b][j]
  <2>1. \A p : ~Writes(inflight[1], p, b, j)
    <3> SUFFICES ASSUME NEW p, Writes(inflight[1], p, b, j) PROVE FALSE
      OBVIOUS
    <3>1. p \in Nat
      BY <1>4, WritesOnce DEF SlotInv
    <3> QED BY <1>7, <3>1 DEF Written
  <2>2. at(b, j) = {}
    BY <1>5, <2>1
  <2> QED BY <1>1, <2>2
<1> QED BY <1>3, <1>6, <1>7

\* So the slots hold what they would.
LEMMA ExecuteHolds ==
    ASSUME PoolInv, SlotInv, Execute, NEW b \in Blocks, NEW j \in 1 .. BlockSize, NEW v,
           WillHold(b, j, v)
    PROVE  WillHold(b, j, v)'
<1> DEFINE N == Len(inflight)
<1>1. /\ N \in Nat \ {0} /\ Len(inflight') = N - 1
      /\ \A k \in 1 .. N - 1 : inflight'[k] = inflight[k + 1]
      /\ \A p : Writes(inflight[1], p, b, j) => slots'[b][j] = Key(inflight[1].req, p)
      /\ ~Written(inflight[1], b, j) => slots'[b][j] = slots[b][j]
  BY ExecuteSlots
<1>2. CASE slots[b][j] = v /\ \A l \in 1 .. N : ~Written(inflight[l], b, j)
  <2>1. \A l \in 1 .. N - 1 : l + 1 \in 1 .. N
    BY <1>1
  <2>2. \A l \in 1 .. N - 1 : ~Written(inflight'[l], b, j)
    BY <1>1, <1>2, <2>1
  <2>3. 1 \in 1 .. N
    BY <1>1
  <2>4. slots'[b][j] = v
    BY <1>1, <1>2, <2>3
  <2> QED BY <1>1, <2>2, <2>4 DEF WillHold
<1>3. ASSUME NEW k \in 1 .. N, NEW p \in Nat,
             Writes(inflight[k], p, b, j), v = Key(inflight[k].req, p),
             \A l \in k + 1 .. N : ~Written(inflight[l], b, j)
      PROVE  WillHold(b, j, v)'
  <2>1. CASE k = 1
    <3>1. \A l \in 1 .. N - 1 : l + 1 \in k + 1 .. N
      BY <1>1, <2>1
    <3>2. \A l \in 1 .. N - 1 : ~Written(inflight'[l], b, j)
      BY <1>1, <1>3, <3>1
    <3>3. slots'[b][j] = v
      BY <1>1, <1>3, <2>1
    <3> QED BY <1>1, <3>2, <3>3 DEF WillHold
  <2>2. CASE k # 1
    <3> DEFINE h == k - 1
    <3>1. h \in 1 .. N - 1 /\ h + 1 = k /\ \A l \in h + 1 .. N - 1 : l \in 1 .. N - 1 /\ l + 1 \in k + 1 .. N
      BY <1>1, <2>2
    <3> HIDE DEF h
    <3>2. inflight'[h] = inflight[k]
      BY <1>1, <3>1
    <3>3. \A l \in h + 1 .. N - 1 : ~Written(inflight'[l], b, j)
      BY <1>1, <1>3, <3>1
    <3> QED BY <1>1, <1>3, <3>1, <3>2, <3>3 DEF WillHold
  <2> QED BY <2>1, <2>2
<1> QED BY <1>2, <1>3 DEF WillHold

\* The live steps move up.
LEMMA ExecuteLive ==
    ASSUME PoolInv, SlotInv, Execute, NEW r \in Reqs
    PROVE  \A k : k \in Live(r)' <=> k \in 1 .. Len(inflight) - 1 /\ k + 1 \in Live(r)
<1> DEFINE N == Len(inflight)
<1>1. /\ N \in Nat \ {0} /\ Len(inflight') = N - 1
      /\ \A k \in 1 .. N - 1 : inflight'[k] = inflight[k + 1]
  BY ExecuteSlots
<1>2. \A k \in 1 .. N - 1 : k + 1 \in 1 .. N
  BY <1>1
<1>3. Live(r)' = {k \in 1 .. N - 1 : inflight'[k].req = r /\ inflight'[k].live}
  BY <1>1 DEF Live
<1>4. Live(r) = {k \in 1 .. N : inflight[k].req = r /\ inflight[k].live}
  BY DEF Live
<1> QED BY <1>1, <1>2, <1>3, <1>4

\* The step after the oldest one, if that was live: it starts where the oldest
\* ended, and without one the request is computed up to there.
LEMMA NextLive ==
    ASSUME PoolInv, SlotInv, NEW r \in Reqs, 1 \in Live(r)
    PROVE  \/ Live(r) = {1} /\ inflight[1].to = computed[r]
           \/ \E l \in Live(r) : /\ l > 1 /\ \A m \in Live(r) : m = 1 \/ l <= m
                                 /\ inflight[l].from = inflight[1].to /\ ~inflight[l].first
<1> DEFINE S == Live(r) \ {1}
<1>0. \A k \in Live(r) : k \in Nat /\ 1 <= k
  BY DEF Live
<1>1. CASE S = {}
  <2>1. \A l \in Live(r) : l <= 1
    BY <1>1
  <2>2. inflight[1].to = computed[r]
    BY <2>1 DEF SlotInv, LiveInv
  <2> QED BY <1>1, <2>2
<1>2. CASE S # {}
  <2>1. S \in SUBSET Nat
    BY <1>0
  <2>2. PICK l \in S : \A m \in S : l <= m
    BY <1>2, <2>1, NatLeast
  <2>3. l \in Live(r) /\ 1 < l /\ \A m \in Live(r) : m = 1 \/ l <= m
    BY <1>0, <2>2
  <2>4. \A m \in Live(r) : m <= 1 \/ l <= m
    BY <2>3
  <2>5. inflight[1].to = inflight[l].from /\ ~inflight[l].first
    BY <2>3, <2>4 DEF SlotInv, LiveInv
  <2> QED BY <1>0, <2>3, <2>5
<1> QED BY <1>1, <1>2

LEMMA ExecuteSlot ==
    ASSUME PoolInv, SlotInv, Execute
    PROVE  SlotInv'
<1> DEFINE N == Len(inflight)
<1>1. /\ N \in Nat \ {0} /\ Len(inflight') = N - 1
      /\ \A k \in 1 .. N - 1 : inflight'[k] = inflight[k + 1]
  BY ExecuteSlots
<1>2. UNCHANGED <<table, computed, hash>>
  BY DEF Execute
<1>3. \A r \in Reqs : \A k : k \in Live(r)' <=> k \in 1 .. N - 1 /\ k + 1 \in Live(r)
  BY ExecuteLive
<1>4. \A r \in Reqs : \A k \in Live(r) : k \in 1 .. N
  BY DEF Live
<1> HIDE DEF N
<1>5. StepsInv'
  <2>1. \A k \in 1 .. N - 1 : k + 1 \in 1 .. N
    BY <1>1
  <2>2. \A k \in 1 .. N : /\ inflight[k].from < inflight[k].to
                          /\ inflight[k].to <= NumTokens(inflight[k].req)
                          /\ IsInjective(inflight[k].blocks)
                          /\ Len(inflight[k].blocks) = Cdiv(inflight[k].to, BlockSize)
    BY DEF SlotInv, StepsInv, N
  <2> QED BY <1>1, <2>1, <2>2 DEF StepsInv
<1>6. LiveInv'
  <2> SUFFICES ASSUME NEW r \in Reqs, NEW k \in Live(r)'
               PROVE  /\ inflight'[k].to <= computed[r]
                      /\ \A i \in 1 .. Len(inflight'[k].blocks) :
                             inflight'[k].blocks[i] = table[r][i]
                      /\ (\A l \in Live(r)' : l <= k) => inflight'[k].to = computed[r]
                      /\ \A l \in Live(r)' : k < l =>
                             /\ inflight'[k].to <= inflight'[l].from /\ ~inflight'[l].first
                             /\ (\A m \in Live(r)' : m <= k \/ l <= m)
                                    => inflight'[k].to = inflight'[l].from
    BY <1>2 DEF LiveInv
  <2>1. k \in Nat /\ k + 1 \in Live(r) /\ inflight'[k] = inflight[k + 1]
    BY <1>1, <1>3
  <2>2. \A m \in Live(r) : m \in Nat /\ (m = 1 \/ (m - 1 \in Live(r)' /\ m - 1 \in Nat))
    <3> SUFFICES ASSUME NEW m \in Live(r), m # 1 PROVE m - 1 \in Live(r)' /\ m - 1 \in Nat
      BY <1>1, <1>4
    <3>1. m - 1 \in 1 .. N - 1 /\ (m - 1) + 1 = m
      BY <1>1, <1>4
    <3> QED BY <1>3, <3>1
  <2>3. /\ inflight[k + 1].to <= computed[r]
        /\ \A i \in 1 .. Len(inflight[k + 1].blocks) : inflight[k + 1].blocks[i] = table[r][i]
        /\ (\A l \in Live(r) : l <= k + 1) => inflight[k + 1].to = computed[r]
        /\ \A l \in Live(r) : k + 1 < l =>
               /\ inflight[k + 1].to <= inflight[l].from /\ ~inflight[l].first
               /\ (\A m \in Live(r) : m <= k + 1 \/ l <= m) => inflight[k + 1].to = inflight[l].from
    BY <2>1 DEF SlotInv, LiveInv
  <2>4. ASSUME \A l \in Live(r)' : l <= k PROVE \A l \in Live(r) : l <= k + 1
    BY <2>1, <2>2, <2>4
  <2>5. ASSUME NEW l \in Live(r)', k < l
        PROVE  /\ inflight'[k].to <= inflight'[l].from /\ ~inflight'[l].first
               /\ (\A m \in Live(r)' : m <= k \/ l <= m) => inflight'[k].to = inflight'[l].from
    <3>1. l \in Nat /\ l + 1 \in Live(r) /\ inflight'[l] = inflight[l + 1] /\ k + 1 < l + 1
      BY <1>1, <1>3, <2>1, <2>5
    <3>2. ASSUME \A m \in Live(r)' : m <= k \/ l <= m
          PROVE  \A m \in Live(r) : m <= k + 1 \/ l + 1 <= m
      BY <2>1, <2>2, <3>1, <3>2
    <3> QED BY <2>1, <2>3, <3>1, <3>2
  <2> QED BY <2>1, <2>3, <2>4, <2>5
<1>7. Settled'
  <2> SUFFICES ASSUME NEW r \in Reqs, NEW p \in 1 .. computed[r], NEW b, b = At(r, p)
               PROVE  /\ (\A k \in Live(r)' : ~inflight'[k].first /\ p <= inflight'[k].from)
                             => \A l \in 1 .. N - 1 : ~Written(inflight'[l], b, Offset(p))
                      /\ \A k \in Live(r)' : p <= inflight'[k].to =>
                             \A l \in k + 1 .. N - 1 : ~Written(inflight'[l], b, Offset(p))
    BY <1>1, <1>2 DEF Settled, At
  <2>1. /\ (\A k \in Live(r) : ~inflight[k].first /\ p <= inflight[k].from)
                => \A l \in 1 .. N : ~Written(inflight[l], b, Offset(p))
        /\ \A k \in Live(r) : p <= inflight[k].to =>
                \A l \in k + 1 .. N : ~Written(inflight[l], b, Offset(p))
    BY DEF SlotInv, Settled, N
  <2>2. ASSUME NEW k \in Live(r)', p <= inflight'[k].to, NEW l \in k + 1 .. N - 1
        PROVE  ~Written(inflight'[l], b, Offset(p))
    <3>1. k \in 1 .. N - 1 /\ k + 1 \in Live(r) /\ inflight'[k] = inflight[k + 1]
      BY <1>1, <1>3
    <3>2. l \in 1 .. N - 1 /\ l + 1 \in (k + 1) + 1 .. N
      BY <1>1, <3>1
    <3> QED BY <1>1, <2>1, <2>2, <3>1, <3>2
  <2>3. ASSUME \A k \in Live(r)' : ~inflight'[k].first /\ p <= inflight'[k].from,
               NEW l \in 1 .. N - 1
        PROVE  ~Written(inflight'[l], b, Offset(p))
    <3>1. l + 1 \in 1 .. N /\ l + 1 \in 1 + 1 .. N /\ inflight'[l] = inflight[l + 1]
      BY <1>1
    <3>2. ASSUME NEW m \in Live(r), m # 1 PROVE ~inflight[m].first /\ p <= inflight[m].from
      <4>1. m - 1 \in 1 .. N - 1 /\ (m - 1) + 1 = m
        BY <1>1, <1>4, <3>2
      <4>2. m - 1 \in Live(r)' /\ inflight'[m - 1] = inflight[m]
        BY <1>1, <1>3, <4>1
      <4> QED BY <2>3, <4>2
    <3>3. CASE 1 \notin Live(r)
      <4>1. \A m \in Live(r) : ~inflight[m].first /\ p <= inflight[m].from
        BY <3>2, <3>3
      <4> QED BY <2>1, <3>1, <4>1
    <3>4. CASE 1 \in Live(r)
      <4>1. p <= inflight[1].to
        <5>1. CASE Live(r) = {1} /\ inflight[1].to = computed[r]
          <6>1. computed[r] \in Nat
            BY OfRequest
          <6> QED BY <5>1, <6>1
        <5>2. ASSUME NEW m \in Live(r), m > 1, inflight[m].from = inflight[1].to
              PROVE  p <= inflight[1].to
          BY <3>2, <5>2
        <5> QED BY <3>4, <5>1, <5>2, NextLive
      <4> QED BY <2>1, <3>1, <3>4, <4>1
    <3> QED BY <3>3, <3>4
  <2> QED BY <2>2, <2>3
<1>8. OwnKeys'
  <2> SUFFICES ASSUME NEW r \in Reqs, NEW p \in 1 .. computed[r], NEW b, b = At(r, p)
               PROVE  WillHold(b, Offset(p), Key(r, p))'
    BY <1>2 DEF OwnKeys, At
  <2>1. WillHold(b, Offset(p), Key(r, p))
    BY DEF SlotInv, OwnKeys
  <2>2. Place(p) \in 1 .. Len(table[r]) /\ Offset(p) \in 1 .. BlockSize /\ table[r] \in Seq(Blocks)
    BY OfRequest, PosIn
  <2>3. b \in Blocks
    BY <2>2 DEF At
  <2> QED BY <2>1, <2>2, <2>3, ExecuteHolds
<1>9. HashKeys'
  <2> SUFFICES ASSUME NEW b \in Blocks, NEW r \in Reqs, NEW i \in 1 .. FullBlocks(r),
                      hash[b] = BlockHashOf(r, i), NEW p \in 1 .. NumTokens(r), Place(p) = i
               PROVE  WillHold(b, Offset(p), Key(r, p))'
    BY <1>2 DEF HashKeys
  <2>1. WillHold(b, Offset(p), Key(r, p))
    BY DEF SlotInv, HashKeys
  <2>2. Offset(p) \in 1 .. BlockSize
    BY PromptLen, PosIn
  <2> QED BY <2>1, <2>2, ExecuteHolds
<1> QED BY <1>5, <1>6, <1>7, <1>8, <1>9 DEF SlotInv

LEMMA SlotInit == KVBlocksInit => SlotInv
<1> SUFFICES ASSUME KVBlocksInit PROVE SlotInv
  OBVIOUS
<1>1. /\ inflight = <<>> /\ hash = [b \in Blocks |-> NoHash] /\ computed = [r \in Reqs |-> 0]
  BY DEF KVBlocksInit
<1>2. Len(inflight) = 0
  BY <1>1
<1>3. StepsInv /\ LiveInv
  BY <1>2 DEF StepsInv, LiveInv, Live
<1>4. Settled /\ OwnKeys
  BY <1>1 DEF Settled, OwnKeys
<1>5. HashKeys
  BY <1>1, HashFacts DEF HashKeys
<1> QED BY <1>3, <1>4, <1>5 DEF SlotInv

\* Under FCFS, where every scheduled step is executed.
OwnInv == workload.policy = "fcfs" => SlotInv

LEMMA SlotNext == PoolInv /\ OwnInv /\ [KVBlocksNext]_kvVars => OwnInv'
<1> SUFFICES ASSUME PoolInv, SlotInv, [KVBlocksNext]_kvVars, workload.policy = "fcfs"
             PROVE  SlotInv'
  <2>1. [KVBlocksNext]_kvVars => workload' = workload
    BY DEF KVBlocksNext, kvVars
  <2> QED BY <2>1 DEF OwnInv
<1>1. ASSUME NEW r \in workload.clients, NEW n \in 1 .. NumTokens(r),
             Len(inflight) < MaxInFlight, AllocateWaiting(r, n) \/ AllocateRunning(r, n),
             UNCHANGED workload
      PROVE  SlotInv'
  <2>1. Allocates(r, HitBlocks(r), n) \/ Allocates(r, <<>>, n)
    BY <1>1, Clients, WaitingAllocates, RunningAllocates
  <2> QED BY <2>1, AllocSlot
<1>2. ASSUME NEW r \in Reqs, Free(r) PROVE SlotInv'
  BY <1>2, FreeSlot
<1>3. ASSUME NEW b \in Blocks, EvictBlock(b) PROVE SlotInv'
  <2>1. hash' = [hash EXCEPT ![b] = NoHash] /\ UNCHANGED <<table, computed, inflight, slots>>
    BY <1>3 DEF EvictBlock
  <2>2. hash \in [Blocks -> Hashes \cup {NoHash}]
    BY Types
  <2>3. \A x \in Blocks : hash'[x] \in {hash[x], NoHash}
    BY <2>1, <2>2
  <2> QED BY <2>1, <2>3, SlotsSame
<1>4. CASE ResetPrefixCache
  <2>1. hash' = [b \in Blocks |-> NoHash] /\ UNCHANGED <<table, computed, inflight, slots>>
    BY <1>4 DEF ResetPrefixCache
  <2> QED BY <2>1, SlotsSame
<1>5. CASE Execute
  BY <1>5, ExecuteSlot
<1>6. CASE UNCHANGED kvVars
  BY <1>6, SlotsSame DEF kvVars
<1>7. \A r, q, i, n : ~Withdraw(r, i, q, n)
  BY DEF Withdraw
<1> QED BY <1>1, <1>2, <1>3, <1>4, <1>5, <1>6, <1>7 DEF KVBlocksNext

LEMMA OwnAlways == KVBlocksSpec => []OwnInv
<1>1. KVBlocksInit => OwnInv
  BY SlotInit DEF OwnInv
<1> QED BY <1>1, SlotNext, PoolAlways, PTL DEF KVBlocksSpec

-----------------------------------------------------------------------------
\* The positions of r computed by executed steps are the first n: all computed ones,
\* or those before the oldest step in flight.
Executed(r, n) ==
    \/ Live(r) = {} /\ n = computed[r]
    \/ \E k \in Live(r) : /\ \A l \in Live(r) : k <= l
                          /\ n = IF inflight[k].first THEN 0 ELSE inflight[k].from

ShownKeys == \A r \in Reqs : \A n : Executed(r, n) => Shown(r) = Keys(r, n)

LEMMA OfExecuted ==
    ASSUME PoolInv, SlotInv, NEW r \in Reqs, NEW n, Executed(r, n)
    PROVE  /\ n \in Nat /\ n <= computed[r] /\ computed[r] \in Nat
           /\ \A p \in 1 .. n : \A k \in Live(r) : ~inflight[k].first /\ p <= inflight[k].from
<1>1. computed[r] \in Nat
  BY OfRequest
<1>2. CASE Live(r) = {} /\ n = computed[r]
  BY <1>1, <1>2
<1>3. ASSUME NEW k \in Live(r), \A l \in Live(r) : k <= l,
             n = IF inflight[k].first THEN 0 ELSE inflight[k].from
      PROVE  /\ n \in Nat /\ n <= computed[r]
             /\ \A p \in 1 .. n : \A l \in Live(r) : ~inflight[l].first /\ p <= inflight[l].from
  <2>1. \A l \in Live(r) : /\ l \in 1 .. Len(inflight) /\ inflight[l].from \in Nat
                           /\ inflight[l].to \in Nat /\ inflight[l].from < inflight[l].to
                           /\ inflight[l].to <= computed[r]
    BY OfLive DEF SlotInv
  <2>2. n \in Nat /\ n <= computed[r]
    <3>1. n = 0 \/ n = inflight[k].from
      BY <1>3
    <3> QED BY <1>1, <2>1, <3>1
  <2>3. ASSUME NEW p \in 1 .. n, NEW l \in Live(r)
        PROVE  ~inflight[l].first /\ p <= inflight[l].from
    <3>1. ~inflight[k].first /\ n = inflight[k].from
      BY <1>3, <2>3
    <3>2. CASE l = k
      BY <2>1, <3>1, <3>2
    <3>3. CASE l # k
      <4>1. k \in Int /\ l \in Int /\ k <= l
        BY <1>3, <2>1
      <4>2. k < l
        BY <3>3, <4>1
      <4>3. inflight[k].to <= inflight[l].from /\ ~inflight[l].first
        BY <4>2 DEF SlotInv, LiveInv
      <4>4. inflight[k].from \in Nat /\ inflight[k].to \in Nat /\ inflight[l].from \in Nat
            /\ inflight[k].from < inflight[k].to
        BY <2>1
      <4>5. p <= inflight[l].from
        BY <3>1, <4>3, <4>4
      <4> QED BY <4>3, <4>5
    <3> QED BY <3>2, <3>3
  <2> QED BY <2>2, <2>3
<1> QED BY <1>1, <1>2, <1>3 DEF Executed

LEMMA SomeExecuted ==
    ASSUME PoolInv, SlotInv, NEW r \in Reqs
    PROVE  \E n : Executed(r, n)
<1>1. Live(r) \in SUBSET Nat
  BY DEF Live
<1>2. CASE Live(r) = {}
  BY <1>2 DEF Executed
<1>3. CASE Live(r) # {}
  <2>1. PICK k \in Live(r) : \A l \in Live(r) : k <= l
    BY <1>1, <1>3, NatLeast
  <2> DEFINE m == IF inflight[k].first THEN 0 ELSE inflight[k].from
  <2>2. Executed(r, m)
    BY <2>1 DEF Executed
  <2> HIDE DEF m
  <2> QED BY <2>2
<1> QED BY <1>2, <1>3

\* What the table shows of the executed positions is the request's own.
LEMMA ExecutedOwn ==
    ASSUME PoolInv, SlotInv, NEW r \in Reqs, NEW n, Executed(r, n), NEW p \in 1 .. n
    PROVE  SlotOf(table[r], p) = Key(r, p)
<1>1. p \in 1 .. computed[r] /\ \A k \in Live(r) : ~inflight[k].first /\ p <= inflight[k].from
  BY OfExecuted
<1>2. \A l \in 1 .. Len(inflight) : ~Written(inflight[l], At(r, p), Offset(p))
  BY <1>1 DEF SlotInv, Settled
<1>3. WillHold(At(r, p), Offset(p), Key(r, p))
  BY <1>1 DEF SlotInv, OwnKeys
<1>4. slots[At(r, p)][Offset(p)] = Key(r, p)
  BY <1>2, <1>3 DEF WillHold, Written
<1> QED BY <1>4 DEF SlotOf, At, Place, Offset

LEMMA ShownOwn == PoolInv /\ SlotInv => ShownKeys
<1> SUFFICES ASSUME PoolInv, SlotInv, NEW r \in Reqs, NEW n, Executed(r, n)
             PROVE  Shown(r) = Keys(r, n)
  BY DEF ShownKeys
<1> DEFINE mine == {i \in DOMAIN inflight : inflight[i].req = r /\ inflight[i].live}
           k == CHOOSE i \in mine : \A j \in mine : i <= j
           m == IF mine = {} THEN computed[r]
                ELSE IF inflight[k].first THEN 0 ELSE inflight[k].from
<1>1. mine = Live(r)
  <2>1. DOMAIN inflight = 1 .. Len(inflight)
    BY Types
  <2> QED BY <2>1 DEF Live
<1>2. Shown(r) = [p \in 1 .. m |-> SlotOf(table[r], p)]
  BY DEF Shown
<1>3. m = n
  <2>1. CASE Live(r) = {}
    BY <1>1, <2>1 DEF Executed
  <2>2. CASE Live(r) # {}
    <3>1. PICK x \in Live(r) : /\ \A l \in Live(r) : x <= l
                               /\ n = IF inflight[x].first THEN 0 ELSE inflight[x].from
      BY <2>2 DEF Executed
    <3>2. k \in Live(r) /\ \A l \in Live(r) : k <= l
      <4>1. k = CHOOSE i \in Live(r) : \A j \in Live(r) : i <= j
        BY <1>1
      <4> QED BY <3>1, <4>1
    <3> HIDE DEF k, mine
    <3>3. k = x
      <4>1. k \in Int /\ x \in Int
        BY <3>1, <3>2 DEF Live
      <4> QED BY <3>1, <3>2, <4>1
    <3> QED BY <1>1, <2>2, <3>1, <3>3
  <2> QED BY <2>1, <2>2
<1> HIDE DEF m
<1> QED BY <1>2, <1>3, ExecutedOwn DEF Keys

-----------------------------------------------------------------------------
\* Scheduling a step, with hits or without, shows nothing new: it is executed later.
LEMMA AllocExecuted ==
    ASSUME NEW r, NEW hits, NEW n, Allocates(r, hits, n), SlotInv,
           NEW q \in Reqs, NEW m, Executed(q, m)
    PROVE  Executed(q, m)'
<1> DEFINE N == Len(inflight)
<1>1. /\ N \in Nat /\ inflight'[N + 1] = NewStep(r, hits, n)
      /\ \A k \in 1 .. N : inflight'[k] = inflight[k]
  BY AllocQueue
<1>2. PoolInv /\ r \in Reqs /\ (table[r] = <<>> \/ hits = <<>>)
  BY DEF Allocates
<1>3. Live(q)' = IF q = r THEN Live(q) \cup {N + 1} ELSE Live(q)
  BY AllocLive
<1>4. \A k \in Live(q) : k \in 1 .. N
  BY DEF Live
<1> HIDE DEF N
<1>5. ASSUME NEW k \in Live(q), \A l \in Live(q) : k <= l,
             m = IF inflight[k].first THEN 0 ELSE inflight[k].from
      PROVE  Executed(q, m)'
  <2>1. k \in Live(q)' /\ k <= N + 1 /\ inflight'[k] = inflight[k]
    BY <1>1, <1>3, <1>4
  <2>2. \A l \in Live(q)' : k <= l
    BY <1>3, <1>5, <2>1
  <2>3. m = IF inflight'[k].first THEN 0 ELSE inflight'[k].from
    BY <1>5, <2>1
  <2> QED BY <2>1, <2>2, <2>3 DEF Executed
<1>6. CASE Live(q) = {} /\ m = computed[q] /\ q # r
  <2>1. computed'[q] = computed[q]
    BY <1>2, <1>6, AllocDef, Types
  <2> QED BY <1>3, <1>6, <2>1 DEF Executed
<1>7. CASE Live(q) = {} /\ m = computed[q] /\ q = r
  <2>1. Live(q)' = {N + 1} /\ N + 1 <= N + 1
    BY <1>1, <1>3, <1>7
  <2>2. /\ inflight'[N + 1].first = (table[r] = <<>>)
        /\ inflight'[N + 1].from = Start(r, hits)
    BY <1>1 DEF NewStep
  <2>3. /\ table[r] = <<>> => computed[r] = 0
        /\ hits = <<>> => Start(r, hits) = computed[r]
    BY AllocStart
  <2>4. m = IF inflight'[N + 1].first THEN 0 ELSE inflight'[N + 1].from
    BY <1>2, <1>7, <2>2, <2>3
  <2>5. N + 1 \in Live(q)' /\ \A l \in Live(q)' : N + 1 <= l
    BY <2>1
  <2> QED BY <2>4, <2>5 DEF Executed
<1> QED BY <1>5, <1>6, <1>7 DEF Executed

\* Freeing a request shows nothing of it, and as much of the others.
LEMMA FreeExecuted ==
    ASSUME PoolInv, NEW r \in Reqs, Free(r), NEW q \in Reqs, NEW m, Executed(q, m)
    PROVE  Executed(q, IF q = r THEN 0 ELSE m)'
<1>1. Live(q)' = IF q = r THEN {} ELSE Live(q)
  BY FreeLive
<1>2. computed'[q] = IF q = r THEN 0 ELSE computed[q]
  <2>1. computed' = [computed EXCEPT ![r] = 0]
    BY DEF Free, Release
  <2> QED BY <2>1, Types
<1>3. CASE q = r
  BY <1>1, <1>2, <1>3 DEF Executed
<1>4. CASE q # r
  <2>1. \A k \in Live(q) : /\ inflight'[k].first = inflight[k].first
                           /\ inflight'[k].from = inflight[k].from
    BY FreeSteps DEF Live
  <2>2. Executed(q, m)'
    BY <1>1, <1>2, <1>4, <2>1 DEF Executed
  <2> QED BY <1>4, <2>2
<1> QED BY <1>3, <1>4

\* Executing a step of a request that has it still shows its tokens.
LEMMA ExecuteExecuted ==
    ASSUME PoolInv, SlotInv, Execute, NEW q \in Reqs, NEW m, Executed(q, m),
           NEW n, n = IF 1 \in Live(q) THEN inflight[1].to ELSE m
    PROVE  Executed(q, n)'
<1> DEFINE N == Len(inflight)
<1>1. /\ N \in Nat \ {0} /\ \A k \in 1 .. N - 1 : inflight'[k] = inflight[k + 1]
  BY ExecuteSlots
<1>2. \A k : k \in Live(q)' <=> k \in 1 .. N - 1 /\ k + 1 \in Live(q)
  BY ExecuteLive
<1>3. computed'[q] = computed[q]
  BY DEF Execute
<1>4. \A k \in Live(q) : k \in 1 .. N
  BY DEF Live
<1> HIDE DEF N
\* The oldest step left is l.
<1>5. ASSUME NEW l \in Live(q), l > 1, \A x \in Live(q) : x = 1 \/ l <= x,
             n = IF inflight[l].first THEN 0 ELSE inflight[l].from
      PROVE  Executed(q, n)'
  <2>1. l - 1 \in 1 .. N - 1 /\ (l - 1) + 1 = l
    BY <1>1, <1>4, <1>5
  <2>2. l - 1 \in Live(q)' /\ inflight'[l - 1] = inflight[l]
    BY <1>1, <1>2, <2>1
  <2>3. ASSUME NEW x \in Live(q)' PROVE l - 1 <= x
    <3>1. x \in 1 .. N - 1 /\ x + 1 \in Live(q)
      BY <1>2
    <3>2. x + 1 # 1
      BY <1>1, <3>1
    <3>3. l <= x + 1
      BY <1>5, <3>1, <3>2
    <3> QED BY <1>1, <2>1, <3>1, <3>3
  <2>4. \E k \in Live(q)' : /\ \A x \in Live(q)' : k <= x
                            /\ n = IF inflight'[k].first THEN 0 ELSE inflight'[k].from
    <3> DEFINE k == l - 1
    <3> HIDE DEF k
    <3>1. k \in Live(q)' /\ inflight'[k] = inflight[l] /\ \A x \in Live(q)' : k <= x
      BY <2>2, <2>3 DEF k
    <3> QED BY <1>5, <3>1
  <2> QED BY <2>4 DEF Executed
<1>6. CASE 1 \in Live(q)
  <2>1. CASE Live(q) = {1} /\ inflight[1].to = computed[q]
    <3>1. Live(q)' = {}
      <4> SUFFICES ASSUME NEW k \in Live(q)' PROVE FALSE
        OBVIOUS
      <4>1. k \in 1 .. N - 1 /\ k + 1 = 1
        BY <1>2, <2>1
      <4> QED BY <1>1, <4>1
    <3> QED BY <1>3, <1>6, <2>1, <3>1 DEF Executed
  <2>2. ASSUME NEW l \in Live(q), l > 1, \A x \in Live(q) : x = 1 \/ l <= x,
               inflight[l].from = inflight[1].to, ~inflight[l].first
        PROVE  Executed(q, n)'
    BY <1>5, <1>6, <2>2
  <2> QED BY <1>6, <2>1, <2>2, NextLive
<1>7. CASE 1 \notin Live(q)
  <2>1. CASE Live(q) = {} /\ m = computed[q]
    <3>1. Live(q)' = {}
      BY <1>2, <2>1
    <3> QED BY <1>3, <1>7, <2>1, <3>1 DEF Executed
  <2>2. ASSUME NEW l \in Live(q), \A x \in Live(q) : l <= x,
               m = IF inflight[l].first THEN 0 ELSE inflight[l].from
        PROVE  Executed(q, n)'
    <3>1. l > 1
      BY <1>1, <1>4, <1>7, <2>2
    <3> QED BY <1>5, <1>7, <2>2, <3>1
  <2> QED BY <2>1, <2>2 DEF Executed
<1> QED BY <1>6, <1>7

-----------------------------------------------------------------------------
\* A step that leaves the tables, the computed tokens and the queue alone.
LEMMA SameExecuted ==
    ASSUME UNCHANGED <<table, computed, inflight>>, NEW q \in Reqs, NEW m, Executed(q, m)
    PROVE  Executed(q, m)'
BY DEF Executed, Live

\* What is shown after a step, from what is executed before and after it.
LEMMA ShownNext ==
    ASSUME ShownKeys, ShownKeys', NEW q \in Reqs, NEW m, Executed(q, m),
           NEW n, Executed(q, n)'
    PROVE  Shown(q) = Keys(q, m) /\ Shown(q)' = Keys(q, n)
<1>1. Shown(q) = Keys(q, m)
  BY DEF ShownKeys
<1>2. Shown(q)' = Keys(q, n)
  <2>1. \A r \in Reqs : \A x : Executed(r, x)' => Shown(r)' = Keys(r, x)'
    BY DEF ShownKeys
  <2>2. Keys(q, n)' = Keys(q, n)
    BY DEF Keys, Key
  <2> QED BY <2>1, <2>2
<1> QED BY <1>1, <1>2

LEMMA StepOfPrivate ==
    ASSUME PoolInv, SlotInv, ShownKeys, ShownKeys', [KVBlocksNext]_kvVars,
           workload.policy = "fcfs"
    PROVE  Private!KVNext \/ Caches' = Caches
<1> DEFINE kv == Caches
<1>0. kv' = [r \in Reqs |-> Shown(r)'] /\ kv = [r \in Reqs |-> Shown(r)]
  BY DEF Caches
\* A step after which as much is executed as before.
<1>1. ASSUME \A q \in Reqs : \A m : Executed(q, m) => Executed(q, m)'
      PROVE  kv' = kv
  <2>1. ASSUME NEW q \in Reqs PROVE Shown(q)' = Shown(q)
    <3>1. PICK m : Executed(q, m)
      BY SomeExecuted
    <3> QED BY <1>1, <3>1, ShownNext
  <2> QED BY <1>0, <2>1
<1>2. ASSUME NEW r \in workload.clients, NEW n \in 1 .. NumTokens(r),
             Len(inflight) < MaxInFlight, AllocateWaiting(r, n) \/ AllocateRunning(r, n),
             UNCHANGED workload
      PROVE  kv' = kv
  <2>1. Allocates(r, HitBlocks(r), n) \/ Allocates(r, <<>>, n)
    BY <1>2, Clients, WaitingAllocates, RunningAllocates
  <2>2. \A q \in Reqs : \A m : Executed(q, m) => Executed(q, m)'
    BY <2>1, AllocExecuted
  <2> QED BY <1>1, <2>2
<1>3. ASSUME UNCHANGED <<table, computed, inflight>> PROVE kv' = kv
  BY <1>1, <1>3, SameExecuted
<1>4. ASSUME NEW r \in Reqs, Free(r) PROVE Private!KVNext \/ kv' = kv
  <2>1. ASSUME NEW q \in Reqs
        PROVE  /\ q # r => Shown(q)' = Shown(q)
               /\ q = r => Shown(q)' = <<>>
    <3>1. PICK m : Executed(q, m)
      BY SomeExecuted
    <3>2. Executed(q, IF q = r THEN 0 ELSE m)'
      BY <1>4, <3>1, FreeExecuted
    <3>3. CASE q # r
      BY <3>1, <3>2, <3>3, ShownNext
    <3>4. CASE q = r
      <4>1. Shown(q)' = Keys(q, 0)
        BY <3>1, <3>2, <3>4, ShownNext
      <4>2. Keys(q, 0) = <<>>
        BY DEF Keys
      <4> QED BY <3>4, <4>1, <4>2
    <3> QED BY <3>3, <3>4
  <2>2. kv' = [kv EXCEPT ![r] = <<>>]
    BY <1>0, <2>1
  <2>3. CASE kv[r] = <<>>
    BY <1>0, <2>2, <2>3
  <2>4. CASE kv[r] # <<>>
    <3>1. Private!Drop(r)
      BY <2>2, <2>4 DEF Private!Drop
    <3> QED BY <3>1 DEF Private!KVNext
  <2> QED BY <2>3, <2>4
<1>5. ASSUME Execute PROVE Private!KVNext \/ kv' = kv
  <2>1. CASE \E r \in Reqs : 1 \in Live(r)
    <3>1. PICK r \in Reqs : 1 \in Live(r)
      BY <2>1
    <3> DEFINE n == inflight[1].to
    <3>2. /\ n \in Nat /\ n <= NumTokens(r) /\ inflight[1].from \in Nat /\ inflight[1].from < n
          /\ inflight[1].req = r
      <4>1. /\ n \in Nat /\ inflight[1].from \in Nat /\ inflight[1].from < n
            /\ inflight[1].req = r /\ n <= computed[r] /\ computed[r] \in Nat
        BY <3>1, OfLive DEF SlotInv
      <4>2. computed[r] <= NumTokens(r) /\ NumTokens(r) \in Nat
        BY OfRequest
      <4> HIDE DEF n
      <4> QED BY <4>1, <4>2
    <3>3. ASSUME NEW q \in Reqs, q # r PROVE Shown(q)' = Shown(q)
      <4>1. 1 \notin Live(q)
        BY <3>2, <3>3 DEF Live
      <4>2. PICK m : Executed(q, m)
        BY SomeExecuted
      <4>3. Executed(q, m)'
        BY <1>5, <4>1, <4>2, ExecuteExecuted
      <4> QED BY <4>2, <4>3, ShownNext
    <3>4. PICK m : Executed(r, m)
      BY SomeExecuted
    <3>5. m \in Nat /\ m < n
      <4>1. m \in Nat /\ \A p \in 1 .. m : p <= inflight[1].from
        BY <3>1, <3>4, OfExecuted
      <4>2. m = 0 \/ m \in 1 .. m
        BY <4>1
      <4> HIDE DEF n
      <4> QED BY <3>2, <4>1, <4>2
    <3>6. PICK x : x = n
      OBVIOUS
    <3>7. Executed(r, x)'
      BY <1>5, <3>1, <3>4, <3>6, ExecuteExecuted
    <3>8. Shown(r) = Keys(r, m) /\ Shown(r)' = Keys(r, x)
      BY <3>4, <3>7, ShownNext
    <3>9. x \in Nat /\ m < x /\ x <= NumTokens(r) /\ NumTokens(r) \in Nat
      BY <3>2, <3>5, <3>6, PromptLen
    <3> HIDE DEF n
    <3>10. kv' = [kv EXCEPT ![r] = Keys(r, x)]
      BY <1>0, <3>3, <3>8
    <3>11. Len(kv[r]) = m
      BY <1>0, <3>5, <3>8 DEF Keys
    <3>12. x \in Len(kv[r]) + 1 .. Len(Prompt[r])
      BY <3>5, <3>9, <3>11 DEF NumTokens
    <3>13. Private!Upto(r, x) = Keys(r, x)
      BY DEF Private!Upto, Private!Position, Keys, Key
    <3>14. Private!Grow(r)
      BY <3>10, <3>12, <3>13 DEF Private!Grow
    <3> QED BY <3>14 DEF Private!KVNext
  <2>2. CASE \A r \in Reqs : 1 \notin Live(r)
    <3>1. \A q \in Reqs : \A m : Executed(q, m) => Executed(q, m)'
      BY <1>5, <2>2, ExecuteExecuted
    <3> QED BY <1>1, <3>1
  <2> QED BY <2>1, <2>2
<1>6. ASSUME NEW b \in Blocks, EvictBlock(b) PROVE kv' = kv
  BY <1>3, <1>6 DEF EvictBlock
<1>7. CASE ResetPrefixCache
  BY <1>3, <1>7 DEF ResetPrefixCache
<1>8. CASE UNCHANGED kvVars
  BY <1>3, <1>8 DEF kvVars
<1>9. \A r, q, i, n : ~Withdraw(r, i, q, n)
  BY DEF Withdraw
<1> QED BY <1>2, <1>4, <1>5, <1>6, <1>7, <1>8, <1>9 DEF KVBlocksNext

LEMMA InitOfPrivate == KVBlocksInit => Private!KVInit
<1> SUFFICES ASSUME KVBlocksInit PROVE Private!KVInit
  OBVIOUS
<1>1. inflight = <<>> /\ computed = [r \in Reqs |-> 0]
  BY DEF KVBlocksInit
<1>2. ASSUME NEW r \in Reqs PROVE Shown(r) = <<>>
  <2>1. {i \in DOMAIN inflight : inflight[i].req = r /\ inflight[i].live} = {}
    BY <1>1
  <2>2. Shown(r) = [p \in 1 .. 0 |-> SlotOf(table[r], p)]
    BY <1>1, <2>1 DEF Shown
  <2> QED BY <2>2
<1> QED BY <1>2 DEF Private!KVInit, Caches

\* For any requests, prompts, number and size of blocks, and any number of steps
\* in flight: under the FCFS policy, where preemption never takes back a scheduled
\* step, prefix hits, block reuse, preemption, eviction and steps executed after their
\* request was freed never show. What a request's block table shows of its executed
\* steps is exactly the keys and values of its own tokens; it grows when the worker
\* executes a step of the request and is dropped by free as a whole. Under the priority
\* policy the withdrawal of a step breaks it, see HitsAreComputed.
THEOREM EveryRequestHasItsOwnCacheHolds == KVBlocksSpec => EveryRequestHasItsOwnCache
<1>2. ASSUME PoolInv, OwnInv, PoolInv', OwnInv', [KVBlocksNext]_kvVars
      PROVE  [workload.policy = "fcfs" => Private!KVNext]_Caches
  <2> SUFFICES ASSUME workload.policy = "fcfs" PROVE Private!KVNext \/ Caches' = Caches
    OBVIOUS
  <2>1. workload' = workload
    BY <1>2 DEF KVBlocksNext, kvVars
  <2>2. SlotInv /\ SlotInv'
    BY <1>2, <2>1 DEF OwnInv
  <2>3. ShownKeys
    BY <1>2, <2>2, ShownOwn
  <2>4. ShownKeys'
    <3>1. PoolInv' /\ SlotInv' => ShownKeys'
      BY ShownOwn, PTL
    <3> QED BY <1>2, <2>2, <3>1
  <2> QED BY <1>2, <2>2, <2>3, <2>4, StepOfPrivate
<1> QED BY <1>2, PoolAlways, OwnAlways, InitOfPrivate, PTL
        DEF KVBlocksSpec, EveryRequestHasItsOwnCache

-----------------------------------------------------------------------------
(* The linked list of free blocks implements the free queue.               *)

\* The nodes of a list, the fake ends included.
Node(s, i) == IF i = 0 THEN FakeHead ELSE IF i = Len(s) + 1 THEN FakeTail ELSE s[i]

\* The links thread a sequence of distinct blocks, forwards and backwards, and no
\* other block has a link.
Row(s) == s \in Seq(ListBlocks) /\ \A i, j \in 1 .. Len(s) : s[i] = s[j] => i = j
Threads(s, nx, pv) ==
    /\ Row(s)
    /\ nx \in [Nodes -> Nodes \cup {Nil}] /\ pv \in [Nodes -> Nodes \cup {Nil}]
    /\ \A i \in 0 .. Len(s) : nx[Node(s, i)] = Node(s, i + 1) /\ pv[Node(s, i + 1)] = Node(s, i)
    /\ \A b \in ListBlocks : b \notin ToSet(s) => nx[b] = Nil /\ pv[b] = Nil
    /\ nx[FakeTail] = Nil /\ pv[FakeHead] = Nil

ListInv == \E s : Threads(s, next, prev) /\ numFree = Len(s)

\* The kinds of nodes are apart.
LEMMA NodeKinds ==
    /\ FakeHead \notin ListBlocks /\ FakeTail \notin ListBlocks /\ Nil \notin ListBlocks
    /\ FakeHead # FakeTail /\ FakeHead # Nil /\ FakeTail # Nil /\ Nil \notin Nodes
    /\ \A b : b \in Nodes <=> b \in ListBlocks \/ b = FakeHead \/ b = FakeTail
<1>1. \A b \in ListBlocks : b \in Int /\ b >= 0
  BY ListAssumption DEF ListBlocks
<1>2. FakeHead = -1 /\ FakeTail = -2 /\ Nil = -3
  BY DEF FakeHead, FakeTail, Nil
<1>3. /\ FakeHead \notin ListBlocks /\ FakeTail \notin ListBlocks /\ Nil \notin ListBlocks
      /\ FakeHead # FakeTail /\ FakeHead # Nil /\ FakeTail # Nil
  BY <1>1, <1>2
<1> QED BY <1>3 DEF Nodes

\* The nodes of a list are distinct.
LEMMA NodeFacts ==
    ASSUME NEW s, Row(s)
    PROVE  /\ Len(s) \in Nat /\ DOMAIN s = 1 .. Len(s)
           /\ Node(s, 0) = FakeHead /\ Node(s, Len(s) + 1) = FakeTail
           /\ \A i \in 1 .. Len(s) : Node(s, i) = s[i] /\ s[i] \in ListBlocks
           /\ \A i \in 0 .. Len(s) + 1 : Node(s, i) \in Nodes
           /\ \A i, j \in 0 .. Len(s) + 1 : Node(s, i) = Node(s, j) => i = j
           /\ \A b : b \in ToSet(s) <=> \E i \in 1 .. Len(s) : s[i] = b
<1> DEFINE n == Len(s)
<1>1. n \in Nat /\ DOMAIN s = 1 .. n /\ \A i \in 1 .. n : s[i] \in ListBlocks
  BY DEF Row
<1>2. \A i, j \in 1 .. n : s[i] = s[j] => i = j
  BY DEF Row
<1>a. \A b : b \in ToSet(s) <=> \E i \in 1 .. n : s[i] = b
  BY <1>1 DEF ToSet
<1> HIDE DEF n
<1>3. Node(s, 0) = FakeHead
  BY DEF Node
<1>4. Node(s, n + 1) = FakeTail
  <2>1. n + 1 # 0
    BY <1>1
  <2> QED BY <2>1 DEF Node, n
<1>5. \A i \in 1 .. n : Node(s, i) = s[i]
  <2>1. \A i \in 1 .. n : i # 0 /\ i # n + 1
    BY <1>1
  <2> QED BY <2>1 DEF Node, n
<1>6. \A i \in 0 .. n + 1 : i = 0 \/ i = n + 1 \/ i \in 1 .. n
  BY <1>1
<1>7. \A i \in 0 .. n + 1 : Node(s, i) \in Nodes
  BY <1>1, <1>3, <1>4, <1>5, <1>6, NodeKinds
<1>8. \A i, j \in 0 .. n + 1 : Node(s, i) = Node(s, j) => i = j
  <2> SUFFICES ASSUME NEW i \in 0 .. n + 1, NEW j \in 0 .. n + 1, Node(s, i) = Node(s, j) PROVE i = j
    OBVIOUS
  <2>1. CASE i \in 1 .. n /\ j \in 1 .. n
    BY <1>2, <1>5, <2>1
  <2>2. CASE i \in 1 .. n /\ j \notin 1 .. n
    BY <1>1, <1>3, <1>4, <1>5, <1>6, <2>2, NodeKinds
  <2>3. CASE i \notin 1 .. n /\ j \in 1 .. n
    BY <1>1, <1>3, <1>4, <1>5, <1>6, <2>3, NodeKinds
  <2>4. CASE i \notin 1 .. n /\ j \notin 1 .. n
    <3>1. (i = 0 \/ i = n + 1) /\ (j = 0 \/ j = n + 1)
      BY <1>6, <2>4
    <3> QED BY <1>3, <1>4, <3>1, NodeKinds
  <2> QED BY <2>1, <2>2, <2>3, <2>4
<1> QED BY <1>1, <1>3, <1>4, <1>5, <1>7, <1>8, <1>a DEF n

\* A list is not longer than there are blocks.
LEMMA RowFits ==
    ASSUME NEW s, Row(s)
    PROVE  Len(s) <= ListSize
<1>1. Len(s) \in Nat /\ ListSize \in Nat
  BY NodeFacts, ListAssumption
<1>2. IsFiniteSet(ListBlocks) /\ Cardinality(ListBlocks) = ListSize
  <2>1. 0 \in Int /\ ListSize - 1 \in Int /\ ListSize - 1 - 0 + 1 = ListSize /\ (0 > ListSize - 1 => ListSize = 0)
    BY <1>1
  <2>2. IsFiniteSet(0 .. ListSize - 1)
        /\ Cardinality(0 .. ListSize - 1) = IF 0 > ListSize - 1 THEN 0 ELSE ListSize - 1 - 0 + 1
    BY <2>1, FS_Interval
  <2> QED BY <2>1, <2>2 DEF ListBlocks
<1>3. IsFiniteSet(1 .. Len(s)) /\ Cardinality(1 .. Len(s)) = Len(s)
  <2>1. 1 \in Int /\ Len(s) \in Int /\ Len(s) - 1 + 1 = Len(s) /\ (1 > Len(s) => Len(s) = 0)
    BY <1>1
  <2>2. IsFiniteSet(1 .. Len(s))
        /\ Cardinality(1 .. Len(s)) = IF 1 > Len(s) THEN 0 ELSE Len(s) - 1 + 1
    BY <2>1, FS_Interval
  <2> QED BY <2>1, <2>2
<1>4. s \in Injection(1 .. Len(s), ListBlocks)
  <2>1. s \in [1 .. Len(s) -> ListBlocks]
    BY DEF Row
  <2>2. \A a, b \in 1 .. Len(s) : s[a] = s[b] => a = b
    BY DEF Row
  <2> QED BY <2>1, <2>2 DEF Injection, IsInjective
<1>5. Cardinality(1 .. Len(s)) <= Cardinality(ListBlocks)
  BY <1>2, <1>4, FS_Injection
<1> QED BY <1>2, <1>3, <1>5

\* A set of numbers that has 0 and with a number its successor.
LEMMA ListClimb ==
    ASSUME NEW n \in Nat, NEW G, 0 \in G, \A i \in 1 .. n : i - 1 \in G => i \in G
    PROVE  \A i \in 0 .. n : i \in G
<1> DEFINE S == {i \in 0 .. n : i \notin G}
<1>1. SUFFICES ASSUME S # {} PROVE FALSE
  OBVIOUS
<1>2. S \in SUBSET Nat
  OBVIOUS
<1>3. PICK m \in S : \A y \in S : m <= y
  BY <1>1, <1>2, NatLeast
<1>4. m \in 0 .. n /\ m \notin G /\ m # 0
  BY <1>3
<1>5. m \in 1 .. n /\ m - 1 \in 0 .. n /\ ~(m <= m - 1)
  BY <1>4
<1>6. m - 1 \in G
  BY <1>3, <1>5
<1> QED BY <1>4, <1>5, <1>6

\* The nodes met along the links, one per step.
Along(nx, f) ==
    f = [i \in 0 .. ListSize |->
            IF i = 0 THEN FakeHead
            ELSE IF f[i - 1] \in {FakeTail, Nil} THEN Nil ELSE nx[f[i - 1]]]

WalkAlong(nx) ==
    LET f == CHOOSE f : Along(nx, f)
    IN  [i \in 1 .. Cardinality({i \in 1 .. ListSize : f[i] \in ListBlocks}) |-> f[i]]

\* The walk is the walk along the current links.
LEMMA WalkIs == Walk = WalkAlong(next) /\ Walk' = WalkAlong(next')
BY DEF Walk, WalkAlong, Along

\* The walk finds the sequence the links thread.
LEMMA WalkFinds ==
    ASSUME NEW s, NEW nx, NEW pv, Threads(s, nx, pv)
    PROVE  WalkAlong(nx) = s
<1> DEFINE n == Len(s)
           g == [i \in 0 .. ListSize |-> IF i <= n + 1 THEN Node(s, i) ELSE Nil]
           f == CHOOSE f : Along(nx, f)
<1>1. Row(s) /\ \A i \in 0 .. n : nx[Node(s, i)] = Node(s, i + 1)
  BY DEF Threads
<1>2. /\ n \in Nat /\ DOMAIN s = 1 .. n
      /\ Node(s, 0) = FakeHead /\ Node(s, n + 1) = FakeTail
      /\ \A i \in 1 .. n : Node(s, i) = s[i] /\ s[i] \in ListBlocks
      /\ n <= ListSize /\ ListSize \in Nat
  BY <1>1, NodeFacts, RowFits, ListAssumption
<1> HIDE DEF n
<1>3. ASSUME NEW i \in 0 .. ListSize, i # 0
      PROVE  g[i] = IF g[i - 1] \in {FakeTail, Nil} THEN Nil ELSE nx[g[i - 1]]
  <2>0. i \in Nat /\ i - 1 \in 0 .. ListSize /\ (i - 1) + 1 = i
    BY <1>2, <1>3
  <2>1. CASE i <= n + 1
    <3>1. i - 1 \in 0 .. n /\ i - 1 <= n + 1
      BY <1>2, <1>3, <2>0, <2>1
    <3>2. g[i - 1] = Node(s, i - 1) /\ g[i] = Node(s, i)
      BY <2>0, <2>1, <3>1
    <3>3. Node(s, i - 1) \notin {FakeTail, Nil}
      <4>1. i - 1 = 0 \/ i - 1 \in 1 .. n
        BY <1>2, <3>1
      <4> QED BY <1>2, <4>1, NodeKinds
    <3>4. nx[Node(s, i - 1)] = Node(s, i)
      BY <1>1, <2>0, <3>1
    <3> HIDE DEF g
    <3> QED BY <3>2, <3>3, <3>4
  <2>2. CASE i > n + 1
    <3>1. g[i] = Nil
      <4>1. ~(i <= n + 1)
        BY <1>2, <2>0, <2>2
      <4> QED BY <4>1
    <3>2. CASE i - 1 = n + 1
      <4>1. g[i - 1] = FakeTail
        <5>1. i - 1 <= n + 1
          BY <1>2, <2>0, <3>2
        <5>2. g[i - 1] = Node(s, i - 1)
          BY <2>0, <5>1
        <5> QED BY <1>2, <3>2, <5>2
      <4> HIDE DEF g
      <4> QED BY <3>1, <4>1
    <3>3. CASE i - 1 # n + 1
      <4>1. g[i - 1] = Nil
        <5>1. ~(i - 1 <= n + 1)
          BY <1>2, <2>0, <2>2, <3>3
        <5> QED BY <2>0, <5>1
      <4> HIDE DEF g
      <4> QED BY <3>1, <4>1
    <3> QED BY <3>2, <3>3
  <2> QED BY <1>2, <2>0, <2>1, <2>2
<1>4. g[0] = FakeHead
  <2>1. 0 \in 0 .. ListSize /\ 0 <= n + 1
    BY <1>2
  <2> QED BY <1>2, <2>1
<1>5. Along(nx, g)
  <2>1. DOMAIN g = 0 .. ListSize /\ g = [i \in 0 .. ListSize |-> g[i]]
    OBVIOUS
  <2> HIDE DEF g
  <2>2. \A i \in 0 .. ListSize :
            g[i] = IF i = 0 THEN FakeHead ELSE IF g[i - 1] \in {FakeTail, Nil} THEN Nil ELSE nx[g[i - 1]]
    BY <1>3, <1>4
  <2> QED BY <2>1, <2>2 DEF Along
<1>6. Along(nx, f)
  <2> HIDE DEF g
  <2> QED BY <1>5
<1>7. WalkAlong(nx) = [i \in 1 .. Cardinality({i \in 1 .. ListSize : f[i] \in ListBlocks}) |-> f[i]]
  BY DEF WalkAlong
<1> HIDE DEF f, g
<1>8. \A i \in 0 .. ListSize : f[i] = g[i]
  <2> DEFINE G == {i \in 0 .. ListSize : f[i] = g[i]}
  <2>1. 0 \in G
    <3>1. 0 \in 0 .. ListSize
      BY <1>2
    <3>2. f[0] = FakeHead
      BY <1>6, <3>1 DEF Along
    <3> QED BY <1>4, <3>1, <3>2
  <2>2. ASSUME NEW i \in 1 .. ListSize, i - 1 \in G PROVE i \in G
    <3>1. i \in 0 .. ListSize /\ i # 0
      BY <1>2
    <3>2. f[i] = IF f[i - 1] \in {FakeTail, Nil} THEN Nil ELSE nx[f[i - 1]]
      BY <1>6, <3>1 DEF Along
    <3>3. g[i] = IF g[i - 1] \in {FakeTail, Nil} THEN Nil ELSE nx[g[i - 1]]
      BY <1>3, <3>1
    <3>4. f[i - 1] = g[i - 1]
      BY <2>2
    <3> QED BY <3>1, <3>2, <3>3, <3>4
  <2>3. \A i \in 0 .. ListSize : i \in G
    <3> HIDE DEF G
    <3> QED BY <1>2, <2>1, <2>2, ListClimb
  <2> QED BY <2>3
<1>9. \A i \in 1 .. n : f[i] = s[i]
  <2>1. \A i \in 1 .. n : i \in 0 .. ListSize /\ i <= n + 1
    BY <1>2
  <2> QED BY <1>2, <1>8, <2>1 DEF g
<1>10. {i \in 1 .. ListSize : f[i] \in ListBlocks} = 1 .. n
  <2>1. ASSUME NEW i \in 1 .. ListSize, f[i] \in ListBlocks PROVE i \in 1 .. n
    <3> SUFFICES ASSUME i \notin 1 .. n PROVE FALSE
      OBVIOUS
    <3>1. i \in 0 .. ListSize /\ i > n /\ i \in Nat
      BY <1>2
    <3>2. f[i] = IF i <= n + 1 THEN Node(s, i) ELSE Nil
      BY <1>8, <3>1 DEF g
    <3>3. i <= n + 1 => i = n + 1
      BY <1>2, <3>1
    <3>4. f[i] \in {FakeTail, Nil}
      BY <1>2, <3>2, <3>3
    <3> QED BY <2>1, <3>4, NodeKinds
  <2>2. \A i \in 1 .. n : i \in 1 .. ListSize /\ f[i] \in ListBlocks
    BY <1>2, <1>9
  <2> QED BY <2>1, <2>2
<1>11. Cardinality(1 .. n) = n
  <2>1. 1 \in Int /\ n \in Int /\ n - 1 + 1 = n /\ (1 > n => n = 0)
    BY <1>2
  <2>2. Cardinality(1 .. n) = IF 1 > n THEN 0 ELSE n - 1 + 1
    BY <2>1, FS_Interval
  <2> QED BY <2>1, <2>2
<1>12. WalkAlong(nx) = [i \in 1 .. n |-> s[i]]
  BY <1>7, <1>9, <1>10, <1>11
<1>13. s = [i \in 1 .. n |-> s[i]]
  BY <1>1, <1>2 DEF Row
<1> QED BY <1>12, <1>13

\* The sequence without its elements a to b.
CutOut(t, s, a, b) ==
    /\ a \in 1 .. Len(s) /\ b \in a .. Len(s)
    /\ t \in Seq(ListBlocks) /\ Len(t) = Len(s) - (b - a + 1)
    /\ \A i \in 1 .. a - 1 : t[i] = s[i]
    /\ \A i \in a .. Len(t) : t[i] = s[i + (b - a + 1)]

\* The nodes around these elements are linked to each other, theirs removed.
CutLinks(nx2, pv2, nx, pv, s, a, b) ==
    /\ nx2 \in [Nodes -> Nodes \cup {Nil}] /\ pv2 \in [Nodes -> Nodes \cup {Nil}]
    /\ nx2[Node(s, a - 1)] = Node(s, b + 1) /\ pv2[Node(s, b + 1)] = Node(s, a - 1)
    /\ \A i \in a .. b : nx2[s[i]] = Nil /\ pv2[s[i]] = Nil
    /\ \A c \in Nodes : c # Node(s, a - 1) /\ (\A i \in a .. b : c # s[i]) => nx2[c] = nx[c]
    /\ \A c \in Nodes : c # Node(s, b + 1) /\ (\A i \in a .. b : c # s[i]) => pv2[c] = pv[c]

\* A cut leaves the links of the shorter sequence.
LEMMA CutThreads ==
    ASSUME NEW s, NEW nx, NEW pv, Threads(s, nx, pv), NEW t, NEW nx2, NEW pv2, NEW a, NEW b,
           CutOut(t, s, a, b), CutLinks(nx2, pv2, nx, pv, s, a, b)
    PROVE  Threads(t, nx2, pv2)
<1>1. PICK n, w : n = Len(s) /\ w = b - a + 1
  OBVIOUS
<1>2. PICK m : m = Len(t)
  OBVIOUS
<1>3. /\ n \in Nat /\ a \in Nat /\ b \in Nat /\ w \in Nat /\ m \in Nat
      /\ 1 <= a /\ a <= b /\ b <= n /\ w >= 1 /\ m = n - w /\ a + w = b + 1 /\ a <= m + 1
  <2>1. n \in Nat /\ m \in Nat
    BY <1>1, <1>2 DEF Threads, Row, CutOut
  <2>2. a \in 1 .. n /\ b \in a .. n /\ m = n - (b - a + 1)
    BY <1>1, <1>2 DEF CutOut
  <2>3. a \in Nat /\ 1 <= a /\ b \in Nat /\ a <= b /\ b <= n
    BY <2>1, <2>2
  <2> QED BY <1>1, <2>1, <2>2, <2>3
<1>t. /\ t \in Seq(ListBlocks) /\ (\A i \in 1 .. a - 1 : t[i] = s[i])
      /\ \A i \in a .. m : t[i] = s[i + w]
  BY <1>1, <1>2 DEF CutOut
<1>l. /\ nx2[Node(s, a - 1)] = Node(s, b + 1) /\ pv2[Node(s, b + 1)] = Node(s, a - 1)
      /\ \A i \in a .. b : nx2[s[i]] = Nil /\ pv2[s[i]] = Nil
  BY DEF CutLinks
<1>f. /\ \A c \in Nodes : c # Node(s, a - 1) /\ (\A i \in a .. b : c # s[i]) => nx2[c] = nx[c]
      /\ \A c \in Nodes : c # Node(s, b + 1) /\ (\A i \in a .. b : c # s[i]) => pv2[c] = pv[c]
  BY DEF CutLinks
<1>4. /\ Row(s) /\ \A i \in 0 .. n : nx[Node(s, i)] = Node(s, i + 1) /\ pv[Node(s, i + 1)] = Node(s, i)
      /\ \A c \in ListBlocks : c \notin ToSet(s) => nx[c] = Nil /\ pv[c] = Nil
      /\ nx[FakeTail] = Nil /\ pv[FakeHead] = Nil
  BY <1>1 DEF Threads
<1>5. /\ Node(s, 0) = FakeHead /\ Node(s, n + 1) = FakeTail
      /\ \A i \in 1 .. n : Node(s, i) = s[i] /\ s[i] \in ListBlocks
      /\ \A i \in 0 .. n + 1 : Node(s, i) \in Nodes
      /\ \A i, j \in 0 .. n + 1 : Node(s, i) = Node(s, j) => i = j
      /\ \A c : c \in ToSet(s) <=> \E i \in 1 .. n : s[i] = c
  BY <1>1, <1>4, NodeFacts
<1>6. \A i \in 1 .. m : \/ i < a /\ i \in 1 .. n /\ t[i] = s[i]
                        \/ i >= a /\ i + w \in 1 .. n /\ t[i] = s[i + w]
  <2> SUFFICES ASSUME NEW i \in 1 .. m
               PROVE  \/ i < a /\ i \in 1 .. n /\ t[i] = s[i]
                      \/ i >= a /\ i + w \in 1 .. n /\ t[i] = s[i + w]
    OBVIOUS
  <2>1. CASE i < a
    <3>1. i \in 1 .. a - 1 /\ i \in 1 .. n
      BY <1>3, <2>1
    <3> QED BY <1>t, <2>1, <3>1
  <2>2. CASE i >= a
    <3>1. i \in a .. m /\ i + w \in 1 .. n
      BY <1>3, <2>2
    <3> QED BY <1>t, <2>2, <3>1
  <2> QED BY <1>3, <2>1, <2>2
<1>7. Row(t)
  <2> SUFFICES ASSUME NEW i \in 1 .. m, NEW j \in 1 .. m, t[i] = t[j] PROVE i = j
    BY <1>2, <1>t DEF Row
  <2>1. \A x, y \in 1 .. n : s[x] = s[y] => x = y
    BY <1>1, <1>4 DEF Row
  <2>0. i \in Nat /\ j \in Nat
    OBVIOUS
  <2>2. CASE i < a /\ j < a
    <3>1. i \in 1 .. n /\ j \in 1 .. n /\ t[i] = s[i] /\ t[j] = s[j]
      BY <1>3, <1>6, <2>0, <2>2
    <3> QED BY <2>1, <3>1
  <2>3. CASE i >= a /\ j >= a
    <3>1. i + w = j + w
      BY <1>3, <1>6, <2>1, <2>3
    <3> QED BY <1>3, <3>1
  <2>4. CASE i < a /\ j >= a
    <3>1. i = j + w
      BY <1>3, <1>6, <2>1, <2>4
    <3> QED BY <1>3, <2>4, <3>1
  <2>5. CASE i >= a /\ j < a
    <3>1. i + w = j
      BY <1>3, <1>6, <2>1, <2>5
    <3> QED BY <1>3, <2>5, <3>1
  <2> QED BY <1>3, <2>2, <2>3, <2>4, <2>5
<1>8. /\ Node(t, 0) = FakeHead /\ Node(t, m + 1) = FakeTail /\ \A i \in 1 .. m : Node(t, i) = t[i]
      /\ \A c : c \in ToSet(t) <=> \E i \in 1 .. m : t[i] = c
  BY <1>2, <1>7, NodeFacts
<1>9. \A i \in 0 .. a - 1 : Node(t, i) = Node(s, i) /\ i \in 0 .. n + 1
  <2> SUFFICES ASSUME NEW i \in 0 .. a - 1 PROVE Node(t, i) = Node(s, i) /\ i \in 0 .. n + 1
    OBVIOUS
  <2>1. CASE i = 0
    BY <1>3, <1>5, <1>8, <2>1
  <2>2. CASE i # 0
    <3>0. i \in Nat /\ i >= 1 /\ i <= a - 1 /\ i <= m /\ i <= n
      BY <1>3, <2>2
    <3>1. i \in 1 .. a - 1 /\ i \in 1 .. m /\ i \in 1 .. n /\ i \in 0 .. n + 1
      BY <1>3, <3>0
    <3> QED BY <1>5, <1>8, <1>t, <3>1
  <2> QED BY <2>1, <2>2
<1>10. \A i \in a .. m + 1 : Node(t, i) = Node(s, i + w) /\ i + w \in b + 1 .. n + 1 /\ i + w \in 0 .. n + 1
  <2> SUFFICES ASSUME NEW i \in a .. m + 1
               PROVE Node(t, i) = Node(s, i + w) /\ i + w \in b + 1 .. n + 1 /\ i + w \in 0 .. n + 1
    OBVIOUS
  <2>0. i + w \in b + 1 .. n + 1 /\ i + w \in 0 .. n + 1
    BY <1>3
  <2>1. CASE i = m + 1
    <3>1. i + w = n + 1
      BY <1>3, <2>1
    <3> QED BY <1>5, <1>8, <2>0, <2>1, <3>1
  <2>2. CASE i # m + 1
    <3>1. i \in a .. m /\ i \in 1 .. m /\ i + w \in 1 .. n /\ i >= a
      BY <1>3, <2>2
    <3>2. t[i] = s[i + w]
      BY <1>t, <3>1
    <3> QED BY <1>5, <1>8, <2>0, <3>1, <3>2
  <2> QED BY <2>1, <2>2
\* What stays as it was.
<1>11. \A j \in 0 .. n + 1 : j # a - 1 /\ j \notin a .. b => nx2[Node(s, j)] = nx[Node(s, j)]
  <2> SUFFICES ASSUME NEW j \in 0 .. n + 1, j # a - 1, j \notin a .. b PROVE nx2[Node(s, j)] = nx[Node(s, j)]
    OBVIOUS
  <2>1. a - 1 \in 0 .. n + 1 /\ \A i \in a .. b : i \in 0 .. n + 1 /\ i \in 1 .. n
    BY <1>3
  <2>2. Node(s, j) # Node(s, a - 1) /\ \A i \in a .. b : Node(s, j) # s[i]
    BY <1>5, <2>1
  <2> QED BY <1>5, <1>f, <2>2
<1>12. \A j \in 0 .. n + 1 : j # b + 1 /\ j \notin a .. b => pv2[Node(s, j)] = pv[Node(s, j)]
  <2> SUFFICES ASSUME NEW j \in 0 .. n + 1, j # b + 1, j \notin a .. b PROVE pv2[Node(s, j)] = pv[Node(s, j)]
    OBVIOUS
  <2>1. b + 1 \in 0 .. n + 1 /\ \A i \in a .. b : i \in 0 .. n + 1 /\ i \in 1 .. n
    BY <1>3
  <2>2. Node(s, j) # Node(s, b + 1) /\ \A i \in a .. b : Node(s, j) # s[i]
    BY <1>5, <2>1
  <2> QED BY <1>5, <1>f, <2>2
<1>13. ASSUME NEW i \in 0 .. m PROVE nx2[Node(t, i)] = Node(t, i + 1) /\ pv2[Node(t, i + 1)] = Node(t, i)
  <2>0. i \in Nat /\ i <= m
    BY <1>3
  <2>1. CASE i < a - 1
    <3>1. /\ i \in 0 .. a - 1 /\ i + 1 \in 0 .. a - 1 /\ i \in 0 .. n /\ i # a - 1 /\ i \notin a .. b
          /\ i + 1 # b + 1 /\ i + 1 \notin a .. b /\ i \in 0 .. n + 1 /\ i + 1 \in 0 .. n + 1
      BY <1>3, <2>0, <2>1
    <3>2. Node(t, i) = Node(s, i) /\ Node(t, i + 1) = Node(s, i + 1)
      BY <1>9, <3>1
    <3>3. nx2[Node(s, i)] = nx[Node(s, i)] /\ pv2[Node(s, i + 1)] = pv[Node(s, i + 1)]
      BY <1>11, <1>12, <3>1
    <3> QED BY <1>4, <3>1, <3>2, <3>3
  <2>2. CASE i = a - 1
    <3>1. i \in 0 .. a - 1 /\ i + 1 = a /\ a \in a .. m + 1 /\ a + w = b + 1
      BY <1>3, <2>0, <2>2
    <3>2. Node(t, i) = Node(s, a - 1) /\ Node(t, i + 1) = Node(s, b + 1)
      BY <1>9, <1>10, <2>2, <3>1
    <3> QED BY <1>l, <3>2
  <2>3. CASE i > a - 1
    <3>0. PICK j : j = i + w
      OBVIOUS
    <3>1. /\ i \in a .. m + 1 /\ i + 1 \in a .. m + 1 /\ j \in 0 .. n /\ j # a - 1 /\ j \notin a .. b
          /\ j + 1 # b + 1 /\ j + 1 \notin a .. b /\ j \in 0 .. n + 1 /\ j + 1 \in 0 .. n + 1
          /\ (i + 1) + w = j + 1
      BY <1>3, <2>0, <2>3, <3>0
    <3>2. Node(t, i) = Node(s, j) /\ Node(t, i + 1) = Node(s, j + 1)
      BY <1>10, <3>0, <3>1
    <3>3. nx2[Node(s, j)] = nx[Node(s, j)] /\ pv2[Node(s, j + 1)] = pv[Node(s, j + 1)]
      BY <1>11, <1>12, <3>1
    <3> QED BY <1>4, <3>1, <3>2, <3>3
  <2> QED BY <1>3, <2>0, <2>1, <2>2, <2>3
<1>14. ASSUME NEW c \in ListBlocks, c \notin ToSet(t) PROVE nx2[c] = Nil /\ pv2[c] = Nil
  <2>1. CASE c \notin ToSet(s)
    <3>1. \A i \in 1 .. n : c # s[i]
      BY <1>5, <2>1
    <3>2. \A j \in 0 .. n + 1 : c # Node(s, j)
      <4>1. \A j \in 0 .. n + 1 : j = 0 \/ j = n + 1 \/ j \in 1 .. n
        BY <1>3
      <4> QED BY <1>5, <3>1, <4>1, NodeKinds
    <3>3. a - 1 \in 0 .. n + 1 /\ b + 1 \in 0 .. n + 1 /\ \A i \in a .. b : i \in 1 .. n
      BY <1>3
    <3>4. nx2[c] = nx[c] /\ pv2[c] = pv[c]
      BY <1>f, <3>1, <3>2, <3>3, NodeKinds
    <3> QED BY <1>4, <2>1, <3>4
  <2>2. CASE c \in ToSet(s)
    <3>1. PICK j \in 1 .. n : s[j] = c
      BY <1>5, <2>2
    <3>2. CASE j < a
      <4>1. j \in 1 .. a - 1 /\ j \in 1 .. m
        BY <1>3, <3>2
      <4> QED BY <1>8, <1>14, <1>t, <3>1, <4>1
    <3>3. CASE j > b
      <4>0. PICK i : i = j - w
        OBVIOUS
      <4>1. i \in a .. m /\ i \in 1 .. m /\ i + w = j
        BY <1>3, <3>3, <4>0
      <4>2. t[i] = s[j]
        BY <1>t, <4>1
      <4> QED BY <1>8, <1>14, <3>1, <4>1, <4>2
    <3>4. CASE j \in a .. b
      BY <1>l, <3>1, <3>4
    <3> QED BY <1>3, <3>2, <3>3, <3>4
  <2> QED BY <2>1, <2>2
<1>15. nx2[FakeTail] = Nil /\ pv2[FakeHead] = Nil
  <2>1. /\ n + 1 \in 0 .. n + 1 /\ n + 1 # a - 1 /\ n + 1 \notin a .. b
        /\ 0 \in 0 .. n + 1 /\ 0 # b + 1 /\ 0 \notin a .. b
    BY <1>3
  <2>2. nx2[Node(s, n + 1)] = nx[Node(s, n + 1)] /\ pv2[Node(s, 0)] = pv[Node(s, 0)]
    BY <1>11, <1>12, <2>1
  <2> QED BY <1>4, <1>5, <2>2
<1>16. nx2 \in [Nodes -> Nodes \cup {Nil}] /\ pv2 \in [Nodes -> Nodes \cup {Nil}]
  BY DEF CutLinks
<1> QED BY <1>2, <1>7, <1>13, <1>14, <1>15, <1>16 DEF Threads

\* Blocks without links are joined on behind the last one.
JoinLinks(nx2, pv2, nx, pv, t, n, m) ==
    /\ nx2 \in [Nodes -> Nodes \cup {Nil}] /\ pv2 \in [Nodes -> Nodes \cup {Nil}]
    /\ \A i \in n .. m : nx2[Node(t, i)] = Node(t, i + 1) /\ pv2[Node(t, i + 1)] = Node(t, i)
    /\ \A c \in Nodes : (\A i \in n .. m : c # Node(t, i)) => nx2[c] = nx[c]
    /\ \A c \in Nodes : (\A i \in n .. m : c # Node(t, i + 1)) => pv2[c] = pv[c]

\* A join leaves the links of the longer sequence.
LEMMA JoinThreads ==
    ASSUME NEW s, NEW nx, NEW pv, Threads(s, nx, pv), NEW t, NEW nx2, NEW pv2, NEW n, NEW m,
           n = Len(s), m = Len(t), Row(t), n < m, \A i \in 1 .. n : t[i] = s[i],
           JoinLinks(nx2, pv2, nx, pv, t, n, m)
    PROVE  Threads(t, nx2, pv2)
<1>f. /\ \A c \in Nodes : (\A i \in n .. m : c # Node(t, i)) => nx2[c] = nx[c]
      /\ \A c \in Nodes : (\A i \in n .. m : c # Node(t, i + 1)) => pv2[c] = pv[c]
  BY DEF JoinLinks
<1>1. n \in Nat /\ m \in Nat
  BY NodeFacts DEF Threads
<1>4. /\ Row(s) /\ \A i \in 0 .. n : nx[Node(s, i)] = Node(s, i + 1) /\ pv[Node(s, i + 1)] = Node(s, i)
      /\ \A c \in ListBlocks : c \notin ToSet(s) => nx[c] = Nil /\ pv[c] = Nil
      /\ nx[FakeTail] = Nil /\ pv[FakeHead] = Nil
  BY DEF Threads
<1>5. /\ Node(s, 0) = FakeHead
      /\ \A i \in 1 .. n : Node(s, i) = s[i]
      /\ \A c : c \in ToSet(s) <=> \E i \in 1 .. n : s[i] = c
  BY <1>4, NodeFacts
<1>6. /\ Node(t, 0) = FakeHead /\ Node(t, m + 1) = FakeTail
      /\ \A i \in 1 .. m : Node(t, i) = t[i]
      /\ \A i \in 0 .. m + 1 : Node(t, i) \in Nodes
      /\ \A i, j \in 0 .. m + 1 : Node(t, i) = Node(t, j) => i = j
      /\ \A c : c \in ToSet(t) <=> \E i \in 1 .. m : t[i] = c
  BY NodeFacts
<1>7. \A i \in 0 .. n : Node(t, i) = Node(s, i)
  <2>1. \A i \in 0 .. n : i = 0 \/ (i \in 1 .. n /\ i \in 1 .. m)
    BY <1>1
  <2> QED BY <1>5, <1>6, <2>1
<1>8. ASSUME NEW i \in 0 .. m PROVE nx2[Node(t, i)] = Node(t, i + 1) /\ pv2[Node(t, i + 1)] = Node(t, i)
  <2>1. CASE i >= n
    <3>1. i \in n .. m
      BY <1>1, <2>1
    <3> QED BY <3>1 DEF JoinLinks
  <2>2. CASE i < n
    <3>1. /\ i \in 0 .. n /\ i + 1 \in 0 .. n /\ i \in 0 .. m + 1 /\ i + 1 \in 0 .. m + 1
          /\ \A j \in n .. m : j # i /\ j + 1 # i + 1 /\ j \in 0 .. m + 1 /\ j + 1 \in 0 .. m + 1
      BY <1>1, <2>2
    <3>2. \A j \in n .. m : Node(t, i) # Node(t, j) /\ Node(t, i + 1) # Node(t, j + 1)
      BY <1>6, <3>1
    <3>3. nx2[Node(t, i)] = nx[Node(t, i)] /\ pv2[Node(t, i + 1)] = pv[Node(t, i + 1)]
      BY <1>6, <1>f, <3>1, <3>2
    <3> QED BY <1>4, <1>7, <3>1, <3>3
  <2> QED BY <1>1, <2>1, <2>2
<1>9. ASSUME NEW c \in ListBlocks, c \notin ToSet(t) PROVE nx2[c] = Nil /\ pv2[c] = Nil
  <2>1. \A i \in 1 .. n : i \in 1 .. m
    BY <1>1
  <2>2. c \notin ToSet(s)
    BY <1>5, <1>6, <1>9, <2>1
  <2>3. \A j \in 0 .. m + 1 : c # Node(t, j)
    <3>1. \A j \in 0 .. m + 1 : j = 0 \/ j = m + 1 \/ j \in 1 .. m
      BY <1>1
    <3> QED BY <1>6, <1>9, <3>1, NodeKinds
  <2>4. \A j \in n .. m : j \in 0 .. m + 1 /\ j + 1 \in 0 .. m + 1
    BY <1>1
  <2>5. nx2[c] = nx[c] /\ pv2[c] = pv[c]
    BY <1>f, <2>3, <2>4, NodeKinds
  <2> QED BY <1>4, <2>2, <2>5
<1>10. nx2[FakeTail] = Nil /\ pv2[FakeHead] = Nil
  <2>1. /\ m + 1 \in 0 .. m + 1 /\ 0 \in 0 .. m + 1
        /\ \A j \in n .. m : j \in 0 .. m + 1 /\ j + 1 \in 0 .. m + 1 /\ j # m + 1 /\ j + 1 # 0
    BY <1>1
  <2>2. \A j \in n .. m : FakeTail # Node(t, j) /\ FakeHead # Node(t, j + 1)
    BY <1>6, <2>1
  <2> QED BY <1>4, <1>f, <2>2, NodeKinds
<1>11. nx2 \in [Nodes -> Nodes \cup {Nil}] /\ pv2 \in [Nodes -> Nodes \cup {Nil}]
  BY DEF JoinLinks
<1> QED BY <1>8, <1>9, <1>10, <1>11 DEF Threads

-----------------------------------------------------------------------------
(* The operations.                                                         *)

\* Taking the first k blocks is a cut.
LEMMA FrontCut ==
    ASSUME NEW s \in Seq(ListBlocks), NEW k \in 1 .. Len(s)
    PROVE  CutOut(SubSeq(s, k + 1, Len(s)), s, 1, k)
<1>1. PICK n : n = Len(s)
  OBVIOUS
<1>2. n \in Nat /\ k \in Nat /\ k >= 1 /\ k <= n
  BY <1>1
<1>3. PICK t : t = SubSeq(s, k + 1, n)
  OBVIOUS
<1>4. t \in Seq(ListBlocks) /\ Len(t) = n - k /\ \A i \in 1 .. n - k : t[i] = s[(k + 1) + i - 1]
  BY <1>1, <1>2, <1>3
<1>5. /\ 1 \in 1 .. n /\ k \in 1 .. n /\ n - k = n - (k - 1 + 1) /\ 1 .. 1 - 1 = {}
      /\ \A i \in 1 .. n - k : (k + 1) + i - 1 = i + (k - 1 + 1)
  BY <1>2
<1>6. CutOut(t, s, 1, k)
  BY <1>1, <1>4, <1>5 DEF CutOut
<1> QED BY <1>1, <1>3, <1>6

\* Taking one block is a cut.
LEMMA MiddleCut ==
    ASSUME NEW s \in Seq(ListBlocks), NEW k \in 1 .. Len(s)
    PROVE  CutOut(RemoveAt(s, k), s, k, k)
<1>1. PICK n : n = Len(s)
  OBVIOUS
<1>2. n \in Nat /\ k \in Nat /\ k >= 1 /\ k <= n
  BY <1>1
<1>3. PICK u, v : u = SubSeq(s, 1, k - 1) /\ v = SubSeq(s, k + 1, n)
  OBVIOUS
<1>4. u \in Seq(ListBlocks) /\ Len(u) = k - 1 /\ \A i \in 1 .. k - 1 : u[i] = s[i]
  BY <1>1, <1>2, <1>3
<1>5. v \in Seq(ListBlocks) /\ Len(v) = n - k /\ \A i \in 1 .. n - k : v[i] = s[(k + 1) + i - 1]
  BY <1>1, <1>2, <1>3
<1>6. PICK t : t = u \o v
  OBVIOUS
<1>c. /\ t \in Seq(ListBlocks) /\ Len(t) = Len(u) + Len(v)
      /\ \A i \in 1 .. Len(u) + Len(v) : t[i] = IF i <= Len(u) THEN u[i] ELSE v[i - Len(u)]
  BY <1>4, <1>5, <1>6, ConcatProperties
<1>7. t \in Seq(ListBlocks) /\ Len(t) = (k - 1) + (n - k) /\ \A i \in 1 .. k - 1 : t[i] = u[i]
  <2>1. Len(u) + Len(v) = (k - 1) + (n - k)
    BY <1>2, <1>4, <1>5
  <2>2. \A i \in 1 .. k - 1 : i \in 1 .. Len(u) + Len(v) /\ i <= Len(u)
    BY <1>2, <1>4, <1>5
  <2>3. \A i \in 1 .. k - 1 : t[i] = u[i]
    BY <1>c, <2>2
  <2> QED BY <1>c, <2>1, <2>3
<1>8. ASSUME NEW i \in k .. n - 1 PROVE t[i] = s[i + 1]
  <2>1. /\ i \in 1 .. Len(u) + Len(v) /\ ~(i <= Len(u)) /\ i - Len(u) = i - k + 1
        /\ i - k + 1 \in 1 .. n - k /\ (k + 1) + (i - k + 1) - 1 = i + 1
    BY <1>2, <1>4, <1>5
  <2>2. t[i] = v[i - Len(u)]
    BY <1>c, <2>1
  <2> QED BY <1>5, <2>1, <2>2
<1>9. /\ k \in 1 .. n /\ k \in k .. n /\ (k - 1) + (n - k) = n - (k - k + 1) /\ (k - 1) + (n - k) = n - 1
      /\ k - k + 1 = 1
  BY <1>2
<1>10. CutOut(t, s, k, k)
  BY <1>1, <1>4, <1>7, <1>8, <1>9 DEF CutOut
<1> QED BY <1>1, <1>3, <1>6, <1>10 DEF RemoveAt

\* What a step has to show: the list it leaves, and the step of the queue.
StepTo(s, t) ==
    /\ Threads(t, next', prev') /\ numFree' = Len(t) /\ t # s
    /\ \/ \E n \in 1 .. Len(s) : t = SubSeq(s, n + 1, Len(s))
       \/ \E i \in DOMAIN s : t = RemoveAt(s, i)
       \/ \E S \in SUBSET (ListBlocks \ ToSet(s)) : \E bs \in SetToSeqs(S) : t = s \o bs

\* What the links of a list say of its nodes.
LEMMA ThreadFacts ==
    ASSUME NEW s, Threads(s, next, prev)
    PROVE  /\ Row(s) /\ s \in Seq(ListBlocks) /\ Len(s) \in Nat /\ DOMAIN s = 1 .. Len(s) /\ Walk = s
           /\ Node(s, 0) = FakeHead /\ Node(s, Len(s) + 1) = FakeTail
           /\ \A i \in 1 .. Len(s) : Node(s, i) = s[i] /\ s[i] \in ListBlocks
           /\ \A i \in 0 .. Len(s) + 1 : Node(s, i) \in Nodes
           /\ \A i, j \in 0 .. Len(s) + 1 : Node(s, i) = Node(s, j) => i = j
           /\ \A i \in 0 .. Len(s) : next[Node(s, i)] = Node(s, i + 1) /\ prev[Node(s, i + 1)] = Node(s, i)
           /\ next \in [Nodes -> Nodes \cup {Nil}] /\ prev \in [Nodes -> Nodes \cup {Nil}]
<1>1. Row(s) /\ s \in Seq(ListBlocks)
  BY DEF Threads, Row
<1>2. Walk = s
  BY WalkFinds, WalkIs
<1>3. /\ \A i \in 0 .. Len(s) : next[Node(s, i)] = Node(s, i + 1) /\ prev[Node(s, i + 1)] = Node(s, i)
      /\ next \in [Nodes -> Nodes \cup {Nil}] /\ prev \in [Nodes -> Nodes \cup {Nil}]
  BY DEF Threads
<1> QED BY <1>1, <1>2, <1>3, NodeFacts

\* The links after a cut of one block.
LEMMA OneCut ==
    ASSUME NEW s, NEW nx, NEW pv, Threads(s, nx, pv), NEW k \in 1 .. Len(s), NEW nx2, NEW pv2,
           nx2 = [nx EXCEPT ![Node(s, k - 1)] = Node(s, k + 1), ![s[k]] = Nil],
           pv2 = [pv EXCEPT ![Node(s, k + 1)] = Node(s, k - 1), ![s[k]] = Nil]
    PROVE  CutLinks(nx2, pv2, nx, pv, s, k, k)
<1>1. PICK n : n = Len(s)
  OBVIOUS
<1>2. /\ n \in Nat /\ \A i \in 1 .. n : Node(s, i) = s[i]
      /\ \A i \in 0 .. n + 1 : Node(s, i) \in Nodes
      /\ \A i, j \in 0 .. n + 1 : Node(s, i) = Node(s, j) => i = j
      /\ nx \in [Nodes -> Nodes \cup {Nil}] /\ pv \in [Nodes -> Nodes \cup {Nil}]
  BY <1>1, NodeFacts DEF Threads
<1>3. PICK x, y, z : x = Node(s, k - 1) /\ y = s[k] /\ z = Node(s, k + 1)
  OBVIOUS
<1>4. /\ k - 1 \in 0 .. n + 1 /\ k \in 0 .. n + 1 /\ k + 1 \in 0 .. n + 1 /\ k \in 1 .. n
      /\ k - 1 # k /\ k + 1 # k /\ k .. k = {k}
  BY <1>1, <1>2
<1>5. x \in Nodes /\ y \in Nodes /\ z \in Nodes /\ x # y /\ z # y
  BY <1>2, <1>3, <1>4
<1>6. nx2 = [nx EXCEPT ![x] = z, ![y] = Nil] /\ pv2 = [pv EXCEPT ![z] = x, ![y] = Nil]
  BY <1>3
<1>7. PICK R : R = Nodes \cup {Nil}
  OBVIOUS
<1>t. nx \in [Nodes -> R] /\ pv \in [Nodes -> R] /\ x \in R /\ z \in R /\ Nil \in R
  BY <1>2, <1>5, <1>7
<1>8. /\ nx2 \in [Nodes -> R] /\ nx2[x] = z /\ nx2[y] = Nil
      /\ \A c \in Nodes : c # x /\ c # y => nx2[c] = nx[c]
  <2>1. nx2 = [nx EXCEPT ![x] = z, ![y] = Nil] /\ x \in Nodes /\ y \in Nodes /\ x # y /\ z \in R
    BY <1>5, <1>6, <1>t
  <2>2. nx \in [Nodes -> R] /\ Nil \in R
    BY <1>t
  <2>3. nx2 \in [Nodes -> R]
    BY <2>1, <2>2
  <2>4. nx2[x] = z /\ nx2[y] = Nil
    BY <2>1, <2>2
  <2>5. \A c \in Nodes : c # x /\ c # y => nx2[c] = nx[c]
    BY <2>1, <2>2
  <2> QED BY <2>3, <2>4, <2>5
<1>9. /\ pv2 \in [Nodes -> R] /\ pv2[z] = x /\ pv2[y] = Nil
      /\ \A c \in Nodes : c # z /\ c # y => pv2[c] = pv[c]
  <2>1. pv2 = [pv EXCEPT ![z] = x, ![y] = Nil] /\ z \in Nodes /\ y \in Nodes /\ z # y /\ x \in R
    BY <1>5, <1>6, <1>t
  <2>2. pv \in [Nodes -> R] /\ Nil \in R
    BY <1>t
  <2>3. pv2 \in [Nodes -> R]
    BY <2>1, <2>2
  <2>4. pv2[z] = x /\ pv2[y] = Nil
    BY <2>1, <2>2
  <2>5. \A c \in Nodes : c # z /\ c # y => pv2[c] = pv[c]
    BY <2>1, <2>2
  <2> QED BY <2>3, <2>4, <2>5
<1> QED BY <1>3, <1>4, <1>7, <1>8, <1>9 DEF CutLinks

\* A cut shortens the list.
LEMMA CutChanges ==
    ASSUME NEW s, NEW t, NEW a, NEW b, CutOut(t, s, a, b), Len(s) \in Nat
    PROVE  Len(t) = Len(s) - (b - a + 1) /\ t # s
<1>1. Len(t) = Len(s) - (b - a + 1) /\ a \in 1 .. Len(s) /\ b \in a .. Len(s)
  BY DEF CutOut
<1>2. Len(t) # Len(s)
  BY <1>1
<1> QED BY <1>1, <1>2

\* popleft takes the first block.
LEMMA PopleftStep ==
    ASSUME NEW s, Threads(s, next, prev), numFree = Len(s), Popleft
    PROVE  \E t : StepTo(s, t)
<1>1. PICK n : n = Len(s)
  OBVIOUS
<1>2. /\ s \in Seq(ListBlocks) /\ n \in Nat
      /\ Node(s, 0) = FakeHead /\ Node(s, n + 1) = FakeTail
      /\ \A i \in 1 .. n : Node(s, i) = s[i] /\ s[i] \in ListBlocks
      /\ \A i \in 0 .. n : next[Node(s, i)] = Node(s, i + 1)
  BY <1>1, ThreadFacts
<1>3. next[FakeHead] = Node(s, 1)
  <2>1. 0 \in 0 .. n /\ 0 + 1 = 1
    BY <1>2
  <2> QED BY <1>2, <2>1
<1>4. n >= 1
  <2>1. n = 0 => n + 1 = 1
    OBVIOUS
  <2>2. Node(s, 1) # FakeTail
    BY <1>3 DEF Popleft
  <2>3. n # 0
    BY <1>2, <2>1, <2>2
  <2> QED BY <1>2, <2>3
<1>5. 1 \in 1 .. n /\ 1 \in 0 .. n /\ 1 - 1 = 0 /\ 1 + 1 = 2
  BY <1>2, <1>4
<1>6. next[FakeHead] = s[1] /\ next[s[1]] = Node(s, 2)
  BY <1>2, <1>3, <1>5
<1>7. /\ next' = [next EXCEPT ![FakeHead] = Node(s, 2), ![s[1]] = Nil]
      /\ prev' = [prev EXCEPT ![Node(s, 2)] = FakeHead, ![s[1]] = Nil]
      /\ numFree' = numFree - 1
  BY <1>6 DEF Popleft
<1>8. CutLinks(next', prev', next, prev, s, 1, 1)
  BY <1>1, <1>2, <1>5, <1>7, OneCut
<1>9. PICK t : t = SubSeq(s, 1 + 1, Len(s))
  OBVIOUS
<1>10. CutOut(t, s, 1, 1)
  BY <1>1, <1>2, <1>5, <1>9, FrontCut
<1>11. Len(t) = n - 1 /\ t # s
  <2>1. Len(t) = Len(s) - (1 - 1 + 1) /\ t # s
    BY <1>1, <1>2, <1>10, CutChanges
  <2> QED BY <1>1, <1>2, <2>1
<1>12. Threads(t, next', prev')
  BY <1>8, <1>10, CutThreads
<1> QED BY <1>1, <1>5, <1>7, <1>9, <1>11, <1>12 DEF StepTo

\* remove takes one block, wherever it is.
LEMMA RemoveStep ==
    ASSUME NEW s, Threads(s, next, prev), numFree = Len(s), NEW b \in Linked, RemoveBlock(b)
    PROVE  \E t : StepTo(s, t)
<1>1. PICK n : n = Len(s)
  OBVIOUS
<1>2. /\ s \in Seq(ListBlocks) /\ n \in Nat /\ DOMAIN s = 1 .. n /\ Walk = s
      /\ \A i \in 1 .. n : Node(s, i) = s[i] /\ s[i] \in ListBlocks
      /\ \A i \in 0 .. n : next[Node(s, i)] = Node(s, i + 1) /\ prev[Node(s, i + 1)] = Node(s, i)
  BY <1>1, ThreadFacts
<1>3. PICK k \in 1 .. n : s[k] = b
  BY <1>2 DEF Linked, ToSet
<1>4. k \in 0 .. n /\ k - 1 \in 0 .. n /\ (k - 1) + 1 = k
  BY <1>2
<1>5. next[b] = Node(s, k + 1) /\ prev[b] = Node(s, k - 1)
  BY <1>2, <1>3, <1>4
<1>6. /\ next' = [next EXCEPT ![Node(s, k - 1)] = Node(s, k + 1), ![s[k]] = Nil]
      /\ prev' = [prev EXCEPT ![Node(s, k + 1)] = Node(s, k - 1), ![s[k]] = Nil]
      /\ numFree' = numFree - 1
  BY <1>3, <1>5 DEF RemoveBlock
<1>7. CutLinks(next', prev', next, prev, s, k, k)
  BY <1>1, <1>6, OneCut
<1>8. PICK t : t = RemoveAt(s, k)
  OBVIOUS
<1>9. CutOut(t, s, k, k)
  BY <1>1, <1>2, <1>8, MiddleCut
<1>10. Len(t) = n - 1 /\ t # s
  <2>1. Len(t) = Len(s) - (k - k + 1) /\ t # s
    BY <1>1, <1>2, <1>9, CutChanges
  <2> QED BY <1>1, <1>2, <2>1
<1>11. Threads(t, next', prev')
  BY <1>7, <1>9, CutThreads
<1> QED BY <1>1, <1>2, <1>6, <1>8, <1>10, <1>11 DEF StepTo

\* popleft_n takes the first k blocks.
LEMMA PopleftNStep ==
    ASSUME NEW s, Threads(s, next, prev), numFree = Len(s), NEW k \in 1 .. Len(Walk), PopleftN(k)
    PROVE  \E t : StepTo(s, t)
<1>1. PICK n : n = Len(s)
  OBVIOUS
<1>2. /\ s \in Seq(ListBlocks) /\ n \in Nat /\ Walk = s
      /\ Node(s, 0) = FakeHead
      /\ \A i \in 1 .. n : Node(s, i) = s[i] /\ s[i] \in ListBlocks
      /\ \A i \in 0 .. n + 1 : Node(s, i) \in Nodes
      /\ \A i, j \in 0 .. n + 1 : Node(s, i) = Node(s, j) => i = j
      /\ \A i \in 0 .. n : next[Node(s, i)] = Node(s, i + 1)
      /\ next \in [Nodes -> Nodes \cup {Nil}] /\ prev \in [Nodes -> Nodes \cup {Nil}]
  BY <1>1, ThreadFacts
<1>3. /\ k \in 1 .. n /\ k \in 0 .. n /\ 1 - 1 = 0 /\ 0 \in 0 .. n + 1 /\ k + 1 \in 0 .. n + 1
      /\ \A i \in 1 .. k : i \in 1 .. n /\ i \in 0 .. n + 1 /\ i # 0 /\ i # k + 1
  BY <1>1, <1>2
<1>4. next[Walk[k]] = Node(s, k + 1)
  BY <1>2, <1>3
<1>5. PICK gone, z : gone = {s[i] : i \in 1 .. k} /\ z = Node(s, k + 1)
  OBVIOUS
<1>6. /\ next' = [b \in Nodes |-> IF b = FakeHead THEN z ELSE IF b \in gone THEN Nil ELSE next[b]]
      /\ prev' = [b \in Nodes |-> IF b = z THEN FakeHead ELSE IF b \in gone THEN Nil ELSE prev[b]]
      /\ numFree' = numFree - k
  BY <1>2, <1>4, <1>5 DEF PopleftN
<1>7. FakeHead \in Nodes /\ z \in Nodes /\ \A i \in 1 .. k : s[i] \in Nodes /\ s[i] # FakeHead /\ s[i] # z
  BY <1>2, <1>3, <1>5
<1>8. next' \in [Nodes -> Nodes \cup {Nil}] /\ prev' \in [Nodes -> Nodes \cup {Nil}]
  BY <1>2, <1>6, <1>7
<1>9. next'[FakeHead] = z /\ prev'[z] = FakeHead
  BY <1>6, <1>7
<1>10. \A i \in 1 .. k : next'[s[i]] = Nil /\ prev'[s[i]] = Nil
  BY <1>5, <1>6, <1>7
<1>11. /\ \A c \in Nodes : c # FakeHead /\ (\A i \in 1 .. k : c # s[i]) => next'[c] = next[c]
       /\ \A c \in Nodes : c # z /\ (\A i \in 1 .. k : c # s[i]) => prev'[c] = prev[c]
  <2>1. \A c : (\A i \in 1 .. k : c # s[i]) => c \notin gone
    BY <1>5
  <2> QED BY <1>6, <2>1
<1>12. CutLinks(next', prev', next, prev, s, 1, k)
  BY <1>2, <1>3, <1>5, <1>8, <1>9, <1>10, <1>11 DEF CutLinks
<1>13. PICK t : t = SubSeq(s, k + 1, Len(s))
  OBVIOUS
<1>14. CutOut(t, s, 1, k)
  BY <1>1, <1>2, <1>3, <1>13, FrontCut
<1>15. Len(t) = n - k /\ t # s
  <2>1. Len(t) = Len(s) - (k - 1 + 1) /\ t # s
    BY <1>1, <1>2, <1>14, CutChanges
  <2> QED BY <1>1, <1>2, <1>3, <2>1
<1>16. Threads(t, next', prev')
  BY <1>12, <1>14, CutThreads
<1> QED BY <1>1, <1>3, <1>6, <1>13, <1>15, <1>16 DEF StepTo

\* Blocks outside the list, in any order, behind it.
LEMMA Extended ==
    ASSUME NEW s, Row(s), NEW bs \in SetToAllKPermutations(ListBlocks \ ToSet(s)), bs # <<>>
    PROVE  /\ bs \in Seq(ListBlocks) /\ Len(bs) \in Nat /\ Len(bs) >= 1
           /\ Row(s \o bs) /\ Len(s \o bs) = Len(s) + Len(bs)
           /\ \A i \in 1 .. Len(s) : (s \o bs)[i] = s[i]
           /\ \A i \in 1 .. Len(bs) : (s \o bs)[Len(s) + i] = bs[i]
           /\ \E S \in SUBSET (ListBlocks \ ToSet(s)) : bs \in SetToSeqs(S)
<1>1. PICK S \in SUBSET (ListBlocks \ ToSet(s)) : bs \in SetToSeqs(S)
  BY DEF SetToAllKPermutations
<1>2. IsFiniteSet(ListBlocks)
  <2>1. 0 \in Int /\ ListSize - 1 \in Int
    BY ListAssumption
  <2> QED BY <2>1, FS_Interval DEF ListBlocks
<1>3. IsFiniteSet(S)
  BY <1>1, <1>2, FS_Subset
<1>4. PICK k : k = Cardinality(S)
  OBVIOUS
<1>5. k \in Nat
  BY <1>3, <1>4, FS_CardinalityType
<1>6. bs \in [1 .. k -> S] /\ \A i, j \in 1 .. k : i # j => bs[i] # bs[j]
  BY <1>1, <1>4 DEF SetToSeqs
<1>7. bs \in Seq(S) /\ Len(bs) = k
  BY <1>5, <1>6
<1>8. bs \in Seq(ListBlocks) /\ \A i \in 1 .. k : bs[i] \in ListBlocks /\ bs[i] \notin ToSet(s)
  <2>1. \A i \in 1 .. k : bs[i] \in ListBlocks /\ bs[i] \notin ToSet(s)
    BY <1>1, <1>6
  <2>2. bs \in [1 .. k -> ListBlocks]
    BY <1>6, <2>1
  <2> QED BY <1>5, <2>1, <2>2
<1>9. k >= 1
  <2>1. k = 0 => bs = <<>>
    BY <1>7
  <2> QED BY <1>5, <2>1
<1>10. PICK n, t : n = Len(s) /\ t = s \o bs
  OBVIOUS
<1>11. /\ n \in Nat /\ s \in Seq(ListBlocks) /\ \A i, j \in 1 .. n : s[i] = s[j] => i = j
       /\ \A b : b \in ToSet(s) <=> \E i \in 1 .. n : s[i] = b
  BY <1>10, NodeFacts DEF Row
<1>12. /\ t \in Seq(ListBlocks) /\ Len(t) = n + k
       /\ \A i \in 1 .. n + k : t[i] = IF i <= n THEN s[i] ELSE bs[i - n]
  <2>1. s \in Seq(ListBlocks) /\ bs \in Seq(ListBlocks)
    BY <1>8, <1>11
  <2>2. /\ s \o bs \in Seq(ListBlocks) /\ Len(s \o bs) = Len(s) + Len(bs)
        /\ \A i \in 1 .. Len(s) + Len(bs) : (s \o bs)[i] = IF i <= Len(s) THEN s[i] ELSE bs[i - Len(s)]
    BY <2>1, ConcatProperties
  <2> QED BY <1>7, <1>10, <2>2
<1>13. \A i \in 1 .. n : t[i] = s[i]
  <2>1. \A i \in 1 .. n : i \in 1 .. n + k /\ i <= n
    BY <1>5, <1>11
  <2> QED BY <1>12, <2>1
<1>14. \A i \in 1 .. k : t[n + i] = bs[i]
  <2>1. \A i \in 1 .. k : n + i \in 1 .. n + k /\ ~(n + i <= n) /\ (n + i) - n = i
    BY <1>5, <1>11
  <2> QED BY <1>12, <2>1
<1>15. \A i \in 1 .. n + k : i \in 1 .. n \/ \E x \in 1 .. k : i = n + x
  <2> SUFFICES ASSUME NEW i \in 1 .. n + k, i \notin 1 .. n PROVE \E x \in 1 .. k : i = n + x
    OBVIOUS
  <2>1. i - n \in 1 .. k /\ i = n + (i - n)
    BY <1>5, <1>11
  <2> QED BY <2>1
<1>16. ASSUME NEW i \in 1 .. n + k, NEW j \in 1 .. n + k, t[i] = t[j] PROVE i = j
  <2>1. CASE i \in 1 .. n /\ j \in 1 .. n
    BY <1>11, <1>13, <1>16, <2>1
  <2>2. CASE i \in 1 .. n /\ j \notin 1 .. n
    <3>1. PICK x \in 1 .. k : j = n + x
      BY <1>15, <2>2
    <3>2. t[j] = bs[x] /\ t[i] = s[i]
      BY <1>13, <1>14, <2>2, <3>1
    <3> QED BY <1>8, <1>11, <1>16, <2>2, <3>2
  <2>3. CASE i \notin 1 .. n /\ j \in 1 .. n
    <3>1. PICK x \in 1 .. k : i = n + x
      BY <1>15, <2>3
    <3>2. t[i] = bs[x] /\ t[j] = s[j]
      BY <1>13, <1>14, <2>3, <3>1
    <3> QED BY <1>8, <1>11, <1>16, <2>3, <3>2
  <2>4. CASE i \notin 1 .. n /\ j \notin 1 .. n
    <3>1. PICK x \in 1 .. k : i = n + x
      BY <1>15, <2>4
    <3>2. PICK y \in 1 .. k : j = n + y
      BY <1>15, <2>4
    <3>3. bs[x] = bs[y]
      BY <1>14, <1>16, <3>1, <3>2
    <3>4. x = y
      BY <1>6, <3>3
    <3> QED BY <3>1, <3>2, <3>4
  <2> QED BY <2>1, <2>2, <2>3, <2>4
<1>17. Row(t)
  BY <1>12, <1>16 DEF Row
<1> QED BY <1>1, <1>5, <1>7, <1>8, <1>9, <1>10, <1>12, <1>13, <1>14, <1>17

\* A join is a step that puts blocks back.
LEMMA ExtendStep ==
    ASSUME NEW s, Threads(s, next, prev), numFree = Len(s),
           NEW bs \in SetToAllKPermutations(ListBlocks \ ToSet(s)), bs # <<>>,
           JoinLinks(next', prev', next, prev, s \o bs, Len(s), Len(s \o bs)),
           numFree' = numFree + Len(bs)
    PROVE  \E t : StepTo(s, t)
<1>1. PICK t : t = s \o bs
  OBVIOUS
<1>2. Row(s) /\ Len(s) \in Nat
  BY ThreadFacts
<1>3. /\ Row(t) /\ Len(bs) \in Nat /\ Len(bs) >= 1 /\ Len(t) = Len(s) + Len(bs)
      /\ \A i \in 1 .. Len(s) : t[i] = s[i]
      /\ \E S \in SUBSET (ListBlocks \ ToSet(s)) : bs \in SetToSeqs(S)
  BY <1>1, <1>2, Extended
<1>4. Len(s) < Len(t) /\ t # s
  BY <1>2, <1>3
<1>5. Threads(t, next', prev')
  BY <1>1, <1>3, <1>4, JoinThreads
<1>6. numFree' = Len(t)
  BY <1>3
<1>7. \E S \in SUBSET (ListBlocks \ ToSet(s)) : \E x \in SetToSeqs(S) : t = s \o x
  BY <1>1, <1>3
<1> QED BY <1>4, <1>5, <1>6, <1>7 DEF StepTo

\* The nodes of the list without and with the blocks behind it.
LEMMA ExtendedNodes ==
    ASSUME NEW s, Threads(s, next, prev), NEW bs \in SetToAllKPermutations(ListBlocks \ ToSet(s)), bs # <<>>
    PROVE  /\ Len(s) \in Nat /\ Len(bs) \in Nat /\ Len(bs) >= 1 /\ Len(s \o bs) = Len(s) + Len(bs)
           /\ bs \in Seq(ListBlocks)
           /\ Node(s \o bs, Len(s)) = prev[FakeTail] /\ Node(s \o bs, Len(s) + Len(bs) + 1) = FakeTail
           /\ \A i \in 1 .. Len(bs) : Node(s \o bs, Len(s) + i) = bs[i]
           /\ \A i \in 0 .. Len(s) + Len(bs) + 1 : Node(s \o bs, i) \in Nodes
           /\ \A i, j \in 0 .. Len(s) + Len(bs) + 1 : Node(s \o bs, i) = Node(s \o bs, j) => i = j
<1>1. PICK n, k, t : n = Len(s) /\ k = Len(bs) /\ t = s \o bs
  OBVIOUS
<1>2. /\ Row(s) /\ n \in Nat /\ Node(s, 0) = FakeHead /\ Node(s, n + 1) = FakeTail
      /\ \A i \in 1 .. n : Node(s, i) = s[i]
      /\ \A i \in 0 .. n : prev[Node(s, i + 1)] = Node(s, i)
  BY <1>1, ThreadFacts
<1>3. /\ bs \in Seq(ListBlocks) /\ k \in Nat /\ k >= 1 /\ Row(t) /\ Len(t) = n + k
      /\ (\A i \in 1 .. n : t[i] = s[i]) /\ \A i \in 1 .. k : t[n + i] = bs[i]
  <2>1. /\ bs \in Seq(ListBlocks) /\ Len(bs) \in Nat /\ Len(bs) >= 1
        /\ Row(s \o bs) /\ Len(s \o bs) = Len(s) + Len(bs)
        /\ \A i \in 1 .. Len(s) : (s \o bs)[i] = s[i]
        /\ \A i \in 1 .. Len(bs) : (s \o bs)[Len(s) + i] = bs[i]
    BY <1>2, Extended
  <2> QED BY <1>1, <2>1
<1>4. /\ Node(t, 0) = FakeHead /\ Node(t, (n + k) + 1) = FakeTail
      /\ \A i \in 1 .. n + k : Node(t, i) = t[i]
      /\ \A i \in 0 .. (n + k) + 1 : Node(t, i) \in Nodes
      /\ \A i, j \in 0 .. (n + k) + 1 : Node(t, i) = Node(t, j) => i = j
  BY <1>3, NodeFacts
<1>5. \A i \in 1 .. k : Node(t, n + i) = bs[i]
  <2>1. \A i \in 1 .. k : n + i \in 1 .. n + k
    BY <1>2, <1>3
  <2> QED BY <1>3, <1>4, <2>1
<1>6. Node(t, n) = prev[FakeTail]
  <2>1. n \in 0 .. n /\ (n = 0 \/ (n \in 1 .. n /\ n \in 1 .. n + k))
    BY <1>2, <1>3
  <2>2. prev[FakeTail] = Node(s, n)
    BY <1>2, <2>1
  <2>3. Node(t, n) = Node(s, n)
    BY <1>2, <1>3, <1>4, <2>1
  <2> QED BY <2>2, <2>3
<1> QED BY <1>1, <1>2, <1>3, <1>4, <1>5, <1>6

\* append_n: the chain of the old last block, the new ones and the tail.
LEMMA ChainFacts ==
    ASSUME NEW bs \in Seq(ListBlocks), NEW last \in Nodes
    PROVE  LET chain == <<last>> \o bs \o <<FakeTail>>
               k == Len(bs)
           IN  /\ chain \in Seq(Nodes) /\ Len(chain) = k + 2 /\ chain[1] = last /\ chain[k + 2] = FakeTail
               /\ \A i \in 1 .. k : chain[i + 1] = bs[i]
<1>1. PICK k, u, chain : k = Len(bs) /\ u = <<last>> \o bs /\ chain = u \o <<FakeTail>>
  OBVIOUS
<1>2. k \in Nat /\ bs \in Seq(Nodes) /\ FakeTail \in Nodes
  BY <1>1, NodeKinds
<1>3. <<last>> \in Seq(Nodes) /\ Len(<<last>>) = 1 /\ <<last>>[1] = last
  OBVIOUS
<1>4. <<FakeTail>> \in Seq(Nodes) /\ Len(<<FakeTail>>) = 1 /\ <<FakeTail>>[1] = FakeTail
  BY <1>2
<1>5. /\ u \in Seq(Nodes) /\ Len(u) = 1 + k
      /\ \A i \in 1 .. 1 + k : u[i] = IF i <= 1 THEN <<last>>[i] ELSE bs[i - 1]
  BY <1>1, <1>2, <1>3, ConcatProperties
<1>6. /\ chain \in Seq(Nodes) /\ Len(chain) = (1 + k) + 1
      /\ \A i \in 1 .. (1 + k) + 1 : chain[i] = IF i <= 1 + k THEN u[i] ELSE <<FakeTail>>[i - (1 + k)]
  BY <1>1, <1>4, <1>5, ConcatProperties
<1>7. chain[1] = last
  <2>1. 1 \in 1 .. 1 + k /\ 1 <= 1 /\ 1 \in 1 .. (1 + k) + 1 /\ 1 <= 1 + k
    BY <1>2
  <2> QED BY <1>3, <1>5, <1>6, <2>1
<1>8. chain[k + 2] = FakeTail
  <2>1. k + 2 \in 1 .. (1 + k) + 1 /\ ~(k + 2 <= 1 + k) /\ (k + 2) - (1 + k) = 1
    BY <1>2
  <2> QED BY <1>4, <1>6, <2>1
<1>9. ASSUME NEW i \in 1 .. k PROVE chain[i + 1] = bs[i]
  <2>1. /\ i + 1 \in 1 .. (1 + k) + 1 /\ i + 1 <= 1 + k /\ i + 1 \in 1 .. 1 + k /\ ~(i + 1 <= 1) /\ (i + 1) - 1 = i
    BY <1>2
  <2>2. chain[i + 1] = u[i + 1]
    BY <1>6, <2>1
  <2>3. u[i + 1] = bs[(i + 1) - 1]
    BY <1>5, <2>1
  <2> QED BY <2>1, <2>2, <2>3
<1>10. (1 + k) + 1 = k + 2
  BY <1>2
<1> QED BY <1>1, <1>6, <1>7, <1>8, <1>9, <1>10

\* The nodes of a chain but the last, and but the first.
LEMMA FrontTail ==
    ASSUME NEW T, NEW c \in Seq(T), NEW k \in Nat, Len(c) = k + 1
    PROVE  /\ \A x : x \in ToSet(Front(c)) <=> \E i \in 1 .. k : x = c[i]
           /\ \A x : x \in ToSet(Tail(c)) <=> \E i \in 1 .. k : x = c[i + 1]
<1>1. PICK f, g : f = Front(c) /\ g = Tail(c)
  OBVIOUS
<1>2. (k + 1) - 1 = k /\ k <= k + 1 /\ c # <<>>
  <2>1. k + 1 # 0
    OBVIOUS
  <2>2. c # <<>>
    BY <2>1
  <2> QED BY <2>2
<1>3. f = SubSeq(c, 1, k)
  BY <1>1, <1>2 DEF Front
<1>4. DOMAIN f = 1 .. k /\ \A i \in 1 .. k : f[i] = c[i]
  <2>1. f \in Seq(T) /\ Len(f) = k /\ \A i \in 1 .. k : f[i] = c[i]
    BY <1>2, <1>3
  <2> QED BY <2>1
<1>5. DOMAIN g = 1 .. k /\ \A i \in 1 .. k : g[i] = c[i + 1]
  <2>1. g \in Seq(T) /\ Len(g) = k /\ \A i \in 1 .. k : g[i] = c[i + 1]
    BY <1>1, <1>2, HeadTailProperties
  <2> QED BY <2>1
<1>6. \A x : x \in ToSet(f) <=> \E i \in 1 .. k : x = c[i]
  BY <1>4 DEF ToSet
<1>7. \A x : x \in ToSet(g) <=> \E i \in 1 .. k : x = c[i + 1]
  BY <1>5 DEF ToSet
<1> QED BY <1>1, <1>6, <1>7

\* append_n puts several blocks behind the list.
LEMMA AppendNStep ==
    ASSUME NEW s, Threads(s, next, prev), numFree = Len(s),
           NEW bs \in SetToAllKPermutations(ListBlocks \ Linked), AppendN(bs)
    PROVE  \E t : StepTo(s, t)
<1>1. /\ bs \in SetToAllKPermutations(ListBlocks \ ToSet(s)) /\ bs # <<>>
      /\ next \in [Nodes -> Nodes \cup {Nil}] /\ prev \in [Nodes -> Nodes \cup {Nil}]
  <2>1. Walk = s /\ next \in [Nodes -> Nodes \cup {Nil}] /\ prev \in [Nodes -> Nodes \cup {Nil}]
    BY ThreadFacts
  <2> QED BY <2>1 DEF Linked, AppendN
<1>2. PICK n, k, t : n = Len(s) /\ k = Len(bs) /\ t = s \o bs
  OBVIOUS
<1>3. /\ n \in Nat /\ k \in Nat /\ k >= 1 /\ Len(t) = n + k /\ bs \in Seq(ListBlocks)
      /\ Node(t, n) = prev[FakeTail] /\ Node(t, n + k + 1) = FakeTail
      /\ \A i \in 1 .. k : Node(t, n + i) = bs[i]
      /\ \A i \in 0 .. n + k + 1 : Node(t, i) \in Nodes
      /\ \A i, j \in 0 .. n + k + 1 : Node(t, i) = Node(t, j) => i = j
  <2>1. /\ Len(s) \in Nat /\ Len(bs) \in Nat /\ Len(bs) >= 1 /\ Len(s \o bs) = Len(s) + Len(bs)
        /\ bs \in Seq(ListBlocks)
        /\ Node(s \o bs, Len(s)) = prev[FakeTail] /\ Node(s \o bs, Len(s) + Len(bs) + 1) = FakeTail
        /\ \A i \in 1 .. Len(bs) : Node(s \o bs, Len(s) + i) = bs[i]
        /\ \A i \in 0 .. Len(s) + Len(bs) + 1 : Node(s \o bs, i) \in Nodes
        /\ \A i, j \in 0 .. Len(s) + Len(bs) + 1 : Node(s \o bs, i) = Node(s \o bs, j) => i = j
    BY <1>1, ExtendedNodes
  <2> QED BY <1>2, <2>1
<1>4. PICK chain : chain = <<prev[FakeTail]>> \o bs \o <<FakeTail>>
  OBVIOUS
<1>5. prev[FakeTail] \in Nodes
  <2>1. n \in 0 .. n + k + 1
    BY <1>3
  <2> QED BY <1>3, <2>1
<1>6. /\ chain \in Seq(Nodes) /\ Len(chain) = k + 2 /\ chain[1] = prev[FakeTail] /\ chain[k + 2] = FakeTail
      /\ \A i \in 1 .. k : chain[i + 1] = bs[i]
  BY <1>2, <1>3, <1>4, <1>5, ChainFacts
<1>7. \A j \in 1 .. k + 2 : chain[j] = Node(t, n + j - 1) /\ n + j - 1 \in 0 .. n + k + 1
  <2> SUFFICES ASSUME NEW j \in 1 .. k + 2
               PROVE  chain[j] = Node(t, n + j - 1) /\ n + j - 1 \in 0 .. n + k + 1
    OBVIOUS
  <2>0. n + j - 1 \in 0 .. n + k + 1
    BY <1>3
  <2>1. CASE j = 1
    <3>1. n + j - 1 = n
      BY <1>3, <2>1
    <3> QED BY <1>3, <1>6, <2>0, <2>1, <3>1
  <2>2. CASE j = k + 2
    <3>1. n + j - 1 = n + k + 1
      BY <1>3, <2>2
    <3> QED BY <1>3, <1>6, <2>0, <2>2, <3>1
  <2>3. CASE j # 1 /\ j # k + 2
    <3>1. PICK i : i = j - 1
      OBVIOUS
    <3>2. i \in 1 .. k /\ i + 1 = j /\ n + j - 1 = n + i
      BY <1>3, <2>3, <3>1
    <3> QED BY <1>3, <1>6, <2>0, <3>2
  <2> QED BY <2>1, <2>2, <2>3
<1>8. \A i, j \in 1 .. k + 2 : chain[i] = chain[j] => i = j
  <2> SUFFICES ASSUME NEW i \in 1 .. k + 2, NEW j \in 1 .. k + 2, chain[i] = chain[j] PROVE i = j
    OBVIOUS
  <2>1. n + i - 1 = n + j - 1
    BY <1>3, <1>7
  <2> QED BY <1>3, <2>1
<1>9. DOMAIN chain = 1 .. k + 2
  BY <1>6
<1> DEFINE at(b) == CHOOSE i \in DOMAIN chain : chain[i] = b
<1>10. \A j \in 1 .. k + 2 : at(chain[j]) = j
  BY <1>8, <1>9
<1>11. /\ next' = [b \in Nodes |-> IF b \in ToSet(Front(chain)) THEN chain[at(b) + 1] ELSE next[b]]
       /\ prev' = [b \in Nodes |-> IF b \in ToSet(Tail(chain)) THEN chain[at(b) - 1] ELSE prev[b]]
       /\ numFree' = numFree + k
  BY <1>2, <1>4 DEF AppendN
<1> HIDE DEF at
<1>12. /\ \A x : x \in ToSet(Front(chain)) <=> \E i \in 1 .. k + 1 : x = chain[i]
       /\ \A x : x \in ToSet(Tail(chain)) <=> \E i \in 1 .. k + 1 : x = chain[i + 1]
  <2>1. k + 1 \in Nat /\ Len(chain) = (k + 1) + 1
    BY <1>3, <1>6
  <2> QED BY <1>6, <2>1, FrontTail
<1>13. \A i \in 1 .. k + 1 : i \in 1 .. k + 2 /\ i + 1 \in 1 .. k + 2 /\ (i + 1) - 1 = i
  BY <1>3
<1>14. \A i \in 1 .. k + 2 : chain[i] \in Nodes
  BY <1>6, <1>9
<1>15. \A i \in 1 .. k + 1 : next'[chain[i]] = chain[i + 1] /\ prev'[chain[i + 1]] = chain[i]
  <2> SUFFICES ASSUME NEW i \in 1 .. k + 1
               PROVE  next'[chain[i]] = chain[i + 1] /\ prev'[chain[i + 1]] = chain[i]
    OBVIOUS
  <2>1. at(chain[i]) = i /\ at(chain[i + 1]) = i + 1 /\ chain[i] \in Nodes /\ chain[i + 1] \in Nodes
    BY <1>10, <1>13, <1>14
  <2>2. chain[i] \in ToSet(Front(chain)) /\ chain[i + 1] \in ToSet(Tail(chain))
    BY <1>12
  <2>3. next'[chain[i]] = chain[at(chain[i]) + 1]
    BY <1>11, <2>1, <2>2
  <2>4. prev'[chain[i + 1]] = chain[at(chain[i + 1]) - 1]
    BY <1>11, <2>1, <2>2
  <2> QED BY <1>13, <2>1, <2>3, <2>4
<1>16. next' \in [Nodes -> Nodes \cup {Nil}]
  <2>1. ASSUME NEW b \in Nodes PROVE next'[b] \in Nodes \cup {Nil}
    <3>1. CASE b \in ToSet(Front(chain))
      <4>1. PICK i \in 1 .. k + 1 : b = chain[i]
        BY <1>12, <3>1
      <4> QED BY <1>13, <1>14, <1>15, <4>1
    <3>2. CASE b \notin ToSet(Front(chain))
      BY <1>1, <1>11, <3>2
    <3> QED BY <3>1, <3>2
  <2>2. next' = [b \in Nodes |-> next'[b]]
    BY <1>11
  <2> QED BY <2>1, <2>2
<1>17. prev' \in [Nodes -> Nodes \cup {Nil}]
  <2>1. ASSUME NEW b \in Nodes PROVE prev'[b] \in Nodes \cup {Nil}
    <3>1. CASE b \in ToSet(Tail(chain))
      <4>1. PICK i \in 1 .. k + 1 : b = chain[i + 1]
        BY <1>12, <3>1
      <4> QED BY <1>13, <1>14, <1>15, <4>1
    <3>2. CASE b \notin ToSet(Tail(chain))
      BY <1>1, <1>11, <3>2
    <3> QED BY <3>1, <3>2
  <2>2. prev' = [b \in Nodes |-> prev'[b]]
    BY <1>11
  <2> QED BY <2>1, <2>2
<1>18. \A i \in n .. n + k : \E j \in 1 .. k + 1 : Node(t, i) = chain[j] /\ Node(t, i + 1) = chain[j + 1]
  <2> SUFFICES ASSUME NEW i \in n .. n + k
               PROVE  \E j \in 1 .. k + 1 : Node(t, i) = chain[j] /\ Node(t, i + 1) = chain[j + 1]
    OBVIOUS
  <2>1. PICK j : j = i - n + 1
    OBVIOUS
  <2>2. j \in 1 .. k + 1 /\ j \in 1 .. k + 2 /\ j + 1 \in 1 .. k + 2 /\ n + j - 1 = i /\ n + (j + 1) - 1 = i + 1
    BY <1>3, <2>1
  <2>3. chain[j] = Node(t, i) /\ chain[j + 1] = Node(t, i + 1)
    BY <1>7, <2>2
  <2> QED BY <2>2, <2>3
<1>19. \A j \in 1 .. k + 1 : \E i \in n .. n + k : Node(t, i) = chain[j] /\ Node(t, i + 1) = chain[j + 1]
  <2> SUFFICES ASSUME NEW j \in 1 .. k + 1
               PROVE  \E i \in n .. n + k : Node(t, i) = chain[j] /\ Node(t, i + 1) = chain[j + 1]
    OBVIOUS
  <2>1. PICK i : i = n + j - 1
    OBVIOUS
  <2>2. i \in n .. n + k /\ j \in 1 .. k + 2 /\ j + 1 \in 1 .. k + 2 /\ n + (j + 1) - 1 = i + 1
    BY <1>3, <2>1
  <2>3. chain[j] = Node(t, i) /\ chain[j + 1] = Node(t, i + 1)
    BY <1>7, <2>1, <2>2
  <2> QED BY <2>2, <2>3
<1>20. /\ \A i \in n .. n + k : next'[Node(t, i)] = Node(t, i + 1) /\ prev'[Node(t, i + 1)] = Node(t, i)
  BY <1>15, <1>18
<1>21. ASSUME NEW c \in Nodes, \A i \in n .. n + k : c # Node(t, i) PROVE next'[c] = next[c]
  <2>1. c \notin ToSet(Front(chain))
    BY <1>12, <1>19, <1>21
  <2> QED BY <1>11, <2>1
<1>22. ASSUME NEW c \in Nodes, \A i \in n .. n + k : c # Node(t, i + 1) PROVE prev'[c] = prev[c]
  <2>1. c \notin ToSet(Tail(chain))
    BY <1>12, <1>19, <1>22
  <2> QED BY <1>11, <2>1
<1>23. JoinLinks(next', prev', next, prev, t, n, n + k)
  BY <1>16, <1>17, <1>20, <1>21, <1>22 DEF JoinLinks
<1> QED BY <1>1, <1>2, <1>3, <1>11, <1>23, ExtendStep

\* append puts one block behind the list.
LEMMA AppendStep ==
    ASSUME NEW s, Threads(s, next, prev), numFree = Len(s), NEW b \in ListBlocks \ Linked, AppendBlock(b)
    PROVE  \E t : StepTo(s, t)
<1>1. /\ b \in ListBlocks \ ToSet(s)
      /\ next \in [Nodes -> Nodes \cup {Nil}] /\ prev \in [Nodes -> Nodes \cup {Nil}]
  <2>1. Walk = s /\ next \in [Nodes -> Nodes \cup {Nil}] /\ prev \in [Nodes -> Nodes \cup {Nil}]
    BY ThreadFacts
  <2> QED BY <2>1 DEF Linked
<1>2. PICK n, bs, t : n = Len(s) /\ bs = <<b>> /\ t = s \o bs
  OBVIOUS
<1>3. bs \in SetToAllKPermutations(ListBlocks \ ToSet(s)) /\ bs # <<>> /\ Len(bs) = 1 /\ bs[1] = b
  <2>1. Cardinality({b}) = 1
    BY FS_Singleton
  <2>2. bs \in [1 .. 1 -> {b}]
    BY <1>2
  <2>3. \A i, j \in 1 .. 1 : i # j => bs[i] # bs[j]
    OBVIOUS
  <2>4. bs \in SetToSeqs({b})
    BY <2>1, <2>2, <2>3 DEF SetToSeqs
  <2>5. {b} \in SUBSET (ListBlocks \ ToSet(s))
    BY <1>1
  <2>6. bs \in SetToAllKPermutations(ListBlocks \ ToSet(s))
    BY <2>4, <2>5 DEF SetToAllKPermutations
  <2> QED BY <1>2, <2>6
<1>4. /\ n \in Nat /\ Len(t) = n + 1
      /\ Node(t, n) = prev[FakeTail] /\ Node(t, n + 1 + 1) = FakeTail
      /\ \A i \in 1 .. 1 : Node(t, n + i) = bs[i]
      /\ \A i \in 0 .. n + 1 + 1 : Node(t, i) \in Nodes
      /\ \A i, j \in 0 .. n + 1 + 1 : Node(t, i) = Node(t, j) => i = j
  <2>1. /\ Len(s) \in Nat /\ Len(bs) \in Nat /\ Len(bs) >= 1 /\ Len(s \o bs) = Len(s) + Len(bs)
        /\ bs \in Seq(ListBlocks)
        /\ Node(s \o bs, Len(s)) = prev[FakeTail] /\ Node(s \o bs, Len(s) + Len(bs) + 1) = FakeTail
        /\ \A i \in 1 .. Len(bs) : Node(s \o bs, Len(s) + i) = bs[i]
        /\ \A i \in 0 .. Len(s) + Len(bs) + 1 : Node(s \o bs, i) \in Nodes
        /\ \A i, j \in 0 .. Len(s) + Len(bs) + 1 : Node(s \o bs, i) = Node(s \o bs, j) => i = j
    BY <1>3, ExtendedNodes
  <2> QED BY <1>2, <1>3, <2>1
<1>5. PICK x : x = prev[FakeTail]
  OBVIOUS
<1>6. Node(t, n) = x /\ Node(t, n + 1) = b /\ Node(t, (n + 1) + 1) = FakeTail
  <2>1. 1 \in 1 .. 1
    OBVIOUS
  <2> QED BY <1>3, <1>4, <1>5, <2>1
<1>7. x \in Nodes /\ b \in Nodes /\ FakeTail \in Nodes /\ x # b /\ b # FakeTail
  <2>1. n \in 0 .. n + 1 + 1 /\ n + 1 \in 0 .. n + 1 + 1 /\ n # n + 1
    BY <1>4
  <2> QED BY <1>1, <1>4, <1>6, <2>1, NodeKinds
<1>8. PICK R : R = Nodes \cup {Nil}
  OBVIOUS
<1>9. next \in [Nodes -> R] /\ prev \in [Nodes -> R] /\ x \in R /\ b \in R /\ FakeTail \in R
  BY <1>1, <1>7, <1>8
<1>10. /\ next' = [next EXCEPT ![x] = b, ![b] = FakeTail]
       /\ prev' = [prev EXCEPT ![b] = x, ![FakeTail] = b]
       /\ numFree' = numFree + 1
  BY <1>5 DEF AppendBlock
<1>11. /\ next' \in [Nodes -> R] /\ next'[x] = b /\ next'[b] = FakeTail
       /\ \A c \in Nodes : c # x /\ c # b => next'[c] = next[c]
  <2>1. next' \in [Nodes -> R]
    BY <1>7, <1>9, <1>10
  <2>2. next'[x] = b /\ next'[b] = FakeTail
    BY <1>7, <1>9, <1>10
  <2>3. \A c \in Nodes : c # x /\ c # b => next'[c] = next[c]
    BY <1>7, <1>9, <1>10
  <2> QED BY <2>1, <2>2, <2>3
<1>12. /\ prev' \in [Nodes -> R] /\ prev'[b] = x /\ prev'[FakeTail] = b
       /\ \A c \in Nodes : c # b /\ c # FakeTail => prev'[c] = prev[c]
  <2>1. prev' \in [Nodes -> R]
    BY <1>7, <1>9, <1>10
  <2>2. prev'[b] = x /\ prev'[FakeTail] = b
    BY <1>7, <1>9, <1>10
  <2>3. \A c \in Nodes : c # b /\ c # FakeTail => prev'[c] = prev[c]
    BY <1>7, <1>9, <1>10
  <2> QED BY <2>1, <2>2, <2>3
<1>13. n .. n + 1 = {n, n + 1}
  BY <1>4
<1>14. JoinLinks(next', prev', next, prev, t, n, n + 1)
  BY <1>6, <1>8, <1>11, <1>12, <1>13 DEF JoinLinks
<1> QED BY <1>2, <1>3, <1>4, <1>10, <1>14, ExtendStep

\* The operators the queue takes from its own copy of the library.
LEMMA QueueTerms ==
    /\ \A S : Queue!SetToSeqs(S) = SetToSeqs(S)
    /\ \A x : Queue!ToSet(x) = ToSet(x)
    /\ \A x, i : Queue!RemoveAt(x, i) = RemoveAt(x, i)
<1>1. \A S : Queue!SetToSeqs(S) = SetToSeqs(S)
  <2>1. \A S : Queue!IsFiniteSet(S) = IsFiniteSet(S)
    BY DEF Queue!IsFiniteSet, IsFiniteSet
  <2>2. \A S : Queue!Cardinality(S) = Cardinality(S)
    BY <2>1, Zenon DEF Queue!Cardinality, Cardinality
  <2> QED BY <2>2 DEF Queue!SetToSeqs, SetToSeqs
<1>2. \A x : Queue!ToSet(x) = ToSet(x)
  BY DEF Queue!ToSet, ToSet
<1>3. \A x, i : Queue!RemoveAt(x, i) = RemoveAt(x, i)
  BY DEF Queue!RemoveAt, RemoveAt
<1> QED BY <1>1, <1>2, <1>3

\* There are ListSize blocks.
LEMMA BlockCount == Cardinality(ListBlocks) = ListSize
<1>1. 0 \in Int /\ ListSize - 1 \in Int /\ ListSize - 1 - 0 + 1 = ListSize /\ ~(0 > ListSize - 1)
  BY ListAssumption
<1>2. Cardinality(0 .. ListSize - 1) = IF 0 > ListSize - 1 THEN 0 ELSE ListSize - 1 - 0 + 1
  BY <1>1, FS_Interval
<1> QED BY <1>1, <1>2 DEF ListBlocks

\* The constructor links the blocks in the order of their IDs.
LEMMA ListStarts ==
    ASSUME ListInit
    PROVE  ListInv /\ Queue!FQInit
<1>1. PICK s : s = [i \in 1 .. ListSize |-> i - 1]
  OBVIOUS
<1>2. ListSize \in Nat /\ ListSize >= 1
  BY ListAssumption
<1>3. \A b : b \in ListBlocks <=> b \in Int /\ 0 <= b /\ b <= ListSize - 1
  BY <1>2 DEF ListBlocks
<1>4. s \in [1 .. ListSize -> ListBlocks] /\ \A i \in 1 .. ListSize : s[i] = i - 1
  BY <1>1, <1>2, <1>3
<1>5. s \in Seq(ListBlocks) /\ Len(s) = ListSize
  BY <1>2, <1>4
<1>6. Row(s)
  <2>1. \A i, j \in 1 .. ListSize : s[i] = s[j] => i = j
    BY <1>2, <1>4
  <2> QED BY <1>5, <2>1 DEF Row
<1>7. /\ Node(s, 0) = FakeHead /\ Node(s, ListSize + 1) = FakeTail
      /\ \A i \in 1 .. ListSize : Node(s, i) = i - 1
      /\ \A b : b \in ToSet(s) <=> \E i \in 1 .. ListSize : s[i] = b
  BY <1>4, <1>5, <1>6, NodeFacts
<1>8. /\ next = [b \in Nodes |-> CASE b = FakeHead -> 0
                                   [] b = FakeTail -> Nil
                                   [] b = ListSize - 1 -> FakeTail
                                   [] OTHER -> b + 1]
      /\ prev = [b \in Nodes |-> CASE b = FakeHead -> Nil
                                   [] b = FakeTail -> ListSize - 1
                                   [] b = 0 -> FakeHead
                                   [] OTHER -> b - 1]
      /\ numFree = ListSize
  BY DEF ListInit
<1>9. FakeHead = -1 /\ FakeTail = -2 /\ Nil = -3
  BY DEF FakeHead, FakeTail, Nil
<1>10. /\ next[FakeHead] = 0 /\ next[FakeTail] = Nil /\ next[ListSize - 1] = FakeTail
       /\ \A b \in ListBlocks : b # ListSize - 1 => next[b] = b + 1
  <2>1. ListSize - 1 \in ListBlocks
    BY <1>2, <1>3
  <2>2. next[FakeHead] = 0 /\ next[FakeTail] = Nil
    BY <1>2, <1>8, <1>9, NodeKinds
  <2>3. next[ListSize - 1] = FakeTail
    BY <1>2, <1>8, <1>9, <2>1, NodeKinds
  <2>4. ASSUME NEW b \in ListBlocks, b # ListSize - 1 PROVE next[b] = b + 1
    <3>1. b \in Nodes /\ b # FakeHead /\ b # FakeTail
      BY NodeKinds
    <3> QED BY <1>8, <2>4, <3>1
  <2> QED BY <2>2, <2>3, <2>4
<1>11. /\ prev[FakeHead] = Nil /\ prev[FakeTail] = ListSize - 1 /\ prev[0] = FakeHead
       /\ \A b \in ListBlocks : b # 0 => prev[b] = b - 1
  <2>1. 0 \in ListBlocks
    BY <1>2, <1>3
  <2>2. prev[FakeHead] = Nil /\ prev[FakeTail] = ListSize - 1
    BY <1>2, <1>8, <1>9, NodeKinds
  <2>3. prev[0] = FakeHead
    BY <1>2, <1>8, <1>9, <2>1, NodeKinds
  <2>4. ASSUME NEW b \in ListBlocks, b # 0 PROVE prev[b] = b - 1
    <3>1. b \in Nodes /\ b # FakeHead /\ b # FakeTail
      BY NodeKinds
    <3> QED BY <1>8, <2>4, <3>1
  <2> QED BY <2>2, <2>3, <2>4
<1>12. next \in [Nodes -> Nodes \cup {Nil}] /\ prev \in [Nodes -> Nodes \cup {Nil}]
  <2>1. ASSUME NEW b \in Nodes PROVE next[b] \in Nodes \cup {Nil} /\ prev[b] \in Nodes \cup {Nil}
    <3>1. CASE b = FakeHead
      <4>1. 0 \in ListBlocks
        BY <1>2, <1>3
      <4> QED BY <1>10, <1>11, <3>1, <4>1, NodeKinds
    <3>2. CASE b = FakeTail
      <4>1. ListSize - 1 \in ListBlocks
        BY <1>2, <1>3
      <4> QED BY <1>10, <1>11, <3>2, <4>1, NodeKinds
    <3>3. CASE b \in ListBlocks
      <4>1. next[b] \in Nodes
        <5>1. b # ListSize - 1 => b + 1 \in ListBlocks
          BY <1>2, <1>3, <3>3
        <5> QED BY <1>10, <3>3, <5>1, NodeKinds
      <4>2. prev[b] \in Nodes
        <5>1. b # 0 => b - 1 \in ListBlocks
          BY <1>2, <1>3, <3>3
        <5> QED BY <1>11, <3>3, <5>1, NodeKinds
      <4> QED BY <4>1, <4>2
    <3> QED BY <3>1, <3>2, <3>3, NodeKinds
  <2>2. DOMAIN next = Nodes /\ DOMAIN prev = Nodes /\ next = [b \in Nodes |-> next[b]] /\ prev = [b \in Nodes |-> prev[b]]
    BY <1>8
  <2> QED BY <2>1, <2>2
<1>13. ASSUME NEW i \in 0 .. ListSize
       PROVE  next[Node(s, i)] = Node(s, i + 1) /\ prev[Node(s, i + 1)] = Node(s, i)
  <2>1. next[Node(s, i)] = Node(s, i + 1)
    <3>1. CASE i = 0
      <4>1. 1 \in 1 .. ListSize /\ 1 - 1 = 0 /\ i + 1 = 1
        BY <1>2, <3>1
      <4> QED BY <1>7, <1>10, <3>1, <4>1
    <3>2. CASE i = ListSize
      <4>1. i \in 1 .. ListSize
        BY <1>2, <3>2
      <4> QED BY <1>7, <1>10, <3>2, <4>1
    <3>3. CASE i # 0 /\ i # ListSize
      <4>1. i \in 1 .. ListSize /\ i + 1 \in 1 .. ListSize /\ i - 1 # ListSize - 1 /\ (i - 1) + 1 = (i + 1) - 1
        BY <1>2, <3>3
      <4>2. i - 1 \in ListBlocks
        BY <1>2, <1>3, <3>3
      <4> QED BY <1>7, <1>10, <4>1, <4>2
    <3> QED BY <3>1, <3>2, <3>3
  <2>2. prev[Node(s, i + 1)] = Node(s, i)
    <3>1. CASE i = 0
      <4>1. 1 \in 1 .. ListSize /\ 1 - 1 = 0 /\ i + 1 = 1
        BY <1>2, <3>1
      <4> QED BY <1>7, <1>11, <3>1, <4>1
    <3>2. CASE i = ListSize
      <4>1. i \in 1 .. ListSize
        BY <1>2, <3>2
      <4> QED BY <1>7, <1>11, <3>2, <4>1
    <3>3. CASE i # 0 /\ i # ListSize
      <4>1. i \in 1 .. ListSize /\ i + 1 \in 1 .. ListSize /\ (i + 1) - 1 = i
        BY <1>2, <3>3
      <4>2. i \in ListBlocks
        BY <1>2, <1>3, <3>3
      <4> QED BY <1>7, <1>11, <3>3, <4>1, <4>2
    <3> QED BY <3>1, <3>2, <3>3
  <2> QED BY <2>1, <2>2
<1>14. \A b \in ListBlocks : b \in ToSet(s)
  <2> SUFFICES ASSUME NEW b \in ListBlocks PROVE b \in ToSet(s)
    OBVIOUS
  <2>1. b + 1 \in 1 .. ListSize /\ (b + 1) - 1 = b
    BY <1>2, <1>3
  <2>2. s[b + 1] = b
    BY <1>4, <2>1
  <2> QED BY <1>7, <2>1, <2>2
<1>15. Threads(s, next, prev)
  BY <1>5, <1>6, <1>10, <1>11, <1>12, <1>13, <1>14 DEF Threads
<1>16. ListInv
  BY <1>5, <1>8, <1>15 DEF ListInv
<1>17. Walk = s
  BY <1>15, WalkFinds, WalkIs
<1>18. s \in SetToSeqs(ListBlocks)
  <2>1. \A i, j \in 1 .. ListSize : i # j => s[i] # s[j]
    BY <1>2, <1>4
  <2> QED BY <1>4, <2>1, BlockCount DEF SetToSeqs
<1>19. \A i \in 1 .. Len(s) - 1 : s[i] < s[i + 1]
  <2>1. \A i \in 1 .. ListSize - 1 : i \in 1 .. ListSize /\ i + 1 \in 1 .. ListSize /\ i - 1 < (i + 1) - 1
    BY <1>2
  <2> QED BY <1>4, <1>5, <2>1
<1>20. Queue!FQInit
  BY <1>5, <1>8, <1>17, <1>18, <1>19, QueueTerms DEF Queue!FQInit
<1> QED BY <1>16, <1>20

\* Every step leaves a list and is a step of the queue.
LEMMA ListSteps ==
    ASSUME ListInv, [ListNext]_listVars
    PROVE  ListInv' /\ [Queue!FQNext]_<<Walk, numFree>>
<1>1. PICK s : Threads(s, next, prev) /\ numFree = Len(s)
  BY DEF ListInv
<1>2. Walk = s /\ DOMAIN s = 1 .. Len(s) /\ Len(s) \in Nat
  BY <1>1, ThreadFacts
<1>3. CASE UNCHANGED listVars
  <2>1. next' = next /\ prev' = prev /\ numFree' = numFree
    BY <1>3 DEF listVars
  <2>2. Walk' = Walk
    BY <2>1, WalkIs
  <2>3. ListInv'
    BY <1>1, <2>1 DEF ListInv
  <2> QED BY <2>1, <2>2, <2>3
<1>4. CASE ListNext
  <2>1. \E t : StepTo(s, t)
    <3>1. CASE Popleft
      BY <1>1, <3>1, PopleftStep
    <3>2. ASSUME NEW n \in 1 .. Len(Walk), PopleftN(n) PROVE \E t : StepTo(s, t)
      BY <1>1, <3>2, PopleftNStep
    <3>3. ASSUME NEW b \in Linked, RemoveBlock(b) PROVE \E t : StepTo(s, t)
      BY <1>1, <3>3, RemoveStep
    <3>4. ASSUME NEW b \in ListBlocks \ Linked, AppendBlock(b) PROVE \E t : StepTo(s, t)
      BY <1>1, <3>4, AppendStep
    <3>5. ASSUME NEW bs \in SetToAllKPermutations(ListBlocks \ Linked), AppendN(bs) PROVE \E t : StepTo(s, t)
      BY <1>1, <3>5, AppendNStep
    <3> QED BY <1>4, <3>1, <3>2, <3>3, <3>4, <3>5 DEF ListNext
  <2>2. PICK t : StepTo(s, t)
    BY <2>1
  <2>3. Threads(t, next', prev') /\ numFree' = Len(t) /\ t # s
    BY <2>2 DEF StepTo
  <2>4. Walk' = t
    BY <2>3, WalkFinds, WalkIs
  <2>5. ListInv'
    BY <2>3 DEF ListInv
  <2>6. \/ \E n \in 1 .. Len(s) : t = SubSeq(s, n + 1, Len(s))
        \/ \E i \in DOMAIN s : t = RemoveAt(s, i)
        \/ \E S \in SUBSET (ListBlocks \ ToSet(s)) : \E bs \in SetToSeqs(S) : t = s \o bs
    BY <2>2 DEF StepTo
  <2>7. \/ \E n \in 1 .. Len(Walk) : Queue!TakeFront(n)
        \/ \E b \in ToSet(Walk) : Queue!TakeOut(b)
        \/ \E S \in SUBSET (ListBlocks \ ToSet(Walk)) : Queue!PutBack(S)
    <3>1. CASE \E n \in 1 .. Len(s) : t = SubSeq(s, n + 1, Len(s))
      <4>1. PICK n \in 1 .. Len(s) : t = SubSeq(s, n + 1, Len(s))
        BY <3>1
      <4>2. n <= Len(s)
        BY <1>2
      <4>3. Queue!TakeFront(n)
        BY <1>2, <2>4, <4>1, <4>2 DEF Queue!TakeFront
      <4> QED BY <1>2, <4>3
    <3>2. CASE \E i \in DOMAIN s : t = RemoveAt(s, i)
      <4>1. PICK i \in DOMAIN s : t = RemoveAt(s, i)
        BY <3>2
      <4>2. Queue!TakeOut(s[i])
        BY <1>2, <2>4, <4>1, QueueTerms DEF Queue!TakeOut
      <4>3. s[i] \in ToSet(s)
        BY DEF ToSet
      <4> QED BY <1>2, <4>2, <4>3
    <3>3. CASE \E S \in SUBSET (ListBlocks \ ToSet(s)) : \E bs \in SetToSeqs(S) : t = s \o bs
      BY <1>2, <2>4, <3>3, QueueTerms DEF Queue!PutBack
    <3> QED BY <2>6, <3>1, <3>2, <3>3
  <2>8. Walk' # Walk /\ numFree' = Len(Walk')
    BY <1>2, <2>3, <2>4
  <2>9. Queue!FQNext
    BY <2>7, <2>8, QueueTerms DEF Queue!FQNext
  <2> QED BY <2>5, <2>9
<1> QED BY <1>3, <1>4

\* The linked list of free blocks implements the queue the block pool works with:
\* whatever sequence of popleft, popleft_n, remove, append and append_n it goes
\* through, the walk along the links is a sequence that starts in block order, every
\* operation takes blocks from its front or its middle or puts blocks behind it, and
\* num_free_blocks is its length.
THEOREM ListImplementsQueueHolds == ListSpec => ListImplementsQueue
<1>1. ListInit => ListInv /\ Queue!FQInit
  BY ListStarts
<1>2. ListInv /\ [ListNext]_listVars => ListInv' /\ [Queue!FQNext]_<<Walk, numFree>>
  BY ListSteps
<1>3. Queue!fqVars = <<Walk, numFree>>
  BY DEF Queue!fqVars
<1> QED BY <1>1, <1>2, PTL DEF ListSpec, ListImplementsQueue, Queue!FQSpec, Queue!fqVars
=============================================================================
