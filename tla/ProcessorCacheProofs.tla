------------------------ MODULE ProcessorCacheProofs ------------------------
(***************************************************************************)
(* The processor caches for any keys, sizes, capacity, prompts and faults. *)
(***************************************************************************)
EXTENDS ProcessorCache, FiniteSetTheorems, TLAPS

-----------------------------------------------------------------------------
(* Numbers and sequences.                                                  *)

\* A set of natural numbers has a least one.
LEMMA NatLeast ==
    ASSUME NEW S \in SUBSET Nat, S # {}
    PROVE  \E x \in S : \A y \in S : x <= y
<1>1. PICK x \in S : \A y \in S : ~(<<y, x>> \in OpToRel(<, Nat))
  BY NatLessThanWellFounded, WFMin, Zenon
<1>2. \A y \in S : ~(y < x)
  BY <1>1 DEF OpToRel
<1> QED BY <1>2

LEMMA MinFacts ==
    ASSUME NEW S \in SUBSET Nat, S # {}
    PROVE  Min(S) \in S /\ \A y \in S : Min(S) <= y
<1>1. \E x \in S : \A y \in S : x <= y
  BY NatLeast
<1> QED BY <1>1 DEF Min

-----------------------------------------------------------------------------
(* The passes.                                                             *)

\* Touched is the end of a chain of touches.
TouchChain(c, items, f) ==
    f = [i \in 0 .. Len(items) |-> IF i = 0 THEN c ELSE Touch(f[i - 1], items[i].hash)]

LEMMA TouchChainExists ==
    ASSUME NEW c, NEW items, Len(items) \in Nat
    PROVE  \E f : TouchChain(c, items, f)
<1> DEFINE Upto(n, f) == f = [i \in 0 .. n |-> IF i = 0 THEN c ELSE Touch(f[i - 1], items[i].hash)]
           S == {n \in Nat : ~\E f : Upto(n, f)}
<1>1. SUFFICES S = {}
  BY DEF TouchChain
<1>2. SUFFICES ASSUME S # {} PROVE FALSE
  OBVIOUS
<1>3. PICK n \in S : \A m \in S : n <= m
  BY <1>2, NatLeast
<1>4. CASE n = 0
  <2> DEFINE f == [i \in 0 .. 0 |-> c]
  <2>1. \A i \in 0 .. 0 : i = 0
    OBVIOUS
  <2>2. f = [i \in 0 .. 0 |-> IF i = 0 THEN c ELSE Touch(f[i - 1], items[i].hash)]
    BY <2>1, Zenon
  <2> QED BY <1>3, <1>4, <2>2
<1>5. CASE n # 0
  <2>0. n \in Nat
    BY <1>3
  <2>1. n - 1 \in Nat /\ n - 1 \notin S
    <3> HIDE DEF S
    <3> QED BY <1>3, <1>5, <2>0
  <2>2. PICK g : Upto(n - 1, g)
    BY <2>1
  <2> DEFINE f == [i \in 0 .. n |-> IF i = n THEN Touch(g[n - 1], items[n].hash) ELSE g[i]]
  <2>3. ASSUME NEW i \in 0 .. n
        PROVE  f[i] = IF i = 0 THEN c ELSE Touch(f[i - 1], items[i].hash)
    <3>1. CASE i = n
      BY <1>5, <2>0, <2>1, <3>1
    <3>2. CASE i # n
      <4>1. i \in 0 .. n - 1 /\ f[i] = g[i] /\ (i # 0 => f[i - 1] = g[i - 1])
        BY <2>0, <2>1, <3>2
      <4> QED BY <2>2, <4>1
    <3> QED BY <3>1, <3>2
  <2>4. Upto(n, f)
    BY <2>3
  <2> QED BY <1>3, <2>0, <2>4
<1> QED BY <1>4, <1>5

LEMMA TouchedChain ==
    ASSUME NEW c, NEW items, Len(items) \in Nat
    PROVE  \E f : /\ f[0] = c /\ Touched(c, items) = f[Len(items)]
                  /\ \A i \in 1 .. Len(items) : f[i] = Touch(f[i - 1], items[i].hash)
<1> DEFINE f == CHOOSE f : TouchChain(c, items, f)
<1>1. TouchChain(c, items, f)
  BY TouchChainExists
<1>2. Touched(c, items) = f[Len(items)]
  BY DEF Touched, TouchChain
<1> HIDE DEF f
<1>3. f[0] = c /\ \A i \in 1 .. Len(items) : f[i] = Touch(f[i - 1], items[i].hash)
  BY <1>1 DEF TouchChain
<1> QED BY <1>2, <1>3

\* Updated is the end of a chain of updates.
UpdateChain(c, items, f) ==
    f = [i \in 0 .. Len(items) |-> IF i = 0 THEN Updating(c, << >>, "ok")
                                 ELSE GetAndUpdateItem(f[i - 1], items[i])]

LEMMA UpdateChainExists ==
    ASSUME NEW c, NEW items, Len(items) \in Nat
    PROVE  \E f : UpdateChain(c, items, f)
<1> DEFINE Upto(n, f) == f = [i \in 0 .. n |-> IF i = 0 THEN Updating(c, << >>, "ok") ELSE GetAndUpdateItem(f[i - 1], items[i])]
           S == {n \in Nat : ~\E f : Upto(n, f)}
<1>1. SUFFICES S = {}
  BY DEF UpdateChain
<1>2. SUFFICES ASSUME S # {} PROVE FALSE
  OBVIOUS
<1>3. PICK n \in S : \A m \in S : n <= m
  BY <1>2, NatLeast
<1>4. CASE n = 0
  <2> DEFINE f == [i \in 0 .. 0 |-> Updating(c, << >>, "ok")]
  <2>1. \A i \in 0 .. 0 : i = 0
    OBVIOUS
  <2>2. f = [i \in 0 .. 0 |-> IF i = 0 THEN Updating(c, << >>, "ok") ELSE GetAndUpdateItem(f[i - 1], items[i])]
    BY <2>1, Zenon
  <2> QED BY <1>3, <1>4, <2>2
<1>5. CASE n # 0
  <2>0. n \in Nat
    BY <1>3
  <2>1. n - 1 \in Nat /\ n - 1 \notin S
    <3> HIDE DEF S
    <3> QED BY <1>3, <1>5, <2>0
  <2>2. PICK g : Upto(n - 1, g)
    BY <2>1
  <2> DEFINE f == [i \in 0 .. n |-> IF i = n THEN GetAndUpdateItem(g[n - 1], items[n]) ELSE g[i]]
  <2>3. ASSUME NEW i \in 0 .. n
        PROVE  f[i] = IF i = 0 THEN Updating(c, << >>, "ok") ELSE GetAndUpdateItem(f[i - 1], items[i])
    <3>1. CASE i = n
      BY <1>5, <2>0, <2>1, <3>1
    <3>2. CASE i # n
      <4>1. i \in 0 .. n - 1 /\ f[i] = g[i] /\ (i # 0 => f[i - 1] = g[i - 1])
        BY <2>0, <2>1, <3>2
      <4> QED BY <2>2, <4>1
    <3> QED BY <3>1, <3>2
  <2>4. Upto(n, f)
    BY <2>3
  <2> QED BY <1>3, <2>0, <2>4
<1> QED BY <1>4, <1>5

LEMMA UpdatedChain ==
    ASSUME NEW c, NEW items, Len(items) \in Nat
    PROVE  \E f : /\ f[0] = Updating(c, << >>, "ok") /\ Updated(c, items) = f[Len(items)]
                  /\ \A i \in 1 .. Len(items) : f[i] = GetAndUpdateItem(f[i - 1], items[i])
<1> DEFINE f == CHOOSE f : UpdateChain(c, items, f)
<1>1. UpdateChain(c, items, f)
  BY UpdateChainExists
<1>2. Updated(c, items) = f[Len(items)]
  BY DEF Updated, UpdateChain
<1> HIDE DEF f
<1>3. f[0] = Updating(c, << >>, "ok") /\ \A i \in 1 .. Len(items) : f[i] = GetAndUpdateItem(f[i - 1], items[i])
  BY <1>1 DEF UpdateChain
<1> QED BY <1>2, <1>3

\* And Replay the end of a chain of prompts.
ReplayChain(c, messages, f) ==
    f = [i \in 0 .. Len(messages) |-> IF i = 0 THEN c ELSE GetAndUpdate(f[i - 1], messages[i].items).cache]

LEMMA ReplayChainExists ==
    ASSUME NEW c, NEW messages, Len(messages) \in Nat
    PROVE  \E f : ReplayChain(c, messages, f)
<1> DEFINE Upto(n, f) == f = [i \in 0 .. n |-> IF i = 0 THEN c ELSE GetAndUpdate(f[i - 1], messages[i].items).cache]
           S == {n \in Nat : ~\E f : Upto(n, f)}
<1>1. SUFFICES S = {}
  BY DEF ReplayChain
<1>2. SUFFICES ASSUME S # {} PROVE FALSE
  OBVIOUS
<1>3. PICK n \in S : \A m \in S : n <= m
  BY <1>2, NatLeast
<1>4. CASE n = 0
  <2> DEFINE f == [i \in 0 .. 0 |-> c]
  <2>1. \A i \in 0 .. 0 : i = 0
    OBVIOUS
  <2>2. f = [i \in 0 .. 0 |-> IF i = 0 THEN c ELSE GetAndUpdate(f[i - 1], messages[i].items).cache]
    BY <2>1, Zenon
  <2> QED BY <1>3, <1>4, <2>2
<1>5. CASE n # 0
  <2>0. n \in Nat
    BY <1>3
  <2>1. n - 1 \in Nat /\ n - 1 \notin S
    <3> HIDE DEF S
    <3> QED BY <1>3, <1>5, <2>0
  <2>2. PICK g : Upto(n - 1, g)
    BY <2>1
  <2> DEFINE f == [i \in 0 .. n |-> IF i = n THEN GetAndUpdate(g[n - 1], messages[n].items).cache ELSE g[i]]
  <2>3. ASSUME NEW i \in 0 .. n
        PROVE  f[i] = IF i = 0 THEN c ELSE GetAndUpdate(f[i - 1], messages[i].items).cache
    <3>1. CASE i = n
      BY <1>5, <2>0, <2>1, <3>1
    <3>2. CASE i # n
      <4>1. i \in 0 .. n - 1 /\ f[i] = g[i] /\ (i # 0 => f[i - 1] = g[i - 1])
        BY <2>0, <2>1, <3>2
      <4> QED BY <2>2, <4>1
    <3> QED BY <3>1, <3>2
  <2>4. Upto(n, f)
    BY <2>3
  <2> QED BY <1>3, <2>0, <2>4
<1> QED BY <1>4, <1>5

LEMMA ReplayedChain ==
    ASSUME NEW c, NEW messages, Len(messages) \in Nat
    PROVE  \E f : /\ f[0] = c /\ Replay(c, messages) = f[Len(messages)]
                  /\ \A i \in 1 .. Len(messages) : f[i] = GetAndUpdate(f[i - 1], messages[i].items).cache
<1> DEFINE f == CHOOSE f : ReplayChain(c, messages, f)
<1>1. ReplayChain(c, messages, f)
  BY ReplayChainExists
<1>2. Replay(c, messages) = f[Len(messages)]
  BY DEF Replay, ReplayChain
<1> HIDE DEF f
<1>3. f[0] = c /\ \A i \in 1 .. Len(messages) : f[i] = GetAndUpdate(f[i - 1], messages[i].items).cache
  BY <1>1 DEF ReplayChain
<1> QED BY <1>2, <1>3

-----------------------------------------------------------------------------
(* The order of a cache.                                                   *)

\* What a sequence holds.
LEMMA InSeq ==
    ASSUME NEW T, NEW s \in Seq(T)
    PROVE  /\ DOMAIN s = 1 .. Len(s) /\ Len(s) \in Nat
           /\ \A x : x \in ToSet(s) <=> \E i \in 1 .. Len(s) : s[i] = x
           /\ IsInjective(s) <=> \A i, j \in 1 .. Len(s) : s[i] = s[j] => i = j
BY DEF ToSet, IsInjective

\* x comes somewhere before y.
Before(s, x, y) == \E i, j \in 1 .. Len(s) : i < j /\ s[i] = x /\ s[j] = y

LEMMA RemoveAtFacts ==
    ASSUME NEW T, NEW s \in Seq(T), NEW k \in 1 .. Len(s)
    PROVE  /\ RemoveAt(s, k) \in Seq(T) /\ Len(RemoveAt(s, k)) = Len(s) - 1
           /\ \A i \in 1 .. Len(s) - 1 :
                  RemoveAt(s, k)[i] = IF i < k THEN s[i] ELSE s[i + 1]
<1> DEFINE t == RemoveAt(s, k)
           p == SubSeq(s, 1, k - 1)
           q == SubSeq(s, k + 1, Len(s))
<1>1. p \in Seq(T) /\ Len(p) = k - 1 /\ \A i \in 1 .. k - 1 : p[i] = s[i]
  OBVIOUS
<1>2. q \in Seq(T) /\ Len(q) = Len(s) - k /\ \A i \in 1 .. Len(s) - k : q[i] = s[i + k]
  OBVIOUS
<1>3. t = p \o q
  BY DEF RemoveAt
<1> HIDE DEF p, q, t
<1>4. t \in Seq(T) /\ Len(t) = Len(s) - 1
  BY <1>1, <1>2, <1>3
<1>5. ASSUME NEW i \in 1 .. Len(s) - 1
      PROVE  t[i] = IF i < k THEN s[i] ELSE s[i + 1]
  <2>1. CASE i < k
    BY <2>1, <1>1, <1>2, <1>3, <1>4
  <2>2. CASE ~(i < k)
    <3>0. i \in 1 .. Len(p) + Len(q) /\ ~(i <= Len(p)) /\ Len(p) = k - 1
      BY <2>2, <1>1, <1>2, <1>4
    <3>1. t[i] = q[i - (k - 1)]
      BY <3>0, <1>1, <1>2, <1>3
    <3>2. i - (k - 1) \in 1 .. Len(s) - k /\ (i - (k - 1)) + k = i + 1
      BY <2>2, <1>4
    <3>3. q[i - (k - 1)] = s[(i - (k - 1)) + k]
      BY <1>2, <3>2
    <3> QED  BY <2>2, <3>1, <3>2, <3>3
  <2> QED  BY <2>1, <2>2
<1> QED BY <1>4, <1>5 DEF t

\* An order without x: the others in the same order.
LEMMA RemoveFirstFacts ==
    ASSUME NEW T, NEW s \in Seq(T), NEW x, IsInjective(s)
    PROVE  LET t == RemoveFirst(s, x)
           IN  /\ t \in Seq(T) /\ IsInjective(t)
               /\ ToSet(t) = ToSet(s) \ {x}
               /\ \A y, z : Before(t, y, z) <=> y # x /\ z # x /\ Before(s, y, z)
<1> DEFINE t == RemoveFirst(s, x)
<1>0. /\ DOMAIN s = 1 .. Len(s) /\ Len(s) \in Nat
      /\ \A y : y \in ToSet(s) <=> \E i \in 1 .. Len(s) : s[i] = y
      /\ \A i, j \in 1 .. Len(s) : s[i] = s[j] => i = j
  BY InSeq
<1>1. CASE ~\E i \in 1 .. Len(s) : s[i] = x
  <2>1. t = s
    BY <1>1 DEF RemoveFirst
  <2>2. \A y, z : Before(s, y, z) => y # x /\ z # x
    BY <1>1 DEF Before
  <2> QED BY <1>0, <1>1, <2>1, <2>2
<1>2. CASE \E i \in 1 .. Len(s) : s[i] = x
  <2> DEFINE I == {i \in 1 .. Len(s) : s[i] = x}
             k == Min(I)
  <2>1. I # {} /\ I \in SUBSET Nat
    BY <1>2
  <2>2. k \in I
    <3> HIDE DEF I
    <3> QED BY <2>1, MinFacts
  <2>3. t = RemoveAt(s, k)
    BY <2>1 DEF RemoveFirst, SelectInSeq
  <2>4. k \in 1 .. Len(s) /\ s[k] = x
    BY <2>2
  <2> HIDE DEF k, t
  <2>5. /\ t \in Seq(T) /\ Len(t) = Len(s) - 1
        /\ \A i \in 1 .. Len(s) - 1 : t[i] = IF i < k THEN s[i] ELSE s[i + 1]
    BY <2>3, <2>4, RemoveAtFacts
  <2> DEFINE At(i) == IF i < k THEN i ELSE i + 1
             To(i) == IF i < k THEN i ELSE i - 1
  <2>6. \A i \in 1 .. Len(t) : At(i) \in 1 .. Len(s) /\ t[i] = s[At(i)] /\ At(i) # k
    BY <1>0, <2>4, <2>5
  <2>7. \A i \in 1 .. Len(s) : i # k => To(i) \in 1 .. Len(t) /\ t[To(i)] = s[i]
    BY <1>0, <2>4, <2>5
  <2>8. \A i, j \in 1 .. Len(t) : (At(i) = At(j) => i = j) /\ (i < j => At(i) < At(j))
    BY <1>0, <2>4, <2>5
  <2>9. \A i, j \in 1 .. Len(s) : i # k /\ j # k /\ i < j => To(i) < To(j)
    BY <1>0, <2>4, <2>5
  <2> HIDE DEF At, To
  <2>10. IsInjective(t) /\ \A y : y \in ToSet(t) <=> \E i \in 1 .. Len(t) : t[i] = y
    <3>1. \A i, j \in 1 .. Len(t) : t[i] = t[j] => i = j
      BY <1>0, <2>6, <2>8
    <3> QED BY <2>5, <3>1, InSeq
  <2>11. \A y : y \in ToSet(t) <=> y \in ToSet(s) /\ y # x
    BY <1>0, <2>4, <2>6, <2>7, <2>10
  <2>12. ASSUME NEW y, NEW z
         PROVE  Before(t, y, z) <=> y # x /\ z # x /\ Before(s, y, z)
    <3>1. ASSUME Before(t, y, z) PROVE y # x /\ z # x /\ Before(s, y, z)
      <4>1. PICK i, j \in 1 .. Len(t) : i < j /\ t[i] = y /\ t[j] = z
        BY <3>1 DEF Before
      <4>2. At(i) < At(j) /\ s[At(i)] = y /\ s[At(j)] = z /\ y # x /\ z # x
        BY <1>0, <2>4, <2>6, <2>8, <4>1
      <4> QED BY <2>6, <4>2 DEF Before
    <3>2. ASSUME y # x, z # x, Before(s, y, z) PROVE Before(t, y, z)
      <4>1. PICK i, j \in 1 .. Len(s) : i < j /\ s[i] = y /\ s[j] = z
        BY <3>2 DEF Before
      <4>2. i # k /\ j # k
        BY <2>4, <3>2, <4>1
      <4>3. To(i) < To(j) /\ t[To(i)] = y /\ t[To(j)] = z
        BY <2>7, <2>9, <4>1, <4>2
      <4> QED BY <2>7, <4>1, <4>2, <4>3 DEF Before
    <3> QED BY <3>1, <3>2
  <2> QED BY <2>5, <2>10, <2>11, <2>12 DEF t
<1> QED BY <1>1, <1>2

\* An order with a key put at its end.
LEMMA AppendFacts ==
    ASSUME NEW T, NEW s \in Seq(T), NEW x \in T, IsInjective(s), x \notin ToSet(s)
    PROVE  LET t == Append(s, x)
           IN  /\ t \in Seq(T) /\ IsInjective(t)
               /\ ToSet(t) = ToSet(s) \cup {x}
               /\ \A y, z : Before(t, y, z)
                               <=> \/ Before(s, y, z)
                                   \/ z = x /\ y \in ToSet(s)
<1> DEFINE t == Append(s, x)
<1>0. /\ DOMAIN s = 1 .. Len(s) /\ Len(s) \in Nat
      /\ \A y : y \in ToSet(s) <=> \E i \in 1 .. Len(s) : s[i] = y
      /\ \A i, j \in 1 .. Len(s) : s[i] = s[j] => i = j
  BY InSeq
<1>1. /\ t \in Seq(T) /\ Len(t) = Len(s) + 1
      /\ \A i \in 1 .. Len(s) : t[i] = s[i]
      /\ t[Len(s) + 1] = x
  OBVIOUS
<1> HIDE DEF t
<1>2. /\ \A i \in 1 .. Len(t) : i \in 1 .. Len(s) \/ i = Len(s) + 1
      /\ \A i \in 1 .. Len(s) : i \in 1 .. Len(t) /\ i < Len(s) + 1
      /\ Len(s) + 1 \in 1 .. Len(t)
  BY <1>0, <1>1
<1>3. \A i \in 1 .. Len(s) : t[i] # x
  BY <1>0, <1>1
<1>4. IsInjective(t) /\ \A y : y \in ToSet(t) <=> \E i \in 1 .. Len(t) : t[i] = y
  <2>1. \A i, j \in 1 .. Len(t) : t[i] = t[j] => i = j
    BY <1>0, <1>1, <1>2, <1>3
  <2> QED BY <1>1, <2>1, InSeq
<1>5. \A y : y \in ToSet(t) <=> y \in ToSet(s) \/ y = x
  BY <1>0, <1>1, <1>2, <1>4, Zenon
<1>6. ASSUME NEW y, NEW z
      PROVE  Before(t, y, z) <=> (Before(s, y, z) \/ (z = x /\ y \in ToSet(s)))
  <2>1. ASSUME Before(t, y, z) PROVE Before(s, y, z) \/ (z = x /\ y \in ToSet(s))
    <3>1. PICK i, j \in 1 .. Len(t) : i < j /\ t[i] = y /\ t[j] = z
      BY <2>1 DEF Before
    <3>2. i \in 1 .. Len(s)
      BY <1>0, <1>1, <3>1
    <3>3. CASE j \in 1 .. Len(s)
      BY <1>1, <3>1, <3>2, <3>3 DEF Before
    <3>4. CASE j = Len(s) + 1
      BY <1>0, <1>1, <3>1, <3>2, <3>4
    <3> QED BY <1>2, <3>3, <3>4
  <2>2. ASSUME Before(s, y, z) PROVE Before(t, y, z)
    <3>1. PICK i, j \in 1 .. Len(s) : i < j /\ s[i] = y /\ s[j] = z
      BY <2>2 DEF Before
    <3>2. t[i] = y /\ t[j] = z /\ i \in 1 .. Len(t) /\ j \in 1 .. Len(t)
      BY <1>1, <1>2, <3>1
    <3> QED BY <3>1, <3>2 DEF Before
  <2>3. ASSUME z = x, y \in ToSet(s) PROVE Before(t, y, z)
    <3>1. PICK i \in 1 .. Len(s) : s[i] = y
      BY <1>0, <2>3
    <3>2. t[i] = y /\ i \in 1 .. Len(t) /\ i < Len(s) + 1
      BY <1>1, <1>2, <3>1
    <3> QED BY <1>1, <1>2, <2>3, <3>2 DEF Before
  <2> QED BY <2>1, <2>2, <2>3
<1> QED BY <1>1, <1>4, <1>5, <1>6 DEF t

-----------------------------------------------------------------------------
(* The size of what is cached.                                             *)

AllBytes(S) == UNION {Bytes(k) : k \in S}

LEMMA BytesFacts ==
    ASSUME NEW k \in Keys
    PROVE  IsFiniteSet(Bytes(k)) /\ Cardinality(Bytes(k)) = Size[k] /\ Size[k] \in Nat
<1>1. Size[k] \in Nat /\ Size[k] # 0
  BY ProcessorCacheAssumption
<1>2. IsFiniteSet(1 .. Size[k]) /\ Cardinality(1 .. Size[k]) = Size[k]
  <2>1. /\ IsFiniteSet(1 .. Size[k])
        /\ Cardinality(1 .. Size[k]) = IF 1 > Size[k] THEN 0 ELSE Size[k] - 1 + 1
    BY <1>1, FS_Interval
  <2> QED BY <1>1, <2>1
<1>3. IsFiniteSet({k}) /\ Cardinality({k}) = 1
  BY FS_Singleton
<1>4. /\ IsFiniteSet({k} \X (1 .. Size[k]))
      /\ Cardinality({k} \X (1 .. Size[k])) = Cardinality({k}) * Cardinality(1 .. Size[k])
  BY <1>2, <1>3, FS_Product
<1> QED BY <1>1, <1>2, <1>3, <1>4 DEF Bytes

LEMMA UsedFacts ==
    ASSUME NEW S \in SUBSET Keys, IsFiniteSet(S)
    PROVE  IsFiniteSet(AllBytes(S)) /\ Used(S) = Cardinality(AllBytes(S)) /\ Used(S) \in Nat
<1>1. IsFiniteSet({Bytes(k) : k \in S})
  <2> DEFINE f == [k \in S |-> Bytes(k)]
  <2>1. f \in Surjection(S, {Bytes(k) : k \in S})
    BY DEF Surjection
  <2> HIDE DEF f
  <2> QED BY <2>1, FS_Surjection
<1>2. \A T \in {Bytes(k) : k \in S} : IsFiniteSet(T)
  BY BytesFacts
<1>3. IsFiniteSet(AllBytes(S))
  BY <1>1, <1>2, FS_UNION DEF AllBytes
<1> QED BY <1>3, FS_CardinalityType DEF Used, AllBytes

LEMMA UsedEmpty == Used({}) = 0
<1>1. UNION {Bytes(k) : k \in {}} = {}
  OBVIOUS
<1> QED BY <1>1, FS_EmptySet DEF Used

LEMMA UsedMonotone ==
    ASSUME NEW T \in SUBSET Keys, IsFiniteSet(T), NEW S \in SUBSET T
    PROVE  Used(S) <= Used(T) /\ Used(S) \in Nat /\ Used(T) \in Nat /\ IsFiniteSet(S)
<1>1. IsFiniteSet(S)
  BY FS_Subset
<1>2. /\ IsFiniteSet(AllBytes(T)) /\ Used(T) = Cardinality(AllBytes(T)) /\ Used(T) \in Nat
      /\ Used(S) = Cardinality(AllBytes(S)) /\ Used(S) \in Nat
  BY <1>1, UsedFacts
<1>3. AllBytes(S) \in SUBSET AllBytes(T)
  BY DEF AllBytes
<1>4. Cardinality(AllBytes(S)) <= Cardinality(AllBytes(T))
  BY <1>2, <1>3, FS_Subset
<1> QED BY <1>1, <1>2, <1>4

LEMMA UsedAdd ==
    ASSUME NEW S \in SUBSET Keys, IsFiniteSet(S), NEW k \in Keys, k \notin S
    PROVE  Used(S \cup {k}) = Used(S) + Size[k] /\ IsFiniteSet(S \cup {k})
<1>1. IsFiniteSet(S \cup {k})
  BY FS_AddElement
<1>2. /\ IsFiniteSet(AllBytes(S)) /\ Used(S) = Cardinality(AllBytes(S)) /\ Used(S) \in Nat
      /\ Used(S \cup {k}) = Cardinality(AllBytes(S \cup {k}))
  BY <1>1, UsedFacts
<1>3. IsFiniteSet(Bytes(k)) /\ Cardinality(Bytes(k)) = Size[k] /\ Size[k] \in Nat
  BY BytesFacts
<1>4. AllBytes(S \cup {k}) = AllBytes(S) \cup Bytes(k)
  BY DEF AllBytes
<1>5. AllBytes(S) \cap Bytes(k) = {}
  BY DEF AllBytes, Bytes
<1>6. Cardinality(AllBytes(S) \cup Bytes(k))
        = Cardinality(AllBytes(S)) + Cardinality(Bytes(k)) - Cardinality({})
  BY <1>2, <1>3, <1>5, FS_Union
<1>7. Cardinality({}) = 0
  BY FS_EmptySet
<1>8. Used(S \cup {k}) = Cardinality(AllBytes(S) \cup Bytes(k))
  BY <1>2, <1>4
<1>9. Used(S \cup {k}) = Used(S) + Size[k] - 0
  BY <1>2, <1>3, <1>6, <1>7, <1>8
<1> QED BY <1>1, <1>2, <1>3, <1>9

LEMMA SeqFinite ==
    ASSUME NEW T, NEW s \in Seq(T)
    PROVE  IsFiniteSet(ToSet(s)) /\ ToSet(s) \in SUBSET T
<1>1. DOMAIN s = 1 .. Len(s) /\ Len(s) \in Nat /\ \A i \in 1 .. Len(s) : s[i] \in T
  OBVIOUS
<1>2. IsFiniteSet(1 .. Len(s))
  BY <1>1, FS_Interval
<1>3. s \in Surjection(1 .. Len(s), ToSet(s))
  BY <1>1 DEF Surjection, ToSet
<1>4. IsFiniteSet(ToSet(s))
  BY <1>2, <1>3, FS_Surjection
<1> QED BY <1>1, <1>4 DEF ToSet

-----------------------------------------------------------------------------
(* Touching and evicting.                                                  *)

\* A cache whose order names its keys once and names all it holds.
Ordered(c) ==
    /\ c \in [order : Seq(Keys), data : SUBSET Keys]
    /\ IsInjective(c.order)
    /\ c.data \subseteq ToSet(c.order)

\* ... and one within its capacity.
Sound(c) == Ordered(c) /\ Used(c.data) <= Capacity

\* x is evicted before y.
Older(c, x, y) == Before(c.order, x, y)

LEMMA OlderFacts ==
    ASSUME NEW c, Ordered(c)
    PROVE  /\ \A x, y : Older(c, x, y) => x \in ToSet(c.order) /\ y \in ToSet(c.order)
           /\ \A x : ~Older(c, x, x)
           /\ \A x, y \in ToSet(c.order) : x # y => Older(c, x, y) \/ Older(c, y, x)
           /\ \A x, y : ~(Older(c, x, y) /\ Older(c, y, x))
           /\ \A x, y, z : Older(c, x, y) /\ Older(c, y, z) => Older(c, x, z)
<1> DEFINE s == c.order
<1>0. s \in Seq(Keys) /\ IsInjective(s)
  BY DEF Ordered
<1> HIDE DEF s
<1>1. /\ Len(s) \in Nat
      /\ \A y : y \in ToSet(s) <=> \E i \in 1 .. Len(s) : s[i] = y
      /\ \A i, j \in 1 .. Len(s) : s[i] = s[j] => i = j
  BY <1>0, InSeq
<1>2. /\ \A x, y : Before(s, x, y) => x \in ToSet(s) /\ y \in ToSet(s)
      /\ \A x : ~Before(s, x, x)
      /\ \A x, y : ~(Before(s, x, y) /\ Before(s, y, x))
      /\ \A x, y, z : Before(s, x, y) /\ Before(s, y, z) => Before(s, x, z)
  BY <1>1 DEF Before
<1>3. \A x, y \in ToSet(s) : x # y => Before(s, x, y) \/ Before(s, y, x)
  BY <1>1 DEF Before
<1> QED BY <1>2, <1>3 DEF Older, s

LEMMA TouchFacts ==
    ASSUME NEW c, NEW key \in Keys, Ordered(c)
    PROVE  LET t == Touch(c, key)
           IN  /\ Ordered(t) /\ t.data = c.data
               /\ ToSet(t.order) = ToSet(c.order) \cup {key}
               /\ \A x, y : Older(t, x, y)
                               <=> /\ x # key
                                   /\ \/ y # key /\ Older(c, x, y)
                                      \/ y = key /\ x \in ToSet(c.order)
<1> DEFINE t == Touch(c, key)
           s == c.order
           r == RemoveFirst(s, key)
           u == Append(r, key)
<1>0. s \in Seq(Keys) /\ IsInjective(s)
  BY DEF Ordered
<1>1. /\ r \in Seq(Keys) /\ IsInjective(r) /\ ToSet(r) = ToSet(s) \ {key}
      /\ \A y, z : Before(r, y, z) <=> y # key /\ z # key /\ Before(s, y, z)
  <2> HIDE DEF s
  <2> QED BY <1>0, RemoveFirstFacts
<1> HIDE DEF r
<1>2. /\ u \in Seq(Keys) /\ IsInjective(u) /\ ToSet(u) = ToSet(r) \cup {key}
      /\ \A y, z : Before(u, y, z) <=> \/ Before(r, y, z)
                                       \/ z = key /\ y \in ToSet(r)
  BY <1>1, AppendFacts
<1>3. t = [c EXCEPT !.order = u]
  BY DEF Touch, r
<1> HIDE DEF u, t
<1>4. t.order = u /\ t.data = c.data /\ t \in [order : Seq(Keys), data : SUBSET Keys]
  BY <1>2, <1>3 DEF Ordered
<1>5. Ordered(t)
  BY <1>1, <1>2, <1>4 DEF Ordered
<1>6. \A x, y : Older(t, x, y) <=> /\ x # key
                                   /\ \/ y # key /\ Before(s, x, y)
                                      \/ y = key /\ x \in ToSet(s)
  <2> HIDE DEF s
  <2> QED BY <1>1, <1>2, <1>4, Zenon DEF Older
<1>7. ToSet(t.order) = ToSet(s) \cup {key}
  BY <1>1, <1>2, <1>4
<1> QED BY <1>4, <1>5, <1>6, <1>7 DEF t, s, Older

\* The end of a sequence.
LEMMA TailFacts ==
    ASSUME NEW T, NEW s \in Seq(T), NEW n \in 0 .. Len(s)
    PROVE  LET q == SubSeq(s, n + 1, Len(s))
           IN  /\ q \in Seq(T) /\ Len(q) = Len(s) - n
               /\ \A i \in 1 .. Len(s) - n : q[i] = s[i + n]
<1> DEFINE q == SubSeq(s, n + 1, Len(s))
<1>1. q \in Seq(T) /\ Len(q) = Len(s) - n
  OBVIOUS
<1>2. ASSUME NEW i \in 1 .. Len(s) - n PROVE q[i] = s[i + n]
  OBVIOUS
<1> QED BY <1>1, <1>2

\* The keys that an eviction takes out of the order.
Evicted(c, used) == ToSet(c.order) \ ToSet(PopUntil(c, used).cache.order)

LEMMA PopFacts ==
    ASSUME NEW c, NEW used \in Nat, Ordered(c)
    PROVE  LET t == PopUntil(c, used).cache
               E == Evicted(c, used)
           IN  /\ Ordered(t) /\ Used(t.data) <= used
               /\ t.data = c.data \ E /\ ToSet(t.order) = ToSet(c.order) \ E
               /\ E \subseteq ToSet(c.order)
               /\ \A x, y : Older(t, x, y) <=> x \notin E /\ Older(c, x, y)
               /\ \A x, y : y \in E /\ Older(c, x, y) => x \in E
               /\ \A y \in E : Used(c.data \ {x \in Keys : Older(c, x, y)}) > used
               /\ PopUntil(c, used).endless \in BOOLEAN
               /\ PopUntil(c, used).endless <=> ~(E \subseteq c.data)
<1> DEFINE t == PopUntil(c, used).cache
           E == Evicted(c, used)
           s == c.order
           N == Len(s)
           Left(i) == c.data \ ToSet(SubSeq(s, 1, i))
           I == {i \in 0 .. N : Used(Left(i)) <= used}
           n == Min(I)
           p == SubSeq(s, 1, n)
           q == SubSeq(s, n + 1, N)
<1>0. s \in Seq(Keys) /\ IsInjective(s) /\ c.data \subseteq ToSet(s) /\ c.data \in SUBSET Keys
  BY DEF Ordered
<1>1. /\ N \in Nat /\ DOMAIN s = 1 .. N /\ \A i \in 1 .. N : s[i] \in Keys
      /\ \A y : y \in ToSet(s) <=> \E i \in 1 .. N : s[i] = y
      /\ \A i, j \in 1 .. N : s[i] = s[j] => i = j
  <2> HIDE DEF s
  <2> QED BY <1>0, InSeq
<1>2. ASSUME NEW i \in 0 .. N
      PROVE  \A y : y \in ToSet(SubSeq(s, 1, i)) <=> \E j \in 1 .. i : s[j] = y
  <2> HIDE DEF s
  <2>1. /\ Len(SubSeq(s, 1, i)) = i /\ SubSeq(s, 1, i) \in Seq(Keys)
        /\ \A j \in 1 .. i : SubSeq(s, 1, i)[j] = s[j]
    BY <1>0, <1>1
  <2> DEFINE u == SubSeq(s, 1, i)
  <2> HIDE DEF u
  <2>2. \A y : y \in ToSet(u) <=> \E j \in 1 .. i : u[j] = y
    <3>1. u \in Seq(Keys) /\ Len(u) = i
      BY <2>1 DEF u
    <3> QED BY <3>1, InSeq
  <2>3. \A y : y \in ToSet(u) <=> \E j \in 1 .. i : s[j] = y
    BY <2>1, <2>2, Zenon DEF u
  <2> QED BY <2>3 DEF u
<1>3. n \in I /\ \A i \in I : n <= i
  <2>1. Left(N) = {}
    <3> HIDE DEF N, s
    <3> QED BY <1>0, <1>1, <1>2
  <2>2. N \in 0 .. N /\ Used(Left(N)) <= used
    <3> HIDE DEF N, Left
    <3> QED BY <1>1, <2>1, UsedEmpty
  <2>3. I \in SUBSET Nat /\ I # {}
    <3> HIDE DEF N, Left
    <3> QED BY <1>1, <2>2
  <2> HIDE DEF I
  <2> QED BY <2>3, MinFacts
<1>4. n \in 0 .. N /\ Used(Left(n)) <= used /\ \A i \in 0 .. N : i < n => ~(Used(Left(i)) <= used)
  <2> HIDE DEF n, N, Left
  <2> QED BY <1>1, <1>3
<1>5. t = [order |-> q, data |-> Left(n)] /\ PopUntil(c, used).endless = ~(ToSet(p) \subseteq c.data)
  BY DEF PopUntil
<1> HIDE DEF n, I, s
<1>6. /\ q \in Seq(Keys) /\ Len(q) = N - n
      /\ \A i \in 1 .. N - n : q[i] = s[i + n]
  BY <1>0, <1>4, TailFacts
<1>7. \A y : y \in ToSet(p) <=> \E j \in 1 .. n : s[j] = y
  BY <1>2, <1>4
<1> HIDE DEF p, q, N
<1>8. \A y : y \in ToSet(q) <=> \E i \in 1 .. N - n : q[i] = y
  BY <1>6, InSeq
<1>9. /\ \A i \in 1 .. N - n : i + n \in 1 .. N /\ i + n > n
      /\ \A i \in 1 .. N : i <= n \/ (i - n \in 1 .. N - n /\ q[i - n] = s[i])
  BY <1>1, <1>4, <1>6
<1>10. \A y : y \in ToSet(q) <=> y \in ToSet(s) /\ y \notin ToSet(p)
  <2> TAKE y
  <2>1. ASSUME y \in ToSet(q) PROVE y \in ToSet(s) /\ y \notin ToSet(p)
    <3>1. PICK i \in 1 .. N - n : q[i] = y
      BY <1>8, <2>1
    <3>2. i + n \in 1 .. N /\ s[i + n] = y /\ i + n > n
      BY <1>6, <1>9, <3>1
    <3>3. \A j \in 1 .. n : s[j] # y
      BY <1>1, <1>4, <3>2
    <3> QED BY <1>1, <1>7, <3>2, <3>3
  <2>2. ASSUME y \in ToSet(s), y \notin ToSet(p) PROVE y \in ToSet(q)
    <3>1. PICK i \in 1 .. N : s[i] = y
      BY <1>1, <2>2
    <3>2. ~(i <= n)
      BY <1>1, <1>4, <1>7, <2>2, <3>1
    <3> QED BY <1>8, <1>9, <3>1, <3>2
  <2> QED BY <2>1, <2>2
<1>11. E = ToSet(p) /\ ToSet(p) \subseteq ToSet(s)
  <2>1. t.order = q
    BY <1>5
  <2>2. \A j \in 1 .. n : j \in 1 .. N
    BY <1>1, <1>4
  <2>3. ToSet(p) \subseteq ToSet(s)
    BY <1>1, <1>7, <2>2
  <2> QED BY <1>10, <2>1, <2>3 DEF Evicted, s
<1> HIDE DEF E, t
<1>12. Left(n) = c.data \ E
  BY <1>11 DEF p
<1>13. Ordered(t) /\ Used(t.data) <= used /\ t.data = c.data \ E /\ ToSet(t.order) = ToSet(s) \ E
  <2>1. t.order = q /\ t.data = c.data \ E /\ t \in [order : Seq(Keys), data : SUBSET Keys]
    BY <1>0, <1>5, <1>6, <1>12
  <2>2. \A i, j \in 1 .. N - n : q[i] = q[j] => i = j
    <3> TAKE i, j \in 1 .. N - n
    <3> HAVE q[i] = q[j]
    <3>1. s[i + n] = s[j + n] /\ i + n \in 1 .. N /\ j + n \in 1 .. N
      BY <1>6, <1>9
    <3>2. i + n = j + n
      BY <1>1, <3>1
    <3> QED BY <1>1, <1>4, <3>2
  <2>3. IsInjective(q)
    BY <1>6, <2>2, InSeq
  <2>4. ToSet(q) = ToSet(s) \ E
    BY <1>10, <1>11
  <2> QED BY <1>0, <1>4, <1>12, <2>1, <2>3, <2>4 DEF Ordered
<1>14. ASSUME NEW x, NEW y
       PROVE  Older(t, x, y) <=> x \notin E /\ Older(c, x, y)
  <2>0. t.order = q
    BY <1>5
  <2>1. ASSUME Older(t, x, y) PROVE x \notin E /\ Older(c, x, y)
    <3>1. PICK i, j \in 1 .. N - n : i < j /\ q[i] = x /\ q[j] = y
      BY <1>6, <2>0, <2>1 DEF Older, Before
    <3>2. i + n < j + n /\ s[i + n] = x /\ s[j + n] = y
      BY <1>1, <1>4, <1>6, <3>1
    <3>3. Older(c, x, y)
      BY <1>9, <3>1, <3>2 DEF Older, Before, s, N
    <3>4. x \in ToSet(q)
      BY <1>8, <3>1
    <3> QED BY <1>10, <1>11, <3>3, <3>4
  <2>2. ASSUME x \notin E, Older(c, x, y) PROVE Older(t, x, y)
    <3>1. PICK i, j \in 1 .. N : i < j /\ s[i] = x /\ s[j] = y
      BY <2>2 DEF Older, Before, s, N
    <3>2. ~(i <= n)
      BY <1>1, <1>4, <1>7, <1>11, <2>2, <3>1
    <3>3. i - n \in 1 .. N - n /\ q[i - n] = x /\ j - n \in 1 .. N - n /\ q[j - n] = y /\ i - n < j - n
      BY <1>1, <1>4, <1>9, <3>1, <3>2
    <3> QED BY <1>6, <2>0, <3>3 DEF Older, Before
  <2> QED BY <2>1, <2>2
<1>15. ASSUME NEW x, NEW y, y \in E, Older(c, x, y)
       PROVE  x \in E
  <2>1. PICK i, j \in 1 .. N : i < j /\ s[i] = x /\ s[j] = y
    BY <1>15 DEF Older, Before, s, N
  <2>2. PICK m \in 1 .. n : s[m] = y
    BY <1>7, <1>11, <1>15
  <2>3. m = j
    BY <1>1, <1>4, <2>1, <2>2
  <2>4. i \in 1 .. n
    BY <1>1, <1>4, <2>1, <2>2, <2>3
  <2> QED BY <1>7, <1>11, <2>1, <2>4
<1>16. ASSUME NEW y \in E
       PROVE  Used(c.data \ {x \in Keys : Older(c, x, y)}) > used
  <2>1. PICK m \in 1 .. n : s[m] = y
    BY <1>7, <1>11
  <2>2. m \in Nat /\ m - 1 \in 0 .. N /\ m - 1 < n /\ m \in 1 .. N
    BY <1>1, <1>4
  <2>3. ~(Used(Left(m - 1)) <= used)
    <3> HIDE DEF Left
    <3> QED BY <1>4, <2>2
  <2>4. \A x : x \in ToSet(SubSeq(s, 1, m - 1)) <=> \E j \in 1 .. m - 1 : s[j] = x
    BY <1>2, <2>2
  <2>5. ASSUME NEW x \in Keys PROVE Older(c, x, y) <=> \E j \in 1 .. m - 1 : s[j] = x
    <3>1. ASSUME Older(c, x, y) PROVE \E j \in 1 .. m - 1 : s[j] = x
      <4>1. PICK i, j \in 1 .. N : i < j /\ s[i] = x /\ s[j] = y
        BY <3>1 DEF Older, Before, s, N
      <4>2. j = m
        BY <1>1, <2>1, <2>2, <4>1
      <4> QED BY <1>1, <2>2, <4>1, <4>2
    <3>2. ASSUME NEW j \in 1 .. m - 1, s[j] = x PROVE Older(c, x, y)
      <4>1. j \in 1 .. N /\ j < m
        BY <1>1, <2>2
      <4> QED BY <2>1, <2>2, <3>2, <4>1 DEF Older, Before, s, N
    <3> QED BY <3>1, <3>2
  <2>6. Left(m - 1) = c.data \ {x \in Keys : Older(c, x, y)}
    BY <1>0, <2>4, <2>5
  <2>7. Used(Left(m - 1)) \in Nat
    <3>1. IsFiniteSet(ToSet(s)) /\ ToSet(s) \in SUBSET Keys
      BY <1>0, SeqFinite
    <3>2. Left(m - 1) \in SUBSET ToSet(s)
      BY <1>0
    <3> HIDE DEF Left
    <3> QED BY <3>1, <3>2, UsedMonotone
  <2> HIDE DEF Left
  <2>8. Used(Left(m - 1)) > used
    BY <2>3, <2>7
  <2> QED BY <2>6, <2>8, Zenon
<1>17. PopUntil(c, used).endless \in BOOLEAN /\ (PopUntil(c, used).endless <=> ~(E \subseteq c.data))
  BY <1>5, <1>11
<1>18. E \subseteq ToSet(s)
  BY <1>11
<1> QED BY <1>13, <1>14, <1>15, <1>16, <1>17, <1>18 DEF t, E, s

-----------------------------------------------------------------------------
(* One item.                                                               *)

Item == [hash : Keys, offset : Nat, full : BOOLEAN]
Cache == [order : Seq(Keys), data : SUBSET Keys]

\* The state of the second pass over the items.
Pass(a) ==
    /\ a \in [cache : Cache, out : Seq(Item), status : {"ok", "error", "hung"}]
    /\ Sound(a.cache)

\* The cache with an item set: room is made, then it is the last of the order.
Stored(c, h) ==
    Touch([MakeRoom(c, Size[h]).cache EXCEPT !.data = @ \cup {h}], h)

LEMMA FiniteCache ==
    ASSUME NEW c, Ordered(c)
    PROVE  /\ IsFiniteSet(ToSet(c.order)) /\ ToSet(c.order) \in SUBSET Keys
           /\ c.data \in SUBSET ToSet(c.order) /\ IsFiniteSet(c.data) /\ Used(c.data) \in Nat
<1>1. IsFiniteSet(ToSet(c.order)) /\ ToSet(c.order) \in SUBSET Keys
  BY SeqFinite DEF Ordered
<1>2. c.data \in SUBSET ToSet(c.order)
  BY DEF Ordered
<1> QED BY <1>1, <1>2, UsedMonotone

LEMMA StoredFacts ==
    ASSUME NEW c, Ordered(c), NEW h \in Keys, h \notin c.data, Size[h] <= Capacity
    PROVE  LET t == Stored(c, h)
               E == Evicted(c, Capacity - Size[h])
           IN  /\ Sound(t)
               /\ t.data = (c.data \ E) \cup {h}
               /\ ToSet(t.order) = (ToSet(c.order) \ E) \cup {h}
               /\ \A x, y : Older(t, x, y)
                               <=> /\ x # h
                                   /\ \/ y # h /\ x \notin E /\ Older(c, x, y)
                                      \/ y = h /\ x \in ToSet(c.order) \ E
<1> DEFINE t == Stored(c, h)
           E == Evicted(c, Capacity - Size[h])
           r == MakeRoom(c, Size[h]).cache
           u == Touch(r, h)
<1>0. Size[h] \in Nat /\ Capacity \in Nat /\ Capacity - Size[h] \in Nat
  BY ProcessorCacheAssumption
<1>1. /\ Ordered(r) /\ Used(r.data) <= Capacity - Size[h]
      /\ r.data = c.data \ E /\ ToSet(r.order) = ToSet(c.order) \ E
      /\ \A x, y : Older(r, x, y) <=> x \notin E /\ Older(c, x, y)
  <2> DEFINE used == Capacity - Size[h]
  <2> HIDE DEF used
  <2>1. used \in Nat
    BY <1>0 DEF used
  <2> QED BY <2>1, PopFacts DEF MakeRoom, used
<1> HIDE DEF r, E
<1>2. /\ Ordered(u) /\ u.data = r.data
      /\ ToSet(u.order) = ToSet(r.order) \cup {h}
      /\ \A x, y : Older(u, x, y) <=> /\ x # h
                                      /\ \/ y # h /\ Older(r, x, y)
                                         \/ y = h /\ x \in ToSet(r.order)
  BY <1>1, TouchFacts
<1>3. t.order = u.order /\ t.data = r.data \cup {h} /\ t \in Cache
  <2> DEFINE d == r.data \cup {h}
             w == [r EXCEPT !.data = d]
  <2>1. r \in Cache /\ w \in Cache /\ w.order = r.order /\ w.data = d
    BY <1>1 DEF Ordered, Cache
  <2>2. t = Touch(w, h)
    BY DEF Stored, r
  <2> HIDE DEF w, t
  <2>3. t.order = u.order /\ t.data = w.data /\ t = [w EXCEPT !.order = u.order]
    BY <2>1, <2>2 DEF Touch, Cache
  <2>4. u.order \in Seq(Keys)
    BY <1>2 DEF Ordered
  <2> QED BY <2>1, <2>3, <2>4 DEF Cache
<1> HIDE DEF t, u
<1>4. Ordered(t)
  BY <1>1, <1>2, <1>3 DEF Ordered, Cache
<1>5. Used(t.data) = Used(r.data) + Size[h]
  <2>1. IsFiniteSet(r.data) /\ r.data \in SUBSET Keys /\ h \notin r.data
    BY <1>1, FiniteCache
  <2> QED BY <1>3, <2>1, UsedAdd
<1>6. Used(t.data) <= Capacity
  <2>1. Used(r.data) \in Nat
    BY <1>1, FiniteCache
  <2> QED BY <1>0, <1>1, <1>5, <2>1
<1>7. t.data = (c.data \ E) \cup {h} /\ ToSet(t.order) = (ToSet(c.order) \ E) \cup {h}
  BY <1>1, <1>2, <1>3
<1>8. \A x, y : Older(t, x, y) <=> Older(u, x, y)
  BY <1>3 DEF Older
<1>9. \A x, y : Older(t, x, y) <=> /\ x # h
                                   /\ \/ y # h /\ x \notin E /\ Older(c, x, y)
                                      \/ y = h /\ x \in ToSet(c.order) \ E
  BY <1>1, <1>2, <1>8, Zenon
<1> QED BY <1>4, <1>6, <1>7, <1>9 DEF t, E, Sound

\* What becomes of one item.
LEMMA ItemCases ==
    ASSUME NEW a, Pass(a), NEW item \in Item
    PROVE  LET b == GetAndUpdateItem(a, item)
               h == item.hash
               E == Evicted(a.cache, Capacity - Size[h])
           IN  /\ Pass(b)
               /\ a.status # "ok" => b = a
               /\ a.status = "ok" /\ h \in a.cache.data =>
                      /\ b.status = "ok" /\ b.cache = Touch(a.cache, h)
                      /\ b.out = Append(a.out, [item EXCEPT !.full = FALSE])
               /\ a.status = "ok" /\ h \notin a.cache.data /\ b.status = "ok" =>
                      /\ item.full /\ Size[h] <= Capacity /\ E \subseteq a.cache.data
                      /\ b.cache = Stored(a.cache, h)
                      /\ b.out = Append(a.out, item)
               /\ (/\ a.status = "ok" /\ item.full /\ Size[h] <= Capacity
                   /\ E \subseteq a.cache.data)
                      => b.status = "ok"
<1> DEFINE b == GetAndUpdateItem(a, item)
           h == item.hash
           E == Evicted(a.cache, Capacity - Size[h])
           room == MakeRoom(a.cache, Size[h])
<1>0. /\ a \in [cache : Cache, out : Seq(Item), status : {"ok", "error", "hung"}]
      /\ Sound(a.cache) /\ Ordered(a.cache) /\ h \in Keys
      /\ Size[h] \in Nat /\ Capacity \in Nat /\ item.full \in BOOLEAN
  BY ProcessorCacheAssumption DEF Pass, Item, Sound
<1>1. CASE a.status # "ok"
  <2>1. b = a
    BY <1>1 DEF GetAndUpdateItem
  <2> QED BY <1>1, <2>1
<1>2. CASE a.status = "ok" /\ h \in a.cache.data
  <2>1. b = [cache |-> Touch(a.cache, h), out |-> Append(a.out, [item EXCEPT !.full = FALSE]),
             status |-> "ok"]
    BY <1>2 DEF GetAndUpdateItem, Updating
  <2>2. Ordered(Touch(a.cache, h)) /\ Touch(a.cache, h).data = a.cache.data
    BY <1>0, TouchFacts
  <2>3. Sound(Touch(a.cache, h)) /\ Touch(a.cache, h) \in Cache
    BY <1>0, <2>2 DEF Sound, Ordered, Cache
  <2>4. [item EXCEPT !.full = FALSE] \in Item
    BY DEF Item
  <2>5. Append(a.out, [item EXCEPT !.full = FALSE]) \in Seq(Item)
    BY <1>0, <2>4
  <2>6. Pass(b)
    BY <2>1, <2>3, <2>5 DEF Pass
  <2>7. b.status = "ok" /\ b.cache = Touch(a.cache, h)
        /\ b.out = Append(a.out, [item EXCEPT !.full = FALSE])
    BY <2>1
  <2> QED BY <1>2, <2>6, <2>7
<1>3. CASE a.status = "ok" /\ h \notin a.cache.data
  <2>1. CASE ~item.full \/ Size[h] > Capacity
    <3>1. b = [a EXCEPT !.status = "error"]
      BY <1>3, <2>1 DEF GetAndUpdateItem
    <3>2. Pass(b) /\ b.status = "error"
      BY <1>0, <3>1 DEF Pass
    <3> QED BY <1>0, <1>3, <2>1, <3>2
  <2>2. CASE item.full /\ ~(Size[h] > Capacity) 
    <3>0. Size[h] <= Capacity
      BY <1>0, <2>2
    <3>1. room.endless \in BOOLEAN /\ (room.endless <=> ~(E \subseteq a.cache.data))
      <4> DEFINE used == Capacity - Size[h]
      <4>1. used \in Nat
        BY <1>0, <3>0
      <4> HIDE DEF used
      <4>2. PopUntil(a.cache, used).endless \in BOOLEAN
            /\ (PopUntil(a.cache, used).endless <=> ~(Evicted(a.cache, used) \subseteq a.cache.data))
        BY <1>0, <4>1, PopFacts
      <4> QED BY <4>2 DEF MakeRoom, used
    <3>2. CASE room.endless
      <4>1. b = [a EXCEPT !.status = "hung"]
        BY <1>3, <2>2, <3>2 DEF GetAndUpdateItem
      <4>2. Pass(b) /\ b.status = "hung"
        BY <1>0, <4>1 DEF Pass
      <4> HIDE DEF E, room, b
      <4> QED BY <1>3, <3>1, <3>2, <4>2 DEF E, b
    <3>3. CASE ~room.endless
      <4>1. b = [cache |-> Stored(a.cache, h), out |-> Append(a.out, item), status |-> "ok"]
        BY <1>3, <2>2, <3>3 DEF GetAndUpdateItem, Updating, Stored
      <4>2. Sound(Stored(a.cache, h))
        BY <1>0, <1>3, <3>0, StoredFacts
      <4>3. Stored(a.cache, h) \in Cache /\ Append(a.out, item) \in Seq(Item)
        BY <1>0, <4>2 DEF Sound, Ordered, Cache
      <4>4. Pass(b) /\ b.status = "ok" /\ b.cache = Stored(a.cache, h) /\ b.out = Append(a.out, item)
        BY <4>1, <4>2, <4>3 DEF Pass
      <4> HIDE DEF E, room, b
      <4> QED BY <1>3, <2>2, <3>0, <3>1, <3>3, <4>4 DEF E, b
    <3> QED BY <3>1, <3>2, <3>3
  <2> QED BY <1>0, <2>1, <2>2
<1> QED BY <1>1, <1>2, <1>3

-----------------------------------------------------------------------------
(* Both passes.                                                            *)

\* Counting up to n.
LEMMA Climb ==
    ASSUME NEW n \in Nat, NEW G, 0 \in G, \A i \in 1 .. n : i - 1 \in G => i \in G
    PROVE  \A i \in 0 .. n : i \in G
<1> DEFINE S == {i \in 0 .. n : i \notin G}
<1>1. SUFFICES ASSUME S # {} PROVE FALSE
  OBVIOUS
<1>2. S \in SUBSET Nat
  OBVIOUS
<1>3. PICK m \in S : \A y \in S : m <= y
  BY <1>1, <1>2, NatLeast
<1>4. m \in 0 .. n /\ m \notin G /\ m # 0
  BY <1>3
<1>5. m \in 1 .. n /\ m - 1 \in 0 .. n /\ ~(m <= m - 1)
  BY <1>4
<1>6. m - 1 \in G
  BY <1>3, <1>5
<1> QED BY <1>4, <1>5, <1>6

\* The hashes of the first i items.
First(items, i) == {items[j].hash : j \in 1 .. i}

LEMMA FirstFacts ==
    ASSUME NEW items \in Seq(Item)
    PROVE  /\ Len(items) \in Nat /\ DOMAIN items = 1 .. Len(items)
           /\ \A i \in 1 .. Len(items) : items[i] \in Item /\ items[i].hash \in Keys
           /\ First(items, 0) = {} /\ First(items, Len(items)) = Hashes(items)
           /\ \A i \in 1 .. Len(items) : First(items, i) = First(items, i - 1) \cup {items[i].hash}
           /\ \A i \in 0 .. Len(items) : First(items, i) \subseteq Hashes(items)
           /\ Hashes(items) \in SUBSET Keys /\ IsFiniteSet(Hashes(items))
<1>1. /\ Len(items) \in Nat /\ DOMAIN items = 1 .. Len(items)
      /\ \A i \in 1 .. Len(items) : items[i] \in Item /\ items[i].hash \in Keys
  <2>1. /\ Len(items) \in Nat /\ DOMAIN items = 1 .. Len(items)
        /\ \A i \in 1 .. Len(items) : items[i] \in Item
    OBVIOUS
  <2>2. \A item \in Item : item.hash \in Keys
    BY DEF Item
  <2> QED BY <2>1, <2>2
<1>2. First(items, 0) = {} /\ First(items, Len(items)) = Hashes(items)
  BY <1>1 DEF First, Hashes
<1>3. ASSUME NEW i \in 1 .. Len(items)
      PROVE  First(items, i) = First(items, i - 1) \cup {items[i].hash}
  <2>1. \A j : j \in 1 .. i <=> j \in 1 .. i - 1 \/ j = i
    BY <1>1
  <2> QED BY <2>1, Zenon DEF First
<1>4. ASSUME NEW i \in 0 .. Len(items) PROVE First(items, i) \subseteq Hashes(items)
  <2>1. \A j \in 1 .. i : j \in 1 .. Len(items)
    BY <1>1
  <2> QED BY <1>1, <2>1 DEF First, Hashes
<1>5. Hashes(items) \in SUBSET Keys
  BY <1>1 DEF Hashes
<1>6. IsFiniteSet(Hashes(items))
  <2> DEFINE hs == [i \in 1 .. Len(items) |-> items[i].hash]
  <2>1. hs \in Surjection(1 .. Len(items), Hashes(items))
    BY <1>1 DEF Surjection, Hashes
  <2>2. IsFiniteSet(1 .. Len(items))
    BY <1>1, FS_Interval
  <2> HIDE DEF hs
  <2> QED BY <2>1, <2>2, FS_Surjection
<1> QED BY <1>1, <1>2, <1>3, <1>4, <1>5, <1>6

\* After the first pass the items of the prompt are the last of the order.
LEMMA TouchedFacts ==
    ASSUME NEW c, Ordered(c), NEW items \in Seq(Item)
    PROVE  LET t == Touched(c, items)
               H == Hashes(items)
           IN  /\ Ordered(t) /\ t.data = c.data
               /\ ToSet(t.order) = ToSet(c.order) \cup H
               /\ \A x \in ToSet(t.order) \ H : \A y \in H : Older(t, x, y)
<1> DEFINE n == Len(items)
<1>0. /\ n \in Nat /\ \A i \in 1 .. n : items[i].hash \in Keys
      /\ First(items, 0) = {} /\ First(items, n) = Hashes(items)
      /\ \A i \in 1 .. n : First(items, i) = First(items, i - 1) \cup {items[i].hash}
  BY FirstFacts
<1>1. PICK f : /\ f[0] = c /\ Touched(c, items) = f[n]
               /\ \A i \in 1 .. n : f[i] = Touch(f[i - 1], items[i].hash)
  BY <1>0, TouchedChain
<1> DEFINE P(i) == /\ Ordered(f[i]) /\ f[i].data = c.data
                   /\ ToSet(f[i].order) = ToSet(c.order) \cup First(items, i)
                   /\ \A x \in ToSet(f[i].order) \ First(items, i) :
                          \A y \in First(items, i) : Older(f[i], x, y)
           G == {i \in 0 .. n : P(i)}
<1> HIDE DEF n
<1>2. P(0)
  BY <1>0, <1>1
<1>3. ASSUME NEW i \in 1 .. n, P(i - 1) PROVE P(i)
  <2> DEFINE h == items[i].hash  p == f[i - 1]  t == f[i]
             F == First(items, i - 1)
  <2>1. First(items, i) = F \cup {h} /\ h \in Keys /\ t = Touch(p, h)
    BY <1>0, <1>1
  <2>2. /\ Ordered(p) /\ p.data = c.data /\ ToSet(p.order) = ToSet(c.order) \cup F
        /\ \A x \in ToSet(p.order) \ F : \A y \in F : Older(p, x, y)
    BY <1>3
  <2> HIDE DEF h, p, t, F
  <2>3. /\ Ordered(t) /\ t.data = p.data
        /\ ToSet(t.order) = ToSet(p.order) \cup {h}
        /\ \A x, y : Older(t, x, y) <=> /\ x # h
                                        /\ \/ y # h /\ Older(p, x, y)
                                           \/ y = h /\ x \in ToSet(p.order)
    BY <2>1, <2>2, TouchFacts
  <2>4. \A x \in ToSet(t.order) \ (F \cup {h}) : \A y \in F \cup {h} : Older(t, x, y)
    BY <2>2, <2>3
  <2>5. Ordered(t) /\ t.data = c.data /\ ToSet(t.order) = ToSet(c.order) \cup (F \cup {h})
    BY <2>2, <2>3
  <2> QED BY <2>1, <2>4, <2>5 DEF t
<1>4. \A i \in 0 .. n : i \in G
  <2>0. 0 \in G
    BY <1>0, <1>2
  <2>1. \A i \in 1 .. n : i - 1 \in G => i \in G
    <3> HIDE DEF P
    <3>1. \A i \in 1 .. n : i \in 0 .. n
      BY <1>0
    <3> QED BY <1>3, <3>1
  <2> HIDE DEF G
  <2> QED BY <1>0, <2>0, <2>1, Climb
<1>5. P(n)
  <2> HIDE DEF P
  <2>1. n \in 0 .. n
    BY <1>0
  <2> QED BY <1>4, <2>1
<1> QED BY <1>0, <1>1, <1>5 DEF n

\* The second pass: its states, and what it makes of every item.
OutItem(f, items, i) ==
    IF items[i].hash \in f[i - 1].cache.data THEN [items[i] EXCEPT !.full = FALSE] ELSE items[i]

Run(c, items, f) ==
    /\ f[0] = Updating(c, << >>, "ok")
    /\ Updated(c, items) = f[Len(items)]
    /\ \A i \in 1 .. Len(items) : f[i] = GetAndUpdateItem(f[i - 1], items[i])
    /\ \A i \in 0 .. Len(items) :
          /\ Pass(f[i])
          /\ f[i].status = "ok" =>
                /\ i > 0 => f[i - 1].status = "ok"
                /\ Len(f[i].out) = i
                /\ \A j \in 1 .. i : f[i].out[j] = OutItem(f, items, j)

LEMMA RunFacts ==
    ASSUME NEW c, Sound(c), NEW items \in Seq(Item)
    PROVE  \E f : Run(c, items, f)
<1> DEFINE n == Len(items)
<1>0. n \in Nat /\ \A i \in 1 .. n : items[i] \in Item
  BY FirstFacts
<1>1. PICK f : /\ f[0] = Updating(c, << >>, "ok") /\ Updated(c, items) = f[n]
               /\ \A i \in 1 .. n : f[i] = GetAndUpdateItem(f[i - 1], items[i])
  BY <1>0, UpdatedChain
<1> DEFINE P(i) == /\ Pass(f[i])
                   /\ f[i].status = "ok" =>
                        /\ i > 0 => f[i - 1].status = "ok"
                        /\ Len(f[i].out) = i
                        /\ \A j \in 1 .. i : f[i].out[j] = OutItem(f, items, j)
           G == {i \in 0 .. n : P(i)}
<1> HIDE DEF n
<1>2. P(0)
  <2>1. f[0] = [cache |-> c, out |-> << >>, status |-> "ok"]
    BY <1>1 DEF Updating
  <2>2. Pass(f[0])
    BY <2>1 DEF Pass, Sound, Ordered, Cache
  <2> QED BY <2>1, <2>2
<1>3. ASSUME NEW i \in 1 .. n, P(i - 1) PROVE P(i)
  <2> DEFINE a == f[i - 1]  b == f[i]  item == items[i]  o == OutItem(f, items, i)
  <2>0. Pass(a) /\ item \in Item /\ b = GetAndUpdateItem(a, item) /\ i \in Nat /\ i - 1 \in Nat /\ i > 0
    BY <1>0, <1>1, <1>3
  <2>a. o = IF item.hash \in a.cache.data THEN [item EXCEPT !.full = FALSE] ELSE item
    BY DEF OutItem
  <2>b. a.status = "ok" => /\ Len(a.out) = i - 1
                           /\ \A j \in 1 .. i - 1 : a.out[j] = OutItem(f, items, j)
    BY <1>3
  <2> HIDE DEF a, b, item, o
  <2>1. /\ Pass(b)
        /\ a.status # "ok" => b = a
        /\ a.status = "ok" /\ b.status = "ok" => b.out = Append(a.out, o)
    BY <2>0, <2>a, ItemCases
  <2>2. ASSUME b.status = "ok"
        PROVE  /\ a.status = "ok" /\ Len(b.out) = i
               /\ \A j \in 1 .. i : b.out[j] = OutItem(f, items, j)
    <3>1. a.status = "ok" /\ b.out = Append(a.out, o) /\ a.out \in Seq(Item)
      BY <2>0, <2>1, <2>2 DEF Pass
    <3>2. Len(b.out) = i /\ b.out[i] = o /\ \A j \in 1 .. i - 1 : b.out[j] = a.out[j]
      BY <2>0, <2>b, <3>1
    <3>3. \A j \in 1 .. i : j \in 1 .. i - 1 \/ j = i
      BY <2>0
    <3> QED BY <2>b, <3>1, <3>2, <3>3 DEF o
  <2> QED BY <2>1, <2>2 DEF a, b
<1>4. \A i \in 0 .. n : i \in G
  <2>0. 0 \in G
    BY <1>0, <1>2
  <2>1. \A i \in 1 .. n : i - 1 \in G => i \in G
    <3> HIDE DEF P
    <3>1. \A i \in 1 .. n : i \in 0 .. n
      BY <1>0
    <3> QED BY <1>3, <3>1
  <2> HIDE DEF G
  <2> QED BY <1>0, <2>0, <2>1, Climb
<1>5. \A i \in 0 .. n : P(i)
  <2> HIDE DEF P
  <2> QED BY <1>4
<1> QED BY <1>1, <1>5 DEF Run, n

\* A pass that ended well went well all along.
LEMMA RunOk ==
    ASSUME NEW c, NEW items \in Seq(Item), NEW f, Run(c, items, f),
           Updated(c, items).status = "ok"
    PROVE  \A i \in 0 .. Len(items) : f[i].status = "ok"
<1> DEFINE n == Len(items)
           G == {i \in 0 .. n : f[n - i].status = "ok"}
<1>0. n \in Nat
  BY FirstFacts
<1>1. \A i \in 0 .. n : f[i].status = "ok" /\ i > 0 => f[i - 1].status = "ok"
  BY DEF Run
<1>2. f[n].status = "ok"
  BY DEF Run
<1> HIDE DEF n
<1>3. 0 \in G
  BY <1>0, <1>2
<1>4. ASSUME NEW i \in 1 .. n, i - 1 \in G PROVE i \in G
  <2>1. n - (i - 1) \in 0 .. n /\ n - (i - 1) > 0 /\ (n - (i - 1)) - 1 = n - i /\ i \in 0 .. n
    BY <1>0
  <2>2. f[n - (i - 1)].status = "ok"
    BY <1>4
  <2> QED BY <1>1, <2>1, <2>2
<1>5. \A i \in 0 .. n : i \in G
  <2> HIDE DEF G
  <2> QED BY <1>0, <1>3, <1>4, Climb
<1>6. ASSUME NEW i \in 0 .. n PROVE f[i].status = "ok"
  <2>1. n - i \in 0 .. n /\ n - (n - i) = i
    BY <1>0
  <2>2. n - i \in G
    BY <1>5, <2>1
  <2> QED BY <2>1, <2>2
<1> QED BY <1>6 DEF n

-----------------------------------------------------------------------------
(* A prompt and the cache.                                                 *)

LEMMA BothPasses ==
    ASSUME NEW c, Sound(c), NEW items \in Seq(Item)
    PROVE  /\ Sound(Touched(c, items))
           /\ Pass(GetAndUpdate(c, items))
           /\ \E f : Run(Touched(c, items), items, f)
<1> DEFINE t == Touched(c, items)
<1>1. Ordered(t) /\ t.data = c.data
  BY TouchedFacts DEF Sound
<1>2. Sound(t)
  BY <1>1 DEF Sound
<1> HIDE DEF t
<1>3. PICK f : Run(t, items, f)
  BY <1>2, RunFacts
<1>4. Updated(t, items) = f[Len(items)] /\ Len(items) \in 0 .. Len(items)
  BY <1>3, FirstFacts DEF Run
<1>5. Pass(Updated(t, items))
  BY <1>3, <1>4 DEF Run
<1> QED BY <1>2, <1>3, <1>5 DEF GetAndUpdate, t

\* The sender: where the flags tell what the cache missed, a pass that ends
\* well leaves every item of the prompt in the cache.  A missing key is in the
\* order and not in the data, so no eviction gets past it.
LEMMA SenderKeeps ==
    ASSUME NEW c, Sound(c), NEW items \in Seq(Item),
           \A i \in 1 .. Len(items) : items[i].full => items[i].hash \notin c.data,
           GetAndUpdate(c, items).status = "ok"
    PROVE  Hashes(items) \subseteq GetAndUpdate(c, items).cache.data
<1> DEFINE n == Len(items)
           H == Hashes(items)
           t == Touched(c, items)
<1>0. /\ n \in Nat /\ \A i \in 1 .. n : items[i] \in Item /\ items[i].hash \in Keys
      /\ First(items, 0) = {} /\ First(items, n) = H
      /\ \A i \in 1 .. n : First(items, i) = First(items, i - 1) \cup {items[i].hash}
      /\ \A i \in 0 .. n : First(items, i) \subseteq H
  BY FirstFacts
<1>1. Ordered(t) /\ t.data = c.data /\ ToSet(t.order) = ToSet(c.order) \cup H
  BY TouchedFacts DEF Sound
<1>2. PICK f : Run(t, items, f)
  BY BothPasses
<1>3. \A i \in 0 .. n : f[i].status = "ok"
  BY <1>2, RunOk DEF GetAndUpdate
<1>4. /\ f[0].cache = t /\ GetAndUpdate(c, items) = f[n]
      /\ \A i \in 0 .. n : Pass(f[i])
      /\ \A i \in 1 .. n : f[i] = GetAndUpdateItem(f[i - 1], items[i])
  BY <1>2 DEF Run, Updating, GetAndUpdate
<1> DEFINE P(i) == /\ First(items, i) \subseteq f[i].cache.data
                   /\ \A x \in ToSet(f[i].cache.order) \ First(items, i) :
                          \A y \in First(items, i) : Older(f[i].cache, x, y)
                   /\ \A x \in H \ First(items, i) :
                          /\ x \in ToSet(f[i].cache.order) \/ x \in c.data
                          /\ x \in f[i].cache.data => x \in c.data
           G == {i \in 0 .. n : P(i)}
<1> HIDE DEF n, t, H
<1>5. P(0)
  BY <1>0, <1>1, <1>4
<1>6. ASSUME NEW i \in 1 .. n, P(i - 1) PROVE P(i)
  <2> DEFINE h == items[i].hash  a == f[i - 1]  b == f[i]  d == a.cache
             F == First(items, i - 1)
  <2>1. /\ First(items, i) = F \cup {h} /\ h \in Keys /\ b = GetAndUpdateItem(a, items[i])
        /\ items[i] \in Item /\ i - 1 \in 0 .. n /\ i \in 0 .. n /\ h \in H
        /\ items[i].full => h \notin c.data
    <3>1. /\ First(items, i) = F \cup {h} /\ h \in Keys /\ b = GetAndUpdateItem(a, items[i])
          /\ items[i] \in Item /\ i - 1 \in 0 .. n /\ i \in 0 .. n
      BY <1>0, <1>4
    <3>2. h \in H
      BY <1>0, <3>1
    <3> QED BY <3>1, <3>2 DEF n
  <2>2. /\ F \subseteq d.data
        /\ \A x \in ToSet(d.order) \ F : \A y \in F : Older(d, x, y)
        /\ \A x \in H \ F : /\ x \in ToSet(d.order) \/ x \in c.data
                            /\ x \in d.data => x \in c.data
    BY <1>6
  <2>3. Pass(a) /\ a.status = "ok" /\ b.status = "ok" /\ Sound(d) /\ Ordered(d)
    BY <1>3, <1>4, <2>1 DEF Pass, Sound
  <2> DEFINE Q(e) == /\ F \cup {h} \subseteq e.data
                     /\ \A x \in ToSet(e.order) \ (F \cup {h}) :
                            \A y \in F \cup {h} : Older(e, x, y)
                     /\ \A x \in H \ (F \cup {h}) :
                            /\ x \in ToSet(e.order) \/ x \in c.data
                            /\ x \in e.data => x \in c.data
  <2>4. SUFFICES Q(b.cache)
    BY <2>1
  <2> HIDE DEF a, b, h, d, F
  <2>5. CASE h \in d.data
    <3> DEFINE e == Touch(d, h)
    <3>1. b.cache = e
      BY <2>1, <2>3, <2>5, ItemCases DEF d, h
    <3>2. /\ e.data = d.data /\ ToSet(e.order) = ToSet(d.order) \cup {h}
          /\ \A x, y : Older(e, x, y) <=> /\ x # h
                                          /\ \/ y # h /\ Older(d, x, y)
                                             \/ y = h /\ x \in ToSet(d.order)
      BY <2>1, <2>3, TouchFacts
    <3> HIDE DEF e
    <3>3. Q(e)
      BY <2>2, <2>5, <3>2
    <3> QED BY <3>1, <3>3
  <2>6. CASE h \notin d.data
    <3> DEFINE e == Stored(d, h)
               E == Evicted(d, Capacity - Size[h])
    <3>1. b.cache = e /\ items[i].full /\ Size[h] <= Capacity /\ E \subseteq d.data
      BY <2>1, <2>3, <2>6, ItemCases DEF d, h
    <3>2. /\ e.data = (d.data \ E) \cup {h}
          /\ ToSet(e.order) = (ToSet(d.order) \ E) \cup {h}
          /\ \A x, y : Older(e, x, y)
                          <=> /\ x # h
                              /\ \/ y # h /\ x \notin E /\ Older(d, x, y)
                                 \/ y = h /\ x \in ToSet(d.order) \ E
      BY <2>1, <2>3, <2>6, <3>1, StoredFacts
    <3>3. \A x, y : y \in E /\ Older(d, x, y) => x \in E
      <4> DEFINE used == Capacity - Size[h]
      <4>1. used \in Nat
        BY <2>1, <3>1, ProcessorCacheAssumption
      <4> HIDE DEF used
      <4> QED BY <2>3, <4>1, PopFacts DEF used
    <3> HIDE DEF e, E
    <3>4. h \notin c.data /\ h \notin F /\ h \in ToSet(d.order) /\ h \notin E
      BY <2>1, <2>2, <2>6, <3>1
    <3>5. \A y \in F : y \notin E
      BY <2>2, <3>3, <3>4
    <3>6. F \cup {h} \subseteq e.data
      BY <2>2, <3>2, <3>5
    <3>7. \A x \in ToSet(e.order) \ (F \cup {h}) : \A y \in F \cup {h} : Older(e, x, y)
      BY <2>2, <3>2
    <3>8. \A x \in H \ (F \cup {h}) : /\ x \in ToSet(e.order) \/ x \in c.data
                                      /\ x \in e.data => x \in c.data
      BY <2>2, <3>1, <3>2
    <3> QED BY <3>1, <3>6, <3>7, <3>8
  <2> QED BY <2>5, <2>6
<1>7. \A i \in 0 .. n : i \in G
  <2>0. 0 \in G
    BY <1>0, <1>5
  <2>1. \A i \in 1 .. n : i - 1 \in G => i \in G
    <3> HIDE DEF P
    <3>1. \A i \in 1 .. n : i \in 0 .. n
      BY <1>0
    <3> QED BY <1>6, <3>1
  <2> HIDE DEF G
  <2> QED BY <1>0, <2>0, <2>1, Climb
<1>8. First(items, n) \subseteq f[n].cache.data
  <2>1. n \in 0 .. n
    BY <1>0
  <2>2. P(n)
    <3> HIDE DEF P
    <3> QED BY <1>7, <2>1
  <2> QED BY <2>2
<1> QED BY <1>0, <1>4, <1>8 DEF H

\* Every key of the order is cached: nothing is dangling.
Whole(c) == ToSet(c.order) = c.data

\* A prompt that fits the cache: no item of it is evicted for another one.  If
\* the cache was whole and the flags tell at least what it missed, the pass
\* ends well and the cache is whole again.
LEMMA FittingPrompt ==
    ASSUME NEW c, Sound(c), NEW items \in Seq(Item), Used(Hashes(items)) <= Capacity
    PROVE  LET r == GetAndUpdate(c, items)
               told == /\ Whole(c)
                       /\ \A i \in 1 .. Len(items) :
                              items[i].hash \notin c.data => items[i].full
           IN  /\ r.status = "ok" => Hashes(items) \subseteq r.cache.data
               /\ told => r.status = "ok" /\ Whole(r.cache)
<1> DEFINE n == Len(items)
           H == Hashes(items)
           t == Touched(c, items)
           told == /\ Whole(c)
                   /\ \A i \in 1 .. n : items[i].hash \notin c.data => items[i].full
<1>0. /\ n \in Nat /\ \A i \in 1 .. n : items[i] \in Item /\ items[i].hash \in Keys
      /\ First(items, 0) = {} /\ First(items, n) = H
      /\ \A i \in 1 .. n : First(items, i) = First(items, i - 1) \cup {items[i].hash}
      /\ \A i \in 0 .. n : First(items, i) \subseteq H
      /\ H \in SUBSET Keys /\ IsFiniteSet(H)
  BY FirstFacts
<1>a. Used(H) <= Capacity /\ Capacity \in Nat
  BY ProcessorCacheAssumption
<1>1. /\ Ordered(t) /\ t.data = c.data /\ ToSet(t.order) = ToSet(c.order) \cup H
      /\ \A x \in ToSet(t.order) \ H : \A y \in H : Older(t, x, y)
  BY TouchedFacts DEF Sound
<1>2. PICK f : Run(t, items, f)
  BY BothPasses
<1>3. \A i \in 0 .. n : f[i].status = "ok" /\ i > 0 => f[i - 1].status = "ok"
  BY <1>2 DEF Run
<1>4. /\ f[0].cache = t /\ f[0].status = "ok" /\ GetAndUpdate(c, items) = f[n]
      /\ \A i \in 0 .. n : Pass(f[i])
      /\ \A i \in 1 .. n : f[i] = GetAndUpdateItem(f[i - 1], items[i])
  BY <1>2 DEF Run, Updating, GetAndUpdate
<1> DEFINE Kept(F, d) == /\ F \subseteq d.data
                         /\ H \subseteq ToSet(d.order)
                         /\ c.data \cap H \subseteq d.data
                         /\ \A x \in ToSet(d.order) \ H : \A y \in H : Older(d, x, y)
                         /\ told => ToSet(d.order) \ H \subseteq d.data
           P(i) == /\ f[i].status = "ok" => Kept(First(items, i), f[i].cache)
                   /\ told => f[i].status = "ok"
           G == {i \in 0 .. n : P(i)}
<1>b. told => ToSet(c.order) = c.data
  BY DEF Whole
<1>c. \A i \in 1 .. n : told /\ items[i].hash \notin c.data => items[i].full
  OBVIOUS
<1> HIDE DEF n, t, H, told
<1>5. P(0)
  BY <1>0, <1>1, <1>4, <1>b
<1>6. ASSUME NEW i \in 1 .. n, P(i - 1) PROVE P(i)
  <2> DEFINE h == items[i].hash  a == f[i - 1]  b == f[i]  d == a.cache
             F == First(items, i - 1)
             E == Evicted(d, Capacity - Size[h])
  <2>1. /\ First(items, i) = F \cup {h} /\ h \in Keys /\ b = GetAndUpdateItem(a, items[i])
        /\ items[i] \in Item /\ i - 1 \in 0 .. n /\ i \in 0 .. n
    BY <1>0, <1>4
  <2>2. h \in H /\ F \subseteq H /\ (told /\ h \notin c.data => items[i].full)
    BY <1>0, <1>c, <2>1
  <2>3. Pass(a) /\ Sound(d) /\ Ordered(d)
    BY <1>4, <2>1 DEF Pass, Sound
  <2>4. /\ b.status = "ok" => a.status = "ok"
        /\ a.status = "ok" => Kept(F, d)
        /\ told => a.status = "ok"
    BY <1>3, <1>6, <2>1
  <2>5. SUFFICES ASSUME a.status = "ok", Kept(F, d)
                 PROVE  /\ b.status = "ok" => Kept(F \cup {h}, b.cache)
                        /\ told => b.status = "ok"
    BY <2>1, <2>4
  <2>6. Size[h] \in Nat /\ Size[h] <= Capacity /\ Used(H \ {h}) + Size[h] = Used(H)
        /\ Used(H \ {h}) \in Nat
    <3>1. IsFiniteSet(H \ {h}) /\ Used(H \ {h}) \in Nat /\ H \ {h} \in SUBSET Keys
      <4>1. H \ {h} \in SUBSET H
        OBVIOUS
      <4> QED BY <1>0, <4>1, UsedMonotone
    <3>2. Used((H \ {h}) \cup {h}) = Used(H \ {h}) + Size[h]
      BY <2>1, <3>1, UsedAdd
    <3>3. (H \ {h}) \cup {h} = H
      BY <2>2
    <3>4. Size[h] \in Nat
      BY <2>1, ProcessorCacheAssumption
    <3>5. Used(H) = Used(H \ {h}) + Size[h]
      BY <3>2, <3>3
    <3> HIDE DEF h
    <3> QED BY <1>a, <3>1, <3>4, <3>5
  <2> HIDE DEF a, b, h, d, F
  <2>7. CASE h \in d.data
    <3> DEFINE e == Touch(d, h)
    <3>1. b.cache = e /\ b.status = "ok"
      BY <2>1, <2>3, <2>5, <2>7, ItemCases DEF d, h
    <3>2. /\ e.data = d.data /\ ToSet(e.order) = ToSet(d.order) \cup {h}
          /\ \A x, y : Older(e, x, y) <=> /\ x # h
                                          /\ \/ y # h /\ Older(d, x, y)
                                             \/ y = h /\ x \in ToSet(d.order)
      BY <2>1, <2>3, TouchFacts
    <3> HIDE DEF e
    <3>3. Kept(F \cup {h}, e)
      BY <2>2, <2>5, <2>7, <3>2
    <3> QED BY <3>1, <3>3
  <2>8. CASE h \notin d.data
    <3>1. /\ E \subseteq ToSet(d.order)
          /\ \A y \in E : Used(d.data \ {x \in Keys : Older(d, x, y)}) > Capacity - Size[h]
      <4> DEFINE used == Capacity - Size[h]
      <4>1. used \in Nat
        BY <1>a, <2>6
      <4> HIDE DEF used
      <4> QED BY <2>3, <4>1, PopFacts DEF used
    <3> HIDE DEF E
    <3>2. ASSUME NEW y \in E, y \in H PROVE FALSE
      <4> DEFINE R == d.data \ {x \in Keys : Older(d, x, y)}
      <4>1. R \in SUBSET (H \ {h})
        <5> SUFFICES ASSUME NEW x \in R PROVE x \in H /\ x # h
          OBVIOUS
        <5>1. x \in Keys /\ x \in ToSet(d.order) /\ x \in d.data /\ ~Older(d, x, y)
          BY <2>3 DEF Ordered
        <5> QED BY <2>5, <2>8, <3>2, <5>1
      <4> HIDE DEF R
      <4>2. IsFiniteSet(H \ {h}) /\ H \ {h} \in SUBSET Keys
        <5>1. H \ {h} \in SUBSET H
          OBVIOUS
        <5> QED BY <1>0, <5>1, UsedMonotone
      <4>3. Used(R) <= Used(H \ {h}) /\ Used(R) \in Nat
        BY <4>1, <4>2, UsedMonotone
      <4>4. Used(R) > Capacity - Size[h]
        BY <3>1 DEF R
      <4> QED BY <1>a, <2>6, <4>3, <4>4
    <3>3. told => b.status = "ok"
      <4> SUFFICES ASSUME told PROVE b.status = "ok"
        OBVIOUS
      <4>1. items[i].full
        BY <2>2, <2>5, <2>8
      <4>2. E \subseteq d.data
        BY <2>5, <3>1, <3>2
      <4> QED BY <2>1, <2>3, <2>5, <2>6, <4>1, <4>2, ItemCases DEF d, h, E
    <3>4. ASSUME b.status = "ok" PROVE Kept(F \cup {h}, b.cache)
      <4> DEFINE e == Stored(d, h)
      <4>1. b.cache = e
        BY <2>1, <2>3, <2>5, <2>8, <3>4, ItemCases DEF d, h
      <4>2. /\ e.data = (d.data \ E) \cup {h}
            /\ ToSet(e.order) = (ToSet(d.order) \ E) \cup {h}
            /\ \A x, y : Older(e, x, y)
                            <=> /\ x # h
                                /\ \/ y # h /\ x \notin E /\ Older(d, x, y)
                                   \/ y = h /\ x \in ToSet(d.order) \ E
        BY <2>1, <2>3, <2>6, <2>8, StoredFacts DEF E
      <4> HIDE DEF e
      <4>3. F \cup {h} \subseteq e.data /\ H \subseteq ToSet(e.order) /\ c.data \cap H \subseteq e.data
        BY <2>2, <2>5, <3>2, <4>2
      <4>4. \A x \in ToSet(e.order) \ H : \A y \in H : Older(e, x, y)
        BY <2>2, <2>5, <3>2, <4>2
      <4>5. told => ToSet(e.order) \ H \subseteq e.data
        BY <2>5, <4>2
      <4> QED BY <4>1, <4>3, <4>4, <4>5
    <3> QED BY <3>3, <3>4
  <2> QED BY <2>7, <2>8
<1>7. \A i \in 0 .. n : i \in G
  <2>0. 0 \in G
    BY <1>0, <1>5
  <2>1. \A i \in 1 .. n : i - 1 \in G => i \in G
    <3> HIDE DEF P
    <3>1. \A i \in 1 .. n : i \in 0 .. n
      BY <1>0
    <3> QED BY <1>6, <3>1
  <2> HIDE DEF G
  <2> QED BY <1>0, <2>0, <2>1, Climb
<1>8. P(n) /\ Ordered(f[n].cache)
  <2>1. n \in 0 .. n
    BY <1>0
  <2>2. P(n)
    <3> HIDE DEF P
    <3> QED BY <1>7, <2>1
  <2> QED BY <1>4, <2>1, <2>2 DEF Pass, Sound
<1>9. /\ f[n].status = "ok" => H \subseteq f[n].cache.data
      /\ told => f[n].status = "ok" /\ Whole(f[n].cache)
  BY <1>0, <1>8 DEF Whole, Ordered
<1> QED BY <1>4, <1>9 DEF H, told, n

-----------------------------------------------------------------------------
(* What the sender passes on.                                              *)

\* The first pass only looks at the hashes.
LEMMA SameTouched ==
    ASSUME NEW c, NEW s \in Seq(Item), NEW t \in Seq(Item), Len(s) = Len(t),
           \A i \in 1 .. Len(s) : s[i].hash = t[i].hash
    PROVE  Touched(c, s) = Touched(c, t)
<1> DEFINE n == Len(s)
<1>0. n \in Nat /\ n = Len(t)
  OBVIOUS
<1>1. PICK f : /\ f[0] = c /\ Touched(c, s) = f[n]
               /\ \A i \in 1 .. n : f[i] = Touch(f[i - 1], s[i].hash)
  BY <1>0, TouchedChain
<1>2. PICK g : /\ g[0] = c /\ Touched(c, t) = g[n]
               /\ \A i \in 1 .. n : g[i] = Touch(g[i - 1], t[i].hash)
  BY <1>0, TouchedChain
<1>3. \A i \in 1 .. n : s[i].hash = t[i].hash
  OBVIOUS
<1> DEFINE G == {i \in 0 .. n : f[i] = g[i]}
<1> HIDE DEF n
<1>4. 0 \in G
  BY <1>0, <1>1, <1>2
<1>5. ASSUME NEW i \in 1 .. n, i - 1 \in G PROVE i \in G
  BY <1>0, <1>1, <1>2, <1>3, <1>5
<1>6. \A i \in 0 .. n : i \in G
  <2> HIDE DEF G
  <2> QED BY <1>0, <1>4, <1>5, Climb
<1>7. f[n] = g[n]
  BY <1>0, <1>6
<1> QED BY <1>1, <1>2, <1>7

\* What comes out of a pass names the same items at the same offsets, and a
\* second cache that starts the same ends the same: it is sent all it misses.
LEMMA SameCache ==
    ASSUME NEW c, Sound(c), NEW items \in Seq(Item), GetAndUpdate(c, items).status = "ok"
    PROVE  LET r == GetAndUpdate(c, items)
           IN  /\ r.out \in Seq(Item) /\ Len(r.out) = Len(items)
               /\ \A i \in 1 .. Len(items) : /\ r.out[i].hash = items[i].hash
                                             /\ r.out[i].offset = items[i].offset
               /\ GetAndUpdate(c, r.out).status = "ok"
               /\ GetAndUpdate(c, r.out).cache = r.cache
<1> DEFINE n == Len(items)
           t == Touched(c, items)
           r == GetAndUpdate(c, items)
           o == r.out
<1>0. n \in Nat /\ \A i \in 1 .. n : items[i] \in Item
  BY FirstFacts
<1>1. Sound(t) /\ \E f : Run(t, items, f)
  BY BothPasses
<1>2. PICK f : Run(t, items, f)
  BY <1>1
<1>3. \A i \in 0 .. n : f[i].status = "ok"
  BY <1>2, RunOk DEF GetAndUpdate
<1>4. /\ f[0].cache = t /\ r = f[n]
      /\ \A i \in 0 .. n : Pass(f[i])
      /\ \A i \in 1 .. n : f[i] = GetAndUpdateItem(f[i - 1], items[i])
      /\ Len(f[n].out) = n
      /\ \A j \in 1 .. n : f[n].out[j] = OutItem(f, items, j)
  <2>1. n \in 0 .. n
    BY <1>0
  <2> QED BY <1>2, <1>3, <2>1 DEF Run, Updating, GetAndUpdate
<1> HIDE DEF t, r
<1>5. o \in Seq(Item) /\ Len(o) = n /\ \A i \in 1 .. n : o[i] = OutItem(f, items, i)
  <2>1. n \in 0 .. n
    BY <1>0
  <2>2. Pass(f[n])
    BY <1>4, <2>1
  <2> QED BY <1>4, <2>2 DEF Pass
<1> HIDE DEF n, o
<1>6. \A i \in 1 .. n : o[i].hash = items[i].hash /\ o[i].offset = items[i].offset
  BY <1>0, <1>5 DEF OutItem, Item
<1>7. Touched(c, o) = t
  BY <1>5, <1>6, SameTouched DEF n, t
<1>8. PICK g : Run(t, o, g)
  BY <1>1, <1>5, RunFacts
<1>9. /\ g[0].cache = t /\ g[0].status = "ok" /\ GetAndUpdate(c, o) = g[n]
      /\ \A i \in 0 .. n : Pass(g[i])
      /\ \A i \in 1 .. n : g[i] = GetAndUpdateItem(g[i - 1], o[i])
  BY <1>5, <1>7, <1>8 DEF Run, Updating, GetAndUpdate
<1> DEFINE G == {i \in 0 .. n : g[i].status = "ok" /\ g[i].cache = f[i].cache}
<1>10. 0 \in G
  BY <1>0, <1>4, <1>9
<1>11. ASSUME NEW i \in 1 .. n, i - 1 \in G PROVE i \in G
  <2> DEFINE a == f[i - 1]  b == f[i]  d == a.cache  h == items[i].hash
             k == g[i - 1]  m == g[i]  w == o[i]
  <2>0. i - 1 \in 0 .. n /\ i \in 0 .. n
    BY <1>0
  <2>1. /\ Pass(a) /\ a.status = "ok" /\ b.status = "ok" /\ items[i] \in Item
        /\ b = GetAndUpdateItem(a, items[i])
    BY <1>0, <1>3, <1>4, <2>0
  <2>2. /\ Pass(k) /\ k.status = "ok" /\ k.cache = d
        /\ w \in Item /\ w.hash = h /\ m = GetAndUpdateItem(k, w)
    BY <1>5, <1>6, <1>9, <1>11, <2>0
  <2>3. w = IF h \in d.data THEN [items[i] EXCEPT !.full = FALSE] ELSE items[i]
    BY <1>5 DEF OutItem
  <2> HIDE DEF a, b, d, h, k, m, w
  <2>4. CASE h \in d.data
    <3>1. b.cache = Touch(d, h)
      BY <2>1, <2>4, ItemCases DEF d, h
    <3>2. m.cache = Touch(d, h) /\ m.status = "ok"
      BY <2>2, <2>4, ItemCases
    <3> QED BY <2>0, <3>1, <3>2 DEF b, m
  <2>5. CASE h \notin d.data
    <3> DEFINE E == Evicted(d, Capacity - Size[h])
    <3>1. b.cache = Stored(d, h) /\ items[i].full /\ Size[h] <= Capacity /\ E \subseteq d.data
      BY <2>1, <2>5, ItemCases DEF d, h
    <3>2. m.status = "ok"
      BY <2>2, <2>3, <2>5, <3>1, ItemCases
    <3>3. m.cache = Stored(d, h)
      BY <2>2, <2>5, <3>2, ItemCases
    <3> QED BY <2>0, <3>1, <3>2, <3>3 DEF b, m
  <2> QED BY <2>4, <2>5
<1>12. \A i \in 0 .. n : i \in G
  <2> HIDE DEF G
  <2> QED BY <1>0, <1>10, <1>11, Climb
<1>13. g[n].status = "ok" /\ g[n].cache = f[n].cache
  <2>1. n \in G
    BY <1>0, <1>12
  <2> QED BY <2>1
<1> QED BY <1>4, <1>5, <1>6, <1>9, <1>13 DEF o, n, r

\* The items the processor must produce.
LEMMA MissingFacts ==
    ASSUME NEW c, NEW prompt \in Seq([hash : Keys, offset : Nat])
    PROVE  LET items == CacheMissing(c, prompt)
           IN  /\ items \in Seq(Item) /\ Len(items) = Len(prompt)
               /\ \A i \in 1 .. Len(prompt) :
                      /\ items[i].hash = prompt[i].hash /\ items[i].offset = prompt[i].offset
                      /\ items[i].full <=> items[i].hash \notin c.data
               /\ Hashes(items) = Hashes(prompt)
<1> DEFINE items == CacheMissing(c, prompt)
           n == Len(prompt)
           R == [hash : Keys, offset : Nat]
<1>0. n \in Nat /\ DOMAIN prompt = 1 .. n /\ \A i \in 1 .. n : prompt[i] \in R
  <2>1. prompt \in Seq(R)
    OBVIOUS
  <2> HIDE DEF R
  <2> QED BY <2>1
<1> HIDE DEF n
<1>1. items = [i \in 1 .. n |-> [hash |-> prompt[i].hash, offset |-> prompt[i].offset,
                                 full |-> prompt[i].hash \notin c.data]]
  BY <1>0 DEF CacheMissing
<1> HIDE DEF items
<1>2. \A i \in 1 .. n : /\ items[i] \in Item
                        /\ items[i].hash = prompt[i].hash /\ items[i].offset = prompt[i].offset
                        /\ items[i].full <=> items[i].hash \notin c.data
  BY <1>0, <1>1 DEF Item
<1>3. items \in [1 .. n -> Item]
  BY <1>1, <1>2
<1>4. items \in Seq(Item) /\ Len(items) = n /\ DOMAIN items = 1 .. n
  BY <1>0, <1>3
<1>5. Hashes(items) = Hashes(prompt)
  BY <1>0, <1>2, <1>4 DEF Hashes
<1> QED BY <1>2, <1>4, <1>5 DEF items, n

\* The same hashes, the same set of hashes.
LEMMA SameHashes ==
    ASSUME NEW s \in Seq(Item), NEW t \in Seq(Item), Len(s) = Len(t),
           \A i \in 1 .. Len(s) : s[i].hash = t[i].hash
    PROVE  Hashes(s) = Hashes(t)
<1>1. DOMAIN s = 1 .. Len(s) /\ DOMAIN t = 1 .. Len(s)
  OBVIOUS
<1> QED BY <1>1 DEF Hashes

\* Sorting by offset: the ranks are 1 .. n, each taken once.
LEMMA RankFacts ==
    ASSUME NEW items \in Seq(Item)
    PROVE  /\ \A i, j \in 1 .. Len(items) : RankOf(items, i) = RankOf(items, j) => i = j
           /\ \A i \in 1 .. Len(items) : RankOf(items, i) \in 1 .. Len(items)
           /\ \A k \in 1 .. Len(items) : \E i \in 1 .. Len(items) : RankOf(items, i) = k
<1> DEFINE n == Len(items)
           off(i) == items[i].offset
           Before0(j, i) == off(j) < off(i) \/ (off(j) = off(i) /\ j <= i)
           B(i) == {j \in 1 .. n : Before0(j, i)}
<1>0. /\ n \in Nat /\ DOMAIN items = 1 .. n /\ \A i \in 1 .. n : items[i] \in Item
      /\ IsFiniteSet(1 .. n) /\ Cardinality(1 .. n) = n
  <2>1. n \in Nat /\ DOMAIN items = 1 .. n /\ \A i \in 1 .. n : items[i] \in Item
    OBVIOUS
  <2> HIDE DEF n
  <2>2. IsFiniteSet(1 .. n) /\ Cardinality(1 .. n) = IF 1 > n THEN 0 ELSE n - 1 + 1
    BY <2>1, FS_Interval
  <2>3. Cardinality(1 .. n) = n
    BY <2>1, <2>2
  <2> QED BY <2>1, <2>2, <2>3
<1>1. \A i \in 1 .. n : off(i) \in Nat
  BY <1>0 DEF Item
<1>2. \A i \in 1 .. n : RankOf(items, i) = Cardinality(B(i))
  BY <1>0 DEF RankOf
<1> HIDE DEF n, off
<1>3. \A i \in 1 .. n : B(i) \in SUBSET (1 .. n) /\ i \in B(i) /\ IsFiniteSet(B(i)) /\ Cardinality(B(i)) \in Nat
  <2> TAKE i \in 1 .. n
  <2>1. B(i) \in SUBSET (1 .. n) /\ i \in B(i)
    BY <1>0, <1>1
  <2> HIDE DEF B
  <2>2. IsFiniteSet(B(i))
    BY <1>0, <2>1, FS_Subset
  <2> QED BY <2>1, <2>2, FS_CardinalityType
<1>4. ASSUME NEW i \in 1 .. n, NEW j \in 1 .. n, i \in B(j), i # j
      PROVE  Cardinality(B(i)) < Cardinality(B(j))
  <2>1. B(i) \in SUBSET B(j) /\ j \notin B(i)
    BY <1>0, <1>1, <1>4
  <2>2. IsFiniteSet(B(j)) /\ j \in B(j) /\ Cardinality(B(i)) \in Nat /\ Cardinality(B(j)) \in Nat
    BY <1>3
  <2> HIDE DEF B
  <2>3. Cardinality(B(i)) <= Cardinality(B(j)) /\ Cardinality(B(i)) # Cardinality(B(j))
    BY <2>1, <2>2, FS_Subset
  <2> QED BY <2>2, <2>3
<1>5. \A i, j \in 1 .. n : i \in B(j) \/ j \in B(i)
  BY <1>0, <1>1
<1>6. \A i \in 1 .. n : Cardinality(B(i)) \in 1 .. n
  <2> TAKE i \in 1 .. n
  <2> DEFINE C == B(i)
  <2>1. C \in SUBSET (1 .. n) /\ C # {} /\ IsFiniteSet(C) /\ Cardinality(C) \in Nat
    BY <1>3
  <2> HIDE DEF C
  <2>2. Cardinality(C) <= n
    <3> DEFINE N == 1 .. n
    <3>1. IsFiniteSet(N) /\ C \in SUBSET N /\ Cardinality(N) = n
      BY <1>0, <2>1
    <3> HIDE DEF N
    <3> QED BY <3>1, FS_Subset
  <2>a. Cardinality(C) # 0
    BY <2>1, FS_EmptySet
  <2>3. Cardinality(C) \in 1 .. n
    BY <1>0, <2>1, <2>2, <2>a
  <2> QED BY <2>3 DEF C
<1> HIDE DEF B
<1>7. \A i, j \in 1 .. n : Cardinality(B(i)) = Cardinality(B(j)) => i = j
  <2> SUFFICES ASSUME NEW i \in 1 .. n, NEW j \in 1 .. n, i # j
               PROVE  Cardinality(B(i)) # Cardinality(B(j))
    OBVIOUS
  <2>1. Cardinality(B(i)) \in Nat /\ Cardinality(B(j)) \in Nat
    BY <1>3
  <2>2. CASE i \in B(j)
    <3>1. Cardinality(B(i)) < Cardinality(B(j))
      BY <1>4, <2>2
    <3> QED BY <2>1, <3>1
  <2>3. CASE j \in B(i)
    <3>1. Cardinality(B(j)) < Cardinality(B(i))
      BY <1>4, <2>3
    <3> QED BY <2>1, <3>1
  <2> QED BY <1>5, <2>2, <2>3
<1> DEFINE r == [i \in 1 .. n |-> Cardinality(B(i))]
<1>8. r \in Injection(1 .. n, 1 .. n)
  BY <1>6, <1>7 DEF Injection, IsInjective
<1>9. r \in Surjection(1 .. n, 1 .. n)
  <2> HIDE DEF r
  <2> QED BY <1>0, <1>8, FS_Injection
<1>10. \A k \in 1 .. n : \E i \in 1 .. n : Cardinality(B(i)) = k
  BY <1>9 DEF Surjection
<1> QED BY <1>2, <1>6, <1>7, <1>10 DEF n

LEMMA ByOffsetFacts ==
    ASSUME NEW items \in Seq(Item)
    PROVE  ByOffset(items) \in Seq(Item) /\ Hashes(ByOffset(items)) = Hashes(items)
<1> DEFINE n == Len(items)
           at(k) == CHOOSE i \in DOMAIN items : RankOf(items, i) = k
           t == ByOffset(items)
<1>0. n \in Nat /\ DOMAIN items = 1 .. n /\ \A i \in 1 .. n : items[i] \in Item
  OBVIOUS
<1>1. /\ \A i, j \in 1 .. n : RankOf(items, i) = RankOf(items, j) => i = j
      /\ \A i \in 1 .. n : RankOf(items, i) \in 1 .. n
      /\ \A k \in 1 .. n : \E i \in 1 .. n : RankOf(items, i) = k
  BY RankFacts
<1> HIDE DEF n
<1>2. \A k \in 1 .. n : at(k) \in 1 .. n /\ RankOf(items, at(k)) = k
  BY <1>0, <1>1
<1>3. t = [k \in 1 .. n |-> items[at(k)]]
  BY <1>0 DEF ByOffset
<1> HIDE DEF at, t
<1>4. t \in [1 .. n -> Item]
  BY <1>0, <1>2, <1>3
<1>5. t \in Seq(Item) /\ DOMAIN t = 1 .. n
  BY <1>0, <1>4
<1>6. \A i \in 1 .. n : at(RankOf(items, i)) = i
  BY <1>1, <1>2
<1>7. Hashes(t) = Hashes(items)
  <2>1. \A k \in 1 .. n : at(k) \in 1 .. n /\ t[k].hash = items[at(k)].hash
    BY <1>2, <1>3
  <2>2. \A i \in 1 .. n : RankOf(items, i) \in 1 .. n /\ t[RankOf(items, i)].hash = items[i].hash
    BY <1>1, <1>3, <1>6
  <2>3. \A x \in Hashes(t) : x \in Hashes(items)
    BY <1>0, <1>5, <2>1 DEF Hashes
  <2>4. \A x \in Hashes(items) : x \in Hashes(t)
    BY <1>0, <1>5, <2>2 DEF Hashes
  <2> QED BY <2>3, <2>4
<1> QED BY <1>5, <1>7 DEF t

\* Items that are in the order of their offsets stay where they are.
LEMMA ByOffsetSorted ==
    ASSUME NEW items \in Seq(Item),
           \A i, j \in 1 .. Len(items) : i < j => items[i].offset < items[j].offset
    PROVE  ByOffset(items) = items
<1> DEFINE n == Len(items)
<1>0. n \in Nat /\ DOMAIN items = 1 .. n /\ \A i \in 1 .. n : items[i] \in Item
  OBVIOUS
<1>1. \A i \in 1 .. n : items[i].offset \in Nat
  BY <1>0 DEF Item
<1>2. ASSUME NEW i \in 1 .. n PROVE RankOf(items, i) = i
  <2>1. {j \in DOMAIN items : \/ items[j].offset < items[i].offset
                              \/ items[j].offset = items[i].offset /\ j <= i} = 1 .. i
    <3>1. \A j \in 1 .. n : j <= i => \/ items[j].offset < items[i].offset
                                      \/ items[j].offset = items[i].offset /\ j <= i
      BY <1>0, <1>1
    <3>2. \A j \in 1 .. n : i < j => items[i].offset < items[j].offset
      OBVIOUS
    <3> HIDE DEF n
    <3>3. \A j \in 1 .. n : ~(j <= i) => ~(\/ items[j].offset < items[i].offset
                                           \/ items[j].offset = items[i].offset /\ j <= i)
      BY <1>0, <1>1, <3>2
    <3> QED BY <1>0, <3>1, <3>3
  <2>2. IsFiniteSet(1 .. i) /\ Cardinality(1 .. i) = IF 1 > i THEN 0 ELSE i - 1 + 1
    BY <1>0, FS_Interval
  <2>3. Cardinality(1 .. i) = i
    BY <1>0, <2>2
  <2> QED BY <2>1, <2>3 DEF RankOf
<1>3. ByOffset(items) = [k \in 1 .. n |-> items[k]]
  <2>1. \A k \in 1 .. n : (CHOOSE i \in DOMAIN items : RankOf(items, i) = k) = k
    BY <1>0, <1>2
  <2>2. ByOffset(items)
          = [k \in 1 .. n |-> items[CHOOSE i \in DOMAIN items : RankOf(items, i) = k]]
    BY <1>0 DEF ByOffset
  <2> QED BY <2>1, <2>2, Zenon
<1>4. items = [k \in 1 .. n |-> items[k]]
  BY <1>0
<1> QED BY <1>3, <1>4

-----------------------------------------------------------------------------
(* The invariant of the caches and of what is between them.                *)

\* Items that fit the cache together.
Fitting == {items \in Seq(Item) : Used(Hashes(items)) <= Capacity}
Message == [type : {"ADD", "UTILITY"}, items : Fitting]

CacheInv ==
    /\ scenario \in Scenarios
    /\ Sound(sender) /\ Sound(receiver)
    /\ rendered \in Seq(Fitting)
    /\ wire \in Seq(Message)
    /\ Len(wire) <= MaxWire
    /\ clearing \in BOOLEAN
    /\ resets \in 0 .. MaxWire
    /\ p0 \in {"ready", "hung"} /\ p1 \in {"ready", "hung"}

LEMMA ScenarioFacts ==
    ASSUME scenario \in Scenarios
    PROVE  /\ MaxWire \in Nat \ {0} /\ MaxRendered \in Nat \ {0}
           /\ \A prompt \in Prompts : prompt \in Seq([hash : Keys, offset : Nat])
BY ProcessorCacheAssumption, Zenon DEF MaxWire, MaxRendered, Prompts

LEMMA EmptySound == Sound(Empty) /\ Whole(Empty)
<1>1. Empty.order = << >> /\ Empty.data = {} /\ ToSet(<< >>) = {}
  BY DEF Empty, ToSet
<1>2. Empty \in [order : Seq(Keys), data : SUBSET Keys]
  BY DEF Empty
<1>3. IsInjective(Empty.order)
  BY <1>1 DEF IsInjective
<1>4. 0 <= Capacity
  BY ProcessorCacheAssumption
<1> QED BY <1>1, <1>2, <1>3, <1>4, UsedEmpty DEF Sound, Ordered, Whole

LEMMA EmptyFits == << >> \in Fitting
<1>1. Hashes(<< >>) = {}
  BY DEF Hashes
<1>2. << >> \in Seq(Item)
  OBVIOUS
<1>3. 0 <= Capacity
  BY ProcessorCacheAssumption
<1> QED BY <1>1, <1>2, <1>3, UsedEmpty DEF Fitting

LEMMA ByOffsetFits ==
    ASSUME NEW items \in Fitting
    PROVE  ByOffset(items) \in Fitting
<1>1. ByOffset(items) \in Seq(Item) /\ Hashes(ByOffset(items)) = Hashes(items)
  BY ByOffsetFacts DEF Fitting
<1> QED BY <1>1 DEF Fitting

LEMMA ClearSound ==
    ASSUME NEW c, Sound(c)
    PROVE  Sound(Clear(c).cache)
<1>1. Ordered(Clear(c).cache) /\ Used(Clear(c).cache.data) <= 0
  BY PopFacts DEF Clear, Sound
<1>2. Used(Clear(c).cache.data) \in Nat /\ Capacity \in Nat
  BY <1>1, FiniteCache, ProcessorCacheAssumption
<1> QED BY <1>1, <1>2 DEF Sound

\* The front end's step with a prompt.
LEMMA RenderingFacts ==
    ASSUME Sound(sender), NEW prompt \in Seq([hash : Keys, offset : Nat])
    PROVE  /\ Pass(Rendering(prompt))
           /\ Rendering(prompt).status = "ok" =>
                 /\ Rendering(prompt).out \in Fitting
                 /\ Hashes(Rendering(prompt).out) = Hashes(prompt)
                 /\ Hashes(prompt) \subseteq Rendering(prompt).cache.data
<1> DEFINE items == CacheMissing(sender, prompt)
           r == GetAndUpdate(sender, items)
<1>1. /\ items \in Seq(Item) /\ Len(items) = Len(prompt)
      /\ \A i \in 1 .. Len(items) : items[i].full => items[i].hash \notin sender.data
      /\ Hashes(items) = Hashes(prompt)
  BY MissingFacts
<1> HIDE DEF items
<1>2. Pass(r)
  BY <1>1, BothPasses
<1>3. ASSUME r.status = "ok"
      PROVE  /\ r.out \in Fitting /\ Hashes(r.out) = Hashes(prompt)
             /\ Hashes(prompt) \subseteq r.cache.data
  <2>1. Hashes(prompt) \subseteq r.cache.data
    BY <1>1, <1>3, SenderKeeps
  <2>2. /\ r.out \in Seq(Item) /\ Len(r.out) = Len(items)
        /\ \A i \in 1 .. Len(items) : r.out[i].hash = items[i].hash
    BY <1>1, <1>3, SameCache
  <2> HIDE DEF r
  <2>3. Hashes(r.out) = Hashes(prompt)
    BY <1>1, <2>2, SameHashes
  <2>4. Sound(r.cache) /\ Ordered(r.cache)
    BY <1>2 DEF Pass, Sound
  <2>5. r.cache.data \in SUBSET Keys /\ IsFiniteSet(r.cache.data)
    BY <2>4, FiniteCache
  <2>6. Used(Hashes(r.out)) <= Used(r.cache.data) /\ Used(Hashes(r.out)) \in Nat
        /\ Used(r.cache.data) \in Nat
    BY <2>1, <2>3, <2>5, UsedMonotone
  <2>7. Used(Hashes(r.out)) <= Capacity
    BY <2>4, <2>6, ProcessorCacheAssumption DEF Sound
  <2> QED BY <2>1, <2>2, <2>3, <2>7 DEF Fitting
<1>4. r = Rendering(prompt)
  BY DEF Rendering, items
<1> HIDE DEF r
<1> QED BY <1>2, <1>3, <1>4

LEMMA ReceivingFacts ==
    ASSUME Sound(receiver), wire \in Seq(Message), wire # << >>
    PROVE  /\ Head(wire).items \in Fitting
           /\ Pass(Receiving)
           /\ Receiving.status = "ok" => Hashes(Head(wire).items) \subseteq Receiving.cache.data
<1>1. Head(wire) \in Message
  OBVIOUS
<1>2. Head(wire).items \in Fitting
  BY <1>1 DEF Message
<1> DEFINE items == Head(wire).items
<1>3. items \in Seq(Item) /\ Used(Hashes(items)) <= Capacity
  BY <1>2 DEF Fitting
<1> HIDE DEF items
<1>4. Pass(GetAndUpdate(receiver, items))
  BY <1>3, BothPasses
<1>5. GetAndUpdate(receiver, items).status = "ok" => Hashes(items) \subseteq GetAndUpdate(receiver, items).cache.data
  BY <1>3, FittingPrompt
<1> QED BY <1>2, <1>4, <1>5 DEF Receiving, items

LEMMA CacheInit == Init => CacheInv
<1> SUFFICES ASSUME Init PROVE CacheInv
  OBVIOUS
<1>1. MaxWire \in Nat \ {0}
  BY ScenarioFacts DEF Init
<1>2. Len(<< >>) = 0 /\ << >> \in Seq(Fitting) /\ << >> \in Seq(Message)
  OBVIOUS
<1>3. Len(wire) <= MaxWire /\ resets \in 0 .. MaxWire
  BY <1>1, <1>2 DEF Init
<1>4. Sound(sender) /\ Sound(receiver)
  BY EmptySound DEF Init
<1> QED BY <1>2, <1>3, <1>4 DEF Init, CacheInv

LEMMA CacheNext == CacheInv /\ [Next]_vars => CacheInv'
<1> SUFFICES ASSUME CacheInv, [Next]_vars PROVE CacheInv'
  OBVIOUS
<1>0. /\ scenario \in Scenarios /\ Sound(sender) /\ Sound(receiver)
      /\ rendered \in Seq(Fitting) /\ wire \in Seq(Message)
      /\ Len(wire) <= MaxWire /\ Len(wire) \in Nat /\ clearing \in BOOLEAN /\ resets \in 0 .. MaxWire
      /\ p0 \in {"ready", "hung"} /\ p1 \in {"ready", "hung"}
  BY DEF CacheInv
<1>1. /\ MaxWire \in Nat \ {0}
      /\ \A prompt \in Prompts : prompt \in Seq([hash : Keys, offset : Nat])
  BY <1>0, ScenarioFacts
<1>2. SUFFICES ASSUME scenario' = scenario, MaxWire' = MaxWire
               PROVE  CacheInv'
  BY DEF vars, Next, Process, ProcessFails, ProcessHangs, Submit, Reject, ClearSender, SendReset,
         Receive, QueueReset, ClearReceiver, MaxWire
<1> DEFINE prim == /\ Sound(sender') /\ Sound(receiver')
                   /\ rendered' \in Seq(Fitting) /\ wire' \in Seq(Message)
                   /\ Len(wire') <= MaxWire /\ clearing' \in BOOLEAN
                   /\ resets' \in 0 .. MaxWire
                   /\ p0' \in {"ready", "hung"} /\ p1' \in {"ready", "hung"}
<1>3. SUFFICES prim
  BY <1>0, <1>2 DEF CacheInv, Sound, Ordered
<1>4. ASSUME NEW prompt \in Prompts, Process(prompt) PROVE prim
  <2>1. Pass(Rendering(prompt)) /\ Rendering(prompt).out \in Fitting
    BY <1>0, <1>1, <1>4, RenderingFacts DEF Process
  <2>2. Sound(sender')
    BY <1>4, <2>1 DEF Process, Pass
  <2>3. rendered' \in Seq(Fitting)
    BY <1>0, <1>4, <2>1 DEF Process
  <2> QED BY <1>0, <1>4, <2>2, <2>3 DEF Process
<1>5. ASSUME NEW prompt \in Prompts, ProcessFails(prompt) PROVE prim
  <2>1. Pass(Rendering(prompt))
    BY <1>0, <1>1, RenderingFacts
  <2>2. Sound(sender')
    BY <1>5, <2>1 DEF ProcessFails, Pass
  <2> QED BY <1>0, <1>5, <2>2 DEF ProcessFails
<1>6. ASSUME NEW prompt \in Prompts, ProcessHangs(prompt) PROVE prim
  <2>1. Pass(Rendering(prompt))
    BY <1>0, <1>1, RenderingFacts
  <2>2. Sound(sender')
    BY <1>6, <2>1 DEF ProcessHangs, Pass
  <2> QED BY <1>0, <1>6, <2>2 DEF ProcessHangs
<1>7. ASSUME NEW i \in DOMAIN rendered, Submit(i) PROVE prim
  <2>1. i \in 1 .. Len(rendered) /\ rendered[i] \in Fitting
    BY <1>0
  <2>2. RemoveAt(rendered, i) \in Seq(Fitting)
    BY <1>0, <2>1, RemoveAtFacts
  <2>3. AddMsg(ByOffset(rendered[i])) \in Message
    BY <2>1, ByOffsetFits DEF AddMsg, Message
  <2>4. wire' \in Seq(Message) /\ Len(wire') = Len(wire) + 1
    BY <1>0, <1>7, <2>3 DEF Submit
  <2>5. Len(wire') <= MaxWire
    BY <1>0, <1>1, <1>7, <2>4 DEF Submit
  <2> QED BY <1>0, <1>7, <2>2, <2>4, <2>5 DEF Submit
<1>8. ASSUME NEW i \in DOMAIN rendered, Reject(i) PROVE prim
  <2>1. i \in 1 .. Len(rendered)
    BY <1>0
  <2>2. RemoveAt(rendered, i) \in Seq(Fitting)
    BY <1>0, <2>1, RemoveAtFacts
  <2> QED BY <1>0, <1>8, <2>2 DEF Reject
<1>9. ASSUME ClearSender PROVE prim
  <2>1. Sound(Clear(sender).cache)
    BY <1>0, ClearSound
  <2>2. Clear(sender).endless \in BOOLEAN
    BY <1>0, PopFacts DEF Clear, Sound
  <2> QED BY <1>0, <1>9, <2>1, <2>2 DEF ClearSender
<1>10. ASSUME SendReset PROVE prim
  <2>1. ResetMsg \in Message
    BY EmptyFits DEF ResetMsg, Message
  <2>2. wire' \in Seq(Message) /\ Len(wire') = Len(wire) + 1
    BY <1>0, <1>10, <2>1 DEF SendReset
  <2>3. Len(wire') <= MaxWire
    BY <1>0, <1>1, <1>10, <2>2 DEF SendReset
  <2> QED BY <1>0, <1>10, <2>2, <2>3 DEF SendReset
<1>11. ASSUME wire # << >> PROVE Tail(wire) \in Seq(Message) /\ Len(Tail(wire)) <= MaxWire
  <2>1. Tail(wire) \in Seq(Message) /\ Len(Tail(wire)) = Len(wire) - 1
    BY <1>0, <1>11
  <2> QED BY <1>0, <1>1, <2>1
<1>12. ASSUME Receive PROVE prim
  <2>1. wire # << >>
    BY <1>12 DEF Receive, Arrived
  <2>2. Pass(Receiving)
    BY <1>0, <2>1, ReceivingFacts
  <2>3. Sound(receiver')
    BY <1>12, <2>2 DEF Receive, Pass
  <2> QED BY <1>0, <1>11, <1>12, <2>1, <2>3 DEF Receive
<1>13. ASSUME QueueReset PROVE prim
  <2>1. wire # << >>
    BY <1>13 DEF QueueReset, Arrived
  <2>2. resets' \in 0 .. MaxWire
    BY <1>0, <1>1, <1>13 DEF QueueReset
  <2> QED BY <1>0, <1>11, <1>13, <2>1, <2>2 DEF QueueReset
<1>14. ASSUME ClearReceiver PROVE prim
  <2>1. Sound(Clear(receiver).cache)
    BY <1>0, ClearSound
  <2>2. Clear(receiver).endless \in BOOLEAN
    BY <1>0, PopFacts DEF Clear, Sound
  <2>3. resets' \in 0 .. MaxWire
    BY <1>0, <1>1, <1>14 DEF ClearReceiver
  <2> QED BY <1>0, <1>14, <2>1, <2>2, <2>3 DEF ClearReceiver
<1>15. ASSUME UNCHANGED vars PROVE prim
  BY <1>0, <1>15 DEF vars
<1> HIDE DEF prim
<1> QED BY <1>4, <1>5, <1>6, <1>7, <1>8, <1>9, <1>10, <1>12, <1>13, <1>14, <1>15 DEF Next

LEMMA CacheAlways == Spec => []CacheInv
<1> QED BY CacheInit, CacheNext, PTL DEF Spec

\* CacheTypeOK: both caches stay within mm_processor_cache_gb and list their
\* keys once, whatever is rejected, reset, reordered or refused.
THEOREM CacheTypeOKHolds == Spec => []CacheTypeOK
<1>1. CacheInv => CacheTypeOK
  <2> SUFFICES ASSUME CacheInv PROVE CacheTypeOK
    OBVIOUS
  <2>1. CacheOK(sender) /\ CacheOK(receiver)
    BY DEF CacheInv, Sound, Ordered, CacheOK
  <2>2. \A i \in DOMAIN rendered : rendered[i] \in Seq([hash : Keys, offset : Nat, full : BOOLEAN])
    <3>1. rendered \in Seq(Fitting) /\ \A items \in Fitting : items \in Seq(Item)
      BY DEF CacheInv, Fitting
    <3>2. \A i \in DOMAIN rendered : rendered[i] \in Seq(Item)
      BY <3>1
    <3> QED BY <3>2 DEF Item
  <2> QED BY <2>1, <2>2 DEF CacheInv, CacheTypeOK
<1> QED BY <1>1, CacheAlways, PTL

\* PromptStaysCached: no item of a prompt evicts another item of the prompt,
\* on either side.
THEOREM PromptStaysCachedHolds == Spec => PromptStaysCached
<1> DEFINE Keeps == /\ \A prompt \in Prompts :
                          Process(prompt) => Hashes(prompt) \subseteq sender'.data
                    /\ Receive /\ Receiving.status = "ok"
                          => Hashes(Head(wire).items) \subseteq receiver'.data
<1>1. CacheInv /\ [Next]_vars => [Keeps]_vars
  <2> SUFFICES ASSUME CacheInv PROVE Keeps
    OBVIOUS
  <2>0. /\ scenario \in Scenarios /\ Sound(sender) /\ Sound(receiver) /\ wire \in Seq(Message)
    BY DEF CacheInv
  <2>1. ASSUME NEW prompt \in Prompts, Process(prompt)
        PROVE  Hashes(prompt) \subseteq sender'.data
    <3>1. prompt \in Seq([hash : Keys, offset : Nat])
      BY <2>0, ScenarioFacts
    <3> QED BY <2>0, <2>1, <3>1, RenderingFacts DEF Process
  <2>2. ASSUME Receive, Receiving.status = "ok"
        PROVE  Hashes(Head(wire).items) \subseteq receiver'.data
    <3>1. wire # << >> /\ receiver' = Receiving.cache
      BY <2>2 DEF Receive, Arrived
    <3> QED BY <2>0, <2>2, <3>1, ReceivingFacts
  <2> QED BY <2>1, <2>2
<1>2. Spec => [][Keeps]_vars
  BY <1>1, CacheAlways, PTL DEF Spec
<1> QED BY <1>2 DEF PromptStaysCached

-----------------------------------------------------------------------------
(* The two caches of an undisturbed system.                                *)

Flight(w, r) == w \o [i \in DOMAIN r |-> AddMsg(ByOffset(r[i]))]

LEMMA FlightFacts ==
    ASSUME NEW w \in Seq(Message), NEW r \in Seq(Fitting)
    PROVE  /\ Flight(w, r) \in Seq(Message) /\ Len(Flight(w, r)) = Len(w) + Len(r)
           /\ \A i \in 1 .. Len(w) : Flight(w, r)[i] = w[i]
           /\ \A i \in 1 .. Len(r) : Flight(w, r)[Len(w) + i] = AddMsg(ByOffset(r[i]))
<1> DEFINE a == [i \in DOMAIN r |-> AddMsg(ByOffset(r[i]))]
<1>0. Len(w) \in Nat /\ Len(r) \in Nat /\ DOMAIN r = 1 .. Len(r) /\ \A i \in 1 .. Len(r) : r[i] \in Fitting
  OBVIOUS
<1>1. \A i \in 1 .. Len(r) : AddMsg(ByOffset(r[i])) \in Message
  BY <1>0, ByOffsetFits DEF AddMsg, Message
<1>2. a \in [1 .. Len(r) -> Message] /\ \A i \in 1 .. Len(r) : a[i] = AddMsg(ByOffset(r[i]))
  BY <1>0, <1>1
<1> HIDE DEF a
<1>3. a \in Seq(Message) /\ Len(a) = Len(r)
  BY <1>0, <1>2
<1>4. /\ w \o a \in Seq(Message) /\ Len(w \o a) = Len(w) + Len(r)
      /\ \A i \in 1 .. Len(w) : (w \o a)[i] = w[i]
      /\ \A i \in 1 .. Len(r) : (w \o a)[Len(w) + i] = a[i]
  BY <1>0, <1>3
<1> QED BY <1>2, <1>4 DEF Flight, a

\* Two sequences with the same items.
LEMMA SameSeq ==
    ASSUME NEW T, NEW s \in Seq(T), NEW t \in Seq(T), Len(s) = Len(t),
           \A i \in 1 .. Len(s) : s[i] = t[i]
    PROVE  s = t
OBVIOUS

\* cs are the receiver's caches, from the one it has to the sender's, as it
\* takes one message after the other.
Leads(cs, c, messages, d) ==
    /\ cs[0] = c /\ cs[Len(messages)] = d
    /\ \A i \in 1 .. Len(messages) :
          /\ messages[i].type = "ADD"
          /\ GetAndUpdate(cs[i - 1], messages[i].items).status = "ok"
          /\ GetAndUpdate(cs[i - 1], messages[i].items).cache = cs[i]

Mirror ==
    Undisturbed =>
        /\ Whole(sender)
        /\ p0 = "ready" /\ p1 = "ready"
        /\ clearing = FALSE /\ resets = 0
        /\ Len(rendered) <= 1
        /\ \E cs : Leads(cs, receiver, Flight(wire, rendered), sender)

\* A message more, and a message less.
LEMMA LeadsAppend ==
    ASSUME NEW c, NEW d, NEW e, NEW messages \in Seq(Message), NEW m \in Message,
           \E cs : Leads(cs, c, messages, d),
           m.type = "ADD", GetAndUpdate(d, m.items).status = "ok",
           GetAndUpdate(d, m.items).cache = e
    PROVE  \E cs : Leads(cs, c, Append(messages, m), e)
<1> DEFINE n == Len(messages)  ms == Append(messages, m)
<1>0. n \in Nat /\ Len(ms) = n + 1 /\ ms[n + 1] = m /\ \A i \in 1 .. n : ms[i] = messages[i]
  OBVIOUS
<1>1. PICK cs : Leads(cs, c, messages, d)
  OBVIOUS
<1>2. /\ cs[0] = c /\ cs[n] = d
      /\ \A i \in 1 .. n : /\ messages[i].type = "ADD"
                           /\ GetAndUpdate(cs[i - 1], messages[i].items).status = "ok"
                           /\ GetAndUpdate(cs[i - 1], messages[i].items).cache = cs[i]
  BY <1>1 DEF Leads
<1> HIDE DEF n, ms
<1> DEFINE ds == [i \in 0 .. n + 1 |-> IF i = n + 1 THEN e ELSE cs[i]]
<1>3. ds[0] = c /\ ds[n] = d /\ ds[n + 1] = e /\ \A i \in 0 .. n : ds[i] = cs[i]
  BY <1>0, <1>2
<1> HIDE DEF ds
<1>4. ASSUME NEW i \in 1 .. n + 1
      PROVE  /\ ms[i].type = "ADD"
             /\ GetAndUpdate(ds[i - 1], ms[i].items).status = "ok"
             /\ GetAndUpdate(ds[i - 1], ms[i].items).cache = ds[i]
  <2>1. CASE i = n + 1
    <3>1. ds[i - 1] = d /\ ms[i] = m /\ ds[i] = e
      BY <1>0, <1>3, <2>1
    <3> QED BY <3>1
  <2>2. CASE i # n + 1
    <3>1. i \in 1 .. n /\ i \in 0 .. n /\ i - 1 \in 0 .. n
      BY <1>0, <2>2
    <3>2. ds[i - 1] = cs[i - 1] /\ ms[i] = messages[i] /\ ds[i] = cs[i]
      BY <1>0, <1>3, <3>1
    <3> QED BY <1>2, <3>1, <3>2
  <2> QED BY <2>1, <2>2
<1>5. Leads(ds, c, ms, e)
  BY <1>0, <1>3, <1>4 DEF Leads
<1> QED BY <1>5 DEF ms

LEMMA LeadsTail ==
    ASSUME NEW c, NEW d, NEW messages \in Seq(Message), messages # << >>,
           \E cs : Leads(cs, c, messages, d)
    PROVE  /\ messages[1].type = "ADD"
           /\ GetAndUpdate(c, messages[1].items).status = "ok"
           /\ \E cs : Leads(cs, GetAndUpdate(c, messages[1].items).cache, Tail(messages), d)
<1> DEFINE n == Len(messages)  ms == Tail(messages)
           e == GetAndUpdate(c, messages[1].items).cache
<1>0. n \in Nat /\ n > 0 /\ Len(ms) = n - 1 /\ \A i \in 1 .. n - 1 : ms[i] = messages[i + 1]
  OBVIOUS
<1>1. PICK cs : Leads(cs, c, messages, d)
  OBVIOUS
<1>2. /\ cs[0] = c /\ cs[n] = d
      /\ \A i \in 1 .. n : /\ messages[i].type = "ADD"
                           /\ GetAndUpdate(cs[i - 1], messages[i].items).status = "ok"
                           /\ GetAndUpdate(cs[i - 1], messages[i].items).cache = cs[i]
  BY <1>1 DEF Leads
<1> HIDE DEF n, ms
<1>3. 1 \in 1 .. n /\ 1 - 1 = 0
  BY <1>0
<1>4. messages[1].type = "ADD" /\ GetAndUpdate(c, messages[1].items).status = "ok" /\ cs[1] = e
  BY <1>2, <1>3
<1> DEFINE ds == [i \in 0 .. n - 1 |-> cs[i + 1]]
<1>5. ds[0] = e /\ ds[n - 1] = d /\ \A i \in 0 .. n - 1 : ds[i] = cs[i + 1]
  BY <1>0, <1>2, <1>4
<1> HIDE DEF ds, e
<1>6. ASSUME NEW i \in 1 .. n - 1
      PROVE  /\ ms[i].type = "ADD"
             /\ GetAndUpdate(ds[i - 1], ms[i].items).status = "ok"
             /\ GetAndUpdate(ds[i - 1], ms[i].items).cache = ds[i]
  <2>1. i + 1 \in 1 .. n /\ i \in 0 .. n - 1 /\ i - 1 \in 0 .. n - 1 /\ (i - 1) + 1 = i /\ (i + 1) - 1 = i
    BY <1>0
  <2>2. ds[i - 1] = cs[i] /\ ms[i] = messages[i + 1] /\ ds[i] = cs[i + 1]
    BY <1>0, <1>5, <2>1
  <2>3. /\ messages[i + 1].type = "ADD"
        /\ GetAndUpdate(cs[(i + 1) - 1], messages[i + 1].items).status = "ok"
        /\ GetAndUpdate(cs[(i + 1) - 1], messages[i + 1].items).cache = cs[i + 1]
    BY <1>2, <2>1
  <2> QED BY <2>1, <2>2, <2>3
<1>7. Leads(ds, e, ms, d)
  BY <1>0, <1>5, <1>6 DEF Leads
<1> QED BY <1>4, <1>7 DEF ms, e

\* The receiver that replays the messages ends with the sender's cache.
LEMMA LeadsReplay ==
    ASSUME NEW c, NEW d, NEW messages \in Seq(Message), \E cs : Leads(cs, c, messages, d)
    PROVE  Replay(c, messages) = d
<1> DEFINE n == Len(messages)
<1>0. n \in Nat
  OBVIOUS
<1>1. PICK cs : Leads(cs, c, messages, d)
  OBVIOUS
<1>2. PICK f : /\ f[0] = c /\ Replay(c, messages) = f[n]
               /\ \A i \in 1 .. n : f[i] = GetAndUpdate(f[i - 1], messages[i].items).cache
  BY <1>0, ReplayedChain
<1>3. /\ cs[0] = c /\ cs[n] = d
      /\ \A i \in 1 .. n : GetAndUpdate(cs[i - 1], messages[i].items).cache = cs[i]
  BY <1>1 DEF Leads
<1> HIDE DEF n
<1> DEFINE G == {i \in 0 .. n : f[i] = cs[i]}
<1>4. 0 \in G
  BY <1>0, <1>2, <1>3
<1>5. ASSUME NEW i \in 1 .. n, i - 1 \in G PROVE i \in G
  BY <1>0, <1>2, <1>3, <1>5
<1>6. \A i \in 0 .. n : i \in G
  <2> HIDE DEF G
  <2> QED BY <1>0, <1>4, <1>5, Climb
<1>7. f[n] = cs[n]
  BY <1>0, <1>6
<1> QED BY <1>2, <1>3, <1>7

\* With a whole cache every prompt of an undisturbed system goes through, and
\* the receiver that starts with the sender's cache gets to the sender's next.
LEMMA QuietRendering ==
    ASSUME CacheInv, Undisturbed, Whole(sender), NEW prompt \in Prompts
    PROVE  LET r == Rendering(prompt)
           IN  /\ r.status = "ok" /\ Whole(r.cache)
               /\ r.out \in Fitting /\ ByOffset(r.out) = r.out
               /\ GetAndUpdate(sender, r.out).status = "ok"
               /\ GetAndUpdate(sender, r.out).cache = r.cache
<1> DEFINE items == CacheMissing(sender, prompt)
           r == GetAndUpdate(sender, items)
<1>0. Sound(sender) /\ prompt \in Seq([hash : Keys, offset : Nat])
  BY ScenarioFacts DEF CacheInv
<1>1. Used(Hashes(prompt)) <= Capacity
      /\ \A i, j \in DOMAIN prompt : i < j => prompt[i].offset < prompt[j].offset
  BY DEF Undisturbed
<1>2. /\ items \in Seq(Item) /\ Len(items) = Len(prompt)
      /\ \A i \in 1 .. Len(items) :
            /\ items[i].offset = prompt[i].offset
            /\ items[i].hash \notin sender.data => items[i].full
      /\ Hashes(items) = Hashes(prompt)
  <2>1. /\ items \in Seq(Item) /\ Len(items) = Len(prompt)
        /\ \A i \in 1 .. Len(prompt) :
               /\ items[i].hash = prompt[i].hash /\ items[i].offset = prompt[i].offset
               /\ items[i].full <=> items[i].hash \notin sender.data
        /\ Hashes(items) = Hashes(prompt)
    BY <1>0, MissingFacts
  <2> HIDE DEF items
  <2> QED BY <2>1
<1>3. DOMAIN prompt = 1 .. Len(prompt)
  BY <1>0
<1> HIDE DEF items
<1>4. r.status = "ok" /\ Whole(r.cache)
  BY <1>0, <1>1, <1>2, FittingPrompt
<1>5. /\ r.out \in Seq(Item) /\ Len(r.out) = Len(items)
      /\ \A i \in 1 .. Len(items) : r.out[i].offset = items[i].offset
      /\ GetAndUpdate(sender, r.out).status = "ok"
      /\ GetAndUpdate(sender, r.out).cache = r.cache
  BY <1>0, <1>2, <1>4, SameCache
<1>6. r = Rendering(prompt)
  BY DEF Rendering, items
<1>7. r.out \in Fitting
  BY <1>0, <1>4, <1>6, RenderingFacts
<1> HIDE DEF r
<1>8. \A i, j \in 1 .. Len(r.out) : i < j => r.out[i].offset < r.out[j].offset
  BY <1>1, <1>2, <1>3, <1>5
<1>9. ByOffset(r.out) = r.out
  BY <1>5, <1>8, ByOffsetSorted
<1> QED BY <1>4, <1>5, <1>6, <1>7, <1>9

LEMMA MirrorInit == Init => Mirror
<1> SUFFICES ASSUME Init, Undisturbed PROVE Mirror
  BY DEF Mirror
<1>1. Flight(wire, rendered) \in Seq(Message) /\ Len(Flight(wire, rendered)) = 0
  <2>1. wire \in Seq(Message) /\ rendered \in Seq(Fitting) /\ Len(wire) = 0 /\ Len(rendered) = 0
    BY DEF Init
  <2>2. /\ Flight(wire, rendered) \in Seq(Message)
        /\ Len(Flight(wire, rendered)) = Len(wire) + Len(rendered)
    BY <2>1, FlightFacts
  <2> QED BY <2>1, <2>2
<1> DEFINE cs == [i \in {0} |-> sender]
<1>2. Leads(cs, receiver, Flight(wire, rendered), sender)
  <2>1. cs[0] = sender /\ sender = receiver
    BY DEF Init
  <2> HIDE DEF cs
  <2> QED BY <1>1, <2>1 DEF Leads
<1>3. Whole(sender)
  BY EmptySound DEF Init
<1>4. Len(rendered) <= 1
  BY DEF Init
<1> QED BY <1>2, <1>3, <1>4 DEF Mirror, Init

LEMMA MirrorNext == CacheInv /\ Mirror /\ [Next]_vars => Mirror'
<1> SUFFICES ASSUME CacheInv, Mirror, [Next]_vars PROVE Mirror'
  OBVIOUS
<1>1. scenario' = scenario
  BY DEF vars, Next, Process, ProcessFails, ProcessHangs, Submit, Reject, ClearSender, SendReset,
         Receive, QueueReset, ClearReceiver
<1>2. Undisturbed' <=> Undisturbed
  BY <1>1 DEF Undisturbed, Faults, MaxRendered, Prompts
<1> DEFINE quiet == /\ Whole(sender')
                    /\ p0' = "ready" /\ p1' = "ready"
                    /\ clearing' = FALSE /\ resets' = 0
                    /\ Len(rendered') <= 1
                    /\ \E cs : Leads(cs, receiver', Flight(wire', rendered'), sender')
<1>3. SUFFICES ASSUME Undisturbed PROVE quiet
  BY <1>2 DEF Mirror, Whole
<1>4. /\ Whole(sender) /\ p0 = "ready" /\ p1 = "ready" /\ clearing = FALSE /\ resets = 0
      /\ Len(rendered) <= 1
      /\ \E cs : Leads(cs, receiver, Flight(wire, rendered), sender)
  BY <1>3 DEF Mirror
<1>5. Faults = {} /\ MaxRendered = 1
  BY <1>3 DEF Undisturbed
<1>6. /\ wire \in Seq(Message) /\ Len(wire) \in Nat /\ rendered \in Seq(Fitting) /\ Len(rendered) \in Nat
      /\ Flight(wire, rendered) \in Seq(Message)
      /\ Len(Flight(wire, rendered)) = Len(wire) + Len(rendered)
      /\ \A i \in 1 .. Len(wire) : Flight(wire, rendered)[i] = wire[i]
      /\ \A i \in 1 .. Len(rendered) :
             Flight(wire, rendered)[Len(wire) + i] = AddMsg(ByOffset(rendered[i]))
  BY FlightFacts DEF CacheInv
<1>7. ASSUME NEW prompt \in Prompts, Process(prompt) PROVE quiet
  <2> DEFINE r == Rendering(prompt)  m == AddMsg(r.out)
             F == Flight(wire, rendered)
  <2>1. /\ r.status = "ok" /\ Whole(r.cache)
        /\ r.out \in Fitting /\ ByOffset(r.out) = r.out
        /\ GetAndUpdate(sender, r.out).status = "ok"
        /\ GetAndUpdate(sender, r.out).cache = r.cache
    BY <1>3, <1>4, QuietRendering
  <2>2. /\ sender' = r.cache /\ rendered' = Append(rendered, r.out) /\ Len(rendered) < 1
        /\ wire' = wire /\ receiver' = receiver /\ p0' = p0 /\ p1' = p1
        /\ clearing' = clearing /\ resets' = resets
    BY <1>5, <1>7 DEF Process
  <2> HIDE DEF r
  <2>3. Len(rendered) = 0 /\ Len(rendered') = 1 /\ rendered' \in Seq(Fitting) /\ rendered'[1] = r.out
    BY <1>6, <2>1, <2>2
  <2>4. m \in Message /\ m.type = "ADD" /\ m.items = r.out
    BY <2>1 DEF AddMsg, Message
  <2>5. \E cs : Leads(cs, receiver, Append(F, m), r.cache)
    BY <1>4, <1>6, <2>1, <2>4, LeadsAppend
  <2>6. Flight(wire', rendered') = Append(F, m)
    <3> DEFINE w == Flight(wire, rendered')
    <3>1. /\ w \in Seq(Message) /\ Len(w) = Len(wire) + 1
          /\ \A i \in 1 .. Len(wire) : w[i] = wire[i]
          /\ w[Len(wire) + 1] = AddMsg(ByOffset(rendered'[1]))
      <4>1. /\ Flight(wire, rendered') \in Seq(Message)
            /\ Len(Flight(wire, rendered')) = Len(wire) + Len(rendered')
            /\ \A i \in 1 .. Len(wire) : Flight(wire, rendered')[i] = wire[i]
            /\ \A i \in 1 .. Len(rendered') :
                   Flight(wire, rendered')[Len(wire) + i] = AddMsg(ByOffset(rendered'[i]))
        BY <1>6, <2>3, FlightFacts
      <4>2. 1 \in 1 .. Len(rendered')
        BY <2>3
      <4> HIDE DEF w
      <4> QED BY <2>3, <4>1, <4>2 DEF w
    <3>2. /\ F \in Seq(Message) /\ Len(F) = Len(wire) /\ \A i \in 1 .. Len(wire) : F[i] = wire[i]
      BY <1>6, <2>3
    <3> HIDE DEF w, F, m
    <3>3. /\ Append(F, m) \in Seq(Message) /\ Len(Append(F, m)) = Len(wire) + 1
          /\ \A i \in 1 .. Len(wire) : Append(F, m)[i] = wire[i]
          /\ Append(F, m)[Len(wire) + 1] = m
      BY <2>4, <3>2
    <3>4. w[Len(wire) + 1] = m
      BY <2>1, <2>3, <3>1 DEF m
    <3>5. \A i \in 1 .. Len(w) : w[i] = Append(F, m)[i]
      <4>1. \A i \in 1 .. Len(w) : i \in 1 .. Len(wire) \/ i = Len(wire) + 1
        BY <1>6, <3>1
      <4> QED BY <3>1, <3>3, <3>4, <4>1
    <3>6. w = Append(F, m)
      BY <3>1, <3>3, <3>5, SameSeq
    <3> QED BY <2>2, <3>6 DEF w
  <2>7. \E cs : Leads(cs, receiver', Flight(wire', rendered'), sender')
    <3> HIDE DEF F, m
    <3> QED BY <2>2, <2>5, <2>6
  <2>8. Whole(sender')
    BY <2>1, <2>2
  <2>9. Len(rendered') <= 1
    BY <2>3
  <2> QED BY <1>4, <2>2, <2>7, <2>8, <2>9
<1>8. ASSUME NEW prompt \in Prompts, ProcessFails(prompt) \/ ProcessHangs(prompt) PROVE quiet
  <2>1. Rendering(prompt).status = "ok"
    BY <1>3, <1>4, QuietRendering
  <2> QED BY <1>8, <2>1 DEF ProcessFails, ProcessHangs
<1>9. ASSUME NEW i \in DOMAIN rendered, Submit(i) PROVE quiet
  <2> DEFINE m == AddMsg(ByOffset(rendered[1]))
  <2>0. DOMAIN rendered = 1 .. Len(rendered) /\ \A j \in 1 .. Len(rendered) : rendered[j] \in Fitting
    BY <1>6
  <2>1. i = 1 /\ Len(rendered) = 1 /\ rendered[1] \in Fitting
    BY <1>4, <1>6, <2>0
  <2>2. /\ wire' = Append(wire, m) /\ rendered' = RemoveAt(rendered, 1)
        /\ sender' = sender /\ receiver' = receiver /\ p0' = p0 /\ p1' = p1
        /\ clearing' = clearing /\ resets' = resets
    BY <1>9, <2>1 DEF Submit
  <2>3. rendered' \in Seq(Fitting) /\ Len(rendered') = 0
    <3>1. 1 \in 1 .. Len(rendered)
      BY <2>1
    <3>2. /\ RemoveAt(rendered, 1) \in Seq(Fitting)
          /\ Len(RemoveAt(rendered, 1)) = Len(rendered) - 1
      BY <1>6, <3>1, RemoveAtFacts
    <3> QED BY <2>1, <2>2, <3>2
  <2>4. m \in Message
    BY <2>1, ByOffsetFits DEF AddMsg, Message
  <2> HIDE DEF m
  <2>5. /\ wire' \in Seq(Message) /\ Len(wire') = Len(wire) + 1
        /\ \A j \in 1 .. Len(wire) : wire'[j] = wire[j]
        /\ wire'[Len(wire) + 1] = m
    BY <1>6, <2>2, <2>4
  <2> DEFINE F == Flight(wire, rendered)  w == Flight(wire', rendered')
  <2>6. /\ w \in Seq(Message) /\ Len(w) = Len(wire')
        /\ \A j \in 1 .. Len(wire') : w[j] = wire'[j]
    <3>1. /\ w \in Seq(Message) /\ Len(w) = Len(wire') + Len(rendered')
          /\ \A j \in 1 .. Len(wire') : w[j] = wire'[j]
      BY <2>3, <2>5, FlightFacts
    <3>2. Len(w) = Len(wire')
      <4> HIDE DEF w
      <4> QED BY <1>6, <2>3, <2>5, <3>1
    <3> QED BY <3>1, <3>2
  <2>7. F \in Seq(Message) /\ Len(F) = Len(wire) + 1 /\ F[Len(wire) + 1] = m
        /\ \A j \in 1 .. Len(wire) : F[j] = wire[j]
    <3>1. 1 \in 1 .. Len(rendered)
      BY <2>1
    <3> QED BY <1>6, <2>1, <3>1 DEF m
  <2> HIDE DEF F, w
  <2>8. \A j \in 1 .. Len(w) : w[j] = F[j]
    <3>1. \A j \in 1 .. Len(w) : j \in 1 .. Len(wire') /\ (j \in 1 .. Len(wire) \/ j = Len(wire) + 1)
      BY <1>6, <2>5, <2>6
    <3> QED BY <2>5, <2>6, <2>7, <3>1
  <2>9. w = F
    BY <2>5, <2>6, <2>7, <2>8, SameSeq
  <2>10. \E cs : Leads(cs, receiver', w, sender')
    BY <1>4, <2>2, <2>9 DEF F
  <2>11. Whole(sender') /\ Len(rendered') <= 1
    BY <1>4, <2>2, <2>3
  <2> QED BY <1>4, <2>2, <2>10, <2>11 DEF w
<1>10. ASSUME NEW i \in DOMAIN rendered, Reject(i) PROVE quiet
  BY <1>5, <1>10 DEF Reject
<1>11. ASSUME ClearSender PROVE quiet
  BY <1>5, <1>11 DEF ClearSender
<1>12. ASSUME SendReset PROVE quiet
  BY <1>4, <1>12 DEF SendReset
<1>13. ASSUME wire # << >>
       PROVE  /\ Flight(wire, rendered) # << >> /\ Flight(wire, rendered)[1] = Head(wire)
              /\ Flight(Tail(wire), rendered) = Tail(Flight(wire, rendered))
  <2> DEFINE F == Flight(wire, rendered)  w == Flight(Tail(wire), rendered)
             n == Len(wire)
  <2>0. n \in Nat /\ n > 0 /\ Head(wire) = wire[1]
    BY <1>6, <1>13
  <2>1. /\ Tail(wire) \in Seq(Message) /\ Len(Tail(wire)) = n - 1
        /\ \A i \in 1 .. n - 1 : Tail(wire)[i] = wire[i + 1]
    BY <1>6, <1>13
  <2>2. /\ w \in Seq(Message) /\ Len(w) = Len(Tail(wire)) + Len(rendered)
        /\ \A i \in 1 .. Len(Tail(wire)) : w[i] = Tail(wire)[i]
        /\ \A i \in 1 .. Len(rendered) : w[Len(Tail(wire)) + i] = AddMsg(ByOffset(rendered[i]))
    BY <1>6, <2>1, FlightFacts
  <2>3. /\ F \in Seq(Message) /\ Len(F) = n + Len(rendered)
        /\ \A i \in 1 .. n : F[i] = wire[i]
        /\ \A i \in 1 .. Len(rendered) : F[n + i] = AddMsg(ByOffset(rendered[i]))
    BY <1>6
  <2> HIDE DEF F, w, n
  <2>4. F # << >> /\ F[1] = wire[1]
    BY <1>6, <2>0, <2>3
  <2>5. /\ Tail(F) \in Seq(Message) /\ Len(Tail(F)) = (n - 1) + Len(rendered)
        /\ \A i \in 1 .. (n - 1) + Len(rendered) : Tail(F)[i] = F[i + 1]
    BY <1>6, <2>0, <2>3, <2>4
  <2>6. ASSUME NEW i \in 1 .. Len(w) PROVE w[i] = Tail(F)[i]
    <3>1. CASE i <= n - 1
      <4>1. i \in 1 .. n - 1 /\ i + 1 \in 1 .. n /\ i \in 1 .. (n - 1) + Len(rendered)
        BY <1>6, <2>0, <2>1, <2>2, <3>1
      <4> QED BY <2>1, <2>2, <2>3, <2>5, <4>1
    <3>2. CASE ~(i <= n - 1)
      <4> DEFINE j == i - (n - 1)
      <4>1. j \in 1 .. Len(rendered) /\ i = (n - 1) + j /\ i + 1 = n + j /\ i \in 1 .. (n - 1) + Len(rendered)
        BY <1>6, <2>0, <2>1, <2>2, <3>2
      <4> HIDE DEF j
      <4> QED BY <2>1, <2>2, <2>3, <2>5, <4>1
    <3> QED BY <3>1, <3>2
  <2>7. w = Tail(F)
    BY <2>1, <2>2, <2>5, <2>6, SameSeq
  <2> QED BY <2>0, <2>4, <2>7 DEF F, w
<1>14. ASSUME Receive PROVE quiet
  <2> DEFINE F == Flight(wire, rendered)
  <2>1. /\ wire # << >> /\ receiver' = Receiving.cache /\ wire' = Tail(wire)
        /\ p1' = IF Receiving.status = "hung" THEN "hung" ELSE "ready"
        /\ sender' = sender /\ rendered' = rendered /\ p0' = p0
        /\ clearing' = clearing /\ resets' = resets
    BY <1>14 DEF Receive, Arrived
  <2>2. F # << >> /\ F[1] = Head(wire) /\ Flight(wire', rendered') = Tail(F)
    BY <1>13, <2>1
  <2>3. F \in Seq(Message) /\ \E cs : Leads(cs, receiver, F, sender)
    BY <1>4, <1>6
  <2> HIDE DEF F
  <2>4. /\ GetAndUpdate(receiver, F[1].items).status = "ok"
        /\ \E cs : Leads(cs, GetAndUpdate(receiver, F[1].items).cache, Tail(F), sender)
    BY <2>2, <2>3, LeadsTail
  <2>5. Receiving.status = "ok" /\ \E cs : Leads(cs, receiver', Flight(wire', rendered'), sender')
    BY <2>1, <2>2, <2>4 DEF Receiving
  <2>6. p1' = "ready" /\ Whole(sender') /\ Len(rendered') <= 1
    BY <1>4, <2>1, <2>5
  <2> QED BY <1>4, <2>1, <2>5, <2>6
<1>15. ASSUME QueueReset PROVE quiet
  <2>1. wire # << >> /\ Head(wire).type = "UTILITY"
    BY <1>15 DEF QueueReset, Arrived
  <2>2. Flight(wire, rendered)[1].type = "ADD"
    BY <1>4, <1>6, <1>13, <2>1, LeadsTail
  <2> QED BY <1>13, <2>1, <2>2
<1>16. ASSUME ClearReceiver PROVE quiet
  BY <1>4, <1>16 DEF ClearReceiver
<1>17. ASSUME UNCHANGED vars PROVE quiet
  BY <1>4, <1>17 DEF vars
<1> HIDE DEF quiet
<1> QED BY <1>7, <1>8, <1>9, <1>10, <1>11, <1>12, <1>14, <1>15, <1>16, <1>17 DEF Next

LEMMA MirrorAlways == Spec => [](CacheInv /\ Mirror)
<1>1. Init => CacheInv /\ Mirror
  BY CacheInit, MirrorInit
<1>2. CacheInv /\ Mirror /\ [Next]_vars => (CacheInv /\ Mirror)'
  BY CacheNext, MirrorNext
<1> QED BY <1>1, <1>2, PTL DEF Spec

\* ReceiverMirrorsSender: what is under way leads the receiver of an undisturbed
\* system to the sender's cache, and no item arrives that it should have.
THEOREM ReceiverMirrorsSenderHolds == Spec => []ReceiverMirrorsSender
<1>1. CacheInv /\ Mirror => ReceiverMirrorsSender
  <2> SUFFICES ASSUME CacheInv, Mirror, Undisturbed
               PROVE  /\ Replay(receiver, InFlight) = sender
                      /\ Arrived("ADD") => Receiving.status = "ok"
    BY DEF ReceiverMirrorsSender
  <2> DEFINE F == Flight(wire, rendered)
  <2>1. F = InFlight
    BY DEF Flight, InFlight
  <2>2. wire \in Seq(Message) /\ rendered \in Seq(Fitting)
    BY DEF CacheInv
  <2>3. /\ F \in Seq(Message) /\ Len(F) = Len(wire) + Len(rendered)
        /\ \A i \in 1 .. Len(wire) : F[i] = wire[i]
    BY <2>2, FlightFacts
  <2>4. \E cs : Leads(cs, receiver, F, sender)
    BY DEF Mirror
  <2> HIDE DEF F
  <2>5. Replay(receiver, F) = sender
    BY <2>3, <2>4, LeadsReplay
  <2>6. ASSUME Arrived("ADD") PROVE Receiving.status = "ok"
    <3>1. wire # << >> /\ Head(wire) = wire[1] /\ 1 \in 1 .. Len(wire) /\ Len(rendered) \in Nat
      BY <2>2, <2>6 DEF Arrived
    <3>2. F # << >> /\ F[1] = Head(wire)
      BY <2>3, <3>1
    <3>3. GetAndUpdate(receiver, F[1].items).status = "ok"
      BY <2>3, <2>4, <3>2, LeadsTail
    <3> QED BY <3>2, <3>3 DEF Receiving
  <2> QED BY <2>1, <2>5, <2>6
<1> QED BY <1>1, MirrorAlways, PTL

\* EvictionEnds: no eviction loop of an undisturbed system is endless.
THEOREM EvictionEndsHolds == Spec => []EvictionEnds
<1>1. Mirror => EvictionEnds
  BY DEF Mirror, EvictionEnds
<1> QED BY <1>1, MirrorAlways, PTL

=============================================================================
