------------------------- MODULE EncoderCacheProofs -------------------------
(***************************************************************************)
(* The accounting of EncoderCacheManager for every set of hashes, sizes,   *)
(* cache size and set of requests.                                         *)
(***************************************************************************)
EXTENDS EncoderCache, FiniteSetTheorems, TLAPS

-----------------------------------------------------------------------------
(* Counting slots.                                                         *)

\* The rows of one entry.
LEMMA EntryRows ==
    ASSUME NEW x, NEW n \in Nat
    PROVE  IsFiniteSet({x} \X (1 .. n)) /\ Cardinality({x} \X (1 .. n)) = n
<1> DEFINE D == 1 .. n
<1>1. IsFiniteSet({x}) /\ Cardinality({x}) = 1
  BY FS_Singleton
<1>2. IsFiniteSet(1 .. n) /\ Cardinality(1 .. n) = IF 1 > n THEN 0 ELSE n - 1 + 1
  BY FS_Interval
<1>3. IsFiniteSet(D) /\ Cardinality(D) = n
  BY <1>2
<1> HIDE DEF D
<1>4. IsFiniteSet({x} \X D)
  BY <1>1, <1>3, FS_Product
<1>5. Cardinality({x} \X D) = Cardinality({x}) * Cardinality(D)
  BY <1>1, <1>3, FS_Product
<1>6. Cardinality({x} \X D) = n
  BY <1>1, <1>3, <1>5
<1> QED  BY <1>4, <1>6 DEF D

\* The rows of finitely many entries are finitely many.
LEMMA RowsFinite ==
    ASSUME NEW S \in SUBSET Hashes
    PROVE  IsFiniteSet(Rows(S))
<1> DEFINE rowsOf == [h \in S |-> {h} \X (1 .. Size[h])]
           T == {{h} \X (1 .. Size[h]) : h \in S}
<1>1. IsFiniteSet(S)
  BY FS_Subset, EncoderCacheAssumption
<1>2. rowsOf \in Surjection(S, T)
  BY DEF Surjection
<1>3. IsFiniteSet(T)
  <2> HIDE DEF rowsOf, T
  <2> QED  BY <1>1, <1>2, FS_Surjection
<1>4. ASSUME NEW h \in S
      PROVE  IsFiniteSet({h} \X (1 .. Size[h]))
  <2>1. Size[h] \in Nat
    BY EncoderCacheAssumption
  <2> QED  BY <2>1, EntryRows
<1>5. \A X \in T : IsFiniteSet(X)
  BY <1>4
<1>6. IsFiniteSet(UNION T)
  <2> HIDE DEF T
  <2> QED  BY <1>3, <1>5, FS_UNION
<1> QED  BY <1>6 DEF Rows

\* The slots of a set of entries are a natural number.
LEMMA SlotsNat ==
    ASSUME NEW S \in SUBSET Hashes
    PROVE  SlotsOf(S) \in Nat
BY RowsFinite, FS_CardinalityType DEF SlotsOf

\* No entry, no slot.
LEMMA SlotsEmpty == SlotsOf({}) = 0
<1>1. Rows({}) = {}
  BY DEF Rows
<1> QED  BY <1>1, FS_EmptySet DEF SlotsOf

\* One entry takes as many slots as it has embeddings.
LEMMA SlotsSingleton ==
    ASSUME NEW h \in Hashes
    PROVE  SlotsOf({h}) = Size[h]
<1>1. Size[h] \in Nat
  BY EncoderCacheAssumption
<1>2. Rows({h}) = {h} \X (1 .. Size[h])
  BY DEF Rows
<1>3. Cardinality({h} \X (1 .. Size[h])) = Size[h]
  BY <1>1, EntryRows
<1> QED  BY <1>2, <1>3 DEF SlotsOf

\* Disjoint sets of entries take disjoint slots.
LEMMA SlotsUnion ==
    ASSUME NEW S \in SUBSET Hashes, NEW T \in SUBSET Hashes, S \cap T = {}
    PROVE  SlotsOf(S \cup T) = SlotsOf(S) + SlotsOf(T)
<1>1. Rows(S \cup T) = Rows(S) \cup Rows(T)
  BY DEF Rows
<1>2. Rows(S) \cap Rows(T) = {}
  BY DEF Rows
<1>3. IsFiniteSet(Rows(S)) /\ IsFiniteSet(Rows(T))
  BY RowsFinite
<1>4. Cardinality(Rows(S) \cup Rows(T))
        = Cardinality(Rows(S)) + Cardinality(Rows(T)) - Cardinality({})
  BY <1>2, <1>3, FS_Union
<1>5. Cardinality(Rows(S)) \in Nat /\ Cardinality(Rows(T)) \in Nat
  BY <1>3, FS_CardinalityType
<1>6. Cardinality({}) = 0
  BY FS_EmptySet
<1>7. Cardinality(Rows(S) \cup Rows(T)) = Cardinality(Rows(S)) + Cardinality(Rows(T))
  BY <1>4, <1>5, <1>6
<1>8. Cardinality(Rows(S \cup T)) = Cardinality(Rows(S)) + Cardinality(Rows(T))
  BY <1>1, <1>7, Zenon
<1> QED  BY <1>8, Zenon DEF SlotsOf

\* Taking entries away gives exactly their slots back.
LEMMA SlotsMinus ==
    ASSUME NEW S \in SUBSET Hashes, NEW T \in SUBSET S
    PROVE  /\ SlotsOf(S \ T) = SlotsOf(S) - SlotsOf(T)
           /\ SlotsOf(T) <= SlotsOf(S)
<1>1. SlotsOf((S \ T) \cup T) = SlotsOf(S \ T) + SlotsOf(T)
  BY SlotsUnion
<1>2. (S \ T) \cup T = S
  OBVIOUS
<1>3. SlotsOf(S) \in Nat /\ SlotsOf(T) \in Nat /\ SlotsOf(S \ T) \in Nat
  BY SlotsNat
<1>4. SlotsOf(S) = SlotsOf(S \ T) + SlotsOf(T)
  BY <1>1, <1>2, Zenon
<1> DEFINE s == SlotsOf(S)  t == SlotsOf(T)  d == SlotsOf(S \ T)
<1>5. s \in Nat /\ t \in Nat /\ d \in Nat /\ s = d + t
  BY <1>3, <1>4
<1> HIDE DEF s, t, d
<1>6. d = s - t /\ t <= s
  BY <1>5
<1> QED  BY <1>6 DEF s, t, d

-----------------------------------------------------------------------------
(* The freeable queue as a sequence without duplicates.                    *)

Elems(s) == {s[i] : i \in 1 .. Len(s)}
NoDup(s) == \A i, j \in 1 .. Len(s) : s[i] = s[j] => i = j

\* Removing the item at one place.
LEMMA SeqRemove ==
    ASSUME NEW T, NEW s \in Seq(T), NEW k \in 1 .. Len(s), NoDup(s)
    PROVE  /\ RemoveAt(s, k) \in Seq(T)
           /\ Elems(RemoveAt(s, k)) = Elems(s) \ {s[k]}
           /\ NoDup(RemoveAt(s, k))
<1> DEFINE t == RemoveAt(s, k)
<1>1. /\ t \in Seq(T) /\ Len(t) = Len(s) - 1
      /\ \A i \in 1 .. Len(t) : t[i] = IF i < k THEN s[i] ELSE s[i + 1]
  <2> DEFINE p == SubSeq(s, 1, k - 1)
             q == SubSeq(s, k + 1, Len(s))
  <2>1. p \in Seq(T) /\ Len(p) = k - 1 /\ \A i \in 1 .. k - 1 : p[i] = s[i]
    OBVIOUS
  <2>2. q \in Seq(T) /\ Len(q) = Len(s) - k /\ \A i \in 1 .. Len(s) - k : q[i] = s[i + k]
    OBVIOUS
  <2>3. t = p \o q
    BY DEF RemoveAt
  <2> HIDE DEF p, q, t
  <2>4. t \in Seq(T) /\ Len(t) = Len(s) - 1
    BY <2>1, <2>2, <2>3
  <2>5. ASSUME NEW i \in 1 .. Len(t)
        PROVE  t[i] = IF i < k THEN s[i] ELSE s[i + 1]
    <3>1. CASE i < k
      BY <3>1, <2>1, <2>2, <2>3, <2>4
    <3>2. CASE ~(i < k)
      <4>1. t[i] = q[i - (k - 1)]
        BY <3>2, <2>1, <2>2, <2>3, <2>4
      <4>2. i - (k - 1) \in 1 .. Len(s) - k
        BY <3>2, <2>4
      <4>3. q[i - (k - 1)] = s[(i - (k - 1)) + k]
        BY <2>2, <4>2
      <4>4. (i - (k - 1)) + k = i + 1
        BY <2>4
      <4> QED  BY <3>2, <4>1, <4>3, <4>4
    <3> QED  BY <3>1, <3>2
  <2> QED  BY <2>4, <2>5
<1>2. Len(s) \in Nat
  OBVIOUS
<1> HIDE DEF t
<1>3. NoDup(t)
  <2> SUFFICES ASSUME NEW i \in 1 .. Len(t), NEW j \in 1 .. Len(t), t[i] = t[j]
               PROVE  i = j
    BY DEF NoDup
  <2> QED  BY <1>1, <1>2 DEF NoDup
<1>4. ASSUME NEW x \in Elems(t)
      PROVE  x \in Elems(s) \ {s[k]}
  <2>1. PICK i \in 1 .. Len(t) : x = t[i]
    BY DEF Elems
  <2> DEFINE j == IF i < k THEN i ELSE i + 1
  <2>2. j \in 1 .. Len(s) /\ j # k /\ x = s[j]
    BY <1>1, <1>2, <2>1
  <2> QED  BY <2>2 DEF Elems, NoDup
<1>5. ASSUME NEW x \in Elems(s), x # s[k]
      PROVE  x \in Elems(t)
  <2>1. PICK i \in 1 .. Len(s) : x = s[i]
    BY DEF Elems
  <2>2. i # k
    BY <1>5, <2>1
  <2> DEFINE j == IF i < k THEN i ELSE i - 1
  <2>3. j \in 1 .. Len(t) /\ x = t[j]
    BY <1>1, <1>2, <2>1, <2>2
  <2> QED  BY <2>3 DEF Elems
<1>6. Elems(t) = Elems(s) \ {s[k]}
  BY <1>4, <1>5
<1> QED  BY <1>1, <1>3, <1>6 DEF t

\* Dropping the first items.
LEMMA SeqDrop ==
    ASSUME NEW T, NEW s \in Seq(T), NEW k \in 1 .. Len(s), NoDup(s)
    PROVE  /\ SubSeq(s, k + 1, Len(s)) \in Seq(T)
           /\ Elems(SubSeq(s, k + 1, Len(s))) = Elems(s) \ {s[i] : i \in 1 .. k}
           /\ NoDup(SubSeq(s, k + 1, Len(s)))
<1> DEFINE t == SubSeq(s, k + 1, Len(s))
<1>1. /\ t \in Seq(T) /\ Len(t) = Len(s) - k
      /\ \A i \in 1 .. Len(t) : t[i] = s[i + k]
  OBVIOUS
<1>2. Len(s) \in Nat
  OBVIOUS
<1> HIDE DEF t
<1>3. NoDup(t)
  <2> SUFFICES ASSUME NEW i \in 1 .. Len(t), NEW j \in 1 .. Len(t), t[i] = t[j]
               PROVE  i = j
    BY DEF NoDup
  <2>1. i + k \in 1 .. Len(s) /\ j + k \in 1 .. Len(s)
    BY <1>1, <1>2
  <2>2. s[i + k] = s[j + k]
    BY <1>1
  <2>3. i + k = j + k
    BY <2>1, <2>2 DEF NoDup
  <2> QED  BY <2>3
<1>4. ASSUME NEW x \in Elems(t)
      PROVE  x \in Elems(s) \ {s[i] : i \in 1 .. k}
  <2>1. PICK i \in 1 .. Len(t) : x = t[i]
    BY DEF Elems
  <2>2. i + k \in 1 .. Len(s) /\ i + k > k
    BY <1>1, <1>2
  <2>4. x = s[i + k]
    BY <1>1, <2>1
  <2>3. \A j \in 1 .. k : s[j] # s[i + k]
    BY <1>2, <2>2 DEF NoDup
  <2> QED  BY <2>2, <2>3, <2>4 DEF Elems
<1>5. ASSUME NEW x \in Elems(s), x \notin {s[i] : i \in 1 .. k}
      PROVE  x \in Elems(t)
  <2>1. PICK i \in 1 .. Len(s) : x = s[i]
    BY DEF Elems
  <2>2. i > k
    BY <1>2, <1>5, <2>1
  <2>3. i - k \in 1 .. Len(t) /\ x = t[i - k]
    BY <1>1, <1>2, <2>1, <2>2
  <2> QED  BY <2>3 DEF Elems
<1>6. Elems(t) = Elems(s) \ {s[i] : i \in 1 .. k}
  BY <1>4, <1>5
<1> QED  BY <1>1, <1>3, <1>6 DEF t

\* Queueing new items behind the others.
LEMMA SeqJoin ==
    ASSUME NEW T, NEW s \in Seq(T), NEW u \in Seq(T), NoDup(s), NoDup(u),
           Elems(s) \cap Elems(u) = {}
    PROVE  /\ s \o u \in Seq(T)
           /\ Elems(s \o u) = Elems(s) \cup Elems(u)
           /\ NoDup(s \o u)
<1> DEFINE t == s \o u
<1>1. /\ t \in Seq(T) /\ Len(t) = Len(s) + Len(u)
      /\ \A i \in 1 .. Len(t) : t[i] = IF i <= Len(s) THEN s[i] ELSE u[i - Len(s)]
  OBVIOUS
<1>2. Len(s) \in Nat /\ Len(u) \in Nat
  OBVIOUS
<1> HIDE DEF t
<1>3. ASSUME NEW i \in 1 .. Len(s), NEW j \in 1 .. Len(u)
      PROVE  s[i] # u[j]
  BY DEF Elems
<1>4. NoDup(t)
  <2> SUFFICES ASSUME NEW i \in 1 .. Len(t), NEW j \in 1 .. Len(t), t[i] = t[j]
               PROVE  i = j
    BY DEF NoDup
  <2>1. CASE i <= Len(s) /\ j <= Len(s)
    <3>1. i \in 1 .. Len(s) /\ j \in 1 .. Len(s)
      BY <1>1, <1>2, <2>1
    <3>2. s[i] = s[j]
      BY <1>1, <2>1
    <3> QED  BY <3>1, <3>2 DEF NoDup
  <2>2. CASE i > Len(s) /\ j > Len(s)
    <3>1. i - Len(s) \in 1 .. Len(u) /\ j - Len(s) \in 1 .. Len(u)
      BY <1>1, <1>2, <2>2
    <3>2. u[i - Len(s)] = u[j - Len(s)]
      BY <1>1, <1>2, <2>2
    <3>3. i - Len(s) = j - Len(s)
      BY <3>1, <3>2 DEF NoDup
    <3> QED  BY <1>2, <3>3
  <2>3. CASE i <= Len(s) /\ j > Len(s)
    <3>1. j - Len(s) \in 1 .. Len(u) /\ i \in 1 .. Len(s)
      BY <1>1, <1>2, <2>3
    <3>2. s[i] = u[j - Len(s)]
      BY <1>1, <1>2, <2>3
    <3> QED  BY <1>3, <3>1, <3>2
  <2>4. CASE i > Len(s) /\ j <= Len(s)
    <3>1. i - Len(s) \in 1 .. Len(u) /\ j \in 1 .. Len(s)
      BY <1>1, <1>2, <2>4
    <3>2. s[j] = u[i - Len(s)]
      BY <1>1, <1>2, <2>4
    <3> QED  BY <1>3, <3>1, <3>2
  <2> QED  BY <1>1, <1>2, <2>1, <2>2, <2>3, <2>4
<1>5. ASSUME NEW x \in Elems(t)
      PROVE  x \in Elems(s) \cup Elems(u)
  <2>1. PICK i \in 1 .. Len(t) : x = t[i]
    BY DEF Elems
  <2>2. CASE i <= Len(s)
    <3>1. i \in 1 .. Len(s) /\ x = s[i]
      BY <1>1, <1>2, <2>1, <2>2
    <3> QED  BY <3>1 DEF Elems
  <2>3. CASE i > Len(s)
    <3>1. i - Len(s) \in 1 .. Len(u) /\ ~(i <= Len(s))
      BY <1>1, <1>2, <2>3
    <3>2. x = u[i - Len(s)]
      BY <1>1, <2>1, <3>1
    <3> QED  BY <3>1, <3>2 DEF Elems
  <2> QED  BY <1>1, <1>2, <2>2, <2>3
<1>6. ASSUME NEW x \in Elems(s)
      PROVE  x \in Elems(t)
  <2>1. PICK i \in 1 .. Len(s) : x = s[i]
    BY DEF Elems
  <2>2. i \in 1 .. Len(t) /\ x = t[i]
    BY <1>1, <1>2, <2>1
  <2> QED  BY <2>2 DEF Elems
<1>7. ASSUME NEW x \in Elems(u)
      PROVE  x \in Elems(t)
  <2>1. PICK i \in 1 .. Len(u) : x = u[i]
    BY DEF Elems
  <2>2. /\ i + Len(s) \in 1 .. Len(t) /\ ~(i + Len(s) <= Len(s))
        /\ (i + Len(s)) - Len(s) = i
    BY <1>1, <1>2
  <2>3. x = t[i + Len(s)]
    BY <1>1, <2>1, <2>2
  <2> QED  BY <2>2, <2>3 DEF Elems
<1>8. Elems(t) = Elems(s) \cup Elems(u)
  BY <1>5, <1>6, <1>7
<1> QED  BY <1>1, <1>4, <1>8 DEF t

-----------------------------------------------------------------------------
(* The inductive invariant. The counters are exact because freeable lists  *)
(* exactly the entries nobody holds, and only cached entries are held.     *)

OnlyCachedHeld == \A h \in Hashes : refs[h] # {} => h \in cached

Held == {h \in cached : refs[h] # {}}

Shape ==
    /\ cached \subseteq Hashes
    /\ refs \in [Hashes -> SUBSET Reqs]
    /\ freeable \in Seq(Hashes)
    /\ freed \subseteq Hashes
    /\ numFree \in Int /\ numFreeable \in Int
    /\ numFree >= 0

ECInv ==
    /\ Shape
    /\ OnlyCachedHeld
    /\ FreeableIsUnreferenced
    /\ FreeSlotsExact
    /\ FreeableSlotsExact

\* The parts of the invariant in the form the action proofs use.
LEMMA InvParts ==
    ASSUME ECInv
    PROVE  /\ Elems(freeable) = Unreferenced /\ NoDup(freeable)
           /\ numFree = CacheSize - SlotsOf(cached)
           /\ numFreeable = CacheSize - SlotsOf(Held)
           /\ Unreferenced \subseteq Hashes /\ Held \subseteq Hashes
           /\ Unreferenced = cached \ Held
BY DEF ECInv, Shape, FreeableIsUnreferenced, FreeSlotsExact, FreeableSlotsExact,
       Elems, NoDup, Held, Unreferenced

\* The invariant again from its parts in the next state.
LEMMA InvFromParts ==
    ASSUME Shape', OnlyCachedHeld', Elems(freeable') = Unreferenced', NoDup(freeable'),
           numFree' = CacheSize - SlotsOf(cached'),
           numFreeable' = CacheSize - SlotsOf(Held')
    PROVE  ECInv'
BY DEF ECInv, FreeableIsUnreferenced, FreeSlotsExact, FreeableSlotsExact, Elems, NoDup, Held

\* The bounds of the counters follow from their exactness.
LEMMA InvImpliesType ==
    ASSUME ECInv
    PROVE  ECTypeOK
<1>1. Held \subseteq cached /\ cached \subseteq Hashes
  BY DEF ECInv, Shape, Held
<1>2. SlotsOf(cached) \in Nat /\ SlotsOf(Held) \in Nat
  BY <1>1, SlotsNat
<1>3. SlotsOf(Held) <= SlotsOf(cached)
  BY <1>1, SlotsMinus
<1>4. /\ numFree = CacheSize - SlotsOf(cached) /\ numFreeable = CacheSize - SlotsOf(Held)
      /\ numFree >= 0
  BY InvParts DEF ECInv, Shape
<1> DEFINE c == SlotsOf(cached)  d == SlotsOf(Held)
<1>5. /\ c \in Nat /\ d \in Nat /\ d <= c /\ CacheSize \in Nat
      /\ numFree = CacheSize - c /\ numFreeable = CacheSize - d /\ numFree >= 0
  BY <1>2, <1>3, <1>4, EncoderCacheAssumption
<1> HIDE DEF c, d
<1>6. numFree \in 0 .. CacheSize /\ numFreeable \in 0 .. CacheSize
  BY <1>5
<1> QED  BY <1>6 DEF ECInv, Shape, ECTypeOK

\* A fresh manager (__init__) satisfies the inductive invariant.
LEMMA InitInv == ECInit => ECInv
<1> SUFFICES ASSUME ECInit PROVE ECInv
  OBVIOUS
<1>1. cached = {} /\ freeable = <<>>
  BY DEF ECInit
<1>2. SlotsOf(cached) = 0 /\ SlotsOf({h \in cached : refs[h] # {}}) = 0
  BY <1>1, SlotsEmpty
<1>3. Shape /\ OnlyCachedHeld
  BY EncoderCacheAssumption DEF ECInit, Shape, OnlyCachedHeld
<1>4. FreeableIsUnreferenced
  BY <1>1 DEF FreeableIsUnreferenced, Unreferenced
<1>5. FreeSlotsExact /\ FreeableSlotsExact
  BY <1>2, EncoderCacheAssumption DEF ECInit, FreeSlotsExact, FreeableSlotsExact
<1> QED  BY <1>3, <1>4, <1>5 DEF ECInv

-----------------------------------------------------------------------------
(* Each operation keeps the invariant.                                     *)

\* A hit of check_and_update_cache preserves it.
LEMMA HitInv ==
    ASSUME ECInv, NEW r \in Reqs, NEW h \in Hashes, CheckAndUpdateHit(r, h)
    PROVE  ECInv'
<1> USE DEF CheckAndUpdateHit
<1>1. /\ Elems(freeable) = Unreferenced /\ NoDup(freeable)
      /\ numFree = CacheSize - SlotsOf(cached)
      /\ numFreeable = CacheSize - SlotsOf(Held)
      /\ Held \subseteq Hashes
  BY InvParts
<1>2. /\ Shape /\ OnlyCachedHeld
  BY DEF ECInv
<1>3. refs' \in [Hashes -> SUBSET Reqs] /\ refs'[h] = refs[h] \cup {r}
      /\ \A x \in Hashes \ {h} : refs'[x] = refs[x]
  BY <1>2 DEF Shape
<1>4. OnlyCachedHeld'
  BY <1>2, <1>3 DEF OnlyCachedHeld
<1>5. Held' = Held \cup {h} /\ Unreferenced' = Unreferenced \ {h}
  BY <1>2, <1>3 DEF Held, Unreferenced, Shape
<1>6. numFree' = CacheSize - SlotsOf(cached')
  BY <1>1
<1>7. CASE refs[h] = {}
  <2>1. PICK i \in 1 .. Len(freeable) : freeable[i] = h /\ freeable' = RemoveAt(freeable, i)
    BY <1>7
  <2>2. numFreeable' = numFreeable - Size[h]
    BY <1>7
  <2>3. /\ freeable' \in Seq(Hashes) /\ NoDup(freeable')
        /\ Elems(freeable') = Unreferenced'
    BY <1>1, <1>2, <1>5, <2>1, SeqRemove DEF Shape
  <2>4. Held \cap {h} = {}
    BY <1>7 DEF Held
  <2>5. SlotsOf(Held') = SlotsOf(Held) + Size[h]
    BY <1>1, <1>5, <2>4, SlotsUnion, SlotsSingleton
  <2>6. SlotsOf(Held) \in Nat /\ Size[h] \in Nat /\ CacheSize \in Nat
    BY <1>1, SlotsNat, EncoderCacheAssumption
  <2>7. numFreeable' = CacheSize - SlotsOf(Held') /\ numFreeable' \in Int
    BY <1>1, <2>2, <2>5, <2>6
  <2>8. Shape'
    BY <1>2, <1>3, <2>3, <2>7 DEF Shape
  <2> QED  BY <1>4, <1>6, <2>3, <2>7, <2>8, InvFromParts
<1>8. CASE refs[h] # {}
  <2>1. freeable' = freeable /\ numFreeable' = numFreeable
    BY <1>8
  <2>2. Held' = Held /\ Unreferenced' = Unreferenced
    BY <1>5, <1>8 DEF Held, Unreferenced
  <2>3. Shape'
    BY <1>2, <1>3, <2>1 DEF Shape
  <2>4. Elems(freeable') = Unreferenced' /\ NoDup(freeable')
    BY <1>1, <2>1, <2>2
  <2>5. numFreeable' = CacheSize - SlotsOf(Held')
    BY <1>1, <2>1, <2>2
  <2> QED  BY <1>4, <1>6, <2>3, <2>4, <2>5, InvFromParts
<1> QED  BY <1>7, <1>8

\* The eviction loop of can_allocate preserves it.
LEMMA EvictInv ==
    ASSUME ECInv, NEW k \in 1 .. Len(freeable), Evict(k)
    PROVE  ECInv'
<1> USE DEF Evict
<1>1. /\ Elems(freeable) = Unreferenced /\ NoDup(freeable)
      /\ numFree = CacheSize - SlotsOf(cached)
      /\ numFreeable = CacheSize - SlotsOf(Held)
      /\ Unreferenced \subseteq Hashes
  BY InvParts
<1>2. Shape /\ OnlyCachedHeld
  BY DEF ECInv
<1> DEFINE old == Oldest(k)
<1>3. old \subseteq Unreferenced
  <2>1. Len(freeable) \in Nat
    BY <1>2 DEF Shape
  <2>2. \A i \in 1 .. k : i \in 1 .. Len(freeable)
    BY <2>1
  <2> QED  BY <1>1, <2>2 DEF Oldest, Elems
<1>4. old \subseteq cached /\ \A h \in old : refs[h] = {}
  BY <1>3 DEF Unreferenced
<1>5. /\ freeable' \in Seq(Hashes) /\ NoDup(freeable')
      /\ Elems(freeable') = Unreferenced \ old
  BY <1>1, <1>2, SeqDrop DEF Shape, Oldest
<1>6. cached' = cached \ old /\ refs' = refs /\ freed' = freed \cup old
      /\ numFree' = numFree + SlotsOf(old) /\ numFreeable' = numFreeable
  OBVIOUS
<1>7. Unreferenced' = Unreferenced \ old /\ Held' = Held
  BY <1>4, <1>6 DEF Unreferenced, Held
<1>8. OnlyCachedHeld'
  BY <1>2, <1>4, <1>6 DEF OnlyCachedHeld
<1>9. SlotsOf(cached') = SlotsOf(cached) - SlotsOf(old)
  BY <1>2, <1>4, <1>6, SlotsMinus DEF Shape
<1>10. SlotsOf(cached) \in Nat /\ SlotsOf(old) \in Nat /\ CacheSize \in Nat
  BY <1>2, <1>4, SlotsNat, EncoderCacheAssumption DEF Shape
<1> HIDE DEF old
<1>11. numFree' = CacheSize - SlotsOf(cached') /\ numFree' \in Int /\ numFree' >= 0
  BY <1>1, <1>2, <1>6, <1>9, <1>10 DEF Shape
<1>12. numFreeable' = CacheSize - SlotsOf(Held')
  BY <1>1, <1>6, <1>7
<1>13. Shape'
  BY <1>2, <1>4, <1>5, <1>6, <1>11 DEF Shape
<1> QED  BY <1>5, <1>7, <1>8, <1>11, <1>12, <1>13, InvFromParts

\* allocate preserves it for whatever can_allocate granted.
LEMMA AllocateInv ==
    ASSUME ECInv, NEW r \in Reqs, NEW S \in SUBSET Hashes, Granted(S), Allocate(r, S)
    PROVE  ECInv'
<1> USE DEF Allocate
<1>1. /\ Elems(freeable) = Unreferenced /\ NoDup(freeable)
      /\ numFree = CacheSize - SlotsOf(cached)
      /\ numFreeable = CacheSize - SlotsOf(Held)
      /\ Held \subseteq Hashes
  BY InvParts
<1>2. Shape /\ OnlyCachedHeld
  BY DEF ECInv
<1>3. S \cap cached = {} /\ SlotsOf(S) <= numFree
  BY DEF Granted
<1>4. /\ refs' \in [Hashes -> SUBSET Reqs]
      /\ \A h \in S : refs'[h] # {}
      /\ \A h \in Hashes \ S : refs'[h] = refs[h]
  BY <1>2 DEF Shape
<1>5. cached' = cached \cup S /\ cached \subseteq Hashes
  BY <1>2 DEF Shape
<1>6. OnlyCachedHeld'
  BY <1>2, <1>4, <1>5 DEF OnlyCachedHeld
<1>7. Unreferenced' = Unreferenced /\ Held' = Held \cup S /\ Held \cap S = {}
  BY <1>3, <1>4, <1>5 DEF Unreferenced, Held
<1>8. SlotsOf(cached') = SlotsOf(cached) + SlotsOf(S)
  BY <1>3, <1>5, SlotsUnion
<1>9. SlotsOf(Held') = SlotsOf(Held) + SlotsOf(S)
  BY <1>1, <1>7, SlotsUnion
<1>10. /\ SlotsOf(cached) \in Nat /\ SlotsOf(Held) \in Nat /\ SlotsOf(S) \in Nat
       /\ CacheSize \in Nat
  BY <1>1, <1>5, SlotsNat, EncoderCacheAssumption
<1>11. numFree' = CacheSize - SlotsOf(cached') /\ numFree' \in Int /\ numFree' >= 0
  BY <1>1, <1>3, <1>8, <1>10
<1>12. numFreeable' = CacheSize - SlotsOf(Held') /\ numFreeable' \in Int
  BY <1>1, <1>9, <1>10
<1>13. Shape'
  BY <1>2, <1>4, <1>5, <1>11, <1>12 DEF Shape
<1>14. Elems(freeable') = Unreferenced' /\ NoDup(freeable')
  BY <1>1, <1>7
<1> QED  BY <1>6, <1>11, <1>12, <1>13, <1>14, InvFromParts

\* free_encoder_input and free preserve it.
LEMMA FreeInv ==
    ASSUME ECInv, NEW r \in Reqs, NEW S \in SUBSET cached, NEW order, FreeInputs(r, S, order)
    PROVE  ECInv'
<1> USE DEF FreeInputs
<1> DEFINE last == LastHeld(r, S)
<1>1. /\ Elems(freeable) = Unreferenced /\ NoDup(freeable)
      /\ numFree = CacheSize - SlotsOf(cached)
      /\ numFreeable = CacheSize - SlotsOf(Held)
      /\ Held \subseteq Hashes
  BY InvParts
<1>2. Shape /\ OnlyCachedHeld
  BY DEF ECInv
<1>3. cached \subseteq Hashes /\ S \subseteq Hashes
  BY <1>2 DEF Shape
<1>4. last \subseteq Held /\ IsFiniteSet(last)
  <2>1. last \subseteq Held
    BY DEF LastHeld, Held
  <2> QED  BY <1>1, <2>1, FS_Subset, EncoderCacheAssumption
<1>5. Cardinality(last) \in Nat
  BY <1>4, FS_CardinalityType
<1>6. order \in Seq(Hashes) /\ NoDup(order) /\ Elems(order) = last
  <2> HIDE DEF last
  <2> DEFINE D == 1 .. Cardinality(last)
  <2>1. order \in SetToSeqs(last)
    BY DEF last
  <2>2. order \in [D -> last] /\ \A i, j \in D : i # j => order[i] # order[j]
    BY <2>1 DEF SetToSeqs
  <2>3. order \in Seq(Hashes) /\ Len(order) = Cardinality(last)
    BY <1>1, <1>4, <1>5, <2>2
  <2>4. NoDup(order) /\ Elems(order) \subseteq last
    BY <2>2, <2>3 DEF NoDup, Elems
  <2>5. order \in Injection(D, last)
    BY <2>2 DEF Injection, IsInjective
  <2>6. IsFiniteSet(D) /\ Cardinality(D) = Cardinality(last)
    BY <1>5, FS_Interval
  <2> HIDE DEF D
  <2>7. order \in Surjection(D, last)
    BY <1>4, <2>5, <2>6, FS_Injection
  <2>8. last \subseteq Elems(order)
    BY <2>3, <2>7 DEF Surjection, Elems, D
  <2> QED  BY <2>3, <2>4, <2>8
<1>7. /\ refs' \in [Hashes -> SUBSET Reqs]
      /\ \A h \in last : refs'[h] = {}
      /\ \A h \in Hashes \ last : refs'[h] # {} <=> refs[h] # {}
  BY <1>2, <1>3 DEF Shape, LastHeld
<1>8. Unreferenced' = Unreferenced \cup last /\ Held' = Held \ last
  BY <1>3, <1>4, <1>7 DEF Unreferenced, Held
<1>9. Unreferenced \cap last = {}
  BY <1>4 DEF Unreferenced, Held
<1>10. OnlyCachedHeld'
  BY <1>2, <1>7 DEF OnlyCachedHeld
<1>11. /\ cached' = cached /\ freed' = freed /\ numFree' = numFree
       /\ freeable' = freeable \o order /\ numFreeable' = numFreeable + SlotsOf(last)
  OBVIOUS
<1> HIDE DEF last
<1>12. /\ freeable' \in Seq(Hashes) /\ NoDup(freeable')
       /\ Elems(freeable') = Unreferenced'
  <2>1. freeable \in Seq(Hashes) /\ Elems(freeable) \cap Elems(order) = {}
    BY <1>1, <1>2, <1>6, <1>9 DEF Shape
  <2>2. /\ freeable \o order \in Seq(Hashes) /\ NoDup(freeable \o order)
        /\ Elems(freeable \o order) = Elems(freeable) \cup Elems(order)
    BY <1>1, <1>6, <2>1, SeqJoin
  <2> QED  BY <1>1, <1>6, <1>8, <1>11, <2>2
<1>13. SlotsOf(Held') = SlotsOf(Held) - SlotsOf(last)
  BY <1>1, <1>4, <1>8, SlotsMinus
<1>14. SlotsOf(Held) \in Nat /\ SlotsOf(last) \in Nat /\ CacheSize \in Nat
  BY <1>1, <1>4, SlotsNat, EncoderCacheAssumption
<1>15. numFreeable' = CacheSize - SlotsOf(Held') /\ numFreeable' \in Int
  BY <1>1, <1>11, <1>13, <1>14
<1>16. numFree' = CacheSize - SlotsOf(cached')
  BY <1>1, <1>11
<1>17. Shape'
  BY <1>2, <1>7, <1>11, <1>12, <1>15 DEF Shape
<1> QED  BY <1>10, <1>12, <1>15, <1>16, <1>17, InvFromParts

\* Handing over the evicted hashes touches nothing the invariant counts.
LEMMA TakeFreedInv ==
    ASSUME ECInv, TakeFreed
    PROVE  ECInv'
<1>1. Shape' /\ OnlyCachedHeld'
  BY DEF ECInv, Shape, OnlyCachedHeld, TakeFreed
<1>2. FreeableIsUnreferenced' /\ FreeSlotsExact' /\ FreeableSlotsExact'
  BY DEF ECInv, FreeableIsUnreferenced, FreeSlotsExact, FreeableSlotsExact, Unreferenced,
         TakeFreed
<1> QED  BY <1>1, <1>2 DEF ECInv

\* So does a step that leaves the manager alone.
LEMMA StutterInv ==
    ASSUME ECInv, UNCHANGED ecVars
    PROVE  ECInv'
<1>1. Shape' /\ OnlyCachedHeld'
  BY DEF ECInv, Shape, OnlyCachedHeld, ecVars
<1>2. FreeableIsUnreferenced' /\ FreeSlotsExact' /\ FreeableSlotsExact'
  BY DEF ECInv, FreeableIsUnreferenced, FreeSlotsExact, FreeableSlotsExact, Unreferenced,
         ecVars
<1> QED  BY <1>1, <1>2 DEF ECInv

\* A reset is the initial state again.
LEMMA ResetInv ==
    ASSUME Reset
    PROVE  ECInv'
<1>1. cached' = {} /\ freeable' = <<>> /\ numFree' = CacheSize /\ numFreeable' = CacheSize
  BY DEF Reset
<1>2. Held' = {} /\ Unreferenced' = {}
  BY <1>1 DEF Held, Unreferenced
<1>3. Shape' /\ OnlyCachedHeld'
  BY EncoderCacheAssumption DEF Reset, Shape, OnlyCachedHeld
<1>4. Elems(freeable') = Unreferenced' /\ NoDup(freeable')
  BY <1>1, <1>2 DEF Elems, NoDup
<1>5. numFree' = CacheSize - SlotsOf(cached') /\ numFreeable' = CacheSize - SlotsOf(Held')
  BY <1>1, <1>2, SlotsEmpty, EncoderCacheAssumption
<1> QED  BY <1>3, <1>4, <1>5, InvFromParts

\* One step of any client that respects the grants keeps the books exact.
LEMMA NextInv == ECInv /\ [ECNext]_ecVars => ECInv'
<1> SUFFICES ASSUME ECInv, [ECNext]_ecVars PROVE ECInv'
  OBVIOUS
<1>1. CASE \E r \in Reqs, h \in Hashes : CheckAndUpdateHit(r, h)
  BY <1>1, HitInv
<1>2. CASE \E need \in 0 .. CacheSize : Reserve(need)
  <2>1. PICK need \in 0 .. CacheSize : Reserve(need)
    BY <1>2
  <2>2. CASE UNCHANGED ecVars
    BY <2>2, StutterInv
  <2>3. CASE \E k \in 1 .. Len(freeable) : Evict(k)
    BY <2>3, EvictInv
  <2> QED  BY <2>1, <2>2, <2>3 DEF Reserve
<1>3. CASE \E r \in Reqs, S \in SUBSET Hashes : Granted(S) /\ Allocate(r, S)
  BY <1>3, AllocateInv
<1>4. CASE \E r \in Reqs, S \in SUBSET cached :
               \E order \in SetToSeqs(LastHeld(r, S)) : FreeInputs(r, S, order)
  BY <1>4, FreeInv
<1>5. CASE TakeFreed
  BY <1>5, TakeFreedInv
<1>6. CASE Reset
  BY <1>6, ResetInv
<1>7. CASE UNCHANGED ecVars
  BY <1>7, StutterInv
<1> QED  BY <1>1, <1>2, <1>3, <1>4, <1>5, <1>6, <1>7 DEF ECNext

\* The inductive invariant holds in every state of the manager.
LEMMA AlwaysInv == ECSpec => []ECInv
BY InitInv, NextInv, PTL DEF ECSpec

\* The manager's state is well formed in every reachable state: in particular
\* neither slot counter of EncoderCacheManager goes negative or above cache_size.
THEOREM CacheTypeOK == ECSpec => []ECTypeOK
<1>1. ECInv => ECTypeOK
  BY InvImpliesType
<1> QED  BY <1>1, AlwaysInv, PTL

\* num_free_slots is always cache_size minus the embeddings of the cached entries,
\* num_freeable_slots cache_size minus those some request still holds, and freeable
\* lists the entries nobody holds, once each: can_allocate never promises room that
\* is in use and never evicts an entry in use.
THEOREM CacheBooks == ECSpec => []CacheBooksExact
<1>1. ECInv => CacheBooksExact
  BY DEF ECInv, CacheBooksExact
<1> QED  BY <1>1, AlwaysInv, PTL

\* Every entry that leaves the cache is in freed, unless everything is reset:
\* get_freed_mm_hashes misses no eviction.
THEOREM EvictionsReported == ECSpec => DroppedAreReported
<1> DEFINE Reported == \A h \in cached \ cached' : h \in freed' \/ Reset
<1>1. ASSUME [ECNext]_ecVars PROVE [Reported]_ecVars
  <2>1. CASE UNCHANGED ecVars
    BY <2>1
  <2>2. CASE \E r \in Reqs, h \in Hashes : CheckAndUpdateHit(r, h)
    BY <2>2 DEF CheckAndUpdateHit
  <2>3. CASE \E need \in 0 .. CacheSize : Reserve(need)
    BY <2>3 DEF Reserve, Evict, ecVars
  <2>4. CASE \E r \in Reqs, S \in SUBSET Hashes : Granted(S) /\ Allocate(r, S)
    BY <2>4 DEF Allocate
  <2>5. CASE \E r \in Reqs, S \in SUBSET cached :
                 \E order \in SetToSeqs(LastHeld(r, S)) : FreeInputs(r, S, order)
    BY <2>5 DEF FreeInputs
  <2>6. CASE TakeFreed
    BY <2>6 DEF TakeFreed
  <2>7. CASE Reset
    BY <2>7
  <2> QED  BY <1>1, <2>1, <2>2, <2>3, <2>4, <2>5, <2>6, <2>7 DEF ECNext
<1> QED  BY <1>1, PTL DEF ECSpec, DroppedAreReported
=============================================================================
