------------------------- MODULE ConvChunkSyncProofs -------------------------
(***************************************************************************)
(* The chunked convolution for every finite set of ranks, every chunk size *)
(* and number of layers, and every batch: the collectives stay aligned,    *)
(* and every rank gets its own rows back.                                  *)
(***************************************************************************)
EXTENDS ConvChunkSync, FiniteSetTheorems, WellFoundedInduction, TLAPS

-----------------------------------------------------------------------------
(* Least and greatest elements of finite sets of numbers.                  *)

\* A finite non-empty set of numbers has a greatest element: a smallest
\* non-empty subset without one would lose it with one element less.
LEMMA FiniteGreatest ==
    ASSUME NEW S \in SUBSET Nat, IsFiniteSet(S), S # {}
    PROVE  \E x \in S : \A y \in S : x >= y
<1> DEFINE Good(U) == \E x \in U : \A y \in U : x >= y
           Bad == {U \in FiniteSubsetsOf(S) : U # {} /\ ~Good(U)}
<1>1. SUFFICES ASSUME ~Good(S) PROVE FALSE
  OBVIOUS
<1>2. S \in Bad
  BY <1>1 DEF FiniteSubsetsOf
<1>3. PICK U \in Bad : \A V \in Bad : <<V, U>> \notin StrictSubsetOrdering(S)
  <2>1. Bad \subseteq FiniteSubsetsOf(S) /\ Bad # {}
    BY <1>2
  <2> HIDE DEF Bad
  <2> QED
    BY <2>1, FS_StrictSubsetOrderingWellFounded, WFMin, Zenon
<1>4. U \in SUBSET S /\ IsFiniteSet(U) /\ U # {} /\ ~Good(U)
  BY <1>3 DEF FiniteSubsetsOf
<1>5. PICK z : z \in U
  BY <1>4
<1> DEFINE V == U \ {z}
<1>6. V \in FiniteSubsetsOf(S)
  BY <1>4, FS_RemoveElement DEF FiniteSubsetsOf
<1>7. <<V, U>> \in StrictSubsetOrdering(S)
  BY <1>4, <1>5 DEF StrictSubsetOrdering
<1>8. V \notin Bad
  BY <1>3, <1>7
<1>9. V = {} \/ Good(V)
  BY <1>6, <1>8
<1>10. CASE V = {}
  <2>1. U = {z} /\ z \in Nat
    BY <1>4, <1>5, <1>10
  <2> QED
    BY <2>1, <1>4
<1>11. CASE Good(V)
  <2>1. PICK m \in V : \A y \in V : m >= y
    BY <1>11
  <2>2. z \in Nat /\ m \in Nat /\ \A y \in U : y \in Nat /\ (y = z \/ y \in V)
    BY <1>4, <1>5, <2>1
  <2>3. CASE m >= z
    <3>1. \A y \in U : m >= y
      BY <2>1, <2>2, <2>3
    <3> QED
      BY <3>1, <2>1, <1>4
  <2>4. CASE ~(m >= z)
    <3>1. \A y \in U : z >= y
      BY <2>1, <2>2, <2>4
    <3> QED
      BY <3>1, <1>5, <1>4
  <2> QED
    BY <2>3, <2>4
<1> QED
  BY <1>9, <1>10, <1>11

LEMMA FiniteLeast ==
    ASSUME NEW S \in SUBSET Nat, IsFiniteSet(S), S # {}
    PROVE  \E x \in S : \A y \in S : x =< y
<1>1. PICK b \in Nat : \A y \in S : y <= b
  BY FiniteGreatest
<1> DEFINE F == [y \in S |-> b - y]
           T == {b - y : y \in S}
<1>2. T \in SUBSET Nat /\ T # {}
  <2>1. \A y \in S : b - y \in Nat
    BY <1>1
  <2> QED
    BY <2>1
<1>3. F \in Surjection(S, T)
  BY DEF Surjection
<1>4. IsFiniteSet(T)
  BY <1>3, FS_Surjection, Zenon
<1>5. PICK x \in T : \A y \in T : x >= y
  BY <1>2, <1>4, FiniteGreatest
<1>6. PICK m \in S : x = b - m
  BY <1>5
<1>7. \A y \in S : b - m >= b - y
  BY <1>5, <1>6
<1> QED
  BY <1>1, <1>6, <1>7

\* The extremes of a number per rank, as the reductions compute them.
LEMMA Extremes ==
    ASSUME NEW f \in [Ranks -> Nat]
    PROVE  /\ Max({f[r] : r \in Ranks}) \in Nat
           /\ Min({f[r] : r \in Ranks}) \in Nat
           /\ \A r \in Ranks : /\ Min({f[s] : s \in Ranks}) <= f[r]
                                /\ f[r] <= Max({f[s] : s \in Ranks})
<1> DEFINE S == {f[r] : r \in Ranks}
<1>1. S \in SUBSET Nat /\ S # {}
  BY ConvAssumption
<1>2. f \in Surjection(Ranks, S)
  BY DEF Surjection
<1>3. IsFiniteSet(S)
  BY <1>2, ConvAssumption, FS_Surjection, Zenon
<1>4. \A r \in Ranks : f[r] \in S
  OBVIOUS
<1> HIDE DEF S
<1>5. Max(S) \in S /\ \A y \in S : Max(S) >= y
  BY <1>1, <1>3, FiniteGreatest DEF Max
<1>6. Min(S) \in S /\ \A y \in S : Min(S) =< y
  BY <1>1, <1>3, FiniteLeast DEF Min
<1>7. /\ Max(S) \in Nat /\ Min(S) \in Nat
      /\ \A r \in Ranks : Min(S) <= f[r] /\ f[r] <= Max(S)
  BY <1>1, <1>4, <1>5, <1>6
<1> QED
  BY <1>7 DEF S

\* What torch.split does: piece c exists when row c * ConvChunk + 1 does.
LEMMA Pieces ==
    ASSUME NEW n \in Nat, NEW c \in Nat
    PROVE  /\ ChunkNum(n) \in Nat
           /\ c * ConvChunk \in Nat
           /\ (c + 1) * ConvChunk = c * ConvChunk + ConvChunk
           /\ c < ChunkNum(n) <=> c * ConvChunk < n
<1> DEFINE d == ConvChunk
           q == ChunkNum(n)
<1>1. d \in Nat \ {0}
  BY ConvAssumption
<1>2. /\ q \in Nat
      /\ q * d <= n + d - 1
      /\ n + d - 1 < q * d + d
  BY <1>1, SMT DEF ChunkNum
<1> HIDE DEF q
<1>3. c * d \in Nat /\ q * d \in Nat /\ (c + 1) * d = c * d + d
  BY <1>1, <1>2, SMT
<1>4. c + 1 <= q => (c + 1) * d <= q * d
  BY <1>1, <1>2, SMT
<1>5. q <= c => q * d <= c * d
  BY <1>1, <1>2, SMT
<1> DEFINE u == c * d
           v == q * d
<1> HIDE DEF u, v, d
<1>6. /\ u \in Nat /\ v \in Nat /\ d \in Nat \ {0} /\ q \in Nat
      /\ v <= n + d - 1 /\ n + d - 1 < v + d
      /\ c + 1 <= q => u + d <= v
      /\ q <= c => v <= u
  BY <1>1, <1>2, <1>3, <1>4, <1>5 DEF u, v
<1>7. c < q <=> u < n
  BY <1>6
<1> QED
  BY <1>3, <1>6, <1>7 DEF u, q, d

\* The numbers of chunks, and what it means that the reductions agree.
LEMMA ChunkCounts ==
    ASSUME rows \in [Ranks -> Nat]
    PROVE  /\ GlobalMinChunk \in Nat /\ GlobalMaxChunk \in Nat
           /\ GlobalMinChunk = GlobalMaxChunk =>
                 \A r, s \in Ranks : ChunkNum(rows[r]) = ChunkNum(rows[s])
<1> DEFINE f == [r \in Ranks |-> ChunkNum(rows[r])]
<1>1. f \in [Ranks -> Nat]
  BY Pieces, 0 \in Nat
<1>2. {f[r] : r \in Ranks} = {ChunkNum(rows[r]) : r \in Ranks}
  OBVIOUS
<1>3. \A r \in Ranks : f[r] = ChunkNum(rows[r]) /\ f[r] \in Nat
  BY <1>1
<1> HIDE DEF f
<1>4. /\ GlobalMinChunk = Min({f[r] : r \in Ranks})
      /\ GlobalMaxChunk = Max({f[r] : r \in Ranks})
  BY <1>2 DEF GlobalMinChunk, GlobalMaxChunk
<1>5. /\ GlobalMinChunk \in Nat /\ GlobalMaxChunk \in Nat
      /\ \A r \in Ranks : GlobalMinChunk <= f[r] /\ f[r] <= GlobalMaxChunk
  BY <1>1, <1>4, Extremes
<1> QED
  BY <1>3, <1>5

\* Padding goes to one length for all, at least a rank's own.
LEMMA Padding ==
    ASSUME rows \in [Ranks -> Nat]
    PROVE  /\ \A r \in Ranks : PaddedLen(r) \in Nat /\ rows[r] <= PaddedLen(r)
           /\ \A r, s \in Ranks : PaddedLen(r) = PaddedLen(s)
BY Extremes DEF PaddedLen

-----------------------------------------------------------------------------
(* The inductive invariant.                                                *)

\* Ranks that have started are at the same point.
Lockstep ==
    /\ \A r \in joined : pc[r] # "start"
    /\ \A r, s \in Ranks :
           /\ chunk[r] = chunk[s] /\ layer[r] = layer[s]
           /\ pc[r] # "start" /\ pc[s] # "start" => pc[r] = pc[s]
           /\ pc[r] = "start" => pc[s] \in {"start", FirstOp(rows[s])}

\* Why they will stay there: they take the same branches.
SameBranches ==
    /\ rows \in Batches
    /\ \A r, s \in Ranks :
           /\ pc[r] = "conv" => ChunkNum(total[r]) = ChunkNum(total[s])
           /\ pc[r] = "max" => minChunk[r] = GlobalMinChunk

\* What a rank has sent through the convolutions so far.
RowsSoFar ==
    \A r \in Ranks :
        /\ rows[r] <= total[r]
        /\ pc[r] \in {"min", "max", "len", "conv"} => rows[r] > 0
        /\ pc[r] \in {"start", "min", "max", "len"} =>
              chunk[r] = 0 /\ embeds[r] = << >> /\ total[r] = rows[r]
        /\ pc[r] = "conv" =>
              /\ chunk[r] < ChunkNum(total[r])
              /\ embeds[r] = [i \in 1 .. chunk[r] * ConvChunk |-> FeatureRow(r, i)]

IInv == ConvTypeOK /\ Lockstep /\ SameBranches /\ RowsSoFar /\ OwnRowsBack

-----------------------------------------------------------------------------
(* Facts about single states.                                              *)

\* Everybody has audio or nobody has: all ranks begin with the same operation.
LEMMA SameFirstOp ==
    ASSUME rows \in Batches
    PROVE  /\ \A r, s \in Ranks : FirstOp(rows[r]) = FirstOp(rows[s])
           /\ \A r \in Ranks : /\ rows[r] \in Nat
                                /\ FirstOp(rows[r]) \in {"lm", "min", "conv"}
                                /\ FirstOp(rows[r]) # "lm" => rows[r] > 0
BY ConvAssumption DEF FirstOp

\* Without a reduction there is one rank only.
LEMMA OneRank ==
    ASSUME rows \in Batches, NEW r \in Ranks, FirstOp(rows[r]) = "conv"
    PROVE  \A s \in Ranks : s = r
<1>1. Cardinality(Ranks) \in Nat /\ Cardinality(Ranks) # 0
  BY ConvAssumption, FS_CardinalityType, FS_EmptySet
<1>2. ~(Cardinality(Ranks) > 1)
  BY DEF FirstOp
<1>3. Cardinality(Ranks) = 1
  BY <1>1, <1>2
<1> QED
  BY <1>3, ConvAssumption, FS_Singleton

\* A collective other than a convolution completes with all ranks at it.
LEMMA MetAll ==
    ASSUME NEW x \in Pcs \ {"conv"}, Met(<<x, 0, 0>>)
    PROVE  joined' = {} /\ joined = Ranks /\ \A r \in Ranks : pc[r] = x
BY DEF Met, Op, Pcs

\* And a convolution with all ranks in the same chunk and layer.
LEMMA MetConv ==
    ASSUME NEW c, NEW k, Met(<<"conv", c, k>>)
    PROVE  /\ joined' = {} /\ joined = Ranks
           /\ \A r \in Ranks : pc[r] = "conv" /\ chunk[r] = c /\ layer[r] = k
BY DEF Met, Op

-----------------------------------------------------------------------------
(* Initial states and steps.                                               *)

LEMMA FreshBatch ==
    ASSUME rows \in Batches, total = rows, joined = {},
           pc = [r \in Ranks |-> "start"],
           minChunk = [r \in Ranks |-> 0], chunk = [r \in Ranks |-> 0],
           layer = [r \in Ranks |-> 1], embeds = [r \in Ranks |-> << >>]
    PROVE  IInv
<1>1. rows \in [Ranks -> Nat] /\ 1 \in 1 .. Layers
  BY ConvAssumption
<1>2. ConvTypeOK
  BY <1>1 DEF ConvTypeOK, Pcs
<1>3. Lockstep /\ SameBranches /\ OwnRowsBack
  BY DEF Lockstep, SameBranches, OwnRowsBack
<1>4. RowsSoFar
  BY <1>1 DEF RowsSoFar
<1> QED
  BY <1>2, <1>3, <1>4 DEF IInv

LEMMA InitInv == ConvInit => IInv
BY FreshBatch DEF ConvInit

LEMMA ForwardInv ==
    ASSUME IInv, NEW r \in Ranks, Forward(r)
    PROVE  IInv'
<1> DEFINE FO == FirstOp(rows[r])
<1>1. /\ pc \in [Ranks -> Pcs] /\ rows \in Batches /\ pc[r] = "start"
      /\ pc' = [pc EXCEPT ![r] = FO]
      /\ UNCHANGED <<joined, rows, minChunk, total, chunk, layer, embeds>>
  BY DEF IInv, ConvTypeOK, SameBranches, Forward
<1>2. /\ FO \in {"lm", "min", "conv"} /\ (FO # "lm" => rows[r] > 0)
      /\ \A s \in Ranks : FirstOp(rows[s]) = FO
  <2>1. rows \in Batches
    BY <1>1
  <2>2. \A s \in Ranks : FirstOp(rows[s]) = FirstOp(rows[r])
    BY <2>1, SameFirstOp, Zenon
  <2>3. FirstOp(rows[r]) \in {"lm", "min", "conv"} /\ (FirstOp(rows[r]) # "lm" => rows[r] > 0)
    BY <2>1, ConvAssumption DEF FirstOp
  <2> QED
    BY <2>2, <2>3, Zenon
<1> HIDE DEF FO
<1>3. ConvTypeOK'
  BY <1>1, <1>2 DEF IInv, ConvTypeOK, Pcs
<1>4. Lockstep'
  <2>1. \A s \in Ranks : FirstOp(rows[s])' = FO
    BY <1>1, <1>2 DEF FirstOp
  <2>2. \A s \in Ranks : s # r => pc'[s] = pc[s]
    BY <1>1
  <2>3. pc'[r] = FO /\ FO # "start"
    BY <1>1, <1>2
  <2>4. \A s \in Ranks : pc[s] \in {"start", FO}
    BY <1>1, <1>2 DEF IInv, Lockstep
  <2>5. r \notin joined
    BY <1>1 DEF IInv, Lockstep
  <2>6. \A s \in joined' : pc'[s] # "start"
    BY <1>1, <2>2, <2>5 DEF IInv, Lockstep, ConvTypeOK
  <2> QED
    BY <1>1, <2>1, <2>2, <2>3, <2>4, <2>6 DEF IInv, Lockstep
<1>5. SameBranches'
  <2>1. GlobalMinChunk' = GlobalMinChunk /\ \A s \in Ranks : ChunkNum(total[s])' = ChunkNum(total[s])
    BY <1>1 DEF GlobalMinChunk, ChunkNum
  <2>2. \A s \in Ranks : pc'[s] = "max" => pc[s] = "max"
    BY <1>1, <1>2
  <2>3. CASE FO # "conv"
    <3>1. \A s \in Ranks : pc'[s] = "conv" => pc[s] = "conv"
      BY <1>1, <2>3
    <3> QED
      BY <1>1, <2>1, <2>2, <3>1 DEF IInv, SameBranches
  <2>4. CASE FO = "conv"
    <3>1. \A s \in Ranks : s = r
      BY <1>1, <2>4, OneRank DEF FO
    <3>2. \A s, t \in Ranks : ChunkNum(total[s])' = ChunkNum(total[t])'
      BY <3>1
    <3> QED
      BY <1>1, <2>1, <2>2, <3>2 DEF IInv, SameBranches
  <2> QED
    BY <2>3, <2>4
<1>6. RowsSoFar'
  <2> SUFFICES ASSUME NEW s \in Ranks PROVE RowsSoFar!(s)'
    BY DEF RowsSoFar
  <2>1. RowsSoFar!(s) /\ RowsSoFar!(r)
    BY DEF IInv, RowsSoFar
  <2>2. CASE s # r
    <3>1. pc'[s] = pc[s]
      BY <1>1, <2>2
    <3> QED
      BY <1>1, <2>1, <3>1 DEF ChunkNum, FeatureRow
  <2>3. CASE s = r
    <3>1. /\ pc'[r] = FO /\ chunk[r] = 0 /\ embeds[r] = << >> /\ total[r] = rows[r]
          /\ total[r] \in Nat
      BY <1>1, <2>1 DEF IInv, ConvTypeOK
    <3>2. /\ 0 * ConvChunk = 0
          /\ total[r] > 0 => 0 < ChunkNum(total[r])
      <4>1. 0 * ConvChunk = 0
        BY ConvAssumption
      <4>2. 0 < ChunkNum(total[r]) <=> 0 * ConvChunk < total[r]
        BY <3>1, Pieces, 0 \in Nat
      <4> QED
        BY <3>1, <4>1, <4>2
    <3>3. FO = "conv" => << >> = [i \in 1 .. 0 * ConvChunk |-> FeatureRow(r, i)']
      BY <3>2
    <3> QED
      BY <1>1, <1>2, <2>1, <2>3, <3>1, <3>2, <3>3 DEF ChunkNum
  <2> QED
    BY <2>2, <2>3
<1>7. OwnRowsBack'
  <2>1. \A s \in Ranks : pc'[s] = "conv_out" => pc[s] = "conv_out"
    BY <1>1, <1>2
  <2> QED
    BY <1>1, <2>1 DEF IInv, OwnRowsBack
<1> QED
  BY <1>3, <1>4, <1>5, <1>6, <1>7 DEF IInv

LEMMA ArriveInv ==
    ASSUME IInv, NEW r \in Ranks, Arrive(r)
    PROVE  IInv'
<1>1. /\ pc[r] # "start" /\ joined' = joined \cup {r}
      /\ UNCHANGED <<pc, rows, minChunk, total, chunk, layer, embeds>>
  BY DEF Arrive
<1>2. ConvTypeOK'
  BY <1>1 DEF IInv, ConvTypeOK
<1>3. Lockstep'
  BY <1>1 DEF IInv, Lockstep, FirstOp
<1>4. SameBranches'
  BY <1>1 DEF IInv, SameBranches, GlobalMinChunk, ChunkNum
<1>5. RowsSoFar' /\ OwnRowsBack'
  BY <1>1 DEF IInv, RowsSoFar, OwnRowsBack, ChunkNum, FeatureRow
<1> QED
  BY <1>2, <1>3, <1>4, <1>5 DEF IInv

LEMMA ReduceMinInv ==
    ASSUME IInv, ReduceMin
    PROVE  IInv'
<1>1. /\ joined' = {} /\ \A r \in Ranks : pc[r] = "min"
      /\ minChunk' = [r \in Ranks |-> GlobalMinChunk]
      /\ pc' = [r \in Ranks |-> "max"]
      /\ UNCHANGED <<rows, total, chunk, layer, embeds>>
  BY MetAll DEF ReduceMin, Pcs
<1>2. ConvTypeOK'
  BY <1>1, ChunkCounts DEF IInv, ConvTypeOK, Pcs
<1>3. Lockstep'
  BY <1>1 DEF IInv, Lockstep
<1>4. SameBranches'
  <2>1. GlobalMinChunk' = GlobalMinChunk
    BY <1>1 DEF GlobalMinChunk, ChunkNum
  <2> QED
    BY <1>1, <2>1 DEF IInv, SameBranches
<1>5. RowsSoFar' /\ OwnRowsBack'
  BY <1>1 DEF IInv, RowsSoFar, OwnRowsBack
<1> QED
  BY <1>2, <1>3, <1>4, <1>5 DEF IInv

\* The ranks before the first convolution.
LEMMA EnterConv ==
    ASSUME IInv, joined' = {}, rows' = rows, chunk' = chunk, layer' = layer,
           embeds' = embeds, minChunk' = minChunk,
           \A r \in Ranks : pc[r] \in {"max", "len"},
           pc' = [r \in Ranks |-> "conv"],
           total' \in [Ranks -> Nat],
           \A r \in Ranks : rows[r] <= total'[r],
           \A r, s \in Ranks : ChunkNum(total'[r]) = ChunkNum(total'[s])
    PROVE  IInv'
<1>1. \A r \in Ranks : /\ rows[r] \in Nat /\ rows[r] > 0 /\ total'[r] \in Nat
                       /\ chunk[r] = 0 /\ embeds[r] = << >>
  BY DEF IInv, ConvTypeOK, RowsSoFar
<1>2. ConvTypeOK'
  BY DEF IInv, ConvTypeOK, Pcs
<1>3. Lockstep' /\ OwnRowsBack'
  BY DEF IInv, Lockstep, OwnRowsBack
<1>4. SameBranches'
  BY DEF IInv, SameBranches, ChunkNum
<1>5. RowsSoFar'
  <2>1. 0 * ConvChunk = 0
    BY ConvAssumption
  <2>2. \A r \in Ranks : 0 < ChunkNum(total'[r])
    <3> TAKE r \in Ranks
    <3>1. 0 < ChunkNum(total'[r]) <=> 0 * ConvChunk < total'[r]
      BY <1>1, Pieces, 0 \in Nat
    <3> QED
      BY <1>1, <2>1, <3>1
  <2>3. \A r \in Ranks : << >> = [i \in 1 .. 0 * ConvChunk |-> FeatureRow(r, i)']
    BY <2>1
  <2> QED
    BY <1>1, <2>2, <2>3 DEF RowsSoFar, ChunkNum
<1> QED
  BY <1>2, <1>3, <1>4, <1>5 DEF IInv

LEMMA ReduceMaxInv ==
    ASSUME IInv, ReduceMax
    PROVE  IInv'
<1>1. /\ joined' = {} /\ \A r \in Ranks : pc[r] = "max"
      /\ pc' = [r \in Ranks |-> IF minChunk[r] = GlobalMaxChunk THEN "conv" ELSE "len"]
      /\ UNCHANGED <<rows, minChunk, total, chunk, layer, embeds>>
  BY MetAll DEF ReduceMax, Pcs
<1>2. \A r \in Ranks : minChunk[r] = GlobalMinChunk /\ total[r] = rows[r]
  BY <1>1 DEF IInv, SameBranches, RowsSoFar
<1>3. CASE GlobalMinChunk = GlobalMaxChunk
  <2>1. pc' = [r \in Ranks |-> "conv"]
    BY <1>1, <1>2, <1>3
  <2>2. \A r, s \in Ranks : ChunkNum(total'[r]) = ChunkNum(total'[s])
    BY <1>1, <1>2, <1>3, ChunkCounts DEF IInv, ConvTypeOK
  <2>3. total' \in [Ranks -> Nat] /\ \A r \in Ranks : rows[r] <= total'[r]
    BY <1>1, <1>2 DEF IInv, ConvTypeOK
  <2> QED
    BY <1>1, <2>1, <2>2, <2>3, EnterConv
<1>4. CASE GlobalMinChunk # GlobalMaxChunk
  <2>1. pc' = [r \in Ranks |-> "len"]
    BY <1>1, <1>2, <1>4
  <2>2. ConvTypeOK'
    BY <1>1, <2>1 DEF IInv, ConvTypeOK, Pcs
  <2>3. Lockstep' /\ SameBranches'
    BY <1>1, <2>1 DEF IInv, Lockstep, SameBranches
  <2>4. RowsSoFar' /\ OwnRowsBack'
    BY <1>1, <2>1 DEF IInv, RowsSoFar, OwnRowsBack
  <2> QED
    BY <2>2, <2>3, <2>4 DEF IInv
<1> QED
  BY <1>3, <1>4

LEMMA ReduceLenInv ==
    ASSUME IInv, ReduceLen
    PROVE  IInv'
<1>1. /\ joined' = {} /\ \A r \in Ranks : pc[r] = "len"
      /\ total' = [r \in Ranks |-> PaddedLen(r)]
      /\ pc' = [r \in Ranks |-> "conv"]
      /\ UNCHANGED <<rows, minChunk, chunk, layer, embeds>>
  BY MetAll DEF ReduceLen, Pcs
<1>2. /\ \A r \in Ranks : PaddedLen(r) \in Nat /\ rows[r] <= PaddedLen(r)
      /\ \A r, s \in Ranks : PaddedLen(r) = PaddedLen(s)
  BY Padding DEF IInv, ConvTypeOK
<1>3. /\ total' \in [Ranks -> Nat]
      /\ \A r \in Ranks : rows[r] <= total'[r]
      /\ \A r, s \in Ranks : ChunkNum(total'[r]) = ChunkNum(total'[s])
  BY <1>1, <1>2
<1> QED
  BY <1>1, <1>3, EnterConv

LEMMA ConvLayerInv ==
    ASSUME IInv, NEW c \in Nat, NEW k \in 1 .. Layers, ConvLayer(c, k)
    PROVE  IInv'
<1>1. /\ joined' = {} /\ k < Layers
      /\ layer' = [r \in Ranks |-> k + 1]
      /\ UNCHANGED <<pc, rows, minChunk, total, chunk, embeds>>
  BY MetConv DEF ConvLayer
<1>2. k + 1 \in 1 .. Layers
  BY <1>1, ConvAssumption
<1>3. ConvTypeOK'
  BY <1>1, <1>2 DEF IInv, ConvTypeOK
<1>4. Lockstep'
  BY <1>1 DEF IInv, Lockstep, FirstOp
<1>5. SameBranches'
  BY <1>1 DEF IInv, SameBranches, GlobalMinChunk, ChunkNum
<1>6. RowsSoFar' /\ OwnRowsBack'
  BY <1>1 DEF IInv, RowsSoFar, OwnRowsBack, ChunkNum, FeatureRow
<1> QED
  BY <1>3, <1>4, <1>5, <1>6 DEF IInv

LEMMA ConvOutInv ==
    ASSUME IInv, ConvOut
    PROVE  IInv'
<1>1. /\ joined' = {} /\ pc' = [r \in Ranks |-> "lm"]
      /\ UNCHANGED <<rows, minChunk, total, chunk, layer, embeds>>
  BY MetAll DEF ConvOut, Pcs
<1>2. ConvTypeOK'
  BY <1>1 DEF IInv, ConvTypeOK, Pcs
<1>3. Lockstep' /\ SameBranches' /\ RowsSoFar' /\ OwnRowsBack'
  BY <1>1 DEF IInv, Lockstep, SameBranches, RowsSoFar, OwnRowsBack
<1> QED
  BY <1>2, <1>3 DEF IInv

LEMMA LanguageModelInv ==
    ASSUME IInv, LanguageModel
    PROVE  IInv'
<1>1. joined' = {}
  BY MetAll DEF LanguageModel, Pcs
<1>2. rows' \in [Ranks -> Nat] /\ 1 \in 1 .. Layers
  BY ConvAssumption DEF LanguageModel
<1>3. ConvTypeOK'
  BY <1>1, <1>2 DEF LanguageModel, ConvTypeOK, Pcs
<1>4. Lockstep' /\ SameBranches' /\ OwnRowsBack'
  BY <1>1 DEF LanguageModel, Lockstep, SameBranches, OwnRowsBack
<1>5. RowsSoFar'
  BY <1>2 DEF LanguageModel, RowsSoFar
<1> QED
  BY <1>3, <1>4, <1>5 DEF IInv

-----------------------------------------------------------------------------
(* A chunk is done.                                                        *)

\* Two pieces of a sequence, one after the other.
LEMMA Glue ==
    ASSUME NEW b \in Nat, NEW a \in 0 .. b, NEW f \in [1 .. b -> Nat]
    PROVE  [i \in 1 .. a |-> f[i]] \o [i \in 1 .. b - a |-> f[a + i]] = f
<1> DEFINE x == [i \in 1 .. a |-> f[i]]
           y == [i \in 1 .. b - a |-> f[a + i]]
<1>1. a \in Nat /\ b - a \in Nat
  OBVIOUS
<1>2. x \in Seq(Nat) /\ Len(x) = a
  BY <1>1
<1>3. y \in Seq(Nat) /\ Len(y) = b - a
  BY <1>1
<1>4. x \o y = [i \in 1 .. Len(x) + Len(y) |-> IF i <= Len(x) THEN x[i] ELSE y[i - Len(x)]]
  BY <1>2, <1>3
<1>5. \A i \in 1 .. b : (IF i <= a THEN x[i] ELSE y[i - a]) = f[i]
  BY <1>1
<1> HIDE DEF x, y
<1>6. x \o y = [i \in 1 .. b |-> f[i]]
  BY <1>1, <1>2, <1>3, <1>4, <1>5
<1> QED
  BY <1>6 DEF x, y

\* The beginning of a sequence.
LEMMA Cut ==
    ASSUME NEW n \in Nat, NEW m \in 0 .. n, NEW f \in [1 .. n -> Nat]
    PROVE  SubSeq(f, 1, m) = [i \in 1 .. m |-> f[i]]
<1>1. f \in Seq(Nat) /\ Len(f) = n
  OBVIOUS
<1> QED
  BY <1>1

\* What a rank has after chunk c of its total rows.
LEMMA ChunkOut ==
    ASSUME IInv, NEW s \in Ranks, NEW c \in Nat, pc[s] = "conv", chunk[s] = c
    PROVE  LET out == embeds[s] \o ChunkRows(s, c) IN
           /\ (c + 1 < ChunkNum(total[s])) =>
                 out = [i \in 1 .. (c + 1) * ConvChunk |-> FeatureRow(s, i)]
           /\ ~(c + 1 < ChunkNum(total[s])) =>
                 Restore(s, out) = [i \in 1 .. rows[s] |-> i]
<1> DEFINE n == total[s]
           k == c * ConvChunk
           d == ConvChunk
           top == Min({(c + 1) * ConvChunk, n})
           f == [i \in 1 .. top |-> FeatureRow(s, i)]
           out == embeds[s] \o ChunkRows(s, c)
<1>1. /\ n \in Nat /\ rows[s] \in Nat /\ rows[s] <= n /\ c < ChunkNum(n)
      /\ embeds[s] = [i \in 1 .. k |-> FeatureRow(s, i)]
  BY DEF IInv, ConvTypeOK, RowsSoFar
<1>2. d \in Nat \ {0} /\ c + 1 \in Nat
  BY ConvAssumption
<1>3. /\ k \in Nat /\ (c + 1) * ConvChunk = k + d /\ k < n
  BY <1>1, Pieces
<1>4. c + 1 < ChunkNum(n) <=> k + d < n
  BY <1>1, <1>2, <1>3, Pieces
<1>5. /\ top \in Nat /\ top > k
      /\ k + d < n => top = k + d
      /\ ~(k + d < n) => top = n
  <2>1. top = Min({k + d, n})
    BY <1>3
  <2> HIDE DEF top, k, d, n
  <2>2. Min({k + d, n}) = IF k + d < n THEN k + d ELSE n
    BY <1>1, <1>2, <1>3 DEF Min
  <2> QED
    BY <2>1, <2>2, <1>1, <1>2, <1>3
<1>6. \A i \in Nat : FeatureRow(s, i) \in Nat
  BY DEF FeatureRow, PadRow
<1>7. f \in [1 .. top -> Nat]
  BY <1>5, <1>6
<1>8. ChunkRows(s, c) = [i \in 1 .. top - k |-> f[k + i]]
  <2>1. Piece(n, c) = k + 1 .. top
    BY DEF Piece
  <2> HIDE DEF top, k, n
  <2>2. Cardinality(k + 1 .. top) = top - k
    BY <1>3, <1>5, FS_Interval
  <2>3. \A i \in 1 .. top - k : k + i \in 1 .. top
    BY <1>3, <1>5
  <2>4. \A i \in 1 .. top - k : f[k + i] = FeatureRow(s, k + i)
    BY <2>3
  <2>5. ChunkRows(s, c) = [i \in 1 .. top - k |-> FeatureRow(s, k + i)]
    BY <2>1, <2>2 DEF ChunkRows, n, k
  <2> QED
    BY <2>4, <2>5
<1>9. embeds[s] = [i \in 1 .. k |-> f[i]]
  BY <1>1, <1>3, <1>5
<1>10. out = f
  <2>1. k \in 0 .. top
    BY <1>3, <1>5
  <2> HIDE DEF top, k, f
  <2> QED
    BY <1>5, <1>7, <1>8, <1>9, <2>1, Glue
<1>11. CASE k + d < n
  BY <1>3, <1>4, <1>5, <1>10, <1>11
<1>12. CASE ~(k + d < n)
  <2>1. top = n
    BY <1>5, <1>12
  <2>2. Restore(s, out) = SubSeq(f, 1, rows[s])
    BY <1>10 DEF Restore
  <2>3. SubSeq(f, 1, rows[s]) = [i \in 1 .. rows[s] |-> f[i]]
    <3>1. rows[s] \in 0 .. top
      BY <1>1, <2>1
    <3> HIDE DEF f, top
    <3> QED
      BY <1>5, <1>7, <3>1, Cut
  <2>4. \A i \in 1 .. rows[s] : f[i] = i
    BY <1>1, <2>1 DEF FeatureRow
  <2>5. Restore(s, out) = [i \in 1 .. rows[s] |-> i]
    BY <2>2, <2>3, <2>4
  <2> QED
    BY <1>4, <1>12, <2>5
<1> QED
  BY <1>11, <1>12

LEMMA ConvChunkDoneInv ==
    ASSUME IInv, NEW c \in Nat, ConvChunkDone(c)
    PROVE  IInv'
<1> DEFINE more(s) == c + 1 < ChunkNum(total[s])
           out(s) == embeds[s] \o ChunkRows(s, c)
<1>1. /\ joined' = {} /\ \A s \in Ranks : pc[s] = "conv" /\ chunk[s] = c
      /\ embeds' = [s \in Ranks |-> IF more(s) THEN out(s) ELSE Restore(s, out(s))]
      /\ pc' = [s \in Ranks |-> IF more(s) THEN "conv" ELSE "conv_out"]
      /\ chunk' = [s \in Ranks |-> c + 1] /\ layer' = [s \in Ranks |-> 1]
      /\ UNCHANGED <<rows, minChunk, total>>
  BY MetConv DEF ConvChunkDone
<1>2. \A s \in Ranks :
         /\ more(s) => embeds'[s] = [i \in 1 .. (c + 1) * ConvChunk |-> FeatureRow(s, i)]
         /\ ~more(s) => embeds'[s] = [i \in 1 .. rows[s] |-> i]
  <2> TAKE s \in Ranks
  <2>1. /\ more(s) => out(s) = [i \in 1 .. (c + 1) * ConvChunk |-> FeatureRow(s, i)]
        /\ ~more(s) => Restore(s, out(s)) = [i \in 1 .. rows[s] |-> i]
    BY <1>1, ChunkOut
  <2>2. embeds'[s] = IF more(s) THEN out(s) ELSE Restore(s, out(s))
    BY <1>1
  <2> HIDE DEF out, more
  <2> QED
    BY <2>1, <2>2
<1>3. \A s, t \in Ranks : more(s) <=> more(t)
  BY <1>1 DEF IInv, SameBranches
<1>4. \A s \in Ranks : pc'[s] = IF more(s) THEN "conv" ELSE "conv_out"
  BY <1>1
<1>5. rows \in [Ranks -> Nat] /\ total \in [Ranks -> Nat] /\ c + 1 \in Nat /\ 1 \in 1 .. Layers
  BY ConvAssumption DEF IInv, ConvTypeOK
<1>6. ConvTypeOK'
  <2>1. \A s \in Ranks : embeds'[s] \in Seq(Nat)
    <3> TAKE s \in Ranks
    <3>1. (c + 1) * ConvChunk \in Nat /\ rows[s] \in Nat
      BY <1>5, Pieces
    <3>2. \A i \in Nat : FeatureRow(s, i) \in Nat
      BY DEF FeatureRow, PadRow
    <3>3. /\ [i \in 1 .. (c + 1) * ConvChunk |-> FeatureRow(s, i)] \in Seq(Nat)
          /\ [i \in 1 .. rows[s] |-> i] \in Seq(Nat)
      <4> DEFINE e == (c + 1) * ConvChunk
      <4> HIDE DEF e
      <4>1. e \in Nat
        BY <3>1 DEF e
      <4>2. [i \in 1 .. e |-> FeatureRow(s, i)] \in Seq(Nat)
        BY <3>2, <4>1
      <4> QED
        BY <3>1, <4>2 DEF e
    <3> QED
      BY <1>2, <3>3, Zenon
  <2>2. embeds' \in [Ranks -> Seq(Nat)]
    BY <1>1, <2>1
  <2>3. pc' \in [Ranks -> Pcs]
    BY <1>1 DEF Pcs
  <2> QED
    BY <1>1, <1>5, <2>2, <2>3 DEF IInv, ConvTypeOK
<1> HIDE DEF out
<1>7. Lockstep'
  BY <1>1, <1>3, <1>4 DEF Lockstep
<1>8. SameBranches'
  BY <1>1, <1>4 DEF IInv, SameBranches, ChunkNum
<1>9. RowsSoFar'
  <2> SUFFICES ASSUME NEW s \in Ranks PROVE RowsSoFar!(s)'
    BY DEF RowsSoFar
  <2>1. rows[s] <= total[s] /\ rows[s] > 0
    BY <1>1 DEF IInv, RowsSoFar
  <2>2. CASE more(s)
    <3>1. /\ pc'[s] = "conv" /\ chunk'[s] = c + 1
          /\ embeds'[s] = [i \in 1 .. (c + 1) * ConvChunk |-> FeatureRow(s, i)]
      BY <1>1, <1>2, <1>4, <2>2
    <3>2. chunk'[s] < ChunkNum(total[s])'
      BY <1>1, <2>2, <3>1 DEF ChunkNum
    <3>3. embeds'[s] = [i \in 1 .. chunk'[s] * ConvChunk |-> FeatureRow(s, i)']
      BY <1>1, <3>1 DEF FeatureRow
    <3> QED
      BY <1>1, <2>1, <3>1, <3>2, <3>3
  <2>3. CASE ~more(s)
    <3>1. pc'[s] = "conv_out"
      BY <1>4, <2>3
    <3> QED
      BY <1>1, <2>1, <3>1
  <2> QED
    BY <2>2, <2>3
<1>10. OwnRowsBack'
  BY <1>1, <1>2, <1>4 DEF OwnRowsBack
<1> QED
  BY <1>6, <1>7, <1>8, <1>9, <1>10 DEF IInv

-----------------------------------------------------------------------------
(* The theorems.                                                           *)

LEMMA NextInv == IInv /\ [ConvNext]_convVars => IInv'
<1> SUFFICES ASSUME IInv, [ConvNext]_convVars PROVE IInv'
  OBVIOUS
<1>1. \A r \in Ranks : chunk[r] \in Nat /\ layer[r] \in 1 .. Layers
  BY DEF IInv, ConvTypeOK
<1>2. CASE \E r \in Ranks : Forward(r) \/ Arrive(r)
  BY <1>2, ForwardInv, ArriveInv
<1>3. CASE ReduceMin
  BY <1>3, ReduceMinInv
<1>4. CASE ReduceMax
  BY <1>4, ReduceMaxInv
<1>5. CASE ReduceLen
  BY <1>5, ReduceLenInv
<1>6. CASE \E r \in Ranks : ConvLayer(chunk[r], layer[r]) \/ ConvChunkDone(chunk[r])
  BY <1>1, <1>6, ConvLayerInv, ConvChunkDoneInv
<1>7. CASE ConvOut
  BY <1>7, ConvOutInv
<1>8. CASE LanguageModel
  BY <1>8, LanguageModelInv
<1>9. CASE UNCHANGED convVars
  <2>1. UNCHANGED <<pc, joined, rows, minChunk, total, chunk, layer, embeds>>
    BY <1>9 DEF convVars
  <2>2. ConvTypeOK' /\ Lockstep' /\ OwnRowsBack'
    BY <2>1 DEF IInv, ConvTypeOK, Lockstep, OwnRowsBack, FirstOp
  <2>3. SameBranches'
    BY <2>1 DEF IInv, SameBranches, GlobalMinChunk, ChunkNum
  <2>4. RowsSoFar'
    BY <2>1 DEF IInv, RowsSoFar, ChunkNum, FeatureRow
  <2> QED
    BY <2>2, <2>3, <2>4 DEF IInv
<1> QED
  BY <1>2, <1>3, <1>4, <1>5, <1>6, <1>7, <1>8, <1>9 DEF ConvNext

LEMMA AlwaysInv == ConvSpec => []IInv
BY InitInv, NextInv, PTL DEF ConvSpec

\* The variables of the chunked convolution keep their types.
THEOREM ConvTypes == ConvSpec => []ConvTypeOK
<1>1. IInv => ConvTypeOK
  BY DEF IInv
<1> QED
  BY <1>1, AlwaysInv, PTL

LEMMA InvAligned == IInv => CollectivesAligned
BY DEF IInv, ConvTypeOK, Lockstep, CollectivesAligned, Op

\* The three reductions of _chunked_conv_forward keep the collectives of all
\* ranks aligned, for any number of ranks and any batch: no rank waits in a
\* collective the others do not call.
THEOREM ConvAligned == ConvSpec => []CollectivesAligned
BY InvAligned, AlwaysInv, PTL

\* Padding and cutting back leave every rank with all of its own rows in their
\* order, whatever the lengths of the others.
THEOREM ConvOwnRows == ConvSpec => []OwnRowsBack
<1>1. IInv => OwnRowsBack
  BY DEF IInv
<1> QED
  BY <1>1, AlwaysInv, PTL
=============================================================================
