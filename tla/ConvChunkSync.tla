--------------------------- MODULE ConvChunkSync ---------------------------
(***************************************************************************)
(* TLiveOmniAudioEncoder._chunked_conv_forward on several training ranks.  *)
(* Under ZeRO-3 the weights of a layer are spread over the ranks, so every *)
(* call of a convolution is a collective: a rank that calls it once more   *)
(* than the others waits for ever. The method therefore agrees on a number *)
(* of chunks by three all_reduce calls, pads a short batch with zero rows, *)
(* and cuts the result back.                                               *)
(*                                                                         *)
(* A row of the feature tensor is its index; PadRow is a row of zeros. The *)
(* convolutions work row by row, so an output row is named like its input  *)
(* row. Ranks run the code between two collectives on their own; that code *)
(* touches nothing shared, so it is part of the collective's completion.   *)
(***************************************************************************)
EXTENDS Integers, FiniteSets, FiniteSetsExt, Sequences

CONSTANTS
    Ranks,       \* the ranks of the process group
    ConvChunk,   \* self.conv_chunksize
    Layers,      \* convolutions a chunk goes through (conv2d1 .. conv2d3)
    Batches      \* what the ranks' loaders may hand out together: the number of
                 \* feature rows of each rank, 0 for a batch without audio

ASSUME ConvAssumption ==
    /\ Ranks # {} /\ IsFiniteSet(Ranks)
    /\ ConvChunk \in Nat \ {0}
    /\ Layers \in Nat \ {0}
    /\ Batches \subseteq [Ranks -> Nat]
    /\ \A b \in Batches : (\E r \in Ranks : b[r] = 0) => (\A r \in Ranks : b[r] = 0)

VARIABLES
    pc,       \* the next collective of each rank ("start": before the audio tower)
    joined,   \* ranks waiting inside a collective
    rows,     \* original_len
    minChunk, \* global_min_chunk
    total,    \* rows each rank sends through the convolutions
    chunk,    \* index of the chunk being convolved
    layer,    \* convolution the chunk is in
    embeds    \* padded_embeds, concatenated

convVars == <<pc, joined, rows, minChunk, total, chunk, layer, embeds>>

PadRow == 0

-----------------------------------------------------------------------------
\* local_chunk_num; torch.split returns as many pieces.
ChunkNum(n) == (n + ConvChunk - 1) \div ConvChunk

\* The rows of piece c (from 0) of a tensor of n rows.
Piece(n, c) == c * ConvChunk + 1 .. Min({(c + 1) * ConvChunk, n})

\* Mutants: every rank left at its own length; the padding kept in the result.
OwnLength(r) == rows[r]
KeepPadding(r, out) == out

GlobalMinChunk == Min({ChunkNum(rows[r]) : r \in Ranks})
GlobalMaxChunk == Max({ChunkNum(rows[r]) : r \in Ranks})

\* F.pad along the batch dimension, up to global_max_len.
PaddedLen(r) == Max({rows[s] : s \in Ranks})

FeatureRow(r, i) == IF i <= rows[r] THEN i ELSE PadRow

\* final_embed[:original_len]
Restore(r, out) == SubSeq(out, 1, rows[r])

\* The collective rank r issues next.
Op(r) == IF pc[r] = "conv" THEN <<"conv", chunk[r], layer[r]>> ELSE <<pc[r], 0, 0>>

\* is_distributed: a single rank skips the three reductions.
FirstOp(n) ==
    IF n = 0 THEN "lm" ELSE IF Cardinality(Ranks) > 1 THEN "min" ELSE "conv"

ConvInit ==
    /\ rows \in Batches
    /\ pc = [r \in Ranks |-> "start"]
    /\ joined = {}
    /\ minChunk = [r \in Ranks |-> 0]
    /\ total = rows
    /\ chunk = [r \in Ranks |-> 0]
    /\ layer = [r \in Ranks |-> 1]
    /\ embeds = [r \in Ranks |-> <<>>]

\* forward: a batch without input_features skips the audio tower.
Forward(r) ==
    /\ pc[r] = "start"
    /\ pc' = [pc EXCEPT ![r] = FirstOp(rows[r])]
    /\ UNCHANGED <<joined, rows, minChunk, total, chunk, layer, embeds>>

\* A rank reaches its next collective and waits in it.
Arrive(r) ==
    /\ pc[r] # "start"
    /\ r \notin joined
    /\ joined' = joined \cup {r}
    /\ UNCHANGED <<pc, rows, minChunk, total, chunk, layer, embeds>>

\* A collective completes when every rank of the group is in it.
Met(o) == joined = Ranks /\ (\A r \in Ranks : Op(r) = o) /\ joined' = {}

\* dist.all_reduce(min_chunk_tensor, op=MIN)
ReduceMin ==
    /\ Met(<<"min", 0, 0>>)
    /\ minChunk' = [r \in Ranks |-> GlobalMinChunk]
    /\ pc' = [r \in Ranks |-> "max"]
    /\ UNCHANGED <<rows, total, chunk, layer, embeds>>

\* dist.all_reduce(max_chunk_tensor, op=MAX), then each rank compares the two.
ReduceMax ==
    /\ Met(<<"max", 0, 0>>)
    /\ pc' = [r \in Ranks |-> IF minChunk[r] = GlobalMaxChunk THEN "conv" ELSE "len"]
    /\ UNCHANGED <<rows, minChunk, total, chunk, layer, embeds>>

\* dist.all_reduce(global_max_len_tensor, op=MAX), then the padding.
ReduceLen ==
    /\ Met(<<"len", 0, 0>>)
    /\ total' = [r \in Ranks |-> PaddedLen(r)]
    /\ pc' = [r \in Ranks |-> "conv"]
    /\ UNCHANGED <<rows, minChunk, chunk, layer, embeds>>

\* The weights of one convolution are gathered and the chunk goes through it.
ConvLayer(c, k) ==
    /\ k < Layers
    /\ Met(<<"conv", c, k>>)
    /\ layer' = [r \in Ranks |-> k + 1]
    /\ UNCHANGED <<pc, rows, minChunk, total, chunk, embeds>>

\* After the last convolution the chunk is appended; after the last chunk the
\* result is cut back to original_len.
ChunkRows(r, c) ==
    LET P == Piece(total[r], c)
    IN  [i \in 1 .. Cardinality(P) |-> FeatureRow(r, c * ConvChunk + i)]

ConvChunkDone(c) ==
    LET more(r) == c + 1 < ChunkNum(total[r])
        out(r) == embeds[r] \o ChunkRows(r, c)
    IN  /\ Met(<<"conv", c, Layers>>)
        /\ embeds' = [r \in Ranks |-> IF more(r) THEN out(r) ELSE Restore(r, out(r))]
        /\ pc' = [r \in Ranks |-> IF more(r) THEN "conv" ELSE "conv_out"]
        /\ chunk' = [r \in Ranks |-> c + 1]
        /\ layer' = [r \in Ranks |-> 1]
        /\ UNCHANGED <<rows, minChunk, total>>

\* The projection after the convolutions, the same call on every rank.
ConvOut ==
    /\ Met(<<"conv_out", 0, 0>>)
    /\ pc' = [r \in Ranks |-> "lm"]
    /\ UNCHANGED <<rows, minChunk, total, chunk, layer, embeds>>

\* The language model on top; the next batch follows.
LanguageModel ==
    /\ Met(<<"lm", 0, 0>>)
    /\ rows' \in Batches
    /\ total' = rows'
    /\ pc' = [r \in Ranks |-> "start"]
    /\ minChunk' = [r \in Ranks |-> 0]
    /\ chunk' = [r \in Ranks |-> 0]
    /\ layer' = [r \in Ranks |-> 1]
    /\ embeds' = [r \in Ranks |-> <<>>]

ConvNext ==
    \/ \E r \in Ranks : Forward(r) \/ Arrive(r)
    \/ ReduceMin
    \/ ReduceMax
    \/ ReduceLen
    \/ \E r \in Ranks : ConvLayer(chunk[r], layer[r]) \/ ConvChunkDone(chunk[r])
    \/ ConvOut
    \/ LanguageModel

ConvSpec == ConvInit /\ [][ConvNext]_convVars

-----------------------------------------------------------------------------
Pcs == {"start", "min", "max", "len", "conv", "conv_out", "lm"}

\* Type invariant.
ConvTypeOK ==
    /\ pc \in [Ranks -> Pcs]
    /\ joined \subseteq Ranks
    /\ rows \in [Ranks -> Nat]
    /\ minChunk \in [Ranks -> Nat]
    /\ total \in [Ranks -> Nat]
    /\ chunk \in [Ranks -> Nat]
    /\ layer \in [Ranks -> 1 .. Layers]
    /\ embeds \in [Ranks -> Seq(Nat)]

\* "Keep convolution collectives aligned when audio lengths differ across ZeRO-3
\* ranks": two ranks that wait at the same time wait in the same collective, so
\* that no rank waits for one the others never call.
CollectivesAligned == \A r, s \in joined : Op(r) = Op(s)

\* Whatever was padded and cut, a rank leaves the convolutions with its own rows,
\* all of them, in order, and no padding.
OwnRowsBack ==
    \A r \in Ranks :
        pc[r] = "conv_out" => embeds[r] = [i \in 1 .. rows[r] |-> i]
=============================================================================
