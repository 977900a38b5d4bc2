------------------------------ MODULE MCModel ------------------------------
(***************************************************************************)
(* What the model and its runners do with a prompt, one part of it in each *)
(* behaviour: the convolutions of the audio tower on several ranks, the    *)
(* merge of embeddings by modality, the rope positions of the vLLM runners *)
(* and those of the Hugging Face model. The parts share no state; the ones *)
(* a behaviour is not about stay in their initial state.                   *)
(***************************************************************************)
EXTENDS ConvChunkSync, ModalityMerge, MRopeRunner, RopeDeltas

CONSTANTS rank1, rank2, rank3, MergeScenario

VARIABLE part   \* "conv", "merge", "runner" or "deltas"

\* Three ranks whose batches have up to five feature rows, or none: equal and
\* different chunk counts, full and short last chunks.
MCRanks == {rank1, rank2, rank3}
MCBatches == [MCRanks -> 1 .. 5] \cup {[r \in MCRanks |-> 0]}

-----------------------------------------------------------------------------
(* Media to merge.                                                         *)

Whole(id, m, off, n) == [id |-> id, modality |-> m, off |-> off, len |-> n,
                         emb |-> [k \in 1 .. n |-> k - 1]]

\* A vocal video at off: grid tokens V V A, then V A A.
TwoGrids(v, a, off) ==
    <<[id |-> v, modality |-> "video", off |-> off, len |-> 6, emb |-> <<0, 1, 3>>],
      [id |-> a, modality |-> "audio", off |-> off, len |-> 6, emb |-> <<2, 4, 5>>]>>

\* One marker token, then V V A A.
OneGrid(v, a) ==
    <<[id |-> v, modality |-> "video", off |-> 0, len |-> 5, emb |-> <<1, 2>>],
      [id |-> a, modality |-> "audio", off |-> 0, len |-> 5, emb |-> <<3, 4>>]>>

\* Vocal videos, one after a picture, and small ones to be batched; or an audio clip
\* before a vocal video.
MCMergeItems ==
    IF MergeScenario = "vocal"
    THEN <<TwoGrids(1, 2, 1), <<Whole(3, "image", 0, 2)>> \o TwoGrids(4, 5, 2),
           OneGrid(6, 7), OneGrid(8, 9)>>
    ELSE <<<<Whole(1, "audio", 0, 2)>>, OneGrid(2, 3)>>

MCMergeReqs == DOMAIN MCMergeItems
MCMergeLen == [r \in MCMergeReqs |-> IF MergeScenario = "vocal" /\ r <= 2 THEN 8 ELSE 5]

\* The V1 runner with one request after another, profiled or not, and with two at a
\* time; and the V2 runner.
Serves(v, n, rs, list) == [runner |-> v, maxSeqs |-> n, reqs |-> rs, profiled |-> list]
MCSetups ==
    IF MergeScenario = "vocal"
    THEN {Serves("v1", 1, {1, 2}, << >>), Serves("v1", 1, {1, 2}, <<"video">>),
          Serves("v1", 2, {3, 4}, << >>), Serves("v2", 1, {1, 2}, << >>)}
    ELSE {Serves("v1", 1, {1, 2}, << >>)}

-----------------------------------------------------------------------------
(* Prompts to index: two images and a clip, a plain video of two grids of  *)
(* other sizes, a vocal video whose sound reaches past its grids or is     *)
(* missing, and one whose grid is wider than its sound is long.            *)

MCItems ==
    [pictures |-> <<Text(1), Image(2, 3), Audio(2), Image(1, 2), Text(1)>>,
     silent   |-> <<Video(2, 1), Text(1), Video(1, 2), Text(1)>>,
     sounding |-> <<Text(1), Vocal(1, 2, 2), Vocal(2, 1, 3), Vocal(1, 1, 0), Text(1)>>,
     wide     |-> <<Text(1), Vocal(1, 6, 1), Text(1)>>]
MCReqs == DOMAIN MCItems
MCRunners == {[v2 |-> FALSE, reqs |-> {"pictures", "wide"}],
              [v2 |-> TRUE, reqs |-> {"silent", "sounding"}],
              [v2 |-> TRUE, reqs |-> {"wide"}]}

\* Conversations that start with text, a clip, pictures, a plain or a vocal video.
MCPrompts == {<<Text(2)>>,
              <<Audio(2), Text(1)>>,
              <<Image(2, 3), Image(1, 2)>>,
              <<Video(2, 1), Video(2, 1)>>,
              <<Vocal(2, 2, 3), Vocal(2, 2, 2)>>,
              <<Vocal(1, 4, 1), Text(1)>>}
MCTurns == {<<Text(2)>>, <<Image(1, 2)>>}

-----------------------------------------------------------------------------
vars == <<convVars, mergeVars, runnerVars, deltasVars, part>>

AnyBatch == CHOOSE b \in Batches : TRUE
AnySetup == CHOOSE w \in Setups : TRUE
AnyRunner == CHOOSE w \in Runners : TRUE
AnyConv == CHOOSE c \in Convs : TRUE

Init ==
    /\ part \in {"conv", "merge", "runner", "deltas"}
    /\ (part = "conv" \/ rows = AnyBatch) /\ ConvInit
    /\ (part = "merge" \/ setup = AnySetup) /\ MergeInit
    /\ (part = "runner" \/ runner = AnyRunner) /\ RunnerInit
    /\ (part = "deltas" \/ latest = AnyConv) /\ DeltasInit

Next ==
    \/ part = "conv" /\ ConvNext /\ UNCHANGED <<mergeVars, runnerVars, deltasVars, part>>
    \/ part = "merge" /\ MergeNext /\ UNCHANGED <<convVars, runnerVars, deltasVars, part>>
    \/ part = "runner" /\ RunnerNext /\ UNCHANGED <<convVars, mergeVars, deltasVars, part>>
    \/ part = "deltas" /\ DeltasNext /\ UNCHANGED <<convVars, mergeVars, runnerVars, part>>
    \/ part # "conv" /\ UNCHANGED vars   \* all requests may have ended

Spec == Init /\ [][Next]_vars
=============================================================================
