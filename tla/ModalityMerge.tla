---------------------------- MODULE ModalityMerge ----------------------------
(***************************************************************************)
(* How the worker puts encoder outputs into the input embeddings of a step *)
(* of TLive-Omni.  A vocal video has a video item and an audio item on one *)
(* range of the prompt, their tokens interleaved grid by grid, so the rows *)
(* cannot simply be scattered in the order of the items:                   *)
(* _tlive_merge_embeddings_by_modality of tlive_omni.py first has to know  *)
(* the modality of every piece it is given.  It is not told: it keeps the  *)
(* modalities embed_multimodal has produced in a list on the model,        *)
(* _tlive_mm_embedding_modalities, and looks for a window of that list, or *)
(* for any assignment, in which the numbers of rows and tokens agree.      *)
(* Outputs found in the encoder cache are not in the list, outputs that    *)
(* went through the plain merge stay in it.                                *)
(*                                                                         *)
(* A step gives some requests their next tokens, encodes the items they    *)
(* need and do not find cached, gathers the pieces of the items under the  *)
(* chunk, and merges.  A row is <<item, k>>, the k-th row of the output of *)
(* an item; a place is <<request, position>>.                              *)
(***************************************************************************)
EXTENDS Integers, Sequences, FiniteSets, SequencesExt, FiniteSetsExt

CONSTANTS
    MergeReqs,        \* request ids, numbered: the order in the batch
    MergeItems,       \* mm_features of a request by offset: [id, modality, off, len, emb]
    MergeLen,         \* tokens of a request
    Setups            \* workers: V1 or V2 runner, max_num_seqs, the requests they get, and
                      \* the modalities of the items the encoder was profiled with

ASSUME ModalityMergeAssumption ==
    /\ MergeReqs \subseteq Nat
    /\ MergeLen \in [MergeReqs -> Nat \ {0}]
    /\ Setups \subseteq [runner : {"v1", "v2"}, maxSeqs : Nat \ {0}, reqs : SUBSET MergeReqs,
                          profiled : Seq({"image", "video", "audio"})]
    /\ \A r \in MergeReqs : \A i \in DOMAIN MergeItems[r] :
           LET it == MergeItems[r][i] IN
           /\ it.modality \in {"image", "video", "audio"}
           /\ it.off + it.len <= MergeLen[r]
           /\ \A k \in DOMAIN it.emb : it.emb[k] \in 0 .. it.len - 1
           /\ \A k \in 2 .. Len(it.emb) : it.emb[k - 1] < it.emb[k]
           /\ \A j \in 1 .. i : MergeItems[r][j].off <= it.off

VARIABLES
    progress,    \* num_computed_tokens of a request; -1 when it is not there
    cached,      \* the ids in the worker's encoder_outputs
    modalities,  \* _tlive_mm_embedding_modalities
    placed,      \* the rows the last step put into its inputs_embeds, by place
    expected,    \* the rows that belong there
    merge,       \* outcome of the last step: "ok" or "raised"
    alone,       \* whether no two requests have been there together so far
    setup        \* the member of Setups this behaviour is about

mergeVars == <<progress, cached, modalities, placed, expected, merge, alone, setup>>

\* The modalities in the order of the dict token_ids.
TokenIds == <<"image", "video", "audio">>

AllItems == UNION {ToSet(MergeItems[r]) : r \in MergeReqs}
Least(x, y) == IF x <= y THEN x ELSE y
Most(x, y) == IF x <= y THEN y ELSE x

Live == {r \in MergeReqs : progress[r] >= 0 /\ progress[r] < MergeLen[r]}

\* A batch: requests and the number of tokens each gets.
Batch == SetToSortSeq(Live, <)

-----------------------------------------------------------------------------
(* Gathering.                                                              *)

\* get_embeds_indices_in_range: the rows of an item under tokens [lo, hi) of
\* the prompt.
RowsInRange(it, lo, hi) ==
    {k \in DOMAIN it.emb : lo <= it.off + it.emb[k] /\ it.off + it.emb[k] < hi}

\* The piece of an item a request needs for its next n tokens.
PieceOf(r, it, n) ==
    [req |-> r, item |-> it, lo |-> Most(progress[r], it.off),
     hi |-> Least(progress[r] + n, it.off + it.len),
     rows |-> RowsInRange(it, progress[r], progress[r] + n)]

Needed(r, n) == SelectSeq([i \in DOMAIN MergeItems[r] |-> PieceOf(r, MergeItems[r][i], n)],
                          LAMBDA pc : pc.rows # {})

\* chunk gives every request of the batch its number of tokens.
Gathered(chunk) ==
    FlattenSeq([i \in DOMAIN Batch |->
        IF Batch[i] \in DOMAIN chunk THEN Needed(Batch[i], chunk[Batch[i]]) ELSE << >>])

PieceRows(pc) ==
    LET ks == SetToSortSeq(pc.rows, <) IN [i \in DOMAIN ks |-> <<pc.item.id, ks[i]>>]

PlaceOf(pc, k) == <<pc.req, pc.item.off + pc.item.emb[k]>>
PlacesOf(pc) == {PlaceOf(pc, k) : k \in pc.rows}

\* is_mm_embed.  The V1 runner ors the mask of an item into the batch mask, the
\* V2 runner assigns it to the range of the item.
MaskOverwrites(pieces) ==
    UNION {{pl \in PlacesOf(pieces[i]) :
               \A j \in i + 1 .. Len(pieces) :
                   pieces[j].req = pl[1] /\ pieces[j].lo <= pl[2] /\ pl[2] < pieces[j].hi
                       => pl \in PlacesOf(pieces[j])} : i \in DOMAIN pieces}

Mask(pieces) ==
    IF setup.runner = "v1" THEN UNION {PlacesOf(pieces[i]) : i \in DOMAIN pieces}
    ELSE MaskOverwrites(pieces)

\* input_ids: the placeholder token at a place.
TokenAt(pl) ==
    (CHOOSE it \in ToSet(MergeItems[pl[1]]) :
        \E k \in DOMAIN it.emb : it.off + it.emb[k] = pl[2]).modality

Before(a, b) == a[1] < b[1] \/ (a[1] = b[1] /\ a[2] < b[2])
InOrder(places) == SetToSortSeq(places, Before)

-----------------------------------------------------------------------------
(* Merging.                                                                *)

\* masked_scatter_: rows in their order onto places in theirs.  Too many rows
\* are ignored, too few are an error.
Scatter(rows, places) == [pl \in ToSet(places) |-> rows[CHOOSE i \in DOMAIN places : places[i] = pl]]

AllRows(pieces) == FlattenSeq([i \in DOMAIN pieces |-> PieceRows(pieces[i])])

Outcome(status, rows, left) == [status |-> status, rows |-> rows, left |-> left]
Raised(list) == Outcome("raised", << >>, list)

\* super().embed_input_ids.
PlainMerge(pieces, mask, list) ==
    IF Len(AllRows(pieces)) < Cardinality(mask) THEN Raised(list)
    ELSE Outcome("ok", Scatter(AllRows(pieces), InOrder(mask)), list)

MaskedTokens(mask, m) == {pl \in mask : TokenAt(pl) = m}
TokenCount(mask, m) == Cardinality(MaskedTokens(mask, m))
Present(mask) == {m \in ToSet(TokenIds) : TokenCount(mask, m) > 0}

RowsAssigned(pieces, cand, m) ==
    MapThenSumSet(LAMBDA i : Cardinality(pieces[i].rows), {i \in DOMAIN cand : cand[i] = m})


\* is_valid_assignment.
IsValid(pieces, mask, cand) ==
    \A m \in ToSet(TokenIds) : RowsAssigned(pieces, cand, m) = TokenCount(mask, m)

Window(pieces, list, s) == SubSeq(list, s + 1, s + Len(pieces))

\* Starts of the windows of the list that fit.
Windows(pieces, mask, list) ==
    {s \in 0 .. Len(list) - Len(pieces) : IsValid(pieces, mask, Window(pieces, list, s))}

\* backtrack: the first assignment that fits, trying the modalities in the
\* order of token_ids for one piece after the other.
Rank(m) == CHOOSE i \in DOMAIN TokenIds : TokenIds[i] = m
EarlierAssignment(a, b) ==
    a = b \/ \E i \in DOMAIN a : /\ Rank(a[i]) < Rank(b[i])
                                 /\ \A j \in 1 .. i - 1 : a[j] = b[j]

Fitting(pieces, mask) ==
    {a \in [DOMAIN pieces -> Present(mask)] : IsValid(pieces, mask, a)}

Backtrack(pieces, mask) ==
    IF Fitting(pieces, mask) = {} THEN << >>
    ELSE CHOOSE a \in Fitting(pieces, mask) :
             \A b \in Fitting(pieces, mask) : EarlierAssignment(a, b)

\* The assignment the merge settles on.  A list of just the right length whose
\* modalities all occur is taken even when the numbers disagree.
Assignment(pieces, mask, list) ==
    IF Windows(pieces, mask, list) # {}
    THEN Window(pieces, list, Min(Windows(pieces, mask, list)))
    ELSE IF Len(list) = Len(pieces) /\ ToSet(list) \subseteq Present(mask) THEN list
    ELSE Backtrack(pieces, mask)

PiecesOf(pieces, cand, m) ==
    LET is == SetToSortSeq({i \in DOMAIN cand : cand[i] = m}, <)
    IN  [j \in DOMAIN is |-> pieces[is[j]]]

\* _tlive_merge_embeddings_by_modality: the rows of every modality onto the
\* tokens of that modality.  The list is emptied.
MergeByModality(pieces, mask, list) ==
    LET cand == Assignment(pieces, mask, list)
        scattered == [m \in ToSet(cand) |->
            Scatter(AllRows(PiecesOf(pieces, cand, m)), InOrder(MaskedTokens(mask, m)))]
    IN  IF \/ Len(cand) # Len(pieces)
           \/ \E m \in ToSet(cand) : RowsAssigned(pieces, cand, m) # TokenCount(mask, m)
        THEN Raised(list)
        ELSE Outcome("ok", [pl \in mask |-> scattered[TokenAt(pl)][pl]], << >>)

\* embed_input_ids.
EmbedInputIds(pieces, mask, list) ==
    IF pieces = << >> THEN Outcome("ok", << >>, list)
    ELSE IF {"video", "audio"} \subseteq Present(mask) THEN MergeByModality(pieces, mask, list)
    ELSE PlainMerge(pieces, mask, list)

-----------------------------------------------------------------------------
(* The worker.                                                             *)

\* What embed_multimodal has to encode for these pieces, in their order.
Encoded(pieces) ==
    SelectSeq([i \in DOMAIN pieces |->
                  IF \/ pieces[i].item.id \in cached
                     \/ \E j \in 1 .. i - 1 : pieces[j].item.id = pieces[i].item.id
                  THEN [id |-> 0, modality |-> "none"]
                  ELSE [id |-> pieces[i].item.id, modality |-> pieces[i].item.modality]],
              LAMBDA e : e.modality # "none")

\* embed_multimodal adds what it encoded to what the list has already.
ListAfter(list, enc) == list \o [i \in DOMAIN enc |-> enc[i].modality]

Expected(pieces) ==
    [pl \in UNION {PlacesOf(pieces[i]) : i \in DOMAIN pieces} |->
        CHOOSE row \in UNION {{<<pieces[i].item.id, k>> : k \in
                                  {kk \in pieces[i].rows : PlaceOf(pieces[i], kk) = pl}}
                              : i \in DOMAIN pieces} : TRUE]

\* execute_model: encode, gather, merge.  An error ends the engine.
Execute(chunk) ==
    LET pieces == Gathered(chunk)
        list == ListAfter(modalities, Encoded(pieces))
        res == EmbedInputIds(pieces, Mask(pieces), list)
    IN  /\ merge = "ok"
        /\ cached' = cached \cup {pieces[i].item.id : i \in DOMAIN pieces}
        /\ progress' = [r \in MergeReqs |->
                           IF r \in DOMAIN chunk THEN progress[r] + chunk[r] ELSE progress[r]]
        /\ modalities' = res.left
        /\ placed' = res.rows
        /\ expected' = Expected(pieces)
        /\ merge' = res.status
        /\ UNCHANGED alone

\* A request joins; its items may be cached from earlier requests.
Add(r) ==
    /\ progress[r] = -1
    /\ Cardinality(Live) < setup.maxSeqs
    /\ progress' = [progress EXCEPT ![r] = 0]
    /\ alone' = (alone /\ Live = {})
    /\ UNCHANGED <<cached, modalities, placed, expected, merge>>

\* A request is aborted half way.
Drop(r) ==
    /\ r \in Live
    /\ progress' = [progress EXCEPT ![r] = MergeLen[r]]
    /\ UNCHANGED <<cached, modalities, placed, expected, merge, alone>>

\* free_encoder_mm_hashes: an output nobody needs any more goes.
FreeEncoderOutput(id) ==
    /\ id \in cached
    /\ \A r \in Live : \A i \in DOMAIN MergeItems[r] : MergeItems[r][i].id # id
    /\ cached' = cached \ {id}
    /\ UNCHANGED <<progress, modalities, placed, expected, merge, alone>>

\* profile_run of the V1 runner has called embed_multimodal, which left its modalities
\* in the list; the V2 runner profiles without media.
MergeInit ==
    /\ setup \in Setups
    /\ progress = [r \in MergeReqs |-> -1]
    /\ cached = {}
    /\ modalities = IF setup.runner = "v1" THEN setup.profiled ELSE << >>
    /\ placed = << >>
    /\ expected = << >>
    /\ merge = "ok"
    /\ alone = TRUE

Chunks == UNION {[S -> 1 .. Max({MergeLen[r] : r \in MergeReqs})] : S \in SUBSET Live \ {{}}}

MergeNext ==
    /\ \/ \E chunk \in Chunks :
             /\ \A r \in DOMAIN chunk : progress[r] + chunk[r] <= MergeLen[r]
             /\ Execute(chunk)
       \/ \E r \in setup.reqs : Add(r)
       \/ \E r \in setup.reqs : Drop(r)
       \/ \E it \in AllItems : FreeEncoderOutput(it.id)
    /\ UNCHANGED setup

MergeSpec == MergeInit /\ [][MergeNext]_mergeVars

-----------------------------------------------------------------------------
(* Properties.                                                             *)

\* With the V1 runner, and as long as no two requests were there together, every row of
\* an encoder output stands at the placeholder token it was encoded for, however the
\* prompt was cut into chunks, whatever the list still holds from profiling and from
\* other steps and whatever was found in the cache. In a batch with two vocal videos a
\* wrong window of the list may fit, and what is left of the list reaches later steps;
\* the mask of the V2 runner loses the tokens of one of two items on a range. An audio
\* clip served before a vocal video breaks even the rest.
RowsInPlace == setup.runner = "v1" /\ alone /\ merge = "ok" => placed = expected

=============================================================================
