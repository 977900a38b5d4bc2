--------------------------- MODULE MCMMSchedule ---------------------------
(***************************************************************************)
(* Three requests with prompts of a few tokens, over up to five encoder    *)
(* outputs, in engines of four kinds.                                      *)
(***************************************************************************)
EXTENDS MMSchedule

CONSTANTS r1, r2, r3, a, b, c, d, e

Feature(h, off, len, emb) == [h |-> h, off |-> off, len |-> len, emb |-> emb]

\* r3 matters most, then r2.
Priorities == (r1 :> 3) @@ (r2 :> 2) @@ (r3 :> 1)
NoHits == [r \in Reqs |-> {0}]
MCSize == (a :> 2) @@ (b :> 2) @@ (c :> 1)

\* Image prompts, one step at a time, with too few KV blocks for two of them. a is
\* shared by two requests; c has a marker token before its embedding; r3 shows the
\* same image twice.
SyncConfig ==
    [items |-> (r1 :> <<Feature(a, 0, 2, {0, 1}), Feature(b, 2, 2, {0, 1})>>)
            @@ (r2 :> <<Feature(c, 1, 2, {1}), Feature(a, 3, 2, {0, 1})>>)
            @@ (r3 :> <<Feature(b, 0, 2, {0, 1}), Feature(b, 2, 2, {0, 1})>>),
     promptLen |-> (r1 :> 5) @@ (r2 :> 5) @@ (r3 :> 4),
     hits |-> (r1 :> {0, 1}) @@ (r2 :> {0}) @@ (r3 :> {0}),
     threshold |-> 3, kvBlocks |-> 7, maxRunning |-> 2, maxInFlight |-> 1,
     policy |-> "fcfs", disableChunkedMM |-> FALSE, reserveFullISL |-> FALSE]

\* The same prompts with two steps in flight, items that are not chunked, and
\* admission by whole prompts.
PipelinedConfig ==
    [SyncConfig EXCEPT !.kvBlocks = 8, !.maxRunning = 3, !.maxInFlight = 2,
                       !.disableChunkedMM = TRUE, !.reserveFullISL = TRUE]

\* Videos with their own audio: both items cover the same tokens, the embeddings
\* of the audio track interleaved with those of the frames.
VocalConfig ==
    [PipelinedConfig EXCEPT
       !.items = (r1 :> <<Feature(a, 1, 3, {0, 2}), Feature(c, 1, 3, {1})>>)
              @@ (r2 :> <<Feature(c, 1, 3, {1}), Feature(b, 1, 3, {0, 2})>>)
              @@ (r3 :> <<>>),
       !.promptLen = (r1 :> 4) @@ (r2 :> 4) @@ (r3 :> 2),
       !.hits = (r1 :> {0, 2}) @@ (r2 :> {0, 2}) @@ (r3 :> {0}),
       !.maxRunning = 2, !.disableChunkedMM = FALSE]

\* A long prompt whose image comes late, and shorter ones that matter more.
PriorityConfig ==
    [SyncConfig EXCEPT
       !.items = (r1 :> <<Feature(a, 4, 2, {0, 1})>>)
              @@ (r2 :> <<Feature(b, 1, 2, {0, 1})>>)
              @@ (r3 :> <<Feature(a, 0, 2, {0, 1}), Feature(c, 2, 1, {0})>>),
       !.promptLen = (r1 :> 6) @@ (r2 :> 5) @@ (r3 :> 3),
       !.hits = NoHits,
       !.threshold = 2, !.kvBlocks = 8, !.maxRunning = 3, !.policy = "priority"]

MCConfigs == {SyncConfig, PipelinedConfig, VocalConfig, PriorityConfig}
PriorityOnly == {PriorityConfig}

\* Vocal videos that fit in the cache one at a time, and an image.
StallSize == (a :> 1) @@ (b :> 3) @@ (c :> 1) @@ (d :> 3) @@ (e :> 1)
StallOnly ==
    {[SyncConfig EXCEPT
        !.items = (r1 :> <<Feature(a, 1, 4, {0}), Feature(b, 1, 4, {1, 2, 3})>>)
               @@ (r2 :> <<Feature(c, 1, 4, {0}), Feature(d, 1, 4, {1, 2, 3})>>)
               @@ (r3 :> <<Feature(e, 0, 1, {0})>>),
        !.promptLen = (r1 :> 5) @@ (r2 :> 5) @@ (r3 :> 1),
        !.hits = NoHits,
        !.threshold = 0, !.kvBlocks = 16, !.maxRunning = 3, !.reserveFullISL = TRUE]}
=============================================================================
