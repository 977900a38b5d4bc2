# TLive-Omni: a TLA+ verification project

TLA+ models, TLC runs and TLAPS proofs for the code of TLive-Omni: the Hugging
Face processor and model under `src/tlive_omni/`, and the parts of the vLLM fork
under `src/vllm/` that serve the model.

`PROJECT.json` lists the components, the runs, the mutants that show each
property can fail, the source lines behind every definition, the findings, the
hazards and the theorems.

## 1. The system

A client sends prompts with images, audio clips or videos. A *vocal* video is a
video whose own audio track is used (`use_audio_in_video=True`); its audio and
video tokens are interleaved, one timestamped span per temporal grid. In vLLM a
vocal video has two items, its frames and its sound, on one range of the prompt.

| component | state it keeps | operations | what makes it correct |
|---|---|---|---|
| per-vGrid layout, `_generate_video_placeholder` | `audio_boundaries`, the spans emitted | boundary loop, span loop | every audio token in exactly one grid, in its time window |
| prompt expansion, `replace_multimodal_special_tokens` | three media cursors over a batch | one replacement per media token, final count check | every placeholder belongs to its own medium; mismatches are refused |
| media loader patching, `_force_transformers_*` | `load_video` and `load_audio` of the transformers modules, an RLock | enter, patch, load, restore, exit, from several threads | a call sees its own loaders; the originals come back |
| chunked audio convolution, `_chunked_conv_forward` | chunk counts, padding and chunk index of every rank | three all_reduces, a collective per convolution, the cut | all ranks issue the same collectives, each gets its own rows back |
| M-RoPE index, `get_rope_index`, `get_mrope_input_positions` | cursors, `rope_deltas`, the runners' position tables | a branch per kind of medium; index, count on, preempt | one position per token, kept when it is recomputed |
| modality-wise merge, vLLM `tlive_omni.py` | `_tlive_mm_embedding_modalities` | embed_multimodal, embed_input_ids, merge | rows of an item land on its own tokens |
| encoder cache manager, `encoder_cache_manager.py` | `cached`, `freeable`, `freed`, two slot counters | check_and_update_cache, can_allocate, allocate, free_encoder_input, free, get_freed_mm_hashes, reset | exact slot counts; only unused entries evicted, and reported |
| scheduler, `scheduler.py` | `running`, `waiting`, computed tokens, budgets of a step | schedule, preempt, update, finish, add | no worker misses an embedding; every request progresses |
| engine core, `engine/core.py` | the queue of steps in flight | step, step_with_batch_queue, aborts, resets | results are applied in order; aborts may overtake them |
| worker encoder runner, `worker/gpu/mm/` | `encoder_outputs` | drop freed, encode, keep, gather | holds exactly what the manager believes |
| KV cache manager and block pool | blocks, reference counts, free list, hash map, block tables | get_computed_blocks, allocate_slots, free, evict, reset | sharing never shows: a request attends to its own prefix |
| block hashes, `kv_cache_utils.py` | `block_hashes` of a request | hash on creation and when output fills a block | equal hashes mean equal contents |
| multimodal processor cache, `multimodal/cache.py` | two LRU caches in two processes | touch, get and update, evict, clear | the receiver holds what the sender leaves out |
| message queue, `shm_broadcast.py` | a ring in shared memory, flags, two sockets | enqueue, dequeue, notify, shutdown | a broadcast channel; no lost wake-up |
| multiprocess executor, `multiproc_executor.py` | calls, futures, response queues, a monitor thread | collective_rpc, result, worker loop, shutdown | a call gets its own answers; no wait is endless |

How they interact. `apply_chat_template` takes the processor lock, replaces
`load_audio` for vocal videos, and calls the processor, which takes the lock again
and replaces `load_video`; the processor expands the prompt, calling the layout
loop for every vocal video. In the serving process the items of a prompt go
through the sender cache, and only what the receiver cannot have is sent to the
engine core. There, `schedule()` asks the encoder cache manager for room, then the
KV cache manager for blocks, which it finds by the block hashes of the request.
Its output is a call of the executor, broadcast to the workers through the message
queue; a worker drops, encodes, gathers, merges and indexes positions; the answer
comes back through the queue of the worker, and reaches `update_from_output` one
or more steps later. Aborts, new requests and resets arrive between these steps.

What is hard. The manager decides hits on its own books while the outputs live in
a worker that lags behind. Preemption has to undo a half-built step. Blocks are
published before they are computed, and freed while steps that use them are under
way. A vocal video needs two encoder outputs on the same tokens, which the block
hash, the gather and the merge each have to tell apart. Two caches in two
processes stay equal only because they replay the same calls. A ring is read and
written without a lock. Answers are matched to calls by position alone. Ranks must
agree on the number of collectives from lengths only they know. Threads share
patched module functions. The `hazards` of `PROJECT.json` give the line of each
and the properties that cover it.

## 2. The modules

| module | models | abstract specification | run |
|---|---|---|---|
| `VGridLayout` | the boundary and span loops of one vocal video | | `processor` |
| `MediaPatch` | threads, the RLock and both context managers | | `processor` |
| `PromptExpand` | the expansion of a batch, one action per replaced token | | `processor` |
| `EncoderCache` | the encoder cache manager, for any client | is one itself | `scheduler` |
| `MMSchedule` | scheduler, engine step loop and worker, on `EncoderCache` | `EncoderCache` | `scheduler` |
| `KVBlocks` | KV cache manager and block pool, with the device's slots | `PrivateKV` | `prefix_cache` |
| `FreeBlockList` | the doubly linked list of free blocks | `FreeQueue` | `prefix_cache` |
| `BlockHash` | the hashes of a request's blocks and their extra keys | | `prefix_cache` |
| `ConvChunkSync` | the audio tower's convolutions on several ranks | | `model` |
| `ModalityMerge` | gather loops of both runners, list of modalities, merge | | `model` |
| `MRopeIndex` | the position algorithm, as operators | its `Documented` | `model` |
| `MRopeRunner` | positions fed by the V1 and V2 runner | | `model` |
| `RopeDeltas` | positions of the Hugging Face model over turns | | `model` |
| `ProcessorCache` | sender and receiver cache, renderer, input thread | | `processor_cache` |
| `ShmBroadcast` | ring, flags, sockets, load by load | `BroadcastChannel` | `message_queue` |
| `WorkerRPC` | executor, workers, copying and monitor threads | | `worker_calls` |
| `*Proofs` | the theorems about the module they extend | | |
| `MC*` | constants for TLC, and which part a behaviour is about | | |

**Several instances in one run.** A rigid variable chosen in `Init` says what a
behaviour is about: `config` of `MMSchedule` (prompts and settings of the engine),
`workload` of `KVBlocks` (requests and policy), `setup` of `ModalityMerge`, `runner` of
`MRopeRunner`, `scenario` of `ProcessorCache`, `ShmBroadcast` and `WorkerRPC` (messages,
faults, bounds). `MCProcessor`, `MCModel` and `MCPrefixCache` put modules that share no state side by side; `part` names the
one that moves, the others stay in one initial state. No step changes any of these.

**VGridLayout.** `AddBoundary` is an iteration of the `audio_boundaries` loop with
its `min`/`max` clamp, `CloseBoundaries` the final append, `EmitSpan` an iteration
of the span loop, `FinishLayout` the return. A span is the half-open interval of
audio tokens it holds. `seconds_per_grid` is rounded to bfloat16 by the code, so the
products are dyadic with few bits and `int(x + 1e-6)` is the floor; the model uses
exact rationals.

**PromptExpand.** `BeginSample` finds the media tokens of a prompt, `PlaceClip` and
`PlaceVideo` replace one, `RaiseShort` is every "more tokens than inputs" exit,
`EndSample` restores the tokens behind the placeholders and validates the markers
of vocal samples, `FinishCall` compares the counts. Replacement is by text search,
as in the code: the *first* wrapped video token of the sample is taken, wherever
the scan is. A sample that writes one video bare and a later one wrapped therefore
shows the first medium in the second place; `MediaInTextOrder` is stated for
samples that write all videos alike, which is what the chat template produces.
`EveryMediumPlacedOnce` covers all samples.

**MediaPatch.** One step per place where another thread can come in: taking the
lock, patching, loading, decoding, restoring with the release. A call is a processor
call, or a chat template with or without `use_audio_in_video`, with or without a
video backend; loads may raise. The restore and the release are one action: nothing
outside the lock reads the loaders in the model, so no state between them matters.

**EncoderCache.** One action per method. `can_allocate` is split as its callers
see it: the test `CacheHasRoom` and, when it holds, `Reserve`, which evicts oldest
first until the need fits. `Granted` states what the assertions of `allocate`
demand. `ECNext` lets any client call any method within that contract.

**MMSchedule.** `pc` follows one engine step: `running` (loop over the running
queue), `items` (`_try_schedule_encoder_inputs`, one action per outcome for an
item), `place` (KV blocks, preemption), `waiting`, `commit` (the `SchedulerOutput`
is built), `after` (`_update_after_schedule` with its reference releases), `await`,
`output` (`update_from_output`). `WorkerExecute` runs concurrently and takes the
oldest queued step. `maxInFlight = 1` is `EngineCore.step`, `2` is
`step_with_batch_queue`. Clients add and abort at any `idle` point, and abort
between a result and its processing; `reset_encoder_cache` may come at any `idle`
point at which the worker has no step queued. Abstractions: KV blocks of one token;
a prefix cache filled by earlier traffic, so a first hit has any length in
`config.hits`, and a hit is charged in full; one output token per request; distinct
priorities, so arrival time never decides; no speculative decoding, LoRA,
connectors, streaming sessions or structured output. `EncoderBudget = CacheSize` in
the runs, as `compute_mm_encoder_budget` makes each the larger of its configured
value and the largest item, and both configured values are `max_num_batched_tokens`.

**KVBlocks.** `AllocateWaiting` is `get_computed_blocks` and `allocate_slots` in one
action, as `schedule` calls them for a waiting request; `AllocateRunning` is
`allocate_slots` for a running one. `Free`, `Withdraw`, `EvictBlock`, `ResetPrefixCache`
and the worker's `Execute` are the others. A block is published when its computation is
*scheduled*; the worker runs steps in order, also those of requests that are gone.
`Withdraw` is a preemption under the priority policy whose victim the same call of
`schedule` has scheduled already: its step is taken out of the output, so the worker never
gets it, while the hashes of its blocks remain. The call then tries the refused allocation
again, and `retry` keeps anything else from happening in between. Under FCFS the victim is
the last running request, which the call has not reached, and no step is withdrawn.
`slots` is what the device holds: the prefix a key and value were computed from. A
hash is the prefix it stands for, which is what `BlockHash` justifies.

**FreeBlockList.** `popleft`, `popleft_n`, `remove`, `append`, `append_n` with their
pointer assignments and the two sentinels; `FreeQueue` is the sequence the pool
thinks it has.

**BlockHash.** `Create` and `AppendOutput` hash the full blocks as
`request_block_hasher` does, carrying the item index from block to block and, when
hashing resumes, starting at the last item. Hashing is taken as free of collisions:
a hash is the sequence of what it was computed from.

**ConvChunkSync.** Under ZeRO-3 every convolution gathers weights and is a
collective, like the all_reduces. A rank arrives at its next operation, and the
operation completes when all ranks wait in it (`Met`).

**ModalityMerge.** A step takes chunks of some requests, encodes what is not cached,
gathers the pieces under the chunks with the mask of the runner, and merges. A row
carries the item and index it was encoded for, so a misplaced one is visible. The
search for a window of the list and the backtracking over counts are as in
`_tlive_merge_embeddings_by_modality`, and so is what they leave in the list. The list
starts with what the profile run put in it. `alone` remembers whether two requests have
ever been there together.

**MRopeIndex, MRopeRunner, RopeDeltas.** `RopeIndex` walks the tokens of a prompt
with the cursors and counts of the code, one `NextSpan` per medium, where the twin
implementations coincide; `Documented` says item by item what the positions should
be. `MRopeRunner` uses it chunk by chunk over preemptions, for the V1 runner (which
keeps the index of the prompt and counts on) and the V2 runner (which indexes prompt
and output anew). `RopeDeltas` is the Hugging Face side, with the difference on the
model object, padding and later turns; `strayed` are the conversations that once counted
on with the difference of another one, or were given a new picture or video.

**ProcessorCache.** An LRU cache is the order of its keys and the set of keys that
have data: `touch` makes the two differ. `Process` is the renderer's worker with
`_merge_mm_kwargs`, `Submit` the sort by position and the send, `Receive` the input
thread of the engine core; `Reject`, `ClearSender`, `SendReset`, `QueueReset` and
`ClearReceiver` are what disturbs them. The reset runs in the main thread of the engine
core and the cache has no lock; the model lets it come before or after a `Receive`, not
into the middle of one. An eviction loop that meets a key without
data does not end: the process is then `hung`.

**ShmBroadcast.** Each load and store of the ring is a step. The writer looks at a
block, fills it in two steps (so that a torn read would show), resets the read
flags one by one, publishes, and pings; a reader loads its read flag and the written
flag separately, spins, goes idle and polls. Large messages leave a mark in the ring
and go through a socket. Waits may time out and the writer may end anywhere.

**WorkerRPC.** Queues are the channels of `BroadcastChannel`. The engine makes steps
(futures, one rank answers or all), blocking calls and client utilities; a worker
executes calls in order and answers itself or through its copying thread; an error ends
the engine, but for a utility it is reported to the client and the engine goes on; the monitor
thread notices a death and takes the queues away one by one while calls run.

## 3. The runs

| run | instance | what it asks |
|---|---|---|
| `processor` | layouts of 1, 2, 3, 5 grids, 0 to 70 audio tokens, grids of 1/16, 43/64, 1 and 2 s; 2 threads, 2 backends, 2 modules; batches of 1 or 2 prompts of up to two parts with up to 2 clips, 1 image, 2 videos | does the layout partition the track; do threads see their own loaders and free the lock; is each medium shown once, in order, and does the call return exactly on a match |
| `scheduler` | 3 requests, 3 outputs of 1 or 2 slots in a cache of 4; four engines: one step at a time with a tight KV cache, two in flight with whole items, vocal videos that share a track, priorities | are the manager's books exact and its contract kept, the budgets kept, references given back; does the worker hold what the manager believes; does every request leave |
| `prefix_cache` | 3 usable blocks of 2 tokens, 2 steps in flight; a chain of two blocks beside a foreign prompt, two prompts with a common prefix and invalid blocks, two priorities with a common prefix; every list of 4 blocks; nine requests to hash in blocks of 3 tokens, with items at other places and two in a tail, adapters, salts, up to 2 tokens a step | do counts, queue, tables and map agree; is the cache closed under prefixes; does a request under FCFS ever see a foreign key or value; do the pointers implement the queue; do equal hashes mean equal contents, also when hashing resumes |
| `model` | 3 ranks with every mix of 1 to 5 rows, or none; an image and vocal videos cut anywhere, one request after the other or two at a time, after a profile run or not, on both runners; four prompts on both runners with preemption; two conversations that alternate, six ways to begin, with padding, turns of text and of pictures | do ranks stay together and get their rows back; do rows stand at their tokens; does a token keep its position; are positions those documented |
| `processor_cache` | items of 1, 2 and 4 units in caches of 3; a quiet system, and one with two modalities, oversized prompts, rejections, resets, overtaking | does the receiver mirror the sender; do eviction loops end; are capacities kept, and prompts cached whole |
| `message_queue` | 2 readers, a ring of 2, 3 messages; a message for the socket with timeouts of writes and reads, a writer that may end, all timeouts | is it a channel; is a block ever filled while read; is a wake-up lost; do orphaned readers stop |
| `worker_calls` | 2 workers, up to 4 calls, 2 batches in flight; without failures, with raising calls, with deadlines and an ending thread, with dying workers | whose answers does a call get, in which order; does every wait end |
| `priority_miss`, `vocal_stall`, `stale_hit`, `hash_shared`, `merge_swap` | see section 6 | violations |

The bounds are the smallest at which the interesting cases occur. In `scheduler`
three requests are a running one, its victim and a third that meets what they left;
two steps in flight are the least with a worker behind the scheduler; an item shared
by two requests, the same item twice in one prompt, a marker token without an
embedding and an item split over two steps all occur. Two threads and one nesting
level are all the lock can tell apart; two modules show a partial restore. A batch of
two prompts is the least in which a cursor crosses a sample. In `prefix_cache` a
prompt of two full blocks is the least in which the order of freeing matters, and
the pool is too small for two requests, so every free block is evicted sooner or
later. Four list nodes give a list with neighbours on both sides of a removal and a
batch to append. Three ranks with chunks of two rows have equal and unequal chunk
counts, full and short last chunks, and a rank that is neither longest nor shortest.
A ring of two with three messages wraps around; two readers can be at different
blocks. Four calls let futures, a blocking call and a utility be under way together.
Two processor caches of capacity three evict one or two entries for an item, and an
item of four units is refused.

Deadlock is checked in `processor`, `scheduler`, `prefix_cache`, `model`.
Where a part of these may really stop (a call that returned, requests that ended)
the `MC` module lets that part stutter; the threads, the engine, the ranks and the
block pool must always be able to go on. In `processor_cache`, `message_queue` and
`worker_calls` the number of messages is bounded and the system may stop: there
`EvictionEnds`, `Delivered`, `OrphansExit` and `EveryWaitEnds` say who must not be
stuck.

### Fairness

`FairMMSpec` assumes weak fairness of `EngineStep` (`run_busy_loop` never stops
stepping while there is work) and of `WorkerStep` (the worker loop takes what is
queued). `PatchFairness` assumes that a thread that can go on does; who gets a free
lock is open, so no claim is made that every waiting thread gets it. `ShmBroadcast`
assumes that the writer, each reader and each reader's shutdown thread are scheduled.
`WorkerRPC` assumes it of the engine, the workers, their copying threads and the
monitor, and that a wait with a deadline reaches it (a step always has
`VLLM_EXECUTE_MODEL_TIMEOUT_SECONDS`). Nothing is assumed of clients, and no timeout
of the queue, failure or death is ever obliged to happen.

## 4. What is proved

All theorems hold for every value of the constants that satisfies the named
assumption of the module (`EncoderCacheAssumption`, `LayoutAssumption`,
`MediaPatchAssumption`, `ConvAssumption`, `ShmAssumption`, `MMScheduleAssumption`,
`RPCAssumption`, `KVAssumption`, `ListAssumption`, `ProcessorCacheAssumption`,
`PromptExpandAssumption`). `ListAssumption` says there is a block, as the constructor of the
block pool asserts; the other ones from `ShmAssumption` on describe the shape of the
constants and the members a rigid variable may take (scenarios, configurations,
workloads); the runs use a few of them, the theorems any.

**EncoderCacheProofs.** `ECSpec => []ECTypeOK`, `CacheBooks` (`ECSpec =>
[]CacheBooksExact`) and `EvictionsReported` (`ECSpec => DroppedAreReported`). The
counters are bounded only because they are exact, and the reclaimable counter
survives a hit only because `freeable` is exactly the unreferenced entries. So the
inductive invariant `ECInv` is the conjunction of the shape of the state, "only
cached hashes have holders", `FreeableIsUnreferenced` and the two counter equations.
Slots are counted as the cardinality of a set of rows, which lets the lemmas
`SlotsUnion`, `SlotsMinus` and `SlotsSingleton` follow from the library's theorems on
finite sets; `SeqRemove`, `SeqDrop` and `SeqJoin` say how the queue of reclaimable
entries changes when one is taken out, some are dropped, or more are appended.

**ProcessorProofs**, of `VGridLayout`. `LayoutTypes`, `LayoutPartition` (every audio token of the
track in exactly one span) and `LayoutInItsGrid` (in the time window of its grid,
the last grid taking the rest). The invariant `LayoutInv` says that boundaries already
computed are ordered, within the track and equal to the clamped floor of their
time, how far each loop has come, and that the spans emitted are those between
neighbouring boundaries. `AtOrAfterFloor` and `BeforeFloor` carry the arithmetic.

**ProcessorProofs**, of `MediaPatch`. `PatchTypes`, `PatchOwnLoaders` and `PatchRestored`, for any
number of threads. `OwnLoaders` is not inductive: it needs to know that a thread
inside a context holds the lock (`LockInv`, which ties the count to the place the
thread is at), what a holder has replaced and saved at each place (`HolderSees`),
and that a call's kind fits its place (`CallFits`). `OthersStay` is the frame: a
step of one thread leaves every other thread's facts alone.

**ProcessorProofs**, of `PromptExpand`. `ReturnsExactlyOnMatchHolds`, `EveryMediumPlacedOnceHolds`
and `MediaInTextOrderHolds`, for any set of prompts, any length of batch and any number of
media. The code keeps a list of positions and then searches the text from its beginning, so
what it replaces need not be what it is at. `Remaining` says that the sample nevertheless
holds, of every kind, as many tokens as positions are left, so that every search succeeds,
and that markers leave the sample in pairs, so that the validation of the expanded sample
decides what it would decide of the prompt. `Counted` says that each cursor is the number of
tokens of its kind the scan has come past in the whole batch, plus one per vocal video for the
audio; with `ClosedBefore` this gives the outcome. For the second theorem `ShownInv` says that
the prompts behind the scan show the media 1 to b of a kind, the sample b + 1 to the cursor,
none of them twice, and `Carries` that nothing shows no medium; it does not matter which token
the search found. For the order it does: `Aligned` says that in a batch of prompts that are
not `Mixed` the sample is, from some place on, its text shifted by the markers taken out, and
holds no media token before that place. From it `FindsSingle` and `FindsVideo` prove that the search finds exactly
the token the scan is at, so a new element stands behind all that show a medium
(`PlaceOrders`). `Mixed` is what `FindsVideo` fails for, and there the order does not hold.

**ProcessorCacheProofs.** `CacheTypeOKHolds` and `PromptStaysCachedHolds`, whatever is
rejected, reset, overtaken or refused; `ReceiverMirrorsSenderHolds` and `EvictionEndsHolds`
for an undisturbed system. The keys, their sizes, the capacity and the prompts are
arbitrary. `TouchFacts`, `PopFacts` and `StoredFacts` say what touching, evicting and
setting do to the order. That the sender keeps a whole prompt (`SenderKeeps`) is not
because the prompt fits, which nothing checks: after the first pass a key that is still to
be set is in the order without data, and an eviction that came so far would never get past
it, so a pass that ends well has evicted nothing of the prompt. What got through the sender
therefore fits, and the receiver relies on that (`FittingPrompt`); this is the invariant
`CacheInv` carries from one process to the other. Both passes are
recursive functions inside a definition; `RunFacts` and `TouchedFacts` speak of any chain of
intermediate caches, and `Climb` is the induction, over a set of indices. `CacheInv` also says
that both caches are `Sound`. `Mirror` says that
in an undisturbed system the sender has no dangling key, and that there is a chain of
caches from the receiver's, one per message under way, each leading to the next without an
error, that ends in the sender's (`Leads`). A new message prolongs the chain because the
sender just did what the receiver will do (`SameCache`: the data sent along depends on
nothing but the cache), a received one shortens it, and sorting by position changes nothing
of a prompt that is in order (`ByOffsetSorted`).

**ConvChunkSyncProofs.** `ConvTypes`, `ConvAligned` (ranks that wait, wait in the same
collective) and `ConvOwnRows` (a rank leaves with its own rows, in order, without
padding), for any ranks, chunk size, number of convolutions and batches. Alignment is not inductive: the branch a
rank takes after a reduction depends on lengths only that rank knows. The invariant
`IInv` adds that all ranks are at the same place (`Lockstep`), that the lengths force
every rank into the same branch (`SameBranches`: minimum and maximum of the chunk
counts coincide exactly when all do, and after padding all totals are equal) and
what each rank has convolved so far (`RowsSoFar`). That the reductions return an
extreme that some rank has, `Extremes`, follows from finiteness of the ranks through
`FiniteGreatest` and `FiniteLeast`. `ConvAssumption` contains the one thing the code
leaves to its data loader: audio on all ranks or on none. A rank whose batch has no
audio skips the tower, and its peers would wait in the first reduction for ever.

**ShmBroadcastProofs.** `NobodyReadsWhatIsWrittenHolds` and `QueueIsAChannelHolds` (the
queue implements `BroadcastChannel`), for any readers, ring and messages, with the writer
ending anywhere and every wait timing out. A writer that finds all read flags set, and a
reader that finds the written flag set, learn nothing by themselves: a flag is 1 or 0
again one lap later. The invariant `RingInv` therefore says which lap each flag is about:
both sides are where their counts put them, a reader at most one lap behind (`Positions`);
the blocks of the last lap hold their messages and their flags tell who passed them
(`LastLap`); what the block at the writer, the blocks never written, a block being filled
and a reader that found its block look like (`AtWriter`, `NeverWritten`, `Filling`,
`Found`). The same block is met again after exactly `MaxChunks` messages, which is the
arithmetic of `%` in the lemmas. The refinement needs `SocketInv` as well: which messages
are in a reader's socket, in which order and with none missing (`Handed`, `InSocket`,
`InOrder`, `NoneMissing`), also while the writer is between the ring and the sockets
(`Sending`).

**MMScheduleProofs.** For any requests, prompts, policy, budgets, cache size and number of
steps in flight:
`SchedulerKeepsContract` (`MMSpec => ECSpec`: what `allocate` asserts is true whenever it
is called), hence `EngineCacheBooks`; `HoldersStillNeedHolds` (no path leaks a reference);
`FcfsFindsEveryOutputHolds` (no "Encoder cache miss") and `WorkerMirrorsManagerHolds`,
both first come, first served. The first three rest on `SchedInv`. What `can_allocate`
granted is allocated several actions later, so the contract needs `CurInv`: the items
granted to the request at hand are distinct, not cached, and fit in the space reserved.
References need a reason for every holder at every place of the step (`HolderInv`: the
request is running and not past the item, is the one at hand, was passed over, or is
about to be released by `_update_after_schedule`), and the queues must agree with the
statuses (`QueuesInv`, `OrderInv`). The other two need `FcfsInv`: under FCFS a victim is
never a request the step already scheduled (`InPlace`); what the step under construction
encodes or gathers is cached and held by its request until it is committed (`StepInv`);
the manager's entries are what the worker will hold after the queued steps, less what was
evicted, with what the step encodes (`MirrorInv`); and each queued step finds what it
gathers in what the worker will hold by then (`QueuedInv`). Under the priority policy `InPlace` fails, which is
`priority_miss`. What the worker holds after a queue of steps is defined by "encoded by
some step and not dropped by a later one", so that a step at either end of the queue is
one lemma (`HeldAfter`); the oldest step without an output is found by least counterexample
over the numbers.

`MMTypeOKHolds`, under either policy: the two budgets of `schedule()` never go negative
and no queued step exceeds them, also when a preemption in the middle of the step gives
part of them back. It rests on `LimitsInv`. What is left of each budget and what the step
has taken of it never add up to more than the budget (`BudgetInv`); the tokens and encoder
rows of a step are counted as sets, so scheduling adds at most what it charges and a
preemption frees exactly what it gives back (`StepMore`, `StepLess`). `num_new_tokens` is
a natural number because nobody is scheduled past the prompt (`PromptInv`), and that needs
`_update_after_schedule` to count a request once: a step holds no request twice
(`OnceInv`), although the priority policy removes requests from `running` before, at and
after the position of the loop. TLC checked `LimitsInv` on the engines of the run first.

**WorkerRPCProofs.** `AnswersInOrderHolds`, with every fault, and `AnswersAreOwnHolds`, for
any ranks, calls and batches in flight. An answer carries no number, so all that matches
it with a call is its place in a queue. The invariant `RPCInv` follows a call from the
broadcast to its answer. `StreamInv`: what is under way to and from a worker (calls not
received, the call being executed, outputs being copied, answers sent) is one stream in
the order of the calls, without a gap, and all that was taken out of it is older.
`EngineInv`: calls are read in the order they were made, futures that are drained before
a blocking call included, and a call has read its ranks in order so far. With these a
call can never get an answer to a later one. That it gets its own also needs `OwnInv`:
without a failure a rank leaves nothing over for the next call (`NoneLeftOver`). With
calls that raise this remains true of rank 0 only, because it is the first queue
each call reads; the proof attempt for all ranks is how the premise of `AnswersAreOwn`
was found. The conjuncts were checked by TLC for two ranks and three calls with every set
of faults before they were proved.

**KVBlocksProofs.** `PoolConsistentHolds`, `CacheClosedUnderPrefixHolds` and the refinement
`EveryRequestHasItsOwnCacheHolds`, for any requests, prompts, number and size of blocks and
number of steps in flight; the first two under either policy, withdrawn steps included, the
refinement under FCFS. `PoolConsistent` lacks one thing to be
inductive: why a block that a step publishes was nobody else's. `PoolInv` adds `Shape`,
which ties the length of a table and the number of published blocks to the computed
tokens, so that the blocks behind the published ones are the open ones, and says that a
block's users are finitely many, so that counts can be compared. Both admissions are one
case, `Allocates`, whose lemmas follow the call: numbers of blocks (`AllocNumbers`), blocks
handed out (`AllocBlocks`), the new table (`AllocTable`), hashes and map (`AllocHash`,
`AllocMap`), users (`AllocUsers`). That the cache is closed under prefixes depends on the
order of the free queue. `ChainInv` says that published blocks have their request's hashes
(`TableHashes`) and that the block before a free one is in use or further back in the
queue (`FreeChain`). It is preserved because a request's blocks are queued last one first
(`FreeOrdered`), because the queue is used up from the front and a hit does not change the
order of the rest (`AllocOrder`), and because equal hashes are of the same place in two
prompts and have equal hashes before them (`HashBefore`). `evict_blocks` takes a block out
of the middle of a chain, hence the premise. `SelectSeq` is recursive and the provers know
nothing of it; `KVBlocks` filters with `AtPlaces`, which `AtPlacesFacts` characterises. TLC
checked `PoolInv` and `ChainInv` on the instance of `prefix_cache` first.

For the refinement the contents of the slots must be known, and a published block may not
be written yet: it is hit as soon as its computation is scheduled. `SlotInv` therefore
speaks of what a slot will hold once the steps in flight are executed (`WillHold`): the
last of them that writes it decides, else what it holds now. Every computed position of a
request will be its own (`OwnKeys`), and every block with a hash will hold the keys the
hash is of (`HashKeys`), which is what a hit relies on. Scheduling a step disturbs neither,
because it writes only into blocks that are new or its request's open one
(`AllocPrivate`). That a position is already there, and stays, is `Settled`: no step in
flight writes a position before the oldest step of its request, nor one behind the step
that computes it. Steps of a freed request still run, into blocks somebody else may have
by then; they do no harm because the worker keeps the order, and a later step with the
same block comes after them. `StepsInv` and `LiveInv` say that a step has a block for each
of its tokens and that the steps of a request follow one another up to its computed
tokens. With these, `Shown` is the request's own prefix (`ShownOwn`), allocation,
`evict_blocks` and the reset change nothing of it, `Free` drops it, and executing a step of
a request that was not freed grows it (`StepOfPrivate`). A withdrawn step leaves hashes
whose keys nobody will write, which breaks `HashKeys`: hence the premise, and `stale_hit`. TLC checked the conjuncts of
`SlotInv` on the instance of `prefix_cache` first.

The same module proves `ListImplementsQueueHolds`: for any number of blocks, the linked list
implements `FreeQueue`. The refinement says what the walk along the `next` links gives; the
inductive invariant `ListInv` also speaks of what the walk does not see. There is a sequence
of distinct blocks that both links thread from the fake head to the fake tail (`Threads`),
every block outside it has no link in either direction, and `num_free_blocks` is its
length. `remove` needs the backward links, and `append` and `append_n` need the old last
block to be the one behind which they put the new ones. The five operations are two
changes of the links: `popleft`, `popleft_n` and `remove` cut out the elements from one
place to another (`CutThreads`), `append` and `append_n` join unlinked blocks on behind the
last one (`JoinThreads`). `WalkFinds` shows that the walk is the threaded sequence; it is
the one induction, over the steps of the walk, and rests on `RowFits`, that a list of
distinct blocks is no longer than the walk. TLC checked `ListInv`, with the walk as the
sequence, for five blocks first.

**Only model-checked.**

* Liveness (`EventuallyCatchesUp`, `LockComesFree`, `Delivered`, `OrphansExit`,
  `EveryWaitEnds`), which the prover cannot treat.
* What recursion or folds over data compute: `MRopeIndex` with `MRopeRunner` and
  `RopeDeltas`, `BlockHash`, `ModalityMerge`. A proof would be an
  induction over the data.

## 5. The refinements

TLC checks all four on the instances of the runs, and all four are proved.

| detailed | abstract | property | meaning |
|---|---|---|---|
| `MMSchedule` | `EncoderCache` | `ECSpec` | the scheduler calls the manager only within the contract of its assertions, so the theorems about `ECSpec` apply to it |
| `KVBlocks` | `PrivateKV` | `EveryRequestHasItsOwnCache` | attention of a request sees the keys and values of its own prefix under FCFS; sharing, eviction and reuse do not show |
| `FreeBlockList` | `FreeQueue` | `ListImplementsQueue` | the pointers are a sequence, and every operation does to it what the pool expects |
| `ShmBroadcast` | `BroadcastChannel` | `QueueIsAChannel` | every reader is handed every message once and in order, with bounded lag; unless a read of the socket times out |

`KVBlocks` maps a request to the positions of its block table that executed steps
have filled: those before its oldest step under way. `PrivateKV` allows no other
contents than the request's own prefix, so a block taken over too early, evicted
without leaving the map, or shared while it is written breaks the refinement.

## 6. Findings

With a run:

* `priority_miss`. Under the priority policy a victim that was already scheduled in
  the step loses its `scheduled_encoder_inputs`, but the entry granted to it stays in
  `cached`. A later request with the same item scores a hit on an output nobody
  computed, and the worker meets its "Encoder cache miss" assertion. For the same
  reason `FcfsFindsEveryOutput` and `WorkerMirrorsManager` are about FCFS.
* `vocal_stall`. Two vocal videos can each hold one of their two encoder outputs and
  wait for room for the other. Nothing is preempted for encoder cache space, so both
  get zero tokens from then on.
* `stale_hit`. The same preemption on the side of the keys and values: `allocate_slots` has
  published the full blocks of the victim's step, the step is taken out of the output, and
  `free` leaves the blocks their hashes. A later request with that prefix is given blocks
  nobody has filled (`HitsAreComputed`).
* `hash_shared`. In a block before the end of the range of a vocal video, the loop over
  its items ends at the first one, so the other leaves no key: two requests with the
  same frames and different sound have the same hashes, and share keys and values.
* `merge_swap`. The first window of the list of modalities whose counts fit is taken. A
  stale entry of an earlier audio clip lets the window (audio, video) fit a vocal video
  with as many frames' tokens as sound tokens: rows go to the wrong tokens, silently.

Met while modelling, and the reason for a premise of a property, or for what an instance
leaves out. The instances of the merge, block hashes, positions and turns contain the cases
listed under them: with any of these premises left out TLC finds a violation.

* *Scheduler.* A vocal video whose two outputs fit in the encoder cache one by one but
  not together passes validation (`input_processor.py:409`) and is never scheduled past
  its first placeholder; `scheduler` uses a cache that holds both. The waiting loop's exit for
  `num_new_tokens == 0` (`scheduler.py:699`) does not give back a hit scored for an
  earlier item of the same range, as the exit for missing KV blocks does (`:757`, whose note
  says "we need to untouch the request from the encode cache manager"). A request that
  stays in the waiting queue can so keep an entry from being evicted. The proof of
  `HoldersStillNeed` found this; the property excepts a request that was `PassedOver`.
* *Processor cache* (premise `Undisturbed`). A prompt refused after rendering
  (`input_processor.py:252`), one overtaken by another (`chat_completion/serving.py:332`), or one
  whose modalities are not in the order of their positions (`input_processor.py:303`) makes the
  two caches differ, and a later item can arrive without its data. A key touched and
  never set is never evicted (`utils/cache.py:205`): the loop that makes room does not end.
* *Merge* (premises `alone`, and for `RowsInPlace` the V1 runner). Where no window
  fits, a list of the right length is taken with wrong counts and the step fails
  (`tlive_omni.py:1114`); two vocal videos in a batch meet this, and what they leave in the
  list reaches later steps. The gather of the V2
  runner assigns the mask of an item to its range (`encoder_runner.py:129`), so the sound
  of a vocal video erases its frames where the V1 runner ORs them.
* *Block hashes* (premise `OneItemInTail`). Resuming at the last item leaves out an earlier
  one of the same block (`kv_cache_utils.py:587`). Names of adapters and salts are bare
  strings (`kv_cache_utils.py:525`); the instance has none that are both.
* *Positions* (premise `SoundReaches`; for `TokenKeepsPosition` on the V2 runner only).
  After a vocal grid the next position is taken from the sound, also when the grid reaches
  further (`tlive_omni.py:1577`); on the V2 runner, a preempted request then moves its
  generated tokens to lower positions (`rope.py:71`).
* *Turns* (premise: not in `strayed`). Later calls use the difference the last
  indexed prompt left on the model, whichever conversation that was
  (`modeling_tlive_omni.py:583`), and count the tokens of new images as text.
* *Message queue* (premises `Big = {}` and `"recv" \notin TimesOut`). A reader that waits
  for the overflow socket is not woken by a shutdown (`shm_broadcast.py:778`); a timeout
  there leaves the message for the next overflow (`shm_broadcast.py:768`). Buffers of 1 MiB
  and more are slices of a block that is already marked as read (`shm_broadcast.py:766`);
  the model hands out copies.
* *Executor* (premises on `Faults`). After a failed or late answer, those of other ranks
  stay in their queues and are taken for the next call's (`multiproc_executor.py:378`,
  `:380`); when calls raise, `AnswersAreOwn` is therefore about rank 0, which is read first:
  a call that collects all ranks, or a step of which another rank has the output
  (`:474`), can get the answer of the call before. A call that runs into a shutdown can
  return an empty list (`:365`); when the copying thread raises, no answer is sent again
  (`:929`), so `EveryWaitEnds` is about deaths.

## 7. Not modelled

* Tensor arithmetic, attention, sampling and the generation loop: out of a model
  checker's reach. Configuration classes hold constants; the example scripts are
  straight-line drivers.
* `_maybe_apply_prompt_updates` of the vLLM processor, which does for vLLM what
  `PromptExpand` models for the Hugging Face processor by other means (matching token
  sequences); the shm object store, the other type of processor cache.
* Data parallel waves and the coordinator, the handshake that connects message queues,
  remote readers, start-up and signals.
* Within the modelled parts: speculative decoding, LoRA loading, KV and encoder
  connectors, streaming sessions, sliding windows and other attention groups.
* The rest of the vLLM fork: other models, kernels, quantisation, entry points,
  benchmarks. It is upstream code, more than half a million lines, that TLive-Omni
  neither changes nor depends on for its own behaviour.

## 8. Plan

Models: `MMSchedule` over `KVBlocks` instead of a capacity; `_maybe_apply_prompt_updates`;
data parallel waves.
