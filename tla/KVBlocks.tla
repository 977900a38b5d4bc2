------------------------------ MODULE KVBlocks ------------------------------
(***************************************************************************)
(* KVCacheManager and BlockPool of vLLM V1 for one full attention group    *)
(* with prefix caching. A request's key-value cache lives in blocks listed *)
(* in its block table; a full block is published in the hash map as soon   *)
(* as its computation is scheduled, a freed block keeps its contents and   *)
(* its hash until it is allocated again, and a request whose prefix is     *)
(* cached takes those blocks over.                                         *)
(*                                                                         *)
(* Steps are executed by the worker in the order they were scheduled       *)
(* (inflight), possibly after the request was freed or its blocks were     *)
(* given to somebody else. Under the priority policy a step can also be    *)
(* withdrawn before the worker ever sees it. What the device holds is      *)
(* slots: the contents of slot i of block b is the token prefix its key    *)
(* and value were computed from.                                           *)
(*                                                                         *)
(* A block hash is a chain over all tokens up to the block's end, so it is *)
(* modelled by that prefix (BlockHash checks that the chain tells prefixes *)
(* apart). Speculative tokens, external KV and sliding windows are not     *)
(* used by TLive-Omni and left out.                                        *)
(***************************************************************************)
EXTENDS Integers, FiniteSets, Sequences, SequencesExt

CONSTANTS
    Reqs,          \* request ids
    Prompt,        \* all tokens of each request
    NumBlocks,     \* num_gpu_blocks; block 0 is the null block
    BlockSize,     \* tokens per block
    MaxInFlight,   \* steps scheduled and not yet executed (bound)
    Workloads      \* which requests come, the scheduling policy, and whether
                   \* evict_blocks is ever called

ASSUME KVAssumption ==
    /\ NumBlocks \in Nat \ {0}
    /\ BlockSize \in Nat \ {0}
    /\ MaxInFlight \in Nat \ {0}
    /\ Workloads \subseteq [clients : SUBSET Reqs, policy : {"fcfs", "priority"},
                             mayInvalidate : BOOLEAN]
    /\ \A r \in Reqs : Prompt[r] \in Seq(ToSet(Prompt[r])) /\ Prompt[r] # <<>>

VARIABLES
    refCnt,     \* ref_cnt of each block
    hash,       \* block_hash of each block
    cache,      \* cached_block_hash_to_block: blocks of a hash, oldest first
    free,       \* free_block_queue
    table,      \* req_to_blocks
    numCached,  \* num_cached_block, 0 for a request that has none
    computed,   \* num_computed_tokens (advanced when a step is scheduled)
    inflight,   \* steps scheduled and not yet executed, oldest first
    slots,      \* contents of the blocks on the device
    retry,      \* <<request, tokens>> that schedule() has withdrawn a step for, or <<>>
    workload    \* the member of Workloads this behaviour is about

kvVars == <<refCnt, hash, cache, free, table, numCached, computed, inflight, slots,
            retry, workload>>

Blocks == 1 .. NumBlocks - 1
NoHash == <<>>
Empty == <<>>

Cdiv(a, b) == (a + b - 1) \div b
NumTokens(r) == Len(Prompt[r])

\* block_hashes[i - 1] of the request
BlockHashOf(r, i) == SubSeq(Prompt[r], 1, i * BlockSize)
FullBlocks(r) == NumTokens(r) \div BlockSize
Hashes == UNION {{BlockHashOf(r, i) : i \in 1 .. FullBlocks(r)} : r \in Reqs}

\* Where position p of a request with block table bs is kept.
SlotOf(bs, p) == slots[bs[Cdiv(p, BlockSize)]][((p - 1) % BlockSize) + 1]

\* The items of s at the places K, in the order of s.
AtPlaces(s, K) ==
    LET place(k) == CHOOSE i \in K : Cardinality({j \in K : j <= i}) = k
    IN  [k \in 1 .. Cardinality(K) |-> s[place(k)]]
Without(s, S) == AtPlaces(s, {i \in DOMAIN s : s[i] \notin S})

KVBlocksInit ==
    /\ workload \in Workloads
    /\ refCnt = [b \in Blocks |-> 0]
    /\ hash = [b \in Blocks |-> NoHash]
    /\ cache = [h \in Hashes |-> <<>>]
    /\ free = [i \in 1 .. NumBlocks - 1 |-> i]
    /\ table = [r \in Reqs |-> <<>>]
    /\ numCached = [r \in Reqs |-> 0]
    /\ computed = [r \in Reqs |-> 0]
    /\ inflight = <<>>
    /\ slots = [b \in Blocks |-> [i \in 1 .. BlockSize |-> Empty]]
    /\ retry = <<>>

-----------------------------------------------------------------------------
(* get_computed_blocks                                                     *)

\* max_cache_hit_length: the last token is always computed again.
HitLimit(r) == (NumTokens(r) - 1) \div BlockSize

\* find_longest_cache_hit: the blocks of the longest cached chain; get_one_block
\* takes the oldest block of a hash.
HitLength(r) ==
    CHOOSE k \in 0 .. HitLimit(r) :
        /\ \A i \in 1 .. k : cache[BlockHashOf(r, i)] # <<>>
        /\ k < HitLimit(r) => cache[BlockHashOf(r, k + 1)] = <<>>
HitBlocks(r) == [i \in 1 .. HitLength(r) |-> Head(cache[BlockHashOf(r, i)])]

-----------------------------------------------------------------------------
(* allocate_slots                                                          *)

\* Mutants: a touch that leaves the block in the free queue; an eviction left out.
FreeKeepsTouched(hits) == free
NothingEvicted(new) == {}

\* touch and get_new_blocks raise the count of the blocks they hand out.
RefsAfter(hits, new) ==
    [b \in Blocks |-> IF b \in hits \cup new THEN refCnt[b] + 1 ELSE refCnt[b]]

\* touch takes a block nobody used out of the free queue.
FreeAfterTouch(hits) == Without(free, {b \in hits : refCnt[b] = 0})

\* get_num_blocks_to_allocate: a hit on a free block uses up a free block too.
Evictable(hits) == Cardinality({b \in hits : refCnt[b] = 0})

\* _maybe_evict_cached_block for every block popped from the free queue.
EvictedOf(new) == {b \in new : hash[b] # NoHash}
MapAfterEvict(new) == [h \in Hashes |-> Without(cache[h], EvictedOf(new))]

\* cache_full_blocks: how many blocks of r are published once upto tokens are
\* scheduled.
Published(r, upto) == upto \div BlockSize

\* Blocks from + 1 .. to of table bs get their hash and enter the map.
Publish(r, bs, from, to, new) ==
    LET fresh == {i \in 1 .. Len(bs) : i > from /\ i <= to} IN
    /\ hash' = [b \in Blocks |->
                   IF \E i \in fresh : bs[i] = b
                   THEN BlockHashOf(r, CHOOSE i \in fresh : bs[i] = b)
                   ELSE IF b \in EvictedOf(new) THEN NoHash ELSE hash[b]]
    /\ cache' = [h \in Hashes |->
                   MapAfterEvict(new)[h] \o
                   SetToSeq({bs[i] : i \in {j \in fresh : BlockHashOf(r, j) = h}})]

\* n tokens of r, after the blocks hit in the prefix cache.
AllocateSlots(r, hits, n) ==
    LET hitSet == ToSet(hits)
        start == computed[r] + Len(hits) * BlockSize
        upto == start + n
        need == Cdiv(upto, BlockSize) - Len(table[r]) - Len(hits)
        rest == FreeAfterTouch(hitSet)
        new == SubSeq(rest, 1, need)
        bs == table[r] \o hits \o new
    IN  /\ need + Evictable(hitSet) <= Len(free)
        /\ refCnt' = RefsAfter(hitSet, ToSet(new))
        /\ free' = SubSeq(rest, need + 1, Len(rest))
        /\ table' = [table EXCEPT ![r] = bs]
        /\ Publish(r, bs, numCached[r] + Len(hits), Published(r, upto), ToSet(new))
        /\ numCached' = [numCached EXCEPT ![r] = Published(r, upto)]
        /\ computed' = [computed EXCEPT ![r] = upto]
        /\ inflight' = Append(inflight, [req |-> r, blocks |-> bs, from |-> start,
                                         to |-> upto, first |-> table[r] = <<>>,
                                         live |-> TRUE])
        /\ UNCHANGED slots

\* A waiting request is admitted with what the prefix cache has for it.
AllocateWaiting(r, n) ==
    /\ retry = <<>>
    /\ table[r] = <<>>
    /\ HitLength(r) * BlockSize + n <= NumTokens(r)
    /\ AllocateSlots(r, HitBlocks(r), n)
    /\ UNCHANGED retry

\* A running request goes on.
AllocateRunning(r, n) ==
    /\ retry \in {<<>>, <<r, n>>}
    /\ table[r] # <<>>
    /\ computed[r] + n <= NumTokens(r)
    /\ AllocateSlots(r, <<>>, n)
    /\ retry' = <<>>

\* allocate_slots returns None for n more tokens of a running request.
Refused(r, n) ==
    /\ table[r] # <<>>
    /\ computed[r] + n <= NumTokens(r)
    /\ Cdiv(computed[r] + n, BlockSize) - Len(table[r]) > Len(free)

-----------------------------------------------------------------------------
(* free, evict_blocks, reset_prefix_cache, and the worker                  *)

\* Mutant: blocks queued from the head of the request.
HeadFirst(bs) == bs

\* The blocks are freed in reverse order, so that the tail is evicted first.
FreeOrder(bs) == Reverse(bs)

\* The blocks of a request are given back, with their hashes, and it is taken back
\* to its start.
Release(r) ==
    /\ table[r] # <<>>
    /\ refCnt' = [b \in Blocks |-> IF b \in ToSet(table[r]) THEN refCnt[b] - 1 ELSE refCnt[b]]
    /\ LET bs == FreeOrder(table[r])
       IN  free' = free \o AtPlaces(bs, {i \in DOMAIN bs : refCnt[bs[i]] = 1})
    /\ table' = [table EXCEPT ![r] = <<>>]
    /\ numCached' = [numCached EXCEPT ![r] = 0]
    /\ computed' = [computed EXCEPT ![r] = 0]
    /\ UNCHANGED <<hash, cache, slots>>

\* The steps s when nothing of r is expected of them any more.
Disowned(s, r) == [i \in DOMAIN s |-> [s[i] EXCEPT !.live = @ /\ s[i].req # r]]

\* Finish or abort of a request, or preemption of one without a step in the call to
\* schedule() that preempts it: its steps in flight still run. While schedule() makes
\* room only preemption remains, and preempting the request itself ends the attempt.
Free(r) ==
    /\ retry # <<>> => Refused(retry[1], retry[2])
    /\ Release(r)
    /\ inflight' = Disowned(inflight, r)
    /\ retry' = IF retry # <<>> /\ retry[1] = r THEN <<>> ELSE retry

\* Step i may be of the call to schedule() that is going on, in its loop over the
\* running requests: no request twice, and none admitted from the waiting queue.
OfThisCall(i) ==
    \A j \in i .. Len(inflight) :
        /\ ~inflight[j].first
        /\ \A k \in i .. Len(inflight) : inflight[j].req = inflight[k].req => j = k

\* Under the priority policy the request preempted for q can be one that the call has
\* scheduled already: num_scheduled_tokens and req_to_new_blocks lose its entry, and the
\* worker never gets the step. The hashes allocate_slots gave its blocks remain. The
\* allocation for q is tried again at once.
Withdraw(r, i, q, n) ==
    /\ workload.policy = "priority"
    /\ retry \in {<<>>, <<q, n>>}
    /\ Refused(q, n)
    /\ inflight[i].req = r /\ inflight[i].live
    /\ OfThisCall(i)
    /\ \A j \in i .. Len(inflight) : inflight[j].req # q
    /\ Release(r)
    /\ inflight' = Disowned(RemoveAt(inflight, i), r)
    /\ retry' = <<q, n>>

\* evict_blocks: a block reported invalid leaves the prefix cache, not its users.
EvictBlock(b) ==
    /\ workload.mayInvalidate
    /\ retry = <<>>
    /\ hash[b] # NoHash
    /\ hash' = [hash EXCEPT ![b] = NoHash]
    /\ cache' = [cache EXCEPT ![hash[b]] = Without(@, {b})]
    /\ UNCHANGED <<refCnt, free, table, numCached, computed, inflight, slots, retry>>

\* Refused while any block but the null block is in use.
ResetPrefixCache ==
    /\ retry = <<>>
    /\ Len(free) = NumBlocks - 1
    /\ cache' = [h \in Hashes |-> <<>>]
    /\ hash' = [b \in Blocks |-> NoHash]
    /\ UNCHANGED <<refCnt, free, table, numCached, computed, inflight, slots, retry>>

\* The worker runs the oldest step: keys and values of its tokens are written into
\* the blocks the step was scheduled with.
Execute ==
    /\ inflight # <<>>
    /\ LET e == Head(inflight)
           at(b, i) == {p \in e.from + 1 .. e.to :
                            /\ e.blocks[Cdiv(p, BlockSize)] = b
                            /\ ((p - 1) % BlockSize) + 1 = i}
       IN  slots' = [b \in Blocks |-> [i \in 1 .. BlockSize |->
                        IF at(b, i) = {} THEN slots[b][i]
                        ELSE SubSeq(Prompt[e.req], 1, CHOOSE p \in at(b, i) : TRUE)]]
    /\ inflight' = Tail(inflight)
    /\ UNCHANGED <<refCnt, hash, cache, free, table, numCached, computed, retry>>

KVBlocksNext ==
    /\ \/ \E r \in workload.clients : \E n \in 1 .. NumTokens(r) :
             /\ Len(inflight) < MaxInFlight
             /\ AllocateWaiting(r, n) \/ AllocateRunning(r, n)
       \/ \E r \in Reqs : Free(r)
       \/ \E r, q \in Reqs : \E i \in DOMAIN inflight : \E n \in 1 .. NumTokens(q) :
             Withdraw(r, i, q, n)
       \/ \E b \in Blocks : EvictBlock(b)
       \/ ResetPrefixCache
       \/ Execute
    /\ UNCHANGED workload

KVBlocksSpec == KVBlocksInit /\ [][KVBlocksNext]_kvVars

-----------------------------------------------------------------------------
\* Type invariant.
KVTypeOK ==
    /\ refCnt \in [Blocks -> Nat]
    /\ hash \in [Blocks -> Hashes \cup {NoHash}]
    /\ cache \in [Hashes -> Seq(Blocks)]
    /\ free \in Seq(Blocks)
    /\ table \in [Reqs -> Seq(Blocks)]
    /\ \A r \in Reqs : numCached[r] \in 0 .. FullBlocks(r) /\ computed[r] \in 0 .. NumTokens(r)
    /\ Len(inflight) <= MaxInFlight

Holders(b) == {r \in Reqs : b \in ToSet(table[r])}
Cached(h) == cache[h] # <<>>

\* ref_cnt is the number of requests that use the block, and no request lists a
\* block twice: after any sequence of hits, frees and preemptions a block is given
\* back exactly when its last user lets go.
RefCountsHolders ==
    /\ \A b \in Blocks : refCnt[b] = Cardinality(Holders(b))
    /\ \A r \in Reqs : IsInjective(table[r])

\* The free queue holds every unused block once and nothing else.
FreeQueueExact ==
    /\ ToSet(free) = {b \in Blocks : Holders(b) = {}}
    /\ IsInjective(free)

\* The hash map and the blocks' own hashes say the same, so that an evicted block
\* cannot be hit and a published one can be evicted.
MapAgreesWithBlocks ==
    /\ \A h \in Hashes : ToSet(cache[h]) = {b \in Blocks : hash[b] = h}
    /\ \A h \in Hashes : IsInjective(cache[h])

\* A block that still has tokens to be written has one user and no hash: nobody
\* else can see it change.
OpenBlocksPrivate ==
    \A r \in Reqs : \A i \in (computed[r] \div BlockSize) + 1 .. Len(table[r]) :
        refCnt[table[r][i]] = 1 /\ hash[table[r][i]] = NoHash

\* The pool, the block tables, the free queue and the hash map tell one story after
\* any sequence of hits, allocations, frees, evictions and resets.
PoolConsistent ==
    KVTypeOK /\ RefCountsHolders /\ FreeQueueExact /\ MapAgreesWithBlocks /\ OpenBlocksPrivate

\* "block_hashes is a chain of block hashes. If a block hash is not in the
\* cached_block_hash_to_id, the following block hashes are not computed yet for
\* sure": with a block its whole prefix is cached, so the search may stop early.
\* Only a block reported invalid leaves a gap.
CacheClosedUnderPrefix ==
    ~workload.mayInvalidate =>
    \A r \in Reqs : \A i \in 2 .. FullBlocks(r) :
        Cached(BlockHashOf(r, i)) => Cached(BlockHashOf(r, i - 1))

\* What the block table of a request shows of the executed steps.
Shown(r) ==
    LET mine == {i \in DOMAIN inflight : inflight[i].req = r /\ inflight[i].live}
        e == inflight[CHOOSE i \in mine : \A j \in mine : i <= j]
        n == IF mine = {} THEN computed[r] ELSE IF e.first THEN 0 ELSE e.from
    IN  [p \in 1 .. n |-> SlotOf(table[r], p)]
Caches == [r \in Reqs |-> Shown(r)]
Private == INSTANCE PrivateKV WITH kv <- Caches

\* Under the FCFS policy every request sees a key-value cache of its own: what its
\* block table shows of the executed steps grows with its prompt and is dropped as a
\* whole, whatever is shared, evicted, preempted or still in flight. FCFS preempts the
\* last running request, which the call to schedule() has not come to; the priority
\* policy can withdraw a step whose blocks are published, and is left out.
EveryRequestHasItsOwnCache ==
    Private!KVInit /\ [][workload.policy = "fcfs" => Private!KVNext]_Caches

\* get_computed_blocks returns "A list of blocks that are computed for the request":
\* when a step is executed, all positions before its own have been computed.
HitsAreComputed ==
    inflight # <<>> =>
        LET e == Head(inflight) IN
        e.live => \A p \in 1 .. e.from : SlotOf(e.blocks, p) = SubSeq(Prompt[e.req], 1, p)
=============================================================================
