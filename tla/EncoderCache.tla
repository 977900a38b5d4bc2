---------------------------- MODULE EncoderCache ----------------------------
(***************************************************************************)
(* EncoderCacheManager of vLLM V1: the scheduler's bookkeeping of which    *)
(* multimodal encoder outputs the workers keep. An entry is shared by all  *)
(* requests whose item has the same mm_hash. An entry nobody references    *)
(* stays cached, oldest first in freeable, until can_allocate needs its    *)
(* room; the hashes evicted since the last step go to the workers.         *)
(*                                                                         *)
(* The dict "cached" is split into its key set (cached) and its values     *)
(* (refs); the OrderedDict "freeable" is the sequence of its keys, its     *)
(* values being Size. The list "freed" is a set: the workers only test     *)
(* membership.                                                             *)
(*                                                                         *)
(* ECSpec is the contract of the manager: what it does for any client that *)
(* allocates only what can_allocate granted.                               *)
(***************************************************************************)
EXTENDS Integers, FiniteSets, Sequences, SequencesExt

CONSTANTS
    Reqs,        \* request ids
    Hashes,      \* mm_hash identifiers
    Size,        \* num_encoder_embeds of the item behind each hash
    CacheSize    \* cache_size, in encoder embeddings

ASSUME EncoderCacheAssumption ==
    /\ IsFiniteSet(Hashes)
    /\ Size \in [Hashes -> Nat]
    /\ CacheSize \in Nat

VARIABLES
    cached,      \* keys of self.cached
    refs,        \* self.cached[mm_hash], {} for a hash that is not cached
    freeable,    \* keys of self.freeable, oldest first
    freed,       \* self.freed
    numFree,     \* self.num_free_slots
    numFreeable  \* self.num_freeable_slots

ecVars == <<cached, refs, freeable, freed, numFree, numFreeable>>

\* The embedding rows behind a set of entries; a slot of the cache holds one row.
Rows(S) == UNION {{h} \X (1 .. Size[h]) : h \in S}
SlotsOf(S) == Cardinality(Rows(S))

Unreferenced == {h \in cached : refs[h] = {}}
Oldest(k) == {freeable[i] : i \in 1 .. k}

\* Mutant: a hit that does not take the entry out of freeable.
HitKeepsFreeable(r, h) ==
    /\ h \in cached
    /\ refs' = [refs EXCEPT ![h] = @ \cup {r}]
    /\ UNCHANGED <<cached, freeable, freed, numFree, numFreeable>>

-----------------------------------------------------------------------------
ECInit ==
    /\ cached = {}
    /\ refs = [h \in Hashes |-> {}]
    /\ freeable = <<>>
    /\ freed = {}
    /\ numFree = CacheSize
    /\ numFreeable = CacheSize

\* check_and_update_cache when it returns True: r joins the holders, and an entry
\* nobody held stops being reclaimable.
CheckAndUpdateHit(r, h) ==
    /\ h \in cached
    /\ refs' = [refs EXCEPT ![h] = @ \cup {r}]
    /\ \/ /\ refs[h] = {}
          /\ \E i \in 1 .. Len(freeable) :
                 freeable[i] = h /\ freeable' = RemoveAt(freeable, i)
          /\ numFreeable' = numFreeable - Size[h]
       \/ /\ refs[h] # {}
          /\ UNCHANGED <<freeable, numFreeable>>
    /\ UNCHANGED <<cached, freed, numFree>>

\* Evicting the k oldest reclaimable entries.
Evict(k) ==
    /\ cached' = cached \ Oldest(k)
    /\ freed' = freed \cup Oldest(k)
    /\ freeable' = SubSeq(freeable, k + 1, Len(freeable))
    /\ numFree' = numFree + SlotsOf(Oldest(k))
    /\ UNCHANGED <<refs, numFreeable>>

\* can_allocate's test of the cache: need counts the item and what the request
\* has already been granted in this step.
CacheHasRoom(need) == need <= numFree \/ need <= numFreeable

\* What can_allocate does when it returns True: evict, oldest first, until need
\* fits, and no further.
Reserve(need) ==
    \/ need <= numFree /\ UNCHANGED ecVars
    \/ /\ need > numFree /\ need <= numFreeable
       /\ \E k \in 1 .. Len(freeable) :
              /\ need <= numFree + SlotsOf(Oldest(k))
              /\ need > numFree + SlotsOf(Oldest(k - 1))
              /\ Evict(k)

\* What the assertions of allocate demand when it is called for every item of S:
\* none is cached and all fit. (numFreeable >= numFree gives the second one.)
Granted(S) == S \cap cached = {} /\ SlotsOf(S) <= numFree

\* allocate for every item of r granted in this step.
Allocate(r, S) ==
    /\ cached' = cached \cup S
    /\ refs' = [h \in Hashes |-> IF h \in S THEN refs[h] \cup {r} ELSE refs[h]]
    /\ numFree' = numFree - SlotsOf(S)
    /\ numFreeable' = numFreeable - SlotsOf(S)
    /\ UNCHANGED <<freeable, freed>>

\* The entries of S that r is the last to hold.
LastHeld(r, S) == {h \in S : refs[h] = {r}}

\* free_encoder_input of r for every hash of S, queueing the entries it was the
\* last to hold in the given order.
FreeInputs(r, S, order) ==
    /\ order \in SetToSeqs(LastHeld(r, S))
    /\ refs' = [h \in Hashes |-> IF h \in S THEN refs[h] \ {r} ELSE refs[h]]
    /\ freeable' = freeable \o order
    /\ numFreeable' = numFreeable + SlotsOf(LastHeld(r, S))
    /\ UNCHANGED <<cached, freed, numFree>>

\* get_freed_mm_hashes: hand the evicted hashes over and forget them.
TakeFreed ==
    /\ freed' = {}
    /\ UNCHANGED <<cached, refs, freeable, numFree, numFreeable>>

Reset ==
    /\ cached' = {}
    /\ refs' = [h \in Hashes |-> {}]
    /\ freeable' = <<>>
    /\ freed' = {}
    /\ numFree' = CacheSize
    /\ numFreeable' = CacheSize

ECNext ==
    \/ \E r \in Reqs, h \in Hashes : CheckAndUpdateHit(r, h)
    \/ \E need \in 0 .. CacheSize : Reserve(need)
    \/ \E r \in Reqs, S \in SUBSET Hashes : Granted(S) /\ Allocate(r, S)
    \/ \E r \in Reqs, S \in SUBSET cached :
           \E order \in SetToSeqs(LastHeld(r, S)) : FreeInputs(r, S, order)
    \/ TakeFreed
    \/ Reset

ECSpec == ECInit /\ [][ECNext]_ecVars

-----------------------------------------------------------------------------
ECTypeOK ==
    /\ cached \subseteq Hashes
    /\ refs \in [Hashes -> SUBSET Reqs]
    /\ freeable \in Seq(Hashes)
    /\ freed \subseteq Hashes
    /\ numFree \in 0 .. CacheSize
    /\ numFreeable \in 0 .. CacheSize

\* The free-slot counter, kept by additions and subtractions spread over
\* can_allocate, allocate and eviction, is exactly the room the entries leave:
\* the cache never holds more embeddings than cache_size.
FreeSlotsExact == numFree = CacheSize - SlotsOf(cached)

\* The reclaimable counter is exactly the room left by the entries some request
\* still holds, so can_allocate never promises room that is in use.
FreeableSlotsExact == numFreeable = CacheSize - SlotsOf({h \in cached : refs[h] # {}})

\* freeable queues every cached entry without holder, once, and nothing else:
\* an entry in use is never evicted and an unused one is never leaked.
FreeableIsUnreferenced ==
    /\ {freeable[i] : i \in 1 .. Len(freeable)} = Unreferenced
    /\ \A i, j \in 1 .. Len(freeable) : freeable[i] = freeable[j] => i = j

\* The books of the manager are exact: both counters and the queue of entries it
\* may evict agree with what is cached and who holds it, after any sequence of
\* hits, grants, releases, evictions and resets.
CacheBooksExact == FreeSlotsExact /\ FreeableSlotsExact /\ FreeableIsUnreferenced

\* An entry leaves the manager's books only by a reset or with its hash among
\* those the workers will be told to drop: no output is kept on a device that
\* the manager no longer counts.
DroppedAreReported ==
    [][\A h \in cached \ cached' : h \in freed' \/ Reset]_ecVars
=============================================================================
