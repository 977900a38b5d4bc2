--------------------------- MODULE ProcessorCache ---------------------------
(***************************************************************************)
(* The multimodal processor cache with IPC caching on, src/vllm/vllm/      *)
(* multimodal/cache.py.  The front end (P0) keeps a MultiModalProcessor-   *)
(* SenderCache with the size of every item, the engine core (P1) a Multi-  *)
(* ModalReceiverCache with the items themselves.  P0 sends an item only    *)
(* when its own cache misses it, so P1 must still hold whatever P0 thinks  *)
(* it holds: both replay the same least-recently-used policy and nothing   *)
(* else keeps them together.                                               *)
(*                                                                         *)
(* A cache is an LRUCache of utils/cache.py on top of cachetools.LRUCache: *)
(* "order" is its _LRUCache__order, "data" the keys of its _Cache__data.   *)
(* touch() puts a key into the order even when nothing is cached for it;   *)
(* such a key is dangling until it is set.  popitem() takes the first key  *)
(* of the order and removes nothing when that key is dangling, so a loop   *)
(* that evicts until there is room never ends once it meets one.           *)
(***************************************************************************)
EXTENDS Integers, Sequences, FiniteSets, SequencesExt, FiniteSetsExt, TLC

CONSTANTS
    Keys,           \* the hashes of multimodal items
    Size,           \* the size of the item of every hash
    Capacity,       \* mm_processor_cache_gb in bytes
    Scenarios       \* the prompts, faults and bounds a behaviour may have

ASSUME ProcessorCacheAssumption ==
    /\ Capacity \in Nat
    /\ Size \in [Keys -> Nat \ {0}]
    /\ \A s \in Scenarios :
        /\ \A pr \in s.prompts : pr \in Seq([hash : Keys, offset : Nat])
        /\ s.faults \subseteq {"reject", "reset"}
        /\ s.maxRendered \in Nat \ {0}
        /\ s.maxWire \in Nat \ {0}

VARIABLES
    scenario,       \* chosen at the start and kept
    sender,         \* the sender cache on P0
    receiver,       \* the receiver cache on P1
    rendered,       \* prompts whose items went through the sender cache
    wire,           \* the input socket of the engine core
    clearing,       \* a reset cleared the sender and has not been sent yet
    resets,         \* reset_mm_cache calls queued for the engine's main thread
    p0, p1          \* "ready", or "hung" in an eviction loop

vars == <<scenario, sender, receiver, rendered, wire, clearing, resets, p0, p1>>

Prompts == scenario.prompts           \* sequences of [hash, offset], by modality
Faults == scenario.faults             \* what may go wrong: "reject", "reset"
MaxRendered == scenario.maxRendered   \* prompts between renderer and engine client
MaxWire == scenario.maxWire           \* messages between the two processes

-----------------------------------------------------------------------------
(* LRUCache.                                                               *)

\* The sum of the sizes, counted byte by byte.
Bytes(k) == {k} \X (1 .. Size[k])
Used(data) == Cardinality(UNION {Bytes(k) : k \in data})

Touch(c, key) == [c EXCEPT !.order = Append(RemoveFirst(@, key), key)]

\* Evicts from the front until what is left uses no more than this.
PopUntil(c, used) ==
    LET Left(n) == c.data \ ToSet(SubSeq(c.order, 1, n))
        n == Min({i \in 0 .. Len(c.order) : Used(Left(i)) <= used})
        popped == SubSeq(c.order, 1, n)
    IN  [cache |-> [order |-> SubSeq(c.order, n + 1, Len(c.order)),
                    data |-> Left(n)],
         endless |-> ~(ToSet(popped) \subseteq c.data)]

\* Mutants: room made without the new item; one unit of room too much.
MakeRoomOver(c, size) == PopUntil(c, Capacity)
MakeRoomStrict(c, size) == PopUntil(c, Capacity - size - 1)

\* __setitem__ of cachetools evicts until the item fits.
MakeRoom(c, size) == PopUntil(c, Capacity - size)

Clear(c) == PopUntil(c, 0)

-----------------------------------------------------------------------------
(* get_and_update_item, the same on both sides.  An item is a record with  *)
(* its hash and whether its data is there ("full").  What comes back is    *)
(* full exactly when the cache did not have it: the sender drops the data  *)
(* of the other items.                                                     *)

Updating(cache, out, status) == [cache |-> cache, out |-> out, status |-> status]

GetAndUpdateItem(acc, item) ==
    LET hash == item.hash
        room == MakeRoom(acc.cache, Size[hash])
        stored == Touch([room.cache EXCEPT !.data = @ \cup {hash}], hash)
    IN  IF acc.status # "ok" THEN acc
        ELSE IF hash \in acc.cache.data
             THEN Updating(Touch(acc.cache, hash),
                           Append(acc.out, [item EXCEPT !.full = FALSE]), "ok")
        ELSE IF ~item.full \/ Size[hash] > Capacity
             THEN [acc EXCEPT !.status = "error"]
        ELSE IF room.endless THEN [acc EXCEPT !.status = "hung"]
        ELSE Updating(stored, Append(acc.out, item), "ok")

\* Both passes over the items of a prompt, from the first to the last.
Touched(c, items) ==
    LET after[i \in 0 .. Len(items)] ==
            IF i = 0 THEN c ELSE Touch(after[i - 1], items[i].hash)
    IN  after[Len(items)]

Updated(c, items) ==
    LET after[i \in 0 .. Len(items)] ==
            IF i = 0 THEN Updating(c, << >>, "ok")
            ELSE GetAndUpdateItem(after[i - 1], items[i])
    IN  after[Len(items)]

\* Mutant: nothing is touched first, which is what the two passes are for.
UpdateUntouched(c, items) == Updated(c, items)

\* All items are touched before the first one is updated.
GetAndUpdate(c, items) == Updated(Touched(c, items), items)

-----------------------------------------------------------------------------
(* P0.                                                                     *)

\* _get_cache_missing_items: the items the processor must produce.
CacheMissing(c, prompt) ==
    [i \in DOMAIN prompt |->
        [hash |-> prompt[i].hash, offset |-> prompt[i].offset,
         full |-> prompt[i].hash \notin c.data]]

\* Mutant: the order turned round.
ByOffsetReversed(items) == Reverse(items)

\* argsort_mm_positions: items at one offset stay in their order.
RankOf(items, i) ==
    Cardinality({j \in DOMAIN items :
                    \/ items[j].offset < items[i].offset
                    \/ items[j].offset = items[i].offset /\ j <= i})
ByOffset(items) ==
    [k \in DOMAIN items |-> items[CHOOSE i \in DOMAIN items : RankOf(items, i) = k]]

Rendering(prompt) == GetAndUpdate(sender, CacheMissing(sender, prompt))

\* The single worker of the renderer's executor takes a prompt through the
\* processor and the sender cache.
Process(prompt) ==
    /\ p0 = "ready"
    /\ Len(rendered) < MaxRendered
    /\ Rendering(prompt).status = "ok"
    /\ sender' = Rendering(prompt).cache
    /\ rendered' = Append(rendered, Rendering(prompt).out)
    /\ UNCHANGED <<scenario, receiver, wire, clearing, resets, p0, p1>>

\* cachetools refuses an item larger than the whole cache; what was touched
\* and set before stays as it is.
ProcessFails(prompt) ==
    /\ p0 = "ready"
    /\ Len(rendered) < MaxRendered
    /\ Rendering(prompt).status = "error"
    /\ sender' = Rendering(prompt).cache
    /\ UNCHANGED <<scenario, receiver, rendered, wire, clearing, resets, p0, p1>>

ProcessHangs(prompt) ==
    /\ p0 = "ready"
    /\ Len(rendered) < MaxRendered
    /\ Rendering(prompt).status = "hung"
    /\ p0' = "hung"
    /\ sender' = Rendering(prompt).cache
    /\ UNCHANGED <<scenario, receiver, rendered, wire, clearing, resets, p1>>

AddMsg(items) == [type |-> "ADD", items |-> items]
ResetMsg == [type |-> "UTILITY", items |-> << >>]

\* process_inputs puts the items in the order of their positions and the
\* engine client sends the request.  The requests of different clients come
\* here in any order.
Submit(i) ==
    /\ Len(wire) < MaxWire
    /\ wire' = Append(wire, AddMsg(ByOffset(rendered[i])))
    /\ rendered' = RemoveAt(rendered, i)
    /\ UNCHANGED <<scenario, sender, receiver, clearing, resets, p0, p1>>

\* A prompt that fails _validate_model_inputs, or whose client is gone,
\* never reaches P1.
Reject(i) ==
    /\ "reject" \in Faults
    /\ rendered' = RemoveAt(rendered, i)
    /\ UNCHANGED <<scenario, sender, receiver, wire, clearing, resets, p0, p1>>

\* reset_mm_cache: first the sender, in the renderer's executor ...
ClearSender ==
    /\ "reset" \in Faults
    /\ p0 = "ready"
    /\ clearing = FALSE
    /\ sender' = IF Clear(sender).endless THEN sender ELSE Clear(sender).cache
    /\ p0' = IF Clear(sender).endless THEN "hung" ELSE "ready"
    /\ clearing' = ~Clear(sender).endless
    /\ UNCHANGED <<scenario, receiver, rendered, wire, resets, p1>>

\* ... and when that is done a utility call for P1.
SendReset ==
    /\ clearing
    /\ Len(wire) < MaxWire
    /\ wire' = Append(wire, ResetMsg)
    /\ clearing' = FALSE
    /\ UNCHANGED <<scenario, sender, receiver, rendered, resets, p0, p1>>

-----------------------------------------------------------------------------
(* P1.                                                                     *)

Arrived(type) == p1 = "ready" /\ wire # << >> /\ Head(wire).type = type

Receiving == GetAndUpdate(receiver, Head(wire).items)

\* get_and_update_features, in the input processing thread.
Receive ==
    /\ Arrived("ADD")
    /\ receiver' = Receiving.cache
    /\ p1' = IF Receiving.status = "hung" THEN "hung" ELSE "ready"
    /\ wire' = Tail(wire)
    /\ UNCHANGED <<scenario, sender, rendered, clearing, resets, p0>>

\* A utility call is only queued by the input thread.
QueueReset ==
    /\ Arrived("UTILITY")
    /\ resets < MaxWire
    /\ resets' = resets + 1
    /\ wire' = Tail(wire)
    /\ UNCHANGED <<scenario, sender, receiver, rendered, clearing, p0, p1>>

\* EngineCore.reset_mm_cache, in the main thread. The cache has no lock and the input
\* thread may be in the middle of Receive; here the clear comes before or after it.
ClearReceiver ==
    /\ resets > 0
    /\ p1 = "ready"
    /\ resets' = resets - 1
    /\ receiver' = IF Clear(receiver).endless THEN receiver ELSE Clear(receiver).cache
    /\ p1' = IF Clear(receiver).endless THEN "hung" ELSE "ready"
    /\ UNCHANGED <<scenario, sender, rendered, wire, clearing, p0>>

-----------------------------------------------------------------------------
Empty == [order |-> << >>, data |-> {}]

Init ==
    /\ scenario \in Scenarios
    /\ sender = Empty
    /\ receiver = Empty
    /\ rendered = << >>
    /\ wire = << >>
    /\ clearing = FALSE
    /\ resets = 0
    /\ p0 = "ready"
    /\ p1 = "ready"

Next ==
    \/ \E prompt \in Prompts : Process(prompt)
    \/ \E prompt \in Prompts : ProcessFails(prompt)
    \/ \E prompt \in Prompts : ProcessHangs(prompt)
    \/ \E i \in DOMAIN rendered : Submit(i)
    \/ \E i \in DOMAIN rendered : Reject(i)
    \/ ClearSender
    \/ SendReset
    \/ Receive
    \/ QueueReset
    \/ ClearReceiver

Spec == Init /\ [][Next]_vars

-----------------------------------------------------------------------------
(* Properties.                                                             *)

CacheOK(c) ==
    /\ c.order \in Seq(Keys)
    /\ IsInjective(c.order)
    /\ c.data \subseteq ToSet(c.order)
    /\ Used(c.data) <= Capacity

\* Every state has its type: a cache's order names a key once and names all
\* the keys it holds, which never exceed mm_processor_cache_gb, whatever is
\* rejected, reset, reordered or refused.
CacheTypeOK ==
    /\ CacheOK(sender) /\ CacheOK(receiver)
    /\ \A i \in DOMAIN rendered : rendered[i] \in Seq([hash : Keys, offset : Nat, full : BOOLEAN])
    /\ Len(wire) <= MaxWire
    /\ clearing \in BOOLEAN
    /\ resets \in 0 .. MaxWire
    /\ {p0, p1} \subseteq {"ready", "hung"}

\* Receiver replaying what is under way, message by message.
Replay(c, messages) ==
    LET after[i \in 0 .. Len(messages)] ==
            IF i = 0 THEN c ELSE GetAndUpdate(after[i - 1], messages[i].items).cache
    IN  after[Len(messages)]

InFlight == wire \o [i \in DOMAIN rendered |-> AddMsg(ByOffset(rendered[i]))]

Hashes(items) == {items[i].hash : i \in DOMAIN items}

\* Nothing is rejected, reset or overtaken, every prompt fits the cache and
\* lists its items in the order of their positions.
Undisturbed ==
    /\ Faults = {} /\ MaxRendered = 1
    /\ \A prompt \in Prompts :
        /\ Used(Hashes(prompt)) <= Capacity
        /\ \A i, j \in DOMAIN prompt : i < j => prompt[i].offset < prompt[j].offset

\* In an undisturbed system the receiver's cache, once it has taken everything
\* under way, is the sender's: the same keys in the same order of eviction.
\* So get_and_update_item on P1 never meets an item that P0 left out and P1
\* does not hold.
ReceiverMirrorsSender ==
    Undisturbed => /\ Replay(receiver, InFlight) = sender
                   /\ Arrived("ADD") => Receiving.status = "ok"

\* No eviction loop of an undisturbed system runs into a key that is touched
\* and not cached: the loops of __setitem__ and clear() end.
EvictionEnds == Undisturbed => p0 = "ready" /\ p1 = "ready"

\* What the first pass of _merge_mm_kwargs and of get_and_update_features is
\* for: no item of a prompt evicts another item of the same prompt, on either
\* side, so after the step the prompt is cached completely.
PromptStaysCached ==
    [][/\ \A prompt \in Prompts :
              Process(prompt) => Hashes(prompt) \subseteq sender'.data
       /\ Receive /\ Receiving.status = "ok"
              => Hashes(Head(wire).items) \subseteq receiver'.data]_vars
=============================================================================
