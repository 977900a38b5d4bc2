----------------------------- MODULE MMSchedule -----------------------------
(***************************************************************************)
(* One engine core: Scheduler.schedule with its encoder cache manager, the *)
(* queue of steps the engine keeps in flight, and the worker that encodes, *)
(* caches and gathers the multimodal embeddings.                           *)
(*                                                                         *)
(* A step of schedule() is a loop over running, then over waiting. Each    *)
(* iteration tries to secure the encoder outputs the new tokens need (the  *)
(* "items" loop, _try_schedule_encoder_inputs) and then KV blocks ("place",*)
(* with preemption). pc says which loop the engine is in. The worker runs  *)
(* concurrently and only sees the outputs the engine queued for it.        *)
(*                                                                         *)
(* Abstractions: one-token KV blocks and a prefix cache filled by earlier  *)
(* traffic (a hit of any length in config.hits[r], charged in full);        *)
(* requests ask for one output token; no EAGLE shift, connectors, LoRA,    *)
(* encoder-decoder models or streaming sessions.                           *)
(***************************************************************************)
EXTENDS EncoderCache

CONSTANTS
    Prio,              \* request.priority, distinct (arrival time never decides)
    TokenBudget,       \* max_num_scheduled_tokens
    EncoderBudget,     \* max_num_encoder_input_tokens
    Configs            \* the prompts and the settings of the engines considered

\* An item of a prompt: its hash, its range of tokens, and which of them are
\* replaced by embeddings.
Features == [h : Hashes, off : Nat, len : Nat, emb : SUBSET Nat]

\* Prompts and settings an engine can run with. A behaviour keeps the one it
\* starts with.
ConfigOK(g) ==
    /\ g.promptLen \in [Reqs -> Nat \ {0}]         \* num_prompt_tokens
    /\ g.items \in [Reqs -> Seq(Features)]          \* mm_features, by offset
    /\ \A r \in Reqs : \A i \in DOMAIN g.items[r] :
           LET it == g.items[r][i] IN
           /\ it.off + it.len <= g.promptLen[r]
           /\ it.emb \subseteq 0 .. it.len - 1 /\ Cardinality(it.emb) = Size[it.h]
           /\ \A j \in 1 .. i : g.items[r][j].off <= it.off
    /\ g.hits \in [Reqs -> SUBSET Nat]             \* get_computed_blocks may return
    /\ \A r \in Reqs : \A k \in g.hits[r] : k < g.promptLen[r]
    /\ g.threshold \in Nat                         \* long_prefill_token_threshold
    /\ g.kvBlocks \in Nat \ {0}                    \* KV cache capacity, in tokens
    /\ g.maxRunning \in Nat \ {0}                  \* max_num_running_reqs
    /\ g.maxInFlight \in Nat \ {0}                 \* batch_queue_size; 1: EngineCore.step
    /\ g.policy \in {"fcfs", "priority"}
    /\ g.disableChunkedMM \in BOOLEAN              \* disable_chunked_mm_input
    /\ g.reserveFullISL \in BOOLEAN                \* scheduler_reserve_full_isl

ASSUME MMScheduleAssumption ==
    /\ Reqs # {}
    /\ Prio \in [Reqs -> Nat]
    /\ \A r, q \in Reqs : Prio[r] = Prio[q] => r = q
    /\ {TokenBudget, EncoderBudget} \subseteq Nat \ {0}
    /\ \A g \in Configs : ConfigOK(g)

VARIABLES
    waiting, running,   \* the two queues
    status,             \* "new", "waiting", "running" or "finished"
    computed,           \* num_computed_tokens
    kv,                 \* tokens of KV blocks a request holds
    finished,           \* finished_req_ids
    pc, idx,            \* where the engine is, and its loop counter
    tokens, encBudget,  \* token_budget, encoder_compute_budget
    preempting,         \* preempted_reqs is not empty
    cur,                \* the request the current iteration looks at
    out,                \* the SchedulerOutput under construction
    outq, resq,         \* steps sent to the worker; results it has produced
    worker,             \* keys of the worker's encoder_outputs
    config              \* the member of Configs this engine runs with

Items == config.items
PromptLen == config.promptLen
Policy == config.policy

schedVars == <<waiting, running, status, computed, kv, finished>>
loopVars  == <<pc, idx, tokens, encBudget, preempting, cur, out>>
queueVars == <<outq, resq, worker>>
vars == <<ecVars, schedVars, loopVars, queueVars, config>>

Least(x, y) == IF x <= y THEN x ELSE y

HashesOf(r) == {Items[r][i].h : i \in DOMAIN Items[r]}
EndOf(item) == item.off + item.len

\* get_embeds_indices_in_range is not empty on [lo, hi).
HasEmbeds(item, lo, hi) == \E k \in item.emb : lo <= item.off + k /\ item.off + k < hi

NoCur == [r |-> CHOOSE r \in Reqs : TRUE, base |-> 0, n |-> 0, i |-> 1,
          hashes |-> {}, budget |-> 0, src |-> "running"]
NoOut == [order |-> <<>>, n |-> [r \in Reqs |-> 0], enc |-> [r \in Reqs |-> {}],
          start |-> [r \in Reqs |-> 0], freed |-> {}]

\* Space in the KV cache: kv_cache_manager.allocate_slots and can_fit_full_sequence.
KvFree == config.kvBlocks - MapThenSumSet(LAMBDA r : kv[r], Reqs)
KvFits(r, total) == total - kv[r] <= KvFree

\* The head of the waiting queue: FCFS deque or priority heap.
FirstWaiting ==
    IF Policy = "fcfs" THEN waiting[1]
    ELSE CHOOSE r \in Range(waiting) : \A q \in Range(waiting) : Prio[r] <= Prio[q]

\* The running request that gives way.
Victim ==
    IF Policy = "fcfs" THEN running[Len(running)]
    ELSE CHOOSE r \in Range(running) : \A q \in Range(running) : Prio[q] <= Prio[r]

\* The tokens a request may get at most.
Wanted(r, base) ==
    LET left == PromptLen[r] - base
    IN  Least(IF config.threshold > 0 THEN Least(left, config.threshold) ELSE left, tokens)

HasRequests == waiting # <<>> \/ running # <<>> \/ finished # {}
InFlight == Len(outq) + Len(resq)

-----------------------------------------------------------------------------
MMInit ==
    /\ ECInit
    /\ waiting = <<>> /\ running = <<>>
    /\ status = [r \in Reqs |-> "new"]
    /\ computed = [r \in Reqs |-> 0]
    /\ kv = [r \in Reqs |-> 0]
    /\ finished = {}
    /\ pc = "idle" /\ idx = 1
    /\ tokens = 0 /\ encBudget = 0
    /\ preempting = FALSE
    /\ cur = NoCur /\ out = NoOut
    /\ outq = <<>> /\ resq = <<>>
    /\ worker = {}
    /\ config \in Configs

\* Mutant: references are never given back.
ReleaseNothing(r, S) == UNCHANGED ecVars

\* free_encoder_input of r for the hashes of S, in the order of r's items (the
\* iteration order of the set of input ids).
FirstItem(r, h) == CHOOSE i \in DOMAIN Items[r] :
                       /\ Items[r][i].h = h
                       /\ \A j \in 1 .. i - 1 : Items[r][j].h # h
Release(r, S) ==
    \E order \in SetToSeqs(LastHeld(r, S)) :
        /\ \A i, j \in DOMAIN order :
               i < j => FirstItem(r, order[i]) < FirstItem(r, order[j])
        /\ FreeInputs(r, S, order)

\* Mutant: a request that leaves keeps its references.
LeavingKeepsRefs(r) == UNCHANGED ecVars

\* EncoderCacheManager.free
ReleaseAll(r) == Release(r, HashesOf(r) \cap cached)

\* The end of a request: queues, encoder references and KV blocks.
FreeRequest(r) ==
    /\ waiting' = RemoveFirst(waiting, r)
    /\ running' = RemoveFirst(running, r)
    /\ status' = [status EXCEPT ![r] = "finished"]
    /\ kv' = [kv EXCEPT ![r] = 0]
    /\ finished' = finished \cup {r}
    /\ ReleaseAll(r)
    /\ UNCHANGED computed

-----------------------------------------------------------------------------
(* Requests from outside, taken between two steps of the engine.           *)

AddRequest(r) ==
    /\ pc = "idle" /\ status[r] = "new"
    /\ status' = [status EXCEPT ![r] = "waiting"]
    /\ waiting' = Append(waiting, r)
    /\ UNCHANGED <<ecVars, running, computed, kv, finished, loopVars, queueVars>>

\* finish_requests. While the engine waits for a result, aborts are applied just
\* before the result is.
Abort(r) ==
    /\ pc = "idle" \/ (pc = "await" /\ resq # <<>>)
    /\ status[r] \in {"waiting", "running"}
    /\ FreeRequest(r)
    /\ UNCHANGED <<loopVars, queueVars>>

\* reset_encoder_cache: the manager first, then a call to the worker that returns
\* after everything already queued there.
ResetEncoderCache ==
    /\ pc = "idle" /\ outq = <<>>
    /\ Reset
    /\ worker' = {}
    /\ UNCHANGED <<schedVars, loopVars, outq, resq>>

-----------------------------------------------------------------------------
(* The running loop of schedule().                                         *)

BeginSchedule ==
    /\ pc = "idle" /\ HasRequests
    /\ pc' = "running" /\ idx' = 1
    /\ tokens' = TokenBudget /\ encBudget' = EncoderBudget
    /\ preempting' = FALSE
    /\ cur' = NoCur /\ out' = NoOut
    /\ UNCHANGED <<ecVars, schedVars, queueVars>>

\* What the iteration over r starts from.
Consider(r, base, src) ==
    [r |-> r, base |-> base, n |-> Wanted(r, base), i |-> 1, hashes |-> {},
     budget |-> encBudget, src |-> src]

RunningNext ==
    /\ pc = "running" /\ idx <= Len(running) /\ tokens > 0
    /\ cur' = Consider(running[idx], computed[running[idx]], "running")
    /\ pc' = IF cur'.n = 0 THEN "place" ELSE "items"
    /\ UNCHANGED <<ecVars, schedVars, idx, tokens, encBudget, preempting, out, queueVars>>

\* The waiting queue is left alone in a step that preempted somebody.
RunningDone ==
    /\ pc = "running" /\ (idx > Len(running) \/ tokens = 0)
    /\ pc' = IF preempting THEN "commit" ELSE "waiting"
    /\ UNCHANGED <<ecVars, schedVars, idx, tokens, encBudget, preempting, cur, out, queueVars>>

-----------------------------------------------------------------------------
(* The items loop: _try_schedule_encoder_inputs for cur.r, whose new tokens *)
(* are [cur.base, cur.base + cur.n).                                        *)

Item == Items[cur.r][cur.i]
ItemsLeft == cur.i <= Len(Items[cur.r]) /\ Item.off < cur.base + cur.n
AtItem == pc = "items" /\ ItemsLeft
\* Computed already, or the same output was granted to this request just now.
Settled == EndOf(Item) <= cur.base \/ Item.h \in cur.hashes
\* Mutant: the cache is not consulted before an item is granted.
AtMissUnchecked == AtItem /\ ~Settled

AtMiss == AtItem /\ ~Settled /\ Item.h \notin cached

RollsBack == /\ config.disableChunkedMM
             /\ cur.base < Item.off
             /\ cur.base + cur.n < EndOf(Item)
Need == Size[Item.h] + SlotsOf(cur.hashes)
CanAllocate == Size[Item.h] <= cur.budget /\ CacheHasRoom(Need)

itemsUnchanged == <<schedVars, idx, tokens, encBudget, preempting, out, queueVars>>

ItemSettled ==
    /\ AtItem /\ Settled
    /\ cur' = [cur EXCEPT !.i = @ + 1]
    /\ UNCHANGED <<ecVars, pc, itemsUnchanged>>

ItemHit ==
    /\ AtItem /\ ~Settled
    /\ CheckAndUpdateHit(cur.r, Item.h)
    /\ cur' = [cur EXCEPT !.i = @ + 1]
    /\ UNCHANGED <<pc, itemsUnchanged>>

\* Only the tokens before the item: it may not be chunked, or its output has no
\* room. None at all when the prompt is already inside the item.
StopBeforeItem ==
    /\ cur' = [cur EXCEPT !.n = IF cur.base < Item.off THEN Item.off - cur.base ELSE 0]
    /\ pc' = "place"
    /\ UNCHANGED <<ecVars, itemsUnchanged>>

ItemRefused == AtMiss /\ (RollsBack \/ ~CanAllocate) /\ StopBeforeItem

\* can_allocate has evicted what it had to, whether or not the new tokens reach
\* an embedding of the item.
ItemGranted ==
    /\ AtMiss /\ ~RollsBack /\ CanAllocate
    /\ Reserve(Need)
    /\ \/ /\ HasEmbeds(Item, cur.base, cur.base + cur.n)
          /\ cur' = [cur EXCEPT !.i = @ + 1, !.hashes = @ \cup {Item.h},
                                !.budget = @ - Size[Item.h]]
       \/ /\ ~HasEmbeds(Item, cur.base, cur.base + cur.n)
          /\ cur' = [cur EXCEPT !.i = @ + 1]
    /\ UNCHANGED <<pc, itemsUnchanged>>

ItemsDone ==
    /\ pc = "items" /\ ~ItemsLeft
    /\ pc' = "place"
    /\ UNCHANGED <<ecVars, cur, itemsUnchanged>>

ItemLoop == ItemSettled \/ ItemHit \/ ItemRefused \/ ItemGranted \/ ItemsDone

-----------------------------------------------------------------------------
(* KV blocks for cur.r, and what follows from having them or not.          *)

\* Mutant: the token budget is charged for the waiting requests only.
ScheduleRunningFree ==
    /\ out' = [out EXCEPT !.order = Append(@, cur.r), !.n[cur.r] = cur.n,
                          !.enc[cur.r] = cur.hashes]
    /\ kv' = [kv EXCEPT ![cur.r] = cur.base + cur.n]
    /\ tokens' = IF cur.src = "running" THEN tokens ELSE tokens - cur.n
    /\ encBudget' = IF cur.hashes = {} THEN encBudget ELSE cur.budget
    /\ Allocate(cur.r, cur.hashes)

\* num_scheduled_tokens, scheduled_encoder_inputs and the budgets once cur.r is
\* scheduled; the encoder cache is charged for the granted items.
Schedule ==
    /\ out' = [out EXCEPT !.order = Append(@, cur.r), !.n[cur.r] = cur.n,
                          !.enc[cur.r] = cur.hashes]
    /\ kv' = [kv EXCEPT ![cur.r] = cur.base + cur.n]
    /\ tokens' = tokens - cur.n
    /\ encBudget' = IF cur.hashes = {} THEN encBudget ELSE cur.budget
    /\ Allocate(cur.r, cur.hashes)

\* No token for this request: the running loop goes on with the next one.
SkipRunning ==
    /\ pc = "place" /\ cur.src = "running" /\ cur.n = 0
    /\ pc' = "running" /\ idx' = idx + 1
    /\ UNCHANGED <<ecVars, schedVars, tokens, encBudget, preempting, cur, out, queueVars>>

ScheduleRunning ==
    /\ pc = "place" /\ cur.src = "running" /\ cur.n > 0
    /\ KvFits(cur.r, cur.base + cur.n)
    /\ Schedule
    /\ pc' = "running" /\ idx' = idx + 1
    /\ UNCHANGED <<waiting, running, status, computed, finished, preempting, cur, queueVars>>

\* Under the priority policy the victim may have been scheduled earlier in this
\* step: its tokens, encoder inputs and budgets are taken back.
Unschedule(v) ==
    \/ /\ Policy = "priority" /\ out.n[v] > 0
       /\ out' = [out EXCEPT !.order = RemoveFirst(@, v), !.n[v] = 0, !.enc[v] = {}]
       /\ tokens' = tokens + out.n[v]
       /\ encBudget' = encBudget + SlotsOf(out.enc[v])
       /\ idx' = idx - 1
    \/ /\ Policy = "fcfs" \/ out.n[v] = 0
       /\ UNCHANGED <<out, tokens, encBudget, idx>>

\* One turn of the preemption loop. A request that has to preempt itself ends the
\* running loop.
Preempt ==
    /\ pc = "place" /\ cur.src = "running" /\ cur.n > 0
    /\ ~KvFits(cur.r, cur.base + cur.n)
    /\ Unschedule(Victim)
    /\ running' = RemoveFirst(running, Victim)
    /\ waiting' = Cons(Victim, waiting)
    /\ status' = [status EXCEPT ![Victim] = "waiting"]
    /\ computed' = [computed EXCEPT ![Victim] = 0]
    /\ kv' = [kv EXCEPT ![Victim] = 0]
    /\ ReleaseAll(Victim)
    /\ preempting' = TRUE
    /\ pc' = IF Victim = cur.r THEN "commit" ELSE "place"
    /\ UNCHANGED <<finished, cur, queueVars>>

-----------------------------------------------------------------------------
(* The waiting loop of schedule().                                         *)

WaitingNext ==
    /\ pc = "waiting" /\ waiting # <<>> /\ tokens > 0 /\ Len(running) < config.maxRunning
    /\ \E hit \in config.hits[FirstWaiting] :
           cur' = Consider(FirstWaiting, hit, "waiting")
    /\ pc' = "items"
    /\ UNCHANGED <<ecVars, schedVars, idx, tokens, encBudget, preempting, out, queueVars>>

WaitingDone ==
    /\ pc = "waiting"
    /\ waiting = <<>> \/ tokens = 0 \/ Len(running) = config.maxRunning
    /\ pc' = "commit"
    /\ UNCHANGED <<ecVars, schedVars, idx, tokens, encBudget, preempting, cur, out, queueVars>>

\* No token for this request: the waiting loop ends.
SkipWaiting ==
    /\ pc = "place" /\ cur.src = "waiting" /\ cur.n = 0
    /\ pc' = "commit"
    /\ UNCHANGED <<ecVars, schedVars, idx, tokens, encBudget, preempting, cur, out, queueVars>>

AdmissionFits ==
    /\ config.reserveFullISL => KvFits(cur.r, PromptLen[cur.r])
    /\ KvFits(cur.r, cur.base + cur.n)

ScheduleWaiting ==
    /\ pc = "place" /\ cur.src = "waiting" /\ cur.n > 0 /\ AdmissionFits
    /\ Schedule
    /\ waiting' = RemoveFirst(waiting, cur.r)
    /\ running' = Append(running, cur.r)
    /\ status' = [status EXCEPT ![cur.r] = "running"]
    /\ computed' = [computed EXCEPT ![cur.r] = cur.base]
    /\ pc' = "waiting"
    /\ UNCHANGED <<finished, idx, preempting, cur, queueVars>>

\* No KV blocks: the request gives its encoder references back and the loop ends.
RefuseWaiting ==
    /\ pc = "place" /\ cur.src = "waiting" /\ cur.n > 0 /\ ~AdmissionFits
    /\ ReleaseAll(cur.r)
    /\ pc' = "commit"
    /\ UNCHANGED <<schedVars, idx, tokens, encBudget, preempting, cur, out, queueVars>>

-----------------------------------------------------------------------------
(* The end of schedule() and the hand-over to the worker.                  *)

\* Mutant: the evicted hashes are dropped instead of sent.
CommitLosesFreed ==
    /\ pc = "commit"
    /\ out' = [out EXCEPT !.start = computed]
    /\ TakeFreed
    /\ pc' = "after" /\ idx' = 1
    /\ UNCHANGED <<schedVars, tokens, encBudget, preempting, cur, queueVars>>

Commit ==
    /\ pc = "commit"
    /\ out' = [out EXCEPT !.start = computed, !.freed = freed]
    /\ TakeFreed
    /\ pc' = "after" /\ idx' = 1
    /\ UNCHANGED <<schedVars, tokens, encBudget, preempting, cur, queueVars>>

\* The hashes of r with an item that lies within its first tokens.
Consumed(r, upto) ==
    {Items[r][i].h : i \in {j \in DOMAIN Items[r] : EndOf(Items[r][j]) <= upto}}

\* _update_after_schedule for the next scheduled request.
UpdateAfterSchedule ==
    /\ pc = "after" /\ idx <= Len(out.order)
    /\ LET r == out.order[idx]
           upto == computed[r] + out.n[r]
       IN  /\ computed' = [computed EXCEPT ![r] = upto]
           /\ Release(r, Consumed(r, upto) \cap cached)
    /\ idx' = idx + 1
    /\ UNCHANGED <<waiting, running, status, kv, finished, pc, tokens, encBudget,
                   preempting, cur, out, queueVars>>

\* The engine schedules ahead only while the queue has room, the last step was
\* not empty and no result is there yet.
Submit ==
    /\ pc = "after" /\ idx > Len(out.order)
    /\ finished' = {}
    /\ outq' = Append(outq, out)
    /\ pc' = IF out.order # <<>> /\ InFlight + 1 < config.maxInFlight /\ resq = <<>>
             THEN "idle" ELSE "await"
    /\ idx' = 1 /\ tokens' = 0 /\ encBudget' = 0 /\ preempting' = FALSE
    /\ cur' = NoCur /\ out' = NoOut
    /\ UNCHANGED <<ecVars, waiting, running, status, computed, kv, resq, worker>>

\* Nothing left to schedule, but steps still in flight.
AwaitLast ==
    /\ pc = "idle" /\ ~HasRequests /\ InFlight > 0
    /\ pc' = "await"
    /\ UNCHANGED <<ecVars, schedVars, idx, tokens, encBudget, preempting, cur, out, queueVars>>

-----------------------------------------------------------------------------
(* The worker executes one step: drop the freed outputs, run the encoder,  *)
(* then gather the embeddings of the scheduled tokens.                     *)

\* Mutant: the outputs are dropped after the encoder has run.
FreedAfterEncoding(o, w) == (w \cup UNION {o.enc[r] : r \in Reqs}) \ o.freed

WorkerCacheAfter(o, w) == (w \ o.freed) \cup UNION {o.enc[r] : r \in Reqs}

WorkerExecute ==
    /\ outq # <<>>
    /\ worker' = WorkerCacheAfter(Head(outq), worker)
    /\ resq' = Append(resq, Head(outq))
    /\ outq' = Tail(outq)
    /\ UNCHANGED <<ecVars, schedVars, loopVars>>

-----------------------------------------------------------------------------
(* update_from_output for the oldest result.                               *)

TakeResult ==
    /\ pc = "await" /\ resq # <<>>
    /\ pc' = "output"
    /\ UNCHANGED <<ecVars, schedVars, idx, tokens, encBudget, preempting, cur, out, queueVars>>

\* The step computed r's last prompt token, and r is still there: it has its
\* token and stops.
StopsIn(o, r) ==
    o.start[r] + o.n[r] = PromptLen[r] /\ status[r] # "finished"

UpdateFromOutput ==
    /\ pc = "output" /\ idx <= Len(resq[1].order)
    /\ LET r == resq[1].order[idx]
       IN  \/ StopsIn(resq[1], r) /\ FreeRequest(r)
           \/ ~StopsIn(resq[1], r) /\ UNCHANGED <<ecVars, schedVars>>
    /\ idx' = idx + 1
    /\ UNCHANGED <<pc, tokens, encBudget, preempting, cur, out, queueVars>>

OutputDone ==
    /\ pc = "output" /\ idx > Len(resq[1].order)
    /\ resq' = Tail(resq)
    /\ pc' = "idle" /\ idx' = 1
    /\ UNCHANGED <<ecVars, schedVars, tokens, encBudget, preempting, cur, out, outq, worker>>

-----------------------------------------------------------------------------
EngineStep ==
    /\ \/ BeginSchedule \/ RunningNext \/ RunningDone
       \/ ItemLoop
       \/ SkipRunning \/ ScheduleRunning \/ Preempt
       \/ WaitingNext \/ WaitingDone \/ SkipWaiting \/ ScheduleWaiting \/ RefuseWaiting
       \/ Commit \/ UpdateAfterSchedule \/ Submit \/ AwaitLast
       \/ TakeResult \/ UpdateFromOutput \/ OutputDone
    /\ UNCHANGED config

WorkerStep == WorkerExecute /\ UNCHANGED config

Outside ==
    /\ \/ \E r \in Reqs : AddRequest(r) \/ Abort(r)
       \/ ResetEncoderCache
    /\ UNCHANGED config

MMNext == Outside \/ EngineStep \/ WorkerStep

MMSpec == MMInit /\ [][MMNext]_vars

\* The busy loop of the engine core keeps stepping and the worker keeps taking
\* what is queued for it; nothing is assumed of clients.
FairMMSpec == MMSpec /\ WF_vars(EngineStep) /\ WF_vars(WorkerStep)

-----------------------------------------------------------------------------
\* The tokens of a step and the rows its encoder inputs have, each told apart by
\* its request.
PerRequest(F) == UNION {{r} \X F[r] : r \in Reqs}
TokensOf(o) == [r \in Reqs |-> 1 .. o.n[r]]
EmbedsOf(o) == [r \in Reqs |-> Rows(o.enc[r])]
StepTokens(o) == Cardinality(PerRequest(TokensOf(o)))
StepEmbeds(o) == Cardinality(PerRequest(EmbedsOf(o)))

\* Every state has its type, and no step on its way to the worker exceeds the
\* token budget or the encoder compute budget, also when preemption gave part of
\* them back in the middle of the step.
MMTypeOK ==
    /\ waiting \in Seq(Reqs) /\ running \in Seq(Reqs)
    /\ status \in [Reqs -> {"new", "waiting", "running", "finished"}]
    /\ computed \in [Reqs -> Nat] /\ kv \in [Reqs -> Nat]
    /\ finished \subseteq Reqs
    /\ pc \in {"idle", "running", "items", "place", "waiting", "commit", "after",
               "await", "output"}
    /\ idx \in Nat /\ tokens \in Nat /\ encBudget \in Nat
    /\ preempting \in BOOLEAN
    /\ cur \in [r : Reqs, base : Nat, n : Nat, i : Nat \ {0}, hashes : SUBSET Hashes,
                budget : Nat, src : {"running", "waiting"}]
    /\ out.order \in Seq(Reqs) /\ out.n \in [Reqs -> Nat]
    /\ out.enc \in [Reqs -> SUBSET Hashes]
    /\ worker \subseteq Hashes
    /\ \A i \in 1 .. Len(outq) : /\ StepTokens(outq[i]) <= TokenBudget
                               /\ StepEmbeds(outq[i]) <= EncoderBudget

\* Every step the worker executes finds the encoder output of every embedding it
\* gathers ("Encoder cache miss for ..." in gather_mm_embeddings never fires):
\* what the scheduler's hit and grant decisions assumed, possibly several steps
\* and preemptions earlier, is what the worker holds when the step arrives.
NoEncoderCacheMiss ==
    outq # <<>> =>
        LET o == Head(outq) IN
        \A r \in Range(o.order) : \A i \in DOMAIN Items[r] :
            HasEmbeds(Items[r][i], o.start[r], o.start[r] + o.n[r])
                => Items[r][i].h \in WorkerCacheAfter(o, worker)

\* First come, first served, the worker always finds what it gathers.
FcfsFindsEveryOutput == Policy = "fcfs" => NoEncoderCacheMiss

\* What the worker will hold after the first k steps of a queue: what one of them
\* encodes, or what it held before, unless a later one drops it.
HeldAfter(q, w, k) ==
    {h \in Hashes :
        \/ \E i \in 1 .. k : /\ \E r \in Reqs : h \in q[i].enc[r]
                            /\ \A j \in i + 1 .. k : h \notin q[j].freed
        \/ h \in w /\ \A j \in 1 .. k : h \notin q[j].freed}

\* Between steps, first come, first served, the manager's dict and the worker's
\* cache, once it has executed what is queued, hold exactly the same hashes:
\* free_encoder_mm_hashes and scheduled_encoder_inputs never drift apart from the
\* bookkeeping.
WorkerMirrorsManager ==
    Policy = "fcfs" /\ pc \in {"idle", "await", "output"} =>
        cached = HeldAfter(outq, worker, Len(outq))

\* The item was found in the cache for a request that then got no token, because
\* a later item that starts in the same cached prefix had no room. The waiting
\* loop ends there without giving the reference back.
PassedOver(r, i) ==
    \E j \in DOMAIN Items[r] : \E k \in config.hits[r] :
        i < j /\ Items[r][j].off <= k /\ k < EndOf(Items[r][i])

\* Between steps a reference pins an encoder output only for a running request
\* that has not yet consumed it: neither a preempted, refused, aborted or finished
\* request nor a consumed item keeps cache space from the others. The one other
\* holder is a waiting request that was passed over, and only where two of its
\* items overlap, as a video and its own audio do.
HoldersStillNeed ==
    pc \in {"idle", "await"} =>
        \A h \in Hashes : \A r \in refs[h] : \E i \in DOMAIN Items[r] :
            /\ Items[r][i].h = h
            /\ \/ status[r] = "running" /\ EndOf(Items[r][i]) > computed[r]
               \/ status[r] = "waiting" /\ PassedOver(r, i)

\* A request in the queues eventually leaves them: num_computed_tokens catches up
\* with the prompt, whatever the cache and KV pressure.
EventuallyCatchesUp ==
    \A r \in Reqs : (status[r] = "waiting") ~> (status[r] = "finished")
=============================================================================
