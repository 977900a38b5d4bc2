--------------------------- MODULE MMScheduleProofs ---------------------------
(***************************************************************************)
(* The scheduler for any requests, prompts, budgets and cache sizes: it    *)
(* uses the encoder cache manager within its contract, holds references    *)
(* only where they are needed, stays within its budgets and, first come,   *)
(* first served, sends the worker steps that find every encoder output     *)
(* they gather.                                                            *)
(***************************************************************************)
EXTENDS MMSchedule, EncoderCacheProofs, WellFoundedInduction

-----------------------------------------------------------------------------
(* The invariant.                                                          *)

Loops == {"running", "items", "place", "waiting", "commit"}
AtCur == pc \in {"items", "place"}
InRunningLoop == pc = "running" \/ (AtCur /\ cur.src = "running")

Outputs == [order : Seq(Reqs), n : [Reqs -> Int], enc : [Reqs -> SUBSET Hashes],
            start : [Reqs -> Int], freed : SUBSET Hashes]
Iterations == [r : Reqs, base : Int, n : Int, i : Nat \ {0}, hashes : SUBSET Hashes,
               budget : Int, src : {"running", "waiting"}]

TypesInv ==
    /\ config \in Configs
    /\ waiting \in Seq(Reqs) /\ running \in Seq(Reqs)
    /\ status \in [Reqs -> {"new", "waiting", "running", "finished"}]
    /\ computed \in [Reqs -> Int]
    /\ idx \in Nat \ {0} /\ tokens \in Int /\ encBudget \in Int
    /\ out \in Outputs /\ outq \in Seq(Outputs) /\ resq \in Seq(Outputs)
    /\ worker \in SUBSET Hashes
    /\ AtCur => cur \in Iterations
    /\ pc = "output" => resq # <<>>

\* A request is in the queue its status says, once.
QueuesInv ==
    /\ NoDup(running) /\ NoDup(waiting)
    /\ \A r \in Reqs : /\ status[r] = "running" <=> r \in Elems(running)
                       /\ status[r] = "waiting" <=> r \in Elems(waiting)

\* The step under construction: who got tokens is in it, and the running loop is
\* past as many requests as it scheduled.
OrderInv ==
    /\ pc \in Loops => \A r \in Reqs : out.n[r] > 0 => r \in Elems(out.order)
    /\ InRunningLoop => Len(out.order) < idx

\* The iteration: whom it is about, and that what it granted still fits and is
\* not cached.
CurInv ==
    AtCur =>
        /\ cur.src = "running" => cur.r \in Elems(running) /\ cur.base = computed[cur.r]
        /\ cur.src = "waiting" => cur.r \in Elems(waiting) /\ cur.base \in config.hits[cur.r]
        /\ Granted(cur.hashes)
        /\ \A h \in cur.hashes : \E i \in DOMAIN Items[cur.r] :
               Items[cur.r][i].h = h /\ EndOf(Items[cur.r][i]) > cur.base
        /\ cur.src = "waiting" /\ pc = "items" => cur.n > 0
        /\ cur.src = "waiting" /\ pc = "place" /\ cur.n = 0 =>
               cur.i \in DOMAIN Items[cur.r] /\ Item.off <= cur.base

\* _update_after_schedule has yet to release what this step of r consumes.
ToUpdate(r) ==
    \/ pc \in Loops /\ r \in Elems(out.order)
    \/ pc = "after" /\ \E j \in 1 .. Len(out.order) : idx <= j /\ out.order[j] = r

\* Why r may hold a reference to the output of its item i.
Reason(r, i) ==
    \/ status[r] = "running" /\ (EndOf(Items[r][i]) > computed[r] \/ ToUpdate(r))
    \/ status[r] = "waiting" /\ PassedOver(r, i)
    \/ /\ AtCur /\ cur.src = "waiting" /\ cur.r = r
       /\ i < cur.i /\ EndOf(Items[r][i]) > cur.base
HolderInv ==
    \A h \in Hashes : \A r \in refs[h] :
        \E i \in DOMAIN Items[r] : Items[r][i].h = h /\ Reason(r, i)

SchedInv == TypesInv /\ QueuesInv /\ OrderInv /\ CurInv /\ HolderInv /\ ECInv

\* First come, first served: the running loop has scheduled only requests before
\* the current one, so nobody who is preempted was scheduled in the step.
InPlace ==
    /\ AtCur /\ cur.src = "running" => idx <= Len(running) /\ cur.r = running[idx]
    /\ InRunningLoop => \A r \in Elems(out.order) :
                            \E j \in 1 .. Len(running) : j < idx /\ running[j] = r
    /\ pc \in Loops => Elems(out.order) \subseteq Elems(running)

\* What the step under construction encodes and gathers is held by the request,
\* and still cached once the step is committed; so is what the iteration found.
Pinned(r, h) == h \in cached /\ r \in refs[h]
EncodesPinned ==
    pc \in Loops => \A r \in Reqs : \A h \in out.enc[r] : Pinned(r, h) /\ r \in Elems(out.order)
GathersPinned ==
    pc \in Loops =>
        \A r \in Elems(out.order) : \A i \in DOMAIN Items[r] :
            HasEmbeds(Items[r][i], computed[r], computed[r] + out.n[r])
                => Pinned(r, Items[r][i].h)
GathersCached ==
    pc = "after" =>
        \A r \in Elems(out.order) : \A i \in DOMAIN Items[r] :
            HasEmbeds(Items[r][i], out.start[r], out.start[r] + out.n[r])
                => Items[r][i].h \in cached
FoundPinned ==
    AtCur =>
        \A i \in DOMAIN Items[cur.r] :
            (HasEmbeds(Items[cur.r][i], cur.base, cur.base + cur.n) /\ (pc = "items" => i < cur.i))
                => Items[cur.r][i].h \in cur.hashes \/ Pinned(cur.r, Items[cur.r][i].h)
StepInv == EncodesPinned /\ GathersPinned /\ GathersCached /\ FoundPinned

EncodedBy(o) == UNION {o.enc[r] : r \in Reqs}
AtWorker == HeldAfter(outq, worker, Len(outq))
MirrorInv ==
    /\ pc \in Loops => cached = (AtWorker \ freed) \cup EncodedBy(out)
    /\ pc = "after" => freed = {} /\ cached = (AtWorker \ out.freed) \cup EncodedBy(out)
    /\ pc \notin Loops \cup {"after"} => freed = {} /\ cached = AtWorker

\* Every queued step will find what it gathers.
QueuedInv ==
    \A k \in 1 .. Len(outq) : \A r \in Elems(outq[k].order) : \A i \in DOMAIN Items[r] :
        HasEmbeds(Items[r][i], outq[k].start[r], outq[k].start[r] + outq[k].n[r])
            => Items[r][i].h \in HeldAfter(outq, worker, k)

FcfsInv == Policy = "fcfs" => InPlace /\ StepInv /\ MirrorInv /\ QueuedInv

\* The types of what the contract with the encoder cache leaves open.
Numbers == [r : Reqs, base : Nat, n : Nat, i : Nat \ {0}, hashes : SUBSET Hashes,
            budget : Nat, src : {"running", "waiting"}]
NumbersInv ==
    /\ computed \in [Reqs -> Nat] /\ kv \in [Reqs -> Nat] /\ out.n \in [Reqs -> Nat]
    /\ finished \subseteq Reqs /\ preempting \in BOOLEAN
    /\ pc \in {"idle", "running", "items", "place", "waiting", "commit", "after",
               "await", "output"}
    /\ tokens \in Nat /\ encBudget \in Nat /\ cur \in Numbers

\* Under any policy a step schedules a request once: those it took from the
\* running queue are behind the running loop, and the current one is not among
\* them.
Within(s, k, x) == \E j \in 1 .. Len(s) : j <= k /\ s[j] = x
OnceInv ==
    /\ pc \in Loops \cup {"after"} => NoDup(out.order)
    /\ pc \in Loops => \A r \in Elems(out.order) : out.n[r] > 0 /\ r \in Elems(running)
    /\ InRunningLoop => \A r \in Elems(out.order) : Within(running, idx - 1, r)
    /\ AtCur => cur.r \notin Elems(out.order)
    /\ AtCur /\ cur.src = "running" => Within(running, idx, cur.r)

\* No request gets tokens beyond its prompt.
PromptInv ==
    /\ \A r \in Reqs : computed[r] <= PromptLen[r]
    /\ \A r \in Reqs : pc \in Loops \/ ToUpdate(r) => computed[r] + out.n[r] <= PromptLen[r]
    /\ AtCur => cur.base + cur.n <= PromptLen[cur.r]

\* What is left of the budgets and what the step has taken of them.
BudgetInv ==
    /\ AtCur => cur.n <= tokens /\ cur.budget + SlotsOf(cur.hashes) <= encBudget
    /\ pc \in Loops \cup {"after"} =>
          /\ IsFiniteSet(PerRequest(TokensOf(out))) /\ IsFiniteSet(PerRequest(EmbedsOf(out)))
          /\ tokens + StepTokens(out) <= TokenBudget
          /\ encBudget + StepEmbeds(out) <= EncoderBudget
    /\ \A k \in 1 .. Len(outq) : /\ StepTokens(outq[k]) <= TokenBudget
                                 /\ StepEmbeds(outq[k]) <= EncoderBudget

\* Under either policy every step stays within its limits.
LimitsInv == NumbersInv /\ OnceInv /\ PromptInv /\ BudgetInv

-----------------------------------------------------------------------------
(* Sequences and numbers.                                                  *)

\* A set of natural numbers has a least one.
LEMMA NatLeast ==
    ASSUME NEW S \in SUBSET Nat, S # {}
    PROVE  \E x \in S : \A y \in S : x <= y
<1>1. PICK x \in S : \A y \in S : ~(<<y, x>> \in OpToRel(<, Nat))
  BY NatLessThanWellFounded, WFMin, Zenon
<1>2. \A y \in S : ~(y < x)
  BY <1>1 DEF OpToRel
<1>3. \A y \in S : x <= y
  BY <1>2
<1> QED BY <1>3

\* Removing the item at one place, whatever else the sequence holds.
LEMMA RemoveAtFacts ==
    ASSUME NEW T, NEW s \in Seq(T), NEW k \in 1 .. Len(s)
    PROVE  /\ RemoveAt(s, k) \in Seq(T) /\ Len(RemoveAt(s, k)) = Len(s) - 1
           /\ \A i \in 1 .. Len(s) - 1 :
                  RemoveAt(s, k)[i] = IF i < k THEN s[i] ELSE s[i + 1]
<1> DEFINE t == RemoveAt(s, k)
           p == SubSeq(s, 1, k - 1)
           q == SubSeq(s, k + 1, Len(s))
<1>1. p \in Seq(T) /\ Len(p) = k - 1 /\ \A i \in 1 .. k - 1 : p[i] = s[i]
  OBVIOUS
<1>2. q \in Seq(T) /\ Len(q) = Len(s) - k /\ \A i \in 1 .. Len(s) - k : q[i] = s[i + k]
  OBVIOUS
<1>3. t = p \o q
  BY DEF RemoveAt
<1> HIDE DEF p, q, t
<1>4. t \in Seq(T) /\ Len(t) = Len(s) - 1
  BY <1>1, <1>2, <1>3
<1>5. ASSUME NEW i \in 1 .. Len(s) - 1
      PROVE  t[i] = IF i < k THEN s[i] ELSE s[i + 1]
  <2>1. CASE i < k
    BY <2>1, <1>1, <1>2, <1>3, <1>4
  <2>2. CASE ~(i < k)
    <3>0. i \in 1 .. Len(p) + Len(q) /\ ~(i <= Len(p)) /\ Len(p) = k - 1
      BY <2>2, <1>1, <1>2, <1>4
    <3>1. t[i] = q[i - (k - 1)]
      BY <3>0, <1>1, <1>2, <1>3
    <3>2. i - (k - 1) \in 1 .. Len(s) - k /\ (i - (k - 1)) + k = i + 1
      BY <2>2, <1>4
    <3>3. q[i - (k - 1)] = s[(i - (k - 1)) + k]
      BY <1>2, <3>2
    <3> QED  BY <2>2, <3>1, <3>2, <3>3
  <2> QED  BY <2>1, <2>2
<1> QED BY <1>4, <1>5 DEF t

\* RemoveFirst removes one item that equals x, if there is one.
LEMMA RemoveFirstAt ==
    ASSUME NEW T, NEW s \in Seq(T), NEW x
    PROVE  \/ x \notin Elems(s) /\ RemoveFirst(s, x) = s
           \/ \E k \in 1 .. Len(s) : s[k] = x /\ RemoveFirst(s, x) = RemoveAt(s, k)
<1>1. CASE x \notin Elems(s)
  BY <1>1 DEF Elems, RemoveFirst
<1>2. CASE x \in Elems(s)
  <2> DEFINE I == {i \in 1 .. Len(s) : s[i] = x}
  <2>1. I # {} /\ I \in SUBSET Nat
    BY <1>2 DEF Elems
  <2>2. \E m \in I : \A y \in I : m <= y
    BY <2>1, NatLeast
  <2>3. Min(I) \in I
    <3> HIDE DEF I
    <3> QED BY <2>2, Zenon DEF Min
  <2>4. RemoveFirst(s, x) = RemoveAt(s, Min(I))
    BY <2>1 DEF RemoveFirst, SelectInSeq
  <2> QED BY <2>3, <2>4
<1> QED BY <1>1, <1>2

\* What is left after RemoveFirst.
LEMMA RemoveFirstFacts ==
    ASSUME NEW T, NEW s \in Seq(T), NEW x
    PROVE  /\ RemoveFirst(s, x) \in Seq(T)
           /\ Elems(RemoveFirst(s, x)) \subseteq Elems(s)
           /\ Elems(s) \ {x} \subseteq Elems(RemoveFirst(s, x))
           /\ x \in Elems(s) => Len(RemoveFirst(s, x)) = Len(s) - 1
<1> DEFINE t == RemoveFirst(s, x)
<1>1. CASE x \notin Elems(s) /\ t = s
  BY <1>1
<1>2. CASE \E k \in 1 .. Len(s) : s[k] = x /\ t = RemoveAt(s, k)
  <2> PICK k \in 1 .. Len(s) : s[k] = x /\ t = RemoveAt(s, k)
    BY <1>2
  <2>1. /\ t \in Seq(T) /\ Len(t) = Len(s) - 1 /\ Len(s) \in Nat
        /\ \A i \in 1 .. Len(s) - 1 : t[i] = IF i < k THEN s[i] ELSE s[i + 1]
    <3>1. /\ RemoveAt(s, k) \in Seq(T) /\ Len(RemoveAt(s, k)) = Len(s) - 1
          /\ \A i \in 1 .. Len(s) - 1 :
                 RemoveAt(s, k)[i] = IF i < k THEN s[i] ELSE s[i + 1]
      BY RemoveAtFacts
    <3> HIDE DEF t
    <3> QED BY <3>1
  <2> HIDE DEF t
  <2>2. ASSUME NEW y \in Elems(t) PROVE y \in Elems(s)
    <3>1. PICK i \in 1 .. Len(t) : y = t[i]
      BY DEF Elems
    <3>2. i \in 1 .. Len(s) /\ i + 1 \in 1 .. Len(s) /\ (y = s[i] \/ y = s[i + 1])
      BY <2>1, <3>1
    <3> QED BY <3>2 DEF Elems
  <2>3. ASSUME NEW y \in Elems(s), y # x PROVE y \in Elems(t)
    <3>1. PICK i \in 1 .. Len(s) : y = s[i]
      BY DEF Elems
    <3>2. CASE i < k
      <4>1. i \in 1 .. Len(t) /\ t[i] = y
        BY <2>1, <3>1, <3>2
      <4> QED BY <4>1 DEF Elems
    <3>3. CASE k < i
      <4>1. i - 1 \in 1 .. Len(t) /\ t[i - 1] = y
        BY <2>1, <3>1, <3>3
      <4> QED BY <4>1 DEF Elems
    <3> QED BY <2>3, <3>1, <3>2, <3>3
  <2> QED BY <2>1, <2>2, <2>3 DEF t
<1> QED BY <1>1, <1>2, RemoveFirstAt

\* Without duplicates it removes the item altogether.
LEMMA RemoveOnly ==
    ASSUME NEW T, NEW s \in Seq(T), NEW x, NoDup(s)
    PROVE  NoDup(RemoveFirst(s, x)) /\ Elems(RemoveFirst(s, x)) = Elems(s) \ {x}
<1>1. CASE x \notin Elems(s) /\ RemoveFirst(s, x) = s
  BY <1>1
<1>2. CASE \E k \in 1 .. Len(s) : s[k] = x /\ RemoveFirst(s, x) = RemoveAt(s, k)
  BY <1>2, SeqRemove
<1> QED BY <1>1, <1>2, RemoveFirstAt

\* Removing the last item leaves the others where they are.
LEMMA RemoveLast ==
    ASSUME NEW T, NEW s \in Seq(T), NoDup(s), Len(s) > 0
    PROVE  \A j \in 1 .. Len(s) - 1 : RemoveFirst(s, s[Len(s)])[j] = s[j]
<1>0. Len(s) \in Nat /\ Len(s) \in 1 .. Len(s)
  OBVIOUS
<1>1. s[Len(s)] \in Elems(s)
  BY <1>0 DEF Elems
<1>2. PICK k \in 1 .. Len(s) : s[k] = s[Len(s)] /\ RemoveFirst(s, s[Len(s)]) = RemoveAt(s, k)
  BY <1>1, RemoveFirstAt
<1>3. k = Len(s)
  BY <1>0, <1>2 DEF NoDup
<1>4. \A i \in 1 .. Len(s) - 1 :
          RemoveAt(s, k)[i] = IF i < k THEN s[i] ELSE s[i + 1]
  BY RemoveAtFacts
<1> QED BY <1>0, <1>2, <1>3, <1>4

\* Appending.
LEMMA AppendFacts ==
    ASSUME NEW T, NEW s \in Seq(T), NEW x \in T
    PROVE  /\ Append(s, x) \in Seq(T) /\ Len(Append(s, x)) = Len(s) + 1
           /\ \A i \in 1 .. Len(s) : Append(s, x)[i] = s[i]
           /\ Append(s, x)[Len(s) + 1] = x
           /\ Elems(Append(s, x)) = Elems(s) \cup {x}
           /\ NoDup(s) /\ x \notin Elems(s) => NoDup(Append(s, x))
<1> DEFINE t == Append(s, x)
<1>1. /\ t \in Seq(T) /\ Len(t) = Len(s) + 1 /\ Len(s) \in Nat
      /\ \A i \in 1 .. Len(s) : t[i] = s[i]
      /\ t[Len(s) + 1] = x
  OBVIOUS
<1> HIDE DEF t
<1>2. \A i \in 1 .. Len(t) : i \in 1 .. Len(s) \/ i = Len(s) + 1
  BY <1>1
<1>3. \A i \in 1 .. Len(s) : i \in 1 .. Len(t)
  BY <1>1
<1>4. Len(s) + 1 \in 1 .. Len(t)
  BY <1>1
<1>5. Elems(t) = Elems(s) \cup {x}
  BY <1>1, <1>2, <1>3, <1>4, Zenon DEF Elems
<1>6. ASSUME NoDup(s), x \notin Elems(s) PROVE NoDup(t)
  <2> SUFFICES ASSUME NEW i \in 1 .. Len(t), NEW j \in 1 .. Len(t), t[i] = t[j]
               PROVE  i = j
    BY DEF NoDup
  <2>1. \A k \in 1 .. Len(s) : t[k] = s[k] /\ s[k] # x
    BY <1>1, <1>6 DEF Elems
  <2> QED BY <1>1, <1>2, <1>6, <2>1 DEF NoDup
<1> QED BY <1>1, <1>5, <1>6 DEF t

\* Putting in front.
LEMMA ConsFacts ==
    ASSUME NEW T, NEW s \in Seq(T), NEW x \in T
    PROVE  /\ Cons(x, s) \in Seq(T) /\ Elems(Cons(x, s)) = Elems(s) \cup {x}
           /\ NoDup(s) /\ x \notin Elems(s) => NoDup(Cons(x, s))
<1> DEFINE t == Cons(x, s)
<1>1. /\ t \in Seq(T) /\ Len(t) = Len(s) + 1 /\ Len(s) \in Nat
      /\ \A i \in 1 .. Len(s) : t[i + 1] = s[i]
      /\ t[1] = x
  BY DEF Cons
<1> HIDE DEF t
<1>2. \A i \in 1 .. Len(t) : i = 1 \/ (i - 1 \in 1 .. Len(s) /\ t[i] = s[i - 1])
  BY <1>1
<1>3. \A i \in 1 .. Len(s) : i + 1 \in 1 .. Len(t)
  BY <1>1
<1>4. 1 \in 1 .. Len(t)
  BY <1>1
<1>5. Elems(t) = Elems(s) \cup {x}
  <2>1. ASSUME NEW y \in Elems(t) PROVE y \in Elems(s) \cup {x}
    <3>1. PICK i \in 1 .. Len(t) : t[i] = y
      BY DEF Elems
    <3>2. i = 1 \/ (i - 1 \in 1 .. Len(s) /\ t[i] = s[i - 1])
      BY <1>2
    <3> QED BY <1>1, <3>1, <3>2 DEF Elems
  <2>2. ASSUME NEW y \in Elems(s) PROVE y \in Elems(t)
    <3>1. PICK i \in 1 .. Len(s) : s[i] = y
      BY DEF Elems
    <3>2. i + 1 \in 1 .. Len(t) /\ t[i + 1] = y
      BY <1>1, <1>3, <3>1
    <3> QED BY <3>2 DEF Elems
  <2>3. x \in Elems(t)
    BY <1>1, <1>4 DEF Elems
  <2> QED BY <2>1, <2>2, <2>3
<1>6. ASSUME NoDup(s), x \notin Elems(s) PROVE NoDup(t)
  <2> SUFFICES ASSUME NEW i \in 1 .. Len(t), NEW j \in 1 .. Len(t), t[i] = t[j]
               PROVE  i = j
    BY DEF NoDup
  <2>1. \A k \in 1 .. Len(s) : s[k] # x
    BY <1>6 DEF Elems
  <2>2. CASE i = 1 \/ j = 1
    BY <1>1, <1>2, <2>1, <2>2
  <2>3. CASE i # 1 /\ j # 1
    <3>1. i - 1 \in 1 .. Len(s) /\ j - 1 \in 1 .. Len(s) /\ s[i - 1] = s[j - 1]
      BY <1>2, <2>3
    <3>2. i - 1 = j - 1
      BY <1>6, <3>1 DEF NoDup
    <3> QED BY <3>2
  <2> QED BY <2>2, <2>3
<1> QED BY <1>1, <1>5, <1>6 DEF t

\* Numbers indexed by the places of a sequence have a largest one.
LEMMA LargestAt ==
    ASSUME NEW n \in Nat \ {0}, NEW f, \A i \in 1 .. n : f[i] \in Nat
    PROVE  \E i \in 1 .. n : \A j \in 1 .. n : f[j] <= f[i]
<1> DEFINE Has(k) == \E i \in 1 .. k : \A j \in 1 .. k : f[j] <= f[i]
           Bad == {k \in 1 .. n : ~Has(k)}
<1> SUFFICES ASSUME ~Has(n) PROVE FALSE
  OBVIOUS
<1>1. Bad # {} /\ Bad \in SUBSET Nat
  <2>1. n \in 1 .. n
    OBVIOUS
  <2> HIDE DEF Has
  <2> QED BY <2>1
<1>2. PICK k \in Bad : \A y \in Bad : k <= y
  <2> HIDE DEF Bad
  <2> QED BY <1>1, NatLeast
<1>3. CASE k = 1
  <2>1. f[1] \in Nat
    OBVIOUS
  <2> QED BY <1>2, <1>3, <2>1
<1>4. CASE k # 1
  <2>1. k - 1 \in 1 .. n /\ Has(k - 1)
    <3> HIDE DEF Has
    <3>1. k \in 1 .. n
      OBVIOUS
    <3>2. k - 1 \in 1 .. n /\ ~(k <= k - 1)
      BY <1>4, <3>1
    <3>3. k - 1 \notin Bad
      BY <1>2, <3>2
    <3> QED BY <3>2, <3>3
  <2>2. PICK i \in 1 .. k - 1 : \A j \in 1 .. k - 1 : f[j] <= f[i]
    BY <2>1
  <2>3. i \in 1 .. k /\ k \in 1 .. k /\ f[i] \in Nat /\ f[k] \in Nat
    BY <1>2, <2>1, <2>2
  <2>4. \A j \in 1 .. k : j = k \/ j \in 1 .. k - 1
    BY <1>2
  <2>5. CASE f[k] <= f[i]
    BY <1>2, <2>2, <2>3, <2>4, <2>5
  <2>6. CASE f[i] <= f[k]
    <3>1. \A j \in 1 .. k : f[j] \in Nat
      BY <1>2
    <3>2. ASSUME NEW j \in 1 .. k PROVE f[j] <= f[k]
      <4>1. f[j] \in Nat
        BY <3>1
      <4>2. CASE j = k
        BY <4>1, <4>2
      <4>3. CASE j \in 1 .. k - 1
        <5>1. f[j] <= f[i]
          BY <2>2, <4>3
        <5> QED BY <2>3, <2>6, <4>1, <5>1
      <4> QED BY <2>4, <4>2, <4>3
    <3> QED BY <1>2, <2>3, <3>2
  <2> QED BY <2>3, <2>5, <2>6
<1> QED BY <1>3, <1>4

\* The head of the waiting queue is in it.
LEMMA FirstIsWaiting ==
    ASSUME waiting \in Seq(Reqs), waiting # <<>>
    PROVE  FirstWaiting \in Elems(waiting) /\ FirstWaiting \in Reqs
<1>1. Range(waiting) = Elems(waiting) /\ Elems(waiting) \subseteq Reqs /\ 1 \in 1 .. Len(waiting)
  BY DEF Range, Elems
<1>2. CASE Policy = "fcfs"
  BY <1>1, <1>2 DEF FirstWaiting, Elems
<1>3. CASE Policy # "fcfs"
  <2> DEFINE P == {Prio[q] : q \in Elems(waiting)}
  <2>1. P \in SUBSET Nat /\ P # {}
    BY <1>1, MMScheduleAssumption DEF Elems
  <2>2. PICK x \in P : \A y \in P : x <= y
    <3> HIDE DEF P
    <3> QED BY <2>1, NatLeast
  <2>3. \E r \in Range(waiting) : \A q \in Range(waiting) : Prio[r] <= Prio[q]
    BY <1>1, <2>2
  <2>4. FirstWaiting \in Range(waiting)
    BY <1>3, <2>3, Zenon DEF FirstWaiting
  <2> QED BY <1>1, <2>4
<1> QED BY <1>2, <1>3

\* The request that gives way is a running one.
LEMMA VictimIsRunning ==
    ASSUME running \in Seq(Reqs), running # <<>>
    PROVE  Victim \in Elems(running) /\ Victim \in Reqs
<1>1. /\ Range(running) = Elems(running) /\ Elems(running) \subseteq Reqs
      /\ Len(running) \in 1 .. Len(running) /\ Len(running) \in Nat \ {0}
  BY DEF Range, Elems
<1>2. CASE Policy = "fcfs"
  BY <1>1, <1>2 DEF Victim, Elems
<1>3. CASE Policy # "fcfs"
  <2> DEFINE f == [i \in 1 .. Len(running) |-> Prio[running[i]]]
  <2>1. \A i \in 1 .. Len(running) : f[i] \in Nat
    BY <1>1, MMScheduleAssumption DEF Elems
  <2>2. PICK i \in 1 .. Len(running) : \A j \in 1 .. Len(running) : f[j] <= f[i]
    <3> HIDE DEF f
    <3> QED BY <1>1, <2>1, LargestAt
  <2>3. \A q \in Elems(running) : Prio[q] <= Prio[running[i]]
    BY <2>2 DEF Elems
  <2>4. \E r \in Range(running) : \A q \in Range(running) : Prio[q] <= Prio[r]
    BY <1>1, <2>3 DEF Elems
  <2>5. Victim \in Range(running)
    BY <1>3, <2>4, Zenon DEF Victim
  <2> QED BY <1>1, <2>5
<1> QED BY <1>2, <1>3

-----------------------------------------------------------------------------
(* The prompts, and the calls of the encoder cache manager.                *)

\* The items of a prompt are features in the order of their offsets.
LEMMA PromptFacts ==
    ASSUME config \in Configs, NEW r \in Reqs
    PROVE  /\ Items[r] \in Seq(Features) /\ DOMAIN Items[r] = 1 .. Len(Items[r])
           /\ PromptLen[r] \in Nat /\ config.threshold \in Nat
           /\ \A k \in config.hits[r] : k \in Nat /\ k < PromptLen[r]
           /\ \A i \in DOMAIN Items[r] :
                 /\ Items[r][i].h \in Hashes
                 /\ Items[r][i].off \in Nat /\ Items[r][i].len \in Nat
                 /\ \A k \in Items[r][i].emb : k \in Nat /\ k < Items[r][i].len
                 /\ \A j \in 1 .. i : Items[r][j].off <= Items[r][i].off
<1>1. ConfigOK(config)
  BY MMScheduleAssumption
<1>2. Items[r] \in Seq(Features)
  BY <1>1 DEF ConfigOK, Items
<1>3. DOMAIN Items[r] = 1 .. Len(Items[r])
  BY <1>2
<1>4. /\ PromptLen[r] \in Nat /\ config.threshold \in Nat
      /\ \A k \in config.hits[r] : k \in Nat /\ k < PromptLen[r]
  BY <1>1 DEF ConfigOK, PromptLen
<1>5. ASSUME NEW i \in DOMAIN Items[r]
      PROVE  /\ Items[r][i].h \in Hashes
             /\ Items[r][i].off \in Nat /\ Items[r][i].len \in Nat
             /\ \A k \in Items[r][i].emb : k \in Nat /\ k < Items[r][i].len
             /\ \A j \in 1 .. i : Items[r][j].off <= Items[r][i].off
  <2>1. Items[r][i] \in Features
    BY <1>2, <1>3
  <2>2. /\ Items[r][i].emb \subseteq 0 .. Items[r][i].len - 1
        /\ \A j \in 1 .. i : Items[r][j].off <= Items[r][i].off
    BY <1>1 DEF ConfigOK, Items
  <2>3. /\ Items[r][i].h \in Hashes /\ Items[r][i].off \in Nat /\ Items[r][i].len \in Nat
    BY <2>1 DEF Features
  <2>4. \A k \in Items[r][i].emb : k \in Nat /\ k < Items[r][i].len
    BY <2>2, <2>3
  <2> QED BY <2>2, <2>3, <2>4
<1> QED BY <1>2, <1>3, <1>4, <1>5

\* free_encoder_input, however often it is called, is within the contract and
\* touches nothing but the references of r and the queue.
LEMMA ReleaseStep ==
    ASSUME ECInv, NEW r \in Reqs, NEW S \in SUBSET cached, Release(r, S)
    PROVE  /\ ECNext
           /\ UNCHANGED <<cached, freed, numFree>>
           /\ \A h \in Hashes : refs'[h] = IF h \in S THEN refs[h] \ {r} ELSE refs[h]
<1>1. PICK order \in SetToSeqs(LastHeld(r, S)) : FreeInputs(r, S, order)
  BY DEF Release
<1>2. ECNext
  BY <1>1, Zenon DEF ECNext
<1> QED BY <1>1, <1>2 DEF FreeInputs

\* EncoderCacheManager.free leaves a request no reference.
LEMMA ReleaseAllStep ==
    ASSUME ECInv, HolderInv, NEW r \in Reqs, ReleaseAll(r)
    PROVE  /\ ECNext
           /\ UNCHANGED <<cached, freed, numFree>>
           /\ \A h \in Hashes : refs'[h] = refs[h] \ {r}
<1> DEFINE S == HashesOf(r) \cap cached
<1>1. /\ ECNext /\ UNCHANGED <<cached, freed, numFree>>
      /\ \A h \in Hashes : refs'[h] = IF h \in S THEN refs[h] \ {r} ELSE refs[h]
  BY ReleaseStep DEF ReleaseAll
<1>2. ASSUME NEW h \in Hashes, r \in refs[h] PROVE h \in S
  BY <1>2 DEF HolderInv, HashesOf, ECInv, OnlyCachedHeld
<1> QED BY <1>1, <1>2

\* can_allocate makes room by dropping entries nobody holds, and reports them.
LEMMA ReserveStep ==
    ASSUME ECInv, NEW need \in Nat, CacheHasRoom(need), Reserve(need)
    PROVE  /\ ECNext
           /\ \E D \in SUBSET cached :
                 /\ \A h \in D : refs[h] = {}
                 /\ cached' = cached \ D /\ freed' = freed \cup D
           /\ refs' = refs
           /\ need <= numFree'
<1>1. numFree \in 0 .. CacheSize /\ numFreeable \in 0 .. CacheSize
  BY InvImpliesType DEF ECTypeOK
<1>2. need \in 0 .. CacheSize
  BY <1>1, EncoderCacheAssumption DEF CacheHasRoom
<1>3. ECNext
  BY <1>2 DEF ECNext
<1>4. CASE need <= numFree /\ UNCHANGED ecVars
  <2>1. {} \in SUBSET cached /\ cached' = cached \ {} /\ freed' = freed \cup {}
    BY <1>4 DEF ecVars
  <2> QED BY <1>3, <1>4, <2>1 DEF ecVars
<1>5. ASSUME NEW k \in 1 .. Len(freeable), need <= numFree + SlotsOf(Oldest(k)), Evict(k)
      PROVE  /\ \E D \in SUBSET cached :
                   /\ \A h \in D : refs[h] = {}
                   /\ cached' = cached \ D /\ freed' = freed \cup D
             /\ refs' = refs /\ need <= numFree'
  <2>1. Len(freeable) \in Nat
    BY DEF ECInv, Shape
  <2>2. \A i \in 1 .. k : i \in 1 .. Len(freeable)
    BY <2>1
  <2>3. Oldest(k) \subseteq Unreferenced
    BY <2>2 DEF Oldest, ECInv, FreeableIsUnreferenced
  <2> QED BY <1>5, <2>3 DEF Evict, Unreferenced
<1> QED BY <1>3, <1>4, <1>5 DEF Reserve

-----------------------------------------------------------------------------
(* Types.                                                                  *)

\* An output with one more request in it.
LEMMA ScheduledOut ==
    ASSUME NEW o \in Outputs, NEW r \in Reqs, NEW n \in Int, NEW H \in SUBSET Hashes, NEW p,
           p = [o EXCEPT !.order = Append(@, r), !.n[r] = n, !.enc[r] = H]
    PROVE  /\ p \in Outputs
           /\ p.order = Append(o.order, r)
           /\ p.n = [o.n EXCEPT ![r] = n] /\ p.enc = [o.enc EXCEPT ![r] = H]
           /\ p.start = o.start /\ p.freed = o.freed
<1>1. /\ o.order \in Seq(Reqs) /\ o.n \in [Reqs -> Int] /\ o.enc \in [Reqs -> SUBSET Hashes]
      /\ o.start \in [Reqs -> Int] /\ o.freed \in SUBSET Hashes
  BY DEF Outputs
<1>2. /\ p.order = Append(o.order, r)
      /\ p.n = [o.n EXCEPT ![r] = n] /\ p.enc = [o.enc EXCEPT ![r] = H]
      /\ p.start = o.start /\ p.freed = o.freed
      /\ p = [order |-> p.order, n |-> p.n, enc |-> p.enc, start |-> p.start, freed |-> p.freed]
  BY DEF Outputs
<1>3. Append(o.order, r) \in Seq(Reqs)
  BY <1>1
<1>4. [o.n EXCEPT ![r] = n] \in [Reqs -> Int] /\ [o.enc EXCEPT ![r] = H] \in [Reqs -> SUBSET Hashes]
  BY <1>1
<1> QED BY <1>1, <1>2, <1>3, <1>4 DEF Outputs

\* An output with one request less.
LEMMA UnscheduledOut ==
    ASSUME NEW o \in Outputs, NEW r \in Reqs, NEW p,
           p = [o EXCEPT !.order = RemoveFirst(@, r), !.n[r] = 0, !.enc[r] = {}]
    PROVE  /\ p \in Outputs
           /\ p.order = RemoveFirst(o.order, r)
           /\ p.n = [o.n EXCEPT ![r] = 0] /\ p.enc = [o.enc EXCEPT ![r] = {}]
           /\ p.start = o.start /\ p.freed = o.freed
<1>1. /\ o.order \in Seq(Reqs) /\ o.n \in [Reqs -> Int] /\ o.enc \in [Reqs -> SUBSET Hashes]
      /\ o.start \in [Reqs -> Int] /\ o.freed \in SUBSET Hashes
  BY DEF Outputs
<1>2. /\ p.order = RemoveFirst(o.order, r)
      /\ p.n = [o.n EXCEPT ![r] = 0] /\ p.enc = [o.enc EXCEPT ![r] = {}]
      /\ p.start = o.start /\ p.freed = o.freed
      /\ p = [order |-> p.order, n |-> p.n, enc |-> p.enc, start |-> p.start, freed |-> p.freed]
  BY DEF Outputs
<1>3. RemoveFirst(o.order, r) \in Seq(Reqs)
  BY <1>1, RemoveFirstFacts
<1>4. [o.n EXCEPT ![r] = 0] \in [Reqs -> Int] /\ [o.enc EXCEPT ![r] = {}] \in [Reqs -> SUBSET Hashes]
  BY <1>1
<1> QED BY <1>1, <1>2, <1>3, <1>4 DEF Outputs

\* The empty output.
LEMMA NoOutFacts ==
    /\ NoOut \in Outputs /\ NoOut.order = <<>> /\ Elems(NoOut.order) = {}
    /\ \A r \in Reqs : NoOut.n[r] = 0 /\ NoOut.enc[r] = {}
<1>1. /\ NoOut.order = <<>> /\ NoOut.n = [r \in Reqs |-> 0] /\ NoOut.enc = [r \in Reqs |-> {}]
      /\ NoOut.start = [r \in Reqs |-> 0] /\ NoOut.freed = {}
  BY DEF NoOut
<1>2. NoOut \in Outputs
  BY DEF NoOut, Outputs
<1>3. Elems(NoOut.order) = {}
  BY <1>1 DEF Elems
<1> QED BY <1>1, <1>2, <1>3

\* An iteration starts from types that are right.
LEMMA ConsiderType ==
    ASSUME config \in Configs, tokens \in Int, encBudget \in Int,
           NEW r \in Reqs, NEW base \in Int, NEW src \in {"running", "waiting"}
    PROVE  Consider(r, base, src) \in Iterations
<1>1. PromptLen[r] \in Nat /\ config.threshold \in Nat
  BY PromptFacts
<1>2. Wanted(r, base) \in Int
  BY <1>1 DEF Wanted, Least
<1> QED BY <1>2 DEF Consider, Iterations

\* What the items loop does to the record of the iteration.
LEMMA AdvanceFields ==
    ASSUME NEW c \in Iterations, NEW e, e = [c EXCEPT !.i = @ + 1]
    PROVE  /\ e \in Iterations /\ e.i = c.i + 1
           /\ e.r = c.r /\ e.base = c.base /\ e.n = c.n /\ e.hashes = c.hashes /\ e.src = c.src
<1>1. c.i + 1 \in Nat \ {0}
  BY DEF Iterations
<1>2. e = [r |-> c.r, base |-> c.base, n |-> c.n, i |-> c.i + 1, hashes |-> c.hashes,
           budget |-> c.budget, src |-> c.src]
  BY DEF Iterations
<1> QED BY <1>1, <1>2 DEF Iterations

\* The same when the tokens are cut.
LEMMA CutFields ==
    ASSUME NEW c \in Iterations, NEW m \in Int, NEW e, e = [c EXCEPT !.n = m]
    PROVE  /\ e \in Iterations /\ e.i = c.i /\ e.n = m
           /\ e.r = c.r /\ e.base = c.base /\ e.hashes = c.hashes /\ e.src = c.src
<1>1. e = [r |-> c.r, base |-> c.base, n |-> m, i |-> c.i, hashes |-> c.hashes,
           budget |-> c.budget, src |-> c.src]
  BY DEF Iterations
<1> QED BY <1>1 DEF Iterations

\* The same when an output is granted.
LEMMA GrantFields ==
    ASSUME NEW c \in Iterations, NEW h \in Hashes, NEW z \in Int, NEW e,
           e = [c EXCEPT !.i = @ + 1, !.hashes = @ \cup {h}, !.budget = @ - z]
    PROVE  /\ e \in Iterations /\ e.i = c.i + 1 /\ e.hashes = c.hashes \cup {h}
           /\ e.r = c.r /\ e.base = c.base /\ e.n = c.n /\ e.src = c.src
<1>1. c.i + 1 \in Nat \ {0} /\ c.budget - z \in Int /\ c.hashes \cup {h} \in SUBSET Hashes
  BY DEF Iterations
<1>2. e = [r |-> c.r, base |-> c.base, n |-> c.n, i |-> c.i + 1, hashes |-> c.hashes \cup {h},
           budget |-> c.budget - z, src |-> c.src]
  BY DEF Iterations
<1> QED BY <1>1, <1>2 DEF Iterations

\* Requests from outside, and the worker.
LEMMA TypesOutside ==
    ASSUME SchedInv, UNCHANGED config,
           \/ \E r \in Reqs : AddRequest(r) \/ Abort(r)
           \/ ResetEncoderCache \/ WorkerExecute
    PROVE  TypesInv'
<1> USE DEF SchedInv, TypesInv, loopVars, queueVars, schedVars, AtCur
<1>1. CASE \E r \in Reqs : AddRequest(r)
  BY <1>1 DEF AddRequest
<1>2. CASE \E r \in Reqs : Abort(r)
  <2> PICK r \in Reqs : Abort(r)
    BY <1>2
  <2>1. waiting' \in Seq(Reqs) /\ running' \in Seq(Reqs)
    BY RemoveFirstFacts DEF Abort, FreeRequest
  <2>2. /\ status' \in [Reqs -> {"new", "waiting", "running", "finished"}]
        /\ computed' = computed
    BY DEF Abort, FreeRequest
  <2> QED BY <2>1, <2>2 DEF Abort
<1>3. CASE ResetEncoderCache
  BY <1>3 DEF ResetEncoderCache
<1>4. CASE WorkerExecute
  <2>1. Head(outq) \in Outputs /\ Tail(outq) \in Seq(Outputs)
    BY <1>4 DEF WorkerExecute
  <2>2. Append(resq, Head(outq)) \in Seq(Outputs)
    BY <2>1
  <2>3. worker' \in SUBSET Hashes
    <3>1. Head(outq).enc \in [Reqs -> SUBSET Hashes]
      BY <2>1 DEF Outputs
    <3>2. WorkerCacheAfter(Head(outq), worker) \in SUBSET Hashes
      BY <3>1 DEF WorkerCacheAfter
    <3> QED BY <1>4, <3>2 DEF WorkerExecute
  <2> QED BY <1>4, <2>1, <2>2, <2>3 DEF WorkerExecute
<1> QED BY <1>1, <1>2, <1>3, <1>4

\* The loops, but for what they schedule and preempt.
LEMMA TypesLoops ==
    ASSUME SchedInv, UNCHANGED config,
           \/ BeginSchedule \/ RunningNext \/ RunningDone \/ SkipRunning
           \/ WaitingNext \/ WaitingDone \/ SkipWaiting \/ RefuseWaiting
           \/ AwaitLast \/ TakeResult
    PROVE  TypesInv'
<1> USE DEF SchedInv, TypesInv, loopVars, queueVars, schedVars, AtCur
<1>1. CASE BeginSchedule
  BY <1>1, NoOutFacts, MMScheduleAssumption DEF BeginSchedule
<1>2. CASE RunningNext
  <2>1. running[idx] \in Reqs /\ computed[running[idx]] \in Int
    BY <1>2 DEF RunningNext
  <2>2. cur' \in Iterations
    BY <1>2, <2>1, ConsiderType DEF RunningNext
  <2> QED BY <1>2, <2>2 DEF RunningNext
<1>3. CASE WaitingNext
  <2>1. PICK hit \in config.hits[FirstWaiting] : cur' = Consider(FirstWaiting, hit, "waiting")
    BY <1>3 DEF WaitingNext
  <2>2. FirstWaiting \in Reqs
    BY <1>3, FirstIsWaiting DEF WaitingNext
  <2>3. hit \in Int
    BY <2>1, <2>2, PromptFacts
  <2>4. cur' \in Iterations
    BY <2>1, <2>2, <2>3, ConsiderType
  <2> QED BY <1>3, <2>4 DEF WaitingNext
<1>4. CASE RunningDone \/ SkipRunning \/ WaitingDone \/ SkipWaiting \/ RefuseWaiting
           \/ AwaitLast \/ TakeResult
  BY <1>4 DEF RunningDone, SkipRunning, WaitingDone, SkipWaiting, RefuseWaiting,
              AwaitLast, TakeResult
<1> QED BY <1>1, <1>2, <1>3, <1>4

\* The items loop.
LEMMA TypesItems ==
    ASSUME SchedInv, UNCHANGED config, ItemLoop
    PROVE  TypesInv'
<1> USE DEF SchedInv, TypesInv, queueVars, schedVars, itemsUnchanged, AtCur
<1>0. cur \in Iterations /\ pc = "items"
  BY DEF ItemLoop, ItemSettled, ItemHit, ItemRefused, ItemGranted, ItemsDone, AtItem, AtMiss
<1>1. \A i \in DOMAIN Items[cur.r] : Items[cur.r][i].off \in Nat /\ Items[cur.r][i].h \in Hashes
  BY <1>0, PromptFacts DEF Iterations
<1>2. AtItem => Item.off \in Nat /\ Item.h \in Hashes /\ Size[Item.h] \in Nat
  <2>1. AtItem => cur.i \in DOMAIN Items[cur.r]
    BY <1>0, PromptFacts DEF AtItem, ItemsLeft, Iterations
  <2> QED BY <1>1, <2>1, EncoderCacheAssumption DEF Item
<1>3. cur' \in Iterations
  <2>1. CASE ItemSettled \/ ItemHit
    BY <1>0, <2>1, AdvanceFields DEF ItemSettled, ItemHit
  <2>2. CASE ItemRefused
    <3>1. (IF cur.base < Item.off THEN Item.off - cur.base ELSE 0) \in Int
      BY <1>0, <1>2, <2>2 DEF ItemRefused, AtMiss, Iterations
    <3> QED BY <1>0, <2>2, <3>1, CutFields DEF ItemRefused, StopBeforeItem
  <2>3. CASE ItemGranted
    <3>1. AtItem
      BY <2>3 DEF ItemGranted, AtMiss
    <3>2. Item.h \in Hashes /\ Size[Item.h] \in Int
      BY <1>2, <3>1
    <3>3. CASE cur' = [cur EXCEPT !.i = @ + 1, !.hashes = @ \cup {Item.h},
                                  !.budget = @ - Size[Item.h]]
      BY <1>0, <3>2, <3>3, GrantFields
    <3>4. CASE cur' = [cur EXCEPT !.i = @ + 1]
      BY <1>0, <3>4, AdvanceFields
    <3> QED BY <2>3, <3>3, <3>4 DEF ItemGranted
  <2>4. CASE ItemsDone
    BY <1>0, <2>4 DEF ItemsDone
  <2> QED BY <2>1, <2>2, <2>3, <2>4 DEF ItemLoop
<1>4. UNCHANGED itemsUnchanged /\ pc' \in {"items", "place"}
  BY <1>0 DEF ItemLoop, ItemSettled, ItemHit, ItemRefused, StopBeforeItem, ItemGranted, ItemsDone
<1> QED BY <1>3, <1>4

\* Scheduling the request of the iteration.
LEMMA TypesSchedule ==
    ASSUME SchedInv, UNCHANGED config, ScheduleRunning \/ ScheduleWaiting
    PROVE  TypesInv'
<1> USE DEF SchedInv, TypesInv, queueVars, AtCur
<1>0. cur \in Iterations /\ Schedule
  BY DEF ScheduleRunning, ScheduleWaiting
<1>1. out' \in Outputs
  BY <1>0, ScheduledOut DEF Schedule, Iterations
<1>2. tokens' \in Int /\ encBudget' \in Int
  BY <1>0 DEF Schedule, Iterations
<1>3. CASE ScheduleRunning
  BY <1>1, <1>2, <1>3 DEF ScheduleRunning
<1>4. CASE ScheduleWaiting
  <2>1. waiting' \in Seq(Reqs)
    BY <1>0, <1>4, RemoveFirstFacts DEF ScheduleWaiting
  <2>2. running' \in Seq(Reqs)
    BY <1>0, <1>4 DEF ScheduleWaiting, Iterations
  <2>3. status' \in [Reqs -> {"new", "waiting", "running", "finished"}]
    BY <1>0, <1>4 DEF ScheduleWaiting, Iterations
  <2>4. computed' \in [Reqs -> Int]
    BY <1>0, <1>4 DEF ScheduleWaiting, Iterations
  <2> QED BY <1>1, <1>2, <1>4, <2>1, <2>2, <2>3, <2>4 DEF ScheduleWaiting
<1> QED BY <1>3, <1>4

\* In the running loop somebody is running, and one that is taken back was counted.
LEMMA PreemptFacts ==
    ASSUME SchedInv, Preempt
    PROVE  /\ cur \in Iterations /\ pc = "place" /\ cur.src = "running"
           /\ Victim \in Elems(running) /\ Victim \in Reqs
           /\ idx' \in Nat \ {0} /\ Len(out'.order) < idx'
           /\ out' \in Outputs /\ Elems(out'.order) \subseteq Elems(out.order)
           /\ \A r \in Elems(out.order) : r # Victim => r \in Elems(out'.order)
           /\ \A r \in Reqs : out'.n[r] > 0 => r \in Elems(out'.order)
<1> USE DEF SchedInv, TypesInv
<1>1. cur \in Iterations /\ pc = "place" /\ cur.src = "running" /\ running # <<>>
  BY DEF Preempt, AtCur, CurInv, Elems
<1>2. Victim \in Elems(running) /\ Victim \in Reqs
  BY <1>1, VictimIsRunning
<1>3. Len(out.order) < idx /\ \A r \in Reqs : out.n[r] > 0 => r \in Elems(out.order)
  BY <1>1 DEF OrderInv, Loops, InRunningLoop, AtCur
<1>4. Unschedule(Victim)
  BY DEF Preempt
<1>5. out.order \in Seq(Reqs) /\ Len(out.order) \in Nat /\ out.n \in [Reqs -> Int]
  BY DEF Outputs
<1> HIDE DEF Preempt
<1>6. CASE UNCHANGED <<out, idx>>
  BY <1>1, <1>2, <1>3, <1>6
<1>7. CASE /\ out.n[Victim] > 0 /\ idx' = idx - 1
           /\ out' = [out EXCEPT !.order = RemoveFirst(@, Victim), !.n[Victim] = 0, !.enc[Victim] = {}]
  <2>1. /\ out' \in Outputs /\ out'.order = RemoveFirst(out.order, Victim)
        /\ out'.n = [out.n EXCEPT ![Victim] = 0]
    BY <1>2, <1>7, UnscheduledOut
  <2>2. Victim \in Elems(out.order)
    BY <1>2, <1>3, <1>7
  <2>3. /\ Elems(out'.order) \subseteq Elems(out.order)
        /\ Elems(out.order) \ {Victim} \subseteq Elems(out'.order)
        /\ Len(out'.order) = Len(out.order) - 1 /\ Len(out'.order) \in Nat
    <3> DEFINE q == RemoveFirst(out.order, Victim)
    <3>1. /\ Elems(q) \subseteq Elems(out.order) /\ Elems(out.order) \ {Victim} \subseteq Elems(q)
          /\ Len(q) = Len(out.order) - 1 /\ q \in Seq(Reqs)
      BY <1>5, <2>2, RemoveFirstFacts
    <3>2. Len(q) \in Nat
      BY <3>1
    <3> HIDE DEF q
    <3> QED BY <2>1, <3>1, <3>2 DEF q
  <2>4. idx' \in Nat \ {0} /\ Len(out'.order) < idx'
    <3> DEFINE m == Len(out'.order)
               k == Len(out.order)
    <3>1. m = k - 1 /\ m \in Nat /\ k \in Nat /\ k < idx /\ idx' = idx - 1 /\ idx \in Nat
      BY <1>3, <1>5, <1>7, <2>3
    <3> HIDE DEF m, k
    <3>2. idx' \in Nat \ {0} /\ m < idx'
      BY <3>1
    <3> QED BY <3>2 DEF m
  <2>5. \A r \in Reqs : out'.n[r] > 0 => r \in Elems(out'.order)
    BY <1>2, <1>3, <1>5, <2>1, <2>3
  <2> QED BY <1>1, <1>2, <2>1, <2>3, <2>4, <2>5
<1> QED BY <1>4, <1>6, <1>7 DEF Unschedule

\* A preemption.
LEMMA TypesPreempt ==
    ASSUME SchedInv, UNCHANGED config, Preempt
    PROVE  TypesInv'
<1>1. /\ cur \in Iterations /\ Victim \in Reqs /\ idx' \in Nat \ {0} /\ out' \in Outputs
  BY PreemptFacts
<1> USE DEF SchedInv, TypesInv, queueVars
<1>2. tokens' \in Int /\ encBudget' \in Int
  <2>1. out.n[Victim] \in Int /\ out.enc[Victim] \in SUBSET Hashes
    BY <1>1 DEF Outputs
  <2>2. SlotsOf(out.enc[Victim]) \in Nat
    BY <2>1, SlotsNat
  <2> QED BY <2>1, <2>2 DEF Preempt, Unschedule
<1>3. running' \in Seq(Reqs)
  BY RemoveFirstFacts DEF Preempt
<1>4. waiting' \in Seq(Reqs)
  BY <1>1, ConsFacts DEF Preempt
<1>5. /\ status' \in [Reqs -> {"new", "waiting", "running", "finished"}]
      /\ computed' \in [Reqs -> Int]
  BY <1>1 DEF Preempt
<1> QED BY <1>1, <1>2, <1>3, <1>4, <1>5 DEF Preempt

\* The end of schedule().
LEMMA TypesCommit ==
    ASSUME SchedInv, UNCHANGED config, Commit \/ UpdateAfterSchedule \/ Submit
    PROVE  TypesInv'
<1> USE DEF SchedInv, TypesInv, queueVars, schedVars, AtCur
<1>1. CASE Commit
  <2>1. freed \in SUBSET Hashes
    BY DEF ECInv, Shape
  <2>2. out' \in Outputs
    BY <1>1, <2>1 DEF Commit, Outputs
  <2> QED BY <1>1, <2>2 DEF Commit
<1>2. CASE UpdateAfterSchedule
  <2> DEFINE r == out.order[idx]
  <2>1. r \in Reqs
    BY <1>2 DEF UpdateAfterSchedule, Outputs
  <2>2. computed[r] + out.n[r] \in Int
    BY <2>1 DEF Outputs
  <2>3. computed' = [computed EXCEPT ![r] = computed[r] + out.n[r]]
    BY <1>2 DEF UpdateAfterSchedule
  <2> HIDE DEF r
  <2>4. computed' \in [Reqs -> Int]
    BY <2>1, <2>2, <2>3
  <2> QED BY <1>2, <2>4 DEF UpdateAfterSchedule
<1>3. CASE Submit
  BY <1>3, NoOutFacts DEF Submit
<1> QED BY <1>1, <1>2, <1>3

\* update_from_output.
LEMMA TypesOutput ==
    ASSUME SchedInv, UNCHANGED config, UpdateFromOutput \/ OutputDone
    PROVE  TypesInv'
<1> USE DEF SchedInv, TypesInv, queueVars, schedVars, AtCur
<1>1. CASE UpdateFromOutput
  <2>1. UNCHANGED schedVars \/ \E r : FreeRequest(r)
    BY <1>1 DEF UpdateFromOutput
  <2>2. ASSUME NEW r, FreeRequest(r)
        PROVE  /\ waiting' \in Seq(Reqs) /\ running' \in Seq(Reqs)
               /\ status' \in [Reqs -> {"new", "waiting", "running", "finished"}]
               /\ computed' = computed
    BY <2>2, RemoveFirstFacts DEF FreeRequest
  <2> QED BY <1>1, <2>1, <2>2 DEF UpdateFromOutput
<1>2. CASE OutputDone
  <2>1. Tail(resq) \in Seq(Outputs)
    BY <1>2 DEF OutputDone
  <2> QED BY <1>2, <2>1 DEF OutputDone
<1> QED BY <1>1, <1>2

-----------------------------------------------------------------------------
(* Queues.                                                                 *)

\* A request that ends leaves both queues.
LEMMA QueuesFree ==
    ASSUME SchedInv, NEW r \in Reqs, FreeRequest(r)
    PROVE  QueuesInv'
<1> USE DEF SchedInv, TypesInv
<1>1. /\ NoDup(running') /\ Elems(running') = Elems(running) \ {r}
      /\ NoDup(waiting') /\ Elems(waiting') = Elems(waiting) \ {r}
  BY RemoveOnly DEF FreeRequest, QueuesInv
<1>2. \A q \in Reqs : status'[q] = IF q = r THEN "finished" ELSE status[q]
  BY DEF FreeRequest
<1> QED BY <1>1, <1>2 DEF QueuesInv

\* A request that arrives joins the waiting queue.
LEMMA QueuesAdd ==
    ASSUME SchedInv, NEW r \in Reqs, AddRequest(r)
    PROVE  QueuesInv'
<1> USE DEF SchedInv, TypesInv
<1>1. r \notin Elems(waiting) /\ r \notin Elems(running)
  BY DEF AddRequest, QueuesInv
<1>2. waiting' = Append(waiting, r) /\ running' = running
  BY DEF AddRequest
<1>3. NoDup(waiting') /\ Elems(waiting') = Elems(waiting) \cup {r}
  BY <1>1, <1>2, AppendFacts DEF QueuesInv
<1>4. \A q \in Reqs : status'[q] = IF q = r THEN "waiting" ELSE status[q]
  BY DEF AddRequest
<1> QED BY <1>1, <1>2, <1>3, <1>4 DEF QueuesInv

\* A preempted request goes back to the waiting queue.
LEMMA QueuesPreempt ==
    ASSUME SchedInv, Preempt
    PROVE  /\ QueuesInv'
           /\ Elems(running') = Elems(running) \ {Victim}
<1> USE DEF SchedInv, TypesInv
<1>1. Victim \in Elems(running) /\ Victim \in Reqs
  BY PreemptFacts
<1>2. Victim \notin Elems(waiting)
  BY <1>1 DEF QueuesInv
<1>3. waiting' = Cons(Victim, waiting) /\ running' = RemoveFirst(running, Victim)
  BY DEF Preempt
<1>4. NoDup(running') /\ Elems(running') = Elems(running) \ {Victim}
  BY <1>3, RemoveOnly DEF QueuesInv
<1>5. NoDup(waiting') /\ Elems(waiting') = Elems(waiting) \cup {Victim}
  <2> DEFINE v == Victim
  <2>1. v \in Reqs /\ v \notin Elems(waiting) /\ waiting' = Cons(v, waiting)
    BY <1>1, <1>2, <1>3
  <2> HIDE DEF v, SchedInv, TypesInv
  <2>2. NoDup(Cons(v, waiting)) /\ Elems(Cons(v, waiting)) = Elems(waiting) \cup {v}
    <3>1. waiting \in Seq(Reqs) /\ NoDup(waiting)
      BY DEF SchedInv, TypesInv, QueuesInv
    <3> QED BY <2>1, <3>1, ConsFacts, Zenon
  <2> QED BY <2>1, <2>2 DEF v
<1>6. \A q \in Reqs : status'[q] = IF q = Victim THEN "waiting" ELSE status[q]
  BY DEF Preempt
<1> QED BY <1>1, <1>2, <1>4, <1>5, <1>6 DEF QueuesInv

\* A request that is admitted moves to the running queue.
LEMMA QueuesAdmit ==
    ASSUME SchedInv, ScheduleWaiting
    PROVE  /\ QueuesInv'
           /\ cur.r \in Reqs /\ cur.r \in Elems(waiting)
           /\ Elems(running') = Elems(running) \cup {cur.r}
<1> USE DEF SchedInv, TypesInv
<1>1. cur.r \in Reqs /\ cur.r \in Elems(waiting)
  BY DEF ScheduleWaiting, AtCur, CurInv, Iterations
<1>2. cur.r \notin Elems(running)
  BY <1>1 DEF QueuesInv
<1>3. waiting' = RemoveFirst(waiting, cur.r) /\ running' = Append(running, cur.r)
  BY DEF ScheduleWaiting
<1>4. NoDup(waiting') /\ Elems(waiting') = Elems(waiting) \ {cur.r}
  BY <1>3, RemoveOnly DEF QueuesInv
<1>5. NoDup(running') /\ Elems(running') = Elems(running) \cup {cur.r}
  BY <1>1, <1>2, <1>3, AppendFacts DEF QueuesInv
<1>6. \A q \in Reqs : status'[q] = IF q = cur.r THEN "running" ELSE status[q]
  BY DEF ScheduleWaiting
<1> QED BY <1>1, <1>2, <1>4, <1>5, <1>6 DEF QueuesInv

\* The request whose result comes back.
LEMMA OutputRequest ==
    ASSUME SchedInv, UpdateFromOutput
    PROVE  \/ UNCHANGED <<ecVars, schedVars>>
           \/ \E r \in Reqs : FreeRequest(r)
<1>1. resq # <<>> /\ resq \in Seq(Outputs) /\ idx \in Nat \ {0}
  BY DEF SchedInv, TypesInv, UpdateFromOutput
<1>2. resq[1] \in Outputs
  BY <1>1
<1>3. resq[1].order \in Seq(Reqs)
  BY <1>2 DEF Outputs
<1>4. resq[1].order[idx] \in Reqs
  BY <1>1, <1>3 DEF UpdateFromOutput
<1> QED BY <1>4 DEF UpdateFromOutput

\* A request is in the queue its status says, after any step.
LEMMA QueuesNext ==
    ASSUME SchedInv, MMNext
    PROVE  QueuesInv'
<1>1. CASE \E r \in Reqs : AddRequest(r)
  BY <1>1, QueuesAdd
<1>2. CASE \E r \in Reqs : FreeRequest(r)
  BY <1>2, QueuesFree
<1>3. CASE Preempt
  BY <1>3, QueuesPreempt
<1>4. CASE ScheduleWaiting
  BY <1>4, QueuesAdmit
<1>5. CASE UNCHANGED <<waiting, running, status>>
  BY <1>5 DEF SchedInv, QueuesInv
<1>6. ItemLoop => UNCHANGED <<waiting, running, status>>
  BY DEF ItemLoop, ItemSettled, ItemHit, ItemRefused, StopBeforeItem, ItemGranted, ItemsDone,
         itemsUnchanged, schedVars
<1>7. UpdateFromOutput => UNCHANGED <<waiting, running, status>> \/ \E r \in Reqs : FreeRequest(r)
  BY OutputRequest DEF schedVars
<1> QED BY <1>1, <1>2, <1>3, <1>4, <1>5, <1>6, <1>7
        DEF MMNext, Outside, EngineStep, WorkerStep, Abort, ResetEncoderCache, BeginSchedule,
            RunningNext, RunningDone, SkipRunning, ScheduleRunning, WaitingNext, WaitingDone,
            SkipWaiting, RefuseWaiting, Commit, UpdateAfterSchedule, Submit, AwaitLast,
            TakeResult, OutputDone, WorkerExecute, schedVars

-----------------------------------------------------------------------------
(* The step under construction.                                            *)

\* The items loop moves the record of the iteration and nothing around it.
LEMMA ItemLoopFrame ==
    ASSUME SchedInv, ItemLoop
    PROVE  /\ UNCHANGED <<schedVars, idx, tokens, encBudget, preempting, out, queueVars>>
           /\ pc = "items" /\ pc' \in {"items", "place"}
           /\ cur \in Iterations /\ cur' \in Iterations
           /\ cur'.r = cur.r /\ cur'.base = cur.base /\ cur'.src = cur.src
           /\ cur'.i \in {cur.i, cur.i + 1}
<1>0. cur \in Iterations /\ pc = "items"
  BY DEF SchedInv, TypesInv, AtCur, ItemLoop, ItemSettled, ItemHit, ItemRefused, ItemGranted,
         ItemsDone, AtItem, AtMiss
<1>1. UNCHANGED itemsUnchanged /\ pc' \in {"items", "place"}
  BY <1>0 DEF ItemLoop, ItemSettled, ItemHit, ItemRefused, StopBeforeItem, ItemGranted, ItemsDone
<1>2. AtItem => Item.off \in Nat /\ Item.h \in Hashes /\ Size[Item.h] \in Int
  <2>1. AtItem => cur.i \in DOMAIN Items[cur.r]
    BY <1>0, PromptFacts DEF AtItem, ItemsLeft, Iterations, SchedInv, TypesInv
  <2>2. \A i \in DOMAIN Items[cur.r] : Items[cur.r][i].off \in Nat /\ Items[cur.r][i].h \in Hashes
    BY <1>0, PromptFacts DEF Iterations, SchedInv, TypesInv
  <2> QED BY <2>1, <2>2, EncoderCacheAssumption DEF Item
<1>3. CASE ItemSettled \/ ItemHit
  BY <1>0, <1>1, <1>3, AdvanceFields DEF ItemSettled, ItemHit, itemsUnchanged
<1>4. CASE ItemRefused
  <2>1. (IF cur.base < Item.off THEN Item.off - cur.base ELSE 0) \in Int
    BY <1>0, <1>2, <1>4 DEF ItemRefused, AtMiss, Iterations
  <2> QED BY <1>0, <1>1, <1>4, <2>1, CutFields DEF ItemRefused, StopBeforeItem, itemsUnchanged
<1>5. CASE ItemGranted
  <2>1. Item.h \in Hashes /\ Size[Item.h] \in Int
    BY <1>2, <1>5 DEF ItemGranted, AtMiss
  <2>2. CASE cur' = [cur EXCEPT !.i = @ + 1, !.hashes = @ \cup {Item.h},
                                !.budget = @ - Size[Item.h]]
    <3> DEFINE h == Item.h
               z == Size[Item.h]
               e == cur'
    <3>1. /\ e = [cur EXCEPT !.i = @ + 1, !.hashes = @ \cup {h}, !.budget = @ - z]
          /\ h \in Hashes /\ z \in Int
      BY <2>1, <2>2
    <3> HIDE DEF h, z, e
    <3>2. /\ e \in Iterations /\ e.i = cur.i + 1
          /\ e.r = cur.r /\ e.base = cur.base /\ e.src = cur.src
      <4>1. e = [r |-> cur.r, base |-> cur.base, n |-> cur.n, i |-> cur.i + 1,
                 hashes |-> cur.hashes \cup {h}, budget |-> cur.budget - z, src |-> cur.src]
        BY <1>0, <3>1 DEF Iterations
      <4>2. /\ cur.i + 1 \in Nat \ {0} /\ cur.budget - z \in Int
            /\ cur.hashes \cup {h} \in SUBSET Hashes
        BY <1>0, <3>1 DEF Iterations
      <4> QED BY <1>0, <4>1, <4>2 DEF Iterations
    <3> QED BY <1>0, <1>1, <3>2 DEF e, itemsUnchanged
  <2>3. CASE cur' = [cur EXCEPT !.i = @ + 1]
    BY <1>0, <1>1, <2>3, AdvanceFields DEF itemsUnchanged
  <2> QED BY <1>5, <2>2, <2>3 DEF ItemGranted
<1>6. CASE ItemsDone
  BY <1>0, <1>1, <1>6 DEF ItemsDone, itemsUnchanged
<1> QED BY <1>3, <1>4, <1>5, <1>6 DEF ItemLoop

\* What scheduling the request of the iteration does to the output.
LEMMA ScheduleFacts ==
    ASSUME SchedInv, ScheduleRunning \/ ScheduleWaiting
    PROVE  /\ cur \in Iterations /\ cur.r \in Reqs /\ pc = "place" /\ cur.n > 0 /\ Schedule
           /\ out' \in Outputs /\ out.order \in Seq(Reqs)
           /\ Elems(out'.order) = Elems(out.order) \cup {cur.r}
           /\ Len(out'.order) = Len(out.order) + 1
           /\ \A r \in Reqs : /\ out'.n[r] = IF r = cur.r THEN cur.n ELSE out.n[r]
                              /\ out'.enc[r] = IF r = cur.r THEN cur.hashes ELSE out.enc[r]
<1>0. cur \in Iterations /\ pc = "place" /\ cur.n > 0 /\ Schedule
  BY DEF SchedInv, TypesInv, AtCur, ScheduleRunning, ScheduleWaiting
<1>1. cur.r \in Reqs /\ cur.n \in Int /\ cur.hashes \in SUBSET Hashes
  BY <1>0 DEF Iterations
<1>2. out \in Outputs
  BY DEF SchedInv, TypesInv
<1>3. /\ out' \in Outputs /\ out'.order = Append(out.order, cur.r)
      /\ out'.n = [out.n EXCEPT ![cur.r] = cur.n] /\ out'.enc = [out.enc EXCEPT ![cur.r] = cur.hashes]
  <2>1. out' = [out EXCEPT !.order = Append(@, cur.r), !.n[cur.r] = cur.n,
                           !.enc[cur.r] = cur.hashes]
    BY <1>0 DEF Schedule
  <2> DEFINE r == cur.r
             n == cur.n
             H == cur.hashes
             p == out'
  <2>2. /\ p = [out EXCEPT !.order = Append(@, r), !.n[r] = n, !.enc[r] = H]
        /\ r \in Reqs /\ n \in Int /\ H \in SUBSET Hashes
    BY <1>1, <2>1
  <2> HIDE DEF r, n, H, p
  <2>3. /\ p \in Outputs /\ p.order = Append(out.order, r)
        /\ p.n = [out.n EXCEPT ![r] = n] /\ p.enc = [out.enc EXCEPT ![r] = H]
    <3>1. /\ p.order = Append(out.order, r)
          /\ p.n = [out.n EXCEPT ![r] = n] /\ p.enc = [out.enc EXCEPT ![r] = H]
          /\ p.start = out.start /\ p.freed = out.freed
      BY <1>2, <2>2 DEF Outputs
    <3>2. p \in Outputs
      BY <1>2, <2>2, ScheduledOut
    <3> QED BY <3>1, <3>2
  <2> QED BY <2>3 DEF r, n, H, p
<1>4. out.order \in Seq(Reqs) /\ out.n \in [Reqs -> Int] /\ out.enc \in [Reqs -> SUBSET Hashes]
  BY <1>2 DEF Outputs
<1>5. Elems(Append(out.order, cur.r)) = Elems(out.order) \cup {cur.r}
  BY <1>1, <1>4, AppendFacts
<1>6. Len(Append(out.order, cur.r)) = Len(out.order) + 1
  BY <1>1, <1>4, AppendFacts
<1>7. \A r \in Reqs : /\ out'.n[r] = IF r = cur.r THEN cur.n ELSE out.n[r]
                      /\ out'.enc[r] = IF r = cur.r THEN cur.hashes ELSE out.enc[r]
  BY <1>1, <1>3, <1>4
<1> QED BY <1>0, <1>1, <1>3, <1>4, <1>5, <1>6, <1>7

\* Nobody gets tokens without being in the step, and the running loop is ahead of
\* what it scheduled, after any step.
LEMMA OrderNext ==
    ASSUME SchedInv, MMNext
    PROVE  OrderInv'
<1> USE DEF OrderInv, Loops, InRunningLoop, AtCur
<1>0. /\ OrderInv /\ idx \in Nat \ {0} /\ out.order \in Seq(Reqs)
      /\ Len(out.order) \in Nat
  BY DEF SchedInv, TypesInv, Outputs
<1>1. CASE BeginSchedule
  <2>1. \A r \in Reqs : ~(NoOut.n[r] > 0)
    BY NoOutFacts
  <2>2. Len(NoOut.order) = 0
    BY NoOutFacts
  <2> QED BY <1>1, <2>1, <2>2 DEF BeginSchedule
<1>2. CASE ScheduleRunning
  <2>1. pc' = "running" /\ idx' = idx + 1 /\ Len(out.order) < idx
    BY <1>0, <1>2 DEF ScheduleRunning
  <2>2. Len(out'.order) = Len(out.order) + 1
    BY <1>2, ScheduleFacts
  <2>3. \A r \in Reqs : out'.n[r] > 0 => r \in Elems(out'.order)
    BY <1>0, <1>2, ScheduleFacts
  <2>4. Len(out'.order) < idx'
    BY <1>0, <2>1, <2>2
  <2> QED BY <2>1, <2>3, <2>4
<1>3. CASE ScheduleWaiting
  <2>1. pc' = "waiting"
    BY <1>3 DEF ScheduleWaiting
  <2>3. \A r \in Reqs : out'.n[r] > 0 => r \in Elems(out'.order)
    BY <1>0, <1>3, ScheduleFacts
  <2> QED BY <2>1, <2>3
<1>4. CASE Preempt
  <2>1. pc' \in {"place", "commit"}
    BY <1>4 DEF Preempt
  <2> QED BY <1>4, <2>1, PreemptFacts
<1>5. CASE ItemLoop
  BY <1>0, <1>5, ItemLoopFrame
<1>6. CASE RunningNext
  BY <1>0, <1>6 DEF RunningNext
<1>7. CASE RunningDone \/ WaitingDone \/ SkipWaiting \/ RefuseWaiting
  BY <1>0, <1>7 DEF RunningDone, WaitingDone, SkipWaiting, RefuseWaiting
<1>8. CASE SkipRunning
  <2>1. pc' = "running" /\ idx' = idx + 1 /\ Len(out.order) < idx /\ out' = out /\ pc = "place"
    BY <1>0, <1>8 DEF SkipRunning
  <2>2. Len(out.order) < idx + 1
    BY <1>0, <2>1
  <2> QED BY <1>0, <2>1, <2>2
<1>9. CASE WaitingNext
  <2>1. cur'.src = "waiting"
    BY <1>9 DEF WaitingNext, Consider
  <2> QED BY <1>0, <1>9, <2>1 DEF WaitingNext
<1>10. CASE Commit \/ UpdateAfterSchedule \/ Submit \/ AwaitLast \/ TakeResult
            \/ UpdateFromOutput \/ OutputDone
  BY <1>10 DEF Commit, UpdateAfterSchedule, Submit, AwaitLast, TakeResult,
               UpdateFromOutput, OutputDone
<1>11. CASE (\E r \in Reqs : AddRequest(r) \/ Abort(r)) \/ ResetEncoderCache \/ WorkerExecute
  BY <1>0, <1>11 DEF AddRequest, Abort, ResetEncoderCache, WorkerExecute, loopVars
<1> QED BY <1>1, <1>2, <1>3, <1>4, <1>5, <1>6, <1>7, <1>8, <1>9, <1>10, <1>11
        DEF MMNext, Outside, EngineStep, WorkerStep

-----------------------------------------------------------------------------
(* The iteration.                                                          *)

\* The item the items loop looks at.
LEMMA AtItemFacts ==
    ASSUME SchedInv, AtItem
    PROVE  /\ cur \in Iterations /\ pc = "items" /\ cur.r \in Reqs
           /\ cur.i \in DOMAIN Items[cur.r] /\ Item = Items[cur.r][cur.i]
           /\ Item.h \in Hashes /\ Item.off \in Nat /\ Item.len \in Nat
           /\ Size[Item.h] \in Nat /\ EndOf(Item) \in Nat
<1>0. cur \in Iterations /\ pc = "items"
  BY DEF SchedInv, TypesInv, AtCur, AtItem
<1>1. cur.r \in Reqs /\ cur.i \in Nat \ {0}
  BY <1>0 DEF Iterations
<1>2. config \in Configs
  BY DEF SchedInv, TypesInv
<1>3. cur.i \in DOMAIN Items[cur.r]
  BY <1>1, <1>2, PromptFacts DEF AtItem, ItemsLeft
<1>4. Item.h \in Hashes /\ Item.off \in Nat /\ Item.len \in Nat
  BY <1>1, <1>2, <1>3, PromptFacts DEF Item
<1> QED BY <1>0, <1>1, <1>3, <1>4, EncoderCacheAssumption DEF Item, EndOf

\* What can_allocate grants fits together with what it granted before.
LEMMA GrantFacts ==
    ASSUME SchedInv, ItemGranted
    PROVE  /\ ECNext /\ Need \in Nat /\ AtItem /\ Item.h \notin cur.hashes /\ Item.h \notin cached
           /\ EndOf(Item) > cur.base
           /\ \E D \in SUBSET cached : /\ \A h \in D : refs[h] = {}
                                       /\ cached' = cached \ D /\ freed' = freed \cup D
           /\ refs' = refs
           /\ SlotsOf(cur.hashes) <= numFree' /\ SlotsOf(cur.hashes \cup {Item.h}) <= numFree'
           /\ numFree' \in Int
<1>0. AtItem /\ ~Settled /\ Item.h \notin cached /\ CanAllocate /\ Reserve(Need)
  BY DEF ItemGranted, AtMiss
<1>1. /\ cur \in Iterations /\ Item.h \in Hashes /\ Size[Item.h] \in Nat /\ EndOf(Item) \in Nat
  BY <1>0, AtItemFacts
<1>2. cur.hashes \in SUBSET Hashes /\ cur.base \in Int
  BY <1>1 DEF Iterations
<1>3. SlotsOf(cur.hashes) \in Nat
  BY <1>2, SlotsNat
<1>4. Item.h \notin cur.hashes /\ EndOf(Item) > cur.base
  BY <1>0, <1>1, <1>2 DEF Settled
<1>5. SlotsOf(cur.hashes \cup {Item.h}) = SlotsOf(cur.hashes) + Size[Item.h]
  <2>1. cur.hashes \cap {Item.h} = {} /\ {Item.h} \in SUBSET Hashes
    BY <1>1, <1>4
  <2>2. SlotsOf({Item.h}) = Size[Item.h]
    BY <1>1, SlotsSingleton
  <2> QED BY <1>2, <2>1, <2>2, SlotsUnion
<1>6. Need = Size[Item.h] + SlotsOf(cur.hashes) /\ Need \in Nat
  BY <1>1, <1>3 DEF Need
<1>7. ECInv /\ CacheHasRoom(Need)
  BY <1>0 DEF CanAllocate, SchedInv
<1>8. /\ ECNext
      /\ \E D \in SUBSET cached : /\ \A h \in D : refs[h] = {}
                                  /\ cached' = cached \ D /\ freed' = freed \cup D
      /\ refs' = refs
      /\ Need <= numFree'
  BY <1>0, <1>6, <1>7, ReserveStep
<1>9. numFree' \in Int
  <2>1. ECInv'
    BY <1>7, <1>8, NextInv
  <2> QED BY <2>1 DEF ECInv, Shape
<1>10. SlotsOf(cur.hashes) <= numFree' /\ SlotsOf(cur.hashes \cup {Item.h}) <= numFree'
  <2> DEFINE a == SlotsOf(cur.hashes)
             b == SlotsOf(cur.hashes \cup {Item.h})
             z == Size[Item.h]
  <2>1. a \in Nat /\ z \in Nat /\ b = a + z /\ z + a <= numFree'
    BY <1>1, <1>3, <1>5, <1>6, <1>8
  <2> HIDE DEF a, b, z
  <2>2. a <= numFree' /\ b <= numFree'
    BY <1>9, <2>1
  <2> QED BY <2>2 DEF a, b
<1> QED BY <1>0, <1>4, <1>6, <1>8, <1>9, <1>10

\* An iteration starts with nothing granted.
LEMMA NothingGranted ==
    ASSUME ECInv
    PROVE  Granted({})
BY SlotsEmpty DEF Granted, ECInv, Shape

\* A request admitted from the waiting queue wants at least one token.
LEMMA WantedPositive ==
    ASSUME SchedInv, tokens > 0, NEW r \in Reqs, NEW hit \in config.hits[r]
    PROVE  Wanted(r, hit) > 0
<1>1. /\ PromptLen[r] \in Nat /\ config.threshold \in Nat /\ hit \in Nat /\ hit < PromptLen[r]
      /\ tokens \in Int
  BY PromptFacts DEF SchedInv, TypesInv
<1> QED BY <1>1 DEF Wanted, Least

\* The iteration is about a request of its queue, and what it granted still fits,
\* after any step.
LEMMA CurNext ==
    ASSUME SchedInv, MMNext
    PROVE  CurInv'
<1>0. CurInv /\ ECInv /\ config' = config /\ Items' = Items
  BY DEF SchedInv, MMNext, Outside, EngineStep, WorkerStep, Items
<1>1. CASE RunningNext
  <2> DEFINE r == running[idx]
  <2>1. r \in Reqs /\ r \in Elems(running)
    BY <1>1 DEF RunningNext, SchedInv, TypesInv, Elems
  <2>2. /\ cur' = Consider(r, computed[r], "running")
        /\ UNCHANGED <<running, computed, cached, numFree>>
    BY <1>1 DEF RunningNext, schedVars, ecVars
  <2>3. cur'.r = r /\ cur'.base = computed[r] /\ cur'.src = "running" /\ cur'.hashes = {}
    BY <2>2 DEF Consider
  <2>4. Granted({})'
    BY <1>0, <2>2, NothingGranted DEF Granted
  <2> HIDE DEF r
  <2> QED BY <1>0, <2>1, <2>2, <2>3, <2>4 DEF CurInv, Granted
<1>2. CASE WaitingNext
  <2> DEFINE r == FirstWaiting
  <2>1. r \in Reqs /\ r \in Elems(waiting) /\ tokens > 0
    BY <1>2, FirstIsWaiting DEF WaitingNext, SchedInv, TypesInv
  <2>2. PICK hit \in config.hits[r] : cur' = Consider(r, hit, "waiting")
    BY <1>2 DEF WaitingNext
  <2>3. pc' = "items" /\ UNCHANGED <<waiting, cached, numFree>>
    BY <1>2 DEF WaitingNext, schedVars, ecVars
  <2>4. Wanted(r, hit) > 0
    BY <2>1, <2>2, WantedPositive
  <2>5. cur'.r = r /\ cur'.base = hit /\ cur'.src = "waiting" /\ cur'.hashes = {} /\ cur'.n > 0
    BY <2>2, <2>4 DEF Consider
  <2>6. Granted({})'
    BY <1>0, <2>3, NothingGranted DEF Granted
  <2> HIDE DEF r
  <2> QED BY <1>0, <2>1, <2>2, <2>3, <2>5, <2>6 DEF CurInv, Granted
<1>3. CASE ItemLoop
  <2>0. /\ UNCHANGED <<running, waiting, computed>>
        /\ pc = "items" /\ pc' \in {"items", "place"} /\ cur \in Iterations
        /\ cur'.r = cur.r /\ cur'.base = cur.base /\ cur'.src = cur.src
    BY <1>3, ItemLoopFrame DEF schedVars
  <2>1. /\ cur.src = "running" => cur.r \in Elems(running) /\ cur.base = computed[cur.r]
        /\ cur.src = "waiting" => cur.r \in Elems(waiting) /\ cur.base \in config.hits[cur.r]
        /\ cur.src = "waiting" => cur.n > 0
        /\ Granted(cur.hashes)
        /\ \A h \in cur.hashes : \E i \in DOMAIN Items[cur.r] :
               Items[cur.r][i].h = h /\ EndOf(Items[cur.r][i]) > cur.base
    BY <1>0, <2>0 DEF CurInv, AtCur
  <2>2. /\ Granted(cur.hashes)'
        /\ \A h \in cur'.hashes : \E i \in DOMAIN Items[cur.r] :
               Items[cur.r][i].h = h /\ EndOf(Items[cur.r][i]) > cur.base
    <3>1. CASE ItemSettled \/ ItemHit \/ ItemRefused \/ ItemsDone
      <4>1. UNCHANGED <<cached, numFree>>
        BY <3>1 DEF ItemSettled, ItemHit, ItemRefused, ItemsDone, StopBeforeItem, ecVars,
                    CheckAndUpdateHit
      <4>2. cur'.hashes = cur.hashes
        BY <3>1, <2>0 DEF ItemSettled, ItemHit, ItemRefused, ItemsDone, StopBeforeItem, Iterations
      <4> QED BY <2>1, <4>1, <4>2 DEF Granted
    <3>2. CASE ItemGranted
      <4>1. /\ Item.h \notin cached /\ EndOf(Item) > cur.base /\ AtItem
            /\ cached' \subseteq cached
            /\ SlotsOf(cur.hashes) <= numFree' /\ SlotsOf(cur.hashes \cup {Item.h}) <= numFree'
        BY <3>2, GrantFacts
      <4>2. cur.i \in DOMAIN Items[cur.r] /\ Item = Items[cur.r][cur.i] /\ Size[Item.h] \in Nat
        BY <4>1, AtItemFacts
      <4>3. CASE cur' = [cur EXCEPT !.i = @ + 1, !.hashes = @ \cup {Item.h},
                                    !.budget = @ - Size[Item.h]]
        <5>1. cur'.hashes = cur.hashes \cup {Item.h}
          BY <2>0, <4>3 DEF Iterations
        <5> QED BY <2>1, <4>1, <4>2, <5>1 DEF Granted
      <4>4. CASE cur' = [cur EXCEPT !.i = @ + 1]
        <5>1. cur'.hashes = cur.hashes
          BY <2>0, <4>4 DEF Iterations
        <5> QED BY <2>1, <4>1, <5>1 DEF Granted
      <4> QED BY <3>2, <4>3, <4>4 DEF ItemGranted
    <3> QED BY <1>3, <3>1, <3>2 DEF ItemLoop
  <2>3. cur.src = "waiting" /\ pc' = "items" => cur'.n > 0
    <3>1. pc' = "items" => cur'.n = cur.n
      BY <1>3, <2>0 DEF ItemLoop, ItemSettled, ItemHit, ItemRefused, ItemGranted, ItemsDone,
                        StopBeforeItem, Iterations
    <3> QED BY <2>1, <3>1
  <2>4. cur.src = "waiting" /\ pc' = "place" /\ cur'.n = 0 =>
            cur'.i \in DOMAIN Items[cur.r] /\ Items[cur.r][cur'.i].off <= cur.base
    <3>1. CASE pc' = "place" /\ ItemsDone
      BY <2>1, <3>1, <2>0 DEF ItemsDone, Iterations
    <3>2. CASE ItemRefused
      <4>1. AtItem
        BY <3>2 DEF ItemRefused, AtMiss
      <4>2. cur.i \in DOMAIN Items[cur.r] /\ Item = Items[cur.r][cur.i] /\ Item.off \in Nat
        BY <4>1, AtItemFacts
      <4>3. cur' = [cur EXCEPT !.n = IF cur.base < Item.off THEN Item.off - cur.base ELSE 0]
        BY <3>2 DEF ItemRefused, StopBeforeItem
      <4>4. cur'.i = cur.i /\ cur.base \in Int
            /\ cur'.n = IF cur.base < Item.off THEN Item.off - cur.base ELSE 0
        BY <2>0, <4>3 DEF Iterations
      <4>5. cur'.n = 0 => Item.off <= cur.base
        BY <4>2, <4>4
      <4> QED BY <4>2, <4>4, <4>5
    <3>3. pc' = "place" => ItemRefused \/ ItemsDone
      BY <1>3, <2>0 DEF ItemLoop, ItemSettled, ItemHit, ItemGranted
    <3> QED BY <3>1, <3>2, <3>3
  <2> QED BY <1>0, <2>0, <2>1, <2>2, <2>3, <2>4 DEF CurInv, Granted, Item
<1>4. CASE Preempt
  <2>1. /\ cur \in Iterations /\ pc = "place" /\ cur.src = "running" /\ Victim \in Reqs
    BY <1>4, PreemptFacts
  <2>2. Elems(running') = Elems(running) \ {Victim}
    BY <1>4, QueuesPreempt
  <2>3. UNCHANGED <<cached, numFree>>
    BY <1>4, <2>1, ReleaseAllStep DEF Preempt, SchedInv
  <2>4. cur' = cur /\ (pc' = "commit" \/ (pc' = "place" /\ Victim # cur.r))
    BY <1>4 DEF Preempt
  <2>5. computed' = [computed EXCEPT ![Victim] = 0] /\ computed \in [Reqs -> Int]
    BY <1>4 DEF Preempt, SchedInv, TypesInv
  <2>6. cur.r \in Reqs
    BY <2>1 DEF Iterations
  <2>7. Victim # cur.r => computed'[cur.r] = computed[cur.r]
    BY <2>1, <2>5, <2>6
  <2>8. /\ cur.r \in Elems(running) /\ cur.base = computed[cur.r] /\ Granted(cur.hashes)
        /\ \A h \in cur.hashes : \E i \in DOMAIN Items[cur.r] :
               Items[cur.r][i].h = h /\ EndOf(Items[cur.r][i]) > cur.base
    BY <1>0, <2>1 DEF CurInv, AtCur
  <2> QED BY <1>0, <2>1, <2>2, <2>3, <2>4, <2>7, <2>8 DEF CurInv, Granted, AtCur
<1>5. CASE WorkerExecute
  <2>1. UNCHANGED <<pc, cur, running, waiting, computed, cached, numFree>>
    BY <1>5 DEF WorkerExecute, loopVars, schedVars, ecVars
  <2> QED BY <1>0, <2>1 DEF CurInv, AtCur, Granted, Item
<1>6. CASE ~AtCur'
  BY <1>6 DEF CurInv
<1> QED BY <1>1, <1>2, <1>3, <1>4, <1>5, <1>6
        DEF MMNext, Outside, EngineStep, WorkerStep, AtCur, AddRequest, Abort, ResetEncoderCache,
            BeginSchedule, RunningDone, SkipRunning, ScheduleRunning, WaitingDone,
            SkipWaiting, ScheduleWaiting, RefuseWaiting, Commit, UpdateAfterSchedule, Submit,
            AwaitLast, TakeResult, UpdateFromOutput, OutputDone, loopVars

-----------------------------------------------------------------------------
(* The encoder cache manager is used within its contract.                  *)

\* Everything the scheduler does to the encoder cache is a call its contract
\* allows.
LEMMA CacheStep ==
    ASSUME SchedInv, MMNext
    PROVE  [ECNext]_ecVars
<1>0. ECInv /\ HolderInv /\ TypesInv
  BY DEF SchedInv
<1>1. CASE \E r \in Reqs : FreeRequest(r)
  BY <1>0, <1>1, ReleaseAllStep DEF FreeRequest
<1>2. CASE ResetEncoderCache
  BY <1>2 DEF ResetEncoderCache, ECNext
<1>3. CASE ItemLoop
  <2>1. CASE ItemHit
    <3>1. cur.r \in Reqs /\ Item.h \in Hashes /\ CheckAndUpdateHit(cur.r, Item.h)
      BY <2>1, AtItemFacts DEF ItemHit
    <3> QED BY <3>1 DEF ECNext
  <2>2. CASE ItemGranted
    BY <2>2, GrantFacts
  <2> QED BY <1>3, <2>1, <2>2 DEF ItemLoop, ItemSettled, ItemRefused, StopBeforeItem, ItemsDone
<1>4. CASE ScheduleRunning \/ ScheduleWaiting
  <2>1. cur \in Iterations /\ pc = "place" /\ Schedule
    BY <1>4, ScheduleFacts
  <2>2. cur.r \in Reqs /\ cur.hashes \in SUBSET Hashes
    BY <2>1 DEF Iterations
  <2>3. Granted(cur.hashes) /\ Allocate(cur.r, cur.hashes)
    BY <2>1 DEF SchedInv, CurInv, AtCur, Schedule
  <2> QED BY <2>2, <2>3 DEF ECNext
<1>5. CASE Preempt
  <2>1. Victim \in Reqs /\ ReleaseAll(Victim)
    BY <1>5, PreemptFacts DEF Preempt
  <2> QED BY <1>0, <2>1, ReleaseAllStep
<1>6. CASE RefuseWaiting
  <2>1. cur.r \in Reqs /\ ReleaseAll(cur.r)
    BY <1>0, <1>6 DEF RefuseWaiting, TypesInv, AtCur, Iterations
  <2> QED BY <1>0, <2>1, ReleaseAllStep
<1>7. CASE Commit
  BY <1>7 DEF Commit, ECNext
<1>8. CASE UpdateAfterSchedule
  <2> DEFINE r == out.order[idx]
             S == Consumed(r, computed[r] + out.n[r]) \cap cached
  <2>1. r \in Reqs
    BY <1>0, <1>8 DEF UpdateAfterSchedule, TypesInv, Outputs
  <2>2. Release(r, S)
    BY <1>8 DEF UpdateAfterSchedule
  <2>3. S \in SUBSET cached
    OBVIOUS
  <2> HIDE DEF r, S
  <2> QED BY <1>0, <2>1, <2>2, <2>3, ReleaseStep
<1>9. CASE UpdateFromOutput
  BY <1>1, <1>9, OutputRequest DEF schedVars
<1> QED BY <1>1, <1>2, <1>3, <1>4, <1>5, <1>6, <1>7, <1>8, <1>9
        DEF MMNext, Outside, EngineStep, WorkerStep, AddRequest, Abort, BeginSchedule,
            RunningNext, RunningDone, SkipRunning, WaitingNext, WaitingDone, SkipWaiting,
            Submit, AwaitLast, TakeResult, OutputDone, WorkerExecute

-----------------------------------------------------------------------------
(* Who holds references.                                                   *)

\* It is enough that every reference left was there before and is still needed.
LEMMA HoldersKept ==
    ASSUME HolderInv, UNCHANGED config,
           \A h \in Hashes : \A r \in refs'[h] :
               /\ r \in refs[h]
               /\ \A i \in DOMAIN Items[r] : Items[r][i].h = h /\ Reason(r, i) => Reason(r, i)'
    PROVE  HolderInv'
BY DEF HolderInv, Items

\* Reasons that stay: the request keeps its status and tokens, and is still to be
\* updated if it was.
LEMMA ReasonKept ==
    ASSUME UNCHANGED config, NEW r, NEW i, Reason(r, i),
           status'[r] = status[r], computed'[r] = computed[r],
           ToUpdate(r) => ToUpdate(r)',
           (AtCur /\ cur.src = "waiting" /\ cur.r = r) =>
               (AtCur' /\ cur'.src = "waiting" /\ cur'.r = r /\ cur'.base = cur.base
                /\ (i < cur.i => i < cur'.i))
    PROVE  Reason(r, i)'
<1>1. Items' = Items /\ (PassedOver(r, i) => PassedOver(r, i)')
  BY DEF Items, PassedOver
<1> QED BY <1>1 DEF Reason

\* Requests from outside, and the worker.
LEMMA HoldersOutside ==
    ASSUME SchedInv, UNCHANGED config,
           \/ \E r \in Reqs : AddRequest(r) \/ Abort(r)
           \/ ResetEncoderCache \/ WorkerExecute
    PROVE  HolderInv'
<1>0. HolderInv /\ ECInv /\ status \in [Reqs -> {"new", "waiting", "running", "finished"}]
      /\ refs \in [Hashes -> SUBSET Reqs]
  BY DEF SchedInv, TypesInv, ECInv, Shape
<1>1. CASE \E r \in Reqs : AddRequest(r)
  <2> PICK r \in Reqs : AddRequest(r)
    BY <1>1
  <2>1. /\ pc = "idle" /\ status[r] = "new" /\ status' = [status EXCEPT ![r] = "waiting"]
        /\ UNCHANGED <<refs, computed, pc, idx, out, cur>>
    BY DEF AddRequest, ecVars, loopVars
  <2>2. ASSUME NEW h \in Hashes, NEW q \in refs'[h], NEW i \in DOMAIN Items[q], Reason(q, i)
        PROVE  Reason(q, i)'
    <3>1. q # r
      BY <2>1, <2>2 DEF Reason, AtCur
    <3>2. status'[q] = status[q]
      BY <1>0, <2>1, <2>2, <3>1
    <3> QED BY <2>1, <2>2, <3>2, ReasonKept DEF ToUpdate, AtCur, Loops
  <2> QED BY <1>0, <2>1, <2>2, HoldersKept
<1>2. CASE \E r \in Reqs : Abort(r)
  <2> PICK r \in Reqs : Abort(r)
    BY <1>2
  <2>1. /\ pc \in {"idle", "await"} /\ status' = [status EXCEPT ![r] = "finished"]
        /\ UNCHANGED <<computed, pc, idx, out, cur>>
    BY DEF Abort, FreeRequest, loopVars
  <2>2. \A h \in Hashes : refs'[h] = refs[h] \ {r}
    BY <1>0, ReleaseAllStep DEF Abort, FreeRequest
  <2>3. ASSUME NEW h \in Hashes, NEW q \in refs'[h], NEW i \in DOMAIN Items[q], Reason(q, i)
        PROVE  Reason(q, i)'
    <3>1. q # r /\ q \in Reqs
      BY <1>0, <2>2, <2>3
    <3>2. status'[q] = status[q]
      BY <1>0, <2>1, <3>1
    <3> QED BY <2>1, <2>3, <3>2, ReasonKept DEF ToUpdate, AtCur, Loops
  <2> QED BY <1>0, <2>2, <2>3, HoldersKept
<1>3. CASE ResetEncoderCache
  <2>1. \A h \in Hashes : refs'[h] = {}
    BY <1>3 DEF ResetEncoderCache, Reset
  <2> QED BY <2>1 DEF HolderInv
<1>4. CASE WorkerExecute
  <2>1. UNCHANGED <<refs, status, computed, pc, idx, out, cur>>
    BY <1>4 DEF WorkerExecute, ecVars, schedVars, loopVars
  <2>2. ASSUME NEW h \in Hashes, NEW q \in refs'[h], NEW i \in DOMAIN Items[q], Reason(q, i)
        PROVE  Reason(q, i)'
    BY <2>1, <2>2, ReasonKept DEF ToUpdate, AtCur, Loops
  <2> QED BY <1>0, <2>1, <2>2, HoldersKept
<1> QED BY <1>1, <1>2, <1>3, <1>4

\* The loops, where they neither schedule nor give references back.
LEMMA HoldersLoops ==
    ASSUME SchedInv, UNCHANGED config,
           \/ BeginSchedule \/ RunningNext \/ RunningDone \/ SkipRunning
           \/ WaitingNext \/ WaitingDone \/ AwaitLast \/ TakeResult \/ OutputDone
    PROVE  HolderInv'
<1>0. HolderInv /\ CurInv
  BY DEF SchedInv
<1>1. UNCHANGED <<refs, status, computed>> /\ ~(AtCur /\ cur.src = "waiting")
  BY DEF BeginSchedule, RunningNext, RunningDone, SkipRunning, WaitingNext, WaitingDone,
         AwaitLast, TakeResult, OutputDone, ecVars, schedVars, AtCur
<1>2. ASSUME NEW r PROVE ToUpdate(r) => ToUpdate(r)'
  BY DEF BeginSchedule, RunningNext, RunningDone, SkipRunning, WaitingNext, WaitingDone,
         AwaitLast, TakeResult, OutputDone, ToUpdate, Loops
<1>3. ASSUME NEW h \in Hashes, NEW q \in refs'[h], NEW i \in DOMAIN Items[q], Reason(q, i)
      PROVE  Reason(q, i)'
  BY <1>1, <1>2, <1>3, ReasonKept
<1> QED BY <1>0, <1>1, <1>3, HoldersKept

\* A waiting request that gets no token keeps what its iteration found: it has
\* been passed over.
LEMMA HoldersSkip ==
    ASSUME SchedInv, UNCHANGED config, SkipWaiting
    PROVE  HolderInv'
<1>0. /\ HolderInv /\ cur \in Iterations /\ refs \in [Hashes -> SUBSET Reqs]
      /\ pc = "place" /\ cur.src = "waiting" /\ cur.n = 0 /\ pc' = "commit"
      /\ UNCHANGED <<refs, status, computed, out>>
  BY DEF SchedInv, TypesInv, ECInv, Shape, SkipWaiting, ecVars, schedVars, AtCur
<1>1. /\ cur.r \in Elems(waiting) /\ cur.base \in config.hits[cur.r]
      /\ cur.i \in DOMAIN Items[cur.r] /\ Items[cur.r][cur.i].off <= cur.base
  BY <1>0 DEF SchedInv, CurInv, AtCur, Item
<1>2. cur.r \in Reqs /\ status[cur.r] = "waiting"
  BY <1>0, <1>1 DEF SchedInv, QueuesInv, Iterations
<1>3. ASSUME NEW h \in Hashes, NEW q \in refs'[h], NEW i \in DOMAIN Items[q], Reason(q, i)
      PROVE  Reason(q, i)'
  <2>0. Items' = Items /\ config' = config
    BY DEF Items
  <2>1. CASE q = cur.r /\ i < cur.i /\ EndOf(Items[q][i]) > cur.base
    <3>1. PassedOver(q, i)
      <4>1. PromptLen[q] \in Nat /\ cur.base \in Nat /\ EndOf(Items[q][i]) \in Nat
        <5>1. config \in Configs /\ q \in Reqs
          BY <1>2, <2>1 DEF SchedInv, TypesInv
        <5>2. Items[q][i].off \in Nat /\ Items[q][i].len \in Nat /\ PromptLen[q] \in Nat
          BY <5>1, PromptFacts
        <5>3. cur.base \in Nat
          BY <1>1, <2>1, <5>1, PromptFacts
        <5> QED BY <5>2, <5>3 DEF EndOf
      <4>2. cur.base < EndOf(Items[q][i])
        BY <2>1, <4>1
      <4> QED BY <1>1, <2>1, <4>2 DEF PassedOver
    <3> QED BY <1>0, <1>2, <2>0, <2>1, <3>1 DEF Reason, PassedOver
  <2>2. CASE status[q] = "running" /\ (EndOf(Items[q][i]) > computed[q] \/ ToUpdate(q))
    BY <1>0, <2>0, <2>2 DEF Reason, ToUpdate, Loops
  <2>3. CASE status[q] = "waiting" /\ PassedOver(q, i)
    BY <1>0, <2>0, <2>3 DEF Reason, PassedOver
  <2> QED BY <1>3, <2>1, <2>2, <2>3 DEF Reason
<1> QED BY <1>0, <1>3, HoldersKept

\* The items loop: a hit makes the request hold an item it has not computed.
LEMMA HoldersItems ==
    ASSUME SchedInv, UNCHANGED config, ItemLoop
    PROVE  HolderInv'
<1>0. /\ HolderInv /\ cur \in Iterations /\ cur' \in Iterations
      /\ pc = "items" /\ pc' \in {"items", "place"}
      /\ UNCHANGED <<status, computed, out, running, waiting>>
      /\ cur'.r = cur.r /\ cur'.base = cur.base /\ cur'.src = cur.src
      /\ cur'.i \in {cur.i, cur.i + 1} /\ cur.i \in Nat
  BY ItemLoopFrame DEF SchedInv, schedVars, Iterations
<1>1. ASSUME NEW q \in Reqs, NEW i \in DOMAIN Items[q], Reason(q, i)
      PROVE  Reason(q, i)'
  <2>1. i \in Nat
    BY PromptFacts DEF SchedInv, TypesInv
  <2>2. i < cur.i => i < cur'.i
    BY <1>0, <2>1
  <2>3. ToUpdate(q) => ToUpdate(q)'
    BY <1>0 DEF ToUpdate, Loops
  <2> QED BY <1>0, <1>1, <2>2, <2>3, ReasonKept DEF AtCur
<1>2. Items' = Items /\ refs \in [Hashes -> SUBSET Reqs]
  BY DEF Items, SchedInv, ECInv, Shape
<1>3. CASE ItemHit
  <2>1. /\ AtItem /\ cur.r \in Reqs /\ cur.i \in DOMAIN Items[cur.r] /\ Item = Items[cur.r][cur.i]
        /\ Item.h \in Hashes /\ EndOf(Item) \in Nat
    BY <1>3, AtItemFacts DEF ItemHit
  <2>2. refs' = [refs EXCEPT ![Item.h] = @ \cup {cur.r}] /\ cur'.i = cur.i + 1
        /\ EndOf(Item) > cur.base
    BY <1>0, <1>3, <2>1 DEF ItemHit, CheckAndUpdateHit, Settled, Iterations
  <2>3. ASSUME NEW c, NEW k, c = cur.r, k = cur.i PROVE Reason(c, k)'
    <3>1. CASE cur.src = "running"
      <4>1. status[c] = "running" /\ cur.base = computed[c]
        BY <1>0, <2>1, <2>3, <3>1 DEF SchedInv, CurInv, QueuesInv, AtCur
      <4> QED BY <1>0, <1>2, <2>1, <2>2, <2>3, <4>1 DEF Reason
    <3>2. CASE cur.src = "waiting"
      <4>1. k < cur'.i
        BY <1>0, <2>2, <2>3
      <4> QED BY <1>0, <1>2, <2>1, <2>2, <2>3, <3>2, <4>1 DEF Reason, AtCur
    <3> QED BY <1>0, <3>1, <3>2 DEF Iterations
  <2>4. ASSUME NEW h \in Hashes, NEW q \in refs'[h]
        PROVE  \E i \in DOMAIN Items[q] : Items[q][i].h = h /\ Reason(q, i)'
    <3>1. CASE q \in refs[h]
      <4>1. PICK i \in DOMAIN Items[q] : Items[q][i].h = h /\ Reason(q, i)
        BY <1>0, <3>1 DEF HolderInv
      <4>2. q \in Reqs
        BY <1>2, <3>1
      <4> QED BY <1>1, <4>1, <4>2
    <3>2. CASE q \notin refs[h]
      <4>1. q = cur.r /\ h = Item.h
        BY <1>2, <2>1, <2>2, <3>2
      <4> QED BY <2>1, <2>3, <4>1
    <3> QED BY <3>1, <3>2
  <2> QED BY <1>2, <2>4 DEF HolderInv
<1>4. CASE ~ItemHit
  <2>1. refs' = refs
    BY <1>4, GrantFacts DEF ItemLoop, ItemSettled, ItemRefused, StopBeforeItem, ItemsDone, ecVars
  <2>2. ASSUME NEW h \in Hashes, NEW q \in refs'[h], NEW i \in DOMAIN Items[q], Reason(q, i)
        PROVE  Reason(q, i)'
    <3>1. q \in Reqs
      BY <1>2, <2>1, <2>2
    <3> QED BY <1>1, <2>2, <3>1
  <2> QED BY <1>0, <2>1, <2>2, HoldersKept
<1> QED BY <1>3, <1>4

\* A request that is scheduled is in the step, which will give back what it
\* consumes.
LEMMA HoldersSchedule ==
    ASSUME SchedInv, UNCHANGED config, ScheduleRunning \/ ScheduleWaiting
    PROVE  HolderInv'
<1>0. /\ HolderInv /\ cur \in Iterations /\ cur.r \in Reqs /\ pc = "place"
      /\ Elems(out'.order) = Elems(out.order) \cup {cur.r} /\ Schedule
  BY ScheduleFacts DEF SchedInv
<1>1. /\ status \in [Reqs -> {"new", "waiting", "running", "finished"}]
      /\ computed \in [Reqs -> Int] /\ refs \in [Hashes -> SUBSET Reqs]
      /\ cur.hashes \in SUBSET Hashes
  BY <1>0 DEF SchedInv, TypesInv, ECInv, Shape, Iterations
<1>2. /\ pc' \in {"running", "waiting"} /\ status'[cur.r] = "running"
      /\ \A q \in Reqs : q # cur.r => status'[q] = status[q] /\ computed'[q] = computed[q]
  <2>1. CASE ScheduleRunning
    <3>1. status[cur.r] = "running"
      BY <1>0, <2>1 DEF ScheduleRunning, SchedInv, CurInv, QueuesInv, AtCur
    <3> QED BY <2>1, <3>1 DEF ScheduleRunning
  <2>2. CASE ScheduleWaiting
    BY <1>0, <1>1, <2>2 DEF ScheduleWaiting
  <2> QED BY <2>1, <2>2
<1>3. Items' = Items
  BY DEF Items
<1>4. \A h \in Hashes : refs'[h] = IF h \in cur.hashes THEN refs[h] \cup {cur.r} ELSE refs[h]
  BY <1>0 DEF Schedule, Allocate
<1>5. ASSUME NEW c, c = cur.r, NEW i PROVE Reason(c, i)'
  BY <1>0, <1>2, <1>5 DEF Reason, ToUpdate, Loops
<1>6. ASSUME NEW h \in Hashes, NEW q \in refs'[h]
      PROVE  \E i \in DOMAIN Items[q] : Items[q][i].h = h /\ Reason(q, i)'
  <2>1. CASE q \in refs[h] /\ q # cur.r
    <3>1. PICK i \in DOMAIN Items[q] : Items[q][i].h = h /\ Reason(q, i)
      BY <1>0, <2>1 DEF HolderInv
    <3>2. q \in Reqs
      BY <1>1, <2>1
    <3>3. status'[q] = status[q] /\ computed'[q] = computed[q]
      BY <1>2, <2>1, <3>2
    <3>4. ToUpdate(q) => ToUpdate(q)'
      BY <1>0, <1>2 DEF ToUpdate, Loops
    <3>5. Reason(q, i)'
      BY <2>1, <3>1, <3>3, <3>4, ReasonKept
    <3> QED BY <3>1, <3>5
  <2>2. CASE q \in refs[h] /\ q = cur.r
    <3>1. PICK i \in DOMAIN Items[q] : Items[q][i].h = h /\ Reason(q, i)
      BY <1>0, <2>2 DEF HolderInv
    <3> QED BY <1>5, <2>2, <3>1
  <2>3. CASE q \notin refs[h]
    <3>1. h \in cur.hashes /\ q = cur.r
      BY <1>4, <2>3
    <3>2. PICK i \in DOMAIN Items[cur.r] : Items[cur.r][i].h = h
      BY <1>0, <3>1 DEF SchedInv, CurInv, AtCur
    <3> QED BY <1>5, <3>1, <3>2
  <2> QED BY <2>1, <2>2, <2>3
<1> QED BY <1>3, <1>6 DEF HolderInv

\* A preempted request, and one without KV blocks, gives everything back.
LEMMA HoldersGiveBack ==
    ASSUME SchedInv, UNCHANGED config, Preempt \/ RefuseWaiting
    PROVE  HolderInv'
<1>0. /\ HolderInv /\ ECInv /\ refs \in [Hashes -> SUBSET Reqs]
      /\ status \in [Reqs -> {"new", "waiting", "running", "finished"}]
      /\ computed \in [Reqs -> Int]
  BY DEF SchedInv, TypesInv, ECInv, Shape
<1>1. CASE Preempt
  <2> DEFINE v == Victim
  <2>1. /\ v \in Reqs /\ cur.src = "running" /\ pc = "place"
        /\ \A r \in Elems(out.order) : r # v => r \in Elems(out'.order)
    BY <1>1, PreemptFacts
  <2>2. /\ status' = [status EXCEPT ![v] = "waiting"] /\ computed' = [computed EXCEPT ![v] = 0]
        /\ pc' \in {"commit", "place"} /\ ReleaseAll(v)
    BY <1>1 DEF Preempt
  <2> HIDE DEF v
  <2>3. \A h \in Hashes : refs'[h] = refs[h] \ {v}
    BY <1>0, <2>1, <2>2, ReleaseAllStep
  <2>4. ASSUME NEW h \in Hashes, NEW q \in refs'[h], NEW i \in DOMAIN Items[q], Reason(q, i)
        PROVE  Reason(q, i)'
    <3>1. q # v /\ q \in Reqs
      BY <1>0, <2>3, <2>4
    <3>2. status'[q] = status[q] /\ computed'[q] = computed[q]
      BY <1>0, <2>2, <3>1
    <3>3. ToUpdate(q) => ToUpdate(q)'
      BY <2>1, <2>2, <3>1 DEF ToUpdate, Loops
    <3> QED BY <2>1, <2>4, <3>2, <3>3, ReasonKept
  <2> QED BY <1>0, <2>3, <2>4, HoldersKept
<1>2. CASE RefuseWaiting
  <2>1. /\ cur.r \in Reqs /\ pc = "place" /\ pc' = "commit"
        /\ UNCHANGED <<status, computed, out>> /\ ReleaseAll(cur.r)
    BY <1>2 DEF RefuseWaiting, SchedInv, TypesInv, AtCur, Iterations, schedVars
  <2>2. \A h \in Hashes : refs'[h] = refs[h] \ {cur.r}
    BY <1>0, <2>1, ReleaseAllStep
  <2>3. ASSUME NEW h \in Hashes, NEW q \in refs'[h], NEW i \in DOMAIN Items[q], Reason(q, i)
        PROVE  Reason(q, i)'
    <3>1. q # cur.r
      BY <2>2, <2>3
    <3>2. ToUpdate(q) => ToUpdate(q)'
      BY <2>1 DEF ToUpdate, Loops
    <3> QED BY <2>1, <2>3, <3>1, <3>2, ReasonKept
  <2> QED BY <1>0, <2>2, <2>3, HoldersKept
<1> QED BY <1>1, <1>2

\* _update_after_schedule gives back exactly what the tokens of the step consume.
LEMMA HoldersUpdate ==
    ASSUME SchedInv, UNCHANGED config, UpdateAfterSchedule
    PROVE  HolderInv'
<1>0. /\ HolderInv /\ ECInv /\ refs \in [Hashes -> SUBSET Reqs] /\ pc = "after"
      /\ computed \in [Reqs -> Int] /\ idx \in Nat /\ out.order \in Seq(Reqs)
      /\ out.n \in [Reqs -> Int] /\ idx \in 1 .. Len(out.order)
      /\ UNCHANGED <<status, pc, out>> /\ idx' = idx + 1
  BY DEF SchedInv, TypesInv, ECInv, Shape, UpdateAfterSchedule, Outputs
<1> DEFINE r == out.order[idx]
           upto == computed[r] + out.n[r]
           S == Consumed(r, upto) \cap cached
<1>1. r \in Reqs /\ computed' = [computed EXCEPT ![r] = upto] /\ Release(r, S) /\ upto \in Int
  BY <1>0 DEF UpdateAfterSchedule
<1>2. \A h \in Hashes : refs'[h] = IF h \in S THEN refs[h] \ {r} ELSE refs[h]
  <2>1. S \in SUBSET cached
    OBVIOUS
  <2> HIDE DEF S, r
  <2> QED BY <1>0, <1>1, <2>1, ReleaseStep
<1>3. ASSUME NEW q, q # r PROVE ToUpdate(q) => ToUpdate(q)'
  <2> SUFFICES ASSUME ToUpdate(q) PROVE ToUpdate(q)'
    OBVIOUS
  <2>1. PICK j \in 1 .. Len(out.order) : idx <= j /\ out.order[j] = q
    BY <1>0 DEF ToUpdate, Loops
  <2>2. idx + 1 <= j
    BY <1>0, <1>3, <2>1
  <2> QED BY <1>0, <2>1, <2>2 DEF ToUpdate
<1>4. ASSUME NEW h \in Hashes, NEW q \in refs'[h], NEW i \in DOMAIN Items[q],
             Items[q][i].h = h, Reason(q, i)
      PROVE  Reason(q, i)'
  <2>1. q \in refs[h] /\ q \in Reqs
    BY <1>0, <1>2, <1>4
  <2>2. CASE q # r
    <3>1. computed'[q] = computed[q]
      BY <1>0, <1>1, <2>1, <2>2
    <3> QED BY <1>0, <1>3, <1>4, <2>2, <3>1, ReasonKept DEF AtCur
  <2>3. CASE q = r
    <3>1. h \in cached
      BY <2>1 DEF SchedInv, ECInv, OnlyCachedHeld
    <3>2. h \notin Consumed(r, upto)
      BY <1>2, <1>4, <2>3, <3>1
    <3>3. ~(EndOf(Items[q][i]) <= upto)
      BY <1>4, <2>3, <3>2 DEF Consumed
    <3>4. EndOf(Items[q][i]) \in Int
      <4>1. Items[q][i].off \in Nat /\ Items[q][i].len \in Nat
        BY <1>4, <2>1, PromptFacts DEF SchedInv, TypesInv
      <4> QED BY <4>1 DEF EndOf
    <3>5. EndOf(Items[q][i]) > upto /\ computed'[q] = upto
      BY <1>0, <1>1, <2>1, <2>3, <3>3, <3>4
    <3>6. Items' = Items /\ config' = config
      BY DEF Items
    <3> HIDE DEF upto, r
    <3>7. status[q] = "running" \/ (status[q] = "waiting" /\ PassedOver(q, i))
      BY <1>0, <1>4 DEF Reason, AtCur
    <3> QED BY <1>0, <3>5, <3>6, <3>7 DEF Reason, PassedOver
  <2> QED BY <2>2, <2>3
<1>5. \A h \in Hashes : \A q \in refs'[h] : q \in refs[h]
  BY <1>2
<1> HIDE DEF r, S
<1> QED BY <1>0, <1>4, <1>5, HoldersKept

\* The hand-over to the worker, and the results.
LEMMA HoldersHandOver ==
    ASSUME SchedInv, UNCHANGED config, Commit \/ Submit \/ UpdateFromOutput
    PROVE  HolderInv'
<1>0. /\ HolderInv /\ ECInv /\ refs \in [Hashes -> SUBSET Reqs] /\ out.order \in Seq(Reqs)
      /\ status \in [Reqs -> {"new", "waiting", "running", "finished"}] /\ idx \in Nat
      /\ out \in Outputs
  BY DEF SchedInv, TypesInv, ECInv, Shape, Outputs
<1>1. CASE Commit
  <2>1. /\ UNCHANGED <<refs, status, computed>> /\ pc = "commit" /\ pc' = "after" /\ idx' = 1
        /\ out' = [out EXCEPT !.start = computed, !.freed = freed]
    BY <1>1 DEF Commit, TakeFreed, schedVars
  <2>2. out'.order = out.order
    BY <1>0, <2>1 DEF Outputs
  <2>3. ASSUME NEW q PROVE ToUpdate(q) => ToUpdate(q)'
    <3> SUFFICES ASSUME ToUpdate(q) PROVE ToUpdate(q)'
      OBVIOUS
    <3>1. PICK j \in 1 .. Len(out.order) : out.order[j] = q
      BY <2>1 DEF ToUpdate, Elems
    <3> QED BY <2>1, <2>2, <3>1 DEF ToUpdate
  <2>4. ASSUME NEW h \in Hashes, NEW q \in refs'[h], NEW i \in DOMAIN Items[q], Reason(q, i)
        PROVE  Reason(q, i)'
    BY <2>1, <2>3, <2>4, ReasonKept DEF AtCur
  <2> QED BY <1>0, <2>1, <2>4, HoldersKept
<1>2. CASE Submit
  <2>1. UNCHANGED <<refs, status, computed>> /\ pc = "after" /\ idx > Len(out.order)
    BY <1>2 DEF Submit, ecVars
  <2>2. ASSUME NEW q PROVE ~ToUpdate(q)
    BY <1>0, <2>1 DEF ToUpdate, Loops
  <2>3. ASSUME NEW h \in Hashes, NEW q \in refs'[h], NEW i \in DOMAIN Items[q], Reason(q, i)
        PROVE  Reason(q, i)'
    BY <2>1, <2>2, <2>3, ReasonKept DEF AtCur
  <2> QED BY <1>0, <2>1, <2>3, HoldersKept
<1>3. CASE UpdateFromOutput
  <2>0. pc = "output" /\ pc' = "output"
    BY <1>3 DEF UpdateFromOutput
  <2>1. CASE UNCHANGED <<ecVars, schedVars>>
    <3>1. UNCHANGED <<refs, status, computed>>
      BY <2>1 DEF ecVars, schedVars
    <3>2. ASSUME NEW h \in Hashes, NEW q \in refs'[h], NEW i \in DOMAIN Items[q], Reason(q, i)
          PROVE  Reason(q, i)'
      BY <2>0, <3>1, <3>2, ReasonKept DEF AtCur, ToUpdate, Loops
    <3> QED BY <1>0, <3>1, <3>2, HoldersKept
  <2>2. ASSUME NEW r \in Reqs, FreeRequest(r) PROVE HolderInv'
    <3>1. status' = [status EXCEPT ![r] = "finished"] /\ computed' = computed /\ ReleaseAll(r)
      BY <2>2 DEF FreeRequest
    <3>2. \A h \in Hashes : refs'[h] = refs[h] \ {r}
      BY <1>0, <3>1, ReleaseAllStep
    <3>3. ASSUME NEW h \in Hashes, NEW q \in refs'[h], NEW i \in DOMAIN Items[q], Reason(q, i)
          PROVE  Reason(q, i)'
      <4>1. q # r /\ q \in Reqs
        BY <1>0, <3>2, <3>3
      <4>2. status'[q] = status[q] /\ computed'[q] = computed[q]
        BY <1>0, <3>1, <4>1
      <4> QED BY <2>0, <3>3, <4>2, ReasonKept DEF AtCur, ToUpdate, Loops
    <3> QED BY <1>0, <3>2, <3>3, HoldersKept
  <2> QED BY <1>3, <2>1, <2>2, OutputRequest
<1> QED BY <1>1, <1>2, <1>3

-----------------------------------------------------------------------------
(* The theorems about any policy.                                          *)

\* The types of all steps together.
LEMMA TypesNext ==
    ASSUME SchedInv, MMNext
    PROVE  TypesInv'
BY TypesOutside, TypesLoops, TypesItems, TypesSchedule, TypesPreempt, TypesCommit, TypesOutput
   DEF MMNext, Outside, EngineStep, WorkerStep

\* Every reference is still needed after any step.
LEMMA HoldersNext ==
    ASSUME SchedInv, MMNext
    PROVE  HolderInv'
BY HoldersOutside, HoldersLoops, HoldersSkip, HoldersItems, HoldersSchedule, HoldersGiveBack,
   HoldersUpdate, HoldersHandOver
   DEF MMNext, Outside, EngineStep, WorkerStep

\* An engine starts empty.
LEMMA SchedInit ==
    ASSUME MMInit
    PROVE  SchedInv
<1>1. ECInv
  BY InitInv DEF MMInit
<1>2. TypesInv
  BY NoOutFacts DEF MMInit, TypesInv, AtCur
<1>3. QueuesInv
  BY DEF MMInit, QueuesInv, NoDup, Elems
<1>4. OrderInv /\ CurInv
  BY DEF MMInit, OrderInv, CurInv, AtCur, InRunningLoop, Loops
<1>5. HolderInv
  BY DEF MMInit, ECInit, HolderInv
<1> QED BY <1>1, <1>2, <1>3, <1>4, <1>5 DEF SchedInv

\* The invariant is inductive.
LEMMA SchedNext ==
    ASSUME SchedInv, [MMNext]_vars
    PROVE  SchedInv' /\ [ECNext]_ecVars
<1>1. CASE MMNext
  <2>1. [ECNext]_ecVars
    BY <1>1, CacheStep
  <2>2. ECInv'
    BY <2>1, NextInv DEF SchedInv
  <2> QED BY <1>1, <2>1, <2>2, TypesNext, QueuesNext, OrderNext, CurNext, HoldersNext DEF SchedInv
<1>2. CASE UNCHANGED vars
  <2>1. /\ UNCHANGED <<config, waiting, running, status, computed, pc, idx, cur, out, tokens>>
        /\ UNCHANGED <<encBudget, outq, resq, worker>> /\ UNCHANGED ecVars
    BY <1>2 DEF vars, schedVars, loopVars, queueVars
  <2>2. ECInv'
    BY <2>1, NextInv DEF SchedInv
  <2>3. TypesInv' /\ QueuesInv' /\ OrderInv'
    BY <2>1 DEF SchedInv, TypesInv, QueuesInv, OrderInv, AtCur, InRunningLoop
  <2>4. CurInv'
    BY <2>1 DEF SchedInv, CurInv, AtCur, Granted, ecVars, Items, Item
  <2>5. HolderInv'
    BY <2>1 DEF SchedInv, HolderInv, Reason, ToUpdate, PassedOver, AtCur, ecVars, Items
  <2> QED BY <2>1, <2>2, <2>3, <2>4, <2>5 DEF SchedInv
<1> QED BY <1>1, <1>2

\* The invariant holds in every state of the engine.
LEMMA SchedAlways == MMSpec => []SchedInv
BY SchedInit, SchedNext, PTL DEF MMSpec

\* Whatever the prompts, the policy, the preemptions and the aborts, the scheduler
\* uses the encoder cache manager within its contract: it allocates only what
\* can_allocate granted, still not cached and still fitting, so the assertions of
\* EncoderCacheManager.allocate never fire.
THEOREM SchedulerKeepsContract == MMSpec => ECSpec
<1>1. MMInit => ECInit
  BY DEF MMInit
<1>2. SchedInv /\ [MMNext]_vars => [ECNext]_ecVars
  BY SchedNext
<1> QED BY <1>1, <1>2, SchedAlways, PTL DEF MMSpec, ECSpec

\* Within the engine too the counters of the encoder cache manager and its queue of
\* evictable entries are exact.
THEOREM EngineCacheBooks == MMSpec => []CacheBooksExact
BY SchedulerKeepsContract, CacheBooks, PTL

\* Between two steps of the engine an encoder output is held only for a running
\* request that has yet to consume it, or for a waiting one that was passed over:
\* no path of preemption, refusal, abort or completion leaks a reference.
THEOREM HoldersStillNeedHolds == MMSpec => []HoldersStillNeed
<1>1. ASSUME SchedInv PROVE HoldersStillNeed
  <2> SUFFICES ASSUME pc \in {"idle", "await"}, NEW h \in Hashes, NEW r \in refs[h]
               PROVE  \E i \in DOMAIN Items[r] :
                          /\ Items[r][i].h = h
                          /\ \/ status[r] = "running" /\ EndOf(Items[r][i]) > computed[r]
                             \/ status[r] = "waiting" /\ PassedOver(r, i)
    BY DEF HoldersStillNeed
  <2>1. PICK i \in DOMAIN Items[r] : Items[r][i].h = h /\ Reason(r, i)
    BY <1>1 DEF SchedInv, HolderInv
  <2> QED BY <2>1 DEF Reason, ToUpdate, AtCur, Loops
<1> QED BY <1>1, SchedAlways, PTL

-----------------------------------------------------------------------------
(* First come, first served: what the worker will hold.                    *)

\* One more step at the worker.
LEMMA HeldOneMore ==
    ASSUME NEW q, NEW w \in SUBSET Hashes, NEW k \in Nat, q[k + 1] \in Outputs
    PROVE  HeldAfter(q, w, k + 1) = (HeldAfter(q, w, k) \ q[k + 1].freed) \cup EncodedBy(q[k + 1])
<1>1. ASSUME NEW i \in 1 .. k + 1 PROVE i \in 1 .. k \/ i = k + 1
  BY <1>1
<1>2. \A i \in 1 .. k : i \in 1 .. k + 1 /\ k + 1 \in i + 1 .. k + 1
  OBVIOUS
<1>3. \A i \in 1 .. k : \A j \in i + 1 .. k : j \in i + 1 .. k + 1
  OBVIOUS
<1>4. \A i \in 1 .. k : \A j \in i + 1 .. k + 1 : j \in i + 1 .. k \/ j = k + 1
  OBVIOUS
<1>5. k + 1 \in 1 .. k + 1 /\ (k + 1) + 1 .. k + 1 = {}
  OBVIOUS
<1>6. q[k + 1].enc \in [Reqs -> SUBSET Hashes]
  BY DEF Outputs
<1>7. ASSUME NEW h \in HeldAfter(q, w, k + 1), h \notin EncodedBy(q[k + 1])
      PROVE  h \in HeldAfter(q, w, k) \ q[k + 1].freed
  <2>0. ~\E r \in Reqs : h \in q[k + 1].enc[r]
    BY <1>7 DEF EncodedBy
  <2>1. CASE \E i \in 1 .. k + 1 : /\ \E r \in Reqs : h \in q[i].enc[r]
                                   /\ \A j \in i + 1 .. k + 1 : h \notin q[j].freed
    <3>1. PICK i \in 1 .. k + 1 : /\ \E r \in Reqs : h \in q[i].enc[r]
                                  /\ \A j \in i + 1 .. k + 1 : h \notin q[j].freed
      BY <2>1
    <3>2. i \in 1 .. k
      BY <1>1, <2>0, <3>1
    <3>3. h \notin q[k + 1].freed /\ \A j \in i + 1 .. k : h \notin q[j].freed
      BY <1>2, <1>3, <3>1, <3>2
    <3> QED BY <3>1, <3>2, <3>3 DEF HeldAfter
  <2>2. CASE h \in w /\ \A j \in 1 .. k + 1 : h \notin q[j].freed
    BY <1>2, <1>5, <2>2 DEF HeldAfter
  <2> QED BY <1>7, <2>1, <2>2 DEF HeldAfter
<1>8. ASSUME NEW h \in HeldAfter(q, w, k), h \notin q[k + 1].freed
      PROVE  h \in HeldAfter(q, w, k + 1)
  <2>1. CASE \E i \in 1 .. k : /\ \E r \in Reqs : h \in q[i].enc[r]
                               /\ \A j \in i + 1 .. k : h \notin q[j].freed
    <3>1. PICK i \in 1 .. k : /\ \E r \in Reqs : h \in q[i].enc[r]
                              /\ \A j \in i + 1 .. k : h \notin q[j].freed
      BY <2>1
    <3>2. i \in 1 .. k + 1 /\ \A j \in i + 1 .. k + 1 : h \notin q[j].freed
      BY <1>2, <1>4, <1>8, <3>1
    <3> QED BY <1>8, <3>1, <3>2 DEF HeldAfter
  <2>2. CASE h \in w /\ \A j \in 1 .. k : h \notin q[j].freed
    BY <1>1, <1>8, <2>2 DEF HeldAfter
  <2> QED BY <1>8, <2>1, <2>2 DEF HeldAfter
<1>9. ASSUME NEW h \in EncodedBy(q[k + 1]) PROVE h \in HeldAfter(q, w, k + 1)
  <2>1. PICK r \in Reqs : h \in q[k + 1].enc[r]
    BY DEF EncodedBy
  <2>2. h \in Hashes
    BY <1>6, <2>1
  <2> QED BY <1>5, <2>1, <2>2 DEF HeldAfter
<1> QED BY <1>7, <1>8, <1>9

\* Only the first steps of the queue matter.
LEMMA HeldSame ==
    ASSUME NEW p, NEW q, NEW w, NEW k \in Nat, \A i \in 1 .. k : p[i] = q[i]
    PROVE  HeldAfter(p, w, k) = HeldAfter(q, w, k)
<1>1. \A i \in 1 .. k : \A j \in i + 1 .. k : j \in 1 .. k
  OBVIOUS
<1> QED BY <1>1 DEF HeldAfter

\* Nothing queued.
LEMMA HeldNone ==
    ASSUME NEW q, NEW w \in SUBSET Hashes
    PROVE  HeldAfter(q, w, 0) = w
BY DEF HeldAfter

\* The worker executes the first step.
LEMMA HeldTail ==
    ASSUME NEW q, NEW t, NEW w \in SUBSET Hashes, NEW k \in Nat, q[1] \in Outputs,
           \A i \in 1 .. k : t[i] = q[i + 1]
    PROVE  HeldAfter(t, WorkerCacheAfter(q[1], w), k) = HeldAfter(q, w, k + 1)
<1> DEFINE u == WorkerCacheAfter(q[1], w)
<1>0. \A h : h \in u <=> (h \in w /\ h \notin q[1].freed) \/ \E r \in Reqs : h \in q[1].enc[r]
  BY DEF WorkerCacheAfter
<1> HIDE DEF u
<1>1. ASSUME NEW h \in HeldAfter(t, u, k) PROVE h \in HeldAfter(q, w, k + 1)
  <2>1. CASE \E i \in 1 .. k : /\ \E r \in Reqs : h \in t[i].enc[r]
                               /\ \A j \in i + 1 .. k : h \notin t[j].freed
    <3>1. PICK i \in 1 .. k : /\ \E r \in Reqs : h \in t[i].enc[r]
                              /\ \A j \in i + 1 .. k : h \notin t[j].freed
      BY <2>1
    <3>2. i + 1 \in 1 .. k + 1 /\ \E r \in Reqs : h \in q[i + 1].enc[r]
      BY <3>1
    <3>3. ASSUME NEW j \in (i + 1) + 1 .. k + 1 PROVE h \notin q[j].freed
      <4>1. j - 1 \in i + 1 .. k /\ j - 1 \in 1 .. k /\ (j - 1) + 1 = j
        OBVIOUS
      <4>2. t[j - 1] = q[(j - 1) + 1]
        BY <4>1
      <4> QED BY <3>1, <4>1, <4>2
    <3> QED BY <3>2, <3>3 DEF HeldAfter
  <2>2. CASE h \in u /\ \A j \in 1 .. k : h \notin t[j].freed
    <3>1. ASSUME NEW j \in 2 .. k + 1 PROVE h \notin q[j].freed
      <4>1. j - 1 \in 1 .. k /\ (j - 1) + 1 = j
        OBVIOUS
      <4>2. t[j - 1] = q[(j - 1) + 1]
        BY <4>1
      <4> QED BY <2>2, <4>1, <4>2
    <3>2. CASE \E r \in Reqs : h \in q[1].enc[r]
      <4>1. 1 \in 1 .. k + 1 /\ 1 + 1 = 2
        OBVIOUS
      <4> QED BY <3>1, <3>2, <4>1 DEF HeldAfter
    <3>3. CASE h \in w /\ h \notin q[1].freed
      <4>1. \A j \in 1 .. k + 1 : j = 1 \/ j \in 2 .. k + 1
        OBVIOUS
      <4> QED BY <3>1, <3>3, <4>1 DEF HeldAfter
    <3> QED BY <1>0, <2>2, <3>2, <3>3
  <2> QED BY <1>1, <2>1, <2>2 DEF HeldAfter
<1>2. ASSUME NEW h \in HeldAfter(q, w, k + 1) PROVE h \in HeldAfter(t, u, k)
  <2>0. h \in Hashes
    BY DEF HeldAfter
  <2>1. CASE \E i \in 1 .. k + 1 : /\ \E r \in Reqs : h \in q[i].enc[r]
                                   /\ \A j \in i + 1 .. k + 1 : h \notin q[j].freed
    <3>1. PICK i \in 1 .. k + 1 : /\ \E r \in Reqs : h \in q[i].enc[r]
                                  /\ \A j \in i + 1 .. k + 1 : h \notin q[j].freed
      BY <2>1
    <3>2. CASE i = 1
      <4>1. \A j \in 1 .. k : j + 1 \in 1 + 1 .. k + 1
        OBVIOUS
      <4>2. \A j \in 1 .. k : h \notin t[j].freed
        BY <3>1, <3>2, <4>1
      <4>3. h \in u
        BY <1>0, <3>1, <3>2
      <4> QED BY <2>0, <4>2, <4>3 DEF HeldAfter
    <3>3. CASE i # 1
      <4>1. i - 1 \in 1 .. k /\ (i - 1) + 1 = i
        BY <3>3
      <4>2. t[i - 1] = q[i]
        BY <4>1
      <4>3. ASSUME NEW j \in (i - 1) + 1 .. k PROVE h \notin t[j].freed
        <5>1. j \in 1 .. k /\ j + 1 \in i + 1 .. k + 1
          BY <4>1
        <5> QED BY <3>1, <5>1
      <4> QED BY <2>0, <3>1, <4>1, <4>2, <4>3 DEF HeldAfter
    <3> QED BY <3>2, <3>3
  <2>2. CASE h \in w /\ \A j \in 1 .. k + 1 : h \notin q[j].freed
    <3>1. \A j \in 1 .. k : j + 1 \in 1 .. k + 1
      OBVIOUS
    <3>2. 1 \in 1 .. k + 1
      OBVIOUS
    <3>3. h \in u /\ \A j \in 1 .. k : h \notin t[j].freed
      BY <1>0, <2>2, <3>1, <3>2
    <3> QED BY <2>0, <3>3 DEF HeldAfter
  <2> QED BY <1>2, <2>1, <2>2 DEF HeldAfter
<1> QED BY <1>1, <1>2 DEF u

-----------------------------------------------------------------------------
(* First come, first served: who is in the step.                           *)

\* The victim is the last running request, and not in the step.
LEMMA FcfsVictim ==
    ASSUME SchedInv, Policy = "fcfs", InPlace, Preempt
    PROVE  /\ Victim = running[Len(running)] /\ Victim \notin Elems(out.order)
           /\ UNCHANGED <<out, idx>>
           /\ Len(running) \in Nat /\ Len(running') = Len(running) - 1
           /\ idx <= Len(running) /\ (Victim # cur.r => idx <= Len(running'))
           /\ \A j \in 1 .. Len(running') : running'[j] = running[j]
           /\ \A r \in Elems(out.order) : \E j \in 1 .. Len(running') : j < idx /\ running[j] = r
<1>1. /\ Victim = running[Len(running)] /\ UNCHANGED <<out, idx>>
      /\ running' = RemoveFirst(running, Victim)
  BY DEF Preempt, Unschedule, Victim
<1>2. /\ running \in Seq(Reqs) /\ NoDup(running) /\ idx \in Nat \ {0} /\ Len(running) \in Nat
      /\ pc = "place" /\ cur.src = "running" /\ Victim \in Elems(running)
  BY PreemptFacts DEF SchedInv, TypesInv, QueuesInv
<1>3. /\ idx <= Len(running) /\ cur.r = running[idx]
      /\ \A r \in Elems(out.order) : \E j \in 1 .. Len(running) : j < idx /\ running[j] = r
  BY <1>2 DEF InPlace, AtCur, InRunningLoop
<1>4. Len(running') = Len(running) - 1
  BY <1>1, <1>2, RemoveFirstFacts
<1>5. \A j \in 1 .. Len(running') : running'[j] = running[j]
  <2>1. Len(running) > 0
    BY <1>2, <1>3
  <2>2. \A j \in 1 .. Len(running) - 1 : RemoveFirst(running, running[Len(running)])[j] = running[j]
    BY <1>2, <2>1, RemoveLast
  <2> QED BY <1>1, <1>4, <2>2
<1>6. ASSUME NEW r \in Elems(out.order)
      PROVE  r # Victim /\ \E j \in 1 .. Len(running') : j < idx /\ running[j] = r
  <2>1. PICK j \in 1 .. Len(running) : j < idx /\ running[j] = r
    BY <1>3
  <2>2. j # Len(running) /\ Len(running) \in 1 .. Len(running)
    BY <1>2, <1>3, <2>1
  <2>3. running[j] # running[Len(running)]
    BY <1>2, <2>1, <2>2 DEF NoDup
  <2>4. j \in 1 .. Len(running) - 1
    BY <1>2, <2>1, <2>2
  <2> QED BY <1>1, <1>4, <2>1, <2>3, <2>4
<1>7. Victim # cur.r => idx <= Len(running')
  BY <1>1, <1>2, <1>3, <1>4
<1> QED BY <1>1, <1>2, <1>3, <1>4, <1>5, <1>6, <1>7

\* The request of the iteration is not in the step yet.
LEMMA NotYetScheduled ==
    ASSUME SchedInv, InPlace, AtCur
    PROVE  cur.r \notin Elems(out.order)
<1>0. cur \in Iterations /\ idx \in Nat /\ Len(running) \in Nat
  BY DEF SchedInv, TypesInv
<1>1. CASE cur.src = "running"
  <2>1. /\ idx <= Len(running) /\ cur.r = running[idx] /\ idx \in Nat \ {0}
        /\ \A r \in Elems(out.order) : \E j \in 1 .. Len(running) : j < idx /\ running[j] = r
    BY <1>1 DEF InPlace, InRunningLoop, SchedInv, TypesInv
  <2> SUFFICES ASSUME cur.r \in Elems(out.order) PROVE FALSE
    OBVIOUS
  <2>2. PICK j \in 1 .. Len(running) : j < idx /\ running[j] = cur.r
    BY <2>1
  <2>3. j = idx
    BY <1>0, <2>1, <2>2 DEF SchedInv, QueuesInv, NoDup
  <2> QED BY <2>1, <2>2, <2>3
<1>2. CASE cur.src = "waiting"
  <2>1. cur.r \in Reqs /\ cur.r \in Elems(waiting)
    BY <1>0, <1>2 DEF SchedInv, CurInv, Iterations
  <2>2. cur.r \notin Elems(running)
    BY <2>1 DEF SchedInv, QueuesInv
  <2> QED BY <2>2 DEF InPlace, AtCur, Loops
<1> QED BY <1>0, <1>1, <1>2 DEF Iterations

\* The running loop stays ahead of the requests it scheduled.
LEMMA InPlaceNext ==
    ASSUME SchedInv, Policy = "fcfs", InPlace, MMNext
    PROVE  InPlace'
<1> USE DEF InPlace, Loops, InRunningLoop, AtCur
<1>0. /\ idx \in Nat \ {0} /\ out.order \in Seq(Reqs) /\ running \in Seq(Reqs)
      /\ Len(running) \in Nat
  BY DEF SchedInv, TypesInv, Outputs
<1>1. CASE BeginSchedule
  <2>1. Elems(out'.order) = {}
    BY <1>1, NoOutFacts DEF BeginSchedule
  <2> QED BY <1>1, <2>1 DEF BeginSchedule
<1>2. CASE ScheduleRunning
  <2>1. /\ pc = "place" /\ cur.src = "running" /\ pc' = "running" /\ idx' = idx + 1
        /\ running' = running
    BY <1>2 DEF ScheduleRunning
  <2>2. Elems(out'.order) = Elems(out.order) \cup {cur.r}
    BY <1>2, ScheduleFacts
  <2>3. idx \in 1 .. Len(running) /\ idx < idx + 1 /\ cur.r = running[idx]
    BY <1>0, <2>1
  <2>4. \A j \in 1 .. Len(running) : j < idx => j < idx + 1
    BY <1>0
  <2>5. ASSUME NEW r \in Elems(out'.order)
        PROVE  \E j \in 1 .. Len(running) : j < idx + 1 /\ running[j] = r
    BY <2>1, <2>2, <2>3, <2>4
  <2>6. Elems(out'.order) \subseteq Elems(running)
    BY <2>5 DEF Elems
  <2> QED BY <2>1, <2>5, <2>6
<1>3. CASE ScheduleWaiting
  <2>1. pc' = "waiting" /\ pc = "place"
    BY <1>3 DEF ScheduleWaiting
  <2>2. /\ Elems(out'.order) = Elems(out.order) \cup {cur.r}
        /\ Elems(running') = Elems(running) \cup {cur.r}
    BY <1>3, ScheduleFacts, QueuesAdmit
  <2> QED BY <2>1, <2>2
<1>4. CASE Preempt
  <2>1. /\ UNCHANGED <<out, idx, cur>> /\ (pc' = "commit" \/ (pc' = "place" /\ Victim # cur.r))
        /\ pc = "place" /\ cur.src = "running"
    BY <1>4, FcfsVictim DEF Preempt
  <2>2. /\ Len(running') = Len(running) - 1
        /\ idx <= Len(running) /\ (Victim # cur.r => idx <= Len(running'))
        /\ \A j \in 1 .. Len(running') : running'[j] = running[j]
        /\ \A r \in Elems(out.order) : \E j \in 1 .. Len(running') : j < idx /\ running[j] = r
    BY <1>4, FcfsVictim
  <2>3. Victim # cur.r => idx \in 1 .. Len(running')
    BY <1>0, <2>2
  <2>4. cur.r = running[idx]
    BY <2>1
  <2>5. Elems(out.order) \subseteq Elems(running')
    BY <2>2 DEF Elems
  <2> QED BY <2>1, <2>2, <2>3, <2>4, <2>5
<1>5. CASE ItemLoop
  BY <1>5, ItemLoopFrame DEF schedVars
<1>6. CASE RunningNext
  <2>1. cur'.r = running[idx] /\ idx <= Len(running) /\ pc = "running"
        /\ UNCHANGED <<idx, running, out>>
    BY <1>6 DEF RunningNext, Consider, schedVars
  <2> QED BY <1>6, <2>1
<1>7. CASE RunningDone \/ WaitingDone \/ SkipWaiting \/ RefuseWaiting
  BY <1>7 DEF RunningDone, WaitingDone, SkipWaiting, RefuseWaiting, schedVars
<1>8. CASE SkipRunning
  <2>1. /\ pc' = "running" /\ idx' = idx + 1 /\ UNCHANGED <<out, running>>
        /\ pc = "place" /\ cur.src = "running"
    BY <1>8 DEF SkipRunning, schedVars
  <2>2. \A j \in 1 .. Len(running) : j < idx => j < idx + 1
    BY <1>0
  <2> QED BY <2>1, <2>2
<1>9. CASE WaitingNext
  <2>1. cur'.src = "waiting"
    BY <1>9 DEF WaitingNext, Consider
  <2> QED BY <1>9, <2>1 DEF WaitingNext, schedVars
<1>10. CASE Commit \/ UpdateAfterSchedule \/ Submit \/ AwaitLast \/ TakeResult
            \/ UpdateFromOutput \/ OutputDone
  BY <1>10 DEF Commit, UpdateAfterSchedule, Submit, AwaitLast, TakeResult,
               UpdateFromOutput, OutputDone
<1>11. CASE (\E r \in Reqs : AddRequest(r) \/ Abort(r)) \/ ResetEncoderCache
  BY <1>11 DEF AddRequest, Abort, ResetEncoderCache, loopVars
<1>12. CASE WorkerExecute
  BY <1>12 DEF WorkerExecute, loopVars, schedVars
<1> QED BY <1>1, <1>2, <1>3, <1>4, <1>5, <1>6, <1>7, <1>8, <1>9, <1>10, <1>11, <1>12
        DEF MMNext, Outside, EngineStep, WorkerStep

-----------------------------------------------------------------------------
(* First come, first served: what the step needs is there.                 *)

\* What is pinned stays pinned while the step is built, but for who leaves it.
LEMMA StepKept ==
    ASSUME EncodesPinned, GathersPinned, UNCHANGED config, pc \in Loops,
           out \in Outputs, UNCHANGED out,
           \A r \in Elems(out.order) : computed'[r] = computed[r],
           \A r \in Elems(out.order) : \A h : Pinned(r, h) => Pinned(r, h)'
    PROVE  EncodesPinned' /\ GathersPinned'
<1>1. Items' = Items
  BY DEF Items
<1>2. EncodesPinned'
  <2> SUFFICES ASSUME NEW r \in Reqs, NEW h \in out.enc[r]
               PROVE  Pinned(r, h)' /\ r \in Elems(out.order)
    BY DEF EncodesPinned
  <2> QED BY DEF EncodesPinned
<1>3. GathersPinned'
  <2> SUFFICES ASSUME NEW r \in Elems(out.order), NEW i \in DOMAIN Items[r],
                      HasEmbeds(Items[r][i], computed[r], computed[r] + out.n[r])
               PROVE  Pinned(r, Items[r][i].h)'
    BY <1>1 DEF GathersPinned, HasEmbeds
  <2> DEFINE h == Items[r][i].h
  <2>1. Pinned(r, h)
    BY DEF GathersPinned
  <2>2. ASSUME NEW g, g = h PROVE Pinned(r, g)'
    BY <2>1, <2>2
  <2>3. Items[r][i].h' = h
    BY <1>1
  <2> QED BY <2>2, <2>3 DEF Pinned
<1> QED BY <1>2, <1>3

\* The items before the one that is refused, or the end of the new tokens, are the
\* only ones the cut reaches.
LEMMA NoEmbedsBeyond ==
    ASSUME SchedInv, NEW r \in Reqs, NEW k \in Nat, NEW i \in DOMAIN Items[r],
           k \in DOMAIN Items[r], k <= i, NEW lo, NEW hi \in Int, hi <= Items[r][k].off
    PROVE  ~HasEmbeds(Items[r][i], lo, hi)
<1>1. config \in Configs
  BY DEF SchedInv, TypesInv
<1>2. /\ DOMAIN Items[r] = 1 .. Len(Items[r]) /\ Items[r][i].off \in Nat /\ Items[r][k].off \in Nat
      /\ \A e \in Items[r][i].emb : e \in Nat
      /\ \A j \in 1 .. i : Items[r][j].off <= Items[r][i].off
  BY <1>1, PromptFacts
<1>3. Items[r][k].off <= Items[r][i].off
  BY <1>2
<1> QED BY <1>2, <1>3 DEF HasEmbeds

\* The items loop.
LEMMA StepItems ==
    ASSUME SchedInv, StepInv, UNCHANGED config, ItemLoop
    PROVE  StepInv'
<1>0. /\ UNCHANGED <<out, computed>> /\ pc = "items" /\ pc' \in {"items", "place"}
      /\ cur \in Iterations /\ cur' \in Iterations
      /\ cur'.r = cur.r /\ cur'.base = cur.base
  BY ItemLoopFrame DEF schedVars
<1>1. Items' = Items /\ out \in Outputs /\ refs \in [Hashes -> SUBSET Reqs] /\ config \in Configs
      /\ cached \subseteq Hashes
  BY DEF Items, SchedInv, TypesInv, ECInv, Shape
<1>2. ASSUME NEW r, NEW h, Pinned(r, h) PROVE Pinned(r, h)'
  <2>1. h \in Hashes
    BY <1>1, <1>2 DEF Pinned
  <2>2. CASE ItemHit
    <3>1. Item.h \in Hashes
      BY <2>2, AtItemFacts DEF ItemHit
    <3> QED BY <1>1, <1>2, <2>1, <2>2, <3>1 DEF ItemHit, CheckAndUpdateHit, Pinned
  <2>3. CASE ItemGranted
    <3>1. PICK D \in SUBSET cached : (\A g \in D : refs[g] = {}) /\ cached' = cached \ D
      BY <2>3, GrantFacts
    <3>2. refs' = refs
      BY <2>3, GrantFacts
    <3> QED BY <1>2, <3>1, <3>2 DEF Pinned
  <2>4. CASE ItemSettled \/ ItemRefused \/ ItemsDone
    BY <1>2, <2>4 DEF ItemSettled, ItemRefused, StopBeforeItem, ItemsDone, ecVars, Pinned
  <2> QED BY <2>2, <2>3, <2>4 DEF ItemLoop
<1>3. EncodesPinned' /\ GathersPinned'
  BY <1>0, <1>1, <1>2, StepKept DEF StepInv, Loops
<1>4. GathersCached'
  BY <1>0 DEF GathersCached
<1>5. FoundPinned'
  <2>0. cur.r \in Reqs /\ cur.base \in Int /\ cur.n \in Int /\ cur.i \in Nat \ {0}
        /\ cur'.n \in Int
    BY <1>0 DEF Iterations
  <2> DEFINE c == cur.r
             It(i) == Items[c][i]
  <2>1. /\ DOMAIN Items[c] = 1 .. Len(Items[c]) /\ Len(Items[c]) \in Nat
        /\ \A i \in DOMAIN Items[c] : /\ It(i).off \in Nat /\ It(i).len \in Nat
                                      /\ \A e \in It(i).emb : e \in Nat /\ e < It(i).len
    BY <1>1, <2>0, PromptFacts
  <2>2. \A i \in DOMAIN Items[c] :
            HasEmbeds(It(i), cur.base, cur.base + cur.n) /\ i < cur.i
                => It(i).h \in cur.hashes \/ Pinned(c, It(i).h)
    BY <1>0 DEF StepInv, FoundPinned, AtCur
  <2> SUFFICES ASSUME NEW i \in DOMAIN Items[c], HasEmbeds(It(i), cur.base, cur.base + cur'.n),
                      pc' = "items" => i < cur'.i
               PROVE  It(i).h \in cur'.hashes \/ (It(i).h \in cached' /\ c \in refs'[It(i).h])
    BY <1>0, <1>1 DEF FoundPinned, Pinned, HasEmbeds
  <2>3. ASSUME HasEmbeds(It(i), cur.base, cur.base + cur.n), i < cur.i, cur.hashes \subseteq cur'.hashes
        PROVE  It(i).h \in cur'.hashes \/ (It(i).h \in cached' /\ c \in refs'[It(i).h])
    <3>1. It(i).h \in cur.hashes \/ Pinned(c, It(i).h)
      BY <2>2, <2>3
    <3>2. ASSUME NEW r, NEW h, Pinned(r, h) PROVE h \in cached' /\ r \in refs'[h]
      BY <1>2, <3>2 DEF Pinned
    <3> QED BY <2>3, <3>1, <3>2
  <2>4. CASE ItemSettled
    <3>1. /\ AtItem /\ Settled /\ cur'.i = cur.i + 1 /\ cur'.n = cur.n /\ cur'.hashes = cur.hashes
          /\ pc' = "items"
      BY <1>0, <2>4, AdvanceFields DEF ItemSettled
    <3>2. CASE i = cur.i
      <4>1. Item = It(i)
        BY <3>2 DEF Item
      <4>2. ~(EndOf(It(i)) <= cur.base)
        <5> DEFINE o == It(i).off
                   l == It(i).len
                   b == cur.base
        <5>1. PICK e \in It(i).emb : b <= o + e
          BY DEF HasEmbeds
        <5>2. o \in Nat /\ l \in Nat /\ e \in Nat /\ e < l /\ b \in Int /\ EndOf(It(i)) = o + l
          BY <2>0, <2>1 DEF EndOf
        <5> HIDE DEF o, l, b
        <5>3. ~(o + l <= b)
          BY <5>1, <5>2
        <5> QED BY <5>2, <5>3 DEF b
      <4> QED BY <3>1, <4>1, <4>2 DEF Settled
    <3>3. CASE i # cur.i
      BY <2>0, <2>1, <2>3, <3>1, <3>3
    <3> QED BY <3>2, <3>3
  <2>5. CASE ItemHit
    <3>1. /\ AtItem /\ cur'.i = cur.i + 1 /\ cur'.n = cur.n /\ cur'.hashes = cur.hashes
          /\ pc' = "items"
      BY <1>0, <2>5, AdvanceFields DEF ItemHit
    <3>2. CASE i = cur.i
      <4>1. Item = It(i) /\ Item.h \in Hashes
        BY <3>1, <3>2, AtItemFacts DEF Item
      <4> QED BY <1>1, <2>5, <4>1 DEF ItemHit, CheckAndUpdateHit
    <3>3. CASE i # cur.i
      BY <2>0, <2>1, <2>3, <3>1, <3>3
    <3> QED BY <3>2, <3>3
  <2>6. CASE ItemGranted
    <3>1. AtItem /\ pc' = "items"
      BY <1>0, <2>6 DEF ItemGranted, AtMiss
    <3>2. Item.h \in Hashes /\ Size[Item.h] \in Int
      BY <3>1, AtItemFacts
    <3>3. CASE cur' = [cur EXCEPT !.i = @ + 1, !.hashes = @ \cup {Item.h},
                                  !.budget = @ - Size[Item.h]]
      <4>1. cur'.i = cur.i + 1 /\ cur'.n = cur.n /\ cur'.hashes = cur.hashes \cup {Item.h}
        BY <1>0, <3>3 DEF Iterations
      <4>2. CASE i = cur.i
        BY <4>1, <4>2 DEF Item
      <4>3. CASE i # cur.i
        BY <2>0, <2>1, <2>3, <3>1, <4>1, <4>3
      <4> QED BY <4>2, <4>3
    <3>4. CASE /\ ~HasEmbeds(Item, cur.base, cur.base + cur.n)
               /\ cur' = [cur EXCEPT !.i = @ + 1]
      <4>1. cur'.i = cur.i + 1 /\ cur'.n = cur.n /\ cur'.hashes = cur.hashes
        BY <1>0, <3>4 DEF Iterations
      <4>2. i # cur.i
        BY <3>4, <4>1 DEF Item
      <4> QED BY <2>0, <2>1, <2>3, <3>1, <4>1, <4>2
    <3> QED BY <2>6, <3>3, <3>4 DEF ItemGranted
  <2>7. CASE ItemRefused
    <3>1. AtItem /\ cur.i \in DOMAIN Items[c] /\ Item = It(cur.i) /\ Item.off \in Nat
      BY <2>7, AtItemFacts DEF ItemRefused, AtMiss
    <3>2. /\ cur'.n = IF cur.base < Item.off THEN Item.off - cur.base ELSE 0
          /\ cur'.hashes = cur.hashes
      BY <1>0, <2>7 DEF ItemRefused, StopBeforeItem, Iterations
    <3>3. cur.base < Item.off /\ cur.base + cur'.n = Item.off
      <4>1. CASE cur.base < Item.off
        BY <2>0, <3>1, <3>2, <4>1
      <4>2. CASE ~(cur.base < Item.off)
        <5>1. cur'.n = 0
          BY <3>2, <4>2
        <5>2. PICK e \in It(i).emb : cur.base <= It(i).off + e /\ It(i).off + e < cur.base + cur'.n
          BY DEF HasEmbeds
        <5>3. It(i).off + e \in Int
          BY <2>1, <5>2
        <5> DEFINE x == It(i).off + e
                   b == cur.base
        <5>4. x \in Int /\ b \in Int /\ b <= x /\ x < b + 0
          BY <2>0, <5>1, <5>2, <5>3
        <5> HIDE DEF x, b
        <5> QED BY <5>4
      <4> QED BY <4>1, <4>2
    <3>4. i < cur.i
      <4>1. ASSUME cur.i <= i PROVE FALSE
        <5>1. HasEmbeds(It(i), cur.base, Item.off)
          BY <3>3
        <5>2. Item.off \in Int /\ Item.off <= It(cur.i).off /\ cur.i \in Nat
          BY <2>0, <3>1
        <5> QED BY <2>0, <3>1, <4>1, <5>1, <5>2, NoEmbedsBeyond
      <4> QED BY <2>0, <2>1, <4>1
    <3>5. Item.off < cur.base + cur.n
      BY <3>1 DEF AtItem, ItemsLeft
    <3>6. HasEmbeds(It(i), cur.base, cur.base + cur.n)
      <4>1. PICK e \in It(i).emb : cur.base <= It(i).off + e /\ It(i).off + e < cur.base + cur'.n
        BY DEF HasEmbeds
      <4>2. It(i).off + e < cur.base + cur.n
        <5> DEFINE x == It(i).off + e
                   o == Item.off
                   m == cur.base + cur.n
        <5>1. x \in Int /\ o \in Int /\ m \in Int
          <6>1. It(i).off \in Nat /\ e \in Nat
            BY <2>1, <4>1
          <6>2. x \in Int
            BY <6>1
          <6> QED BY <2>0, <3>1, <6>2
        <5>2. x < o /\ o < m
          BY <3>3, <3>5, <4>1
        <5> HIDE DEF x, o, m
        <5>3. x < m
          BY <5>1, <5>2
        <5> QED BY <5>3 DEF x, m
      <4> QED BY <4>1, <4>2 DEF HasEmbeds
    <3> QED BY <2>3, <3>2, <3>4, <3>6
  <2>8. CASE ItemsDone
    <3>1. cur' = cur /\ ~ItemsLeft
      BY <2>8 DEF ItemsDone
    <3>2. CASE cur.i > Len(Items[c])
      BY <2>0, <2>1, <2>3, <3>1, <3>2
    <3>3. CASE cur.i <= Len(Items[c])
      <4>1. cur.i \in DOMAIN Items[c] /\ cur.base + cur.n <= It(cur.i).off
        <5>1. cur.i \in DOMAIN Items[c]
          BY <2>0, <2>1, <3>3
        <5>2. It(cur.i).off \in Nat
          BY <2>1, <5>1
        <5>3. ~(It(cur.i).off < cur.base + cur.n)
          BY <3>1, <3>3 DEF ItemsLeft, Item
        <5> DEFINE o == It(cur.i).off
                   m == cur.base + cur.n
        <5>4. o \in Int /\ m \in Int /\ ~(o < m)
          BY <2>0, <5>2, <5>3
        <5> HIDE DEF o, m
        <5>5. m <= o
          BY <5>4
        <5> QED BY <5>1, <5>5 DEF o, m
      <4>2. cur.i <= i => FALSE
        BY <2>0, <3>1, <4>1, NoEmbedsBeyond
      <4> QED BY <2>0, <2>1, <2>3, <3>1, <4>2
    <3> QED BY <2>0, <2>1, <3>2, <3>3
  <2> QED BY <2>4, <2>5, <2>6, <2>7, <2>8 DEF ItemLoop
<1> QED BY <1>3, <1>4, <1>5 DEF StepInv

\* An iteration begins: it has found nothing, and needs nothing without a token.
LEMMA StepBegin ==
    ASSUME SchedInv, StepInv, UNCHANGED config, RunningNext \/ WaitingNext
    PROVE  StepInv'
<1>0. /\ UNCHANGED <<out, computed, cached, refs>> /\ pc \in Loops /\ pc' \in {"items", "place"}
      /\ out \in Outputs
  BY DEF RunningNext, WaitingNext, schedVars, ecVars, Loops, SchedInv, TypesInv
<1>1. EncodesPinned' /\ GathersPinned'
  BY <1>0, StepKept DEF StepInv, Pinned
<1>2. GathersCached'
  BY <1>0 DEF GathersCached
<1>3. cur' \in Iterations
  BY <1>0, TypesLoops DEF TypesInv, AtCur
<1>4. cur'.i = 1 /\ (pc' = "place" => cur'.n = 0)
  BY DEF RunningNext, WaitingNext, Consider
<1>5. cur'.r \in Reqs /\ cur'.base \in Int /\ config \in Configs /\ Items' = Items
  BY <1>3 DEF Iterations, SchedInv, TypesInv, Items
<1>6. FoundPinned'
  <2> DEFINE c == cur'.r
             b == cur'.base
  <2>1. /\ DOMAIN Items[c] = 1 .. Len(Items[c])
        /\ \A i \in DOMAIN Items[c] : /\ Items[c][i].off \in Nat
                                      /\ \A e \in Items[c][i].emb : e \in Nat
    BY <1>5, PromptFacts
  <2>2. ASSUME NEW i \in DOMAIN Items[c], pc' = "items" => i < cur'.i
        PROVE  pc' = "place"
    BY <1>0, <1>4, <2>1, <2>2
  <2>3. ASSUME NEW i \in DOMAIN Items[c], NEW e \in Items[c][i].emb, cur'.n = 0
        PROVE  ~(b <= Items[c][i].off + e /\ Items[c][i].off + e < b + cur'.n)
    <3>1. Items[c][i].off + e \in Int /\ b \in Int
      BY <1>5, <2>1
    <3> DEFINE x == Items[c][i].off + e
    <3> HIDE DEF x, b
    <3>2. ~(b <= x /\ x < b + cur'.n)
      BY <2>3, <3>1 DEF x
    <3> QED BY <3>2 DEF x
  <2> QED BY <1>4, <1>5, <2>2, <2>3 DEF FoundPinned, HasEmbeds
<1> QED BY <1>1, <1>2, <1>6 DEF StepInv

\* A request that is scheduled holds what the step encodes and gathers for it.
LEMMA StepSchedule ==
    ASSUME SchedInv, StepInv, UNCHANGED config, ScheduleRunning \/ ScheduleWaiting
    PROVE  StepInv'
<1>0. /\ cur \in Iterations /\ cur.r \in Reqs /\ pc = "place" /\ Schedule
      /\ Elems(out'.order) = Elems(out.order) \cup {cur.r} /\ out.order \in Seq(Reqs)
      /\ \A r \in Reqs : /\ out'.n[r] = IF r = cur.r THEN cur.n ELSE out.n[r]
                         /\ out'.enc[r] = IF r = cur.r THEN cur.hashes ELSE out.enc[r]
  BY ScheduleFacts
<1>1. /\ Items' = Items /\ refs \in [Hashes -> SUBSET Reqs] /\ cached \subseteq Hashes
      /\ computed \in [Reqs -> Int] /\ cur.hashes \subseteq Hashes
      /\ pc' \in {"running", "waiting"}
  BY <1>0 DEF Items, SchedInv, TypesInv, ECInv, Shape, Iterations, ScheduleRunning, ScheduleWaiting
<1>2. \A r \in Reqs : computed'[r] = IF r = cur.r THEN cur.base ELSE computed[r]
  <2>1. CASE ScheduleRunning
    BY <1>0, <2>1 DEF ScheduleRunning, SchedInv, CurInv, AtCur
  <2>2. CASE ScheduleWaiting
    BY <1>0, <1>1, <2>2 DEF ScheduleWaiting
  <2> QED BY <2>1, <2>2
<1>3. /\ cached' = cached \cup cur.hashes
      /\ refs' = [h \in Hashes |-> IF h \in cur.hashes THEN refs[h] \cup {cur.r} ELSE refs[h]]
  BY <1>0 DEF Schedule, Allocate
<1>4. ASSUME NEW r, NEW h, Pinned(r, h) \/ (r = cur.r /\ h \in cur.hashes)
      PROVE  h \in cached' /\ r \in refs'[h]
  BY <1>1, <1>3, <1>4 DEF Pinned
<1>5. EncodesPinned'
  <2> SUFFICES ASSUME NEW r \in Reqs, NEW h \in out'.enc[r]
               PROVE  h \in cached' /\ r \in refs'[h] /\ r \in Elems(out'.order)
    BY DEF EncodesPinned, Pinned
  <2>1. CASE r = cur.r
    BY <1>0, <1>4, <2>1
  <2>2. CASE r # cur.r
    <3>1. h \in out.enc[r]
      BY <1>0, <2>2
    <3>2. Pinned(r, h) /\ r \in Elems(out.order)
      BY <1>0, <3>1 DEF StepInv, EncodesPinned, Loops
    <3> QED BY <1>0, <1>4, <3>2
  <2> QED BY <2>1, <2>2
<1>6. GathersPinned'
  <2> SUFFICES ASSUME NEW r \in Elems(out'.order), NEW i \in DOMAIN Items[r],
                      HasEmbeds(Items[r][i], computed'[r], computed'[r] + out'.n[r])
               PROVE  Items[r][i].h \in cached' /\ r \in refs'[Items[r][i].h]
    BY <1>1 DEF GathersPinned, Pinned, HasEmbeds
  <2>0. r \in Reqs
    <3>1. Elems(out.order) \subseteq Reqs
      BY <1>0 DEF Elems
    <3> QED BY <1>0, <3>1
  <2>1. CASE r = cur.r
    <3>1. HasEmbeds(Items[r][i], cur.base, cur.base + cur.n)
      BY <1>0, <1>2, <2>0, <2>1
    <3>2. Items[r][i].h \in cur.hashes \/ Pinned(r, Items[r][i].h)
      BY <1>0, <2>1, <3>1 DEF StepInv, FoundPinned, AtCur
    <3> QED BY <1>4, <2>1, <3>2
  <2>2. CASE r # cur.r
    <3>1. HasEmbeds(Items[r][i], computed[r], computed[r] + out.n[r]) /\ r \in Elems(out.order)
      BY <1>0, <1>2, <2>0, <2>2
    <3>2. Pinned(r, Items[r][i].h)
      BY <1>0, <3>1 DEF StepInv, GathersPinned, Loops
    <3> QED BY <1>4, <3>2
  <2> QED BY <2>1, <2>2
<1> QED BY <1>1, <1>5, <1>6 DEF StepInv, GathersCached, FoundPinned, AtCur

\* Who gives references back is not in the step.
LEMMA StepGiveBack ==
    ASSUME SchedInv, Policy = "fcfs", InPlace, StepInv, UNCHANGED config, Preempt \/ RefuseWaiting
    PROVE  StepInv'
<1>0. HolderInv /\ ECInv /\ out \in Outputs /\ computed \in [Reqs -> Int] /\ cached \subseteq Hashes
  BY DEF SchedInv, TypesInv, ECInv, Shape
<1>1. CASE Preempt
  <2> DEFINE v == Victim
  <2>1. v \in Reqs /\ v \notin Elems(out.order) /\ UNCHANGED out /\ pc = "place"
    BY <1>1, PreemptFacts, FcfsVictim
  <2>2. /\ computed' = [computed EXCEPT ![v] = 0] /\ ReleaseAll(v) /\ cur' = cur
        /\ (pc' = "commit" \/ (pc' = "place" /\ v # cur.r))
    BY <1>1 DEF Preempt
  <2> HIDE DEF v
  <2>3. cached' = cached /\ \A h \in Hashes : refs'[h] = refs[h] \ {v}
    BY <1>0, <2>1, <2>2, ReleaseAllStep
  <2>4. ASSUME NEW r, NEW h, r # v, Pinned(r, h) PROVE Pinned(r, h)'
    BY <1>0, <2>3, <2>4 DEF Pinned
  <2>5. \A r \in Elems(out.order) : computed'[r] = computed[r]
    BY <1>0, <2>1, <2>2 DEF Outputs, Elems
  <2>6. EncodesPinned' /\ GathersPinned'
    BY <1>0, <2>1, <2>4, <2>5, StepKept DEF StepInv, Loops
  <2>7. FoundPinned'
    <3>1. Items' = Items
      BY DEF Items
    <3>2. ASSUME NEW i \in DOMAIN Items[cur.r], AtCur',
                 HasEmbeds(Items[cur.r][i], cur.base, cur.base + cur.n)
          PROVE  \/ Items[cur.r][i].h \in cur.hashes
                 \/ Items[cur.r][i].h \in cached' /\ cur.r \in refs'[Items[cur.r][i].h]
      <4>1. v # cur.r
        BY <2>2, <3>2 DEF AtCur
      <4>2. Items[cur.r][i].h \in cur.hashes \/ Pinned(cur.r, Items[cur.r][i].h)
        BY <2>1, <3>2 DEF StepInv, FoundPinned, AtCur
      <4> QED BY <1>0, <2>3, <4>1, <4>2 DEF Pinned
    <3> QED BY <2>1, <2>2, <3>1, <3>2 DEF FoundPinned, Pinned, HasEmbeds
  <2> QED BY <2>2, <2>6, <2>7 DEF StepInv, GathersCached
<1>2. CASE RefuseWaiting
  <2>1. /\ cur.r \in Reqs /\ pc = "place" /\ pc' = "commit" /\ cur.src = "waiting"
        /\ UNCHANGED <<computed, out>> /\ ReleaseAll(cur.r)
    BY <1>2 DEF RefuseWaiting, SchedInv, TypesInv, AtCur, Iterations, schedVars
  <2>2. cached' = cached /\ \A h \in Hashes : refs'[h] = refs[h] \ {cur.r}
    BY <1>0, <2>1, ReleaseAllStep
  <2>3. cur.r \notin Elems(out.order)
    BY <2>1, NotYetScheduled DEF AtCur
  <2>4. ASSUME NEW r \in Elems(out.order), NEW h, Pinned(r, h) PROVE Pinned(r, h)'
    BY <1>0, <2>2, <2>3, <2>4 DEF Pinned
  <2>5. EncodesPinned' /\ GathersPinned'
    BY <1>0, <2>1, <2>4, StepKept DEF StepInv, Loops
  <2> QED BY <2>1, <2>5 DEF StepInv, GathersCached, FoundPinned, AtCur
<1> QED BY <1>1, <1>2

\* The rest of the loops, the hand-over, and everything outside them.
LEMMA StepRest ==
    ASSUME SchedInv, StepInv, UNCHANGED config,
           \/ BeginSchedule \/ RunningDone \/ SkipRunning \/ WaitingDone \/ SkipWaiting
           \/ Commit \/ UpdateAfterSchedule \/ Submit \/ AwaitLast \/ TakeResult
           \/ UpdateFromOutput \/ OutputDone
           \/ (\E r \in Reqs : AddRequest(r) \/ Abort(r)) \/ ResetEncoderCache \/ WorkerExecute
    PROVE  StepInv'
<1>0. out \in Outputs /\ out.order \in Seq(Reqs) /\ Items' = Items /\ ECInv
      /\ computed \in [Reqs -> Int]
  BY DEF SchedInv, TypesInv, Outputs, Items
<1>1. CASE BeginSchedule
  <2>1. Elems(out'.order) = {} /\ \A r \in Reqs : out'.enc[r] = {}
    BY <1>1, NoOutFacts DEF BeginSchedule
  <2> QED BY <1>1, <2>1 DEF BeginSchedule, StepInv, EncodesPinned, GathersPinned, GathersCached,
                            FoundPinned, AtCur
<1>2. CASE RunningDone \/ SkipRunning \/ WaitingDone \/ SkipWaiting
  <2>1. /\ UNCHANGED <<out, computed, cached, refs>> /\ pc \in Loops
        /\ pc' \in {"running", "waiting", "commit"}
    BY <1>2 DEF RunningDone, SkipRunning, WaitingDone, SkipWaiting, schedVars, ecVars, Loops
  <2>2. EncodesPinned' /\ GathersPinned'
    BY <1>0, <2>1, StepKept DEF StepInv, Pinned
  <2> QED BY <2>1, <2>2 DEF StepInv, GathersCached, FoundPinned, AtCur
<1>3. CASE Commit
  <2>1. /\ pc = "commit" /\ pc' = "after" /\ UNCHANGED <<computed, cached>>
        /\ out' = [out EXCEPT !.start = computed, !.freed = freed]
    BY <1>3 DEF Commit, TakeFreed, schedVars
  <2>2. out'.order = out.order /\ out'.n = out.n /\ out'.start = computed
    BY <1>0, <2>1 DEF Outputs
  <2>3. GathersCached'
    <3> SUFFICES ASSUME NEW r \in Elems(out.order), NEW i \in DOMAIN Items[r],
                        HasEmbeds(Items[r][i], computed[r], computed[r] + out.n[r])
                 PROVE  Items[r][i].h \in cached
      BY <1>0, <2>1, <2>2 DEF GathersCached, HasEmbeds
    <3> QED BY <2>1 DEF StepInv, GathersPinned, Pinned, Loops
  <2> QED BY <2>1, <2>3 DEF StepInv, EncodesPinned, GathersPinned, FoundPinned, AtCur, Loops
<1>4. CASE UpdateAfterSchedule
  <2> DEFINE r == out.order[idx]
             S == Consumed(r, computed[r] + out.n[r]) \cap cached
  <2>1. r \in Reqs /\ Release(r, S) /\ S \in SUBSET cached
    BY <1>0, <1>4 DEF UpdateAfterSchedule, SchedInv, TypesInv
  <2> HIDE DEF r, S
  <2>2. cached' = cached
    BY <1>0, <2>1, ReleaseStep
  <2>3. pc = "after" /\ pc' = "after" /\ out' = out
    BY <1>4 DEF UpdateAfterSchedule
  <2>4. GathersCached'
    BY <1>0, <2>2, <2>3 DEF StepInv, GathersCached, HasEmbeds
  <2> QED BY <2>3, <2>4 DEF StepInv, EncodesPinned, GathersPinned, FoundPinned, AtCur, Loops
<1>5. CASE WorkerExecute
  <2>1. UNCHANGED <<pc, cur, out, computed, cached, refs>>
    BY <1>5 DEF WorkerExecute, loopVars, schedVars, ecVars
  <2> QED BY <1>0, <2>1 DEF StepInv, EncodesPinned, GathersPinned, GathersCached, FoundPinned,
                            Pinned, AtCur, HasEmbeds
<1>6. CASE pc' \in {"idle", "await", "output"}
  BY <1>6 DEF StepInv, EncodesPinned, GathersPinned, GathersCached, FoundPinned, AtCur, Loops
<1> QED BY <1>1, <1>2, <1>3, <1>4, <1>5, <1>6
        DEF Submit, AwaitLast, TakeResult, UpdateFromOutput, OutputDone, AddRequest, Abort,
            ResetEncoderCache, loopVars

\* What a step needs is there, after any step.
LEMMA StepNext ==
    ASSUME SchedInv, Policy = "fcfs", InPlace, StepInv, MMNext
    PROVE  StepInv'
BY StepItems, StepBegin, StepSchedule, StepGiveBack, StepRest
   DEF MMNext, Outside, EngineStep, WorkerStep

-----------------------------------------------------------------------------
(* First come, first served: manager and worker stay in step.              *)

\* What a step encodes, once a request that was not in it is added.
LEMMA EncodedMore ==
    ASSUME SchedInv, InPlace, StepInv, ScheduleRunning \/ ScheduleWaiting
    PROVE  EncodedBy(out)' = EncodedBy(out) \cup cur.hashes
<1>0. /\ cur \in Iterations /\ cur.r \in Reqs /\ pc = "place"
      /\ \A r \in Reqs : out'.enc[r] = IF r = cur.r THEN cur.hashes ELSE out.enc[r]
  BY ScheduleFacts
<1>1. cur.r \notin Elems(out.order)
  BY <1>0, NotYetScheduled DEF AtCur
<1>2. \A h : h \notin out.enc[cur.r]
  BY <1>0, <1>1 DEF StepInv, EncodesPinned, Loops
<1> QED BY <1>0, <1>2 DEF EncodedBy

\* The manager's dict is what the worker will hold, after any step.
LEMMA MirrorNext ==
    ASSUME SchedInv, Policy = "fcfs", InPlace, StepInv, MirrorInv, MMNext
    PROVE  MirrorInv'
<1>0. /\ ECInv /\ HolderInv /\ out \in Outputs /\ outq \in Seq(Outputs) /\ worker \in SUBSET Hashes
      /\ Len(outq) \in Nat
  BY DEF SchedInv, TypesInv
<1>1. CASE ScheduleRunning \/ ScheduleWaiting
  <2>1. pc = "place" /\ pc' \in {"running", "waiting"} /\ UNCHANGED <<outq, worker, freed>>
    BY <1>1, ScheduleFacts DEF ScheduleRunning, ScheduleWaiting, queueVars, Schedule, Allocate
  <2>2. cached' = cached \cup cur.hashes
    BY <1>1, ScheduleFacts DEF Schedule, Allocate
  <2>3. EncodedBy(out)' = EncodedBy(out) \cup cur.hashes
    BY <1>1, EncodedMore
  <2> QED BY <2>1, <2>2, <2>3 DEF MirrorInv, AtWorker, Loops
<1>2. CASE ItemGranted
  <2>1. /\ pc = "items" /\ pc' = "items" /\ UNCHANGED <<outq, worker, out>>
    BY <1>2, ItemLoopFrame DEF ItemLoop, queueVars, ItemGranted
  <2>2. PICK D \in SUBSET cached : /\ \A h \in D : refs[h] = {}
                                   /\ cached' = cached \ D /\ freed' = freed \cup D
    BY <1>2, GrantFacts
  <2>3. \A h \in EncodedBy(out) : h \notin D
    BY <2>1, <2>2 DEF StepInv, EncodesPinned, Pinned, EncodedBy, Loops
  <2>4. cached = (AtWorker \ freed) \cup EncodedBy(out)
    BY <2>1 DEF MirrorInv, Loops
  <2>5. cached' = (AtWorker \ freed') \cup EncodedBy(out)
    <3> HIDE DEF AtWorker, EncodedBy
    <3> QED BY <2>2, <2>3, <2>4
  <2> QED BY <2>1, <2>5 DEF MirrorInv, AtWorker, EncodedBy, Loops
<1>3. CASE BeginSchedule
  <2>1. EncodedBy(out)' = {}
    BY <1>3, NoOutFacts DEF BeginSchedule, EncodedBy
  <2>2. pc = "idle" /\ pc' = "running" /\ UNCHANGED <<outq, worker, cached, freed>>
    BY <1>3 DEF BeginSchedule, queueVars, ecVars
  <2> QED BY <2>1, <2>2 DEF MirrorInv, AtWorker, Loops
<1>4. CASE Commit
  <2>1. /\ pc = "commit" /\ pc' = "after" /\ UNCHANGED <<cached, outq, worker>> /\ freed' = {}
        /\ out' = [out EXCEPT !.start = computed, !.freed = freed]
    BY <1>4 DEF Commit, TakeFreed, queueVars
  <2>2. out'.enc = out.enc /\ out'.freed = freed
    BY <1>0, <2>1 DEF Outputs
  <2> QED BY <2>1, <2>2 DEF MirrorInv, AtWorker, EncodedBy, Loops
<1>5. CASE Submit
  <2>1. /\ pc = "after" /\ pc' \in {"idle", "await"} /\ UNCHANGED <<cached, freed, worker>>
        /\ outq' = Append(outq, out)
    BY <1>5 DEF Submit, ecVars
  <2>2. /\ Len(outq') = Len(outq) + 1 /\ outq'[Len(outq) + 1] = out
        /\ \A i \in 1 .. Len(outq) : outq'[i] = outq[i]
    BY <1>0, <2>1
  <2>3. HeldAfter(outq', worker, Len(outq) + 1) =
            (HeldAfter(outq', worker, Len(outq)) \ out.freed) \cup EncodedBy(out)
    BY <1>0, <2>2, HeldOneMore
  <2>4. HeldAfter(outq', worker, Len(outq)) = HeldAfter(outq, worker, Len(outq))
    BY <1>0, <2>2, HeldSame
  <2>5. freed = {} /\ cached = (AtWorker \ out.freed) \cup EncodedBy(out)
    BY <2>1 DEF MirrorInv
  <2> QED BY <2>1, <2>2, <2>3, <2>4, <2>5 DEF MirrorInv, AtWorker, Loops
<1>6. CASE WorkerExecute
  <2>1. /\ outq # <<>> /\ worker' = WorkerCacheAfter(outq[1], worker) /\ outq' = Tail(outq)
        /\ UNCHANGED <<pc, out, cached, freed>>
    BY <1>6 DEF WorkerExecute, loopVars, ecVars
  <2>2. /\ outq[1] \in Outputs /\ Len(outq') = Len(outq) - 1 /\ Len(outq) - 1 \in Nat
        /\ \A i \in 1 .. Len(outq) - 1 : outq'[i] = outq[i + 1]
    BY <1>0, <2>1
  <2>3. HeldAfter(outq', WorkerCacheAfter(outq[1], worker), Len(outq) - 1)
            = HeldAfter(outq, worker, (Len(outq) - 1) + 1)
    BY <1>0, <2>2, HeldTail
  <2>4. (Len(outq) - 1) + 1 = Len(outq)
    BY <1>0
  <2>5. AtWorker' = AtWorker
    BY <2>1, <2>2, <2>3, <2>4 DEF AtWorker
  <2> QED BY <2>1, <2>5 DEF MirrorInv, EncodedBy
<1>7. CASE ResetEncoderCache
  <2>1. /\ outq = <<>> /\ outq' = <<>> /\ worker' = {} /\ cached' = {} /\ freed' = {}
        /\ pc' = "idle"
    BY <1>7 DEF ResetEncoderCache, Reset, loopVars
  <2>2. HeldAfter(<<>>, {}, 0) = {}
    BY HeldNone
  <2> QED BY <2>1, <2>2 DEF MirrorInv, AtWorker, Loops
<1>8. CASE /\ UNCHANGED <<cached, freed, outq, worker, out>>
           /\ \/ pc \in Loops /\ pc' \in Loops
              \/ pc = "after" /\ pc' = "after"
              \/ pc \in {"idle", "await", "output"} /\ pc' \in {"idle", "await", "output"}
  BY <1>8 DEF MirrorInv, AtWorker, Loops
<1>9. CASE ItemSettled \/ ItemHit \/ ItemRefused \/ ItemsDone
  <2>1. UNCHANGED <<cached, freed>>
    BY <1>9 DEF ItemSettled, ItemHit, ItemRefused, ItemsDone, StopBeforeItem, ecVars,
                CheckAndUpdateHit
  <2>2. UNCHANGED <<outq, worker, out>> /\ pc \in Loops /\ pc' \in Loops
    BY <1>9, ItemLoopFrame DEF ItemLoop, queueVars, Loops
  <2> QED BY <1>8, <2>1, <2>2
<1>10. CASE Preempt
  <2>1. Victim \in Reqs /\ UNCHANGED out
    BY <1>10, PreemptFacts, FcfsVictim
  <2>2. UNCHANGED <<cached, freed>>
    BY <1>0, <1>10, <2>1, ReleaseAllStep DEF Preempt
  <2>3. UNCHANGED <<outq, worker>> /\ pc \in Loops /\ pc' \in Loops
    BY <1>10 DEF Preempt, queueVars, Loops
  <2> QED BY <1>8, <2>1, <2>2, <2>3
<1>11. CASE RefuseWaiting
  <2>1. cur.r \in Reqs /\ ReleaseAll(cur.r)
    BY <1>11 DEF RefuseWaiting, SchedInv, TypesInv, AtCur, Iterations
  <2>2. UNCHANGED <<cached, freed>>
    BY <1>0, <2>1, ReleaseAllStep
  <2>3. UNCHANGED <<outq, worker, out>> /\ pc \in Loops /\ pc' \in Loops
    BY <1>11 DEF RefuseWaiting, queueVars, Loops
  <2> QED BY <1>8, <2>2, <2>3
<1>12. CASE UpdateAfterSchedule
  <2> DEFINE r == out.order[idx]
             S == Consumed(r, computed[r] + out.n[r]) \cap cached
  <2>1. r \in Reqs /\ Release(r, S) /\ S \in SUBSET cached
    BY <1>12 DEF UpdateAfterSchedule, SchedInv, TypesInv, Outputs
  <2> HIDE DEF r, S
  <2>2. UNCHANGED <<cached, freed>>
    BY <1>0, <2>1, ReleaseStep
  <2>3. UNCHANGED <<outq, worker, out>> /\ pc = "after" /\ pc' = "after"
    BY <1>12 DEF UpdateAfterSchedule, queueVars
  <2> QED BY <1>8, <2>2, <2>3
<1>13. CASE \E r \in Reqs : Abort(r)
  <2>1. PICK r \in Reqs : Abort(r)
    BY <1>13
  <2>2. UNCHANGED <<cached, freed>>
    BY <1>0, <2>1, ReleaseAllStep DEF Abort, FreeRequest
  <2>3. UNCHANGED <<outq, worker, out, pc>> /\ pc \in {"idle", "await"}
    BY <2>1 DEF Abort, queueVars, loopVars
  <2> QED BY <1>8, <2>2, <2>3
<1>14. CASE UpdateFromOutput
  <2>1. CASE UNCHANGED <<ecVars, schedVars>>
    BY <1>8, <1>14, <2>1 DEF UpdateFromOutput, ecVars, queueVars
  <2>2. ASSUME NEW r \in Reqs, FreeRequest(r) PROVE MirrorInv'
    <3>1. UNCHANGED <<cached, freed>>
      BY <1>0, <2>2, ReleaseAllStep DEF FreeRequest
    <3> QED BY <1>8, <1>14, <3>1 DEF UpdateFromOutput, queueVars
  <2> QED BY <1>14, <2>1, <2>2, OutputRequest
<1>15. CASE \/ RunningNext \/ RunningDone \/ SkipRunning \/ WaitingNext \/ WaitingDone
            \/ SkipWaiting \/ AwaitLast \/ TakeResult \/ \E r \in Reqs : AddRequest(r)
  BY <1>8, <1>15 DEF RunningNext, RunningDone, SkipRunning, WaitingNext, WaitingDone,
                     SkipWaiting, AwaitLast, TakeResult, AddRequest, ecVars, queueVars, loopVars,
                     Loops
<1>16. CASE OutputDone
  BY <1>8, <1>16 DEF OutputDone, ecVars
<1> QED BY <1>1, <1>2, <1>3, <1>4, <1>5, <1>6, <1>7, <1>9, <1>10, <1>11, <1>12, <1>13, <1>14,
           <1>15, <1>16 DEF MMNext, Outside, EngineStep, WorkerStep, ItemLoop

\* Every queued step will find what it gathers, after any step.
LEMMA QueuedNext ==
    ASSUME SchedInv, Policy = "fcfs", StepInv, MirrorInv, QueuedInv, MMNext
    PROVE  QueuedInv'
<1>0. /\ out \in Outputs /\ outq \in Seq(Outputs) /\ worker \in SUBSET Hashes /\ Len(outq) \in Nat
      /\ Items' = Items
  BY DEF SchedInv, TypesInv, MMNext, Outside, EngineStep, WorkerStep, Items
<1>1. CASE Submit
  <2>1. pc = "after" /\ outq' = Append(outq, out) /\ worker' = worker
    BY <1>1 DEF Submit
  <2>2. /\ Len(outq') = Len(outq) + 1 /\ outq'[Len(outq) + 1] = out
        /\ \A i \in 1 .. Len(outq) : outq'[i] = outq[i]
    BY <1>0, <2>1
  <2>3. ASSUME NEW k \in 1 .. Len(outq)
        PROVE  HeldAfter(outq', worker, k) = HeldAfter(outq, worker, k)
    <3>1. k \in Nat /\ \A i \in 1 .. k : outq'[i] = outq[i]
      BY <1>0, <2>2
    <3> QED BY <3>1, HeldSame
  <2>4. HeldAfter(outq', worker, Len(outq) + 1) = cached
    <3>1. HeldAfter(outq', worker, Len(outq) + 1) =
              (HeldAfter(outq', worker, Len(outq)) \ out.freed) \cup EncodedBy(out)
      BY <1>0, <2>2, HeldOneMore
    <3>2. HeldAfter(outq', worker, Len(outq)) = HeldAfter(outq, worker, Len(outq))
      BY <1>0, <2>2, HeldSame
    <3> QED BY <2>1, <3>1, <3>2 DEF MirrorInv, AtWorker
  <2>5. \A k \in 1 .. Len(outq') : k \in 1 .. Len(outq) \/ k = Len(outq) + 1
    BY <1>0, <2>2
  <2> SUFFICES ASSUME NEW k \in 1 .. Len(outq'), NEW r \in Elems(outq'[k].order),
                      NEW i \in DOMAIN Items[r],
                      HasEmbeds(Items[r][i], outq'[k].start[r], outq'[k].start[r] + outq'[k].n[r])
               PROVE  Items[r][i].h \in HeldAfter(outq', worker, k)
    BY <1>0, <2>1 DEF QueuedInv, HasEmbeds
  <2>6. CASE k \in 1 .. Len(outq)
    <3>1. outq'[k] = outq[k]
      BY <2>2, <2>6
    <3> QED BY <2>3, <2>6, <3>1 DEF QueuedInv
  <2>7. CASE k = Len(outq) + 1
    BY <2>1, <2>2, <2>4, <2>7 DEF StepInv, GathersCached
  <2> QED BY <2>5, <2>6, <2>7
<1>2. CASE WorkerExecute
  <2>1. outq # <<>> /\ worker' = WorkerCacheAfter(outq[1], worker) /\ outq' = Tail(outq)
    BY <1>2 DEF WorkerExecute
  <2>2. /\ outq[1] \in Outputs /\ Len(outq') = Len(outq) - 1
        /\ \A i \in 1 .. Len(outq) - 1 : outq'[i] = outq[i + 1]
    BY <1>0, <2>1
  <2> SUFFICES ASSUME NEW k \in 1 .. Len(outq'), NEW r \in Elems(outq'[k].order),
                      NEW i \in DOMAIN Items[r],
                      HasEmbeds(Items[r][i], outq'[k].start[r], outq'[k].start[r] + outq'[k].n[r])
               PROVE  Items[r][i].h \in HeldAfter(outq', worker', k)
    BY <1>0 DEF QueuedInv, HasEmbeds
  <2>3. k \in Nat /\ k + 1 \in 1 .. Len(outq) /\ \A j \in 1 .. k : outq'[j] = outq[j + 1]
    BY <1>0, <2>2
  <2>4. HeldAfter(outq', WorkerCacheAfter(outq[1], worker), k) = HeldAfter(outq, worker, k + 1)
    BY <1>0, <2>2, <2>3, HeldTail
  <2>5. outq'[k] = outq[k + 1]
    BY <2>2
  <2> QED BY <2>1, <2>3, <2>4, <2>5 DEF QueuedInv
<1>3. CASE ResetEncoderCache
  BY <1>3 DEF ResetEncoderCache, QueuedInv
<1>4. CASE UNCHANGED <<outq, worker>>
  BY <1>0, <1>4 DEF QueuedInv, HasEmbeds
<1>5. ItemLoop \/ Preempt => UNCHANGED <<outq, worker>>
  BY DEF ItemLoop, ItemSettled, ItemHit, ItemRefused, StopBeforeItem, ItemGranted, ItemsDone,
         itemsUnchanged, queueVars, Preempt
<1> QED BY <1>1, <1>2, <1>3, <1>4, <1>5
        DEF MMNext, Outside, EngineStep, WorkerStep, AddRequest, Abort, BeginSchedule,
            RunningNext, RunningDone, SkipRunning, ScheduleRunning, WaitingNext, WaitingDone,
            SkipWaiting, ScheduleWaiting, RefuseWaiting, Commit, UpdateAfterSchedule, AwaitLast,
            TakeResult, UpdateFromOutput, OutputDone, queueVars

-----------------------------------------------------------------------------
(* The theorems about first come, first served.                            *)

\* The invariant is inductive.
LEMMA FcfsNext ==
    ASSUME SchedInv, FcfsInv, [MMNext]_vars
    PROVE  FcfsInv'
<1>1. Policy' = Policy
  BY DEF MMNext, Outside, EngineStep, WorkerStep, Policy, vars
<1>2. CASE MMNext
  BY <1>1, <1>2, InPlaceNext, StepNext, MirrorNext, QueuedNext DEF FcfsInv
<1>3. CASE UNCHANGED vars
  <2>1. /\ UNCHANGED <<config, running, computed, pc, idx, cur, out, outq, worker>>
        /\ UNCHANGED <<cached, refs, freed>>
    BY <1>3 DEF vars, schedVars, loopVars, queueVars, ecVars
  <2>2. InPlace => InPlace'
    BY <2>1 DEF InPlace, AtCur, InRunningLoop
  <2>3. StepInv => StepInv'
    BY <2>1 DEF StepInv, EncodesPinned, GathersPinned, GathersCached, FoundPinned, Pinned, AtCur,
                Items, HasEmbeds
  <2>4. MirrorInv => MirrorInv'
    BY <2>1 DEF MirrorInv, AtWorker, EncodedBy
  <2>5. QueuedInv => QueuedInv'
    BY <2>1 DEF QueuedInv, Items, HasEmbeds
  <2> QED BY <1>1, <2>2, <2>3, <2>4, <2>5 DEF FcfsInv
<1> QED BY <1>2, <1>3

\* An engine starts with nothing queued and nothing cached.
LEMMA FcfsInit ==
    ASSUME MMInit
    PROVE  FcfsInv
<1>1. /\ pc = "idle" /\ outq = <<>> /\ worker = {} /\ cached = {} /\ freed = {}
  BY DEF MMInit, ECInit
<1>2. HeldAfter(<<>>, {}, 0) = {}
  BY HeldNone
<1>3. InPlace /\ StepInv
  BY <1>1 DEF InPlace, StepInv, EncodesPinned, GathersPinned, GathersCached, FoundPinned, AtCur,
              InRunningLoop, Loops
<1>4. MirrorInv
  BY <1>1, <1>2 DEF MirrorInv, AtWorker, Loops
<1>5. QueuedInv
  BY <1>1 DEF QueuedInv
<1> QED BY <1>3, <1>4, <1>5 DEF FcfsInv

\* It holds in every state of the engine.
LEMMA FcfsAlways == MMSpec => []FcfsInv
BY FcfsInit, FcfsNext, SchedAlways, PTL DEF MMSpec

\* First come, first served, "Encoder cache miss" never happens, however many steps
\* are in flight, requests are preempted or aborted and outputs evicted: every
\* encoder output a step gathers is in the worker's cache when it executes.
THEOREM FcfsFindsEveryOutputHolds == MMSpec => []FcfsFindsEveryOutput
<1>1. ASSUME SchedInv, FcfsInv PROVE FcfsFindsEveryOutput
  <2> SUFFICES ASSUME Policy = "fcfs", outq # <<>>,
                      NEW r \in Range(outq[1].order), NEW i \in DOMAIN Items[r],
                      HasEmbeds(Items[r][i], outq[1].start[r], outq[1].start[r] + outq[1].n[r])
               PROVE  Items[r][i].h \in WorkerCacheAfter(outq[1], worker)
    BY DEF FcfsFindsEveryOutput, NoEncoderCacheMiss
  <2>1. /\ outq \in Seq(Outputs) /\ worker \in SUBSET Hashes /\ Len(outq) \in Nat
        /\ 1 \in 1 .. Len(outq) /\ outq[1] \in Outputs
    BY <1>1 DEF SchedInv, TypesInv
  <2>2. outq[1].order \in Seq(Reqs)
    BY <2>1 DEF Outputs
  <2>3. Range(outq[1].order) = Elems(outq[1].order)
    BY <2>2 DEF Range, Elems
  <2>4. Items[r][i].h \in HeldAfter(outq, worker, 1)
    BY <1>1, <2>1, <2>3 DEF FcfsInv, QueuedInv
  <2>5. HeldAfter(outq, worker, 0 + 1) = (HeldAfter(outq, worker, 0) \ outq[0 + 1].freed)
                                            \cup EncodedBy(outq[0 + 1])
    <3>1. outq[0 + 1] \in Outputs
      BY <2>1
    <3> QED BY <2>1, <3>1, HeldOneMore
  <2>6. HeldAfter(outq, worker, 0) = worker
    BY <2>1, HeldNone
  <2> QED BY <2>4, <2>5, <2>6 DEF WorkerCacheAfter, EncodedBy
<1> QED BY <1>1, SchedAlways, FcfsAlways, PTL

\* First come, first served, between steps the manager's dict holds exactly the
\* hashes the worker's cache holds once it has executed what is queued: the two
\* caches never drift apart.
THEOREM WorkerMirrorsManagerHolds == MMSpec => []WorkerMirrorsManager
<1>1. ASSUME FcfsInv PROVE WorkerMirrorsManager
  BY <1>1 DEF FcfsInv, MirrorInv, AtWorker, Loops, WorkerMirrorsManager
<1> QED BY <1>1, FcfsAlways, PTL

-----------------------------------------------------------------------------
(* Budgets: counting the tokens and the encoder outputs of a step.         *)

\* Giving one request other tokens adds no more than these.
LEMMA PerRequestPut ==
    ASSUME NEW F, NEW G, NEW v \in Reqs, IsFiniteSet(PerRequest(F)), IsFiniteSet(G[v]),
           \A r \in Reqs : r # v => G[r] = F[r]
    PROVE  /\ IsFiniteSet(PerRequest(G))
           /\ Cardinality(PerRequest(F)) \in Nat /\ Cardinality(PerRequest(G)) \in Nat
           /\ Cardinality(G[v]) \in Nat
           /\ Cardinality(PerRequest(G)) <= Cardinality(PerRequest(F)) + Cardinality(G[v])
<1> DEFINE A == PerRequest(F)
           B == PerRequest(G)
           C == {v} \X G[v]
<1>1. B \subseteq A \cup C
  BY DEF PerRequest
<1>2. IsFiniteSet({v}) /\ Cardinality({v}) = 1
  BY FS_Singleton
<1>3. IsFiniteSet(C) /\ Cardinality(C) = 1 * Cardinality(G[v])
  BY <1>2, FS_Product
<1>4. IsFiniteSet(A)
  OBVIOUS
<1> HIDE DEF A, B, C
<1>5. /\ Cardinality(A) \in Nat /\ Cardinality(C) \in Nat /\ Cardinality(G[v]) \in Nat
  BY <1>3, <1>4, FS_CardinalityType
<1>6. IsFiniteSet(A \cap C) /\ Cardinality(A \cap C) \in Nat
  BY <1>4, FS_Subset, FS_CardinalityType
<1>7. /\ IsFiniteSet(A \cup C)
      /\ Cardinality(A \cup C) = Cardinality(A) + Cardinality(C) - Cardinality(A \cap C)
  BY <1>3, <1>4, FS_Union
<1>8. IsFiniteSet(B) /\ Cardinality(B) <= Cardinality(A \cup C)
  BY <1>1, <1>7, FS_Subset
<1>9. Cardinality(B) \in Nat
  BY <1>8, FS_CardinalityType
<1>10. Cardinality(B) <= Cardinality(A) + Cardinality(G[v])
  BY <1>3, <1>5, <1>6, <1>7, <1>8, <1>9
<1> QED BY <1>5, <1>8, <1>9, <1>10 DEF A, B

\* Taking the tokens of one request back frees as many.
LEMMA PerRequestDrop ==
    ASSUME NEW F, NEW G, NEW v \in Reqs, IsFiniteSet(PerRequest(F)), IsFiniteSet(F[v]), G[v] = {},
           \A r \in Reqs : r # v => G[r] = F[r]
    PROVE  /\ IsFiniteSet(PerRequest(G))
           /\ Cardinality(PerRequest(F)) \in Nat /\ Cardinality(PerRequest(G)) \in Nat
           /\ Cardinality(F[v]) \in Nat
           /\ Cardinality(PerRequest(G)) + Cardinality(F[v]) = Cardinality(PerRequest(F))
<1> DEFINE A == PerRequest(F)
           B == PerRequest(G)
           C == {v} \X F[v]
<1>1. B = A \ C /\ A \cap C = C
  BY DEF PerRequest
<1>2. IsFiniteSet({v}) /\ Cardinality({v}) = 1
  BY FS_Singleton
<1>3. IsFiniteSet(C) /\ Cardinality(C) = 1 * Cardinality(F[v])
  BY <1>2, FS_Product
<1>4. IsFiniteSet(A)
  OBVIOUS
<1> HIDE DEF A, B, C
<1>5. /\ Cardinality(A) \in Nat /\ Cardinality(C) \in Nat /\ Cardinality(F[v]) \in Nat
  BY <1>3, <1>4, FS_CardinalityType
<1>6. IsFiniteSet(B) /\ Cardinality(B) = Cardinality(A) - Cardinality(C)
  <2>1. IsFiniteSet(A \ C) /\ Cardinality(A \ C) = Cardinality(A) - Cardinality(A \cap C)
    BY <1>4, FS_Difference
  <2> QED BY <1>1, <2>1
<1>7. Cardinality(B) \in Nat
  BY <1>6, FS_CardinalityType
<1>8. Cardinality(B) + Cardinality(F[v]) = Cardinality(A)
  BY <1>3, <1>5, <1>6, <1>7
<1> QED BY <1>5, <1>6, <1>7, <1>8 DEF A, B

\* What scheduling cur.r adds to a step.
LEMMA StepMore ==
    ASSUME NEW o \in Outputs, NEW p \in Outputs, NEW v \in Reqs, NEW n \in Nat,
           NEW H \in SUBSET Hashes,
           \A r \in Reqs : /\ p.n[r] = IF r = v THEN n ELSE o.n[r]
                           /\ p.enc[r] = IF r = v THEN H ELSE o.enc[r],
           IsFiniteSet(PerRequest(TokensOf(o))), IsFiniteSet(PerRequest(EmbedsOf(o)))
    PROVE  /\ IsFiniteSet(PerRequest(TokensOf(p))) /\ IsFiniteSet(PerRequest(EmbedsOf(p)))
           /\ StepTokens(o) \in Nat /\ StepTokens(p) \in Nat
           /\ StepEmbeds(o) \in Nat /\ StepEmbeds(p) \in Nat
           /\ StepTokens(p) <= StepTokens(o) + n
           /\ StepEmbeds(p) <= StepEmbeds(o) + SlotsOf(H)
<1>1. /\ \A r \in Reqs : r # v => TokensOf(p)[r] = TokensOf(o)[r]
      /\ TokensOf(p)[v] = 1 .. n
  BY DEF TokensOf
<1>2. /\ \A r \in Reqs : r # v => EmbedsOf(p)[r] = EmbedsOf(o)[r]
      /\ EmbedsOf(p)[v] = Rows(H)
  BY DEF EmbedsOf
<1>3. IsFiniteSet(1 .. n) /\ Cardinality(1 .. n) = n
  BY FS_Interval
<1>4. IsFiniteSet(Rows(H)) /\ Cardinality(Rows(H)) = SlotsOf(H)
  BY RowsFinite DEF SlotsOf
<1>5. /\ IsFiniteSet(PerRequest(TokensOf(p)))
      /\ Cardinality(PerRequest(TokensOf(o))) \in Nat /\ Cardinality(PerRequest(TokensOf(p))) \in Nat
      /\ Cardinality(PerRequest(TokensOf(p))) <= Cardinality(PerRequest(TokensOf(o))) + n
  <2> DEFINE F == TokensOf(o)
             G == TokensOf(p)
  <2>1. IsFiniteSet(G[v]) /\ Cardinality(G[v]) = n /\ IsFiniteSet(PerRequest(F))
    BY <1>1, <1>3
  <2>2. \A r \in Reqs : r # v => G[r] = F[r]
    BY <1>1
  <2> HIDE DEF F, G
  <2>3. /\ IsFiniteSet(PerRequest(G))
        /\ Cardinality(PerRequest(F)) \in Nat /\ Cardinality(PerRequest(G)) \in Nat
        /\ Cardinality(PerRequest(G)) <= Cardinality(PerRequest(F)) + Cardinality(G[v])
    BY <2>1, <2>2, PerRequestPut
  <2> QED BY <2>1, <2>3 DEF F, G
<1>6. /\ IsFiniteSet(PerRequest(EmbedsOf(p)))
      /\ Cardinality(PerRequest(EmbedsOf(o))) \in Nat /\ Cardinality(PerRequest(EmbedsOf(p))) \in Nat
      /\ Cardinality(PerRequest(EmbedsOf(p))) <= Cardinality(PerRequest(EmbedsOf(o))) + SlotsOf(H)
  <2> DEFINE F == EmbedsOf(o)
             G == EmbedsOf(p)
  <2>1. IsFiniteSet(G[v]) /\ Cardinality(G[v]) = SlotsOf(H) /\ IsFiniteSet(PerRequest(F))
    BY <1>2, <1>4
  <2>2. \A r \in Reqs : r # v => G[r] = F[r]
    BY <1>2
  <2> HIDE DEF F, G
  <2>3. /\ IsFiniteSet(PerRequest(G))
        /\ Cardinality(PerRequest(F)) \in Nat /\ Cardinality(PerRequest(G)) \in Nat
        /\ Cardinality(PerRequest(G)) <= Cardinality(PerRequest(F)) + Cardinality(G[v])
    BY <2>1, <2>2, PerRequestPut
  <2> QED BY <2>1, <2>3 DEF F, G
<1> QED BY <1>5, <1>6 DEF StepTokens, StepEmbeds

\* What taking v back frees.
LEMMA StepLess ==
    ASSUME NEW o \in Outputs, NEW p \in Outputs, NEW v \in Reqs, o.n[v] \in Nat,
           \A r \in Reqs : /\ p.n[r] = IF r = v THEN 0 ELSE o.n[r]
                           /\ p.enc[r] = IF r = v THEN {} ELSE o.enc[r],
           IsFiniteSet(PerRequest(TokensOf(o))), IsFiniteSet(PerRequest(EmbedsOf(o)))
    PROVE  /\ IsFiniteSet(PerRequest(TokensOf(p))) /\ IsFiniteSet(PerRequest(EmbedsOf(p)))
           /\ StepTokens(o) \in Nat /\ StepTokens(p) \in Nat
           /\ StepEmbeds(o) \in Nat /\ StepEmbeds(p) \in Nat
           /\ StepTokens(p) + o.n[v] = StepTokens(o)
           /\ StepEmbeds(p) + SlotsOf(o.enc[v]) = StepEmbeds(o)
<1>0. o.enc[v] \in SUBSET Hashes
  BY DEF Outputs
<1>1. /\ \A r \in Reqs : r # v => TokensOf(p)[r] = TokensOf(o)[r]
      /\ TokensOf(o)[v] = 1 .. o.n[v] /\ TokensOf(p)[v] = {}
  BY DEF TokensOf
<1>2. /\ \A r \in Reqs : r # v => EmbedsOf(p)[r] = EmbedsOf(o)[r]
      /\ EmbedsOf(o)[v] = Rows(o.enc[v]) /\ EmbedsOf(p)[v] = {}
  BY DEF EmbedsOf, Rows
<1>3. IsFiniteSet(1 .. o.n[v]) /\ Cardinality(1 .. o.n[v]) = o.n[v]
  <2> DEFINE n == o.n[v]
  <2>1. n \in Nat
    OBVIOUS
  <2> HIDE DEF n
  <2>2. IsFiniteSet(1 .. n) /\ Cardinality(1 .. n) = n
    BY <2>1, FS_Interval
  <2> QED BY <2>2 DEF n
<1>4. IsFiniteSet(Rows(o.enc[v])) /\ Cardinality(Rows(o.enc[v])) = SlotsOf(o.enc[v])
  BY <1>0, RowsFinite DEF SlotsOf
<1>5. /\ IsFiniteSet(PerRequest(TokensOf(p)))
      /\ Cardinality(PerRequest(TokensOf(o))) \in Nat /\ Cardinality(PerRequest(TokensOf(p))) \in Nat
      /\ Cardinality(PerRequest(TokensOf(p))) + o.n[v] = Cardinality(PerRequest(TokensOf(o)))
  <2> DEFINE F == TokensOf(o)
             G == TokensOf(p)
  <2>1. /\ IsFiniteSet(F[v]) /\ Cardinality(F[v]) = o.n[v] /\ IsFiniteSet(PerRequest(F))
        /\ G[v] = {}
    BY <1>1, <1>3
  <2>2. \A r \in Reqs : r # v => G[r] = F[r]
    BY <1>1
  <2> HIDE DEF F, G
  <2>3. /\ IsFiniteSet(PerRequest(G))
        /\ Cardinality(PerRequest(F)) \in Nat /\ Cardinality(PerRequest(G)) \in Nat
        /\ Cardinality(PerRequest(G)) + Cardinality(F[v]) = Cardinality(PerRequest(F))
    BY <2>1, <2>2, PerRequestDrop
  <2> QED BY <2>1, <2>3 DEF F, G
<1>6. /\ IsFiniteSet(PerRequest(EmbedsOf(p)))
      /\ Cardinality(PerRequest(EmbedsOf(o))) \in Nat /\ Cardinality(PerRequest(EmbedsOf(p))) \in Nat
      /\ Cardinality(PerRequest(EmbedsOf(p))) + SlotsOf(o.enc[v]) = Cardinality(PerRequest(EmbedsOf(o)))
  <2> DEFINE F == EmbedsOf(o)
             G == EmbedsOf(p)
  <2>1. /\ IsFiniteSet(F[v]) /\ Cardinality(F[v]) = SlotsOf(o.enc[v]) /\ IsFiniteSet(PerRequest(F))
        /\ G[v] = {}
    BY <1>2, <1>4
  <2>2. \A r \in Reqs : r # v => G[r] = F[r]
    BY <1>2
  <2> HIDE DEF F, G
  <2>3. /\ IsFiniteSet(PerRequest(G))
        /\ Cardinality(PerRequest(F)) \in Nat /\ Cardinality(PerRequest(G)) \in Nat
        /\ Cardinality(PerRequest(G)) + Cardinality(F[v]) = Cardinality(PerRequest(F))
    BY <2>1, <2>2, PerRequestDrop
  <2> QED BY <2>1, <2>3 DEF F, G
<1> QED BY <1>5, <1>6 DEF StepTokens, StepEmbeds

\* An empty step takes nothing.
LEMMA StepNone ==
    /\ IsFiniteSet(PerRequest(TokensOf(NoOut))) /\ IsFiniteSet(PerRequest(EmbedsOf(NoOut)))
    /\ StepTokens(NoOut) = 0 /\ StepEmbeds(NoOut) = 0
<1>1. \A r \in Reqs : TokensOf(NoOut)[r] = {} /\ EmbedsOf(NoOut)[r] = {}
  BY NoOutFacts DEF TokensOf, EmbedsOf, Rows
<1>2. PerRequest(TokensOf(NoOut)) = {} /\ PerRequest(EmbedsOf(NoOut)) = {}
  BY <1>1 DEF PerRequest
<1> QED BY <1>2, FS_EmptySet DEF StepTokens, StepEmbeds

-----------------------------------------------------------------------------
(* Budgets: what each step takes and gives back.                           *)

\* Removing one item moves no other one back, and those behind it one forward.
LEMMA WithinRemove ==
    ASSUME NEW T, NEW s \in Seq(T), NEW y \in Elems(s), NEW x, x # y, NEW k \in Int, Within(s, k, x)
    PROVE  /\ Within(RemoveFirst(s, y), k, x)
           /\ NoDup(s) /\ Within(s, k, y) => Within(RemoveFirst(s, y), k - 1, x)
<1> DEFINE t == RemoveFirst(s, y)
<1>1. PICK m \in 1 .. Len(s) : s[m] = y /\ t = RemoveAt(s, m)
  BY RemoveFirstAt
<1>2. /\ t \in Seq(T) /\ Len(t) = Len(s) - 1 /\ Len(s) \in Nat
      /\ \A i \in 1 .. Len(s) - 1 : t[i] = IF i < m THEN s[i] ELSE s[i + 1]
  <2>1. /\ RemoveAt(s, m) \in Seq(T) /\ Len(RemoveAt(s, m)) = Len(s) - 1
        /\ \A i \in 1 .. Len(s) - 1 : RemoveAt(s, m)[i] = IF i < m THEN s[i] ELSE s[i + 1]
    BY RemoveAtFacts
  <2> HIDE DEF t
  <2> QED BY <1>1, <2>1
<1> HIDE DEF t
<1>3. PICK j \in 1 .. Len(s) : j <= k /\ s[j] = x
  BY DEF Within
<1>4. CASE j < m
  <2>1. j \in 1 .. Len(t) /\ t[j] = x
    BY <1>2, <1>3, <1>4
  <2>2. NoDup(s) /\ Within(s, k, y) => j <= k - 1
    <3> SUFFICES ASSUME NoDup(s), NEW i \in 1 .. Len(s), i <= k, s[i] = y
                 PROVE  j <= k - 1
      BY DEF Within
    <3>1. i = m
      BY <1>1 DEF NoDup
    <3> QED BY <1>4, <3>1
  <2> QED BY <1>3, <2>1, <2>2 DEF Within, t
<1>5. CASE m < j
  <2>1. j - 1 \in 1 .. Len(t) /\ t[j - 1] = x /\ j - 1 <= k - 1 /\ j - 1 <= k
    BY <1>2, <1>3, <1>5
  <2> QED BY <2>1 DEF Within, t
<1> QED BY <1>1, <1>3, <1>4, <1>5

\* The record of no iteration.
LEMMA NoCurFacts == NoCur \in Numbers
<1>1. (CHOOSE r \in Reqs : TRUE) \in Reqs
  BY MMScheduleAssumption
<1> QED BY <1>1 DEF NoCur, Numbers

\* An iteration starts within the prompt and within what is left of the budgets.
LEMMA ConsiderNumbers ==
    ASSUME config \in Configs, tokens \in Nat, encBudget \in Nat,
           NEW r \in Reqs, NEW base \in Nat, base <= PromptLen[r], NEW src \in {"running", "waiting"},
           NEW c, c = Consider(r, base, src)
    PROVE  /\ c \in Numbers /\ c.r = r /\ c.src = src
           /\ c.n <= tokens /\ c.base + c.n <= PromptLen[r]
           /\ c.budget + SlotsOf(c.hashes) <= encBudget
<1>1. PromptLen[r] \in Nat /\ config.threshold \in Nat
  BY PromptFacts
<1>2. /\ Wanted(r, base) \in Nat /\ Wanted(r, base) <= tokens
      /\ base + Wanted(r, base) <= PromptLen[r]
  BY <1>1 DEF Wanted, Least
<1>3. /\ c.r = r /\ c.base = base /\ c.n = Wanted(r, base) /\ c.hashes = {}
      /\ c.budget = encBudget /\ c.src = src
  BY DEF Consider
<1>4. c \in Numbers
  BY <1>2 DEF Consider, Numbers
<1> QED BY <1>2, <1>3, <1>4, SlotsEmpty

\* The items loop gives out no more than the iteration had.
LEMMA ItemNumbers ==
    ASSUME SchedInv, LimitsInv, ItemLoop
    PROVE  /\ cur' \in Numbers /\ cur'.n <= tokens
           /\ cur'.base + cur'.n <= PromptLen[cur'.r]
           /\ cur'.budget + SlotsOf(cur'.hashes) <= encBudget
<1>0. /\ pc = "items" /\ cur \in Numbers /\ tokens \in Nat /\ encBudget \in Nat
      /\ cur.n <= tokens /\ cur.base + cur.n <= PromptLen[cur.r]
      /\ cur.budget + SlotsOf(cur.hashes) <= encBudget
  BY ItemLoopFrame DEF LimitsInv, NumbersInv, PromptInv, BudgetInv, AtCur
<1>1. /\ cur.r \in Reqs /\ cur.base \in Nat /\ cur.n \in Nat /\ cur.i \in Nat \ {0}
      /\ cur.hashes \in SUBSET Hashes /\ cur.budget \in Nat /\ cur.src \in {"running", "waiting"}
  BY <1>0 DEF Numbers
<1>2. PromptLen[cur.r] \in Nat
  BY <1>1, PromptFacts DEF SchedInv, TypesInv
<1>3. CASE cur' = [cur EXCEPT !.i = @ + 1]
  <2>1. cur' = [r |-> cur.r, base |-> cur.base, n |-> cur.n, i |-> cur.i + 1,
                hashes |-> cur.hashes, budget |-> cur.budget, src |-> cur.src]
    BY <1>0, <1>3 DEF Numbers
  <2>2. cur.i + 1 \in Nat \ {0}
    BY <1>1
  <2>3. cur' \in Numbers
    BY <1>1, <2>1, <2>2 DEF Numbers
  <2> QED BY <1>0, <2>1, <2>3
<1>4. CASE ItemRefused
  <2>1. AtItem /\ cur' = [cur EXCEPT !.n = IF cur.base < Item.off THEN Item.off - cur.base ELSE 0]
    BY <1>4 DEF ItemRefused, AtMiss, StopBeforeItem
  <2>2. Item.off \in Nat /\ Item.off < cur.base + cur.n
    BY <2>1, AtItemFacts DEF AtItem, ItemsLeft
  <2> DEFINE m == IF cur.base < Item.off THEN Item.off - cur.base ELSE 0
  <2>3. m \in Nat /\ m <= cur.n
    BY <1>1, <2>2
  <2>4. cur' = [cur EXCEPT !.n = m]
    BY <2>1
  <2> HIDE DEF m
  <2>5. cur' = [r |-> cur.r, base |-> cur.base, n |-> m, i |-> cur.i,
                hashes |-> cur.hashes, budget |-> cur.budget, src |-> cur.src]
    BY <1>0, <2>4 DEF Numbers
  <2>6. cur' \in Numbers
    BY <1>1, <2>3, <2>5 DEF Numbers
  <2>7. m <= tokens /\ cur.base + m <= PromptLen[cur.r]
    BY <1>0, <1>1, <1>2, <2>3
  <2> QED BY <1>0, <2>5, <2>6, <2>7
<1>5. CASE /\ ItemGranted
           /\ cur' = [cur EXCEPT !.i = @ + 1, !.hashes = @ \cup {Item.h},
                                 !.budget = @ - Size[Item.h]]
  <2> DEFINE h == Item.h
             z == Size[h]
  <2>1. AtItem /\ h \notin cur.hashes /\ z <= cur.budget
    BY <1>5, GrantFacts DEF ItemGranted, CanAllocate
  <2>2. h \in Hashes /\ z \in Nat
    BY <2>1, AtItemFacts
  <2>3. cur' = [cur EXCEPT !.i = @ + 1, !.hashes = @ \cup {h}, !.budget = @ - z]
    BY <1>5
  <2>4. SlotsOf({h}) = z
    BY <2>2, SlotsSingleton
  <2> HIDE DEF h, z
  <2>5. cur' = [r |-> cur.r, base |-> cur.base, n |-> cur.n, i |-> cur.i + 1,
                hashes |-> cur.hashes \cup {h}, budget |-> cur.budget - z, src |-> cur.src]
    BY <1>0, <2>3 DEF Numbers
  <2>6. cur.i + 1 \in Nat \ {0} /\ cur.budget - z \in Nat /\ cur.hashes \cup {h} \in SUBSET Hashes
    BY <1>1, <2>1, <2>2
  <2>7. cur' \in Numbers
    BY <1>1, <2>5, <2>6 DEF Numbers
  <2>8. SlotsOf(cur.hashes \cup {h}) = SlotsOf(cur.hashes) + z
    BY <1>1, <2>1, <2>2, <2>4, SlotsUnion
  <2>9. SlotsOf(cur.hashes) \in Nat
    BY <1>1, SlotsNat
  <2>10. (cur.budget - z) + SlotsOf(cur.hashes \cup {h}) <= encBudget
    BY <1>0, <1>1, <2>2, <2>8, <2>9
  <2> QED BY <1>0, <2>5, <2>7, <2>10
<1>6. CASE cur' = cur
  BY <1>0, <1>6
<1> QED BY <1>3, <1>4, <1>5, <1>6
        DEF ItemLoop, ItemSettled, ItemHit, ItemGranted, ItemsDone

\* Scheduling takes from the budgets what it puts into the step.
LEMMA ScheduleNumbers ==
    ASSUME SchedInv, LimitsInv, ScheduleRunning \/ ScheduleWaiting
    PROVE  /\ cur \in Numbers /\ pc = "place" /\ cur.base + cur.n <= PromptLen[cur.r]
           /\ kv' \in [Reqs -> Nat] /\ out'.n \in [Reqs -> Nat]
           /\ tokens' \in Nat /\ encBudget' \in Nat
           /\ IsFiniteSet(PerRequest(TokensOf(out'))) /\ IsFiniteSet(PerRequest(EmbedsOf(out')))
           /\ tokens' + StepTokens(out') <= TokenBudget
           /\ encBudget' + StepEmbeds(out') <= EncoderBudget
<1>0. /\ pc = "place" /\ Schedule /\ out' \in Outputs
      /\ \A r \in Reqs : /\ out'.n[r] = IF r = cur.r THEN cur.n ELSE out.n[r]
                         /\ out'.enc[r] = IF r = cur.r THEN cur.hashes ELSE out.enc[r]
  BY ScheduleFacts
<1>1. /\ cur \in Numbers /\ tokens \in Nat /\ encBudget \in Nat /\ kv \in [Reqs -> Nat]
      /\ out \in Outputs /\ out.n \in [Reqs -> Nat]
      /\ cur.n <= tokens /\ cur.base + cur.n <= PromptLen[cur.r]
      /\ cur.budget + SlotsOf(cur.hashes) <= encBudget
      /\ IsFiniteSet(PerRequest(TokensOf(out))) /\ IsFiniteSet(PerRequest(EmbedsOf(out)))
      /\ tokens + StepTokens(out) <= TokenBudget
      /\ encBudget + StepEmbeds(out) <= EncoderBudget
  BY <1>0 DEF LimitsInv, NumbersInv, PromptInv, BudgetInv, AtCur, Loops, SchedInv, TypesInv
<1>2. /\ cur.r \in Reqs /\ cur.base \in Nat /\ cur.n \in Nat /\ cur.hashes \in SUBSET Hashes
      /\ cur.budget \in Nat /\ SlotsOf(cur.hashes) \in Nat
  BY <1>1, SlotsNat DEF Numbers
<1>3. TokenBudget \in Nat /\ EncoderBudget \in Nat
  BY MMScheduleAssumption
<1>4. kv' \in [Reqs -> Nat]
  <2>1. kv' = [kv EXCEPT ![cur.r] = cur.base + cur.n] /\ cur.base + cur.n \in Nat
    BY <1>0, <1>2 DEF Schedule
  <2> QED BY <1>1, <1>2, <2>1
<1>5. out'.n \in [Reqs -> Nat]
  <2>1. out'.n \in [Reqs -> Int]
    BY <1>0 DEF Outputs
  <2>2. \A r \in Reqs : out'.n[r] \in Nat
    BY <1>0, <1>1, <1>2
  <2> QED BY <2>1, <2>2
<1>6. /\ IsFiniteSet(PerRequest(TokensOf(out'))) /\ IsFiniteSet(PerRequest(EmbedsOf(out')))
      /\ StepTokens(out) \in Nat /\ StepTokens(out') \in Nat
      /\ StepEmbeds(out) \in Nat /\ StepEmbeds(out') \in Nat
      /\ StepTokens(out') <= StepTokens(out) + cur.n
      /\ StepEmbeds(out') <= StepEmbeds(out) + SlotsOf(cur.hashes)
  <2> DEFINE v == cur.r
             n == cur.n
             H == cur.hashes
             p == out'
  <2>1. /\ v \in Reqs /\ n \in Nat /\ H \in SUBSET Hashes /\ p \in Outputs
        /\ \A r \in Reqs : /\ p.n[r] = IF r = v THEN n ELSE out.n[r]
                           /\ p.enc[r] = IF r = v THEN H ELSE out.enc[r]
    BY <1>0, <1>2
  <2> HIDE DEF v, n, H, p
  <2>2. /\ IsFiniteSet(PerRequest(TokensOf(p))) /\ IsFiniteSet(PerRequest(EmbedsOf(p)))
        /\ StepTokens(out) \in Nat /\ StepTokens(p) \in Nat
        /\ StepEmbeds(out) \in Nat /\ StepEmbeds(p) \in Nat
        /\ StepTokens(p) <= StepTokens(out) + n
        /\ StepEmbeds(p) <= StepEmbeds(out) + SlotsOf(H)
    BY <1>1, <2>1, StepMore
  <2> QED BY <2>2 DEF v, n, H, p
<1>7. tokens' = tokens - cur.n /\ encBudget' = IF cur.hashes = {} THEN encBudget ELSE cur.budget
  BY <1>0 DEF Schedule
<1>8. tokens' \in Nat /\ tokens' + StepTokens(out') <= TokenBudget
  BY <1>1, <1>2, <1>3, <1>6, <1>7
<1>9. encBudget' \in Nat /\ encBudget' + StepEmbeds(out') <= EncoderBudget
  <2>1. CASE cur.hashes = {}
    <3>1. SlotsOf(cur.hashes) = 0
      BY <2>1, SlotsEmpty
    <3> QED BY <1>1, <1>3, <1>6, <1>7, <2>1, <3>1
  <2>2. CASE cur.hashes # {}
    BY <1>1, <1>2, <1>3, <1>6, <1>7, <2>2
  <2> QED BY <2>1, <2>2
<1> QED BY <1>0, <1>1, <1>4, <1>5, <1>6, <1>8, <1>9

\* A preemption gives back exactly what the victim had of this step.
LEMMA PreemptNumbers ==
    ASSUME SchedInv, LimitsInv, Preempt
    PROVE  /\ computed' \in [Reqs -> Nat] /\ kv' \in [Reqs -> Nat] /\ out'.n \in [Reqs -> Nat]
           /\ \A r \in Reqs : computed'[r] = IF r = Victim THEN 0 ELSE computed[r]
           /\ \A r \in Reqs : out'.n[r] <= out.n[r]
           /\ tokens' \in Nat /\ encBudget' \in Nat
           /\ tokens <= tokens' /\ encBudget <= encBudget'
           /\ IsFiniteSet(PerRequest(TokensOf(out'))) /\ IsFiniteSet(PerRequest(EmbedsOf(out')))
           /\ tokens' + StepTokens(out') <= TokenBudget
           /\ encBudget' + StepEmbeds(out') <= EncoderBudget
<1>0. pc = "place" /\ Victim \in Reqs /\ Unschedule(Victim)
  BY PreemptFacts DEF Preempt
<1>1. /\ tokens \in Nat /\ encBudget \in Nat /\ kv \in [Reqs -> Nat] /\ computed \in [Reqs -> Nat]
      /\ out \in Outputs /\ out.n \in [Reqs -> Nat]
      /\ IsFiniteSet(PerRequest(TokensOf(out))) /\ IsFiniteSet(PerRequest(EmbedsOf(out)))
      /\ tokens + StepTokens(out) <= TokenBudget
      /\ encBudget + StepEmbeds(out) <= EncoderBudget
  BY <1>0 DEF LimitsInv, NumbersInv, PromptInv, BudgetInv, Loops, SchedInv, TypesInv
<1>2. /\ computed' = [computed EXCEPT ![Victim] = 0] /\ kv' = [kv EXCEPT ![Victim] = 0]
  BY DEF Preempt
<1>3. /\ computed' \in [Reqs -> Nat] /\ kv' \in [Reqs -> Nat]
      /\ \A r \in Reqs : computed'[r] = IF r = Victim THEN 0 ELSE computed[r]
  BY <1>0, <1>1, <1>2
<1>4. TokenBudget \in Nat /\ EncoderBudget \in Nat
  BY MMScheduleAssumption
<1>5. CASE UNCHANGED <<out, tokens, encBudget>>
  BY <1>1, <1>3, <1>5
<1>6. CASE /\ out' = [out EXCEPT !.order = RemoveFirst(@, Victim), !.n[Victim] = 0, !.enc[Victim] = {}]
           /\ tokens' = tokens + out.n[Victim]
           /\ encBudget' = encBudget + SlotsOf(out.enc[Victim])
  <2> DEFINE v == Victim
             p == out'
  <2>1. /\ v \in Reqs
        /\ p = [out EXCEPT !.order = RemoveFirst(@, v), !.n[v] = 0, !.enc[v] = {}]
        /\ tokens' = tokens + out.n[v] /\ encBudget' = encBudget + SlotsOf(out.enc[v])
    BY <1>0, <1>6
  <2> HIDE DEF v, p
  <2>2. p.n = [out.n EXCEPT ![v] = 0] /\ p.enc = [out.enc EXCEPT ![v] = {}]
    BY <1>1, <2>1 DEF Outputs
  <2>3. p \in Outputs
    BY PreemptFacts DEF p
  <2>4. /\ out.enc \in [Reqs -> SUBSET Hashes] /\ out.enc[v] \in SUBSET Hashes /\ out.n[v] \in Nat
    BY <1>1, <2>1 DEF Outputs
  <2>5. \A r \in Reqs : /\ p.n[r] = IF r = v THEN 0 ELSE out.n[r]
                        /\ p.enc[r] = IF r = v THEN {} ELSE out.enc[r]
    BY <1>1, <2>1, <2>2, <2>4
  <2>6. /\ IsFiniteSet(PerRequest(TokensOf(p))) /\ IsFiniteSet(PerRequest(EmbedsOf(p)))
        /\ StepTokens(out) \in Nat /\ StepTokens(p) \in Nat
        /\ StepEmbeds(out) \in Nat /\ StepEmbeds(p) \in Nat
        /\ StepTokens(p) + out.n[v] = StepTokens(out)
        /\ StepEmbeds(p) + SlotsOf(out.enc[v]) = StepEmbeds(out)
    <3>1. /\ v \in Reqs /\ out \in Outputs /\ p \in Outputs /\ out.n[v] \in Nat
          /\ IsFiniteSet(PerRequest(TokensOf(out))) /\ IsFiniteSet(PerRequest(EmbedsOf(out)))
      BY <1>1, <2>1, <2>4, <2>3
    <3> QED BY <2>5, <3>1, StepLess
  <2>7. SlotsOf(out.enc[v]) \in Nat
    BY <2>4, SlotsNat
  <2>8. tokens' \in Nat /\ tokens <= tokens' /\ tokens' + StepTokens(p) <= TokenBudget
    BY <1>1, <1>4, <2>1, <2>4, <2>6
  <2>9. encBudget' \in Nat /\ encBudget <= encBudget' /\ encBudget' + StepEmbeds(p) <= EncoderBudget
    BY <1>1, <1>4, <2>1, <2>6, <2>7
  <2>10. p.n \in [Reqs -> Nat] /\ \A r \in Reqs : p.n[r] <= out.n[r]
    BY <1>1, <2>1, <2>2, <2>5
  <2> QED BY <1>3, <2>6, <2>8, <2>9, <2>10 DEF p
<1> QED BY <1>0, <1>5, <1>6 DEF Unschedule

\* The request a new iteration is about, and where it starts.
LEMMA RunningNextNumbers ==
    ASSUME SchedInv, LimitsInv, RunningNext
    PROVE  /\ cur' \in Numbers /\ cur'.n <= tokens /\ cur'.base + cur'.n <= PromptLen[cur'.r]
           /\ cur'.budget + SlotsOf(cur'.hashes) <= encBudget
           /\ cur'.r = running[idx] /\ cur'.src = "running" /\ idx \in 1 .. Len(running)
<1>0. idx \in 1 .. Len(running) /\ running \in Seq(Reqs) /\ config \in Configs
  BY DEF RunningNext, SchedInv, TypesInv
<1> DEFINE r == running[idx]
<1>1. r \in Reqs
  BY <1>0
<1>2. /\ computed[r] \in Nat /\ computed[r] <= PromptLen[r] /\ tokens \in Nat /\ encBudget \in Nat
  BY <1>1 DEF LimitsInv, NumbersInv, PromptInv
<1>3. cur' = Consider(r, computed[r], "running")
  BY DEF RunningNext
<1> HIDE DEF r
<1>4. /\ cur' \in Numbers /\ cur'.r = r /\ cur'.src = "running"
      /\ cur'.n <= tokens /\ cur'.base + cur'.n <= PromptLen[r]
      /\ cur'.budget + SlotsOf(cur'.hashes) <= encBudget
  BY <1>0, <1>1, <1>2, <1>3, ConsiderNumbers
<1> QED BY <1>0, <1>4 DEF r

\* The same from the waiting queue.
LEMMA WaitingNextNumbers ==
    ASSUME SchedInv, LimitsInv, WaitingNext
    PROVE  /\ cur' \in Numbers /\ cur'.n <= tokens /\ cur'.base + cur'.n <= PromptLen[cur'.r]
           /\ cur'.budget + SlotsOf(cur'.hashes) <= encBudget
           /\ cur'.r \in Elems(waiting) /\ cur'.r \in Reqs /\ cur'.src = "waiting"
<1>0. config \in Configs /\ tokens \in Nat /\ encBudget \in Nat
  BY DEF SchedInv, TypesInv, LimitsInv, NumbersInv
<1> DEFINE r == FirstWaiting
<1>1. r \in Reqs /\ r \in Elems(waiting)
  BY FirstIsWaiting DEF WaitingNext, SchedInv, TypesInv
<1>2. PICK hit \in config.hits[r] : cur' = Consider(r, hit, "waiting")
  BY DEF WaitingNext
<1> HIDE DEF r
<1>3. hit \in Nat /\ hit <= PromptLen[r]
  BY <1>0, <1>1, <1>2, PromptFacts
<1>4. /\ cur' \in Numbers /\ cur'.r = r /\ cur'.src = "waiting"
      /\ cur'.n <= tokens /\ cur'.base + cur'.n <= PromptLen[r]
      /\ cur'.budget + SlotsOf(cur'.hashes) <= encBudget
  BY <1>0, <1>1, <1>2, <1>3, ConsiderNumbers
<1> QED BY <1>1, <1>4

\* The steps that only move the engine on, or that are not the engine's.
Moves ==
    \/ RunningDone \/ SkipRunning \/ WaitingDone \/ SkipWaiting \/ RefuseWaiting
    \/ AwaitLast \/ TakeResult \/ OutputDone \/ WorkerExecute \/ ResetEncoderCache
    \/ \E r \in Reqs : AddRequest(r) \/ Abort(r)
    \/ UpdateFromOutput
LEMMA MovesFrame ==
    ASSUME SchedInv, Moves
    PROVE  /\ UNCHANGED <<computed, tokens, encBudget, preempting, cur, out>>
           /\ \/ UNCHANGED <<kv, finished>>
              \/ \E r \in Reqs : /\ kv' = [kv EXCEPT ![r] = 0] /\ finished' = finished \cup {r}
           /\ ~AtCur' \/ WorkerExecute
           /\ \/ pc \in Loops /\ pc' \in Loops
              \/ pc = "after" /\ pc' = "after" /\ idx' = idx
              \/ pc \notin Loops \cup {"after"} /\ pc' \notin Loops \cup {"after"}
           /\ pc' \in {"running", "waiting", "commit", "await", "output", "idle", pc}
<1> USE DEF schedVars, loopVars, queueVars, AtCur, Loops
<1>1. CASE RunningDone \/ SkipRunning \/ WaitingDone \/ SkipWaiting \/ RefuseWaiting
  BY <1>1 DEF RunningDone, SkipRunning, WaitingDone, SkipWaiting, RefuseWaiting
<1>2. CASE AwaitLast \/ TakeResult \/ OutputDone \/ ResetEncoderCache
  BY <1>2 DEF AwaitLast, TakeResult, OutputDone, ResetEncoderCache
<1>3. CASE WorkerExecute
  BY <1>3 DEF WorkerExecute
<1>4. CASE \E r \in Reqs : AddRequest(r)
  BY <1>4 DEF AddRequest
<1>5. CASE \E r \in Reqs : Abort(r)
  BY <1>5 DEF Abort, FreeRequest
<1>6. CASE UpdateFromOutput
  <2>1. /\ UNCHANGED <<pc, tokens, encBudget, preempting, cur, out>> /\ pc = "output"
    BY <1>6 DEF UpdateFromOutput
  <2>2. UNCHANGED <<ecVars, schedVars>> \/ \E r \in Reqs : FreeRequest(r)
    BY <1>6, OutputRequest
  <2>3. CASE UNCHANGED <<ecVars, schedVars>>
    BY <2>1, <2>3
  <2>4. CASE \E r \in Reqs : FreeRequest(r)
    BY <2>1, <2>4 DEF FreeRequest
  <2> QED BY <2>2, <2>3, <2>4
<1> QED BY <1>1, <1>2, <1>3, <1>4, <1>5, <1>6 DEF Moves

\* Every step is one of these.
LEMMA StepKinds ==
    ASSUME MMNext
    PROVE  /\ UNCHANGED config
           /\ \/ Moves \/ BeginSchedule \/ RunningNext \/ WaitingNext \/ ItemLoop
              \/ ScheduleRunning \/ ScheduleWaiting \/ Preempt
              \/ Commit \/ UpdateAfterSchedule \/ Submit
BY DEF MMNext, Outside, EngineStep, WorkerStep, Moves

\* The request whose tokens _update_after_schedule counts.
LEMMA UpdateNumbers ==
    ASSUME SchedInv, LimitsInv, UpdateAfterSchedule
    PROVE  /\ idx \in 1 .. Len(out.order) /\ out.order[idx] \in Reqs
           /\ computed' = [computed EXCEPT ![out.order[idx]] =
                              computed[out.order[idx]] + out.n[out.order[idx]]]
           /\ computed[out.order[idx]] + out.n[out.order[idx]] \in Nat
           /\ computed[out.order[idx]] + out.n[out.order[idx]] <= PromptLen[out.order[idx]]
<1>0. idx \in 1 .. Len(out.order) /\ out.order \in Seq(Reqs) /\ pc = "after"
  BY DEF UpdateAfterSchedule, SchedInv, TypesInv, Outputs
<1> DEFINE r == out.order[idx]
<1>1. r \in Reqs
  BY <1>0
<1>2. ToUpdate(r)
  BY <1>0 DEF ToUpdate
<1>3. computed' = [computed EXCEPT ![r] = computed[r] + out.n[r]]
  BY DEF UpdateAfterSchedule
<1> HIDE DEF r
<1>4. computed[r] + out.n[r] \in Nat /\ computed[r] + out.n[r] <= PromptLen[r]
  BY <1>1, <1>2 DEF LimitsInv, NumbersInv, PromptInv
<1> QED BY <1>0, <1>1, <1>3, <1>4 DEF r

-----------------------------------------------------------------------------
(* Budgets: the invariant is kept.                                         *)

\* The numbers stay natural after any step.
LEMMA NumbersNext ==
    ASSUME SchedInv, LimitsInv, MMNext
    PROVE  NumbersInv'
<1>0. NumbersInv
  BY DEF LimitsInv
<1> USE DEF NumbersInv
<1>1. CASE Moves
  <2>1. /\ UNCHANGED <<computed, tokens, encBudget, preempting, cur, out>>
        /\ pc' \in {"running", "waiting", "commit", "await", "output", "idle", pc}
    BY <1>1, MovesFrame
  <2>2. kv' \in [Reqs -> Nat] /\ finished' \subseteq Reqs
    <3>1. \/ UNCHANGED <<kv, finished>>
          \/ \E r \in Reqs : kv' = [kv EXCEPT ![r] = 0] /\ finished' = finished \cup {r}
      BY <1>1, MovesFrame
    <3> QED BY <1>0, <3>1
  <2> QED BY <1>0, <2>1, <2>2
<1>2. CASE BeginSchedule
  <2>1. NoOut.n \in [Reqs -> Nat]
    BY DEF NoOut
  <2>2. TokenBudget \in Nat /\ EncoderBudget \in Nat
    BY MMScheduleAssumption
  <2> QED BY <1>0, <1>2, <2>1, <2>2, NoCurFacts DEF BeginSchedule, schedVars
<1>3. CASE RunningNext
  <2>1. cur' \in Numbers
    BY <1>3, RunningNextNumbers
  <2> QED BY <1>0, <1>3, <2>1 DEF RunningNext, schedVars
<1>4. CASE WaitingNext
  <2>1. cur' \in Numbers
    BY <1>4, WaitingNextNumbers
  <2> QED BY <1>0, <1>4, <2>1 DEF WaitingNext, schedVars
<1>5. CASE ItemLoop
  <2>1. cur' \in Numbers
    BY <1>5, ItemNumbers
  <2>2. UNCHANGED <<schedVars, tokens, encBudget, preempting, out>> /\ pc' \in {"items", "place"}
    BY <1>5, ItemLoopFrame
  <2> QED BY <1>0, <2>1, <2>2 DEF schedVars
<1>6. CASE ScheduleRunning \/ ScheduleWaiting
  <2>1. /\ cur \in Numbers /\ kv' \in [Reqs -> Nat] /\ out'.n \in [Reqs -> Nat]
        /\ tokens' \in Nat /\ encBudget' \in Nat
    BY <1>6, ScheduleNumbers
  <2>2. /\ UNCHANGED <<finished, preempting, cur>> /\ pc' \in {"running", "waiting"}
        /\ computed' = computed \/ computed' = [computed EXCEPT ![cur.r] = cur.base]
    BY <1>6 DEF ScheduleRunning, ScheduleWaiting
  <2>3. computed' \in [Reqs -> Nat]
    BY <1>0, <2>1, <2>2 DEF Numbers
  <2> QED BY <1>0, <2>1, <2>2, <2>3
<1>7. CASE Preempt
  <2>1. /\ UNCHANGED <<finished, cur>> /\ preempting' = TRUE /\ pc' \in {"commit", "place"}
    BY <1>7 DEF Preempt
  <2> QED BY <1>0, <1>7, <2>1, PreemptNumbers
<1>8. CASE Commit
  <2>1. out'.n = out.n
    BY <1>8 DEF Commit, SchedInv, TypesInv, Outputs
  <2> QED BY <1>0, <1>8, <2>1 DEF Commit, schedVars
<1>9. CASE UpdateAfterSchedule
  <2>1. computed' \in [Reqs -> Nat]
    <3> DEFINE r == out.order[idx]
               k == computed[r] + out.n[r]
    <3>1. r \in Reqs /\ k \in Nat /\ computed' = [computed EXCEPT ![r] = k]
      BY <1>9, UpdateNumbers
    <3> HIDE DEF r, k
    <3> QED BY <1>0, <3>1
  <2> QED BY <1>0, <1>9, <2>1 DEF UpdateAfterSchedule
<1>10. CASE Submit
  <2>1. NoOut.n \in [Reqs -> Nat]
    BY DEF NoOut
  <2> QED BY <1>0, <1>10, <2>1, NoCurFacts DEF Submit
<1> QED BY <1>1, <1>2, <1>3, <1>4, <1>5, <1>6, <1>7, <1>8, <1>9, <1>10, StepKinds

\* No request gets tokens beyond its prompt, after any step.
LEMMA PromptNext ==
    ASSUME SchedInv, LimitsInv, MMNext
    PROVE  PromptInv'
<1>0. /\ PromptInv /\ NumbersInv /\ PromptLen' = PromptLen
      /\ \A r \in Reqs : computed[r] \in Nat /\ out.n[r] \in Nat /\ PromptLen[r] \in Nat
  BY StepKinds, PromptFacts DEF LimitsInv, NumbersInv, PromptLen, SchedInv, TypesInv
<1>1. ASSUME UNCHANGED <<computed, out>>, pc \in Loops, pc' \in Loops,
             AtCur' => cur'.base + cur'.n <= PromptLen[cur'.r]
      PROVE  PromptInv'
  BY <1>0, <1>1 DEF PromptInv
<1>2. CASE Moves
  <2>1. /\ UNCHANGED <<computed, out, cur>> /\ (~AtCur' \/ WorkerExecute)
        /\ \/ pc \in Loops /\ pc' \in Loops
           \/ pc = "after" /\ pc' = "after" /\ idx' = idx
           \/ pc \notin Loops \cup {"after"} /\ pc' \notin Loops \cup {"after"}
    BY <1>2, MovesFrame
  <2>2. AtCur' => cur'.base + cur'.n <= PromptLen[cur'.r]
    <3>1. WorkerExecute => UNCHANGED <<pc, cur>>
      BY DEF WorkerExecute, loopVars
    <3> QED BY <1>0, <2>1, <3>1 DEF PromptInv, AtCur
  <2>3. CASE pc \in Loops /\ pc' \in Loops
    BY <1>1, <2>1, <2>2, <2>3
  <2>4. CASE pc = "after" /\ pc' = "after" /\ idx' = idx
    BY <1>0, <2>1, <2>2, <2>4 DEF PromptInv, ToUpdate, Loops
  <2>5. CASE pc' \notin Loops \cup {"after"}
    BY <1>0, <2>1, <2>2, <2>5 DEF PromptInv, ToUpdate
  <2> QED BY <2>1, <2>3, <2>4, <2>5
<1>3. CASE BeginSchedule
  <2>1. /\ out' = NoOut /\ computed' = computed /\ pc' = "running"
    BY <1>3 DEF BeginSchedule, schedVars
  <2>2. \A r \in Reqs : computed'[r] + out'.n[r] <= PromptLen[r]
    BY <1>0, <2>1, NoOutFacts DEF PromptInv
  <2> QED BY <1>0, <2>1, <2>2 DEF PromptInv, AtCur
<1>4. CASE RunningNext
  <2>1. UNCHANGED <<computed, out>> /\ pc \in Loops /\ pc' \in Loops
    BY <1>4 DEF RunningNext, schedVars, Loops
  <2> QED BY <1>1, <1>4, <2>1, RunningNextNumbers
<1>5. CASE WaitingNext
  <2>1. UNCHANGED <<computed, out>> /\ pc \in Loops /\ pc' \in Loops
    BY <1>5 DEF WaitingNext, schedVars, Loops
  <2> QED BY <1>1, <1>5, <2>1, WaitingNextNumbers
<1>6. CASE ItemLoop
  <2>1. UNCHANGED <<computed, out>> /\ pc \in Loops /\ pc' \in Loops
    BY <1>6, ItemLoopFrame DEF schedVars, Loops
  <2> QED BY <1>1, <1>6, <2>1, ItemNumbers
<1>7. CASE ScheduleRunning \/ ScheduleWaiting
  <2>1. /\ cur \in Numbers /\ pc = "place" /\ cur.base + cur.n <= PromptLen[cur.r]
    BY <1>7, ScheduleNumbers
  <2>2. cur.r \in Reqs /\ cur.base \in Nat /\ cur.n \in Nat
    BY <2>1 DEF Numbers
  <2>3. \A r \in Reqs : out'.n[r] = IF r = cur.r THEN cur.n ELSE out.n[r]
    BY <1>7, ScheduleFacts
  <2>4. \A r \in Reqs : computed'[r] = IF r = cur.r THEN cur.base ELSE computed[r]
    <3>1. CASE ScheduleRunning
      <4>1. computed' = computed /\ cur.base = computed[cur.r]
        BY <2>1, <3>1 DEF ScheduleRunning, SchedInv, CurInv, AtCur
      <4> QED BY <4>1
    <3>2. CASE ScheduleWaiting
      BY <1>0, <2>2, <3>2 DEF ScheduleWaiting, NumbersInv
    <3> QED BY <1>7, <3>1, <3>2
  <2>5. pc \in Loops /\ pc' \in {"running", "waiting"}
    BY <1>7, <2>1 DEF ScheduleRunning, ScheduleWaiting, Loops
  <2>6. \A r \in Reqs : computed[r] + out.n[r] <= PromptLen[r]
    BY <1>0, <2>5 DEF PromptInv
  <2>7. ASSUME NEW r \in Reqs
        PROVE  computed'[r] <= PromptLen[r] /\ computed'[r] + out'.n[r] <= PromptLen[r]
    BY <1>0, <2>1, <2>2, <2>3, <2>4, <2>6
  <2> QED BY <1>0, <2>5, <2>7 DEF PromptInv, AtCur
<1>8. CASE Preempt
  <2>1. /\ pc = "place" /\ pc' \in {"place", "commit"} /\ cur' = cur
    BY <1>8 DEF Preempt
  <2>2. \A r \in Reqs : /\ computed'[r] = IF r = Victim THEN 0 ELSE computed[r]
                        /\ out'.n[r] <= out.n[r] /\ out'.n[r] \in Nat
    BY <1>8, PreemptNumbers
  <2>3. \A r \in Reqs : computed[r] + out.n[r] <= PromptLen[r]
    BY <1>0, <2>1 DEF PromptInv, Loops
  <2>4. ASSUME NEW r \in Reqs
        PROVE  computed'[r] <= PromptLen[r] /\ computed'[r] + out'.n[r] <= PromptLen[r]
    BY <1>0, <2>2, <2>3
  <2>5. cur.base + cur.n <= PromptLen[cur.r]
    BY <1>0, <2>1 DEF PromptInv, AtCur
  <2> QED BY <1>0, <2>1, <2>4, <2>5 DEF PromptInv
<1>9. CASE Commit
  <2>1. out'.n = out.n /\ computed' = computed /\ pc = "commit" /\ pc' = "after"
    BY <1>9 DEF Commit, SchedInv, TypesInv, Outputs, schedVars
  <2> QED BY <1>0, <2>1 DEF PromptInv, AtCur, Loops
<1>10. CASE UpdateAfterSchedule
  <2> DEFINE r == out.order[idx]
             k == computed[r] + out.n[r]
  <2>1. /\ r \in Reqs /\ k \in Nat /\ computed' = [computed EXCEPT ![r] = k]
        /\ k <= PromptLen[r] /\ idx \in 1 .. Len(out.order)
    BY <1>10, UpdateNumbers
  <2>2. /\ pc = "after" /\ pc' = "after" /\ out' = out /\ idx' = idx + 1 /\ NoDup(out.order)
        /\ idx \in Nat /\ Len(out.order) \in Nat
    BY <1>10 DEF UpdateAfterSchedule, LimitsInv, OnceInv, SchedInv, TypesInv, Outputs
  <2>3. ASSUME NEW q \in Reqs, ToUpdate(q)' PROVE q # r /\ ToUpdate(q)
    <3>1. PICK j \in 1 .. Len(out.order) : idx + 1 <= j /\ out.order[j] = q
      BY <2>2, <2>3 DEF ToUpdate, Loops
    <3>2. j # idx /\ idx <= j
      BY <2>2, <3>1
    <3>3. out.order[j] # out.order[idx]
      BY <2>1, <2>2, <3>2 DEF NoDup
    <3> QED BY <2>2, <3>1, <3>2, <3>3 DEF ToUpdate
  <2> HIDE DEF r, k
  <2>4. \A q \in Reqs : computed'[q] = IF q = r THEN k ELSE computed[q]
    BY <1>0, <2>1 DEF NumbersInv
  <2>5. \A q \in Reqs : computed'[q] <= PromptLen[q]
    BY <1>0, <2>1, <2>4 DEF PromptInv
  <2>6. \A q \in Reqs : ToUpdate(q)' => computed'[q] + out'.n[q] <= PromptLen[q]
    BY <1>0, <2>2, <2>3, <2>4 DEF PromptInv
  <2> QED BY <1>0, <2>2, <2>5, <2>6 DEF PromptInv, AtCur, Loops
<1>11. CASE Submit
  <2>1. computed' = computed /\ pc' \in {"idle", "await"}
    BY <1>11 DEF Submit
  <2> QED BY <1>0, <2>1 DEF PromptInv, AtCur, Loops, ToUpdate
<1> QED BY <1>2, <1>3, <1>4, <1>5, <1>6, <1>7, <1>8, <1>9, <1>10, <1>11, StepKinds

\* A request is in a step once, after any step.
LEMMA OnceNext ==
    ASSUME SchedInv, FcfsInv, LimitsInv, MMNext
    PROVE  OnceInv'
<1>0. /\ OnceInv /\ idx \in Nat \ {0} /\ out \in Outputs /\ out.order \in Seq(Reqs)
      /\ running \in Seq(Reqs) /\ Len(running) \in Nat /\ NoDup(running)
  BY DEF LimitsInv, SchedInv, TypesInv, QueuesInv, Outputs
<1>1. CASE Moves /\ pc \in Loops /\ ~WorkerExecute
  <2>1. out' = out /\ ~AtCur' /\ cur' = cur
    BY <1>1, MovesFrame
  <2>2. UNCHANGED running
    BY <1>1 DEF Moves, Loops, RunningDone, SkipRunning, WaitingDone, SkipWaiting, RefuseWaiting,
                AwaitLast, TakeResult, OutputDone, ResetEncoderCache, AddRequest, Abort,
                UpdateFromOutput, schedVars
  <2>3. pc' = "running" => SkipRunning
    BY <1>1 DEF Moves, Loops, RunningDone, SkipRunning, WaitingDone, SkipWaiting, RefuseWaiting,
                AwaitLast, TakeResult, OutputDone, ResetEncoderCache, AddRequest, Abort,
                UpdateFromOutput, loopVars
  <2>4. SkipRunning => idx' = idx + 1 /\ InRunningLoop
    BY DEF SkipRunning, InRunningLoop, AtCur
  <2>5. \A r : Within(running, idx - 1, r) => Within(running, (idx + 1) - 1, r)
    BY <1>0 DEF Within
  <2>6. InRunningLoop' => \A r \in Elems(out.order) : Within(running, idx' - 1, r)
    BY <1>0, <2>1, <2>3, <2>4, <2>5 DEF OnceInv, InRunningLoop
  <2> QED BY <1>0, <1>1, <2>1, <2>2, <2>6 DEF OnceInv
<1>2. CASE WorkerExecute
  <2>1. UNCHANGED <<pc, idx, cur, out, running>>
    BY <1>2 DEF WorkerExecute, loopVars, schedVars
  <2> QED BY <1>0, <2>1 DEF OnceInv, InRunningLoop, AtCur
<1>3. CASE Moves /\ pc \notin Loops /\ ~WorkerExecute
  <2>1. /\ out' = out /\ ~AtCur'
        /\ pc' \in Loops => FALSE
        /\ pc' = "after" => pc = "after"
    BY <1>3, MovesFrame DEF Loops
  <2> QED BY <1>0, <2>1 DEF OnceInv, InRunningLoop, Loops
<1>4. CASE BeginSchedule
  <2>1. out' = NoOut /\ pc' = "running" /\ NoOut.order = <<>> /\ Elems(NoOut.order) = {}
    BY <1>4, NoOutFacts DEF BeginSchedule
  <2>2. NoDup(NoOut.order)
    BY <2>1 DEF NoDup
  <2> QED BY <2>1, <2>2 DEF OnceInv, AtCur
<1>5. CASE RunningNext
  <2>1. cur'.r = running[idx] /\ cur'.src = "running" /\ idx \in 1 .. Len(running)
    BY <1>5, RunningNextNumbers
  <2>2. UNCHANGED <<idx, out, running>> /\ pc = "running" /\ pc' \in {"items", "place"}
    BY <1>5 DEF RunningNext, schedVars
  <2>3. Within(running, idx, running[idx])
    BY <1>0, <2>1 DEF Within
  <2>4. running[idx] \notin Elems(out.order)
    <3> SUFFICES ASSUME running[idx] \in Elems(out.order) PROVE FALSE
      OBVIOUS
    <3>1. Within(running, idx - 1, running[idx])
      BY <1>0, <2>2 DEF OnceInv, InRunningLoop
    <3>2. PICK j \in 1 .. Len(running) : j <= idx - 1 /\ running[j] = running[idx]
      BY <3>1 DEF Within
    <3>3. j = idx
      BY <1>0, <2>1, <3>2 DEF NoDup
    <3> QED BY <1>0, <3>2, <3>3
  <2> QED BY <1>0, <2>1, <2>2, <2>3, <2>4 DEF OnceInv, InRunningLoop, AtCur, Loops
<1>6. CASE WaitingNext
  <2>1. cur'.r \in Elems(waiting) /\ cur'.r \in Reqs /\ cur'.src = "waiting"
    BY <1>6, WaitingNextNumbers
  <2>2. cur'.r \notin Elems(running)
    BY <2>1 DEF SchedInv, QueuesInv
  <2>3. UNCHANGED <<idx, out, running>> /\ pc = "waiting" /\ pc' = "items"
    BY <1>6 DEF WaitingNext, schedVars
  <2> QED BY <1>0, <2>1, <2>2, <2>3 DEF OnceInv, InRunningLoop, AtCur, Loops
<1>7. CASE ItemLoop
  <2>1. /\ UNCHANGED <<idx, out, running>> /\ pc = "items" /\ pc' \in {"items", "place"}
        /\ cur'.r = cur.r /\ cur'.src = cur.src
    BY <1>7, ItemLoopFrame DEF schedVars
  <2> QED BY <1>0, <2>1 DEF OnceInv, InRunningLoop, AtCur, Loops
<1>8. CASE ScheduleRunning \/ ScheduleWaiting
  <2>1. /\ pc = "place" /\ cur.n > 0 /\ cur.r \in Reqs /\ Schedule /\ out'.order = Append(out.order, cur.r)
        /\ Elems(out'.order) = Elems(out.order) \cup {cur.r}
        /\ \A r \in Reqs : out'.n[r] = IF r = cur.r THEN cur.n ELSE out.n[r]
    <3>1. Schedule
      BY <1>8, ScheduleFacts
    <3>2. out'.order = Append(out.order, cur.r)
      BY <1>0, <3>1 DEF Schedule, Outputs
    <3> QED BY <1>8, <3>1, <3>2, ScheduleFacts
  <2>2. cur.r \notin Elems(out.order) /\ NoDup(out.order)
    BY <1>0, <2>1 DEF OnceInv, AtCur, Loops
  <2>3. NoDup(out'.order)
    BY <1>0, <2>1, <2>2, AppendFacts
  <2>4. /\ Elems(running) \subseteq Elems(running') /\ cur.r \in Elems(running')
        /\ pc' \in {"running", "waiting"}
    <3>1. CASE ScheduleRunning
      BY <2>1, <3>1 DEF ScheduleRunning, SchedInv, CurInv, AtCur
    <3>2. CASE ScheduleWaiting
      BY <3>2, QueuesAdmit DEF ScheduleWaiting
    <3> QED BY <1>8, <3>1, <3>2
  <2>5. \A r \in Elems(out.order) : r \in Reqs /\ out.n[r] > 0 /\ r \in Elems(running)
    BY <1>0, <2>1 DEF OnceInv, Loops, Elems
  <2>6. \A r \in Elems(out'.order) : out'.n[r] > 0 /\ r \in Elems(running')
    BY <2>1, <2>4, <2>5
  <2>7. ASSUME pc' = "running" PROVE \A r \in Elems(out'.order) : Within(running', idx' - 1, r)
    <3>1. /\ running' = running /\ idx' = idx + 1 /\ cur.src = "running"
      BY <1>8, <2>7 DEF ScheduleRunning, ScheduleWaiting
    <3>2. /\ Within(running, idx, cur.r)
          /\ \A r \in Elems(out.order) : Within(running, idx - 1, r)
      BY <1>0, <2>1, <3>1 DEF OnceInv, InRunningLoop, AtCur
    <3>3. \A r : Within(running, idx - 1, r) => Within(running, idx, r)
      BY <1>0 DEF Within
    <3>4. idx' - 1 = idx
      BY <1>0, <3>1
    <3> QED BY <2>1, <3>1, <3>2, <3>3, <3>4
  <2> QED BY <2>3, <2>4, <2>6, <2>7 DEF OnceInv, InRunningLoop, AtCur
<1>9. CASE Preempt
  <2> DEFINE v == Victim
  <2>1. /\ pc = "place" /\ cur.src = "running" /\ v \in Elems(running) /\ v \in Reqs
        /\ Elems(out'.order) \subseteq Elems(out.order)
        /\ running' = RemoveFirst(running, v) /\ cur' = cur
        /\ pc' = "commit" \/ (pc' = "place" /\ v # cur.r)
    BY <1>9, PreemptFacts DEF Preempt
  <2>2. Elems(running') = Elems(running) \ {v}
    BY <1>9, QueuesPreempt
  <2>3. /\ NoDup(out.order) /\ cur.r \notin Elems(out.order)
        /\ Within(running, idx, cur.r)
        /\ \A r \in Elems(out.order) : /\ out.n[r] > 0 /\ r \in Elems(running)
                                       /\ Within(running, idx - 1, r)
    BY <1>0, <2>1 DEF OnceInv, InRunningLoop, AtCur, Loops
  <2>4. CASE Policy = "fcfs" \/ out.n[v] = 0
    <3>1. UNCHANGED <<out, idx>> /\ v \notin Elems(out.order)
      <4>1. CASE Policy = "fcfs"
        BY <1>9, <4>1, FcfsVictim DEF FcfsInv
      <4>2. CASE out.n[v] = 0
        BY <1>9, <2>3, <4>2 DEF Preempt, Unschedule
      <4> QED BY <2>4, <4>1, <4>2
    <3> HIDE DEF v
    <3>2. \A r \in Elems(out.order) : Within(running', idx - 1, r)
      <4> TAKE r \in Elems(out.order)
      <4>1. r # v /\ idx - 1 \in Int /\ Within(running, idx - 1, r)
        BY <1>0, <2>3, <3>1
      <4> QED BY <1>0, <2>1, <4>1, WithinRemove
    <3>3. v # cur.r => Within(running', idx, cur.r)
      BY <1>0, <2>1, <2>3, WithinRemove
    <3> QED BY <2>1, <2>2, <2>3, <3>1, <3>2, <3>3 DEF OnceInv, InRunningLoop, AtCur
  <2>5. CASE ~(Policy = "fcfs" \/ out.n[v] = 0)
    <3>1. /\ out' = [out EXCEPT !.order = RemoveFirst(@, v), !.n[v] = 0, !.enc[v] = {}]
          /\ idx' = idx - 1 /\ out.n[v] > 0
      BY <1>9, <2>5 DEF Preempt, Unschedule
    <3>2. v \in Elems(out.order)
      BY <2>1, <3>1 DEF SchedInv, OrderInv, Loops
    <3> HIDE DEF v
    <3>3. out'.order = RemoveFirst(out.order, v) /\ out'.n = [out.n EXCEPT ![v] = 0]
      BY <1>0, <3>1 DEF Outputs
    <3>4. NoDup(out'.order) /\ Elems(out'.order) = Elems(out.order) \ {v}
      BY <1>0, <2>3, <3>3, RemoveOnly
    <3>5. \A r \in Elems(out'.order) : out'.n[r] > 0 /\ r \in Elems(running')
      <4>1. \A r \in Elems(out.order) : r \in Reqs
        BY <1>0 DEF Elems
      <4>2. out.n \in [Reqs -> Int]
        BY <1>0 DEF Outputs
      <4> QED BY <2>2, <2>3, <3>3, <3>4, <4>1, <4>2
    <3>6. Within(running, idx - 1, v) /\ Within(running, idx, v)
      <4>1. Within(running, idx - 1, v)
        BY <2>3, <3>2
      <4> QED BY <1>0, <4>1 DEF Within
    <3>7. \A r \in Elems(out'.order) : Within(running', idx' - 1, r)
      <4> TAKE r \in Elems(out'.order)
      <4>1. r # v /\ idx - 1 \in Int /\ Within(running, idx - 1, r)
        BY <1>0, <2>3, <3>4
      <4>2. Within(RemoveFirst(running, v), (idx - 1) - 1, r)
        BY <1>0, <2>1, <3>6, <4>1, WithinRemove
      <4> QED BY <2>1, <3>1, <4>2
    <3>8. v # cur.r => Within(running', idx', cur.r)
      BY <1>0, <2>1, <2>3, <3>1, <3>6, WithinRemove
    <3> QED BY <2>1, <2>3, <3>4, <3>5, <3>7, <3>8 DEF OnceInv, InRunningLoop, AtCur
  <2> QED BY <2>4, <2>5
<1>10. CASE Commit
  <2>1. out'.order = out.order /\ pc = "commit" /\ pc' = "after"
    BY <1>10, <1>0 DEF Commit, Outputs
  <2> QED BY <1>0, <2>1 DEF OnceInv, InRunningLoop, AtCur, Loops
<1>11. CASE UpdateAfterSchedule
  <2>1. out' = out /\ pc = "after" /\ pc' = "after"
    BY <1>11 DEF UpdateAfterSchedule
  <2> QED BY <1>0, <2>1 DEF OnceInv, InRunningLoop, AtCur, Loops
<1>12. CASE Submit
  <2>1. pc' \in {"idle", "await"}
    BY <1>12 DEF Submit
  <2> QED BY <2>1 DEF OnceInv, InRunningLoop, AtCur, Loops
<1> QED BY <1>1, <1>2, <1>3, <1>4, <1>5, <1>6, <1>7, <1>8, <1>9, <1>10, <1>11, <1>12, StepKinds

\* The budgets cover the step under construction and every queued one, after any
\* step.
LEMMA BudgetNext ==
    ASSUME SchedInv, LimitsInv, MMNext
    PROVE  BudgetInv'
<1> DEFINE Covered == /\ IsFiniteSet(PerRequest(TokensOf(out)))
                      /\ IsFiniteSet(PerRequest(EmbedsOf(out)))
                      /\ tokens + StepTokens(out) <= TokenBudget
                      /\ encBudget + StepEmbeds(out) <= EncoderBudget
           Fits == cur.n <= tokens /\ cur.budget + SlotsOf(cur.hashes) <= encBudget
           Queued == \A k \in 1 .. Len(outq) : /\ StepTokens(outq[k]) <= TokenBudget
                                               /\ StepEmbeds(outq[k]) <= EncoderBudget
<1>0. /\ AtCur => Fits
      /\ pc \in Loops \cup {"after"} => Covered
      /\ Queued
  BY DEF LimitsInv, BudgetInv
<1>1. SUFFICES (AtCur' => Fits') /\ (pc' \in Loops \cup {"after"} => Covered') /\ Queued'
  BY DEF BudgetInv
<1>2. /\ tokens \in Nat /\ encBudget \in Nat /\ TokenBudget \in Nat /\ EncoderBudget \in Nat
      /\ outq \in Seq(Outputs) /\ out \in Outputs
  BY MMScheduleAssumption DEF LimitsInv, NumbersInv, SchedInv, TypesInv
<1>3. CASE Moves
  <2>1. /\ UNCHANGED <<tokens, encBudget, cur, out>> /\ (~AtCur' \/ WorkerExecute)
        /\ pc' \in Loops \cup {"after"} => pc \in Loops \cup {"after"}
    BY <1>3, MovesFrame
  <2>2. AtCur' => Fits'
    <3>1. WorkerExecute => UNCHANGED pc
      BY DEF WorkerExecute, loopVars
    <3> QED BY <1>0, <2>1, <3>1 DEF AtCur
  <2>3. Queued'
    <3>1. CASE WorkerExecute
      <4>1. outq' = Tail(outq) /\ outq # <<>>
        BY <3>1 DEF WorkerExecute
      <4>2. /\ Len(outq') = Len(outq) - 1 /\ Len(outq) \in Nat
            /\ \A k \in 1 .. Len(outq') : outq'[k] = outq[k + 1]
        BY <1>2, <4>1
      <4>3. \A k \in 1 .. Len(outq') : k + 1 \in 1 .. Len(outq)
        BY <4>2
      <4> QED BY <1>0, <4>2, <4>3
    <3>2. CASE ~WorkerExecute
      <4>1. outq' = outq
        BY <1>3, <3>2 DEF Moves, RunningDone, SkipRunning, WaitingDone, SkipWaiting, RefuseWaiting,
                AwaitLast, TakeResult, OutputDone, ResetEncoderCache, AddRequest, Abort,
                UpdateFromOutput, queueVars
      <4> QED BY <1>0, <4>1
    <3> QED BY <3>1, <3>2
  <2>4. pc' \in Loops \cup {"after"} => Covered'
    BY <1>0, <2>1
  <2> QED BY <2>2, <2>3, <2>4
<1>4. CASE BeginSchedule
  <2>1. /\ out' = NoOut /\ tokens' = TokenBudget /\ encBudget' = EncoderBudget
        /\ pc' = "running" /\ outq' = outq
    BY <1>4 DEF BeginSchedule, queueVars
  <2>2. Covered'
    BY <1>2, <2>1, StepNone
  <2> QED BY <1>0, <2>1, <2>2 DEF AtCur
<1>5. CASE RunningNext \/ WaitingNext \/ ItemLoop
  <2>1. UNCHANGED <<tokens, encBudget, out, outq>> /\ pc \in Loops
    BY <1>5, ItemLoopFrame DEF RunningNext, WaitingNext, queueVars, Loops
  <2>2. Fits'
    BY <1>5, <2>1, RunningNextNumbers, WaitingNextNumbers, ItemNumbers
  <2> QED BY <1>0, <2>1, <2>2
<1>6. CASE ScheduleRunning \/ ScheduleWaiting
  <2>1. outq' = outq /\ pc' \in {"running", "waiting"}
    BY <1>6 DEF ScheduleRunning, ScheduleWaiting, queueVars
  <2>2. Covered'
    BY <1>6, ScheduleNumbers
  <2> QED BY <1>0, <2>1, <2>2 DEF AtCur
<1>7. CASE Preempt
  <2>1. outq' = outq /\ pc = "place" /\ cur' = cur
    BY <1>7 DEF Preempt, queueVars
  <2>2. Covered' /\ tokens' \in Nat /\ encBudget' \in Nat /\ tokens <= tokens' /\ encBudget <= encBudget'
    BY <1>7, PreemptNumbers
  <2>3. /\ Fits /\ cur.n \in Nat /\ cur.budget + SlotsOf(cur.hashes) \in Nat
    <3>1. cur \in Numbers
      BY DEF LimitsInv, NumbersInv
    <3>2. cur.n \in Nat /\ cur.budget \in Nat /\ SlotsOf(cur.hashes) \in Nat
      BY <3>1, SlotsNat DEF Numbers
    <3> QED BY <1>0, <2>1, <3>2 DEF AtCur
  <2>4. Fits'
    <3> DEFINE b == cur.budget + SlotsOf(cur.hashes)
    <3>1. b \in Nat /\ b <= encBudget
      BY <2>3
    <3> HIDE DEF b
    <3>2. b <= encBudget' /\ cur.n <= tokens'
      BY <1>2, <2>2, <2>3, <3>1
    <3> QED BY <2>1, <3>2 DEF b
  <2> QED BY <1>0, <2>1, <2>2, <2>4
<1>8. CASE Commit
  <2>1. /\ out'.n = out.n /\ out'.enc = out.enc
    BY <1>2, <1>8 DEF Commit, Outputs
  <2>2. TokensOf(out') = TokensOf(out) /\ EmbedsOf(out') = EmbedsOf(out)
    BY <2>1 DEF TokensOf, EmbedsOf
  <2>3. UNCHANGED <<tokens, encBudget, outq>> /\ pc = "commit" /\ pc' = "after"
    BY <1>8 DEF Commit, queueVars
  <2> QED BY <1>0, <2>2, <2>3 DEF StepTokens, StepEmbeds, AtCur, Loops
<1>9. CASE UpdateAfterSchedule
  <2>1. UNCHANGED <<tokens, encBudget, out, outq>> /\ pc = "after" /\ pc' = "after"
    BY <1>9 DEF UpdateAfterSchedule, queueVars
  <2> QED BY <1>0, <2>1 DEF AtCur, Loops
<1>10. CASE Submit
  <2>1. outq' = Append(outq, out) /\ pc = "after" /\ pc' \in {"idle", "await"}
    BY <1>10 DEF Submit
  <2>2. StepTokens(out) <= TokenBudget /\ StepEmbeds(out) <= EncoderBudget
    <3>1. StepTokens(out) \in Nat /\ StepEmbeds(out) \in Nat
      BY <1>0, <2>1, FS_CardinalityType DEF StepTokens, StepEmbeds
    <3> QED BY <1>0, <1>2, <2>1, <3>1
  <2>3. \A k \in 1 .. Len(outq') : (k \in 1 .. Len(outq) /\ outq'[k] = outq[k]) \/ outq'[k] = out
    BY <1>2, <2>1
  <2> QED BY <1>0, <2>1, <2>2, <2>3 DEF AtCur, Loops
<1> QED BY <1>3, <1>4, <1>5, <1>6, <1>7, <1>8, <1>9, <1>10, StepKinds

-----------------------------------------------------------------------------
(* The theorem about budgets.                                              *)

\* An engine starts with nothing scheduled.
LEMMA LimitsInit ==
    ASSUME MMInit
    PROVE  LimitsInv
<1>1. /\ pc = "idle" /\ outq = <<>> /\ computed = [r \in Reqs |-> 0] /\ kv = [r \in Reqs |-> 0]
      /\ out = NoOut /\ cur = NoCur /\ config \in Configs
      /\ finished = {} /\ preempting = FALSE /\ tokens = 0 /\ encBudget = 0
  BY DEF MMInit
<1>2. NumbersInv
  BY <1>1, NoCurFacts DEF NumbersInv, NoOut
<1>3. OnceInv
  BY <1>1 DEF OnceInv, InRunningLoop, AtCur, Loops
<1>4. PromptInv
  <2>1. \A r \in Reqs : computed[r] <= PromptLen[r]
    BY <1>1, PromptFacts
  <2> QED BY <1>1, <2>1 DEF PromptInv, AtCur, ToUpdate, Loops
<1>5. BudgetInv
  BY <1>1 DEF BudgetInv, AtCur, Loops
<1> QED BY <1>2, <1>3, <1>4, <1>5 DEF LimitsInv

\* The invariant is inductive.
LEMMA LimitsNext ==
    ASSUME SchedInv, FcfsInv, LimitsInv, [MMNext]_vars
    PROVE  LimitsInv'
<1>1. CASE MMNext
  BY <1>1, NumbersNext, OnceNext, PromptNext, BudgetNext DEF LimitsInv
<1>2. CASE UNCHANGED vars
  <2>1. UNCHANGED <<config, running, computed, kv, finished, pc, idx, tokens, encBudget,
                    preempting, cur, out, outq>>
    BY <1>2 DEF vars, schedVars, loopVars, queueVars
  <2>2. NumbersInv'
    BY <2>1 DEF LimitsInv, NumbersInv
  <2>3. OnceInv'
    BY <2>1 DEF LimitsInv, OnceInv, InRunningLoop, AtCur
  <2>4. PromptInv'
    BY <2>1 DEF LimitsInv, PromptInv, AtCur, ToUpdate, PromptLen
  <2>5. BudgetInv'
    BY <2>1 DEF LimitsInv, BudgetInv, AtCur
  <2> QED BY <2>2, <2>3, <2>4, <2>5 DEF LimitsInv
<1> QED BY <1>1, <1>2

\* Under either policy, whatever is preempted in the middle of a step and given
\* back, token_budget and encoder_compute_budget never go negative and no step sent
\* to the worker exceeds max_num_scheduled_tokens or max_num_encoder_input_tokens;
\* no request is scheduled past its prompt, so num_new_tokens is never negative.
THEOREM MMTypeOKHolds == MMSpec => []MMTypeOK
<1>1. ASSUME SchedInv, LimitsInv PROVE MMTypeOK
  <2>1. out.order \in Seq(Reqs) /\ out.enc \in [Reqs -> SUBSET Hashes]
    BY <1>1 DEF SchedInv, TypesInv, Outputs
  <2>2. /\ waiting \in Seq(Reqs) /\ running \in Seq(Reqs) /\ idx \in Nat /\ worker \subseteq Hashes
        /\ status \in [Reqs -> {"new", "waiting", "running", "finished"}]
    BY <1>1 DEF SchedInv, TypesInv
  <2>3. NumbersInv /\ BudgetInv
    BY <1>1 DEF LimitsInv
  <2> QED BY <2>1, <2>2, <2>3 DEF NumbersInv, Numbers, BudgetInv, MMTypeOK
<1> QED BY <1>1, LimitsInit, LimitsNext, SchedAlways, FcfsAlways, PTL DEF MMSpec
===============================================================================
