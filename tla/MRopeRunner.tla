---------------------------- MODULE MRopeRunner ----------------------------
(***************************************************************************)
(* The rope positions the vLLM workers feed the model, chunk by chunk and  *)
(* over preemptions.  The V1 runner (gpu_model_runner.py) indexes the      *)
(* prompt once and counts on from it with the delta.  The V2 runner        *)
(* (worker/gpu/mm/rope.py) drops a preempted request and indexes it anew   *)
(* with the tokens it had generated.                                       *)
(***************************************************************************)
EXTENDS MRopeIndex

CONSTANTS
    Reqs,      \* request ids
    Items,     \* the prompt of a request
    Runners,   \* workers: whether V2, and the requests they get
    MaxGen,    \* tokens a request generates (bound)
    MaxChunk   \* tokens a step computes (bound)

ASSUME RunnerAssumption ==
    /\ Runners \subseteq [v2 : BOOLEAN, reqs : SUBSET Reqs]
    /\ MaxGen \in Nat
    /\ MaxChunk \in Nat \ {0}
    /\ \A r \in Reqs : Items[r] # << >>

VARIABLES
    gen,       \* tokens a request has generated
    computed,  \* num_computed_tokens
    index,     \* mrope positions and delta of a request on the worker
    used,      \* every <<token, position>> the model was given
    runner     \* the member of Runners this behaviour is about

runnerVars == <<gen, computed, index, used, runner>>

V2 == runner.v2

Absent == [len |-> 0]
PromptLen(r) == Len(TokensOf(Items[r]))
NumTokens(r) == PromptLen(r) + gen[r]

\* The prompt with n generated tokens.
Grown(r, n) == IF n = 0 THEN Items[r] ELSE Append(Items[r], Text(n))

\* The tokens a runner indexes when it adds a request.
Indexed(r) == IF V2 THEN Grown(r, gen[r]) ELSE Items[r]

AddRequest(r) ==
    /\ index[r] = Absent
    /\ LET x == RopeIndex(Indexed(r)) IN
       index' = [index EXCEPT ![r] = [len |-> Len(TokensOf(Indexed(r)))] @@ x]
    /\ UNCHANGED <<gen, computed, used>>

\* Position of token k (from 1) in a chunk that starts after c tokens.
PositionV1(r, c, k) ==
    IF k <= index[r].len THEN index[r].pos[k] ELSE Line(1, index[r].delta + k - 1)[1]

\* Mutant: plain counting after the prompt.
PlainCount(r, c, k) ==
    IF c < index[r].len THEN index[r].pos[k] ELSE Line(1, k - 1)[1]

PositionV2(r, c, k) ==
    IF c < index[r].len THEN index[r].pos[k] ELSE Line(1, index[r].delta + k - 1)[1]

\* A step over n tokens.  With all tokens computed it samples one more.
ExecuteModel(r, n) ==
    /\ index[r] # Absent
    /\ computed[r] + n <= NumTokens(r)
    /\ used' = [used EXCEPT ![r] = @ \cup
           {<<k, IF V2 THEN PositionV2(r, computed[r], k) ELSE PositionV1(r, computed[r], k)>> :
               k \in computed[r] + 1 .. computed[r] + n}]
    /\ computed' = [computed EXCEPT ![r] = @ + n]
    /\ gen' = [gen EXCEPT ![r] =
           IF computed[r] + n = NumTokens(r) /\ @ < MaxGen THEN @ + 1 ELSE @]
    /\ UNCHANGED index

\* The scheduler takes the request back to its start; only the V2 runner
\* drops what it knows of it.
Preempt(r) ==
    /\ computed[r] > 0
    /\ computed' = [computed EXCEPT ![r] = 0]
    /\ index' = IF V2 THEN [index EXCEPT ![r] = Absent] ELSE index
    /\ UNCHANGED <<gen, used>>

RunnerInit ==
    /\ gen = [r \in Reqs |-> 0]
    /\ computed = [r \in Reqs |-> 0]
    /\ index = [r \in Reqs |-> Absent]
    /\ used = [r \in Reqs |-> {}]
    /\ runner \in Runners

RunnerNext ==
    /\ \E r \in runner.reqs :
           \/ AddRequest(r)
           \/ \E n \in 1 .. MaxChunk : ExecuteModel(r, n)
           \/ Preempt(r)
    /\ UNCHANGED runner

RunnerSpec == RunnerInit /\ [][RunnerNext]_runnerVars

-----------------------------------------------------------------------------
(* Properties.                                                             *)

\* A token keeps its position however often it is computed again and however
\* its chunks are cut: recomputed keys replace those of the first time, and
\* blocks of both may be mixed through the prefix cache. With the V2 runner only if no
\* grid reaches further than its sound: generated tokens are counted on from the prompt
\* and indexed again after a preemption, and the two disagree after such a grid.
TokenKeepsPosition ==
    \A r \in Reqs : (V2 => SoundReaches(Items[r])) =>
        \A u, v \in used[r] : u[1] = v[1] => u[2] = v[2]

\* Positions are those of the documentation, for a sequence in which no grid
\* reaches further than its sound.
PositionsAsDocumented ==
    \A r \in Reqs : SoundReaches(Items[r]) =>
        LET doc == Documented(Grown(r, gen[r])) IN
        \A u \in used[r] : u[2] = doc[u[1]]
=============================================================================
