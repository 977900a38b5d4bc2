------------------------------ MODULE BlockHash ------------------------------
(***************************************************************************)
(* The hashes the prefix cache is keyed by, src/vllm/vllm/v1/core/         *)
(* kv_cache_utils.py.  A request hashes its full blocks when it is created *)
(* and again whenever output tokens complete a block.  A hash covers the   *)
(* hash of the block before, the tokens of the block, and extra keys: what *)
(* decides the keys and values of the block and does not show in token ids,*)
(* above all the multimodal items under the block.                         *)
(*                                                                         *)
(* The hash function is taken as free of collisions: a hash is modelled by *)
(* the sequence of what it was computed from, block by block.  Two requests*)
(* share a block exactly when their hashes are equal, so equal hashes must *)
(* mean equal contents.  Prompt embeddings are left out.                   *)
(***************************************************************************)
EXTENDS Integers, Sequences, FiniteSets, SequencesExt, FiniteSetsExt

CONSTANTS
    Requests,        \* request ids
    Tokens,      \* the tokens of a request, prompt and output
    PromptLen,   \* how many of them are the prompt
    Features,    \* mm_features of a request by offset: [len, off, emb, id]
    Lora, Salt,  \* sequences with the LoRA name and the cache salt, or empty
    HashBlockSize,  \* tokens per block
    MaxOut       \* the most tokens one step appends (bound)

ASSUME BlockHashAssumption ==
    /\ HashBlockSize \in Nat \ {0}
    /\ MaxOut \in Nat \ {0}
    /\ PromptLen \in [Requests -> Nat \ {0}]
    /\ \A r \in Requests : PromptLen[r] <= Len(Tokens[r])
    /\ \A r \in Requests : \A i \in DOMAIN Features[r] :
           LET f == Features[r][i] IN
           /\ f.len \in Nat \ {0} /\ f.off + f.len <= PromptLen[r]
           /\ f.emb \subseteq 0 .. f.len - 1
           /\ \A j \in 1 .. i : Features[r][j].off <= f.off

VARIABLES
    numTokens,   \* num_tokens of a request, 0 before it is created
    hashes       \* request.block_hashes

hashVars == <<numTokens, hashes>>

-----------------------------------------------------------------------------
(* Extra keys of the block of tokens [start, end).                         *)

EndOf(f) == f.off + f.len
Reached(f, end) == end > f.off
Passed(f, start) == start >= EndOf(f)

\* A block whose first token is past all items needs no look at them.
PastAll(fs, start) == fs = << >> \/ EndOf(Last(fs)) <= start

\* The loop of _gen_mm_extra_hash_keys ends at the first item that is not
\* reached yet or goes on after the block.
Stop(fs, start, end, from) ==
    Min({i \in from .. Len(fs) :
            ~Reached(fs[i], end) \/ (end < EndOf(fs[i]) /\ ~Passed(fs[i], start))}
        \cup {Len(fs) + 1})

\* Item and position relative to the block, for every item the loop meets.
Key(f, start) == <<f.id, f.off - start>>

MMExtraKeys(fs, start, end, from) ==
    IF PastAll(fs, start) THEN << >>
    ELSE LET met == SelectSeq([i \in 1 .. Len(fs) |-> i],
                     LAMBDA i : /\ from <= i /\ i <= Stop(fs, start, end, from)
                                /\ Reached(fs[i], end) /\ ~Passed(fs[i], start))
         IN  [j \in DOMAIN met |-> Key(fs[met[j]], start)]

NextIdx(fs, start, end, from) ==
    IF PastAll(fs, start) THEN from ELSE Stop(fs, start, end, from)

\* generate_block_hash_extra_keys.
ExtraKeys(r, start, end, from) ==
    Lora[r] \o MMExtraKeys(Features[r], start, end, from)
            \o (IF start = 0 THEN Salt[r] ELSE << >>)

-----------------------------------------------------------------------------
(* request_block_hasher.                                                   *)

\* Mutant: a hash that does not cover the block before.
UnchainedHash(parent, tokens, keys) == <<[tokens |-> tokens, keys |-> keys]>>

\* hash_block_tokens.
HashBlockTokens(parent, tokens, keys) == Append(parent, [tokens |-> tokens, keys |-> keys])

HashBlock(r, acc, k) ==
    LET start == k * HashBlockSize
        end == start + HashBlockSize
        parent == IF acc.hashes = << >> THEN << >> ELSE Last(acc.hashes)
    IN  [hashes |-> Append(acc.hashes,
                        HashBlockTokens(parent, SubSeq(Tokens[r], start + 1, end),
                                        ExtraKeys(r, start, end, acc.idx))),
         idx |-> NextIdx(Features[r], start, end, acc.idx)]

\* Mutant: no item is looked at any more.
FirstIdxPastLast(r, done) == IF done = << >> THEN 1 ELSE Len(Features[r]) + 1

\* With blocks hashed already, only the last item is looked at.
FirstIdx(r, done) == IF done = << >> THEN 1 ELSE Max({1, Len(Features[r])})

\* All full blocks of the first n tokens, after those in done.
Hashed(r, done, n, from) ==
    LET todo == [j \in 1 .. (n \div HashBlockSize) - Len(done) |-> Len(done) + j - 1]
    IN  FoldLeft(LAMBDA acc, k : HashBlock(r, acc, k), [hashes |-> done, idx |-> from], todo).hashes

\* Request.__init__ ends with update_block_hashes.
Create(r) ==
    /\ numTokens[r] = 0
    /\ numTokens' = [numTokens EXCEPT ![r] = PromptLen[r]]
    /\ hashes' = [hashes EXCEPT ![r] = Hashed(r, << >>, PromptLen[r], FirstIdx(r, << >>))]

\* So does append_output_token_ids.
AppendOutput(r, n) ==
    /\ numTokens[r] > 0
    /\ numTokens[r] + n <= Len(Tokens[r])
    /\ numTokens' = [numTokens EXCEPT ![r] = @ + n]
    /\ hashes' = [hashes EXCEPT ![r] =
                     Hashed(r, @, numTokens[r] + n, FirstIdx(r, @))]

HashInit ==
    /\ numTokens = [r \in Requests |-> 0]
    /\ hashes = [r \in Requests |-> << >>]

HashNext ==
    \/ \E r \in Requests : Create(r)
    \/ \E r \in Requests : \E n \in 1 .. MaxOut : AppendOutput(r, n)

HashSpec == HashInit /\ [][HashNext]_hashVars

-----------------------------------------------------------------------------
(* Properties.                                                             *)

\* What the model sees at position p of a request.
Content(r, p) ==
    [token |-> Tokens[r][p + 1], lora |-> Lora[r], salt |-> Salt[r],
     media |-> {<<Features[r][i].id, p - Features[r][i].off>> :
                   i \in {j \in DOMAIN Features[r] : p - Features[r][j].off \in Features[r][j].emb}}]

\* The block holding the end of the prompt is hashed later, with output tokens, and
\* then only the last item is looked at: the requests with no other item in it.
OneItemInTail ==
    {r \in Requests :
        LET hashed == (PromptLen[r] \div HashBlockSize) * HashBlockSize IN
        hashed > 0 => Cardinality({i \in DOMAIN Features[r] : EndOf(Features[r][i]) > hashed}) <= 1}

\* Of requests with at most one item in the unfinished block of the prompt, equal
\* hashes mean equal contents of the block and of everything before it, so that a hit
\* never brings keys and values of something else: not of another item with the same
\* placeholder tokens, nor of the same item at another position, another adapter or
\* another salt.
EqualHashEqualPrefix ==
    \A r, q \in OneItemInTail :
        \A i \in DOMAIN hashes[r] : \A j \in DOMAIN hashes[q] :
            hashes[r][i] = hashes[q][j] =>
                i = j /\ \A p \in 0 .. i * HashBlockSize - 1 : Content(r, p) = Content(q, p)

\* With at most one item in the unfinished block of the prompt, hashing on from the
\* last item gives what hashing everything from the first one gives: one hash per full
\* block, and equal prefixes have equal hashes whatever each request generated in how
\* many steps. With two items in that block it does not (curr_mm_idx = -1).
ResumedAsFromScratch ==
    \A r \in OneItemInTail : hashes[r] = Hashed(r, << >>, numTokens[r], 1)
=============================================================================
