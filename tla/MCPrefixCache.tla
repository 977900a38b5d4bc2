--------------------------- MODULE MCPrefixCache ---------------------------
(***************************************************************************)
(* The block pool, the linked list of free blocks below it and the hashes  *)
(* of requests, one of them in each behaviour. They share no state; the    *)
(* ones a behaviour is not about stay in their initial state.              *)
(***************************************************************************)
EXTENDS KVBlocks, FreeBlockList, BlockHash

CONSTANTS Parts, HashScenario

VARIABLE part   \* "pool", "list" or "hash"

-----------------------------------------------------------------------------
(* Requests in a pool too small for two of them, two tokens per block:     *)
(* a chain of two full blocks beside a prompt that has nothing in common   *)
(* with it and evicts it; prompts that share a prefix, with blocks that    *)
(* turn out invalid; and prompts of two priorities that share a prefix.    *)

MCReqs == {"r1", "r2", "r3", "r4", "r5"}
MCPrompt == [r1 |-> <<"a", "b", "c", "d">>, r2 |-> <<"a", "b", "e">>,
             r3 |-> <<"a", "b">>, r4 |-> <<"e">>, r5 |-> <<"a", "b", "e">>]
MCPriority == {[clients |-> {"r2", "r5"}, policy |-> "priority", mayInvalidate |-> FALSE]}
MCWorkloads == {[clients |-> {"r1", "r4"}, policy |-> "fcfs", mayInvalidate |-> FALSE],
                [clients |-> {"r2", "r3"}, policy |-> "fcfs", mayInvalidate |-> TRUE]}
               \cup MCPriority

\* Steps in flight: the chain of two blocks without a batch queue.
Depth == IF "r1" \in workload.clients THEN 1 ELSE MaxInFlight

-----------------------------------------------------------------------------
(* Requests to hash, in blocks of three tokens.                            *)

Img(id, off, n) == [len |-> n, off |-> off, emb |-> 0 .. n - 1, id |-> id]

\* The key of an adapter or a salt is its bare name.
Name(id) == <<<<id, 0>>>>

\* Token 1 is the placeholder, 2 and 3 are text.
Req(tokens, prompt, fs, lora, salt) ==
    [tokens |-> tokens, prompt |-> prompt, fs |-> fs, lora |-> lora, salt |-> salt]

\* Items with the same placeholder tokens and other contents, at other positions,
\* across block borders, with an adapter or a salt; one prompt that holds what
\* another generates; the last item alone in the block the prompt ends in, and two
\* items in it.
Apart == <<
    Req(<<2, 1, 1, 1, 2, 3, 3, 3, 3>>, 5, <<Img(10, 1, 3)>>, << >>, << >>),
    Req(<<2, 1, 1, 1, 2, 3, 3>>, 5, <<Img(11, 1, 3)>>, << >>, << >>),
    Req(<<2, 1, 1, 1, 2, 3, 3>>, 6, <<Img(12, 1, 1), Img(10, 2, 2)>>, << >>, << >>),
    Req(<<2, 1, 1, 1, 2, 3, 3, 3, 3>>, 7, <<Img(12, 1, 2), Img(12, 3, 1)>>, << >>, << >>),
    Req(<<2, 1, 1, 1, 2, 3, 1, 1, 2>>, 9, <<Img(10, 1, 3), Img(11, 6, 2)>>, << >>, << >>),
    Req(<<2, 1, 1, 1, 2, 3>>, 6, <<Img(10, 1, 3)>>, Name(100), << >>),
    Req(<<2, 1, 1, 1, 2, 3>>, 6, <<Img(10, 1, 3)>>, << >>, Name(200)),
    Req(<<2, 3, 2, 1, 1, 3>>, 5, <<Img(10, 3, 1), Img(12, 4, 1)>>, << >>, << >>),
    Req(<<2, 3, 2, 1, 1, 3>>, 5, <<Img(11, 3, 1), Img(12, 4, 1)>>, << >>, << >>) >>

\* One vocal video twice, with two different sound tracks: video and audio items
\* share a range of two blocks.
Track(a) == <<[len |-> 6, off |-> 0, emb |-> {0, 1, 3}, id |-> 20],
              [len |-> 6, off |-> 0, emb |-> {2, 4, 5}, id |-> a]>>
Shared == <<
    Req(<<1, 1, 4, 1, 4, 4, 2>>, 7, Track(30), << >>, << >>),
    Req(<<1, 1, 4, 1, 4, 4, 2>>, 7, Track(31), << >>, << >>) >>

Chosen == IF HashScenario = "apart" THEN Apart ELSE Shared

MCRequests == DOMAIN Chosen
MCTokens == [r \in MCRequests |-> Chosen[r].tokens]
MCPromptLen == [r \in MCRequests |-> Chosen[r].prompt]
MCFeatures == [r \in MCRequests |-> Chosen[r].fs]
MCLora == [r \in MCRequests |-> Chosen[r].lora]
MCSalt == [r \in MCRequests |-> Chosen[r].salt]

-----------------------------------------------------------------------------
vars == <<kvVars, listVars, hashVars, part>>

AnyWorkload == CHOOSE w \in Workloads : TRUE

Init ==
    /\ part \in Parts
    /\ (part = "pool" \/ workload = AnyWorkload) /\ KVBlocksInit
    /\ ListInit
    /\ HashInit

Next ==
    \/ /\ part = "pool" /\ KVBlocksNext /\ Len(inflight') <= Depth
       /\ UNCHANGED <<listVars, hashVars, part>>
    \/ part = "list" /\ ListNext /\ UNCHANGED <<kvVars, hashVars, part>>
    \/ part = "hash" /\ HashNext /\ UNCHANGED <<kvVars, listVars, part>>
    \/ part = "hash" /\ UNCHANGED vars   \* all requests may have ended

Spec == Init /\ [][Next]_vars
=============================================================================
