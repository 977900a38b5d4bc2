--------------------------- MODULE FreeBlockList ---------------------------
(***************************************************************************)
(* FreeKVCacheBlockQueue: the free KV cache blocks as a doubly linked list *)
(* threaded through the blocks, between a fake head and a fake tail. Links *)
(* are None (Nil) on a block that is not in the list.                      *)
(*                                                                         *)
(* The user, BlockPool, appends only blocks that are not in the list and   *)
(* removes only blocks that are.                                           *)
(***************************************************************************)
EXTENDS Integers, FiniteSets, Sequences, SequencesExt

CONSTANTS ListSize

ASSUME ListAssumption == ListSize \in Nat \ {0}

VARIABLES
    prev,     \* prev_free_block
    next,     \* next_free_block
    numFree   \* num_free_blocks

listVars == <<prev, next, numFree>>

ListBlocks == 0 .. ListSize - 1
FakeHead == -1      \* fake_free_list_head
FakeTail == -2      \* fake_free_list_tail
Nil == -3       \* None
Nodes == ListBlocks \cup {FakeHead, FakeTail}

\* get_all_free_blocks: the walk along next from the head; a walk longer than the
\* number of blocks is cut.
Walk ==
    LET step[i \in 0 .. ListSize] ==
            IF i = 0 THEN FakeHead
            ELSE IF step[i - 1] \in {FakeTail, Nil} THEN Nil ELSE next[step[i - 1]]
        reached == {i \in 1 .. ListSize : step[i] \in ListBlocks}
    IN  [i \in 1 .. Cardinality(reached) |-> step[i]]

Linked == ToSet(Walk)

-----------------------------------------------------------------------------
ListInit ==
    /\ numFree = ListSize
    /\ next = [b \in Nodes |-> CASE b = FakeHead -> 0
                                 [] b = FakeTail -> Nil
                                 [] b = ListSize - 1 -> FakeTail
                                 [] OTHER -> b + 1]
    /\ prev = [b \in Nodes |-> CASE b = FakeHead -> Nil
                                 [] b = FakeTail -> ListSize - 1
                                 [] b = 0 -> FakeHead
                                 [] OTHER -> b - 1]

\* Mutant: an append that loses the end of the list.
AppendKeepsTail(b) ==
    LET last == prev[FakeTail] IN
    /\ next' = [next EXCEPT ![last] = b, ![b] = FakeTail]
    /\ prev' = [prev EXCEPT ![b] = last]
    /\ numFree' = numFree + 1

Popleft ==
    LET first == next[FakeHead] IN
    /\ first # FakeTail
    /\ next' = [next EXCEPT ![FakeHead] = next[first], ![first] = Nil]
    /\ prev' = [prev EXCEPT ![next[first]] = FakeHead, ![first] = Nil]
    /\ numFree' = numFree - 1

\* The first n blocks are unlinked and the head joined to the next node, which is
\* the tail when all blocks go.
PopleftN(n) ==
    LET gone == {Walk[i] : i \in 1 .. n}
        curr == next[Walk[n]]
    IN  /\ n <= numFree
        /\ next' = [b \in Nodes |-> IF b = FakeHead THEN curr
                                    ELSE IF b \in gone THEN Nil ELSE next[b]]
        /\ prev' = [b \in Nodes |-> IF b = curr THEN FakeHead
                                    ELSE IF b \in gone THEN Nil ELSE prev[b]]
        /\ numFree' = numFree - n

\* remove raises on a block without links.
RemoveBlock(b) ==
    /\ prev[b] # Nil /\ next[b] # Nil
    /\ next' = [next EXCEPT ![prev[b]] = next[b], ![b] = Nil]
    /\ prev' = [prev EXCEPT ![next[b]] = prev[b], ![b] = Nil]
    /\ numFree' = numFree - 1

AppendBlock(b) ==
    LET last == prev[FakeTail] IN
    /\ next' = [next EXCEPT ![last] = b, ![b] = FakeTail]
    /\ prev' = [prev EXCEPT ![b] = last, ![FakeTail] = b]
    /\ numFree' = numFree + 1

\* append_n joins the given blocks to each other, the first to the old last block
\* and the last to the tail.
AppendN(bs) ==
    LET chain == <<prev[FakeTail]>> \o bs \o <<FakeTail>>
        at(b) == CHOOSE i \in DOMAIN chain : chain[i] = b
    IN  /\ bs # <<>>
        /\ next' = [b \in Nodes |-> IF b \in ToSet(Front(chain))
                                    THEN chain[at(b) + 1] ELSE next[b]]
        /\ prev' = [b \in Nodes |-> IF b \in ToSet(Tail(chain))
                                    THEN chain[at(b) - 1] ELSE prev[b]]
        /\ numFree' = numFree + Len(bs)

ListNext ==
    \/ Popleft
    \/ \E n \in 1 .. Len(Walk) : PopleftN(n)
    \/ \E b \in Linked : RemoveBlock(b)
    \/ \E b \in ListBlocks \ Linked : AppendBlock(b)
    \/ \E bs \in SetToAllKPermutations(ListBlocks \ Linked) : AppendN(bs)

ListSpec == ListInit /\ [][ListNext]_listVars

-----------------------------------------------------------------------------
\* The linked list is the queue the block pool works with: the same blocks in the
\* same order, and num_free_blocks is its length.
Queue == INSTANCE FreeQueue WITH Blocks <- ListBlocks, queue <- Walk, count <- numFree
ListImplementsQueue == Queue!FQSpec
=============================================================================
