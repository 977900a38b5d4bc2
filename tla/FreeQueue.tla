----------------------------- MODULE FreeQueue -----------------------------
(***************************************************************************)
(* What FreeKVCacheBlockQueue promises its user, the block pool: a queue   *)
(* of blocks in eviction order from which any block may also be taken out  *)
(* of the middle, with an exact count.                                     *)
(***************************************************************************)
EXTENDS Naturals, Sequences, SequencesExt

CONSTANTS Blocks

VARIABLES queue, count

fqVars == <<queue, count>>

\* The queue is ordered by block ID in the beginning.
FQInit ==
    /\ queue \in SetToSeqs(Blocks) /\ \A i \in 1 .. Len(queue) - 1 : queue[i] < queue[i + 1]
    /\ count = Len(queue)

TakeFront(n) ==
    /\ n <= Len(queue)
    /\ queue' = SubSeq(queue, n + 1, Len(queue))

TakeOut(b) == \E i \in DOMAIN queue : queue[i] = b /\ queue' = RemoveAt(queue, i)

PutBack(S) == \E s \in SetToSeqs(S) : queue' = queue \o s

\* Every operation moves a block.
FQNext ==
    /\ queue' # queue
    /\ \/ \E n \in 1 .. Len(queue) : TakeFront(n)
       \/ \E b \in ToSet(queue) : TakeOut(b)
       \/ \E S \in SUBSET (Blocks \ ToSet(queue)) : PutBack(S)
    /\ count' = Len(queue')

FQSpec == FQInit /\ [][FQNext]_fqVars
=============================================================================
