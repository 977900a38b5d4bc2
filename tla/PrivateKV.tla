----------------------------- MODULE PrivateKV -----------------------------
(***************************************************************************)
(* What the KV cache manager promises a request: a key-value cache of its  *)
(* own. kv[r] is what attention sees for r, position by position; it grows *)
(* by the positions r computes, may start with positions somebody else     *)
(* computed for the same prefix, and is dropped as a whole. Sharing,       *)
(* eviction and reuse of blocks do not show.                               *)
(***************************************************************************)
EXTENDS Naturals, Sequences

CONSTANTS Reqs, Prompt

VARIABLE kv

\* The key and value of position p depend on every token up to p.
Position(r, p) == SubSeq(Prompt[r], 1, p)
Upto(r, n) == [p \in 1 .. n |-> Position(r, p)]

KVInit == kv = [r \in Reqs |-> <<>>]

Grow(r) == \E n \in Len(kv[r]) + 1 .. Len(Prompt[r]) : kv' = [kv EXCEPT ![r] = Upto(r, n)]
Drop(r) == kv[r] # <<>> /\ kv' = [kv EXCEPT ![r] = <<>>]

KVNext == \E r \in Reqs : Grow(r) \/ Drop(r)

KVSpec == KVInit /\ [][KVNext]_kv
=============================================================================
