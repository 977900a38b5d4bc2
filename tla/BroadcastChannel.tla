-------------------------- MODULE BroadcastChannel --------------------------
(***************************************************************************)
(* What the message queue promises: one writer, and every reader is handed *)
(* every message once, in the order they were sent, with at most Capacity  *)
(* messages that some reader has not passed.                               *)
(***************************************************************************)
EXTENDS Naturals

CONSTANTS Readers, Capacity

VARIABLES
    sent,    \* messages sent so far; message m is the m-th
    passed,  \* messages a reader has left behind in the buffer
    got      \* the message a reader was handed last

vars == <<sent, passed, got>>

Init ==
    /\ sent = 0
    /\ passed = [r \in Readers |-> 0]
    /\ got = [r \in Readers |-> 0]

Send ==
    /\ \A r \in Readers : sent < passed[r] + Capacity
    /\ sent' = sent + 1
    /\ UNCHANGED <<passed, got>>

\* A reader may let go of the buffer before or after it has the message.
Pass(r) ==
    /\ passed[r] < sent
    /\ passed' = [passed EXCEPT ![r] = @ + 1]
    /\ UNCHANGED <<sent, got>>

Receive(r) ==
    /\ got[r] < sent
    /\ got' = [got EXCEPT ![r] = @ + 1]
    /\ UNCHANGED <<sent, passed>>

Next == Send \/ \E r \in Readers : Pass(r) \/ Receive(r)

Spec == Init /\ [][Next]_vars
=============================================================================
