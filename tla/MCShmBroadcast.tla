--------------------------- MODULE MCShmBroadcast ---------------------------
(***************************************************************************)
(* The message queue with one message for the socket and timeouts of a     *)
(* write or a read, with a writer that may end, and with every timeout.    *)
(***************************************************************************)
EXTENDS ShmBroadcast

Scenario(big, timesOut, mayDie) ==
    [big |-> big, timesOut |-> timesOut, mayDie |-> mayDie]

Timed == Scenario({2}, {"write", "read"}, FALSE)
Orphaned == Scenario({}, {}, TRUE)
AllTimeouts == Scenario({1, 3}, {"write", "read", "recv"}, FALSE)

MCScenarios == {Timed, Orphaned, AllTimeouts}
=============================================================================
