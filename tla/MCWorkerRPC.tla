---------------------------- MODULE MCWorkerRPC ----------------------------
(***************************************************************************)
(* Two workers: without failures, with calls that raise, with timeouts and *)
(* a copying thread that ends, and with workers that die.                  *)
(***************************************************************************)
EXTENDS WorkerRPC

Scenario(aggregated, async, maxCalls, faults) ==
    [aggregated |-> aggregated, async |-> async, maxCalls |-> maxCalls, faults |-> faults]

Sound == Scenario(FALSE, TRUE, 4, {})
Raising == Scenario(FALSE, FALSE, 3, {"raise"})
Failing == Scenario(FALSE, TRUE, 3, {"raise", "timeout", "thread"})
Dying == Scenario(TRUE, TRUE, 2, {"death"})

MCScenarios == {Sound, Raising, Failing, Dying}
=============================================================================
