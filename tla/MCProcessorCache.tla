-------------------------- MODULE MCProcessorCache --------------------------
(***************************************************************************)
(* Instances of ProcessorCache: the sizes of the items, and the prompts,   *)
(* faults and bounds of a behaviour.                                       *)
(***************************************************************************)
EXTENDS ProcessorCache

CONSTANTS a, b, c, d

MCKeys == {a, b, c, d}
MCSize == [k \in MCKeys |-> CASE k \in {a, b} -> 1 [] k = c -> 2 [] OTHER -> 4]

Item(k, o) == [hash |-> k, offset |-> o]

\* Items of one modality are in the order of their positions.
FittingPrompts == {<<Item(a, 1)>>, <<Item(c, 1)>>, <<Item(c, 1), Item(a, 2)>>,
                   <<Item(b, 1), Item(c, 2)>>, <<Item(a, 1), Item(b, 2), Item(a, 3)>>}

\* Two modalities, the one that is listed first later in the prompt.
CrossedPrompts == {<<Item(a, 2), Item(b, 1)>>, <<Item(b, 1), Item(c, 2)>>}

\* An item larger than the cache, after one that fits, and a prompt that is
\* larger than the cache as a whole.
OversizedPrompts == {<<Item(a, 1), Item(d, 2)>>, <<Item(c, 1), Item(a, 2), Item(b, 3)>>}

Scenario(prompts, faults, maxRendered, maxWire) ==
    [prompts |-> prompts, faults |-> faults, maxRendered |-> maxRendered, maxWire |-> maxWire]

Quiet == Scenario(FittingPrompts, {}, 1, 2)
Disturbed == Scenario(CrossedPrompts \cup OversizedPrompts, {"reject", "reset"}, 2, 1)

MCScenarios == {Quiet, Disturbed}
=============================================================================
