---------------------------- MODULE MCProcessor ----------------------------
(***************************************************************************)
(* The processor, one part of it in each behaviour: the layout of a vocal  *)
(* video, the borrowing of loaders by threads, the expansion of prompts.   *)
(* The parts share no state; the ones a behaviour is not about stay in     *)
(* their initial state.                                                    *)
(***************************************************************************)
EXTENDS VGridLayout, MediaPatch, PromptExpand

CONSTANTS t1, t2, pyav, decord, utils, qwen

VARIABLE part   \* "layout", "patch" or "expand"

\* Grids shorter than one audio token (1/16 s), the usual 1 s and 2 s, and a
\* bfloat16 fraction that does not divide evenly; tracks shorter than, equal to
\* and longer than the video.
MCSecs == {[num |-> 1, den |-> 16], [num |-> 43, den |-> 64],
           [num |-> 1, den |-> 1], [num |-> 2, den |-> 1]}

\* Batches of one or two prompts of at most two parts: a clip, a bare or a wrapped
\* video, words, or a marker on its own.
MCMaxMedia == [audio |-> 2, image |-> 1, video |-> 2]
Parts == {<<"words">>, <<"audio">>, <<"image">>, <<"video">>, Wrapped, <<"vbos">>, <<"abos">>}
MCSamples == {<<>>} \cup Parts \cup {p \o q : p, q \in Parts}

AnyVideo == CHOOSE video \in VideoInputs : TRUE
AnyCall == [text |-> <<<<>>>>, mode |-> "silent", count |-> [kind \in Kinds |-> 0]]

vars == <<layoutVars, patchVars, expandVars, part>>

Init ==
    /\ part \in {"layout", "patch", "expand"}
    /\ (part = "layout" \/ in = AnyVideo) /\ LayoutInit
    /\ PatchInit
    /\ (part = "expand" \/ input = AnyCall) /\ ExpandInit

Next ==
    \/ part = "layout" /\ LayoutNext /\ UNCHANGED <<patchVars, expandVars, part>>
    \/ part = "patch" /\ PatchNext /\ UNCHANGED <<layoutVars, expandVars, part>>
    \/ part = "expand" /\ ExpandNext /\ UNCHANGED <<layoutVars, patchVars, part>>
    \/ part = "expand" /\ UNCHANGED vars   \* the expansion may have ended

Spec == Init /\ [][Next]_vars /\ PatchFairness
=============================================================================
