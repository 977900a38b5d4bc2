----------------------------- MODULE VGridLayout -----------------------------
(***************************************************************************)
(* The timestamped per-vGrid layout of one vocal video: how its audio      *)
(* tokens are cut into one segment per temporal grid.                      *)
(*                                                                         *)
(* The processor first computes audio_boundaries, one step per grid, and   *)
(* then emits one span per grid                                            *)
(*     <t seconds> vision_bos audio_bos V...V A...A audio_eos vision_eos   *)
(* Both the Hugging Face processor and the vLLM processor run this loop.   *)
(* Spans are abstracted to the half-open interval of audio tokens they     *)
(* hold and the number of video tokens; the timestamp text is left out.    *)
(*                                                                         *)
(* seconds_per_grid is rounded to bfloat16 before the loop, so             *)
(* grid_idx * seconds_per_grid * position_id_per_seconds is a dyadic       *)
(* rational with few fractional bits and int(... + 1e-6) is its floor;     *)
(* the model keeps it as the exact rational secs.num / secs.den.           *)
(***************************************************************************)
EXTENDS Integers, Sequences

CONSTANTS
    GridTs,      \* possible numbers of temporal grids, video_grid_thw[0]
    AudioLens,   \* possible audio token counts of the matching track
    SecsPerGrid, \* possible seconds_per_grid, as records [num, den]
    VideoTokens, \* possible video_tokens_per_grid
    PosPerSec    \* position_id_per_seconds

ASSUME LayoutAssumption ==
    /\ GridTs \subseteq Nat \ {0}
    /\ AudioLens \subseteq Nat
    /\ SecsPerGrid \subseteq [num : Nat \ {0}, den : Nat \ {0}]
    /\ VideoTokens \subseteq Nat
    /\ PosPerSec \in Nat \ {0}

VARIABLES
    in,          \* the processor's arguments for this video
    phase,          \* "boundaries" | "spans" | "done"
    boundaries,  \* audio_boundaries, boundaries[i + 1] is the list's item i
    spans        \* the spans emitted so far

layoutVars == <<in, phase, boundaries, spans>>

VideoInputs == [gridT : GridTs, audioLen : AudioLens, secs : SecsPerGrid,
           perGrid : VideoTokens]

Span == [video : Nat, lo : Nat, hi : Nat]

MaxOf(a, b) == IF a >= b THEN a ELSE b
MinOf(a, b) == IF a <= b THEN a ELSE b

\* Mutants: a cut rounded up instead of down; a segment that starts one token
\* late in every grid but the first.
CutRoundedUp(g) == (g * in.secs.num * PosPerSec + in.secs.den - 1) \div in.secs.den
SpanStartsLate(g) ==
    [video |-> in.perGrid, lo |-> boundaries[g] + MinOf(g - 1, 1), hi |-> boundaries[g + 1]]

\* int(grid_idx * seconds_per_grid * position_id_per_seconds + 1e-6)
Cut(g) == (g * in.secs.num * PosPerSec) \div in.secs.den

-----------------------------------------------------------------------------
LayoutInit ==
    /\ in \in VideoInputs
    /\ phase = "boundaries"
    /\ boundaries = <<0>>
    /\ spans = <<>>

\* boundary = min(audio_len, max(boundary, audio_boundaries[-1])), grid_idx being
\* the length of the list so far.
Clamped(b) == MinOf(in.audioLen, MaxOf(b, boundaries[Len(boundaries)]))

\* One iteration of "for grid_idx in range(1, grid_t)".
AddBoundary ==
    /\ phase = "boundaries"
    /\ Len(boundaries) < in.gridT
    /\ boundaries' = Append(boundaries, Clamped(Cut(Len(boundaries))))
    /\ UNCHANGED <<in, phase, spans>>

\* audio_boundaries.append(audio_len), after the loop.
CloseBoundaries ==
    /\ phase = "boundaries"
    /\ Len(boundaries) >= in.gridT
    /\ boundaries' = Append(boundaries, in.audioLen)
    /\ phase' = "spans"
    /\ UNCHANGED <<in, spans>>

\* One iteration of "for grid_idx in range(grid_t)": the span of the next grid.
SpanOf(g) == [video |-> in.perGrid, lo |-> boundaries[g], hi |-> boundaries[g + 1]]

EmitSpan ==
    /\ phase = "spans"
    /\ Len(spans) < in.gridT
    /\ spans' = Append(spans, SpanOf(Len(spans) + 1))
    /\ UNCHANGED <<in, phase, boundaries>>

FinishLayout ==
    /\ phase = "spans"
    /\ Len(spans) = in.gridT
    /\ phase' = "done"
    /\ UNCHANGED <<in, boundaries, spans>>

LayoutDone == phase = "done" /\ UNCHANGED layoutVars

LayoutNext == AddBoundary \/ CloseBoundaries \/ EmitSpan \/ FinishLayout \/ LayoutDone

LayoutSpec == LayoutInit /\ [][LayoutNext]_layoutVars

-----------------------------------------------------------------------------
LayoutTypeOK ==
    /\ in \in VideoInputs
    /\ phase \in {"boundaries", "spans", "done"}
    /\ boundaries \in Seq(Nat)
    /\ spans \in Seq(Span)

\* Every audio token of the track lies in exactly one span of the finished
\* layout, so the audio embeddings scattered over the prompt are neither lost
\* nor used twice (_generate_video_placeholder emits hi - lo audio tokens).
AudioPartition ==
    phase = "done" =>
        \A a \in 0 .. in.audioLen - 1 :
            \E g \in 1 .. Len(spans) :
                /\ spans[g].lo <= a /\ a < spans[g].hi
                /\ \A k \in 1 .. Len(spans) :
                       spans[k].lo <= a /\ a < spans[k].hi => k = g

\* Audio token a plays from a / PosPerSec to (a + 1) / PosPerSec seconds and grid
\* g starts at (g - 1) * secs. A token in grid g ends after the grid starts and,
\* unless g is the last grid, which takes the rest of the track, ends by the time
\* the next grid starts: a token is never adjacent to frames of another grid.
AudioInItsGrid ==
    \A g \in 1 .. Len(spans) : \A a \in spans[g].lo .. spans[g].hi - 1 :
        /\ (g - 1) * in.secs.num * PosPerSec < (a + 1) * in.secs.den
        /\ g < in.gridT => (a + 1) * in.secs.den <= g * in.secs.num * PosPerSec
=============================================================================
