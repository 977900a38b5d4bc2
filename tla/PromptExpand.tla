---------------------------- MODULE PromptExpand ----------------------------
(***************************************************************************)
(* replace_multimodal_special_tokens: the media tokens of a batch of       *)
(* prompts are replaced, one at a time, by the placeholders of the media   *)
(* supplied with the call. Three cursors run over the whole batch; a vocal *)
(* video takes the next audio track as well as the next video.             *)
(*                                                                         *)
(* A prompt is a sequence of tokens. All placeholder tokens of one medium  *)
(* are one element, which remembers the medium (item) and, for a vocal     *)
(* video, the audio track woven into it; the spans of a video bring their  *)
(* own markers, as many opening as closing ones (VGridLayout).             *)
(***************************************************************************)
EXTENDS Integers, FiniteSets, Sequences, SequencesExt

CONSTANTS
    Samples,   \* possible prompts, sequences over Tokens
    MaxBatch,  \* longest batch
    MaxMedia   \* most media of each kind, a record over Kinds

Kinds == {"audio", "image", "video"}
Tokens == Kinds \cup {"words", "vbos", "veos", "abos", "aeos"}
Placeholder == [audio |-> "audioPlaceholder", image |-> "imagePlaceholder",
                video |-> "videoPlaceholder"]

ASSUME PromptExpandAssumption ==
    /\ Samples \subseteq Seq(Tokens)
    /\ MaxBatch \in Nat \ {0}
    /\ \A kind \in Kinds : MaxMedia[kind] \in Nat

VARIABLES
    input,       \* the call: text, use_audio_in_video, how many media of each kind
    stage,       \* "next" sample, "scan" its tokens, "done"
    sampleNo,    \* samples begun
    sample,      \* the sample as replaced so far
    positions,   \* where its text has media tokens that are still to be replaced
    videoCount,  \* sample_video_count
    cursor,      \* audio_idx, image_idx, video_idx
    processed,   \* processed_text
    outcome      \* "running", "returned", "raised"

expandVars == <<input, stage, sampleNo, sample, positions, videoCount, cursor, processed, outcome>>

\* __call__ has refused vocal videos without any audio.
CallInputs ==
    {args \in [text : UNION {[1 .. n -> Samples] : n \in 1 .. MaxBatch},
               mode : {"silent", "vocal"},
               count : [Kinds -> UNION {0 .. MaxMedia[kind] : kind \in Kinds}]] :
        /\ \A kind \in Kinds : args.count[kind] <= MaxMedia[kind]
        /\ args.mode = "vocal" /\ args.count["video"] > 0 => args.count["audio"] > 0}

Raw(token) == [tok |-> token, item |-> 0, track |-> 0]
Toks(elements) == [i \in DOMAIN elements |-> elements[i].tok]
Vocal == input.mode = "vocal"

\* Where a pattern begins in a prompt.
Matches(pattern, tokens) ==
    {i \in 1 .. Len(tokens) - Len(pattern) + 1 :
        \A j \in DOMAIN pattern : tokens[i + j - 1] = pattern[j]}

\* str.replace(pattern, new, 1)
ReplaceOnce(pattern, new) ==
    LET found == Matches(pattern, Toks(sample))
    IN  IF found = {} THEN sample
        ELSE SubSeq(sample, 1, Min(found) - 1) \o <<new>>
                 \o SubSeq(sample, Min(found) + Len(pattern), Len(sample))

\* The placeholders become the tokens they stand for.
TokensRestored ==
    [i \in DOMAIN sample |->
        [sample[i] EXCEPT !.tok = IF \E kind \in Kinds : @ = Placeholder[kind]
                                  THEN CHOOSE kind \in Kinds : @ = Placeholder[kind] ELSE @]]

-----------------------------------------------------------------------------
ExpandInit ==
    /\ input \in CallInputs
    /\ stage = "next" /\ outcome = "running"
    /\ sampleNo = 0 /\ sample = <<>> /\ positions = {} /\ videoCount = 0
    /\ cursor = [kind \in Kinds |-> 0]
    /\ processed = <<>>

\* Mutant: the cursors start again with every sample.
BeginSampleAfresh ==
    /\ stage = "next" /\ sampleNo < Len(input.text)
    /\ sampleNo' = sampleNo + 1
    /\ LET tokens == input.text[sampleNo + 1] IN
           /\ sample' = [i \in DOMAIN tokens |-> Raw(tokens[i])]
           /\ positions' = {i \in DOMAIN tokens : tokens[i] \in Kinds}
    /\ videoCount' = 0 /\ stage' = "scan"
    /\ cursor' = [kind \in Kinds |-> 0]
    /\ UNCHANGED <<input, processed, outcome>>

BeginSample ==
    /\ stage = "next" /\ sampleNo < Len(input.text)
    /\ sampleNo' = sampleNo + 1
    /\ LET tokens == input.text[sampleNo + 1] IN
           /\ sample' = [i \in DOMAIN tokens |-> Raw(tokens[i])]
           /\ positions' = {i \in DOMAIN tokens : tokens[i] \in Kinds}
    /\ videoCount' = 0 /\ stage' = "scan"
    /\ UNCHANGED <<input, cursor, processed, outcome>>

UsedUp(kind) == cursor[kind] >= input.count[kind]
AtToken(kind) ==
    stage = "scan" /\ positions # {} /\ input.text[sampleNo][Min(positions)] = kind

Raise ==
    /\ outcome' = "raised" /\ stage' = "done"
    /\ UNCHANGED <<input, sampleNo, sample, positions, videoCount, cursor>>

\* More tokens than media, or a vocal video without a track.
RaiseShort ==
    /\ \E kind \in Kinds :
           /\ AtToken(kind)
           /\ UsedUp(kind) \/ (kind = "video" /\ Vocal /\ UsedUp("audio"))
    /\ Raise /\ UNCHANGED processed

PlaceClip(kind) ==
    /\ AtToken(kind) /\ ~UsedUp(kind)
    /\ sample' = ReplaceOnce(<<kind>>, [tok |-> Placeholder[kind], item |-> cursor[kind] + 1,
                                        track |-> 0])
    /\ cursor' = [cursor EXCEPT ![kind] = @ + 1]
    /\ positions' = positions \ {Min(positions)}
    /\ UNCHANGED <<input, stage, sampleNo, videoCount, processed, outcome>>

\* A wrapped token loses its markers; the first wrapped one is taken, wherever the
\* scan is, and a bare one only when none is left.
Wrapped == <<"vbos", "video", "veos">>
VideoPattern == IF Matches(Wrapped, Toks(sample)) # {} THEN Wrapped ELSE <<"video">>

\* Mutant: the audio cursor stays behind.
PlaceVideoKeepsTrack ==
    /\ AtToken("video") /\ ~UsedUp("video") /\ (Vocal => ~UsedUp("audio"))
    /\ sample' = ReplaceOnce(VideoPattern,
                             [tok |-> Placeholder["video"], item |-> cursor["video"] + 1,
                              track |-> IF Vocal THEN cursor["audio"] + 1 ELSE 0])
    /\ cursor' = [cursor EXCEPT !["video"] = @ + 1]
    /\ positions' = positions \ {Min(positions)}
    /\ videoCount' = videoCount + 1
    /\ UNCHANGED <<input, stage, sampleNo, processed, outcome>>

PlaceVideo ==
    /\ AtToken("video") /\ ~UsedUp("video") /\ (Vocal => ~UsedUp("audio"))
    /\ sample' = ReplaceOnce(VideoPattern,
                             [tok |-> Placeholder["video"], item |-> cursor["video"] + 1,
                              track |-> IF Vocal THEN cursor["audio"] + 1 ELSE 0])
    /\ cursor' = [cursor EXCEPT !["video"] = @ + 1, !["audio"] = IF Vocal THEN @ + 1 ELSE @]
    /\ positions' = positions \ {Min(positions)}
    /\ videoCount' = videoCount + 1
    /\ UNCHANGED <<input, stage, sampleNo, processed, outcome>>

\* _validate_video_audio_tokens
Occurrences(token, tokens) == Cardinality({i \in DOMAIN tokens : tokens[i] = token})
Balanced(tokens) ==
    /\ Occurrences("vbos", tokens) = Occurrences("veos", tokens)
    /\ Occurrences("abos", tokens) = Occurrences("aeos", tokens)

\* Mutant: samples without video are validated too.
MarkersWrongAlways == Vocal /\ ~Balanced(Toks(sample))

MarkersWrong == Vocal /\ videoCount > 0 /\ ~Balanced(Toks(sample))

EndSample ==
    /\ stage = "scan" /\ positions = {}
    /\ processed' = Append(processed, TokensRestored)
    /\ \/ MarkersWrong /\ Raise
       \/ /\ ~MarkersWrong
          /\ stage' = "next"
          /\ UNCHANGED <<input, sampleNo, sample, positions, videoCount, cursor, outcome>>

\* The counts must agree, unless every prompt is empty: a call for the media alone.
Unconsumed == \E kind \in Kinds : cursor[kind] # input.count[kind]
MediaOnly == \A i \in DOMAIN input.text : input.text[i] = <<>>

FinishCall ==
    /\ stage = "next" /\ sampleNo = Len(input.text)
    /\ UNCHANGED processed
    /\ \/ Unconsumed /\ ~MediaOnly /\ Raise
       \/ /\ ~Unconsumed \/ MediaOnly
          /\ outcome' = "returned" /\ stage' = "done"
          /\ UNCHANGED <<input, sampleNo, sample, positions, videoCount, cursor>>

ExpandNext ==
    \/ BeginSample \/ RaiseShort
    \/ \E kind \in {"audio", "image"} : PlaceClip(kind)
    \/ PlaceVideo \/ EndSample \/ FinishCall

ExpandSpec == ExpandInit /\ [][ExpandNext]_expandVars

-----------------------------------------------------------------------------
\* The medium of one kind that an element of a returned prompt shows, if any; the
\* track of a vocal video counts among the audio.
Shown(kind, element) ==
    IF element.tok = kind THEN element.item ELSE IF kind = "audio" THEN element.track ELSE 0

\* The elements of the returned prompts, the ones that show a medium, and the order
\* in which they are read.
Places(texts) == UNION {{i} \X DOMAIN texts[i] : i \in DOMAIN texts}
ShownAt(kind, place) == Shown(kind, processed[place[1]][place[2]])
Showing(kind) == {place \in Places(processed) : ShownAt(kind, place) > 0}
Earlier(p, q) == p[1] < q[1] \/ (p[1] = q[1] /\ p[2] < q[2])

\* A call that returns with a prompt has shown every medium, and every audio track
\* of a vocal video, exactly once, and left no media token without its medium.
EveryMediumPlacedOnce ==
    outcome = "returned" /\ (\E i \in DOMAIN input.text : input.text[i] # <<>>) =>
        /\ \A kind \in Kinds :
               /\ {ShownAt(kind, place) : place \in Showing(kind)} = 1 .. input.count[kind]
               /\ \A p, q \in Showing(kind) : ShownAt(kind, p) = ShownAt(kind, q) => p = q
        /\ \A i \in DOMAIN processed : \A j \in DOMAIN processed[i] :
               processed[i][j].tok \in Kinds => processed[i][j].item > 0

\* A prompt that writes some videos with markers and some without.
Mixed(tokens) ==
    /\ Matches(Wrapped, tokens) # {}
    /\ \E i \in DOMAIN tokens : tokens[i] = "video" /\ i - 1 \notin Matches(Wrapped, tokens)

\* Over the whole batch the media appear in the order of the lists supplied, none
\* left out, in the prompts that write all their videos the same way.
MediaInTextOrder ==
    (\A i \in DOMAIN input.text : ~Mixed(input.text[i])) =>
        \A kind \in Kinds : \A p \in Showing(kind) :
            /\ \A q \in Showing(kind) : Earlier(p, q) => ShownAt(kind, p) < ShownAt(kind, q)
            /\ \A n \in 1 .. ShownAt(kind, p) : \E q \in Showing(kind) : ShownAt(kind, q) = n

\* How many tokens of a kind the prompts of the call hold.
Asked(kind) ==
    Cardinality({place \in Places(input.text) : input.text[place[1]][place[2]] = kind})

\* The call returns exactly when the prompts ask for what is supplied, one track more
\* for every vocal video, and every prompt with a vocal video closes the markers it
\* opens: nothing is refused or let through because of where in the batch it stands.
ReturnsExactlyOnMatch ==
    LET matches ==
            /\ Asked("image") = input.count["image"]
            /\ Asked("video") = input.count["video"]
            /\ Asked("audio") + (IF Vocal THEN Asked("video") ELSE 0) = input.count["audio"]
            /\ \A i \in DOMAIN input.text :
                   Vocal /\ Occurrences("video", input.text[i]) > 0 => Balanced(input.text[i])
    IN  stage = "done" => (outcome = "returned" <=> matches \/ MediaOnly)
=============================================================================
