----------------------------- MODULE MediaPatch -----------------------------
(***************************************************************************)
(* How processor calls of several threads borrow the module-level loaders  *)
(* of transformers. apply_chat_template replaces load_audio while it runs  *)
(* and calls the processor inside; the processor replaces load_video, in   *)
(* every module that holds it, around the video processor. Both do so      *)
(* under one reentrant lock, _VIDEO_PROCESSOR_LOCK, and put back what they *)
(* found, also when the body raises.                                       *)
(*                                                                         *)
(* A loader is identified by what it decodes with: "orig" is the function  *)
(* transformers came with.                                                 *)
(***************************************************************************)
EXTENDS Integers

CONSTANTS
    Threads,   \* threads that call the processor
    Backends,  \* values of video_backend other than None
    Modules    \* the modules that have a load_video

ASSUME MediaPatchAssumption == "orig" \notin Backends

VARIABLES
    owner, depth,  \* the RLock: its holder (a set of at most one) and its count
    loadVideo,     \* load_video of every module
    loadAudio,     \* processing_utils.load_audio
    pc,            \* where each thread is
    call,          \* the arguments of each thread's call
    savedVideo,    \* "originals" of the thread's video context
    savedAudio     \* "original_load_audio" of the thread's audio context

patchVars == <<owner, depth, loadVideo, loadAudio, pc, call, savedVideo, savedAudio>>

Steps == {"idle", "audioEnter", "audioPatch", "loadAudio", "videoEnter", "videoPatch",
          "decode", "videoExit", "audioExit"}
\* A call of the processor itself ("call") or of apply_chat_template, with
\* use_audio_in_video ("vocal") or without ("chat"); videos > 0 when it gets as far as
\* the video processor. Backend "orig" is video_backend = None.
Calls == [kind : {"call", "chat", "vocal"}, videos : 0 .. 1,
          backend : Backends \cup {"orig"}]
NoCall == [kind |-> "call", videos |-> 0, backend |-> "orig"]
Untouched == [mod \in Modules |-> "orig"]

-----------------------------------------------------------------------------
PatchInit ==
    /\ owner = {} /\ depth = 0
    /\ loadVideo = Untouched
    /\ loadAudio = "orig"
    /\ pc = [t \in Threads |-> "idle"]
    /\ call = [t \in Threads |-> NoCall]
    /\ savedVideo = [t \in Threads |-> Untouched]
    /\ savedAudio = [t \in Threads |-> "orig"]

goto(t, step) == pc' = [pc EXCEPT ![t] = step]
loaders == <<loadVideo, loadAudio, savedVideo, savedAudio>>

\* Mutant: a context for None that does not take the lock at all.
VideoEnterUnlocked(t) ==
    /\ pc[t] = "videoEnter" /\ call[t].videos > 0
    /\ \/ /\ call[t].backend = "orig"
          /\ goto(t, "decode")
          /\ UNCHANGED <<owner, depth>>
       \/ /\ call[t].backend # "orig"
          /\ owner \subseteq {t} /\ owner' = {t} /\ depth' = depth + 1
          /\ goto(t, "videoPatch")
    /\ UNCHANGED <<call, loaders>>

\* threading.RLock
Acquire(t) == owner \subseteq {t} /\ owner' = {t} /\ depth' = depth + 1
Release(t) == depth' = depth - 1 /\ owner' = IF depth = 1 THEN {} ELSE owner

\* A call whose arguments are refused before it asks for the lock leaves no trace.
Start(t) ==
    /\ pc[t] = "idle"
    /\ \E new \in Calls :
           /\ call' = [call EXCEPT ![t] = new]
           /\ goto(t, IF new.kind = "call" THEN "videoEnter" ELSE "audioEnter")
    /\ UNCHANGED <<owner, depth, loaders>>

-----------------------------------------------------------------------------
(* _force_transformers_video_audio_loader around apply_chat_template.      *)

AudioEnter(t) ==
    /\ pc[t] = "audioEnter"
    /\ Acquire(t)
    /\ goto(t, IF call[t].kind = "vocal" THEN "audioPatch" ELSE "videoEnter")
    /\ UNCHANGED <<call, loaders>>

AudioPatch(t) ==
    /\ pc[t] = "audioPatch"
    /\ savedAudio' = [savedAudio EXCEPT ![t] = loadAudio]
    /\ loadAudio' = "videoTrack"
    /\ goto(t, "loadAudio")
    /\ UNCHANGED <<owner, depth, call, loadVideo, savedVideo>>

\* Mutant: a load that raises is retried, loader and all, inside the context.
LoadAudioRetries(t) ==
    /\ pc[t] = "loadAudio"
    /\ \E step \in {"videoEnter", "audioPatch"} : goto(t, step)
    /\ UNCHANGED <<owner, depth, call, loaders>>

\* The audio of each video is loaded, or the load raises and the call ends.
LoadAudio(t) ==
    /\ pc[t] = "loadAudio"
    /\ \E step \in {"videoEnter", "audioExit"} : goto(t, step)
    /\ UNCHANGED <<owner, depth, call, loaders>>

AudioExit(t) ==
    /\ pc[t] = "audioExit"
    /\ loadAudio' = IF call[t].kind = "vocal" THEN savedAudio[t] ELSE loadAudio
    /\ Release(t)
    /\ goto(t, "idle")
    /\ UNCHANGED <<call, loadVideo, savedVideo, savedAudio>>

-----------------------------------------------------------------------------
(* _force_transformers_video_backend around the video processor.           *)

\* The context is not entered without videos, or when an argument is refused first.
SkipVideo(t) ==
    /\ pc[t] = "videoEnter" /\ call[t].videos = 0
    /\ goto(t, IF call[t].kind = "call" THEN "idle" ELSE "audioExit")
    /\ UNCHANGED <<owner, depth, call, loaders>>

VideoEnter(t) ==
    /\ pc[t] = "videoEnter" /\ call[t].videos > 0
    /\ Acquire(t)
    /\ goto(t, IF call[t].backend = "orig" THEN "decode" ELSE "videoPatch")
    /\ UNCHANGED <<call, loaders>>

VideoPatch(t) ==
    /\ pc[t] = "videoPatch"
    /\ savedVideo' = [savedVideo EXCEPT ![t] = loadVideo]
    /\ loadVideo' = [mod \in Modules |-> call[t].backend]
    /\ goto(t, "decode")
    /\ UNCHANGED <<owner, depth, call, loadAudio, savedAudio>>

\* The video processor decodes the videos, or raises.
Decode(t) ==
    /\ pc[t] = "decode"
    /\ goto(t, "videoExit")
    /\ UNCHANGED <<owner, depth, call, loaders>>

\* Mutant: only the first module gets its loader back.
RestoreOneModule(t) ==
    [mod \in Modules |-> IF mod = CHOOSE first \in Modules : TRUE
                         THEN savedVideo[t][mod] ELSE loadVideo[mod]]

Restored(t) == savedVideo[t]

VideoExit(t) ==
    /\ pc[t] = "videoExit"
    /\ loadVideo' = IF call[t].backend = "orig" THEN loadVideo ELSE Restored(t)
    /\ Release(t)
    /\ goto(t, IF call[t].kind = "call" THEN "idle" ELSE "audioExit")
    /\ UNCHANGED <<call, loadAudio, savedVideo, savedAudio>>

-----------------------------------------------------------------------------
Proceed(t) ==
    \/ AudioEnter(t) \/ AudioPatch(t) \/ LoadAudio(t) \/ AudioExit(t)
    \/ SkipVideo(t) \/ VideoEnter(t) \/ VideoPatch(t) \/ Decode(t) \/ VideoExit(t)

PatchNext == \E t \in Threads : Start(t) \/ Proceed(t)

PatchSpec == PatchInit /\ [][PatchNext]_patchVars

\* A thread that can go on does; nothing is assumed about who gets a free lock.
PatchFairness == \A t \in Threads : WF_patchVars(Proceed(t))

-----------------------------------------------------------------------------
PatchTypeOK ==
    /\ owner \subseteq Threads /\ depth \in 0 .. 2
    /\ loadVideo \in [Modules -> Backends \cup {"orig"}]
    /\ loadAudio \in {"orig", "videoTrack"}
    /\ pc \in [Threads -> Steps]
    /\ call \in [Threads -> Calls]
    /\ savedVideo \in [Threads -> [Modules -> Backends \cup {"orig"}]]
    /\ savedAudio \in [Threads -> {"orig", "videoTrack"}]

\* Every module decodes with the backend of the call it decodes for, and audio
\* is taken from the video track exactly by the calls that ask for it, whatever
\* the other threads have patched or are about to restore.
OwnLoaders ==
    \A t \in Threads :
        /\ pc[t] = "decode" => loadVideo = [mod \in Modules |-> call[t].backend]
        /\ pc[t] = "loadAudio" => loadAudio = "videoTrack"
        /\ pc[t] = "decode" =>
               loadAudio = IF call[t].kind = "vocal" THEN "videoTrack" ELSE "orig"

\* With no call under the lock transformers is as it was, after any sequence of
\* overlapping, nested and failing calls.
LoadersRestored ==
    owner = {} => loadVideo = Untouched /\ loadAudio = "orig" /\ depth = 0

\* Whoever holds the lock gives it up: the chat template's lock does not shut out
\* the processor call made inside it, and an exception does not leave it taken.
LockComesFree == \A t \in Threads : t \in owner ~> t \notin owner
=============================================================================
