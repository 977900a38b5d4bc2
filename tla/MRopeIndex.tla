----------------------------- MODULE MRopeIndex -----------------------------
(***************************************************************************)
(* The three-dimensional rope positions of a prompt: get_rope_index of     *)
(* src/tlive_omni/modeling_tlive_omni.py and its twin                      *)
(* get_mrope_input_positions of src/vllm/vllm/model_executor/models/       *)
(* tlive_omni.py.  Both walk the prompt from one medium to the next, look  *)
(* for the marks around it and append the positions of the text before it, *)
(* of its opening mark, its content and its closing mark.                  *)
(*                                                                         *)
(* A prompt is given by its items.  A video is one item per temporal grid, *)
(* as the processor writes it, with its sound when the video is vocal.     *)
(* Grids are counted in merged patches.  Every grid has one temporal row,  *)
(* so the temporal index of its tokens is where the grid starts.           *)
(***************************************************************************)
EXTENDS Integers, Sequences, FiniteSets, TLC, SequencesExt, FiniteSetsExt

Item(kind, rows, cols, count) == [kind |-> kind, rows |-> rows, cols |-> cols, count |-> count]
Text(n)        == Item("text", 0, 0, n)
Image(h, w)    == Item("image", h, w, 0)
Video(h, w)    == Item("video", h, w, 0)
Vocal(h, w, n) == Item("vocal", h, w, n)
Audio(n)       == Item("audio", 0, 0, n)

OfKind(items, kinds) == SelectSeq(items, LAMBDA it : it.kind \in kinds)

\* What the processor makes of an item.
Copies(token, n) == [i \in 1 .. n |-> token]
ItemTokens(it) ==
    CASE it.kind = "text"  -> Copies("text", it.count)
      [] it.kind = "image" -> <<"vs">> \o Copies("image", it.rows * it.cols) \o <<"ve">>
      [] it.kind = "video" -> <<"vs">> \o Copies("video", it.rows * it.cols) \o <<"ve">>
      [] it.kind = "audio" -> <<"as">> \o Copies("audio", it.count) \o <<"ae">>
      [] it.kind = "vocal" -> <<"vs", "as">> \o Copies("video", it.rows * it.cols)
                                 \o Copies("audio", it.count) \o <<"ae", "ve">>
TokensOf(items) == FlattenSeq([i \in DOMAIN items |-> ItemTokens(items[i])])

-----------------------------------------------------------------------------
(* Segments of positions.                                                  *)

Line(n, start) == [i \in 1 .. n |-> <<start + i - 1, start + i - 1, start + i - 1>>]

\* Rows of the grid one after the other.
Grid(it, start) ==
    [i \in 1 .. it.rows * it.cols |->
        <<start, start + ((i - 1) \div it.cols), start + ((i - 1) % it.cols)>>]

Highest(seg) == Max(UNION {{seg[i][1], seg[i][2], seg[i][3]} : i \in DOMAIN seg})

\* Position after the last segment that was appended; empty ones are not.
After(segs) == IF segs = << >> THEN 0 ELSE Highest(Last(segs)) + 1
Segment(segs, seg) == IF seg = << >> THEN segs ELSE Append(segs, seg)

-----------------------------------------------------------------------------
(* One turn of the loop.  st is the first token not yet indexed.           *)

\* Where a mark is next found at or after st, past the end if nowhere.
IndexFrom(tokens, mark, st) ==
    Min({i \in st .. Len(tokens) : tokens[i] = mark} \cup {Len(tokens) + 2})

\* Media are counted by their closing marks: a vocal grid is one whose audio
\* mark closes right before the vision mark.
EndsWith(tokens, t) ==
    Cardinality({i \in 2 .. Len(tokens) : tokens[i] = "ve" /\ tokens[i - 1] = t})
Starts(tokens) == Cardinality({i \in DOMAIN tokens : tokens[i] = "as"})

Walk(tokens, vocal) ==
    LET sounding == EndsWith(tokens, "ae") IN
    [st |-> 1, segs |-> << >>, img |-> 1, vid |-> 1, ok |-> TRUE,
     images |-> EndsWith(tokens, "image"),
     videos |-> IF vocal /\ sounding > 0 THEN sounding ELSE EndsWith(tokens, "video"),
     audios |-> Starts(tokens) - sounding]

\* The next medium: where its vision mark and its audio mark are, as far as
\* media of that kind remain.  An audio mark inside a vision span counts
\* although no audio item remains: it is the sound of a vocal video.
VisionStart(tokens, a) ==
    IF a.videos > 0 \/ a.images > 0 THEN IndexFrom(tokens, "vs", a.st) ELSE Len(tokens) + 2
VisionEnd(tokens, a) ==
    IF a.videos > 0 \/ a.images > 0 THEN IndexFrom(tokens, "ve", a.st) ELSE Len(tokens) + 2
AudioStart(tokens, a, vocal) ==
    LET next == IndexFrom(tokens, "as", a.st) IN
    IF \/ vocal /\ VisionStart(tokens, a) < next /\ next < VisionEnd(tokens, a)
       \/ a.audios > 0
    THEN next
    ELSE Len(tokens) + 2

\* The text before the medium and its opening mark.
UpTo(a, from) ==
    LET text == Segment(a.segs, Line(from - a.st, After(a.segs)))
        start == After(a.segs) + from - a.st
    IN  Segment(text, Line(1, start))

\* The closing marks go after what was appended last.
Closed(segs, n) == Segment(segs, Line(n, After(segs)))

AudioSpan(tokens, a, from) ==
    LET end == IndexFrom(tokens, "ae", from)
        open == UpTo(a, from)
        segs == Segment(open, Line(end - from - 1, After(open)))
    IN  [a EXCEPT !.segs = Closed(segs, 1), !.st = end + 1, !.audios = @ - 1]

ImageSpan(a, from, it) ==
    LET open == UpTo(a, from)
        segs == Segment(open, Grid(it, After(open)))
    IN  [a EXCEPT !.segs = Closed(segs, 1), !.st = from + it.rows * it.cols + 2,
                  !.images = @ - 1, !.img = @ + 1]

VideoSpan(a, from, it) ==
    LET open == UpTo(a, from)
        segs == Segment(open, Grid(it, After(open)))
    IN  [a EXCEPT !.segs = Closed(segs, 1), !.st = from + it.rows * it.cols + 2,
                  !.videos = @ - 1, !.vid = @ + 1]

\* Mutant: the sound starts after the grid.
SoundAfterGrid(segs, n, content) == Segment(segs, Line(n, After(segs)))

\* Sound and grid of a vocal video start at the same position.
SoundOver(segs, n, content) == Segment(segs, Line(n, content))

\* The checks of the span are that the marks are adjacent and that it holds one
\* grid and then nothing but sound.
VocalSpan(tokens, a, from, it) ==
    LET open == UpTo(a, from)
        content == After(open) + 1
        end == IndexFrom(tokens, "ae", from + 1)
        pads == Cardinality({i \in from + 2 .. end - 1 : tokens[i] = "video"})
        grid == Segment(Segment(open, Line(1, After(open))), Grid(it, content))
        segs == SoundOver(grid, end - from - 2 - pads, content)
    IN  [a EXCEPT !.segs = Closed(segs, 2), !.st = end + 2,
                  !.videos = @ - 1, !.vid = @ + 1,
                  !.ok = @ /\ tokens[from + 1] = "as" /\ tokens[end + 1] = "ve"
                           /\ pads = it.rows * it.cols
                           /\ \A i \in from + 2 + pads .. end - 1 : tokens[i] = "audio"]

NextSpan(tokens, imgs, vids, vocal, a) ==
    LET v == VisionStart(tokens, a)
        s == AudioStart(tokens, a, vocal)
    IN  CASE s <= v -> AudioSpan(tokens, a, s)
          [] s > v /\ tokens[v + 1] = "image" -> ImageSpan(a, v, imgs[a.img])
          [] s > v /\ tokens[v + 1] # "image" /\ VisionEnd(tokens, a) < s -> VideoSpan(a, v, vids[a.vid])
          [] s > v /\ tokens[v + 1] # "image" /\ VisionEnd(tokens, a) > s -> VocalSpan(tokens, a, v, vids[a.vid])

\* The difference to plain counting, from the highest position.
DeltaOf(pos) == Highest(pos) + 1 - Len(pos)

HasVision(items) == OfKind(items, {"image", "video", "vocal"}) # << >>

\* The whole prompt: the positions, the difference, and whether every check
\* passed.  Without image and video it is plain counting.
RopeIndex(items) ==
    LET tokens == TokensOf(items)
        imgs == OfKind(items, {"image"})
        vids == OfKind(items, {"video", "vocal"})
        vocal == OfKind(items, {"vocal"}) # << >>
        start == Walk(tokens, vocal)
        a == FoldLeft(LAMBDA acc, k : NextSpan(tokens, imgs, vids, vocal, acc), start,
                      [k \in 1 .. start.images + start.videos + start.audios |-> k])
        all == FlattenSeq(Segment(a.segs, Line(Len(tokens) - a.st + 1, After(a.segs))))
    IN  IF HasVision(items)
        THEN [pos |-> all, delta |-> DeltaOf(all),
              ok |-> a.ok /\ Len(all) = Len(tokens)]
        ELSE [pos |-> Line(Len(tokens), 0), delta |-> 0, ok |-> TRUE]

-----------------------------------------------------------------------------
(* What the positions should be, item by item: everything starts one past  *)
(* the highest position of what comes before it, and the sound of a grid   *)
(* starts with the grid.                                                   *)

\* The token of row r and column c is number r * cols + c of its grid.
DocumentedGrid(it, p) ==
    [k \in 1 .. it.rows * it.cols |->
        CHOOSE q \in {p} \X (p .. p + it.rows - 1) \X (p .. p + it.cols - 1) :
            (q[2] - p) * it.cols + (q[3] - p) = k - 1]

DocumentedItem(it, p) ==
    LET inside == CASE it.kind \in {"image", "video"} -> DocumentedGrid(it, p + 1)
                    [] it.kind = "audio" -> Line(it.count, p + 1)
                    [] it.kind = "vocal" -> Line(1, p + 1) \o DocumentedGrid(it, p + 2) \o Line(it.count, p + 2)
                    [] OTHER -> << >>
        opened == Line(1, p) \o inside
    IN  IF it.kind = "text" THEN Line(it.count, p)
        ELSE opened \o Line(IF it.kind = "vocal" THEN 2 ELSE 1, Highest(opened) + 1)

Documented(items) ==
    FoldLeft(LAMBDA acc, it : acc \o DocumentedItem(it, IF acc = << >> THEN 0 ELSE Highest(acc) + 1),
             << >>, items)

\* The sound of a vocal grid reaches as far as the grid, or there is none.
SoundReaches(items) ==
    \A i \in DOMAIN items : items[i].kind = "vocal" =>
        items[i].count = 0 \/ items[i].count >= Max({items[i].rows, items[i].cols})
=============================================================================
