--------------------------- MODULE ExportPictures ---------------------------
(* What an export shows: the pictures of a call of export_project            *)
(* (ExportProject), made by the render session (core/src/export/renderer.cpp)*)
(* with one decoder for each video track (VideoDecoder). A frame with one    *)
(* clip on it is decoded on the GPU and given to the encoder as it is; any   *)
(* other, and one the pump cannot feed that way, is composited from all      *)
(* tracks. Both ways move the same decoders.                                 *)
(*                                                                           *)
(* The clips are cut from one film; the export has the rate of the sequence, *)
(* so frame f of the export is frame f of the timeline.                      *)
EXTENDS ExportProject, VideoDecoder

CONSTANTS
    Tracks,       \* the video tracks that are not locked, 1..n
    Timelines,    \* what may be exported: the clips of each track
    Durations     \* what the container may state as the length of the film

VARIABLES
    timeline,     \* the project
    film,         \* [declared, hw]: what opening the file finds
    decoders,     \* tracks_: for each track its decoder and the clip it is for
    pictures      \* for each frame rendered, what each track shows in it

pictureVars == <<projectVars, timeline, film, decoders, pictures>>

NoClip == [in |-> 0, out |-> 0, src |-> 0, num |-> 1, den |-> 1, on |-> FALSE]
Closed == [at |-> None]
NoPicture == [t \in Tracks |-> None]

\* Track::clip_at
ClipAt(t, tl) ==
    IF \E c \in timeline[t] : c.in <= tl /\ tl < c.out
    THEN CHOOSE c \in timeline[t] : c.in <= tl /\ tl < c.out
    ELSE NoClip

Covered(tl) == {t \in Tracks : ClipAt(t, tl) # NoClip}
Showing(tl) == {t \in Tracks : ClipAt(t, tl).on}

\* clip_src_frame: the offset into the clip times its speed and the ratio of
\* the rates, num / den in all, rounded.
SrcFrame(c, tl) == c.src + (2 * (tl - c.in) * c.num + c.den) \div (2 * c.den)

\* The clips of a track as the edit keeps them: each begins inside the film, none
\* overlaps another, and one that goes on behind the end of the film is not faster
\* than a seek is far (the edit keeps a clip's speed at kSpeedMax, 10, or below).
Clips == [in : Nat, out : Nat, src : 0..Last, num : Nat \ {0}, den : Nat \ {0}, on : BOOLEAN]

Cut(clips) ==
    /\ clips \subseteq Clips
    /\ \A c, d \in clips : d.in < c.out /\ c.in < d.out => d = c
    /\ \A c \in clips : SrcFrame(c, c.out - 1) > Last => c.num <= Far * c.den

ASSUME PicturesAssumption ==
    /\ Tracks \subseteq Nat /\ IsFiniteSet(Tracks)
    /\ \A tl \in Timelines : \A t \in Tracks : Cut(tl[t])

\* Mutant: the decoder of a track is kept from one clip to the next.
OpenedOnce(slot, c) ==
    IF slot # Closed THEN slot ELSE [at |-> c.in, dec |-> Fresh(film.declared, film.hw)]

\* A track whose clip is another one opens a decoder of its own.
Opened(slot, c) ==
    IF slot.at = c.in THEN slot ELSE [at |-> c.in, dec |-> Fresh(film.declared, film.hw)]

\* RenderSession::frame_gpu: one clip in all, on the first track that has one.
FrameGpu(decs, tl) ==
    LET first == CHOOSE t \in Covered(tl) : \A u \in Covered(tl) : t <= u
        c == ClipAt(first, tl)
        slot == Opened(decs[first], c)
        r == DecodeToHw(slot.dec, SrcFrame(c, tl))
    IN  IF Cardinality(Showing(tl)) = 1 /\ c.on
        THEN [ok |-> r.pic # None,
              decs |-> [decs EXCEPT ![first] = [slot EXCEPT !.dec = r.dec]],
              pics |-> [NoPicture EXCEPT ![first] = r.pic]]
        ELSE [ok |-> FALSE, decs |-> decs, pics |-> NoPicture]

\* RenderSession::frame: every track that shows a clip decodes its frame, the
\* others close their decoder.
Composite(decs, tl) ==
    LET slot == [t \in Showing(tl) |-> Opened(decs[t], ClipAt(t, tl))]
        r == [t \in Showing(tl) |->
                 DecodeToFrame(slot[t].dec, SrcFrame(ClipAt(t, tl), tl))]
    IN  [decs |-> [t \in Tracks |-> IF t \in Showing(tl) THEN [slot[t] EXCEPT !.dec = r[t].dec]
                                    ELSE Closed],
         pics |-> [t \in Tracks |-> IF t \in Showing(tl) THEN r[t].pic ELSE None]]

Shows(tl, made) ==
    /\ decoders' = made.decs
    /\ pictures' = [pictures EXCEPT ![tl] = made.pics]
    /\ UNCHANGED <<timeline, film>>
-----------------------------------------------------------------------------
PicturesInit ==
    /\ ProjectInit
    /\ timeline \in Timelines
    /\ film \in [declared : Durations, hw : BOOLEAN]
    /\ decoders = [t \in Tracks |-> Closed]
    /\ pictures = [n \in Frames |-> NoPicture]

\* produce_cuda and produce_vaapi: the frame from the GPU as it is, if there is
\* one, or a composite: for a frame the GPU does not give, one the pump does not
\* take (a grade, a fade or a title, an odd size) and when the pool has none.
Produce ==
    /\ WithThreads(Render)
    /\ LET gpu == FrameGpu(decoders, f)
       IN  \/ gpu.ok /\ inHand' # <<Miss>> /\ Shows(f, gpu)
           \/ Shows(f, Composite(gpu.decs, f))

\* produce_software
ProduceAlone ==
    /\ AlonePass
    /\ IF frame < Total THEN Shows(frame, Composite(decoders, frame))
       ELSE UNCHANGED <<timeline, film, decoders, pictures>>

\* The steps of the call in which no picture is made.
Others ==
    \/ SetUp \/ WithThreads(LoopTest \/ Take \/ TakeWait \/ Encode \/ Join) \/ AloneTest \/ Finish
    \/ WithThreads(RenderedAll \/ PutCancelled \/ Put \/ PutWait \/ ProducerDone)
    \/ WithThreads(SpuriousWake)
    \/ Cancel /\ UNCHANGED <<settings, stage, held>>

NoneMade == UNCHANGED <<timeline, film, decoders, pictures>>

PicturesNext == Produce \/ ProduceAlone \/ (Others /\ NoneMade)

PicturesSpec == PicturesInit /\ [][PicturesNext]_pictureVars /\ Fairness
-----------------------------------------------------------------------------
PicturesTypeOK ==
    /\ ProjectTypeOK
    /\ timeline \in Timelines
    /\ film \in [declared : Durations, hw : BOOLEAN]
    /\ pictures \in [Frames -> [Tracks -> 0..Last \cup {None}]]

\* What frame tl of the timeline is: the frame each clip has there, or the last
\* of the film where a clip is longer.
Due(tl) ==
    [t \in Tracks |-> LET n == SrcFrame(ClipAt(t, tl), tl)
                      IN  IF t \notin Showing(tl) THEN None
                          ELSE IF n <= Last THEN n ELSE Last]

Slow == \E t \in Tracks : \E c \in timeline[t] : c.on /\ c.num < c.den

\* Every frame the encoder is given shows what the timeline has there, across
\* cuts, overlaps and the end of the film, however frames made on the GPU and
\* composites alternate. (A clip slower than the sequence has a frame more than
\* once, and decode_to_hw, near its position, gives the next one instead.)
DuePictures ==
    ~(settings.gpu /\ film.hw /\ Slow) =>
        \A i \in 1..Len(sent) : pictures[sent[i]] = Due(sent[i])
=============================================================================
