--------------------------- MODULE TimelineDecoder ---------------------------
(***************************************************************************)
(* The decoder of the timeline, gui/src/features/playback/                 *)
(* timeline_decoder.cpp: what it decodes, what it keeps, and the thread    *)
(* that decodes a transition before the playhead gets there.               *)
(*                                                                         *)
(* The calls are those of the playback worker, one after the other; the    *)
(* bake thread runs beside it.  bake_mutex_ guards the job, the result and *)
(* the two flags; a call is cut where it lets the mutex go.                *)
(*                                                                         *)
(* The timeline is the one transitions are baked for: a clip A from 0 to   *)
(* Cut, then a clip B, both of the one medium at their natural speed.  A   *)
(* picture is the file it was decoded from and the number of the frame in  *)
(* it; the film goes on beyond the clips at both ends.                     *)
(***************************************************************************)
EXTENDS Integers, Sequences, FiniteSets, Functions

CONSTANTS
    Files,       \* what the medium's path may be
    Cut,         \* tl_out of A and tl_in of B
    Fps,         \* frames per second, by the file of the medium, ...
    SeqFps,      \* ... and of the sequence
    ClipsA,      \* the src_in, enabled and transition_out_duration (0: there is
                 \* none) A may have
    SrcB,        \* the src_in B may have
    Playheads,   \* positions frame() is asked for, ...
    Scrubs,      \* ... and preview()
    Lead,        \* kTransitionBakeLead
    BakeMax,     \* kTransitionBakeMaxFrames
    PreviewMax,  \* kPreviewCacheMax
    FrameBytes, MaxBytes,   \* of the frame cache
    FileLooks,   \* looks A may have in a project file, none of them a committed one
    MaxGrades,   \* bound: grades committed
    Black,       \* the picture of a clip that is disabled or has none
    Null

ASSUME DecoderAssumption ==
    /\ Cut \in Nat \ {0} /\ SeqFps \in Nat \ {0} /\ Fps \in [Files -> Nat \ {0}]
    /\ ClipsA \subseteq [src : Nat, on : BOOLEAN, len : 0 .. Cut] /\ SrcB \subseteq Nat
    /\ Playheads \subseteq Nat /\ Scrubs \subseteq Nat /\ Lead \in Nat /\ BakeMax \in Nat
    /\ PreviewMax \in Nat \ {0} /\ FrameBytes \in Nat \ {0} /\ MaxBytes \in Nat
    /\ 0 \notin FileLooks /\ MaxGrades \in Nat

VARIABLES
    proj,      \* project_ of the worker: the file of the medium and the clips
    slot,      \* slots_: the file the decoder of the medium is open on
    bSlot,     \* b_slots_: that of the second decoder
    cache,     \* the frame cache of the slot
    previews,  \* preview_cache_ and preview_lru_
    luts,      \* grade_lut_cache_: the look by the change_seq of the clip
    grades,    \* grade_seq of the color page: the grades committed
    wpc,       \* where the worker is in its call
    head,      \* the position frame() was asked for, while it is at it
    out,       \* the frame of the last call, until the next
    bpc,       \* where the bake thread is; "none": there is none
    job,       \* bake_job_
    baking,    \* the job the thread works on, ...
    planes,    \* ... and the pictures of A and of B it has so far
    inflight,  \* bake_inflight_
    stop,      \* bake_stop_
    result     \* bake_result_

keptVars == <<slot, bSlot, cache, previews, luts>>
bakeVars == <<bpc, job, baking, planes, inflight, stop, result>>
vars == <<proj, keptVars, grades, wpc, head, out, bakeVars>>

Pictures == Files \X Int

FC == INSTANCE FrameCache WITH Numbers <- Int

\* A clip has a look under a change_seq; look 0 is no grade.
Ungraded == [look |-> 0, seq |-> 0]

ClipA(c, grade) == [src |-> c.src, on |-> c.on, len |-> c.len, grade |-> grade]

NoPreviews == [map |-> <<>>, lru |-> <<>>]

Init ==
    /\ \E f \in Files, c \in ClipsA, t \in SrcB :
          /\ proj = [file |-> f, a |-> ClipA(c, Ungraded), b |-> t]
          /\ slot = f
    /\ bSlot = Null /\ cache = FC!NewCache /\ previews = NoPreviews /\ luts = <<>>
    /\ grades = 0
    /\ wpc = "idle" /\ head = Null /\ out = Null
    /\ bpc = "none" /\ job = Null /\ baking = Null /\ planes = <<>>
    /\ inflight = FALSE /\ stop = FALSE /\ result = Null
-----------------------------------------------------------------------------
(* Which frame of the medium is due *)

WinStart(p) == Cut - p.a.len
InTransition(p, f) == p.a.len > 0 /\ f \in WinStart(p) .. Cut - 1

\* llround(n * of / per), exact where the code has doubles.
Scaled(n, of, per) ==
    IF n >= 0 THEN (2 * n * of + per) \div (2 * per)
    ELSE -((2 * (-n) * of + per) \div (2 * per))

\* seq_to_src_frame: the frame of the medium n frames of the sequence after the
\* start of a clip; that of A and of B.
MediaFrame(file, src, n) == src + Scaled(n, Fps[file], SeqFps)
AFrame(p, f) == MediaFrame(p.file, p.a.src, f)
BFrame(p, f) == MediaFrame(p.file, p.b, f - Cut)

\* In the transition B runs towards the cut at the pace of its medium.
BSeq(file, f) ==
    LET n == Cut + Scaled(f - Cut, SeqFps, Fps[file]) IN IF n < 0 THEN 0 ELSE n
BFrameIn(p, f) == BFrame(p, BSeq(p.file, f))

\* The frame due when the clip at the top is alone.
TopFrame(p, f) == IF f < Cut THEN AFrame(p, f) ELSE BFrame(p, f)
TopOn(p, f) == f < Cut => p.a.on

\* Mutant: the look of a clip is kept whatever its change_seq.
LookOfClip(p, known) ==
    LET g == p.a.grade
    IN IF g.look = 0 THEN 0
       ELSE IF DOMAIN known # {} THEN known[CHOOSE s \in DOMAIN known : TRUE] ELSE g.look

\* grade_lut_for: the look of A, baked once for its change_seq.
Look(p, known) ==
    LET g == p.a.grade
    IN IF g.look = 0 THEN 0 ELSE IF g.seq \in DOMAIN known THEN known[g.seq] ELSE g.look

Learnt(p, known) ==
    LET g == p.a.grade
    IN IF g.look = 0 THEN known
       ELSE [s \in DOMAIN known \cup {g.seq} |-> IF s = g.seq THEN Look(p, known) ELSE known[s]]
-----------------------------------------------------------------------------
(* Decoding *)

\* decode_nv12: on the GPU; it may fail, and it does without a device that
\* is supported, for a clip that is disabled and for a medium that is not open.
Nv12(from, enabled, n) ==
    IF from = Null \/ ~enabled THEN {Null} ELSE {Null, <<from, n>>}

\* decode_to_frame: nothing, the frame asked for, or the last one before it.
DecodedTo(n) == {slot} \X (IF n > 0 THEN {n - 1, n} ELSE {n})

\* decode at full size: from the frame cache of the slot, or decoded, and kept
\* if it is the frame that was asked for.  Both what it returns and the cache
\* it leaves.
Decoded(c, enabled, n) ==
    IF ~enabled THEN {<<Black, c>>}
    ELSE IF slot = Null THEN {<<Null, c>>}
    ELSE IF FC!Has(c, n) THEN {<<c.map[n], FC!Got(c, n)>>}
    ELSE {<<Null, c>>} \cup {<<pic, IF pic[2] = n THEN FC!Put(c, n, pic) ELSE c>> : pic \in DecodedTo(n)}

\* decode for a preview: through preview_cache_.
Used(pv, n) == [pv EXCEPT !.lru = FC!ToEnd(@, n)]

Kept(pv, n, pic) ==
    LET all == Append(pv.lru, n)
        lru == IF Len(all) > PreviewMax THEN Tail(all) ELSE all
    IN [map |-> [m \in Range(lru) |-> IF m = n THEN pic ELSE pv.map[m]], lru |-> lru]

Previewed(pv, enabled, n) ==
    IF ~enabled THEN {<<Black, pv>>}
    ELSE IF slot = Null THEN {<<Null, pv>>}
    ELSE IF n \in DOMAIN pv.map THEN {<<pv.map[n], Used(pv, n)>>}
    ELSE {<<Null, pv>>} \cup {<<pic, Kept(pv, n, pic)>> : pic \in DecodedTo(n)}

\* open_b_slot opens the second decoder of the medium, unless it is open.
BSlotOpen == bSlot' \in IF bSlot = Null THEN {Null, proj.file} ELSE {bSlot}

\* The frame a call returns: the pictures of A and of B, the look of A.
Result(f, a, b, baked) ==
    [at |-> f, a |-> a, b |-> b, baked |-> baked,
     look |-> IF f < Cut /\ a # Null THEN Look(proj, luts) ELSE 0]
Graded(f) == luts' = IF f < Cut THEN Learnt(proj, luts) ELSE luts

\* Both pictures from the GPU, the one of B from its second decoder unless it
\* is the picture of A.
OnGpu(f) ==
    /\ \/ /\ InTransition(proj, f) /\ AFrame(proj, f) = BFrameIn(proj, f)
          /\ bSlot' = bSlot
          /\ \E a \in Nv12(slot, proj.a.on, AFrame(proj, f)) \ {Null} :
                out' = Result(f, a, a, FALSE)
       \/ /\ InTransition(proj, f) /\ AFrame(proj, f) # BFrameIn(proj, f)
          /\ BSlotOpen
          /\ \E a \in Nv12(slot, proj.a.on, AFrame(proj, f)) \ {Null},
                b \in Nv12(bSlot', TRUE, BFrameIn(proj, f)) \ {Null} :
                out' = Result(f, a, b, FALSE)
       \/ /\ ~InTransition(proj, f)
          /\ bSlot' = bSlot
          /\ \E a \in Nv12(slot, TopOn(proj, f), TopFrame(proj, f)) \ {Null} :
                out' = Result(f, a, Null, FALSE)
    /\ Graded(f)

\* The GPU failed for A or for B; that of B opened its decoder or did not.
NotOnGpu(f) ==
    IF InTransition(proj, f) /\ proj.a.on /\ slot # Null THEN BSlotOpen ELSE bSlot' = bSlot
-----------------------------------------------------------------------------
(* The calls of the playback worker *)

\* The start of frame(): adopt_or_clear_transition_bake.  When the transition
\* is over, the decoder of B takes the place of the one of the slot.
FrameAdopt(f) ==
    /\ wpc = "idle"
    /\ wpc' = "kick" /\ head' = f /\ out' = Null
    /\ IF result # Null /\ f >= result.end
       THEN /\ slot' = IF slot # Null THEN result.file ELSE slot
            /\ bSlot' = IF slot # Null THEN Null ELSE bSlot
            /\ result' = Null
       ELSE UNCHANGED <<slot, bSlot, result>>
    /\ UNCHANGED <<proj, cache, previews, luts, grades, bpc, job, baking, planes, inflight,
                   stop>>

\* transition_bake_candidate, for this timeline.
Candidate(p, f) ==
    /\ p.a.on /\ p.a.len > 0 /\ p.a.len <= BakeMax
    /\ WinStart(p) - f \in 0 .. Lead

Job(p) == [file |-> p.file, a |-> p.a.src, b |-> p.b, start |-> WinStart(p), end |-> Cut]

\* maybe_start_transition_bake, on a CUDA device; without one nothing is baked.
FrameKick ==
    /\ wpc = "kick"
    /\ wpc' = "serve"
    /\ IF Candidate(proj, head) /\ ~stop /\ ~inflight /\ (result # Null => head >= result.end)
       THEN /\ job' = Job(proj) /\ inflight' = TRUE
            /\ bpc' = IF bpc = "none" THEN "wait" ELSE bpc
       ELSE UNCHANGED <<job, inflight, bpc>>
    /\ UNCHANGED <<proj, keptVars, grades, head, out, baking, planes, stop, result>>

\* Mutant: the window of the result is not compared with that of A.
BakedThenOrNow == result # Null /\ head \in result.start .. result.end - 1

\* The planes of the result are served while its window is that of A.
Baked == /\ result # Null /\ InTransition(proj, head)
         /\ result.start = WinStart(proj) /\ head \in result.start .. result.end - 1

ServeBaked ==
    /\ wpc = "serve" /\ Baked
    /\ wpc' = "idle" /\ head' = Null
    /\ LET pair == result.planes[head - result.start + 1]
       IN out' = Result(head, pair[1], pair[2], TRUE)
    /\ Graded(head)
    /\ UNCHANGED <<proj, slot, bSlot, cache, previews, grades, bakeVars>>

ServeNv12 ==
    /\ wpc = "serve" /\ ~Baked
    /\ wpc' = "idle" /\ head' = Null
    /\ OnGpu(head)
    /\ UNCHANGED <<proj, slot, cache, previews, grades, bakeVars>>

\* Both pictures from the slot.
ServeRgba ==
    /\ wpc = "serve" /\ ~Baked
    /\ wpc' = "idle" /\ head' = Null
    /\ NotOnGpu(head)
    /\ \E a \in Decoded(cache, TopOn(proj, head), TopFrame(proj, head)) :
       \E b \in IF InTransition(proj, head)
                THEN Decoded(a[2], TRUE, BFrameIn(proj, head)) ELSE {<<Null, a[2]>>} :
          /\ out' = Result(head, a[1], b[1], FALSE)
          /\ cache' = b[2]
    /\ Graded(head)
    /\ UNCHANGED <<proj, slot, previews, grades, bakeVars>>

\* preview(): from the GPU, reduced, ...
PreviewNv12(f) ==
    /\ wpc = "idle"
    /\ OnGpu(f)
    /\ UNCHANGED <<proj, slot, cache, previews, grades, wpc, head, bakeVars>>

\* ... or when that failed from preview_cache_; black when there is nothing.
PreviewRgba(f) ==
    /\ wpc = "idle"
    /\ NotOnGpu(f)
    /\ \E a \in Previewed(previews, TopOn(proj, f), TopFrame(proj, f)) :
       \E b \in IF InTransition(proj, f)
                THEN Previewed(a[2], TRUE, BFrameIn(proj, f)) ELSE {<<Null, a[2]>>} :
          /\ out' = [Result(f, a[1], b[1], FALSE) EXCEPT !.a = IF @ = Null THEN Black ELSE @]
          /\ previews' = b[2]
          /\ IF a[1] # Null THEN Graded(f) ELSE luts' = luts
    /\ UNCHANGED <<proj, slot, cache, grades, wpc, head, bakeVars>>
-----------------------------------------------------------------------------
(* The project changes under the decoder *)

Swap(p) ==
    /\ wpc = "idle"
    /\ proj' = p /\ out' = Null
    /\ UNCHANGED <<keptVars, wpc, head, bakeVars>>

\* handle_swap_project, or handle_set_project with the same media: an edit of
\* the clips reaches the decoder as another project and nothing else.
EditClips ==
    \E c \in ClipsA, t \in SrcB :
        /\ Swap([file |-> proj.file, a |-> ClipA(c, proj.a.grade), b |-> t])
        /\ UNCHANGED grades

\* commit_grade and preview_grade: a look under a new change_seq.
CommitGrade ==
    /\ grades < MaxGrades
    /\ grades' = grades + 1
    /\ Swap([proj EXCEPT !.a.grade = [look |-> grades + 1, seq |-> grades + 1]])

\* Undo and redo bring a look back with the change_seq it had.
UndoGrade ==
    \E k \in 1 .. grades :
        /\ Swap([proj EXCEPT !.a.grade = [look |-> k, seq |-> k]])
        /\ UNCHANGED grades

\* A project of the same media is opened: the file does not keep a change_seq.
ReopenProject ==
    \E k \in FileLooks :
        /\ Swap([proj EXCEPT !.a.grade = [look |-> k, seq |-> 0]])
        /\ UNCHANGED grades

\* handle_set_project with other media: close() stops the bake thread, ...
CloseStop(file) ==
    /\ wpc = "idle" /\ file # proj.file
    /\ wpc' = "joining" /\ stop' = TRUE
    /\ proj' = [proj EXCEPT !.file = file] /\ out' = Null
    /\ UNCHANGED <<keptVars, grades, head, bpc, job, baking, planes, inflight, result>>

\* Mutant: the thread is not waited for.
CloseWithoutJoin ==
    /\ wpc = "joining"
    /\ wpc' = "idle"
    /\ stop' = FALSE /\ job' = Null /\ inflight' = FALSE /\ result' = Null
    /\ slot' \in {proj.file, Null} /\ bSlot' = Null
    /\ cache' = FC!NewCache /\ previews' = NoPreviews /\ luts' = <<>>
    /\ UNCHANGED <<proj, grades, head, out, bpc, baking, planes>>

\* ... joins it and drops all it had decoded; add_media then opens the new
\* file, if it can be opened.
CloseJoin ==
    /\ wpc = "joining" /\ bpc \in {"none", "ended"}
    /\ wpc' = "idle"
    /\ stop' = FALSE /\ job' = Null /\ inflight' = FALSE /\ result' = Null
    /\ bpc' = "none"
    /\ slot' \in {proj.file, Null} /\ bSlot' = Null
    /\ cache' = FC!NewCache /\ previews' = NoPreviews /\ luts' = <<>>
    /\ UNCHANGED <<proj, grades, head, out, baking, planes>>
-----------------------------------------------------------------------------
(* The bake thread *)

bakeOnly == <<proj, keptVars, grades, wpc, head, out>>

BakeStop ==
    /\ bpc = "wait" /\ stop
    /\ bpc' = "ended"
    /\ UNCHANGED <<bakeOnly, job, baking, planes, inflight, stop, result>>

BakeTake ==
    /\ bpc = "wait" /\ ~stop /\ job # Null
    /\ baking' = job /\ job' = Null
    /\ bpc' = "bake"
    /\ UNCHANGED <<bakeOnly, planes, inflight, stop, result>>

\* Mutant: a bake that fails leaves the flag as it is.
BakeFailForgotten ==
    /\ bpc = "bake"
    /\ bpc' = "wait" /\ baking' = Null /\ planes' = <<>>
    /\ UNCHANGED <<bakeOnly, job, inflight, stop, result>>

\* A file cannot be opened, there is no hardware, a frame cannot be decoded,
\* or stop was seen.
BakeFail ==
    /\ bpc = "bake"
    /\ bpc' = "clear" /\ planes' = <<>>
    /\ UNCHANGED <<bakeOnly, job, baking, inflight, stop, result>>

\* decA gives the first frame it is asked for; after that it only goes on, and
\* gives the next one when it is past the frame that is due.  (It would seek
\* back 64 frames past it, more than a bake is long.)
NextOfA(due) ==
    IF planes = <<>> \/ planes[Len(planes)][1][2] < due THEN due
    ELSE planes[Len(planes)][1][2] + 1

\* The planes of B are those of the position B is at, not of the frame of its
\* medium that is due there.
BakeFrame ==
    /\ bpc = "bake" /\ ~stop
    /\ LET f == baking.start + Len(planes)
           due == MediaFrame(baking.file, baking.a, f)
       IN /\ f < baking.end
          /\ planes' = Append(planes, <<<<baking.file, NextOfA(due)>>,
                                        <<baking.file, BSeq(baking.file, f)>>>>)
    /\ UNCHANGED <<bakeOnly, bpc, job, baking, inflight, stop, result>>

BakePublish ==
    /\ bpc = "bake" /\ Len(planes) = baking.end - baking.start
    /\ bpc' = "clear" /\ planes' = <<>>
    /\ result' = IF stop THEN result
                 ELSE [file |-> baking.file, a |-> baking.a, start |-> baking.start,
                       end |-> baking.end, planes |-> planes]
    /\ UNCHANGED <<bakeOnly, job, baking, inflight, stop>>

BakeClear ==
    /\ bpc = "clear"
    /\ bpc' = "wait"
    /\ inflight' = FALSE /\ baking' = Null
    /\ UNCHANGED <<bakeOnly, job, planes, stop, result>>
-----------------------------------------------------------------------------
Bake == BakeStop \/ BakeTake \/ BakeFrame \/ BakeFail \/ BakePublish \/ BakeClear
Serve == ServeBaked \/ ServeNv12 \/ ServeRgba

Next ==
    \/ \E f \in Playheads : FrameAdopt(f)
    \/ FrameKick \/ Serve
    \/ \E f \in Scrubs : PreviewNv12(f) \/ PreviewRgba(f)
    \/ EditClips \/ CommitGrade \/ UndoGrade \/ ReopenProject
    \/ \E f \in Files : CloseStop(f)
    \/ CloseJoin
    \/ Bake

\* Both threads run, and the calls end.
Fairness == WF_vars(Bake) /\ WF_vars(FrameKick) /\ WF_vars(Serve) /\ WF_vars(CloseJoin)

Spec == Init /\ [][Next]_vars /\ Fairness
-----------------------------------------------------------------------------
(* Properties *)

\* The two caches stay consistent and within their limits: the list a frame is
\* evicted by names the frames that are kept, each once.
CachesConsistent ==
    /\ FC!Consistent
    /\ DOMAIN previews.map = Range(previews.lru)
    /\ \A i, j \in DOMAIN previews.lru : previews.lru[i] = previews.lru[j] => i = j
    /\ Len(previews.lru) <= PreviewMax

\* Nothing of an old medium: outside close() all that is open, kept, baked or
\* being baked is of the file the project names, although the bake thread
\* publishes at its own time.
OneMedium ==
    wpc # "joining" =>
        /\ {slot, bSlot} \subseteq {proj.file, Null}
        /\ \A n \in DOMAIN cache.map : cache.map[n] = <<proj.file, n>>
        /\ \A n \in DOMAIN previews.map : previews.map[n][1] = proj.file
        /\ \A j \in {job, baking, result} \ {Null} : j.file = proj.file

\* There is one bake at a time: the thread replaces no result, so that the one
\* frame() reads or adopts stays while it does (the decoder of B is moved out
\* of it).
OneBake ==
    /\ result # Null => ~inflight \/ bpc = "clear"
    /\ job # Null => inflight /\ baking = Null
    /\ baking # Null => inflight \/ wpc = "joining"

\* A frame shows the project as it is now: A and B at the frames of the medium
\* that are due, from whichever path.  A baked transition is shown only where
\* there is one now, and of A as it was when it was baked: that its src_in was
\* changed since, or that it was disabled, is not seen.  It shows the frame due;
\* of a medium slower than the sequence, where two positions share a frame, it
\* runs ahead by up to a frame for each one baked before.  Of B nothing is said
\* there (BakeFrame).
Shows(pic, n) == pic[1] = proj.file /\ pic[2] \in {n, n - 1}

BakedMayShow(f) ==
    LET due == MediaFrame(proj.file, result.a, f)
    IN {proj.file} \X (due .. IF Fps[proj.file] < SeqFps THEN due + f - result.start ELSE due)

FrameOfProject ==
    out # Null =>
        IF out.baked
        THEN InTransition(proj, out.at) /\ out.a \in BakedMayShow(out.at)
        ELSE /\ out.a \in {Null, Black} \/ Shows(out.a, TopFrame(proj, out.at))
             /\ out.b = Null \/ Shows(out.b, BFrameIn(proj, out.at))

\* A look is shown as it was committed, also after undo and redo; a look read
\* from a file has no change_seq of its own and is not told from the one read
\* before it.
LookOfProject ==
    out # Null /\ out.a # Null /\ out.at < Cut /\ proj.a.grade.seq # 0 /\ out.look # 0
        => out.look = proj.a.grade.look

\* A bake that was started ends, also when it fails or the project is closed
\* meanwhile, and the next one can start.
BakeEnds == inflight ~> ~inflight
=============================================================================
