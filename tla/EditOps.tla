------------------------------ MODULE EditOps ------------------------------
(***************************************************************************)
(* The timeline model (model.cpp) and the helpers the edit operations are  *)
(* built from (edit_ops.cpp, 19-372).                                      *)
(*                                                                         *)
(* A sequence maps a track kind to its list of tracks; a track is          *)
(* [locked, mix, clips], where mix stands for muted, solo, collapsed and   *)
(* gain; a clip is                                                         *)
(*   [id, media, in, out, src, srcOut, link, fadeIn, fadeOut, look]        *)
(* with in, out = tl_in, tl_out, src = src_in, link = linked_id (0: none), *)
(* fadeIn, fadeOut whether the edge has a transition, and look for all the *)
(* other attributes a setter writes.                                       *)
(***************************************************************************)
EXTENDS Integers, FiniteSets, FiniteSetsExt, SequencesExt

Duration(c) == c.out - c.in

\* std::llround of the fraction a / b, b > 0: halves away from zero.
Llround(a, b) == IF a >= 0 THEN (2 * a + b) \div (2 * b) ELSE -((b - 2 * a) \div (2 * b))

\* The source frame under a timeline frame, by interpolation.
SrcAt(c, tl) ==
    IF Duration(c) <= 0 THEN c.src
    ELSE c.src + Llround((tl - c.in) * (c.srcOut - c.src), Duration(c))

Overlaps(c, in, out) == c.in < out /\ in < c.out

-----------------------------------------------------------------------------
(* Lists of clips *)

HeadOf(c, at) == [c EXCEPT !.out = at, !.srcOut = SrcAt(c, at)]
TailOf(c, at) == [c EXCEPT !.in = at, !.src = SrcAt(c, at)]

When(b, s) == IF b THEN s ELSE <<>>

\* The clips with [in, out) cut out of them.  What is left of a clip on
\* either side is a copy of it, with its id and link.
ClippedRange(clips, in, out) ==
    LET Kept(c) == IF Overlaps(c, in, out)
                   THEN When(c.in < in, <<HeadOf(c, in)>>)
                        \o When(c.out > out, <<TailOf(c, out)>>)
                   ELSE <<c>>
    IN FlattenSeq([i \in DOMAIN clips |-> Kept(clips[i])])

Shifted(c, delta) == [c EXCEPT !.in = @ + delta, !.out = @ + delta]

ShiftFrom(clips, from, delta) ==
    [i \in DOMAIN clips |->
        IF clips[i].in >= from THEN Shifted(clips[i], delta) ELSE clips[i]]

\* The clip that spans at becomes two, again with one id between them.
SplitAt(clips, at) ==
    FlattenSeq([i \in DOMAIN clips |->
        IF clips[i].in < at /\ at < clips[i].out
        THEN <<HeadOf(clips[i], at), TailOf(clips[i], at)>>
        ELSE <<clips[i]>>])

\* std::lower_bound on tl_in, on a list that is sorted by it.
InsertSorted(clips, c) ==
    InsertAt(clips, 1 + Cardinality({i \in DOMAIN clips : clips[i].in < c.in}), c)

EndFrame(clips) == Max({clips[i].out : i \in DOMAIN clips} \cup {0})

WithoutId(clips, id) == FlattenSeq([i \in DOMAIN clips |-> When(clips[i].id # id, <<clips[i]>>)])

\* std::remove_if with a predicate that reads the id to remove out of the
\* vector it is removing from, through a pointer to element i: once a later
\* clip has been moved there, it is that clip's id that is removed.
WithoutPointee(clips, i) ==
    LET later == SubSeq(clips, i + 1, Len(clips))
        f == SelectInSeq(later, LAMBDA c : c.id # clips[i].id)
    IN SubSeq(clips, 1, i - 1)
       \o When(f # 0, <<later[f]>>
                      \o WithoutId(SubSeq(later, f + 1, Len(later)), later[f].id))

\* Index of the clip the lookup by id finds, the first; 0 when there is none.
IndexOfId(clips, id) == SelectInSeq(clips, LAMBDA c : c.id = id)
IndexAt(clips, pos) == SelectInSeq(clips, LAMBDA c : c.in <= pos /\ pos < c.out)

\* Loops that change the first clip with an id and break.
UpdateId(clips, id, F(_)) ==
    IF IndexOfId(clips, id) = 0 THEN clips
    ELSE [clips EXCEPT ![IndexOfId(clips, id)] = F(@)]

-----------------------------------------------------------------------------
(* Sequences *)

NoRef == <<"none", 0>>

TrackAt(s, r) == s[r[1]][r[2]]
ClipsAt(s, r) == TrackAt(s, r).clips
Locked(s, r) == TrackAt(s, r).locked
HasId(s, r, id) == IndexOfId(ClipsAt(s, r), id) # 0
ClipWithId(s, r, id) == ClipsAt(s, r)[IndexOfId(ClipsAt(s, r), id)]
SetClips(s, r, clips) == [s EXCEPT ![r[1]][r[2]].clips = clips]

\* The track that holds a clip id, the video tracks searched first.
FindClipRef(s, id) ==
    LET refs == [i \in DOMAIN s["video"] |-> <<"video", i>>]
                \o [i \in DOMAIN s["audio"] |-> <<"audio", i>>]
        i == SelectInSeq(refs, LAMBDA r : HasId(s, r, id))
    IN IF i = 0 THEN NoRef ELSE refs[i]

\* The track of the clip a clip is linked to, if there is one.
MateRef(s, c) == IF c.link = 0 THEN NoRef ELSE FindClipRef(s, c.link)

\* Update of the clip with this id on a track, which may not exist.
UpdateAt(s, r, id, F(_)) ==
    IF r = NoRef THEN s ELSE SetClips(s, r, UpdateId(ClipsAt(s, r), id, F))

OtherKind(k) == IF k = "video" THEN "audio" ELSE "video"

AddTrack(s, k, i) ==
    [s EXCEPT ![k] = InsertAt(@, i, [locked |-> FALSE, mix |-> 0, clips |-> <<>>])]

\* The video track of the highest index with nothing in [in, out); 0: none.
TopFree(s, in, out) ==
    SelectLastInSeq(s["video"],
        LAMBDA t : \A i \in DOMAIN t.clips : ~Overlaps(t.clips[i], in, out))

-----------------------------------------------------------------------------
(* Trimming *)

\* How far the head of c may go, as changes of tl_in: not over the clip
\* before it, not before its first source frame, not to its tail.
HeadTrimRange(clips, c) ==
    LET ends == {clips[i].out : i \in {j \in DOMAIN clips :
                    clips[j].id # c.id /\ clips[j].out <= c.in}}
    IN <<Max(ends \cup {0, c.in - c.src}) - c.in, c.out - 1 - c.in>>

\* The same for the tail, frames being the length of the media (0: unknown).
TailTrimRange(clips, c, frames) ==
    LET starts == {clips[i].in : i \in {j \in DOMAIN clips :
                    clips[j].id # c.id /\ clips[j].in >= c.out}}
        srcHigh == IF frames > 0 THEN c.out + (frames - c.srcOut) ELSE c.out
    IN <<c.in + 1 - c.out, Min(starts \cup {srcHigh}) - c.out>>
=============================================================================
