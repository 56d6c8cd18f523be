---------------------------- MODULE EditSession ----------------------------
(***************************************************************************)
(* A session of timeline editing: the operations of edit_ops.cpp applied   *)
(* to one sequence, each recorded on the undo stack as the GUI does        *)
(* (TimelineActions, AppActions and ProjectActions record every command    *)
(* they are given, and nothing when they are given none).                  *)
(*                                                                         *)
(* The GUI is one thread, so an operation is one step.  It names a clip by *)
(* its id and finds the track by looking the id up, video tracks first.    *)
(***************************************************************************)
EXTENDS UndoStack, EditOps

CONSTANTS
    Media,       \* media by id: [frames, num, den], the length (0: unknown)
                 \* and sequence fps / media fps
    Sessions     \* bound: the sessions there may be, see session

\* The clips and the tracks, whatever is in them.
AnyClip == [id : Nat, media : DOMAIN Media, in : Int, out : Int, src : Int, srcOut : Int,
            link : Nat, fadeIn : BOOLEAN, fadeOut : BOOLEAN, look : {0, 1}]
AnyTrack == [locked : BOOLEAN, mix : {0, 1}, clips : Seq(AnyClip)]

ASSUME MediaAssumption ==
    \A m \in DOMAIN Media :
        Media[m].frames \in Nat /\ Media[m].num \in Nat /\ Media[m].den \in Nat \ {0}
ASSUME SessionsAssumption ==
    \A z \in Sessions :
        z.start \subseteq Documents /\ z.lengths \subseteq Nat /\ z.horizon \in Nat

VARIABLES
    nextId,      \* Sequence::next_clip_id
    session      \* the session of this behaviour, a record of its bounds

vars == <<seq, undo, redo, past, future, nextId, session>>

ops == session.ops          \* the operations its user calls
Start == session.start      \* the sequences a project may be opened with
Lengths == session.lengths  \* source frames of placed clips
Horizon == session.horizon  \* last frame of the timeline
MaxId == session.ids        \* clip ids given out
MaxEdits == session.edits   \* edits on the stack

Frames == 0 .. Horizon
ClipsOf(s) == UNION {ToSet(ClipsAt(s, r)) : r \in Refs(s)}
Clips == ClipsOf(seq)
ClipIds == {c.id : c \in Clips}

\* Where a gesture on clip id happens.
RefOf(id) == FindClipRef(seq, id)

-----------------------------------------------------------------------------
(* Recording *)

\* The operation is offered, and its result t stays within the bounds.
Offered(op) == op \in ops
Bounded(t) ==
    \A r \in Refs(t) : \A i \in DOMAIN ClipsAt(t, r) : ClipsAt(t, r)[i].out <= Horizon

\* Mutant: the after snapshots are taken before the edit is made.
CommitAfterTooSoon(s, t, refs, n) ==
    /\ Bounded(t)
    /\ Record(t, EditCommand(s, s, refs \ {NoRef}))
    /\ nextId' = nextId + n
    /\ nextId' <= MaxId + 1
    /\ UNCHANGED session

\* An operation takes its first snapshots of s, its last of t; s differs
\* from seq when it added a track before.  It gives out n clip ids.
Commit(s, t, refs, n) ==
    /\ Bounded(t)
    /\ Record(t, EditCommand(s, t, refs \ {NoRef}))
    /\ nextId' = nextId + n
    /\ nextId' <= MaxId + 1
    /\ UNCHANGED session

CommitList(t, k) ==
    /\ Record(t, TrackListCommand(seq, t, k))
    /\ UNCHANGED <<nextId, session>>

-----------------------------------------------------------------------------
(* Placing clips *)

NewClip(id, m, in, length, link) ==
    [id |-> id, media |-> m, in |-> in,
     out |-> in + Llround(length * Media[m].num, Media[m].den),
     src |-> 0, srcOut |-> length, link |-> link,
     fadeIn |-> FALSE, fadeOut |-> FALSE, look |-> 0]

\* Mutant: inserting moves the later clips but does not split.
PlacedUnsplit(clips, c, mode) ==
    InsertSorted(IF mode = "insert"
                 THEN ShiftFrom(clips, c.in, Duration(c))
                 ELSE ClippedRange(clips, c.in, c.out),
                 c)

\* Insert splits and shifts what is there, the other modes overwrite it.
Placed(clips, c, mode) ==
    InsertSorted(IF mode = "insert"
                 THEN ShiftFrom(SplitAt(clips, c.in), c.in, Duration(c))
                 ELSE ClippedRange(clips, c.in, c.out),
                 c)

StartOf(clips, in, mode) == IF mode = "append" THEN EndFrame(clips) ELSE in

\* Mutant: no check of the lock.
PlaceOnLocked(s, r, m, in, length, mode) ==
    LET clips == ClipsAt(s, r)
        c == NewClip(nextId, m, StartOf(clips, in, mode), length, 0)
    IN Commit(s, SetClips(s, r, Placed(clips, c, mode)), {r}, 1)

PlaceOn(s, r, m, in, length, mode) ==
    LET clips == ClipsAt(s, r)
        c == NewClip(nextId, m, StartOf(clips, in, mode), length, 0)
    IN /\ ~Locked(s, r)
       /\ Commit(s, SetClips(s, r, Placed(clips, c, mode)), {r}, 1)

PlaceClip(r, m, in, length, mode) ==
    /\ Offered("place") /\ Offered(mode)
    /\ PlaceOn(seq, r, m, in, length, mode)

\* Placement::PlaceOnTop of place_clip.  When no video track is free one is
\* added, before the command takes its snapshots.
PlaceOnTop(m, in, length) ==
    /\ Offered("place") /\ Offered("onTop")
    /\ LET i == TopFree(seq, in, in + length)
           n == Len(seq["video"]) + 1
       IN IF i # 0
          THEN PlaceOn(seq, <<"video", i>>, m, in, length, "overwrite")
          ELSE /\ n <= MaxTracks
               /\ PlaceOn(AddTrack(seq, "video", n), <<"video", n>>, m, in, length, "overwrite")

\* A video clip and its sound.  The caller's tl_out is zero, the default, so
\* that in mode "onTop" the search for a free track always takes the top one.
PlaceLinked(vi, ai, m, in, length, mode) ==
    /\ Offered("linked") /\ Offered(mode)
    /\ LET top == TopFree(seq, in, 0)
           vr == <<"video", IF mode = "onTop" /\ top # 0 THEN top ELSE vi>>
           ar == <<"audio", ai>>
           v == NewClip(nextId, m, StartOf(ClipsAt(seq, vr), in, mode), length, nextId + 1)
           a == NewClip(nextId + 1, m, StartOf(ClipsAt(seq, ar), in, mode), length, nextId)
           t == SetClips(seq, vr, Placed(ClipsAt(seq, vr), v, mode))
       IN /\ ~Locked(seq, vr) /\ ~Locked(seq, ar)
          /\ Commit(seq, SetClips(t, ar, Placed(ClipsAt(t, ar), a, mode)), {vr, ar}, 2)

-----------------------------------------------------------------------------
(* Links *)

Relink(s, r, id, link) == UpdateAt(s, r, id, LAMBDA c : [c EXCEPT !.link = link])

UnlinkClip(id) ==
    /\ Offered("unlink")
    /\ LET r == RefOf(id)
           c == ClipWithId(seq, r, id)
           q == MateRef(seq, c)
       IN /\ q # NoRef
          /\ Commit(seq, Relink(Relink(seq, r, id, 0), q, c.link, 0), {r, q}, 0)

\* The unlinked clip of the other kind that overlaps c most, the first of
\* those that overlap it equally.
BestOverlap(c, k) ==
    LET overlap(d) == Min({c.out, d.out}) - Max({c.in, d.in})
        clip(p) == seq[k][p[1]].clips[p[2]]
        candidates == {p \in (1 .. Len(seq[k])) \X (1 .. Horizon + 1) :
                          /\ p[2] <= Len(seq[k][p[1]].clips)
                          /\ clip(p).link = 0
                          /\ overlap(clip(p)) > 0}
        size(p) == overlap(clip(p))
        precedes(p, q) == p[1] < q[1] \/ (p[1] = q[1] /\ p[2] <= q[2])
    IN {p \in candidates : \A q \in candidates :
            size(q) < size(p) \/ (size(q) = size(p) /\ precedes(p, q))}

LinkClip(id) ==
    /\ Offered("link")
    /\ LET r == RefOf(id)
           c == ClipWithId(seq, r, id)
           k == OtherKind(r[1])
       IN /\ c.link = 0
          /\ \E p \in BestOverlap(c, k) :
                LET q == <<k, p[1]>>
                    mate == ClipsAt(seq, q)[p[2]].id
                IN Commit(seq, Relink(Relink(seq, r, id, mate), q, mate, id), {r, q}, 0)

-----------------------------------------------------------------------------
(* Removing *)

RemoveId(s, r, id) ==
    IF r = NoRef THEN s ELSE SetClips(s, r, WithoutId(ClipsAt(s, r), id))

\* The mate is removed by the id found through a pointer into its track.
RemoveMate(s, r, id) ==
    SetClips(s, r, WithoutPointee(ClipsAt(s, r), IndexOfId(ClipsAt(s, r), id)))

\* Cut [in, out) out of a track, and remove whole the clips linked to what
\* was cut, except on locked tracks.
LiftRange(r, in, out) ==
    /\ Offered("liftRange")
    /\ ~Locked(seq, r)
    /\ LET clips == ClipsAt(seq, r)
           parted(c) == Overlaps(c, in, out) /\ c.link # 0
           lift(s, id) == LET q == FindClipRef(s, id)
                          IN IF q = NoRef THEN s
                             ELSE IF Locked(s, q) THEN s ELSE RemoveId(s, q, id)
           lifted[i \in 0 .. Len(clips)] ==
               IF i = 0 THEN SetClips(seq, r, ClippedRange(clips, in, out))
               ELSE IF parted(clips[i]) THEN lift(lifted[i - 1], clips[i].link)
               ELSE lifted[i - 1]
           mates == {FindClipRef(seq, clips[i].link) : i \in {j \in DOMAIN clips : parted(clips[j])}}
       IN Commit(seq, lifted[Len(clips)], {r} \cup mates, 0)

RippleDeleteRange(r, in, out) ==
    /\ Offered("rippleRange")
    /\ ~Locked(seq, r)
    /\ Commit(seq, SetClips(seq, r, ShiftFrom(ClippedRange(ClipsAt(seq, r), in, out),
                                              in, in - out)), {r}, 0)

\* Mutant: the mate stays.
LiftClipAlone(id) ==
    LET r == RefOf(id)
    IN /\ ~Locked(seq, r)
       /\ Commit(seq, RemoveId(seq, r, id), {r}, 0)

LiftClip(id) ==
    LET r == RefOf(id)
        c == ClipWithId(seq, r, id)
        q == MateRef(seq, c)
    IN /\ ~Locked(seq, r)
       /\ q # NoRef => ~Locked(seq, q)
       /\ Commit(seq, RemoveId(RemoveId(seq, r, id), q, c.link), {r, q}, 0)

\* The mate's track closes up by the gap the clip left, wherever on that
\* track the mate was, and though it be locked.
RippleDeleteClip(id) ==
    LET r == RefOf(id)
        c == ClipWithId(seq, r, id)
        q == MateRef(seq, c)
        close(s, p) == SetClips(s, p, ShiftFrom(ClipsAt(s, p), c.in, c.in - c.out))
        s == close(RemoveId(seq, r, id), r)
    IN /\ ~Locked(seq, r)
       /\ Commit(seq, IF q = NoRef THEN s ELSE close(RemoveMate(s, q, c.link), q), {r, q}, 0)

-----------------------------------------------------------------------------
(* Cutting *)

\* The halves of a clip cut at pos, source frame cut.  The left one is the
\* first clip on the track with the id of the clip cut.
LeftHalf(c, pos, cut) == [c EXCEPT !.out = pos, !.srcOut = cut, !.fadeOut = FALSE]
\* Mutant: the right half keeps the id of the clip.
RightHalfKeepsId(c, pos, id) == [TailOf(c, pos) EXCEPT !.fadeIn = FALSE]

RightHalf(c, pos, id) == [TailOf(c, pos) EXCEPT !.id = id, !.fadeIn = FALSE]

Spans(c, pos) == c.in < pos /\ pos < c.out

\* blade_at: the right half keeps the link of the whole.
BladeAt(r, pos) ==
    /\ Offered("bladeAt")
    /\ ~Locked(seq, r)
    /\ LET clips == ClipsAt(seq, r)
           i == IndexAt(clips, pos)
       IN /\ i # 0
          /\ Spans(clips[i], pos)
          /\ LET cut == SrcAt(clips[i], pos)
                 left == UpdateId(clips, clips[i].id, LAMBDA c : LeftHalf(c, pos, cut))
             IN Commit(seq, SetClips(seq, r,
                    InsertSorted(left, RightHalf(clips[i], pos, nextId))), {r}, 1)

\* Clips of the other kind from the same media that span pos, on unlocked
\* tracks: those nearest in extent to c, the first of them.
Siblings(c, k, pos) ==
    LET gap(x) == IF x < 0 THEN -x ELSE x
        score(d) == gap(d.in - c.in) + gap(d.out - c.out)
        spanning == {p \in (1 .. Len(seq[k])) \X (1 .. Horizon + 1) :
                       /\ p[2] <= Len(seq[k][p[1]].clips)
                       /\ ~seq[k][p[1]].locked
                       /\ seq[k][p[1]].clips[p[2]].media = c.media
                       /\ Spans(seq[k][p[1]].clips[p[2]], pos)}
        clip(p) == seq[k][p[1]].clips[p[2]]
        precedes(p, q) == p[1] < q[1] \/ (p[1] = q[1] /\ p[2] <= q[2])
    IN {p \in spanning : \A q \in spanning :
            score(clip(p)) < score(clip(q))
            \/ (score(clip(p)) = score(clip(q)) /\ precedes(p, q))}

\* blade_linked_at, once the mate (track q, id mid; NoRef: none) is known.
\* The mate is cut only if it is unlocked and spans pos; the halves are
\* paired off, left with left and right with right.
BladePair(r, i, q, mid, pos) ==
    LET hit == ClipsAt(seq, r)[i]
        mate == ClipWithId(seq, q, mid)
        both == q # NoRef /\ ~Locked(seq, q) /\ Spans(mate, pos)
        right == [RightHalf(hit, pos, nextId) EXCEPT !.link = IF both THEN nextId + 1 ELSE @]
        mright == [RightHalf(mate, pos, nextId + 1) EXCEPT !.link = nextId]
        left(c) == [LeftHalf(c, pos, SrcAt(hit, pos)) EXCEPT !.link =
                       IF q # NoRef THEN mid ELSE @]
        mleft(c) == [LeftHalf(c, pos, SrcAt(mate, pos)) EXCEPT !.link = hit.id]
        s == UpdateAt(seq, r, hit.id, left)
        t == UpdateAt(s, q, mid, mleft)
        u == SetClips(t, q, InsertSorted(ClipsAt(t, q), mright))
        b == IF both THEN u ELSE s
    IN Commit(seq, SetClips(b, r, InsertSorted(ClipsAt(b, r), right)), {r, q},
              IF both THEN 2 ELSE 1)

BladeLinkedAt(r, pos) ==
    /\ Offered("blade")
    /\ ~Locked(seq, r)
    /\ LET i == IndexAt(ClipsAt(seq, r), pos)
           hit == ClipsAt(seq, r)[i]
           q == MateRef(seq, hit)
           k == OtherKind(r[1])
           near == Siblings(hit, k, pos)
       IN /\ i # 0
          /\ Spans(hit, pos)
          /\ IF q # NoRef THEN BladePair(r, i, q, hit.link, pos)
             ELSE IF near = {} THEN BladePair(r, i, NoRef, 0, pos)
             ELSE \E p \in near :
                    BladePair(r, i, <<k, p[1]>>, seq[k][p[1]].clips[p[2]].id, pos)

\* Join a clip to the next one when the cut between them loses nothing.
DeleteThroughEdit(id) ==
    /\ Offered("throughEdit")
    /\ LET r == RefOf(id)
           clips == ClipsAt(seq, r)
           i == IndexOfId(clips, id)
           a == clips[i]
           j == SelectInSeq(clips, LAMBDA c : c.in = a.out)
           b == clips[j]
           q == MateRef(seq, a)
           merged == [a EXCEPT !.out = b.out, !.srcOut = b.srcOut, !.fadeOut = FALSE, !.link = 0]
           rest == [n \in 1 .. Len(clips) |-> IF n \in {i, j} THEN <<>> ELSE <<clips[n]>>]
       IN /\ j \notin {0, i}
          /\ a.media = b.media
          /\ b.src = a.srcOut
          /\ a.out < b.out
          /\ LET s == SetClips(seq, r, InsertSorted(FlattenSeq(rest), merged))
             IN Commit(seq, Relink(s, q, a.link, 0), {r, q}, 0)

-----------------------------------------------------------------------------
(* Moving and trimming *)

MovedTo(c, in) == [c EXCEPT !.in = in, !.out = in + Duration(c)]
PutDown(s, r, c) ==
    SetClips(s, r, InsertSorted(ClippedRange(ClipsAt(s, r), c.in, c.out), c))

\* A clip is dropped at frame in of a track of its own kind; its mate, if
\* any, moves along as far, locked or not, but not before frame 0.
MoveClip(id, dst, in) ==
    LET r == RefOf(id)
        c == ClipWithId(seq, r, id)
        q == MateRef(seq, c)
        mate == ClipWithId(seq, q, c.link)
        s == PutDown(RemoveId(seq, r, id), dst, MovedTo(c, in))
    IN /\ ~Locked(seq, r) /\ ~Locked(seq, dst)
       /\ Commit(seq,
                 IF q = NoRef THEN s
                 ELSE PutDown(RemoveMate(s, q, c.link), q,
                              MovedTo(mate, Max({0, mate.in + in - c.in}))),
                 {r, dst, q}, 0)

\* Clips dropped together, each at a frame of a track: all of them and the
\* mates that are not among them are lifted, then put down in turn.
MoveClips(moves) ==
    LET movable == SelectSeq(moves, LAMBDA m :
                      LET r == RefOf(m.id)
                      IN IF r = NoRef THEN FALSE ELSE ~Locked(seq, r) /\ ~Locked(seq, m.to))
        plan(m) ==
            LET r == RefOf(m.id)
                c == ClipWithId(seq, r, m.id)
                q == IF \E i \in DOMAIN moves : moves[i].id = c.link
                     THEN NoRef ELSE MateRef(seq, c)
            IN [clip |-> c, from |-> r, to |-> m.to, in |-> m.in,
                mateRef |-> IF q = NoRef THEN NoRef ELSE IF Locked(seq, q) THEN NoRef ELSE q]
        planned == [i \in DOMAIN movable |-> plan(movable[i])]
        lift(s, p) == RemoveId(RemoveId(s, p.from, p.clip.id), p.mateRef, p.clip.link)
        put(s, p) ==
            LET t == PutDown(s, p.to, MovedTo(p.clip, p.in))
                mate == ClipWithId(seq, p.mateRef, p.clip.link)
            IN IF p.mateRef = NoRef THEN t
               ELSE PutDown(t, p.mateRef,
                            MovedTo(mate, Max({0, mate.in + p.in - p.clip.in})))
        refs == UNION {{planned[i].from, planned[i].to, planned[i].mateRef} :
                         i \in DOMAIN planned}
    IN /\ planned # <<>>
       /\ Commit(seq, FoldLeft(put, FoldLeft(lift, seq, planned), planned), refs, 0)

HeadTrimmed(c, d) == [c EXCEPT !.in = @ + d, !.src = @ + d]
TailTrimmed(c, d) == [c EXCEPT !.out = @ + d, !.srcOut = @ + d]

\* trim_clip_edge: how far the edge of clip id goes on its way to frame to, 0
\* if nowhere.  The neighbours of both parts of a pair bound it, unless the
\* mate is locked, and the media of the clip.
TrimDelta(edge, id, to) ==
    LET r == RefOf(id)
        c == ClipWithId(seq, r, id)
        q == MateRef(seq, c)
        frames == Media[c.media].frames
        range(p, d) == IF edge = "head" THEN HeadTrimRange(ClipsAt(seq, p), d)
                       ELSE TailTrimRange(ClipsAt(seq, p), d, frames)
        own == range(r, c)
        mates == IF q = NoRef THEN own
                 ELSE IF Locked(seq, q) THEN own
                 ELSE range(q, ClipWithId(seq, q, c.link))
        lo == Max({own[1], mates[1]})
        hi == Min({own[2], mates[2]})
        want == to - IF edge = "head" THEN c.in ELSE c.out
    IN IF Locked(seq, r) \/ lo > hi THEN 0
       ELSE IF want < lo THEN lo ELSE IF want > hi THEN hi ELSE want

\* Both edges move, that of a locked mate too.
TrimClipEdge(edge, id, to) ==
    LET r == RefOf(id)
        c == ClipWithId(seq, r, id)
        q == MateRef(seq, c)
    IN \E d \in {TrimDelta(edge, id, to)} \ {0} :
          LET trimmed(e) == IF edge = "head" THEN HeadTrimmed(e, d) ELSE TailTrimmed(e, d)
          IN Commit(seq, UpdateAt(UpdateAt(seq, r, id, trimmed), q, c.link, trimmed), {r, q}, 0)

\* create_top_track_move: the clip is dropped above the tracks.  A track of
\* each kind is added at the front, outside the command's snapshots; then
\* the clip and its mate go there.  The mate is erased from its list before
\* it is copied, so what is copied is the clip that has taken its place in
\* the vector, if one has.
AutoTrack(id, in) ==
    /\ Offered("autoTrack")
    /\ Len(seq["video"]) < MaxTracks
    /\ Len(seq["audio"]) < MaxTracks
    /\ LET r == RefOf(id)
           c == ClipWithId(seq, r, id)
           q == MateRef(seq, c)
           below(p) == <<p[1], p[2] + 1>>
           s == AddTrack(AddTrack(seq, "video", 1), "audio", 1)
           t == SetClips(RemoveId(s, below(r), id), <<"video", 1>>, <<MovedTo(c, in)>>)
           clips == ClipsAt(t, below(q))
           i == IndexOfId(clips, c.link)
           left == WithoutPointee(clips, i)
           read == IF i <= Len(left) THEN left[i] ELSE clips[i]
           put == MovedTo(read, in + clips[i].in - c.in)
           top == <<"audio", 1>>
           u == SetClips(t, below(q), left)
       IN /\ r[1] = "video"
          /\ ~Locked(seq, r)
          /\ seq["video"] # <<>> /\ seq["audio"] # <<>>
          /\ Commit(s, IF q = NoRef \/ i = 0 THEN t
                       ELSE SetClips(u, top, InsertSorted(ClipsAt(u, top), put)),
                    Refs(s), 0)

-----------------------------------------------------------------------------
(* Attributes *)

\* The setters of clip attributes: the mate takes the value too.
SetOnPair(id, F(_)) ==
    LET r == RefOf(id)
        c == ClipWithId(seq, r, id)
        q == MateRef(seq, c)
    IN Commit(seq, UpdateAt(UpdateAt(seq, r, id, F), q, c.link, F), {r, q}, 0)

SetClipAttribute(id, v) ==
    Offered("setClip") /\ SetOnPair(id, LAMBDA c : [c EXCEPT !.look = v])

SetClipTransition(id, edge, on) ==
    /\ Offered("transition")
    /\ SetOnPair(id, LAMBDA c : IF edge = "in" THEN [c EXCEPT !.fadeIn = on]
                                ELSE [c EXCEPT !.fadeOut = on])

\* set_clip_title touches one clip only.
SetClipTitle(id, v) ==
    /\ Offered("setTitle")
    /\ Commit(seq, UpdateAt(seq, RefOf(id), id, LAMBDA c : [c EXCEPT !.look = v]),
              {RefOf(id)}, 0)

\* The setters of track attributes; setting what is set records a command
\* that changes nothing.
SetTrackLocked(r, b) ==
    /\ Offered("lock")
    /\ Commit(seq, [seq EXCEPT ![r[1]][r[2]].locked = b], {r}, 0)

SetTrackMix(r, v) ==
    /\ Offered("setTrack")
    /\ Commit(seq, [seq EXCEPT ![r[1]][r[2]].mix = v], {r}, 0)

SetAllTracksCollapsed(v) ==
    /\ Offered("setAllTracks")
    /\ Commit(seq, [k \in Kinds |-> [i \in DOMAIN seq[k] |-> [seq[k][i] EXCEPT !.mix = v]]],
              Refs(seq), 0)

-----------------------------------------------------------------------------
(* Tracks *)

InsertTrack(k, i) ==
    /\ Offered("insertTrack")
    /\ Len(seq[k]) < MaxTracks
    /\ i <= Len(seq[k]) + 1
    /\ CommitList(AddTrack(seq, k, i), k)

RemoveTrack(k, i) ==
    /\ Offered("removeTrack")
    /\ i <= Len(seq[k])
    /\ Len(seq[k]) > 1
    /\ CommitList([seq EXCEPT ![k] = RemoveAt(@, i)], k)

\* Names are not modelled: renaming records a command that changes nothing.
RenameTrack(k, i) ==
    /\ Offered("renameTrack")
    /\ i <= Len(seq[k])
    /\ CommitList(seq, k)

MoveTrack(k, i, j) ==
    /\ Offered("moveTrack")
    /\ i <= Len(seq[k]) /\ j <= Len(seq[k]) /\ i # j
    /\ CommitList([seq EXCEPT ![k] = InsertAt(RemoveAt(@, i), j, @[i])], k)

-----------------------------------------------------------------------------
(* The session *)

\* next_clip_id is left alone.  A command whose assertion would fail stops
\* the program.
EditUndo ==
    "undo" \in ops /\ Undo /\ Applicable(seq, Last(undo)) /\ UNCHANGED <<nextId, session>>
EditRedo ==
    "undo" \in ops /\ Redo /\ Applicable(seq, Last(redo)) /\ UNCHANGED <<nextId, session>>

FreshIn(s) ==
    1 + Max({0} \cup {c.id : c \in ClipsOf(s)})

SessionInit ==
    /\ session \in Sessions
    /\ seq \in Start
    /\ undo = <<>> /\ redo = <<>>
    /\ past = <<>> /\ future = <<>>
    /\ nextId = FreshIn(seq)

\* Mutant: the id counter is not read from the opened project.
OpenProjectCounterReset ==
    /\ "open" \in ops
    /\ seq' \in Start
    /\ undo' = <<>> /\ redo' = <<>>
    /\ past' = <<>> /\ future' = <<>>
    /\ nextId' = 1
    /\ UNCHANGED session

\* New or open: the sequence is replaced, with its counter, and the stack
\* cleared.
OpenProject ==
    /\ "open" \in ops
    /\ seq' \in Start
    /\ undo' = <<>> /\ redo' = <<>>
    /\ past' = <<>> /\ future' = <<>>
    /\ nextId' = FreshIn(seq')
    /\ UNCHANGED session

Placing ==
    \E m \in DOMAIN Media, in \in Frames, n \in Lengths :
       \/ \E r \in Refs(seq), mode \in {"overwrite", "insert", "append"} :
             PlaceClip(r, m, in, n, mode)
       \/ PlaceOnTop(m, in, n)
       \/ \E v \in DOMAIN seq["video"], a \in DOMAIN seq["audio"],
             mode \in {"overwrite", "insert", "append", "onTop"} :
                PlaceLinked(v, a, m, in, n, mode)

Linking == \E id \in ClipIds : UnlinkClip(id) \/ LinkClip(id)

Removing ==
    \/ Offered("lift") /\ \E id \in ClipIds : LiftClip(id)
    \/ Offered("rippleDelete") /\ \E id \in ClipIds : RippleDeleteClip(id)
    \/ \E r \in Refs(seq), in, out \in Frames :
          in < out /\ (LiftRange(r, in, out) \/ RippleDeleteRange(r, in, out))

Cutting ==
    \/ \E r \in Refs(seq), pos \in Frames : BladeAt(r, pos) \/ BladeLinkedAt(r, pos)
    \/ \E id \in ClipIds : DeleteThroughEdit(id)

Moving ==
    \E id \in ClipIds, in \in Frames :
       \/ /\ Offered("move")
          /\ \E i \in DOMAIN seq[RefOf(id)[1]] : MoveClip(id, <<RefOf(id)[1], i>>, in)
       \/ Offered("trim") /\ \E edge \in {"head", "tail"} : TrimClipEdge(edge, id, in)
       \/ AutoTrack(id, in)

Setting ==
    \/ \E id \in ClipIds, v \in {0, 1} : SetClipAttribute(id, v) \/ SetClipTitle(id, v)
    \/ \E id \in ClipIds, edge \in {"in", "out"}, on \in BOOLEAN :
          SetClipTransition(id, edge, on)
    \/ \E r \in Refs(seq), b \in BOOLEAN : SetTrackLocked(r, b)
    \/ \E r \in Refs(seq), v \in {0, 1} : SetTrackMix(r, v)
    \/ \E v \in {0, 1} : SetAllTracksCollapsed(v)

Arranging ==
    \E k \in Kinds, i \in 1 .. MaxTracks :
       \/ InsertTrack(k, i) \/ RemoveTrack(k, i) \/ RenameTrack(k, i)
       \/ \E j \in 1 .. MaxTracks : MoveTrack(k, i, j)

SessionNext ==
    \/ /\ Len(undo) < MaxEdits
       /\ Placing \/ Linking \/ Removing \/ Cutting \/ Moving \/ Setting \/ Arranging
    \/ EditUndo \/ EditRedo \/ OpenProject

SessionSpec == SessionInit /\ [][SessionNext]_vars

-----------------------------------------------------------------------------
(* Properties *)

\* A track may be locked in this session.
Locking == "lock" \in ops \/ \E s \in Start : \E r \in Refs(s) : Locked(s, r)

\* The tracks of the two kinds may hold other clips than the parts of pairs, so
\* that they end at different frames, and closing one up moves clips of its own.
Uneven ==
    \/ ops \cap {"place", "unlink", "insertTrack", "removeTrack", "autoTrack"} # {}
    \/ \E s \in Start : \/ Len(s["video"]) # 1 \/ Len(s["audio"]) # 1
                        \/ \E r \in Refs(s) : \E c \in ToSet(ClipsAt(s, r)) : c.link = 0

\* The operations that by design act on one clip of a pair, or on whatever
\* lies in their way.
OneSided == {"overwrite", "insert", "link", "throughEdit", "liftRange", "rippleRange",
             "bladeAt", "move", "gestures"}

\* What may leave two clips with one id: a hole in a clip, the two sides of which
\* share it, and a drag above the tracks, which copies a wrong clip.
HolesCut == {"overwrite", "insert", "onTop", "liftRange", "rippleRange", "move", "gestures",
             "autoTrack"}

\* The parts of a pair may come to differ: by these, by a blade that skips a
\* locked mate or links what it cuts, by closing up tracks that differ, or by
\* placing a pair at two frames.
PairsDiffer ==
    \/ ops \cap OneSided # {}
    \/ "blade" \in ops /\ (Locking \/ Uneven)
    \/ "rippleDelete" \in ops /\ Uneven
    \/ "linked" \in ops /\ ("onTop" \in ops \/ ("append" \in ops /\ Uneven))

\* Every clip of a track lasts at least a frame, starts after frame 0, and
\* ends before the next begins: what clip_at, the trim ranges and the binary
\* search of insert_sorted take for granted.  A ripple delete moves the track
\* of the mate by the length of the clip, and a drag above the tracks the mate
\* as far as the clip: these need pairs that are aligned.  A trim does not look
\* at the neighbours of a mate on a locked track, nor at the other side of a hole;
\* and the blade shortens the first clip with the id of the clip it hits, so that
\* of the two sides of a hole it may shorten the wrong one.
LaidOut(clips) ==
    /\ \A i \in DOMAIN clips : 0 <= clips[i].in /\ clips[i].in < clips[i].out
    /\ \A i \in 1 .. Len(clips) - 1 : clips[i].out <= clips[i + 1].in
TracksLaidOut ==
    /\ ops \cap {"rippleDelete", "autoTrack", "gestures"} # {} => ~PairsDiffer
    /\ ops \cap {"trim", "edges"} # {} => ~Locking
    /\ ops \cap {"trim", "edges", "blade", "bladeAt"} # {} => ops \cap HolesCut = {}
    => \A r \in Refs(seq) : LaidOut(ClipsAt(seq, r))

\* All clips the session holds: of the sequence, of every snapshot.
Held == UNION {ClipsOf(s) : s \in {seq} \cup ToSet(past) \cup ToSet(future)}

\* An id names one clip for good: next_clip_id is not undone, so that an id given
\* out is never given out again while an undo or a redo can bring its clip back;
\* and no two clips on the timeline answer to one id, the handle of every gesture,
\* as long as no operation doubles an id (HolesCut).
IdsNameOneClip ==
    /\ \A c \in Held : c.id < nextId
    /\ ops \cap HolesCut = {} =>
       \A r, q \in Refs(seq) : \A i \in DOMAIN ClipsAt(seq, r), j \in DOMAIN ClipsAt(seq, q) :
          ClipsAt(seq, r)[i].id = ClipsAt(seq, q)[j].id => r = q /\ i = j

\* A linked clip has a mate on the timeline that is linked to it, and the
\* two show the same frames of their media at the same time, as long as the
\* session only calls operations that are meant to act on both.
PairsTogether ==
    ~PairsDiffer /\ "removeTrack" \notin ops =>
    \A c \in Clips : c.link # 0 =>
        \E d \in Clips : /\ d.id = c.link /\ d.link = c.id
                         /\ d.in = c.in /\ d.out = c.out
                         /\ d.src = c.src /\ d.media = c.media

\* An edit neither moves, cuts, adds nor takes a clip of a locked track (the
\* setters of attributes do not look at the lock); only undo, redo and opening
\* a project write to one.  Left out are sessions where the numbers of tracks
\* change, and those with an operation that looks at no lock, or at that of the
\* clip but not of its mate: there a mate on a locked track is moved, trimmed or
\* taken, and a clip there is joined or linked.
MateUnguarded == {"move", "trim", "rippleDelete", "unlink", "link", "throughEdit", "gestures",
                  "edges"}
TracksRenumbered == {"insertTrack", "removeTrack", "moveTrack", "onTop", "autoTrack"}
Guarded == ops \cap (MateUnguarded \cup TracksRenumbered) = {}
SpansOf(clips) == [i \in DOMAIN clips |-> [clips[i] EXCEPT !.fadeIn = 0, !.fadeOut = 0, !.look = 0]]
LockedTracksKept ==
    [][Guarded /\ ~EditUndo /\ ~EditRedo /\ ~OpenProject =>
        \A r \in Refs(seq) :
            Locked(seq, r) => SpansOf(ClipsAt(seq', r)) = SpansOf(ClipsAt(seq, r))]_vars
=============================================================================
