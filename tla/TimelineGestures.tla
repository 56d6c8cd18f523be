------------------------- MODULE TimelineGestures -------------------------
(***************************************************************************)
(* Selecting, dragging and deleting clips with the mouse and the keyboard, *)
(* on top of an editing session: TimelineWidget keeps the selection, a     *)
(* snapshot of it made when a clip is pressed, and a DragController; the   *)
(* handlers of MainWindow turn what the widget reports into the operations *)
(* of EditSession.  Between a press and its release other edits may come   *)
(* from the keyboard; each rebuilds the widget, which drops the drag.  An  *)
(* edge of a clip that is pressed is trimmed.                              *)
(*                                                                         *)
(* A position is the frame under the pointer and the track under it, or    *)
(* NoRef.  The release is where the pointer last moved.  No track is       *)
(* locked in a session with gestures, and no clip is dragged above the     *)
(* tracks.                                                                 *)
(***************************************************************************)
EXTENDS EditSession

CONSTANTS
    SnapRadius,  \* frames an edge is pulled over, at the zoom of the timeline
    GridStep     \* frames of the grid at that zoom

VARIABLES
    selection,   \* SelectionState::ids_
    focus,       \* MainWindow::selected_clip_, 0: none
    drag,        \* the clip that is held and the snapshot of the selection
    trim,        \* the edge that is held: trimmed_clip_, trim_edge_
    deleting     \* the clips delete_selected_clip has yet to delete

gestureVars == <<selection, focus, drag, trim, deleting>>
allVars == <<vars, gestureVars>>

NoDrag == [id |-> 0]
NoTrim == [id |-> 0]
NoDeletion == [todo |-> <<>>]
Idle == drag = NoDrag /\ trim = NoTrim /\ deleting = NoDeletion

-----------------------------------------------------------------------------
(* Selection *)

MateOf(id) == LET r == RefOf(id) IN IF r = NoRef THEN 0 ELSE ClipWithId(seq, r, id).link

\* expand_with_mates
Expand(ids) ==
    LET addMate(out, id) == IF MateOf(id) \in ToSet(out) \cup {0} THEN out
                            ELSE Append(out, MateOf(id))
    IN FoldLeft(addMate, ids, ids)

\* The selection after a press on clip id with this key held.
Pressed(id, key) ==
    LET mates == Expand(<<id>>)
        added == selection \o SelectSeq(mates, LAMBDA m : m \notin ToSet(selection))
        kept == SelectSeq(selection, LAMBDA m : m \notin ToSet(mates))
        held == id \in ToSet(selection)
    IN CASE key = "ctrl" -> Expand(IF held THEN kept ELSE added)
         [] key = "shift" -> Expand(added)
         [] key = "none" -> IF held /\ Len(selection) > 1 THEN selection ELSE Expand(<<id>>)

\* Of a linked pair with both parts in ids, the one with the smaller id.
Representatives(ids) ==
    LET add(reps, id) ==
            LET mate == MateOf(id)
                rep == IF mate # 0 /\ mate \in ToSet(ids) THEN Min({id, mate}) ELSE id
            IN IF RefOf(id) = NoRef \/ {id, rep} \cap ToSet(reps) # {} THEN reps
               ELSE Append(reps, rep)
    IN FoldLeft(add, <<>>, ids)

-----------------------------------------------------------------------------
(* Snapping *)

\* The edges of the clips that are not among ids, and the playhead, at 0.
SnapTargets(ids) ==
    {0} \cup UNION {{c.in, c.out} : c \in {d \in Clips : d.id \notin ids}}

\* snap_frame_to_edges: the nearest target, the later of two as near.
SnapToEdges(p, targets) ==
    LET ahead == {t \in targets : p <= t /\ t - p <= SnapRadius}
        behind == {t \in targets : t < p /\ p - t <= SnapRadius}
    IN IF ahead \cup behind = {} THEN p
       ELSE IF behind = {} THEN Min(ahead)
       ELSE IF ahead = {} THEN Max(behind)
       ELSE IF p - Max(behind) < Min(ahead) - p THEN Max(behind) ELSE Min(ahead)

\* snap_dragged_edges: the edge that is pulled, the nearer of two.
SnapDraggedEdges(in, duration, targets) ==
    LET lead == SnapToEdges(in, targets)
        trail == SnapToEdges(in + duration, targets)
        byTrail == Max({0, trail - duration})
        gap(a, b) == IF a < b THEN b - a ELSE a - b
    IN IF trail = in + duration THEN lead
       ELSE IF lead = in THEN byTrail
       ELSE IF gap(lead, in) <= gap(trail, in + duration) THEN lead ELSE byTrail

SnapToGrid(f) == GridStep * Llround(f, GridStep)

\* snap_tl_in
SnapIn(in, duration, targets) ==
    LET edge == SnapDraggedEdges(in, duration, targets)
    IN IF "snap" \notin ops THEN in ELSE IF edge # in THEN edge ELSE SnapToGrid(in)

-----------------------------------------------------------------------------
(* Dragging *)

\* The clips of the selection that are on the timeline, as they are now.
DragItems(ids) ==
    LET found == SelectSeq(ids, LAMBDA id : RefOf(id) # NoRef)
    IN [i \in DOMAIN found |->
           [id |-> found[i], in |-> ClipWithId(seq, RefOf(found[i]), found[i]).in,
            ref |-> RefOf(found[i])]]

\* Clip number i of track r is pressed; the frame of the pointer is rounded.
\* What is dragged after a press that took the clip out of the selection is
\* left out.
PressClip(r, i, f, key) ==
    LET c == ClipsAt(seq, r)[i]
        chosen == Pressed(c.id, key)
    IN /\ c.in <= f /\ f <= c.out
       /\ selection' = chosen
       /\ focus' = c.id
       /\ drag' = IF c.id \notin ToSet(chosen) THEN NoDrag ELSE
                  [id |-> c.id, in |-> c.in, duration |-> Duration(c), grab |-> f - c.in,
                   from |-> r, target |-> r, pointer |-> f, live |-> FALSE,
                   items |-> DragItems(chosen),
                   snaps |-> SnapTargets(ToSet(chosen) \cup {c.id, c.link})]
       /\ UNCHANGED <<vars, trim, deleting>>

\* The pointer moves: the clip may change to a track of its kind.
MoveTo(f, over) ==
    /\ drag # NoDrag
    /\ drag' = [drag EXCEPT !.pointer = f, !.live = TRUE,
                            !.target = IF over # NoRef /\ over[1] = drag.target[1]
                                       THEN over ELSE @]
    /\ UNCHANGED <<vars, selection, focus, trim, deleting>>

\* DragController::move and commit: where the clip under the pointer starts.
MovedIn == SnapIn(Max({0, drag.pointer - drag.grab}), drag.duration, drag.snaps)

\* Mutant: the release does not snap.
CommitUnsnapped == Max({0, drag.pointer - drag.grab})

CommittedIn == SnapIn(Max({0, drag.pointer - drag.grab}), drag.duration, drag.snaps)

Primary == SelectInSeq(drag.items, LAMBDA s : s.id = drag.id)
PrimaryIn == drag.items[Primary].in

\* How far all of them go for the clip to start at in: no clip before 0.
BatchDelta(in) ==
    Max({in - PrimaryIn, -Min({drag.items[i].in : i \in DOMAIN drag.items})})

\* What the release reports of two clips or more: those that moved.
DroppedMoves ==
    LET delta == BatchDelta(CommittedIn)
        item(i) == drag.items[i]
        to(i) == IF i = Primary THEN drag.target ELSE item(i).ref
        move(i) == [id |-> item(i).id, to |-> to(i), in |-> Max({0, item(i).in + delta})]
        moved(i) == move(i).in # item(i).in \/ to(i) # item(i).ref
    IN FlattenSeq([i \in DOMAIN drag.items |-> IF moved(i) THEN <<move(i)>> ELSE <<>>])

\* The handler of clips_moved: one move for a pair.
MovesOf(moved) ==
    LET ids == [i \in DOMAIN moved |-> moved[i].id]
        reps == Representatives(ids)
    IN [i \in DOMAIN reps |-> moved[SelectInSeq(ids, LAMBDA id : id = reps[i])]]

Dropped ==
    /\ drag' = NoDrag
    /\ UNCHANGED <<selection, focus, trim, deleting>>

\* The button is released: the move is made, unless nothing moved.
Release ==
    /\ drag # NoDrag
    /\ IF ~drag.live THEN UNCHANGED vars
       ELSE IF Len(drag.items) >= 2
       THEN IF DroppedMoves = <<>> THEN UNCHANGED vars ELSE MoveClips(MovesOf(DroppedMoves))
       ELSE IF CommittedIn = drag.in /\ drag.target = drag.from THEN UNCHANGED vars
       ELSE MoveClip(drag.id, drag.target, CommittedIn)
    /\ Dropped

-----------------------------------------------------------------------------
(* Trimming *)

EdgeOf(c, edge) == IF edge = "head" THEN c.in ELSE c.out

\* snap_trim_edge
SnapTrim(f) ==
    IF "snap" \in ops THEN SnapToEdges(f, SnapTargets({trim.id, MateOf(trim.id)})) ELSE f

\* preview_trim_clip: where the edge of c is shown, within its own media.  The
\* neighbours are not looked at.
ShownEdge(c, f) ==
    LET last == c.out + Media[c.media].frames - c.srcOut
    IN IF trim.edge = "head" THEN Min({Max({f, c.in - c.src}), c.out - 1})
       ELSE Max({Min({f, last}), c.in + 1})

\* find_trim_edge: the clips of track r with an edge at frame f.
EdgesAt(r, f) == SelectSeq(ClipsAt(seq, r), LAMBDA c : f \in {c.in, c.out})

\* The first of them is held by it.  The frame of the pointer is a product of
\* the zoom rounded down, which may be the one before.
PressEdge(r, f) ==
    LET c == Head(EdgesAt(r, f))
    IN /\ EdgesAt(r, f) # <<>>
       /\ selection' = <<c.id>>
       /\ focus' = c.id
       /\ \E p \in {f, Max({0, f - 1})} :
             trim' = [id |-> c.id, ref |-> r, edge |-> IF f = c.in THEN "head" ELSE "tail",
                      start |-> f, pointer |-> p]
       /\ UNCHANGED <<vars, drag, deleting>>

MoveEdge(f) ==
    /\ trim # NoTrim
    /\ trim' = [trim EXCEPT !.pointer = f]
    /\ UNCHANGED <<vars, selection, focus, drag, deleting>>

\* The handler of clip_trimmed: a trim that is refused changes nothing.
ClipTrimmed(edge, id, to) ==
    IF TrimDelta(edge, id, to) = 0 THEN UNCHANGED vars ELSE TrimClipEdge(edge, id, to)

\* The button is released.
ReleaseEdge ==
    /\ trim # NoTrim
    /\ \E to \in {SnapTrim(trim.pointer)} :
          IF to = trim.start THEN UNCHANGED vars ELSE ClipTrimmed(trim.edge, trim.id, to)
    /\ trim' = NoTrim
    /\ UNCHANGED <<selection, focus, drag, deleting>>

-----------------------------------------------------------------------------
(* Marquee and keys *)

\* A press beside the clips clears the selection; what the rectangle then
\* drawn touches, if it is not empty, is selected.  An empty one leaves
\* focus on the clip selected before.
Marquee(lo, hi, rows) ==
    LET inside(r) == SelectSeq(ClipsAt(seq, r), LAMBDA c : Overlaps(c, lo, hi))
        touched(k) == FlattenSeq([i \in DOMAIN seq[k] |->
                          IF <<k, i>> \in rows THEN inside(<<k, i>>) ELSE <<>>])
        clips == touched("video") \o touched("audio")
        ids == [i \in DOMAIN clips |-> clips[i].id]
    IN /\ selection' = IF lo = hi THEN <<>> ELSE Expand(ids)
       /\ focus' = IF lo = hi THEN focus ELSE IF ids = <<>> THEN 0 ELSE Head(ids)
       /\ UNCHANGED <<vars, drag, trim, deleting>>

\* Delete (which closes the gaps) or backspace.
DeleteKey(ripple) ==
    LET ids == IF selection # <<>> THEN selection ELSE IF focus # 0 THEN <<focus>> ELSE <<>>
        todo == Representatives(ids)
    IN /\ ids # <<>>
       /\ Len(undo) + Len(todo) <= MaxEdits
       /\ focus' = 0
       /\ IF todo = <<>> THEN UNCHANGED <<drag, deleting>>
          ELSE deleting' = [todo |-> todo, ripple |-> ripple, ids |-> ToSet(ids),
                            before |-> Clips] /\ drag' = NoDrag
       /\ UNCHANGED <<vars, selection, trim>>

\* The next of them, if an earlier one did not take it along; after the last
\* the selection is cleared.
DeleteNext ==
    /\ deleting # NoDeletion
    /\ LET id == Head(deleting.todo)
       IN IF RefOf(id) = NoRef THEN UNCHANGED vars
          ELSE IF deleting.ripple THEN RippleDeleteClip(id) ELSE LiftClip(id)
    /\ deleting' = IF Len(deleting.todo) = 1 THEN NoDeletion
                   ELSE [deleting EXCEPT !.todo = Tail(@)]
    /\ selection' = IF Len(deleting.todo) = 1 THEN <<>> ELSE selection
    /\ UNCHANGED <<focus, drag, trim>>

-----------------------------------------------------------------------------

GestureInit ==
    /\ SessionInit
    /\ selection = <<>>
    /\ focus = 0
    /\ drag = NoDrag
    /\ trim = NoTrim
    /\ deleting = NoDeletion

Pressing ==
    \E r \in Refs(seq), f \in Frames :
        \/ Offered("edges") /\ PressEdge(r, f)
        \/ /\ Offered("gestures")
           /\ \E i \in DOMAIN ClipsAt(seq, r), key \in {"none", "shift", "ctrl"} :
                 PressClip(r, i, f, key)

Marking ==
    /\ Offered("gestures")
    /\ \E lo, hi \in Frames, rows \in {Refs(seq)} \cup {{r} : r \in Refs(seq)} :
          lo <= hi /\ Marquee(lo, hi, rows)

\* What an edit or a key does while an edge is held is left out: the widget
\* then has a pointer to a clip item that its rebuild destroyed.
GestureNext ==
    \/ /\ trim = NoTrim /\ deleting = NoDeletion
       /\ SessionNext
       /\ drag' = NoDrag
       /\ UNCHANGED <<selection, focus, trim, deleting>>
    \/ /\ Idle
       /\ Len(undo) < MaxEdits
       /\ Pressing \/ Marking
    \/ /\ Offered("gestures") /\ trim = NoTrim /\ deleting = NoDeletion
       /\ \E ripple \in BOOLEAN : DeleteKey(ripple)
    \/ \E f \in Frames, over \in Refs(seq) \cup {NoRef} : MoveTo(f, over)
    \/ \E f \in Frames : MoveEdge(f)
    \/ Release
    \/ ReleaseEdge
    \/ DeleteNext

GestureSpec == GestureInit /\ [][GestureNext]_allVars

-----------------------------------------------------------------------------
(* Properties *)

\* The links of the clips with these ids: none, to a clip that is gone, or
\* to a clip that is linked back.  An id names one clip.
Paired(ids) ==
    \A id \in ids :
        /\ Cardinality({c \in Clips : c.id = id}) <= 1
        /\ MateOf(id) \in {0, id} \/ RefOf(MateOf(id)) = NoRef \/ MateOf(MateOf(id)) = id

\* What the user sees when the button is released is what the sequence
\* becomes.  Every selected clip goes as far along its track as the clip under
\* the pointer is shown to; the track the pointer is on counts for that clip
\* alone, and the drop on another track is left out here.
DragAsShown ==
    LET ids == {drag.items[i].id : i \in DOMAIN drag.items}
        delta == BatchDelta(MovedIn)
    IN Paired(ids) /\ drag.target = drag.from =>
       \A i \in DOMAIN drag.items : \E c \in ToSet(ClipsAt(seq', drag.items[i].ref)) :
           c.id = drag.items[i].id /\ c.in = drag.items[i].in + delta

\* An edge, and that of a mate that shows the same frames, ends between where
\* it was and where it is shown, and there exactly unless a neighbour of one
\* of the two is in the way.
TrimAsShown ==
    LET alike(c, d) == <<c.in, c.out, c.src, c.media>> = <<d.in, d.out, d.src, d.media>>
        held == ClipWithId(seq, trim.ref, trim.id)
        pair == {x \in UNION {{r} \X ToSet(ClipsAt(seq, r)) : r \in Refs(seq)} :
                    x[2].id \in {held.id, held.link}}
        shown(c) == ShownEdge(c, SnapTrim(trim.pointer))
        span(c) == IF trim.edge = "head" THEN <<shown(c), c.out>> ELSE <<c.in, shown(c)>>
        free(r, c) == \A d \in ToSet(ClipsAt(seq, r)) :
                          d.id = c.id \/ ~Overlaps(d, span(c)[1], span(c)[2])
        edges(r, c) == {EdgeOf(d, trim.edge) : d \in {e \in ToSet(ClipsAt(seq', r)) : e.id = c.id}}
        between(a, x, b) == (a <= x /\ x <= b) \/ (b <= x /\ x <= a)
    IN Paired({held.id}) /\ Cardinality(pair) <= 2 /\ (\A x \in pair : alike(x[2], held)) =>
       \A x \in pair : \E e \in edges(x[1], x[2]) :
           /\ between(trim.start, e, shown(x[2]))
           /\ (\A y \in pair : free(y[1], y[2])) => e = shown(x[2])

DropsWhereShown ==
    [][(Release /\ drag.live => DragAsShown) /\ (ReleaseEdge => TrimAsShown)]_allVars

\* The delete keys take the selected clips and the clips they are linked to,
\* all of them and no other, in as many commands as there are pairs.
DeleteTakesSelection ==
    [][LET linkedBack(c) == c.link = 0 \/ \E d \in deleting.before :
                                d.id = c.link /\ d.link = c.id
           taken(c) == {c.id, c.link} \cap deleting.ids # {}
       IN /\ deleting # NoDeletion /\ deleting' = NoDeletion
          /\ \A c \in deleting.before : taken(c) => linkedBack(c)
          => ClipIds' = {c.id : c \in {d \in deleting.before : ~taken(d)}}]_allVars
=============================================================================
