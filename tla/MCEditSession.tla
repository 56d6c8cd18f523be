--------------------------- MODULE MCEditSession ---------------------------
(* Instances of EditSession for TLC. *)
EXTENDS EditSession

Clip(id, in, out, link) ==
    [id |-> id, media |-> 1, in |-> in, out |-> out, src |-> 0, srcOut |-> out - in,
     link |-> link, fadeIn |-> FALSE, fadeOut |-> FALSE, look |-> 0]
TrackOf(clips) == [locked |-> FALSE, mix |-> 0, clips |-> clips]

\* One medium of four frames, at the frame rate of the sequence.
OneMedium == (1 :> [frames |-> 4, num |-> 1, den |-> 1])

\* A linked pair, a second clip after it on the video track.
PairAndClip ==
    ("video" :> <<TrackOf(<<Clip(1, 0, 3, 2), Clip(3, 3, 5, 0)>>)>>)
    @@ ("audio" :> <<TrackOf(<<Clip(2, 0, 3, 1)>>)>>)

\* Two linked pairs.
TwoPairs ==
    ("video" :> <<TrackOf(<<Clip(1, 0, 3, 2), Clip(3, 3, 5, 4)>>)>>)
    @@ ("audio" :> <<TrackOf(<<Clip(2, 0, 3, 1), Clip(4, 3, 5, 3)>>)>>)

\* The same, shorter.
ShortPair ==
    ("video" :> <<TrackOf(<<Clip(1, 0, 2, 2), Clip(3, 2, 3, 0)>>)>>)
    @@ ("audio" :> <<TrackOf(<<Clip(2, 0, 2, 1)>>)>>)

Session(uses, start, length, horizon, ids, edits) ==
    [ops |-> uses, start |-> {start}, lengths |-> {length}, horizon |-> horizon,
     ids |-> ids, edits |-> edits]

\* Undo among the operations that change clips, and among those that change
\* the lists of tracks.
UndoSessions == {
    Session({"undo", "open", "place", "overwrite", "insert", "unlink", "link", "lift",
             "rippleDelete", "blade", "bladeAt", "throughEdit", "move", "trim", "setTitle"},
            ShortPair, 1, 3, 4, 2),
    Session({"undo", "open", "lock", "setTrack", "insertTrack", "removeTrack", "moveTrack",
             "transition", "setClip"},
            ShortPair, 1, 3, 4, 2)}

\* Edits of ranges beside locked tracks, edits of tracks, edits of clips.
LayoutSessions == {
    Session({"open", "place", "linked", "overwrite", "insert", "lock",
             "liftRange", "rippleRange", "lift"},
            ShortPair, 1, 4, 5, 3),
    Session({"open", "place", "onTop", "autoTrack", "setTrack", "setAllTracks",
             "insertTrack", "removeTrack", "renameTrack", "moveTrack"},
            ShortPair, 1, 4, 5, 3),
    Session({"open", "place", "append", "linked", "unlink", "link", "lift", "blade",
             "throughEdit", "trim"},
            ShortPair, 1, 4, 5, 3)}

\* What leaves clips whole but for the blade, on two pairs.
PairSessions == {
    Session({"open", "linked", "append", "lift", "rippleDelete", "blade", "trim", "transition"},
            TwoPairs, 2, 6, 8, 3)}

\* More edits than the stack has room for.
DeepSessions == {Session({"undo", "setAllTracks"}, ShortPair, 1, 3, 4, 5)}

AllSessions == UndoSessions \cup LayoutSessions \cup PairSessions \cup DeepSessions

\* A clip dragged to a new track, and the undo of that.
AutoTrackOnPairs == {Session({"autoTrack", "undo"}, TwoPairs, 2, 5, 5, 1)}

=============================================================================
