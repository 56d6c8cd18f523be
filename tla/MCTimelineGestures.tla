------------------------ MODULE MCTimelineGestures ------------------------
(* Instances of TimelineGestures for TLC: the sessions without gestures     *)
(* and those with.                                                          *)
EXTENDS TimelineGestures, MCEditSession

\* Two pairs with a gap between them, and an empty second video track.
PairsAndRoom ==
    ("video" :> <<TrackOf(<<Clip(1, 0, 2, 2), Clip(3, 3, 4, 4)>>), TrackOf(<<>>)>>)
    @@ ("audio" :> <<TrackOf(<<Clip(2, 0, 2, 1), Clip(4, 3, 4, 3)>>)>>)

GestureSessions == {
    Session({"gestures", "snap", "open"}, PairsAndRoom, 1, 4, 4, 2),
    Session({"gestures", "undo"}, ShortPair, 1, 3, 4, 1),
    Session({"edges", "snap", "open"}, PairsAndRoom, 1, 4, 4, 2),
    Session({"edges", "undo", "place", "overwrite"}, ShortPair, 1, 4, 5, 2)}

EverySession == AllSessions \cup GestureSessions
=============================================================================
