------------------------ MODULE MCTimelineDecoder ------------------------
(* Instances of TimelineDecoder for TLC: a medium at a third of the rate   *)
(* of the sequence and one at 4/3 of it; A with a transition, slipped and  *)
(* disabled in it, and slipped without one.                                *)
EXTENDS TimelineDecoder

MCFps == [f \in Files |-> IF f = 1 THEN 1 ELSE 4]

MCClipsA == {[src |-> 0, on |-> TRUE, len |-> 2], [src |-> 1, on |-> FALSE, len |-> 2],
             [src |-> 1, on |-> TRUE, len |-> 0]}
=============================================================================
