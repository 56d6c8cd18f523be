-------------------------- MODULE MCExportPictures --------------------------
(* Instances of ExportPictures for TLC. *)
EXTENDS ExportPictures

Clip(in, out, src, num, den, on) ==
    [in |-> in, out |-> out, src |-> src, num |-> num, den |-> den, on |-> on]

TwoTracks == {1, 2}
KeyFrames == {0, 3, 5}

\* A cut a little back in the film and a gap; an overlap, over a clip that is off; a
\* fast clip that outruns the film; a slow one.
Timeline1 == <<{Clip(0, 3, 3, 1, 1, TRUE), Clip(3, 5, 4, 1, 1, TRUE)}, {}>>
Timeline2 == <<{Clip(0, 4, 4, 1, 1, TRUE), Clip(4, 6, 0, 1, 1, FALSE)},
               {Clip(2, 6, 0, 1, 1, TRUE)}>>
Timeline3 == <<{Clip(0, 6, 0, 3, 2, TRUE)}, {Clip(3, 4, 6, 1, 1, TRUE)}>>
Timeline4 == <<{Clip(0, 2, 0, 4, 1, TRUE), Clip(2, 6, 2, 1, 2, TRUE)}, {}>>
SomeTimelines == {Timeline1, Timeline2, Timeline3, Timeline4}

\* No length stated, the right one, and one that takes the count for the index.
SomeDurations == {-1, 6, 7}
=============================================================================
