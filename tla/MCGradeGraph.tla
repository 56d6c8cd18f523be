---------------------------- MODULE MCGradeGraph ----------------------------
(* Small instances of GradeGraph: correctors and a layer mixer, as after the *)
(* first gestures on the node canvas.                                        *)
EXTENDS GradeGraph

MCStarted == {<<"Corrector", "Corrector", "LayerMixer">>}
=============================================================================
