------------------------- MODULE MCAudioOutput -------------------------
(* Instances of AudioOutput for TLC. *)
EXTENDS AudioOutput
========================================================================
