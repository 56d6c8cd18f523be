--------------------------- MODULE MCRenderQueue ---------------------------
(* Instances of RenderQueue for TLC. *)
EXTENDS RenderQueue

\* A project file an earlier session saved while it was rendering its first job.
OldSession == {[id |-> 1, out |-> 1, priority |-> 0, status |-> "Rendering", progress |-> 1]}
NoFile == {{}}
WithFile == {OldSession}
=============================================================================
