------------------------ MODULE MCSequenceController ------------------------
(* An instance of SequenceController for TLC. *)
EXTENDS SequenceController, TLC

\* Snapshots of a project before an edit that shortens it and after, and of
\* one with no clips.
ThreeProjects == {"long", "short", "empty"}
ThreeLengths == "long" :> 3 @@ "short" :> 2 @@ "empty" :> 0
=============================================================================
