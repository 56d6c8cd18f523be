---------------------------- MODULE UndoHistory ----------------------------
(***************************************************************************)
(* What the editor promises of Ctrl+Z and Ctrl+Shift+Z: the documents form *)
(* a line, undoing goes back along it one document at a time, redoing goes *)
(* forward again, and an edit made in the middle forgets what lay ahead.   *)
(* Nothing here knows of tracks, clips or snapshots: UndoStack, which      *)
(* stores differences, is shown to implement this.                         *)
(***************************************************************************)
EXTENDS Naturals, SequencesExt

CONSTANTS
    Document,   \* the documents
    MaxDepth    \* how many documents are remembered (kMaxDepth)

VARIABLES
    doc,        \* the document being edited
    past,       \* the documents behind it, the oldest first
    future      \* the documents ahead of it, the nearest last

vars == <<doc, past, future>>

\* Remember d, forgetting the oldest document when there are too many.
Remember(s, d) ==
    LET t == Append(s, d) IN IF Len(t) > MaxDepth THEN Tail(t) ELSE t

Init == /\ doc \in Document
        /\ past = <<>>
        /\ future = <<>>

Edit == /\ doc' \in Document
        /\ past' = Remember(past, doc)
        /\ future' = <<>>

Undo == /\ past # <<>>
        /\ doc' = Last(past)
        /\ past' = Front(past)
        /\ future' = Append(future, doc)

Redo == /\ future # <<>>
        /\ doc' = Last(future)
        /\ future' = Front(future)
        /\ past' = Append(past, doc)

\* Another project: its document, and no memory.
Open == /\ doc' \in Document
        /\ past' = <<>>
        /\ future' = <<>>

Next == Edit \/ Undo \/ Redo \/ Open

Spec == Init /\ [][Next]_vars
=============================================================================
