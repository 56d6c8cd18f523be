----------------------------- MODULE UndoStack -----------------------------
(***************************************************************************)
(* The undo stack of the timeline editor and its two kinds of command      *)
(* (edit_ops.cpp, 374-454).  A command does not hold the sequence: an      *)
(* EditCommand holds the tracks an operation touched, before and after, by *)
(* kind and index; a TrackListCommand holds every track of one kind.       *)
(* Undoing is therefore exact only while the rest of the sequence is what  *)
(* it was when the command was recorded.                                   *)
(*                                                                         *)
(* Next lets an operation change any tracks in any way, provided it lists  *)
(* the tracks it touches; EditSession puts the real operations in its      *)
(* place.  A track is one value here: the fields a TrackSnapshot copies.   *)
(***************************************************************************)
EXTENDS Naturals, SequencesExt

CONSTANTS
    Track,       \* the tracks
    MaxTracks,   \* bound: tracks of a kind
    MaxDepth     \* kMaxDepth, 256 in the code

ASSUME MaxDepthAssumption == MaxDepth \in Nat \ {0}
ASSUME MaxTracksAssumption == MaxTracks \in Nat

Kinds == {"video", "audio"}

VARIABLES
    seq,         \* Sequence: video_tracks and audio_tracks
    undo,        \* UndoStack::undo_, the last command at the back
    redo,        \* UndoStack::redo_
    past,        \* history variable: the sequence before each command of undo
    future       \* history variable: the sequence after each command of redo

stackVars == <<seq, undo, redo, past, future>>

TrackLists == {s \in Seq(Track) : Len(s) <= MaxTracks}
Documents == [Kinds -> TrackLists]

-----------------------------------------------------------------------------
(* Commands *)

\* The tracks of a sequence, as TrackRefs.
Refs(s) == {r \in Kinds \X (1 .. MaxTracks) : r[2] <= Len(s[r[1]])}

TakeSnapshots(s, refs) == [r \in refs |-> s[r[1]][r[2]]]

EditCommand(s, t, refs) ==
    [type |-> "edit", before |-> TakeSnapshots(s, refs),
                      after  |-> TakeSnapshots(t, refs)]

TrackListCommand(s, t, k) ==
    [type |-> "list", kind |-> k, before |-> s[k], after |-> t[k]]

\* EditCommand::apply: the snapshots are written over the tracks now at
\* their indices, whatever has become of the others.
Apply(s, snapshots) ==
    [k \in Kinds |-> [i \in DOMAIN s[k] |->
        IF <<k, i>> \in DOMAIN snapshots THEN snapshots[<<k, i>>] ELSE s[k][i]]]

\* assert(t): every snapshot finds a track at its index.
Applicable(s, c) == c.type = "edit" => DOMAIN c.before \subseteq Refs(s)

UndoOf(c, s) ==
    IF c.type = "edit" THEN Apply(s, c.before) ELSE [s EXCEPT ![c.kind] = c.before]

RedoOf(c, s) ==
    IF c.type = "edit" THEN Apply(s, c.after) ELSE [s EXCEPT ![c.kind] = c.after]

-----------------------------------------------------------------------------
(* The stack *)

\* Mutant: a full stack drops the newest command.
PushDropsNewest(stack, x) == IF Len(stack) = MaxDepth THEN stack ELSE Append(stack, x)

Push(stack, x) ==
    LET s == Append(stack, x) IN IF Len(s) > MaxDepth THEN Tail(s) ELSE s

Record(s, c) ==
    /\ seq' = s
    /\ undo' = Push(undo, c)
    /\ redo' = <<>>
    /\ past' = Push(past, seq)
    /\ future' = <<>>

Undo ==
    /\ undo # <<>>
    /\ seq' = UndoOf(Last(undo), seq)
    /\ redo' = Append(redo, Last(undo))
    /\ undo' = Front(undo)
    /\ past' = Front(past)
    /\ future' = Append(future, seq)

Redo ==
    /\ redo # <<>>
    /\ seq' = RedoOf(Last(redo), seq)
    /\ undo' = Append(undo, Last(redo))
    /\ redo' = Front(redo)
    /\ past' = Append(past, seq)
    /\ future' = Front(future)

\* A new or opened project replaces the sequence and clears the stack.
Clear ==
    /\ seq' \in Documents
    /\ undo' = <<>>
    /\ redo' = <<>>
    /\ past' = <<>>
    /\ future' = <<>>

-----------------------------------------------------------------------------
(* The two ways of recording an operation *)

\* s and t have the same tracks outside refs.
SameBut(s, t, refs) ==
    /\ \A k \in Kinds : Len(s[k]) = Len(t[k])
    /\ \A r \in Refs(s) \ refs : s[r[1]][r[2]] = t[r[1]][r[2]]

EditTracks ==
    \E t \in Documents, refs \in SUBSET Refs(seq) :
        /\ SameBut(seq, t, refs)
        /\ Record(t, EditCommand(seq, t, refs))

EditTrackList ==
    \E k \in Kinds, list \in TrackLists :
        LET t == [seq EXCEPT ![k] = list]
        IN Record(t, TrackListCommand(seq, t, k))

Init ==
    /\ seq \in Documents
    /\ undo = <<>>
    /\ redo = <<>>
    /\ past = <<>>
    /\ future = <<>>

Next == EditTracks \/ EditTrackList \/ Undo \/ Redo \/ Clear

Spec == Init /\ [][Next]_stackVars

-----------------------------------------------------------------------------
(* Properties *)

Snapshot == UNION {[refs -> Track] : refs \in SUBSET (Kinds \X (1 .. MaxTracks))}
Command == [type : {"edit"}, before : Snapshot, after : Snapshot]
      \cup [type : {"list"}, kind : Kinds, before : TrackLists, after : TrackLists]

\* The types of the variables.
TypeOK ==
    /\ seq \in Documents
    /\ undo \in Seq(Command)
    /\ redo \in Seq(Command)
    /\ past \in Seq(Documents)
    /\ future \in Seq(Documents)

\* Command c leads from sequence a to sequence b and back, and finds its
\* tracks in both.
Leads(a, c, b) ==
    /\ Applicable(a, c)
    /\ Applicable(b, c)
    /\ RedoOf(c, a) = b
    /\ UndoOf(c, b) = a

\* Every command on the two stacks is a step of one line of sequences that
\* passes through the present one, so that no undo or redo, however far,
\* meets a sequence its snapshots do not fit (EditCommand::apply asserts
\* that the track exists and checks nothing else).
OneLine ==
    /\ Len(past) = Len(undo)
    /\ Len(future) = Len(redo)
    /\ Len(undo) + Len(redo) <= MaxDepth
    /\ \A i \in 1 .. Len(undo) :
          Leads(past[i], undo[i], IF i = Len(undo) THEN seq ELSE past[i + 1])
    /\ \A i \in 1 .. Len(redo) :
          Leads(IF i = Len(redo) THEN seq ELSE future[i + 1], redo[i], future[i])

History == INSTANCE UndoHistory WITH Document <- Documents, doc <- seq

\* Undo and redo restore exactly the sequences the user saw: the stack of
\* differences implements the line of documents of UndoHistory.
HistorySpec == History!Spec
=============================================================================
