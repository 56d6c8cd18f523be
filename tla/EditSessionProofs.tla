------------------------- MODULE EditSessionProofs -------------------------
(***************************************************************************)
(* Undo and redo are exact, for every kind of track, number of tracks and  *)
(* depth of the stack: of any operations that list the tracks they touch   *)
(* (UndoStack), and of the operations of the editor (EditSession), which   *)
(* are shown to list them.  No operation that looks at the lock of every   *)
(* track it changes writes to a locked one.                                *)
(*                                                                         *)
(* The inductive invariant of the stack is TypeOK /\ OneLine: each command *)
(* leads from the sequence remembered before it to the one after it, and   *)
(* the last of those is the present sequence.  Of each operation it is     *)
(* shown that it is a step of the stack (Edited) and, of those that look   *)
(* at every lock, that it spares the locked tracks (Spared).               *)
(***************************************************************************)
EXTENDS EditSession, FiniteSetTheorems, TLAPS

IInv == TypeOK /\ OneLine

-----------------------------------------------------------------------------
(* Sequences, with the operators of UndoStack *)

LEMMA FrontLast ==
    ASSUME NEW S, NEW s \in Seq(S), s # <<>>
    PROVE  /\ Front(s) \in Seq(S)
           /\ Len(Front(s)) = Len(s) - 1
           /\ \A i \in 1 .. Len(s) - 1 : Front(s)[i] = s[i]
           /\ Last(s) \in S
           /\ Last(s) = s[Len(s)]
           /\ Len(s) \in Nat \ {0}
<1>1. Len(s) \in Nat \ {0}
  OBVIOUS
<1>2. Last(s) \in S /\ Last(s) = s[Len(s)]
  BY <1>1 DEF Last
<1>3. Front(s) = [i \in 1 .. Len(s) - 1 |-> s[i]]
  BY <1>1 DEF Front
<1>4. Len(s) - 1 \in Nat /\ \A i \in 1 .. Len(s) - 1 : s[i] \in S
  BY <1>1
<1>5. Front(s) \in Seq(S) /\ Len(Front(s)) = Len(s) - 1
  BY <1>3, <1>4
<1> QED BY <1>1, <1>2, <1>3, <1>5

LEMMA AppendFacts ==
    ASSUME NEW S, NEW s \in Seq(S), NEW x \in S
    PROVE  /\ Append(s, x) \in Seq(S)
           /\ Len(Append(s, x)) = Len(s) + 1
           /\ \A i \in 1 .. Len(s) : Append(s, x)[i] = s[i]
           /\ Append(s, x)[Len(s) + 1] = x
OBVIOUS

LEMMA PushFacts ==
    ASSUME NEW S, NEW s \in Seq(S), NEW x \in S, Len(s) <= MaxDepth
    PROVE  /\ Push(s, x) \in Seq(S)
           /\ Len(Push(s, x)) = IF Len(s) = MaxDepth THEN MaxDepth ELSE Len(s) + 1
           /\ Len(s) < MaxDepth => Push(s, x) = Append(s, x)
           /\ Len(s) = MaxDepth =>
                \A i \in 1 .. MaxDepth :
                    Push(s, x)[i] = IF i = MaxDepth THEN x ELSE s[i + 1]
<1>1. Append(s, x) \in Seq(S) /\ Len(Append(s, x)) = Len(s) + 1
  OBVIOUS
<1>2. CASE Len(s) < MaxDepth
  BY <1>1, <1>2, MaxDepthAssumption DEF Push
<1>3. CASE Len(s) = MaxDepth
  <2>1. Push(s, x) = Tail(Append(s, x))
    BY <1>1, <1>3, MaxDepthAssumption DEF Push
  <2>2. Len(Tail(Append(s, x))) = MaxDepth /\ Tail(Append(s, x)) \in Seq(S)
    BY <1>1, <1>3, MaxDepthAssumption
  <2>3. \A i \in 1 .. MaxDepth :
            Tail(Append(s, x))[i] = IF i = MaxDepth THEN x ELSE s[i + 1]
    BY <1>1, <1>3, MaxDepthAssumption
  <2> QED BY <2>1, <2>2, <2>3, <1>3, MaxDepthAssumption
<1> QED BY <1>2, <1>3, MaxDepthAssumption

LEMMA PushFull ==
    ASSUME NEW S, NEW s \in Seq(S), NEW x \in S, Len(s) = MaxDepth
    PROVE  /\ Len(Push(s, x)) = MaxDepth
           /\ \A i \in 1 .. MaxDepth :
                 Push(s, x)[i] = IF i = MaxDepth THEN x ELSE s[i + 1]
<1>1. Len(s) <= MaxDepth
  BY MaxDepthAssumption
<1>2. Len(Push(s, x)) = MaxDepth
  BY <1>1, PushFacts
<1>3. \A i \in 1 .. MaxDepth : Push(s, x)[i] = IF i = MaxDepth THEN x ELSE s[i + 1]
  BY ZenonT(30), <1>1, PushFacts
<1> QED BY <1>2, <1>3

-----------------------------------------------------------------------------
(* Commands *)

LEMMA DocumentFacts ==
    ASSUME NEW s \in Documents, NEW k \in Kinds
    PROVE  /\ s[k] \in TrackLists
           /\ Len(s[k]) \in 0 .. MaxTracks
           /\ DOMAIN s[k] = 1 .. Len(s[k])
           /\ \A i \in 1 .. Len(s[k]) : s[k][i] \in Track
<1>1. s[k] \in TrackLists
  BY DEF Documents
<1>2. s[k] \in Seq(Track) /\ Len(s[k]) <= MaxTracks
  BY <1>1 DEF TrackLists
<1>3. Len(s[k]) \in 0 .. MaxTracks
  BY <1>2, MaxTracksAssumption
<1> QED BY <1>1, <1>2, <1>3

\* Writing the snapshots of a sequence over one that differs from it only
\* there gives that sequence.
LEMMA ApplyRestores ==
    ASSUME NEW s \in Documents, NEW t \in Documents, NEW refs \in SUBSET Refs(s),
           SameBut(s, t, refs)
    PROVE  Apply(t, TakeSnapshots(s, refs)) = s
<1> DEFINE a == Apply(t, TakeSnapshots(s, refs))
<1>1. ASSUME NEW k \in Kinds
      PROVE  /\ a[k] = [i \in DOMAIN t[k] |->
                  IF <<k, i>> \in refs THEN TakeSnapshots(s, refs)[<<k, i>>] ELSE t[k][i]]
             /\ DOMAIN s[k] = DOMAIN t[k]
  BY DocumentFacts DEF Apply, TakeSnapshots, SameBut
<1>2. ASSUME NEW k \in Kinds, NEW i \in DOMAIN s[k]
      PROVE  a[k][i] = s[k][i]
  <2>1. <<k, i>> \in Refs(s) /\ i \in DOMAIN t[k]
    <3>1. i \in 1 .. Len(s[k]) /\ Len(s[k]) \in 0 .. MaxTracks
      BY DocumentFacts
    <3>2. i \in 1 .. MaxTracks /\ i <= Len(s[k])
      BY <3>1, MaxTracksAssumption
    <3> QED BY <3>2, <1>1 DEF Refs
  <2>2. CASE <<k, i>> \in refs
    <3>1. TakeSnapshots(s, refs)[<<k, i>>] = s[k][i]
      BY <2>2 DEF TakeSnapshots
    <3> QED BY <3>1, <1>1, <2>2
  <2>3. CASE <<k, i>> \notin refs
    <3>1. s[k][i] = t[k][i]
      BY <2>1, <2>3 DEF SameBut
    <3> QED BY <3>1, <2>1, <2>3, <1>1
  <2> QED BY <2>2, <2>3
<1>3. ASSUME NEW k \in Kinds PROVE a[k] = s[k]
  <2>1. s[k] \in TrackLists
    BY DEF Documents
  <2>2. s[k] \in Seq(Track)
    BY <2>1 DEF TrackLists
  <2>3. DOMAIN a[k] = DOMAIN s[k]
    BY <1>1
  <2>4. \A i \in DOMAIN s[k] : a[k][i] = s[k][i]
    BY <1>2
  <2>5. a[k] = [i \in DOMAIN s[k] |-> a[k][i]]
    BY <1>1
  <2>6. s[k] = [i \in DOMAIN s[k] |-> s[k][i]]
    BY <2>2
  <2>7. [i \in DOMAIN s[k] |-> a[k][i]] = [i \in DOMAIN s[k] |-> s[k][i]]
    BY <2>4
  <2> QED BY <2>5, <2>6, <2>7
<1>4. a = [k \in Kinds |-> a[k]]
  BY DEF Apply
<1>5. s = [k \in Kinds |-> s[k]]
  BY DEF Documents
<1>6. [k \in Kinds |-> a[k]] = [k \in Kinds |-> s[k]]
  BY <1>3
<1> QED BY <1>4, <1>5, <1>6

LEMMA SameButSymmetric ==
    ASSUME NEW s \in Documents, NEW t \in Documents, NEW refs \in SUBSET Refs(s),
           SameBut(s, t, refs)
    PROVE  SameBut(t, s, refs) /\ Refs(t) = Refs(s)
<1>1. \A k \in Kinds : Len(s[k]) = Len(t[k])
  BY DEF SameBut
<1>2. Refs(t) = Refs(s)
  BY <1>1 DEF Refs
<1> QED BY <1>1, <1>2 DEF SameBut

LEMMA EditCommandLeads ==
    ASSUME NEW s \in Documents, NEW t \in Documents, NEW refs \in SUBSET Refs(s),
           SameBut(s, t, refs)
    PROVE  /\ EditCommand(s, t, refs) \in Command
           /\ Leads(s, EditCommand(s, t, refs), t)
<1> DEFINE c == EditCommand(s, t, refs)
<1>1. refs \in SUBSET (Kinds \X (1 .. MaxTracks))
  BY DEF Refs
<1>2. SameBut(t, s, refs) /\ Refs(t) = Refs(s)
  BY SameButSymmetric
<1>3. ASSUME NEW u \in Documents, refs \in SUBSET Refs(u)
      PROVE  TakeSnapshots(u, refs) \in [refs -> Track]
  <2>1. ASSUME NEW r \in refs PROVE u[r[1]][r[2]] \in Track
    <3>1. r \in Refs(u)
      BY <1>3
    <3>2. r[1] \in Kinds /\ r[2] \in 1 .. MaxTracks /\ r[2] <= Len(u[r[1]])
      BY <3>1 DEF Refs
    <3>3. r[2] \in 1 .. Len(u[r[1]])
      BY <3>2, DocumentFacts, MaxTracksAssumption
    <3> QED BY <3>2, <3>3, DocumentFacts
  <2> QED BY <2>1 DEF TakeSnapshots
<1>4. TakeSnapshots(s, refs) \in Snapshot /\ TakeSnapshots(t, refs) \in Snapshot
  BY <1>1, <1>2, <1>3 DEF Snapshot
<1>5. c \in Command
  BY <1>4 DEF EditCommand, Command
<1>6. Apply(t, TakeSnapshots(s, refs)) = s
  BY ApplyRestores
<1>7. Apply(s, TakeSnapshots(t, refs)) = t
  <2>1. refs \in SUBSET Refs(t)
    BY <1>2
  <2> QED BY <1>2, <2>1, ApplyRestores
<1>8. Applicable(s, c) /\ Applicable(t, c)
  BY <1>2 DEF Applicable, EditCommand, TakeSnapshots
<1> QED BY <1>5, <1>6, <1>7, <1>8 DEF Leads, RedoOf, UndoOf, EditCommand

LEMMA TrackListCommandLeads ==
    ASSUME NEW s \in Documents, NEW k \in Kinds, NEW list \in TrackLists
    PROVE  LET t == [s EXCEPT ![k] = list]
               c == TrackListCommand(s, t, k)
           IN  t \in Documents /\ c \in Command /\ Leads(s, c, t)
<1> DEFINE t == [s EXCEPT ![k] = list]
           c == TrackListCommand(s, t, k)
<1>1. t \in Documents /\ t[k] = list /\ s[k] \in TrackLists
  BY DEF Documents
<1>2. c = [type |-> "list", kind |-> k, before |-> s[k], after |-> list]
  BY <1>1 DEF TrackListCommand
<1>3. c \in Command
  BY <1>1, <1>2 DEF Command
<1>4. [t EXCEPT ![k] = s[k]] = s
  BY <1>1 DEF Documents
<1>5. c.type = "list" /\ c.kind = k /\ c.before = s[k] /\ c.after = list
  BY <1>2
<1>6. RedoOf(c, s) = t /\ UndoOf(c, t) = s
  <2>1. c.type # "edit"
    BY <1>5
  <2>2. RedoOf(c, s) = [s EXCEPT ![k] = list]
    BY <1>5, <2>1 DEF RedoOf
  <2>3. UndoOf(c, t) = [t EXCEPT ![k] = s[k]]
    BY <1>5, <2>1 DEF UndoOf
  <2> QED BY <2>2, <2>3, <1>4
<1>7. Leads(s, c, t)
  BY <1>5, <1>6 DEF Leads, Applicable
<1> QED BY <1>1, <1>3, <1>7

-----------------------------------------------------------------------------
(* The invariant *)

LEMMA RecordKeepsLine ==
    ASSUME IInv, NEW t \in Documents, NEW c \in Command, Leads(seq, c, t), Record(t, c)
    PROVE  IInv'
<1> USE DEF IInv, TypeOK
<1> DEFINE n == Len(undo)
<1>1. n \in Nat /\ Len(past) = n /\ n <= MaxDepth
  BY MaxDepthAssumption DEF OneLine
<1>2. /\ seq' = t /\ redo' = <<>> /\ future' = <<>>
      /\ undo' = Push(undo, c) /\ past' = Push(past, seq)
  BY DEF Record
<1>3. undo' \in Seq(Command) /\ past' \in Seq(Documents)
  BY <1>1, <1>2, PushFacts
<1>4. Len(undo') = Len(past') /\ Len(undo') <= MaxDepth /\ Len(undo') \in Nat
  BY <1>1, <1>2, PushFacts, MaxDepthAssumption
<1>5. ASSUME NEW i \in 1 .. Len(undo')
      PROVE  Leads(past'[i], undo'[i], IF i = Len(undo') THEN seq' ELSE past'[i + 1])
  <2>1. \A j \in 1 .. n : Leads(past[j], undo[j], IF j = n THEN seq ELSE past[j + 1])
    BY DEF OneLine
  <2>2. CASE n < MaxDepth
    <3>a. undo' = Append(undo, c)
      BY <1>1, <1>2, <2>2, PushFacts
    <3>b. past' = Append(past, seq)
      BY <1>1, <1>2, <2>2, PushFacts
    <3>1. undo' = Append(undo, c) /\ past' = Append(past, seq) /\ Len(undo') = n + 1
      BY <3>a, <3>b, AppendFacts
    <3>2. CASE i = n + 1
      <4>1. undo'[n + 1] = c
        BY <3>a, AppendFacts
      <4>2. past'[n + 1] = seq
        BY <3>b, <1>1, AppendFacts
      <4> QED BY <4>1, <4>2, <3>1, <3>2, <1>2
    <3>3. CASE i \in 1 .. n
      <4>1. undo'[i] = undo[i] /\ past'[i] = past[i]
        BY <3>1, <3>3, <1>1, AppendFacts
      <4>2. past'[i + 1] = IF i = n THEN seq ELSE past[i + 1]
        BY <3>1, <3>3, <1>1, AppendFacts
      <4>3. i # Len(undo')
        BY <3>1, <3>3, <1>1
      <4> QED BY <4>1, <4>2, <4>3, <2>1, <3>3
    <3> QED BY <3>1, <3>2, <3>3, <1>1
  <2>3. CASE n = MaxDepth
    <3>1. /\ Len(undo') = MaxDepth
          /\ \A j \in 1 .. MaxDepth : undo'[j] = IF j = MaxDepth THEN c ELSE undo[j + 1]
          /\ \A j \in 1 .. MaxDepth : past'[j] = IF j = MaxDepth THEN seq ELSE past[j + 1]
      <4>1. /\ Len(undo') = MaxDepth
            /\ \A j \in 1 .. MaxDepth : undo'[j] = IF j = MaxDepth THEN c ELSE undo[j + 1]
        <5>1. undo \in Seq(Command) /\ Len(undo) = MaxDepth /\ c \in Command
          BY <1>1, <2>3
        <5> QED BY <5>1, <1>2, PushFull
      <4>2. \A j \in 1 .. MaxDepth : past'[j] = IF j = MaxDepth THEN seq ELSE past[j + 1]
        <5>1. past \in Seq(Documents) /\ Len(past) = MaxDepth /\ seq \in Documents
          BY <1>1, <2>3
        <5> QED BY <5>1, <1>2, PushFull
      <4> QED BY <4>1, <4>2
    <3>2. i \in 1 .. MaxDepth
      BY <3>1
    <3>3. CASE i = MaxDepth
      BY <3>1, <3>2, <3>3, <1>2
    <3>4. CASE i # MaxDepth
      <4>1. i + 1 \in 1 .. n /\ i + 1 \in 1 .. MaxDepth
        BY <3>2, <3>4, <2>3, MaxDepthAssumption
      <4>2. undo'[i] = undo[i + 1] /\ past'[i] = past[i + 1]
        BY <3>1, <3>2, <3>4
      <4>3. past'[i + 1] = IF i + 1 = n THEN seq ELSE past[(i + 1) + 1]
        BY <3>1, <4>1, <2>3
      <4> QED BY <4>1, <4>2, <4>3, <3>1, <3>4, <2>1
    <3> QED BY <3>3, <3>4
  <2> QED BY <2>2, <2>3, <1>1, MaxDepthAssumption
<1>6. TypeOK'
  BY <1>2, <1>3
<1>7. Len(future') = Len(redo') /\ Len(redo') = 0
  BY <1>2
<1> QED BY <1>4, <1>5, <1>6, <1>7 DEF OneLine

LEMMA UndoKeepsLine ==
    ASSUME IInv, Undo
    PROVE  IInv' /\ seq' = past[Len(past)] /\ past # <<>>
<1> USE DEF IInv, TypeOK
<1> DEFINE n == Len(undo)
           m == Len(redo)
<1>1. /\ n \in Nat \ {0} /\ Len(past) = n /\ past # <<>> /\ undo # <<>>
      /\ m \in Nat /\ Len(future) = m /\ n + m <= MaxDepth
  BY FrontLast, MaxDepthAssumption DEF OneLine, Undo
<1>2. /\ seq' = UndoOf(undo[n], seq)
      /\ undo' = Front(undo) /\ past' = Front(past)
      /\ redo' = Append(redo, undo[n]) /\ future' = Append(future, seq)
  BY FrontLast DEF Undo
<1>3. /\ \A j \in 1 .. n : Leads(past[j], undo[j], IF j = n THEN seq ELSE past[j + 1])
      /\ \A j \in 1 .. m : Leads(IF j = m THEN seq ELSE future[j + 1], redo[j], future[j])
  BY DEF OneLine
<1>4. Leads(past[n], undo[n], seq)
  BY <1>1, <1>3
<1>5. seq' = past[n]
  BY <1>2, <1>4 DEF Leads
<1>6. /\ undo' \in Seq(Command) /\ Len(undo') = n - 1
      /\ past' \in Seq(Documents) /\ Len(past') = n - 1
      /\ \A j \in 1 .. n - 1 : undo'[j] = undo[j] /\ past'[j] = past[j]
      /\ undo[n] \in Command /\ past[n] \in Documents
  <2>1. /\ undo' \in Seq(Command) /\ Len(undo') = n - 1 /\ undo[n] \in Command
        /\ \A j \in 1 .. n - 1 : undo'[j] = undo[j]
    BY <1>1, <1>2, FrontLast
  <2>2. /\ past' \in Seq(Documents) /\ Len(past') = n - 1 /\ past[n] \in Documents
        /\ \A j \in 1 .. n - 1 : past'[j] = past[j]
    <3>1. /\ Front(past) \in Seq(Documents) /\ Len(Front(past)) = Len(past) - 1
          /\ \A j \in 1 .. Len(past) - 1 : Front(past)[j] = past[j]
          /\ past[Len(past)] \in Documents
      BY <1>1, FrontLast
    <3>2. past' = Front(past) /\ Len(past) = n
      BY <1>1, <1>2
    <3> QED BY <3>1, <3>2
  <2> QED BY <2>1, <2>2
<1>7. /\ redo' \in Seq(Command) /\ Len(redo') = m + 1
      /\ future' \in Seq(Documents) /\ Len(future') = m + 1
      /\ \A j \in 1 .. m : redo'[j] = redo[j] /\ future'[j] = future[j]
      /\ redo'[m + 1] = undo[n] /\ future'[m + 1] = seq
  BY <1>1, <1>2, <1>6, AppendFacts
<1>8. ASSUME NEW i \in 1 .. Len(undo')
      PROVE  Leads(past'[i], undo'[i], IF i = Len(undo') THEN seq' ELSE past'[i + 1])
  <2>1. i \in 1 .. n - 1 /\ i \in 1 .. n /\ i # n
    BY <1>1, <1>6
  <2>2. Leads(past[i], undo[i], past[i + 1])
    BY <2>1, <1>3
  <2>3. (IF i = Len(undo') THEN seq' ELSE past'[i + 1]) = past[i + 1]
    <3>1. CASE i = n - 1
      BY <3>1, <1>1, <1>5, <1>6
    <3>2. CASE i # n - 1
      <4>1. i + 1 \in 1 .. n - 1
        BY <3>2, <2>1, <1>1
      <4> QED BY <4>1, <3>2, <1>6
    <3> QED BY <3>1, <3>2
  <2> QED BY <2>1, <2>2, <2>3, <1>6
<1>9. ASSUME NEW i \in 1 .. Len(redo')
      PROVE  Leads(IF i = Len(redo') THEN seq' ELSE future'[i + 1], redo'[i], future'[i])
  <2>1. CASE i = m + 1
    BY <2>1, <1>4, <1>5, <1>7
  <2>2. CASE i \in 1 .. m
    <3>1. (IF i = Len(redo') THEN seq' ELSE future'[i + 1])
            = IF i = m THEN seq ELSE future[i + 1]
      BY <2>2, <1>1, <1>7
    <3> QED BY <3>1, <2>2, <1>3, <1>7
  <2> QED BY <2>1, <2>2, <1>1, <1>7
<1>10. TypeOK'
  BY <1>5, <1>6, <1>7
<1>11. /\ Len(past') = Len(undo') /\ Len(future') = Len(redo')
       /\ Len(undo') + Len(redo') <= MaxDepth
  BY <1>1, <1>6, <1>7
<1>12. OneLine'
  BY <1>8, <1>9, <1>11 DEF OneLine
<1> QED BY <1>1, <1>5, <1>10, <1>12

LEMMA RedoKeepsLine ==
    ASSUME IInv, Redo
    PROVE  IInv' /\ seq' = future[Len(future)] /\ future # <<>>
<1> USE DEF IInv, TypeOK
<1> DEFINE n == Len(undo)
           m == Len(redo)
<1>1. /\ m \in Nat \ {0} /\ Len(future) = m /\ future # <<>> /\ redo # <<>>
      /\ n \in Nat /\ Len(past) = n /\ n + m <= MaxDepth
  BY FrontLast, MaxDepthAssumption DEF OneLine, Redo
<1>2. /\ seq' = RedoOf(redo[m], seq)
      /\ redo' = Front(redo) /\ future' = Front(future)
      /\ undo' = Append(undo, redo[m]) /\ past' = Append(past, seq)
  BY FrontLast DEF Redo
<1>3. /\ \A j \in 1 .. n : Leads(past[j], undo[j], IF j = n THEN seq ELSE past[j + 1])
      /\ \A j \in 1 .. m : Leads(IF j = m THEN seq ELSE future[j + 1], redo[j], future[j])
  BY DEF OneLine
<1>4. Leads(seq, redo[m], future[m])
  BY <1>1, <1>3
<1>5. seq' = future[m]
  BY <1>2, <1>4 DEF Leads
<1>6. /\ redo' \in Seq(Command) /\ Len(redo') = m - 1
      /\ future' \in Seq(Documents) /\ Len(future') = m - 1
      /\ \A j \in 1 .. m - 1 : redo'[j] = redo[j] /\ future'[j] = future[j]
      /\ redo[m] \in Command /\ future[m] \in Documents
  <2>1. /\ redo' \in Seq(Command) /\ Len(redo') = m - 1 /\ redo[m] \in Command
        /\ \A j \in 1 .. m - 1 : redo'[j] = redo[j]
    BY <1>1, <1>2, FrontLast
  <2>2. /\ future' \in Seq(Documents) /\ Len(future') = m - 1 /\ future[m] \in Documents
        /\ \A j \in 1 .. m - 1 : future'[j] = future[j]
    <3>1. /\ Front(future) \in Seq(Documents) /\ Len(Front(future)) = Len(future) - 1
          /\ \A j \in 1 .. Len(future) - 1 : Front(future)[j] = future[j]
          /\ future[Len(future)] \in Documents
      BY <1>1, FrontLast
    <3>2. future' = Front(future) /\ Len(future) = m
      BY <1>1, <1>2
    <3> QED BY <3>1, <3>2
  <2> QED BY <2>1, <2>2
<1>7. /\ undo' \in Seq(Command) /\ Len(undo') = n + 1
      /\ past' \in Seq(Documents) /\ Len(past') = n + 1
      /\ \A j \in 1 .. n : undo'[j] = undo[j] /\ past'[j] = past[j]
      /\ undo'[n + 1] = redo[m] /\ past'[n + 1] = seq
  BY <1>1, <1>2, <1>6, AppendFacts
<1>8. ASSUME NEW i \in 1 .. Len(redo')
      PROVE  Leads(IF i = Len(redo') THEN seq' ELSE future'[i + 1], redo'[i], future'[i])
  <2>1. i \in 1 .. m - 1 /\ i \in 1 .. m /\ i # m
    BY <1>1, <1>6
  <2>2. Leads(future[i + 1], redo[i], future[i])
    BY <2>1, <1>3
  <2>3. (IF i = Len(redo') THEN seq' ELSE future'[i + 1]) = future[i + 1]
    <3>1. CASE i = m - 1
      BY <3>1, <1>1, <1>5, <1>6
    <3>2. CASE i # m - 1
      <4>1. i + 1 \in 1 .. m - 1
        BY <3>2, <2>1, <1>1
      <4> QED BY <4>1, <3>2, <1>6
    <3> QED BY <3>1, <3>2
  <2> QED BY <2>1, <2>2, <2>3, <1>6
<1>9. ASSUME NEW i \in 1 .. Len(undo')
      PROVE  Leads(past'[i], undo'[i], IF i = Len(undo') THEN seq' ELSE past'[i + 1])
  <2>1. CASE i = n + 1
    BY <2>1, <1>4, <1>5, <1>7
  <2>2. CASE i \in 1 .. n
    <3>1. (IF i = Len(undo') THEN seq' ELSE past'[i + 1])
            = IF i = n THEN seq ELSE past[i + 1]
      BY <2>2, <1>1, <1>7
    <3> QED BY <3>1, <2>2, <1>3, <1>7
  <2> QED BY <2>1, <2>2, <1>1, <1>7
<1>10. TypeOK'
  BY <1>5, <1>6, <1>7
<1>11. /\ Len(past') = Len(undo') /\ Len(future') = Len(redo')
       /\ Len(undo') + Len(redo') <= MaxDepth
  BY <1>1, <1>6, <1>7
<1>12. OneLine'
  BY <1>8, <1>9, <1>11 DEF OneLine
<1> QED BY <1>1, <1>5, <1>10, <1>12

\* The two ways of recording write a command that leads where it says.
LEMMA RecordedLeads ==
    ASSUME IInv, EditTracks \/ EditTrackList
    PROVE  \E t \in Documents, c \in Command : Leads(seq, c, t) /\ Record(t, c)
<1>1. seq \in Documents
  BY DEF IInv, TypeOK
<1>2. CASE EditTracks
  <2>1. PICK t \in Documents, refs \in SUBSET Refs(seq) :
            SameBut(seq, t, refs) /\ Record(t, EditCommand(seq, t, refs))
    BY <1>2 DEF EditTracks
  <2> QED BY <1>1, <2>1, EditCommandLeads
<1>3. CASE EditTrackList
  <2>1. PICK k \in Kinds, list \in TrackLists :
            LET t == [seq EXCEPT ![k] = list]
            IN Record(t, TrackListCommand(seq, t, k))
    BY <1>3 DEF EditTrackList
  <2> QED BY <1>1, <2>1, TrackListCommandLeads
<1> QED BY <1>2, <1>3

LEMMA LineInductive ==
    /\ Init => IInv
    /\ IInv /\ [Next]_stackVars => IInv'
<1>1. Init => IInv
  <2> SUFFICES ASSUME Init PROVE IInv
    OBVIOUS
  <2>1. /\ undo = <<>> /\ redo = <<>> /\ past = <<>> /\ future = <<>>
        /\ seq \in Documents
    BY DEF Init
  <2> QED BY <2>1, MaxDepthAssumption DEF IInv, TypeOK, OneLine
<1>2. IInv /\ [Next]_stackVars => IInv'
  <2> SUFFICES ASSUME IInv, [Next]_stackVars PROVE IInv'
    OBVIOUS
  <2>1. CASE EditTracks \/ EditTrackList
    BY <2>1, RecordedLeads, RecordKeepsLine
  <2>2. CASE Undo
    BY <2>2, UndoKeepsLine
  <2>3. CASE Redo
    BY <2>3, RedoKeepsLine
  <2>4. CASE Clear
    <3>1. /\ undo' = <<>> /\ redo' = <<>> /\ past' = <<>> /\ future' = <<>>
          /\ seq' \in Documents
      BY <2>4 DEF Clear
    <3> QED BY <3>1, MaxDepthAssumption DEF IInv, TypeOK, OneLine
  <2>5. CASE UNCHANGED stackVars
    BY <2>5 DEF IInv, TypeOK, OneLine, stackVars
  <2> QED BY <2>1, <2>2, <2>3, <2>4, <2>5 DEF Next
<1> QED BY <1>1, <1>2

\* The types of the stack are kept by every operation, undo and redo.
THEOREM TypeCorrect == Spec => []TypeOK
<1>1. IInv => TypeOK
  BY DEF IInv
<1> QED BY <1>1, LineInductive, PTL DEF Spec

\* At any time every command of the two stacks fits the sequences on both
\* sides of it: no undo or redo ever applies snapshots to a sequence they
\* were not taken from (UndoStack::undo, ::redo and EditCommand::apply).
THEOREM CommandsFit == Spec => []OneLine
<1>1. IInv => OneLine
  BY DEF IInv
<1> QED BY <1>1, LineInductive, PTL DEF Spec

\* A stack of snapshots of the touched tracks implements a stack of whole
\* sequences: what Ctrl+Z and Ctrl+Shift+Z bring back is exactly what was
\* there, for any operations that list the tracks they touch.
THEOREM UndoIsExact == Spec => HistorySpec
<1>1. Init => History!Init
  BY DEF Init, History!Init
<1>2. IInv /\ [Next]_stackVars => [History!Next]_(History!vars)
  <2> SUFFICES ASSUME IInv, [Next]_stackVars
               PROVE  History!Next \/ UNCHANGED History!vars
    OBVIOUS
  <2>1. CASE EditTracks \/ EditTrackList
    <3>1. PICK t \in Documents, c \in Command : Leads(seq, c, t) /\ Record(t, c)
      BY <2>1, RecordedLeads
    <3>2. seq' \in Documents /\ past' = History!Remember(past, seq) /\ future' = <<>>
      BY <3>1 DEF Record, Push, History!Remember
    <3> QED BY <3>2 DEF History!Next, History!Edit
  <2>2. CASE Undo
    <3>1. seq' = past[Len(past)] /\ past # <<>>
      BY <2>2, UndoKeepsLine
    <3>2. past' = Front(past) /\ future' = Append(future, seq)
      BY <2>2 DEF Undo
    <3> QED BY <3>1, <3>2 DEF History!Next, History!Undo, History!Last, History!Front, Front
  <2>3. CASE Redo
    <3>1. seq' = future[Len(future)] /\ future # <<>>
      BY <2>3, RedoKeepsLine
    <3>2. future' = Front(future) /\ past' = Append(past, seq)
      BY <2>3 DEF Redo
    <3> QED BY <3>1, <3>2 DEF History!Next, History!Redo, History!Last, History!Front, Front
  <2>4. CASE Clear
    BY <2>4 DEF Clear, History!Next, History!Open
  <2>5. CASE UNCHANGED stackVars
    BY <2>5 DEF stackVars, History!vars
  <2> QED BY <2>1, <2>2, <2>3, <2>4, <2>5 DEF Next
<1> QED BY <1>1, <1>2, LineInductive, PTL DEF Spec, HistorySpec, History!Spec

-----------------------------------------------------------------------------
(* Least and greatest elements *)

LEMMA LeastOne ==
    ASSUME NEW T, T \subseteq Nat, T # {}
    PROVE  Min(T) \in T /\ \A y \in T : Min(T) <= y
<1> DEFINE R == {p \in Nat \X Nat : p[1] < p[2]}
<1>0. IsWellFoundedOn(R, Nat)
  BY NatLessThanWellFounded DEF OpToRel
<1>1. PICK x \in T : \A y \in T : ~(<<y, x>> \in R)
  <2> HIDE DEF R
  <2> QED BY <1>0, WFMin
<1>2. \A y \in T : <<y, x>> \in Nat \X Nat /\ (<<y, x>>)[1] = y /\ (<<y, x>>)[2] = x
  OBVIOUS
<1>3. \A y \in T : ~(y < x)
  BY <1>1, <1>2
<1>4. \A y \in T : x <= y
  BY <1>3
<1> QED BY <1>4 DEF Min

\* A number of 0 .. n that has a property when the one before it has.
LEMMA FirstFailure ==
    ASSUME NEW n \in Nat, NEW T, 0 \in T, \A i \in 1 .. n : i - 1 \in T => i \in T
    PROVE  \A i \in 0 .. n : i \in T
<1> SUFFICES ASSUME NEW j \in 0 .. n, j \notin T PROVE FALSE
  OBVIOUS
<1> DEFINE F == {i \in 0 .. n : i \notin T}
<1>1. F \subseteq Nat /\ F # {}
  OBVIOUS
<1>2. Min(F) \in F /\ \A i \in F : Min(F) <= i
  <2> HIDE DEF F
  <2> QED BY <1>1, LeastOne
<1>3. Min(F) \in 1 .. n /\ Min(F) - 1 \in 0 .. n /\ Min(F) - 1 \notin F
  BY <1>2
<1> QED BY <1>2, <1>3

LEMMA SmallerPart ==
    ASSUME NEW b, IsFiniteSet(b), NEW a, a \subseteq b, NEW y \in b, y \notin a
    PROVE  ~(Cardinality(b) <= Cardinality(a))
<1>1. Cardinality(a) \in Nat /\ Cardinality(b) \in Nat
  BY FS_Subset, FS_CardinalityType
<1>2. a \in SUBSET b /\ a # b
  OBVIOUS
<1>3. Cardinality(a) <= Cardinality(b) /\ Cardinality(a) # Cardinality(b)
  BY <1>2, FS_Subset
<1> QED BY <1>1, <1>3

\* The greatest and the least of finitely many numbers are among them.
LEMMA GreatestOfRange ==
    ASSUME NEW T, T \subseteq Int, T # {}, IsFiniteSet(T)
    PROVE  Max(T) \in T /\ Min(T) \in T /\ \A y \in T : Min(T) <= y /\ y <= Max(T)
<1> DEFINE above(x) == {y \in T : x < y}
           below(x) == {y \in T : y < x}
           highs == {Cardinality(above(x)) : x \in T}
           lows == {Cardinality(below(x)) : x \in T}
<1>1. \A x \in T : /\ IsFiniteSet(above(x)) /\ Cardinality(above(x)) \in Nat
                   /\ IsFiniteSet(below(x)) /\ Cardinality(below(x)) \in Nat
  BY FS_Subset, FS_CardinalityType
<1>2. PICK x \in T : \A y \in T : Cardinality(above(x)) <= Cardinality(above(y))
  <2>1. highs \subseteq Nat /\ highs # {}
    BY <1>1
  <2>2. Min(highs) \in highs /\ \A c \in highs : Min(highs) <= c
    <3> HIDE DEF highs
    <3> QED BY <2>1, LeastOne
  <2> QED BY <2>2
<1>3. PICK z \in T : \A y \in T : Cardinality(below(z)) <= Cardinality(below(y))
  <2>1. lows \subseteq Nat /\ lows # {}
    BY <1>1
  <2>2. Min(lows) \in lows /\ \A c \in lows : Min(lows) <= c
    <3> HIDE DEF lows
    <3> QED BY <2>1, LeastOne
  <2> QED BY <2>2
<1>4. \A y \in T : x >= y
  <2> SUFFICES ASSUME NEW y \in T, x < y PROVE FALSE
    OBVIOUS
  <2> DEFINE a == above(y)
             b == above(x)
  <2>1. /\ \A w \in T : (y < w => x < w) /\ ~(y < y)
        /\ \A w : (w \in a <=> w \in T /\ y < w) /\ (w \in b <=> w \in T /\ x < w)
    OBVIOUS
  <2>2. a \subseteq b /\ y \in b /\ y \notin a
    <3> HIDE DEF a, b
    <3> QED BY <2>1
  <2>3. IsFiniteSet(b) /\ Cardinality(b) <= Cardinality(a)
    BY <1>1, <1>2
  <2> HIDE DEF a, b
  <2> QED BY <2>2, <2>3, SmallerPart
<1>5. \A y \in T : z <= y
  <2> SUFFICES ASSUME NEW y \in T, y < z PROVE FALSE
    OBVIOUS
  <2> DEFINE a == below(y)
             b == below(z)
  <2>1. /\ \A w \in T : (w < y => w < z) /\ ~(y < y)
        /\ \A w : (w \in a <=> w \in T /\ w < y) /\ (w \in b <=> w \in T /\ w < z)
    OBVIOUS
  <2>2. a \subseteq b /\ y \in b /\ y \notin a
    <3> HIDE DEF a, b
    <3> QED BY <2>1
  <2>3. IsFiniteSet(b) /\ Cardinality(b) <= Cardinality(a)
    BY <1>1, <1>3
  <2> HIDE DEF a, b
  <2> QED BY <2>2, <2>3, SmallerPart
<1>6. Max(T) \in T /\ \A y \in T : Max(T) >= y
  BY <1>4 DEF Max
<1>7. Min(T) \in T /\ \A y \in T : Min(T) <= y
  BY <1>5 DEF Min
<1> QED BY <1>6, <1>7

-----------------------------------------------------------------------------
(* Lists *)

\* The elements of the lists of a list, in one list.
LEMMA FlattenType ==
    ASSUME NEW S, NEW ss \in Seq(Seq(S))
    PROVE  FlattenSeq(ss) \in Seq(S)
<1> DEFINE n == Len(ss)
           Step(g, i) == IF i = 1 THEN ss[i] ELSE g[i - 1] \o ss[i]
           IsFlat(g, m) == g = [i \in 1 .. m |-> Step(g, i)]
           flat == CHOOSE g : IsFlat(g, n)
<1>1. n \in Nat /\ \A i \in 1 .. n : ss[i] \in Seq(S)
  OBVIOUS
<1>2. CASE n = 0
  <2>1. ss = <<>>
    BY <1>2
  <2> QED BY <1>2, <2>1 DEF FlattenSeq
<1>3. CASE n # 0
  <2>1. FlattenSeq(ss) = flat[n]
    BY <1>3 DEF FlattenSeq
  <2>2. \E g : IsFlat(g, n)
    <3> DEFINE T == {m \in Nat : \E g : IsFlat(g, m)}
    <3>1. 0 \in T
      <4> DEFINE g == [i \in 1 .. 0 |-> 0]
      <4>1. IsFlat(g, 0)
        OBVIOUS
      <4> QED BY <4>1
    <3>2. ASSUME NEW m \in 1 .. n, m - 1 \in T PROVE m \in T
      <4>1. PICK g : IsFlat(g, m - 1)
        BY <3>2
      <4> DEFINE h == [i \in 1 .. m |-> IF i = m THEN Step(g, m) ELSE g[i]]
      <4>2. \A i \in 1 .. m : h[i] = Step(h, i)
        <5> TAKE i \in 1 .. m
        <5>1. i # 1 => i - 1 \in 1 .. m /\ i - 1 # m /\ h[i - 1] = g[i - 1]
          OBVIOUS
        <5>2. Step(h, i) = Step(g, i)
          BY <5>1
        <5>3. i # m => i \in 1 .. m - 1
          OBVIOUS
        <5>4. i # m => g[i] = Step(g, i)
          <6> HIDE DEF Step, h
          <6> QED BY <4>1, <5>3
        <5> QED BY <5>2, <5>4
      <4>3. IsFlat(h, m)
        <5>1. h = [i \in 1 .. m |-> h[i]]
          OBVIOUS
        <5>2. [i \in 1 .. m |-> h[i]] = [i \in 1 .. m |-> Step(h, i)]
          <6> HIDE DEF Step, h
          <6> QED BY <4>2
        <5> HIDE DEF Step, h
        <5> QED BY <5>1, <5>2
      <4>4. m \in Nat
        OBVIOUS
      <4> HIDE DEF h, IsFlat
      <4> QED BY <4>3, <4>4
    <3>3. \A m \in 0 .. n : m \in T
      <4> HIDE DEF T
      <4> QED BY <1>1, <3>1, <3>2, FirstFailure
    <3>4. n \in T
      <4> HIDE DEF T
      <4> QED BY <1>1, <3>3
    <3> QED BY <3>4
  <2>3. IsFlat(flat, n)
    <3> HIDE DEF IsFlat
    <3> QED BY <2>2
  <2>4. \A i \in 1 .. n : flat[i] = Step(flat, i)
    <3> HIDE DEF flat, Step
    <3> QED BY <2>3
  <2> DEFINE T == {i \in Nat : i = 0 \/ flat[i] \in Seq(S)}
  <2>5. ASSUME NEW i \in 1 .. n, i - 1 \in T PROVE i \in T
    <3>1. i # 1 => flat[i - 1] \in Seq(S)
      <4> HIDE DEF flat
      <4> QED BY <2>5
    <3>2. Step(flat, i) \in Seq(S)
      <4> HIDE DEF flat
      <4> QED BY <1>1, <3>1
    <3>3. flat[i] \in Seq(S)
      <4> HIDE DEF flat, Step
      <4> QED BY <2>4, <3>2
    <3> QED BY <3>3
  <2>6. \A i \in 0 .. n : i \in T
    <3>1. 0 \in T
      OBVIOUS
    <3> HIDE DEF T
    <3> QED BY <1>1, <2>5, <3>1, FirstFailure
  <2>7. n \in T
    <3> HIDE DEF T
    <3> QED BY <1>1, <2>6
  <2> HIDE DEF flat
  <2> QED BY <1>3, <2>1, <2>7
<1> QED BY <1>2, <1>3

-----------------------------------------------------------------------------
(* Lists of clips *)

\* A clip that has the id of another, and its link or none.
Kin(d, c) == d.id = c.id /\ (d.link = c.link \/ d.link = 0)

\* A set of clips that does not tell kin apart.
ClosedUnderKin(G) ==
    /\ G \subseteq AnyClip
    /\ \A c \in G : \A d \in AnyClip : Kin(d, c) => d \in G

LEMMA LlroundType ==
    ASSUME NEW a \in Int, NEW b \in Nat \ {0}
    PROVE  Llround(a, b) \in Int
<1>1. \A x \in Int, y \in Nat \ {0} : x \div y \in Int
  OBVIOUS
<1>2. 2 * a + b \in Int /\ b - 2 * a \in Int /\ 2 * b \in Nat \ {0}
  OBVIOUS
<1>3. (2 * a + b) \div (2 * b) \in Int /\ (b - 2 * a) \div (2 * b) \in Int
  BY <1>1, <1>2
<1> HIDE <1>1
<1> QED BY <1>3 DEF Llround

LEMMA SrcAtType ==
    ASSUME NEW c \in AnyClip, NEW at \in Int
    PROVE  SrcAt(c, at) \in Int
<1>1. c.in \in Int /\ c.out \in Int /\ c.src \in Int /\ c.srcOut \in Int
  BY DEF AnyClip
<1>2. CASE Duration(c) <= 0
  BY <1>1, <1>2 DEF SrcAt
<1>3. CASE ~(Duration(c) <= 0)
  <2>1. Duration(c) \in Nat \ {0}
    BY <1>1, <1>3 DEF Duration
  <2>2. (at - c.in) * (c.srcOut - c.src) \in Int
    <3>1. \A x, y \in Int : x * y \in Int
      OBVIOUS
    <3> QED BY <1>1, <3>1
  <2>3. Llround((at - c.in) * (c.srcOut - c.src), Duration(c)) \in Int
    BY <2>1, <2>2, LlroundType
  <2> QED BY <1>1, <1>3, <2>3 DEF SrcAt
<1> QED BY <1>2, <1>3

\* What cutting and moving make of a clip are clips of its id.
LEMMA PieceType ==
    ASSUME NEW G, ClosedUnderKin(G), NEW c \in G, NEW at \in Int
    PROVE  /\ HeadOf(c, at) \in G
           /\ TailOf(c, at) \in G
           /\ Shifted(c, at) \in G
           /\ MovedTo(c, at) \in G
<1>1. c \in AnyClip /\ c.in \in Int /\ c.out \in Int
  BY DEF ClosedUnderKin, AnyClip
<1>2. SrcAt(c, at) \in Int
  BY <1>1, SrcAtType
<1>3. \A d \in AnyClip : Kin(d, c) => d \in G
  BY DEF ClosedUnderKin
<1>4. HeadOf(c, at) \in AnyClip /\ Kin(HeadOf(c, at), c)
  BY <1>1, <1>2 DEF HeadOf, Kin, AnyClip
<1>5. TailOf(c, at) \in AnyClip /\ Kin(TailOf(c, at), c)
  BY <1>1, <1>2 DEF TailOf, Kin, AnyClip
<1>6. \A x, y \in Int : [c EXCEPT !.in = x, !.out = y] \in AnyClip
  BY <1>1 DEF AnyClip
<1>9. Kin(Shifted(c, at), c) /\ Kin(MovedTo(c, at), c)
  BY <1>1 DEF Shifted, MovedTo, Kin, AnyClip
<1>7. Shifted(c, at) \in AnyClip
  <2>1. Shifted(c, at) = [c EXCEPT !.in = c.in + at, !.out = c.out + at]
    BY DEF Shifted
  <2>2. c.in + at \in Int /\ c.out + at \in Int
    BY <1>1
  <2> QED BY <1>6, <2>1, <2>2
<1>8. MovedTo(c, at) \in AnyClip
  <2>1. at + Duration(c) \in Int
    BY <1>1 DEF Duration
  <2> QED BY <1>6, <2>1 DEF MovedTo
<1> QED BY <1>3, <1>4, <1>5, <1>7, <1>8, <1>9

\* Clips that are cut, shifted or split are clips, with the ids they had.
LEMMA ClippedRangeType ==
    ASSUME NEW G, ClosedUnderKin(G), NEW clips \in Seq(G), NEW in \in Int, NEW out \in Int
    PROVE  ClippedRange(clips, in, out) \in Seq(G)
<1> DEFINE Kept(c) == IF Overlaps(c, in, out)
                      THEN When(c.in < in, <<HeadOf(c, in)>>)
                           \o When(c.out > out, <<TailOf(c, out)>>)
                      ELSE <<c>>
           ss == [i \in DOMAIN clips |-> Kept(clips[i])]
<1>1. ASSUME NEW c \in G PROVE Kept(c) \in Seq(G)
  <2>1. HeadOf(c, in) \in G /\ TailOf(c, out) \in G
    BY PieceType
  <2>2. <<HeadOf(c, in)>> \in Seq(G) /\ <<TailOf(c, out)>> \in Seq(G) /\ <<c>> \in Seq(G) /\ <<>> \in Seq(G)
    BY <2>1
  <2>3. /\ When(c.in < in, <<HeadOf(c, in)>>) \in Seq(G)
        /\ When(c.out > out, <<TailOf(c, out)>>) \in Seq(G)
    BY <2>2 DEF When
  <2>4. When(c.in < in, <<HeadOf(c, in)>>) \o When(c.out > out, <<TailOf(c, out)>>) \in Seq(G)
    BY <2>3
  <2> QED BY <2>2, <2>4
<1>2. ss \in Seq(Seq(G))
  <2> HIDE DEF Kept
  <2>1. \A i \in DOMAIN clips : Kept(clips[i]) \in Seq(G)
    BY <1>1
  <2> QED BY <2>1
<1>3. FlattenSeq(ss) \in Seq(G)
  <2> HIDE DEF ss
  <2> QED BY <1>2, FlattenType
<1> QED BY <1>3 DEF ClippedRange

LEMMA SplitAtType ==
    ASSUME NEW G, ClosedUnderKin(G), NEW clips \in Seq(G), NEW at \in Int
    PROVE  SplitAt(clips, at) \in Seq(G)
<1> DEFINE Kept(c) == IF c.in < at /\ at < c.out
                      THEN <<HeadOf(c, at), TailOf(c, at)>> ELSE <<c>>
           ss == [i \in DOMAIN clips |-> Kept(clips[i])]
<1>1. ASSUME NEW c \in G PROVE Kept(c) \in Seq(G)
  <2>1. HeadOf(c, at) \in G /\ TailOf(c, at) \in G
    BY PieceType
  <2> QED BY <2>1
<1>2. ss \in Seq(Seq(G))
  <2> HIDE DEF Kept
  <2>1. \A i \in DOMAIN clips : Kept(clips[i]) \in Seq(G)
    BY <1>1
  <2> QED BY <2>1
<1>3. FlattenSeq(ss) \in Seq(G)
  <2> HIDE DEF ss
  <2> QED BY <1>2, FlattenType
<1> QED BY <1>3 DEF SplitAt

\* What removing and finding clips returns.
LEMMA WithoutIdType ==
    ASSUME NEW S, NEW clips \in Seq(S), NEW id
    PROVE  WithoutId(clips, id) \in Seq(S)
<1> DEFINE ss == [i \in DOMAIN clips |-> When(clips[i].id # id, <<clips[i]>>)]
<1>1. \A i \in DOMAIN clips : When(clips[i].id # id, <<clips[i]>>) \in Seq(S)
  BY DEF When
<1>2. ss \in Seq(Seq(S))
  <2> DEFINE e(i) == When(clips[i].id # id, <<clips[i]>>)
  <2> HIDE DEF e
  <2>1. \A i \in DOMAIN clips : e(i) \in Seq(S)
    BY <1>1 DEF e
  <2>2. [i \in DOMAIN clips |-> e(i)] \in Seq(Seq(S))
    BY <2>1
  <2> QED BY <2>2 DEF e
<1>3. FlattenSeq(ss) \in Seq(S)
  <2> HIDE DEF ss
  <2> QED BY <1>2, FlattenType
<1> QED BY <1>3 DEF WithoutId

LEMMA ShiftFromType ==
    ASSUME NEW G, ClosedUnderKin(G), NEW clips \in Seq(G), NEW from \in Int, NEW delta \in Int
    PROVE  ShiftFrom(clips, from, delta) \in Seq(G)
<1>1. \A i \in DOMAIN clips : clips[i] \in G /\ Shifted(clips[i], delta) \in G
  BY PieceType
<1>2. [i \in DOMAIN clips |->
          IF clips[i].in >= from THEN Shifted(clips[i], delta) ELSE clips[i]] \in Seq(G)
  BY <1>1
<1> QED BY <1>2 DEF ShiftFrom

LEMMA InsertAtType ==
    ASSUME NEW S, NEW s \in Seq(S), NEW i \in 1 .. Len(s) + 1, NEW x \in S
    PROVE  /\ InsertAt(s, i, x) \in Seq(S)
           /\ Len(InsertAt(s, i, x)) = Len(s) + 1
<1>1. /\ SubSeq(s, 1, i - 1) \in Seq(S) /\ Len(SubSeq(s, 1, i - 1)) = i - 1
      /\ SubSeq(s, i, Len(s)) \in Seq(S) /\ Len(SubSeq(s, i, Len(s))) = Len(s) + 1 - i
  OBVIOUS
<1>2. <<x>> \in Seq(S) /\ Len(<<x>>) = 1
  OBVIOUS
<1> DEFINE a == SubSeq(s, 1, i - 1)
           b == SubSeq(s, i, Len(s))
<1> HIDE DEF a, b
<1>3. /\ a \in Seq(S) /\ Len(a) = i - 1
      /\ b \in Seq(S) /\ Len(b) = Len(s) + 1 - i
  BY <1>1 DEF a, b
<1> DEFINE c == a \o <<x>>
<1>4. c \in Seq(S) /\ Len(c) = i
  BY <1>2, <1>3
<1>5. InsertAt(s, i, x) = c \o b
  BY DEF InsertAt, a, b
<1> HIDE DEF c
<1>6. c \o b \in Seq(S) /\ Len(c \o b) = Len(s) + 1
  BY <1>3, <1>4
<1> QED BY <1>5, <1>6

LEMMA InsertSortedType ==
    ASSUME NEW S, NEW clips \in Seq(S), NEW c \in S
    PROVE  InsertSorted(clips, c) \in Seq(S)
<1> DEFINE T == {i \in DOMAIN clips : clips[i].in < c.in}
           n == Len(clips)
<1>1. n \in Nat /\ T \subseteq 1 .. n
  OBVIOUS
<1> HIDE DEF T, n
<1>2. IsFiniteSet(1 .. n) /\ Cardinality(1 .. n) = n
  BY <1>1, FS_Interval
<1>3. IsFiniteSet(T) /\ Cardinality(T) <= n
  BY <1>1, <1>2, FS_Subset
<1>4. Cardinality(T) \in Nat
  BY <1>3, FS_CardinalityType
<1>5. 1 + Cardinality(T) \in 1 .. Len(clips) + 1
  BY <1>1, <1>3, <1>4 DEF n
<1>6. InsertAt(clips, 1 + Cardinality(T), c) \in Seq(S)
  BY <1>5, InsertAtType
<1> QED BY <1>6 DEF InsertSorted, T

LEMMA WithoutPointeeType ==
    ASSUME NEW S, NEW clips \in Seq(S), NEW i \in 0 .. Len(clips)
    PROVE  WithoutPointee(clips, i) \in Seq(S)
<1> DEFINE later == SubSeq(clips, i + 1, Len(clips))
           I == {j \in 1 .. Len(later) : later[j].id # clips[i].id}
           f == IF I # {} THEN Min(I) ELSE 0
           rest == SubSeq(later, f + 1, Len(later))
           tail == <<later[f]>> \o WithoutId(rest, later[f].id)
<1>1. SubSeq(clips, 1, i - 1) \in Seq(S) /\ later \in Seq(S)
  OBVIOUS
<1>2. I # {} => f \in 1 .. Len(later)
  <2>1. I \subseteq Nat /\ I \subseteq 1 .. Len(later)
    OBVIOUS
  <2> HIDE DEF I
  <2> QED BY <2>1, LeastOne
<1>3. I # {} => f # 0
  <2> HIDE DEF f, I
  <2> QED BY <1>1, <1>2
<1>4. WithoutPointee(clips, i) = SubSeq(clips, 1, i - 1) \o When(f # 0, tail)
  BY DEF WithoutPointee, SelectInSeq
<1>5. CASE I = {}
  <2>1. When(f # 0, tail) = <<>>
    BY <1>5 DEF When
  <2>2. SubSeq(clips, 1, i - 1) \o <<>> \in Seq(S)
    BY <1>1
  <2> HIDE DEF tail, f
  <2> QED BY <1>4, <2>1, <2>2
<1>6. CASE I # {}
  <2> HIDE DEF later, I, f
  <2>1. rest \in Seq(S) /\ later[f] \in S
    BY <1>1, <1>2, <1>6
  <2>2. WithoutId(rest, later[f].id) \in Seq(S)
    <3> HIDE DEF rest
    <3> QED BY <2>1, WithoutIdType
  <2>3. tail \in Seq(S)
    BY <2>1, <2>2
  <2>4. When(f # 0, tail) \in Seq(S)
    BY <1>3, <1>6, <2>3 DEF When
  <2> HIDE DEF tail
  <2> QED BY <1>1, <1>4, <2>4
<1> QED BY <1>5, <1>6

\* A lookup by id finds a clip with the id, or says that there is none.
LEMMA IndexOfIdFinds ==
    ASSUME NEW S, NEW clips \in Seq(S), NEW id
    PROVE  /\ IndexOfId(clips, id) # 0 =>
                IndexOfId(clips, id) \in 1 .. Len(clips) /\ clips[IndexOfId(clips, id)].id = id
           /\ (\E i \in 1 .. Len(clips) : clips[i].id = id) => IndexOfId(clips, id) # 0
<1> DEFINE I == {j \in 1 .. Len(clips) : clips[j].id = id}
<1>1. IndexOfId(clips, id) = IF I # {} THEN Min(I) ELSE 0
  BY DEF IndexOfId, SelectInSeq
<1>2. I # {} => Min(I) \in I
  <2>1. I \subseteq Nat
    OBVIOUS
  <2> HIDE DEF I
  <2> QED BY <2>1, LeastOne
<1>3. I # {} => Min(I) \in 1 .. Len(clips) /\ clips[Min(I)].id = id
  BY <1>2
<1>4. I # {} => Min(I) # 0
  <2> HIDE DEF I
  <2> QED BY <1>3
<1>5. (\E i \in 1 .. Len(clips) : clips[i].id = id) => I # {}
  OBVIOUS
<1> HIDE DEF I
<1> QED BY <1>1, <1>3, <1>4, <1>5

LEMMA IndexAtFinds ==
    ASSUME NEW S, NEW clips \in Seq(S), NEW pos
    PROVE  IndexAt(clips, pos) # 0 => IndexAt(clips, pos) \in 1 .. Len(clips)
<1> DEFINE I == {j \in 1 .. Len(clips) : clips[j].in <= pos /\ pos < clips[j].out}
<1>1. IndexAt(clips, pos) = IF I # {} THEN Min(I) ELSE 0
  BY DEF IndexAt, SelectInSeq
<1>2. I # {} => Min(I) \in I
  <2>1. I \subseteq Nat
    OBVIOUS
  <2> HIDE DEF I
  <2> QED BY <2>1, LeastOne
<1>3. I # {} => Min(I) \in 1 .. Len(clips)
  BY <1>2
<1> HIDE DEF I
<1> QED BY <1>1, <1>3

-----------------------------------------------------------------------------
(* Documents *)

IdsIn(clips) == {clips[i].id : i \in DOMAIN clips}

\* A reference to a track, and the track.
LEMMA RefFacts ==
    ASSUME NEW s \in Documents, NEW r \in Refs(s)
    PROVE  /\ r[1] \in Kinds /\ r[2] \in 1 .. Len(s[r[1]]) /\ r = <<r[1], r[2]>>
           /\ r[2] \in DOMAIN s[r[1]]
           /\ r # NoRef
           /\ TrackAt(s, r) \in Track
<1>1. r[1] \in Kinds /\ r[2] \in 1 .. MaxTracks /\ r = <<r[1], r[2]>> /\ r[2] <= Len(s[r[1]])
  BY DEF Refs
<1>2. r[2] \in 1 .. Len(s[r[1]]) /\ r[2] \in DOMAIN s[r[1]] /\ s[r[1]][r[2]] \in Track
  BY <1>1, DocumentFacts, MaxTracksAssumption
<1>3. r # NoRef
  BY <1>1 DEF NoRef, Kinds
<1> QED BY <1>1, <1>2, <1>3 DEF TrackAt

LEMMA RefIntro ==
    ASSUME NEW s \in Documents, NEW k \in Kinds, NEW i \in DOMAIN s[k]
    PROVE  <<k, i>> \in Refs(s)
<1>1. i \in 1 .. Len(s[k]) /\ Len(s[k]) \in 0 .. MaxTracks
  BY DocumentFacts
<1>2. i \in 1 .. MaxTracks /\ i <= Len(s[k])
  BY <1>1, MaxTracksAssumption
<1> QED BY <1>2 DEF Refs

LEMMA TrackFacts ==
    ASSUME Track = AnyTrack, NEW s \in Documents, NEW r \in Refs(s)
    PROVE  /\ TrackAt(s, r) \in AnyTrack
           /\ ClipsAt(s, r) \in Seq(AnyClip)
           /\ Locked(s, r) \in BOOLEAN
<1>1. TrackAt(s, r) \in AnyTrack
  BY RefFacts
<1> QED BY <1>1 DEF AnyTrack, ClipsAt, Locked

\* What is on a document after a change that only looks at one track.
Changed(s, u, r) ==
    /\ u \in Documents
    /\ Refs(u) = Refs(s)
    /\ SameBut(s, u, {r})
    /\ \A q \in Refs(s) \ {r} : TrackAt(u, q) = TrackAt(s, q)

\* Writing one track.
LEMMA WriteTrack ==
    ASSUME NEW s \in Documents, NEW r \in Refs(s), NEW t \in Track,
           NEW u, u = [s EXCEPT ![r[1]][r[2]] = t]
    PROVE  /\ Changed(s, u, r)
           /\ TrackAt(u, r) = t
<1> DEFINE list == [s[r[1]] EXCEPT ![r[2]] = t]
<1>1. r[1] \in Kinds /\ r[2] \in DOMAIN s[r[1]] /\ r = <<r[1], r[2]>> /\ s[r[1]] \in TrackLists
  BY RefFacts, DocumentFacts
<1>2. list \in TrackLists /\ Len(list) = Len(s[r[1]]) /\ list[r[2]] = t
      /\ \A i \in DOMAIN s[r[1]] : i # r[2] => list[i] = s[r[1]][i]
  BY <1>1 DEF TrackLists
<1>3. u \in Documents /\ u[r[1]] = list /\ \A k \in Kinds : k # r[1] => u[k] = s[k]
  <2>1. u = [s EXCEPT ![r[1]] = list]
    OBVIOUS
  <2> HIDE DEF list
  <2> QED BY ZenonT(30), <1>1, <1>2, <2>1 DEF Documents
<1> HIDE DEF list
<1>4. \A k \in Kinds : Len(u[k]) = Len(s[k])
  BY <1>2, <1>3
<1>5. Refs(u) = Refs(s)
  BY <1>4 DEF Refs
<1>6. TrackAt(u, r) = t
  BY <1>2, <1>3 DEF TrackAt
<1>7. ASSUME NEW q \in Refs(s), q # r PROVE TrackAt(u, q) = TrackAt(s, q)
  <2>1. q[1] \in Kinds /\ q[2] \in DOMAIN s[q[1]] /\ q = <<q[1], q[2]>>
    BY RefFacts
  <2>2. CASE q[1] # r[1]
    BY <1>3, <2>1, <2>2 DEF TrackAt
  <2>3. CASE q[1] = r[1]
    <3>1. q[2] # r[2]
      BY <1>1, <1>7, <2>1, <2>3
    <3> QED BY <1>2, <1>3, <2>1, <2>3, <3>1 DEF TrackAt
  <2> QED BY <2>2, <2>3
<1>8. SameBut(s, u, {r})
  BY <1>4, <1>7 DEF SameBut, TrackAt
<1> QED BY <1>3, <1>5, <1>6, <1>7, <1>8 DEF Changed

LEMMA SetClipsFacts ==
    ASSUME Track = AnyTrack, NEW s \in Documents, NEW r \in Refs(s), NEW clips \in Seq(AnyClip)
    PROVE  LET u == SetClips(s, r, clips)
           IN  /\ Changed(s, u, r)
               /\ ClipsAt(u, r) = clips
               /\ \A q \in Refs(s) : Locked(u, q) = Locked(s, q)
               /\ \A q \in Refs(s) \ {r} : ClipsAt(u, q) = ClipsAt(s, q)
<1> DEFINE t == [TrackAt(s, r) EXCEPT !.clips = clips]
           u == [s EXCEPT ![r[1]][r[2]] = t]
<1>1. t \in Track /\ t.clips = clips /\ t.locked = TrackAt(s, r).locked
  BY TrackFacts DEF AnyTrack
<1> HIDE DEF t
<1>2. Changed(s, u, r) /\ TrackAt(u, r) = t
  BY <1>1, WriteTrack
<1>3. u = SetClips(s, r, clips)
  BY DEF SetClips, t, TrackAt
<1> HIDE DEF u
<1>6. ClipsAt(u, r) = clips /\ Locked(u, r) = Locked(s, r)
  BY <1>1, <1>2 DEF ClipsAt, Locked
<1>7. \A q \in Refs(s) \ {r} : ClipsAt(u, q) = ClipsAt(s, q) /\ Locked(u, q) = Locked(s, q)
  BY <1>2 DEF Changed, ClipsAt, Locked
<1> QED BY <1>2, <1>3, <1>6, <1>7

\* The track a clip is found on.
LEMMA FindClipRefFinds ==
    ASSUME Track = AnyTrack, NEW s \in Documents, NEW id
    PROVE  LET r == FindClipRef(s, id)
           IN  /\ r # NoRef =>
                    /\ r \in Refs(s)
                    /\ IndexOfId(ClipsAt(s, r), id) \in 1 .. Len(ClipsAt(s, r))
                    /\ ClipWithId(s, r, id) \in AnyClip
                    /\ ClipWithId(s, r, id).id = id
               /\ r = NoRef => \A q \in Refs(s) : id \notin IdsIn(ClipsAt(s, q))
<1> DEFINE v == [i \in DOMAIN s["video"] |-> <<"video", i>>]
           a == [i \in DOMAIN s["audio"] |-> <<"audio", i>>]
           refs == v \o a
           I == {i \in 1 .. Len(refs) : HasId(s, refs[i], id)}
           m == IF I # {} THEN Min(I) ELSE 0
           r == IF m = 0 THEN NoRef ELSE refs[m]
<1>1. /\ "video" \in Kinds /\ "audio" \in Kinds /\ Kinds = {"video", "audio"}
      /\ DOMAIN s["video"] = 1 .. Len(s["video"]) /\ Len(s["video"]) \in Nat
      /\ DOMAIN s["audio"] = 1 .. Len(s["audio"]) /\ Len(s["audio"]) \in Nat
  BY DocumentFacts DEF Kinds
<1>2. v \in Seq(Refs(s)) /\ Len(v) = Len(s["video"])
  <2>1. \A i \in DOMAIN s["video"] : <<"video", i>> \in Refs(s)
    BY <1>1, RefIntro
  <2> QED BY <1>1, <2>1
<1>3. a \in Seq(Refs(s)) /\ Len(a) = Len(s["audio"])
  <2>1. \A i \in DOMAIN s["audio"] : <<"audio", i>> \in Refs(s)
    BY <1>1, RefIntro
  <2> QED BY <1>1, <2>1
<1>4. \A q \in Refs(s) : \E i \in 1 .. Len(refs) : refs[i] = q
  <2> TAKE q \in Refs(s)
  <2>1. q = <<q[1], q[2]>> /\ q[1] \in Kinds /\ q[2] \in 1 .. Len(s[q[1]])
    BY RefFacts
  <2>2. CASE q[1] = "video"
    <3>1. q[2] \in 1 .. Len(v) /\ v[q[2]] = q
      BY <1>1, <1>2, <2>1, <2>2
    <3> HIDE DEF v, a
    <3>2. q[2] \in 1 .. Len(v \o a) /\ (v \o a)[q[2]] = v[q[2]]
      BY <1>2, <1>3, <3>1
    <3> QED BY <3>1, <3>2
  <2>3. CASE q[1] = "audio"
    <3>1. q[2] \in 1 .. Len(a) /\ a[q[2]] = q
      BY <1>1, <1>3, <2>1, <2>3
    <3> HIDE DEF v, a
    <3>2. Len(v) + q[2] \in 1 .. Len(v \o a) /\ (v \o a)[Len(v) + q[2]] = a[q[2]]
      BY <1>2, <1>3, <3>1
    <3> QED BY <3>1, <3>2
  <2> QED BY <1>1, <2>1, <2>2, <2>3
<1>5. refs \in Seq(Refs(s))
  <2> HIDE DEF v, a
  <2> QED BY <1>2, <1>3
<1>6. FindClipRef(s, id) = r
  BY DEF FindClipRef, SelectInSeq
<1> HIDE DEF v, a, refs
<1>7. I # {} => Min(I) \in I
  <2>1. I \subseteq Nat
    OBVIOUS
  <2> HIDE DEF I
  <2> QED BY <2>1, LeastOne
<1>8. I # {} => Min(I) \in 1 .. Len(refs) /\ Min(I) # 0 /\ HasId(s, refs[Min(I)], id)
  BY <1>7
<1>9. I # {} => r = refs[Min(I)] /\ r \in Refs(s)
  <2>1. I # {} => r = refs[Min(I)]
    <3> HIDE DEF I
    <3> QED BY <1>8
  <2> HIDE DEF r, I
  <2> QED BY <1>5, <1>8, <2>1
<1>10. I = {} => r = NoRef
  OBVIOUS
<1>11. I # {} => r # NoRef /\ HasId(s, r, id)
  <2> HIDE DEF I, r
  <2> QED BY <1>8, <1>9, RefFacts
<1>12. ASSUME r # NoRef
       PROVE  /\ r \in Refs(s)
              /\ IndexOfId(ClipsAt(s, r), id) \in 1 .. Len(ClipsAt(s, r))
              /\ ClipWithId(s, r, id) \in AnyClip
              /\ ClipWithId(s, r, id).id = id
  <2> HIDE DEF r, I
  <2>1. r \in Refs(s) /\ HasId(s, r, id)
    BY <1>9, <1>10, <1>11, <1>12
  <2>2. ClipsAt(s, r) \in Seq(AnyClip)
    BY <2>1, TrackFacts
  <2>3. IndexOfId(ClipsAt(s, r), id) \in 1 .. Len(ClipsAt(s, r))
        /\ ClipsAt(s, r)[IndexOfId(ClipsAt(s, r), id)].id = id
    BY <2>1, <2>2, IndexOfIdFinds DEF HasId
  <2> QED BY <2>1, <2>2, <2>3 DEF ClipWithId
<1>13. ASSUME r = NoRef, NEW q \in Refs(s), id \in IdsIn(ClipsAt(s, q))
       PROVE  FALSE
  <2> HIDE DEF r
  <2>1. PICK i \in 1 .. Len(refs) : refs[i] = q
    BY <1>4
  <2>2. ClipsAt(s, q) \in Seq(AnyClip)
    BY TrackFacts
  <2>3. HasId(s, q, id)
    <3>1. \E j \in 1 .. Len(ClipsAt(s, q)) : ClipsAt(s, q)[j].id = id
      BY <1>13, <2>2 DEF IdsIn
    <3> QED BY <2>2, <3>1, IndexOfIdFinds DEF HasId
  <2>4. I # {}
    BY <2>1, <2>3
  <2> QED BY <1>11, <1>13, <2>4
<1> QED BY <1>6, <1>12, <1>13

-----------------------------------------------------------------------------
(* Operations *)

\* u is s with other clips on the tracks of a.
Touched(s, u, a) ==
    /\ u \in Documents
    /\ Refs(u) = Refs(s)
    /\ SameBut(s, u, a)
    /\ \A p \in Refs(s) : Locked(u, p) = Locked(s, p)
    /\ \A p \in Refs(s) \ a : ClipsAt(u, p) = ClipsAt(s, p)

\* A change in steps touches the tracks of each step, and perhaps fewer.
LEMMA TouchedNone ==
    ASSUME NEW s \in Documents, NEW a
    PROVE  Touched(s, s, a)
BY DEF Touched, SameBut

LEMMA TouchedMore ==
    ASSUME NEW s, NEW u, NEW a, NEW b, Touched(s, u, a), a \subseteq b
    PROVE  Touched(s, u, b)
BY DEF Touched, SameBut

LEMMA TouchedTwice ==
    ASSUME NEW s, NEW t, NEW u, NEW a, NEW b, Touched(s, t, a), Touched(t, u, b)
    PROVE  Touched(s, u, a \cup b)
BY DEF Touched, SameBut

LEMMA SetClipsTouches ==
    ASSUME Track = AnyTrack, NEW s \in Documents, NEW r \in Refs(s), NEW clips \in Seq(AnyClip)
    PROVE  /\ Touched(s, SetClips(s, r, clips), {r})
           /\ ClipsAt(SetClips(s, r, clips), r) = clips
BY ZenonT(30), SetClipsFacts DEF Touched, Changed

\* What an operation finds.
Ready ==
    /\ Track = AnyTrack
    /\ seq \in Documents
    /\ nextId \in Nat
    /\ session \in Sessions

LEMMA ReadyFacts ==
    ASSUME Ready
    PROVE  /\ Frames \subseteq Nat /\ Lengths \subseteq Nat /\ Horizon \in Nat
           /\ Start \subseteq Documents
BY SessionsAssumption DEF Ready, Frames, Lengths, Horizon, Start

\* No track is locked, and none will be where no operation locks one.
NoLocks(s) == \A r \in Refs(s) : ~Locked(s, r)
LocksKept == "lock" \notin ops /\ NoLocks(seq) => NoLocks(seq')

\* What an operation leaves: a command on the stack that lists the tracks
\* that were changed.
Edited ==
    /\ EditTracks \/ EditTrackList
    /\ nextId' \in Nat /\ nextId <= nextId'
    /\ session' = session
    /\ LocksKept

\* The clips of locked tracks are where they were.
Spared(t) ==
    \A r \in Refs(seq) : Locked(seq, r) => SpansOf(ClipsAt(t, r)) = SpansOf(ClipsAt(seq, r))

\* An operation that changes only tracks it lists is a step of the stack.
LEMMA CommitWrites ==
    ASSUME Ready, NEW t \in Documents, NEW refs, NEW n \in Nat, SameBut(seq, t, refs \ {NoRef}),
           refs \subseteq Refs(seq) \cup {NoRef}, Commit(seq, t, refs, n),
           "lock" \notin ops /\ NoLocks(seq) => NoLocks(t)
    PROVE  Edited /\ seq' = t /\ nextId' = nextId + n
<1>1. Record(t, EditCommand(seq, t, refs \ {NoRef})) /\ nextId' = nextId + n /\ session' = session
  BY DEF Commit
<1>2. refs \ {NoRef} \in SUBSET Refs(seq)
  OBVIOUS
<1>3. EditTracks
  BY <1>1, <1>2 DEF EditTracks
<1>4. nextId' \in Nat /\ nextId <= nextId' /\ seq' = t
  BY <1>1 DEF Ready, Record
<1>5. LocksKept
  BY <1>4 DEF LocksKept
<1> QED BY <1>1, <1>3, <1>4, <1>5 DEF Edited

LEMMA CommitEdits ==
    ASSUME Ready, NEW t, NEW refs, NEW n \in Nat, Touched(seq, t, refs \ {NoRef}),
           refs \subseteq Refs(seq) \cup {NoRef}, Commit(seq, t, refs, n)
    PROVE  Edited /\ seq' = t /\ nextId' = nextId + n
<1>1. t \in Documents /\ SameBut(seq, t, refs \ {NoRef})
  BY DEF Touched
<1>2. NoLocks(seq) => NoLocks(t)
  BY DEF Touched, NoLocks
<1> QED BY <1>1, <1>2, CommitWrites

LEMMA UnlockedSpares ==
    ASSUME NEW t, NEW a, Touched(seq, t, a), \A r \in a \cap Refs(seq) : ~Locked(seq, r)
    PROVE  Spared(t)
BY DEF Touched, Spared

LEMMA AnyClipClosed == ClosedUnderKin(AnyClip)
BY DEF ClosedUnderKin

\* The lemmas on lists, with any ids.
LEMMA ListTypes ==
    ASSUME NEW clips \in Seq(AnyClip), NEW in \in Int, NEW out \in Int
    PROVE  /\ ClippedRange(clips, in, out) \in Seq(AnyClip)
           /\ SplitAt(clips, in) \in Seq(AnyClip)
           /\ ShiftFrom(clips, in, out) \in Seq(AnyClip)
<1>1. ClosedUnderKin(AnyClip)
  BY AnyClipClosed
<1> QED BY <1>1, ClippedRangeType, SplitAtType, ShiftFromType

LEMMA PieceTypes ==
    ASSUME NEW c \in AnyClip, NEW at \in Int
    PROVE  /\ HeadOf(c, at) \in AnyClip
           /\ TailOf(c, at) \in AnyClip
           /\ MovedTo(c, at) \in AnyClip
<1>1. ClosedUnderKin(AnyClip)
  BY AnyClipClosed
<1> QED BY <1>1, PieceType

\* The values of a list are finitely many.
LEMMA ListFinite ==
    ASSUME NEW n \in Nat, NEW f, DOMAIN f = 1 .. n
    PROVE  IsFiniteSet({f[i] : i \in 1 .. n})
<1> DEFINE T == {f[i] : i \in 1 .. n}
           g == [i \in 1 .. n |-> f[i]]
<1>1. IsFiniteSet(1 .. n)
  BY FS_Interval
<1>2. g \in Surjection(1 .. n, T)
  BY DEF Surjection
<1> HIDE DEF T, g
<1>3. IsFiniteSet(T)
  BY <1>1, <1>2, FS_Surjection
<1> QED BY <1>3 DEF T

\* The types of new clips and of lists they are placed in.
LEMMA EndFrameType ==
    ASSUME NEW clips \in Seq(AnyClip)
    PROVE  /\ EndFrame(clips) \in Int /\ 0 <= EndFrame(clips)
           /\ \A i \in DOMAIN clips : clips[i].out <= EndFrame(clips)
<1> DEFINE T == {clips[i].out : i \in DOMAIN clips}
           outs == [i \in DOMAIN clips |-> clips[i].out]
<1>1. T \subseteq Int
  <2>1. \A c \in AnyClip : c.out \in Int
    BY DEF AnyClip
  <2> QED BY <2>1
<1>2. IsFiniteSet(T)
  <2>1. DOMAIN clips = 1 .. Len(clips) /\ Len(clips) \in Nat
    OBVIOUS
  <2>2. DOMAIN outs = 1 .. Len(clips) /\ T = {outs[i] : i \in 1 .. Len(clips)}
    BY <2>1
  <2> HIDE DEF outs, T
  <2> QED BY <2>1, <2>2, ListFinite
<1>a. \A i \in DOMAIN clips : clips[i].out \in T
  OBVIOUS
<1> HIDE DEF T
<1>3. T \cup {0} \subseteq Int /\ T \cup {0} # {} /\ IsFiniteSet(T \cup {0})
  BY <1>1, <1>2, FS_AddElement
<1>4. EndFrame(clips) = Max(T \cup {0})
  BY DEF EndFrame, T
<1> QED BY <1>3, <1>4, <1>a, GreatestOfRange

LEMMA NewClipType ==
    ASSUME NEW id \in Nat, NEW m \in DOMAIN Media, NEW in \in Int, NEW length \in Nat,
           NEW link \in Nat
    PROVE  NewClip(id, m, in, length, link) \in AnyClip
<1>1. Media[m].num \in Nat /\ Media[m].den \in Nat \ {0}
  BY MediaAssumption
<1>2. length * Media[m].num \in Int
  BY <1>1
<1>3. Llround(length * Media[m].num, Media[m].den) \in Int
  BY <1>1, <1>2, LlroundType
<1> QED BY <1>3 DEF NewClip, AnyClip

LEMMA PlacedType ==
    ASSUME NEW clips \in Seq(AnyClip), NEW c \in AnyClip, NEW mode
    PROVE  Placed(clips, c, mode) \in Seq(AnyClip)
<1>1. c.in \in Int /\ c.out \in Int /\ Duration(c) \in Int
  BY DEF AnyClip, Duration
<1>2. SplitAt(clips, c.in) \in Seq(AnyClip) /\ ClippedRange(clips, c.in, c.out) \in Seq(AnyClip)
  BY <1>1, ListTypes
<1>3. ShiftFrom(SplitAt(clips, c.in), c.in, Duration(c)) \in Seq(AnyClip)
  BY <1>1, <1>2, ListTypes
<1> QED BY <1>2, <1>3, InsertSortedType DEF Placed

\* A clip is placed on an unlocked track, and only there.
LEMMA PlaceOnEdits ==
    ASSUME Ready, NEW r \in Refs(seq), NEW m \in DOMAIN Media, NEW in \in Int,
           NEW length \in Nat, NEW mode, PlaceOn(seq, r, m, in, length, mode)
    PROVE  Edited /\ Spared(seq')
<1> DEFINE clips == ClipsAt(seq, r)
           c == NewClip(nextId, m, StartOf(clips, in, mode), length, 0)
           t == SetClips(seq, r, Placed(clips, c, mode))
<1>1. ~Locked(seq, r) /\ Commit(seq, t, {r}, 1)
  BY DEF PlaceOn
<1>2. clips \in Seq(AnyClip) /\ seq \in Documents /\ nextId \in Nat /\ Track = AnyTrack
  BY TrackFacts DEF Ready
<1>3. StartOf(clips, in, mode) \in Int
  BY <1>2, EndFrameType DEF StartOf
<1>4. c \in AnyClip
  BY <1>2, <1>3, NewClipType
<1> HIDE DEF clips, c
<1>5. Placed(clips, c, mode) \in Seq(AnyClip)
  BY <1>2, <1>4, PlacedType
<1>6. Touched(seq, t, {r})
  BY <1>2, <1>5, SetClipsTouches
<1> HIDE DEF t
<1>7. r # NoRef
  BY <1>2, RefFacts
<1>8. Touched(seq, t, {r} \ {NoRef}) /\ {r} \subseteq Refs(seq) \cup {NoRef}
  BY <1>6, <1>7, TouchedMore
<1>9. Edited /\ seq' = t
  BY <1>1, <1>8, CommitEdits
<1>10. Spared(t)
  BY <1>1, <1>6, UnlockedSpares
<1> QED BY <1>9, <1>10

\* The parts of a pair are placed on unlocked tracks, and only there.
LEMMA PlaceLinkedEdits ==
    ASSUME Ready, NEW vi \in DOMAIN seq["video"], NEW ai \in DOMAIN seq["audio"],
           NEW m \in DOMAIN Media, NEW in \in Int, NEW length \in Nat, NEW mode,
           PlaceLinked(vi, ai, m, in, length, mode)
    PROVE  Edited /\ Spared(seq')
<1> DEFINE top == TopFree(seq, in, 0)
           vr == <<"video", IF mode = "onTop" /\ top # 0 THEN top ELSE vi>>
           ar == <<"audio", ai>>
           v == NewClip(nextId, m, StartOf(ClipsAt(seq, vr), in, mode), length, nextId + 1)
           a == NewClip(nextId + 1, m, StartOf(ClipsAt(seq, ar), in, mode), length, nextId)
           t == SetClips(seq, vr, Placed(ClipsAt(seq, vr), v, mode))
           u == SetClips(t, ar, Placed(ClipsAt(t, ar), a, mode))
<1>1. ~Locked(seq, vr) /\ ~Locked(seq, ar) /\ Commit(seq, u, {vr, ar}, 2)
  BY DEF PlaceLinked
<1>2. /\ seq \in Documents /\ nextId \in Nat /\ nextId + 1 \in Nat /\ Track = AnyTrack
      /\ "video" \in Kinds /\ "audio" \in Kinds
  BY DEF Ready, Kinds
<1>3. top # 0 => top \in DOMAIN seq["video"]
  <2> DEFINE I == {i \in 1 .. Len(seq["video"]) :
                     \A j \in DOMAIN seq["video"][i].clips :
                         ~Overlaps(seq["video"][i].clips[j], in, 0)}
  <2>1. top = IF I # {} THEN Max(I) ELSE 0
    BY DEF TopFree, SelectLastInSeq
  <2>a. DOMAIN seq["video"] = 1 .. Len(seq["video"]) /\ Len(seq["video"]) \in Nat
    BY <1>2, DocumentFacts
  <2>2. I \subseteq DOMAIN seq["video"] /\ I \subseteq Int /\ I \in SUBSET (1 .. Len(seq["video"]))
    BY <2>a
  <2> HIDE DEF I, top
  <2>b. IsFiniteSet(1 .. Len(seq["video"]))
    BY <2>a, FS_Interval
  <2>3. IsFiniteSet(I)
    BY <2>2, <2>b, FS_Subset
  <2> QED BY <2>1, <2>2, <2>3, GreatestOfRange
<1> HIDE DEF top
<1>4. vr \in Refs(seq) /\ ar \in Refs(seq)
  BY <1>2, <1>3, RefIntro
<1> HIDE DEF vr, ar
<1>5. ClipsAt(seq, vr) \in Seq(AnyClip) /\ ClipsAt(seq, ar) \in Seq(AnyClip)
  BY <1>2, <1>4, TrackFacts
<1>6. /\ StartOf(ClipsAt(seq, vr), in, mode) \in Int
      /\ StartOf(ClipsAt(seq, ar), in, mode) \in Int
  BY <1>5, EndFrameType DEF StartOf
<1>7. v \in AnyClip /\ a \in AnyClip
  BY <1>2, <1>6, NewClipType
<1> HIDE DEF v, a
<1>8. Touched(seq, t, {vr})
  <2>1. Placed(ClipsAt(seq, vr), v, mode) \in Seq(AnyClip)
    BY <1>5, <1>7, PlacedType
  <2> QED BY <1>2, <1>4, <2>1, SetClipsTouches
<1> HIDE DEF t
<1>9. Touched(t, u, {ar})
  <2>1. t \in Documents /\ ar \in Refs(t)
    BY <1>4, <1>8 DEF Touched
  <2>2. ClipsAt(t, ar) \in Seq(AnyClip)
    BY <1>2, <2>1, TrackFacts
  <2>3. Placed(ClipsAt(t, ar), a, mode) \in Seq(AnyClip)
    BY <1>7, <2>2, PlacedType
  <2> QED BY <1>2, <2>1, <2>3, SetClipsTouches
<1> HIDE DEF u
<1>10. vr # NoRef /\ ar # NoRef
  BY <1>2, <1>4, RefFacts
<1>11. Touched(seq, u, {vr, ar})
  <2>1. Touched(seq, u, {vr} \cup {ar})
    BY <1>8, <1>9, TouchedTwice
  <2> QED BY <2>1, TouchedMore
<1>12. Touched(seq, u, {vr, ar} \ {NoRef}) /\ {vr, ar} \subseteq Refs(seq) \cup {NoRef}
  <2>1. {vr, ar} \ {NoRef} = {vr, ar}
    BY <1>10
  <2> QED BY <1>4, <1>11, <2>1
<1>13. Edited /\ seq' = u
  BY <1>1, <1>12, CommitEdits
<1>14. Spared(u)
  BY <1>1, <1>11, UnlockedSpares
<1> QED BY <1>13, <1>14

-----------------------------------------------------------------------------
(* Links and removals *)

\* The clip a gesture is on.
LEMMA GestureFacts ==
    ASSUME Ready, NEW id \in ClipIds
    PROVE  /\ RefOf(id) \in Refs(seq)
           /\ IndexOfId(ClipsAt(seq, RefOf(id)), id) \in 1 .. Len(ClipsAt(seq, RefOf(id)))
           /\ ClipWithId(seq, RefOf(id), id) \in AnyClip
           /\ ClipWithId(seq, RefOf(id), id).id = id
<1>1. Track = AnyTrack /\ seq \in Documents
  BY DEF Ready
<1>2. PICK r \in Refs(seq) : id \in IdsIn(ClipsAt(seq, r))
  <2>1. PICK c \in Clips : id = c.id
    BY DEF ClipIds
  <2>2. PICK r \in Refs(seq) : c \in ToSet(ClipsAt(seq, r))
    BY <2>1 DEF Clips, ClipsOf
  <2> QED BY <2>1, <2>2 DEF ToSet, IdsIn
<1>3. RefOf(id) # NoRef
  BY <1>1, <1>2, FindClipRefFinds DEF RefOf
<1> QED BY <1>1, <1>3, FindClipRefFinds DEF RefOf

\* The clip it is linked to.
LEMMA MateFacts ==
    ASSUME Ready, NEW c \in AnyClip, MateRef(seq, c) # NoRef
    PROVE  /\ MateRef(seq, c) \in Refs(seq)
           /\ IndexOfId(ClipsAt(seq, MateRef(seq, c)), c.link)
                 \in 1 .. Len(ClipsAt(seq, MateRef(seq, c)))
           /\ ClipWithId(seq, MateRef(seq, c), c.link) \in AnyClip
           /\ ClipWithId(seq, MateRef(seq, c), c.link).id = c.link
<1>1. Track = AnyTrack /\ seq \in Documents
  BY DEF Ready
<1>2. MateRef(seq, c) = FindClipRef(seq, c.link)
  BY DEF MateRef
<1> QED BY <1>1, <1>2, FindClipRefFinds

\* u is s, but for one clip on track r, which may not exist.
Updated(s, u, r) ==
    \/ u = s
    \/ /\ r \in Refs(s)
       /\ \E i \in 1 .. Len(ClipsAt(s, r)) : \E x \in AnyClip :
             u = SetClips(s, r, [ClipsAt(s, r) EXCEPT ![i] = x])

\* Changing one clip, or none.
LEMMA UpdatedTouches ==
    ASSUME Track = AnyTrack, NEW s \in Documents, NEW u, NEW r, Updated(s, u, r)
    PROVE  Touched(s, u, {r} \ {NoRef})
<1>1. CASE u = s
  BY <1>1, TouchedNone
<1>2. CASE u # s
  <2>1. PICK i \in 1 .. Len(ClipsAt(s, r)), x \in AnyClip :
            r \in Refs(s) /\ u = SetClips(s, r, [ClipsAt(s, r) EXCEPT ![i] = x])
    BY <1>2 DEF Updated
  <2>2. ClipsAt(s, r) \in Seq(AnyClip)
    BY <2>1, TrackFacts
  <2>3. [ClipsAt(s, r) EXCEPT ![i] = x] \in Seq(AnyClip)
    BY <2>2
  <2>4. {r} \ {NoRef} = {r}
    BY <2>1, RefFacts
  <2> QED BY <2>1, <2>3, <2>4, SetClipsTouches
<1> QED BY <1>1, <1>2

LEMMA FoundClip ==
    ASSUME Track = AnyTrack, NEW s \in Documents, NEW r \in Refs(s), NEW id,
           IndexOfId(ClipsAt(s, r), id) # 0
    PROVE  /\ IndexOfId(ClipsAt(s, r), id) \in 1 .. Len(ClipsAt(s, r))
           /\ ClipWithId(s, r, id) \in AnyClip
<1>1. ClipsAt(s, r) \in Seq(AnyClip)
  BY TrackFacts
<1>2. IndexOfId(ClipsAt(s, r), id) \in 1 .. Len(ClipsAt(s, r))
  BY <1>1, IndexOfIdFinds
<1> QED BY <1>1, <1>2 DEF ClipWithId

\* The loops that change the clip with an id, x being what it becomes.
UpdatedTo(s, r, id, x) ==
    IF r = NoRef THEN s
    ELSE SetClips(s, r,
            IF IndexOfId(ClipsAt(s, r), id) = 0 THEN ClipsAt(s, r)
            ELSE [ClipsAt(s, r) EXCEPT ![IndexOfId(ClipsAt(s, r), id)] = x])

LEMMA UpdatedToUpdates ==
    ASSUME Track = AnyTrack, NEW s \in Documents, NEW r \in Refs(s) \cup {NoRef}, NEW id, NEW x,
           r # NoRef /\ IndexOfId(ClipsAt(s, r), id) # 0 => x \in AnyClip
    PROVE  Updated(s, UpdatedTo(s, r, id, x), r)
<1>1. CASE r = NoRef
  BY <1>1 DEF UpdatedTo, Updated
<1>2. CASE r # NoRef
  <2> DEFINE clips == ClipsAt(s, r)
             i == IndexOfId(clips, id)
  <2>1. clips \in Seq(AnyClip)
    BY <1>2, TrackFacts
  <2>2. i # 0 => i \in 1 .. Len(clips)
    BY <2>1, IndexOfIdFinds
  <2>3. UpdatedTo(s, r, id, x) =
            SetClips(s, r, IF i = 0 THEN clips ELSE [clips EXCEPT ![i] = x])
    BY <1>2 DEF UpdatedTo
  <2>a. i # 0 => x \in AnyClip
    BY <1>2
  <2> HIDE DEF clips, i
  <2>4. CASE i = 0
    <3>1. SetClips(s, r, clips) = s
      <4>1. /\ s[r[1]] \in TrackLists /\ r[1] \in Kinds /\ r[2] \in DOMAIN s[r[1]]
            /\ TrackAt(s, r) \in AnyTrack
        BY <1>2, RefFacts, DocumentFacts
      <4>2. [s[r[1]][r[2]] EXCEPT !.clips = clips] = s[r[1]][r[2]]
        BY <4>1 DEF clips, ClipsAt, TrackAt, AnyTrack
      <4>3. [s[r[1]] EXCEPT ![r[2]] = s[r[1]][r[2]]] = s[r[1]]
        BY <4>1 DEF TrackLists
      <4>4. [s EXCEPT ![r[1]] = s[r[1]]] = s
        BY <4>1 DEF Documents
      <4>5. SetClips(s, r, clips) =
              [s EXCEPT ![r[1]] = [s[r[1]] EXCEPT ![r[2]] = [s[r[1]][r[2]] EXCEPT !.clips = clips]]]
        BY DEF SetClips
      <4> QED BY <4>2, <4>3, <4>4, <4>5
    <3> QED BY <2>3, <2>4, <3>1 DEF Updated
  <2>5. CASE i # 0
    BY <1>2, <2>2, <2>3, <2>5, <2>a DEF Updated, clips
  <2> QED BY <2>4, <2>5
<1> QED BY <1>1, <1>2

LEMMA UpdatedToTouches ==
    ASSUME Track = AnyTrack, NEW s \in Documents, NEW r \in Refs(s) \cup {NoRef}, NEW id, NEW x,
           r # NoRef /\ IndexOfId(ClipsAt(s, r), id) # 0 => x \in AnyClip
    PROVE  Touched(s, UpdatedTo(s, r, id, x), {r} \ {NoRef})
BY UpdatedToUpdates, UpdatedTouches

\* The steps the operations consist of: each changes one track, or none.
LEMMA RelinkTouches ==
    ASSUME Track = AnyTrack, NEW s \in Documents, NEW r \in Refs(s) \cup {NoRef}, NEW id,
           NEW link \in Nat
    PROVE  Touched(s, Relink(s, r, id, link), {r} \ {NoRef})
<1> DEFINE x == [ClipWithId(s, r, id) EXCEPT !.link = link]
<1>1. Relink(s, r, id, link) = UpdatedTo(s, r, id, x)
  BY DEF Relink, UpdateAt, UpdateId, UpdatedTo, ClipWithId
<1>2. ASSUME r # NoRef, IndexOfId(ClipsAt(s, r), id) # 0 PROVE x \in AnyClip
  <2>1. ClipWithId(s, r, id) \in AnyClip
    BY <1>2, FoundClip
  <2> QED BY <2>1 DEF AnyClip
<1> HIDE DEF x
<1> QED BY <1>1, <1>2, UpdatedToTouches

LEMMA RemoveIdTouches ==
    ASSUME Track = AnyTrack, NEW s \in Documents, NEW r \in Refs(s) \cup {NoRef}, NEW id
    PROVE  Touched(s, RemoveId(s, r, id), {r} \ {NoRef})
<1>1. CASE r = NoRef
  BY <1>1, TouchedNone DEF RemoveId
<1>2. CASE r # NoRef
  <2>1. WithoutId(ClipsAt(s, r), id) \in Seq(AnyClip)
    BY <1>2, TrackFacts, WithoutIdType
  <2>2. Touched(s, RemoveId(s, r, id), {r})
    BY <1>2, <2>1, SetClipsTouches DEF RemoveId
  <2>3. {r} \ {NoRef} = {r}
    BY <1>2
  <2> QED BY <2>2, <2>3
<1> QED BY <1>1, <1>2

LEMMA RemoveMateTouches ==
    ASSUME Track = AnyTrack, NEW s \in Documents, NEW r \in Refs(s), NEW id
    PROVE  Touched(s, RemoveMate(s, r, id), {r})
<1>1. ClipsAt(s, r) \in Seq(AnyClip)
  BY TrackFacts
<1>2. IndexOfId(ClipsAt(s, r), id) \in 0 .. Len(ClipsAt(s, r))
  <2>1. IndexOfId(ClipsAt(s, r), id) # 0 => IndexOfId(ClipsAt(s, r), id) \in 1 .. Len(ClipsAt(s, r))
    BY <1>1, IndexOfIdFinds
  <2> QED BY <1>1, <2>1
<1>3. WithoutPointee(ClipsAt(s, r), IndexOfId(ClipsAt(s, r), id)) \in Seq(AnyClip)
  BY <1>1, <1>2, WithoutPointeeType
<1> QED BY <1>3, SetClipsTouches DEF RemoveMate

LEMMA PutDownTouches ==
    ASSUME Track = AnyTrack, NEW s \in Documents, NEW r \in Refs(s), NEW c \in AnyClip
    PROVE  Touched(s, PutDown(s, r, c), {r})
<1>1. c.in \in Int /\ c.out \in Int
  BY DEF AnyClip
<1>2. ClippedRange(ClipsAt(s, r), c.in, c.out) \in Seq(AnyClip)
  BY <1>1, TrackFacts, ListTypes
<1>3. InsertSorted(ClippedRange(ClipsAt(s, r), c.in, c.out), c) \in Seq(AnyClip)
  BY <1>2, InsertSortedType
<1> QED BY <1>3, SetClipsTouches DEF PutDown

\* Two changes in turn, each of one track or of none.
LEMMA TwoTouches ==
    ASSUME NEW s, NEW t, NEW u, NEW r, NEW q, Touched(s, t, {r} \ {NoRef}),
           Touched(t, u, {q} \ {NoRef})
    PROVE  Touched(s, u, {r, q} \ {NoRef})
<1>1. Touched(s, u, ({r} \ {NoRef}) \cup ({q} \ {NoRef}))
  BY TouchedTwice
<1>2. ({r} \ {NoRef}) \cup ({q} \ {NoRef}) = {r, q} \ {NoRef}
  OBVIOUS
<1> QED BY <1>1, <1>2

\* Linking and unlinking change the tracks of the two clips.
LEMMA UnlinkClipEdits ==
    ASSUME Ready, NEW id \in ClipIds, UnlinkClip(id)
    PROVE  Edited
<1> DEFINE r == RefOf(id)
           c == ClipWithId(seq, r, id)
           q == MateRef(seq, c)
           s == Relink(seq, r, id, 0)
           t == Relink(s, q, c.link, 0)
<1>1. q # NoRef /\ Commit(seq, t, {r, q}, 0)
  BY DEF UnlinkClip
<1>2. Track = AnyTrack /\ seq \in Documents
  BY DEF Ready
<1>3. r \in Refs(seq) /\ c \in AnyClip
  BY GestureFacts
<1> HIDE DEF r, c
<1>4. q \in Refs(seq)
  BY <1>1, <1>3, MateFacts
<1> HIDE DEF q
<1>5. Touched(seq, s, {r} \ {NoRef})
  BY <1>2, <1>3, RelinkTouches
<1> HIDE DEF s
<1>6. Touched(s, t, {q} \ {NoRef})
  <2>1. s \in Documents /\ q \in Refs(s)
    BY <1>4, <1>5 DEF Touched
  <2> QED BY <1>2, <2>1, RelinkTouches
<1> HIDE DEF t
<1>7. Touched(seq, t, {r, q} \ {NoRef})
  BY <1>5, <1>6, TwoTouches
<1> QED BY <1>1, <1>3, <1>4, <1>7, CommitEdits

LEMMA LinkClipEdits ==
    ASSUME Ready, NEW id \in ClipIds, LinkClip(id)
    PROVE  Edited
<1> DEFINE r == RefOf(id)
           c == ClipWithId(seq, r, id)
           k == OtherKind(r[1])
           mate(p) == ClipsAt(seq, <<k, p[1]>>)[p[2]].id
           s(p) == Relink(seq, r, id, mate(p))
           t(p) == Relink(s(p), <<k, p[1]>>, mate(p), id)
<1>1. PICK p \in BestOverlap(c, k) : Commit(seq, t(p), {r, <<k, p[1]>>}, 0)
  BY DEF LinkClip
<1>2. Track = AnyTrack /\ seq \in Documents
  BY DEF Ready
<1>3. r \in Refs(seq) /\ c \in AnyClip /\ c.id = id /\ id \in Nat
  BY GestureFacts DEF AnyClip
<1>4. p[1] \in 1 .. Len(seq[k]) /\ p[2] \in 1 .. Horizon + 1 /\ p[2] <= Len(seq[k][p[1]].clips)
  BY Zenon DEF BestOverlap
<1> DEFINE q == <<k, p[1]>>
<1>5. q \in Refs(seq)
  <2>1. k \in Kinds
    BY DEF OtherKind, Kinds
  <2>2. p[1] \in DOMAIN seq[k]
    BY <1>2, <1>4, <2>1, DocumentFacts
  <2> HIDE DEF k
  <2> QED BY <1>2, <2>1, <2>2, RefIntro
<1>6. mate(p) \in Nat
  <2>1. ClipsAt(seq, q) \in Seq(AnyClip) /\ ClipsAt(seq, q) = seq[k][p[1]].clips
    BY <1>2, <1>5, TrackFacts DEF ClipsAt, TrackAt
  <2>2. p[2] \in 1 .. Len(ClipsAt(seq, q))
    <3>1. Horizon \in Nat
      BY ReadyFacts
    <3> HIDE DEF q, k
    <3> QED BY <1>4, <2>1, <3>1
  <2>3. ClipsAt(seq, q)[p[2]] \in AnyClip
    <3> HIDE DEF q, k
    <3> QED BY <2>1, <2>2
  <2> QED BY <2>3 DEF AnyClip
<1> DEFINE m == mate(p)
           u == Relink(seq, r, id, m)
           w == Relink(u, q, m, id)
<1>7. Commit(seq, w, {r, q}, 0) /\ m \in Nat
  BY <1>1, <1>6
<1> HIDE DEF m, q, r, c, k
<1>8. Touched(seq, u, {r} \ {NoRef})
  BY <1>2, <1>3, <1>7, RelinkTouches
<1> HIDE DEF u
<1>9. Touched(u, w, {q} \ {NoRef})
  <2>1. u \in Documents /\ q \in Refs(u)
    BY <1>5, <1>8 DEF Touched
  <2> QED BY <1>2, <1>3, <2>1, RelinkTouches
<1> HIDE DEF w
<1>10. Touched(seq, w, {r, q} \ {NoRef})
  BY <1>8, <1>9, TwoTouches
<1> QED BY <1>3, <1>5, <1>7, <1>10, CommitEdits

\* Removing a range or a clip: what is removed is on unlocked tracks, but for the
\* mate of a clip that is deleted with a ripple.
LEMMA RippleDeleteRangeEdits ==
    ASSUME Ready, NEW r \in Refs(seq), NEW in \in Int, NEW out \in Int,
           RippleDeleteRange(r, in, out)
    PROVE  Edited /\ Spared(seq')
<1> DEFINE clips == ShiftFrom(ClippedRange(ClipsAt(seq, r), in, out), in, in - out)
           t == SetClips(seq, r, clips)
<1>1. ~Locked(seq, r) /\ Commit(seq, t, {r}, 0)
  BY DEF RippleDeleteRange
<1>2. Track = AnyTrack /\ seq \in Documents
  BY DEF Ready
<1>3. clips \in Seq(AnyClip)
  <2>1. ClippedRange(ClipsAt(seq, r), in, out) \in Seq(AnyClip)
    BY <1>2, TrackFacts, ListTypes
  <2> QED BY <2>1, ListTypes
<1> HIDE DEF clips
<1>4. Touched(seq, t, {r})
  BY <1>2, <1>3, SetClipsTouches
<1> HIDE DEF t
<1>5. {r} \ {NoRef} = {r}
  BY <1>2, RefFacts
<1> QED BY <1>1, <1>4, <1>5, CommitEdits, UnlockedSpares

LEMMA LiftClipEdits ==
    ASSUME Ready, NEW id \in ClipIds, LiftClip(id)
    PROVE  Edited /\ Spared(seq')
<1> DEFINE r == RefOf(id)
           c == ClipWithId(seq, r, id)
           q == MateRef(seq, c)
           s == RemoveId(seq, r, id)
           t == RemoveId(s, q, c.link)
<1>1. ~Locked(seq, r) /\ (q # NoRef => ~Locked(seq, q)) /\ Commit(seq, t, {r, q}, 0)
  BY DEF LiftClip
<1>2. Track = AnyTrack /\ seq \in Documents
  BY DEF Ready
<1>3. r \in Refs(seq) /\ c \in AnyClip
  BY GestureFacts
<1> HIDE DEF r, c
<1>4. q \in Refs(seq) \cup {NoRef}
  BY <1>3, MateFacts
<1> HIDE DEF q
<1>5. Touched(seq, s, {r} \ {NoRef})
  BY <1>2, <1>3, RemoveIdTouches
<1> HIDE DEF s
<1>6. Touched(s, t, {q} \ {NoRef})
  <2>1. s \in Documents /\ q \in Refs(s) \cup {NoRef}
    BY <1>4, <1>5 DEF Touched
  <2> QED BY <1>2, <2>1, RemoveIdTouches
<1> HIDE DEF t
<1>7. Touched(seq, t, {r, q} \ {NoRef})
  BY <1>5, <1>6, TwoTouches
<1>8. Spared(t)
  BY <1>1, <1>7, UnlockedSpares
<1> QED BY <1>1, <1>3, <1>4, <1>7, <1>8, CommitEdits

LEMMA RippleDeleteClipEdits ==
    ASSUME Ready, NEW id \in ClipIds, RippleDeleteClip(id)
    PROVE  Edited
<1> DEFINE r == RefOf(id)
           c == ClipWithId(seq, r, id)
           q == MateRef(seq, c)
           close(s, p) == SetClips(s, p, ShiftFrom(ClipsAt(s, p), c.in, c.in - c.out))
           s1 == RemoveId(seq, r, id)
           s2 == close(s1, r)
           s3 == RemoveMate(s2, q, c.link)
           s4 == close(s3, q)
           t == IF q = NoRef THEN s2 ELSE s4
<1>1. Commit(seq, t, {r, q}, 0)
  BY DEF RippleDeleteClip
<1>2. Track = AnyTrack /\ seq \in Documents
  BY DEF Ready
<1>3. r \in Refs(seq) /\ c \in AnyClip /\ c.in \in Int /\ c.in - c.out \in Int
  BY GestureFacts DEF AnyClip
<1> HIDE DEF r, c
<1>4. q \in Refs(seq) \cup {NoRef}
  BY <1>3, MateFacts
<1> HIDE DEF q
<1>5. ASSUME NEW s \in Documents, NEW p \in Refs(s) PROVE Touched(s, close(s, p), {p})
  <2>1. ShiftFrom(ClipsAt(s, p), c.in, c.in - c.out) \in Seq(AnyClip)
    BY <1>2, <1>3, TrackFacts, ListTypes
  <2> QED BY <1>2, <2>1, SetClipsTouches
<1> HIDE DEF close
<1>6. Touched(seq, s1, {r})
  BY <1>2, <1>3, RemoveIdTouches, TouchedMore
<1> HIDE DEF s1
<1>7. Touched(seq, s2, {r})
  <2>1. s1 \in Documents /\ r \in Refs(s1)
    BY <1>3, <1>6 DEF Touched
  <2>2. Touched(s1, s2, {r})
    BY <1>5, <2>1
  <2> HIDE DEF s2
  <2>3. Touched(seq, s2, {r} \cup {r})
    BY <1>6, <2>2, TouchedTwice
  <2> QED BY <2>3, TouchedMore
<1> HIDE DEF s2
<1>8. r # NoRef
  BY <1>2, <1>3, RefFacts
<1>9. CASE q = NoRef
  <2>1. {r, q} \ {NoRef} = {r} /\ t = s2
    BY <1>8, <1>9
  <2> HIDE DEF t
  <2> QED BY <1>1, <1>3, <1>7, <1>9, <2>1, CommitEdits
<1>10. CASE q # NoRef
  <2>1. q \in Refs(seq) /\ {r, q} \ {NoRef} = {r, q} /\ t = s4
    BY <1>4, <1>8, <1>10
  <2>2. s2 \in Documents /\ q \in Refs(s2)
    BY <1>7, <2>1 DEF Touched
  <2>3. Touched(s2, s3, {q})
    BY <1>2, <2>2, RemoveMateTouches
  <2> HIDE DEF s3, t
  <2>4. s3 \in Documents /\ q \in Refs(s3)
    BY <2>2, <2>3 DEF Touched
  <2>5. Touched(s3, s4, {q})
    BY <1>5, <2>4
  <2> HIDE DEF s4
  <2>6. Touched(seq, s4, ({r} \cup {q}) \cup {q})
    BY <1>7, <2>3, <2>5, TouchedTwice
  <2>7. Touched(seq, s4, {r, q})
    BY <2>6, TouchedMore
  <2> QED BY <1>1, <1>3, <2>1, <2>7, CommitEdits
<1> QED BY <1>9, <1>10

-----------------------------------------------------------------------------
(* The blade *)

\* The halves of a clip are clips.
LEMMA HalfTypes ==
    ASSUME NEW c \in AnyClip, NEW pos \in Int, NEW cut \in Int, NEW id \in Nat
    PROVE  LeftHalf(c, pos, cut) \in AnyClip /\ RightHalf(c, pos, id) \in AnyClip
<1>1. LeftHalf(c, pos, cut) \in AnyClip
  BY DEF LeftHalf, AnyClip
<1>2. TailOf(c, pos) \in AnyClip
  BY PieceTypes
<1>3. RightHalf(c, pos, id) \in AnyClip
  BY <1>2 DEF RightHalf, AnyClip
<1> QED BY <1>1, <1>3

LEMMA LinkedTo ==
    ASSUME NEW c \in AnyClip, NEW id \in Nat
    PROVE  [c EXCEPT !.link = id] \in AnyClip
BY DEF AnyClip

\* The blade on one clip writes to its track, which is not locked.
LEMMA BladeAtEdits ==
    ASSUME Ready, NEW r \in Refs(seq), NEW pos \in Int, BladeAt(r, pos)
    PROVE  Edited /\ Spared(seq')
<1> DEFINE clips == ClipsAt(seq, r)
           i == IndexAt(clips, pos)
           cut == SrcAt(clips[i], pos)
           j == IndexOfId(clips, clips[i].id)
           left == IF j = 0 THEN clips ELSE [clips EXCEPT ![j] = LeftHalf(clips[j], pos, cut)]
           right == RightHalf(clips[i], pos, nextId)
           list == InsertSorted(left, right)
           t == SetClips(seq, r, list)
<1>1. ~Locked(seq, r) /\ i # 0 /\ Commit(seq, t, {r}, 1)
  BY DEF BladeAt, UpdateId
<1>2. Track = AnyTrack /\ seq \in Documents /\ nextId \in Nat
  BY DEF Ready
<1>3. clips \in Seq(AnyClip)
  BY <1>2, TrackFacts
<1>4. i \in 1 .. Len(clips) /\ clips[i] \in AnyClip
  <2> HIDE DEF clips
  <2>1. i \in 1 .. Len(clips)
    BY <1>1, <1>3, IndexAtFinds
  <2> QED BY <1>3, <2>1
<1>5. j # 0 => j \in 1 .. Len(clips) /\ clips[j] \in AnyClip
  <2> HIDE DEF clips, i
  <2>1. j # 0 => j \in 1 .. Len(clips)
    BY <1>3, IndexOfIdFinds
  <2> QED BY <1>3, <2>1
<1> HIDE DEF clips, i
<1>6. cut \in Int
  BY <1>4, SrcAtType
<1> HIDE DEF cut, j
<1>7. left \in Seq(AnyClip)
  <2>1. j # 0 => LeftHalf(clips[j], pos, cut) \in AnyClip
    BY <1>2, <1>5, <1>6, HalfTypes
  <2> QED BY <1>3, <1>5, <2>1
<1>8. right \in AnyClip
  BY <1>2, <1>4, <1>6, HalfTypes
<1> HIDE DEF left, right
<1>9. list \in Seq(AnyClip)
  BY <1>7, <1>8, InsertSortedType
<1> HIDE DEF list
<1>10. Touched(seq, t, {r})
  BY <1>2, <1>9, SetClipsTouches
<1> HIDE DEF t
<1>11. {r} \ {NoRef} = {r}
  BY <1>2, RefFacts
<1> QED BY <1>1, <1>10, <1>11, CommitEdits, UnlockedSpares

\* The blade on a clip and the clip found with it: neither track is written
\* that is locked.
LEMMA BladePairEdits ==
    ASSUME Ready, NEW r \in Refs(seq), ~Locked(seq, r),
           NEW i \in 1 .. Len(ClipsAt(seq, r)), NEW pos \in Int,
           NEW q \in Refs(seq) \cup {NoRef}, NEW mid \in Nat,
           q # NoRef => IndexOfId(ClipsAt(seq, q), mid) # 0,
           BladePair(r, i, q, mid, pos)
    PROVE  Edited /\ Spared(seq')
<1> DEFINE hit == ClipsAt(seq, r)[i]
           mate == ClipWithId(seq, q, mid)
           both == q # NoRef /\ ~Locked(seq, q) /\ Spans(mate, pos)
           right == [RightHalf(hit, pos, nextId) EXCEPT !.link = IF both THEN nextId + 1 ELSE @]
           mright == [RightHalf(mate, pos, nextId + 1) EXCEPT !.link = nextId]
           left(c) == [LeftHalf(c, pos, SrcAt(hit, pos)) EXCEPT !.link =
                          IF q # NoRef THEN mid ELSE @]
           mleft(c) == [LeftHalf(c, pos, SrcAt(mate, pos)) EXCEPT !.link = hit.id]
           s == UpdatedTo(seq, r, hit.id, left(ClipWithId(seq, r, hit.id)))
           t == UpdatedTo(s, q, mid, mleft(ClipWithId(s, q, mid)))
           u == SetClips(t, q, InsertSorted(ClipsAt(t, q), mright))
           b == IF both THEN u ELSE s
           w == SetClips(b, r, InsertSorted(ClipsAt(b, r), right))
           n == IF both THEN 2 ELSE 1
<1>1. Commit(seq, w, {r, q}, n)
  <2>1. UpdateAt(seq, r, hit.id, left) = s
    BY DEF UpdateAt, UpdateId, UpdatedTo, ClipWithId
  <2>2. UpdateAt(s, q, mid, mleft) = t
    BY DEF UpdateAt, UpdateId, UpdatedTo, ClipWithId
  <2> QED BY <2>1, <2>2 DEF BladePair
<1>2. /\ Track = AnyTrack /\ seq \in Documents /\ nextId \in Nat /\ nextId + 1 \in Nat
      /\ n \in Nat
  BY DEF Ready
<1>3. r # NoRef
  BY <1>2, RefFacts
<1>4. hit \in AnyClip /\ hit.id \in Nat
  <2>1. ClipsAt(seq, r) \in Seq(AnyClip)
    BY <1>2, TrackFacts
  <2>2. hit \in AnyClip
    BY <2>1
  <2> QED BY <2>2 DEF AnyClip
<1> HIDE DEF hit
<1>5. SrcAt(hit, pos) \in Int
  BY <1>4, SrcAtType
<1>6. q # NoRef => mate \in AnyClip /\ SrcAt(mate, pos) \in Int
  BY <1>2, FoundClip, SrcAtType
<1> HIDE DEF mate
<1>7. right \in AnyClip
  <2>1. RightHalf(hit, pos, nextId) \in AnyClip
    BY <1>2, <1>4, <1>5, HalfTypes
  <2>2. RightHalf(hit, pos, nextId).link \in Nat
    BY <2>1 DEF AnyClip
  <2>3. (IF both THEN nextId + 1 ELSE RightHalf(hit, pos, nextId).link) \in Nat
    BY <1>2, <2>2
  <2> HIDE DEF both
  <2> QED BY <2>1, <2>3, LinkedTo
<1>8. both => mright \in AnyClip
  <2>1. both => RightHalf(mate, pos, nextId + 1) \in AnyClip
    BY <1>2, <1>6, HalfTypes
  <2> QED BY <1>2, <2>1, LinkedTo
<1>9. ASSUME NEW c \in AnyClip PROVE left(c) \in AnyClip
  <2>1. LeftHalf(c, pos, SrcAt(hit, pos)) \in AnyClip
    BY <1>2, <1>5, HalfTypes
  <2>2. LeftHalf(c, pos, SrcAt(hit, pos)).link \in Nat
    BY <2>1 DEF AnyClip
  <2>3. (IF q # NoRef THEN mid ELSE LeftHalf(c, pos, SrcAt(hit, pos)).link) \in Nat
    BY <2>2
  <2> QED BY <2>1, <2>3, LinkedTo
<1>10. ASSUME NEW c \in AnyClip, q # NoRef PROVE mleft(c) \in AnyClip
  <2>1. LeftHalf(c, pos, SrcAt(mate, pos)) \in AnyClip
    BY <1>2, <1>6, <1>10, HalfTypes
  <2> QED BY <1>4, <2>1, LinkedTo
<1> HIDE DEF right, mright, left, mleft
<1>11. Touched(seq, s, {r})
  <2>1. IndexOfId(ClipsAt(seq, r), hit.id) # 0 => left(ClipWithId(seq, r, hit.id)) \in AnyClip
    BY <1>2, <1>9, FoundClip
  <2>2. Touched(seq, s, {r} \ {NoRef})
    BY <1>2, <2>1, UpdatedToTouches
  <2> HIDE DEF s
  <2> QED BY <2>2, TouchedMore
<1> HIDE DEF s
<1>12. CASE both
  <2>1. q \in Refs(seq) /\ q # NoRef /\ ~Locked(seq, q) /\ b = u
    BY <1>12
  <2>2. s \in Documents /\ Refs(s) = Refs(seq) /\ q \in Refs(s)
    BY <1>11, <2>1 DEF Touched
  <2>3. Touched(s, t, {q})
    <3>1. IndexOfId(ClipsAt(s, q), mid) # 0 => mleft(ClipWithId(s, q, mid)) \in AnyClip
      BY <1>2, <1>10, <2>1, <2>2, FoundClip
    <3>2. Touched(s, t, {q} \ {NoRef})
      BY <1>2, <2>2, <3>1, UpdatedToTouches
    <3> HIDE DEF t
    <3> QED BY <3>2, TouchedMore
  <2> HIDE DEF t, b
  <2>4. t \in Documents /\ Refs(t) = Refs(seq) /\ q \in Refs(t)
    BY <2>2, <2>3 DEF Touched
  <2>5. Touched(t, u, {q})
    <3>1. ClipsAt(t, q) \in Seq(AnyClip)
      BY <1>2, <2>4, TrackFacts
    <3>2. InsertSorted(ClipsAt(t, q), mright) \in Seq(AnyClip)
      BY <1>8, <1>12, <3>1, InsertSortedType
    <3> QED BY <1>2, <2>4, <3>2, SetClipsTouches
  <2> HIDE DEF u
  <2>6. u \in Documents /\ r \in Refs(u)
    BY <2>4, <2>5 DEF Touched
  <2>7. Touched(u, w, {r})
    <3>1. ClipsAt(u, r) \in Seq(AnyClip)
      BY <1>2, <2>6, TrackFacts
    <3>2. InsertSorted(ClipsAt(u, r), right) \in Seq(AnyClip)
      BY <1>7, <3>1, InsertSortedType
    <3> QED BY <1>2, <2>1, <2>6, <3>2, SetClipsTouches
  <2> HIDE DEF w, n
  <2>8. Touched(seq, w, (({r} \cup {q}) \cup {q}) \cup {r})
    BY <1>11, <2>3, <2>5, <2>7, TouchedTwice
  <2>9. Touched(seq, w, {r, q}) /\ {r, q} \ {NoRef} = {r, q}
    BY <1>3, <2>1, <2>8, TouchedMore
  <2>10. Spared(w)
    BY <2>1, <2>9, UnlockedSpares
  <2> QED BY <1>1, <1>2, <2>1, <2>9, <2>10, CommitEdits
<1>13. CASE ~both
  <2>1. b = s
    BY <1>13
  <2> HIDE DEF b
  <2>2. s \in Documents /\ r \in Refs(s)
    BY <1>11 DEF Touched
  <2>3. Touched(s, w, {r})
    <3>1. ClipsAt(s, r) \in Seq(AnyClip)
      BY <1>2, <2>2, TrackFacts
    <3>2. InsertSorted(ClipsAt(s, r), right) \in Seq(AnyClip)
      BY <1>7, <3>1, InsertSortedType
    <3> QED BY <1>2, <2>1, <2>2, <3>2, SetClipsTouches
  <2> HIDE DEF w, n
  <2>4. Touched(seq, w, {r} \cup {r})
    BY <1>11, <2>3, TouchedTwice
  <2>5. Touched(seq, w, {r}) /\ {r} \subseteq {r, q} \ {NoRef}
    BY <1>3, <2>4, TouchedMore
  <2>6. Touched(seq, w, {r, q} \ {NoRef})
    BY <2>5, TouchedMore
  <2>7. Spared(w)
    BY <2>5, UnlockedSpares
  <2> QED BY <1>1, <1>2, <2>6, <2>7, CommitEdits
<1> QED BY <1>12, <1>13

\* The blade and the clip it finds, if any.
LEMMA BladeLinkedAtEdits ==
    ASSUME Ready, NEW r \in Refs(seq), NEW pos \in Int, BladeLinkedAt(r, pos)
    PROVE  Edited /\ Spared(seq')
<1> DEFINE i == IndexAt(ClipsAt(seq, r), pos)
           hit == ClipsAt(seq, r)[i]
           q == MateRef(seq, hit)
           k == OtherKind(r[1])
           near == Siblings(hit, k, pos)
<1>1. /\ ~Locked(seq, r) /\ i # 0
      /\ \/ q # NoRef /\ BladePair(r, i, q, hit.link, pos)
         \/ BladePair(r, i, NoRef, 0, pos)
         \/ \E p \in near : BladePair(r, i, <<k, p[1]>>, seq[k][p[1]].clips[p[2]].id, pos)
  BY DEF BladeLinkedAt
<1>2. Track = AnyTrack /\ seq \in Documents
  BY DEF Ready
<1>3. i \in 1 .. Len(ClipsAt(seq, r)) /\ hit \in AnyClip /\ hit.link \in Nat
  <2>1. ClipsAt(seq, r) \in Seq(AnyClip)
    BY <1>2, TrackFacts
  <2>2. i \in 1 .. Len(ClipsAt(seq, r))
    BY <1>1, <2>1, IndexAtFinds
  <2>3. hit \in AnyClip
    BY <2>1, <2>2
  <2> QED BY <2>2, <2>3 DEF AnyClip
<1> HIDE DEF i, hit
<1>4. CASE q # NoRef /\ BladePair(r, i, q, hit.link, pos)
  <2>1. q \in Refs(seq) /\ IndexOfId(ClipsAt(seq, q), hit.link) \in 1 .. Len(ClipsAt(seq, q))
    BY <1>3, <1>4, MateFacts
  <2>2. ClipsAt(seq, q) \in Seq(AnyClip)
    BY <1>2, <2>1, TrackFacts
  <2> HIDE DEF q
  <2>3. IndexOfId(ClipsAt(seq, q), hit.link) # 0
    BY <2>1, <2>2
  <2> QED BY <1>1, <1>3, <1>4, <2>1, <2>3, BladePairEdits
<1>5. CASE BladePair(r, i, NoRef, 0, pos)
  BY <1>1, <1>3, <1>5, BladePairEdits
<1>6. ASSUME NEW p \in near, BladePair(r, i, <<k, p[1]>>, seq[k][p[1]].clips[p[2]].id, pos)
      PROVE  Edited /\ Spared(seq')
  <2>1. k \in Kinds
    BY DEF OtherKind, Kinds
  <2>2. p[1] \in 1 .. Len(seq[k]) /\ p[2] \in 1 .. Horizon + 1 /\ p[2] <= Len(seq[k][p[1]].clips)
    BY Zenon, <1>6 DEF Siblings
  <2> DEFINE m == <<k, p[1]>>
             mid == seq[k][p[1]].clips[p[2]].id
  <2> HIDE DEF k
  <2>3. m \in Refs(seq)
    <3>1. p[1] \in DOMAIN seq[k]
      BY <1>2, <2>1, <2>2, DocumentFacts
    <3> QED BY <1>2, <2>1, <3>1, RefIntro
  <2>4. ClipsAt(seq, m) \in Seq(AnyClip) /\ ClipsAt(seq, m) = seq[k][p[1]].clips
    BY <1>2, <2>3, TrackFacts DEF ClipsAt, TrackAt
  <2>5. Horizon \in Nat
    BY ReadyFacts
  <2> HIDE DEF m
  <2>6. p[2] \in 1 .. Len(ClipsAt(seq, m)) /\ ClipsAt(seq, m)[p[2]].id = mid
    BY <2>2, <2>4, <2>5
  <2>7. ClipsAt(seq, m)[p[2]] \in AnyClip
    BY <2>4, <2>6
  <2>8. mid \in Nat
    BY <2>6, <2>7 DEF AnyClip
  <2> HIDE DEF mid
  <2>9. IndexOfId(ClipsAt(seq, m), mid) # 0
    BY <2>4, <2>6, IndexOfIdFinds
  <2>10. BladePair(r, i, m, mid, pos)
    BY <1>6 DEF m, mid
  <2> QED BY <1>1, <1>3, <2>3, <2>8, <2>9, <2>10, BladePairEdits
<1> HIDE DEF near, k, q
<1> QED BY <1>1, <1>4, <1>5, <1>6

-----------------------------------------------------------------------------
(* Moving, trimming, joining *)

\* Joining two clips changes their track and unlinks the mate.
LEMMA DeleteThroughEditEdits ==
    ASSUME Ready, NEW id \in ClipIds, DeleteThroughEdit(id)
    PROVE  Edited
<1> DEFINE r == RefOf(id)
           clips == ClipsAt(seq, r)
           i == IndexOfId(clips, id)
           a == clips[i]
           J == {n \in 1 .. Len(clips) : clips[n].in = a.out}
           j == IF J # {} THEN Min(J) ELSE 0
           b == clips[j]
           q == MateRef(seq, a)
           merged == [a EXCEPT !.out = b.out, !.srcOut = b.srcOut, !.fadeOut = FALSE, !.link = 0]
           rest == [n \in 1 .. Len(clips) |-> IF n \in {i, j} THEN <<>> ELSE <<clips[n]>>]
           s == SetClips(seq, r, InsertSorted(FlattenSeq(rest), merged))
           t == Relink(s, q, a.link, 0)
<1>1. j # 0 /\ Commit(seq, t, {r, q}, 0)
  BY Zenon DEF DeleteThroughEdit, SelectInSeq
<1>2. Track = AnyTrack /\ seq \in Documents
  BY DEF Ready
<1>3. r \in Refs(seq) /\ i \in 1 .. Len(clips)
  BY GestureFacts
<1>4. clips \in Seq(AnyClip)
  BY <1>2, <1>3, TrackFacts
<1> HIDE DEF r, clips, i
<1>5. a \in AnyClip
  BY <1>3, <1>4
<1>6. j \in 1 .. Len(clips)
  <2>1. J \subseteq Nat /\ J \subseteq 1 .. Len(clips)
    OBVIOUS
  <2> HIDE DEF J
  <2> QED BY <1>1, <2>1, LeastOne
<1> HIDE DEF J, j
<1>7. b \in AnyClip
  BY <1>4, <1>6
<1> HIDE DEF a, b
<1>8. merged \in AnyClip
  BY <1>5, <1>7 DEF AnyClip
<1>9. FlattenSeq(rest) \in Seq(AnyClip)
  <2>1. rest \in Seq(Seq(AnyClip))
    BY <1>4
  <2> HIDE DEF rest
  <2> QED BY <2>1, FlattenType
<1> HIDE DEF merged, rest
<1>10. Touched(seq, s, {r} \ {NoRef})
  <2>1. InsertSorted(FlattenSeq(rest), merged) \in Seq(AnyClip)
    BY <1>8, <1>9, InsertSortedType
  <2>2. {r} \ {NoRef} = {r}
    BY <1>2, <1>3, RefFacts
  <2> QED BY <1>2, <1>3, <2>1, <2>2, SetClipsTouches
<1> HIDE DEF s
<1>11. q \in Refs(seq) \cup {NoRef}
  BY <1>5, MateFacts
<1> HIDE DEF q
<1>12. Touched(s, t, {q} \ {NoRef})
  <2>1. s \in Documents /\ q \in Refs(s) \cup {NoRef}
    BY <1>10, <1>11 DEF Touched
  <2> QED BY <1>2, <2>1, RelinkTouches
<1> HIDE DEF t
<1>13. Touched(seq, t, {r, q} \ {NoRef})
  BY <1>10, <1>12, TwoTouches
<1> QED BY <1>1, <1>3, <1>11, <1>13, CommitEdits

LEMMA TwoNumbers ==
    ASSUME NEW a \in Int, NEW b \in Int
    PROVE  Max({a, b}) \in Int /\ Min({a, b}) \in Int
<1>1. {a, b} \subseteq Int /\ {a, b} # {} /\ IsFiniteSet({a, b})
  <2>1. IsFiniteSet({a}) /\ {a, b} = {a} \cup {b}
    BY FS_Singleton
  <2>2. IsFiniteSet({a} \cup {b})
    BY <2>1, FS_AddElement
  <2> QED BY <2>1, <2>2
<1> QED BY <1>1, GreatestOfRange

\* A clip that is moved, and its mate.
LEMMA MoveClipEdits ==
    ASSUME Ready, NEW id \in ClipIds, NEW dst \in Refs(seq), NEW in \in Int,
           MoveClip(id, dst, in)
    PROVE  Edited
<1> DEFINE r == RefOf(id)
           c == ClipWithId(seq, r, id)
           q == MateRef(seq, c)
           mate == ClipWithId(seq, q, c.link)
           s1 == RemoveId(seq, r, id)
           s2 == PutDown(s1, dst, MovedTo(c, in))
           s3 == RemoveMate(s2, q, c.link)
           to == Max({0, mate.in + in - c.in})
           s4 == PutDown(s3, q, MovedTo(mate, to))
           t == IF q = NoRef THEN s2 ELSE s4
<1>1. Commit(seq, t, {r, dst, q}, 0)
  BY DEF MoveClip
<1>2. Track = AnyTrack /\ seq \in Documents
  BY DEF Ready
<1>3. r \in Refs(seq) /\ c \in AnyClip
  BY GestureFacts
<1> HIDE DEF r, c
<1>4. q \in Refs(seq) \cup {NoRef} /\ (q # NoRef => mate \in AnyClip)
  BY <1>3, MateFacts
<1> HIDE DEF q, mate
<1>5. r # NoRef /\ dst # NoRef
  BY <1>2, <1>3, RefFacts
<1>6. Touched(seq, s1, {r})
  BY <1>2, <1>3, RemoveIdTouches, TouchedMore
<1> HIDE DEF s1
<1>7. Touched(s1, s2, {dst})
  <2>1. s1 \in Documents /\ dst \in Refs(s1)
    BY <1>6 DEF Touched
  <2>2. MovedTo(c, in) \in AnyClip
    BY <1>3, PieceTypes
  <2> QED BY <1>2, <2>1, <2>2, PutDownTouches
<1> HIDE DEF s2
<1>8. Touched(seq, s2, {r} \cup {dst})
  BY <1>6, <1>7, TouchedTwice
<1>9. CASE q = NoRef
  <2>1. {r, dst, q} \ {NoRef} = {r} \cup {dst} /\ t = s2
    BY <1>5, <1>9
  <2> HIDE DEF t
  <2> QED BY <1>1, <1>3, <1>8, <1>9, <2>1, CommitEdits
<1>10. CASE q # NoRef
  <2>1. q \in Refs(seq) /\ {r, dst, q} \ {NoRef} = {r, dst, q} /\ t = s4
    BY <1>4, <1>5, <1>10
  <2>2. to \in Int
    <3>1. mate.in \in Int /\ c.in \in Int
      BY <1>3, <1>4, <1>10 DEF AnyClip
    <3> DEFINE e == mate.in + in - c.in
    <3>2. e \in Int
      BY <3>1
    <3> HIDE DEF e
    <3>3. Max({0, e}) \in Int
      BY <3>2, TwoNumbers
    <3> QED BY <3>3 DEF e
  <2> HIDE DEF to, t
  <2>3. s2 \in Documents /\ q \in Refs(s2)
    BY <1>8, <2>1 DEF Touched
  <2>4. Touched(s2, s3, {q})
    BY <1>2, <2>3, RemoveMateTouches
  <2> HIDE DEF s3
  <2>5. s3 \in Documents /\ q \in Refs(s3)
    BY <2>3, <2>4 DEF Touched
  <2>6. Touched(s3, s4, {q})
    <3>1. MovedTo(mate, to) \in AnyClip
      BY <1>4, <1>10, <2>2, PieceTypes
    <3> QED BY <1>2, <2>5, <3>1, PutDownTouches
  <2> HIDE DEF s4
  <2>7. Touched(seq, s4, (({r} \cup {dst}) \cup {q}) \cup {q})
    BY <1>8, <2>4, <2>6, TouchedTwice
  <2>8. Touched(seq, s4, {r, dst, q})
    BY <2>7, TouchedMore
  <2> QED BY <1>1, <1>3, <2>1, <2>8, CommitEdits
<1> QED BY <1>9, <1>10

\* How far an edge goes is a number of frames.
LEMMA TrimRangeType ==
    ASSUME NEW clips \in Seq(AnyClip), NEW c \in AnyClip, NEW frames \in Nat
    PROVE  /\ HeadTrimRange(clips, c)[1] \in Int /\ HeadTrimRange(clips, c)[2] \in Int
           /\ TailTrimRange(clips, c, frames)[1] \in Int
           /\ TailTrimRange(clips, c, frames)[2] \in Int
<1>0. \A d \in AnyClip : d.in \in Int /\ d.out \in Int /\ d.src \in Int /\ d.srcOut \in Int
  BY DEF AnyClip
<1>1. /\ c.in \in Int /\ c.out \in Int /\ c.src \in Int /\ c.srcOut \in Int
      /\ \A i \in DOMAIN clips : clips[i].in \in Int /\ clips[i].out \in Int
  BY <1>0
<1>2. DOMAIN clips = 1 .. Len(clips) /\ Len(clips) \in Nat
  OBVIOUS
<1> DEFINE ins == [i \in 1 .. Len(clips) |-> clips[i].in]
           outs == [i \in 1 .. Len(clips) |-> clips[i].out]
           A == {ins[i] : i \in 1 .. Len(clips)}
           B == {outs[i] : i \in 1 .. Len(clips)}
           ends == {clips[i].out : i \in {j \in DOMAIN clips :
                      clips[j].id # c.id /\ clips[j].out <= c.in}}
           starts == {clips[i].in : i \in {j \in DOMAIN clips :
                      clips[j].id # c.id /\ clips[j].in >= c.out}}
           high == IF frames > 0 THEN c.out + (frames - c.srcOut) ELSE c.out
<1>3. IsFiniteSet(A) /\ A \subseteq Int /\ IsFiniteSet(B) /\ B \subseteq Int
  <2>1. DOMAIN ins = 1 .. Len(clips) /\ DOMAIN outs = 1 .. Len(clips)
    OBVIOUS
  <2>2. A \subseteq Int /\ B \subseteq Int
    BY <1>1, <1>2
  <2> HIDE DEF ins, outs
  <2> QED BY <1>2, <2>1, <2>2, ListFinite
<1>4. ends \in SUBSET B /\ starts \in SUBSET A
  <2>1. \A i \in DOMAIN clips : clips[i].out \in B /\ clips[i].in \in A
    <3> TAKE i \in DOMAIN clips
    <3>1. i \in 1 .. Len(clips) /\ outs[i] = clips[i].out /\ ins[i] = clips[i].in
      BY <1>2
    <3> HIDE DEF outs, ins
    <3> QED BY <3>1
  <2> HIDE DEF A, B
  <2> QED BY <2>1
<1> HIDE DEF A, B, ends, starts
<1>5. IsFiniteSet(ends) /\ ends \subseteq Int /\ IsFiniteSet(starts) /\ starts \subseteq Int
  BY <1>3, <1>4, FS_Subset
<1> DEFINE e == c.in - c.src
           S == ends \cup {0, e}
           T == starts \cup {high}
<1>6. high \in Int /\ e \in Int
  BY <1>1
<1>7. /\ HeadTrimRange(clips, c) = <<Max(S) - c.in, c.out - 1 - c.in>>
      /\ TailTrimRange(clips, c, frames) = <<c.in + 1 - c.out, Min(T) - c.out>>
  BY DEF HeadTrimRange, TailTrimRange, ends, starts
<1> HIDE DEF high, e
<1>8. IsFiniteSet(S) /\ S \subseteq Int /\ S # {}
  <2>1. IsFiniteSet(ends \cup {0})
    BY <1>5, FS_AddElement
  <2>2. IsFiniteSet((ends \cup {0}) \cup {e}) /\ (ends \cup {0}) \cup {e} = S
    BY <2>1, FS_AddElement
  <2>3. S \subseteq Int /\ S # {}
    BY <1>5, <1>6
  <2> QED BY <2>2, <2>3
<1>9. IsFiniteSet(T) /\ T \subseteq Int /\ T # {}
  <2>1. IsFiniteSet(T)
    BY <1>5, FS_AddElement
  <2> QED BY <1>5, <1>6, <2>1
<1> HIDE DEF S, T
<1>10. Max(S) \in Int /\ Min(T) \in Int
  BY <1>8, <1>9, GreatestOfRange
<1>11. /\ Max(S) - c.in \in Int /\ c.out - 1 - c.in \in Int
       /\ c.in + 1 - c.out \in Int /\ Min(T) - c.out \in Int
  <2>1. c.in \in Int /\ c.out \in Int
    BY <1>1
  <2>2. \A a, b \in Int : a - b \in Int /\ a - 1 - b \in Int /\ a + 1 - b \in Int
    OBVIOUS
  <2> QED BY ZenonT(30), <1>10, <2>1, <2>2
<1> QED BY <1>7, <1>11

LEMMA TrimDeltaType ==
    ASSUME Ready, NEW edge, NEW id \in ClipIds, NEW to \in Int
    PROVE  TrimDelta(edge, id, to) \in Int
<1> DEFINE r == RefOf(id)
           c == ClipWithId(seq, r, id)
           q == MateRef(seq, c)
           frames == Media[c.media].frames
           range(p, d) == IF edge = "head" THEN HeadTrimRange(ClipsAt(seq, p), d)
                          ELSE TailTrimRange(ClipsAt(seq, p), d, frames)
           own == range(r, c)
           mates == IF q = NoRef THEN own
                    ELSE IF Locked(seq, q) THEN own
                    ELSE range(q, ClipWithId(seq, q, c.link))
           lo == Max({own[1], mates[1]})
           hi == Min({own[2], mates[2]})
           want == to - IF edge = "head" THEN c.in ELSE c.out
<1>1. Track = AnyTrack /\ seq \in Documents
  BY DEF Ready
<1>2. r \in Refs(seq) /\ c \in AnyClip
  BY GestureFacts
<1> HIDE DEF r, c
<1>3. c.in \in Int /\ c.out \in Int /\ frames \in Nat
  BY <1>2, MediaAssumption DEF AnyClip
<1> HIDE DEF frames
<1>4. ASSUME NEW p \in Refs(seq), NEW d \in AnyClip
      PROVE  range(p, d)[1] \in Int /\ range(p, d)[2] \in Int
  <2>1. ClipsAt(seq, p) \in Seq(AnyClip)
    BY <1>1, TrackFacts
  <2> QED BY <1>3, <2>1, TrimRangeType
<1> HIDE DEF range
<1>5. own[1] \in Int /\ own[2] \in Int
  BY <1>2, <1>4
<1>6. mates[1] \in Int /\ mates[2] \in Int
  <2>1. q # NoRef => q \in Refs(seq) /\ ClipWithId(seq, q, c.link) \in AnyClip
    BY <1>2, MateFacts
  <2> HIDE DEF q
  <2>2. q # NoRef => /\ range(q, ClipWithId(seq, q, c.link))[1] \in Int
                     /\ range(q, ClipWithId(seq, q, c.link))[2] \in Int
    BY <1>4, <2>1
  <2> HIDE DEF own
  <2> QED BY <1>5, <2>2
<1>7. lo \in Int /\ hi \in Int
  <2> HIDE DEF own, mates
  <2> QED BY <1>5, <1>6, TwoNumbers
<1>8. want \in Int
  BY <1>3
<1>9. TrimDelta(edge, id, to) = IF Locked(seq, r) \/ lo > hi THEN 0
                                ELSE IF want < lo THEN lo ELSE IF want > hi THEN hi ELSE want
  BY DEF TrimDelta, r, c, q, frames, range
<1> HIDE DEF lo, hi, want
<1> QED BY <1>7, <1>8, <1>9

LEMMA TrimmedTypes ==
    ASSUME NEW c \in AnyClip, NEW d \in Int
    PROVE  HeadTrimmed(c, d) \in AnyClip /\ TailTrimmed(c, d) \in AnyClip
<1>1. /\ c.in + d \in Int /\ c.src + d \in Int /\ c.out + d \in Int /\ c.srcOut + d \in Int
  BY DEF AnyClip
<1>2. HeadTrimmed(c, d) = [c EXCEPT !.in = c.in + d, !.src = c.src + d]
  BY DEF HeadTrimmed
<1>3. TailTrimmed(c, d) = [c EXCEPT !.out = c.out + d, !.srcOut = c.srcOut + d]
  BY DEF TailTrimmed
<1>4. \A x, y \in Int : /\ [c EXCEPT !.in = x, !.src = y] \in AnyClip
                        /\ [c EXCEPT !.out = x, !.srcOut = y] \in AnyClip
  BY DEF AnyClip
<1> QED BY ZenonT(30), <1>1, <1>2, <1>3, <1>4

\* Trimming changes the track of the clip and that of its mate.
LEMMA TrimClipEdgeEdits ==
    ASSUME Ready, NEW edge, NEW id \in ClipIds, NEW to \in Int, TrimClipEdge(edge, id, to)
    PROVE  Edited
<1> DEFINE r == RefOf(id)
           c == ClipWithId(seq, r, id)
           q == MateRef(seq, c)
           trimmed(e, d) == IF edge = "head" THEN HeadTrimmed(e, d) ELSE TailTrimmed(e, d)
           s(d) == UpdatedTo(seq, r, id, trimmed(c, d))
           t(d) == UpdatedTo(s(d), q, c.link, trimmed(ClipWithId(s(d), q, c.link), d))
<1>1. PICK d \in {TrimDelta(edge, id, to)} \ {0} : Commit(seq, t(d), {r, q}, 0)
  BY ZenonT(30) DEF TrimClipEdge, UpdateAt, UpdateId, UpdatedTo, ClipWithId
<1>2. Track = AnyTrack /\ seq \in Documents
  BY DEF Ready
<1>3. r \in Refs(seq) /\ c \in AnyClip
  BY GestureFacts
<1>4. d \in Int
  BY TrimDeltaType
<1> HIDE DEF r, c
<1>5. q \in Refs(seq) \cup {NoRef}
  BY <1>3, MateFacts
<1> HIDE DEF q
<1>6. ASSUME NEW e \in AnyClip PROVE trimmed(e, d) \in AnyClip
  BY <1>4, TrimmedTypes
<1> HIDE DEF trimmed
<1> DEFINE v == s(d)
           w == UpdatedTo(v, q, c.link, trimmed(ClipWithId(v, q, c.link), d))
<1>7. Commit(seq, w, {r, q}, 0)
  BY <1>1
<1>8. Touched(seq, v, {r} \ {NoRef})
  BY <1>2, <1>3, <1>6, UpdatedToTouches
<1> HIDE DEF v
<1>9. Touched(v, w, {q} \ {NoRef})
  <2>1. v \in Documents /\ q \in Refs(v) \cup {NoRef}
    BY <1>5, <1>8 DEF Touched
  <2>2. ASSUME q # NoRef, IndexOfId(ClipsAt(v, q), c.link) # 0
        PROVE  trimmed(ClipWithId(v, q, c.link), d) \in AnyClip
    BY <1>2, <1>6, <2>1, <2>2, FoundClip
  <2> QED BY <1>2, <2>1, <2>2, UpdatedToTouches
<1> HIDE DEF w
<1>10. Touched(seq, w, {r, q} \ {NoRef})
  BY <1>8, <1>9, TwoTouches
<1> QED BY <1>3, <1>5, <1>7, <1>10, CommitEdits

-----------------------------------------------------------------------------
(* Attributes *)

\* A clip without the attributes that leave it where it is.
Bare(c) == [c EXCEPT !.fadeIn = 0, !.fadeOut = 0, !.look = 0]

\* The clips of u are where those of s are.
SameSpans(s, u) == \A p \in Refs(s) : SpansOf(ClipsAt(u, p)) = SpansOf(ClipsAt(s, p))

\* What a setter of attributes leaves.
AttributesOnly == Refs(seq') = Refs(seq) /\ SameSpans(seq, seq') /\ nextId' = nextId

\* Setting an attribute of a clip moves nothing.
LEMMA UpdatedToSpans ==
    ASSUME Track = AnyTrack, NEW s \in Documents, NEW r \in Refs(s) \cup {NoRef}, NEW id, NEW x,
           r # NoRef /\ IndexOfId(ClipsAt(s, r), id) # 0 =>
               x \in AnyClip /\ Bare(x) = Bare(ClipWithId(s, r, id))
    PROVE  SameSpans(s, UpdatedTo(s, r, id, x))
<1> DEFINE u == UpdatedTo(s, r, id, x)
           i == IndexOfId(ClipsAt(s, r), id)
           clips == IF i = 0 THEN ClipsAt(s, r) ELSE [ClipsAt(s, r) EXCEPT ![i] = x]
<1>1. CASE r = NoRef
  BY <1>1 DEF UpdatedTo, SameSpans
<1>2. CASE r # NoRef
  <2>1. ClipsAt(s, r) \in Seq(AnyClip)
    BY <1>2, TrackFacts
  <2>2. i # 0 => i \in 1 .. Len(ClipsAt(s, r)) /\ x \in AnyClip /\ Bare(x) = Bare(ClipsAt(s, r)[i])
    BY <1>2, FoundClip DEF ClipWithId
  <2>3. u = SetClips(s, r, clips)
    BY <1>2 DEF UpdatedTo
  <2> HIDE DEF i
  <2>4. clips \in Seq(AnyClip) /\ DOMAIN clips = DOMAIN ClipsAt(s, r)
    BY <2>1, <2>2
  <2>5. \A j \in DOMAIN clips : Bare(clips[j]) = Bare(ClipsAt(s, r)[j])
    BY <2>1, <2>2
  <2>6. SpansOf(clips) = SpansOf(ClipsAt(s, r))
    <3> HIDE DEF clips
    <3>1. SpansOf(clips) = [j \in DOMAIN clips |-> Bare(clips[j])]
      BY DEF SpansOf, Bare
    <3>2. SpansOf(ClipsAt(s, r)) = [j \in DOMAIN ClipsAt(s, r) |-> Bare(ClipsAt(s, r)[j])]
      BY DEF SpansOf, Bare
    <3> QED BY <2>4, <2>5, <3>1, <3>2
  <2> HIDE DEF clips, u
  <2>7. ClipsAt(u, r) = clips /\ \A p \in Refs(s) \ {r} : ClipsAt(u, p) = ClipsAt(s, p)
    BY ZenonT(30), <1>2, <2>3, <2>4, SetClipsTouches DEF Touched
  <2> QED BY <2>6, <2>7 DEF SameSpans, u
<1> QED BY <1>1, <1>2

\* A setter on a clip and its mate, x and y being what they become.
LEMMA PairSetterEdits ==
    ASSUME Ready, NEW id \in ClipIds, NEW r, NEW c, NEW q, NEW s, NEW x, NEW y,
           r = RefOf(id), c = ClipWithId(seq, r, id), q = MateRef(seq, c),
           s = UpdatedTo(seq, r, id, x),
           x \in AnyClip, Bare(x) = Bare(c),
           q # NoRef /\ IndexOfId(ClipsAt(s, q), c.link) # 0 /\ ClipWithId(s, q, c.link) \in AnyClip =>
               y \in AnyClip /\ Bare(y) = Bare(ClipWithId(s, q, c.link)),
           Commit(seq, UpdatedTo(s, q, c.link, y), {r, q}, 0)
    PROVE  Edited /\ AttributesOnly
<1> DEFINE t == UpdatedTo(s, q, c.link, y)
<1>1. Track = AnyTrack /\ seq \in Documents
  BY DEF Ready
<1>2. r \in Refs(seq) /\ c \in AnyClip
  BY GestureFacts
<1>3. q \in Refs(seq) \cup {NoRef}
  BY <1>2, MateFacts
<1>4. Touched(seq, s, {r} \ {NoRef}) /\ SameSpans(seq, s)
  BY <1>1, <1>2, UpdatedToTouches, UpdatedToSpans
<1>5. s \in Documents /\ Refs(s) = Refs(seq)
  BY <1>4 DEF Touched
<1>6. q # NoRef /\ IndexOfId(ClipsAt(s, q), c.link) # 0 =>
          y \in AnyClip /\ Bare(y) = Bare(ClipWithId(s, q, c.link))
  BY <1>1, <1>3, <1>5, FoundClip
<1>7. Touched(s, t, {q} \ {NoRef}) /\ SameSpans(s, t)
  BY <1>1, <1>3, <1>5, <1>6, UpdatedToTouches, UpdatedToSpans
<1> HIDE DEF t
<1>8. Touched(seq, t, {r, q} \ {NoRef})
  BY <1>4, <1>7, TwoTouches
<1>9. SameSpans(seq, t)
  BY <1>4, <1>5, <1>7 DEF SameSpans
<1>10. Edited /\ seq' = t /\ nextId' = nextId + 0
  BY <1>2, <1>3, <1>8, CommitEdits DEF t
<1> QED BY <1>8, <1>9, <1>10 DEF AttributesOnly, Touched, Ready

\* The setters of attributes list what they write, and move no clip.
LEMMA SetClipAttributeEdits ==
    ASSUME Ready, NEW id \in ClipIds, NEW v \in {0, 1}, SetClipAttribute(id, v)
    PROVE  Edited /\ AttributesOnly
<1> DEFINE r == RefOf(id)
           c == ClipWithId(seq, r, id)
           q == MateRef(seq, c)
           set(e) == [e EXCEPT !.look = v]
           s == UpdatedTo(seq, r, id, set(c))
           y == set(ClipWithId(s, q, c.link))
<1>1. Commit(seq, UpdatedTo(s, q, c.link, y), {r, q}, 0)
  BY DEF SetClipAttribute, SetOnPair, UpdateAt, UpdateId, UpdatedTo, ClipWithId
<1>2. \A e \in AnyClip : set(e) \in AnyClip /\ Bare(set(e)) = Bare(e)
  BY DEF AnyClip, Bare
<1>3. c \in AnyClip
  BY GestureFacts
<1> HIDE DEF set
<1> QED BY ZenonT(30), <1>1, <1>2, <1>3, PairSetterEdits

LEMMA SetClipTransitionEdits ==
    ASSUME Ready, NEW id \in ClipIds, NEW edge \in {"in", "out"}, NEW on \in BOOLEAN,
           SetClipTransition(id, edge, on)
    PROVE  Edited /\ AttributesOnly
<1> DEFINE r == RefOf(id)
           c == ClipWithId(seq, r, id)
           q == MateRef(seq, c)
           set(e) == IF edge = "in" THEN [e EXCEPT !.fadeIn = on] ELSE [e EXCEPT !.fadeOut = on]
           s == UpdatedTo(seq, r, id, set(c))
           y == set(ClipWithId(s, q, c.link))
<1>1. Commit(seq, UpdatedTo(s, q, c.link, y), {r, q}, 0)
  BY DEF SetClipTransition, SetOnPair, UpdateAt, UpdateId, UpdatedTo, ClipWithId
<1>2. \A e \in AnyClip : set(e) \in AnyClip /\ Bare(set(e)) = Bare(e)
  BY DEF AnyClip, Bare
<1>3. c \in AnyClip
  BY GestureFacts
<1> HIDE DEF set
<1> QED BY <1>1, <1>2, <1>3, PairSetterEdits

LEMMA SetClipTitleEdits ==
    ASSUME Ready, NEW id \in ClipIds, NEW v \in {0, 1}, SetClipTitle(id, v)
    PROVE  Edited /\ AttributesOnly
<1> DEFINE r == RefOf(id)
           c == ClipWithId(seq, r, id)
           x == [c EXCEPT !.look = v]
           t == UpdatedTo(seq, r, id, x)
<1>1. Commit(seq, t, {r}, 0)
  BY DEF SetClipTitle, UpdateAt, UpdateId, UpdatedTo, ClipWithId
<1>2. Track = AnyTrack /\ seq \in Documents
  BY DEF Ready
<1>3. r \in Refs(seq) /\ c \in AnyClip
  BY GestureFacts
<1>4. x \in AnyClip /\ Bare(x) = Bare(c)
  <2> HIDE DEF c
  <2> QED BY <1>3 DEF AnyClip, Bare
<1> HIDE DEF x
<1>5. Touched(seq, t, {r} \ {NoRef}) /\ SameSpans(seq, t)
  BY <1>2, <1>3, <1>4, UpdatedToTouches, UpdatedToSpans
<1> HIDE DEF t, r
<1>6. Edited /\ seq' = t /\ nextId' = nextId + 0
  BY <1>1, <1>3, <1>5, CommitEdits
<1> QED BY <1>5, <1>6 DEF AttributesOnly, Touched, Ready

LEMMA SetTrackLockedEdits ==
    ASSUME Ready, NEW r \in Refs(seq), NEW b \in BOOLEAN, SetTrackLocked(r, b)
    PROVE  Edited /\ AttributesOnly
<1> DEFINE x == [TrackAt(seq, r) EXCEPT !.locked = b]
           t == [seq EXCEPT ![r[1]][r[2]] = x]
<1>1. Commit(seq, t, {r}, 0) /\ "lock" \in ops
  BY DEF SetTrackLocked, TrackAt, Offered
<1>2. Track = AnyTrack /\ seq \in Documents
  BY DEF Ready
<1>3. x \in Track /\ x.clips = ClipsAt(seq, r)
  BY <1>2, TrackFacts DEF AnyTrack, ClipsAt
<1> HIDE DEF x
<1>4. Changed(seq, t, r) /\ TrackAt(t, r) = x
  BY <1>2, <1>3, WriteTrack
<1> HIDE DEF t
<1>5. \A p \in Refs(seq) : ClipsAt(t, p) = ClipsAt(seq, p)
  BY <1>3, <1>4 DEF Changed, ClipsAt
<1>6. {r} \ {NoRef} = {r}
  BY <1>2, RefFacts
<1>7. Edited /\ seq' = t /\ nextId' = nextId + 0
  BY <1>1, <1>4, <1>6, CommitWrites DEF Changed
<1> QED BY <1>4, <1>5, <1>7 DEF AttributesOnly, SameSpans, Changed, Ready

LEMMA SetTrackMixEdits ==
    ASSUME Ready, NEW r \in Refs(seq), NEW v \in {0, 1}, SetTrackMix(r, v)
    PROVE  Edited /\ AttributesOnly
<1> DEFINE x == [TrackAt(seq, r) EXCEPT !.mix = v]
           t == [seq EXCEPT ![r[1]][r[2]] = x]
<1>1. Commit(seq, t, {r}, 0)
  BY DEF SetTrackMix, TrackAt
<1>2. Track = AnyTrack /\ seq \in Documents
  BY DEF Ready
<1>3. x \in Track /\ x.clips = ClipsAt(seq, r) /\ x.locked = Locked(seq, r)
  BY <1>2, TrackFacts DEF AnyTrack, ClipsAt, Locked
<1> HIDE DEF x
<1>4. Changed(seq, t, r) /\ TrackAt(t, r) = x
  BY <1>2, <1>3, WriteTrack
<1> HIDE DEF t
<1>5. \A p \in Refs(seq) : ClipsAt(t, p) = ClipsAt(seq, p)
  BY <1>3, <1>4 DEF Changed, ClipsAt
<1>6. {r} \ {NoRef} = {r} /\ (NoLocks(seq) => NoLocks(t))
  BY <1>2, <1>3, <1>4, RefFacts DEF NoLocks, Locked, Changed
<1>7. Edited /\ seq' = t /\ nextId' = nextId + 0
  BY <1>1, <1>4, <1>6, CommitWrites DEF Changed
<1> QED BY <1>4, <1>5, <1>7 DEF AttributesOnly, SameSpans, Changed, Ready

LEMMA SetAllTracksCollapsedEdits ==
    ASSUME Ready, NEW v \in {0, 1}, SetAllTracksCollapsed(v)
    PROVE  Edited /\ AttributesOnly
<1> DEFINE list(k) == [i \in DOMAIN seq[k] |-> [seq[k][i] EXCEPT !.mix = v]]
           t == [k \in Kinds |-> list(k)]
<1>1. Commit(seq, t, Refs(seq), 0)
  BY DEF SetAllTracksCollapsed
<1>2. Track = AnyTrack /\ seq \in Documents
  BY DEF Ready
<1>3. ASSUME NEW k \in Kinds
      PROVE  /\ list(k) \in TrackLists /\ Len(list(k)) = Len(seq[k])
             /\ \A i \in DOMAIN seq[k] : /\ list(k)[i].clips = seq[k][i].clips
                                         /\ list(k)[i].locked = seq[k][i].locked
  <2>1. seq[k] \in Seq(Track) /\ Len(seq[k]) <= MaxTracks /\ DOMAIN seq[k] = 1 .. Len(seq[k])
        /\ \A i \in 1 .. Len(seq[k]) : seq[k][i] \in Track
    BY <1>2, DocumentFacts DEF TrackLists
  <2>2. \A i \in DOMAIN seq[k] : /\ [seq[k][i] EXCEPT !.mix = v] \in Track
                                 /\ [seq[k][i] EXCEPT !.mix = v].clips = seq[k][i].clips
                                 /\ [seq[k][i] EXCEPT !.mix = v].locked = seq[k][i].locked
    BY <1>2, <2>1 DEF AnyTrack
  <2>3. list(k) \in Seq(Track) /\ Len(list(k)) = Len(seq[k])
    BY <2>1, <2>2
  <2> QED BY <2>1, <2>2, <2>3 DEF TrackLists
<1> HIDE DEF list
<1>4. t \in Documents /\ \A k \in Kinds : t[k] = list(k)
  BY <1>3 DEF Documents
<1> HIDE DEF t
<1>5. SameBut(seq, t, Refs(seq))
  BY <1>3, <1>4 DEF SameBut
<1>6. NoRef \notin Refs(seq)
  BY <1>2, RefFacts
<1>7. Refs(seq) \ {NoRef} = Refs(seq)
  BY <1>6
<1>8. ASSUME NEW p \in Refs(seq)
      PROVE  ClipsAt(t, p) = ClipsAt(seq, p) /\ Locked(t, p) = Locked(seq, p)
  <2>1. p[1] \in Kinds /\ p[2] \in DOMAIN seq[p[1]]
    BY <1>2, RefFacts
  <2> QED BY <1>3, <1>4, <2>1 DEF ClipsAt, TrackAt, Locked
<1>9. Refs(t) = Refs(seq)
  BY <1>3, <1>4 DEF Refs
<1>10. Edited /\ seq' = t /\ nextId' = nextId + 0
  <2>1. NoLocks(seq) => NoLocks(t)
    BY <1>8, <1>9 DEF NoLocks
  <2> QED BY <1>1, <1>4, <1>5, <1>7, <2>1, CommitWrites
<1> QED BY <1>8, <1>9, <1>10 DEF AttributesOnly, SameSpans, Ready

-----------------------------------------------------------------------------
(* Lists of tracks *)

\* Operations on a list of tracks record the whole list.
LEMMA CommitListEdits ==
    ASSUME Ready, NEW k \in Kinds, NEW list \in TrackLists, CommitList([seq EXCEPT ![k] = list], k),
           NoLocks(seq) => \A i \in DOMAIN list : ~list[i].locked
    PROVE  Edited
<1> DEFINE t == [seq EXCEPT ![k] = list]
<1>1. EditTrackList /\ seq' = t /\ UNCHANGED <<nextId, session>>
  BY DEF CommitList, EditTrackList, Record
<1>2. NoLocks(seq) => NoLocks(t)
  <2>1. seq \in Documents
    BY DEF Ready
  <2>2. t \in Documents /\ t[k] = list /\ \A h \in Kinds \ {k} : t[h] = seq[h]
    BY <2>1 DEF Documents
  <2> HIDE DEF t
  <2>3. ASSUME NoLocks(seq), NEW r \in Refs(t) PROVE ~Locked(t, r)
    <3>1. r[1] \in Kinds /\ r[2] \in DOMAIN t[r[1]] /\ r = <<r[1], r[2]>>
      BY <2>2, RefFacts
    <3>2. CASE r[1] = k
      BY <2>2, <2>3, <3>1, <3>2 DEF Locked, TrackAt
    <3>3. CASE r[1] # k
      <4>1. r \in Refs(seq)
        BY <2>1, <2>2, <3>1, <3>3, RefIntro
      <4> QED BY <2>2, <2>3, <3>1, <3>3, <4>1 DEF NoLocks, Locked, TrackAt
    <3> QED BY <3>2, <3>3
  <2> QED BY <2>3 DEF NoLocks
<1>3. LocksKept
  BY <1>1, <1>2 DEF LocksKept
<1> QED BY <1>1, <1>3 DEF Ready, Edited

LEMMA RemoveAtType ==
    ASSUME NEW S, NEW s \in Seq(S), NEW i \in 1 .. Len(s)
    PROVE  RemoveAt(s, i) \in Seq(S) /\ Len(RemoveAt(s, i)) = Len(s) - 1
<1> DEFINE a == SubSeq(s, 1, i - 1)
           b == SubSeq(s, i + 1, Len(s))
<1>1. a \in Seq(S) /\ Len(a) = i - 1 /\ b \in Seq(S) /\ Len(b) = Len(s) - i
  OBVIOUS
<1> HIDE DEF a, b
<1>2. a \o b \in Seq(S) /\ Len(a \o b) = Len(s) - 1
  BY <1>1
<1> QED BY <1>2 DEF RemoveAt, a, b

LEMMA ArrangingEdits ==
    ASSUME Ready, Arranging
    PROVE  Edited
<1>1. PICK k \in Kinds, i \in 1 .. MaxTracks, j \in 1 .. MaxTracks :
         InsertTrack(k, i) \/ RemoveTrack(k, i) \/ RenameTrack(k, i) \/ MoveTrack(k, i, j)
  BY DEF Arranging
<1>2. /\ Track = AnyTrack /\ seq \in Documents /\ seq[k] \in TrackLists
      /\ seq[k] \in Seq(Track) /\ Len(seq[k]) \in 0 .. MaxTracks /\ MaxTracks \in Nat
      /\ DOMAIN seq[k] = 1 .. Len(seq[k]) /\ \A n \in 1 .. Len(seq[k]) : seq[k][n] \in Track
  BY DocumentFacts, MaxTracksAssumption DEF Ready, TrackLists
<1> DEFINE list == seq[k]
           S == {t \in Track : NoLocks(seq) => ~t.locked}
<1>7. list \in Seq(S) /\ \A n \in 1 .. Len(list) : list[n] \in S
  <2>1. \A n \in 1 .. Len(list) : list[n] \in S
    <3> TAKE n \in 1 .. Len(list)
    <3>1. <<k, n>> \in Refs(seq)
      BY <1>2, RefIntro
    <3>2. NoLocks(seq) => ~list[n].locked
      BY <3>1 DEF NoLocks, Locked, TrackAt
    <3> QED BY <1>2, <3>2
  <2> HIDE DEF S
  <2> QED BY <1>2, <2>1
<1>8. \A l \in Seq(S) : l \in Seq(Track) /\ (NoLocks(seq) => \A n \in DOMAIN l : ~l[n].locked)
  <2>1. S \subseteq Track /\ (NoLocks(seq) => \A t \in S : ~t.locked)
    OBVIOUS
  <2> HIDE DEF S
  <2> QED BY <2>1
<1>3. CASE InsertTrack(k, i)
  <2> DEFINE new == [locked |-> FALSE, mix |-> 0, clips |-> <<>>]
  <2>1. /\ Len(list) < MaxTracks /\ i <= Len(list) + 1
        /\ CommitList([seq EXCEPT ![k] = InsertAt(list, i, new)], k)
    BY <1>3 DEF InsertTrack, AddTrack
  <2>2. new \in S
    BY <1>2 DEF AnyTrack
  <2> HIDE DEF new, S
  <2>3. InsertAt(list, i, new) \in Seq(S) /\ Len(InsertAt(list, i, new)) = Len(list) + 1
    BY <1>2, <1>7, <2>1, <2>2, InsertAtType
  <2>4. InsertAt(list, i, new) \in TrackLists
    BY <1>2, <1>8, <2>1, <2>3 DEF TrackLists
  <2> QED BY <1>8, <2>1, <2>3, <2>4, CommitListEdits
<1>4. CASE RemoveTrack(k, i)
  <2>1. i <= Len(list) /\ CommitList([seq EXCEPT ![k] = RemoveAt(list, i)], k)
    BY <1>4 DEF RemoveTrack
  <2> HIDE DEF S
  <2>4. i \in 1 .. Len(list)
    BY <1>2, <2>1
  <2>2. RemoveAt(list, i) \in Seq(S) /\ Len(RemoveAt(list, i)) = Len(list) - 1
    BY <1>7, <2>4, RemoveAtType
  <2>3. RemoveAt(list, i) \in TrackLists
    BY <1>2, <1>8, <2>2 DEF TrackLists
  <2> QED BY <1>8, <2>1, <2>2, <2>3, CommitListEdits
<1>5. CASE RenameTrack(k, i)
  <2>1. CommitList(seq, k)
    BY <1>5 DEF RenameTrack
  <2>2. seq = [seq EXCEPT ![k] = list]
    BY <1>2 DEF Documents
  <2> HIDE DEF S
  <2> QED BY <1>2, <1>7, <1>8, <2>1, <2>2, CommitListEdits
<1>6. CASE MoveTrack(k, i, j)
  <2>1. /\ i <= Len(list) /\ j <= Len(list)
        /\ CommitList([seq EXCEPT ![k] = InsertAt(RemoveAt(list, i), j, list[i])], k)
    BY <1>6 DEF MoveTrack
  <2>2. i \in 1 .. Len(list) /\ list[i] \in S
    BY <1>2, <1>7, <2>1
  <2> HIDE DEF S
  <2>3. RemoveAt(list, i) \in Seq(S) /\ Len(RemoveAt(list, i)) = Len(list) - 1
    BY <1>2, <1>7, <2>2, RemoveAtType
  <2>4. j \in 1 .. Len(RemoveAt(list, i)) + 1
    BY <1>2, <2>1, <2>3
  <2> DEFINE new == InsertAt(RemoveAt(list, i), j, list[i])
  <2>5. new \in Seq(S) /\ Len(new) = Len(RemoveAt(list, i)) + 1
    BY <2>2, <2>3, <2>4, InsertAtType
  <2>6. new \in TrackLists
    BY <1>2, <1>8, <2>3, <2>5 DEF TrackLists
  <2> QED BY <1>8, <2>1, <2>5, <2>6, CommitListEdits
<1> QED BY <1>1, <1>3, <1>4, <1>5, <1>6

-----------------------------------------------------------------------------
(* Types, whatever the commands on the stack are *)

\* What an operation leaves that does not list every track it changes.
Recorded ==
    /\ \E t \in Documents, c \in Command : Record(t, c)
    /\ nextId' \in Nat
    /\ session' = session

\* Undoing or redoing any command leaves a sequence.
LEMMA CommandTypes ==
    ASSUME NEW s \in Documents, NEW c \in Command
    PROVE  UndoOf(c, s) \in Documents /\ RedoOf(c, s) \in Documents
<1>1. ASSUME NEW snapshots \in Snapshot
      PROVE  Apply(s, snapshots) \in Documents
  <2>1. PICK refs \in SUBSET (Kinds \X (1 .. MaxTracks)) : snapshots \in [refs -> Track]
    BY DEF Snapshot
  <2>2. ASSUME NEW k \in Kinds
        PROVE  [i \in DOMAIN s[k] |->
                   IF <<k, i>> \in DOMAIN snapshots THEN snapshots[<<k, i>>] ELSE s[k][i]]
                 \in TrackLists
    <3> DEFINE x(i) == IF <<k, i>> \in DOMAIN snapshots THEN snapshots[<<k, i>>] ELSE s[k][i]
    <3>1. DOMAIN s[k] = 1 .. Len(s[k]) /\ Len(s[k]) \in Nat /\ Len(s[k]) <= MaxTracks
      BY DocumentFacts, MaxTracksAssumption
    <3>2. \A i \in 1 .. Len(s[k]) : x(i) \in Track
      BY <2>1, DocumentFacts
    <3> HIDE DEF x
    <3>3. [i \in 1 .. Len(s[k]) |-> x(i)] \in Seq(Track)
          /\ Len([i \in 1 .. Len(s[k]) |-> x(i)]) = Len(s[k])
      BY <3>1, <3>2
    <3> QED BY <3>1, <3>3 DEF TrackLists, x
  <2> QED BY <2>2 DEF Apply, Documents
<1>2. ASSUME NEW k \in Kinds, NEW list \in TrackLists
      PROVE  [s EXCEPT ![k] = list] \in Documents
  BY DEF Documents
<1>3. CASE c \in [type : {"edit"}, before : Snapshot, after : Snapshot]
  <2>1. c.type = "edit" /\ c.before \in Snapshot /\ c.after \in Snapshot
    BY <1>3
  <2> QED BY <1>1, <2>1 DEF UndoOf, RedoOf
<1>4. CASE c \in [type : {"list"}, kind : Kinds, before : TrackLists, after : TrackLists]
  <2>1. c.type # "edit" /\ c.kind \in Kinds /\ c.before \in TrackLists /\ c.after \in TrackLists
    BY <1>4
  <2> QED BY <1>2, <2>1 DEF UndoOf, RedoOf
<1> QED BY <1>3, <1>4 DEF Command

\* A command of the tracks of two sequences.
LEMMA SnapshotTypes ==
    ASSUME NEW s \in Documents, NEW t \in Documents, Refs(t) = Refs(s), NEW refs \in SUBSET Refs(s)
    PROVE  EditCommand(s, t, refs) \in Command
<1>1. refs \in SUBSET (Kinds \X (1 .. MaxTracks))
  BY DEF Refs
<1>2. ASSUME NEW u \in Documents, refs \in SUBSET Refs(u)
      PROVE  TakeSnapshots(u, refs) \in [refs -> Track]
  <2>1. \A r \in refs : u[r[1]][r[2]] \in Track
    BY <1>2, RefFacts DEF TrackAt
  <2> QED BY <2>1 DEF TakeSnapshots
<1>3. TakeSnapshots(s, refs) \in Snapshot /\ TakeSnapshots(t, refs) \in Snapshot
  BY <1>1, <1>2 DEF Snapshot
<1> QED BY <1>3 DEF EditCommand, Command

\* The stacks stay sequences.
LEMMA PushType ==
    ASSUME NEW S, NEW s \in Seq(S), NEW x \in S
    PROVE  Push(s, x) \in Seq(S)
<1>1. Append(s, x) \in Seq(S) /\ Append(s, x) # <<>>
  <2>1. Append(s, x) \in Seq(S) /\ Len(Append(s, x)) = Len(s) + 1 /\ Len(s) \in Nat
    OBVIOUS
  <2> QED BY <2>1
<1>2. Tail(Append(s, x)) \in Seq(S)
  BY <1>1
<1> QED BY <1>1, <1>2 DEF Push

LEMMA FrontType ==
    ASSUME NEW S, NEW s \in Seq(S)
    PROVE  Front(s) \in Seq(S)
<1>1. CASE s = <<>>
  <2>1. Front(s) = [i \in 1 .. 0 |-> s[i]]
    <3>1. 1 .. Len(s) - 1 = 1 .. 0
      BY <1>1
    <3> QED BY <3>1 DEF Front
  <2>2. [i \in 1 .. 0 |-> s[i]] \in Seq(S)
    <3>1. \A i \in 1 .. 0 : s[i] \in S
      OBVIOUS
    <3> QED BY <3>1
  <2> QED BY <2>1, <2>2
<1>2. CASE s # <<>>
  BY <1>2, FrontLast
<1> QED BY <1>1, <1>2

\* Recording, undo and redo keep the types, though the command may not fit.
LEMMA RecordKeepsTypes ==
    ASSUME TypeOK, NEW t \in Documents, NEW c \in Command, Record(t, c)
    PROVE  TypeOK'
<1>1. /\ undo \in Seq(Command) /\ past \in Seq(Documents) /\ seq \in Documents
      /\ seq' = t /\ redo' = <<>> /\ future' = <<>>
      /\ undo' = Push(undo, c) /\ past' = Push(past, seq)
  BY DEF TypeOK, Record
<1>2. undo' \in Seq(Command) /\ past' \in Seq(Documents)
  BY <1>1, PushType
<1> QED BY <1>1, <1>2 DEF TypeOK

LEMMA UndoRedoKeepTypes ==
    ASSUME TypeOK, Undo \/ Redo
    PROVE  TypeOK'
<1>1. /\ undo \in Seq(Command) /\ redo \in Seq(Command)
      /\ past \in Seq(Documents) /\ future \in Seq(Documents) /\ seq \in Documents
  BY DEF TypeOK
<1>2. CASE Undo
  <2>1. /\ undo # <<>> /\ seq' = UndoOf(Last(undo), seq) /\ redo' = Append(redo, Last(undo))
        /\ undo' = Front(undo) /\ past' = Front(past) /\ future' = Append(future, seq)
    BY <1>2 DEF Undo
  <2>2. Last(undo) \in Command
    BY <1>1, <2>1, FrontLast
  <2>3. seq' \in Documents
    BY <1>1, <2>1, <2>2, CommandTypes
  <2>4. undo' \in Seq(Command) /\ past' \in Seq(Documents)
    BY <1>1, <2>1, FrontType
  <2>5. redo' \in Seq(Command) /\ future' \in Seq(Documents)
    BY <1>1, <2>1, <2>2, AppendFacts
  <2> QED BY <2>3, <2>4, <2>5 DEF TypeOK
<1>3. CASE Redo
  <2>1. /\ redo # <<>> /\ seq' = RedoOf(Last(redo), seq) /\ undo' = Append(undo, Last(redo))
        /\ redo' = Front(redo) /\ past' = Append(past, seq) /\ future' = Front(future)
    BY <1>3 DEF Redo
  <2>2. Last(redo) \in Command
    BY <1>1, <2>1, FrontLast
  <2>3. seq' \in Documents
    BY <1>1, <2>1, <2>2, CommandTypes
  <2>4. redo' \in Seq(Command) /\ future' \in Seq(Documents)
    BY <1>1, <2>1, FrontType
  <2>5. undo' \in Seq(Command) /\ past' \in Seq(Documents)
    BY <1>1, <2>1, <2>2, AppendFacts
  <2> QED BY <2>3, <2>4, <2>5 DEF TypeOK
<1> QED BY <1>2, <1>3

-----------------------------------------------------------------------------
(* Lifting a range *)

Unlocked == {p \in Refs(seq) : ~Locked(seq, p)}

\* Lifting a range: every step of the search for mates that removes clips
\* does so on an unlocked track.
LEMMA LiftRangeRecords ==
    ASSUME Ready, NEW r \in Refs(seq), NEW in \in Int, NEW out \in Int, LiftRange(r, in, out)
    PROVE  Recorded /\ Spared(seq')
<1> DEFINE clips == ClipsAt(seq, r)
           n == Len(clips)
           parted(c) == Overlaps(c, in, out) /\ c.link # 0
           lift(s, id) == LET q == FindClipRef(s, id)
                          IN IF q = NoRef THEN s
                             ELSE IF Locked(s, q) THEN s ELSE RemoveId(s, q, id)
           first == SetClips(seq, r, ClippedRange(clips, in, out))
           Step(g, i) == IF i = 0 THEN first
                         ELSE IF parted(clips[i]) THEN lift(g[i - 1], clips[i].link)
                         ELSE g[i - 1]
           IsLifted(g, m) == g = [i \in 0 .. m |-> Step(g, i)]
           lifted == CHOOSE g : IsLifted(g, n)
           mates == {FindClipRef(seq, clips[i].link) : i \in {j \in DOMAIN clips : parted(clips[j])}}
<1>1. ~Locked(seq, r) /\ Commit(seq, lifted[n], {r} \cup mates, 0)
  BY DEF LiftRange
<1>2. Track = AnyTrack /\ seq \in Documents /\ clips \in Seq(AnyClip) /\ n \in Nat
  BY TrackFacts DEF Ready
<1>3. Touched(seq, first, Unlocked)
  <2>1. ClippedRange(clips, in, out) \in Seq(AnyClip)
    BY <1>2, ListTypes
  <2>2. Touched(seq, first, {r})
    BY <1>2, <2>1, SetClipsTouches
  <2>3. {r} \subseteq Unlocked
    BY <1>1 DEF Unlocked
  <2> QED BY <2>2, <2>3, TouchedMore
<1>4. ASSUME NEW s, Touched(seq, s, Unlocked), NEW id
      PROVE  Touched(seq, lift(s, id), Unlocked)
  <2> DEFINE q == FindClipRef(s, id)
  <2>1. s \in Documents
    BY <1>4 DEF Touched
  <2>2. CASE q = NoRef \/ Locked(s, q)
    BY <1>4, <2>2
  <2>3. CASE q # NoRef /\ ~Locked(s, q)
    <3>1. q \in Refs(s)
      BY <1>2, <2>1, <2>3, FindClipRefFinds
    <3>2. lift(s, id) = RemoveId(s, q, id)
      BY <2>3
    <3> HIDE DEF q, lift
    <3>3. Touched(s, RemoveId(s, q, id), {q} \ {NoRef})
      BY <1>2, <2>1, <3>1, RemoveIdTouches
    <3>4. {q} \ {NoRef} \subseteq Unlocked
      BY <1>4, <2>3, <3>1 DEF Touched, Unlocked
    <3>5. Touched(s, RemoveId(s, q, id), Unlocked)
      BY <3>3, <3>4, TouchedMore
    <3>6. Unlocked \cup Unlocked = Unlocked
      OBVIOUS
    <3>7. Touched(seq, RemoveId(s, q, id), Unlocked \cup Unlocked)
      BY <1>4, <3>5, TouchedTwice
    <3> QED BY <3>2, <3>6, <3>7
  <2> QED BY <2>2, <2>3
<1>5. mates \subseteq Refs(seq) \cup {NoRef}
  BY <1>2, FindClipRefFinds
<1>6. IsLifted(lifted, n)
  <2>1. \E g : IsLifted(g, n)
    <3> HIDE DEF first, parted, lift, lifted, clips
    <3> DEFINE T == {m \in Nat : \E g : IsLifted(g, m)}
    <3>1. 0 \in T
      <4> DEFINE g == [i \in 0 .. 0 |-> first]
      <4>1. \A i \in 0 .. 0 : Step(g, i) = first
        OBVIOUS
      <4>2. g = [i \in 0 .. 0 |-> Step(g, i)]
        <5> HIDE DEF Step
        <5> QED BY <4>1
      <4> HIDE DEF Step, g
      <4> QED BY <4>2
    <3>2. ASSUME NEW m \in 1 .. n, m - 1 \in T PROVE m \in T
      <4>1. PICK g : IsLifted(g, m - 1)
        BY <3>2
      <4> DEFINE h == [i \in 0 .. m |-> IF i = m THEN Step(g, m) ELSE g[i]]
      <4>0. m \in Nat /\ m >= 1
        BY <1>2
      <4>2. \A i \in 0 .. m : h[i] = Step(h, i)
        <5> TAKE i \in 0 .. m
        <5>1. i # 0 => i - 1 \in 0 .. m /\ i - 1 # m /\ h[i - 1] = g[i - 1]
          BY <4>0
        <5>2. Step(h, i) = Step(g, i)
          BY <5>1
        <5>3. i # m => i \in 0 .. m - 1
          BY <4>0
        <5>4. i # m => g[i] = Step(g, i)
          <6> HIDE DEF Step, h
          <6> QED BY <4>1, <5>3
        <5> QED BY <5>2, <5>4
      <4>3. IsLifted(h, m)
        <5>1. h = [i \in 0 .. m |-> h[i]]
          OBVIOUS
        <5>2. [i \in 0 .. m |-> h[i]] = [i \in 0 .. m |-> Step(h, i)]
          <6> HIDE DEF Step, h
          <6> QED BY <4>2
        <5> HIDE DEF Step, h
        <5> QED BY <5>1, <5>2
      <4> HIDE DEF h, IsLifted
      <4> QED BY <4>0, <4>3
    <3>3. \A m \in 0 .. n : m \in T
      <4> HIDE DEF T, n
      <4> QED BY <1>2, <3>1, <3>2, FirstFailure
    <3>4. n \in T
      <4> HIDE DEF T, n
      <4> QED BY <1>2, <3>3
    <3> QED BY <3>4
  <2> HIDE DEF IsLifted
  <2> QED BY <2>1
<1>7. \A i \in 0 .. n : lifted[i] = Step(lifted, i)
  <2> HIDE DEF lifted, Step, n
  <2> QED BY <1>6
<1>8. Touched(seq, lifted[n], Unlocked)
  <2> HIDE DEF first, parted, lift, lifted, clips
  <2> DEFINE T == {i \in Nat : Touched(seq, lifted[i], Unlocked)}
  <2>1. 0 \in T
    BY <1>2, <1>3, <1>7
  <2>2. ASSUME NEW i \in 1 .. n, i - 1 \in T PROVE i \in T
    <3>1. i \in Nat /\ i # 0 /\ i \in 0 .. n
      BY <1>2
    <3>2. lifted[i] = IF parted(clips[i]) THEN lift(lifted[i - 1], clips[i].link)
                      ELSE lifted[i - 1]
      BY <1>7, <3>1
    <3>3. Touched(seq, lifted[i - 1], Unlocked)
      BY <2>2
    <3>4. Touched(seq, lift(lifted[i - 1], clips[i].link), Unlocked)
      BY <1>4, <3>3
    <3> QED BY <3>1, <3>2, <3>3, <3>4
  <2> HIDE DEF T, n
  <2>3. n \in 0 .. n
    BY <1>2
  <2>4. n \in T
    BY <1>2, <2>1, <2>2, <2>3, FirstFailure
  <2> QED BY <2>4 DEF T
<1> DEFINE t == lifted[n]
           refs == ({r} \cup mates) \ {NoRef}
<1> HIDE DEF lifted, mates
<1>9. refs \in SUBSET Refs(seq)
  BY <1>5
<1>10. Record(t, EditCommand(seq, t, refs)) /\ nextId' = nextId + 0 /\ session' = session
  BY <1>1 DEF Commit
<1> HIDE DEF t, refs
<1>11. t \in Documents /\ Refs(t) = Refs(seq)
  BY <1>8 DEF Touched, t
<1>12. EditCommand(seq, t, refs) \in Command
  BY <1>2, <1>9, <1>11, SnapshotTypes
<1>13. Spared(t)
  BY <1>8, UnlockedSpares DEF t, Unlocked
<1>14. seq' = t /\ nextId' \in Nat
  BY <1>10 DEF Record, Ready
<1> QED BY <1>10, <1>11, <1>12, <1>13, <1>14 DEF Recorded

-----------------------------------------------------------------------------
(* Sessions *)

\* The ids of a sequence are finitely many, so that there is a next one.
LEMMA ImageFinite ==
    ASSUME NEW S, IsFiniteSet(S), NEW f, DOMAIN f = S
    PROVE  IsFiniteSet({f[x] : x \in S})
<1> DEFINE T == {f[x] : x \in S}
           g == [x \in S |-> f[x]]
<1>1. g \in Surjection(S, T)
  BY DEF Surjection
<1> HIDE DEF T, g
<1>2. IsFiniteSet(T)
  BY <1>1, FS_Surjection
<1> QED BY <1>2 DEF T

LEMMA FreshInType ==
    ASSUME Track = AnyTrack, NEW s \in Documents
    PROVE  /\ FreshIn(s) \in Nat /\ FreshIn(s) # 0
           /\ \A c \in ClipsOf(s) : c.id < FreshIn(s)
<1> DEFINE on(r) == ToSet(ClipsAt(s, r))
           lists == {on(r) : r \in Refs(s)}
           ids == {c.id : c \in ClipsOf(s)}
<1>1. IsFiniteSet(Refs(s))
  <2>1. IsFiniteSet(Kinds)
    <3>1. IsFiniteSet({"video"} \cup {"audio"})
      BY FS_Singleton, FS_AddElement
    <3> QED BY <3>1 DEF Kinds
  <2>2. IsFiniteSet(1 .. MaxTracks)
    BY FS_Interval, MaxTracksAssumption
  <2>3. IsFiniteSet(Kinds \X (1 .. MaxTracks))
    BY <2>1, <2>2, FS_Product
  <2> QED BY <2>3, FS_Subset DEF Refs
<1>2. ASSUME NEW r \in Refs(s)
      PROVE  on(r) \subseteq AnyClip /\ IsFiniteSet(on(r))
  <2> DEFINE clips == ClipsAt(s, r)
  <2>1. clips \in Seq(AnyClip)
    BY TrackFacts
  <2> HIDE DEF clips
  <2>2. Len(clips) \in Nat /\ DOMAIN clips = 1 .. Len(clips)
        /\ \A i \in 1 .. Len(clips) : clips[i] \in AnyClip
    BY <2>1
  <2>3. ToSet(clips) = {clips[i] : i \in 1 .. Len(clips)}
    BY <2>2 DEF ToSet
  <2>4. IsFiniteSet({clips[i] : i \in 1 .. Len(clips)})
    BY <2>2, ListFinite
  <2> QED BY <2>2, <2>3, <2>4 DEF clips
<1>3. IsFiniteSet(lists)
  <2> DEFINE f == [r \in Refs(s) |-> on(r)]
  <2>1. DOMAIN f = Refs(s) /\ {f[r] : r \in Refs(s)} = lists
    OBVIOUS
  <2> HIDE DEF f, lists
  <2>2. IsFiniteSet({f[r] : r \in Refs(s)})
    BY <1>1, <2>1, ImageFinite
  <2> QED BY <2>1, <2>2
<1>4. IsFiniteSet(ClipsOf(s)) /\ ClipsOf(s) \subseteq AnyClip
  <2>1. ClipsOf(s) = UNION lists
    BY DEF ClipsOf
  <2>2. \A x \in lists : IsFiniteSet(x) /\ x \subseteq AnyClip
    <3> HIDE DEF on
    <3> QED BY <1>2
  <2> HIDE DEF lists
  <2> QED BY <1>3, <2>1, <2>2, FS_UNION
<1>5. IsFiniteSet(ids) /\ ids \subseteq Nat
  <2>1. \A c \in AnyClip : c.id \in Nat
    BY DEF AnyClip
  <2> DEFINE f == [c \in ClipsOf(s) |-> c.id]
  <2>3. DOMAIN f = ClipsOf(s) /\ {f[c] : c \in ClipsOf(s)} = ids
    OBVIOUS
  <2> HIDE DEF f, ids
  <2>4. IsFiniteSet({f[c] : c \in ClipsOf(s)})
    BY <1>4, <2>3, ImageFinite
  <2>2. IsFiniteSet(ids)
    BY <2>3, <2>4
  <2> USE DEF ids
  <2> QED BY <1>4, <2>1, <2>2
<1> HIDE DEF ids
<1>6. IsFiniteSet(ids \cup {0}) /\ ids \cup {0} = {0} \cup ids
  BY <1>5, FS_AddElement
<1>7. {0} \cup ids \subseteq Int /\ {0} \cup ids # {} /\ {0} \cup ids \subseteq Nat
  BY <1>5
<1>8. Max({0} \cup ids) \in {0} \cup ids /\ \A i \in ids : i <= Max({0} \cup ids)
  BY <1>6, <1>7, GreatestOfRange
<1>9. Max({0} \cup ids) \in Nat
  BY <1>7, <1>8
<1>10. FreshIn(s) = 1 + Max({0} \cup ids)
  BY DEF FreshIn, ids
<1>11. \A i \in ids : i < FreshIn(s)
  BY <1>5, <1>8, <1>9, <1>10
<1>12. \A c \in ClipsOf(s) : c.id \in ids
  BY DEF ids
<1>13. \A c \in ClipsOf(s) : c.id < FreshIn(s)
  BY <1>11, <1>12
<1>14. FreshIn(s) \in Nat /\ FreshIn(s) # 0
  BY <1>9, <1>10
<1> QED BY <1>13, <1>14

\* The operations that change tracks they do not list: a track added before
\* the snapshots are taken, and a search repeated while clips are removed.
Unlisted == {"onTop", "autoTrack", "liftRange"}

Editing == Placing \/ Linking \/ Removing \/ Cutting \/ Moving \/ Setting \/ Arranging

\* A clip is dropped on a track there is.
LEMMA DropTarget ==
    ASSUME Ready, NEW id \in ClipIds, NEW i \in DOMAIN seq[RefOf(id)[1]]
    PROVE  <<RefOf(id)[1], i>> \in Refs(seq)
<1>1. seq \in Documents /\ RefOf(id) \in Refs(seq)
  BY GestureFacts DEF Ready
<1>2. RefOf(id)[1] \in Kinds
  BY <1>1, RefFacts
<1> QED BY <1>1, <1>2, RefIntro

\* The operations by kind.
LEMMA PlacingEdits ==
    ASSUME Ready, Placing, "onTop" \notin ops
    PROVE  Edited /\ Spared(seq')
<1>1. PICK m \in DOMAIN Media, in \in Frames, n \in Lengths :
         \/ \E r \in Refs(seq), mode \in {"overwrite", "insert", "append"} :
               PlaceClip(r, m, in, n, mode)
         \/ PlaceOnTop(m, in, n)
         \/ \E v \in DOMAIN seq["video"], a \in DOMAIN seq["audio"],
               mode \in {"overwrite", "insert", "append", "onTop"} :
                  PlaceLinked(v, a, m, in, n, mode)
  BY DEF Placing
<1>2. in \in Int /\ n \in Nat
  BY ReadyFacts
<1>3. ~PlaceOnTop(m, in, n)
  BY DEF PlaceOnTop, Offered
<1>4. CASE \E r \in Refs(seq), mode \in {"overwrite", "insert", "append"} :
               PlaceClip(r, m, in, n, mode)
  BY <1>2, <1>4, PlaceOnEdits DEF PlaceClip
<1>5. CASE \E v \in DOMAIN seq["video"], a \in DOMAIN seq["audio"],
               mode \in {"overwrite", "insert", "append", "onTop"} :
                  PlaceLinked(v, a, m, in, n, mode)
  BY <1>2, <1>5, PlaceLinkedEdits
<1> QED BY <1>1, <1>3, <1>4, <1>5

LEMMA CuttingEdits ==
    ASSUME Ready, Cutting
    PROVE  Edited /\ ("throughEdit" \notin ops => Spared(seq'))
<1>1. CASE \E r \in Refs(seq), pos \in Frames : BladeAt(r, pos) \/ BladeLinkedAt(r, pos)
  <2>1. PICK r \in Refs(seq), pos \in Frames : BladeAt(r, pos) \/ BladeLinkedAt(r, pos)
    BY <1>1
  <2>2. pos \in Int
    BY ReadyFacts
  <2> QED BY <2>1, <2>2, BladeAtEdits, BladeLinkedAtEdits
<1>2. CASE \E id \in ClipIds : DeleteThroughEdit(id)
  BY Zenon, <1>2, DeleteThroughEditEdits DEF DeleteThroughEdit, Offered
<1> QED BY <1>1, <1>2 DEF Cutting

LEMMA MovingEdits ==
    ASSUME Ready, Moving, "autoTrack" \notin ops
    PROVE  Edited /\ ops \cap {"move", "trim"} # {}
<1>1. PICK id \in ClipIds, in \in Frames :
       \/ /\ Offered("move")
          /\ \E i \in DOMAIN seq[RefOf(id)[1]] : MoveClip(id, <<RefOf(id)[1], i>>, in)
       \/ Offered("trim") /\ \E edge \in {"head", "tail"} : TrimClipEdge(edge, id, in)
       \/ AutoTrack(id, in)
  BY DEF Moving
<1>2. in \in Int
  BY ReadyFacts
<1>3. ~AutoTrack(id, in)
  BY DEF AutoTrack, Offered
<1>4. CASE Offered("move") /\ \E i \in DOMAIN seq[RefOf(id)[1]] :
               MoveClip(id, <<RefOf(id)[1], i>>, in)
  <2>1. PICK i \in DOMAIN seq[RefOf(id)[1]] : MoveClip(id, <<RefOf(id)[1], i>>, in)
    BY <1>4
  <2>2. <<RefOf(id)[1], i>> \in Refs(seq)
    BY DropTarget
  <2>3. Edited
    BY <1>2, <2>1, <2>2, MoveClipEdits
  <2> QED BY <1>4, <2>3 DEF Offered
<1>5. CASE Offered("trim") /\ \E edge \in {"head", "tail"} : TrimClipEdge(edge, id, in)
  <2>1. Edited
    BY <1>2, <1>5, TrimClipEdgeEdits
  <2> QED BY <1>5, <2>1 DEF Offered
<1> QED BY <1>1, <1>3, <1>4, <1>5

LEMMA SettingEdits ==
    ASSUME Ready, Setting
    PROVE  Edited /\ AttributesOnly
BY SetClipAttributeEdits, SetClipTitleEdits, SetClipTransitionEdits, SetTrackLockedEdits,
   SetTrackMixEdits, SetAllTracksCollapsedEdits DEF Setting

LEMMA AttributesSpared ==
    ASSUME AttributesOnly
    PROVE  Spared(seq')
BY DEF AttributesOnly, SameSpans, Spared

\* Every operation but three lists the tracks it changes.
LEMMA EditingEdits ==
    ASSUME Ready, Editing, ops \cap Unlisted = {}
    PROVE  Edited
<1>1. "onTop" \notin ops /\ "autoTrack" \notin ops /\ "liftRange" \notin ops
  BY DEF Unlisted
<1>2. CASE Linking
  BY <1>2, UnlinkClipEdits, LinkClipEdits DEF Linking
<1>3. CASE Removing
  <2>1. CASE \E id \in ClipIds : LiftClip(id) \/ RippleDeleteClip(id)
    BY <2>1, LiftClipEdits, RippleDeleteClipEdits
  <2>2. CASE \E r \in Refs(seq), in, out \in Frames : LiftRange(r, in, out) \/ RippleDeleteRange(r, in, out)
    <3>1. PICK r \in Refs(seq), in \in Frames, out \in Frames :
             LiftRange(r, in, out) \/ RippleDeleteRange(r, in, out)
      BY <2>2
    <3>2. in \in Int /\ out \in Int /\ ~LiftRange(r, in, out)
      BY <1>1, ReadyFacts DEF LiftRange, Offered
    <3> QED BY <3>1, <3>2, RippleDeleteRangeEdits
  <2> QED BY <1>3, <2>1, <2>2 DEF Removing
<1> QED BY <1>1, <1>2, <1>3, PlacingEdits, CuttingEdits, MovingEdits, SettingEdits,
           ArrangingEdits DEF Editing

\* Opening a project, undo and redo are those of the stack.
LEMMA OpenUndoRedo ==
    ASSUME Ready, EditUndo \/ EditRedo \/ OpenProject
    PROVE  (Undo \/ Redo \/ Clear) /\ nextId' \in Nat /\ session' = session
<1>1. CASE EditUndo
  BY <1>1 DEF EditUndo, Ready
<1>2. CASE EditRedo
  BY <1>2 DEF EditRedo, Ready
<1>3. CASE OpenProject
  <2>1. /\ seq' \in Documents /\ undo' = <<>> /\ redo' = <<>> /\ past' = <<>> /\ future' = <<>>
        /\ nextId' = FreshIn(seq') /\ session' = session
    BY <1>3, ReadyFacts DEF OpenProject
  <2>2. nextId' \in Nat
    BY <2>1, FreshInType DEF Ready
  <2> QED BY <2>1, <2>2 DEF Clear
<1> QED BY <1>1, <1>2, <1>3

-----------------------------------------------------------------------------
(* Lists of clips that are cut, shifted, inserted into and filtered *)

\* The lists of a list, put together one after the other.
LEMMA FlattenSteps ==
    ASSUME NEW S, NEW ss \in Seq(Seq(S))
    PROVE  \E flat \in [0 .. Len(ss) -> Seq(S)] :
              /\ flat[0] = <<>>
              /\ \A i \in 1 .. Len(ss) : flat[i] = flat[i - 1] \o ss[i]
              /\ flat[Len(ss)] = FlattenSeq(ss)
<1> DEFINE n == Len(ss)
           Step(g, i) == IF i = 1 THEN ss[i] ELSE g[i - 1] \o ss[i]
           IsFlat(g, m) == g = [i \in 1 .. m |-> Step(g, i)]
           flat == CHOOSE g : IsFlat(g, n)
           full == [i \in 0 .. n |-> IF i = 0 THEN <<>> ELSE flat[i]]
<1>1. n \in Nat /\ \A i \in 1 .. n : ss[i] \in Seq(S)
  OBVIOUS
<1>2. \E g : IsFlat(g, n)
  <2> DEFINE T == {m \in Nat : \E g : IsFlat(g, m)}
  <2>1. 0 \in T
    <3> DEFINE g == [i \in 1 .. 0 |-> 0]
    <3>1. IsFlat(g, 0)
      OBVIOUS
    <3> QED BY <3>1
  <2>2. ASSUME NEW m \in 1 .. n, m - 1 \in T PROVE m \in T
    <3>1. PICK g : IsFlat(g, m - 1)
      BY <2>2
    <3> DEFINE h == [i \in 1 .. m |-> IF i = m THEN Step(g, m) ELSE g[i]]
    <3>2. \A i \in 1 .. m : h[i] = Step(h, i)
      <4> TAKE i \in 1 .. m
      <4>1. i # 1 => i - 1 \in 1 .. m /\ i - 1 # m /\ h[i - 1] = g[i - 1]
        OBVIOUS
      <4>2. Step(h, i) = Step(g, i)
        BY <4>1
      <4>3. i # m => i \in 1 .. m - 1
        OBVIOUS
      <4>4. i # m => g[i] = Step(g, i)
        <5> HIDE DEF Step, h
        <5> QED BY <3>1, <4>3
      <4> QED BY <4>2, <4>4
    <3>3. IsFlat(h, m)
      <4>1. h = [i \in 1 .. m |-> h[i]]
        OBVIOUS
      <4>2. [i \in 1 .. m |-> h[i]] = [i \in 1 .. m |-> Step(h, i)]
        <5> HIDE DEF Step, h
        <5> QED BY <3>2
      <4> HIDE DEF Step, h
      <4> QED BY <4>1, <4>2
    <3>4. m \in Nat
      OBVIOUS
    <3> HIDE DEF h, IsFlat
    <3> QED BY <3>3, <3>4
  <2>3. \A m \in 0 .. n : m \in T
    <3> HIDE DEF T
    <3> QED BY <1>1, <2>1, <2>2, FirstFailure
  <2>4. n \in T
    <3> HIDE DEF T
    <3> QED BY <1>1, <2>3
  <2> QED BY <2>4
<1>3. IsFlat(flat, n)
  <2> HIDE DEF IsFlat
  <2> QED BY <1>2
<1>4. \A i \in 1 .. n : flat[i] = Step(flat, i)
  <2> HIDE DEF flat, Step
  <2> QED BY <1>3
<1>5. ASSUME NEW i \in 1 .. n PROVE full[i] = full[i - 1] \o ss[i]
  <2>1. full[i] = flat[i] /\ i \in 0 .. n /\ i - 1 \in 0 .. n
    <3> HIDE DEF flat
    <3> QED OBVIOUS
  <2>2. CASE i = 1
    <3>1. flat[i] = ss[i]
      <4> HIDE DEF flat
      <4> QED BY <1>4, <2>2
    <3>2. full[i - 1] = <<>>
      <4> HIDE DEF flat
      <4> QED BY <2>2
    <3>3. <<>> \o ss[i] = ss[i]
      BY <1>1
    <3> HIDE DEF flat, full
    <3> QED BY <2>1, <3>1, <3>2, <3>3
  <2>3. CASE i # 1
    <3>1. flat[i] = flat[i - 1] \o ss[i]
      <4> HIDE DEF flat
      <4> QED BY <1>4, <2>3
    <3>2. full[i - 1] = flat[i - 1]
      <4> HIDE DEF flat
      <4> QED BY <2>1, <2>3
    <3> HIDE DEF flat, full
    <3> QED BY <2>1, <3>1, <3>2
  <2> QED BY Zenon, <2>2, <2>3
<1>6. full[0] = <<>>
  BY <1>1
<1>7. full[n] = FlattenSeq(ss)
  <2>1. CASE n = 0
    <3>1. ss = <<>>
      BY <2>1
    <3> QED BY <1>6, <2>1, <3>1 DEF FlattenSeq
  <2>2. CASE n # 0
    <3>1. FlattenSeq(ss) = flat[n]
      BY <2>2 DEF FlattenSeq
    <3>2. full[n] = flat[n]
      <4> HIDE DEF flat
      <4> QED BY <1>1, <2>2
    <3> QED BY <3>1, <3>2
  <2> QED BY <2>1, <2>2
<1> DEFINE T == {i \in Nat : full[i] \in Seq(S)}
<1>8. ASSUME NEW i \in 1 .. n, i - 1 \in T PROVE i \in T
  <2>1. full[i - 1] \in Seq(S) /\ ss[i] \in Seq(S) /\ i \in Nat
    <3> HIDE DEF full
    <3> QED BY <1>1, <1>8
  <2>2. full[i] = full[i - 1] \o ss[i]
    <3> HIDE DEF full
    <3> QED BY <1>5
  <2>3. full[i - 1] \o ss[i] \in Seq(S)
    <3> HIDE DEF full
    <3> QED BY <2>1
  <2> HIDE DEF full
  <2> QED BY <2>1, <2>2, <2>3
<1>9. \A i \in 0 .. n : i \in T
  <2>1. 0 \in T
    <3>1. <<>> \in Seq(S) /\ 0 \in Nat
      OBVIOUS
    <3> HIDE DEF full
    <3> QED BY <1>6, <3>1
  <2> HIDE DEF T
  <2> QED BY <1>1, <1>8, <2>1, FirstFailure
<1>10. full \in [0 .. n -> Seq(S)]
  <2>1. \A i \in 0 .. n : full[i] \in Seq(S)
    <3> HIDE DEF full
    <3> QED BY <1>9
  <2>2. full = [i \in 0 .. n |-> full[i]]
    <3> HIDE DEF flat
    <3> QED OBVIOUS
  <2> HIDE DEF full
  <2> QED BY <2>1, <2>2
<1> HIDE DEF full
<1> QED BY <1>5, <1>6, <1>7, <1>10

LEMMA ConcatFacts ==
    ASSUME NEW S, NEW g \in Seq(S), NEW l \in Seq(S)
    PROVE  /\ g \o l \in Seq(S)
           /\ Len(g) \in Nat /\ Len(l) \in Nat /\ Len(g \o l) = Len(g) + Len(l)
           /\ \A p \in 1 .. Len(g) : (g \o l)[p] = g[p]
           /\ \A p \in Len(g) + 1 .. Len(g) + Len(l) : (g \o l)[p] = l[p - Len(g)]
OBVIOUS

\* Every element of g is an element of one of the first m lists of ss, number
\* J[p] of list I[p], in their order, and every element of the lists is there.
FlatIndex(ss, g, m, I, J) ==
    /\ \A p \in 1 .. Len(g) :
          /\ I[p] \in 1 .. m
          /\ J[p] \in 1 .. Len(ss[I[p]])
          /\ g[p] = ss[I[p]][J[p]]
    /\ \A p, q \in 1 .. Len(g) :
          p < q => I[p] < I[q] \/ (I[p] = I[q] /\ J[p] < J[q])
    /\ \A i \in 1 .. m : \A j \in 1 .. Len(ss[i]) :
          \E p \in 1 .. Len(g) : I[p] = i /\ J[p] = j

LEMMA FlattenIndex ==
    ASSUME NEW S, NEW ss \in Seq(Seq(S))
    PROVE  \E I, J \in [1 .. Len(FlattenSeq(ss)) -> Nat] :
              FlatIndex(ss, FlattenSeq(ss), Len(ss), I, J)
<1> DEFINE n == Len(ss)
           Good(g, m, I, J) == FlatIndex(ss, g, m, I, J)
<1>1. n \in Nat /\ \A i \in 1 .. n : ss[i] \in Seq(S)
  OBVIOUS
<1>2. PICK flat \in [0 .. n -> Seq(S)] :
         /\ flat[0] = <<>>
         /\ \A i \in 1 .. n : flat[i] = flat[i - 1] \o ss[i]
         /\ flat[n] = FlattenSeq(ss)
  BY FlattenSteps
<1> DEFINE T == {m \in Nat : \E I, J \in [1 .. Len(flat[m]) -> Nat] : Good(flat[m], m, I, J)}
<1>3. 0 \in T
  <2> DEFINE z == [p \in 1 .. 0 |-> 0]
  <2>0. Len(flat[0]) = 0
    BY <1>2
  <2>1. z \in [1 .. Len(flat[0]) -> Nat]
    BY <2>0
  <2>2. Good(flat[0], 0, z, z)
    BY <2>0 DEF FlatIndex
  <2> HIDE DEF z
  <2> QED BY <2>1, <2>2
<1>4. ASSUME NEW m \in 1 .. n, m - 1 \in T PROVE m \in T
  <2> DEFINE g == flat[m - 1]
             h == flat[m]
             l == ss[m]
  <2>1. g \in Seq(S) /\ h = g \o l /\ l \in Seq(S)
    <3>1. m - 1 \in 0 .. n /\ m \in 1 .. n
      BY <1>1
    <3>2. flat[m - 1] \in Seq(S)
      BY <3>1
    <3>3. flat[m] = flat[m - 1] \o ss[m]
      BY <1>2
    <3> QED BY <1>1, <3>2, <3>3
  <2>2. PICK I, J \in [1 .. Len(g) -> Nat] : Good(g, m - 1, I, J)
    BY <1>4
  <2> HIDE DEF g, h
  <2> DEFINE a == Len(g)
             I1 == [p \in 1 .. Len(h) |-> IF p <= a THEN I[p] ELSE m]
             J1 == [p \in 1 .. Len(h) |-> IF p <= a THEN J[p] ELSE p - a]
  <2>3. /\ a \in Nat /\ Len(l) \in Nat /\ Len(h) = a + Len(l)
        /\ \A p \in 1 .. a : h[p] = g[p]
        /\ \A p \in a + 1 .. a + Len(l) : h[p] = l[p - a]
    <3> HIDE DEF l
    <3> QED BY <2>1, ConcatFacts
  <2>4. I1 \in [1 .. Len(h) -> Nat] /\ J1 \in [1 .. Len(h) -> Nat]
    <3>1. \A p \in 1 .. Len(h) : p <= a => p \in 1 .. a /\ I[p] \in Nat /\ J[p] \in Nat
      <4> TAKE p \in 1 .. Len(h)
      <4>1. p <= a => p \in 1 .. a
        <5> HIDE DEF a
        <5> QED BY <2>3
      <4>2. p \in 1 .. a => I[p] \in Nat /\ J[p] \in Nat
        OBVIOUS
      <4> QED BY <4>1, <4>2
    <3>2. \A p \in 1 .. Len(h) : ~(p <= a) => p - a \in Nat
      BY <2>3
    <3> HIDE DEF a
    <3> QED BY <3>1, <3>2
  <2>5. ASSUME NEW p \in 1 .. Len(h)
        PROVE  /\ p <= a => p \in 1 .. a /\ I1[p] = I[p] /\ J1[p] = J[p] /\ h[p] = g[p]
               /\ ~(p <= a) => p - a \in 1 .. Len(l) /\ I1[p] = m /\ J1[p] = p - a /\ h[p] = l[p - a]
    <3>1. p <= a => p \in 1 .. a
      BY <2>3
    <3>2. ~(p <= a) => p - a \in 1 .. Len(l) /\ p \in a + 1 .. a + Len(l)
      BY <2>3
    <3>3. I1[p] = (IF p <= a THEN I[p] ELSE m) /\ J1[p] = (IF p <= a THEN J[p] ELSE p - a)
      OBVIOUS
    <3> HIDE DEF a, I1, J1
    <3> QED BY <2>3, <3>1, <3>2, <3>3
  <2> HIDE DEF I1, J1, a
  <2>6. ASSUME NEW p \in 1 .. Len(h)
        PROVE  I1[p] \in 1 .. m /\ J1[p] \in 1 .. Len(ss[I1[p]]) /\ h[p] = ss[I1[p]][J1[p]]
    <3>1. CASE p <= a
      <4>1. I[p] \in 1 .. m - 1 /\ J[p] \in 1 .. Len(ss[I[p]]) /\ g[p] = ss[I[p]][J[p]]
        BY <2>2, <2>5, <3>1 DEF a, FlatIndex
      <4>2. I[p] \in 1 .. m
        BY <4>1
      <4> QED BY <2>5, <3>1, <4>1, <4>2
    <3>2. CASE ~(p <= a)
      BY <2>5, <3>2
    <3> QED BY <3>1, <3>2
  <2>7. ASSUME NEW p \in 1 .. Len(h), NEW q \in 1 .. Len(h), p < q
        PROVE  I1[p] < I1[q] \/ (I1[p] = I1[q] /\ J1[p] < J1[q])
    <3>1. CASE q <= a
      <4>1. p <= a
        BY <2>3, <2>7, <3>1
      <4>2. I[p] < I[q] \/ (I[p] = I[q] /\ J[p] < J[q])
        BY <2>2, <2>5, <2>7, <3>1, <4>1 DEF a, FlatIndex
      <4> QED BY <2>5, <3>1, <4>1, <4>2
    <3>2. CASE ~(q <= a) /\ p <= a
      <4>1. I1[p] \in 1 .. m - 1 /\ I1[q] = m
        BY <2>2, <2>5, <3>2 DEF a, FlatIndex
      <4> QED BY <4>1
    <3>3. CASE ~(q <= a) /\ ~(p <= a)
      <4>1. I1[p] = m /\ I1[q] = m /\ J1[p] = p - a /\ J1[q] = q - a
        BY <2>5, <3>3
      <4> QED BY <2>3, <2>7, <4>1
    <3> QED BY <3>1, <3>2, <3>3
  <2>8. ASSUME NEW i \in 1 .. m, NEW j \in 1 .. Len(ss[i])
        PROVE  \E p \in 1 .. Len(h) : I1[p] = i /\ J1[p] = j
    <3>1. CASE i = m
      <4>1. a + j \in 1 .. Len(h) /\ ~(a + j <= a) /\ (a + j) - a = j
        BY <2>3, <3>1
      <4> QED BY <2>5, <3>1, <4>1
    <3>2. CASE i # m
      <4>1. i \in 1 .. m - 1
        BY <3>2
      <4>2. PICK p \in 1 .. Len(g) : I[p] = i /\ J[p] = j
        BY <2>2, <4>1 DEF FlatIndex
      <4>3. p \in 1 .. Len(h) /\ p <= a
        BY <2>3 DEF a
      <4> QED BY <2>5, <4>2, <4>3
    <3> QED BY <3>1, <3>2
  <2>9. Good(h, m, I1, J1)
    BY <2>6, <2>7, <2>8 DEF FlatIndex
  <2>10. m \in Nat
    OBVIOUS
    <2> QED BY <2>4, <2>9, <2>10 DEF h
<1>5. \A m \in 0 .. n : m \in T
  <2> HIDE DEF T
  <2> QED BY <1>1, <1>3, <1>4, FirstFailure
<1>6. n \in T
  <2> HIDE DEF T
  <2> QED BY <1>1, <1>5
<1>7. PICK I, J \in [1 .. Len(flat[n]) -> Nat] : Good(flat[n], n, I, J)
    <2> QED BY <1>6
<1>8. flat[n] = FlattenSeq(ss)
  BY <1>2
<1>9. I \in [1 .. Len(FlattenSeq(ss)) -> Nat] /\ J \in [1 .. Len(FlattenSeq(ss)) -> Nat]
  BY <1>7, <1>8
<1>10. Good(FlattenSeq(ss), n, I, J)
    <2> QED BY <1>7, <1>8
<1> QED BY <1>9, <1>10

\* The clips of a track one after the other, whichever two are compared.
Apart(clips) ==
    /\ \A i \in DOMAIN clips : 0 <= clips[i].in /\ clips[i].in < clips[i].out
    /\ \A i, j \in DOMAIN clips : i < j => clips[i].out <= clips[j].in

LEMMA LaidOutApart ==
    ASSUME NEW clips \in Seq(AnyClip)
    PROVE  LaidOut(clips) <=> Apart(clips)
<1> DEFINE n == Len(clips)
<1>1. n \in Nat /\ DOMAIN clips = 1 .. n /\ \A i \in 1 .. n : clips[i].in \in Int /\ clips[i].out \in Int
  <2>1. n \in Nat /\ DOMAIN clips = 1 .. n /\ \A i \in 1 .. n : clips[i] \in AnyClip
    OBVIOUS
  <2>2. \A c \in AnyClip : c.in \in Int /\ c.out \in Int
    BY DEF AnyClip
  <2> HIDE DEF n
  <2> QED BY <2>1, <2>2
<1> HIDE DEF n
<1>2. ASSUME LaidOut(clips) PROVE Apart(clips)
  <2>1. /\ \A i \in 1 .. n : 0 <= clips[i].in /\ clips[i].in < clips[i].out
        /\ \A i \in 1 .. n - 1 : clips[i].out <= clips[i + 1].in
    BY <1>1, <1>2 DEF LaidOut, n
  <2>2. ASSUME NEW i \in 1 .. n, NEW j \in 1 .. n, i < j PROVE clips[i].out <= clips[j].in
    <3> DEFINE T == {m \in 0 .. n : m <= i \/ clips[i].out <= clips[m].in}
    <3>1. 0 \in T
      BY <1>1
    <3>2. ASSUME NEW m \in 1 .. n, m - 1 \in T PROVE m \in T
      <4>1. CASE m <= i
        BY <4>1, <1>1
      <4>2. CASE m - 1 = i
        <5>1. clips[i].out <= clips[i + 1].in
          BY <1>1, <2>1, <4>2
        <5> QED BY <1>1, <4>2, <5>1
      <4>3. CASE i < m - 1
        <5>1. m - 1 \in 1 .. n - 1 /\ (m - 1) + 1 = m /\ m - 1 \in 1 .. n
          BY <1>1, <4>3
        <5>2. clips[m - 1].out <= clips[m].in
          BY <2>1, <5>1
        <5>3. clips[i].out <= clips[m - 1].in
          BY <3>2, <4>3, <1>1
        <5>4. clips[m - 1].in < clips[m - 1].out
          BY <2>1, <5>1
        <5>5. clips[i].out <= clips[m].in
          BY <1>1, <5>1, <5>2, <5>3, <5>4
        <5> QED BY <1>1, <5>5
      <4> QED BY <1>1, <4>1, <4>2, <4>3
    <3>3. \A m \in 0 .. n : m \in T
      <4> HIDE DEF T
      <4> QED BY <1>1, <3>1, <3>2, FirstFailure
    <3>4. j \in T
      <4> HIDE DEF T
      <4> QED BY <1>1, <3>3
    <3> QED BY <1>1, <2>2, <3>4
  <2> QED BY <1>1, <2>1, <2>2 DEF Apart
<1>3. ASSUME Apart(clips) PROVE LaidOut(clips)
  <2>1. \A i \in 1 .. n - 1 : i \in 1 .. n /\ i + 1 \in 1 .. n /\ i < i + 1
    BY <1>1
  <2> QED BY <1>1, <1>3, <2>1 DEF Apart, LaidOut, n
<1> QED BY <1>2, <1>3

LEMMA LeqChain ==
    \A a, b, c, d \in Int : a <= b /\ b <= c /\ c <= d => a <= d
OBVIOUS

\* x is a part of clip c.
Piece(x, c) ==
    /\ x.id = c.id /\ x.link = c.link /\ x.media = c.media
    /\ c.in <= x.in /\ x.out <= c.out
    /\ c.in < c.out => x.in < x.out

\* The clips of l are parts of c, one after the other.
Parts(l, c) ==
    /\ \A j \in DOMAIN l : Piece(l[j], c)
    /\ \A j, k \in DOMAIN l : j < k => l[j].out <= l[k].in

\* Clips that are replaced by their parts stay apart.
LEMMA FlattenParts ==
    ASSUME NEW clips \in Seq(AnyClip), NEW ss \in Seq(Seq(AnyClip)),
           DOMAIN ss = DOMAIN clips,
           \A i \in DOMAIN clips : Parts(ss[i], clips[i])
    PROVE  LET flat == FlattenSeq(ss)
           IN  /\ \A p \in DOMAIN flat : \E i \in DOMAIN clips :
                     \E j \in DOMAIN ss[i] : flat[p] = ss[i][j]
               /\ Apart(clips) => Apart(flat)
<1> DEFINE flat == FlattenSeq(ss)
           S == AnyClip
<1>0. /\ flat \in Seq(S) /\ Len(ss) = Len(clips) /\ DOMAIN clips = 1 .. Len(clips)
      /\ \A i \in DOMAIN clips : ss[i] \in Seq(S) /\ DOMAIN ss[i] = 1 .. Len(ss[i])
  BY FlattenType
<1>1. PICK I, J \in [1 .. Len(flat) -> Nat] : FlatIndex(ss, flat, Len(ss), I, J)
  BY FlattenIndex
<1> HIDE DEF flat
<1>2. DOMAIN flat = 1 .. Len(flat) /\ \A p \in DOMAIN flat : flat[p] \in AnyClip
  BY <1>0
<1>3. ASSUME NEW p \in DOMAIN flat
      PROVE  I[p] \in DOMAIN clips /\ J[p] \in DOMAIN ss[I[p]] /\ flat[p] = ss[I[p]][J[p]]
  BY <1>0, <1>1, <1>2 DEF FlatIndex
<1>4. ASSUME Apart(clips) PROVE Apart(flat)
  <2>1. ASSUME NEW p \in DOMAIN flat
        PROVE  /\ Piece(flat[p], clips[I[p]])
               /\ flat[p].in \in Int /\ flat[p].out \in Int
               /\ clips[I[p]].in \in Int /\ clips[I[p]].out \in Int
               /\ 0 <= flat[p].in /\ flat[p].in < flat[p].out
    <3>1. Piece(flat[p], clips[I[p]])
      BY <1>3 DEF Parts
    <3>2. flat[p] \in AnyClip /\ clips[I[p]] \in AnyClip
      BY <1>0, <1>2, <1>3
    <3>3. flat[p].in \in Int /\ flat[p].out \in Int /\ clips[I[p]].in \in Int /\ clips[I[p]].out \in Int
      BY <3>2 DEF AnyClip
    <3>4. 0 <= clips[I[p]].in /\ clips[I[p]].in < clips[I[p]].out
      BY <1>3, <1>4 DEF Apart
    <3> QED BY <3>1, <3>3, <3>4 DEF Piece
  <2>2. ASSUME NEW p \in DOMAIN flat, NEW q \in DOMAIN flat, p < q
        PROVE  flat[p].out <= flat[q].in
    <3>1. I[p] < I[q] \/ (I[p] = I[q] /\ J[p] < J[q])
      BY <1>1, <1>2, <2>2 DEF FlatIndex
    <3>2. CASE I[p] < I[q]
      <4>1. clips[I[p]].out <= clips[I[q]].in
        BY <1>3, <1>4, <3>2 DEF Apart
      <4>2. flat[p].out <= clips[I[p]].out /\ clips[I[q]].in <= flat[q].in
        BY <2>1 DEF Piece
      <4>3. /\ flat[p].out \in Int /\ flat[q].in \in Int
            /\ clips[I[p]].out \in Int /\ clips[I[q]].in \in Int
        BY <2>1
      <4> QED BY <4>1, <4>2, <4>3, LeqChain
    <3>3. CASE I[p] = I[q] /\ J[p] < J[q]
      <4>1. Parts(ss[I[p]], clips[I[p]])
        BY <1>3
      <4>2. ss[I[p]][J[p]].out <= ss[I[p]][J[q]].in
        BY <1>3, <3>3, <4>1 DEF Parts
      <4> QED BY <1>3, <3>3, <4>2
    <3> QED BY <3>1, <3>2, <3>3
  <2> QED BY <2>1, <2>2 DEF Apart
<1>5. \A p \in DOMAIN flat : \E i \in DOMAIN clips : \E j \in DOMAIN ss[i] : flat[p] = ss[i][j]
  BY <1>3
<1> QED BY <1>4, <1>5 DEF flat

\* The one-element lists of the elements of a list, in one list.
LEMMA FlattenSingles ==
    ASSUME NEW S, NEW s \in Seq(S)
    PROVE  FlattenSeq([i \in DOMAIN s |-> <<s[i]>>]) = s
<1> DEFINE ss == [i \in DOMAIN s |-> <<s[i]>>]
           n == Len(s)
<1>1. /\ ss \in Seq(Seq(S)) /\ Len(ss) = n /\ n \in Nat
      /\ \A i \in 1 .. n : ss[i] = <<s[i]>> /\ s[i] \in S
  <2>1. \A i \in DOMAIN s : <<s[i]>> \in Seq(S)
    OBVIOUS
  <2> DEFINE e(i) == <<s[i]>>
  <2> HIDE DEF e
  <2>2. \A i \in DOMAIN s : e(i) \in Seq(S)
    BY <2>1 DEF e
  <2>3. [i \in DOMAIN s |-> e(i)] \in Seq(Seq(S)) /\ Len([i \in DOMAIN s |-> e(i)]) = n
    BY <2>2
  <2>4. ss \in Seq(Seq(S)) /\ Len(ss) = n
    BY <2>3 DEF e
  <2> QED BY <2>4
<1> HIDE DEF ss, n
<1>2. PICK flat \in [0 .. n -> Seq(S)] :
         /\ flat[0] = <<>>
         /\ \A i \in 1 .. n : flat[i] = flat[i - 1] \o ss[i]
         /\ flat[n] = FlattenSeq(ss)
  BY <1>1, FlattenSteps
<1> DEFINE T == {m \in Nat : m <= n => Len(flat[m]) = m /\ \A p \in 1 .. m : flat[m][p] = s[p]}
<1>3. 0 \in T
  BY <1>2
<1>4. ASSUME NEW m \in 1 .. n, m - 1 \in T PROVE m \in T
  <2> DEFINE g == flat[m - 1]
  <2>1. m - 1 \in 0 .. n /\ m - 1 <= n
    BY <1>1
  <2>2. g \in Seq(S) /\ Len(g) = m - 1 /\ \A p \in 1 .. m - 1 : g[p] = s[p]
    BY <1>2, <1>4, <2>1
  <2>3. flat[m] = g \o <<s[m]>> /\ s[m] \in S
    BY <1>1, <1>2
  <2> HIDE DEF g
  <2>4. <<s[m]>> \in Seq(S) /\ Len(<<s[m]>>) = 1 /\ <<s[m]>>[1] = s[m]
    BY <2>3
  <2>5. Len(flat[m]) = m /\ \A p \in 1 .. m : flat[m][p] = s[p]
    <3> DEFINE l == <<s[m]>>
    <3>1. Len(g) = m - 1 /\ Len(l) = 1 /\ l[1] = s[m] /\ g \in Seq(S) /\ l \in Seq(S)
      BY <2>2, <2>4
    <3> HIDE DEF l
    <3>2. /\ Len(g \o l) = Len(g) + Len(l)
          /\ \A p \in 1 .. Len(g) : (g \o l)[p] = g[p]
          /\ \A p \in Len(g) + 1 .. Len(g) + Len(l) : (g \o l)[p] = l[p - Len(g)]
      BY ZenonT(30), <3>1, ConcatFacts
    <3>3. flat[m] = g \o l
      BY <2>3 DEF l
    <3>4. \A p \in 1 .. m : p # m => p \in 1 .. m - 1
      OBVIOUS
    <3>5. (g \o l)[m] = l[1]
      BY <3>1, <3>2
    <3>6. \A p \in 1 .. m - 1 : (g \o l)[p] = s[p]
      BY <2>2, <3>1, <3>2
    <3>7. \A p \in 1 .. m : (g \o l)[p] = s[p]
      BY <3>1, <3>4, <3>5, <3>6
    <3>8. Len(g \o l) = m
      BY <3>1, <3>2
    <3> QED BY <3>3, <3>7, <3>8
  <2> QED BY <1>1, <2>5
<1>5. \A m \in 0 .. n : m \in T
  <2> HIDE DEF T
  <2> QED BY <1>1, <1>3, <1>4, FirstFailure
<1>6. n \in T
  <2> HIDE DEF T
  <2> QED BY <1>1, <1>5
<1>7. FlattenSeq(ss) \in Seq(S) /\ Len(FlattenSeq(ss)) = n /\ \A p \in 1 .. n : FlattenSeq(ss)[p] = s[p]
  <2>1. FlattenSeq(ss) \in Seq(S)
    BY <1>1, FlattenType
  <2> QED BY <1>1, <1>2, <1>6, <2>1
<1> QED BY <1>7 DEF ss, n

\* The fields of a clip that are numbers.
LEMMA ClipNumbers ==
    ASSUME NEW c \in AnyClip
    PROVE  /\ c.id \in Nat /\ c.link \in Nat
           /\ c.in \in Int /\ c.out \in Int /\ c.src \in Int /\ c.srcOut \in Int
BY DEF AnyClip

LEMMA ListClips ==
    ASSUME NEW clips \in Seq(AnyClip)
    PROVE  /\ Len(clips) \in Nat /\ DOMAIN clips = 1 .. Len(clips)
           /\ \A i \in DOMAIN clips : clips[i] \in AnyClip
OBVIOUS

LEMMA PieceItself ==
    ASSUME NEW c \in AnyClip
    PROVE  Piece(c, c)
BY ClipNumbers DEF Piece

LEMMA SameLists ==
    ASSUME NEW S, NEW s \in Seq(S), NEW t \in Seq(S), Len(s) = Len(t),
           \A i \in 1 .. Len(s) : s[i] = t[i]
    PROVE  s = t
OBVIOUS

LEMMA PairConcat ==
    ASSUME NEW S, NEW a \in S, NEW b \in S
    PROVE  <<a>> \o <<b>> = <<a, b>>
<1> DEFINE g == <<a>>
           l == <<b>>
<1>1. g \in Seq(S) /\ l \in Seq(S) /\ Len(g) = 1 /\ Len(l) = 1 /\ g[1] = a /\ l[1] = b
  OBVIOUS
<1>2. <<a, b>> \in Seq(S) /\ Len(<<a, b>>) = 2 /\ <<a, b>>[1] = a /\ <<a, b>>[2] = b
  OBVIOUS
<1> HIDE DEF g, l
<1>3. g \o l \in Seq(S) /\ Len(g \o l) = 2 /\ (g \o l)[1] = a /\ (g \o l)[2] = b
  <2>1. /\ g \o l \in Seq(S) /\ Len(g \o l) = Len(g) + Len(l)
        /\ \A p \in 1 .. Len(g) : (g \o l)[p] = g[p]
        /\ \A p \in Len(g) + 1 .. Len(g) + Len(l) : (g \o l)[p] = l[p - Len(g)]
    BY <1>1, ConcatFacts
  <2>2. 1 \in 1 .. Len(g) /\ 2 \in Len(g) + 1 .. Len(g) + Len(l) /\ 2 - Len(g) = 1
    BY <1>1
  <2>3. (g \o l)[2] = l[2 - Len(g)]
    BY <2>1, <2>2
  <2> QED BY <1>1, <2>1, <2>2, <2>3
<1> DEFINE ab == <<a, b>>
<1>4. g \o l = ab
  <2>1. ab \in Seq(S) /\ Len(ab) = 2 /\ ab[1] = a /\ ab[2] = b
    BY <1>2
  <2> HIDE DEF ab
  <2>2. \A i \in 1 .. 2 : (g \o l)[i] = ab[i]
    BY <1>3, <2>1
  <2> QED BY <1>3, <2>1, <2>2, SameLists
<1> QED BY <1>4 DEF g, l

\* What is left of the clips beside a range.
LEMMA ClippedRangeParts ==
    ASSUME NEW clips \in Seq(AnyClip), NEW in \in Int, NEW out \in Int, in <= out
    PROVE  LET new == ClippedRange(clips, in, out)
           IN  /\ \A p \in DOMAIN new : \E i \in DOMAIN clips : Piece(new[p], clips[i])
               /\ Apart(clips) => Apart(new)
               /\ \A p \in DOMAIN new : new[p].out <= in \/ out <= new[p].in \/ new[p].out <= new[p].in
               /\ (\A i \in DOMAIN clips : ~Overlaps(clips[i], in, out)) => new = clips
<1> DEFINE Kept(c) == IF Overlaps(c, in, out)
                      THEN When(c.in < in, <<HeadOf(c, in)>>)
                           \o When(c.out > out, <<TailOf(c, out)>>)
                      ELSE <<c>>
           ss == [i \in DOMAIN clips |-> Kept(clips[i])]
           new == FlattenSeq(ss)
<1>1. ASSUME NEW c \in AnyClip
      PROVE  /\ Kept(c) \in Seq(AnyClip)
             /\ Parts(Kept(c), c)
             /\ \A j \in DOMAIN Kept(c) :
                   \/ Kept(c)[j].out <= in \/ out <= Kept(c)[j].in
                   \/ Kept(c)[j].out <= Kept(c)[j].in
             /\ ~Overlaps(c, in, out) => Kept(c) = <<c>>
  <2> DEFINE h == HeadOf(c, in)
             t == TailOf(c, out)
  <2>1. h \in AnyClip /\ t \in AnyClip
    BY PieceTypes
  <2>2. /\ h.in = c.in /\ h.out = in /\ h.id = c.id /\ h.link = c.link /\ h.media = c.media
        /\ t.in = out /\ t.out = c.out /\ t.id = c.id /\ t.link = c.link /\ t.media = c.media
    BY DEF HeadOf, TailOf, AnyClip
  <2>3. c.in \in Int /\ c.out \in Int
    BY ClipNumbers
  <2>4. CASE ~Overlaps(c, in, out)
    <3>1. Kept(c) = <<c>>
      BY <2>4
    <3>2. <<c>> \in Seq(AnyClip) /\ DOMAIN <<c>> = {1} /\ <<c>>[1] = c
      OBVIOUS
    <3>3. c.out <= in \/ out <= c.in
      BY <2>3, <2>4 DEF Overlaps
    <3> HIDE DEF Kept
    <3> QED BY <3>1, <3>2, <3>3, PieceItself DEF Parts
  <2>5. CASE Overlaps(c, in, out)
    <3> HIDE DEF h, t
    <3>1. c.in < out /\ in < c.out
      BY <2>5 DEF Overlaps
    <3>2. c.in < in => Piece(h, c) /\ h.out <= in
      BY <2>2, <2>3, <3>1 DEF Piece
    <3>3. c.out > out => Piece(t, c) /\ out <= t.in
      BY <2>2, <2>3, <3>1 DEF Piece
    <3>4. Kept(c) = When(c.in < in, <<h>>) \o When(c.out > out, <<t>>)
      BY <2>5 DEF h, t
    <3>5. CASE c.in < in /\ c.out > out
      <4>1. Kept(c) = <<h, t>>
        <5>1. When(c.in < in, <<h>>) = <<h>> /\ When(c.out > out, <<t>>) = <<t>>
          BY <3>5 DEF When
        <5>2. <<h>> \o <<t>> = <<h, t>>
          BY <2>1, PairConcat
        <5> HIDE DEF Kept
        <5> QED BY <3>4, <5>1, <5>2
      <4>2. /\ <<h, t>> \in Seq(AnyClip) /\ DOMAIN <<h, t>> = {1, 2}
            /\ <<h, t>>[1] = h /\ <<h, t>>[2] = t
        BY <2>1
      <4>3. h.out <= t.in
        BY <2>2
      <4> HIDE DEF Kept
      <4> QED BY <2>5, <3>2, <3>3, <3>5, <4>1, <4>2, <4>3 DEF Parts
    <3>6. CASE c.in < in /\ ~(c.out > out)
      <4>1. Kept(c) = <<h>>
        <5>1. When(c.in < in, <<h>>) = <<h>> /\ When(c.out > out, <<t>>) = <<>>
          BY <3>6 DEF When
        <5>2. <<h>> \o <<>> = <<h>>
          OBVIOUS
        <5> HIDE DEF Kept
        <5> QED BY <3>4, <5>1, <5>2
      <4>2. <<h>> \in Seq(AnyClip) /\ DOMAIN <<h>> = {1} /\ <<h>>[1] = h
        BY <2>1
      <4> HIDE DEF Kept
      <4> QED BY <2>5, <3>2, <3>6, <4>1, <4>2 DEF Parts
    <3>7. CASE ~(c.in < in) /\ c.out > out
      <4>1. Kept(c) = <<t>>
        <5>1. When(c.in < in, <<h>>) = <<>> /\ When(c.out > out, <<t>>) = <<t>>
          BY <3>7 DEF When
        <5>2. <<>> \o <<t>> = <<t>>
          OBVIOUS
        <5> HIDE DEF Kept
        <5> QED BY <3>4, <5>1, <5>2
      <4>2. <<t>> \in Seq(AnyClip) /\ DOMAIN <<t>> = {1} /\ <<t>>[1] = t
        BY <2>1
      <4> HIDE DEF Kept
      <4> QED BY <2>5, <3>3, <3>7, <4>1, <4>2 DEF Parts
    <3>8. CASE ~(c.in < in) /\ ~(c.out > out)
      <4>1. Kept(c) = <<>>
        <5>1. When(c.in < in, <<h>>) = <<>> /\ When(c.out > out, <<t>>) = <<>>
          BY <3>8 DEF When
        <5>2. <<>> \o <<>> = <<>>
          OBVIOUS
        <5> HIDE DEF Kept
        <5> QED BY <3>4, <5>1, <5>2
      <4>2. <<>> \in Seq(AnyClip) /\ DOMAIN <<>> = {}
        OBVIOUS
      <4> HIDE DEF Kept
      <4> QED BY <2>5, <4>1, <4>2 DEF Parts
    <3> QED BY <3>5, <3>6, <3>7, <3>8
  <2> QED BY <2>4, <2>5
<1>2. /\ ss \in Seq(Seq(AnyClip)) /\ DOMAIN ss = DOMAIN clips
      /\ \A i \in DOMAIN clips : ss[i] = Kept(clips[i]) /\ clips[i] \in AnyClip
  <2> HIDE DEF Kept
  <2>1. \A i \in DOMAIN clips : Kept(clips[i]) \in Seq(AnyClip)
    BY <1>1, ListClips
  <2> QED BY <2>1, ListClips
<1> HIDE DEF ss, Kept
<1>3. \A i \in DOMAIN clips : Parts(ss[i], clips[i])
  BY <1>1, <1>2
<1>4. /\ \A p \in DOMAIN new : \E i \in DOMAIN clips : \E j \in DOMAIN ss[i] : new[p] = ss[i][j]
      /\ Apart(clips) => Apart(new)
  BY <1>2, <1>3, FlattenParts
<1>5. new = ClippedRange(clips, in, out)
  BY DEF ClippedRange, ss, Kept
<1>6. ASSUME \A i \in DOMAIN clips : ~Overlaps(clips[i], in, out)
      PROVE  new = clips
  <2>1. ss = [i \in DOMAIN clips |-> <<clips[i]>>]
    <3>1. \A i \in DOMAIN clips : Kept(clips[i]) = <<clips[i]>>
      BY <1>1, <1>2, <1>6
    <3> QED BY <3>1 DEF ss
  <2>2. FlattenSeq([i \in DOMAIN clips |-> <<clips[i]>>]) = clips
    BY FlattenSingles
  <2> QED BY <2>1, <2>2
<1>7. ASSUME NEW p \in DOMAIN new
      PROVE  /\ \E i \in DOMAIN clips : Piece(new[p], clips[i])
             /\ new[p].out <= in \/ out <= new[p].in \/ new[p].out <= new[p].in
  <2>1. PICK i \in DOMAIN clips : \E j \in DOMAIN ss[i] : new[p] = ss[i][j]
    BY <1>4
  <2>2. PICK j \in DOMAIN ss[i] : new[p] = ss[i][j]
    BY <2>1
  <2> HIDE DEF new
  <2>3. Piece(new[p], clips[i])
    BY <1>3, <2>2 DEF Parts
  <2>4. new[p].out <= in \/ out <= new[p].in \/ new[p].out <= new[p].in
    BY <1>1, <1>2, <2>2
  <2> QED BY <2>3, <2>4
<1> HIDE DEF new
<1> QED BY <1>4, <1>5, <1>6, <1>7

\* A clip that spans a frame is cut there.
LEMMA SplitAtParts ==
    ASSUME NEW clips \in Seq(AnyClip), NEW at \in Int
    PROVE  LET new == SplitAt(clips, at)
           IN  /\ \A p \in DOMAIN new : \E i \in DOMAIN clips : Piece(new[p], clips[i])
               /\ Apart(clips) => Apart(new)
               /\ \A p \in DOMAIN new : new[p].out <= at \/ at <= new[p].in
<1> DEFINE Kept(c) == IF c.in < at /\ at < c.out
                      THEN <<HeadOf(c, at), TailOf(c, at)>> ELSE <<c>>
           ss == [i \in DOMAIN clips |-> Kept(clips[i])]
           new == FlattenSeq(ss)
<1>1. ASSUME NEW c \in AnyClip
      PROVE  /\ Kept(c) \in Seq(AnyClip)
             /\ Parts(Kept(c), c)
             /\ \A j \in DOMAIN Kept(c) : Kept(c)[j].out <= at \/ at <= Kept(c)[j].in
  <2> DEFINE h == HeadOf(c, at)
             t == TailOf(c, at)
  <2>1. h \in AnyClip /\ t \in AnyClip
    BY PieceTypes
  <2>2. /\ h.in = c.in /\ h.out = at /\ h.id = c.id /\ h.link = c.link /\ h.media = c.media
        /\ t.in = at /\ t.out = c.out /\ t.id = c.id /\ t.link = c.link /\ t.media = c.media
    BY DEF HeadOf, TailOf, AnyClip
  <2>3. c.in \in Int /\ c.out \in Int
    BY ClipNumbers
  <2>4. CASE ~(c.in < at /\ at < c.out)
    <3>1. Kept(c) = <<c>>
      BY <2>4
    <3>2. <<c>> \in Seq(AnyClip) /\ DOMAIN <<c>> = {1} /\ <<c>>[1] = c
      OBVIOUS
    <3>3. c.out <= at \/ at <= c.in
      BY <2>3, <2>4
    <3> HIDE DEF Kept
    <3> QED BY <3>1, <3>2, <3>3, PieceItself DEF Parts
  <2>5. CASE c.in < at /\ at < c.out
    <3>1. Kept(c) = <<h, t>>
      BY <2>5
    <3> HIDE DEF h, t, Kept
    <3>2. Piece(h, c) /\ Piece(t, c) /\ h.out <= t.in /\ h.out <= at /\ at <= t.in
      BY <2>2, <2>3, <2>5 DEF Piece
    <3>3. /\ <<h, t>> \in Seq(AnyClip) /\ DOMAIN <<h, t>> = {1, 2}
          /\ <<h, t>>[1] = h /\ <<h, t>>[2] = t
      BY <2>1
    <3> QED BY <3>1, <3>2, <3>3 DEF Parts
  <2> QED BY <2>4, <2>5
<1>2. /\ ss \in Seq(Seq(AnyClip)) /\ DOMAIN ss = DOMAIN clips
      /\ \A i \in DOMAIN clips : ss[i] = Kept(clips[i]) /\ clips[i] \in AnyClip
  <2> HIDE DEF Kept
  <2>1. \A i \in DOMAIN clips : Kept(clips[i]) \in Seq(AnyClip)
    BY <1>1, ListClips
  <2> QED BY <2>1, ListClips
<1> HIDE DEF ss, Kept
<1>3. \A i \in DOMAIN clips : Parts(ss[i], clips[i])
  BY <1>1, <1>2
<1>4. /\ \A p \in DOMAIN new : \E i \in DOMAIN clips : \E j \in DOMAIN ss[i] : new[p] = ss[i][j]
      /\ Apart(clips) => Apart(new)
  BY <1>2, <1>3, FlattenParts
<1>5. new = SplitAt(clips, at)
  BY DEF SplitAt, ss, Kept
<1>6. ASSUME NEW p \in DOMAIN new
      PROVE  /\ \E i \in DOMAIN clips : Piece(new[p], clips[i])
             /\ new[p].out <= at \/ at <= new[p].in
  <2>1. PICK i \in DOMAIN clips : \E j \in DOMAIN ss[i] : new[p] = ss[i][j]
    BY <1>4
  <2>2. PICK j \in DOMAIN ss[i] : new[p] = ss[i][j]
    BY <2>1
  <2> HIDE DEF new
  <2>3. Piece(new[p], clips[i])
    BY <1>3, <2>2 DEF Parts
  <2>4. new[p].out <= at \/ at <= new[p].in
    BY <1>1, <1>2, <2>2
  <2> QED BY <2>3, <2>4
<1> HIDE DEF new
<1> QED BY <1>4, <1>5, <1>6

\* No two clips of a list have one id.
Distinct(clips) == \A i, j \in DOMAIN clips : clips[i].id = clips[j].id => i = j

\* Moving the clips after a frame, by a gap before them or to make one.
LEMMA ShiftFromApart ==
    ASSUME NEW clips \in Seq(AnyClip), NEW from \in Nat, NEW delta \in Int, Apart(clips),
           \A i \in DOMAIN clips : \/ clips[i].out <= from
                                   \/ from <= clips[i].in /\ from <= clips[i].in + delta
    PROVE  LET new == ShiftFrom(clips, from, delta)
           IN  /\ Apart(new)
               /\ \A i \in DOMAIN new : \/ new[i].out <= from
                                        \/ from + delta <= new[i].in /\ from <= new[i].in
<1> DEFINE new == ShiftFrom(clips, from, delta)
<1>1. /\ Len(clips) \in Nat /\ DOMAIN clips = 1 .. Len(clips)
      /\ \A i \in DOMAIN clips : clips[i].in \in Int /\ clips[i].out \in Int /\ clips[i] \in AnyClip
  BY ListClips, ClipNumbers
<1>2. DOMAIN new = DOMAIN clips
  BY DEF ShiftFrom
<1>3. ASSUME NEW i \in DOMAIN clips
      PROVE  /\ clips[i].in >= from =>
                   new[i].in = clips[i].in + delta /\ new[i].out = clips[i].out + delta
             /\ ~(clips[i].in >= from) => new[i] = clips[i]
  BY <1>1 DEF ShiftFrom, Shifted, AnyClip
<1> HIDE DEF new
<1>4. ASSUME NEW i \in DOMAIN clips
      PROVE  /\ 0 <= clips[i].in /\ clips[i].in < clips[i].out
             /\ 0 <= new[i].in /\ new[i].in < new[i].out
             /\ \/ new[i] = clips[i] /\ clips[i].out <= from
                \/ /\ from <= clips[i].in /\ from <= new[i].in /\ from + delta <= new[i].in
                   /\ new[i].in = clips[i].in + delta /\ new[i].out = clips[i].out + delta
             /\ clips[i].in \in Int /\ clips[i].out \in Int
  <2>1. 0 <= clips[i].in /\ clips[i].in < clips[i].out /\ clips[i].in \in Int /\ clips[i].out \in Int
    BY <1>1 DEF Apart
  <2>2. CASE clips[i].in >= from
    <3>1. from <= clips[i].in /\ from <= clips[i].in + delta
      BY <2>1, <2>2
    <3> QED BY <1>3, <2>1, <2>2, <3>1
  <2>3. CASE ~(clips[i].in >= from)
    <3>1. clips[i].out <= from
      BY <2>1, <2>3
    <3> QED BY <1>3, <2>1, <2>3, <3>1
  <2> QED BY <2>2, <2>3
<1>5. ASSUME NEW i \in DOMAIN clips, NEW j \in DOMAIN clips, i < j
      PROVE  new[i].out <= new[j].in
  <2> DEFINE a == clips[i].in
             b == clips[i].out
             c == clips[j].in
             d == clips[j].out
  <2>1. b <= c /\ a < b /\ c < d /\ a \in Int /\ b \in Int /\ c \in Int /\ d \in Int
    BY <1>4, <1>5 DEF Apart
  <2>2. \/ new[i].out = b /\ b <= from
        \/ from <= a /\ new[i].out = b + delta
    BY <1>4
  <2>3. \/ new[j].in = c /\ d <= from
        \/ from <= new[j].in /\ new[j].in = c + delta
    BY <1>4
  <2> HIDE DEF a, b, c, d
  <2> QED BY <2>1, <2>2, <2>3
<1>6. Apart(new)
  BY <1>2, <1>4, <1>5 DEF Apart
<1>7. ASSUME NEW i \in DOMAIN new
      PROVE  new[i].out <= from \/ (from + delta <= new[i].in /\ from <= new[i].in)
  BY <1>2, <1>4
<1> QED BY <1>6, <1>7 DEF new

\* new is clips with c inserted before element k: where the elements are then.
Inserted(new, clips, k, c) ==
    /\ k \in 1 .. Len(clips) + 1
    /\ Len(new) = Len(clips) + 1
    /\ \A p \in 1 .. Len(clips) + 1 :
          new[p] = IF p < k THEN clips[p] ELSE IF p = k THEN c ELSE clips[p - 1]

LEMMA InsertAtInserts ==
    ASSUME NEW S, NEW s \in Seq(S), NEW k \in 1 .. Len(s) + 1, NEW x \in S
    PROVE  InsertAt(s, k, x) \in Seq(S) /\ Inserted(InsertAt(s, k, x), s, k, x)
<1> DEFINE a == SubSeq(s, 1, k - 1)
           b == SubSeq(s, k, Len(s))
           l == <<x>>
           n == Len(s)
<1>1. /\ a \in Seq(S) /\ Len(a) = k - 1 /\ \A p \in 1 .. k - 1 : a[p] = s[p]
      /\ b \in Seq(S) /\ Len(b) = n + 1 - k /\ \A p \in 1 .. n + 1 - k : b[p] = s[p + k - 1]
      /\ n \in Nat
  OBVIOUS
<1>2. l \in Seq(S) /\ Len(l) = 1 /\ l[1] = x
  OBVIOUS
<1>3. InsertAt(s, k, x) = (a \o l) \o b
  BY DEF InsertAt
<1> HIDE DEF a, b, l, n
<1> DEFINE c == a \o l
<1>4. /\ c \in Seq(S) /\ Len(c) = k
      /\ \A p \in 1 .. k - 1 : c[p] = s[p]
      /\ c[k] = x
  <2>1. /\ c \in Seq(S) /\ Len(c) = Len(a) + Len(l)
        /\ \A p \in 1 .. Len(a) : c[p] = a[p]
        /\ \A p \in Len(a) + 1 .. Len(a) + Len(l) : c[p] = l[p - Len(a)]
    <3>1. a \in Seq(S) /\ l \in Seq(S)
      BY <1>1, <1>2
    <3> QED BY <3>1, ConcatFacts
  <2> HIDE DEF c
  <2>2. k \in Len(a) + 1 .. Len(a) + Len(l) /\ k - Len(a) = 1
    BY <1>1, <1>2
  <2>3. c[k] = x
    BY <1>2, <2>1, <2>2
  <2> QED BY <1>1, <1>2, <2>1, <2>3
<1> HIDE DEF c
<1> DEFINE d == c \o b
<1>5. /\ d \in Seq(S) /\ Len(d) = n + 1
      /\ \A p \in 1 .. k : d[p] = c[p]
      /\ \A p \in k + 1 .. n + 1 : d[p] = b[p - k]
  <2>1. /\ d \in Seq(S) /\ Len(d) = Len(c) + Len(b)
        /\ \A p \in 1 .. Len(c) : d[p] = c[p]
        /\ \A p \in Len(c) + 1 .. Len(c) + Len(b) : d[p] = b[p - Len(c)]
    <3>1. c \in Seq(S) /\ b \in Seq(S)
      BY <1>1, <1>4
    <3> QED BY <3>1, ConcatFacts
  <2> HIDE DEF d
  <2>2. Len(c) = k /\ Len(c) + Len(b) = n + 1
    BY <1>1, <1>4
  <2> QED BY <2>1, <2>2
<1> HIDE DEF d
<1>6. ASSUME NEW p \in 1 .. n + 1
      PROVE  d[p] = IF p < k THEN s[p] ELSE IF p = k THEN x ELSE s[p - 1]
  <2>1. CASE p < k
    <3>1. p \in 1 .. k - 1 /\ p \in 1 .. k
      BY <2>1
    <3> QED BY <1>4, <1>5, <2>1, <3>1
  <2>2. CASE p = k
    BY <1>4, <1>5, <2>2
  <2>3. CASE p > k
    <3>1. p \in k + 1 .. n + 1 /\ p - k \in 1 .. n + 1 - k /\ (p - k) + k - 1 = p - 1
      BY <1>1, <2>3
    <3>2. d[p] = b[p - k] /\ b[p - k] = s[(p - k) + k - 1]
      BY <1>1, <1>5, <3>1
    <3> QED BY <2>3, <3>1, <3>2
  <2> QED BY <2>1, <2>2, <2>3
<1>7. d \in Seq(S) /\ Inserted(d, s, k, x)
  BY <1>5, <1>6 DEF Inserted, n
<1>8. InsertAt(s, k, x) = d
  BY <1>3 DEF c, d
<1> QED BY <1>7, <1>8

LEMMA InsertAtIndex ==
    ASSUME NEW S, NEW s \in Seq(S), NEW k \in 1 .. Len(s) + 1, NEW x \in S
    PROVE  /\ InsertAt(s, k, x) \in Seq(S)
           /\ Len(InsertAt(s, k, x)) = Len(s) + 1
           /\ \A p \in 1 .. Len(s) + 1 :
                 InsertAt(s, k, x)[p] = IF p < k THEN s[p] ELSE IF p = k THEN x ELSE s[p - 1]
<1> DEFINE new == InsertAt(s, k, x)
<1>1. new \in Seq(S) /\ Inserted(new, s, k, x)
  BY ZenonT(30), InsertAtInserts
<1> HIDE DEF new
<1>2. /\ new \in Seq(S) /\ Len(new) = Len(s) + 1
      /\ \A p \in 1 .. Len(s) + 1 :
            new[p] = IF p < k THEN s[p] ELSE IF p = k THEN x ELSE s[p - 1]
  BY <1>1 DEF Inserted
<1> QED BY <1>2 DEF new

\* insert_sorted puts a clip before the first that starts no earlier.
LEMMA InsertSortedPlace ==
    ASSUME NEW clips \in Seq(AnyClip), NEW c \in AnyClip
    PROVE  \E k \in 1 .. Len(clips) + 1 :
              /\ Inserted(InsertSorted(clips, c), clips, k, c)
              /\ Apart(clips) =>
                    \A p \in DOMAIN clips : IF p < k THEN clips[p].in < c.in ELSE c.in <= clips[p].in
<1> DEFINE T == {i \in DOMAIN clips : clips[i].in < c.in}
           n == Len(clips)
           k == 1 + Cardinality(T)
<1>1. n \in Nat /\ T \subseteq 1 .. n /\ DOMAIN clips = 1 .. n
  OBVIOUS
<1>2. \A i \in DOMAIN clips : clips[i].in \in Int /\ clips[i].out \in Int
  BY ListClips, ClipNumbers
<1>3. c.in \in Int
  BY ClipNumbers
<1>t. \A i \in DOMAIN clips : i \in T <=> clips[i].in < c.in
  OBVIOUS
<1>k. InsertSorted(clips, c) = InsertAt(clips, k, c)
  BY DEF InsertSorted
<1> HIDE DEF T, n
<1>4. /\ \A m \in 0 .. n : IsFiniteSet(1 .. m) /\ Cardinality(1 .. m) = m
      /\ IsFiniteSet(T) /\ Cardinality(T) \in 0 .. n
  <2>1. \A m \in Nat : IsFiniteSet(1 .. m) /\ Cardinality(1 .. m) = m
    BY FS_Interval
  <2>2. IsFiniteSet(T) /\ Cardinality(T) <= n
    <3>1. T \in SUBSET (1 .. n) /\ IsFiniteSet(1 .. n) /\ Cardinality(1 .. n) = n
      BY <1>1, <2>1
    <3> QED BY <3>1, FS_Subset
  <2>3. Cardinality(T) \in Nat
    BY <2>2, FS_CardinalityType
  <2> QED BY <1>1, <2>1, <2>2, <2>3
<1>5. k \in 1 .. n + 1
  BY <1>1, <1>4
<1>6. Inserted(InsertSorted(clips, c), clips, k, c)
  <2> HIDE DEF k
  <2> HIDE DEF n
  <2>1. k \in 1 .. Len(clips) + 1
    BY <1>5 DEF n
  <2> QED BY ZenonT(30), <1>k, <2>1, InsertAtInserts
<1>7. ASSUME Apart(clips), NEW p \in DOMAIN clips
      PROVE  IF p < k THEN clips[p].in < c.in ELSE c.in <= clips[p].in
  <2>1. p \in 1 .. n /\ p \in 0 .. n /\ p - 1 \in 0 .. n
    BY <1>1
  <2>2. CASE p \in T
    <3>1. 1 .. p \subseteq T
      <4>1. ASSUME NEW q \in 1 .. p PROVE q \in T
        <5>1. q \in DOMAIN clips
          BY <1>1, <2>1
        <5>2. CASE q = p
          BY <2>2, <5>2
        <5>3. CASE q < p
          <6>1. clips[q].out <= clips[p].in /\ clips[q].in < clips[q].out
            BY <1>7, <5>1, <5>3 DEF Apart
          <6>2. clips[p].in < c.in
            BY <1>t, <2>2
          <6>3. clips[q].in < c.in
            BY <1>2, <1>3, <5>1, <6>1, <6>2
          <6> QED BY <1>t, <5>1, <6>3
        <5> QED BY <5>2, <5>3
      <4> QED BY <4>1
    <3>2. p <= Cardinality(T)
      <4>1. Cardinality(1 .. p) <= Cardinality(T)
        BY <1>4, <3>1, FS_Subset
      <4> QED BY <1>4, <2>1, <4>1
    <3>3. p < k
      BY <1>4, <2>1, <3>2
    <3> HIDE DEF k
    <3> QED BY <1>t, <2>2, <3>3
  <2>3. CASE p \notin T
    <3>1. T \subseteq 1 .. p - 1
      <4>1. ASSUME NEW q \in T PROVE q \in 1 .. p - 1
        <5>1. q \in DOMAIN clips /\ q \in 1 .. n /\ q # p
          BY <1>1, <2>3
        <5>2. CASE p < q
          <6>1. clips[p].out <= clips[q].in /\ clips[p].in < clips[p].out
            BY <1>7, <5>1, <5>2 DEF Apart
          <6>2. clips[q].in < c.in
            BY <1>t, <5>1
          <6>3. clips[p].in < c.in
            BY <1>2, <1>3, <5>1, <6>1, <6>2
          <6> QED BY <1>t, <2>3, <6>3
        <5> QED BY <2>1, <5>1, <5>2
      <4> QED BY <4>1
    <3>2. Cardinality(T) <= p - 1
      <4>1. Cardinality(T) <= Cardinality(1 .. p - 1)
        BY <1>4, <2>1, <3>1, FS_Subset
      <4> QED BY <1>4, <2>1, <4>1
    <3>3. ~(p < k)
      BY <1>4, <2>1, <3>2
    <3>4. c.in <= clips[p].in
      BY <1>2, <1>3, <1>t, <2>3
    <3> HIDE DEF k
    <3> QED BY <3>3, <3>4
  <2> QED BY <2>2, <2>3
<1> QED BY <1>5, <1>6, <1>7 DEF n

\* Where an element of the list before is in the list after.
LEMMA InsertedIndex ==
    ASSUME NEW S, NEW clips \in Seq(S), NEW new, NEW k, NEW c, Inserted(new, clips, k, c)
    PROVE  /\ k \in 1 .. Len(new) /\ new[k] = c
           /\ \A p \in 1 .. Len(new) : p # k =>
                 \E i \in DOMAIN clips : new[p] = clips[i] /\ i = IF p < k THEN p ELSE p - 1
           /\ \A i \in DOMAIN clips : \E p \in 1 .. Len(new) :
                 p # k /\ new[p] = clips[i] /\ p = IF i < k THEN i ELSE i + 1
<1> DEFINE n == Len(clips)
<1>1. n \in Nat /\ DOMAIN clips = 1 .. n
  OBVIOUS
<1> HIDE DEF n
<1>2. /\ k \in 1 .. n + 1 /\ Len(new) = n + 1
      /\ \A p \in 1 .. n + 1 : new[p] = IF p < k THEN clips[p] ELSE IF p = k THEN c ELSE clips[p - 1]
  BY DEF Inserted, n
<1>3. ASSUME NEW p \in 1 .. Len(new), p # k
      PROVE  \E i \in DOMAIN clips : new[p] = clips[i] /\ i = IF p < k THEN p ELSE p - 1
  <2>1. CASE p < k
    <3>1. p \in DOMAIN clips
      BY <1>1, <1>2, <2>1
    <3> QED BY <1>2, <2>1, <3>1
  <2>2. CASE ~(p < k)
    <3>1. p - 1 \in DOMAIN clips
      BY <1>1, <1>2, <1>3, <2>2
    <3> QED BY <1>2, <1>3, <2>2, <3>1
  <2> QED BY <2>1, <2>2
<1>4. ASSUME NEW i \in DOMAIN clips
      PROVE  \E p \in 1 .. Len(new) : p # k /\ new[p] = clips[i] /\ p = IF i < k THEN i ELSE i + 1
  <2>1. CASE i < k
    <3>1. i \in 1 .. n + 1 /\ i # k
      BY <1>1, <2>1
    <3> QED BY <1>2, <2>1, <3>1
  <2>2. CASE ~(i < k)
    <3>1. i + 1 \in 1 .. n + 1 /\ ~(i + 1 < k) /\ i + 1 # k /\ (i + 1) - 1 = i
      BY <1>1, <1>2, <2>2
    <3>2. new[i + 1] = clips[(i + 1) - 1]
      BY <1>2, <3>1
    <3> QED BY <1>2, <2>2, <3>1, <3>2
  <2> QED BY <2>1, <2>2
<1> QED BY <1>2, <1>3, <1>4

\* A clip is inserted where nothing is.
LEMMA InsertSortedFacts ==
    ASSUME NEW clips \in Seq(AnyClip), NEW c \in AnyClip
    PROVE  LET new == InsertSorted(clips, c)
           IN  /\ ToSet(new) = ToSet(clips) \cup {c}
               /\ Distinct(clips) /\ (\A i \in DOMAIN clips : clips[i].id # c.id) => Distinct(new)
               /\ /\ Apart(clips) /\ 0 <= c.in /\ c.in < c.out
                  /\ \A i \in DOMAIN clips : clips[i].out <= c.in \/ c.out <= clips[i].in
                  => Apart(new)
<1> DEFINE new == InsertSorted(clips, c)
<1>1. /\ new \in Seq(AnyClip) /\ DOMAIN new = 1 .. Len(new)
      /\ DOMAIN clips = 1 .. Len(clips) /\ Len(clips) \in Nat
      /\ \A i \in DOMAIN clips : clips[i].in \in Int /\ clips[i].out \in Int
      /\ c.in \in Int /\ c.out \in Int
  BY InsertSortedType, ListClips, ClipNumbers
<1>2. PICK k \in 1 .. Len(clips) + 1 :
         /\ Inserted(new, clips, k, c)
         /\ Apart(clips) =>
               \A p \in DOMAIN clips : IF p < k THEN clips[p].in < c.in ELSE c.in <= clips[p].in
  BY InsertSortedPlace
<1> HIDE DEF new
<1>3. /\ k \in DOMAIN new /\ new[k] = c
      /\ \A p \in DOMAIN new : p # k =>
            \E i \in DOMAIN clips : new[p] = clips[i] /\ i = IF p < k THEN p ELSE p - 1
      /\ \A i \in DOMAIN clips : \E p \in DOMAIN new :
            p # k /\ new[p] = clips[i] /\ p = IF i < k THEN i ELSE i + 1
  <2>1. Inserted(new, clips, k, c)
    BY <1>2
  <2>2. /\ k \in 1 .. Len(new) /\ new[k] = c
        /\ \A p \in 1 .. Len(new) : p # k =>
              \E i \in DOMAIN clips : new[p] = clips[i] /\ i = IF p < k THEN p ELSE p - 1
        /\ \A i \in DOMAIN clips : \E p \in 1 .. Len(new) :
              p # k /\ new[p] = clips[i] /\ p = IF i < k THEN i ELSE i + 1
    BY <2>1, InsertedIndex
  <2>3. DOMAIN new = 1 .. Len(new)
    BY <1>1
  <2> QED BY <2>2, <2>3
<1>4. ToSet(new) = ToSet(clips) \cup {c}
  BY <1>3 DEF ToSet
<1>5. ASSUME Distinct(clips), \A i \in DOMAIN clips : clips[i].id # c.id
      PROVE  Distinct(new)
  <2>1. ASSUME NEW p \in DOMAIN new, NEW q \in DOMAIN new, new[p].id = new[q].id
        PROVE  p = q
    <3>1. CASE p = k \/ q = k
      BY <1>3, <1>5, <2>1, <3>1
    <3>2. CASE p # k /\ q # k
      <4>1. PICK i \in DOMAIN clips : new[p] = clips[i] /\ i = IF p < k THEN p ELSE p - 1
        BY <1>3, <3>2
      <4>2. PICK j \in DOMAIN clips : new[q] = clips[j] /\ j = IF q < k THEN q ELSE q - 1
        BY <1>3, <3>2
      <4>3. i = j
        BY <1>5, <2>1, <4>1, <4>2 DEF Distinct
      <4>4. p \in Int /\ q \in Int /\ k \in Int
        BY <1>1, <1>3
      <4> QED BY <3>2, <4>1, <4>2, <4>3, <4>4
    <3> QED BY <3>1, <3>2
  <2> QED BY <2>1 DEF Distinct
<1>6. ASSUME Apart(clips), 0 <= c.in, c.in < c.out,
             \A i \in DOMAIN clips : clips[i].out <= c.in \/ c.out <= clips[i].in
      PROVE  Apart(new)
  <2>1. ASSUME NEW p \in DOMAIN new
        PROVE  0 <= new[p].in /\ new[p].in < new[p].out
    BY <1>3, <1>6 DEF Apart
  <2>2. ASSUME NEW p \in DOMAIN new, NEW q \in DOMAIN new, p < q
        PROVE  new[p].out <= new[q].in
    <3>1. p \in Int /\ q \in Int /\ k \in Int
      BY <1>1, <1>3
    <3>2. CASE p = k
      <4>1. PICK j \in DOMAIN clips : new[q] = clips[j] /\ j = IF q < k THEN q ELSE q - 1
        BY <1>3, <2>2, <3>1, <3>2
      <4>2. ~(j < k) /\ c.in <= clips[j].in
        BY <1>2, <1>6, <2>2, <3>1, <3>2, <4>1
      <4>3. clips[j].in < clips[j].out
        BY <1>6 DEF Apart
      <4>4. c.out <= clips[j].in
        BY <1>1, <1>6, <4>2, <4>3
      <4> QED BY <1>3, <3>2, <4>1, <4>4
    <3>3. CASE q = k
      <4>1. PICK i \in DOMAIN clips : new[p] = clips[i] /\ i = IF p < k THEN p ELSE p - 1
        BY <1>3, <2>2, <3>1, <3>3
      <4>2. clips[i].in < c.in
        BY <1>2, <1>6, <2>2, <3>1, <3>3, <4>1
      <4>3. clips[i].out <= c.in
        BY <1>1, <1>6, <4>2
      <4> QED BY <1>3, <3>3, <4>1, <4>3
    <3>4. CASE p # k /\ q # k
      <4>1. PICK i \in DOMAIN clips : new[p] = clips[i] /\ i = IF p < k THEN p ELSE p - 1
        BY <1>3, <3>4
      <4>2. PICK j \in DOMAIN clips : new[q] = clips[j] /\ j = IF q < k THEN q ELSE q - 1
        BY <1>3, <3>4
      <4>3. i < j
        BY <2>2, <3>1, <3>4, <4>1, <4>2
      <4>4. clips[i].out <= clips[j].in
        BY <1>6, <4>3 DEF Apart
      <4> QED BY <4>1, <4>2, <4>4
    <3> QED BY <3>2, <3>3, <3>4
  <2> QED BY <2>1, <2>2 DEF Apart
<1> QED BY <1>4, <1>5, <1>6 DEF new

\* new holds the clips of K, in their order.
Selects(new, clips, K) ==
    \E f \in [1 .. Len(new) -> K] :
        /\ \A p \in 1 .. Len(new) : new[p] = clips[f[p]]
        /\ \A p, q \in 1 .. Len(new) : p < q => f[p] < f[q]
        /\ \A i \in K : \E p \in 1 .. Len(new) : f[p] = i

LEMMA SelectsFacts ==
    ASSUME NEW clips \in Seq(AnyClip), NEW K \in SUBSET DOMAIN clips,
           NEW new \in Seq(AnyClip), Selects(new, clips, K)
    PROVE  /\ ToSet(new) = {clips[i] : i \in K}
           /\ Distinct(clips) => Distinct(new)
           /\ Apart(clips) => Apart(new)
<1>1. PICK f \in [1 .. Len(new) -> K] :
         /\ \A p \in 1 .. Len(new) : new[p] = clips[f[p]]
         /\ \A p, q \in 1 .. Len(new) : p < q => f[p] < f[q]
         /\ \A i \in K : \E p \in 1 .. Len(new) : f[p] = i
  BY DEF Selects
<1>2. /\ Len(new) \in Nat /\ DOMAIN new = 1 .. Len(new)
      /\ Len(clips) \in Nat /\ DOMAIN clips = 1 .. Len(clips)
  BY ListClips
<1>3. ASSUME NEW p \in DOMAIN new
      PROVE  f[p] \in K /\ f[p] \in DOMAIN clips /\ new[p] = clips[f[p]]
  BY <1>1, <1>2
<1>4. ToSet(new) = {clips[i] : i \in K}
  BY <1>1, <1>2, <1>3 DEF ToSet
<1>5. ASSUME NEW p \in DOMAIN new, NEW q \in DOMAIN new, p < q
      PROVE  f[p] < f[q]
  BY <1>1, <1>2, <1>5
<1>6. ASSUME Distinct(clips) PROVE Distinct(new)
  <2>1. ASSUME NEW p \in DOMAIN new, NEW q \in DOMAIN new, new[p].id = new[q].id
        PROVE  p = q
    <3>1. f[p] = f[q]
      BY <1>3, <1>6, <2>1 DEF Distinct
    <3>2. p \in Int /\ q \in Int /\ f[p] \in Int
      BY <1>2, <1>3
    <3>3. ~(p < q) /\ ~(q < p)
      BY <1>5, <3>1, <3>2
    <3> QED BY <3>2, <3>3
  <2> QED BY <2>1 DEF Distinct
<1>7. ASSUME Apart(clips) PROVE Apart(new)
  <2>1. ASSUME NEW p \in DOMAIN new
        PROVE  0 <= new[p].in /\ new[p].in < new[p].out
    BY <1>3, <1>7 DEF Apart
  <2>2. ASSUME NEW p \in DOMAIN new, NEW q \in DOMAIN new, p < q
        PROVE  new[p].out <= new[q].in
    BY <1>3, <1>5, <1>7, <2>2 DEF Apart
  <2> QED BY <2>1, <2>2 DEF Apart
<1> QED BY <1>4, <1>6, <1>7

\* Lists of one element or none, in one list.
LEMMA FlattenSelects ==
    ASSUME NEW clips \in Seq(AnyClip), NEW ss \in Seq(Seq(AnyClip)), DOMAIN ss = DOMAIN clips,
           NEW K \in SUBSET DOMAIN clips,
           \A i \in DOMAIN clips : ss[i] = IF i \in K THEN <<clips[i]>> ELSE <<>>
    PROVE  Selects(FlattenSeq(ss), clips, K) /\ FlattenSeq(ss) \in Seq(AnyClip)
<1> DEFINE flat == FlattenSeq(ss)
<1>1. flat \in Seq(AnyClip) /\ Len(ss) = Len(clips) /\ DOMAIN clips = 1 .. Len(clips)
  BY FlattenType
<1>2. PICK I, J \in [1 .. Len(flat) -> Nat] : FlatIndex(ss, flat, Len(ss), I, J)
  BY FlattenIndex
<1> HIDE DEF flat
<1>3. ASSUME NEW i \in DOMAIN clips
      PROVE  /\ i \in K => Len(ss[i]) = 1 /\ ss[i][1] = clips[i]
             /\ i \notin K => Len(ss[i]) = 0
  <2> DEFINE l == <<clips[i]>>
  <2>1. Len(l) = 1 /\ l[1] = clips[i] /\ Len(<<>>) = 0
    OBVIOUS
  <2>2. ss[i] = IF i \in K THEN l ELSE <<>>
    OBVIOUS
  <2> HIDE DEF l
  <2> QED BY <2>1, <2>2
<1>4. ASSUME NEW p \in 1 .. Len(flat)
      PROVE  I[p] \in K /\ J[p] = 1 /\ flat[p] = clips[I[p]]
  <2>1. I[p] \in DOMAIN clips /\ J[p] \in 1 .. Len(ss[I[p]]) /\ flat[p] = ss[I[p]][J[p]]
    BY <1>1, <1>2 DEF FlatIndex
  <2>2. I[p] \in K
    BY <1>3, <2>1
  <2>3. J[p] \in 1 .. 1
    BY <1>3, <2>1, <2>2
  <2> QED BY <1>3, <2>1, <2>2, <2>3
<1>5. I \in [1 .. Len(flat) -> K]
  BY <1>4
<1>6. \A p, q \in 1 .. Len(flat) : p < q => I[p] < I[q]
  <2> TAKE p, q \in 1 .. Len(flat)
  <2>1. J[p] = 1 /\ J[q] = 1
    BY <1>4
  <2>2. p < q => I[p] < I[q] \/ (I[p] = I[q] /\ J[p] < J[q])
    BY <1>2 DEF FlatIndex
  <2> QED BY <2>1, <2>2
<1>7. ASSUME NEW i \in K PROVE \E p \in 1 .. Len(flat) : I[p] = i
  <2>1. i \in 1 .. Len(ss) /\ 1 \in 1 .. Len(ss[i])
    BY <1>1, <1>3
  <2> QED BY <1>2, <2>1 DEF FlatIndex
<1>8. Selects(flat, clips, K)
  BY ZenonT(30), <1>4, <1>5, <1>6, <1>7 DEF Selects
<1> QED BY <1>1, <1>8 DEF flat

\* The clips with other ids, as remove_if leaves them.
LEMMA WithoutIdSelects ==
    ASSUME NEW clips \in Seq(AnyClip), NEW id
    PROVE  Selects(WithoutId(clips, id), clips, {i \in DOMAIN clips : clips[i].id # id})
<1> DEFINE K == {i \in DOMAIN clips : clips[i].id # id}
           e(i) == When(clips[i].id # id, <<clips[i]>>)
           ss == [i \in DOMAIN clips |-> e(i)]
<1>1. \A i \in DOMAIN clips : e(i) \in Seq(AnyClip) /\ e(i) = IF i \in K THEN <<clips[i]>> ELSE <<>>
  BY ListClips DEF When
<1>2. WithoutId(clips, id) = FlattenSeq(ss)
  BY DEF WithoutId
<1>k. K \in SUBSET DOMAIN clips
  OBVIOUS
<1> HIDE DEF K, e
<1>3. ss \in Seq(Seq(AnyClip)) /\ DOMAIN ss = DOMAIN clips
  BY <1>1, ListClips
<1>4. \A i \in DOMAIN clips : ss[i] = IF i \in K THEN <<clips[i]>> ELSE <<>>
  BY <1>1
<1> HIDE DEF ss
<1>5. Selects(FlattenSeq(ss), clips, K)
  BY <1>3, <1>4, <1>k, FlattenSelects
<1> QED BY <1>2, <1>5 DEF K

\* A part of a list, and what is selected from it.
LEMMA SubSeqSelects ==
    ASSUME NEW clips \in Seq(AnyClip), NEW m \in Nat \ {0}, NEW n \in Int, n <= Len(clips)
    PROVE  SubSeq(clips, m, n) \in Seq(AnyClip) /\ Selects(SubSeq(clips, m, n), clips, m .. n)
<1> DEFINE new == SubSeq(clips, m, n)
           f == [p \in 1 .. Len(new) |-> p + m - 1]
<1>1. /\ new \in Seq(AnyClip)
      /\ Len(new) = IF m <= n THEN n - m + 1 ELSE 0
      /\ \A p \in 1 .. Len(new) : new[p] = clips[p + m - 1]
  OBVIOUS
<1> HIDE DEF new
<1>2. \A p \in 1 .. Len(new) : p + m - 1 \in m .. n /\ f[p] = p + m - 1 /\ p \in Int
  BY <1>1
<1>3. f \in [1 .. Len(new) -> m .. n]
  BY <1>2
<1>4. \A i \in m .. n : i - m + 1 \in 1 .. Len(new) /\ (i - m + 1) + m - 1 = i
  BY <1>1
<1>5. \A i \in m .. n : \E p \in 1 .. Len(new) : f[p] = i
  BY <1>2, <1>4
<1>6. \A p, q \in 1 .. Len(new) : p < q => f[p] < f[q]
  BY <1>2
<1>7. \A p \in 1 .. Len(new) : new[p] = clips[f[p]]
  BY <1>1, <1>2
<1> HIDE DEF f
<1> QED BY <1>1, <1>3, <1>5, <1>6, <1>7 DEF Selects, new

LEMMA SelectsTwice ==
    ASSUME NEW clips, NEW K, NEW a, NEW b, NEW L, Selects(a, clips, K), Selects(b, a, L),
           L \subseteq 1 .. Len(a), K \subseteq Int
    PROVE  \E M \in SUBSET K : Selects(b, clips, M)
<1>1. PICK f \in [1 .. Len(a) -> K] :
         /\ \A p \in 1 .. Len(a) : a[p] = clips[f[p]]
         /\ \A p, q \in 1 .. Len(a) : p < q => f[p] < f[q]
  BY DEF Selects
<1>2. PICK g \in [1 .. Len(b) -> L] :
         /\ \A p \in 1 .. Len(b) : b[p] = a[g[p]]
         /\ \A p, q \in 1 .. Len(b) : p < q => g[p] < g[q]
  BY DEF Selects
<1> DEFINE M == {f[g[p]] : p \in 1 .. Len(b)}
           h == [p \in 1 .. Len(b) |-> f[g[p]]]
<1>3. M \in SUBSET K
  BY <1>1, <1>2
<1>4. h \in [1 .. Len(b) -> M]
  OBVIOUS
<1>5. \A p \in 1 .. Len(b) : b[p] = clips[h[p]] /\ g[p] \in 1 .. Len(a) /\ h[p] = f[g[p]]
  BY <1>1, <1>2
<1>6. \A p, q \in 1 .. Len(b) : p < q => h[p] < h[q]
  BY <1>1, <1>2, <1>5
<1>7. \A i \in M : \E p \in 1 .. Len(b) : h[p] = i
  OBVIOUS
<1>8. Selects(b, clips, M)
  <2> HIDE DEF M, h
  <2> QED BY ZenonT(30), <1>4, <1>5, <1>6, <1>7 DEF Selects
<1> HIDE DEF M
<1> QED BY <1>3, <1>8

LEMMA SelectsConcat ==
    ASSUME NEW clips, NEW K \in SUBSET Int, NEW L \in SUBSET Int,
           NEW a \in Seq(AnyClip), NEW b \in Seq(AnyClip),
           Selects(a, clips, K), Selects(b, clips, L), \A i \in K, j \in L : i < j
    PROVE  Selects(a \o b, clips, K \cup L)
<1> DEFINE c == a \o b
           m == Len(a)
<1>1. PICK f \in [1 .. Len(a) -> K] :
         /\ \A p \in 1 .. Len(a) : a[p] = clips[f[p]]
         /\ \A p, q \in 1 .. Len(a) : p < q => f[p] < f[q]
         /\ \A i \in K : \E p \in 1 .. Len(a) : f[p] = i
  BY DEF Selects
<1>2. PICK g \in [1 .. Len(b) -> L] :
         /\ \A p \in 1 .. Len(b) : b[p] = clips[g[p]]
         /\ \A p, q \in 1 .. Len(b) : p < q => g[p] < g[q]
         /\ \A i \in L : \E p \in 1 .. Len(b) : g[p] = i
  BY DEF Selects
<1>3. /\ m \in Nat /\ Len(b) \in Nat /\ Len(c) = m + Len(b)
      /\ \A p \in 1 .. m : c[p] = a[p]
      /\ \A p \in m + 1 .. m + Len(b) : c[p] = b[p - m]
  BY ConcatFacts
<1> HIDE DEF c
<1> DEFINE h == [p \in 1 .. Len(c) |-> IF p <= m THEN f[p] ELSE g[p - m]]
<1>4. ASSUME NEW p \in 1 .. Len(c)
      PROVE  /\ p <= m => p \in 1 .. m /\ h[p] = f[p] /\ h[p] \in K /\ c[p] = a[p]
             /\ ~(p <= m) => /\ p - m \in 1 .. Len(b) /\ h[p] = g[p - m] /\ h[p] \in L
                             /\ c[p] = b[p - m]
  <2>1. h[p] = IF p <= m THEN f[p] ELSE g[p - m]
    OBVIOUS
  <2> HIDE DEF h
  <2>2. CASE p <= m
    <3>1. p \in 1 .. m
      <4> HIDE DEF m
      <4> QED BY <1>3, <2>2
    <3>2. f[p] \in K
      BY <3>1
    <3> HIDE DEF m
    <3> QED BY <1>3, <2>1, <2>2, <3>1, <3>2
  <2>3. CASE ~(p <= m)
    <3>1. p - m \in 1 .. Len(b) /\ p \in m + 1 .. m + Len(b)
      <4> HIDE DEF m
      <4> QED BY <1>3, <2>3
    <3>2. g[p - m] \in L
      BY <3>1
    <3> HIDE DEF m
    <3> QED BY <1>3, <2>1, <2>3, <3>1, <3>2
  <2> QED BY <2>2, <2>3
<1>5. h \in [1 .. Len(c) -> K \cup L]
  <2>1. \A p \in 1 .. Len(c) : h[p] \in K \cup L
    BY <1>4
  <2>2. h = [p \in 1 .. Len(c) |-> h[p]]
    OBVIOUS
  <2> HIDE DEF h
  <2> QED BY <2>1, <2>2
<1> HIDE DEF h, m
<1>6. ASSUME NEW p \in 1 .. Len(c) PROVE c[p] = clips[h[p]]
  <2>1. CASE p <= m
    <3>1. p \in 1 .. Len(a) /\ h[p] = f[p] /\ c[p] = a[p]
      BY <1>4, <2>1 DEF m
    <3> QED BY <1>1, <3>1
  <2>2. CASE ~(p <= m)
    <3>1. p - m \in 1 .. Len(b) /\ h[p] = g[p - m] /\ c[p] = b[p - m]
      BY <1>4, <2>2
    <3> QED BY <1>2, <3>1
  <2> QED BY <2>1, <2>2
<1>7. ASSUME NEW p \in 1 .. Len(c), NEW q \in 1 .. Len(c), p < q
      PROVE  h[p] < h[q]
  <2>1. CASE q <= m
    <3>1. p <= m
      BY <1>3, <1>7, <2>1
    <3> QED BY <1>1, <1>4, <1>7, <2>1, <3>1 DEF m
  <2>2. CASE p <= m /\ ~(q <= m)
    BY <1>4, <2>2
  <2>3. CASE ~(p <= m) /\ ~(q <= m)
    <3>1. p - m < q - m
      BY <1>3, <1>7
    <3> QED BY <1>2, <1>4, <2>3, <3>1
  <2> QED BY <2>1, <2>2, <2>3
<1>8. ASSUME NEW i \in K \cup L PROVE \E p \in 1 .. Len(c) : h[p] = i
  <2>1. CASE i \in K
    <3>1. PICK p \in 1 .. Len(a) : f[p] = i
      BY <1>1, <2>1
    <3>2. p \in 1 .. Len(c) /\ p <= m
      BY <1>3 DEF m
    <3> QED BY <1>4, <3>1, <3>2
  <2>2. CASE i \in L
    <3>1. PICK p \in 1 .. Len(b) : g[p] = i
      BY <1>2, <2>2
    <3>2. p + m \in 1 .. Len(c) /\ ~(p + m <= m) /\ (p + m) - m = p
      BY <1>3
    <3> QED BY <1>4, <3>1, <3>2
  <2> QED BY <2>1, <2>2
<1>9. Selects(c, clips, K \cup L)
  BY <1>5, <1>6, <1>7, <1>8 DEF Selects
<1> QED BY <1>9 DEF c

\* Nothing is removed by an id that no clip has.
LEMMA WithoutIdNone ==
    ASSUME NEW clips \in Seq(AnyClip), NEW id, \A i \in DOMAIN clips : clips[i].id # id
    PROVE  WithoutId(clips, id) = clips
<1>1. \A i \in DOMAIN clips : When(clips[i].id # id, <<clips[i]>>) = <<clips[i]>>
  BY DEF When
<1>2. WithoutId(clips, id) = FlattenSeq([i \in DOMAIN clips |-> <<clips[i]>>])
  BY <1>1 DEF WithoutId
<1> QED BY <1>2, FlattenSingles

\* A part of a list, from one place to another.
LEMMA SubSeqFacts ==
    ASSUME NEW S, NEW s \in Seq(S), NEW m \in Nat \ {0}, NEW n \in Int, n <= Len(s)
    PROVE  /\ SubSeq(s, m, n) \in Seq(S)
           /\ Len(SubSeq(s, m, n)) = IF m <= n THEN n - m + 1 ELSE 0
           /\ \A p \in 1 .. Len(SubSeq(s, m, n)) : SubSeq(s, m, n)[p] = s[p + m - 1]
OBVIOUS

LEMMA SingleSelects ==
    ASSUME NEW clips \in Seq(AnyClip), NEW n \in DOMAIN clips
    PROVE  Selects(<<clips[n]>>, clips, {n}) /\ <<clips[n]>> \in Seq(AnyClip)
<1> DEFINE new == <<clips[n]>>
           f == [p \in 1 .. 1 |-> n]
<1>1. Len(new) = 1 /\ new[1] = clips[n] /\ new \in Seq(AnyClip)
  BY ListClips
<1>2. f \in [1 .. 1 -> {n}] /\ f[1] = n
  OBVIOUS
<1>3. \A p \in 1 .. 1 : p = 1
  OBVIOUS
<1> HIDE DEF new, f
<1>4. Selects(new, clips, {n})
  <2>1. \A p \in 1 .. 1 : new[p] = clips[f[p]]
    BY <1>1, <1>2, <1>3
  <2>2. \A p, q \in 1 .. 1 : p < q => f[p] < f[q]
    OBVIOUS
  <2>3. \A i \in {n} : \E p \in 1 .. 1 : f[p] = i
    BY <1>2
  <2> QED BY <1>1, <1>2, <2>1, <2>2, <2>3 DEF Selects
<1> QED BY <1>1, <1>4 DEF new

\* Removing through a pointer into the list leaves some of its clips, and all
\* but the one pointed to when no two have one id.
LEMMA WithoutPointeeSelects ==
    ASSUME NEW clips \in Seq(AnyClip), NEW i \in 0 .. Len(clips)
    PROVE  \E K \in SUBSET DOMAIN clips :
              /\ Selects(WithoutPointee(clips, i), clips, K)
              /\ Distinct(clips) /\ i # 0 => K = DOMAIN clips \ {i}
<1> DEFINE n == Len(clips)
           later == SubSeq(clips, i + 1, n)
           I == {j \in 1 .. Len(later) : later[j].id # clips[i].id}
           f == IF I # {} THEN Min(I) ELSE 0
           before == SubSeq(clips, 1, i - 1)
           rest == SubSeq(later, f + 1, Len(later))
           tail == <<later[f]>> \o WithoutId(rest, later[f].id)
<1>1. n \in Nat /\ i \in Int /\ DOMAIN clips = 1 .. n
  BY ListClips
<1> HIDE DEF n
<1>2. before \in Seq(AnyClip) /\ Selects(before, clips, 1 .. i - 1)
  BY <1>1, SubSeqSelects DEF n
<1>3. /\ later \in Seq(AnyClip) /\ Len(later) = n - i
      /\ \A j \in 1 .. n - i : later[j] = clips[i + j]
  <2>1. i + 1 \in Nat \ {0} /\ i <= n /\ n <= Len(clips)
    BY <1>1 DEF n
  <2>2. /\ later \in Seq(AnyClip)
        /\ Len(later) = IF i + 1 <= n THEN n - (i + 1) + 1 ELSE 0
        /\ \A p \in 1 .. Len(later) : later[p] = clips[p + (i + 1) - 1]
    BY <1>1, <2>1, SubSeqFacts
  <2> HIDE DEF later
  <2>3. Len(later) = n - i
    BY <1>1, <2>1, <2>2
  <2>4. \A p \in 1 .. n - i : p + (i + 1) - 1 = i + p
    BY <1>1
  <2> QED BY <2>2, <2>3, <2>4
<1>4. I # {} => f \in I /\ \A j \in I : f <= j
  <2>1. I \subseteq Nat
    OBVIOUS
  <2> HIDE DEF I
  <2> QED BY <2>1, LeastOne
<1>5. I # {} => f \in 1 .. n - i /\ f # 0
  <2> HIDE DEF f
  <2> QED BY <1>1, <1>3, <1>4
<1>6. WithoutPointee(clips, i) = before \o When(f # 0, tail)
  BY DEF WithoutPointee, SelectInSeq, n
<1>7. CASE I = {}
  <2>1. When(f # 0, tail) = <<>>
    BY <1>7 DEF When
  <2>2. WithoutPointee(clips, i) = before
    <3> HIDE DEF before, tail, f
    <3> QED BY <1>2, <1>6, <2>1
  <2>3. Distinct(clips) /\ i # 0 => n - i = 0
    <3> SUFFICES ASSUME Distinct(clips), i # 0, n - i > 0 PROVE FALSE
      BY <1>1
    <3>1. 1 \in 1 .. Len(later) /\ later[1] = clips[i + 1]
      BY <1>1, <1>3
    <3>2. i + 1 \in DOMAIN clips /\ i \in DOMAIN clips
      BY <1>1
    <3>3. clips[i + 1].id # clips[i].id
      BY <1>1, <3>2 DEF Distinct
    <3> QED BY <1>7, <3>1, <3>3
  <2>4. Distinct(clips) /\ i # 0 => 1 .. i - 1 = DOMAIN clips \ {i}
    BY <1>1, <2>3
  <2>5. 1 .. i - 1 \in SUBSET DOMAIN clips
    BY <1>1
  <2> HIDE DEF before
  <2> QED BY <1>2, <2>2, <2>4, <2>5
<1>8. CASE I # {}
  <2> DEFINE m == i + f
  <2>1. m \in DOMAIN clips /\ m > i /\ later[f] = clips[m]
    <3>1. f \in 1 .. n - i
      BY <1>5, <1>8
    <3> HIDE DEF f, later
    <3>2. later[f] = clips[i + f]
      BY <1>3, <3>1
    <3> QED BY <1>1, <3>1, <3>2
  <2>2. rest = SubSeq(clips, m + 1, n) /\ rest \in Seq(AnyClip)
    <3>1. f \in 1 .. n - i
      BY <1>5, <1>8
    <3> HIDE DEF f
    <3>2. rest \in Seq(AnyClip) /\ Len(rest) = n - i - f
      <4> HIDE DEF later
      <4>1. f + 1 \in Nat \ {0} /\ Len(later) \in Int
        BY <1>1, <1>3, <3>1
      <4>2. /\ rest \in Seq(AnyClip)
            /\ Len(rest) = IF f + 1 <= Len(later) THEN Len(later) - (f + 1) + 1 ELSE 0
        BY <1>3, <4>1, SubSeqFacts
      <4> HIDE DEF rest
      <4> QED BY <1>1, <1>3, <3>1, <4>2
    <3>3. \A j \in 1 .. n - i - f : rest[j] = clips[i + f + j]
      <4>1. \A j \in 1 .. n - i - f : rest[j] = later[f + j]
        <5> HIDE DEF later
        <5>1. f + 1 \in Nat \ {0} /\ Len(later) \in Int
          BY <1>1, <1>3, <3>1
        <5>2. \A p \in 1 .. Len(rest) : rest[p] = later[p + (f + 1) - 1]
          BY <1>3, <5>1, SubSeqFacts
        <5>3. \A p \in 1 .. n - i - f : p + (f + 1) - 1 = f + p
          BY <1>1, <3>1
        <5> HIDE DEF rest
        <5> QED BY <3>2, <5>2, <5>3
      <4>2. \A j \in 1 .. n - i - f : f + j \in 1 .. n - i /\ i + (f + j) = i + f + j
        BY <1>1, <3>1
      <4> HIDE DEF later, rest
      <4> QED BY <1>3, <4>1, <4>2
    <3> DEFINE other == SubSeq(clips, m + 1, n)
    <3>m. m + 1 \in Nat \ {0} /\ n <= Len(clips) /\ m \in Int /\ m <= n
      BY <1>1, <3>1 DEF n
    <3>o. /\ other \in Seq(AnyClip)
          /\ Len(other) = IF m + 1 <= n THEN n - (m + 1) + 1 ELSE 0
          /\ \A p \in 1 .. Len(other) : other[p] = clips[p + (m + 1) - 1]
      <4> HIDE DEF m
      <4> QED BY <1>1, <3>m, SubSeqFacts
    <3> HIDE DEF other
    <3>4. other \in Seq(AnyClip) /\ Len(other) = n - i - f
      BY <1>1, <3>1, <3>o
    <3>5. \A j \in 1 .. n - i - f : other[j] = clips[i + f + j]
      <4>1. \A p \in 1 .. n - i - f : p + (m + 1) - 1 = i + f + p
        BY <1>1, <3>1
      <4> QED BY <3>4, <3>o, <4>1
    <3> HIDE DEF rest
    <3>6. rest = other
      BY <3>2, <3>3, <3>4, <3>5, SameLists
    <3> QED BY <3>2, <3>6 DEF other
  <2>3. Selects(rest, clips, m + 1 .. n)
    <3>1. m + 1 \in Nat \ {0}
      <4> HIDE DEF m
      <4> QED BY <1>1, <2>1
    <3>2. n <= Len(clips) /\ n \in Int
      BY <1>1 DEF n
    <3> HIDE DEF m, rest
    <3> QED BY <2>2, <3>1, <3>2, SubSeqSelects
  <2> HIDE DEF m, rest, later, f
  <2> DEFINE w == WithoutId(rest, clips[m].id)
  <2>4. w \in Seq(AnyClip)
    BY <2>2, WithoutIdType
  <2>5. \E M \in SUBSET (m + 1 .. n) :
           Selects(w, clips, M) /\ (Distinct(clips) => M = m + 1 .. n)
    <3>1. CASE Distinct(clips)
      <4>1. \A j \in DOMAIN rest : rest[j].id # clips[m].id
        <5> SUFFICES ASSUME NEW j \in DOMAIN rest PROVE rest[j].id # clips[m].id
          OBVIOUS
        <5>1. \E k \in m + 1 .. n : rest[j] = clips[k]
          <6>1. PICK g \in [1 .. Len(rest) -> m + 1 .. n] :
                   \A p \in 1 .. Len(rest) : rest[p] = clips[g[p]]
            BY <2>3 DEF Selects
          <6>2. j \in 1 .. Len(rest)
            BY <2>2
          <6> QED BY <6>1, <6>2
        <5>2. \A k \in m + 1 .. n : k \in DOMAIN clips /\ k # m
          BY <1>1, <2>1
        <5> QED BY <2>1, <3>1, <5>1, <5>2 DEF Distinct
      <4>2. w = rest
        BY <2>2, <4>1, WithoutIdNone
      <4> QED BY <2>3, <4>2
    <3>2. CASE ~Distinct(clips)
      <4> DEFINE L == {j \in DOMAIN rest : rest[j].id # clips[m].id}
      <4>1. Selects(w, rest, L)
        BY <2>2, WithoutIdSelects
      <4>2. L \subseteq 1 .. Len(rest) /\ m + 1 .. n \subseteq Int
        BY <2>2
      <4> HIDE DEF L, w
      <4> QED BY <2>3, <3>2, <4>1, <4>2, SelectsTwice
    <3> QED BY <3>1, <3>2
  <2>6. PICK M \in SUBSET (m + 1 .. n) :
           Selects(w, clips, M) /\ (Distinct(clips) => M = m + 1 .. n)
    BY <2>5
  <2> HIDE DEF w
  <2> DEFINE one == <<clips[m]>>
  <2>7. one \in Seq(AnyClip) /\ Selects(one, clips, {m})
    BY <2>1, SingleSelects
  <2> HIDE DEF one
  <2>8. m \in Int /\ n \in Int
    BY <1>1, <2>1
  <2>9. \A x \in {m}, y \in M : x < y
    BY <2>6, <2>8
  <2>10. M \in SUBSET Int /\ {m} \in SUBSET Int
    BY <2>6, <2>8
  <2>11. Selects(one \o w, clips, {m} \cup M)
    BY <2>4, <2>6, <2>7, <2>9, <2>10, SelectsConcat
  <2>12. one \o w \in Seq(AnyClip)
    BY <2>4, <2>7
  <2> DEFINE K == (1 .. i - 1) \cup ({m} \cup M)
  <2>13. \A x \in 1 .. i - 1, y \in {m} \cup M : x < y
    <3> SUFFICES ASSUME NEW x \in 1 .. i - 1, NEW y \in {m} \cup M PROVE x < y
      OBVIOUS
    <3>1. y = m \/ y \in m + 1 .. n
      BY <2>6
    <3> QED BY <1>1, <2>1, <2>8, <3>1
  <2>14. {m} \cup M \in SUBSET Int /\ 1 .. i - 1 \in SUBSET Int
    <3>1. 1 .. i - 1 \in SUBSET Int
      BY <1>1
    <3> QED BY <2>10, <3>1
  <2> HIDE DEF before
  <2>15. Selects(before \o (one \o w), clips, K)
    <3> DEFINE B == 1 .. i - 1
               C == {m} \cup M
               b == one \o w
    <3>1. \A x \in B, y \in C : x < y
      BY <2>13
    <3>2. B \in SUBSET Int /\ C \in SUBSET Int
      BY <2>14
    <3>3. Selects(before, clips, B) /\ Selects(b, clips, C)
      BY <1>2, <2>11
    <3>4. before \in Seq(AnyClip) /\ b \in Seq(AnyClip)
      BY <1>2, <2>12
    <3> HIDE DEF B, C, b
    <3>5. Selects(before \o b, clips, B \cup C)
      BY <3>1, <3>2, <3>3, <3>4, SelectsConcat
    <3> QED BY <3>5 DEF B, C, b
  <2>16. WithoutPointee(clips, i) = before \o (one \o w)
    <3>1. When(f # 0, tail) = one \o w
      BY <1>5, <1>8, <2>1 DEF When, one, w
    <3> QED BY <1>6, <3>1
  <2>17. K \in SUBSET DOMAIN clips
    <3> SUFFICES ASSUME NEW x \in K PROVE x \in DOMAIN clips
      OBVIOUS
    <3>1. x \in 1 .. i - 1 \/ x = m \/ x \in m + 1 .. n
      BY <2>6
    <3> HIDE DEF K
    <3> QED BY <1>1, <2>1, <2>8, <3>1
  <2>18. ASSUME Distinct(clips), i # 0 PROVE K = DOMAIN clips \ {i}
    <3>1. 1 \in I
      <4>1. i \in DOMAIN clips /\ i + 1 \in DOMAIN clips /\ 1 \in 1 .. n - i
        BY <1>1, <1>5, <1>8, <2>18
      <4>2. clips[i + 1].id # clips[i].id
        BY <1>1, <4>1, <2>18 DEF Distinct
      <4> QED BY <1>3, <4>1, <4>2
    <3>2. f = 1
      <4>1. f <= 1 /\ f \in 1 .. n - i
        BY <1>4, <1>5, <1>8, <3>1
      <4> QED BY <1>1, <4>1
    <3>3. m = i + 1
      BY <3>2 DEF m
    <3>4. M = m + 1 .. n
      BY <2>6, <2>18
    <3> QED BY <1>1, <2>1, <3>3, <3>4
  <2> HIDE DEF K
  <2> QED BY <2>15, <2>16, <2>17, <2>18
<1> QED BY <1>7, <1>8

-----------------------------------------------------------------------------
(* Theorems *)

Listed == ops \cap Unlisted = {}

\* The invariant of a session the operations of which list what they change.
SInv == Ready /\ Listed /\ IInv

\* A session starts as the stack does.
LEMMA SessionStarts ==
    ASSUME Track = AnyTrack, SessionInit
    PROVE  Ready /\ Init
<1>1. session \in Sessions /\ seq \in Start /\ nextId = FreshIn(seq)
  BY DEF SessionInit
<1>2. seq \in Documents
  BY <1>1, SessionsAssumption DEF Start
<1>3. nextId \in Nat
  BY <1>1, <1>2, FreshInType
<1> QED BY <1>1, <1>2, <1>3 DEF Ready, SessionInit, Init

\* A step of a session is a step of the stack.
LEMMA SessionSteps ==
    ASSUME SInv, [SessionNext]_vars
    PROVE  SInv' /\ [Next]_stackVars
<1>1. [Next]_stackVars /\ nextId' \in Nat /\ session' = session
  <2>1. CASE UNCHANGED vars
    BY <2>1 DEF vars, stackVars, SInv, Ready
  <2>2. CASE Editing
    <3>1. Edited
      BY <2>2, EditingEdits DEF SInv, Listed
    <3> QED BY <3>1 DEF Edited, Next
  <2>3. CASE EditUndo \/ EditRedo \/ OpenProject
    BY <2>3, OpenUndoRedo DEF SInv, Next
  <2> QED BY <2>1, <2>2, <2>3 DEF SessionNext, Editing
<1>2. IInv'
  BY <1>1, LineInductive DEF SInv
<1>3. seq' \in Documents
  BY <1>2 DEF IInv, TypeOK
<1> QED BY <1>1, <1>2, <1>3 DEF SInv, Ready, Listed, ops

\* What Ctrl+Z and Ctrl+Shift+Z bring back after the operations of the editor
\* is exactly what was there: each of them lists the tracks it changes, for
\* any clips, tracks, media and stack (edit_ops.cpp).  Left out are the three
\* of Unlisted.
THEOREM SessionsUndoExactly ==
    Track = AnyTrack /\ Listed /\ SessionSpec => HistorySpec
<1>1. Track = AnyTrack /\ Listed /\ SessionInit => SInv /\ Init
  BY SessionStarts, LineInductive DEF SInv
<1>2. SInv /\ [SessionNext]_vars => SInv' /\ [Next]_stackVars
  BY SessionSteps
<1> QED BY <1>1, <1>2, UndoIsExact, PTL DEF SessionSpec, Spec

\* No step changes the bounds of the session.
LEMMA SessionKept ==
    ASSUME [SessionNext]_vars
    PROVE  session' = session
<1>1. \A t, refs, n, s : Commit(s, t, refs, n) => session' = session
  BY DEF Commit
<1>2. \A t, k : CommitList(t, k) => session' = session
  BY DEF CommitList
<1>3. ASSUME Placing PROVE session' = session
  <2>1. ASSUME NEW s, NEW r, NEW m, NEW in, NEW n, NEW mode, PlaceOn(s, r, m, in, n, mode)
        PROVE  session' = session
    BY <1>1, <2>1 DEF PlaceOn
  <2>2. ASSUME NEW m, NEW in, NEW n, PlaceOnTop(m, in, n) PROVE session' = session
    BY <2>1, <2>2 DEF PlaceOnTop
  <2>3. ASSUME NEW v, NEW a, NEW m, NEW in, NEW n, NEW mode, PlaceLinked(v, a, m, in, n, mode)
        PROVE  session' = session
    BY <1>1, <2>3 DEF PlaceLinked
  <2> QED BY <1>3, <2>1, <2>2, <2>3 DEF Placing, PlaceClip
<1>4. ASSUME Linking PROVE session' = session
  BY <1>1, <1>4 DEF Linking, UnlinkClip, LinkClip
<1>5. ASSUME Removing PROVE session' = session
  BY ZenonT(30), <1>1, <1>5 DEF Removing, LiftClip, RippleDeleteClip, LiftRange, RippleDeleteRange
<1>6. ASSUME Cutting PROVE session' = session
  <2>1. ASSUME NEW r, NEW pos, BladeAt(r, pos) PROVE session' = session
    BY <1>1, <2>1 DEF BladeAt
  <2>2. ASSUME NEW r, NEW i, NEW q, NEW mid, NEW pos, BladePair(r, i, q, mid, pos)
        PROVE  session' = session
    BY <1>1, <2>2 DEF BladePair
  <2>3. ASSUME NEW r, NEW pos, BladeLinkedAt(r, pos) PROVE session' = session
    BY <2>2, <2>3 DEF BladeLinkedAt
  <2>4. ASSUME NEW id, DeleteThroughEdit(id) PROVE session' = session
    BY <1>1, <2>4 DEF DeleteThroughEdit
  <2> QED BY <1>6, <2>1, <2>3, <2>4 DEF Cutting
<1>7. ASSUME Moving PROVE session' = session
  <2>1. ASSUME NEW id, NEW dst, NEW in, MoveClip(id, dst, in) PROVE session' = session
    BY <1>1, <2>1 DEF MoveClip
  <2>2. ASSUME NEW edge, NEW id, NEW in, TrimClipEdge(edge, id, in) PROVE session' = session
    BY <1>1, <2>2 DEF TrimClipEdge
  <2>3. ASSUME NEW id, NEW in, AutoTrack(id, in) PROVE session' = session
    BY <1>1, <2>3 DEF AutoTrack
  <2> QED BY <1>7, <2>1, <2>2, <2>3 DEF Moving
<1>8. ASSUME Setting PROVE session' = session
  BY <1>1, <1>8 DEF Setting, SetClipAttribute, SetClipTransition, SetClipTitle, SetOnPair,
                    SetTrackLocked, SetTrackMix, SetAllTracksCollapsed
<1>9. ASSUME Arranging PROVE session' = session
  BY <1>2, <1>9 DEF Arranging, InsertTrack, RemoveTrack, RenameTrack, MoveTrack
<1>10. ASSUME EditUndo \/ EditRedo \/ OpenProject PROVE session' = session
  BY <1>10 DEF EditUndo, EditRedo, OpenProject
<1>11. ASSUME UNCHANGED vars PROVE session' = session
  BY <1>11 DEF vars
<1> QED BY <1>3, <1>4, <1>5, <1>6, <1>7, <1>8, <1>9, <1>10, <1>11 DEF SessionNext

\* What lists its tracks records a command.
LEMMA EditedRecords ==
    ASSUME Ready, Edited
    PROVE  Recorded
<1>1. seq \in Documents
  BY DEF Ready
<1>2. CASE EditTracks
  <2>1. PICK t \in Documents, refs \in SUBSET Refs(seq) :
            SameBut(seq, t, refs) /\ Record(t, EditCommand(seq, t, refs))
    BY <1>2 DEF EditTracks
  <2> QED BY <1>1, <2>1, EditCommandLeads DEF Edited, Recorded
<1>3. CASE EditTrackList
  <2>1. PICK k \in Kinds, list \in TrackLists :
            LET t == [seq EXCEPT ![k] = list]
            IN Record(t, TrackListCommand(seq, t, k))
    BY <1>3 DEF EditTrackList
  <2> QED BY <1>1, <2>1, TrackListCommandLeads DEF Edited, Recorded
<1> QED BY <1>2, <1>3 DEF Edited

\* Operations that look at every lock write to no locked track.
LEMMA GuardedEditing ==
    ASSUME Ready, Editing, Guarded
    PROVE  Recorded /\ Spared(seq')
<1>1. /\ "onTop" \notin ops /\ "autoTrack" \notin ops /\ "throughEdit" \notin ops
      /\ "rippleDelete" \notin ops /\ "unlink" \notin ops /\ "link" \notin ops
      /\ "move" \notin ops /\ "trim" \notin ops
      /\ "insertTrack" \notin ops /\ "removeTrack" \notin ops /\ "moveTrack" \notin ops
  BY DEF Guarded, MateUnguarded, TracksRenumbered
<1>2. CASE Placing
  BY <1>1, <1>2, PlacingEdits, EditedRecords
<1>3. CASE Linking
  BY <1>1, <1>3 DEF Linking, UnlinkClip, LinkClip, Offered
<1>4. CASE Removing
  <2>1. CASE \E id \in ClipIds : LiftClip(id)
    BY <2>1, LiftClipEdits, EditedRecords
  <2>2. CASE \E r \in Refs(seq), in, out \in Frames : LiftRange(r, in, out) \/ RippleDeleteRange(r, in, out)
    <3>1. PICK r \in Refs(seq), in \in Frames, out \in Frames :
             LiftRange(r, in, out) \/ RippleDeleteRange(r, in, out)
      BY <2>2
    <3>2. in \in Int /\ out \in Int
      BY ReadyFacts
    <3> QED BY <3>1, <3>2, RippleDeleteRangeEdits, LiftRangeRecords, EditedRecords
  <2> QED BY <1>1, <1>4, <2>1, <2>2 DEF Removing, Offered
<1>5. CASE Cutting
  BY <1>1, <1>5, CuttingEdits, EditedRecords
<1>6. CASE Moving
  BY <1>1, <1>6, MovingEdits
<1>7. CASE Setting
  BY <1>7, SettingEdits, AttributesSpared, EditedRecords
<1>8. CASE Arranging
  <2>1. Recorded
    BY <1>8, ArrangingEdits, EditedRecords
  <2>2. PICK k \in Kinds, i \in 1 .. MaxTracks, j \in 1 .. MaxTracks :
           InsertTrack(k, i) \/ RemoveTrack(k, i) \/ RenameTrack(k, i) \/ MoveTrack(k, i, j)
    BY <1>8 DEF Arranging
  <2>3. RenameTrack(k, i)
    BY <1>1, <2>2 DEF InsertTrack, RemoveTrack, MoveTrack, Offered
  <2>4. seq' = seq
    BY <2>3 DEF RenameTrack, CommitList, Record
  <2> QED BY <2>1, <2>4 DEF Spared
<1> QED BY <1>2, <1>3, <1>4, <1>5, <1>6, <1>7, <1>8 DEF Editing

LInv == Ready /\ Guarded /\ TypeOK

KeepsLocked ==
    Guarded /\ ~EditUndo /\ ~EditRedo /\ ~OpenProject =>
        \A r \in Refs(seq) :
            Locked(seq, r) => SpansOf(ClipsAt(seq', r)) = SpansOf(ClipsAt(seq, r))

\* A step of a session keeps the types and spares the locked tracks.
LEMMA GuardedSteps ==
    ASSUME LInv, [SessionNext]_vars
    PROVE  LInv' /\ [KeepsLocked]_vars
<1>1. session' = session
  BY SessionKept
<1>2. /\ TypeOK' /\ nextId' \in Nat
      /\ Editing => Spared(seq')
  <2>1. CASE UNCHANGED vars
    <3>1. /\ TypeOK' /\ nextId' \in Nat
      BY <2>1 DEF vars, LInv, Ready, TypeOK
    <3>2. Spared(seq')
      BY <2>1 DEF vars, Spared
    <3> QED BY <3>1, <3>2
  <2>2. CASE Editing
    <3>1. Recorded /\ Spared(seq')
      BY <2>2, GuardedEditing DEF LInv
    <3> QED BY <3>1, RecordKeepsTypes DEF Recorded, LInv
  <2>3. CASE (EditUndo \/ EditRedo \/ OpenProject) /\ ~Editing
    <3>1. (Undo \/ Redo \/ Clear) /\ nextId' \in Nat
      BY <2>3, OpenUndoRedo DEF LInv
    <3>2. Clear => TypeOK'
      BY DEF Clear, TypeOK
    <3> QED BY <2>3, <3>1, <3>2, UndoRedoKeepTypes DEF LInv
  <2> QED BY <2>1, <2>2, <2>3 DEF SessionNext, Editing
<1>3. LInv'
  BY <1>1, <1>2 DEF LInv, Ready, TypeOK, Guarded, ops
<1>4. SessionNext => Editing \/ EditUndo \/ EditRedo \/ OpenProject
  BY DEF SessionNext, Editing
<1>5. [KeepsLocked]_vars
  BY <1>2, <1>4 DEF KeepsLocked, Spared
<1> QED BY <1>3, <1>5

\* For any clips, tracks and media, an edit leaves the clips of locked tracks
\* where they are (the is_locked checks of edit_ops.cpp), as long as only
\* operations are called that look at the lock of every track they change.
THEOREM LockedTracks ==
    Track = AnyTrack /\ SessionSpec => LockedTracksKept
<1>1. Track = AnyTrack /\ Guarded /\ SessionInit => LInv
  <2>1. Init => TypeOK
    BY LineInductive DEF IInv
  <2> QED BY <2>1, SessionStarts DEF LInv
<1>2. LInv /\ [SessionNext]_vars => LInv' /\ [KeepsLocked]_vars
  BY GuardedSteps
<1>3. ~Guarded /\ [SessionNext]_vars => (~Guarded)' /\ [KeepsLocked]_vars
  BY SessionKept DEF Guarded, ops, KeepsLocked
<1> QED BY <1>1, <1>2, <1>3, PTL DEF SessionSpec, LockedTracksKept, KeepsLocked

=============================================================================
