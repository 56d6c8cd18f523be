--------------------------- MODULE TimelineProofs ---------------------------
(***************************************************************************)
(* What the edits of a session (EditSession) make of the timeline: an id   *)
(* names one clip for good, the clips of a track never overlap, and the    *)
(* parts of a pair show the same frames at the same time, for any media,   *)
(* clips, tracks and bounds.                                               *)
(*                                                                         *)
(* These are invariants of the whole line of sequences that undo and redo  *)
(* go along (Line): an edit adds one sequence to it, of which each         *)
(* operation is shown to keep, on the sequence it changes, the ids known   *)
(* (NamesKept), one clip to an id (UniqueKept), links to another id that   *)
(* was given out (SoundKept), clips apart (ApartKept) and, where it acts   *)
(* on both parts, pairs whole (PairsKept).                                 *)
(***************************************************************************)
EXTENDS EditSessionProofs

-----------------------------------------------------------------------------
(* What the steps of an operation keep of a sequence *)

\* All clips of s are in G.
AllIn(s, G) == \A r \in Refs(s) : \A i \in DOMAIN ClipsAt(s, r) : ClipsAt(s, r)[i] \in G

\* No two clips of s have one id.
UniqueIds(s) ==
    \A r, q \in Refs(s) : \A i \in DOMAIN ClipsAt(s, r), j \in DOMAIN ClipsAt(s, q) :
        ClipsAt(s, r)[i].id = ClipsAt(s, q)[j].id => r = q /\ i = j

\* The clips of every track of s are apart.
AllApart(s) == \A r \in Refs(s) : Apart(ClipsAt(s, r))

KeepsNames(s, u) == \A G : ClosedUnderKin(G) /\ AllIn(s, G) => AllIn(u, G)
KeepsUnique(s, u) == UniqueIds(s) => UniqueIds(u)
KeepsApart(s, u) == AllApart(s) => AllApart(u)

\* Writing a list of clips to a track.
LEMMA SetClipsKeeps ==
    ASSUME Track = AnyTrack, NEW s \in Documents, NEW r \in Refs(s), NEW clips \in Seq(AnyClip)
    PROVE  LET u == SetClips(s, r, clips)
           IN  /\ u \in Documents /\ Refs(u) = Refs(s)
               /\ \A G : AllIn(s, G) /\ (\A i \in DOMAIN clips : clips[i] \in G) => AllIn(u, G)
               /\ UniqueIds(s) /\ Distinct(clips)
                  /\ (\A i \in DOMAIN clips, q \in Refs(s) \ {r} : \A j \in DOMAIN ClipsAt(s, q) :
                        clips[i].id # ClipsAt(s, q)[j].id)
                  => UniqueIds(u)
               /\ AllApart(s) /\ Apart(clips) => AllApart(u)
<1> DEFINE u == SetClips(s, r, clips)
<1>1. /\ u \in Documents /\ Refs(u) = Refs(s)
      /\ ClipsAt(u, r) = clips
      /\ \A q \in Refs(s) \ {r} : ClipsAt(u, q) = ClipsAt(s, q)
  BY ZenonT(30), SetClipsFacts DEF Changed
<1> HIDE DEF u
<1>2. ASSUME NEW G, AllIn(s, G), \A i \in DOMAIN clips : clips[i] \in G
      PROVE  AllIn(u, G)
  <2> SUFFICES ASSUME NEW p \in Refs(s), NEW i \in DOMAIN ClipsAt(u, p)
               PROVE  ClipsAt(u, p)[i] \in G
    BY <1>1 DEF AllIn
  <2>1. CASE p = r
    BY <1>1, <1>2, <2>1
  <2>2. CASE p # r
    BY <1>1, <1>2, <2>2 DEF AllIn
  <2> QED BY <2>1, <2>2
<1>3. ASSUME UniqueIds(s), Distinct(clips),
             \A i \in DOMAIN clips, q \in Refs(s) \ {r} : \A j \in DOMAIN ClipsAt(s, q) :
                clips[i].id # ClipsAt(s, q)[j].id
      PROVE  UniqueIds(u)
  <2> SUFFICES ASSUME NEW p \in Refs(s), NEW q \in Refs(s),
                      NEW i \in DOMAIN ClipsAt(u, p), NEW j \in DOMAIN ClipsAt(u, q),
                      ClipsAt(u, p)[i].id = ClipsAt(u, q)[j].id
               PROVE  p = q /\ i = j
    BY <1>1 DEF UniqueIds
  <2>1. CASE p = r /\ q = r
    BY <1>1, <1>3, <2>1 DEF Distinct
  <2>2. CASE p = r /\ q # r
    BY <1>1, <1>3, <2>2
  <2>3. CASE p # r /\ q = r
    BY <1>1, <1>3, <2>3
  <2>4. CASE p # r /\ q # r
    BY <1>1, <1>3, <2>4 DEF UniqueIds
  <2> QED BY <2>1, <2>2, <2>3, <2>4
<1>4. ASSUME AllApart(s), Apart(clips) PROVE AllApart(u)
  <2> SUFFICES ASSUME NEW p \in Refs(s) PROVE Apart(ClipsAt(u, p))
    BY <1>1 DEF AllApart
  <2> QED BY <1>1, <1>4 DEF AllApart
<1> QED BY <1>1, <1>2, <1>3, <1>4 DEF u

\* The ids of a track are those of no other, and not doubled there.
LEMMA UniqueTrack ==
    ASSUME NEW s, NEW r \in Refs(s), UniqueIds(s)
    PROVE  /\ Distinct(ClipsAt(s, r))
           /\ \A i \in DOMAIN ClipsAt(s, r), q \in Refs(s) \ {r} : \A j \in DOMAIN ClipsAt(s, q) :
                 ClipsAt(s, r)[i].id # ClipsAt(s, q)[j].id
BY DEF UniqueIds, Distinct

\* Writing clips with the ids the track has.
LEMMA SetClipsUnique ==
    ASSUME Track = AnyTrack, NEW s \in Documents, NEW r \in Refs(s), NEW clips \in Seq(AnyClip),
           Distinct(ClipsAt(s, r)) => Distinct(clips),
           \A i \in DOMAIN clips : \E j \in DOMAIN ClipsAt(s, r) : clips[i].id = ClipsAt(s, r)[j].id
    PROVE  KeepsUnique(s, SetClips(s, r, clips))
<1> SUFFICES ASSUME UniqueIds(s) PROVE UniqueIds(SetClips(s, r, clips))
  BY DEF KeepsUnique
<1>1. \A i \in DOMAIN clips, q \in Refs(s) \ {r} : \A j \in DOMAIN ClipsAt(s, q) :
         clips[i].id # ClipsAt(s, q)[j].id
  BY UniqueTrack
<1>2. Distinct(clips)
  BY UniqueTrack
<1> QED BY <1>1, <1>2, SetClipsKeeps

\* Removing clips.
LEMMA SelectionKeeps ==
    ASSUME Track = AnyTrack, NEW s \in Documents, NEW r \in Refs(s), NEW clips \in Seq(AnyClip),
           NEW K \in SUBSET DOMAIN ClipsAt(s, r), Selects(clips, ClipsAt(s, r), K)
    PROVE  LET u == SetClips(s, r, clips)
           IN  /\ u \in Documents /\ Refs(u) = Refs(s)
               /\ KeepsNames(s, u) /\ KeepsUnique(s, u) /\ KeepsApart(s, u)
<1> DEFINE old == ClipsAt(s, r)
<1>1. old \in Seq(AnyClip)
  BY TrackFacts
<1>2. /\ ToSet(clips) = {old[i] : i \in K}
      /\ Distinct(old) => Distinct(clips)
      /\ Apart(old) => Apart(clips)
  <2> HIDE DEF old
  <2> QED BY <1>1, SelectsFacts DEF old
<1>3. \A i \in DOMAIN clips : \E j \in DOMAIN old : clips[i] = old[j]
  <2> SUFFICES ASSUME NEW i \in DOMAIN clips PROVE \E j \in DOMAIN old : clips[i] = old[j]
    OBVIOUS
  <2>1. clips[i] \in ToSet(clips)
    BY DEF ToSet
  <2> QED BY <1>2, <2>1
<1>4. KeepsUnique(s, SetClips(s, r, clips))
  BY <1>2, <1>3, SetClipsUnique
<1>5. KeepsNames(s, SetClips(s, r, clips))
  BY <1>3, SetClipsKeeps DEF KeepsNames, AllIn
<1>6. KeepsApart(s, SetClips(s, r, clips))
  BY <1>2, SetClipsKeeps DEF KeepsApart, AllApart
<1> QED BY <1>4, <1>5, <1>6, SetClipsKeeps

LEMMA RemoveIdKeeps ==
    ASSUME Track = AnyTrack, NEW s \in Documents, NEW r \in Refs(s) \cup {NoRef}, NEW id
    PROVE  LET u == RemoveId(s, r, id)
           IN  /\ u \in Documents /\ Refs(u) = Refs(s)
               /\ KeepsNames(s, u) /\ KeepsUnique(s, u) /\ KeepsApart(s, u)
<1>1. CASE r = NoRef
  BY <1>1 DEF RemoveId, KeepsNames, KeepsUnique, KeepsApart
<1>2. CASE r # NoRef
  <2> DEFINE old == ClipsAt(s, r)
             new == WithoutId(old, id)
             K == {i \in DOMAIN old : old[i].id # id}
  <2>1. old \in Seq(AnyClip)
    BY <1>2, TrackFacts
  <2>2. new \in Seq(AnyClip) /\ Selects(new, old, K) /\ K \in SUBSET DOMAIN old
    BY <2>1, WithoutIdType, WithoutIdSelects
  <2>3. RemoveId(s, r, id) = SetClips(s, r, new)
    BY <1>2 DEF RemoveId
  <2> HIDE DEF new, K
  <2> QED BY <1>2, <2>2, <2>3, SelectionKeeps
<1> QED BY <1>1, <1>2

LEMMA RemoveMateKeeps ==
    ASSUME Track = AnyTrack, NEW s \in Documents, NEW r \in Refs(s), NEW id
    PROVE  LET u == RemoveMate(s, r, id)
           IN  /\ u \in Documents /\ Refs(u) = Refs(s)
               /\ KeepsNames(s, u) /\ KeepsUnique(s, u) /\ KeepsApart(s, u)
<1> DEFINE old == ClipsAt(s, r)
           i == IndexOfId(old, id)
           new == WithoutPointee(old, i)
<1>1. old \in Seq(AnyClip)
  BY TrackFacts
<1>2. i \in 0 .. Len(old)
  <2>1. i # 0 => i \in 1 .. Len(old)
    BY <1>1, IndexOfIdFinds
  <2> QED BY <1>1, <2>1
<1>3. new \in Seq(AnyClip)
  <2> HIDE DEF i, old
  <2> QED BY <1>1, <1>2, WithoutPointeeType
<1>4. PICK K \in SUBSET DOMAIN old : Selects(new, old, K)
  <2> HIDE DEF i, old
  <2> QED BY <1>1, <1>2, WithoutPointeeSelects
<1> HIDE DEF new
<1>5. RemoveMate(s, r, id) = SetClips(s, r, new)
  BY DEF RemoveMate, new
<1> QED BY <1>3, <1>4, <1>5, SelectionKeeps

\* Changing one clip but not its id.
LEMMA UpdatedToKeeps ==
    ASSUME Track = AnyTrack, NEW s \in Documents, NEW r \in Refs(s) \cup {NoRef}, NEW id, NEW x,
           r # NoRef /\ IndexOfId(ClipsAt(s, r), id) # 0 => x \in AnyClip /\ x.id = id
    PROVE  LET u == UpdatedTo(s, r, id, x)
               Hit == r # NoRef /\ IndexOfId(ClipsAt(s, r), id) # 0
               c == ClipWithId(s, r, id)
           IN  /\ u \in Documents /\ Refs(u) = Refs(s)
               /\ KeepsUnique(s, u)
               /\ (Hit => Kin(x, c)) => KeepsNames(s, u)
               /\ \A G : AllIn(s, G) /\ (Hit => x \in G) => AllIn(u, G)
               /\ (Hit => x.in = c.in /\ x.out = c.out) => KeepsApart(s, u)
<1>1. CASE r = NoRef
  BY <1>1 DEF UpdatedTo, KeepsUnique, KeepsNames, KeepsApart
<1>2. CASE r # NoRef
  <2> DEFINE old == ClipsAt(s, r)
             i == IndexOfId(old, id)
             new == IF i = 0 THEN old ELSE [old EXCEPT ![i] = x]
             u == UpdatedTo(s, r, id, x)
  <2>1. old \in Seq(AnyClip) /\ r \in Refs(s)
    BY <1>2, TrackFacts
  <2>2. i # 0 => i \in 1 .. Len(old) /\ old[i].id = id /\ x \in AnyClip /\ x.id = id
    BY <1>2, <2>1, IndexOfIdFinds
  <2>3. u = SetClips(s, r, new)
    BY <1>2 DEF UpdatedTo
  <2>4. i # 0 => ClipWithId(s, r, id) = old[i]
    BY DEF ClipWithId
  <2>d. AllIn(s, AnyClip) /\ (\A G : AllIn(s, G) => \A j \in DOMAIN old : old[j] \in G)
    BY <2>1, TrackFacts, ListClips DEF AllIn
  <2>e. AllApart(s) => Apart(old)
    BY <2>1 DEF AllApart
  <2> HIDE DEF old, i
  <2>5. /\ new \in Seq(AnyClip) /\ DOMAIN new = DOMAIN old
        /\ \A j \in DOMAIN old : new[j] = IF i # 0 /\ j = i THEN x ELSE old[j]
    <3>1. CASE i = 0
      BY <2>1, <3>1
    <3>2. CASE i # 0
      BY <2>1, <2>2, <3>2
    <3> QED BY <3>1, <3>2
  <2> HIDE DEF new
  <2>6. \A j \in DOMAIN old : new[j].id = old[j].id
    BY <2>2, <2>5
  <2>7. /\ u \in Documents /\ Refs(u) = Refs(s)
        /\ \A G : AllIn(s, G) /\ (\A j \in DOMAIN new : new[j] \in G) => AllIn(u, G)
        /\ AllApart(s) /\ Apart(new) => AllApart(u)
    BY <2>1, <2>3, <2>5, SetClipsKeeps
  <2>8. KeepsUnique(s, u)
    <3>1. Distinct(old) => Distinct(new)
      BY <2>5, <2>6 DEF Distinct
    <3>2. \A j \in DOMAIN new : \E k \in DOMAIN old : new[j].id = old[k].id
      BY <2>5, <2>6
    <3> QED BY <2>1, <2>3, <2>5, <3>1, <3>2, SetClipsUnique DEF old
  <2>9. \A G : AllIn(s, G) /\ (i # 0 => x \in G) => AllIn(u, G)
    BY <2>5, <2>7, <2>d
  <2>10. ASSUME i # 0 => Kin(x, old[i]) PROVE KeepsNames(s, u)
    <3> SUFFICES ASSUME NEW G, ClosedUnderKin(G), AllIn(s, G) PROVE AllIn(u, G)
      BY DEF KeepsNames
    <3>1. i # 0 => old[i] \in G
      BY <2>1, <2>2, <2>d
    <3>2. i # 0 => x \in G
      BY <2>2, <2>10, <3>1 DEF ClosedUnderKin
    <3> QED BY <2>9, <3>2
  <2>11. ASSUME i # 0 => x.in = old[i].in /\ x.out = old[i].out PROVE KeepsApart(s, u)
    <3> SUFFICES ASSUME AllApart(s) PROVE AllApart(u)
      BY DEF KeepsApart
    <3>1. \A j \in DOMAIN old : new[j].in = old[j].in /\ new[j].out = old[j].out
      BY <2>5, <2>11
    <3>2. Apart(new)
      BY <2>5, <2>e, <3>1 DEF Apart
    <3> QED BY <2>7, <3>2
  <2> QED BY <1>2, <2>4, <2>7, <2>8, <2>9, <2>10, <2>11 DEF old, i
<1> QED BY <1>1, <1>2

\* Clips in a list, one by one and together.
LEMMA ListIn ==
    ASSUME NEW G, NEW clips \in Seq(AnyClip)
    PROVE  (\A i \in DOMAIN clips : clips[i] \in G) <=> clips \in Seq(G)
OBVIOUS

LEMMA AllInLists ==
    ASSUME Track = AnyTrack, NEW s \in Documents, NEW G
    PROVE  AllIn(s, G) <=> \A r \in Refs(s) : ClipsAt(s, r) \in Seq(G)
BY TrackFacts, ListIn DEF AllIn

\* Writing a list of clips of G.
LEMMA SetClipsIn ==
    ASSUME Track = AnyTrack, NEW s \in Documents, NEW r \in Refs(s), NEW G, G \subseteq AnyClip,
           AllIn(s, G), NEW clips \in Seq(G)
    PROVE  AllIn(SetClips(s, r, clips), G)
<1>1. clips \in Seq(AnyClip) /\ \A i \in DOMAIN clips : clips[i] \in G
  OBVIOUS
<1> QED BY <1>1, SetClipsKeeps

\* A clip put down on a track is added to what it leaves of the others.
LEMMA PutDownKeeps ==
    ASSUME Track = AnyTrack, NEW s \in Documents, NEW r \in Refs(s), NEW c \in AnyClip
    PROVE  LET u == PutDown(s, r, c)
           IN  /\ u \in Documents /\ Refs(u) = Refs(s)
               /\ \A G : ClosedUnderKin(G) /\ AllIn(s, G) /\ c \in G => AllIn(u, G)
               /\ 0 <= c.in /\ c.in < c.out => KeepsApart(s, u)
<1> DEFINE clips == ClipsAt(s, r)
           kept == ClippedRange(clips, c.in, c.out)
           new == InsertSorted(kept, c)
           u == PutDown(s, r, c)
<1>1. c.in \in Int /\ c.out \in Int
  BY ClipNumbers
<1>2. u = SetClips(s, r, new)
  BY DEF PutDown
<1>3. clips \in Seq(AnyClip)
  BY TrackFacts
<1>4. kept \in Seq(AnyClip)
  BY <1>1, <1>3, ListTypes
<1>5. new \in Seq(AnyClip)
  BY <1>4, InsertSortedType
<1>6. ASSUME NEW G, ClosedUnderKin(G), AllIn(s, G), c \in G
      PROVE  AllIn(u, G)
  <2>1. clips \in Seq(G) /\ G \subseteq AnyClip
    BY <1>6, AllInLists DEF ClosedUnderKin
  <2>2. kept \in Seq(G)
    BY <1>1, <1>6, <2>1, ClippedRangeType
  <2>3. new \in Seq(G)
    BY <1>6, <2>2, InsertSortedType
  <2> HIDE DEF new, u
  <2> QED BY <1>2, <1>6, <2>1, <2>3, SetClipsIn
<1>7. ASSUME 0 <= c.in, c.in < c.out, AllApart(s)
      PROVE  AllApart(u)
  <2>1. Apart(clips)
    BY <1>7 DEF AllApart
  <2> HIDE DEF clips
  <2>2. c.in <= c.out
    BY <1>1, <1>7
  <2>3. /\ Apart(kept)
        /\ \A p \in DOMAIN kept : \/ kept[p].out <= c.in \/ c.out <= kept[p].in
                                  \/ kept[p].out <= kept[p].in
    BY <1>1, <1>3, <2>1, <2>2, ClippedRangeParts
  <2>4. \A p \in DOMAIN kept : kept[p].out <= c.in \/ c.out <= kept[p].in
    <3> SUFFICES ASSUME NEW p \in DOMAIN kept PROVE kept[p].out <= c.in \/ c.out <= kept[p].in
      OBVIOUS
    <3>1. kept[p].in < kept[p].out
      BY <2>3 DEF Apart
    <3>2. kept[p].in \in Int /\ kept[p].out \in Int
      BY <1>4, ListClips, ClipNumbers
    <3> HIDE DEF kept
    <3> QED BY <2>3, <3>1, <3>2
  <2> HIDE DEF kept
  <2>5. Apart(new)
    BY <1>4, <1>7, <2>3, <2>4, InsertSortedFacts
  <2> HIDE DEF new, u
  <2> QED BY <1>2, <1>5, <1>7, <2>5, SetClipsKeeps
<1>8. u \in Documents /\ Refs(u) = Refs(s)
  <2> HIDE DEF new
  <2> QED BY <1>2, <1>5, SetClipsKeeps
<1> QED BY <1>6, <1>7, <1>8 DEF KeepsApart

\* Closing or opening a gap on a track.
LEMMA CloseKeeps ==
    ASSUME Track = AnyTrack, NEW s \in Documents, NEW r \in Refs(s),
           NEW from \in Int, NEW delta \in Int
    PROVE  LET u == SetClips(s, r, ShiftFrom(ClipsAt(s, r), from, delta))
           IN  /\ u \in Documents /\ Refs(u) = Refs(s)
               /\ KeepsNames(s, u) /\ KeepsUnique(s, u)
               /\ /\ 0 <= from
                  /\ \A i \in DOMAIN ClipsAt(s, r) :
                        \/ ClipsAt(s, r)[i].out <= from
                        \/ from <= ClipsAt(s, r)[i].in /\ from <= ClipsAt(s, r)[i].in + delta
                  => KeepsApart(s, u)
<1> DEFINE clips == ClipsAt(s, r)
           new == ShiftFrom(clips, from, delta)
           u == SetClips(s, r, new)
<1>1. clips \in Seq(AnyClip)
  BY TrackFacts
<1>2. new \in Seq(AnyClip)
  BY <1>1, ListTypes
<1>3. DOMAIN new = DOMAIN clips /\ \A i \in DOMAIN clips : new[i].id = clips[i].id
  <2>1. DOMAIN new = DOMAIN clips
    BY DEF ShiftFrom
  <2>2. ASSUME NEW i \in DOMAIN clips PROVE new[i].id = clips[i].id
    <3>1. clips[i] \in AnyClip
      BY <1>1, ListClips
    <3>2. Shifted(clips[i], delta).id = clips[i].id
      BY <3>1 DEF Shifted, AnyClip
    <3>3. new[i] = IF clips[i].in >= from THEN Shifted(clips[i], delta) ELSE clips[i]
      BY DEF ShiftFrom
    <3> HIDE DEF new, clips
    <3> QED BY <3>2, <3>3
  <2> QED BY <2>1, <2>2
<1>4. KeepsUnique(s, u)
  <2>1. Distinct(clips) => Distinct(new)
    <3> HIDE DEF clips, new
    <3> QED BY <1>3 DEF Distinct
  <2>2. \A i \in DOMAIN new : \E j \in DOMAIN clips : new[i].id = clips[j].id
    <3> HIDE DEF clips, new
    <3> QED BY <1>3
  <2> HIDE DEF new
  <2> QED BY <1>2, <2>1, <2>2, SetClipsUnique
<1>5. ASSUME NEW G, ClosedUnderKin(G), AllIn(s, G) PROVE AllIn(u, G)
  <2>1. clips \in Seq(G) /\ G \subseteq AnyClip
    BY <1>5, AllInLists DEF ClosedUnderKin
  <2>2. new \in Seq(G)
    BY <1>5, <2>1, ShiftFromType
  <2> HIDE DEF new
  <2> QED BY <1>5, <2>1, <2>2, SetClipsIn
<1>6. ASSUME 0 <= from, AllApart(s),
             \A i \in DOMAIN clips : \/ clips[i].out <= from
                                     \/ from <= clips[i].in /\ from <= clips[i].in + delta
      PROVE  AllApart(u)
  <2>1. Apart(clips)
    BY <1>6 DEF AllApart
  <2>2. from \in Nat
    BY <1>6
  <2> HIDE DEF clips
  <2>3. Apart(new)
    BY <1>1, <1>6, <2>1, <2>2, ShiftFromApart
  <2> HIDE DEF new
  <2> QED BY <1>2, <1>6, <2>3, SetClipsKeeps
<1>7. u \in Documents /\ Refs(u) = Refs(s)
  BY <1>2, SetClipsKeeps
<1> QED BY <1>4, <1>5, <1>6, <1>7, Zenon DEF KeepsNames, KeepsApart

\* Changing a link.
LEMMA RelinkKeeps ==
    ASSUME Track = AnyTrack, NEW s \in Documents, NEW r \in Refs(s) \cup {NoRef}, NEW id,
           NEW link \in Nat
    PROVE  LET u == Relink(s, r, id, link)
               x == [ClipWithId(s, r, id) EXCEPT !.link = link]
               Hit == r # NoRef /\ IndexOfId(ClipsAt(s, r), id) # 0
           IN  /\ u \in Documents /\ Refs(u) = Refs(s)
               /\ Hit => x \in AnyClip /\ x.id = id
               /\ KeepsUnique(s, u) /\ KeepsApart(s, u)
               /\ link = 0 => KeepsNames(s, u)
               /\ \A G : AllIn(s, G) /\ (Hit => x \in G) => AllIn(u, G)
<1> DEFINE c == ClipWithId(s, r, id)
           x == [c EXCEPT !.link = link]
           Hit == r # NoRef /\ IndexOfId(ClipsAt(s, r), id) # 0
           u == UpdatedTo(s, r, id, x)
<1>1. Relink(s, r, id, link) = u
  BY DEF Relink, UpdateAt, UpdateId, UpdatedTo, ClipWithId
<1>2. ASSUME Hit
      PROVE  c \in AnyClip /\ c.id = id
  <2>1. ClipsAt(s, r) \in Seq(AnyClip) /\ r \in Refs(s)
    BY <1>2, TrackFacts
  <2> QED BY <1>2, <2>1, FoundClip, IndexOfIdFinds DEF ClipWithId
<1>3. Hit => x \in AnyClip /\ x.id = id /\ x.in = c.in /\ x.out = c.out /\ x.link = link
  BY <1>2 DEF AnyClip
<1>4. Hit /\ link = 0 => Kin(x, c)
  BY <1>2, <1>3 DEF Kin
<1>5. /\ u \in Documents /\ Refs(u) = Refs(s)
      /\ KeepsUnique(s, u)
      /\ (Hit => Kin(x, c)) => KeepsNames(s, u)
      /\ \A G : AllIn(s, G) /\ (Hit => x \in G) => AllIn(u, G)
      /\ (Hit => x.in = c.in /\ x.out = c.out) => KeepsApart(s, u)
  <2> HIDE DEF x
  <2> QED BY <1>3, UpdatedToKeeps
<1> HIDE DEF x, u, c
<1> QED BY <1>1, <1>3, <1>4, <1>5 DEF x, c

\* Clips with ids that are given out, and with sound links besides.
Named(n) == {c \in AnyClip : c.id < n}
Sound(n) == {c \in AnyClip : c.id < n /\ c.link < n /\ (c.link # 0 => c.link # c.id)}

LEMMA NamedSets ==
    ASSUME NEW n \in Nat
    PROVE  /\ ClosedUnderKin(Named(n)) /\ Named(n) \subseteq AnyClip
           /\ n # 0 => ClosedUnderKin(Sound(n))
           /\ Sound(n) \subseteq Named(n)
           /\ \A m \in Nat : n <= m => Named(n) \subseteq Named(m) /\ Sound(n) \subseteq Sound(m)
<1>1. \A c \in AnyClip : c.id \in Nat /\ c.link \in Nat
  BY DEF AnyClip
<1>2. ClosedUnderKin(Named(n))
  BY DEF ClosedUnderKin, Named, Kin
<1>3. n # 0 => ClosedUnderKin(Sound(n))
  BY <1>1 DEF ClosedUnderKin, Sound, Kin
<1>4. \A m \in Nat : n <= m => Named(n) \subseteq Named(m) /\ Sound(n) \subseteq Sound(m)
  BY <1>1 DEF Named, Sound
<1> QED BY <1>2, <1>3, <1>4 DEF Named, Sound

LEMMA AllInMore ==
    ASSUME NEW s, NEW G, NEW H, AllIn(s, G), G \subseteq H
    PROVE  AllIn(s, H)
BY DEF AllIn

\* What an operation keeps that gives out no id or link.
Keeps(s, u) ==
    /\ u \in Documents
    /\ Refs(u) = Refs(s)
    /\ KeepsNames(s, u)
    /\ KeepsUnique(s, u)
    /\ KeepsApart(s, u)

LEMMA KeepsTwice ==
    ASSUME NEW s, NEW t, NEW u, Keeps(s, t), Keeps(t, u)
    PROVE  Keeps(s, u)
BY DEF Keeps, KeepsNames, KeepsUnique, KeepsApart

-----------------------------------------------------------------------------
(* Placing *)

LEMMA DivNat ==
    ASSUME NEW a \in Nat, NEW b \in Nat \ {0}
    PROVE  a \div b \in Nat
OBVIOUS

\* A placed clip does not end before it starts.
LEMMA LlroundNat ==
    ASSUME NEW a \in Nat, NEW b \in Nat \ {0}
    PROVE  Llround(a, b) \in Nat
<1>1. 2 * a + b \in Nat /\ 2 * b \in Nat \ {0}
  OBVIOUS
<1>2. (2 * a + b) \div (2 * b) \in Nat
  BY <1>1, DivNat
<1> QED BY <1>2 DEF Llround

LEMMA ProductNat ==
    ASSUME NEW a \in Nat, NEW b \in Nat
    PROVE  a * b \in Nat
OBVIOUS

\* How many frames a clip of n source frames lasts.
FramesOf(n, m) == Llround(n * Media[m].num, Media[m].den)

LEMMA FramesNat ==
    ASSUME NEW n \in Nat, NEW m \in DOMAIN Media
    PROVE  FramesOf(n, m) \in Nat
BY MediaAssumption, ProductNat, LlroundNat DEF FramesOf

\* A clip put down among clips that are apart.
LEMMA OverwriteApart ==
    ASSUME NEW clips \in Seq(AnyClip), NEW c \in AnyClip, Apart(clips), 0 <= c.in, c.in < c.out
    PROVE  Apart(InsertSorted(ClippedRange(clips, c.in, c.out), c))
<1> DEFINE kept == ClippedRange(clips, c.in, c.out)
<1>1. c.in \in Int /\ c.out \in Int /\ c.in <= c.out
  BY ClipNumbers
<1>2. /\ Apart(kept)
      /\ \A p \in DOMAIN kept : \/ kept[p].out <= c.in \/ c.out <= kept[p].in
                                \/ kept[p].out <= kept[p].in
  BY <1>1, ClippedRangeParts
<1>3. kept \in Seq(AnyClip)
  BY <1>1, ListTypes
<1> HIDE DEF kept
<1>4. ASSUME NEW p \in DOMAIN kept PROVE kept[p].out <= c.in \/ c.out <= kept[p].in
  <2>1. kept[p].in < kept[p].out
    BY <1>2 DEF Apart
  <2>2. kept[p].in \in Int /\ kept[p].out \in Int
    BY <1>3, ListClips, ClipNumbers
  <2> QED BY <1>2, <2>1, <2>2
<1> QED BY <1>2, <1>3, <1>4, InsertSortedFacts DEF kept

LEMMA InsertApart ==
    ASSUME NEW clips \in Seq(AnyClip), NEW c \in AnyClip, Apart(clips), 0 <= c.in, c.in < c.out
    PROVE  Apart(InsertSorted(ShiftFrom(SplitAt(clips, c.in), c.in, Duration(c)), c))
<1> DEFINE split == SplitAt(clips, c.in)
           d == Duration(c)
           moved == ShiftFrom(split, c.in, d)
<1>1. /\ c.in \in Nat /\ c.in \in Int /\ c.out \in Int /\ d \in Int /\ 0 <= d
      /\ c.in + d = c.out
  BY ClipNumbers DEF Duration
<1> HIDE DEF d
<1>a. split \in Seq(AnyClip)
  BY <1>1, ListTypes
<1>2. /\ split \in Seq(AnyClip) /\ Apart(split)
      /\ \A p \in DOMAIN split : split[p].out <= c.in \/ c.in <= split[p].in
  BY <1>1, <1>a, SplitAtParts
<1> HIDE DEF split
<1>3. \A p \in DOMAIN split : \/ split[p].out <= c.in
                              \/ c.in <= split[p].in /\ c.in <= split[p].in + d
  <2>1. \A p \in DOMAIN split : split[p].in \in Int
    BY <1>2, ListClips, ClipNumbers
  <2> QED BY <1>1, <1>2, <2>1
<1>b. moved \in Seq(AnyClip)
  BY <1>1, <1>2, ListTypes
<1>4. /\ moved \in Seq(AnyClip) /\ Apart(moved)
      /\ \A i \in DOMAIN moved : moved[i].out <= c.in \/ c.in + d <= moved[i].in
  BY <1>1, <1>2, <1>3, <1>b, ShiftFromApart
<1> HIDE DEF moved
<1>5. \A i \in DOMAIN moved : moved[i].out <= c.in \/ c.out <= moved[i].in
  BY <1>1, <1>4
<1> QED BY <1>4, <1>5, InsertSortedFacts DEF moved, split, d

LEMMA PlacedFacts ==
    ASSUME NEW clips \in Seq(AnyClip), NEW c \in AnyClip, NEW mode
    PROVE  LET new == Placed(clips, c, mode)
           IN  /\ new \in Seq(AnyClip)
               /\ \A G : ClosedUnderKin(G) /\ clips \in Seq(G) /\ c \in G => new \in Seq(G)
               /\ Apart(clips) /\ 0 <= c.in /\ c.in < c.out => Apart(new)
               /\ mode = "append" /\ c.in = EndFrame(clips) /\ c.in <= c.out
                  => new = InsertSorted(clips, c)
<1> DEFINE new == Placed(clips, c, mode)
           kept == ClippedRange(clips, c.in, c.out)
           moved == ShiftFrom(SplitAt(clips, c.in), c.in, Duration(c))
<1>1. new = InsertSorted(IF mode = "insert" THEN moved ELSE kept, c)
  BY DEF Placed
<1>2. c.in \in Int /\ c.out \in Int /\ Duration(c) \in Int
  BY ClipNumbers DEF Duration
<1>3. new \in Seq(AnyClip)
  BY PlacedType
<1>4. ASSUME NEW G, ClosedUnderKin(G), clips \in Seq(G), c \in G
      PROVE  new \in Seq(G)
  <2>1. kept \in Seq(G)
    BY <1>2, <1>4, ClippedRangeType
  <2>2. SplitAt(clips, c.in) \in Seq(G)
    BY <1>2, <1>4, SplitAtType
  <2>3. moved \in Seq(G)
    BY <1>2, <1>4, <2>2, ShiftFromType
  <2> HIDE DEF kept, moved, new
  <2> QED BY <1>1, <1>4, <2>1, <2>3, InsertSortedType
<1>5. ASSUME Apart(clips), 0 <= c.in, c.in < c.out PROVE Apart(new)
  BY <1>1, <1>5, OverwriteApart, InsertApart
<1>6. ASSUME mode = "append", c.in = EndFrame(clips), c.in <= c.out
      PROVE  new = InsertSorted(clips, c)
  <2>1. \A i \in DOMAIN clips : ~Overlaps(clips[i], c.in, c.out)
    <3>1. ASSUME NEW i \in DOMAIN clips PROVE ~Overlaps(clips[i], c.in, c.out)
      <4>1. clips[i].out <= c.in /\ clips[i].out \in Int
        BY <1>6, EndFrameType, ListClips, ClipNumbers
      <4> QED BY <1>2, <4>1 DEF Overlaps
    <3> QED BY <3>1
  <2>2. kept = clips
    BY <1>2, <1>6, <2>1, ClippedRangeParts
  <2> HIDE DEF kept, new
  <2> QED BY <1>1, <1>6, <2>2
<1> HIDE DEF new
<1> QED BY <1>3, <1>4, <1>5, <1>6 DEF new

\* A clip with an id of its own, placed on a track.
LEMMA PlacedKeeps ==
    ASSUME Track = AnyTrack, NEW s \in Documents, NEW r \in Refs(s), NEW c \in AnyClip, NEW mode
    PROVE  LET u == SetClips(s, r, Placed(ClipsAt(s, r), c, mode))
           IN  /\ u \in Documents /\ Refs(u) = Refs(s)
               /\ \A q \in Refs(s) \ {r} : ClipsAt(u, q) = ClipsAt(s, q)
               /\ \A G : ClosedUnderKin(G) /\ AllIn(s, G) /\ c \in G => AllIn(u, G)
               /\ 0 <= c.in /\ c.in < c.out => KeepsApart(s, u)
               /\ /\ mode = "append" /\ c.in = EndFrame(ClipsAt(s, r)) /\ c.in <= c.out
                  /\ AllIn(s, Named(c.id))
                  => KeepsUnique(s, u)
<1> DEFINE clips == ClipsAt(s, r)
           new == Placed(clips, c, mode)
           u == SetClips(s, r, new)
<1>1. clips \in Seq(AnyClip)
  BY TrackFacts
<1>2. new \in Seq(AnyClip)
  BY <1>1, PlacedFacts
<1>3. /\ u \in Documents /\ Refs(u) = Refs(s)
      /\ \A q \in Refs(s) \ {r} : ClipsAt(u, q) = ClipsAt(s, q)
  <2> HIDE DEF new
  <2> QED BY ZenonT(30), <1>2, SetClipsFacts DEF Changed
<1>4. ASSUME NEW G, ClosedUnderKin(G), AllIn(s, G), c \in G
      PROVE  AllIn(u, G)
  <2>1. clips \in Seq(G) /\ G \subseteq AnyClip
    BY <1>4, AllInLists DEF ClosedUnderKin
  <2>2. new \in Seq(G)
    BY <1>1, <1>4, <2>1, PlacedFacts
  <2> HIDE DEF new
  <2> QED BY <1>4, <2>1, <2>2, SetClipsIn
<1>5. ASSUME 0 <= c.in, c.in < c.out, AllApart(s) PROVE AllApart(u)
  <2>1. Apart(clips)
    BY <1>5 DEF AllApart
  <2>2. Apart(new)
    BY <1>1, <1>5, <2>1, PlacedFacts
  <2> HIDE DEF new
  <2> QED BY <1>2, <1>5, <2>2, SetClipsKeeps
<1>6. ASSUME mode = "append", c.in = EndFrame(clips), c.in <= c.out, AllIn(s, Named(c.id)),
             UniqueIds(s)
      PROVE  UniqueIds(u)
  <2>1. new = InsertSorted(clips, c)
    BY <1>1, <1>6, PlacedFacts
  <2>2. \A q \in Refs(s) : \A i \in DOMAIN ClipsAt(s, q) : ClipsAt(s, q)[i].id # c.id
    <3>1. SUFFICES ASSUME NEW q \in Refs(s), NEW i \in DOMAIN ClipsAt(s, q)
                   PROVE  ClipsAt(s, q)[i].id # c.id
      OBVIOUS
    <3>2. ClipsAt(s, q)[i] \in AnyClip /\ ClipsAt(s, q)[i].id < c.id
      BY <1>6 DEF AllIn, Named
    <3> QED BY <3>2, ClipNumbers
  <2>3. Distinct(clips)
    BY <1>6, UniqueTrack
  <2>4. \A i \in DOMAIN clips : clips[i].id # c.id
    BY <2>2
  <2>5. Distinct(new)
    <3> HIDE DEF clips, new
    <3> QED BY <1>1, <2>1, <2>3, <2>4, InsertSortedFacts
  <2>6. \A i \in DOMAIN new : new[i] = c \/ \E j \in DOMAIN clips : new[i] = clips[j]
    <3>1. ToSet(new) = ToSet(clips) \cup {c}
      <4> HIDE DEF clips, new
      <4> QED BY <1>1, <2>1, InsertSortedFacts
    <3> HIDE DEF clips, new
    <3> QED BY <3>1 DEF ToSet
  <2>7. \A i \in DOMAIN new, q \in Refs(s) \ {r} : \A j \in DOMAIN ClipsAt(s, q) :
           new[i].id # ClipsAt(s, q)[j].id
    <3>1. SUFFICES ASSUME NEW i \in DOMAIN new, NEW q \in Refs(s) \ {r},
                          NEW j \in DOMAIN ClipsAt(s, q)
                   PROVE  new[i].id # ClipsAt(s, q)[j].id
      OBVIOUS
    <3>2. CASE new[i] = c
      BY <2>2, <3>2
    <3>3. CASE \E k \in DOMAIN clips : new[i] = clips[k]
      <4> HIDE DEF new
      <4> QED BY <1>6, <3>3, UniqueTrack
    <3> QED BY <2>6, <3>2, <3>3
  <2> HIDE DEF new
  <2> QED BY <1>2, <1>6, <2>5, <2>7, SetClipsKeeps
<1> QED BY <1>3, <1>4, <1>5, <1>6 DEF KeepsApart, KeepsUnique

\* What an operation leaves: ids given out, links sound, no id doubled.
NamesKept == AllIn(seq, Named(nextId)) => AllIn(seq', Named(nextId'))
SoundKept == UniqueIds(seq) /\ AllIn(seq, Sound(nextId)) => AllIn(seq', Sound(nextId'))
UniqueKept == AllIn(seq, Named(nextId)) => KeepsUnique(seq, seq')
ApartKept == KeepsApart(seq, seq')

LEMMA CommitGives ==
    ASSUME Ready, NEW t, NEW refs, NEW n \in Nat, Commit(seq, t, refs, n)
    PROVE  seq' = t /\ nextId' = nextId + n /\ nextId' \in Nat /\ nextId <= nextId'
BY DEF Ready, Commit, Record

\* The operations that give out no id.
LEMMA KeepsKept ==
    ASSUME nextId \in Nat \ {0}, nextId' \in Nat, nextId <= nextId', KeepsNames(seq, seq')
    PROVE  NamesKept /\ SoundKept
<1>1. /\ ClosedUnderKin(Named(nextId)) /\ ClosedUnderKin(Sound(nextId))
      /\ Named(nextId) \subseteq Named(nextId') /\ Sound(nextId) \subseteq Sound(nextId')
  BY NamedSets
<1> QED BY <1>1, AllInMore DEF KeepsNames, NamesKept, SoundKept

\* Every placed clip lasts a frame.
FramesPlaced == \A m \in DOMAIN Media, n \in Lengths : FramesOf(n, m) >= 1

LEMMA StartNat ==
    ASSUME NEW clips \in Seq(AnyClip), NEW in \in Nat, NEW mode
    PROVE  StartOf(clips, in, mode) \in Nat
BY EndFrameType DEF StartOf

LEMMA PlacedClip ==
    ASSUME NEW clips \in Seq(AnyClip), NEW id \in Nat, NEW m \in DOMAIN Media, NEW in \in Nat,
           NEW length \in Nat, NEW link \in Nat, NEW mode
    PROVE  LET c == NewClip(id, m, StartOf(clips, in, mode), length, link)
           IN  /\ c \in AnyClip /\ c.id = id /\ c.link = link /\ 0 <= c.in /\ c.in <= c.out
               /\ FramesOf(length, m) >= 1 => c.in < c.out
               /\ mode = "append" => c.in = EndFrame(clips)
<1> DEFINE p == StartOf(clips, in, mode)
           c == NewClip(id, m, p, length, link)
<1>1. p \in Nat /\ p \in Int /\ (mode = "append" => p = EndFrame(clips))
  BY StartNat DEF StartOf
<1> HIDE DEF p
<1>2. /\ c \in AnyClip /\ c.id = id /\ c.link = link /\ c.in = p /\ c.in <= c.out
      /\ c.out = p + FramesOf(length, m) /\ FramesOf(length, m) \in Nat
  <2>1. c \in AnyClip
    BY <1>1, NewClipType
  <2>2. FramesOf(length, m) \in Nat
    BY FramesNat
  <2>3. c.id = id /\ c.link = link /\ c.in = p /\ c.out = p + FramesOf(length, m)
    BY DEF NewClip, FramesOf
  <2>4. c.in <= c.out
    BY <1>1, <2>2, <2>3
  <2> HIDE DEF c
  <2> QED BY <2>1, <2>2, <2>3, <2>4
<1> HIDE DEF c
<1>3. 0 <= c.in /\ (FramesOf(length, m) >= 1 => c.in < c.out)
  BY <1>1, <1>2
<1> QED BY <1>1, <1>2, <1>3 DEF c, p

LEMMA PlaceOnKeeps ==
    ASSUME Ready, nextId # 0, NEW r \in Refs(seq), NEW m \in DOMAIN Media, NEW in \in Nat,
           NEW length \in Lengths, NEW mode, PlaceOn(seq, r, m, in, length, mode)
    PROVE  /\ NamesKept /\ SoundKept
           /\ mode = "append" => UniqueKept
           /\ FramesPlaced => ApartKept
<1> DEFINE clips == ClipsAt(seq, r)
           c == NewClip(nextId, m, StartOf(clips, in, mode), length, 0)
           t == SetClips(seq, r, Placed(clips, c, mode))
<1>1. Commit(seq, t, {r}, 1)
  BY DEF PlaceOn
<1>2. clips \in Seq(AnyClip) /\ seq \in Documents /\ nextId \in Nat /\ Track = AnyTrack
  BY TrackFacts DEF Ready
<1>3. length \in Nat /\ 0 \in Nat
  BY ReadyFacts
<1>4. /\ c \in AnyClip /\ c.id = nextId /\ c.link = 0 /\ 0 <= c.in /\ c.in <= c.out
      /\ FramesPlaced => c.in < c.out
      /\ mode = "append" => c.in = EndFrame(clips)
  <2>1. FramesPlaced => FramesOf(length, m) >= 1
    BY DEF FramesPlaced
  <2>2. c.id = nextId /\ c.link = 0
    BY DEF NewClip
  <2> HIDE DEF clips
  <2>3. c \in AnyClip /\ 0 <= c.in /\ c.in <= c.out
    BY <1>2, <1>3, PlacedClip
  <2>4. FramesOf(length, m) >= 1 => c.in < c.out
    BY <1>2, <1>3, PlacedClip
  <2>5. mode = "append" => c.in = EndFrame(clips)
    BY <1>2, <1>3, PlacedClip
  <2> HIDE DEF c
  <2> QED BY <2>1, <2>2, <2>3, <2>4, <2>5
<1> HIDE DEF c
<1>6. seq' = t /\ nextId' = nextId + 1 /\ nextId' \in Nat /\ nextId <= nextId'
  BY <1>1, <1>2, CommitGives
<1>7. /\ \A G : ClosedUnderKin(G) /\ AllIn(seq, G) /\ c \in G => AllIn(t, G)
      /\ FramesPlaced => KeepsApart(seq, t)
      /\ mode = "append" /\ AllIn(seq, Named(nextId)) => KeepsUnique(seq, t)
  BY <1>2, <1>4, PlacedKeeps
<1> HIDE DEF t
<1>8. /\ ClosedUnderKin(Named(nextId')) /\ ClosedUnderKin(Sound(nextId'))
      /\ Named(nextId) \subseteq Named(nextId') /\ Sound(nextId) \subseteq Sound(nextId')
  BY <1>2, <1>6, NamedSets
<1>9. c \in Named(nextId') /\ c \in Sound(nextId')
  BY <1>2, <1>4, <1>6 DEF Named, Sound
<1> QED BY <1>6, <1>7, <1>8, <1>9, AllInMore DEF NamesKept, SoundKept, UniqueKept, ApartKept

LEMMA PlaceLinkedKeeps ==
    ASSUME Ready, nextId # 0, NEW vi \in DOMAIN seq["video"], NEW ai \in DOMAIN seq["audio"],
           NEW m \in DOMAIN Media, NEW in \in Nat, NEW length \in Lengths, NEW mode,
           mode # "onTop", PlaceLinked(vi, ai, m, in, length, mode)
    PROVE  /\ NamesKept /\ SoundKept
           /\ mode = "append" => UniqueKept
           /\ FramesPlaced => ApartKept
<1> DEFINE vr == <<"video", vi>>
           ar == <<"audio", ai>>
           v == NewClip(nextId, m, StartOf(ClipsAt(seq, vr), in, mode), length, nextId + 1)
           a == NewClip(nextId + 1, m, StartOf(ClipsAt(seq, ar), in, mode), length, nextId)
           t == SetClips(seq, vr, Placed(ClipsAt(seq, vr), v, mode))
           u == SetClips(t, ar, Placed(ClipsAt(t, ar), a, mode))
<1>1. Commit(seq, u, {vr, ar}, 2)
  BY DEF PlaceLinked
<1>2. /\ seq \in Documents /\ nextId \in Nat /\ nextId + 1 \in Nat /\ Track = AnyTrack
      /\ "video" \in Kinds /\ "audio" \in Kinds /\ length \in Nat
  BY ReadyFacts DEF Ready, Kinds
<1>3. vr \in Refs(seq) /\ ar \in Refs(seq) /\ vr # ar
  BY <1>2, RefIntro
<1>4. seq' = u /\ nextId' = nextId + 2 /\ nextId' \in Nat /\ nextId <= nextId'
  BY <1>1, <1>2, CommitGives
<1> HIDE DEF vr, ar
<1>5. ClipsAt(seq, vr) \in Seq(AnyClip) /\ ClipsAt(seq, ar) \in Seq(AnyClip)
  BY <1>2, <1>3, TrackFacts
<1>a. FramesPlaced => FramesOf(length, m) >= 1
  BY DEF FramesPlaced
<1>6. /\ v \in AnyClip /\ v.id = nextId /\ v.link = nextId + 1 /\ 0 <= v.in /\ v.in <= v.out
      /\ FramesPlaced => v.in < v.out
      /\ mode = "append" => v.in = EndFrame(ClipsAt(seq, vr))
  <2> DEFINE clips == ClipsAt(seq, vr)
             c == NewClip(nextId, m, StartOf(clips, in, mode), length, nextId + 1)
  <2>1. c.id = nextId /\ c.link = nextId + 1
    BY DEF NewClip
  <2>2. clips \in Seq(AnyClip)
    BY <1>5
  <2> HIDE DEF clips
  <2>3. c \in AnyClip /\ 0 <= c.in /\ c.in <= c.out
    BY <1>2, <2>2, PlacedClip
  <2>4. FramesOf(length, m) >= 1 => c.in < c.out
    BY <1>2, <2>2, PlacedClip
  <2>5. mode = "append" => c.in = EndFrame(clips)
    BY <1>2, <2>2, PlacedClip
  <2>6. v = c
    BY DEF clips
  <2> HIDE DEF v, c
  <2> QED BY <1>a, <2>1, <2>3, <2>4, <2>5, <2>6 DEF clips
<1>7. /\ a \in AnyClip /\ a.id = nextId + 1 /\ a.link = nextId /\ 0 <= a.in /\ a.in <= a.out
      /\ FramesPlaced => a.in < a.out
      /\ mode = "append" => a.in = EndFrame(ClipsAt(seq, ar))
  <2> DEFINE clips == ClipsAt(seq, ar)
             c == NewClip(nextId + 1, m, StartOf(clips, in, mode), length, nextId)
  <2>1. c.id = nextId + 1 /\ c.link = nextId
    BY DEF NewClip
  <2>2. clips \in Seq(AnyClip)
    BY <1>5
  <2> HIDE DEF clips
  <2>3. c \in AnyClip /\ 0 <= c.in /\ c.in <= c.out
    BY <1>2, <2>2, PlacedClip
  <2>4. FramesOf(length, m) >= 1 => c.in < c.out
    BY <1>2, <2>2, PlacedClip
  <2>5. mode = "append" => c.in = EndFrame(clips)
    BY <1>2, <2>2, PlacedClip
  <2>6. a = c
    BY DEF clips
  <2> HIDE DEF a, c
  <2> QED BY <1>a, <2>1, <2>3, <2>4, <2>5, <2>6 DEF clips
<1> HIDE DEF v, a
<1>8. /\ t \in Documents /\ Refs(t) = Refs(seq) /\ ClipsAt(t, ar) = ClipsAt(seq, ar)
      /\ \A G : ClosedUnderKin(G) /\ AllIn(seq, G) /\ v \in G => AllIn(t, G)
      /\ FramesPlaced => KeepsApart(seq, t)
      /\ mode = "append" /\ AllIn(seq, Named(nextId)) => KeepsUnique(seq, t)
  BY <1>2, <1>3, <1>6, PlacedKeeps
<1> HIDE DEF t
<1>9. /\ \A G : ClosedUnderKin(G) /\ AllIn(t, G) /\ a \in G => AllIn(u, G)
      /\ FramesPlaced => KeepsApart(t, u)
      /\ mode = "append" /\ AllIn(t, Named(nextId + 1)) => KeepsUnique(t, u)
  BY <1>2, <1>3, <1>7, <1>8, PlacedKeeps
<1> HIDE DEF u
<1>10. /\ ClosedUnderKin(Named(nextId')) /\ ClosedUnderKin(Sound(nextId'))
       /\ Named(nextId) \subseteq Named(nextId') /\ Sound(nextId) \subseteq Sound(nextId')
       /\ ClosedUnderKin(Named(nextId + 1)) /\ Named(nextId) \subseteq Named(nextId + 1)
  BY <1>2, <1>4, NamedSets
<1>11. /\ v \in Named(nextId + 1)
       /\ v \in Named(nextId') /\ v \in Sound(nextId') /\ a \in Named(nextId') /\ a \in Sound(nextId')
  BY <1>2, <1>4, <1>6, <1>7 DEF Named, Sound
<1>12. NamesKept /\ SoundKept
  <2>1. ASSUME NEW G, NEW H, ClosedUnderKin(H), G \subseteq H, v \in H, a \in H, AllIn(seq, G)
        PROVE  AllIn(u, H)
    BY <1>8, <1>9, <2>1, AllInMore
  <2> QED BY <1>4, <1>10, <1>11, <2>1 DEF NamesKept, SoundKept
<1>13. ASSUME mode = "append", AllIn(seq, Named(nextId)) PROVE KeepsUnique(seq, u)
  <2>1. AllIn(t, Named(nextId + 1))
    BY <1>8, <1>10, <1>11, <1>13, AllInMore
  <2> QED BY <1>8, <1>9, <1>13, <2>1 DEF KeepsUnique
<1>14. FramesPlaced => KeepsApart(seq, u)
  BY <1>8, <1>9 DEF KeepsApart
<1> QED BY <1>4, <1>12, <1>13, <1>14 DEF UniqueKept, ApartKept

-----------------------------------------------------------------------------
(* Links and removals *)

LEMMA UnlinkClipKeeps ==
    ASSUME Ready, NEW id \in ClipIds, UnlinkClip(id)
    PROVE  Keeps(seq, seq') /\ nextId' = nextId
<1> DEFINE r == RefOf(id)
           c == ClipWithId(seq, r, id)
           q == MateRef(seq, c)
           s == Relink(seq, r, id, 0)
           t == Relink(s, q, c.link, 0)
<1>1. q # NoRef /\ Commit(seq, t, {r, q}, 0)
  BY DEF UnlinkClip
<1>2. Track = AnyTrack /\ seq \in Documents /\ nextId \in Nat /\ 0 \in Nat
  BY DEF Ready
<1>3. seq' = t /\ nextId' = nextId
  BY <1>1, <1>2, CommitGives
<1>4. r \in Refs(seq) /\ c \in AnyClip
  BY GestureFacts
<1> HIDE DEF r, c
<1>5. q \in Refs(seq)
  BY <1>1, <1>4, MateFacts
<1> HIDE DEF q
<1>6. Keeps(seq, s)
  BY ZenonT(30), <1>2, <1>4, RelinkKeeps DEF Keeps
<1>7. Keeps(s, t)
  <2> HIDE DEF s
  <2>1. s \in Documents /\ q \in Refs(s)
    BY <1>5, <1>6 DEF Keeps
  <2> QED BY ZenonT(30), <1>2, <2>1, RelinkKeeps DEF Keeps
<1> QED BY <1>3, <1>6, <1>7, KeepsTwice

LEMMA LiftClipKeeps ==
    ASSUME Ready, NEW id \in ClipIds, LiftClip(id)
    PROVE  Keeps(seq, seq') /\ nextId' = nextId
<1> DEFINE r == RefOf(id)
           c == ClipWithId(seq, r, id)
           q == MateRef(seq, c)
           s == RemoveId(seq, r, id)
           t == RemoveId(s, q, c.link)
<1>1. Commit(seq, t, {r, q}, 0)
  BY DEF LiftClip
<1>2. Track = AnyTrack /\ seq \in Documents /\ nextId \in Nat /\ 0 \in Nat
  BY DEF Ready
<1>3. seq' = t /\ nextId' = nextId
  BY <1>1, <1>2, CommitGives
<1>4. r \in Refs(seq) /\ c \in AnyClip
  BY GestureFacts
<1> HIDE DEF r, c
<1>5. q \in Refs(seq) \cup {NoRef}
  BY <1>4, MateFacts
<1> HIDE DEF q
<1>6. Keeps(seq, s)
  BY <1>2, <1>4, RemoveIdKeeps DEF Keeps
<1>7. Keeps(s, t)
  <2> HIDE DEF s
  <2>1. s \in Documents /\ q \in Refs(s) \cup {NoRef}
    BY <1>5, <1>6 DEF Keeps
  <2> QED BY <1>2, <2>1, RemoveIdKeeps DEF Keeps
<1> QED BY <1>3, <1>6, <1>7, KeepsTwice

\* The ids of clips, on a sequence with names.
LEMMA ClipIdNamed ==
    ASSUME Ready, NEW id \in ClipIds, NEW n \in Nat, AllIn(seq, Named(n))
    PROVE  id \in Nat /\ id < n
<1>1. PICK c \in Clips : id = c.id
  BY DEF ClipIds
<1>2. PICK r \in Refs(seq) : c \in ToSet(ClipsAt(seq, r))
  BY <1>1 DEF Clips, ClipsOf
<1>3. c \in Named(n)
  BY <1>2 DEF ToSet, AllIn
<1> QED BY <1>1, <1>3, ClipNumbers DEF Named

\* The clip found by an id is one of the clips of the sequence.
LEMMA FoundIn ==
    ASSUME Track = AnyTrack, NEW s \in Documents, NEW r \in Refs(s), NEW id, NEW G, AllIn(s, G),
           IndexOfId(ClipsAt(s, r), id) # 0
    PROVE  /\ ClipWithId(s, r, id) \in G /\ ClipWithId(s, r, id) \in AnyClip
           /\ ClipWithId(s, r, id).id = id
<1>1. ClipsAt(s, r) \in Seq(AnyClip)
  BY TrackFacts
<1>2. /\ IndexOfId(ClipsAt(s, r), id) \in DOMAIN ClipsAt(s, r)
      /\ ClipsAt(s, r)[IndexOfId(ClipsAt(s, r), id)].id = id
  BY <1>1, IndexOfIdFinds
<1> QED BY <1>1, <1>2, ListClips DEF AllIn, ClipWithId

LEMMA LinkClipKeeps ==
    ASSUME Ready, nextId # 0, NEW id \in ClipIds, LinkClip(id)
    PROVE  /\ NamesKept /\ SoundKept /\ UniqueKept /\ ApartKept
<1> DEFINE r == RefOf(id)
           c == ClipWithId(seq, r, id)
           k == OtherKind(r[1])
           mate(p) == ClipsAt(seq, <<k, p[1]>>)[p[2]].id
           s(p) == Relink(seq, r, id, mate(p))
           t(p) == Relink(s(p), <<k, p[1]>>, mate(p), id)
<1>1. PICK p \in BestOverlap(c, k) : Commit(seq, t(p), {r, <<k, p[1]>>}, 0)
  BY DEF LinkClip
<1>2. Track = AnyTrack /\ seq \in Documents /\ nextId \in Nat /\ 0 \in Nat
  BY DEF Ready
<1>3. r \in Refs(seq) /\ c \in AnyClip /\ c.id = id /\ id \in Nat
  BY GestureFacts DEF AnyClip
<1>4. p[1] \in 1 .. Len(seq[k]) /\ p[2] \in 1 .. Horizon + 1 /\ p[2] <= Len(seq[k][p[1]].clips)
  BY Zenon DEF BestOverlap
<1> DEFINE q == <<k, p[1]>>
<1>5. q \in Refs(seq) /\ q # r
  <2>1. k \in Kinds /\ k # r[1]
    BY <1>2, <1>3, RefFacts DEF OtherKind, Kinds
  <2>2. p[1] \in DOMAIN seq[k]
    BY <1>2, <1>4, <2>1, DocumentFacts
  <2> HIDE DEF k
  <2> QED BY <1>2, <2>1, <2>2, RefIntro
<1>6. p[2] \in DOMAIN ClipsAt(seq, q) /\ mate(p) \in Nat
  <2>1. ClipsAt(seq, q) \in Seq(AnyClip) /\ ClipsAt(seq, q) = seq[k][p[1]].clips
    BY <1>2, <1>5, TrackFacts DEF ClipsAt, TrackAt
  <2>2. p[2] \in 1 .. Len(ClipsAt(seq, q))
    <3>1. Horizon \in Nat
      BY ReadyFacts
    <3> HIDE DEF q, k
    <3> QED BY <1>4, <2>1, <3>1
  <2>3. ClipsAt(seq, q)[p[2]] \in AnyClip
    <3> HIDE DEF q, k
    <3> QED BY <2>1, <2>2
  <2> QED BY <2>1, <2>2, <2>3, ListClips DEF AnyClip
<1>7. /\ AllIn(seq, Named(nextId)) => mate(p) < nextId
      /\ UniqueIds(seq) => mate(p) # id
  <2>1. ASSUME AllIn(seq, Named(nextId)) PROVE mate(p) < nextId
    BY <1>5, <1>6, <2>1 DEF AllIn, Named
  <2>2. ASSUME UniqueIds(seq) PROVE mate(p) # id
    <3>1. PICK i \in DOMAIN ClipsAt(seq, r) : ClipsAt(seq, r)[i].id = id
      <4>1. DOMAIN ClipsAt(seq, r) = 1 .. Len(ClipsAt(seq, r))
        BY <1>2, <1>3, TrackFacts, ListClips
      <4> QED BY <4>1, GestureFacts DEF ClipWithId
    <3> QED BY <1>3, <1>5, <1>6, <2>2, <3>1 DEF UniqueIds
  <2> QED BY <2>1, <2>2
<1> DEFINE m == mate(p)
           u == Relink(seq, r, id, m)
           w == Relink(u, q, m, id)
<1>8. Commit(seq, w, {r, q}, 0)
  BY <1>1
<1>9. m \in Nat /\ (AllIn(seq, Named(nextId)) => m < nextId) /\ (UniqueIds(seq) => m # id)
  BY <1>6, <1>7
<1> HIDE DEF m, q, r, c, k
<1>10. seq' = w /\ nextId' = nextId
  BY <1>2, <1>8, CommitGives
<1> DEFINE x == [ClipWithId(seq, r, id) EXCEPT !.link = m]
           HitX == r # NoRef /\ IndexOfId(ClipsAt(seq, r), id) # 0
           y == [ClipWithId(u, q, m) EXCEPT !.link = id]
           HitY == q # NoRef /\ IndexOfId(ClipsAt(u, q), m) # 0
<1>11. /\ u \in Documents /\ Refs(u) = Refs(seq)
       /\ HitX => x \in AnyClip /\ x.id = id
       /\ KeepsUnique(seq, u) /\ KeepsApart(seq, u)
       /\ \A G : AllIn(seq, G) /\ (HitX => x \in G) => AllIn(u, G)
  BY <1>2, <1>3, <1>9, RelinkKeeps
<1> HIDE DEF u
<1>12. /\ HitY => y \in AnyClip /\ y.id = m
       /\ KeepsUnique(u, w) /\ KeepsApart(u, w)
       /\ \A G : AllIn(u, G) /\ (HitY => y \in G) => AllIn(w, G)
  <2>1. u \in Documents /\ q \in Refs(u) \cup {NoRef}
    BY <1>5, <1>11
  <2> QED BY <1>2, <1>3, <2>1, RelinkKeeps
<1>13. (HitX => x.link = m) /\ (HitY => y.link = id)
  <2>1. HitX => ClipWithId(seq, r, id) \in AnyClip
    BY <1>2, <1>3, FoundClip
  <2>2. HitY => ClipWithId(u, q, m) \in AnyClip
    BY <1>2, <1>5, <1>11, FoundClip
  <2> QED BY <2>1, <2>2 DEF AnyClip
<1> HIDE DEF w, x, y, HitX, HitY
<1>14. NamesKept
  <2> SUFFICES ASSUME AllIn(seq, Named(nextId)) PROVE AllIn(w, Named(nextId))
    BY <1>10 DEF NamesKept
  <2>1. id < nextId /\ m < nextId
    BY <1>2, <1>9, ClipIdNamed
  <2>2. (HitX => x \in Named(nextId)) /\ (HitY => y \in Named(nextId))
    BY <1>11, <1>12, <2>1 DEF Named
  <2> QED BY <1>11, <1>12, <2>2
<1>15. SoundKept
  <2> SUFFICES ASSUME UniqueIds(seq), AllIn(seq, Sound(nextId)) PROVE AllIn(w, Sound(nextId))
    BY <1>10 DEF SoundKept
  <2>1. AllIn(seq, Named(nextId))
    BY <1>2, NamedSets, AllInMore
  <2>2. id < nextId /\ m < nextId /\ m # id
    BY <1>2, <1>9, <2>1, ClipIdNamed
  <2>3. (HitX => x \in Sound(nextId)) /\ (HitY => y \in Sound(nextId))
    BY <1>11, <1>12, <1>13, <2>2 DEF Sound
  <2> QED BY <1>11, <1>12, <2>3
<1> QED BY <1>10, <1>11, <1>12, <1>14, <1>15 DEF UniqueKept, ApartKept, KeepsUnique, KeepsApart

LEMMA RippleDeleteRangeKeeps ==
    ASSUME Ready, NEW r \in Refs(seq), NEW in \in Nat, NEW out \in Nat, in < out,
           RippleDeleteRange(r, in, out)
    PROVE  nextId' = nextId /\ KeepsNames(seq, seq') /\ KeepsApart(seq, seq')
<1> DEFINE clips == ClipsAt(seq, r)
           kept == ClippedRange(clips, in, out)
           new == ShiftFrom(kept, in, in - out)
           t == SetClips(seq, r, new)
<1>1. Commit(seq, t, {r}, 0)
  BY DEF RippleDeleteRange
<1>2. Track = AnyTrack /\ seq \in Documents /\ clips \in Seq(AnyClip) /\ nextId \in Nat /\ 0 \in Nat
  BY TrackFacts DEF Ready
<1>3. seq' = t /\ nextId' = nextId
  BY <1>1, <1>2, CommitGives
<1>4. in \in Int /\ out \in Int /\ in - out \in Int /\ in <= out
  OBVIOUS
<1>5. KeepsNames(seq, t)
  <2> SUFFICES ASSUME NEW G, ClosedUnderKin(G), AllIn(seq, G) PROVE AllIn(t, G)
    BY DEF KeepsNames
  <2>1. clips \in Seq(G) /\ G \subseteq AnyClip
    BY <1>2, AllInLists DEF ClosedUnderKin
  <2>2. kept \in Seq(G)
    BY <1>4, <2>1, ClippedRangeType
  <2>3. new \in Seq(G)
    BY <1>4, <2>2, ShiftFromType
  <2> HIDE DEF new
  <2> QED BY <1>2, <2>1, <2>3, SetClipsIn
<1>6. KeepsApart(seq, t)
  <2> SUFFICES ASSUME AllApart(seq) PROVE AllApart(t)
    BY DEF KeepsApart
  <2>1. Apart(clips)
    BY DEF AllApart
  <2> HIDE DEF clips
  <2>2. /\ Apart(kept)
        /\ \A p \in DOMAIN kept : kept[p].out <= in \/ out <= kept[p].in \/ kept[p].out <= kept[p].in
    BY <1>2, <1>4, <2>1, ClippedRangeParts
  <2>3. kept \in Seq(AnyClip)
    BY <1>2, <1>4, ListTypes
  <2> HIDE DEF kept
  <2>4. \A p \in DOMAIN kept : \/ kept[p].out <= in
                               \/ in <= kept[p].in /\ in <= kept[p].in + (in - out)
    <3> SUFFICES ASSUME NEW p \in DOMAIN kept
                 PROVE  \/ kept[p].out <= in
                        \/ in <= kept[p].in /\ in <= kept[p].in + (in - out)
      OBVIOUS
    <3>1. kept[p].in < kept[p].out
      BY <2>2 DEF Apart
    <3>2. kept[p].in \in Int /\ kept[p].out \in Int
      BY <2>3, ListClips, ClipNumbers
    <3> QED BY <2>2, <3>1, <3>2
  <2>5. new \in Seq(AnyClip) /\ Apart(new)
    BY <1>4, <2>2, <2>3, <2>4, ListTypes, ShiftFromApart
  <2> HIDE DEF new
  <2> QED BY <1>2, <2>5, SetClipsKeeps
<1> QED BY <1>3, <1>5, <1>6

-----------------------------------------------------------------------------
(* Setters, and the arranging of tracks *)

\* Two lists of clips that differ in attributes.
LEMMA SpansFacts ==
    ASSUME NEW a \in Seq(AnyClip), NEW b \in Seq(AnyClip), SpansOf(a) = SpansOf(b)
    PROVE  /\ DOMAIN a = DOMAIN b
           /\ \A i \in DOMAIN a :
                 /\ a[i].id = b[i].id /\ a[i].media = b[i].media /\ a[i].link = b[i].link
                 /\ a[i].in = b[i].in /\ a[i].out = b[i].out
                 /\ a[i].src = b[i].src /\ a[i].srcOut = b[i].srcOut
<1>1. SpansOf(a) = [i \in DOMAIN a |-> Bare(a[i])] /\ SpansOf(b) = [i \in DOMAIN b |-> Bare(b[i])]
  BY DEF SpansOf, Bare
<1>2. DOMAIN a = DOMAIN b /\ \A i \in DOMAIN a : Bare(a[i]) = Bare(b[i])
  BY <1>1
<1>3. \A c \in AnyClip : /\ Bare(c).id = c.id /\ Bare(c).media = c.media /\ Bare(c).link = c.link
                         /\ Bare(c).in = c.in /\ Bare(c).out = c.out
                         /\ Bare(c).src = c.src /\ Bare(c).srcOut = c.srcOut
  BY DEF AnyClip, Bare
<1>4. \A i \in DOMAIN a : a[i] \in AnyClip /\ b[i] \in AnyClip
  BY <1>2
<1> QED BY <1>2, <1>3, <1>4

LEMMA SpansKeep ==
    ASSUME Track = AnyTrack, NEW s \in Documents, NEW u \in Documents, Refs(u) = Refs(s),
           SameSpans(s, u)
    PROVE  Keeps(s, u)
<1>1. ASSUME NEW r \in Refs(s)
      PROVE  /\ ClipsAt(u, r) \in Seq(AnyClip) /\ ClipsAt(s, r) \in Seq(AnyClip)
             /\ DOMAIN ClipsAt(u, r) = DOMAIN ClipsAt(s, r)
             /\ \A i \in DOMAIN ClipsAt(s, r) :
                   /\ ClipsAt(u, r)[i].id = ClipsAt(s, r)[i].id
                   /\ ClipsAt(u, r)[i].link = ClipsAt(s, r)[i].link
                   /\ ClipsAt(u, r)[i].in = ClipsAt(s, r)[i].in
                   /\ ClipsAt(u, r)[i].out = ClipsAt(s, r)[i].out
  <2>1. ClipsAt(u, r) \in Seq(AnyClip) /\ ClipsAt(s, r) \in Seq(AnyClip)
    BY TrackFacts
  <2>2. SpansOf(ClipsAt(u, r)) = SpansOf(ClipsAt(s, r))
    BY DEF SameSpans
  <2> QED BY <2>1, <2>2, SpansFacts
<1>2. KeepsNames(s, u)
  <2> SUFFICES ASSUME NEW G, ClosedUnderKin(G), AllIn(s, G), NEW r \in Refs(s),
                      NEW i \in DOMAIN ClipsAt(u, r)
               PROVE  ClipsAt(u, r)[i] \in G
    BY DEF KeepsNames, AllIn
  <2>1. ClipsAt(s, r)[i] \in G
    BY <1>1 DEF AllIn
  <2>2. ClipsAt(u, r)[i] \in AnyClip
    BY <1>1, ListClips
  <2> QED BY <1>1, <2>1, <2>2 DEF ClosedUnderKin, Kin
<1>3. KeepsUnique(s, u)
  BY <1>1 DEF KeepsUnique, UniqueIds
<1>4. KeepsApart(s, u)
  BY <1>1 DEF KeepsApart, AllApart, Apart
<1> QED BY <1>2, <1>3, <1>4 DEF Keeps

\* The tracks of u are those of s, g naming each as it was, or are new and empty.
Rearranged(s, u, g) ==
    /\ g \in [Refs(u) -> Refs(s) \cup {NoRef}]
    /\ \A r \in Refs(u) :
          IF g[r] = NoRef THEN ClipsAt(u, r) = <<>>
          ELSE g[r][1] = r[1] /\ TrackAt(u, r) = TrackAt(s, g[r])
    /\ \A r, q \in Refs(u) : g[r] = g[q] /\ g[r] # NoRef => r = q

LEMMA RearrangedKeeps ==
    ASSUME Track = AnyTrack, NEW s \in Documents, NEW u \in Documents, NEW g, Rearranged(s, u, g)
    PROVE  KeepsNames(s, u) /\ KeepsUnique(s, u) /\ KeepsApart(s, u)
<1>1. ASSUME NEW r \in Refs(u), NEW i \in DOMAIN ClipsAt(u, r)
      PROVE  g[r] \in Refs(s) /\ ClipsAt(u, r) = ClipsAt(s, g[r])
  <2>1. g[r] # NoRef
    BY <1>1 DEF Rearranged
  <2> QED BY <2>1 DEF Rearranged, ClipsAt
<1>2. KeepsNames(s, u)
  BY <1>1 DEF KeepsNames, AllIn
<1>3. KeepsUnique(s, u)
  <2> SUFFICES ASSUME UniqueIds(s), NEW r \in Refs(u), NEW q \in Refs(u),
                      NEW i \in DOMAIN ClipsAt(u, r), NEW j \in DOMAIN ClipsAt(u, q),
                      ClipsAt(u, r)[i].id = ClipsAt(u, q)[j].id
               PROVE  r = q /\ i = j
    BY DEF KeepsUnique, UniqueIds
  <2>1. /\ g[r] \in Refs(s) /\ ClipsAt(u, r) = ClipsAt(s, g[r])
        /\ g[q] \in Refs(s) /\ ClipsAt(u, q) = ClipsAt(s, g[q])
    BY <1>1
  <2>2. g[r] = g[q] /\ i = j
    BY <2>1 DEF UniqueIds
  <2>3. g[r] # NoRef
    BY <2>1, RefFacts
  <2> QED BY <2>2, <2>3 DEF Rearranged
<1>4. KeepsApart(s, u)
  <2> SUFFICES ASSUME AllApart(s), NEW r \in Refs(u) PROVE Apart(ClipsAt(u, r))
    BY DEF KeepsApart, AllApart
  <2>1. CASE ClipsAt(u, r) = <<>>
    BY <2>1 DEF Apart
  <2>2. CASE ClipsAt(u, r) # <<>>
    <3>1. g[r] \in Refs(s) /\ ClipsAt(u, r) = ClipsAt(s, g[r])
      BY <2>2 DEF Rearranged, ClipsAt
    <3> QED BY <3>1 DEF AllApart
  <2> QED BY <2>1, <2>2
<1> QED BY <1>2, <1>3, <1>4

\* A list of tracks made of those of another, each at most once, and of new
\* ones, which are empty; h says where each was, 0 that it is new.
MadeOf(list, old) ==
    \E h \in [DOMAIN list -> Nat] :
        /\ \A i \in DOMAIN list :
              IF h[i] = 0 THEN list[i].clips = <<>>
              ELSE h[i] \in DOMAIN old /\ list[i] = old[h[i]]
        /\ \A i, j \in DOMAIN list : h[i] = h[j] /\ h[i] # 0 => i = j

LEMMA ListKeeps ==
    ASSUME Track = AnyTrack, NEW s \in Documents, NEW k \in Kinds, NEW list \in TrackLists,
           MadeOf(list, s[k])
    PROVE  LET u == [s EXCEPT ![k] = list]
           IN  u \in Documents /\ KeepsNames(s, u) /\ KeepsUnique(s, u) /\ KeepsApart(s, u)
<1> DEFINE u == [s EXCEPT ![k] = list]
<1>1. PICK h \in [DOMAIN list -> Nat] :
        /\ \A i \in DOMAIN list :
              IF h[i] = 0 THEN list[i].clips = <<>>
              ELSE h[i] \in DOMAIN s[k] /\ list[i] = s[k][h[i]]
        /\ \A i, j \in DOMAIN list : h[i] = h[j] /\ h[i] # 0 => i = j
  BY DEF MadeOf
<1>2. u \in Documents /\ u[k] = list /\ \A n \in Kinds \ {k} : u[n] = s[n]
  BY DEF Documents
<1> HIDE DEF u
<1> DEFINE g == [r \in Refs(u) |-> IF r[1] # k THEN r
                                   ELSE IF h[r[2]] = 0 THEN NoRef ELSE <<k, h[r[2]]>>]
<1>3. ASSUME NEW r \in Refs(u)
      PROVE  /\ r[1] \in Kinds /\ r[2] \in DOMAIN u[r[1]] /\ r = <<r[1], r[2]>>
             /\ r[1] = k => r[2] \in DOMAIN list /\ h[r[2]] \in Nat
             /\ r[1] # k => r \in Refs(s) /\ TrackAt(u, r) = TrackAt(s, r)
  <2>1. r[1] \in Kinds /\ r[2] \in DOMAIN u[r[1]] /\ r = <<r[1], r[2]>>
    BY <1>2, RefFacts
  <2>2. r[1] # k => u[r[1]] = s[r[1]]
    BY <1>2, <2>1
  <2>3. r[1] # k => r \in Refs(s)
    BY <2>1, <2>2, RefIntro
  <2> QED BY <1>2, <2>1, <2>2, <2>3 DEF TrackAt
<1>4. ASSUME NEW r \in Refs(u), g[r] # NoRef
      PROVE  g[r] \in Refs(s) /\ g[r][1] = r[1] /\ TrackAt(u, r) = TrackAt(s, g[r])
  <2>1. CASE r[1] # k
    BY <1>3, <2>1
  <2>2. CASE r[1] = k
    <3>1. h[r[2]] # 0 /\ g[r] = <<k, h[r[2]]>>
      BY <1>4, <2>2
    <3>2. r[2] \in DOMAIN list
      BY <1>3, <2>2
    <3>3. h[r[2]] \in DOMAIN s[k] /\ list[r[2]] = s[k][h[r[2]]]
      BY <1>1, <3>1, <3>2
    <3>4. g[r] \in Refs(s)
      BY <3>1, <3>3, RefIntro
    <3> HIDE DEF g
    <3> QED BY <1>2, <2>2, <3>1, <3>3, <3>4 DEF TrackAt
  <2> QED BY <2>1, <2>2
<1>5. ASSUME NEW r \in Refs(u), g[r] = NoRef
      PROVE  ClipsAt(u, r) = <<>>
  <2>1. r[1] = k
    <3>1. r[1] # k => g[r] = r /\ r \in Refs(s)
      BY <1>3
    <3> QED BY <1>5, <3>1, RefFacts
  <2>2. h[r[2]] = 0
    <3>1. g[r][1] = "none"
      BY <1>5 DEF NoRef
    <3> QED BY <2>1, <3>1 DEF Kinds
  <2>3. r[2] \in DOMAIN list
    BY <1>3, <2>1
  <2>4. list[r[2]].clips = <<>>
    BY <1>1, <2>2, <2>3
  <2> HIDE DEF g
  <2> QED BY <1>2, <2>1, <2>4 DEF ClipsAt, TrackAt
<1>6. ASSUME NEW r \in Refs(u), NEW q \in Refs(u), g[r] = g[q], g[r] # NoRef
      PROVE  r = q
  <2>1. r[1] = q[1]
    BY <1>4, <1>6
  <2>2. CASE r[1] # k
    BY <1>6, <2>1, <2>2
  <2>3. CASE r[1] = k
    <3>1. h[r[2]] = h[q[2]] /\ h[r[2]] # 0
      BY <1>6, <2>1, <2>3
    <3>2. r[2] \in DOMAIN list /\ q[2] \in DOMAIN list
      BY <1>3, <2>1, <2>3
    <3>3. r[2] = q[2]
      BY <1>1, <3>1, <3>2
    <3> HIDE DEF g
    <3> QED BY <1>3, <2>1, <3>3
  <2> QED BY <2>2, <2>3
<1>7. Rearranged(s, u, g)
  <2>1. g \in [Refs(u) -> Refs(s) \cup {NoRef}]
    <3>1. \A r \in Refs(u) : g[r] \in Refs(s) \cup {NoRef}
      BY <1>4
    <3>2. g = [r \in Refs(u) |-> g[r]]
      OBVIOUS
    <3> HIDE DEF g
    <3> QED BY <3>1, <3>2
  <2> HIDE DEF g
  <2> QED BY <1>4, <1>5, <1>6, <2>1 DEF Rearranged
<1> QED BY <1>2, <1>7, RearrangedKeeps DEF u

\* The lists of tracks the operations make.
LEMMA InsertMade ==
    ASSUME NEW S, NEW list \in Seq(S), NEW i \in 1 .. Len(list) + 1, NEW x \in S, x.clips = <<>>
    PROVE  MadeOf(InsertAt(list, i, x), list)
<1> DEFINE new == InsertAt(list, i, x)
           h == [p \in DOMAIN new |-> IF p < i THEN p ELSE IF p = i THEN 0 ELSE p - 1]
<1>1. /\ new \in Seq(S) /\ Len(new) = Len(list) + 1
      /\ \A p \in 1 .. Len(list) + 1 :
            new[p] = IF p < i THEN list[p] ELSE IF p = i THEN x ELSE list[p - 1]
  BY InsertAtIndex
<1> HIDE DEF new
<1>2. DOMAIN new = 1 .. Len(list) + 1 /\ DOMAIN list = 1 .. Len(list) /\ Len(list) \in Nat
  BY <1>1
<1>3. h \in [DOMAIN new -> Nat]
  BY <1>2
<1>4. ASSUME NEW p \in DOMAIN new
      PROVE  IF h[p] = 0 THEN new[p].clips = <<>> ELSE h[p] \in DOMAIN list /\ new[p] = list[h[p]]
  BY <1>1, <1>2
<1>5. ASSUME NEW p \in DOMAIN new, NEW q \in DOMAIN new, h[p] = h[q], h[p] # 0
      PROVE  p = q
  BY <1>2, <1>5
<1> HIDE DEF h
<1> QED BY <1>3, <1>4, <1>5 DEF MadeOf, new

LEMMA RemoveAtIndex ==
    ASSUME NEW S, NEW s \in Seq(S), NEW i \in 1 .. Len(s)
    PROVE  /\ RemoveAt(s, i) \in Seq(S) /\ Len(RemoveAt(s, i)) = Len(s) - 1
           /\ \A p \in 1 .. Len(s) - 1 : RemoveAt(s, i)[p] = s[IF p < i THEN p ELSE p + 1]
<1> DEFINE a == SubSeq(s, 1, i - 1)
           b == SubSeq(s, i + 1, Len(s))
<1>1. /\ a \in Seq(S) /\ Len(a) = i - 1 /\ \A p \in 1 .. i - 1 : a[p] = s[p]
      /\ b \in Seq(S) /\ Len(b) = Len(s) - i /\ \A p \in 1 .. Len(s) - i : b[p] = s[p + i]
  OBVIOUS
<1> HIDE DEF a, b
<1>2. /\ a \o b \in Seq(S) /\ Len(a \o b) = Len(s) - 1
      /\ \A p \in 1 .. Len(s) - 1 : (a \o b)[p] = IF p < i THEN a[p] ELSE b[p - (i - 1)]
  <2>1. /\ a \o b \in Seq(S) /\ Len(a \o b) = Len(a) + Len(b)
        /\ \A p \in 1 .. Len(a) : (a \o b)[p] = a[p]
        /\ \A p \in Len(a) + 1 .. Len(a) + Len(b) : (a \o b)[p] = b[p - Len(a)]
    BY ZenonT(30), <1>1, ConcatFacts
  <2>2. Len(s) \in Nat
    OBVIOUS
  <2> QED BY <1>1, <2>1, <2>2
<1>3. ASSUME NEW p \in 1 .. Len(s) - 1
      PROVE  (a \o b)[p] = s[IF p < i THEN p ELSE p + 1]
  <2>1. CASE p < i
    BY <1>1, <1>2, <2>1
  <2>2. CASE ~(p < i)
    <3>1. p - (i - 1) \in 1 .. Len(s) - i /\ (p - (i - 1)) + i = p + 1
      BY <2>2
    <3>2. b[p - (i - 1)] = s[(p - (i - 1)) + i]
      BY <1>1, <3>1
    <3> QED BY <1>2, <2>2, <3>1, <3>2
  <2> QED BY <2>1, <2>2
<1> QED BY <1>2, <1>3 DEF RemoveAt, a, b

LEMMA RemoveMade ==
    ASSUME NEW S, NEW list \in Seq(S), NEW i \in 1 .. Len(list)
    PROVE  MadeOf(RemoveAt(list, i), list)
<1> DEFINE new == RemoveAt(list, i)
           h == [p \in DOMAIN new |-> IF p < i THEN p ELSE p + 1]
<1>1. /\ new \in Seq(S) /\ Len(new) = Len(list) - 1
      /\ \A p \in 1 .. Len(list) - 1 : new[p] = list[IF p < i THEN p ELSE p + 1]
  BY RemoveAtIndex
<1> HIDE DEF new
<1>2. DOMAIN new = 1 .. Len(list) - 1 /\ DOMAIN list = 1 .. Len(list) /\ Len(list) \in Nat
  BY <1>1
<1>3. h \in [DOMAIN new -> Nat]
  BY <1>2
<1>4. ASSUME NEW p \in DOMAIN new
      PROVE  h[p] # 0 /\ h[p] \in DOMAIN list /\ new[p] = list[h[p]]
  BY <1>1, <1>2
<1>5. ASSUME NEW p \in DOMAIN new, NEW q \in DOMAIN new, h[p] = h[q]
      PROVE  p = q
  BY <1>2, <1>5
<1> HIDE DEF h
<1> QED BY <1>3, <1>4, <1>5 DEF MadeOf, new

LEMMA MoveMade ==
    ASSUME NEW S, NEW list \in Seq(S), NEW i \in 1 .. Len(list), NEW j \in 1 .. Len(list)
    PROVE  MadeOf(InsertAt(RemoveAt(list, i), j, list[i]), list)
<1> DEFINE rest == RemoveAt(list, i)
           was(n) == IF n < i THEN n ELSE n + 1
<1>1. /\ rest \in Seq(S) /\ Len(rest) = Len(list) - 1
      /\ \A p \in 1 .. Len(list) - 1 : rest[p] = list[was(p)]
  BY RemoveAtIndex
<1> HIDE DEF rest
<1>2. /\ list[i] \in S /\ j \in 1 .. Len(rest) + 1
  BY <1>1
<1> DEFINE x == list[i]
           new == InsertAt(rest, j, x)
           h == [p \in DOMAIN new |-> IF p < j THEN was(p) ELSE IF p = j THEN i ELSE was(p - 1)]
<1>a. rest \in Seq(S) /\ x \in S /\ j \in 1 .. Len(rest) + 1
  BY <1>1, <1>2
<1> HIDE DEF x
<1>3. /\ new \in Seq(S) /\ Len(new) = Len(rest) + 1
      /\ \A p \in 1 .. Len(rest) + 1 :
            new[p] = IF p < j THEN rest[p] ELSE IF p = j THEN x ELSE rest[p - 1]
  <2> HIDE DEF was, h
  <2>1. new \in Seq(S) /\ Inserted(new, rest, j, x)
    BY ZenonT(30), <1>a, InsertAtInserts
  <2> HIDE DEF new
  <2> QED BY <2>1 DEF Inserted
<1> HIDE DEF new
<1>4. DOMAIN new = 1 .. Len(list) /\ DOMAIN list = 1 .. Len(list) /\ Len(list) \in Nat
  BY <1>1, <1>3
<1>5. h \in [DOMAIN new -> Nat]
  BY <1>4
<1>6. ASSUME NEW p \in DOMAIN new
      PROVE  h[p] # 0 /\ h[p] \in DOMAIN list /\ new[p] = list[h[p]]
  <2>1. CASE p < j
    <3>1. p \in 1 .. Len(list) - 1 /\ p \in 1 .. Len(rest) + 1
      BY <1>1, <1>4, <2>1
    <3>2. new[p] = rest[p] /\ rest[p] = list[was(p)]
      BY <1>1, <1>3, <2>1, <3>1
    <3> QED BY <1>4, <2>1, <3>1, <3>2
  <2>2. CASE p = j
    BY <1>1, <1>3, <1>4, <2>2 DEF x
  <2>3. CASE j < p
    <3>1. p - 1 \in 1 .. Len(list) - 1 /\ p \in 1 .. Len(rest) + 1 /\ ~(p < j) /\ p # j
      BY <1>1, <1>4, <2>3
    <3>2. new[p] = rest[p - 1] /\ rest[p - 1] = list[was(p - 1)]
      BY <1>1, <1>3, <3>1
    <3> QED BY <1>4, <3>1, <3>2
  <2> QED BY <1>4, <2>1, <2>2, <2>3
<1>7. ASSUME NEW p \in DOMAIN new, NEW q \in DOMAIN new, h[p] = h[q]
      PROVE  p = q
  BY <1>4, <1>7
<1> HIDE DEF h
<1> QED BY <1>5, <1>6, <1>7 DEF MadeOf, new, rest, x

\* Arranging the tracks neither adds, changes nor doubles a clip.
LEMMA ArrangingKeeps ==
    ASSUME Ready, Arranging
    PROVE  /\ KeepsNames(seq, seq') /\ KeepsUnique(seq, seq') /\ KeepsApart(seq, seq')
           /\ nextId' = nextId
<1>1. PICK k \in Kinds, i \in 1 .. MaxTracks, j \in 1 .. MaxTracks :
         InsertTrack(k, i) \/ RemoveTrack(k, i) \/ RenameTrack(k, i) \/ MoveTrack(k, i, j)
  BY DEF Arranging
<1> DEFINE list == seq[k]
<1>2. /\ Track = AnyTrack /\ seq \in Documents /\ list \in Seq(Track)
      /\ Len(list) \in 0 .. MaxTracks /\ MaxTracks \in Nat
  BY DocumentFacts, MaxTracksAssumption DEF Ready, TrackLists
<1>3. ASSUME NEW new \in TrackLists, MadeOf(new, list), CommitList([seq EXCEPT ![k] = new], k)
      PROVE  /\ KeepsNames(seq, seq') /\ KeepsUnique(seq, seq') /\ KeepsApart(seq, seq')
             /\ nextId' = nextId
  BY <1>2, <1>3, ListKeeps DEF CommitList, Record
<1>4. CASE InsertTrack(k, i)
  <2> DEFINE track == [locked |-> FALSE, mix |-> 0, clips |-> <<>>]
  <2>1. /\ Len(list) < MaxTracks /\ i <= Len(list) + 1
        /\ CommitList([seq EXCEPT ![k] = InsertAt(list, i, track)], k)
    BY <1>4 DEF InsertTrack, AddTrack
  <2>2. track \in Track /\ track.clips = <<>>
    BY <1>2 DEF AnyTrack
  <2> HIDE DEF track, list
  <2>3. i \in 1 .. Len(list) + 1
    BY <1>2, <2>1
  <2>4. InsertAt(list, i, track) \in TrackLists
    BY <1>2, <2>1, <2>2, <2>3, InsertAtType DEF TrackLists
  <2>5. MadeOf(InsertAt(list, i, track), list)
    BY <1>2, <2>2, <2>3, InsertMade
  <2> QED BY <1>3, <2>1, <2>4, <2>5
<1>5. CASE RemoveTrack(k, i)
  <2>1. i <= Len(list) /\ CommitList([seq EXCEPT ![k] = RemoveAt(list, i)], k)
    BY <1>5 DEF RemoveTrack
  <2> HIDE DEF list
  <2>2. i \in 1 .. Len(list)
    BY <1>2, <2>1
  <2>3. RemoveAt(list, i) \in TrackLists
    BY <1>2, <2>2, RemoveAtType DEF TrackLists
  <2>4. MadeOf(RemoveAt(list, i), list)
    BY <1>2, <2>2, RemoveMade
  <2> QED BY <1>3, <2>1, <2>3, <2>4
<1>6. CASE RenameTrack(k, i)
  <2>1. seq' = seq /\ nextId' = nextId
    BY <1>6 DEF RenameTrack, CommitList, Record
  <2> QED BY <2>1 DEF KeepsNames, KeepsUnique, KeepsApart
<1>7. CASE MoveTrack(k, i, j)
  <2>1. /\ i <= Len(list) /\ j <= Len(list)
        /\ CommitList([seq EXCEPT ![k] = InsertAt(RemoveAt(list, i), j, list[i])], k)
    BY <1>7 DEF MoveTrack
  <2> HIDE DEF list
  <2>2. i \in 1 .. Len(list) /\ j \in 1 .. Len(list) /\ list[i] \in Track
    BY <1>2, <2>1
  <2>3. RemoveAt(list, i) \in Seq(Track) /\ Len(RemoveAt(list, i)) = Len(list) - 1
    BY <1>2, <2>2, RemoveAtType
  <2>4. InsertAt(RemoveAt(list, i), j, list[i]) \in TrackLists
    <3>1. j \in 1 .. Len(RemoveAt(list, i)) + 1
      BY <1>2, <2>2, <2>3
    <3>2. /\ InsertAt(RemoveAt(list, i), j, list[i]) \in Seq(Track)
          /\ Len(InsertAt(RemoveAt(list, i), j, list[i])) = Len(RemoveAt(list, i)) + 1
      BY <2>2, <2>3, <3>1, InsertAtType
    <3> QED BY <1>2, <2>3, <3>2 DEF TrackLists
  <2>5. MadeOf(InsertAt(RemoveAt(list, i), j, list[i]), list)
    BY <1>2, <2>2, MoveMade
  <2> QED BY <1>3, <2>1, <2>4, <2>5
<1> QED BY <1>1, <1>4, <1>5, <1>6, <1>7

LEMMA SettingKeeps ==
    ASSUME Ready, Setting
    PROVE  Keeps(seq, seq') /\ nextId' = nextId
<1>1. Edited /\ AttributesOnly
  BY SettingEdits
<1>2. Track = AnyTrack /\ seq \in Documents
  BY DEF Ready
<1>3. seq' \in Documents
  BY <1>1, <1>2, EditedRecords DEF Recorded, Record
<1> QED BY <1>1, <1>2, <1>3, SpansKeep DEF AttributesOnly

\* What is left of a list of clips, after one of them and perhaps others are
\* removed, may close up by its length.
LEMMA GapCloses ==
    ASSUME NEW clips \in Seq(AnyClip), NEW j \in DOMAIN clips, NEW K \in SUBSET (DOMAIN clips \ {j}),
           NEW kept \in Seq(AnyClip), Selects(kept, clips, K), Apart(clips),
           NEW in \in Int, NEW out \in Int, in = clips[j].in, out = clips[j].out
    PROVE  Apart(ShiftFrom(kept, in, in - out))
<1>1. ToSet(kept) = {clips[i] : i \in K} /\ Apart(kept)
  BY SelectsFacts
<1>2. ASSUME NEW p \in DOMAIN kept
      PROVE  kept[p].out <= in \/ (in <= kept[p].in /\ in <= kept[p].in + (in - out))
  <2>1. PICK i \in K : kept[p] = clips[i]
    <3>1. kept[p] \in ToSet(kept)
      BY DEF ToSet
    <3> QED BY <1>1, <3>1
  <2>2. i \in DOMAIN clips /\ i # j /\ DOMAIN clips = 1 .. Len(clips) /\ Len(clips) \in Nat
    BY ListClips
  <2>3. clips[i].in \in Int /\ clips[i].out \in Int
    BY <2>2, ListClips, ClipNumbers
  <2>4. clips[i].out <= in \/ out <= clips[i].in
    <3>1. CASE i < j
      BY <2>2, <3>1 DEF Apart
    <3>2. CASE j < i
      BY <2>2, <3>2 DEF Apart
    <3> QED BY <2>2, <3>1, <3>2
  <2>5. in < out
    BY DEF Apart
  <2> QED BY <2>1, <2>3, <2>4, <2>5
<1>3. in \in Nat
  BY DEF Apart
<1>4. in - out \in Int
  OBVIOUS
<1> QED BY <1>1, <1>2, <1>3, <1>4, ShiftFromApart

\* A clip and its mate where they are the two parts of a pair in place.
AlignedMate(c, q) ==
    LET d == ClipWithId(seq, q, c.link)
    IN d.in = c.in /\ d.out = c.out /\ c.link # c.id

LEMMA RippleDeleteClipKeeps ==
    ASSUME Ready, NEW id \in ClipIds, RippleDeleteClip(id)
    PROVE  LET c == ClipWithId(seq, RefOf(id), id)
               q == MateRef(seq, c)
           IN  /\ nextId' = nextId
               /\ KeepsNames(seq, seq') /\ KeepsUnique(seq, seq')
               /\ UniqueIds(seq) /\ (q # NoRef => AlignedMate(c, q)) => ApartKept
<1> DEFINE r == RefOf(id)
           c == ClipWithId(seq, r, id)
           q == MateRef(seq, c)
           close(s, p) == SetClips(s, p, ShiftFrom(ClipsAt(s, p), c.in, c.in - c.out))
           s1 == RemoveId(seq, r, id)
           s2 == close(s1, r)
           s3 == RemoveMate(s2, q, c.link)
           s4 == close(s3, q)
           t == IF q = NoRef THEN s2 ELSE s4
           i == IndexOfId(ClipsAt(seq, r), id)
           j == IndexOfId(ClipsAt(seq, q), c.link)
<1>1. Commit(seq, t, {r, q}, 0)
  BY DEF RippleDeleteClip
<1>2. Track = AnyTrack /\ seq \in Documents /\ nextId \in Nat /\ 0 \in Nat
  BY DEF Ready
<1>3. seq' = t /\ nextId' = nextId
  BY <1>1, <1>2, CommitGives
<1>4. /\ r \in Refs(seq) /\ c \in AnyClip /\ c.id = id
      /\ i \in DOMAIN ClipsAt(seq, r) /\ c = ClipsAt(seq, r)[i]
      /\ ClipsAt(seq, r) \in Seq(AnyClip) /\ r # NoRef
  <2>1. i \in 1 .. Len(ClipsAt(seq, r)) /\ r \in Refs(seq) /\ c \in AnyClip /\ c.id = id
    BY GestureFacts
  <2>2. ClipsAt(seq, r) \in Seq(AnyClip) /\ r # NoRef
    BY <1>2, <2>1, TrackFacts, RefFacts
  <2>3. DOMAIN ClipsAt(seq, r) = 1 .. Len(ClipsAt(seq, r))
    BY <2>2, ListClips
  <2> QED BY <2>1, <2>2, <2>3 DEF ClipWithId
<1>5. q # NoRef =>
         /\ q \in Refs(seq) /\ ClipsAt(seq, q) \in Seq(AnyClip)
         /\ j \in DOMAIN ClipsAt(seq, q) /\ ClipWithId(seq, q, c.link) = ClipsAt(seq, q)[j]
         /\ ClipsAt(seq, q)[j].id = c.link
  <2> SUFFICES ASSUME q # NoRef
               PROVE  /\ q \in Refs(seq) /\ ClipsAt(seq, q) \in Seq(AnyClip)
                      /\ j \in DOMAIN ClipsAt(seq, q)
                      /\ ClipWithId(seq, q, c.link) = ClipsAt(seq, q)[j]
                      /\ ClipsAt(seq, q)[j].id = c.link
    OBVIOUS
  <2> HIDE DEF c
  <2>1. /\ q \in Refs(seq) /\ j \in 1 .. Len(ClipsAt(seq, q))
        /\ ClipWithId(seq, q, c.link).id = c.link
    BY <1>4, MateFacts
  <2>2. ClipsAt(seq, q) \in Seq(AnyClip)
    BY <1>2, <2>1, TrackFacts
  <2>3. DOMAIN ClipsAt(seq, q) = 1 .. Len(ClipsAt(seq, q))
    BY <2>2, ListClips
  <2> QED BY <2>1, <2>2, <2>3 DEF ClipWithId
<1>6. c.in \in Int /\ c.out \in Int /\ c.in - c.out \in Int
  BY <1>4, ClipNumbers
<1> HIDE DEF r, c, q, i, j
<1>7. ASSUME NEW s \in Documents, NEW p \in Refs(s)
      PROVE  /\ close(s, p) \in Documents /\ Refs(close(s, p)) = Refs(s)
             /\ KeepsNames(s, close(s, p)) /\ KeepsUnique(s, close(s, p))
  BY <1>2, <1>6, CloseKeeps
<1>8. /\ s1 \in Documents /\ Refs(s1) = Refs(seq)
      /\ KeepsNames(seq, s1) /\ KeepsUnique(seq, s1) /\ KeepsApart(seq, s1)
  BY <1>2, <1>4, RemoveIdKeeps
<1>9. s2 \in Documents /\ Refs(s2) = Refs(seq) /\ KeepsNames(seq, s2) /\ KeepsUnique(seq, s2)
  <2> HIDE DEF close, s1
  <2> QED BY <1>4, <1>7, <1>8 DEF KeepsNames, KeepsUnique
<1>10. q # NoRef => /\ s3 \in Documents /\ Refs(s3) = Refs(seq)
                    /\ KeepsNames(s2, s3) /\ KeepsUnique(s2, s3) /\ KeepsApart(s2, s3)
  <2> HIDE DEF s2
  <2> QED BY <1>2, <1>5, <1>9, RemoveMateKeeps
<1>11. q # NoRef => KeepsNames(seq, s4) /\ KeepsUnique(seq, s4)
  <2> HIDE DEF close, s2, s3
  <2>1. q # NoRef => q \in Refs(s3)
    BY <1>5, <1>10
  <2> QED BY <1>7, <1>9, <1>10, <2>1 DEF KeepsNames, KeepsUnique
<1>12. KeepsNames(seq, t) /\ KeepsUnique(seq, t)
  <2> HIDE DEF s2, s4
  <2> QED BY <1>9, <1>11
<1>13. ASSUME AllApart(seq) PROVE AllApart(s2)
  <2> DEFINE old == ClipsAt(seq, r)
             kept == WithoutId(old, id)
             new == ShiftFrom(kept, c.in, c.in - c.out)
             K == {n \in DOMAIN old : old[n].id # id}
  <2>1. s1 = SetClips(seq, r, kept)
    BY <1>4 DEF RemoveId, s1
  <2>2. kept \in Seq(AnyClip) /\ Selects(kept, old, K)
    BY <1>4, WithoutIdType, WithoutIdSelects
  <2>3. K \in SUBSET (DOMAIN old \ {i})
    BY <1>4
  <2>4. Apart(old)
    BY <1>4, <1>13 DEF AllApart
  <2>5. ClipsAt(s1, r) = kept
    <3> HIDE DEF kept, s1
    <3> QED BY <1>2, <1>4, <2>1, <2>2, SetClipsFacts
  <2>6. c.in = old[i].in /\ c.out = old[i].out
    BY <1>4
  <2> HIDE DEF old, kept, K
  <2>7. Apart(new) /\ new \in Seq(AnyClip)
    <3>1. old \in Seq(AnyClip) /\ i \in DOMAIN old
      BY <1>4 DEF old
    <3>2. Apart(new)
      BY <1>6, <2>2, <2>3, <2>4, <2>6, <3>1, GapCloses
    <3> QED BY <1>6, <2>2, <3>2, ListTypes
  <2>8. s2 = SetClips(s1, r, new)
    BY <2>5
  <2>9. AllApart(s1)
    BY <1>8, <1>13 DEF KeepsApart
  <2> HIDE DEF new, s1, s2
  <2> QED BY <1>2, <1>4, <1>8, <2>7, <2>8, <2>9, SetClipsKeeps
<1>14. ASSUME q # NoRef, AllApart(seq), UniqueIds(seq), AlignedMate(c, q)
       PROVE  AllApart(s4)
  <2> DEFINE old == ClipsAt(seq, q)
             kept == WithoutPointee(old, j)
             new == ShiftFrom(kept, c.in, c.in - c.out)
  <2>1. old \in Seq(AnyClip) /\ j \in DOMAIN old /\ q \in Refs(seq)
    BY <1>5, <1>14
  <2>2. Apart(old)
    BY <1>14, <2>1 DEF AllApart
  <2>3. c.in = old[j].in /\ c.out = old[j].out /\ old[j].id # c.id
    BY <1>5, <1>14 DEF AlignedMate
  <2>4. q # r
    <3> SUFFICES ASSUME q = r PROVE FALSE
      OBVIOUS
    <3>1. i \in DOMAIN old /\ i # j /\ old[i] = c
      BY <1>4, <2>3
    <3>2. DOMAIN old = 1 .. Len(old) /\ Len(old) \in Nat
      BY <2>1, ListClips
    <3>3. c.in < c.out
      BY <1>4, <2>2 DEF Apart
    <3> HIDE DEF old
    <3>4. CASE i < j
      BY <1>6, <2>1, <2>2, <2>3, <3>1, <3>2, <3>3, <3>4 DEF Apart
    <3>5. CASE j < i
      BY <1>6, <2>1, <2>2, <2>3, <3>1, <3>2, <3>3, <3>5 DEF Apart
    <3> QED BY <2>1, <3>1, <3>2, <3>4, <3>5
  <2>5. ClipsAt(s2, q) = old
    <3>1. ClipsAt(s1, q) = old
      <4> DEFINE kk == WithoutId(ClipsAt(seq, r), id)
      <4>1. s1 = SetClips(seq, r, kk) /\ kk \in Seq(AnyClip)
        BY <1>4, WithoutIdType DEF RemoveId, s1
      <4> HIDE DEF kk, s1
      <4> QED BY <1>2, <1>4, <2>1, <2>4, <4>1, SetClipsFacts
    <3>2. ClipsAt(s2, q) = ClipsAt(s1, q)
      <4> DEFINE kk == ShiftFrom(ClipsAt(s1, r), c.in, c.in - c.out)
      <4>1. s2 = SetClips(s1, r, kk)
        BY DEF kk
      <4> HIDE DEF s1
      <4>2. ClipsAt(s1, r) \in Seq(AnyClip) /\ r \in Refs(s1) /\ q \in Refs(s1) \ {r}
        BY <1>2, <1>4, <1>8, <2>1, <2>4, TrackFacts
      <4>3. kk \in Seq(AnyClip)
        BY <1>6, <4>2, ListTypes
      <4> HIDE DEF kk, s2
      <4> QED BY <1>2, <1>8, <4>1, <4>2, <4>3, SetClipsFacts
    <3> QED BY <3>1, <3>2
  <2>6. s3 = SetClips(s2, q, kept)
    BY <2>5 DEF RemoveMate, s3, kept, old, j
  <2>7. PICK K \in SUBSET DOMAIN old : Selects(kept, old, K) /\ K = DOMAIN old \ {j}
    <3>1. Distinct(old)
      BY <1>14, <2>1, UniqueTrack
    <3>2. j \in 0 .. Len(old) /\ j # 0
      BY <2>1, ListClips
    <3> HIDE DEF old
    <3> QED BY <2>1, <3>1, <3>2, WithoutPointeeSelects
  <2>8. kept \in Seq(AnyClip)
    <3>1. j \in 0 .. Len(old)
      BY <2>1, ListClips
    <3> HIDE DEF old
    <3> QED BY <2>1, <3>1, WithoutPointeeType
  <2> HIDE DEF old, kept
  <2>9. K \in SUBSET (DOMAIN old \ {j})
    BY <2>7
  <2>10. Apart(new) /\ new \in Seq(AnyClip)
    <3>1. Apart(new)
      BY <1>6, <2>1, <2>2, <2>3, <2>7, <2>8, <2>9, GapCloses
    <3> QED BY <1>6, <2>8, <3>1, ListTypes
  <2>11. AllApart(s2)
    BY <1>13, <1>14
  <2> HIDE DEF s2
  <2>12. ClipsAt(s3, q) = kept
    <3> HIDE DEF s3
    <3> QED BY <1>2, <1>9, <2>1, <2>6, <2>8, SetClipsFacts
  <2>13. s4 = SetClips(s3, q, new)
    BY <2>12
  <2>14. AllApart(s3)
    BY <1>10, <1>14, <2>11 DEF KeepsApart
  <2> HIDE DEF s3, s4, new
  <2> QED BY <1>2, <1>10, <1>14, <2>1, <2>10, <2>13, <2>14, SetClipsKeeps
<1>15. UniqueIds(seq) /\ (q # NoRef => AlignedMate(c, q)) => ApartKept
  <2> HIDE DEF s2, s4
  <2> QED BY <1>3, <1>13, <1>14 DEF ApartKept, KeepsApart
<1> HIDE DEF t
<1>16. /\ nextId' = nextId
       /\ KeepsNames(seq, seq') /\ KeepsUnique(seq, seq')
  BY <1>3, <1>12
<1> QED BY <1>15, <1>16 DEF q, c, r

-----------------------------------------------------------------------------
(* Cutting *)

Other(id) == {d \in AnyClip : d.id # id}

\* A clip is cut: one part takes its place, the other is added.
LEMMA CutFacts ==
    ASSUME NEW clips \in Seq(AnyClip), NEW i \in DOMAIN clips, NEW x \in AnyClip, NEW y \in AnyClip
    PROVE  LET left == [clips EXCEPT ![i] = x]
               new == InsertSorted(left, y)
           IN  /\ left \in Seq(AnyClip) /\ new \in Seq(AnyClip)
               /\ ToSet(new) \subseteq ToSet(clips) \cup {x, y}
               /\ /\ Distinct(clips) /\ x.id = clips[i].id
                  /\ \A n \in DOMAIN clips : clips[n].id # y.id
                  => Distinct(new)
               /\ /\ Apart(clips) /\ x.in = clips[i].in /\ y.out = clips[i].out
                  /\ x.out = y.in /\ x.in < x.out /\ y.in < y.out
                  => Apart(new)
<1> DEFINE left == [clips EXCEPT ![i] = x]
           new == InsertSorted(left, y)
<1>1. /\ left \in Seq(AnyClip) /\ DOMAIN left = DOMAIN clips
      /\ \A n \in DOMAIN clips : left[n] = IF n = i THEN x ELSE clips[n]
  OBVIOUS
<1>2. DOMAIN clips = 1 .. Len(clips) /\ Len(clips) \in Nat
  BY ListClips
<1>3. \A n \in DOMAIN clips : clips[n] \in AnyClip /\ clips[n].in \in Int /\ clips[n].out \in Int
  BY ListClips, ClipNumbers
<1>4. x.in \in Int /\ x.out \in Int /\ y.in \in Int /\ y.out \in Int
  BY ClipNumbers
<1> HIDE DEF left
<1>5. /\ new \in Seq(AnyClip) /\ ToSet(new) = ToSet(left) \cup {y}
      /\ Distinct(left) /\ (\A n \in DOMAIN left : left[n].id # y.id) => Distinct(new)
      /\ /\ Apart(left) /\ 0 <= y.in /\ y.in < y.out
         /\ \A n \in DOMAIN left : left[n].out <= y.in \/ y.out <= left[n].in
         => Apart(new)
  BY <1>1, InsertSortedFacts, InsertSortedType
<1> HIDE DEF new
<1>6. ToSet(new) \subseteq ToSet(clips) \cup {x, y}
  <2>1. ToSet(left) \subseteq ToSet(clips) \cup {x}
    BY <1>1 DEF ToSet
  <2> QED BY <1>5, <2>1
<1>7. ASSUME Distinct(clips), x.id = clips[i].id, \A n \in DOMAIN clips : clips[n].id # y.id
      PROVE  Distinct(new)
  <2>1. \A n \in DOMAIN clips : left[n].id = clips[n].id
    BY <1>1, <1>7
  <2>2. Distinct(left)
    BY <1>1, <1>7, <2>1 DEF Distinct
  <2> QED BY <1>1, <1>5, <1>7, <2>1, <2>2
<1>8. ASSUME Apart(clips), x.in = clips[i].in, y.out = clips[i].out,
             x.out = y.in, x.in < x.out, y.in < y.out
      PROVE  Apart(new)
  <2>1. \A n \in DOMAIN clips : 0 <= clips[n].in /\ clips[n].in < clips[n].out
    BY <1>8 DEF Apart
  <2>2. \A n, m \in DOMAIN clips : n < m => clips[n].out <= clips[m].in
    BY <1>8 DEF Apart
  <2>3. Apart(left)
    <3>1. ASSUME NEW n \in DOMAIN clips PROVE 0 <= left[n].in /\ left[n].in < left[n].out
      BY <1>1, <1>8, <2>1, <3>1
    <3>2. ASSUME NEW n \in DOMAIN clips, NEW m \in DOMAIN clips, n < m
          PROVE  left[n].out <= left[m].in
      <4>1. clips[n].out <= clips[m].in /\ clips[n].out \in Int /\ clips[m].in \in Int
        BY <1>3, <2>2, <3>2
      <4>2. CASE n = i
        <5>1. left[n] = x /\ left[m] = clips[m] /\ y.out = clips[n].out
          BY <1>1, <1>2, <1>8, <3>2, <4>2
        <5> QED BY <1>4, <1>8, <4>1, <5>1
      <4>3. CASE m = i
        <5>1. left[n] = clips[n] /\ left[m] = x /\ x.in = clips[m].in
          BY <1>1, <1>2, <1>8, <3>2, <4>3
        <5> QED BY <4>1, <5>1
      <4>4. CASE n # i /\ m # i
        BY <1>1, <4>1, <4>4
      <4> QED BY <4>2, <4>3, <4>4
    <3> QED BY <1>1, <3>1, <3>2 DEF Apart
  <2>4. 0 <= y.in
    <3>1. 0 <= clips[i].in
      BY <2>1
    <3> QED BY <1>4, <1>8, <3>1
  <2>5. ASSUME NEW n \in DOMAIN clips PROVE left[n].out <= y.in \/ y.out <= left[n].in
    <3>1. CASE n = i
      BY <1>1, <1>4, <1>8, <3>1
    <3>2. CASE n < i
      <4>1. left[n] = clips[n] /\ clips[n].out <= clips[i].in /\ clips[n].out \in Int
        BY <1>1, <1>2, <1>3, <2>2, <3>2
      <4> QED BY <1>4, <1>8, <4>1
    <3>3. CASE i < n
      <4>1. left[n] = clips[n] /\ clips[i].out <= clips[n].in
        BY <1>1, <1>2, <2>2, <3>3
      <4> QED BY <1>8, <4>1
    <3> QED BY <1>2, <3>1, <3>2, <3>3
  <2> QED BY <1>1, <1>5, <1>8, <2>3, <2>4, <2>5
<1> QED BY <1>1, <1>5, <1>6, <1>7, <1>8 DEF left, new

\* A clip with an id that no other has, added to a track.
LEMMA AddedKeeps ==
    ASSUME Track = AnyTrack, NEW s \in Documents, NEW r \in Refs(s), NEW c \in AnyClip
    PROVE  LET u == SetClips(s, r, InsertSorted(ClipsAt(s, r), c))
           IN  /\ u \in Documents /\ Refs(u) = Refs(s)
               /\ \A G : G \subseteq AnyClip /\ AllIn(s, G) /\ c \in G => AllIn(u, G)
               /\ AllIn(s, Other(c.id)) => KeepsUnique(s, u)
<1> DEFINE clips == ClipsAt(s, r)
           new == InsertSorted(clips, c)
           u == SetClips(s, r, new)
<1>1. clips \in Seq(AnyClip)
  BY TrackFacts
<1>2. /\ new \in Seq(AnyClip) /\ ToSet(new) = ToSet(clips) \cup {c}
      /\ Distinct(clips) /\ (\A i \in DOMAIN clips : clips[i].id # c.id) => Distinct(new)
  <2> HIDE DEF clips
  <2> QED BY <1>1, InsertSortedFacts, InsertSortedType
<1>3. u \in Documents /\ Refs(u) = Refs(s)
  <2> HIDE DEF new
  <2> QED BY <1>2, SetClipsKeeps
<1>4. ASSUME NEW G, G \subseteq AnyClip, AllIn(s, G), c \in G PROVE AllIn(u, G)
  <2>1. clips \in Seq(G)
    BY <1>4, AllInLists
  <2>2. new \in Seq(G)
    BY <1>4, <2>1, InsertSortedType
  <2> HIDE DEF new
  <2> QED BY <1>4, <2>2, SetClipsIn
<1>5. ASSUME AllIn(s, Other(c.id)), UniqueIds(s) PROVE UniqueIds(u)
  <2>1. \A q \in Refs(s) : \A i \in DOMAIN ClipsAt(s, q) : ClipsAt(s, q)[i].id # c.id
    BY <1>5 DEF AllIn, Other
  <2>2. Distinct(new)
    BY <1>2, <1>5, <2>1, UniqueTrack
  <2>3. \A i \in DOMAIN new : new[i] = c \/ \E j \in DOMAIN clips : new[i] = clips[j]
    <3> HIDE DEF clips, new
    <3> QED BY <1>2 DEF ToSet
  <2>4. ASSUME NEW i \in DOMAIN new, NEW q \in Refs(s) \ {r}, NEW j \in DOMAIN ClipsAt(s, q)
        PROVE  new[i].id # ClipsAt(s, q)[j].id
    <3>1. CASE new[i] = c
      BY <2>1, <3>1
    <3>2. CASE \E k \in DOMAIN clips : new[i] = clips[k]
      <4> HIDE DEF new
      <4> QED BY <1>5, <3>2, UniqueTrack
    <3> QED BY <2>3, <3>1, <3>2
  <2> HIDE DEF new
  <2> QED BY <1>2, <1>5, <2>2, <2>4, SetClipsKeeps
<1> QED BY <1>3, <1>4, <1>5 DEF KeepsUnique

\* The index a lookup returns, where ids are not doubled.
LEMMA IndexOfUnique ==
    ASSUME NEW clips \in Seq(AnyClip), NEW i \in DOMAIN clips
    PROVE  /\ IndexOfId(clips, clips[i].id) \in DOMAIN clips
           /\ clips[IndexOfId(clips, clips[i].id)].id = clips[i].id
           /\ Distinct(clips) => IndexOfId(clips, clips[i].id) = i
<1>1. DOMAIN clips = 1 .. Len(clips)
  BY ListClips
<1>2. /\ IndexOfId(clips, clips[i].id) \in 1 .. Len(clips)
      /\ clips[IndexOfId(clips, clips[i].id)].id = clips[i].id
  BY <1>1, IndexOfIdFinds
<1> QED BY <1>1, <1>2 DEF Distinct

LEMMA BladeAtKeeps ==
    ASSUME Ready, nextId # 0, NEW r \in Refs(seq), NEW pos \in Int, BladeAt(r, pos)
    PROVE  NamesKept /\ SoundKept /\ UniqueKept /\ (UniqueIds(seq) => ApartKept)
<1> DEFINE clips == ClipsAt(seq, r)
           i == IndexAt(clips, pos)
           c == clips[i]
           cut == SrcAt(c, pos)
           j == IndexOfId(clips, c.id)
           x == LeftHalf(clips[j], pos, cut)
           left == [clips EXCEPT ![j] = x]
           y == RightHalf(c, pos, nextId)
           s == SetClips(seq, r, left)
           t == SetClips(seq, r, InsertSorted(left, y))
<1>1. Track = AnyTrack /\ seq \in Documents /\ nextId \in Nat /\ clips \in Seq(AnyClip)
  BY TrackFacts DEF Ready
<1>2. i # 0 /\ Spans(c, pos)
  BY DEF BladeAt
<1>3. i \in DOMAIN clips /\ c \in AnyClip
  <2> HIDE DEF clips
  <2>1. i \in 1 .. Len(clips)
    BY <1>1, <1>2, IndexAtFinds
  <2> QED BY <1>1, <2>1
<1>4. j \in DOMAIN clips /\ clips[j].id = c.id /\ clips[j] \in AnyClip /\ j # 0
      /\ (Distinct(clips) => j = i)
  <2> HIDE DEF clips, i
  <2>1. j \in DOMAIN clips /\ clips[j].id = c.id /\ (Distinct(clips) => j = i)
    BY <1>1, <1>3, IndexOfUnique
  <2>2. DOMAIN clips = 1 .. Len(clips)
    BY <1>1, ListClips
  <2> QED BY <1>1, <2>1, <2>2, ListClips
<1>5. Commit(seq, t, {r}, 1)
  BY <1>4 DEF BladeAt, UpdateId
<1> HIDE DEF i, j
<1>6. cut \in Int
  BY <1>1, <1>3, SrcAtType
<1>7. /\ x \in AnyClip /\ x.id = c.id /\ x.link = clips[j].link /\ x.in = clips[j].in /\ x.out = pos
      /\ y \in AnyClip /\ y.id = nextId /\ y.link = c.link /\ y.in = pos /\ y.out = c.out
  <2> HIDE DEF clips, cut
  <2>1. /\ x \in AnyClip /\ x.id = clips[j].id /\ x.link = clips[j].link
        /\ x.in = clips[j].in /\ x.out = pos
    <3> DEFINE d == clips[j]
    <3>1. d \in AnyClip
      BY <1>4
    <3> HIDE DEF d
    <3> QED BY <1>1, <1>6, <3>1, HalfTypes DEF d, AnyClip, LeftHalf
  <2>2. y \in AnyClip /\ y.id = nextId /\ y.link = c.link /\ y.in = pos /\ y.out = c.out
    <3>1. y \in AnyClip
      BY <1>1, <1>3, <1>6, HalfTypes
    <3> HIDE DEF c
    <3> QED BY <1>3, <3>1 DEF AnyClip, RightHalf, TailOf
  <2> QED BY <1>4, <2>1, <2>2
<1> HIDE DEF x, y, cut
<1>8. seq' = t /\ nextId' = nextId + 1 /\ nextId' \in Nat /\ nextId <= nextId'
  <2> HIDE DEF t
  <2> QED BY <1>1, <1>5, CommitGives
<1>9. left \in Seq(AnyClip) /\ DOMAIN left = DOMAIN clips
      /\ \A n \in DOMAIN clips : left[n] = IF n = j THEN x ELSE clips[n]
  <2> HIDE DEF clips
  <2> QED BY <1>1, <1>4, <1>7
<1> HIDE DEF left
<1>10. ClipsAt(s, r) = left /\ s \in Documents /\ r \in Refs(s)
  <2>1. ClipsAt(s, r) = left
    BY <1>1, <1>9, SetClipsFacts
  <2> QED BY <1>1, <1>9, <2>1, SetClipsKeeps
<1>a. t = SetClips(s, r, InsertSorted(left, y))
  <2>1. \A l : SetClips(s, r, l) = SetClips(seq, r, l)
    <3>1. r[1] \in Kinds /\ r[2] \in DOMAIN seq[r[1]]
      BY <1>1, RefFacts
    <3>2. seq \in [Kinds -> TrackLists] /\ seq[r[1]] \in TrackLists /\ seq[r[1]][r[2]] \in AnyTrack
      BY <1>1, <3>1, TrackFacts DEF Documents, TrackAt
    <3> HIDE DEF clips
    <3> QED BY <1>1, <3>1, <3>2 DEF SetClips, AnyTrack, TrackLists
  <2> QED BY <2>1
<1>11. KeepsUnique(seq, s)
  <2>1. Distinct(clips) => Distinct(left)
    <3> HIDE DEF clips
    <3> QED BY <1>4, <1>7, <1>9 DEF Distinct
  <2>2. \A n \in DOMAIN left : \E m \in DOMAIN clips : left[n].id = clips[m].id
    <3> HIDE DEF clips
    <3> QED BY <1>4, <1>7, <1>9
  <2> QED BY <1>1, <1>9, <2>1, <2>2, SetClipsUnique
<1>12. ASSUME NEW G, AllIn(seq, G), x \in G PROVE AllIn(s, G)
  <2>1. \A n \in DOMAIN left : left[n] \in G
    BY <1>9, <1>12 DEF AllIn
  <2> QED BY <1>1, <1>9, <1>12, <2>1, SetClipsKeeps
<1> HIDE DEF s
<1>13. /\ \A G : G \subseteq AnyClip /\ AllIn(s, G) /\ y \in G => AllIn(t, G)
       /\ AllIn(s, Other(nextId)) => KeepsUnique(s, t)
  BY <1>1, <1>7, <1>10, <1>a, AddedKeeps
<1>14. /\ Named(nextId) \subseteq Named(nextId') /\ Sound(nextId) \subseteq Sound(nextId')
       /\ Named(nextId') \subseteq AnyClip /\ Sound(nextId') \subseteq AnyClip
       /\ Named(nextId) \subseteq Other(nextId)
  <2>1. Named(nextId) \subseteq Other(nextId)
    BY <1>1, ClipNumbers DEF Named, Other
  <2> QED BY <1>1, <1>8, <2>1, NamedSets DEF Sound, Named
<1>15. ASSUME NEW G, AllIn(seq, G) PROVE c \in G /\ clips[j] \in G
  BY <1>3, <1>4, <1>15 DEF AllIn
<1>16. NamesKept
  <2> SUFFICES ASSUME AllIn(seq, Named(nextId)) PROVE AllIn(t, Named(nextId'))
    BY <1>8 DEF NamesKept
  <2>1. c \in Named(nextId)
    BY <1>15
  <2>2. x \in Named(nextId) /\ y \in Named(nextId')
    BY <1>1, <1>7, <1>8, <2>1 DEF Named
  <2>3. AllIn(s, Named(nextId'))
    BY <1>12, <1>14, <2>2, AllInMore
  <2> QED BY <1>13, <1>14, <2>2, <2>3
<1>17. SoundKept
  <2> SUFFICES ASSUME UniqueIds(seq), AllIn(seq, Sound(nextId)) PROVE AllIn(t, Sound(nextId'))
    BY <1>8 DEF SoundKept
  <2>1. c \in Sound(nextId) /\ clips[j] \in Sound(nextId)
    BY <1>15
  <2>2. x \in Sound(nextId)
    <3> HIDE DEF clips
    <3> QED BY <1>4, <1>7, <2>1 DEF Sound
  <2>3. y \in Sound(nextId')
    <3>1. c.link < nextId /\ c.link \in Nat
      BY <1>3, <2>1, ClipNumbers DEF Sound
    <3> HIDE DEF c
    <3> QED BY <1>1, <1>7, <1>8, <3>1 DEF Sound
  <2>4. AllIn(s, Sound(nextId'))
    BY <1>12, <1>14, <2>2, AllInMore
  <2> QED BY <1>13, <1>14, <2>3, <2>4
<1>18. UniqueKept
  <2> SUFFICES ASSUME AllIn(seq, Named(nextId)) PROVE KeepsUnique(seq, t)
    BY <1>8 DEF UniqueKept
  <2>1. c \in Named(nextId)
    BY <1>15
  <2>2. x \in Named(nextId)
    BY <1>7, <2>1 DEF Named
  <2>3. AllIn(s, Other(nextId))
    BY <1>12, <1>14, <2>2, AllInMore
  <2> QED BY <1>11, <1>13, <2>3 DEF KeepsUnique
<1>19. ASSUME UniqueIds(seq), AllApart(seq) PROVE AllApart(t)
  <2>1. Distinct(clips) /\ Apart(clips)
    BY <1>19, UniqueTrack DEF AllApart
  <2>2. j = i
    BY <1>4, <2>1
  <2>3. /\ x.in = clips[j].in /\ y.out = clips[j].out /\ x.out = y.in
        /\ x.in < x.out /\ y.in < y.out
    BY <1>2, <1>7, <2>2 DEF Spans
  <2> HIDE DEF clips
  <2>4. InsertSorted(left, y) \in Seq(AnyClip) /\ Apart(InsertSorted(left, y))
    BY <1>1, <1>4, <1>7, <2>1, <2>3, CutFacts DEF left
  <2> QED BY <1>1, <1>19, <2>4, SetClipsKeeps
<1> HIDE DEF t
<1> QED BY <1>8, <1>16, <1>17, <1>18, <1>19 DEF ApartKept, KeepsApart

LEMMA LinkFacts ==
    ASSUME NEW c \in AnyClip, NEW l \in Nat
    PROVE  LET d == [c EXCEPT !.link = l]
           IN  /\ d \in AnyClip /\ d.link = l
               /\ d.id = c.id /\ d.in = c.in /\ d.out = c.out /\ d.media = c.media
               /\ d.src = c.src /\ d.srcOut = c.srcOut
BY DEF AnyClip

\* What the blade makes of a clip that is cut at pos: x and y of c, y with a
\* new id, and with the links given.
Halves(x, y, c, pos, id, xlink, ylink) ==
    /\ x \in AnyClip /\ x.id = c.id /\ x.link = xlink /\ x.in = c.in /\ x.out = pos
    /\ y \in AnyClip /\ y.id = id /\ y.link = ylink /\ y.in = pos /\ y.out = c.out
    /\ x.media = c.media /\ y.media = c.media
    /\ x.src = c.src /\ y.src = SrcAt(c, pos)
    /\ x.srcOut = SrcAt(c, pos) /\ y.srcOut = c.srcOut

LEMMA HalvesMade ==
    ASSUME NEW c \in AnyClip, NEW pos \in Int, NEW id \in Nat, NEW xlink \in Nat, NEW ylink \in Nat
    PROVE  Halves([LeftHalf(c, pos, SrcAt(c, pos)) EXCEPT !.link = xlink],
                  [RightHalf(c, pos, id) EXCEPT !.link = ylink], c, pos, id, xlink, ylink)
<1> DEFINE a == LeftHalf(c, pos, SrcAt(c, pos))
           b == RightHalf(c, pos, id)
<1>1. SrcAt(c, pos) \in Int
  BY SrcAtType
<1>2. a \in AnyClip /\ b \in AnyClip
  BY <1>1, HalfTypes
<1>3. /\ a.id = c.id /\ a.in = c.in /\ a.out = pos /\ a.media = c.media /\ a.src = c.src
      /\ b.id = id /\ b.in = pos /\ b.out = c.out /\ b.media = c.media /\ b.src = SrcAt(c, pos)
      /\ a.srcOut = SrcAt(c, pos) /\ b.srcOut = c.srcOut
  BY DEF AnyClip, LeftHalf, RightHalf, TailOf
<1> HIDE DEF a, b
<1> DEFINE x == [a EXCEPT !.link = xlink]
           y == [b EXCEPT !.link = ylink]
<1>4. /\ x \in AnyClip /\ x.link = xlink /\ x.id = a.id /\ x.in = a.in /\ x.out = a.out
      /\ x.media = a.media /\ x.src = a.src /\ x.srcOut = a.srcOut
  BY <1>2, LinkFacts
<1>5. /\ y \in AnyClip /\ y.link = ylink /\ y.id = b.id /\ y.in = b.in /\ y.out = b.out
      /\ y.media = b.media /\ y.src = b.src /\ y.srcOut = b.srcOut
  BY <1>2, LinkFacts
<1> HIDE DEF x, y
<1>6. Halves(x, y, c, pos, id, xlink, ylink)
  BY <1>3, <1>4, <1>5 DEF Halves
<1> QED BY <1>6 DEF x, y, a, b

\* blade_linked_at in steps: the left part replaces the clip, the right parts are added.
LEMMA BladePairKeeps ==
    ASSUME Ready, nextId # 0, NEW r \in Refs(seq),
           NEW i \in DOMAIN ClipsAt(seq, r), NEW pos \in Int,
           NEW q \in Refs(seq) \cup {NoRef}, NEW mid \in Nat,
           q # NoRef => IndexOfId(ClipsAt(seq, q), mid) # 0,
           BladePair(r, i, q, mid, pos)
    PROVE  /\ NamesKept /\ UniqueKept
           /\ (q # NoRef => mid # ClipsAt(seq, r)[i].id) => SoundKept
<1> DEFINE hit == ClipsAt(seq, r)[i]
           mate == ClipWithId(seq, q, mid)
           both == q # NoRef /\ ~Locked(seq, q) /\ Spans(mate, pos)
           right == [RightHalf(hit, pos, nextId) EXCEPT !.link = IF both THEN nextId + 1 ELSE @]
           mright == [RightHalf(mate, pos, nextId + 1) EXCEPT !.link = nextId]
           left(c) == [LeftHalf(c, pos, SrcAt(hit, pos)) EXCEPT !.link =
                          IF q # NoRef THEN mid ELSE @]
           mleft(c) == [LeftHalf(c, pos, SrcAt(mate, pos)) EXCEPT !.link = hit.id]
           hit2 == ClipWithId(seq, r, hit.id)
           x == left(hit2)
           s == UpdatedTo(seq, r, hit.id, x)
           mate2 == ClipWithId(s, q, mid)
           mx == mleft(mate2)
           t == UpdatedTo(s, q, mid, mx)
           u == SetClips(t, q, InsertSorted(ClipsAt(t, q), mright))
           b == IF both THEN u ELSE s
           w == SetClips(b, r, InsertSorted(ClipsAt(b, r), right))
           n == IF both THEN 2 ELSE 1
<1>1. Commit(seq, w, {r, q}, n)
  <2>1. UpdateAt(seq, r, hit.id, left) = s
    BY DEF UpdateAt, UpdateId, UpdatedTo, ClipWithId
  <2>2. UpdateAt(s, q, mid, mleft) = t
    BY DEF UpdateAt, UpdateId, UpdatedTo, ClipWithId
  <2> QED BY <2>1, <2>2 DEF BladePair
<1>2. /\ Track = AnyTrack /\ seq \in Documents /\ nextId \in Nat /\ nextId + 1 \in Nat
      /\ n \in Nat /\ r # NoRef /\ ClipsAt(seq, r) \in Seq(AnyClip)
  BY RefFacts, TrackFacts DEF Ready
<1>3. hit \in AnyClip /\ hit.id \in Nat /\ hit.link \in Nat
      /\ \A G : AllIn(seq, G) => hit \in G
  BY <1>2, ListClips, ClipNumbers DEF AllIn
<1>4. IndexOfId(ClipsAt(seq, r), hit.id) # 0
  <2>1. DOMAIN ClipsAt(seq, r) = 1 .. Len(ClipsAt(seq, r))
    BY <1>2, ListClips
  <2>2. IndexOfId(ClipsAt(seq, r), hit.id) \in DOMAIN ClipsAt(seq, r)
    BY <1>2, IndexOfUnique
  <2> QED BY <2>1, <2>2
<1> HIDE DEF hit
<1>5. hit2 \in AnyClip /\ hit2.id = hit.id /\ \A G : AllIn(seq, G) => hit2 \in G
  BY <1>2, <1>4, FoundIn, TrackFacts DEF AllIn
<1>6. q # NoRef => /\ q \in Refs(seq) /\ mate \in AnyClip /\ mate.id = mid
                   /\ \A G : AllIn(seq, G) => mate \in G
  <2>1. q # NoRef => AllIn(seq, AnyClip) /\ q \in Refs(seq)
    BY <1>2, AllInLists, TrackFacts
  <2> QED BY <1>2, <2>1, FoundIn
<1> HIDE DEF hit2, mate
<1>7. SrcAt(hit, pos) \in Int /\ (q # NoRef => SrcAt(mate, pos) \in Int)
  BY <1>3, <1>6, SrcAtType
<1>8. /\ x \in AnyClip /\ x.id = hit.id
      /\ x.link = IF q # NoRef THEN mid ELSE hit2.link
  <2> DEFINE a == LeftHalf(hit2, pos, SrcAt(hit, pos))
  <2>1. a \in AnyClip
    BY <1>2, <1>5, <1>7, HalfTypes
  <2>2. a.id = hit2.id /\ a.link = hit2.link
    BY <1>5 DEF AnyClip, LeftHalf
  <2>3. (IF q # NoRef THEN mid ELSE a.link) \in Nat
    BY <2>1, ClipNumbers
  <2> HIDE DEF a
  <2>4. x = [a EXCEPT !.link = IF q # NoRef THEN mid ELSE a.link]
    BY <2>1 DEF a, AnyClip
  <2> HIDE DEF x
  <2> QED BY <1>5, <2>1, <2>2, <2>3, <2>4, LinkFacts
<1>9. /\ right \in AnyClip /\ right.id = nextId
      /\ right.link = IF both THEN nextId + 1 ELSE hit.link
  <2> DEFINE a == RightHalf(hit, pos, nextId)
  <2>1. a \in AnyClip
    BY <1>2, <1>3, <1>7, HalfTypes
  <2>2. a.id = nextId /\ a.link = hit.link
    BY <1>3 DEF AnyClip, RightHalf, TailOf
  <2>3. (IF both THEN nextId + 1 ELSE a.link) \in Nat
    BY <1>2, <2>1, ClipNumbers
  <2> HIDE DEF a, both
  <2>4. right = [a EXCEPT !.link = IF both THEN nextId + 1 ELSE a.link]
    BY <2>1 DEF a, AnyClip
  <2> HIDE DEF right
  <2> QED BY <1>5, <2>1, <2>2, <2>3, <2>4, LinkFacts
<1>10. both => mright \in AnyClip /\ mright.id = nextId + 1 /\ mright.link = nextId
  <2> DEFINE a == RightHalf(mate, pos, nextId + 1)
  <2>1. both => a \in AnyClip
    BY <1>2, <1>6, <1>7, HalfTypes
  <2>2. both => a.id = nextId + 1
    BY <1>6 DEF AnyClip, RightHalf, TailOf
  <2> HIDE DEF a
  <2> QED BY <1>2, <2>1, <2>2, LinkFacts DEF a
<1> HIDE DEF right, mright, x
<1>11. /\ s \in Documents /\ Refs(s) = Refs(seq)
       /\ KeepsUnique(seq, s)
       /\ \A G : AllIn(seq, G) /\ x \in G => AllIn(s, G)
  <2>1. r \in Refs(seq) \cup {NoRef}
    OBVIOUS
  <2> QED BY <1>2, <1>8, <2>1, UpdatedToKeeps
<1> HIDE DEF s
<1>13. w = seq' /\ nextId' = nextId + n /\ nextId' \in Nat /\ nextId <= nextId'
  <2> HIDE DEF w, n
  <2> QED BY <1>1, <1>2, CommitGives
<1>14. /\ \A G : AllIn(seq, G) => hit \in G /\ hit2 \in G /\ (q # NoRef => mate \in G)
       /\ Named(nextId) \subseteq Named(nextId') /\ Sound(nextId) \subseteq Sound(nextId')
       /\ Named(nextId') \subseteq AnyClip /\ Sound(nextId') \subseteq AnyClip
       /\ Named(nextId) \subseteq Other(nextId)
       /\ Named(nextId) \subseteq Other(nextId + 1)
  <2>1. Named(nextId) \subseteq Other(nextId) /\ Named(nextId) \subseteq Other(nextId + 1)
    BY <1>2, ClipNumbers DEF Named, Other
  <2>2. Named(nextId) \subseteq Named(nextId') /\ Sound(nextId) \subseteq Sound(nextId')
    BY <1>2, <1>13, NamedSets
  <2>3. Named(nextId') \subseteq AnyClip /\ Sound(nextId') \subseteq AnyClip
    BY DEF Sound, Named
  <2> HIDE DEF n
  <2> QED BY <1>3, <1>5, <1>6, <2>1, <2>2, <2>3
<1>15. CASE both
  <2>1. q \in Refs(seq) /\ q # NoRef /\ b = u /\ n = 2
    BY <1>6, <1>15
  <2>2. q \in Refs(s) /\ IndexOfId(ClipsAt(s, q), mid) # 0 => mate2 \in AnyClip /\ mate2.id = mid
    <3>1. AllIn(s, AnyClip)
      BY <1>2, <1>11, AllInLists, TrackFacts
    <3> QED BY <1>2, <1>11, <3>1, FoundIn
  <2> HIDE DEF mate2
  <2>3. q \in Refs(s) /\ IndexOfId(ClipsAt(s, q), mid) # 0 =>
            mx \in AnyClip /\ mx.id = mid /\ mx.link = hit.id
    <3> DEFINE a == LeftHalf(mate2, pos, SrcAt(mate, pos))
    <3> SUFFICES ASSUME q \in Refs(s), IndexOfId(ClipsAt(s, q), mid) # 0
                 PROVE  mx \in AnyClip /\ mx.id = mid /\ mx.link = hit.id
      OBVIOUS
    <3>1. a \in AnyClip
      BY <1>2, <1>7, <2>1, <2>2, HalfTypes
    <3>2. a.id = mid
      BY <2>2 DEF AnyClip, LeftHalf
    <3> HIDE DEF a
    <3>3. mx = [a EXCEPT !.link = hit.id]
      BY DEF a
    <3> HIDE DEF mx
    <3> QED BY <1>3, <3>1, <3>2, <3>3, LinkFacts
  <2> HIDE DEF mx
  <2>4. /\ t \in Documents /\ Refs(t) = Refs(s)
        /\ KeepsUnique(s, t)
        /\ \A G : AllIn(s, G) /\ (IndexOfId(ClipsAt(s, q), mid) # 0 => mx \in G) => AllIn(t, G)
    <3>1. q \in Refs(s) \cup {NoRef}
      BY <1>11, <2>1
    <3> QED BY <1>2, <1>11, <2>1, <2>3, <3>1, UpdatedToKeeps
  <2> HIDE DEF t
  <2>5. /\ u \in Documents /\ Refs(u) = Refs(t)
        /\ \A G : G \subseteq AnyClip /\ AllIn(t, G) /\ mright \in G => AllIn(u, G)
        /\ AllIn(t, Other(nextId + 1)) => KeepsUnique(t, u)
    <3>1. q \in Refs(t) /\ mright \in AnyClip
      BY <1>10, <1>11, <1>15, <2>1, <2>4
    <3> QED BY <1>2, <1>10, <1>15, <2>4, <3>1, AddedKeeps
  <2> HIDE DEF u
  <2>6. /\ \A G : G \subseteq AnyClip /\ AllIn(u, G) /\ right \in G => AllIn(w, G)
        /\ AllIn(u, Other(nextId)) => KeepsUnique(u, w)
    <3>1. r \in Refs(u)
      BY <1>11, <2>4, <2>5
    <3> QED BY <1>2, <1>9, <2>1, <2>5, <3>1, AddedKeeps
  <2> HIDE DEF w, b, n, both
  <2>7. ASSUME NEW G, G \subseteq AnyClip, AllIn(seq, G), x \in G,
               q \in Refs(s) /\ IndexOfId(ClipsAt(s, q), mid) # 0 => mx \in G
        PROVE  AllIn(t, G)
    BY <1>11, <2>1, <2>4, <2>7
  <2>8. ASSUME NEW G, G \subseteq AnyClip, AllIn(t, G), mright \in G, right \in G
        PROVE  AllIn(w, G)
    BY <2>5, <2>6, <2>8
  <2>9. NamesKept
    <3> SUFFICES ASSUME AllIn(seq, Named(nextId)) PROVE AllIn(w, Named(nextId'))
      BY <1>13 DEF NamesKept
    <3>1. hit.id < nextId /\ mid < nextId
      BY <1>6, <1>14, <2>1 DEF Named
    <3>2. /\ x \in Named(nextId')
          /\ q \in Refs(s) /\ IndexOfId(ClipsAt(s, q), mid) # 0 => mx \in Named(nextId')
          /\ mright \in Named(nextId') /\ right \in Named(nextId')
      BY <1>2, <1>3, <1>8, <1>9, <1>10, <1>13, <1>15, <2>1, <2>3, <3>1 DEF Named
    <3> QED BY <1>14, <2>7, <2>8, <3>2, AllInMore
  <2>10. ASSUME mid # hit.id PROVE SoundKept
    <3> SUFFICES ASSUME AllIn(seq, Sound(nextId)) PROVE AllIn(w, Sound(nextId'))
      BY <1>13 DEF SoundKept
    <3>1. hit.id < nextId /\ mid < nextId
      BY <1>6, <1>14, <2>1 DEF Sound
    <3>2. x \in Sound(nextId')
      BY <1>2, <1>3, <1>8, <1>13, <2>1, <2>10, <3>1 DEF Sound
    <3>3. q \in Refs(s) /\ IndexOfId(ClipsAt(s, q), mid) # 0 => mx \in Sound(nextId')
      BY <1>2, <1>3, <1>13, <2>1, <2>3, <2>10, <3>1 DEF Sound
    <3>4. mright \in Sound(nextId')
      BY <1>2, <1>10, <1>13, <1>15, <2>1 DEF Sound
    <3>5. right \in Sound(nextId')
      BY <1>2, <1>9, <1>13, <1>15, <2>1 DEF Sound
    <3> QED BY <1>14, <2>7, <2>8, <3>2, <3>3, <3>4, <3>5, AllInMore
  <2>11. UniqueKept
    <3> SUFFICES ASSUME AllIn(seq, Named(nextId)) PROVE KeepsUnique(seq, w)
      BY <1>13 DEF UniqueKept
    <3>1. hit.id < nextId /\ mid < nextId
      BY <1>6, <1>14, <2>1 DEF Named
    <3>2. x \in Named(nextId)
      BY <1>8, <3>1 DEF Named
    <3>3. q \in Refs(s) /\ IndexOfId(ClipsAt(s, q), mid) # 0 => mx \in Named(nextId)
      BY <2>3, <3>1 DEF Named
    <3>4. AllIn(t, Named(nextId)) /\ Named(nextId) \subseteq AnyClip
      BY <2>7, <3>2, <3>3 DEF Named
    <3>5. AllIn(t, Other(nextId + 1)) /\ AllIn(t, Other(nextId))
      BY <1>14, <3>4, AllInMore
    <3>6. mright \in Other(nextId) /\ Other(nextId) \subseteq AnyClip
      BY <1>2, <1>10, <1>15 DEF Other
    <3>7. AllIn(u, Other(nextId))
      BY <2>5, <3>5, <3>6
    <3> QED BY <1>11, <2>4, <2>5, <2>6, <3>5, <3>7 DEF KeepsUnique
  <2> QED BY <2>9, <2>10, <2>11, <2>1 DEF hit
<1>16. CASE ~both
  <2>1. b = s /\ n = 1
    BY <1>16
  <2>2. /\ \A G : G \subseteq AnyClip /\ AllIn(s, G) /\ right \in G => AllIn(w, G)
        /\ AllIn(s, Other(nextId)) => KeepsUnique(s, w)
    <3> HIDE DEF b
    <3>1. r \in Refs(s)
      BY <1>11
    <3> QED BY <1>2, <1>9, <1>11, <2>1, <3>1, AddedKeeps
  <2> HIDE DEF w, b, n, both
  <2>3. NamesKept
    <3> SUFFICES ASSUME AllIn(seq, Named(nextId)) PROVE AllIn(w, Named(nextId'))
      BY <1>13 DEF NamesKept
    <3>1. hit.id < nextId
      BY <1>14 DEF Named
    <3>2. x \in Named(nextId') /\ right \in Named(nextId')
      BY <1>2, <1>3, <1>8, <1>9, <1>13, <2>1, <3>1 DEF Named
    <3> QED BY <1>11, <1>14, <2>2, <3>2, AllInMore
  <2>4. ASSUME q # NoRef => mid # hit.id PROVE SoundKept
    <3> SUFFICES ASSUME AllIn(seq, Sound(nextId)) PROVE AllIn(w, Sound(nextId'))
      BY <1>13 DEF SoundKept
    <3>1. hit \in Sound(nextId) /\ hit2 \in Sound(nextId) /\ (q # NoRef => mid < nextId)
      BY <1>6, <1>14 DEF Sound
    <3>2. x \in Sound(nextId)
      BY <1>3, <1>5, <1>8, <2>4, <3>1 DEF Sound
    <3>3. right \in Sound(nextId')
      BY <1>2, <1>3, <1>9, <1>13, <1>16, <2>1, <3>1 DEF Sound
    <3> QED BY <1>11, <1>14, <2>2, <3>2, <3>3, AllInMore
  <2>5. UniqueKept
    <3> SUFFICES ASSUME AllIn(seq, Named(nextId)) PROVE KeepsUnique(seq, w)
      BY <1>13 DEF UniqueKept
    <3>1. x \in Named(nextId)
      BY <1>8, <1>14 DEF Named
    <3>2. AllIn(s, Other(nextId))
      BY <1>11, <1>14, <3>1, AllInMore
    <3> QED BY <1>11, <2>2, <3>2 DEF KeepsUnique
  <2> QED BY <2>3, <2>4, <2>5 DEF hit
<1> QED BY <1>15, <1>16

\* A sequence with a track written.
LEMMA Written ==
    ASSUME Track = AnyTrack, NEW s \in Documents, NEW r \in Refs(s), NEW clips \in Seq(AnyClip),
           NEW u, u = SetClips(s, r, clips)
    PROVE  /\ u \in Documents /\ Refs(u) = Refs(s) /\ ClipsAt(u, r) = clips
           /\ \A p \in Refs(s) \ {r} : ClipsAt(u, p) = ClipsAt(s, p)
<1>1. /\ Changed(s, u, r) /\ ClipsAt(u, r) = clips
      /\ \A p \in Refs(s) \ {r} : ClipsAt(u, p) = ClipsAt(s, p)
  BY SetClipsFacts
<1> QED BY <1>1 DEF Changed

\* The same as lists of clips, where ids name one clip and the mate is on
\* another track.
PairCut(r, i, q, mid, pos) ==
    LET c == ClipsAt(seq, r)[i]
        j == IndexOfId(ClipsAt(seq, q), mid)
        d == ClipsAt(seq, q)[j]
        both == q # NoRef /\ ~Locked(seq, q) /\ Spans(d, pos)
    IN  /\ seq' \in Documents /\ Refs(seq') = Refs(seq)
        /\ nextId' = nextId + IF both THEN 2 ELSE 1
        /\ \E x, y :
              /\ Halves(x, y, c, pos, nextId, IF q # NoRef THEN mid ELSE c.link,
                        IF both THEN nextId + 1 ELSE c.link)
              /\ ClipsAt(seq', r) = InsertSorted([ClipsAt(seq, r) EXCEPT ![i] = x], y)
        /\ both => \E x, y :
              /\ Halves(x, y, d, pos, nextId + 1, c.id, nextId)
              /\ ClipsAt(seq', q) = InsertSorted([ClipsAt(seq, q) EXCEPT ![j] = x], y)
        /\ \A p \in Refs(seq) : p # r /\ ~(both /\ p = q) => ClipsAt(seq', p) = ClipsAt(seq, p)

LEMMA BladePairCuts ==
    ASSUME Ready, nextId # 0, UniqueIds(seq), NEW r \in Refs(seq),
           NEW i \in DOMAIN ClipsAt(seq, r), NEW pos \in Int,
           NEW q \in Refs(seq) \cup {NoRef}, q # r, NEW mid \in Nat,
           q # NoRef => IndexOfId(ClipsAt(seq, q), mid) # 0,
           BladePair(r, i, q, mid, pos)
    PROVE  PairCut(r, i, q, mid, pos)
<1> DEFINE clips == ClipsAt(seq, r)
           hit == clips[i]
           k == IndexOfId(clips, hit.id)
           mates == ClipsAt(seq, q)
           j == IndexOfId(mates, mid)
           mate == mates[j]
           both == q # NoRef /\ ~Locked(seq, q) /\ Spans(mate, pos)
           right == [RightHalf(hit, pos, nextId) EXCEPT !.link = IF both THEN nextId + 1 ELSE @]
           mright == [RightHalf(mate, pos, nextId + 1) EXCEPT !.link = nextId]
           left(c) == [LeftHalf(c, pos, SrcAt(hit, pos)) EXCEPT !.link =
                          IF q # NoRef THEN mid ELSE @]
           mleft(c) == [LeftHalf(c, pos, SrcAt(mate, pos)) EXCEPT !.link = hit.id]
           x == left(hit)
           mx == mleft(mate)
           s == UpdateAt(seq, r, hit.id, left)
           t == UpdateAt(s, q, mid, mleft)
           u == SetClips(t, q, InsertSorted(ClipsAt(t, q), mright))
           b == IF both THEN u ELSE s
           w == SetClips(b, r, InsertSorted(ClipsAt(b, r), right))
           n == IF both THEN 2 ELSE 1
<1>1. Commit(seq, w, {r, q}, n)
  BY DEF BladePair, ClipWithId
<1>2. /\ Track = AnyTrack /\ seq \in Documents /\ nextId \in Nat /\ nextId + 1 \in Nat
      /\ n \in Nat /\ r # NoRef /\ clips \in Seq(AnyClip)
  BY RefFacts, TrackFacts DEF Ready
<1>3. hit \in AnyClip /\ hit.id \in Nat /\ hit.link \in Nat
  BY <1>2, ListClips, ClipNumbers
<1>4. k = i /\ k # 0
  <2>1. Distinct(clips) /\ i # 0 /\ i \in DOMAIN clips
    BY <1>2, UniqueTrack, ListClips
  <2> HIDE DEF clips
  <2> QED BY <1>2, <2>1, IndexOfUnique
<1>5. q # NoRef => /\ q \in Refs(seq) /\ mates \in Seq(AnyClip) /\ j \in DOMAIN mates /\ j # 0
                   /\ mate \in AnyClip /\ mate.id = mid
  <2> SUFFICES ASSUME q # NoRef
               PROVE  /\ q \in Refs(seq) /\ mates \in Seq(AnyClip) /\ j \in DOMAIN mates /\ j # 0
                      /\ mate \in AnyClip /\ mate.id = mid
    OBVIOUS
  <2>1. q \in Refs(seq) /\ mates \in Seq(AnyClip) /\ j # 0
    BY <1>2, TrackFacts
  <2> HIDE DEF mates
  <2> QED BY <2>1, IndexOfIdFinds, ListClips
<1>6. s = SetClips(seq, r, [clips EXCEPT ![i] = x])
  BY <1>2, <1>4 DEF UpdateAt, UpdateId
<1>7. SrcAt(hit, pos) \in Int /\ (q # NoRef => SrcAt(mate, pos) \in Int)
  BY <1>3, <1>5, SrcAtType
<1> HIDE DEF hit, mate, k, j
<1>8. Halves(x, right, hit, pos, nextId, IF q # NoRef THEN mid ELSE hit.link,
             IF both THEN nextId + 1 ELSE hit.link)
  <2> DEFINE xlink == IF q # NoRef THEN mid ELSE hit.link
             ylink == IF both THEN nextId + 1 ELSE hit.link
             a == LeftHalf(hit, pos, SrcAt(hit, pos))
             e == RightHalf(hit, pos, nextId)
  <2>1. xlink \in Nat /\ ylink \in Nat
    BY <1>2, <1>3
  <2>2. a \in AnyClip /\ e \in AnyClip /\ a.link = hit.link /\ e.link = hit.link
    <3>1. a \in AnyClip /\ e \in AnyClip
      BY <1>2, <1>3, <1>7, HalfTypes
    <3> QED BY <1>3, <3>1 DEF AnyClip, LeftHalf, RightHalf, TailOf
  <2>3. x = [a EXCEPT !.link = xlink]
    <3> HIDE DEF a
    <3> QED BY <2>2 DEF a
  <2>4. right = [e EXCEPT !.link = ylink]
    <3> HIDE DEF e, both
    <3> QED BY <2>2 DEF e
  <2> HIDE DEF xlink, ylink, x, right
  <2>5. Halves([a EXCEPT !.link = xlink], [e EXCEPT !.link = ylink], hit, pos, nextId, xlink, ylink)
    BY <1>2, <1>3, <2>1, HalvesMade
  <2>6. Halves(x, right, hit, pos, nextId, xlink, ylink)
    BY <2>3, <2>4, <2>5
  <2> QED BY <2>6 DEF xlink, ylink
<1>9. both => Halves(mx, mright, mate, pos, nextId + 1, hit.id, nextId)
  <2>1. both => mate \in AnyClip
    BY <1>5
  <2> HIDE DEF both
  <2> QED BY <1>2, <1>3, <2>1, HalvesMade
<1>10. x \in AnyClip /\ right \in AnyClip /\ (both => mx \in AnyClip /\ mright \in AnyClip)
  <2> HIDE DEF x, right, mx, mright, both
  <2> QED BY <1>8, <1>9 DEF Halves
<1> DEFINE list == [clips EXCEPT ![i] = x]
           mlist == [mates EXCEPT ![j] = mx]
<1>11. list \in Seq(AnyClip) /\ (both => mlist \in Seq(AnyClip))
  <2>1. i \in DOMAIN clips /\ (both => mates \in Seq(AnyClip) /\ j \in DOMAIN mates)
    BY <1>5
  <2>2. ASSUME NEW l \in Seq(AnyClip), NEW e \in AnyClip, NEW m \in DOMAIN l
        PROVE  [l EXCEPT ![m] = e] \in Seq(AnyClip)
    OBVIOUS
  <2> HIDE DEF x, mx, clips, mates, both
  <2>3. list \in Seq(AnyClip)
    BY <1>2, <1>10, <2>1, <2>2
  <2>4. both => mlist \in Seq(AnyClip)
    BY <1>10, <2>1, <2>2
  <2> QED BY <2>3, <2>4
<1>12. /\ s \in Documents /\ Refs(s) = Refs(seq) /\ ClipsAt(s, r) = list
       /\ \A p \in Refs(seq) \ {r} : ClipsAt(s, p) = ClipsAt(seq, p)
  <2> HIDE DEF list, s
  <2>1. s = SetClips(seq, r, list)
    BY <1>6 DEF list
  <2> QED BY <1>2, <1>11, <2>1, Written
<1>13. w = seq' /\ nextId' = nextId + n
  <2> HIDE DEF w, n
  <2> QED BY <1>1, <1>2, CommitGives
<1>14. CASE both
  <2>1. q \in Refs(seq) /\ q \in Refs(s) /\ ClipsAt(s, q) = mates
    BY <1>5, <1>12, <1>14
  <2>2. t = SetClips(s, q, mlist)
    <3>1. IndexOfId(ClipsAt(s, q), mid) = j /\ j # 0 /\ j \in DOMAIN mates /\ q # NoRef
      BY <1>5, <1>14, <2>1 DEF j
    <3> HIDE DEF s, mates
    <3> QED BY <2>1, <3>1 DEF UpdateAt, UpdateId, mate
  <2> HIDE DEF list, mlist, s, t
  <2>3. /\ t \in Documents /\ Refs(t) = Refs(seq) /\ ClipsAt(t, q) = mlist
        /\ \A p \in Refs(seq) \ {q} : ClipsAt(t, p) = ClipsAt(s, p)
    BY <1>2, <1>11, <1>12, <1>14, <2>1, <2>2, Written
  <2> DEFINE mnew == InsertSorted(mlist, mright)
  <2>4. mnew \in Seq(AnyClip) /\ u = SetClips(t, q, mnew)
    BY <1>10, <1>11, <1>14, <2>3, InsertSortedType
  <2> HIDE DEF mnew, u
  <2>5. /\ u \in Documents /\ Refs(u) = Refs(seq) /\ ClipsAt(u, q) = mnew
        /\ \A p \in Refs(seq) \ {q} : ClipsAt(u, p) = ClipsAt(t, p)
    BY <1>2, <2>1, <2>3, <2>4, Written
  <2>6. b = u /\ ClipsAt(u, r) = list /\ n = 2
    BY <1>12, <1>14, <2>3, <2>5
  <2> DEFINE new == InsertSorted(list, right)
  <2>7. new \in Seq(AnyClip) /\ w = SetClips(u, r, new)
    BY <1>10, <1>11, <2>6, InsertSortedType
  <2> HIDE DEF new, w
  <2>8. /\ w \in Documents /\ Refs(w) = Refs(seq) /\ ClipsAt(w, r) = new
        /\ \A p \in Refs(seq) \ {r} : ClipsAt(w, p) = ClipsAt(u, p)
    BY <1>2, <2>5, <2>7, Written
  <2>9. /\ ClipsAt(w, r) = InsertSorted([clips EXCEPT ![i] = x], right)
        /\ ClipsAt(w, q) = InsertSorted([mates EXCEPT ![j] = mx], mright)
        /\ \A p \in Refs(seq) : p # r /\ p # q => ClipsAt(w, p) = ClipsAt(seq, p)
    <3>1. ClipsAt(w, r) = InsertSorted([clips EXCEPT ![i] = x], right)
      BY <2>8 DEF new, list
    <3>2. ClipsAt(w, q) = InsertSorted([mates EXCEPT ![j] = mx], mright)
      <4>1. ClipsAt(w, q) = mnew
        BY <2>1, <2>5, <2>8
      <4> QED BY <4>1 DEF mnew, mlist
    <3>3. ASSUME NEW p \in Refs(seq), p # r, p # q PROVE ClipsAt(w, p) = ClipsAt(seq, p)
      BY <1>12, <2>3, <2>5, <2>8, <3>3
    <3> QED BY <3>1, <3>2, <3>3
  <2> HIDE DEF x, right, mx, mright, b, n
  <2>10. /\ seq' \in Documents /\ Refs(seq') = Refs(seq) /\ nextId' = nextId + 2
         /\ \E x1, y1 :
              /\ Halves(x1, y1, hit, pos, nextId, IF q # NoRef THEN mid ELSE hit.link,
                        IF both THEN nextId + 1 ELSE hit.link)
              /\ ClipsAt(seq', r) = InsertSorted([clips EXCEPT ![i] = x1], y1)
         /\ \E x1, y1 :
              /\ Halves(x1, y1, mate, pos, nextId + 1, hit.id, nextId)
              /\ ClipsAt(seq', q) = InsertSorted([mates EXCEPT ![j] = x1], y1)
         /\ \A p \in Refs(seq) : p # r /\ p # q => ClipsAt(seq', p) = ClipsAt(seq, p)
    <3> HIDE DEF clips, mates, both
    <3> QED BY <1>8, <1>9, <1>13, <1>14, <2>6, <2>8, <2>9
  <2> QED BY <1>14, <2>10 DEF PairCut, hit, mate, j
<1>15. CASE ~both
  <2>1. b = s /\ n = 1
    BY <1>15
  <2> DEFINE new == InsertSorted(list, right)
  <2> HIDE DEF list, s
  <2>2. new \in Seq(AnyClip) /\ w = SetClips(s, r, new)
    BY <1>10, <1>11, <1>12, <2>1, InsertSortedType
  <2> HIDE DEF new, w
  <2>3. /\ w \in Documents /\ Refs(w) = Refs(seq) /\ ClipsAt(w, r) = new
        /\ \A p \in Refs(seq) \ {r} : ClipsAt(w, p) = ClipsAt(s, p)
    BY <1>2, <1>12, <2>2, Written
  <2>4. ClipsAt(w, r) = InsertSorted([clips EXCEPT ![i] = x], right)
    BY <2>3 DEF new, list
  <2>5. ASSUME NEW p \in Refs(seq), p # r PROVE ClipsAt(w, p) = ClipsAt(seq, p)
    BY <1>12, <2>3, <2>5
  <2> HIDE DEF x, right, mx, mright, b, n
  <2>6. /\ seq' \in Documents /\ Refs(seq') = Refs(seq) /\ nextId' = nextId + 1
        /\ \E x1, y1 :
              /\ Halves(x1, y1, hit, pos, nextId, IF q # NoRef THEN mid ELSE hit.link,
                        IF both THEN nextId + 1 ELSE hit.link)
              /\ ClipsAt(seq', r) = InsertSorted([clips EXCEPT ![i] = x1], y1)
        /\ \A p \in Refs(seq) : p # r => ClipsAt(seq', p) = ClipsAt(seq, p)
    <3> HIDE DEF clips, mates, both
    <3> QED BY <1>8, <1>13, <2>1, <2>3, <2>4, <2>5
  <2> QED BY <1>15, <2>6 DEF PairCut, hit, mate, j
<1> QED BY <1>14, <1>15

\* The blade with the clip it finds: the mate, or where there is none an
\* unlinked sibling on a track of the other kind.
BladeFinds(r, i, q, mid, pos) ==
    LET hit == ClipsAt(seq, r)[i]
    IN  /\ ~Locked(seq, r) /\ Spans(hit, pos)
        /\ BladePair(r, i, q, mid, pos)
        /\ \/ q = MateRef(seq, hit) /\ q # NoRef /\ mid = hit.link /\ hit.link # 0
           \/ MateRef(seq, hit) = NoRef /\ (q # NoRef => q[1] # r[1])

LEMMA BladeLinkedFinds ==
    ASSUME Ready, NEW r \in Refs(seq), NEW pos \in Int, BladeLinkedAt(r, pos)
    PROVE  \E i \in DOMAIN ClipsAt(seq, r), q \in Refs(seq) \cup {NoRef}, mid \in Nat :
              /\ q # NoRef => /\ IndexOfId(ClipsAt(seq, q), mid) # 0
                              /\ \E j \in DOMAIN ClipsAt(seq, q) : ClipsAt(seq, q)[j].id = mid
              /\ BladeFinds(r, i, q, mid, pos)
<1> DEFINE i == IndexAt(ClipsAt(seq, r), pos)
           hit == ClipsAt(seq, r)[i]
           q == MateRef(seq, hit)
           k == OtherKind(r[1])
           near == Siblings(hit, k, pos)
           Found(n, m) == n # NoRef => /\ IndexOfId(ClipsAt(seq, n), m) # 0
                                       /\ \E j \in DOMAIN ClipsAt(seq, n) : ClipsAt(seq, n)[j].id = m
<1>1. /\ ~Locked(seq, r) /\ i # 0 /\ Spans(hit, pos)
      /\ \/ q # NoRef /\ BladePair(r, i, q, hit.link, pos)
         \/ q = NoRef /\ BladePair(r, i, NoRef, 0, pos)
         \/ q = NoRef /\ \E p \in near :
               BladePair(r, i, <<k, p[1]>>, seq[k][p[1]].clips[p[2]].id, pos)
  BY DEF BladeLinkedAt
<1>2. Track = AnyTrack /\ seq \in Documents /\ ClipsAt(seq, r) \in Seq(AnyClip)
  BY TrackFacts DEF Ready
<1>3. i \in DOMAIN ClipsAt(seq, r) /\ hit \in AnyClip /\ hit.link \in Nat
  <2>2. i \in 1 .. Len(ClipsAt(seq, r)) /\ DOMAIN ClipsAt(seq, r) = 1 .. Len(ClipsAt(seq, r))
    BY <1>1, <1>2, IndexAtFinds
  <2>3. hit \in AnyClip
    BY <1>2, <2>2
  <2> QED BY <2>2, <2>3 DEF AnyClip
<1> HIDE DEF i
<1>4. CASE q # NoRef /\ BladePair(r, i, q, hit.link, pos)
  <2>1. hit.link # 0
    BY <1>4 DEF MateRef
  <2>2. /\ q \in Refs(seq) /\ IndexOfId(ClipsAt(seq, q), hit.link) \in 1 .. Len(ClipsAt(seq, q))
        /\ ClipWithId(seq, q, hit.link).id = hit.link
    BY <1>3, <1>4, MateFacts
  <2>3. ClipsAt(seq, q) \in Seq(AnyClip)
    BY <1>2, <2>2, TrackFacts
  <2>4. BladeFinds(r, i, q, hit.link, pos)
    BY <1>1, <1>4, <2>1 DEF BladeFinds
  <2>5. Found(q, hit.link)
    <3> HIDE DEF q, hit
    <3>1. DOMAIN ClipsAt(seq, q) = 1 .. Len(ClipsAt(seq, q))
      BY <2>3
    <3> QED BY <2>2, <3>1 DEF ClipWithId
  <2> HIDE DEF q, hit
  <2> QED BY <1>3, <2>2, <2>4, <2>5
<1>5. CASE q = NoRef /\ BladePair(r, i, NoRef, 0, pos)
  <2>1. BladeFinds(r, i, NoRef, 0, pos)
    BY <1>1, <1>5 DEF BladeFinds
  <2>2. Found(NoRef, 0) /\ 0 \in Nat
    OBVIOUS
  <2> HIDE DEF q, hit
  <2> QED BY <1>3, <2>1, <2>2
<1>6. ASSUME NEW p \in near, q = NoRef,
             BladePair(r, i, <<k, p[1]>>, seq[k][p[1]].clips[p[2]].id, pos)
      PROVE  \E m \in Refs(seq), mid \in Nat : Found(m, mid) /\ BladeFinds(r, i, m, mid, pos)
  <2>1. k \in Kinds /\ k # r[1]
    BY <1>2, RefFacts DEF OtherKind, Kinds
  <2>2. p[1] \in 1 .. Len(seq[k]) /\ p[2] \in 1 .. Horizon + 1 /\ p[2] <= Len(seq[k][p[1]].clips)
    BY Zenon, <1>6 DEF Siblings
  <2> DEFINE m == <<k, p[1]>>
             mid == seq[k][p[1]].clips[p[2]].id
  <2>a. BladeFinds(r, i, m, mid, pos)
    BY Zenon, <1>1, <1>6, <2>1 DEF BladeFinds
  <2> HIDE DEF k
  <2>3. m \in Refs(seq)
    <3>1. p[1] \in DOMAIN seq[k]
      BY <1>2, <2>1, <2>2, DocumentFacts
    <3> QED BY <1>2, <2>1, <3>1, RefIntro
  <2>4. ClipsAt(seq, m) \in Seq(AnyClip) /\ ClipsAt(seq, m) = seq[k][p[1]].clips
    BY <1>2, <2>3, TrackFacts DEF ClipsAt, TrackAt
  <2>5. Horizon \in Nat
    BY ReadyFacts
  <2> HIDE DEF m
  <2>6. p[2] \in 1 .. Len(ClipsAt(seq, m)) /\ ClipsAt(seq, m)[p[2]].id = mid
    BY <2>2, <2>4, <2>5
  <2>7. ClipsAt(seq, m)[p[2]] \in AnyClip /\ p[2] \in DOMAIN ClipsAt(seq, m)
    BY <2>4, <2>6
  <2>8. mid \in Nat
    BY <2>6, <2>7 DEF AnyClip
  <2> HIDE DEF mid
  <2>9. Found(m, mid)
    BY Zenon, <2>4, <2>6, <2>7, IndexOfIdFinds
  <2> QED BY <2>3, <2>8, <2>9, <2>a
<1>7. CASE q = NoRef /\ \E p \in near :
               BladePair(r, i, <<k, p[1]>>, seq[k][p[1]].clips[p[2]].id, pos)
  <2> HIDE DEF q, near, hit
  <2> QED BY <1>3, <1>6, <1>7
<1> HIDE DEF q, near, hit
<1> QED BY Zenon, <1>1, <1>4, <1>5, <1>7

\* Where ids name one clip and links are sound, the mate of a clip is another clip.
LEMMA BladeFindsOther ==
    ASSUME Ready, UniqueIds(seq), AllIn(seq, Sound(nextId)), NEW r \in Refs(seq), NEW pos \in Int,
           NEW i \in DOMAIN ClipsAt(seq, r), NEW q \in Refs(seq), NEW mid,
           NEW j \in DOMAIN ClipsAt(seq, q), ClipsAt(seq, q)[j].id = mid,
           BladeFinds(r, i, q, mid, pos)
    PROVE  /\ mid # ClipsAt(seq, r)[i].id
           /\ AllApart(seq) /\ Spans(ClipsAt(seq, q)[j], pos) => q # r
<1>1. Track = AnyTrack /\ seq \in Documents /\ ClipsAt(seq, r) \in Seq(AnyClip) /\ q # NoRef
  BY TrackFacts, RefFacts DEF Ready
<1>2. mid # ClipsAt(seq, r)[i].id
  <2>1. CASE mid = ClipsAt(seq, r)[i].link /\ mid # 0
    BY <2>1 DEF AllIn, Sound
  <2>2. CASE q[1] # r[1]
    BY <2>2 DEF UniqueIds
  <2> QED BY <1>1, <2>1, <2>2 DEF BladeFinds
<1>3. ASSUME AllApart(seq), Spans(ClipsAt(seq, q)[j], pos), q = r
      PROVE  FALSE
  <2> DEFINE clips == ClipsAt(seq, r)
  <2>1. Apart(clips) /\ Spans(clips[i], pos) /\ Spans(clips[j], pos) /\ i # j /\ j \in DOMAIN clips
    BY <1>2, <1>3 DEF AllApart, BladeFinds
  <2> HIDE DEF clips
  <2>2. DOMAIN clips = 1 .. Len(clips) /\ Len(clips) \in Nat /\ i \in DOMAIN clips
    BY <1>1 DEF clips
  <2>3. /\ clips[i].in \in Int /\ clips[i].out \in Int /\ clips[j].in \in Int /\ clips[j].out \in Int
    BY <1>1, <2>1, <2>2, ListClips, ClipNumbers DEF clips
  <2>4. CASE i < j
    BY <2>1, <2>2, <2>3, <2>4 DEF Apart, Spans
  <2>5. CASE j < i
    BY <2>1, <2>2, <2>3, <2>5 DEF Apart, Spans
  <2> QED BY <2>1, <2>2, <2>4, <2>5
<1> QED BY <1>2, <1>3

\* Cutting a clip in place leaves its track apart.
LEMMA CutApart ==
    ASSUME NEW clips \in Seq(AnyClip), NEW i \in DOMAIN clips, Apart(clips), NEW pos \in Int,
           NEW x, NEW y, NEW id, NEW xlink, NEW ylink,
           Halves(x, y, clips[i], pos, id, xlink, ylink), Spans(clips[i], pos)
    PROVE  Apart(InsertSorted([clips EXCEPT ![i] = x], y))
<1>1. /\ x \in AnyClip /\ y \in AnyClip /\ x.in = clips[i].in /\ y.out = clips[i].out
      /\ x.out = y.in /\ x.in < x.out /\ y.in < y.out
  BY DEF Halves, Spans
<1> QED BY <1>1, CutFacts

LEMMA PairCutApart ==
    ASSUME Ready, NEW r \in Refs(seq), NEW i \in DOMAIN ClipsAt(seq, r), NEW pos \in Int,
           NEW q \in Refs(seq) \cup {NoRef}, NEW mid,
           q # NoRef => IndexOfId(ClipsAt(seq, q), mid) # 0,
           Spans(ClipsAt(seq, r)[i], pos), PairCut(r, i, q, mid, pos), AllApart(seq)
    PROVE  AllApart(seq')
<1> DEFINE j == IndexOfId(ClipsAt(seq, q), mid)
           both == q # NoRef /\ ~Locked(seq, q) /\ Spans(ClipsAt(seq, q)[j], pos)
<1>1. Refs(seq') = Refs(seq) /\ Track = AnyTrack /\ seq \in Documents
  BY DEF PairCut, Ready
<1> SUFFICES ASSUME NEW p \in Refs(seq) PROVE Apart(ClipsAt(seq', p))
  BY <1>1 DEF AllApart
<1>2. Apart(ClipsAt(seq, p)) /\ Apart(ClipsAt(seq, r)) /\ ClipsAt(seq, r) \in Seq(AnyClip)
  BY <1>1, TrackFacts DEF AllApart
<1>3. CASE p = r
  <2>1. PICK x, y :
              /\ Halves(x, y, ClipsAt(seq, r)[i], pos, nextId,
                        IF q # NoRef THEN mid ELSE ClipsAt(seq, r)[i].link,
                        IF both THEN nextId + 1 ELSE ClipsAt(seq, r)[i].link)
              /\ ClipsAt(seq', r) = InsertSorted([ClipsAt(seq, r) EXCEPT ![i] = x], y)
    BY DEF PairCut
  <2> HIDE DEF both
  <2>2. Apart(InsertSorted([ClipsAt(seq, r) EXCEPT ![i] = x], y))
    BY <1>2, <2>1, CutApart
  <2> QED BY <1>3, <2>1, <2>2
<1>4. CASE p # r /\ both /\ p = q
  <2>1. PICK x, y :
              /\ Halves(x, y, ClipsAt(seq, q)[j], pos, nextId + 1, ClipsAt(seq, r)[i].id, nextId)
              /\ ClipsAt(seq', q) = InsertSorted([ClipsAt(seq, q) EXCEPT ![j] = x], y)
    BY <1>4 DEF PairCut
  <2>2. ClipsAt(seq, q) \in Seq(AnyClip) /\ Apart(ClipsAt(seq, q)) /\ Spans(ClipsAt(seq, q)[j], pos)
    BY <1>1, <1>2, <1>4, TrackFacts
  <2>3. j \in DOMAIN ClipsAt(seq, q)
    BY <1>4, <2>2, IndexOfIdFinds
  <2> HIDE DEF j
  <2>4. Apart(InsertSorted([ClipsAt(seq, q) EXCEPT ![j] = x], y))
    BY <2>1, <2>2, <2>3, CutApart
  <2> QED BY <1>4, <2>1, <2>4
<1>5. CASE p # r /\ ~(both /\ p = q)
  <2>1. ClipsAt(seq', p) = ClipsAt(seq, p)
    BY <1>5 DEF PairCut
  <2> QED BY <1>2, <2>1
<1> QED BY <1>3, <1>4, <1>5

\* The cut of a clip whose mate the position misses.
LEMMA BladeAlone ==
    ASSUME NEW r, NEW i, NEW q, NEW mid, NEW pos, BladePair(r, i, q, mid, pos), q # NoRef,
           ~Spans(ClipsAt(seq, q)[IndexOfId(ClipsAt(seq, q), mid)], pos)
    PROVE  LET hit == ClipsAt(seq, r)[i]
               left(c) == [LeftHalf(c, pos, SrcAt(hit, pos)) EXCEPT !.link = mid]
               s == UpdateAt(seq, r, hit.id, left)
               right == [RightHalf(hit, pos, nextId) EXCEPT !.link = @]
           IN  Commit(seq, SetClips(s, r, InsertSorted(ClipsAt(s, r), right)), {r, q}, 1)
<1> DEFINE clips == ClipsAt(seq, r)
           hit == clips[i]
           mates == ClipsAt(seq, q)
           mate == mates[IndexOfId(mates, mid)]
           both == q # NoRef /\ ~Locked(seq, q) /\ Spans(mate, pos)
           right == [RightHalf(hit, pos, nextId) EXCEPT !.link = IF both THEN nextId + 1 ELSE @]
           mright == [RightHalf(mate, pos, nextId + 1) EXCEPT !.link = nextId]
           left(c) == [LeftHalf(c, pos, SrcAt(hit, pos)) EXCEPT !.link =
                          IF q # NoRef THEN mid ELSE @]
           mleft(c) == [LeftHalf(c, pos, SrcAt(mate, pos)) EXCEPT !.link = hit.id]
           s == UpdateAt(seq, r, hit.id, left)
           t == UpdateAt(s, q, mid, mleft)
           u == SetClips(t, q, InsertSorted(ClipsAt(t, q), mright))
           b == IF both THEN u ELSE s
           n == IF both THEN 2 ELSE 1
<1>1. Commit(seq, SetClips(b, r, InsertSorted(ClipsAt(b, r), right)), {r, q}, n)
  BY DEF BladePair, ClipWithId
<1>2. ~both
  OBVIOUS
<1>3. b = s /\ n = 1
  <2> HIDE DEF u, s, both
  <2> QED BY <1>2
<1>4. s = UpdateAt(seq, r, hit.id, LAMBDA c : [LeftHalf(c, pos, SrcAt(hit, pos)) EXCEPT !.link = mid])
  BY DEF UpdateAt, UpdateId
<1>5. right = [RightHalf(hit, pos, nextId) EXCEPT !.link = @]
  <2> HIDE DEF both
  <2> QED BY <1>2
<1> HIDE DEF b, s, n, right
<1> QED BY <1>1, <1>3, <1>4, <1>5

LEMMA BladeLinkedKeeps ==
    ASSUME Ready, nextId # 0, NEW r \in Refs(seq), NEW pos \in Int, BladeLinkedAt(r, pos)
    PROVE  /\ NamesKept /\ UniqueKept /\ SoundKept
           /\ UniqueIds(seq) /\ AllIn(seq, Sound(nextId)) => ApartKept
<1>1. PICK i \in DOMAIN ClipsAt(seq, r), q \in Refs(seq) \cup {NoRef}, mid \in Nat :
              /\ q # NoRef => /\ IndexOfId(ClipsAt(seq, q), mid) # 0
                              /\ \E j \in DOMAIN ClipsAt(seq, q) : ClipsAt(seq, q)[j].id = mid
              /\ BladeFinds(r, i, q, mid, pos)
  BY BladeLinkedFinds
<1>2. BladePair(r, i, q, mid, pos) /\ Spans(ClipsAt(seq, r)[i], pos)
  BY <1>1 DEF BladeFinds
<1>3. /\ NamesKept /\ UniqueKept
      /\ (q # NoRef => mid # ClipsAt(seq, r)[i].id) => SoundKept
  BY <1>1, <1>2, BladePairKeeps
<1>4. SoundKept
  <2>1. UniqueIds(seq) /\ AllIn(seq, Sound(nextId)) =>
           (q # NoRef => mid # ClipsAt(seq, r)[i].id)
    BY <1>1, BladeFindsOther
  <2> QED BY <1>3, <2>1 DEF SoundKept
<1>5. ASSUME UniqueIds(seq), AllIn(seq, Sound(nextId)), AllApart(seq)
      PROVE  AllApart(seq')
  <2>1. CASE q # r
    <3>1. PairCut(r, i, q, mid, pos)
      BY <1>1, <1>2, <1>5, <2>1, BladePairCuts
    <3> QED BY <1>1, <1>2, <1>5, <3>1, PairCutApart
  <2>2. CASE q = r
    \* The mate is on the same track, so that it does not span pos.
    <3> DEFINE clips == ClipsAt(seq, r)
               hit == clips[i]
               k == IndexOfId(clips, hit.id)
               j == IndexOfId(clips, mid)
               left(c) == [LeftHalf(c, pos, SrcAt(hit, pos)) EXCEPT !.link = mid]
               x == left(hit)
               right == [RightHalf(hit, pos, nextId) EXCEPT !.link = hit.link]
    <3>1. /\ Track = AnyTrack /\ seq \in Documents /\ clips \in Seq(AnyClip) /\ nextId \in Nat
          /\ q # NoRef /\ r # NoRef
      BY <2>2, TrackFacts, RefFacts DEF Ready
    <3>2. j \in DOMAIN clips /\ clips[j].id = mid
      <4>1. j # 0
        BY <1>1, <2>2, <3>1
      <4> HIDE DEF clips
      <4> QED BY <3>1, <4>1, IndexOfIdFinds
    <3>3. ~Spans(clips[j], pos)
      BY <1>1, <1>5, <2>2, <3>1, <3>2, BladeFindsOther
    <3>4. hit \in AnyClip /\ hit.link \in Nat
      BY <3>1, ListClips, ClipNumbers
    <3>5. k = i /\ k # 0
      <4>1. Distinct(clips) /\ i # 0 /\ i \in DOMAIN clips
        BY <1>5, <3>1, UniqueTrack, ListClips
      <4> HIDE DEF clips
      <4> QED BY <3>1, <4>1, IndexOfUnique
    <3>6. UpdateAt(seq, r, hit.id, left) = SetClips(seq, r, [clips EXCEPT ![i] = x])
      BY <3>1, <3>5 DEF UpdateAt, UpdateId
    <3> DEFINE s == SetClips(seq, r, [clips EXCEPT ![i] = x])
               w == SetClips(s, r, InsertSorted(ClipsAt(s, r), right))
    <3>7. Commit(seq, w, {r, q}, 1)
      <4>1. [RightHalf(hit, pos, nextId) EXCEPT !.link = @] = right
        <5>1. SrcAt(hit, pos) \in Int
          BY <3>4, SrcAtType
        <5>2. RightHalf(hit, pos, nextId) \in AnyClip
          BY <3>1, <3>4, <5>1, HalfTypes
        <5>3. RightHalf(hit, pos, nextId).link = hit.link
          BY <3>4 DEF RightHalf, TailOf, AnyClip
        <5> QED BY <5>2, <5>3
      <4>2. LET g == UpdateAt(seq, r, hit.id, left)
                e == [RightHalf(hit, pos, nextId) EXCEPT !.link = @]
            IN  Commit(seq, SetClips(g, r, InsertSorted(ClipsAt(g, r), e)), {r, q}, 1)
        BY <1>2, <2>2, <3>1, <3>3, BladeAlone DEF UpdateAt, UpdateId
      <4> HIDE DEF right
      <4> QED BY <3>6, <4>1, <4>2
    <3>8. Halves(x, right, hit, pos, nextId, mid, hit.link)
      BY <3>1, <3>4, HalvesMade
    <3>9. seq' = w
      <4> HIDE DEF w
      <4> QED BY <3>1, <3>7, CommitGives
    <3> DEFINE list == [clips EXCEPT ![i] = x]
    <3>10. list \in Seq(AnyClip) /\ i \in DOMAIN clips /\ right \in AnyClip
      <4>1. x \in AnyClip /\ right \in AnyClip /\ i \in DOMAIN clips
        <5> HIDE DEF x, right, hit
        <5> QED BY <3>8 DEF Halves
      <4> HIDE DEF x, clips, right
      <4> QED BY <3>1, <4>1
    <3>11. s \in Documents /\ Refs(s) = Refs(seq) /\ ClipsAt(s, r) = list
           /\ \A p \in Refs(seq) \ {r} : ClipsAt(s, p) = ClipsAt(seq, p)
      <4> HIDE DEF list
      <4>1. s = SetClips(seq, r, list)
        BY DEF list
      <4> HIDE DEF s
      <4> QED BY <3>1, <3>10, <4>1, Written
    <3>12. Apart(InsertSorted(list, right)) /\ InsertSorted(list, right) \in Seq(AnyClip)
      <4>1. Apart(clips) /\ Spans(clips[i], pos)
        BY <1>2, <1>5 DEF AllApart
      <4>2. InsertSorted(list, right) \in Seq(AnyClip)
        <5> HIDE DEF list, right
        <5> QED BY <3>10, InsertSortedType
      <4> HIDE DEF clips, x, right
      <4> QED BY <3>1, <3>8, <3>10, <4>1, <4>2, CutApart DEF hit
    <3> DEFINE new == InsertSorted(list, right)
    <3> HIDE DEF s, list, right, w
    <3>13. w = SetClips(s, r, new) /\ r \in Refs(s)
      BY <3>11 DEF w
    <3>14. /\ Refs(w) = Refs(s) /\ ClipsAt(w, r) = new
           /\ \A p \in Refs(s) \ {r} : ClipsAt(w, p) = ClipsAt(s, p)
      <4> HIDE DEF new
      <4> QED BY <3>1, <3>11, <3>12, <3>13, Written DEF new
    <3> QED BY <1>5, <3>9, <3>11, <3>12, <3>14 DEF AllApart
  <2> QED BY <2>1, <2>2
<1> QED BY <1>3, <1>4, <1>5 DEF ApartKept, KeepsApart

-----------------------------------------------------------------------------
(* Joining, moving and trimming *)

\* Two clips of a list that follow one another are joined to one.
LEMMA JoinedFacts ==
    ASSUME NEW clips \in Seq(AnyClip), NEW i \in DOMAIN clips, NEW j \in DOMAIN clips,
           NEW m \in AnyClip, Kin(m, clips[i]), clips[j].in = clips[i].out,
           clips[i].out < clips[j].out, m.in = clips[i].in, m.out = clips[j].out,
           NEW kept \in Seq(AnyClip), Selects(kept, clips, DOMAIN clips \ {i, j}), i # j
    PROVE  LET new == InsertSorted(kept, m)
           IN  /\ new \in Seq(AnyClip)
               /\ \A p \in DOMAIN new : \E n \in DOMAIN clips : Kin(new[p], clips[n])
               /\ Distinct(clips) => Distinct(new)
               /\ Apart(clips) => Apart(new)
<1> DEFINE K == DOMAIN clips \ {i, j}
           new == InsertSorted(kept, m)
<1>1. K \in SUBSET DOMAIN clips
  OBVIOUS
<1>2. /\ ToSet(kept) = {clips[n] : n \in K}
      /\ Distinct(clips) => Distinct(kept)
      /\ Apart(clips) => Apart(kept)
  BY <1>1, SelectsFacts
<1>3. \A p \in DOMAIN kept : \E n \in K : kept[p] = clips[n]
  BY <1>2 DEF ToSet
<1>4. /\ ToSet(new) = ToSet(kept) \cup {m}
      /\ Distinct(kept) /\ (\A p \in DOMAIN kept : kept[p].id # m.id) => Distinct(new)
      /\ /\ Apart(kept) /\ 0 <= m.in /\ m.in < m.out
         /\ \A p \in DOMAIN kept : kept[p].out <= m.in \/ m.out <= kept[p].in
         => Apart(new)
  BY InsertSortedFacts
<1>5. new \in Seq(AnyClip)
  BY InsertSortedType
<1>6. /\ \A n \in DOMAIN clips : /\ clips[n] \in AnyClip /\ n \in Nat
                                 /\ clips[n].in \in Int /\ clips[n].out \in Int
      /\ m.in \in Int /\ m.out \in Int
  BY ListClips, ClipNumbers
<1> HIDE DEF new, K
<1>7. ASSUME NEW p \in DOMAIN new
      PROVE  \E n \in DOMAIN clips : Kin(new[p], clips[n])
  <2>1. new[p] = m \/ \E n \in K : new[p] = clips[n]
    BY <1>2, <1>4 DEF ToSet
  <2> QED BY <1>1, <2>1 DEF Kin
<1>8. ASSUME Distinct(clips) PROVE Distinct(new)
  <2>1. \A n \in K : clips[n].id # m.id
    BY <1>8 DEF Distinct, Kin, K
  <2> QED BY <1>2, <1>3, <1>4, <1>8, <2>1
<1>9. ASSUME Apart(clips) PROVE Apart(new)
  <2>1. i < j
    BY <1>6, <1>9 DEF Apart
  <2>2. \A n \in K : clips[n].out <= m.in \/ m.out <= clips[n].in
    <3> TAKE n \in K
    <3>1. n \in DOMAIN clips /\ n # i /\ n # j
      BY DEF K
    <3>2. CASE n < i
      BY <1>6, <1>9, <3>1, <3>2 DEF Apart
    <3>3. CASE i < n /\ n < j
      <4>1. clips[n].in < clips[n].out /\ clips[i].out <= clips[n].in /\ clips[n].out <= clips[j].in
        BY <1>9, <3>1, <3>3 DEF Apart
      <4> QED BY <1>6, <3>1, <4>1
    <3>4. CASE j < n
      BY <1>6, <1>9, <3>1, <3>4 DEF Apart
    <3> QED BY <1>6, <2>1, <3>1, <3>2, <3>3, <3>4
  <2>3. 0 <= m.in /\ m.in < m.out
    BY <1>6, <1>9 DEF Apart
  <2> QED BY <1>2, <1>3, <1>4, <1>9, <2>2, <2>3
<1> QED BY <1>5, <1>7, <1>8, <1>9 DEF new

LEMMA DeleteThroughEditKeeps ==
    ASSUME Ready, NEW id \in ClipIds, DeleteThroughEdit(id)
    PROVE  Keeps(seq, seq') /\ nextId' = nextId
<1> DEFINE r == RefOf(id)
           clips == ClipsAt(seq, r)
           i == IndexOfId(clips, id)
           a == clips[i]
           J == {n \in 1 .. Len(clips) : clips[n].in = a.out}
           j == IF J # {} THEN Min(J) ELSE 0
           b == clips[j]
           q == MateRef(seq, a)
           merged == [a EXCEPT !.out = b.out, !.srcOut = b.srcOut, !.fadeOut = FALSE, !.link = 0]
           rest == [n \in 1 .. Len(clips) |-> IF n \in {i, j} THEN <<>> ELSE <<clips[n]>>]
           new == InsertSorted(FlattenSeq(rest), merged)
           s == SetClips(seq, r, new)
           t == Relink(s, q, a.link, 0)
<1>1. j # 0 /\ j # i /\ a.out < b.out /\ Commit(seq, t, {r, q}, 0)
  BY Zenon DEF DeleteThroughEdit, SelectInSeq
<1>2. Track = AnyTrack /\ seq \in Documents /\ nextId \in Nat /\ 0 \in Nat
  BY DEF Ready
<1>3. seq' = t /\ nextId' = nextId
  <2> HIDE DEF t
  <2> QED BY <1>1, <1>2, CommitGives
<1>4. r \in Refs(seq) /\ i \in 1 .. Len(clips)
  BY GestureFacts
<1>5. clips \in Seq(AnyClip)
  BY <1>2, <1>4, TrackFacts
<1> HIDE DEF r, clips, i
<1>6. DOMAIN clips = 1 .. Len(clips) /\ a \in AnyClip
  BY <1>4, <1>5, ListClips
<1>7. j \in J
  <2>1. J \subseteq Nat /\ J \subseteq 1 .. Len(clips)
    OBVIOUS
  <2> HIDE DEF J
  <2> QED BY <1>1, <2>1, LeastOne
<1>8. j \in 1 .. Len(clips) /\ b.in = a.out /\ b \in AnyClip
  <2> HIDE DEF j
  <2> QED BY <1>5, <1>6, <1>7, ListClips
<1> HIDE DEF J, j
<1>9. /\ merged \in AnyClip /\ Kin(merged, a) /\ merged.in = a.in /\ merged.out = b.out
  <2> HIDE DEF a, b
  <2> QED BY <1>6, <1>8 DEF AnyClip, Kin
<1> HIDE DEF merged
<1> DEFINE K == DOMAIN clips \ {i, j}
<1>10. Selects(FlattenSeq(rest), clips, K) /\ FlattenSeq(rest) \in Seq(AnyClip)
  <2>1. /\ rest \in Seq(Seq(AnyClip)) /\ DOMAIN rest = DOMAIN clips
        /\ \A n \in DOMAIN clips : rest[n] = IF n \in K THEN <<clips[n]>> ELSE <<>>
    BY <1>5, <1>6
  <2> HIDE DEF rest
  <2>2. K \in SUBSET DOMAIN clips
    OBVIOUS
  <2> QED BY <1>5, <2>1, <2>2, FlattenSelects
<1>11. /\ new \in Seq(AnyClip)
       /\ \A p \in DOMAIN new : \E n \in DOMAIN clips : Kin(new[p], clips[n])
       /\ Distinct(clips) => Distinct(new)
       /\ Apart(clips) => Apart(new)
  <2> HIDE DEF rest
  <2>1. i \in DOMAIN clips /\ j \in DOMAIN clips
    BY <1>4, <1>6, <1>8
  <2> QED BY <1>1, <1>5, <1>8, <1>9, <1>10, <2>1, JoinedFacts
<1> HIDE DEF new, rest, a, b
<1>12. Keeps(seq, s)
  <2>1. /\ s \in Documents /\ Refs(s) = Refs(seq)
        /\ \A G : AllIn(seq, G) /\ (\A p \in DOMAIN new : new[p] \in G) => AllIn(s, G)
        /\ AllApart(seq) /\ Apart(new) => AllApart(s)
    BY <1>2, <1>4, <1>11, SetClipsKeeps
  <2>2. KeepsUnique(seq, s)
    <3>1. \A p \in DOMAIN new : \E n \in DOMAIN clips : new[p].id = clips[n].id
      BY <1>11 DEF Kin
    <3> QED BY <1>2, <1>4, <1>11, <3>1, SetClipsUnique DEF clips
  <2>3. KeepsNames(seq, s)
    <3> SUFFICES ASSUME NEW G, ClosedUnderKin(G), AllIn(seq, G)
                 PROVE  AllIn(s, G)
      BY DEF KeepsNames
    <3>1. \A n \in DOMAIN clips : clips[n] \in G
      BY <1>4 DEF AllIn, clips
    <3>2. \A p \in DOMAIN new : new[p] \in AnyClip
      BY <1>11, ListClips
    <3>3. \A p \in DOMAIN new : new[p] \in G
      BY <1>11, <3>1, <3>2 DEF ClosedUnderKin
    <3> HIDE DEF s
    <3> QED BY <2>1, <3>3
  <2>4. KeepsApart(seq, s)
    <3>1. AllApart(seq) => Apart(clips)
      BY <1>4 DEF AllApart, clips
    <3> HIDE DEF s
    <3> QED BY <1>11, <2>1, <3>1 DEF KeepsApart
  <2> HIDE DEF s
  <2> QED BY <2>1, <2>2, <2>3, <2>4 DEF Keeps
<1> HIDE DEF s
<1>13. q \in Refs(seq) \cup {NoRef}
  BY <1>6, MateFacts
<1> HIDE DEF q
<1>14. Keeps(s, t)
  <2>1. s \in Documents /\ q \in Refs(s) \cup {NoRef}
    BY <1>12, <1>13 DEF Keeps
  <2> QED BY <1>2, <2>1, RelinkKeeps DEF Keeps
<1> HIDE DEF t
<1> QED BY <1>3, <1>12, <1>14, KeepsTwice

\* Moving a clip and its mate.
LEMMA MoveClipKeeps ==
    ASSUME Ready, NEW id \in ClipIds, NEW dst \in Refs(seq), NEW in \in Nat,
           MoveClip(id, dst, in)
    PROVE  KeepsNames(seq, seq') /\ KeepsApart(seq, seq') /\ nextId' = nextId
<1> DEFINE r == RefOf(id)
           c == ClipWithId(seq, r, id)
           q == MateRef(seq, c)
           mate == ClipWithId(seq, q, c.link)
           to == Max({0, mate.in + in - c.in})
           x == MovedTo(c, in)
           y == MovedTo(mate, to)
           s1 == RemoveId(seq, r, id)
           s2 == PutDown(s1, dst, x)
           s3 == RemoveMate(s2, q, c.link)
           s4 == PutDown(s3, q, y)
           t == IF q = NoRef THEN s2 ELSE s4
<1>1. Commit(seq, t, {r, dst, q}, 0)
  BY DEF MoveClip
<1>2. Track = AnyTrack /\ seq \in Documents /\ nextId \in Nat /\ 0 \in Nat
  BY DEF Ready
<1>3. seq' = t /\ nextId' = nextId
  <2> HIDE DEF t
  <2> QED BY <1>1, <1>2, CommitGives
<1>4. r \in Refs(seq) /\ c \in AnyClip /\ \E n \in DOMAIN ClipsAt(seq, r) : c = ClipsAt(seq, r)[n]
  <2>1. /\ r \in Refs(seq) /\ IndexOfId(ClipsAt(seq, r), id) \in 1 .. Len(ClipsAt(seq, r))
        /\ c \in AnyClip
    BY GestureFacts
  <2>2. DOMAIN ClipsAt(seq, r) = 1 .. Len(ClipsAt(seq, r))
    BY <1>2, <2>1, TrackFacts, ListClips
  <2> QED BY <2>1, <2>2 DEF ClipWithId
<1>5. q \in Refs(seq) \cup {NoRef}
      /\ (q # NoRef => /\ mate \in AnyClip
                       /\ \E n \in DOMAIN ClipsAt(seq, q) : mate = ClipsAt(seq, q)[n])
  <2> HIDE DEF c
  <2>1. q # NoRef => /\ q \in Refs(seq)
                     /\ IndexOfId(ClipsAt(seq, q), c.link) \in 1 .. Len(ClipsAt(seq, q))
                     /\ mate \in AnyClip
    BY <1>4, MateFacts
  <2>2. q # NoRef => DOMAIN ClipsAt(seq, q) = 1 .. Len(ClipsAt(seq, q))
    BY <1>2, <2>1, TrackFacts, ListClips
  <2> QED BY <2>1, <2>2 DEF ClipWithId
<1> HIDE DEF r, c, q, mate
<1>6. c.in \in Int /\ c.out \in Int /\ (q # NoRef => mate.in \in Int /\ mate.out \in Int)
  BY <1>4, <1>5, ClipNumbers
<1>7. q # NoRef => to \in Int /\ 0 <= to
  <2> SUFFICES ASSUME q # NoRef PROVE to \in Int /\ 0 <= to
    OBVIOUS
  <2> DEFINE e == mate.in + in - c.in
             S == {0, e}
  <2>1. e \in Int
    BY <1>6
  <2> HIDE DEF e
  <2>2. S \subseteq Int /\ S # {} /\ 0 \in S
    BY <2>1
  <2>3. IsFiniteSet(S)
    <3>1. IsFiniteSet({0}) /\ S = {0} \cup {e}
      BY FS_Singleton
    <3>2. IsFiniteSet({0} \cup {e})
      BY <3>1, FS_AddElement
    <3> QED BY <3>1, <3>2
  <2> HIDE DEF S
  <2>4. Max(S) \in S /\ \A z \in S : z <= Max(S)
    BY <2>2, <2>3, GreatestOfRange
  <2>5. to = Max(S)
    BY DEF S, e
  <2> QED BY <2>2, <2>4, <2>5
<1> HIDE DEF to
<1>8. ASSUME NEW d \in AnyClip, NEW at \in Int, 0 <= at
      PROVE  /\ MovedTo(d, at) \in AnyClip /\ 0 <= MovedTo(d, at).in
             /\ d.in < d.out => MovedTo(d, at).in < MovedTo(d, at).out
             /\ \A G : ClosedUnderKin(G) /\ d \in G => MovedTo(d, at) \in G
  <2>1. d.in \in Int /\ d.out \in Int
    BY ClipNumbers
  <2>2. MovedTo(d, at) \in AnyClip
    BY PieceTypes
  <2>3. MovedTo(d, at).in = at /\ MovedTo(d, at).out = at + (d.out - d.in)
    BY DEF MovedTo, Duration, AnyClip
  <2>4. \A G : ClosedUnderKin(G) /\ d \in G => MovedTo(d, at) \in G
    BY PieceType
  <2> QED BY <1>8, <2>1, <2>2, <2>3, <2>4
<1>9. /\ s1 \in Documents /\ Refs(s1) = Refs(seq)
      /\ KeepsNames(seq, s1) /\ KeepsApart(seq, s1)
  BY <1>2, <1>4, RemoveIdKeeps
<1>10. /\ x \in AnyClip
       /\ s2 \in Documents /\ Refs(s2) = Refs(seq)
       /\ \A G : ClosedUnderKin(G) /\ AllIn(s1, G) /\ x \in G => AllIn(s2, G)
       /\ 0 <= x.in /\ x.in < x.out => KeepsApart(s1, s2)
  <2>1. x \in AnyClip
    BY <1>4, <1>8
  <2> HIDE DEF x, s1
  <2> QED BY <1>2, <1>9, <2>1, PutDownKeeps
<1>11. q # NoRef => /\ s3 \in Documents /\ Refs(s3) = Refs(seq)
                    /\ KeepsNames(s2, s3) /\ KeepsApart(s2, s3)
  <2> HIDE DEF s2
  <2> QED BY <1>2, <1>5, <1>10, RemoveMateKeeps
<1>12. q # NoRef => /\ y \in AnyClip
                    /\ \A G : ClosedUnderKin(G) /\ AllIn(s3, G) /\ y \in G => AllIn(s4, G)
                    /\ 0 <= y.in /\ y.in < y.out => KeepsApart(s3, s4)
  <2> SUFFICES ASSUME q # NoRef
               PROVE  /\ y \in AnyClip
                      /\ \A G : ClosedUnderKin(G) /\ AllIn(s3, G) /\ y \in G => AllIn(s4, G)
                      /\ 0 <= y.in /\ y.in < y.out => KeepsApart(s3, s4)
    OBVIOUS
  <2>1. y \in AnyClip
    BY <1>5, <1>7, <1>8
  <2>2. q \in Refs(s3) /\ s3 \in Documents
    BY <1>5, <1>11
  <2> HIDE DEF y, s3
  <2> QED BY <1>2, <2>1, <2>2, PutDownKeeps
<1>13. KeepsNames(seq, t)
  <2> SUFFICES ASSUME NEW G, ClosedUnderKin(G), AllIn(seq, G)
               PROVE  AllIn(t, G)
    BY DEF KeepsNames
  <2>1. c \in G /\ (q # NoRef => mate \in G)
    BY <1>4, <1>5 DEF AllIn
  <2>2. x \in G /\ (q # NoRef => y \in G)
    BY <1>4, <1>5, <1>7, <1>8, <2>1
  <2> HIDE DEF x, y, s1, s2, s3, s4
  <2> QED BY <1>9, <1>10, <1>11, <1>12, <2>2 DEF KeepsNames
<1>14. KeepsApart(seq, t)
  <2> SUFFICES ASSUME AllApart(seq)
               PROVE  AllApart(t)
    BY DEF KeepsApart
  <2>1. c.in < c.out /\ (q # NoRef => mate.in < mate.out)
    BY <1>4, <1>5 DEF AllApart, Apart
  <2>2. 0 <= x.in /\ x.in < x.out
    BY <1>4, <1>8, <2>1
  <2>3. q # NoRef => 0 <= y.in /\ y.in < y.out
    BY <1>5, <1>7, <1>8, <2>1
  <2> HIDE DEF x, y, s1, s2, s3, s4
  <2> QED BY <1>9, <1>10, <1>11, <1>12, <2>2, <2>3 DEF KeepsApart
<1> QED BY <1>3, <1>13, <1>14

\* Where a clip may be trimmed to: the other edge stays, the moved one passes
\* neither it nor a neighbour nor frame 0.
HeadReach(x, c, clips) ==
    /\ x.out = c.out /\ 0 <= x.in /\ x.in < x.out
    /\ \A m \in DOMAIN clips : clips[m].id # c.id /\ clips[m].out <= c.in => clips[m].out <= x.in
TailReach(x, c, clips) ==
    /\ x.in = c.in /\ x.in < x.out
    /\ \A m \in DOMAIN clips : clips[m].id # c.id /\ c.out <= clips[m].in => x.out <= clips[m].in

\* The ranges of a trim keep the edge within reach.
LEMMA RangeReach ==
    ASSUME NEW clips \in Seq(AnyClip), NEW c \in AnyClip, NEW frames \in Nat, NEW d \in Int
    PROVE  /\ HeadTrimRange(clips, c)[1] <= d /\ d <= HeadTrimRange(clips, c)[2]
              => HeadReach(HeadTrimmed(c, d), c, clips)
           /\ TailTrimRange(clips, c, frames)[1] <= d /\ d <= TailTrimRange(clips, c, frames)[2]
              => TailReach(TailTrimmed(c, d), c, clips)
<1>1. /\ c.in \in Int /\ c.out \in Int /\ c.src \in Int /\ c.srcOut \in Int
      /\ \A i \in DOMAIN clips : clips[i].in \in Int /\ clips[i].out \in Int
  BY ListClips, ClipNumbers
<1>2. DOMAIN clips = 1 .. Len(clips) /\ Len(clips) \in Nat
  OBVIOUS
<1> DEFINE ins == [i \in 1 .. Len(clips) |-> clips[i].in]
           outs == [i \in 1 .. Len(clips) |-> clips[i].out]
           A == {ins[i] : i \in 1 .. Len(clips)}
           B == {outs[i] : i \in 1 .. Len(clips)}
           ends == {clips[i].out : i \in {j \in DOMAIN clips :
                      clips[j].id # c.id /\ clips[j].out <= c.in}}
           starts == {clips[i].in : i \in {j \in DOMAIN clips :
                      clips[j].id # c.id /\ clips[j].in >= c.out}}
           high == IF frames > 0 THEN c.out + (frames - c.srcOut) ELSE c.out
<1>3. IsFiniteSet(A) /\ A \subseteq Int /\ IsFiniteSet(B) /\ B \subseteq Int
  <2>1. DOMAIN ins = 1 .. Len(clips) /\ DOMAIN outs = 1 .. Len(clips)
    OBVIOUS
  <2>2. A \subseteq Int /\ B \subseteq Int
    BY <1>1, <1>2
  <2> HIDE DEF ins, outs
  <2> QED BY <1>2, <2>1, <2>2, ListFinite
<1>4. ends \in SUBSET B /\ starts \in SUBSET A
  <2>1. \A i \in DOMAIN clips : clips[i].out \in B /\ clips[i].in \in A
    <3> TAKE i \in DOMAIN clips
    <3>1. i \in 1 .. Len(clips) /\ outs[i] = clips[i].out /\ ins[i] = clips[i].in
      BY <1>2
    <3> HIDE DEF outs, ins
    <3> QED BY <3>1
  <2> HIDE DEF A, B
  <2> QED BY <2>1
<1>5. /\ \A m \in DOMAIN clips : clips[m].id # c.id /\ clips[m].out <= c.in => clips[m].out \in ends
      /\ \A m \in DOMAIN clips : clips[m].id # c.id /\ c.out <= clips[m].in => clips[m].in \in starts
  BY <1>1
<1> HIDE DEF A, B, ends, starts
<1>6. IsFiniteSet(ends) /\ ends \subseteq Int /\ IsFiniteSet(starts) /\ starts \subseteq Int
  BY <1>3, <1>4, FS_Subset
<1> DEFINE e == c.in - c.src
           S == ends \cup {0, e}
           T == starts \cup {high}
<1>7. high \in Int /\ e \in Int
  BY <1>1
<1>8. /\ HeadTrimRange(clips, c) = <<Max(S) - c.in, c.out - 1 - c.in>>
      /\ TailTrimRange(clips, c, frames) = <<c.in + 1 - c.out, Min(T) - c.out>>
  BY DEF HeadTrimRange, TailTrimRange, ends, starts
<1> HIDE DEF high, e
<1>9. IsFiniteSet(S) /\ S \subseteq Int /\ S # {} /\ 0 \in S /\ ends \subseteq S
  <2>1. IsFiniteSet(ends \cup {0})
    BY <1>6, FS_AddElement
  <2>2. IsFiniteSet((ends \cup {0}) \cup {e}) /\ (ends \cup {0}) \cup {e} = S
    BY <2>1, FS_AddElement
  <2>3. S \subseteq Int /\ S # {} /\ 0 \in S /\ ends \subseteq S
    BY <1>6, <1>7
  <2> QED BY <2>2, <2>3
<1>10. IsFiniteSet(T) /\ T \subseteq Int /\ T # {} /\ starts \subseteq T
  <2>1. IsFiniteSet(T)
    BY <1>6, FS_AddElement
  <2> QED BY <1>6, <1>7, <2>1
<1> HIDE DEF S, T
<1>11. /\ Max(S) \in Int /\ \A y \in S : y <= Max(S)
       /\ Min(T) \in Int /\ \A y \in T : Min(T) <= y
  BY <1>9, <1>10, GreatestOfRange
<1>12. /\ HeadTrimmed(c, d).in = c.in + d /\ HeadTrimmed(c, d).out = c.out
       /\ TailTrimmed(c, d).in = c.in /\ TailTrimmed(c, d).out = c.out + d
  BY DEF HeadTrimmed, TailTrimmed, AnyClip
<1>13. ASSUME HeadTrimRange(clips, c)[1] <= d, d <= HeadTrimRange(clips, c)[2]
       PROVE  HeadReach(HeadTrimmed(c, d), c, clips)
  <2>1. Max(S) - c.in <= d /\ d <= c.out - 1 - c.in
    BY <1>8, <1>13
  <2>2. Max(S) <= c.in + d /\ c.in + d < c.out
    BY <1>1, <1>11, <2>1
  <2>3. 0 <= c.in + d
    BY <1>1, <1>9, <1>11, <2>2
  <2>4. \A m \in DOMAIN clips : clips[m].id # c.id /\ clips[m].out <= c.in => clips[m].out <= c.in + d
    <3> TAKE m \in DOMAIN clips
    <3>1. clips[m].id # c.id /\ clips[m].out <= c.in => clips[m].out <= Max(S)
      BY <1>5, <1>9, <1>11
    <3> QED BY <1>1, <1>11, <2>2, <3>1
  <2> QED BY <1>12, <2>2, <2>3, <2>4 DEF HeadReach
<1>14. ASSUME TailTrimRange(clips, c, frames)[1] <= d, d <= TailTrimRange(clips, c, frames)[2]
       PROVE  TailReach(TailTrimmed(c, d), c, clips)
  <2>1. c.in + 1 - c.out <= d /\ d <= Min(T) - c.out
    BY <1>8, <1>14
  <2>2. c.out + d <= Min(T) /\ c.in < c.out + d
    BY <1>1, <1>11, <2>1
  <2>3. \A m \in DOMAIN clips : clips[m].id # c.id /\ c.out <= clips[m].in => c.out + d <= clips[m].in
    <3> TAKE m \in DOMAIN clips
    <3>1. clips[m].id # c.id /\ c.out <= clips[m].in => Min(T) <= clips[m].in
      BY <1>5, <1>10, <1>11
    <3> QED BY <1>1, <1>11, <2>2, <3>1
  <2> QED BY <1>12, <2>2, <2>3 DEF TailReach
<1> QED BY <1>13, <1>14

\* Clips that are trimmed within reach, all at one edge, stay apart.
LEMMA ReachApart ==
    ASSUME NEW clips \in Seq(AnyClip), NEW new \in Seq(AnyClip), DOMAIN new = DOMAIN clips,
           Apart(clips), Distinct(clips),
           \/ \A n \in DOMAIN clips : new[n] = clips[n] \/ HeadReach(new[n], clips[n], clips)
           \/ \A n \in DOMAIN clips : new[n] = clips[n] \/ TailReach(new[n], clips[n], clips)
    PROVE  Apart(new)
<1>1. /\ \A n \in DOMAIN clips : /\ clips[n] \in AnyClip /\ n \in Nat
                                 /\ clips[n].in \in Int /\ clips[n].out \in Int
                                 /\ new[n].in \in Int /\ new[n].out \in Int
  BY ListClips, ClipNumbers
<1>2. \A n, m \in DOMAIN clips : n # m => clips[n].id # clips[m].id
  BY DEF Distinct
<1>3. CASE \A n \in DOMAIN clips : new[n] = clips[n] \/ HeadReach(new[n], clips[n], clips)
  <2>1. ASSUME NEW n \in DOMAIN clips
        PROVE  0 <= new[n].in /\ new[n].in < new[n].out /\ new[n].out = clips[n].out
    BY <1>3 DEF HeadReach, Apart
  <2>2. ASSUME NEW n \in DOMAIN clips, NEW m \in DOMAIN clips, n < m
        PROVE  new[n].out <= new[m].in
    <3>1. clips[n].out <= clips[m].in /\ clips[n].id # clips[m].id
      BY <1>1, <1>2, <2>2 DEF Apart
    <3>2. clips[n].out <= new[m].in
      BY <1>3, <3>1 DEF HeadReach
    <3> QED BY <2>1, <3>2
  <2> QED BY <2>1, <2>2 DEF Apart
<1>4. CASE \A n \in DOMAIN clips : new[n] = clips[n] \/ TailReach(new[n], clips[n], clips)
  <2>1. ASSUME NEW n \in DOMAIN clips
        PROVE  0 <= new[n].in /\ new[n].in < new[n].out /\ new[n].in = clips[n].in
    BY <1>4 DEF TailReach, Apart
  <2>2. ASSUME NEW n \in DOMAIN clips, NEW m \in DOMAIN clips, n < m
        PROVE  new[n].out <= new[m].in
    <3>1. clips[n].out <= clips[m].in /\ clips[n].id # clips[m].id
      BY <1>1, <1>2, <2>2 DEF Apart
    <3>2. new[n].out <= clips[m].in
      BY <1>4, <3>1 DEF TailReach
    <3> QED BY <2>1, <3>2
  <2> QED BY <2>1, <2>2 DEF Apart
<1> QED BY <1>3, <1>4

\* The greater and the lesser of two numbers.
LEMMA MostOfTwo ==
    ASSUME NEW a \in Int, NEW b \in Int
    PROVE  /\ Max({a, b}) \in Int /\ a <= Max({a, b}) /\ b <= Max({a, b})
           /\ Min({a, b}) \in Int /\ Min({a, b}) <= a /\ Min({a, b}) <= b
<1> DEFINE S == {a, b}
<1>1. S \subseteq Int /\ S # {} /\ a \in S /\ b \in S
  OBVIOUS
<1>2. IsFiniteSet(S)
  <2>1. IsFiniteSet({a}) /\ S = {a} \cup {b}
    BY FS_Singleton
  <2>2. IsFiniteSet({a} \cup {b})
    BY <2>1, FS_AddElement
  <2> QED BY <2>1, <2>2
<1> HIDE DEF S
<1>3. /\ Max(S) \in Int /\ a <= Max(S) /\ b <= Max(S)
      /\ Min(S) \in Int /\ Min(S) <= a /\ Min(S) <= b
  BY <1>1, <1>2, GreatestOfRange
<1> QED BY <1>3 DEF S

\* How far an edge goes is in the range of the clip, and in that of its mate.
LEMMA TrimDeltaBounds ==
    ASSUME Ready, NEW edge, NEW id \in ClipIds, NEW to \in Int, TrimDelta(edge, id, to) # 0
    PROVE  LET d == TrimDelta(edge, id, to)
               r == RefOf(id)
               c == ClipWithId(seq, r, id)
               q == MateRef(seq, c)
               frames == Media[c.media].frames
               range(p, e) == IF edge = "head" THEN HeadTrimRange(ClipsAt(seq, p), e)
                              ELSE TailTrimRange(ClipsAt(seq, p), e, frames)
               own == range(r, c)
               mates == range(q, ClipWithId(seq, q, c.link))
           IN  /\ own[1] <= d /\ d <= own[2]
               /\ q # NoRef /\ ~Locked(seq, q) => mates[1] <= d /\ d <= mates[2]
<1> DEFINE r == RefOf(id)
           c == ClipWithId(seq, r, id)
           q == MateRef(seq, c)
           frames == Media[c.media].frames
           range(p, d) == IF edge = "head" THEN HeadTrimRange(ClipsAt(seq, p), d)
                          ELSE TailTrimRange(ClipsAt(seq, p), d, frames)
           own == range(r, c)
           his == range(q, ClipWithId(seq, q, c.link))
           mates == IF q = NoRef THEN own ELSE IF Locked(seq, q) THEN own ELSE his
           lo == Max({own[1], mates[1]})
           hi == Min({own[2], mates[2]})
           want == to - IF edge = "head" THEN c.in ELSE c.out
           d == TrimDelta(edge, id, to)
<1>1. Track = AnyTrack /\ seq \in Documents
  BY DEF Ready
<1>2. r \in Refs(seq) /\ c \in AnyClip
  BY GestureFacts
<1>3. d = IF Locked(seq, r) \/ lo > hi THEN 0
          ELSE IF want < lo THEN lo ELSE IF want > hi THEN hi ELSE want
  BY Zenon DEF TrimDelta
<1> HIDE DEF r, c
<1>4. c.in \in Int /\ c.out \in Int /\ frames \in Nat
  BY <1>2, MediaAssumption DEF AnyClip
<1> HIDE DEF frames
<1>5. ASSUME NEW p \in Refs(seq), NEW e \in AnyClip
      PROVE  range(p, e)[1] \in Int /\ range(p, e)[2] \in Int
  <2>1. ClipsAt(seq, p) \in Seq(AnyClip)
    BY <1>1, TrackFacts
  <2> QED BY <1>4, <2>1, TrimRangeType
<1> HIDE DEF range
<1>6. own[1] \in Int /\ own[2] \in Int
  BY <1>2, <1>5
<1>7. mates[1] \in Int /\ mates[2] \in Int
  <2>1. q # NoRef => q \in Refs(seq) /\ ClipWithId(seq, q, c.link) \in AnyClip
    BY <1>2, MateFacts
  <2> HIDE DEF q
  <2>2. q # NoRef => his[1] \in Int /\ his[2] \in Int
    BY <1>5, <2>1
  <2> HIDE DEF own, his
  <2> QED BY <1>6, <2>2
<1>8. q # NoRef /\ ~Locked(seq, q) => mates = his
  OBVIOUS
<1> HIDE DEF own, mates, his, q
<1>9. /\ lo \in Int /\ own[1] <= lo /\ mates[1] <= lo
      /\ hi \in Int /\ hi <= own[2] /\ hi <= mates[2]
  BY <1>6, <1>7, MostOfTwo
<1>10. want \in Int
  BY <1>4
<1>11. d # 0
  OBVIOUS
<1> HIDE DEF lo, hi, want, d
<1>12. lo <= d /\ d <= hi
  BY <1>3, <1>9, <1>10, <1>11
<1>13. d \in Int
  BY <1>3, <1>9, <1>10
<1>14. /\ own[1] <= d /\ d <= own[2]
       /\ mates[1] <= d /\ d <= mates[2]
  BY <1>6, <1>7, <1>9, <1>12, <1>13
<1>15. q # NoRef /\ ~Locked(seq, q) => his[1] <= d /\ d <= his[2]
  BY <1>8, <1>14
<1> QED BY <1>14, <1>15 DEF own, his, d, q, range, frames, c, r

\* Changing the clip with an id.
LEMMA UpdatedToWrites ==
    ASSUME Track = AnyTrack, NEW s \in Documents, NEW r \in Refs(s), NEW id, NEW x \in AnyClip,
           NEW i, i = IndexOfId(ClipsAt(s, r), id), i # 0, NEW u, u = UpdatedTo(s, r, id, x)
    PROVE  /\ u \in Documents /\ Refs(u) = Refs(s)
           /\ ClipsAt(u, r) = [ClipsAt(s, r) EXCEPT ![i] = x]
           /\ \A p \in Refs(s) \ {r} : ClipsAt(u, p) = ClipsAt(s, p)
<1> DEFINE list == [ClipsAt(s, r) EXCEPT ![i] = x]
<1>1. r # NoRef /\ ClipsAt(s, r) \in Seq(AnyClip)
  BY RefFacts, TrackFacts
<1>2. u = SetClips(s, r, list)
  BY <1>1 DEF UpdatedTo
<1>3. list \in Seq(AnyClip)
  <2>1. ASSUME NEW l \in Seq(AnyClip), NEW n \in 1 .. Len(l)
        PROVE  [l EXCEPT ![n] = x] \in Seq(AnyClip)
    OBVIOUS
  <2>2. i \in 1 .. Len(ClipsAt(s, r))
    BY <1>1, IndexOfIdFinds
  <2> QED BY <1>1, <2>1, <2>2
<1> HIDE DEF list
<1>4. /\ u \in Documents /\ Refs(u) = Refs(s) /\ ClipsAt(u, r) = list
      /\ \A p \in Refs(s) \ {r} : ClipsAt(u, p) = ClipsAt(s, p)
  BY <1>2, <1>3, Written
<1> QED BY <1>4 DEF list

\* What trimming a clip c and its mate m makes of the tracks: x is what c
\* becomes, y what the mate does.
Trims(s, u, r, i, x, q, j, y) ==
    /\ Refs(u) = Refs(s)
    /\ \A p \in Refs(s) :
          /\ ClipsAt(u, p) \in Seq(AnyClip)
          /\ DOMAIN ClipsAt(u, p) = DOMAIN ClipsAt(s, p)
          /\ \A n \in DOMAIN ClipsAt(s, p) :
                \/ ClipsAt(u, p)[n] = ClipsAt(s, p)[n]
                \/ p = r /\ n = i /\ ClipsAt(u, p)[n] = x
                \/ q # NoRef /\ p = q /\ n = j /\ ClipsAt(u, p)[n] = y

LEMMA TrimsPair ==
    ASSUME Track = AnyTrack, NEW s \in Documents, UniqueIds(s), NEW r \in Refs(s),
           NEW i \in DOMAIN ClipsAt(s, r), NEW x \in AnyClip, x.id = ClipsAt(s, r)[i].id,
           NEW q \in Refs(s) \cup {NoRef}, NEW j, NEW mid, mid # x.id,
           q # NoRef => j \in DOMAIN ClipsAt(s, q) /\ ClipsAt(s, q)[j].id = mid,
           NEW v, v = UpdatedTo(s, r, x.id, x), NEW y,
           q # NoRef => y \in AnyClip
    PROVE  /\ q # NoRef => ClipWithId(v, q, mid) = ClipsAt(s, q)[j]
           /\ Trims(s, UpdatedTo(v, q, mid, y), r, i, x, q, j, y)
<1> DEFINE clips == ClipsAt(s, r)
           list == [clips EXCEPT ![i] = x]
           w == UpdatedTo(v, q, mid, y)
<1>1. clips \in Seq(AnyClip) /\ Distinct(clips) /\ DOMAIN clips = 1 .. Len(clips) /\ r # NoRef
  BY TrackFacts, UniqueTrack, ListClips, RefFacts
<1>2. IndexOfId(clips, x.id) = i /\ i # 0
  <2>1. i \in DOMAIN clips /\ x.id = clips[i].id
    OBVIOUS
  <2> HIDE DEF clips
  <2> QED BY <1>1, <2>1, IndexOfUnique
<1>3. /\ v \in Documents /\ Refs(v) = Refs(s)
      /\ ClipsAt(v, r) = list
      /\ \A p \in Refs(s) \ {r} : ClipsAt(v, p) = ClipsAt(s, p)
  BY <1>2, UpdatedToWrites
<1>4. /\ DOMAIN list = DOMAIN clips /\ list[i] = x
      /\ \A n \in DOMAIN clips : n # i => list[n] = clips[n]
      /\ list \in Seq(AnyClip)
  <2>1. i \in DOMAIN clips
    OBVIOUS
  <2> HIDE DEF clips
  <2> QED BY <1>1, <2>1
<1>5. \A n \in DOMAIN clips : list[n].id = clips[n].id
  BY <1>4
<1> HIDE DEF list
<1>6. ASSUME NEW p \in Refs(s)
      PROVE  /\ ClipsAt(v, p) \in Seq(AnyClip)
             /\ DOMAIN ClipsAt(v, p) = DOMAIN ClipsAt(s, p)
             /\ \A n \in DOMAIN ClipsAt(s, p) :
                   /\ ClipsAt(v, p)[n].id = ClipsAt(s, p)[n].id
                   /\ ClipsAt(v, p)[n] = ClipsAt(s, p)[n] \/ (p = r /\ n = i /\ ClipsAt(v, p)[n] = x)
  <2>1. CASE p = r
    BY <1>3, <1>4, <1>5, <2>1
  <2>2. CASE p # r
    BY <1>3, <2>2, TrackFacts
  <2> QED BY <2>1, <2>2
<1>7. CASE q = NoRef
  <2>1. w = v
    BY <1>7 DEF UpdatedTo
  <2> QED BY <1>3, <1>6, <1>7, <2>1 DEF Trims
<1>8. CASE q # NoRef
  <2> DEFINE mates == ClipsAt(v, q)
             k == IndexOfId(mates, mid)
  <2>1. q \in Refs(s) /\ j \in DOMAIN ClipsAt(s, q) /\ ClipsAt(s, q)[j].id = mid /\ y \in AnyClip
    BY <1>8
  <2>2. /\ mates \in Seq(AnyClip) /\ j \in DOMAIN mates /\ mates[j].id = mid
        /\ mates[j] = ClipsAt(s, q)[j]
    <3>1. ~(q = r /\ j = i)
      BY <2>1
    <3> QED BY <1>6, <2>1, <3>1
  <2>3. Distinct(mates)
    <3>1. Distinct(ClipsAt(s, q))
      BY <2>1, UniqueTrack
    <3> QED BY <1>6, <2>1, <3>1 DEF Distinct
  <2>4. k = j /\ k # 0
    <3>1. DOMAIN mates = 1 .. Len(mates)
      BY <2>2, ListClips
    <3> HIDE DEF mates
    <3> QED BY <2>2, <2>3, <3>1, IndexOfUnique
  <2>5. ClipWithId(v, q, mid) = ClipsAt(s, q)[j]
    BY <2>2, <2>4 DEF ClipWithId
  <2>6. /\ w \in Documents /\ Refs(w) = Refs(v)
        /\ ClipsAt(w, q) = [mates EXCEPT ![j] = y]
        /\ \A p \in Refs(v) \ {q} : ClipsAt(w, p) = ClipsAt(v, p)
    <3>1. q \in Refs(v)
      BY <1>3, <2>1
    <3> HIDE DEF w
    <3> QED BY <1>3, <2>1, <2>4, <3>1, UpdatedToWrites DEF w
  <2>7. /\ DOMAIN ClipsAt(w, q) = DOMAIN mates /\ ClipsAt(w, q)[j] = y
        /\ \A n \in DOMAIN mates : n # j => ClipsAt(w, q)[n] = mates[n]
        /\ ClipsAt(w, q) \in Seq(AnyClip)
    <3> HIDE DEF mates, w
    <3> QED BY <2>1, <2>2, <2>6
  <2> HIDE DEF w, k
  <2>8. ASSUME NEW p \in Refs(s)
        PROVE  /\ ClipsAt(w, p) \in Seq(AnyClip)
               /\ DOMAIN ClipsAt(w, p) = DOMAIN ClipsAt(s, p)
               /\ \A n \in DOMAIN ClipsAt(s, p) :
                     \/ ClipsAt(w, p)[n] = ClipsAt(s, p)[n]
                     \/ p = r /\ n = i /\ ClipsAt(w, p)[n] = x
                     \/ q # NoRef /\ p = q /\ n = j /\ ClipsAt(w, p)[n] = y
    <3>1. CASE p = q
      BY <1>6, <1>8, <2>7, <3>1
    <3>2. CASE p # q
      BY <1>3, <1>6, <2>6, <3>2
    <3> QED BY <3>1, <3>2
  <2> QED BY <1>3, <2>5, <2>6, <2>8 DEF Trims, w
<1> QED BY <1>7, <1>8

LEMMA TrimsApart ==
    ASSUME Track = AnyTrack, NEW s \in Documents, NEW u, UniqueIds(s), AllApart(s),
           NEW r, NEW i, NEW x, NEW q, NEW j, NEW y, Trims(s, u, r, i, x, q, j, y),
           \/ /\ HeadReach(x, ClipsAt(s, r)[i], ClipsAt(s, r))
              /\ q # NoRef => HeadReach(y, ClipsAt(s, q)[j], ClipsAt(s, q))
           \/ /\ TailReach(x, ClipsAt(s, r)[i], ClipsAt(s, r))
              /\ q # NoRef => TailReach(y, ClipsAt(s, q)[j], ClipsAt(s, q))
    PROVE  AllApart(u)
<1> SUFFICES ASSUME NEW p \in Refs(s)
             PROVE  Apart(ClipsAt(u, p))
  BY DEF AllApart, Trims
<1> DEFINE clips == ClipsAt(s, p)
           new == ClipsAt(u, p)
<1>1. /\ clips \in Seq(AnyClip) /\ new \in Seq(AnyClip) /\ DOMAIN new = DOMAIN clips
      /\ Distinct(clips) /\ Apart(clips)
  BY TrackFacts, UniqueTrack DEF Trims, AllApart
<1>2. \/ \A n \in DOMAIN clips : new[n] = clips[n] \/ HeadReach(new[n], clips[n], clips)
      \/ \A n \in DOMAIN clips : new[n] = clips[n] \/ TailReach(new[n], clips[n], clips)
  BY DEF Trims
<1> HIDE DEF clips, new
<1>3. Apart(new)
  BY <1>1, <1>2, ReachApart
<1> QED BY <1>3 DEF new

\* Trimming keeps the ids; and it keeps clips apart, whose ids are their own,
\* if the mate is not on a locked track, the neighbours of which do not count.
LEMMA TrimClipEdgeKeeps ==
    ASSUME Ready, NEW edge, NEW id \in ClipIds, NEW to \in Int, TrimClipEdge(edge, id, to)
    PROVE  LET c == ClipWithId(seq, RefOf(id), id)
               q == MateRef(seq, c)
           IN  /\ nextId' = nextId
               /\ KeepsNames(seq, seq') /\ KeepsUnique(seq, seq')
               /\ UniqueIds(seq) /\ (q # NoRef => ~Locked(seq, q) /\ c.link # c.id) => ApartKept
<1> DEFINE r == RefOf(id)
           c == ClipWithId(seq, r, id)
           q == MateRef(seq, c)
           trimmed(e, d) == IF edge = "head" THEN HeadTrimmed(e, d) ELSE TailTrimmed(e, d)
           s(d) == UpdatedTo(seq, r, id, trimmed(c, d))
           t(d) == UpdatedTo(s(d), q, c.link, trimmed(ClipWithId(s(d), q, c.link), d))
           i == IndexOfId(ClipsAt(seq, r), id)
           j == IndexOfId(ClipsAt(seq, q), c.link)
<1>1. PICK d \in {TrimDelta(edge, id, to)} \ {0} : Commit(seq, t(d), {r, q}, 0)
  BY DEF TrimClipEdge, UpdateAt, UpdateId, UpdatedTo, ClipWithId
<1>2. Track = AnyTrack /\ seq \in Documents /\ nextId \in Nat /\ 0 \in Nat
  BY DEF Ready
<1>3. seq' = t(d) /\ nextId' = nextId
  <2> HIDE DEF t
  <2> QED BY <1>1, <1>2, CommitGives
<1>4. /\ r \in Refs(seq) /\ c \in AnyClip /\ c.id = id
      /\ i \in DOMAIN ClipsAt(seq, r) /\ c = ClipsAt(seq, r)[i] /\ ClipsAt(seq, r) \in Seq(AnyClip)
  <2>1. i \in 1 .. Len(ClipsAt(seq, r)) /\ r \in Refs(seq) /\ c \in AnyClip /\ c.id = id
    BY GestureFacts
  <2>2. ClipsAt(seq, r) \in Seq(AnyClip)
    BY <1>2, <2>1, TrackFacts
  <2>3. DOMAIN ClipsAt(seq, r) = 1 .. Len(ClipsAt(seq, r))
    BY <2>2, ListClips
  <2> QED BY <2>1, <2>2, <2>3 DEF ClipWithId
<1>5. d \in Int
  BY TrimDeltaType
<1>6. q # NoRef =>
         /\ q \in Refs(seq) /\ ClipsAt(seq, q) \in Seq(AnyClip)
         /\ j \in DOMAIN ClipsAt(seq, q) /\ ClipWithId(seq, q, c.link) = ClipsAt(seq, q)[j]
         /\ ClipsAt(seq, q)[j].id = c.link
  <2> SUFFICES ASSUME q # NoRef
               PROVE  /\ q \in Refs(seq) /\ ClipsAt(seq, q) \in Seq(AnyClip)
                      /\ j \in DOMAIN ClipsAt(seq, q)
                      /\ ClipWithId(seq, q, c.link) = ClipsAt(seq, q)[j]
                      /\ ClipsAt(seq, q)[j].id = c.link
    OBVIOUS
  <2> HIDE DEF c
  <2>1. /\ q \in Refs(seq) /\ j \in 1 .. Len(ClipsAt(seq, q))
        /\ ClipWithId(seq, q, c.link).id = c.link
    BY <1>4, MateFacts
  <2>2. ClipsAt(seq, q) \in Seq(AnyClip)
    BY <1>2, <2>1, TrackFacts
  <2>3. DOMAIN ClipsAt(seq, q) = 1 .. Len(ClipsAt(seq, q))
    BY <2>2, ListClips
  <2> QED BY <2>1, <2>2, <2>3 DEF ClipWithId
<1>7. q \in Refs(seq) \cup {NoRef}
  BY <1>6
<1>8. ASSUME NEW e \in AnyClip
      PROVE  trimmed(e, d) \in AnyClip /\ trimmed(e, d).id = e.id /\ Kin(trimmed(e, d), e)
  <2>1. trimmed(e, d) \in AnyClip
    BY <1>5, TrimmedTypes
  <2>2. trimmed(e, d).id = e.id /\ trimmed(e, d).link = e.link
    BY DEF HeadTrimmed, TailTrimmed, AnyClip
  <2> QED BY <2>1, <2>2 DEF Kin
<1> DEFINE x == trimmed(c, d)
           v == UpdatedTo(seq, r, id, x)
           y == trimmed(ClipWithId(v, q, c.link), d)
           w == UpdatedTo(v, q, c.link, y)
<1>9. seq' = w
  BY <1>3
<1>10. KeepsNames(seq, w) /\ KeepsUnique(seq, w)
  <2> HIDE DEF r, c, trimmed
  <2>1. x \in AnyClip /\ x.id = id /\ Kin(x, c)
    BY <1>4, <1>8
  <2> HIDE DEF x
  <2>2. v \in Documents /\ Refs(v) = Refs(seq) /\ KeepsNames(seq, v) /\ KeepsUnique(seq, v)
    <3>1. r \in Refs(seq) \cup {NoRef}
      BY <1>4
    <3> HIDE DEF v
    <3> QED BY <1>2, <2>1, <3>1, UpdatedToKeeps DEF v, c
  <2> HIDE DEF v, q
  <2>3. ASSUME q # NoRef, IndexOfId(ClipsAt(v, q), c.link) # 0
        PROVE  y \in AnyClip /\ y.id = c.link /\ Kin(y, ClipWithId(v, q, c.link))
    <3>1. q \in Refs(v) /\ ClipsAt(v, q) \in Seq(AnyClip)
      BY <1>2, <1>7, <2>2, <2>3, TrackFacts
    <3>2. ClipWithId(v, q, c.link) \in AnyClip /\ ClipWithId(v, q, c.link).id = c.link
      BY <1>2, <2>2, <2>3, <3>1, FoundClip, IndexOfIdFinds DEF ClipWithId
    <3> QED BY <1>8, <3>2
  <2> HIDE DEF y
  <2>4. KeepsNames(v, w) /\ KeepsUnique(v, w)
    <3>1. q \in Refs(v) \cup {NoRef}
      BY <1>7, <2>2
    <3> QED BY <1>2, <2>2, <2>3, <3>1, UpdatedToKeeps
  <2> HIDE DEF w
  <2> QED BY <2>2, <2>4 DEF KeepsNames, KeepsUnique
<1>11. ASSUME UniqueIds(seq), q # NoRef => ~Locked(seq, q) /\ c.link # c.id, AllApart(seq)
       PROVE  AllApart(w)
  <2> DEFINE mate == ClipsAt(seq, q)[j]
             z == trimmed(mate, d)
             mid == IF q # NoRef THEN c.link ELSE id + 1
  <2>1. \/ /\ HeadReach(x, c, ClipsAt(seq, r))
           /\ q # NoRef => HeadReach(z, mate, ClipsAt(seq, q))
        \/ /\ TailReach(x, c, ClipsAt(seq, r))
           /\ q # NoRef => TailReach(z, mate, ClipsAt(seq, q))
    <3> DEFINE frames == Media[c.media].frames
               range(p, e) == IF edge = "head" THEN HeadTrimRange(ClipsAt(seq, p), e)
                              ELSE TailTrimRange(ClipsAt(seq, p), e, frames)
    <3>1. /\ range(r, c)[1] <= d /\ d <= range(r, c)[2]
          /\ q # NoRef => /\ range(q, ClipWithId(seq, q, c.link))[1] <= d
                          /\ d <= range(q, ClipWithId(seq, q, c.link))[2]
      BY <1>1, <1>11, TrimDeltaBounds
    <3> HIDE DEF r, c, q, j
    <3>2. frames \in Nat
      BY <1>4, MediaAssumption DEF AnyClip
    <3>3. q # NoRef => /\ mate \in AnyClip /\ ClipsAt(seq, q) \in Seq(AnyClip)
                       /\ ClipWithId(seq, q, c.link) = mate
      BY <1>6, ListClips
    <3> HIDE DEF frames, mate
    <3>4. CASE edge = "head"
      <4>1. HeadReach(HeadTrimmed(c, d), c, ClipsAt(seq, r))
        BY <1>4, <1>5, <3>1, <3>2, <3>4, RangeReach
      <4>2. q # NoRef => HeadReach(HeadTrimmed(mate, d), mate, ClipsAt(seq, q))
        BY <1>5, <3>1, <3>2, <3>3, <3>4, RangeReach
      <4> QED BY <3>4, <4>1, <4>2
    <3>5. CASE edge # "head"
      <4>1. TailReach(TailTrimmed(c, d), c, ClipsAt(seq, r))
        BY <1>4, <1>5, <3>1, <3>2, <3>5, RangeReach
      <4>2. q # NoRef => TailReach(TailTrimmed(mate, d), mate, ClipsAt(seq, q))
        BY <1>5, <3>1, <3>2, <3>3, <3>5, RangeReach
      <4> QED BY <3>5, <4>1, <4>2
    <3> QED BY <3>4, <3>5
  <2> HIDE DEF r, c, q, i, j, trimmed
  <2>2. x \in AnyClip /\ x.id = id /\ (q # NoRef => z \in AnyClip)
    <3>1. q # NoRef => mate \in AnyClip
      BY <1>6, ListClips
    <3> QED BY <1>4, <1>8, <3>1
  <2>3. mid # x.id
    BY <1>4, <1>11, <2>2, ClipNumbers
  <2>4. q # NoRef => j \in DOMAIN ClipsAt(seq, q) /\ ClipsAt(seq, q)[j].id = mid
    BY <1>6
  <2>5. x.id = ClipsAt(seq, r)[i].id /\ v = UpdatedTo(seq, r, x.id, x)
    BY <1>4, <2>2
  <2> HIDE DEF x, v, z
  <2>6. /\ q # NoRef => ClipWithId(v, q, mid) = ClipsAt(seq, q)[j]
        /\ Trims(seq, UpdatedTo(v, q, mid, z), r, i, x, q, j, z)
    <3> HIDE DEF mid, mate, w, y
    <3>1. /\ Track = AnyTrack /\ seq \in Documents /\ UniqueIds(seq)
          /\ r \in Refs(seq) /\ i \in DOMAIN ClipsAt(seq, r)
          /\ x \in AnyClip /\ x.id = ClipsAt(seq, r)[i].id
          /\ q \in Refs(seq) \cup {NoRef} /\ mid # x.id
          /\ q # NoRef => j \in DOMAIN ClipsAt(seq, q) /\ ClipsAt(seq, q)[j].id = mid
          /\ v = UpdatedTo(seq, r, x.id, x)
          /\ q # NoRef => z \in AnyClip
      BY <1>2, <1>4, <1>7, <1>11, <2>2, <2>3, <2>4, <2>5
    <3>2. q # NoRef => ClipWithId(v, q, mid) = ClipsAt(seq, q)[j]
      BY <3>1, TrimsPair
    <3>3. Trims(seq, UpdatedTo(v, q, mid, z), r, i, x, q, j, z)
      BY <3>1, TrimsPair
    <3> QED BY <3>2, <3>3
  <2>7. w = UpdatedTo(v, q, mid, z)
    <3>1. CASE q = NoRef
      BY <3>1 DEF UpdatedTo
    <3>2. CASE q # NoRef
      <4>1. mid = c.link /\ y = z
        BY <2>6, <3>2 DEF z
      <4> HIDE DEF y, mid
      <4> QED BY <4>1
    <3> QED BY <3>1, <3>2
  <2> HIDE DEF w, mid
  <2> QED BY <1>2, <1>4, <1>11, <2>1, <2>6, <2>7, TrimsApart
<1> HIDE DEF w
<1> QED BY <1>3, <1>9, <1>10, <1>11 DEF ApartKept, KeepsApart

-----------------------------------------------------------------------------
(* The operations together *)

\* The mate of every clip is where the clip is.
AllAligned ==
    \A id \in ClipIds :
        LET c == ClipWithId(seq, RefOf(id), id)
            q == MateRef(seq, c)
        IN q # NoRef => AlignedMate(c, q)

\* What the operations of a session need to leave the clips of a track apart.
Careful ==
    /\ FramesPlaced
    /\ "rippleDelete" \in ops => UniqueIds(seq) /\ AllAligned
    /\ ops \cap {"blade", "bladeAt", "trim"} # {} => UniqueIds(seq) /\ AllIn(seq, Sound(nextId))
    /\ "trim" \in ops => NoLocks(seq)

\* What an operation keeps of a sequence.
Kept ==
    /\ nextId' \in Nat /\ nextId <= nextId'
    /\ NamesKept
    /\ SoundKept
    /\ ops \cap HolesCut = {} => UniqueKept
    /\ Careful => ApartKept

\* An operation that gives out no id.
LEMMA KeepsGives ==
    ASSUME Ready, nextId # 0, nextId' = nextId, KeepsNames(seq, seq'),
           ops \cap HolesCut = {} => KeepsUnique(seq, seq'),
           Careful => KeepsApart(seq, seq')
    PROVE  Kept
<1>1. nextId \in Nat \ {0} /\ nextId' \in Nat /\ nextId <= nextId'
  BY DEF Ready
<1>2. NamesKept /\ SoundKept
  BY <1>1, KeepsKept
<1> QED BY <1>1, <1>2 DEF Kept, UniqueKept, ApartKept

LEMMA KeepsAll ==
    ASSUME Ready, nextId # 0, nextId' = nextId, Keeps(seq, seq')
    PROVE  Kept
BY KeepsGives DEF Keeps

LEMMA PlacingKeeps ==
    ASSUME Ready, nextId # 0, Placing, "onTop" \notin ops, nextId' \in Nat, nextId <= nextId'
    PROVE  Kept
<1>1. PICK m \in DOMAIN Media, in \in Frames, n \in Lengths :
         \/ \E r \in Refs(seq), mode \in {"overwrite", "insert", "append"} :
               PlaceClip(r, m, in, n, mode)
         \/ PlaceOnTop(m, in, n)
         \/ \E v \in DOMAIN seq["video"], a \in DOMAIN seq["audio"],
               mode \in {"overwrite", "insert", "append", "onTop"} :
                  PlaceLinked(v, a, m, in, n, mode)
  BY DEF Placing
<1>2. in \in Nat /\ ~PlaceOnTop(m, in, n)
  BY ReadyFacts DEF PlaceOnTop, Offered
<1>3. ops \cap HolesCut = {} => "overwrite" \notin ops /\ "insert" \notin ops
  BY DEF HolesCut
<1>4. CASE \E r \in Refs(seq), mode \in {"overwrite", "insert", "append"} :
             PlaceClip(r, m, in, n, mode)
  <2>1. PICK r \in Refs(seq), mode \in {"overwrite", "insert", "append"} :
           PlaceOn(seq, r, m, in, n, mode) /\ mode \in ops
    BY <1>4 DEF PlaceClip, Offered
  <2>2. /\ NamesKept /\ SoundKept
        /\ mode = "append" => UniqueKept
        /\ FramesPlaced => ApartKept
    BY <1>2, <2>1, PlaceOnKeeps
  <2> QED BY <1>3, <2>1, <2>2 DEF Kept, Careful
<1>5. CASE \E v \in DOMAIN seq["video"], a \in DOMAIN seq["audio"],
              mode \in {"overwrite", "insert", "append", "onTop"} :
                 PlaceLinked(v, a, m, in, n, mode)
  <2>1. PICK v \in DOMAIN seq["video"], a \in DOMAIN seq["audio"],
              mode \in {"overwrite", "insert", "append", "onTop"} :
                 PlaceLinked(v, a, m, in, n, mode)
    BY <1>5
  <2>2. mode \in ops /\ mode # "onTop"
    BY <2>1 DEF PlaceLinked, Offered
  <2>3. /\ NamesKept /\ SoundKept
        /\ mode = "append" => UniqueKept
        /\ FramesPlaced => ApartKept
    BY <1>2, <2>1, <2>2, PlaceLinkedKeeps
  <2> QED BY <1>3, <2>1, <2>2, <2>3 DEF Kept, Careful
<1> QED BY <1>1, <1>2, <1>4, <1>5

LEMMA RemovingKeeps ==
    ASSUME Ready, nextId # 0, Removing, "liftRange" \notin ops
    PROVE  Kept
<1>1. ASSUME NEW id \in ClipIds, LiftClip(id)
      PROVE  Kept
  BY <1>1, LiftClipKeeps, KeepsAll
<1>2. ASSUME NEW id \in ClipIds, RippleDeleteClip(id), "rippleDelete" \in ops
      PROVE  Kept
  <2> DEFINE c == ClipWithId(seq, RefOf(id), id)
             q == MateRef(seq, c)
  <2>1. /\ nextId' = nextId /\ KeepsNames(seq, seq') /\ KeepsUnique(seq, seq')
        /\ UniqueIds(seq) /\ (q # NoRef => AlignedMate(c, q)) => ApartKept
    BY <1>2, RippleDeleteClipKeeps
  <2>2. Careful => UniqueIds(seq) /\ (q # NoRef => AlignedMate(c, q))
    BY <1>2 DEF Careful, AllAligned
  <2> HIDE DEF c, q
  <2> QED BY <2>1, <2>2, KeepsGives DEF ApartKept
<1>3. ASSUME NEW r \in Refs(seq), NEW in \in Frames, NEW out \in Frames, in < out,
             RippleDeleteRange(r, in, out)
      PROVE  Kept
  <2>1. in \in Nat /\ out \in Nat
    BY ReadyFacts
  <2>2. nextId' = nextId /\ KeepsNames(seq, seq') /\ KeepsApart(seq, seq')
    BY <1>3, <2>1, RippleDeleteRangeKeeps
  <2>3. "rippleRange" \in ops /\ ops \cap HolesCut # {}
    BY <1>3 DEF RippleDeleteRange, Offered, HolesCut
  <2> QED BY <2>2, <2>3, KeepsGives
<1>4. \A r, in, out : ~LiftRange(r, in, out)
  BY DEF LiftRange, Offered
<1> QED BY <1>1, <1>2, <1>3, <1>4 DEF Removing, Offered

LEMMA CuttingKeeps ==
    ASSUME Ready, nextId # 0, Cutting, nextId' \in Nat, nextId <= nextId'
    PROVE  Kept
<1>1. ASSUME NEW r \in Refs(seq), NEW pos \in Frames, BladeAt(r, pos)
      PROVE  Kept
  <2>1. pos \in Int /\ "bladeAt" \in ops
    BY <1>1, ReadyFacts DEF BladeAt, Offered
  <2>2. NamesKept /\ SoundKept /\ UniqueKept /\ (UniqueIds(seq) => ApartKept)
    BY <1>1, <2>1, BladeAtKeeps
  <2> QED BY <2>1, <2>2 DEF Kept, Careful
<1>2. ASSUME NEW r \in Refs(seq), NEW pos \in Frames, BladeLinkedAt(r, pos)
      PROVE  Kept
  <2>1. pos \in Int /\ "blade" \in ops
    BY <1>2, ReadyFacts DEF BladeLinkedAt, Offered
  <2>2. /\ NamesKept /\ UniqueKept /\ SoundKept
        /\ UniqueIds(seq) /\ AllIn(seq, Sound(nextId)) => ApartKept
    BY <1>2, <2>1, BladeLinkedKeeps
  <2> QED BY <2>1, <2>2 DEF Kept, Careful
<1>3. ASSUME NEW id \in ClipIds, DeleteThroughEdit(id)
      PROVE  Kept
  BY <1>3, DeleteThroughEditKeeps, KeepsAll
<1> QED BY <1>1, <1>2, <1>3 DEF Cutting

LEMMA MovingKeeps ==
    ASSUME Ready, nextId # 0, Moving, "autoTrack" \notin ops
    PROVE  Kept
<1>1. PICK id \in ClipIds, in \in Frames :
         \/ /\ Offered("move")
            /\ \E i \in DOMAIN seq[RefOf(id)[1]] : MoveClip(id, <<RefOf(id)[1], i>>, in)
         \/ Offered("trim") /\ \E edge \in {"head", "tail"} : TrimClipEdge(edge, id, in)
         \/ AutoTrack(id, in)
  BY DEF Moving
<1>2. in \in Nat /\ in \in Int /\ ~AutoTrack(id, in)
  BY ReadyFacts DEF AutoTrack, Offered
<1>3. CASE /\ Offered("move")
           /\ \E i \in DOMAIN seq[RefOf(id)[1]] : MoveClip(id, <<RefOf(id)[1], i>>, in)
  <2>1. PICK i \in DOMAIN seq[RefOf(id)[1]] : MoveClip(id, <<RefOf(id)[1], i>>, in)
    BY <1>3
  <2>2. <<RefOf(id)[1], i>> \in Refs(seq)
    BY DropTarget
  <2>3. KeepsNames(seq, seq') /\ KeepsApart(seq, seq') /\ nextId' = nextId
    BY <1>2, <2>1, <2>2, MoveClipKeeps
  <2>4. ops \cap HolesCut # {}
    BY <1>3 DEF Offered, HolesCut
  <2> QED BY <2>3, <2>4, KeepsGives
<1>4. CASE Offered("trim") /\ \E edge \in {"head", "tail"} : TrimClipEdge(edge, id, in)
  <2>1. PICK edge \in {"head", "tail"} : TrimClipEdge(edge, id, in)
    BY <1>4
  <2> DEFINE c == ClipWithId(seq, RefOf(id), id)
             q == MateRef(seq, c)
  <2>2. /\ nextId' = nextId
        /\ KeepsNames(seq, seq') /\ KeepsUnique(seq, seq')
        /\ UniqueIds(seq) /\ (q # NoRef => ~Locked(seq, q) /\ c.link # c.id) => ApartKept
    BY <1>2, <2>1, TrimClipEdgeKeeps
  <2>3. Careful => UniqueIds(seq) /\ (q # NoRef => ~Locked(seq, q) /\ c.link # c.id)
    <3>1. SUFFICES ASSUME Careful, q # NoRef
                   PROVE  ~Locked(seq, q) /\ c.link # c.id
      BY <1>4 DEF Careful, Offered
    <3>2. NoLocks(seq) /\ AllIn(seq, Sound(nextId))
      BY <1>4, <3>1 DEF Careful, Offered
    <3>3. c \in AnyClip /\ q \in Refs(seq)
      BY <3>1, GestureFacts, MateFacts
    <3>4. c \in Sound(nextId)
      <4>1. RefOf(id) \in Refs(seq) /\ IndexOfId(ClipsAt(seq, RefOf(id)), id) # 0
        BY GestureFacts
      <4>2. Track = AnyTrack /\ seq \in Documents
        BY DEF Ready
      <4> QED BY <3>2, <4>1, <4>2, FoundIn
    <3>5. c.link # 0
      BY <3>1 DEF MateRef
    <3> HIDE DEF c, q
    <3> QED BY <3>2, <3>3, <3>4, <3>5 DEF Sound, NoLocks
  <2> HIDE DEF c, q
  <2> QED BY <2>2, <2>3, KeepsGives DEF ApartKept
<1> QED BY <1>1, <1>2, <1>3, <1>4

\* The operations, but those of Unlisted.
LEMMA EditingKeeps ==
    ASSUME Ready, nextId # 0, Editing, ops \cap Unlisted = {}, nextId' \in Nat, nextId <= nextId'
    PROVE  Kept
<1>1. "onTop" \notin ops /\ "autoTrack" \notin ops /\ "liftRange" \notin ops
  BY DEF Unlisted
<1>2. CASE Linking
  <2>1. ASSUME NEW id \in ClipIds, UnlinkClip(id) PROVE Kept
    BY <2>1, UnlinkClipKeeps, KeepsAll
  <2>2. ASSUME NEW id \in ClipIds, LinkClip(id) PROVE Kept
    BY <2>2, LinkClipKeeps DEF Kept
  <2> QED BY <1>2, <2>1, <2>2 DEF Linking
<1>3. CASE Setting
  BY <1>3, SettingKeeps, KeepsAll
<1>4. CASE Arranging
  BY <1>4, ArrangingKeeps, KeepsGives
<1> QED BY <1>1, <1>2, <1>3, <1>4, PlacingKeeps, RemovingKeeps, CuttingKeeps, MovingKeeps
        DEF Editing

-----------------------------------------------------------------------------
(* What holds of every sequence a session holds *)

\* The present sequence, those undo and those redo go to are all in D.
Line(D) == seq \in D /\ past \in Seq(D) /\ future \in Seq(D)

LEMMA SeqMore ==
    ASSUME NEW D, NEW E, D \subseteq E, NEW s \in Seq(D)
    PROVE  s \in Seq(E)
OBVIOUS

\* Undo and redo only go along the line; an edit adds to it what it makes.
LEMMA LineSteps ==
    ASSUME SInv, SessionNext, NEW D, NEW E, Line(D),
           OpenProject \/ D \subseteq E,
           Editing \/ OpenProject => seq' \in E
    PROVE  seq' \in E /\ past' \in Seq(E) /\ future' \in Seq(E)
<1>1. seq \in D /\ past \in Seq(D) /\ future \in Seq(D)
  BY DEF Line
<1>2. CASE OpenProject
  <2>1. past' = <<>> /\ future' = <<>> /\ seq' \in E
    BY <1>2 DEF OpenProject
  <2>2. <<>> \in Seq(E)
    OBVIOUS
  <2> QED BY <2>1, <2>2
<1>3. CASE D \subseteq E /\ Editing
  <2>1. Recorded
    BY <1>3, EditingEdits, EditedRecords DEF SInv, Listed
  <2>2. past' = Push(past, seq) /\ future' = <<>>
    BY <2>1 DEF Recorded, Record
  <2>3. past' \in Seq(D)
    BY <1>1, <2>2, PushType
  <2>4. past' \in Seq(E) /\ future' \in Seq(E)
    BY <1>3, <2>2, <2>3, SeqMore
  <2> QED BY <1>3, <2>4
<1>4. CASE D \subseteq E /\ EditUndo
  <2>1. Undo /\ IInv
    BY <1>4 DEF EditUndo, SInv
  <2>2. seq' = past[Len(past)] /\ past # <<>>
    BY <2>1, UndoKeepsLine
  <2>3. past' = Front(past) /\ future' = Append(future, seq)
    BY <2>1 DEF Undo
  <2>4. seq' \in D /\ past' \in Seq(D)
    BY <1>1, <2>2, <2>3, FrontLast
  <2>5. future' \in Seq(D)
    BY <1>1, <2>3, AppendFacts
  <2> QED BY <1>4, <2>4, <2>5, SeqMore
<1>5. CASE D \subseteq E /\ EditRedo
  <2>1. Redo /\ IInv
    BY <1>5 DEF EditRedo, SInv
  <2>2. seq' = future[Len(future)] /\ future # <<>>
    BY <2>1, RedoKeepsLine
  <2>3. future' = Front(future) /\ past' = Append(past, seq)
    BY <2>1 DEF Redo
  <2>4. seq' \in D /\ future' \in Seq(D)
    BY <1>1, <2>2, <2>3, FrontLast
  <2>5. past' \in Seq(D)
    BY <1>1, <2>3, AppendFacts
  <2> QED BY <1>5, <2>4, <2>5, SeqMore
<1> QED BY <1>2, <1>3, <1>4, <1>5 DEF SessionNext, Editing

\* The steps of a session: what an edit makes, by EditingKeeps, and what it
\* leaves of the ids given out.
LEMMA StepKinds ==
    ASSUME SInv, nextId # 0, SessionNext
    PROVE  /\ session' = session
           /\ OpenProject \/ (nextId' \in Nat /\ nextId <= nextId')
           /\ Editing => Kept /\ seq' \in Documents
           /\ OpenProject => seq' \in Start /\ nextId' = FreshIn(seq')
<1>1. Ready /\ nextId \in Nat /\ ops \cap Unlisted = {}
  BY DEF SInv, Ready, Listed
<1>2. session' = session
  BY SessionKept
<1>3. OpenProject => seq' \in Start /\ nextId' = FreshIn(seq')
  BY DEF OpenProject
<1>4. ASSUME Editing
      PROVE  nextId' \in Nat /\ nextId <= nextId' /\ Kept /\ seq' \in Documents
  <2>1. Edited
    BY <1>1, <1>4, EditingEdits
  <2>2. nextId' \in Nat /\ nextId <= nextId'
    BY <2>1 DEF Edited
  <2>3. Kept
    BY <1>1, <1>4, <2>2, EditingKeeps
  <2>4. seq' \in Documents
    BY <1>1, <2>1, EditedRecords DEF Recorded, Record
  <2> QED BY <2>2, <2>3, <2>4
<1>5. EditUndo \/ EditRedo => nextId' \in Nat /\ nextId <= nextId'
  BY <1>1 DEF EditUndo, EditRedo
<1> QED BY <1>2, <1>3, <1>4, <1>5 DEF SessionNext, Editing

\* The ids of a sequence that is opened are below the counter it is given.
LEMMA FreshNamed ==
    ASSUME Track = AnyTrack, NEW s \in Documents
    PROVE  /\ FreshIn(s) \in Nat /\ FreshIn(s) # 0
           /\ AllIn(s, Named(FreshIn(s)))
<1>1. FreshIn(s) \in Nat /\ FreshIn(s) # 0 /\ \A c \in ClipsOf(s) : c.id < FreshIn(s)
  BY FreshInType
<1>2. ASSUME NEW r \in Refs(s), NEW i \in DOMAIN ClipsAt(s, r)
      PROVE  ClipsAt(s, r)[i] \in Named(FreshIn(s))
  <2> DEFINE clips == ClipsAt(s, r)
  <2>1. clips \in Seq(AnyClip)
    BY TrackFacts
  <2>2. clips[i] \in AnyClip
    BY <2>1
  <2>3. clips[i] \in ToSet(clips)
    BY DEF ToSet
  <2>4. clips[i] \in ClipsOf(s)
    BY <2>3 DEF ClipsOf
  <2> QED BY <1>1, <2>2, <2>4 DEF Named
<1> QED BY <1>1, <1>2 DEF AllIn

-----------------------------------------------------------------------------
(* Ids *)

\* No operation of the session doubles an id.
NoHoles == ops \cap HolesCut = {}

\* The sequences with ids below n, each of one clip where no operation doubles one.
NamedDocs(n) == {s \in Documents : AllIn(s, Named(n)) /\ (NoHoles => UniqueIds(s))}

\* Where no operation doubles an id, no project is opened with a doubled one.
StartsUnique == NoHoles => \A s \in Start : UniqueIds(s)

NamesInv == SInv /\ StartsUnique /\ nextId # 0 /\ Line(NamedDocs(nextId))

LEMMA StartNamed ==
    ASSUME Track = AnyTrack, session \in Sessions, StartsUnique, NEW s \in Start
    PROVE  s \in NamedDocs(FreshIn(s)) /\ FreshIn(s) # 0
<1>1. s \in Documents
  BY SessionsAssumption DEF Start
<1>2. AllIn(s, Named(FreshIn(s))) /\ FreshIn(s) # 0
  BY <1>1, FreshNamed
<1> QED BY <1>1, <1>2 DEF NamedDocs, StartsUnique

LEMMA NamesStart ==
    ASSUME Track = AnyTrack, Listed, StartsUnique, SessionInit
    PROVE  NamesInv
<1>1. SInv
  BY SessionStarts, LineInductive DEF SInv
<1>2. seq \in Start /\ session \in Sessions /\ past = <<>> /\ future = <<>> /\ nextId = FreshIn(seq)
  BY DEF SessionInit
<1>3. seq \in NamedDocs(nextId) /\ nextId # 0
  BY <1>2, StartNamed
<1>4. Line(NamedDocs(nextId))
  BY <1>2, <1>3 DEF Line
<1> QED BY <1>1, <1>3, <1>4 DEF NamesInv

LEMMA NamedMore ==
    ASSUME NEW n \in Nat, NEW m \in Nat, n <= m
    PROVE  NamedDocs(n) \subseteq NamedDocs(m)
<1>1. Named(n) \subseteq Named(m)
  BY NamedSets
<1> QED BY <1>1, AllInMore DEF NamedDocs

LEMMA NamesSteps ==
    ASSUME NamesInv, [SessionNext]_vars
    PROVE  NamesInv'
<1>1. SInv /\ StartsUnique /\ nextId # 0 /\ Line(NamedDocs(nextId)) /\ nextId \in Nat
      /\ Track = AnyTrack /\ session \in Sessions
  BY DEF NamesInv, SInv, Ready
<1>2. SInv'
  BY <1>1, SessionSteps
<1>3. session' = session
  BY SessionKept
<1>4. StartsUnique'
  BY <1>1, <1>3 DEF StartsUnique, NoHoles, ops, Start
<1>5. CASE UNCHANGED vars
  <2>1. Line(NamedDocs(nextId))'
    BY <1>1, <1>5 DEF vars, NamedDocs, NoHoles, ops, Line
  <2> QED BY <1>1, <1>2, <1>4, <1>5, <2>1 DEF NamesInv, vars
<1>6. CASE SessionNext
  <2>1. /\ OpenProject \/ (nextId' \in Nat /\ nextId <= nextId')
        /\ Editing => Kept /\ seq' \in Documents
        /\ OpenProject => seq' \in Start /\ nextId' = FreshIn(seq')
    BY <1>1, <1>6, StepKinds
  <2> DEFINE D == NamedDocs(nextId)
             E == {s \in Documents : AllIn(s, Named(nextId')) /\ (NoHoles => UniqueIds(s))}
  <2>2. E = NamedDocs(nextId')
    BY DEF NamedDocs
  <2>3. (NamedDocs(nextId))' = E
    BY <1>3 DEF NamedDocs, NoHoles, ops
  <2>4. OpenProject => seq' \in E /\ nextId' # 0
    BY <1>1, <2>1, <2>2, StartNamed
  <2>5. OpenProject \/ D \subseteq E
    BY <1>1, <2>1, <2>2, NamedMore
  <2>6. ASSUME Editing PROVE seq' \in E
    <3>1. Kept /\ seq' \in Documents
      BY <2>1, <2>6
    <3>2. seq \in Documents /\ AllIn(seq, Named(nextId)) /\ (NoHoles => UniqueIds(seq))
      BY <1>1 DEF Line, NamedDocs
    <3>3. AllIn(seq', Named(nextId'))
      BY <3>1, <3>2 DEF Kept, NamesKept
    <3>4. NoHoles => UniqueIds(seq')
      BY <3>1, <3>2 DEF Kept, UniqueKept, KeepsUnique, NoHoles
    <3> QED BY <3>1, <3>3, <3>4
  <2> HIDE DEF D, E
  <2>7. seq' \in E /\ past' \in Seq(E) /\ future' \in Seq(E)
    <3>1. Line(D)
      BY <1>1 DEF D
    <3> QED BY <1>1, <1>6, <2>4, <2>5, <2>6, <3>1, LineSteps
  <2>8. nextId' # 0
    BY <1>1, <2>1, <2>4
  <2>9. Line(NamedDocs(nextId))'
    BY <2>3, <2>7 DEF Line
  <2> QED BY <1>2, <1>4, <2>8, <2>9 DEF NamesInv
<1> QED BY <1>5, <1>6

LEMMA NamesHold ==
    ASSUME NamesInv
    PROVE  IdsNameOneClip
<1>1. /\ Line(NamedDocs(nextId)) /\ Track = AnyTrack
  BY DEF NamesInv, SInv, Ready
<1>2. ASSUME NEW s \in {seq} \cup ToSet(past) \cup ToSet(future)
      PROVE  s \in NamedDocs(nextId)
  BY <1>1 DEF Line, ToSet
<1>3. ASSUME NEW c \in Held PROVE c.id < nextId
  <2>1. PICK s \in {seq} \cup ToSet(past) \cup ToSet(future) : c \in ClipsOf(s)
    BY DEF Held
  <2>2. PICK r \in Refs(s) : c \in ToSet(ClipsAt(s, r))
    BY <2>1 DEF ClipsOf
  <2>3. PICK i \in DOMAIN ClipsAt(s, r) : c = ClipsAt(s, r)[i]
    BY <2>2 DEF ToSet
  <2>4. AllIn(s, Named(nextId))
    BY <1>2 DEF NamedDocs
  <2> QED BY <2>3, <2>4 DEF AllIn, Named
<1>4. NoHoles => UniqueIds(seq)
  BY <1>1 DEF Line, NamedDocs
<1> QED BY <1>3, <1>4 DEF IdsNameOneClip, NoHoles, UniqueIds

\* For any clips, tracks, media, bounds and depth of the stack, an id that was
\* given out is never given out again while the timeline, an undo or a redo can
\* bring its clip back (next_clip_id), and where no operation doubles an id no two
\* clips of the timeline have the same: the lookups by id of edit_ops.cpp find the
\* clip the gesture was on.
THEOREM IdsNameOne ==
    Track = AnyTrack /\ Listed /\ StartsUnique /\ SessionSpec => []IdsNameOneClip
<1>1. Track = AnyTrack /\ Listed /\ StartsUnique /\ SessionInit => NamesInv
  BY NamesStart
<1>2. NamesInv /\ [SessionNext]_vars => NamesInv'
  BY NamesSteps
<1>3. NamesInv => IdsNameOneClip
  BY NamesHold
<1> QED BY <1>1, <1>2, <1>3, PTL DEF SessionSpec

-----------------------------------------------------------------------------
(* Pairs *)

\* c and d are the two parts of a pair, and show the same.
Mates(c, d) ==
    /\ c.id # 0 /\ d.id # 0
    /\ d.id = c.link /\ d.link = c.id
    /\ d.in = c.in /\ d.out = c.out
    /\ d.src = c.src /\ d.srcOut = c.srcOut
    /\ d.media = c.media

\* Every linked clip has a mate on a track of the other kind.
Paired(s) ==
    \A r \in Refs(s) : \A i \in DOMAIN ClipsAt(s, r) :
        ClipsAt(s, r)[i].link # 0 =>
            \E q \in Refs(s) : \E j \in DOMAIN ClipsAt(s, q) :
                q[1] # r[1] /\ Mates(ClipsAt(s, r)[i], ClipsAt(s, q)[j])

\* One track of each kind, with the parts of pairs and no other clip.
Even(s) ==
    /\ Len(s["video"]) = 1 /\ Len(s["audio"]) = 1
    /\ \A r \in Refs(s) : \A i \in DOMAIN ClipsAt(s, r) : ClipsAt(s, r)[i].link # 0

LEMMA MatesBoth ==
    ASSUME NEW c, NEW d, Mates(c, d)
    PROVE  Mates(d, c) /\ c.link # 0 /\ d.link # 0
BY DEF Mates

\* The mate of a linked clip is found by its id.
LEMMA MateFound ==
    ASSUME Track = AnyTrack, NEW s \in Documents, UniqueIds(s), Paired(s), NEW r \in Refs(s),
           NEW i \in DOMAIN ClipsAt(s, r), NEW c, c = ClipsAt(s, r)[i], c.link # 0,
           NEW q, q = FindClipRef(s, c.link)
    PROVE  /\ q \in Refs(s) /\ q # NoRef /\ q[1] # r[1] /\ q # r
           /\ IndexOfId(ClipsAt(s, q), c.link) \in DOMAIN ClipsAt(s, q)
           /\ IndexOfId(ClipsAt(s, q), c.link) # 0
           /\ Mates(c, ClipsAt(s, q)[IndexOfId(ClipsAt(s, q), c.link)])
<1>0. PICK p \in Refs(s) : \E j \in DOMAIN ClipsAt(s, p) : p[1] # r[1] /\ Mates(c, ClipsAt(s, p)[j])
  BY DEF Paired
<1>1. PICK j \in DOMAIN ClipsAt(s, p) : p[1] # r[1] /\ Mates(c, ClipsAt(s, p)[j])
  BY <1>0
<1>2. ClipsAt(s, p)[j].id = c.link
  BY <1>1 DEF Mates
<1>3. q # NoRef
  <2>1. c.link \in IdsIn(ClipsAt(s, p))
    BY <1>2 DEF IdsIn
  <2> QED BY <2>1, FindClipRefFinds
<1>4. q \in Refs(s) /\ IndexOfId(ClipsAt(s, q), c.link) \in 1 .. Len(ClipsAt(s, q))
      /\ ClipWithId(s, q, c.link).id = c.link
  BY <1>3, FindClipRefFinds
<1> DEFINE m == IndexOfId(ClipsAt(s, q), c.link)
<1>5. ClipsAt(s, q) \in Seq(AnyClip)
  BY <1>4, TrackFacts
<1>6. m \in DOMAIN ClipsAt(s, q) /\ m # 0
  BY <1>4, <1>5, ListClips
<1>7. ClipsAt(s, q)[m].id = c.link
  BY <1>4 DEF ClipWithId
<1> HIDE DEF m
<1>8. q = p /\ m = j
  BY <1>2, <1>4, <1>6, <1>7 DEF UniqueIds
<1> QED BY <1>1, <1>3, <1>4, <1>6, <1>8 DEF m

\* Clip i of track r has become x, clip j of track q, if there is a q, y.
Rewritten(s, u, r, i, x, q, j, y) ==
    \A p \in Refs(s) :
       /\ DOMAIN ClipsAt(u, p) = DOMAIN ClipsAt(s, p)
       /\ \A n \in DOMAIN ClipsAt(s, p) :
             ClipsAt(u, p)[n] = IF p = r /\ n = i THEN x
                                ELSE IF p = q /\ n = j THEN y
                                ELSE ClipsAt(s, p)[n]

\* These were a pair and are one, or are parted; or the first was alone and is.
StayMates(s, r, i, x, q, j, y) ==
    /\ ClipsAt(s, r)[i].link # 0 =>
         /\ q \in Refs(s) /\ q[1] # r[1] /\ j \in DOMAIN ClipsAt(s, q)
         /\ Mates(ClipsAt(s, r)[i], ClipsAt(s, q)[j])
         /\ Mates(x, y) \/ (x.link = 0 /\ y.link = 0)
    /\ ClipsAt(s, r)[i].link = 0 => q = NoRef /\ x.link = 0

\* A clip and its mate, if it has one, are changed and stay a pair, or part.
LEMMA PairChanged ==
    ASSUME Track = AnyTrack, NEW s \in Documents, NEW u \in Documents, UniqueIds(s), Paired(s),
           Refs(u) = Refs(s),
           NEW r \in Refs(s), NEW i \in DOMAIN ClipsAt(s, r), NEW x,
           NEW q \in Refs(s) \cup {NoRef}, NEW j, NEW y,
           Rewritten(s, u, r, i, x, q, j, y), StayMates(s, r, i, x, q, j, y)
    PROVE  Paired(u)
<1> USE DEF Rewritten, StayMates
<1> DEFINE c == ClipsAt(s, r)[i]
<1>1. ASSUME NEW p \in Refs(s), NEW n \in DOMAIN ClipsAt(s, p), ClipsAt(u, p)[n].link # 0
      PROVE  \E p1 \in Refs(s) : \E m \in DOMAIN ClipsAt(s, p1) :
                p1[1] # p[1] /\ Mates(ClipsAt(u, p)[n], ClipsAt(u, p1)[m])
  <2>1. CASE p = r /\ n = i
    <3>1. ClipsAt(u, p)[n] = x
      BY <2>1
    <3>2. c.link # 0
      BY <1>1, <3>1
    <3>3. q \in Refs(s) /\ q[1] # r[1] /\ j \in DOMAIN ClipsAt(s, q) /\ Mates(x, y)
      BY <1>1, <3>1, <3>2
    <3>4. ClipsAt(u, q)[j] = y
      BY <3>3
    <3> QED BY <2>1, <3>1, <3>3, <3>4
  <2>2. CASE p = q /\ n = j /\ ~(p = r /\ n = i)
    <3>1. q # NoRef
      BY <2>2, RefFacts
    <3>2. c.link # 0
      BY <3>1
    <3>3. ClipsAt(u, p)[n] = y
      BY <2>2
    <3>4. q[1] # r[1] /\ Mates(x, y)
      BY <1>1, <3>2, <3>3
    <3>5. ClipsAt(u, r)[i] = x
      OBVIOUS
    <3>6. Mates(y, x)
      BY <3>4, MatesBoth
    <3> QED BY <2>2, <3>3, <3>4, <3>5, <3>6
  <2>3. CASE ~(p = q /\ n = j) /\ ~(p = r /\ n = i)
    <3> DEFINE e == ClipsAt(s, p)[n]
    <3>1. ClipsAt(u, p)[n] = e /\ e.link # 0
      BY <1>1, <2>3
    <3>9. PICK p1 \in Refs(s) : \E m \in DOMAIN ClipsAt(s, p1) :
             p1[1] # p[1] /\ Mates(e, ClipsAt(s, p1)[m])
      BY <3>1 DEF Paired
    <3>2. PICK m \in DOMAIN ClipsAt(s, p1) : p1[1] # p[1] /\ Mates(e, ClipsAt(s, p1)[m])
      BY <3>9
    <3>3. ~(p1 = r /\ m = i)
      <4> SUFFICES ASSUME p1 = r, m = i PROVE FALSE
        OBVIOUS
      <4>1. c.link # 0 /\ e.id = c.link
        BY <3>2 DEF Mates
      <4>2. q \in Refs(s) /\ j \in DOMAIN ClipsAt(s, q) /\ ClipsAt(s, q)[j].id = c.link
        BY <4>1 DEF Mates
      <4>3. p = q /\ n = j
        BY <4>1, <4>2 DEF UniqueIds
      <4> QED BY <2>3, <4>3
    <3>4. ~(p1 = q /\ m = j)
      <4> SUFFICES ASSUME p1 = q, m = j PROVE FALSE
        OBVIOUS
      <4>1. q # NoRef
        BY RefFacts
      <4>2. c.link # 0
        BY <4>1
      <4>3. Mates(c, ClipsAt(s, q)[j])
        BY <4>2
      <4>4. e.id = c.id
        BY <3>2, <4>3 DEF Mates
      <4>5. p = r /\ n = i
        BY <4>4 DEF UniqueIds
      <4> QED BY <2>3, <4>5
    <3>5. ClipsAt(u, p1)[m] = ClipsAt(s, p1)[m]
      BY <3>3, <3>4
    <3> QED BY <3>1, <3>2, <3>5
  <2> QED BY <2>1, <2>2, <2>3
<1>2. ASSUME NEW p \in Refs(u), NEW n \in DOMAIN ClipsAt(u, p), ClipsAt(u, p)[n].link # 0
      PROVE  \E p1 \in Refs(u) : \E m \in DOMAIN ClipsAt(u, p1) :
                p1[1] # p[1] /\ Mates(ClipsAt(u, p)[n], ClipsAt(u, p1)[m])
  <2>1. p \in Refs(s) /\ n \in DOMAIN ClipsAt(s, p)
    BY <1>2
  <2>2. PICK p1 \in Refs(s) : \E m \in DOMAIN ClipsAt(s, p1) :
           p1[1] # p[1] /\ Mates(ClipsAt(u, p)[n], ClipsAt(u, p1)[m])
    BY <1>1, <1>2, <2>1
  <2>3. p1 \in Refs(u) /\ DOMAIN ClipsAt(u, p1) = DOMAIN ClipsAt(s, p1)
    OBVIOUS
  <2> QED BY <2>2, <2>3
<1> QED BY <1>2 DEF Paired

\* What an operation leaves of pairs.
PairedKept == UniqueIds(seq) /\ Paired(seq) => Paired(seq')
EvenKept == UniqueIds(seq) /\ Paired(seq) /\ Even(seq) => Even(seq')

\* As many tracks, and no clip alone.
LEMMA EvenIntro ==
    ASSUME Track = AnyTrack, NEW s \in Documents, NEW u \in Documents, Refs(u) = Refs(s), Even(s),
           \A p \in Refs(u) : \A i \in DOMAIN ClipsAt(u, p) : ClipsAt(u, p)[i].link # 0
    PROVE  Even(u)
<1>1. ASSUME NEW k \in Kinds PROVE Len(s[k]) = Len(u[k])
  <2>1. /\ Len(s[k]) \in 0 .. MaxTracks /\ Len(u[k]) \in 0 .. MaxTracks
        /\ MaxTracks \in Nat
    BY DocumentFacts, MaxTracksAssumption
  <2>2. \A n \in 1 .. MaxTracks : n <= Len(s[k]) <=> n <= Len(u[k])
    <3> SUFFICES ASSUME NEW n \in 1 .. MaxTracks PROVE n <= Len(s[k]) <=> n <= Len(u[k])
      OBVIOUS
    <3>1. <<k, n>> \in Refs(s) <=> <<k, n>> \in Refs(u)
      OBVIOUS
    <3> QED BY <3>1 DEF Refs
  <2>3. CASE Len(s[k]) < Len(u[k])
    BY <2>1, <2>2, <2>3
  <2>4. CASE Len(u[k]) < Len(s[k])
    BY <2>1, <2>2, <2>4
  <2> QED BY <2>1, <2>3, <2>4
<1>2. Len(s["video"]) = Len(u["video"]) /\ Len(s["audio"]) = Len(u["audio"])
  BY <1>1 DEF Kinds
<1> QED BY <1>2 DEF Even

\* Changing attributes.
LEMMA SpansPaired ==
    ASSUME Track = AnyTrack, NEW s \in Documents, NEW u \in Documents, Refs(u) = Refs(s),
           SameSpans(s, u), Paired(s)
    PROVE  Paired(u) /\ (Even(s) => Even(u))
<1>1. ASSUME NEW p \in Refs(s)
      PROVE  /\ DOMAIN ClipsAt(u, p) = DOMAIN ClipsAt(s, p)
             /\ \A i \in DOMAIN ClipsAt(s, p) :
                   LET a == ClipsAt(u, p)[i]
                       b == ClipsAt(s, p)[i]
                   IN  /\ a.id = b.id /\ a.media = b.media /\ a.link = b.link
                       /\ a.in = b.in /\ a.out = b.out /\ a.src = b.src /\ a.srcOut = b.srcOut
  <2>1. ClipsAt(s, p) \in Seq(AnyClip) /\ ClipsAt(u, p) \in Seq(AnyClip)
        /\ SpansOf(ClipsAt(u, p)) = SpansOf(ClipsAt(s, p))
    BY TrackFacts DEF SameSpans
  <2> QED BY <2>1, SpansFacts
<1>2. ASSUME NEW p \in Refs(u), NEW i \in DOMAIN ClipsAt(u, p), ClipsAt(u, p)[i].link # 0
      PROVE  \E q \in Refs(u) : \E j \in DOMAIN ClipsAt(u, q) :
                q[1] # p[1] /\ Mates(ClipsAt(u, p)[i], ClipsAt(u, q)[j])
  <2>1. p \in Refs(s) /\ i \in DOMAIN ClipsAt(s, p) /\ ClipsAt(s, p)[i].link # 0
    BY <1>1, <1>2
  <2>2. PICK q \in Refs(s) : \E j \in DOMAIN ClipsAt(s, q) :
           q[1] # p[1] /\ Mates(ClipsAt(s, p)[i], ClipsAt(s, q)[j])
    BY <2>1 DEF Paired
  <2>3. PICK j \in DOMAIN ClipsAt(s, q) : q[1] # p[1] /\ Mates(ClipsAt(s, p)[i], ClipsAt(s, q)[j])
    BY <2>2
  <2>4. j \in DOMAIN ClipsAt(u, q) /\ Mates(ClipsAt(u, p)[i], ClipsAt(u, q)[j])
    BY <1>1, <2>1, <2>3 DEF Mates
  <2> QED BY <2>3, <2>4
<1>3. ASSUME Even(s) PROVE Even(u)
  <2>1. \A p \in Refs(u) : \A i \in DOMAIN ClipsAt(u, p) : ClipsAt(u, p)[i].link # 0
    BY <1>1, <1>3 DEF Even
  <2> QED BY <1>3, <2>1, EvenIntro
<1> QED BY <1>2, <1>3 DEF Paired

\* A clip and its mate, if it has one, are changed, and are parted or stay a pair.
LEMMA BothChanged ==
    ASSUME Ready, NEW id \in ClipIds,
           NEW r, r = RefOf(id), NEW c, c = ClipWithId(seq, r, id), NEW q, q = MateRef(seq, c),
           NEW x \in AnyClip, NEW y, NEW v, v = UpdatedTo(seq, r, id, x),
           NEW u, u = UpdatedTo(v, q, c.link, y),
           \A d \in AnyClip : d = ClipWithId(v, q, c.link) /\ Mates(c, d) =>
              y \in AnyClip /\ (Mates(x, y) \/ (x.link = 0 /\ y.link = 0)),
           c.link = 0 => x.link = 0, UniqueIds(seq), Paired(seq)
    PROVE  Paired(u) /\ (x.link # 0 /\ Even(seq) => Even(u))
<1> DEFINE i == IndexOfId(ClipsAt(seq, r), id)
           j == IndexOfId(ClipsAt(seq, q), c.link)
           d == ClipsAt(seq, q)[j]
<1>1. Track = AnyTrack /\ seq \in Documents
  BY DEF Ready
<1>2. /\ r \in Refs(seq) /\ c \in AnyClip /\ c.id = id
      /\ i \in DOMAIN ClipsAt(seq, r) /\ i # 0 /\ c = ClipsAt(seq, r)[i]
      /\ ClipsAt(seq, r) \in Seq(AnyClip)
  <2>1. i \in 1 .. Len(ClipsAt(seq, r)) /\ r \in Refs(seq) /\ c \in AnyClip /\ c.id = id
    BY GestureFacts
  <2>2. ClipsAt(seq, r) \in Seq(AnyClip)
    BY <1>1, <2>1, TrackFacts
  <2>3. DOMAIN ClipsAt(seq, r) = 1 .. Len(ClipsAt(seq, r))
    BY <2>2, ListClips
  <2> QED BY <2>1, <2>2, <2>3 DEF ClipWithId
<1> HIDE DEF i
<1>4. /\ v \in Documents /\ Refs(v) = Refs(seq)
      /\ ClipsAt(v, r) = [ClipsAt(seq, r) EXCEPT ![i] = x]
      /\ \A p \in Refs(seq) \ {r} : ClipsAt(v, p) = ClipsAt(seq, p)
  <2>1. i = IndexOfId(ClipsAt(seq, r), id)
    BY DEF i
  <2> QED BY <1>1, <1>2, <2>1, UpdatedToWrites
<1>5. CASE c.link = 0
  <2>1. q = NoRef /\ x.link = 0
    BY <1>5 DEF MateRef
  <2>2. u = v
    BY <2>1 DEF UpdatedTo
  <2>3. \A p \in Refs(seq) :
           /\ DOMAIN ClipsAt(u, p) = DOMAIN ClipsAt(seq, p)
           /\ \A n \in DOMAIN ClipsAt(seq, p) :
                 ClipsAt(u, p)[n] = IF p = r /\ n = i THEN x
                                    ELSE IF p = q /\ n = 0 THEN x
                                    ELSE ClipsAt(seq, p)[n]
    <3>1. \A p \in Refs(seq) : p # NoRef
      BY <1>1, RefFacts
    <3> QED BY <1>2, <1>4, <2>1, <2>2, <3>1
  <2>4. Rewritten(seq, u, r, i, x, q, 0, x) /\ StayMates(seq, r, i, x, q, 0, x)
    BY <1>2, <1>5, <2>1, <2>3 DEF Rewritten, StayMates
  <2>5. Paired(u)
    BY <1>1, <1>2, <1>4, <2>1, <2>2, <2>4, PairChanged
  <2> QED BY <2>1, <2>5
<1>6. CASE c.link # 0
  <2>1. /\ q \in Refs(seq) /\ q # NoRef /\ q[1] # r[1] /\ q # r
        /\ j \in DOMAIN ClipsAt(seq, q) /\ j # 0 /\ Mates(c, d)
    <3>1. q = FindClipRef(seq, c.link)
      BY <1>6 DEF MateRef
    <3> QED BY <1>1, <1>2, <1>6, <3>1, MateFound
  <2>2. ClipsAt(v, q) = ClipsAt(seq, q)
    BY <1>4, <2>1
  <2>3. ClipWithId(v, q, c.link) = d
    BY <2>2 DEF ClipWithId
  <2>4. d \in AnyClip
    BY <1>1, <2>1, TrackFacts, ListClips
  <2>5. y \in AnyClip /\ (Mates(x, y) \/ (x.link = 0 /\ y.link = 0))
    BY <2>1, <2>3, <2>4
  <2>7. j = IndexOfId(ClipsAt(v, q), c.link)
    BY <2>2
  <2> HIDE DEF j, d
  <2>8. /\ u \in Documents /\ Refs(u) = Refs(v)
        /\ ClipsAt(u, q) = [ClipsAt(v, q) EXCEPT ![j] = y]
        /\ \A p \in Refs(v) \ {q} : ClipsAt(u, p) = ClipsAt(v, p)
    BY <1>1, <1>4, <2>1, <2>5, <2>7, UpdatedToWrites
  <2>9. \A p \in Refs(seq) :
           /\ DOMAIN ClipsAt(u, p) = DOMAIN ClipsAt(seq, p)
           /\ \A n \in DOMAIN ClipsAt(seq, p) :
                 ClipsAt(u, p)[n] = IF p = r /\ n = i THEN x
                                    ELSE IF p = q /\ n = j THEN y
                                    ELSE ClipsAt(seq, p)[n]
    BY <1>2, <1>4, <2>1, <2>2, <2>8
  <2>10. Mates(ClipsAt(seq, r)[i], ClipsAt(seq, q)[j])
    BY <1>2, <2>1 DEF d
  <2>11. Refs(u) = Refs(seq)
    BY <1>4, <2>8
  <2>a. Rewritten(seq, u, r, i, x, q, j, y) /\ StayMates(seq, r, i, x, q, j, y)
    BY <1>2, <1>6, <2>1, <2>5, <2>9, <2>10 DEF Rewritten, StayMates
  <2>12. Paired(u)
    BY <1>1, <1>2, <2>1, <2>8, <2>a, <2>11, PairChanged
  <2>13. ASSUME x.link # 0, Even(seq) PROVE Even(u)
    <3>1. y.link # 0
      BY <2>5, <2>13, MatesBoth
    <3>2. \A p \in Refs(u) : \A n \in DOMAIN ClipsAt(u, p) : ClipsAt(u, p)[n].link # 0
      BY <2>9, <2>11, <2>13, <3>1 DEF Even
    <3> QED BY <1>1, <2>8, <2>11, <2>13, <3>2, EvenIntro
  <2> QED BY <2>12, <2>13
<1> QED BY <1>5, <1>6

\* Unlinking parts a pair.
LEMMA UnlinkClipPairs ==
    ASSUME Ready, NEW id \in ClipIds, UnlinkClip(id)
    PROVE  PairedKept
<1> DEFINE r == RefOf(id)
           c == ClipWithId(seq, r, id)
           q == MateRef(seq, c)
           x == [c EXCEPT !.link = 0]
           v == UpdatedTo(seq, r, id, x)
           d == ClipWithId(v, q, c.link)
           y == [d EXCEPT !.link = 0]
           u == UpdatedTo(v, q, c.link, y)
<1> SUFFICES ASSUME UniqueIds(seq), Paired(seq)
             PROVE  Paired(seq')
  BY DEF PairedKept
<1>1. Commit(seq, u, {r, q}, 0)
  BY DEF UnlinkClip, Relink, UpdateAt, UpdateId, UpdatedTo, ClipWithId
<1>2. seq' = u
  BY <1>1, CommitGives
<1>3. c \in AnyClip
  BY GestureFacts
<1> HIDE DEF c
<1>4. x \in AnyClip /\ x.link = 0
  BY <1>3 DEF AnyClip
<1>5. d \in AnyClip => y \in AnyClip /\ y.link = 0
  <2> HIDE DEF d
  <2> QED BY DEF AnyClip
<1> DEFINE q1 == q
<1> HIDE DEF x, y
<1>6. \A e \in AnyClip : e = d /\ Mates(c, e) =>
         y \in AnyClip /\ (Mates(x, y) \/ (x.link = 0 /\ y.link = 0))
  <2> HIDE DEF d
  <2> QED BY <1>4, <1>5
<1>7. Paired(u)
  BY <1>4, <1>6, BothChanged DEF c
<1> QED BY <1>2, <1>7

\* A trim goes as far on both parts of a pair.
LEMMA TrimClipEdgePairs ==
    ASSUME Ready, NEW edge, NEW id \in ClipIds, NEW to \in Int, TrimClipEdge(edge, id, to)
    PROVE  PairedKept /\ EvenKept
<1> DEFINE r == RefOf(id)
           c == ClipWithId(seq, r, id)
           q == MateRef(seq, c)
           trimmed(e, k) == IF edge = "head" THEN HeadTrimmed(e, k) ELSE TailTrimmed(e, k)
           s(k) == UpdatedTo(seq, r, id, trimmed(c, k))
           t(k) == UpdatedTo(s(k), q, c.link, trimmed(ClipWithId(s(k), q, c.link), k))
<1>1. PICK k \in {TrimDelta(edge, id, to)} \ {0} : Commit(seq, t(k), {r, q}, 0)
  BY DEF TrimClipEdge, UpdateAt, UpdateId, UpdatedTo, ClipWithId
<1>2. k \in Int
  BY TrimDeltaType
<1>3. seq' = t(k)
  BY <1>1, CommitGives
<1>4. c \in AnyClip
  BY GestureFacts
<1>5. ASSUME NEW e \in AnyClip
      PROVE  /\ trimmed(e, k) \in AnyClip
             /\ trimmed(e, k).id = e.id /\ trimmed(e, k).link = e.link
             /\ trimmed(e, k).media = e.media
             /\ trimmed(e, k).in = (IF edge = "head" THEN e.in + k ELSE e.in)
             /\ trimmed(e, k).src = (IF edge = "head" THEN e.src + k ELSE e.src)
             /\ trimmed(e, k).out = (IF edge = "head" THEN e.out ELSE e.out + k)
             /\ trimmed(e, k).srcOut = (IF edge = "head" THEN e.srcOut ELSE e.srcOut + k)
  <2>1. trimmed(e, k) \in AnyClip
    BY <1>2, TrimmedTypes
  <2> QED BY <2>1 DEF HeadTrimmed, TailTrimmed, AnyClip
<1> HIDE DEF trimmed
<1>6. ASSUME NEW e \in AnyClip, Mates(c, e)
      PROVE  Mates(trimmed(c, k), trimmed(e, k))
  <2> HIDE DEF c
  <2> QED BY <1>4, <1>5, <1>6 DEF Mates
<1> DEFINE x == trimmed(c, k)
           v == UpdatedTo(seq, r, id, x)
           d == ClipWithId(v, q, c.link)
           y == trimmed(d, k)
           u == UpdatedTo(v, q, c.link, y)
<1>7. seq' = u
  BY <1>3
<1>8. x \in AnyClip /\ x.link = c.link
  BY <1>4, <1>5
<1> HIDE DEF c
<1>9. \A e \in AnyClip : e = d /\ Mates(c, e) =>
         y \in AnyClip /\ (Mates(x, y) \/ (x.link = 0 /\ y.link = 0))
  <2> HIDE DEF d
  <2> QED BY <1>5, <1>6
<1> HIDE DEF x, y
<1>10. ASSUME UniqueIds(seq), Paired(seq)
       PROVE  Paired(u) /\ (x.link # 0 /\ Even(seq) => Even(u))
  BY <1>8, <1>9, <1>10, BothChanged DEF c
<1>11. ASSUME Even(seq) PROVE c.link # 0
  <2>1. r \in Refs(seq) /\ IndexOfId(ClipsAt(seq, r), id) \in 1 .. Len(ClipsAt(seq, r))
    BY GestureFacts
  <2>2. ClipsAt(seq, r) \in Seq(AnyClip)
    BY <2>1, TrackFacts DEF Ready
  <2>3. IndexOfId(ClipsAt(seq, r), id) \in DOMAIN ClipsAt(seq, r)
    BY <2>1, <2>2, ListClips
  <2> QED BY <1>11, <2>1, <2>3 DEF Even, c, ClipWithId
<1> QED BY <1>7, <1>8, <1>10, <1>11 DEF PairedKept, EvenKept

\* Setting an attribute.
LEMMA SettingPairs ==
    ASSUME Ready, seq' \in Documents, AttributesOnly
    PROVE  PairedKept /\ EvenKept
<1>1. Track = AnyTrack /\ seq \in Documents /\ seq' \in Documents
      /\ Refs(seq') = Refs(seq) /\ SameSpans(seq, seq')
  BY DEF Ready, AttributesOnly
<1> QED BY <1>1, SpansPaired DEF PairedKept, EvenKept

-----------------------------------------------------------------------------
(* Pairs, in whatever order the clips are *)

\* The clips on a track, in whatever order.
On(s, p) == ToSet(ClipsAt(s, p))

LEMMA PairedOn ==
    ASSUME NEW s
    PROVE  Paired(s) <=>
           \A p \in Refs(s) : \A c \in On(s, p) : c.link # 0 =>
              \E q \in Refs(s) : \E d \in On(s, q) : q[1] # p[1] /\ Mates(c, d)
<1>1. \A p : On(s, p) = {ClipsAt(s, p)[i] : i \in DOMAIN ClipsAt(s, p)}
  BY DEF On, ToSet
<1> QED BY <1>1 DEF Paired

\* No id is on two clips.
LEMMA UniqueOn ==
    ASSUME NEW s, UniqueIds(s), NEW p \in Refs(s), NEW q \in Refs(s),
           NEW c \in On(s, p), NEW d \in On(s, q), c.id = d.id
    PROVE  p = q /\ c = d
<1>1. PICK i \in DOMAIN ClipsAt(s, p) : c = ClipsAt(s, p)[i]
  BY DEF On, ToSet
<1>2. PICK j \in DOMAIN ClipsAt(s, q) : d = ClipsAt(s, q)[j]
  BY DEF On, ToSet
<1> QED BY <1>1, <1>2 DEF UniqueIds

LEMMA ClipsOn ==
    ASSUME Track = AnyTrack, NEW s \in Documents, NEW p \in Refs(s), NEW c \in On(s, p)
    PROVE  c \in AnyClip
<1>1. PICK i \in DOMAIN ClipsAt(s, p) : c = ClipsAt(s, p)[i]
  BY DEF On, ToSet
<1> QED BY <1>1, TrackFacts, ListClips

LEMMA EvenOn ==
    ASSUME Track = AnyTrack, NEW s \in Documents, NEW u \in Documents, Refs(u) = Refs(s), Even(s),
           \A p \in Refs(s) : \A c \in On(u, p) : c.link # 0
    PROVE  Even(u)
<1>1. \A p \in Refs(u) : \A i \in DOMAIN ClipsAt(u, p) : ClipsAt(u, p)[i] \in On(u, p)
  BY DEF On, ToSet
<1>2. \A p \in Refs(u) : \A i \in DOMAIN ClipsAt(u, p) : ClipsAt(u, p)[i].link # 0
  BY <1>1
<1> QED BY <1>2, EvenIntro

\* No mate of a clip that is left is among those with these ids.
Whole(s, gone) ==
    \A p, q \in Refs(s) : \A c \in On(s, p), d \in On(s, q) :
       Mates(c, d) /\ d.id \in gone => c.id \in gone

\* Clips move as their mates do, but for those that are gone with theirs, and
\* new ones come in pairs or alone.
LEMMA PairsMapped ==
    ASSUME NEW s, NEW u, Paired(s), Refs(u) = Refs(s), NEW gone, Whole(s, gone),
           NEW F \in [AnyClip -> AnyClip],
           \A p \in Refs(s) : \A c \in On(u, p) :
              \/ c.link = 0
              \/ \E q \in Refs(s) : \E d \in On(u, q) : q[1] # p[1] /\ Mates(c, d)
              \/ \E e \in On(s, p) : e.id \notin gone /\ c = F[e],
           \A p \in Refs(s) : \A e \in On(s, p) : e.id \notin gone => F[e] \in On(u, p),
           \A p \in Refs(s) : \A c \in On(s, p) :
              /\ F[c].link = c.link
              /\ \A q \in Refs(s) : \A d \in On(s, q) : Mates(c, d) => Mates(F[c], F[d])
    PROVE  Paired(u)
<1>1. ASSUME NEW p \in Refs(s), NEW c \in On(u, p), c.link # 0
      PROVE  \E q \in Refs(s) : \E d \in On(u, q) : q[1] # p[1] /\ Mates(c, d)
  <2> SUFFICES ASSUME NEW e \in On(s, p), e.id \notin gone, c = F[e]
               PROVE  \E q \in Refs(s) : \E d \in On(u, q) : q[1] # p[1] /\ Mates(c, d)
    BY <1>1
  <2>1. PICK q \in Refs(s) : \E d \in On(s, q) : q[1] # p[1] /\ Mates(e, d)
    BY <1>1, PairedOn
  <2>2. PICK d \in On(s, q) : q[1] # p[1] /\ Mates(e, d)
    BY <2>1
  <2>3. d.id \notin gone
    BY <2>2 DEF Whole
  <2>4. F[d] \in On(u, q) /\ Mates(c, F[d])
    BY <2>2, <2>3
  <2> QED BY <2>2, <2>4
<1> QED BY <1>1, PairedOn

\* The same where what is left stays as it is.
LEMMA PairsLeft ==
    ASSUME Track = AnyTrack, NEW s \in Documents, NEW u, Paired(s), Refs(u) = Refs(s),
           NEW gone, Whole(s, gone),
           \A p \in Refs(s) : \A c \in On(u, p) :
              \/ c.link = 0
              \/ \E q \in Refs(s) : \E d \in On(u, q) : q[1] # p[1] /\ Mates(c, d)
              \/ c \in On(s, p) /\ c.id \notin gone,
           \A p \in Refs(s) : \A e \in On(s, p) : e.id \notin gone => e \in On(u, p)
    PROVE  Paired(u)
<1> DEFINE F == [c \in AnyClip |-> c]
<1>1. \A p \in Refs(s) : \A c \in On(s, p) : F[c] = c
  BY ClipsOn
<1>2. F \in [AnyClip -> AnyClip]
  OBVIOUS
<1> HIDE DEF F
<1>3. \A p \in Refs(s) : \A c \in On(u, p) :
         \/ c.link = 0
         \/ \E q \in Refs(s) : \E d \in On(u, q) : q[1] # p[1] /\ Mates(c, d)
         \/ \E e \in On(s, p) : e.id \notin gone /\ c = F[e]
  BY <1>1
<1>4. \A p \in Refs(s) : \A e \in On(s, p) : e.id \notin gone => F[e] \in On(u, p)
  BY <1>1
<1>5. \A p \in Refs(s) : \A c \in On(s, p) :
         /\ F[c].link = c.link
         /\ \A q \in Refs(s) : \A d \in On(s, q) : Mates(c, d) => Mates(F[c], F[d])
  BY <1>1
<1> QED BY <1>2, <1>3, <1>4, <1>5, PairsMapped

\* A clip and its mate, by their ids.
Both(c) == IF c.link = 0 THEN {c.id} ELSE {c.id, c.link}

\* A clip of the sequence, and its mate if it has one.
LEMMA MateOn ==
    ASSUME Track = AnyTrack, NEW s \in Documents, UniqueIds(s), Paired(s), NEW r \in Refs(s),
           NEW c \in On(s, r), NEW q, q = MateRef(s, c)
    PROVE  /\ c.link = 0 => q = NoRef
           /\ c.link # 0 => /\ q \in Refs(s) /\ q # NoRef /\ q[1] # r[1] /\ q # r
                            /\ ClipWithId(s, q, c.link) \in On(s, q)
                            /\ ClipWithId(s, q, c.link) \in AnyClip
                            /\ IndexOfId(ClipsAt(s, q), c.link) # 0
                            /\ Mates(c, ClipWithId(s, q, c.link))
           /\ Whole(s, Both(c))
<1>1. c.link = 0 => q = NoRef
  BY DEF MateRef
<1>2. ASSUME c.link # 0
      PROVE  /\ q \in Refs(s) /\ q # NoRef /\ q[1] # r[1] /\ q # r
             /\ ClipWithId(s, q, c.link) \in On(s, q)
             /\ IndexOfId(ClipsAt(s, q), c.link) # 0
             /\ Mates(c, ClipWithId(s, q, c.link))
  <2>1. PICK i \in DOMAIN ClipsAt(s, r) : c = ClipsAt(s, r)[i]
    BY DEF On, ToSet
  <2>2. q = FindClipRef(s, c.link)
    BY <1>2 DEF MateRef
  <2>3. /\ q \in Refs(s) /\ q # NoRef /\ q[1] # r[1] /\ q # r
        /\ IndexOfId(ClipsAt(s, q), c.link) \in DOMAIN ClipsAt(s, q)
        /\ IndexOfId(ClipsAt(s, q), c.link) # 0
        /\ Mates(c, ClipsAt(s, q)[IndexOfId(ClipsAt(s, q), c.link)])
    BY <1>2, <2>1, <2>2, MateFound
  <2> QED BY <2>3 DEF ClipWithId, On, ToSet
<1>3. ASSUME NEW p \in Refs(s), NEW p1 \in Refs(s), NEW e \in On(s, p), NEW f \in On(s, p1),
             Mates(e, f), f.id \in Both(c)
      PROVE  e.id \in Both(c)
  <2>1. CASE f.id = c.id
    <3>1. f = c
      BY <2>1, UniqueOn
    <3> QED BY <1>3, <3>1 DEF Both, Mates
  <2>2. CASE c.link # 0 /\ f.id = c.link
    <3> DEFINE d == ClipWithId(s, q, c.link)
    <3>1. d \in On(s, q) /\ q \in Refs(s) /\ Mates(c, d)
      BY <1>2, <2>2
    <3> HIDE DEF d
    <3>2. d.id = f.id
      BY <2>2, <3>1 DEF Mates
    <3>3. f = d
      BY <3>1, <3>2, UniqueOn
    <3> QED BY <1>3, <2>2, <3>1, <3>3 DEF Both, Mates
  <2> QED BY <1>3, <2>1, <2>2 DEF Both
<1>4. c.link # 0 => ClipWithId(s, q, c.link) \in AnyClip
  BY <1>2, ClipsOn
<1> QED BY <1>1, <1>2, <1>3, <1>4 DEF Whole

\* The clip a gesture is on.
LEMMA GestureOn ==
    ASSUME Ready, NEW id \in ClipIds
    PROVE  /\ RefOf(id) \in Refs(seq)
           /\ ClipWithId(seq, RefOf(id), id) \in On(seq, RefOf(id))
           /\ ClipWithId(seq, RefOf(id), id) \in AnyClip
           /\ ClipWithId(seq, RefOf(id), id).id = id
<1> DEFINE r == RefOf(id)
           i == IndexOfId(ClipsAt(seq, r), id)
<1>1. r \in Refs(seq) /\ i \in 1 .. Len(ClipsAt(seq, r))
      /\ ClipWithId(seq, r, id) \in AnyClip /\ ClipWithId(seq, r, id).id = id
  BY GestureFacts
<1>2. ClipsAt(seq, r) \in Seq(AnyClip)
  BY <1>1, TrackFacts DEF Ready
<1>3. i \in DOMAIN ClipsAt(seq, r)
  BY <1>1, <1>2, ListClips
<1> QED BY <1>1, <1>3 DEF On, ToSet, ClipWithId

\* What removing a clip leaves.
LEMMA RemoveIdOn ==
    ASSUME Track = AnyTrack, NEW s \in Documents, NEW r \in Refs(s) \cup {NoRef}, NEW id
    PROVE  LET u == RemoveId(s, r, id)
           IN  /\ u \in Documents /\ Refs(u) = Refs(s)
               /\ r # NoRef => On(u, r) = {e \in On(s, r) : e.id # id}
               /\ \A p \in Refs(s) \ {r} : On(u, p) = On(s, p)
<1>1. CASE r = NoRef
  BY <1>1 DEF RemoveId
<1>2. CASE r # NoRef
  <2> DEFINE old == ClipsAt(s, r)
             new == WithoutId(old, id)
             K == {i \in DOMAIN old : old[i].id # id}
             u == SetClips(s, r, new)
  <2>1. old \in Seq(AnyClip)
    BY <1>2, TrackFacts
  <2>2. new \in Seq(AnyClip) /\ Selects(new, old, K) /\ K \in SUBSET DOMAIN old
    BY <2>1, WithoutIdType, WithoutIdSelects
  <2>3. RemoveId(s, r, id) = u
    BY <1>2 DEF RemoveId
  <2>4. ToSet(new) = {old[i] : i \in K}
    <3> HIDE DEF new, K, old
    <3> QED BY <2>1, <2>2, SelectsFacts
  <2>5. ToSet(new) = {e \in ToSet(old) : e.id # id}
    <3> HIDE DEF new, old
    <3> QED BY <2>4 DEF ToSet
  <2> HIDE DEF new, K
  <2>6. u \in Documents /\ Refs(u) = Refs(s)
    BY <1>2, <2>2, SetClipsKeeps
  <2>7. ClipsAt(u, r) = new /\ \A p \in Refs(s) \ {r} : ClipsAt(u, p) = ClipsAt(s, p)
    BY <1>2, <2>2, SetClipsFacts
  <2> QED BY <2>3, <2>5, <2>6, <2>7 DEF On
<1> QED BY <1>1, <1>2

-----------------------------------------------------------------------------
(* Taking pairs *)

\* A pair is taken as a whole.
LEMMA LiftClipPairs ==
    ASSUME Ready, NEW id \in ClipIds, LiftClip(id)
    PROVE  PairedKept /\ EvenKept
<1> SUFFICES ASSUME UniqueIds(seq), Paired(seq)
             PROVE  Paired(seq') /\ (Even(seq) => Even(seq'))
  BY DEF PairedKept, EvenKept
<1> DEFINE r == RefOf(id)
           c == ClipWithId(seq, r, id)
           q == MateRef(seq, c)
           s == RemoveId(seq, r, id)
           t == RemoveId(s, q, c.link)
<1>1. Commit(seq, t, {r, q}, 0)
  BY DEF LiftClip
<1>2. Track = AnyTrack /\ seq \in Documents /\ 0 \in Nat
  BY DEF Ready
<1>3. seq' = t
  BY <1>1, <1>2, CommitGives
<1>4. r \in Refs(seq) /\ c \in On(seq, r) /\ c \in AnyClip /\ c.id = id /\ r # NoRef
  BY <1>2, GestureOn, RefFacts
<1> HIDE DEF r, c
<1>5. /\ c.link = 0 => q = NoRef
      /\ c.link # 0 => q \in Refs(seq) /\ q # NoRef /\ q # r
      /\ Whole(seq, Both(c))
  BY <1>2, <1>4, MateOn
<1> HIDE DEF q
<1>6. /\ s \in Documents /\ Refs(s) = Refs(seq)
      /\ On(s, r) = {e \in On(seq, r) : e.id # id}
      /\ \A p \in Refs(seq) \ {r} : On(s, p) = On(seq, p)
  BY <1>2, <1>4, RemoveIdOn
<1> HIDE DEF s
<1>7. /\ t \in Documents /\ Refs(t) = Refs(s)
      /\ q # NoRef => On(t, q) = {e \in On(s, q) : e.id # c.link}
      /\ \A p \in Refs(s) \ {q} : On(t, p) = On(s, p)
  <2>1. q \in Refs(s) \cup {NoRef}
    BY <1>5, <1>6
  <2> QED BY <1>2, <1>6, <2>1, RemoveIdOn
<1> HIDE DEF t
<1>8. ASSUME NEW p \in Refs(seq)
      PROVE  On(t, p) = {e \in On(seq, p) : (p = r => e.id # id) /\ (p = q => e.id # c.link)}
  <2>1. p # NoRef /\ r # q
    BY <1>2, <1>4, <1>5, RefFacts
  <2>2. CASE p = r
    <3>1. On(t, p) = On(s, p)
      BY <1>6, <1>7, <2>1, <2>2
    <3> QED BY <1>6, <2>1, <2>2, <3>1
  <2>3. CASE p = q
    <3>1. On(s, p) = On(seq, p)
      BY <1>6, <2>1, <2>3
    <3> QED BY <1>7, <2>1, <2>3, <3>1
  <2>4. CASE p # r /\ p # q
    BY <1>6, <1>7, <2>4
  <2> QED BY <2>2, <2>3, <2>4
<1>9. ASSUME NEW p \in Refs(seq), NEW e \in On(seq, p), e.id \notin Both(c)
      PROVE  e \in On(t, p)
  <2>1. p # NoRef
    BY <1>2, RefFacts
  <2>2. e.id # id /\ (p = q => e.id # c.link)
    BY <1>4, <1>5, <1>9, <2>1 DEF Both
  <2> QED BY <1>8, <2>2
<1>10. ASSUME NEW p \in Refs(seq), NEW e \in On(t, p)
       PROVE  e \in On(seq, p) /\ e.id \notin Both(c)
  <2>1. e \in On(seq, p)
    BY <1>8
  <2>2. e.id # id
    <3> SUFFICES ASSUME e.id = id PROVE FALSE
      OBVIOUS
    <3>1. p = r
      BY <1>4, <2>1, UniqueOn
    <3> QED BY <1>8, <3>1
  <2>3. c.link # 0 => e.id # c.link
    <3> SUFFICES ASSUME c.link # 0, e.id = c.link PROVE FALSE
      OBVIOUS
    <3> DEFINE d == ClipWithId(seq, q, c.link)
    <3>1. d \in On(seq, q) /\ q \in Refs(seq) /\ d.id = c.link
      BY <1>2, <1>4, MateOn DEF q, Mates
    <3> HIDE DEF d
    <3>2. p = q
      BY <2>1, <3>1, UniqueOn
    <3> QED BY <1>8, <3>2
  <2> QED BY <1>4, <2>1, <2>2, <2>3 DEF Both
<1>11. Paired(t)
  BY <1>2, <1>5, <1>6, <1>7, <1>9, <1>10, PairsLeft
<1>12. ASSUME Even(seq) PROVE Even(t)
  <2>1. \A p \in Refs(seq) : \A e \in On(seq, p) : e.link # 0
    BY <1>12 DEF Even, On, ToSet
  <2> QED BY <1>2, <1>6, <1>7, <1>10, <1>12, <2>1, EvenOn
<1> QED BY <1>3, <1>11, <1>12

\* What moving the clips from a frame on leaves.
LEMMA CloseOn ==
    ASSUME Track = AnyTrack, NEW s \in Documents, NEW r \in Refs(s),
           NEW from \in Int, NEW delta \in Int
    PROVE  LET u == SetClips(s, r, ShiftFrom(ClipsAt(s, r), from, delta))
           IN  /\ u \in Documents /\ Refs(u) = Refs(s)
               /\ On(u, r) = {IF e.in >= from THEN Shifted(e, delta) ELSE e : e \in On(s, r)}
               /\ \A p \in Refs(s) \ {r} : On(u, p) = On(s, p)
<1> DEFINE old == ClipsAt(s, r)
           new == ShiftFrom(old, from, delta)
           u == SetClips(s, r, new)
<1>1. old \in Seq(AnyClip)
  BY TrackFacts
<1>2. new \in Seq(AnyClip)
  BY <1>1, ListTypes
<1>3. ToSet(new) = {IF e.in >= from THEN Shifted(e, delta) ELSE e : e \in ToSet(old)}
  <2> HIDE DEF old
  <2> QED BY DEF ShiftFrom, ToSet
<1> HIDE DEF new
<1>4. u \in Documents /\ Refs(u) = Refs(s)
  BY <1>2, SetClipsKeeps
<1>5. ClipsAt(u, r) = new /\ \A p \in Refs(s) \ {r} : ClipsAt(u, p) = ClipsAt(s, p)
  BY <1>2, SetClipsFacts
<1>6. On(u, r) = ToSet(new) /\ On(s, r) = ToSet(old)
      /\ \A p \in Refs(s) \ {r} : On(u, p) = On(s, p)
  BY <1>5 DEF On
<1> QED BY <1>3, <1>4, <1>6 DEF new

\* What removing the mate leaves, if ids are unique.
LEMMA RemoveMateOn ==
    ASSUME Track = AnyTrack, NEW s \in Documents, NEW r \in Refs(s), NEW id,
           Distinct(ClipsAt(s, r)), IndexOfId(ClipsAt(s, r), id) # 0
    PROVE  LET u == RemoveMate(s, r, id)
           IN  /\ u \in Documents /\ Refs(u) = Refs(s)
               /\ On(u, r) = {e \in On(s, r) : e.id # id}
               /\ \A p \in Refs(s) \ {r} : On(u, p) = On(s, p)
<1> DEFINE old == ClipsAt(s, r)
           i == IndexOfId(old, id)
           new == WithoutPointee(old, i)
           u == SetClips(s, r, new)
<1>1. old \in Seq(AnyClip)
  BY TrackFacts
<1>2. i \in DOMAIN old /\ i \in 0 .. Len(old) /\ old[i].id = id
  <2>1. i \in 1 .. Len(old) /\ old[i].id = id
    BY <1>1, IndexOfIdFinds
  <2> QED BY <1>1, <2>1, ListClips
<1>3. new \in Seq(AnyClip)
  <2> HIDE DEF i, old
  <2> QED BY <1>1, <1>2, WithoutPointeeType
<1>4. Selects(new, old, DOMAIN old \ {i})
  <2> HIDE DEF i
  <2>1. PICK K \in SUBSET DOMAIN old :
           Selects(new, old, K) /\ (Distinct(old) /\ i # 0 => K = DOMAIN old \ {i})
    <3> HIDE DEF old
    <3> QED BY <1>1, <1>2, WithoutPointeeSelects
  <2>2. i # 0
    BY DEF i
  <2> QED BY <2>1, <2>2
<1>5. RemoveMate(s, r, id) = u
  BY DEF RemoveMate
<1> HIDE DEF new, i
<1>6. ToSet(new) = {old[j] : j \in DOMAIN old \ {i}}
  <2> HIDE DEF old
  <2> QED BY <1>1, <1>3, <1>4, SelectsFacts
<1>7. ToSet(new) = {e \in ToSet(old) : e.id # id}
  <2>1. \A j \in DOMAIN old : old[j].id = id <=> j = i
    BY <1>2 DEF Distinct
  <2> HIDE DEF old
  <2> QED BY <1>6, <2>1 DEF ToSet
<1>8. u \in Documents /\ Refs(u) = Refs(s)
  BY <1>3, SetClipsKeeps
<1>9. ClipsAt(u, r) = new /\ \A p \in Refs(s) \ {r} : ClipsAt(u, p) = ClipsAt(s, p)
  BY <1>3, SetClipsFacts
<1> QED BY <1>5, <1>7, <1>8, <1>9 DEF On

-----------------------------------------------------------------------------
(* Closing up on pairs *)

\* Where there is one track of each kind, a track and one of the other kind are all.
LEMMA EvenRefs ==
    ASSUME Track = AnyTrack, NEW s \in Documents, Even(s), NEW r \in Refs(s), NEW q \in Refs(s),
           q[1] # r[1], NEW p \in Refs(s)
    PROVE  p = r \/ p = q
<1>1. \A x \in Refs(s) : x[1] \in {"video", "audio"} /\ x[2] = 1 /\ x = <<x[1], x[2]>>
  <2> SUFFICES ASSUME NEW x \in Refs(s)
               PROVE  x[1] \in {"video", "audio"} /\ x[2] = 1 /\ x = <<x[1], x[2]>>
    OBVIOUS
  <2>1. x[1] \in {"video", "audio"} /\ x[2] \in 1 .. Len(s[x[1]]) /\ x = <<x[1], x[2]>>
    BY RefFacts DEF Kinds
  <2>2. Len(s[x[1]]) = 1
    BY <2>1 DEF Even
  <2> QED BY <2>1, <2>2
<1>2. p[1] = r[1] \/ p[1] = q[1]
  BY <1>1
<1> QED BY <1>1, <1>2

LEMMA ShiftedType ==
    ASSUME NEW c \in AnyClip, NEW d \in Int
    PROVE  Shifted(c, d) \in AnyClip
BY AnyClipClosed, PieceType

\* Both tracks close up alike.
LEMMA RippleDeleteClipPairs ==
    ASSUME Ready, NEW id \in ClipIds, RippleDeleteClip(id),
           UniqueIds(seq), Paired(seq), Even(seq)
    PROVE  Paired(seq') /\ Even(seq')
<1> DEFINE r == RefOf(id)
           c == ClipWithId(seq, r, id)
           q == MateRef(seq, c)
           close(s, p) == SetClips(s, p, ShiftFrom(ClipsAt(s, p), c.in, c.in - c.out))
           s1 == RemoveId(seq, r, id)
           s2 == close(s1, r)
           s3 == RemoveMate(s2, q, c.link)
           t == close(s3, q)
           M(e) == IF e.in >= c.in THEN Shifted(e, c.in - c.out) ELSE e
           F == [e \in AnyClip |-> M(e)]
<1>1. Commit(seq, IF q = NoRef THEN s2 ELSE t, {r, q}, 0)
  BY DEF RippleDeleteClip
<1>2. Track = AnyTrack /\ seq \in Documents /\ 0 \in Nat
  BY DEF Ready
<1>3. r \in Refs(seq) /\ c \in On(seq, r) /\ c \in AnyClip /\ c.id = id /\ r # NoRef
  BY <1>2, GestureOn, RefFacts
<1>4. c.link # 0 /\ c.in \in Int /\ c.out \in Int /\ c.in - c.out \in Int
  <2>1. c.link # 0
    <3> HIDE DEF c, r
    <3> QED BY <1>3 DEF Even, On, ToSet
  <2> QED BY <1>3, <2>1, ClipNumbers
<1> HIDE DEF r, c
<1>5. /\ q \in Refs(seq) /\ q # NoRef /\ q # r /\ q[1] # r[1]
      /\ IndexOfId(ClipsAt(seq, q), c.link) # 0
      /\ Whole(seq, Both(c))
      /\ ClipWithId(seq, q, c.link) \in On(seq, q)
      /\ Mates(c, ClipWithId(seq, q, c.link))
  BY <1>2, <1>3, <1>4, MateOn
<1>6. seq' = t
  BY <1>1, <1>2, <1>5, CommitGives
<1> HIDE DEF q
<1>7. /\ s1 \in Documents /\ Refs(s1) = Refs(seq)
      /\ On(s1, r) = {e \in On(seq, r) : e.id # id}
      /\ \A p \in Refs(seq) \ {r} : ClipsAt(s1, p) = ClipsAt(seq, p)
      /\ KeepsUnique(seq, s1)
  <2>1. /\ s1 \in Documents /\ Refs(s1) = Refs(seq)
        /\ On(s1, r) = {e \in On(seq, r) : e.id # id}
    BY <1>2, <1>3, RemoveIdOn
  <2>2. KeepsUnique(seq, s1)
    BY <1>2, <1>3, RemoveIdKeeps
  <2>3. \A p \in Refs(seq) \ {r} : ClipsAt(s1, p) = ClipsAt(seq, p)
    <3> DEFINE kk == WithoutId(ClipsAt(seq, r), id)
    <3>1. s1 = SetClips(seq, r, kk) /\ kk \in Seq(AnyClip)
      BY <1>2, <1>3, TrackFacts, WithoutIdType DEF RemoveId
    <3> HIDE DEF kk, s1
    <3> QED BY <1>2, <1>3, <3>1, SetClipsFacts
  <2> QED BY <2>1, <2>2, <2>3
<1> HIDE DEF s1
<1>8. /\ s2 \in Documents /\ Refs(s2) = Refs(seq)
      /\ On(s2, r) = {M(e) : e \in On(s1, r)}
      /\ \A p \in Refs(seq) \ {r} : ClipsAt(s2, p) = ClipsAt(seq, p)
      /\ KeepsUnique(s1, s2)
  <2>1. /\ s2 \in Documents /\ Refs(s2) = Refs(s1)
        /\ On(s2, r) = {M(e) : e \in On(s1, r)}
    BY <1>2, <1>3, <1>4, <1>7, CloseOn
  <2>2. KeepsUnique(s1, s2)
    BY <1>2, <1>3, <1>4, <1>7, CloseKeeps
  <2>3. \A p \in Refs(s1) \ {r} : ClipsAt(s2, p) = ClipsAt(s1, p)
    <3> DEFINE kk == ShiftFrom(ClipsAt(s1, r), c.in, c.in - c.out)
    <3>1. s2 = SetClips(s1, r, kk)
      OBVIOUS
    <3>2. kk \in Seq(AnyClip)
      BY <1>2, <1>3, <1>4, <1>7, TrackFacts, ListTypes
    <3> HIDE DEF kk, s2
    <3> QED BY <1>2, <1>3, <1>7, <3>1, <3>2, SetClipsFacts
  <2> HIDE DEF s2, M
  <2> QED BY <1>7, <2>1, <2>2, <2>3
<1> HIDE DEF s2
<1>9. /\ s3 \in Documents /\ Refs(s3) = Refs(seq)
      /\ On(s3, q) = {e \in On(seq, q) : e.id # c.link}
      /\ On(s3, r) = On(s2, r)
  <2>1. UniqueIds(s2) /\ q \in Refs(s2)
    BY <1>5, <1>7, <1>8 DEF KeepsUnique
  <2>2. Distinct(ClipsAt(s2, q))
    BY <1>2, <1>8, <2>1, UniqueTrack
  <2>3. ClipsAt(s2, q) = ClipsAt(seq, q)
    BY <1>5, <1>8
  <2>4. IndexOfId(ClipsAt(s2, q), c.link) # 0 /\ On(s2, q) = On(seq, q)
    BY <1>5, <2>3 DEF On
  <2>5. r \in Refs(s2) \ {q}
    BY <1>3, <1>5, <1>8
  <2> QED BY <1>2, <1>8, <2>1, <2>2, <2>4, <2>5, RemoveMateOn
<1> HIDE DEF s3
<1>10. /\ t \in Documents /\ Refs(t) = Refs(seq)
       /\ On(t, q) = {M(e) : e \in On(s3, q)}
       /\ On(t, r) = On(s3, r)
  <2>1. q \in Refs(s3) /\ r \in Refs(s3) \ {q}
    BY <1>3, <1>5, <1>9
  <2> QED BY <1>2, <1>4, <1>9, <2>1, CloseOn
<1> HIDE DEF t
<1>11. ASSUME NEW p \in Refs(seq)
       PROVE  On(t, p) = {M(e) : e \in {d \in On(seq, p) : d.id \notin Both(c)}}
  <2>1. Both(c) = {id, c.link}
    BY <1>3, <1>4 DEF Both
  <2>2. ASSUME NEW e \in On(seq, r) PROVE e.id # c.link
    <3> SUFFICES ASSUME e.id = c.link PROVE FALSE
      OBVIOUS
    <3> DEFINE d == ClipWithId(seq, q, c.link)
    <3>1. d \in On(seq, q) /\ d.id = e.id
      BY <1>5, <2>2 DEF Mates
    <3> HIDE DEF d
    <3> QED BY <1>3, <1>5, <3>1, UniqueOn
  <2>3. ASSUME NEW e \in On(seq, q) PROVE e.id # id
    <3> SUFFICES ASSUME e.id = id PROVE FALSE
      OBVIOUS
    <3> QED BY <1>3, <1>5, UniqueOn
  <2>4. p = r \/ p = q
    BY <1>2, <1>3, <1>5, EvenRefs
  <2>5. On(t, r) = {M(e) : e \in {d \in On(seq, r) : d.id \notin Both(c)}}
    <3>1. On(s1, r) = {d \in On(seq, r) : d.id \notin Both(c)}
      BY <1>7, <2>1, <2>2
    <3> HIDE DEF M
    <3> QED BY <1>8, <1>9, <1>10, <3>1
  <2>6. On(t, q) = {M(e) : e \in {d \in On(seq, q) : d.id \notin Both(c)}}
    <3>1. On(s3, q) = {d \in On(seq, q) : d.id \notin Both(c)}
      BY <1>9, <2>1, <2>3
    <3> HIDE DEF M
    <3> QED BY <1>10, <3>1
  <2> HIDE DEF M
  <2> QED BY <2>4, <2>5, <2>6
<1>12. /\ F \in [AnyClip -> AnyClip]
       /\ \A e \in AnyClip : F[e] = M(e)
  <2>1. ASSUME NEW e \in AnyClip PROVE M(e) \in AnyClip
    <3>1. Shifted(e, c.in - c.out) \in AnyClip
      BY <1>4, ShiftedType
    <3> QED BY <3>1
  <2> HIDE DEF M
  <2> QED BY <2>1
<1>13. ASSUME NEW p \in Refs(seq), NEW e \in On(seq, p)
       PROVE  /\ e \in AnyClip /\ F[e] = M(e) /\ F[e].link = e.link
              /\ \A x \in Refs(seq) : \A d \in On(seq, x) : Mates(e, d) => Mates(F[e], F[d])
  <2>1. e \in AnyClip
    BY <1>2, ClipsOn
  <2>2. M(e).link = e.link
    BY <1>4, <2>1 DEF AnyClip, Shifted
  <2>3. ASSUME NEW x \in Refs(seq), NEW d \in On(seq, x), Mates(e, d)
        PROVE  Mates(F[e], F[d])
    <3>1. d \in AnyClip
      BY <1>2, ClipsOn
    <3>2. Mates(M(e), M(d))
      BY <1>4, <2>1, <2>3, <3>1 DEF AnyClip, Shifted, Mates
    <3> QED BY <1>12, <2>1, <3>1, <3>2
  <2> HIDE DEF M, F
  <2> QED BY <1>12, <2>1, <2>2, <2>3
<1> HIDE DEF F
<1>14. ASSUME NEW p \in Refs(seq), NEW e \in On(t, p)
       PROVE  \E d \in On(seq, p) : d.id \notin Both(c) /\ e = F[d]
  <2> HIDE DEF M
  <2> QED BY <1>11, <1>13, <1>14
<1>15. ASSUME NEW p \in Refs(seq), NEW e \in On(seq, p), e.id \notin Both(c)
       PROVE  F[e] \in On(t, p)
  <2> HIDE DEF M
  <2> QED BY <1>11, <1>13, <1>15
<1>16. Paired(t)
  <2> HIDE DEF M
  <2> QED BY <1>5, <1>10, <1>12, <1>13, <1>14, <1>15, PairsMapped
<1>17. Even(t)
  <2>1. \A p \in Refs(seq) : \A e \in On(seq, p) : e.link # 0
    BY DEF Even, On, ToSet
  <2>2. \A p \in Refs(seq) : \A e \in On(t, p) : e.link # 0
    <3> HIDE DEF M
    <3> QED BY <1>13, <1>14, <2>1
  <2> HIDE DEF M
  <2> QED BY <1>2, <1>10, <2>2, EvenOn
<1> QED BY <1>6, <1>16, <1>17

-----------------------------------------------------------------------------
(* Placing pairs *)

\* Appending a clip leaves those before it as they are.
LEMMA AppendOn ==
    ASSUME Track = AnyTrack, NEW s \in Documents, NEW r \in Refs(s), NEW c \in AnyClip,
           c.in = EndFrame(ClipsAt(s, r)), c.in <= c.out
    PROVE  LET u == SetClips(s, r, Placed(ClipsAt(s, r), c, "append"))
           IN  /\ u \in Documents /\ Refs(u) = Refs(s)
               /\ On(u, r) = On(s, r) \cup {c}
               /\ \A p \in Refs(s) \ {r} : ClipsAt(u, p) = ClipsAt(s, p)
<1> DEFINE old == ClipsAt(s, r)
           new == Placed(old, c, "append")
           u == SetClips(s, r, new)
<1>1. old \in Seq(AnyClip)
  BY TrackFacts
<1>2. new \in Seq(AnyClip) /\ new = InsertSorted(old, c)
  <2> HIDE DEF old
  <2> QED BY <1>1, PlacedFacts DEF old
<1>3. ToSet(new) = ToSet(old) \cup {c}
  <2> HIDE DEF old
  <2> QED BY <1>1, <1>2, InsertSortedFacts
<1> HIDE DEF new
<1>4. u \in Documents /\ Refs(u) = Refs(s)
  BY <1>2, SetClipsKeeps
<1>5. ClipsAt(u, r) = new /\ \A p \in Refs(s) \ {r} : ClipsAt(u, p) = ClipsAt(s, p)
  BY <1>2, SetClipsFacts
<1> QED BY <1>3, <1>4, <1>5 DEF On, new

LEMMA AppendedClip ==
    ASSUME NEW clips \in Seq(AnyClip), NEW id \in Nat, NEW m \in DOMAIN Media, NEW in \in Nat,
           NEW length \in Nat, NEW link \in Nat
    PROVE  LET c == NewClip(id, m, StartOf(clips, in, "append"), length, link)
           IN  c \in AnyClip /\ c.in = EndFrame(clips) /\ c.in <= c.out
BY PlacedClip

\* A clip alone is appended.
LEMMA PlaceOnPairs ==
    ASSUME Ready, NEW r \in Refs(seq), NEW m \in DOMAIN Media, NEW in \in Nat,
           NEW length \in Lengths, PlaceOn(seq, r, m, in, length, "append")
    PROVE  PairedKept
<1> SUFFICES ASSUME Paired(seq) PROVE Paired(seq')
  BY DEF PairedKept
<1> DEFINE c == NewClip(nextId, m, StartOf(ClipsAt(seq, r), in, "append"), length, 0)
           u == SetClips(seq, r, Placed(ClipsAt(seq, r), c, "append"))
<1>1. Commit(seq, u, {r}, 1)
  BY DEF PlaceOn
<1>2. Track = AnyTrack /\ seq \in Documents /\ nextId \in Nat /\ 1 \in Nat /\ 0 \in Nat
  BY DEF Ready
<1>3. seq' = u
  BY <1>1, <1>2, CommitGives
<1>4. ClipsAt(seq, r) \in Seq(AnyClip) /\ length \in Nat
  BY <1>2, TrackFacts, ReadyFacts
<1>5. c \in AnyClip /\ c.link = 0 /\ c.in = EndFrame(ClipsAt(seq, r)) /\ c.in <= c.out
  BY <1>2, <1>4, PlacedClip
<1> HIDE DEF c
<1>6. /\ u \in Documents /\ Refs(u) = Refs(seq)
      /\ On(u, r) = On(seq, r) \cup {c}
      /\ \A p \in Refs(seq) \ {r} : On(u, p) = On(seq, p)
  BY <1>2, <1>5, AppendOn DEF On
<1> HIDE DEF u
<1>7. \A p \in Refs(seq) : \A e \in On(u, p) : e.link = 0 \/ e \in On(seq, p)
  <2>1. \A p \in Refs(seq) : p = r \/ p \in Refs(seq) \ {r}
    OBVIOUS
  <2> QED BY <1>5, <1>6, <2>1
<1>8. \A p \in Refs(seq) : \A e \in On(seq, p) : e \in On(u, p)
  <2>1. \A p \in Refs(seq) : p = r \/ p \in Refs(seq) \ {r}
    OBVIOUS
  <2> QED BY <1>6, <2>1
<1>9. Whole(seq, {})
  BY DEF Whole
<1>10. Paired(u)
  BY <1>2, <1>6, <1>7, <1>8, <1>9, PairsLeft
<1> QED BY <1>3, <1>10

\* Where tracks hold pairs only, those of the two kinds end together.
LEMMA EndsTogether ==
    ASSUME Track = AnyTrack, NEW s \in Documents, Paired(s), Even(s),
           NEW r \in Refs(s), NEW q \in Refs(s), q[1] # r[1]
    PROVE  EndFrame(ClipsAt(s, r)) = EndFrame(ClipsAt(s, q))
<1>1. \A clips \in Seq(AnyClip) : {clips[i].out : i \in DOMAIN clips} = {e.out : e \in ToSet(clips)}
  BY DEF ToSet
<1>2. ASSUME NEW x \in Refs(s), NEW y \in Refs(s), x[1] # y[1], NEW e \in On(s, x)
      PROVE  \E d \in On(s, y) : d.out = e.out
  <2>1. e.link # 0
    BY DEF Even, On, ToSet
  <2>2. PICK z \in Refs(s) : \E d \in On(s, z) : z[1] # x[1] /\ Mates(e, d)
    BY <2>1, PairedOn
  <2>3. z = y
    BY <1>2, <2>2, EvenRefs
  <2> QED BY <2>2, <2>3 DEF Mates
<1>3. {e.out : e \in On(s, r)} = {e.out : e \in On(s, q)}
  BY <1>2
<1>4. ClipsAt(s, r) \in Seq(AnyClip) /\ ClipsAt(s, q) \in Seq(AnyClip)
  BY TrackFacts
<1>5. {ClipsAt(s, r)[i].out : i \in DOMAIN ClipsAt(s, r)}
      = {ClipsAt(s, q)[i].out : i \in DOMAIN ClipsAt(s, q)}
  BY <1>1, <1>3, <1>4 DEF On
<1> QED BY <1>5 DEF EndFrame

\* A pair is appended.
LEMMA PlaceLinkedPairs ==
    ASSUME Ready, nextId # 0, NEW vi \in DOMAIN seq["video"], NEW ai \in DOMAIN seq["audio"],
           NEW m \in DOMAIN Media, NEW in \in Nat, NEW length \in Lengths,
           PlaceLinked(vi, ai, m, in, length, "append"),
           Paired(seq), Even(seq)
    PROVE  Paired(seq') /\ Even(seq')
<1> DEFINE vr == <<"video", vi>>
           ar == <<"audio", ai>>
           v == NewClip(nextId, m, StartOf(ClipsAt(seq, vr), in, "append"), length, nextId + 1)
           a == NewClip(nextId + 1, m, StartOf(ClipsAt(seq, ar), in, "append"), length, nextId)
           t == SetClips(seq, vr, Placed(ClipsAt(seq, vr), v, "append"))
           u == SetClips(t, ar, Placed(ClipsAt(t, ar), a, "append"))
<1>1. Commit(seq, u, {vr, ar}, 2)
  BY DEF PlaceLinked
<1>2. Track = AnyTrack /\ seq \in Documents /\ nextId \in Nat /\ 2 \in Nat /\ nextId + 1 \in Nat
  BY DEF Ready
<1>3. seq' = u
  BY <1>1, <1>2, CommitGives
<1>4. vr \in Refs(seq) /\ ar \in Refs(seq) /\ vr[1] # ar[1] /\ vr # ar
  BY <1>2, RefIntro DEF Kinds
<1>5. ClipsAt(seq, vr) \in Seq(AnyClip) /\ ClipsAt(seq, ar) \in Seq(AnyClip) /\ length \in Nat
  BY <1>2, <1>4, TrackFacts, ReadyFacts
<1>6. EndFrame(ClipsAt(seq, vr)) = EndFrame(ClipsAt(seq, ar))
  BY <1>2, <1>4, EndsTogether
<1>7. /\ v \in AnyClip /\ v.in = EndFrame(ClipsAt(seq, vr)) /\ v.in <= v.out
      /\ a \in AnyClip /\ a.in = EndFrame(ClipsAt(seq, ar)) /\ a.in <= a.out
  <2> DEFINE x == ClipsAt(seq, vr)
             y == ClipsAt(seq, ar)
             n == nextId + 1
             v1 == NewClip(nextId, m, StartOf(x, in, "append"), length, n)
             a1 == NewClip(n, m, StartOf(y, in, "append"), length, nextId)
  <2>1. x \in Seq(AnyClip) /\ y \in Seq(AnyClip) /\ n \in Nat
    BY <1>2, <1>5
  <2>2. v = v1 /\ a = a1
    OBVIOUS
  <2> HIDE DEF v, a, x, y, n
  <2>3. v1 \in AnyClip /\ v1.in = EndFrame(x) /\ v1.in <= v1.out
    BY <1>2, <1>5, <2>1, AppendedClip
  <2>4. a1 \in AnyClip /\ a1.in = EndFrame(y) /\ a1.in <= a1.out
    BY <1>2, <1>5, <2>1, AppendedClip
  <2> QED BY <2>2, <2>3, <2>4 DEF x, y
<1>8. Mates(v, a) /\ Mates(a, v)
  <2>1. StartOf(ClipsAt(seq, vr), in, "append") = StartOf(ClipsAt(seq, ar), in, "append")
    BY <1>6 DEF StartOf
  <2> DEFINE z == StartOf(ClipsAt(seq, vr), in, "append")
  <2>2. v = NewClip(nextId, m, z, length, nextId + 1) /\ a = NewClip(nextId + 1, m, z, length, nextId)
    BY <2>1
  <2> HIDE DEF z, v, a
  <2>3. nextId # 0 /\ nextId + 1 # 0
    BY <1>2
  <2> QED BY <2>2, <2>3 DEF NewClip, Mates
<1> HIDE DEF v, a
<1>9. /\ t \in Documents /\ Refs(t) = Refs(seq)
      /\ On(t, vr) = On(seq, vr) \cup {v}
      /\ ClipsAt(t, ar) = ClipsAt(seq, ar)
  BY <1>2, <1>4, <1>7, AppendOn
<1> HIDE DEF t
<1>10. /\ u \in Documents /\ Refs(u) = Refs(seq)
       /\ On(u, ar) = On(seq, ar) \cup {a}
       /\ On(u, vr) = On(seq, vr) \cup {v}
  <2>1. a.in = EndFrame(ClipsAt(t, ar)) /\ ar \in Refs(t) /\ vr \in Refs(t) \ {ar}
    BY <1>4, <1>7, <1>9
  <2>2. /\ u \in Documents /\ Refs(u) = Refs(t)
        /\ On(u, ar) = On(t, ar) \cup {a}
        /\ ClipsAt(u, vr) = ClipsAt(t, vr)
    BY <1>2, <1>7, <1>9, <2>1, AppendOn
  <2> QED BY <1>9, <2>2 DEF On
<1> HIDE DEF u
<1>11. \A p \in Refs(seq) : p = vr \/ p = ar
  BY <1>2, <1>4, EvenRefs
<1> HIDE DEF vr, ar
<1>12. ASSUME NEW p \in Refs(seq), NEW e \in On(u, p)
       PROVE  \/ \E q \in Refs(seq) : \E d \in On(u, q) : q[1] # p[1] /\ Mates(e, d)
              \/ e \in On(seq, p)
  <2>1. CASE p = vr
    <3>1. e = v \/ e \in On(seq, p)
      BY <1>10, <1>12, <2>1
    <3>2. a \in On(u, ar)
      BY <1>10
    <3> QED BY <1>4, <1>8, <2>1, <3>1, <3>2
  <2>2. CASE p = ar
    <3>1. e = a \/ e \in On(seq, p)
      BY <1>10, <1>12, <2>2
    <3>2. v \in On(u, vr)
      BY <1>10
    <3> QED BY <1>4, <1>8, <2>2, <3>1, <3>2
  <2> QED BY <1>11, <2>1, <2>2
<1>13. \A p \in Refs(seq) : \A e \in On(seq, p) : e \in On(u, p)
  BY <1>10, <1>11
<1>14. Whole(seq, {})
  BY DEF Whole
<1>15. Paired(u)
  BY <1>2, <1>10, <1>12, <1>13, <1>14, PairsLeft
<1>16. Even(u)
  <2>1. \A p \in Refs(seq) : \A e \in On(seq, p) : e.link # 0
    BY DEF Even, On, ToSet
  <2>2. ASSUME NEW p \in Refs(seq), NEW e \in On(u, p) PROVE e.link # 0
    <3>1. e \in On(seq, p) \/ \E d : Mates(e, d)
      BY <1>12
    <3> QED BY <2>1, <3>1, MatesBoth
  <2> QED BY <1>2, <1>10, <2>2, EvenOn
<1> QED BY <1>3, <1>15, <1>16

-----------------------------------------------------------------------------
(* Cutting pairs *)

\* The clips of a track one of which is cut.
LEMMA CutOn ==
    ASSUME NEW clips \in Seq(AnyClip), Distinct(clips), NEW i \in DOMAIN clips,
           NEW x \in AnyClip, NEW y \in AnyClip
    PROVE  ToSet(InsertSorted([clips EXCEPT ![i] = x], y))
           = {e \in ToSet(clips) : e.id # clips[i].id} \cup {x, y}
<1> DEFINE left == [clips EXCEPT ![i] = x]
<1>1. /\ left \in Seq(AnyClip) /\ DOMAIN left = DOMAIN clips
      /\ \A n \in DOMAIN clips : left[n] = IF n = i THEN x ELSE clips[n]
  OBVIOUS
<1> HIDE DEF left
<1>2. \A n \in DOMAIN clips : clips[n].id = clips[i].id <=> n = i
  BY DEF Distinct
<1>3. ToSet(left) = {e \in ToSet(clips) : e.id # clips[i].id} \cup {x}
  BY <1>1, <1>2 DEF ToSet
<1>4. ToSet(InsertSorted(left, y)) = ToSet(left) \cup {y}
  BY <1>1, InsertSortedFacts
<1> QED BY <1>3, <1>4 DEF left

\* The parts of the two clips of a pair, cut at one frame, are two pairs.
LEMMA HalvesPaired ==
    ASSUME NEW c, NEW d, Mates(c, d), NEW pos, NEW n \in Nat \ {0}, NEW m \in Nat \ {0},
           NEW x, NEW y, Halves(x, y, c, pos, n, d.id, m),
           NEW x2, NEW y2, Halves(x2, y2, d, pos, m, c.id, n)
    PROVE  Mates(x, x2) /\ Mates(x2, x) /\ Mates(y, y2) /\ Mates(y2, y)
<1>1. SrcAt(c, pos) = SrcAt(d, pos)
  BY DEF SrcAt, Duration, Mates
<1> QED BY <1>1 DEF Mates, Halves

\* The blade cuts both parts of a pair, where none is on a locked track.
LEMMA BladeLinkedPairs ==
    ASSUME Ready, nextId # 0, NEW r \in Refs(seq), NEW pos \in Int, BladeLinkedAt(r, pos),
           UniqueIds(seq), Paired(seq), Even(seq), NoLocks(seq)
    PROVE  Paired(seq') /\ Even(seq')
<1>1. PICK i \in DOMAIN ClipsAt(seq, r), q \in Refs(seq) \cup {NoRef}, mid \in Nat :
              /\ q # NoRef => /\ IndexOfId(ClipsAt(seq, q), mid) # 0
                              /\ \E n \in DOMAIN ClipsAt(seq, q) : ClipsAt(seq, q)[n].id = mid
              /\ BladeFinds(r, i, q, mid, pos)
  BY BladeLinkedFinds
<1>2. /\ Track = AnyTrack /\ seq \in Documents /\ nextId \in Nat
      /\ ClipsAt(seq, r) \in Seq(AnyClip) /\ Distinct(ClipsAt(seq, r))
  BY TrackFacts, UniqueTrack DEF Ready
<1> DEFINE c == ClipsAt(seq, r)[i]
           j == IndexOfId(ClipsAt(seq, q), mid)
           d == ClipsAt(seq, q)[j]
<1>3. c \in On(seq, r) /\ c \in AnyClip /\ c.link # 0
  <2>1. c \in On(seq, r)
    BY DEF On, ToSet
  <2> QED BY <1>2, <2>1, ClipsOn DEF Even
<1>4. /\ q \in Refs(seq) /\ q # NoRef /\ q[1] # r[1] /\ q # r /\ mid = c.link
      /\ d \in On(seq, q) /\ Mates(c, d) /\ Whole(seq, Both(c))
  <2> DEFINE p == MateRef(seq, c)
  <2>1. /\ p \in Refs(seq) /\ p # NoRef /\ p[1] # r[1] /\ p # r
        /\ ClipWithId(seq, p, c.link) \in On(seq, p)
        /\ Mates(c, ClipWithId(seq, p, c.link))
        /\ Whole(seq, Both(c))
    <3> HIDE DEF c
    <3> QED BY <1>2, <1>3, MateOn
  <2>2. q = p /\ mid = c.link
    BY <1>1, <2>1 DEF BladeFinds
  <2> HIDE DEF p, c
  <2> QED BY <2>1, <2>2 DEF ClipWithId
<1>5. PairCut(r, i, q, mid, pos) /\ Spans(c, pos)
  <2>1. BladePair(r, i, q, mid, pos) /\ Spans(c, pos)
    BY <1>1 DEF BladeFinds
  <2> HIDE DEF c, d
  <2> QED BY <1>1, <1>4, <2>1, BladePairCuts
<1>6. q # NoRef /\ ~Locked(seq, q) /\ Spans(d, pos)
  <2> HIDE DEF c, d
  <2> QED BY <1>4, <1>5 DEF NoLocks, Spans, Mates
<1>7. /\ seq' \in Documents /\ Refs(seq') = Refs(seq)
      /\ \E x, y : /\ Halves(x, y, c, pos, nextId, mid, nextId + 1)
                   /\ ClipsAt(seq', r) = InsertSorted([ClipsAt(seq, r) EXCEPT ![i] = x], y)
      /\ \E x, y : /\ Halves(x, y, d, pos, nextId + 1, c.id, nextId)
                   /\ ClipsAt(seq', q) = InsertSorted([ClipsAt(seq, q) EXCEPT ![j] = x], y)
  BY Zenon, <1>5, <1>6 DEF PairCut
<1>8. PICK x, y : /\ Halves(x, y, c, pos, nextId, mid, nextId + 1)
                  /\ ClipsAt(seq', r) = InsertSorted([ClipsAt(seq, r) EXCEPT ![i] = x], y)
  BY Zenon, <1>7
<1>9. PICK x2, y2 : /\ Halves(x2, y2, d, pos, nextId + 1, c.id, nextId)
                    /\ ClipsAt(seq', q) = InsertSorted([ClipsAt(seq, q) EXCEPT ![j] = x2], y2)
  BY Zenon, <1>7
<1>10. Mates(x, x2) /\ Mates(x2, x) /\ Mates(y, y2) /\ Mates(y2, y)
  <2> DEFINE m == nextId + 1
  <2>1. nextId \in Nat \ {0} /\ m \in Nat \ {0}
    BY <1>2
  <2>2. mid = d.id
    <3> HIDE DEF c, d
    <3> QED BY <1>4 DEF Mates
  <2>3. Halves(x, y, c, pos, nextId, d.id, m) /\ Halves(x2, y2, d, pos, m, c.id, nextId)
    BY <1>8, <1>9, <2>2
  <2> HIDE DEF c, d, m
  <2> QED BY <1>4, <2>1, <2>3, HalvesPaired
<1>11. On(seq', r) = {e \in On(seq, r) : e.id # c.id} \cup {x, y}
  <2>1. x \in AnyClip /\ y \in AnyClip
    BY <1>8 DEF Halves
  <2> QED BY <1>2, <1>8, <2>1, CutOn DEF On
<1>12. On(seq', q) = {e \in On(seq, q) : e.id # d.id} \cup {x2, y2}
  <2>1. x2 \in AnyClip /\ y2 \in AnyClip
    BY <1>9 DEF Halves
  <2>2. ClipsAt(seq, q) \in Seq(AnyClip) /\ Distinct(ClipsAt(seq, q))
    BY <1>2, <1>4, TrackFacts, UniqueTrack
  <2>3. j \in DOMAIN ClipsAt(seq, q)
    BY <1>1, <1>4, <2>2, IndexOfIdFinds
  <2> HIDE DEF j
  <2> QED BY <1>9, <2>1, <2>2, <2>3, CutOn DEF On, d
<1>13. \A p \in Refs(seq) : p = r \/ p = q
  BY <1>2, <1>4, EvenRefs
<1> HIDE DEF c, d
<1>14. d.id = c.link /\ Both(c) = {c.id, d.id}
  BY <1>3, <1>4 DEF Both, Mates
<1>15. ASSUME NEW p \in Refs(seq), NEW e \in On(seq, p)
       PROVE  (e.id = c.id => p = r) /\ (e.id = d.id => p = q)
  BY <1>3, <1>4, UniqueOn
<1>16. ASSUME NEW p \in Refs(seq), NEW e \in On(seq', p)
       PROVE  \/ \E p2 \in Refs(seq) : \E e2 \in On(seq', p2) : p2[1] # p[1] /\ Mates(e, e2)
              \/ e \in On(seq, p) /\ e.id \notin Both(c)
  <2>1. CASE p = r
    <3>1. e = x \/ e = y \/ (e \in On(seq, r) /\ e.id # c.id)
      BY <1>11, <1>16, <2>1
    <3>2. x2 \in On(seq', q) /\ y2 \in On(seq', q)
      BY <1>12
    <3>3. CASE e = x \/ e = y
      BY <1>4, <1>10, <2>1, <3>2, <3>3
    <3>4. CASE e \in On(seq, r) /\ e.id # c.id
      BY <1>4, <1>14, <1>15, <2>1, <3>4
    <3> QED BY <3>1, <3>3, <3>4
  <2>2. CASE p = q
    <3>1. e = x2 \/ e = y2 \/ (e \in On(seq, q) /\ e.id # d.id)
      BY <1>12, <1>16, <2>2
    <3>2. x \in On(seq', r) /\ y \in On(seq', r)
      BY <1>11
    <3>3. CASE e = x2 \/ e = y2
      BY <1>4, <1>10, <2>2, <3>2, <3>3
    <3>4. CASE e \in On(seq, q) /\ e.id # d.id
      BY <1>4, <1>14, <1>15, <2>2, <3>4
    <3> QED BY <3>1, <3>3, <3>4
  <2> QED BY <1>13, <2>1, <2>2
<1>17. \A p \in Refs(seq) : \A e \in On(seq, p) : e.id \notin Both(c) => e \in On(seq', p)
  BY <1>11, <1>12, <1>13, <1>14
<1>18. Paired(seq')
  BY <1>2, <1>4, <1>7, <1>16, <1>17, PairsLeft
<1>19. Even(seq')
  <2>1. \A p \in Refs(seq) : \A e \in On(seq, p) : e.link # 0
    BY DEF Even, On, ToSet
  <2>2. ASSUME NEW p \in Refs(seq), NEW e \in On(seq', p) PROVE e.link # 0
    <3>1. e \in On(seq, p) \/ \E e2 : Mates(e, e2)
      BY <1>16
    <3> QED BY <2>1, <3>1, MatesBoth
  <2> QED BY <1>2, <1>7, <2>2, EvenOn
<1> QED BY <1>18, <1>19

-----------------------------------------------------------------------------
(* Pairs and the arranging of tracks *)

\* list holds what old does.
Holds(list, old) == \A i \in DOMAIN old : \E j \in DOMAIN list : list[j] = old[i]

LEMMA InsertHolds ==
    ASSUME NEW S, NEW s \in Seq(S), NEW k \in 1 .. Len(s) + 1, NEW x \in S
    PROVE  /\ Holds(InsertAt(s, k, x), s)
           /\ \E j \in DOMAIN InsertAt(s, k, x) : InsertAt(s, k, x)[j] = x
<1> DEFINE new == InsertAt(s, k, x)
<1>1. /\ new \in Seq(S) /\ Len(new) = Len(s) + 1
      /\ \A p \in 1 .. Len(s) + 1 :
            new[p] = IF p < k THEN s[p] ELSE IF p = k THEN x ELSE s[p - 1]
  BY InsertAtIndex
<1> HIDE DEF new
<1>2. DOMAIN new = 1 .. Len(s) + 1 /\ DOMAIN s = 1 .. Len(s) /\ Len(s) \in Nat
  BY <1>1
<1>3. ASSUME NEW q \in DOMAIN s PROVE \E p \in DOMAIN new : new[p] = s[q]
  <2>1. CASE q < k
    <3>1. q \in DOMAIN new /\ new[q] = s[q]
      BY <1>1, <1>2, <2>1
    <3> QED BY <3>1
  <2>2. CASE ~(q < k)
    <3>1. q + 1 \in DOMAIN new /\ ~(q + 1 < k) /\ q + 1 # k /\ (q + 1) - 1 = q
      BY <1>2, <2>2
    <3>2. new[q + 1] = s[q]
      BY <1>1, <1>2, <3>1
    <3> QED BY <3>1, <3>2
  <2> QED BY <2>1, <2>2
<1>4. k \in DOMAIN new /\ new[k] = x
  BY <1>1, <1>2
<1> QED BY <1>3, <1>4 DEF Holds, new

LEMMA MoveHolds ==
    ASSUME NEW S, NEW list \in Seq(S), NEW i \in 1 .. Len(list), NEW j \in 1 .. Len(list)
    PROVE  Holds(InsertAt(RemoveAt(list, i), j, list[i]), list)
<1> DEFINE rest == RemoveAt(list, i)
           x == list[i]
           new == InsertAt(rest, j, x)
<1>1. /\ rest \in Seq(S) /\ Len(rest) = Len(list) - 1
      /\ \A p \in 1 .. Len(list) - 1 : rest[p] = list[IF p < i THEN p ELSE p + 1]
  BY RemoveAtIndex
<1> HIDE DEF rest
<1>2. x \in S /\ j \in 1 .. Len(rest) + 1
  BY <1>1
<1> HIDE DEF x
<1>3. Holds(new, rest) /\ \E p \in DOMAIN new : new[p] = x
  BY <1>1, <1>2, InsertHolds
<1> HIDE DEF new
<1>4. DOMAIN rest = 1 .. Len(list) - 1 /\ DOMAIN list = 1 .. Len(list) /\ Len(list) \in Nat
  BY <1>1
<1>5. ASSUME NEW q \in DOMAIN list, q # i PROVE \E p \in DOMAIN rest : rest[p] = list[q]
  <2>1. CASE q < i
    <3>1. q \in DOMAIN rest /\ rest[q] = list[q]
      BY <1>1, <1>4, <2>1
    <3> QED BY <3>1
  <2>2. CASE i < q
    <3>1. q - 1 \in DOMAIN rest /\ ~(q - 1 < i) /\ (q - 1) + 1 = q
      BY <1>4, <2>2
    <3>2. rest[q - 1] = list[q]
      BY <1>1, <1>4, <3>1
    <3> QED BY <3>1, <3>2
  <2> QED BY <1>4, <1>5, <2>1, <2>2
<1>6. ASSUME NEW q \in DOMAIN list PROVE \E p \in DOMAIN new : new[p] = list[q]
  <2>1. CASE q = i
    BY <1>3, <2>1 DEF x
  <2>2. CASE q # i
    BY <1>3, <1>5, <2>2 DEF Holds
  <2> QED BY <2>1, <2>2
<1> QED BY <1>6 DEF Holds, new, rest, x

\* Tracks change places among those of their kind, and empty ones come.
LEMMA PairsRearranged ==
    ASSUME NEW s, NEW u, Paired(s),
           \A p \in Refs(u) : \A c \in On(u, p) :
              \E p2 \in Refs(s) : p2[1] = p[1] /\ c \in On(s, p2),
           \A p \in Refs(s) : \E p2 \in Refs(u) : p2[1] = p[1] /\ On(u, p2) = On(s, p)
    PROVE  Paired(u)
<1> SUFFICES ASSUME NEW p \in Refs(u), NEW c \in On(u, p), c.link # 0
             PROVE  \E q \in Refs(u) : \E d \in On(u, q) : q[1] # p[1] /\ Mates(c, d)
  BY PairedOn
<1>1. PICK p2 \in Refs(s) : p2[1] = p[1] /\ c \in On(s, p2)
  OBVIOUS
<1>2. PICK q2 \in Refs(s) : \E d \in On(s, q2) : q2[1] # p2[1] /\ Mates(c, d)
  BY <1>1, PairedOn
<1>3. PICK d \in On(s, q2) : q2[1] # p2[1] /\ Mates(c, d)
  BY <1>2
<1>4. PICK q \in Refs(u) : q[1] = q2[1] /\ On(u, q) = On(s, q2)
  OBVIOUS
<1> QED BY <1>1, <1>3, <1>4

LEMMA ListPairs ==
    ASSUME Track = AnyTrack, NEW s \in Documents, NEW k \in Kinds, NEW list \in TrackLists,
           MadeOf(list, s[k]), Holds(list, s[k]), Paired(s)
    PROVE  Paired([s EXCEPT ![k] = list])
<1> DEFINE u == [s EXCEPT ![k] = list]
<1>1. PICK h \in [DOMAIN list -> Nat] : \A i \in DOMAIN list :
              IF h[i] = 0 THEN list[i].clips = <<>>
              ELSE h[i] \in DOMAIN s[k] /\ list[i] = s[k][h[i]]
  BY DEF MadeOf
<1>2. u \in Documents /\ u[k] = list /\ \A l \in Kinds \ {k} : u[l] = s[l]
  BY DEF Documents
<1> HIDE DEF u
<1>3. ASSUME NEW v \in Documents, NEW p \in Refs(v)
      PROVE  /\ p[1] \in Kinds /\ p[2] \in DOMAIN v[p[1]]
             /\ On(v, p) = ToSet(v[p[1]][p[2]].clips)
  BY RefFacts DEF On, ClipsAt, TrackAt
<1>4. ASSUME NEW v \in Documents, NEW l \in Kinds, NEW i \in DOMAIN v[l]
      PROVE  /\ <<l, i>> \in Refs(v) /\ <<l, i>>[1] = l
             /\ On(v, <<l, i>>) = ToSet(v[l][i].clips)
  BY RefIntro DEF On, ClipsAt, TrackAt
<1>5. ASSUME NEW p \in Refs(u), NEW c \in On(u, p)
      PROVE  \E p2 \in Refs(s) : p2[1] = p[1] /\ c \in On(s, p2)
  <2>1. /\ p[1] \in Kinds /\ p[2] \in DOMAIN u[p[1]]
        /\ c \in ToSet(u[p[1]][p[2]].clips)
    BY <1>2, <1>3, <1>5
  <2>2. \E i \in DOMAIN s[p[1]] : u[p[1]][p[2]] = s[p[1]][i]
    <3>1. CASE p[1] = k
      <4>1. p[2] \in DOMAIN list /\ c \in ToSet(list[p[2]].clips)
        BY <1>2, <2>1, <3>1
      <4>2. list[p[2]].clips # <<>>
        BY <4>1 DEF ToSet
      <4>3. h[p[2]] \in DOMAIN s[k] /\ list[p[2]] = s[k][h[p[2]]]
        BY <1>1, <4>1, <4>2
      <4> QED BY <1>2, <3>1, <4>3
    <3>2. CASE p[1] # k
      BY <1>2, <2>1, <3>2
    <3> QED BY <3>1, <3>2
  <2>3. PICK i \in DOMAIN s[p[1]] : u[p[1]][p[2]] = s[p[1]][i]
    BY <2>2
  <2>4. c \in On(s, <<p[1], i>>) /\ <<p[1], i>> \in Refs(s) /\ <<p[1], i>>[1] = p[1]
    BY <1>4, <2>1, <2>3
  <2> QED BY <2>4
<1>6. ASSUME NEW p \in Refs(s)
      PROVE  \E p2 \in Refs(u) : p2[1] = p[1] /\ On(u, p2) = On(s, p)
  <2>1. /\ p[1] \in Kinds /\ p[2] \in DOMAIN s[p[1]]
        /\ On(s, p) = ToSet(s[p[1]][p[2]].clips)
    BY <1>3
  <2>2. PICK i \in DOMAIN u[p[1]] : u[p[1]][i] = s[p[1]][p[2]]
    <3>1. CASE p[1] = k
      BY <1>2, <2>1, <3>1 DEF Holds
    <3>2. CASE p[1] # k
      BY <1>2, <2>1, <3>2
    <3> QED BY <3>1, <3>2
  <2>3. /\ <<p[1], i>> \in Refs(u) /\ <<p[1], i>>[1] = p[1]
        /\ On(u, <<p[1], i>>) = ToSet(u[p[1]][i].clips)
    BY <1>2, <1>4, <2>1
  <2> QED BY <2>1, <2>2, <2>3
<1>7. Paired(u)
  BY <1>5, <1>6, PairsRearranged
<1> QED BY <1>7 DEF u

\* Arranging the tracks takes no pair apart, if no track is removed.
LEMMA ArrangingPairs ==
    ASSUME Ready, Arranging, "removeTrack" \notin ops
    PROVE  PairedKept /\ ("insertTrack" \notin ops => EvenKept)
<1>1. PICK k \in Kinds, i \in 1 .. MaxTracks, j \in 1 .. MaxTracks :
         InsertTrack(k, i) \/ RemoveTrack(k, i) \/ RenameTrack(k, i) \/ MoveTrack(k, i, j)
  BY DEF Arranging
<1> DEFINE list == seq[k]
<1>2. /\ Track = AnyTrack /\ seq \in Documents /\ list \in Seq(Track)
      /\ Len(list) \in 0 .. MaxTracks /\ MaxTracks \in Nat
  BY DocumentFacts, MaxTracksAssumption DEF Ready, TrackLists
<1>3. ASSUME NEW new \in TrackLists, MadeOf(new, list), Holds(new, list),
             CommitList([seq EXCEPT ![k] = new], k)
      PROVE  PairedKept
  BY <1>2, <1>3, ListPairs DEF CommitList, Record, PairedKept
<1>4. CASE InsertTrack(k, i)
  <2> DEFINE track == [locked |-> FALSE, mix |-> 0, clips |-> <<>>]
  <2>1. /\ Len(list) < MaxTracks /\ i <= Len(list) + 1 /\ "insertTrack" \in ops
        /\ CommitList([seq EXCEPT ![k] = InsertAt(list, i, track)], k)
    BY <1>4 DEF InsertTrack, AddTrack, Offered
  <2>2. track \in Track /\ track.clips = <<>>
    BY <1>2 DEF AnyTrack
  <2> HIDE DEF track, list
  <2>3. i \in 1 .. Len(list) + 1
    BY <1>2, <2>1
  <2>4. InsertAt(list, i, track) \in TrackLists
    BY <1>2, <2>1, <2>2, <2>3, InsertAtType DEF TrackLists
  <2>5. MadeOf(InsertAt(list, i, track), list) /\ Holds(InsertAt(list, i, track), list)
    BY <1>2, <2>2, <2>3, InsertMade, InsertHolds
  <2> QED BY <1>3, <2>1, <2>4, <2>5
<1>5. ~RemoveTrack(k, i)
  BY DEF RemoveTrack, Offered
<1>6. CASE RenameTrack(k, i)
  <2>1. seq' = seq
    BY <1>6 DEF RenameTrack, CommitList, Record
  <2> QED BY <2>1 DEF PairedKept, EvenKept
<1>7. CASE MoveTrack(k, i, j)
  <2>1. /\ i <= Len(list) /\ j <= Len(list) /\ i # j
        /\ CommitList([seq EXCEPT ![k] = InsertAt(RemoveAt(list, i), j, list[i])], k)
    BY <1>7 DEF MoveTrack
  <2>a. ASSUME Even(seq) PROVE FALSE
    <3>1. Len(list) = 1
      BY <1>1, <2>a DEF Even, Kinds
    <3>2. i \in Nat \ {0} /\ j \in Nat \ {0}
      BY <1>2
    <3>3. i <= 1 /\ j <= 1 /\ i # j
      BY <2>1, <3>1
    <3> QED BY <3>2, <3>3
  <2> HIDE DEF list
  <2>2. i \in 1 .. Len(list) /\ j \in 1 .. Len(list) /\ list[i] \in Track
    BY <1>2, <2>1
  <2>3. RemoveAt(list, i) \in Seq(Track) /\ Len(RemoveAt(list, i)) = Len(list) - 1
    BY <1>2, <2>2, RemoveAtType
  <2>4. InsertAt(RemoveAt(list, i), j, list[i]) \in TrackLists
    <3>1. j \in 1 .. Len(RemoveAt(list, i)) + 1
      BY <1>2, <2>2, <2>3
    <3>2. /\ InsertAt(RemoveAt(list, i), j, list[i]) \in Seq(Track)
          /\ Len(InsertAt(RemoveAt(list, i), j, list[i])) = Len(RemoveAt(list, i)) + 1
      BY <2>2, <2>3, <3>1, InsertAtType
    <3> QED BY <1>2, <2>3, <3>2 DEF TrackLists
  <2>5. /\ MadeOf(InsertAt(RemoveAt(list, i), j, list[i]), list)
        /\ Holds(InsertAt(RemoveAt(list, i), j, list[i]), list)
    BY <1>2, <2>2, MoveMade, MoveHolds
  <2>6. PairedKept
    BY <1>3, <2>1, <2>4, <2>5
  <2> QED BY <2>6, <2>a DEF EvenKept
<1> QED BY <1>1, <1>4, <1>5, <1>6, <1>7

-----------------------------------------------------------------------------
(* The operations that keep pairs together *)

\* The sessions PairsTogether is about.
PairSessions == ~PairsDiffer /\ "removeTrack" \notin ops

\* Pairs are whole, and as the operations of the session need them.
Pairs(s) ==
    /\ UniqueIds(s) /\ Paired(s)
    /\ ~Uneven => Even(s)
    /\ "blade" \in ops => NoLocks(s)

PairsKept == Paired(seq') /\ (~Uneven => Even(seq'))

LEMMA PlacingPairs ==
    ASSUME Ready, nextId # 0, Listed, PairSessions, Pairs(seq), Placing
    PROVE  PairsKept
<1>1. PICK m \in DOMAIN Media, in \in Frames, n \in Lengths :
         \/ \E r \in Refs(seq), mode \in {"overwrite", "insert", "append"} :
               PlaceClip(r, m, in, n, mode)
         \/ PlaceOnTop(m, in, n)
         \/ \E v \in DOMAIN seq["video"], a \in DOMAIN seq["audio"],
               mode \in {"overwrite", "insert", "append", "onTop"} :
                  PlaceLinked(v, a, m, in, n, mode)
  BY DEF Placing
<1>2. in \in Nat /\ ~PlaceOnTop(m, in, n)
  BY ReadyFacts DEF PlaceOnTop, Offered, Listed, Unlisted
<1>3. "overwrite" \notin ops /\ "insert" \notin ops /\ "onTop" \notin ops
  BY DEF PairSessions, PairsDiffer, OneSided, Listed, Unlisted
<1>4. UniqueIds(seq) /\ Paired(seq) /\ (~Uneven => Even(seq))
  BY DEF Pairs
<1>5. ASSUME NEW r \in Refs(seq), NEW mode \in {"overwrite", "insert", "append"},
             PlaceClip(r, m, in, n, mode)
      PROVE  PairsKept
  <2>1. PlaceOn(seq, r, m, in, n, "append") /\ "place" \in ops
    BY <1>3, <1>5 DEF PlaceClip, Offered
  <2>2. Uneven
    BY <2>1 DEF Uneven
  <2>3. PairedKept
    BY <1>2, <2>1, PlaceOnPairs
  <2> QED BY <1>4, <2>2, <2>3 DEF PairedKept, PairsKept
<1>6. ASSUME NEW v \in DOMAIN seq["video"], NEW a \in DOMAIN seq["audio"],
             NEW mode \in {"overwrite", "insert", "append", "onTop"},
             PlaceLinked(v, a, m, in, n, mode)
      PROVE  PairsKept
  <2>1. mode \in ops /\ "linked" \in ops
    BY <1>6 DEF PlaceLinked, Offered
  <2>2. mode = "append"
    BY <1>3, <2>1
  <2>3. ~Uneven
    BY <2>1, <2>2 DEF PairSessions, PairsDiffer
  <2>4. PlaceLinked(v, a, m, in, n, "append")
    BY <1>6, <2>2
  <2>5. Paired(seq') /\ Even(seq')
    BY <1>2, <1>4, <2>3, <2>4, PlaceLinkedPairs
  <2> QED BY <2>5 DEF PairsKept
<1> QED BY <1>1, <1>2, <1>5, <1>6

LEMMA RemovingPairs ==
    ASSUME Ready, PairSessions, Pairs(seq), Removing
    PROVE  PairsKept
<1>1. UniqueIds(seq) /\ Paired(seq) /\ (~Uneven => Even(seq))
  BY DEF Pairs
<1>2. "liftRange" \notin ops /\ "rippleRange" \notin ops
  BY DEF PairSessions, PairsDiffer, OneSided
<1>3. "rippleDelete" \in ops => ~Uneven
  BY DEF PairSessions, PairsDiffer
<1>4. ASSUME NEW id \in ClipIds, LiftClip(id) PROVE PairsKept
  BY <1>1, <1>4, LiftClipPairs DEF PairedKept, EvenKept, PairsKept
<1>5. ASSUME NEW id \in ClipIds, RippleDeleteClip(id), "rippleDelete" \in ops PROVE PairsKept
  BY <1>1, <1>3, <1>5, RippleDeleteClipPairs DEF PairsKept
<1>6. \A r, in, out : ~LiftRange(r, in, out) /\ ~RippleDeleteRange(r, in, out)
  BY <1>2 DEF LiftRange, RippleDeleteRange, Offered
<1> QED BY <1>4, <1>5, <1>6 DEF Removing, Offered

LEMMA CuttingPairs ==
    ASSUME Ready, nextId # 0, PairSessions, Pairs(seq), Cutting
    PROVE  PairsKept
<1>1. "bladeAt" \notin ops /\ "throughEdit" \notin ops
  BY DEF PairSessions, PairsDiffer, OneSided
<1>2. /\ \A r, pos : ~BladeAt(r, pos)
      /\ \A id : ~DeleteThroughEdit(id)
  BY <1>1 DEF BladeAt, DeleteThroughEdit, Offered
<1>3. PICK r \in Refs(seq), pos \in Frames : BladeLinkedAt(r, pos)
  BY <1>2 DEF Cutting
<1>4. "blade" \in ops /\ pos \in Int
  BY <1>3, ReadyFacts DEF BladeLinkedAt, Offered
<1>5. UniqueIds(seq) /\ Paired(seq) /\ Even(seq) /\ NoLocks(seq)
  BY <1>4 DEF Pairs, PairSessions, PairsDiffer
<1>6. Paired(seq') /\ Even(seq')
  BY <1>3, <1>4, <1>5, BladeLinkedPairs
<1> QED BY <1>6 DEF PairsKept

LEMMA MovingPairs ==
    ASSUME Ready, Listed, PairSessions, Pairs(seq), Moving
    PROVE  PairsKept
<1>1. "move" \notin ops /\ "autoTrack" \notin ops
  BY DEF PairSessions, PairsDiffer, OneSided, Listed, Unlisted
<1>2. PICK id \in ClipIds, in \in Frames :
         \/ /\ Offered("move")
            /\ \E i \in DOMAIN seq[RefOf(id)[1]] : MoveClip(id, <<RefOf(id)[1], i>>, in)
         \/ Offered("trim") /\ \E edge \in {"head", "tail"} : TrimClipEdge(edge, id, in)
         \/ AutoTrack(id, in)
  BY DEF Moving
<1>3. in \in Int /\ ~AutoTrack(id, in) /\ ~Offered("move")
  BY <1>1, ReadyFacts DEF AutoTrack, Offered
<1>4. PICK edge \in {"head", "tail"} : TrimClipEdge(edge, id, in)
  BY <1>2, <1>3
<1>5. PairedKept /\ EvenKept
  BY <1>3, <1>4, TrimClipEdgePairs
<1> QED BY <1>5 DEF Pairs, PairedKept, EvenKept, PairsKept

\* The operations of a session that only calls those meant to act on both parts.
LEMMA EditingPairs ==
    ASSUME Ready, nextId # 0, Listed, PairSessions, Pairs(seq), Editing, seq' \in Documents
    PROVE  PairsKept
<1>1. UniqueIds(seq) /\ Paired(seq) /\ (~Uneven => Even(seq))
  BY DEF Pairs
<1>2. CASE Linking
  <2>1. "link" \notin ops
    BY DEF PairSessions, PairsDiffer, OneSided
  <2>2. PICK id \in ClipIds : UnlinkClip(id)
    BY <1>2, <2>1 DEF Linking, LinkClip, Offered
  <2>3. PairedKept
    BY <2>2, UnlinkClipPairs
  <2>4. Uneven
    BY <2>2 DEF UnlinkClip, Offered, Uneven
  <2> QED BY <1>1, <2>3, <2>4 DEF PairedKept, PairsKept
<1>3. CASE Setting
  <2>1. AttributesOnly
    BY <1>3, SettingEdits
  <2>2. PairedKept /\ EvenKept
    BY <2>1, SettingPairs
  <2> QED BY <1>1, <2>2 DEF PairedKept, EvenKept, PairsKept
<1>4. CASE Arranging
  <2>1. PairedKept /\ ("insertTrack" \notin ops => EvenKept)
    BY <1>4, ArrangingPairs DEF PairSessions
  <2>2. "insertTrack" \in ops => Uneven
    BY DEF Uneven
  <2> QED BY <1>1, <2>1, <2>2 DEF PairedKept, EvenKept, PairsKept
<1> QED BY <1>2, <1>3, <1>4, PlacingPairs, RemovingPairs, CuttingPairs, MovingPairs DEF Editing

\* The sequences with whole pairs, and the ids given out.
PairedDocs(n) == {s \in Documents : AllIn(s, Named(n)) /\ Pairs(s)}

\* The projects that are opened have pairs, as a session leaves them.
StartsPaired == \A s \in Start : UniqueIds(s) /\ Paired(s)

PairsInv ==
    /\ SInv /\ PairSessions /\ StartsPaired
    /\ nextId # 0
    /\ Line(PairedDocs(nextId))

LEMMA StartPaired ==
    ASSUME Track = AnyTrack, session \in Sessions, PairSessions, StartsPaired, NEW s \in Start
    PROVE  s \in PairedDocs(FreshIn(s)) /\ FreshIn(s) # 0
<1>1. s \in Documents
  BY SessionsAssumption DEF Start
<1>2. FreshIn(s) # 0 /\ AllIn(s, Named(FreshIn(s)))
  BY <1>1, FreshNamed
<1>3. "blade" \in ops => NoLocks(s)
  BY DEF PairSessions, PairsDiffer, Locking, NoLocks
<1>4. ~Uneven => Even(s)
  BY DEF Uneven, Even, ToSet
<1> QED BY <1>1, <1>2, <1>3, <1>4 DEF PairedDocs, Pairs, StartsPaired

LEMMA PairsStart ==
    ASSUME Track = AnyTrack, Listed, PairSessions, StartsPaired, SessionInit
    PROVE  PairsInv
<1>1. SInv
  BY SessionStarts, LineInductive DEF SInv
<1>2. seq \in Start /\ session \in Sessions /\ past = <<>> /\ future = <<>> /\ nextId = FreshIn(seq)
  BY DEF SessionInit
<1>3. seq \in PairedDocs(nextId) /\ nextId # 0
  BY <1>2, StartPaired
<1>4. Line(PairedDocs(nextId))
  BY <1>2, <1>3 DEF Line
<1> QED BY <1>1, <1>3, <1>4 DEF PairsInv

LEMMA PairedMore ==
    ASSUME NEW n \in Nat, NEW m \in Nat, n <= m
    PROVE  PairedDocs(n) \subseteq PairedDocs(m)
<1>1. Named(n) \subseteq Named(m)
  BY NamedSets
<1> QED BY <1>1, AllInMore DEF PairedDocs

\* An edit leaves pairs whole.
LEMMA PairsEdit ==
    ASSUME SInv, PairSessions, nextId # 0, seq \in PairedDocs(nextId), Editing, Kept,
           seq' \in Documents
    PROVE  seq' \in {s \in Documents : /\ AllIn(s, Named(nextId'))
                                       /\ UniqueIds(s) /\ Paired(s)
                                       /\ ~Uneven => Even(s)
                                       /\ "blade" \in ops => NoLocks(s)}
<1>1. AllIn(seq, Named(nextId)) /\ Pairs(seq) /\ Ready /\ Listed
  BY DEF PairedDocs, SInv
<1>2. ops \cap HolesCut = {}
  BY <1>1 DEF PairSessions, PairsDiffer, OneSided, HolesCut, Listed, Unlisted
<1>3. AllIn(seq', Named(nextId'))
  BY <1>1 DEF Kept, NamesKept
<1>4. UniqueIds(seq')
  BY <1>1, <1>2 DEF Kept, UniqueKept, KeepsUnique, Pairs
<1>5. PairsKept
  BY <1>1, EditingPairs
<1>6. "blade" \in ops => NoLocks(seq')
  <2>1. Edited
    BY <1>1, EditingEdits DEF Listed
  <2>2. "blade" \in ops => "lock" \notin ops
    BY DEF PairSessions, PairsDiffer, Locking
  <2> QED BY <1>1, <2>1, <2>2 DEF Edited, LocksKept, Pairs
<1> QED BY <1>3, <1>4, <1>5, <1>6 DEF PairsKept

LEMMA PairsSteps ==
    ASSUME PairsInv, [SessionNext]_vars
    PROVE  PairsInv'
<1>1. SInv /\ PairSessions /\ StartsPaired /\ nextId # 0 /\ Line(PairedDocs(nextId))
      /\ nextId \in Nat /\ Track = AnyTrack /\ session \in Sessions
  BY DEF PairsInv, SInv, Ready
<1>2. SInv'
  BY <1>1, SessionSteps
<1>3. session' = session
  BY SessionKept
<1>a. ops' = ops /\ Start' = Start /\ Uneven' = Uneven /\ Locking' = Locking
  BY <1>3 DEF Uneven, Locking, ops, Start
<1>4. PairSessions' /\ StartsPaired'
  BY <1>1, <1>a DEF PairSessions, PairsDiffer, StartsPaired
<1>5. CASE UNCHANGED vars
  <2>1. Line(PairedDocs(nextId))'
    BY <1>1, <1>5, <1>a DEF vars, PairedDocs, Pairs, Line
  <2> QED BY <1>1, <1>2, <1>4, <1>5, <2>1 DEF PairsInv, vars
<1>6. CASE SessionNext
  <2>1. /\ OpenProject \/ (nextId' \in Nat /\ nextId <= nextId')
        /\ Editing => Kept /\ seq' \in Documents
        /\ OpenProject => seq' \in Start /\ nextId' = FreshIn(seq')
    BY <1>1, <1>6, StepKinds
  <2> DEFINE D == PairedDocs(nextId)
             E == {s \in Documents : /\ AllIn(s, Named(nextId'))
                                     /\ UniqueIds(s) /\ Paired(s)
                                     /\ ~Uneven => Even(s)
                                     /\ "blade" \in ops => NoLocks(s)}
  <2>2. E = PairedDocs(nextId')
    BY DEF PairedDocs, Pairs
  <2>3. (PairedDocs(nextId))' = E
    BY <1>a DEF PairedDocs, Pairs
  <2>4. OpenProject => seq' \in E /\ nextId' # 0
    BY <1>1, <2>1, <2>2, StartPaired
  <2>5. OpenProject \/ D \subseteq E
    BY <1>1, <2>1, <2>2, PairedMore
  <2>6. ASSUME Editing PROVE seq' \in E
    <3>1. seq \in PairedDocs(nextId)
      BY <1>1 DEF Line
    <3> QED BY <1>1, <2>1, <2>6, <3>1, PairsEdit
  <2> HIDE DEF D, E
  <2>7. seq' \in E /\ past' \in Seq(E) /\ future' \in Seq(E)
    <3>1. Line(D)
      BY <1>1 DEF D
    <3> QED BY <1>1, <1>6, <2>4, <2>5, <2>6, <3>1, LineSteps
  <2>8. nextId' # 0
    BY <1>1, <2>1, <2>4
  <2>9. Line(PairedDocs(nextId))'
    BY <2>3, <2>7 DEF Line
  <2> QED BY <1>2, <1>4, <2>8, <2>9 DEF PairsInv
<1> QED BY <1>5, <1>6

LEMMA PairsHold ==
    ASSUME PairsInv
    PROVE  PairsTogether
<1>1. Paired(seq)
  BY DEF PairsInv, Line, PairedDocs, Pairs
<1>2. ASSUME NEW c \in Clips, c.link # 0
      PROVE  \E d \in Clips : /\ d.id = c.link /\ d.link = c.id
                              /\ d.in = c.in /\ d.out = c.out
                              /\ d.src = c.src /\ d.media = c.media
  <2>1. PICK r \in Refs(seq) : c \in On(seq, r)
    BY <1>2 DEF Clips, ClipsOf, On
  <2>2. PICK q \in Refs(seq) : \E d \in On(seq, q) : Mates(c, d)
    BY <1>1, <1>2, <2>1, PairedOn
  <2>3. PICK d \in On(seq, q) : Mates(c, d)
    BY <2>2
  <2>4. d \in Clips
    BY <2>3 DEF Clips, ClipsOf, On
  <2> QED BY <2>3, <2>4 DEF Mates
<1> QED BY <1>2 DEF PairsTogether

\* For any clips, tracks, media, bounds and depth of the stack, and in whatever
\* order clips are appended, taken, cut, trimmed, closed up on, unlinked, undone and
\* redone: in the sessions whose operations act on both parts of a pair, every linked
\* clip has its mate on the timeline, and the two show the same frames at the same
\* time (lift_clip, ripple_delete_clip, blade_linked_at, trim_clip_edge and the
\* setters of edit_ops.cpp).
THEOREM PairsStayTogether ==
    Track = AnyTrack /\ Listed /\ StartsPaired /\ SessionSpec => []PairsTogether
<1>1. Track = AnyTrack /\ Listed /\ StartsPaired /\ PairSessions /\ SessionInit => PairsInv
  BY PairsStart
<1>2. PairsInv /\ [SessionNext]_vars => PairsInv'
  BY PairsSteps
<1>3. PairsInv \/ ~PairSessions => PairsTogether
  BY PairsHold DEF PairSessions, PairsTogether
<1>4. ~PairSessions /\ [SessionNext]_vars => (~PairSessions)'
  BY SessionKept DEF PairSessions, PairsDiffer, Uneven, Locking, ops, Start
<1> QED BY <1>1, <1>2, <1>3, <1>4, PTL DEF SessionSpec

-----------------------------------------------------------------------------
(* Tracks *)

\* The parts of a pair start and end together, and are two clips.
LEMMA PairsAligned ==
    ASSUME Ready, Pairs(seq)
    PROVE  AllAligned
<1>0. Track = AnyTrack /\ seq \in Documents /\ UniqueIds(seq) /\ Paired(seq)
  BY ReadyFacts DEF Pairs, Ready
<1>1. ASSUME NEW id \in ClipIds,
             NEW c, c = ClipWithId(seq, RefOf(id), id),
             NEW q, q = MateRef(seq, c), q # NoRef
      PROVE  AlignedMate(c, q)
  <2> DEFINE r == RefOf(id)
             d == ClipWithId(seq, q, c.link)
  <2>1. r \in Refs(seq) /\ c \in On(seq, r)
    BY <1>1, GestureOn
  <2> HIDE DEF r
  <2>2. q \in Refs(seq) /\ q # r /\ d \in On(seq, q) /\ Mates(c, d)
    BY <1>0, <1>1, <2>1, MateOn
  <2> HIDE DEF d
  <2>3. d.in = c.in /\ d.out = c.out /\ d.id = c.link
    BY <2>2 DEF Mates
  <2>4. c.link # c.id
    BY <1>0, <2>1, <2>2, <2>3, UniqueOn
  <2> QED BY <2>3, <2>4 DEF AlignedMate, d
<1> QED BY <1>1 DEF AllAligned

\* The sessions TracksLaidOut is about.
Careless ==
    /\ FramesPlaced
    /\ "rippleDelete" \in ops => PairSessions /\ StartsPaired
    /\ "trim" \in ops => ~Locking
    /\ ops \cap {"trim", "blade", "bladeAt"} # {} => NoHoles

\* The projects that are opened are as a session leaves them.
StartsLaidOut ==
    \A s \in Start : /\ AllApart(s)
                     /\ NoHoles => UniqueIds(s) /\ AllIn(s, Sound(FreshIn(s)))

\* The sequences with clips apart and, where the operations need it, each with
\* an id of its own and the link of another, and no track locked.
LaidDocs(n) ==
    {s \in Documents : /\ AllApart(s)
                       /\ NoHoles => UniqueIds(s) /\ AllIn(s, Sound(n))
                       /\ "trim" \in ops => NoLocks(s)}

LaidInv ==
    /\ SInv /\ Careless /\ StartsLaidOut
    /\ nextId # 0
    /\ Line(LaidDocs(nextId))
    /\ "rippleDelete" \in ops => PairsInv

LEMMA StartLaid ==
    ASSUME Track = AnyTrack, session \in Sessions, Careless, StartsLaidOut, NEW s \in Start
    PROVE  s \in LaidDocs(FreshIn(s)) /\ FreshIn(s) # 0
<1>1. s \in Documents
  BY SessionsAssumption DEF Start
<1>2. FreshIn(s) # 0
  BY <1>1, FreshNamed
<1>3. "trim" \in ops => NoLocks(s)
  BY DEF Careless, Locking, NoLocks
<1> QED BY <1>1, <1>2, <1>3 DEF LaidDocs, StartsLaidOut

LEMMA LaidStart ==
    ASSUME Track = AnyTrack, Listed, Careless, StartsLaidOut, SessionInit
    PROVE  LaidInv
<1>1. SInv
  BY SessionStarts, LineInductive DEF SInv
<1>2. seq \in Start /\ session \in Sessions /\ past = <<>> /\ future = <<>> /\ nextId = FreshIn(seq)
  BY DEF SessionInit
<1>3. seq \in LaidDocs(nextId) /\ nextId # 0
  BY <1>2, StartLaid
<1>4. Line(LaidDocs(nextId))
  BY <1>2, <1>3 DEF Line
<1>5. "rippleDelete" \in ops => PairsInv
  BY PairsStart DEF Careless
<1> QED BY <1>1, <1>3, <1>4, <1>5 DEF LaidInv

LEMMA LaidMore ==
    ASSUME NEW n \in Nat, NEW m \in Nat, n <= m
    PROVE  LaidDocs(n) \subseteq LaidDocs(m)
<1>1. Sound(n) \subseteq Sound(m)
  BY NamedSets
<1> QED BY <1>1, AllInMore DEF LaidDocs

\* An edit leaves the clips apart.
LEMMA LaidEdit ==
    ASSUME SInv, Careless, nextId # 0, seq \in LaidDocs(nextId),
           "rippleDelete" \in ops => Pairs(seq), Editing, Kept, seq' \in Documents
    PROVE  seq' \in LaidDocs(nextId')
<1>1. /\ AllApart(seq)
      /\ NoHoles => UniqueIds(seq) /\ AllIn(seq, Sound(nextId))
      /\ "trim" \in ops => NoLocks(seq)
  BY DEF LaidDocs
<1>2. NoHoles => AllIn(seq, Named(nextId))
  <2>1. nextId \in Nat
    BY DEF SInv, Ready
  <2>2. Sound(nextId) \subseteq Named(nextId)
    BY <2>1, NamedSets
  <2> QED BY <1>1, <2>2, AllInMore
<1>3. Careful
  <2>1. "rippleDelete" \in ops => UniqueIds(seq) /\ AllAligned
    BY PairsAligned DEF Pairs, SInv
  <2> QED BY <1>1, <2>1 DEF Careful, Careless
<1>4. AllApart(seq')
  BY <1>1, <1>3 DEF Kept, ApartKept, KeepsApart
<1>5. NoHoles => UniqueIds(seq') /\ AllIn(seq', Sound(nextId'))
  BY <1>1, <1>2 DEF Kept, UniqueKept, KeepsUnique, SoundKept, NoHoles
<1>6. "trim" \in ops => NoLocks(seq')
  <2>1. Edited
    BY EditingEdits DEF SInv, Listed
  <2>2. "trim" \in ops => "lock" \notin ops
    BY DEF Careless, Locking
  <2> QED BY <1>1, <2>1, <2>2 DEF Edited, LocksKept
<1> QED BY <1>4, <1>5, <1>6 DEF LaidDocs

LEMMA LaidSteps ==
    ASSUME LaidInv, [SessionNext]_vars
    PROVE  LaidInv'
<1>1. SInv /\ Careless /\ StartsLaidOut /\ nextId # 0 /\ Line(LaidDocs(nextId)) /\ nextId \in Nat
      /\ Track = AnyTrack /\ session \in Sessions
  BY DEF LaidInv, SInv, Ready
<1>2. SInv'
  BY <1>1, SessionSteps
<1>3. session' = session
  BY SessionKept
<1>a. ops' = ops /\ Start' = Start /\ Uneven' = Uneven /\ Locking' = Locking
  BY <1>3 DEF Uneven, Locking, ops, Start
<1>b. PairSessions' = PairSessions /\ StartsPaired' = StartsPaired
  BY <1>a DEF PairSessions, PairsDiffer, StartsPaired
<1>4. Careless' /\ StartsLaidOut'
  BY <1>1, <1>3, <1>a, <1>b DEF Careless, FramesPlaced, StartsLaidOut, NoHoles, Lengths
<1>c. ("rippleDelete" \in ops => PairsInv)'
  BY <1>a, PairsSteps DEF LaidInv
<1>5. CASE UNCHANGED vars
  <2>1. Line(LaidDocs(nextId))'
    BY <1>1, <1>5 DEF vars, LaidDocs, NoHoles, ops, Line
  <2> QED BY <1>1, <1>2, <1>4, <1>5, <1>c, <2>1 DEF LaidInv, vars
<1>6. CASE SessionNext
  <2>1. /\ OpenProject \/ (nextId' \in Nat /\ nextId <= nextId')
        /\ Editing => Kept /\ seq' \in Documents
        /\ OpenProject => seq' \in Start /\ nextId' = FreshIn(seq')
    BY <1>1, <1>6, StepKinds
  <2> DEFINE D == LaidDocs(nextId)
             E == {s \in Documents : /\ AllApart(s)
                                     /\ NoHoles => UniqueIds(s) /\ AllIn(s, Sound(nextId'))
                                     /\ "trim" \in ops => NoLocks(s)}
  <2>2. E = LaidDocs(nextId')
    BY DEF LaidDocs
  <2>3. (LaidDocs(nextId))' = E
    BY <1>3 DEF LaidDocs, NoHoles, ops
  <2>4. OpenProject => seq' \in E /\ nextId' # 0
    BY <1>1, <2>1, <2>2, StartLaid
  <2>5. OpenProject \/ D \subseteq E
    BY <1>1, <2>1, <2>2, LaidMore
  <2>6. Editing => seq' \in E
    <3>1. seq \in LaidDocs(nextId)
      BY <1>1 DEF Line
    <3>2. "rippleDelete" \in ops => Pairs(seq)
      BY DEF LaidInv, PairsInv, Line, PairedDocs
    <3> HIDE DEF E
    <3> QED BY <1>1, <2>1, <2>2, <3>1, <3>2, LaidEdit
  <2> HIDE DEF D, E
  <2>7. seq' \in E /\ past' \in Seq(E) /\ future' \in Seq(E)
    <3>1. Line(D)
      BY <1>1 DEF D
    <3> QED BY <1>1, <1>6, <2>4, <2>5, <2>6, <3>1, LineSteps
  <2>8. nextId' # 0
    BY <1>1, <2>1, <2>4
  <2>9. Line(LaidDocs(nextId))'
    BY <2>3, <2>7 DEF Line
  <2> QED BY <1>2, <1>4, <1>c, <2>8, <2>9 DEF LaidInv
<1> QED BY <1>5, <1>6

LEMMA LaidHolds ==
    ASSUME LaidInv
    PROVE  \A r \in Refs(seq) : LaidOut(ClipsAt(seq, r))
<1>1. Line(LaidDocs(nextId)) /\ Track = AnyTrack
  BY DEF LaidInv, SInv, Ready
<1>2. seq \in Documents /\ AllApart(seq)
  BY <1>1 DEF Line, LaidDocs
<1>3. ASSUME NEW r \in Refs(seq) PROVE LaidOut(ClipsAt(seq, r))
  <2>1. ClipsAt(seq, r) \in Seq(AnyClip)
    BY <1>1, <1>2, TrackFacts
  <2>2. Apart(ClipsAt(seq, r))
    BY <1>2 DEF AllApart
  <2> QED BY <2>1, <2>2, LaidOutApart
<1> QED BY <1>3

\* What TracksLaidOut supposes of a session.
LaidOutSessions ==
    /\ ops \cap {"rippleDelete", "autoTrack", "gestures"} # {} => ~PairsDiffer
    /\ ops \cap {"trim", "edges"} # {} => ~Locking
    /\ ops \cap {"trim", "edges", "blade", "bladeAt"} # {} => ops \cap HolesCut = {}

\* For any clips, tracks, media of which every part placed lasts a frame, bounds
\* and depth of the stack: whatever order of placing, cutting, trimming, moving,
\* taking, closing up, undoing and redoing, no two clips of a track overlap, and none
\* is empty or starts before frame 0 (place_on_track, trim_clip_edge, blade_at,
\* move_clip and the others of edit_ops.cpp that list what they change).  A ripple
\* delete moves the track of the mate by the length of the clip, which is right of
\* aligned pairs only: with one the pairs of the projects must be whole.
THEOREM TracksStayLaidOut ==
    Track = AnyTrack /\ Listed /\ StartsLaidOut /\ FramesPlaced
    /\ ("rippleDelete" \in ops => StartsPaired) /\ SessionSpec => []TracksLaidOut
<1>1. LaidOutSessions /\ FramesPlaced /\ ("rippleDelete" \in ops => StartsPaired) => Careless
  <2>1. ASSUME "rippleDelete" \in ops, LaidOutSessions PROVE PairSessions
    BY <2>1 DEF LaidOutSessions, PairSessions, PairsDiffer, Uneven
  <2> QED BY <2>1 DEF LaidOutSessions, Careless, NoHoles
<1>2. Track = AnyTrack /\ Listed /\ StartsLaidOut /\ Careless /\ SessionInit => LaidInv
  BY LaidStart
<1>3. LaidInv /\ [SessionNext]_vars => LaidInv'
  BY LaidSteps
<1>4. LaidInv \/ ~LaidOutSessions => TracksLaidOut
  BY LaidHolds DEF LaidOutSessions, TracksLaidOut
<1>5. ~LaidOutSessions /\ [SessionNext]_vars => (~LaidOutSessions)'
  BY SessionKept DEF LaidOutSessions, PairsDiffer, Uneven, Locking, ops, Start
<1> QED BY <1>1, <1>2, <1>3, <1>4, <1>5, PTL DEF SessionSpec

=============================================================================
