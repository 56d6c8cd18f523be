------------------------ MODULE TimelineDecoderProofs ------------------------
(* Safety of the timeline decoder for every medium, length of clips and size *)
(* of caches (TimelineDecoder): one bake at a time, caches that agree,       *)
(* nothing of a medium that was closed, and the frames and looks of the      *)
(* project.                                                                  *)
EXTENDS TimelineDecoder, TLAPS

USE DecoderAssumption

Looks == [look : Nat \cup FileLooks, seq : Nat]
Projects == [file : Files, a : [src : Nat, on : BOOLEAN, len : 0 .. Cut, grade : Looks], b : SrcB]

\* preview(), from the GPU or not.
Preview(f) == PreviewNv12(f) \/ PreviewRgba(f)


TypeOK ==
    /\ proj \in Projects /\ grades \in Nat
    /\ wpc \in {"idle", "kick", "serve", "joining"}
    /\ wpc \in {"kick", "serve"} => head \in Nat
    /\ bpc \in {"none", "wait", "bake", "clear", "ended"}
    /\ inflight \in BOOLEAN /\ stop \in BOOLEAN

\* Who has the job, and when there is one.  A result ends at the cut, where
\* nothing is left to bake, so that none is there when a bake is started.
BakeInv ==
    /\ bpc \in {"bake", "clear"} => baking # Null
    /\ baking # Null => bpc \in {"bake", "clear"} /\ inflight /\ baking.end = Cut
    /\ job # Null => inflight /\ baking = Null /\ job.end = Cut
    /\ stop <=> wpc = "joining"
    /\ bpc = "ended" => stop
    /\ result # Null => (~inflight \/ bpc = "clear") /\ result.end = Cut

LEMMA TypeInit == Init => TypeOK
<1> SUFFICES ASSUME Init PROVE TypeOK
  OBVIOUS
<1>1. proj \in Projects
  <2>1. Ungraded \in Looks
    BY DEF Ungraded, Looks
  <2> QED BY <2>1 DEF Init, Projects, ClipA
<1> QED BY <1>1 DEF Init, TypeOK

\* A grade of clip A keeps the shape of a project and its file.
LEMMA GradeEdited ==
    ASSUME NEW p \in Projects, NEW g \in Looks, NEW q, q = [p EXCEPT !.a.grade = g]
    PROVE  q \in Projects /\ q.file = p.file /\ q.a.grade = g
<1>1. p.a = [src |-> p.a.src, on |-> p.a.on, len |-> p.a.len, grade |-> p.a.grade]
  BY DEF Projects
<1>2. p = [file |-> p.file, a |-> p.a, b |-> p.b]
  BY DEF Projects
<1>3. q = [file |-> p.file, a |-> [src |-> p.a.src, on |-> p.a.on, len |-> p.a.len, grade |-> g],
           b |-> p.b]
  BY <1>1, <1>2
<1>4. /\ p.file \in Files /\ p.b \in SrcB
      /\ p.a.src \in Nat /\ p.a.on \in BOOLEAN /\ p.a.len \in 0 .. Cut
  BY DEF Projects
<1> QED BY <1>3, <1>4 DEF Projects

LEMMA Relinked ==
    ASSUME NEW p \in Projects, NEW f \in Files, NEW q, q = [p EXCEPT !.file = f]
    PROVE  q \in Projects /\ q.file = f /\ q.a = p.a
BY DEF Projects

LEMMA TypeStep == TypeOK /\ [Next]_vars => TypeOK'
<1> SUFFICES ASSUME TypeOK, [Next]_vars PROVE TypeOK'
  OBVIOUS
<1>1. ASSUME NEW f \in Playheads, FrameAdopt(f) PROVE TypeOK'
  BY <1>1 DEF FrameAdopt, TypeOK
<1>2. ASSUME NEW f \in Scrubs, Preview(f) PROVE TypeOK'
  BY <1>2 DEF Preview, PreviewNv12, PreviewRgba, TypeOK, bakeVars
<1>3. CASE FrameKick
  BY <1>3 DEF FrameKick, TypeOK, keptVars
<1>4. CASE Serve
  BY <1>4 DEF Serve, ServeBaked, ServeNv12, ServeRgba, TypeOK, bakeVars
<1>5. CASE EditClips
  <2>1. proj.file \in Files /\ proj.a.grade \in Looks
    BY DEF TypeOK, Projects
  <2>2. proj' \in Projects
    BY <1>5, <2>1 DEF EditClips, ClipA, Swap, Projects
  <2> QED BY <1>5, <2>2 DEF EditClips, Swap, TypeOK, bakeVars, keptVars
<1>6. CASE CommitGrade
  <2>1. [look |-> grades + 1, seq |-> grades + 1] \in Looks
    BY DEF TypeOK, Looks
  <2>2. proj' = [proj EXCEPT !.a.grade = [look |-> grades + 1, seq |-> grades + 1]]
    BY <1>6 DEF CommitGrade, Swap
  <2>3. proj' \in Projects /\ grades' \in Nat
    BY <1>6, <2>1, <2>2, GradeEdited DEF CommitGrade, TypeOK
  <2> QED BY <1>6, <2>3 DEF CommitGrade, Swap, TypeOK, bakeVars, keptVars
<1>7. CASE UndoGrade
  <2>1. PICK k \in 1..grades : proj' = [proj EXCEPT !.a.grade = [look |-> k, seq |-> k]]
    BY <1>7 DEF UndoGrade, Swap
  <2>2. [look |-> k, seq |-> k] \in Looks
    BY DEF TypeOK, Looks
  <2>3. proj' \in Projects
    BY <2>1, <2>2, GradeEdited DEF TypeOK
  <2> QED BY <1>7, <2>3 DEF UndoGrade, Swap, TypeOK, bakeVars, keptVars
<1>8. CASE ReopenProject
  <2>1. PICK k \in FileLooks : proj' = [proj EXCEPT !.a.grade = [look |-> k, seq |-> 0]]
    BY <1>8 DEF ReopenProject, Swap
  <2>2. [look |-> k, seq |-> 0] \in Looks
    BY DEF TypeOK, Looks
  <2>3. proj' \in Projects
    BY <2>1, <2>2, GradeEdited DEF TypeOK
  <2> QED BY <1>8, <2>3 DEF ReopenProject, Swap, TypeOK, bakeVars, keptVars
<1>9. ASSUME NEW f \in Files, CloseStop(f) PROVE TypeOK'
  <2>1. proj' \in Projects
    BY <1>9, Relinked DEF CloseStop, TypeOK
  <2> QED BY <1>9, <2>1 DEF CloseStop, TypeOK, keptVars
<1>10. CASE CloseJoin
  BY <1>10 DEF CloseJoin, TypeOK
<1>11. CASE Bake
  BY <1>11 DEF Bake, BakeStop, BakeTake, BakeFrame, BakeFail, BakePublish, BakeClear, bakeOnly,
               keptVars, TypeOK
<1>12. CASE UNCHANGED vars
  BY <1>12 DEF vars, keptVars, bakeVars, TypeOK
<1> QED
  BY <1>1, <1>2, <1>3, <1>4, <1>5, <1>6, <1>7, <1>8, <1>9, <1>10, <1>11, <1>12 DEF Next, Preview

\* The calls that leave the bake to itself.
NoBake ==
    (\E f \in Scrubs : Preview(f)) \/ Serve \/ EditClips \/ CommitGrade \/ UndoGrade
        \/ ReopenProject \/ UNCHANGED vars

LEMMA NoBakeKeeps ==
    ASSUME NoBake
    PROVE  /\ bpc' = bpc /\ job' = job /\ baking' = baking /\ inflight' = inflight
           /\ stop' = stop /\ result' = result /\ slot' = slot
           /\ wpc' = wpc \/ (wpc = "serve" /\ wpc' = "idle")
<1> DEFINE Goal == /\ bpc' = bpc /\ job' = job /\ baking' = baking /\ inflight' = inflight
                   /\ stop' = stop /\ result' = result /\ slot' = slot
                   /\ wpc' = wpc \/ (wpc = "serve" /\ wpc' = "idle")
<1>1. ASSUME NEW f \in Scrubs, Preview(f) PROVE Goal
  BY <1>1 DEF Preview, PreviewNv12, PreviewRgba, bakeVars
<1>2. CASE ServeBaked
  BY <1>2 DEF ServeBaked, bakeVars
<1>3. CASE ServeNv12
  BY <1>3 DEF ServeNv12, bakeVars
<1>4. CASE ServeRgba
  BY <1>4 DEF ServeRgba, bakeVars
<1>5. CASE EditClips \/ CommitGrade \/ UndoGrade \/ ReopenProject
  BY <1>5 DEF EditClips, CommitGrade, UndoGrade, ReopenProject, Swap, bakeVars, keptVars
<1>6. CASE UNCHANGED vars
  BY <1>6 DEF vars, bakeVars, keptVars
<1> QED BY <1>1, <1>2, <1>3, <1>4, <1>5, <1>6 DEF NoBake, Serve

LEMMA BakeStep == TypeOK /\ BakeInv /\ [Next]_vars => BakeInv'
<1> SUFFICES ASSUME TypeOK, BakeInv, [Next]_vars PROVE BakeInv'
  OBVIOUS
<1>1. ASSUME NEW f \in Playheads, FrameAdopt(f) PROVE BakeInv'
  BY <1>1 DEF FrameAdopt, BakeInv, TypeOK
<1>2. CASE FrameKick
  <2>1. CASE Candidate(proj, head) /\ ~stop /\ ~inflight /\ (result # Null => head >= result.end)
    <3>1. head < Cut
      <4>1. proj.a.len \in 0..Cut /\ head \in Nat
        BY <1>2 DEF FrameKick, TypeOK, Projects
      <4>2. proj.a.len > 0 /\ WinStart(proj) - head \in 0..Lead
        BY <2>1 DEF Candidate
      <4> QED BY <4>1, <4>2 DEF WinStart
    <3>2. result = Null
      BY <1>2, <2>1, <3>1 DEF FrameKick, BakeInv, TypeOK
    <3>3. baking = Null /\ bpc \notin {"bake", "clear"} /\ Job(proj).end = Cut
      BY <2>1 DEF BakeInv, Job
    <3> QED BY <1>2, <2>1, <3>2, <3>3 DEF FrameKick, BakeInv, TypeOK
  <2>2. CASE ~(Candidate(proj, head) /\ ~stop /\ ~inflight /\ (result # Null => head >= result.end))
    BY <1>2, <2>2 DEF FrameKick, BakeInv
  <2> QED BY <2>1, <2>2
<1>3. CASE NoBake
  BY <1>3, NoBakeKeeps DEF BakeInv
<1>4. ASSUME NEW f \in Files, CloseStop(f) PROVE BakeInv'
  BY <1>4 DEF CloseStop, BakeInv
<1>5. CASE CloseJoin
  BY <1>5 DEF CloseJoin, BakeInv
<1>6. CASE BakeStop \/ BakeTake \/ BakeFrame \/ BakeFail \/ BakeClear
  <2>1. CASE BakeStop
    <3>1. wpc = "joining"
      BY <2>1 DEF BakeStop, BakeInv
    <3> QED BY <2>1, <3>1 DEF BakeStop, bakeOnly, BakeInv
  <2>2. CASE BakeTake
    BY <2>2 DEF BakeTake, bakeOnly, BakeInv
  <2>3. CASE BakeFail
    BY <2>3 DEF BakeFail, bakeOnly, BakeInv
  <2>4. CASE BakeClear
    BY <2>4 DEF BakeClear, bakeOnly, BakeInv
  <2>5. CASE BakeFrame
    BY <2>5 DEF BakeFrame, bakeOnly, BakeInv
  <2> QED BY <1>6, <2>1, <2>2, <2>3, <2>4, <2>5
<1>7. CASE BakePublish
  <2>1. CASE stop
    BY <1>7, <2>1 DEF BakePublish, bakeOnly, BakeInv
  <2>2. CASE ~stop
    <3>1. result'.end = baking.end
      BY <1>7, <2>2 DEF BakePublish
    <3> QED BY <1>7, <3>1 DEF BakePublish, bakeOnly, BakeInv
  <2> QED BY <2>1, <2>2
<1> QED BY <1>1, <1>2, <1>3, <1>4, <1>5, <1>6, <1>7 DEF Next, NoBake, Preview, Bake

\* There is one bake at a time (timeline_decoder.cpp, bake_inflight_ and
\* bake_result_).
THEOREM BakesAreOne == Spec => []OneBake
<1>1. Init => TypeOK /\ BakeInv
  BY TypeInit DEF Init, BakeInv
<1>2. TypeOK /\ BakeInv /\ [Next]_vars => (TypeOK /\ BakeInv)'
  BY TypeStep, BakeStep
<1>3. BakeInv => OneBake
  BY DEF BakeInv, OneBake
<1> QED BY <1>1, <1>2, <1>3, PTL DEF Spec
-----------------------------------------------------------------------------
(* The frame cache, whatever is put, asked for and cleared (FrameCache). *)

\* What frames are numbered with: no proof below needs to know what it is.
Numbers == Int

\* The shape of a cache; what it holds is no concern of its bookkeeping.
IsCache(c) ==
    /\ c = [map |-> c.map, lru |-> c.lru, bytes |-> c.bytes]
    /\ c.map = [n \in DOMAIN c.map |-> c.map[n]]
    /\ c.lru \in Seq(Numbers)
    /\ c.bytes \in Nat

\* A number that is used goes to the end and the others keep their order: the
\* list names the same numbers, each once.
LEMMA ToEndPermutes ==
    ASSUME NEW s \in Seq(Numbers), NEW n \in FC!Range(s),
           \A i, j \in 1..Len(s) : s[i] = s[j] => i = j
    PROVE  /\ FC!ToEnd(s, n) \in Seq(Numbers) /\ Len(FC!ToEnd(s, n)) = Len(s)
           /\ FC!Range(FC!ToEnd(s, n)) = FC!Range(s)
           /\ \A i, j \in 1..Len(s) : FC!ToEnd(s, n)[i] = FC!ToEnd(s, n)[j] => i = j
<1> DEFINE k == CHOOSE i \in 1..Len(s) : s[i] = n
           t == [j \in 1..Len(s) |-> IF j < k THEN s[j] ELSE IF j < Len(s) THEN s[j + 1] ELSE n]
<1>1. /\ Len(s) \in Nat /\ DOMAIN s = 1..Len(s) /\ Len(s) >= 1
      /\ \A j \in 1..Len(s) : s[j] \in Numbers
  BY DEF FC!Range
<1>2. k \in 1..Len(s) /\ s[k] = n
  BY <1>1 DEF FC!Range
<1>3. FC!ToEnd(s, n) = t
  BY DEF FC!ToEnd
<1> HIDE DEF k
<1>4. \A j \in 1..Len(s) : t[j] = IF j < k THEN s[j] ELSE IF j < Len(s) THEN s[j + 1] ELSE n
  OBVIOUS
<1>5. t \in Seq(Numbers) /\ Len(t) = Len(s) /\ DOMAIN t = 1..Len(s)
  <2>1. \A j \in 1..Len(s) : t[j] \in Numbers
    BY <1>1, <1>2, <1>4
  <2>2. t \in [1..Len(s) -> Numbers]
    BY <2>1
  <2> QED BY <1>1, <2>2
<1> HIDE DEF t
<1>6. FC!Range(t) \subseteq FC!Range(s)
  <2> SUFFICES ASSUME NEW j \in 1..Len(s) PROVE t[j] \in FC!Range(s)
    BY <1>5 DEF FC!Range
  <2>1. \E i \in 1..Len(s) : t[j] = s[i]
    BY <1>1, <1>2, <1>4
  <2> QED BY <1>1, <2>1 DEF FC!Range
<1>7. FC!Range(s) \subseteq FC!Range(t)
  <2> SUFFICES ASSUME NEW i \in 1..Len(s) PROVE s[i] \in FC!Range(t)
    BY <1>1 DEF FC!Range
  <2>1. CASE i < k
    BY <1>1, <1>2, <1>4, <1>5, <2>1 DEF FC!Range
  <2>2. CASE i = k
    <3>1. Len(s) \in 1..Len(s) /\ t[Len(s)] = n
      BY <1>1, <1>2, <1>4
    <3> QED BY <1>2, <1>5, <2>2, <3>1 DEF FC!Range
  <2>3. CASE i > k
    <3>1. i - 1 \in 1..Len(s) /\ t[i - 1] = s[i]
      BY <1>1, <1>2, <1>4, <2>3
    <3> QED BY <1>5, <3>1 DEF FC!Range
  <2> QED BY <1>1, <1>2, <2>1, <2>2, <2>3
<1>8. \A i, j \in 1..Len(s) : t[i] = t[j] => i = j
  <2> DEFINE from(j) == IF j < k THEN j ELSE IF j < Len(s) THEN j + 1 ELSE k
  <2>1. \A j \in 1..Len(s) : from(j) \in 1..Len(s) /\ t[j] = s[from(j)]
    BY <1>1, <1>2, <1>4
  <2>2. \A i, j \in 1..Len(s) : from(i) = from(j) => i = j
    BY <1>1, <1>2
  <2> HIDE DEF from
  <2> QED BY <2>1, <2>2
<1> QED BY <1>3, <1>5, <1>6, <1>7, <1>8

\* get() of a frame that is there.
LEMMA GotAgrees ==
    ASSUME NEW c, IsCache(c), FC!Agrees(c), NEW n, FC!Has(c, n)
    PROVE  IsCache(FC!Got(c, n)) /\ FC!Agrees(FC!Got(c, n)) /\ FC!Got(c, n).map = c.map
<1>1. n \in FC!Range(c.lru) /\ c.lru \in Seq(Numbers)
  BY DEF FC!Has, IsCache, FC!Agrees
<1>2. /\ FC!ToEnd(c.lru, n) \in Seq(Numbers) /\ Len(FC!ToEnd(c.lru, n)) = Len(c.lru)
      /\ FC!Range(FC!ToEnd(c.lru, n)) = FC!Range(c.lru)
      /\ \A i, j \in 1..Len(c.lru) : FC!ToEnd(c.lru, n)[i] = FC!ToEnd(c.lru, n)[j] => i = j
  BY <1>1, ToEndPermutes DEF FC!Agrees
<1>3. FC!Got(c, n) = [map |-> c.map, lru |-> FC!ToEnd(c.lru, n), bytes |-> c.bytes]
  BY DEF FC!Got, IsCache
<1> QED BY <1>2, <1>3 DEF IsCache, FC!Agrees

\* put() evicts one frame at most, and what it keeps is what was there or put.
LEMMA PutAgrees ==
    ASSUME NEW c, IsCache(c), FC!Agrees(c), NEW n \in Numbers, NEW p
    PROVE  /\ IsCache(FC!Put(c, n, p)) /\ FC!Agrees(FC!Put(c, n, p))
           /\ \A m \in DOMAIN FC!Put(c, n, p).map :
                 \/ m \in DOMAIN c.map /\ FC!Put(c, n, p).map[m] = c.map[m]
                 \/ m = n /\ FC!Put(c, n, p).map[m] = p
<1>1. CASE FrameBytes > MaxBytes \/ FC!Has(c, n)
  BY <1>1 DEF FC!Put, IsCache
<1>2. CASE FrameBytes <= MaxBytes /\ ~FC!Has(c, n)
  <2> DEFINE all == Append(c.lru, n)
             pictures == [m \in DOMAIN c.map \cup {n} |-> IF m = n THEN p ELSE c.map[m]]
             grown == c.bytes + FrameBytes
             over == grown - MaxBytes
             gone == IF over <= 0 THEN 0 ELSE (over + FrameBytes - 1) \div FrameBytes
             kept == SubSeq(all, gone + 1, Len(all))
             left == [m \in FC!Range(kept) |-> pictures[m]]
  <2>0. FrameBytes \in Nat /\ FrameBytes >= 1 /\ MaxBytes \in Nat
    OBVIOUS
  <2>1. FC!Put(c, n, p) = [map |-> left, lru |-> kept, bytes |-> grown - gone * FrameBytes]
    <3> DEFINE full == [map |-> pictures, lru |-> all, bytes |-> grown]
    <3>1. FC!Put(c, n, p) = FC!Evicted(full)
      BY <1>2 DEF FC!Put
    <3>2. full.map = pictures /\ full.lru = all /\ full.bytes = grown
      OBVIOUS
    <3> HIDE DEF full
    <3> QED BY <3>1, <3>2 DEF FC!Evicted
  <2>2. /\ c.lru \in Seq(Numbers) /\ Len(c.lru) \in Nat /\ n \notin FC!Range(c.lru)
        /\ c.bytes \in Nat /\ c.bytes = FrameBytes * Len(c.lru) /\ c.bytes <= MaxBytes
        /\ DOMAIN c.map = FC!Range(c.lru)
        /\ \A i, j \in 1..Len(c.lru) : c.lru[i] = c.lru[j] => i = j
    BY <1>2 DEF FC!Has, IsCache, FC!Agrees
  <2>3. /\ all \in Seq(Numbers) /\ Len(all) = Len(c.lru) + 1 /\ all[Len(all)] = n
        /\ \A i \in 1..Len(c.lru) : all[i] = c.lru[i]
    BY <2>2
  <2>4. gone \in {0, 1} /\ (over <= 0 => gone = 0) /\ (over > 0 => gone = 1) /\ over <= FrameBytes
    <3>1. over \in Int /\ over <= FrameBytes
      BY <2>2, <2>0
    <3>2. CASE over <= 0
      BY <3>1, <3>2
    <3>3. CASE over > 0
      <4>1. (over + FrameBytes - 1) \div FrameBytes = 1
        <5> HIDE DEF over
        <5> QED BY <2>0, <3>1, <3>3
      <4> QED BY <3>1, <3>3, <4>1
    <3> QED BY <3>1, <3>2, <3>3
  <2> HIDE DEF all, gone, over
  <2>5. /\ kept \in Seq(Numbers) /\ Len(kept) = Len(c.lru) + 1 - gone
        /\ \A i \in 1..Len(kept) : kept[i] = all[i + gone]
    BY SMTT(30), <2>2, <2>3, <2>4
  <2> HIDE DEF kept
  <2>6. grown - gone * FrameBytes = FrameBytes * Len(kept)
    <3>1. /\ FrameBytes * (Len(c.lru) + 1) = FrameBytes * Len(c.lru) + FrameBytes
          /\ 0 * FrameBytes = 0 /\ 1 * FrameBytes = FrameBytes
      BY <2>2, <2>0
    <3>2. CASE gone = 0
      <4>1. Len(kept) = Len(c.lru) + 1
        BY <2>2, <2>5, <3>2
      <4>2. gone * FrameBytes = 0
        BY <3>1, <3>2
      <4> QED BY <2>2, <2>0, <3>1, <4>1, <4>2
    <3>3. CASE gone = 1
      <4>1. Len(kept) = Len(c.lru)
        BY <2>2, <2>5, <3>3
      <4>2. gone * FrameBytes = FrameBytes
        BY <3>1, <3>3
      <4> QED BY <2>2, <2>0, <4>1, <4>2
    <3> QED BY <2>4, <3>2, <3>3
  <2>7. grown - gone * FrameBytes <= MaxBytes /\ grown - gone * FrameBytes \in Nat
    <3>1. CASE gone = 0
      BY <2>2, <2>4, <2>0, <3>1 DEF over
    <3>2. CASE gone = 1
      BY <2>2, <2>4, <2>0, <3>2 DEF over
    <3> QED BY <2>4, <3>1, <3>2
  <2>8. \A i, j \in 1..Len(all) : all[i] = all[j] => i = j
    BY SMTT(30), <2>2, <2>3 DEF FC!Range
  <2>9. \A i, j \in 1..Len(kept) : kept[i] = kept[j] => i = j
    <3> SUFFICES ASSUME NEW i \in 1..Len(kept), NEW j \in 1..Len(kept), kept[i] = kept[j]
                 PROVE  i = j
      OBVIOUS
    <3>1. /\ i + gone \in 1..Len(all) /\ j + gone \in 1..Len(all)
          /\ all[i + gone] = all[j + gone]
      BY SMTT(30), <2>2, <2>3, <2>4, <2>5
    <3>2. i + gone = j + gone
      BY <2>8, <3>1
    <3> QED BY <2>4, <2>5, <3>2
  <2>10. \A m \in FC!Range(kept) : m = n \/ m \in DOMAIN c.map
    <3> SUFFICES ASSUME NEW i \in 1..Len(kept) PROVE kept[i] = n \/ kept[i] \in FC!Range(c.lru)
      BY <2>2, <2>5 DEF FC!Range
    <3>1. i + gone \in 1..Len(all)
      BY <2>2, <2>3, <2>4, <2>5
    <3>2. CASE i + gone = Len(all)
      BY <2>3, <2>5, <3>2
    <3>3. CASE i + gone # Len(all)
      <4>1. i + gone \in 1..Len(c.lru)
        BY <2>2, <2>3, <3>1, <3>3
      <4> QED BY SMTT(30), <2>2, <2>3, <2>5, <4>1 DEF FC!Range
    <3> QED BY <3>2, <3>3
  <2>11. /\ left = [m \in DOMAIN left |-> left[m]] /\ DOMAIN left = FC!Range(kept)
         /\ \A m \in DOMAIN left : \/ m \in DOMAIN c.map /\ left[m] = c.map[m]
                                   \/ m = n /\ left[m] = p
    BY <2>10
  <2> HIDE DEF left, grown
  <2> QED BY SMTT(30), <2>1, <2>5, <2>6, <2>7, <2>9, <2>11 DEF IsCache, FC!Agrees
<1> QED BY <1>1, <1>2

\* The empty cache agrees.
LEMMA NewAgrees == IsCache(FC!NewCache) /\ FC!Agrees(FC!NewCache)
<1>1. DOMAIN FC!NewCache.map = {} /\ FC!Range(FC!NewCache.lru) = {} /\ Len(FC!NewCache.lru) = 0
  BY DEF FC!NewCache, FC!Range
<1> QED BY <1>1 DEF FC!NewCache, IsCache, FC!Agrees

\* Whatever is put, asked for and cleared in whatever order, the map and the
\* list name the same frames, each once, and the bytes are theirs and within
\* the limit (frame_cache.cpp, put and evict_locked).
THEOREM CacheAgrees == FC!Spec => []FC!Consistent
<1> DEFINE Inv == IsCache(cache) /\ FC!Agrees(cache)
<1>1. FC!Init => Inv
  BY NewAgrees DEF FC!Init
<1>2. Inv /\ [FC!Next]_cache => Inv'
  <2> SUFFICES ASSUME Inv, [FC!Next]_cache PROVE Inv'
    OBVIOUS
  <2>1. ASSUME NEW n \in Numbers, FC!GetFrame(n) PROVE Inv'
    BY <2>1, GotAgrees DEF FC!GetFrame
  <2>2. ASSUME NEW n \in Numbers, NEW p \in Pictures, FC!PutFrame(n, p) PROVE Inv'
    BY <2>2, PutAgrees DEF FC!PutFrame
  <2>3. CASE FC!Clear
    BY <2>3, NewAgrees DEF FC!Clear
  <2>4. CASE UNCHANGED cache
    BY <2>4
  <2> QED BY <2>1, <2>2, <2>3, <2>4 DEF FC!Next, Numbers
<1>3. Inv => FC!Consistent
  BY DEF FC!Consistent
<1> QED BY <1>1, <1>2, <1>3, PTL DEF FC!Spec
-----------------------------------------------------------------------------
(* The caches of the decoder *)

\* The two caches of a decoder agree with their lists.
CacheOK(c) == IsCache(c) /\ FC!Agrees(c)

PreviewsOK(pv) ==
    /\ pv = [map |-> pv.map, lru |-> pv.lru]
    /\ pv.lru \in Seq(Int) /\ DOMAIN pv.map = FC!Range(pv.lru)
    /\ \A i, j \in 1..Len(pv.lru) : pv.lru[i] = pv.lru[j] => i = j
    /\ Len(pv.lru) <= PreviewMax

\* What they hold is of one file: the frame itself, and for a preview perhaps
\* the one before it.
Holds(c, file) == \A n \in DOMAIN c.map : c.map[n] = <<file, n>>
PreviewsHold(pv, file) == \A n \in DOMAIN pv.map : pv.map[n] \in {<<file, n>>, <<file, n - 1>>}

\* A picture that is right for a frame of the file: it, the one before it, none,
\* or black where the clip is disabled.
Right(pic, file, enabled, n) ==
    pic = Null \/ pic \in {<<file, n>>, <<file, n - 1>>} \/ (~enabled /\ pic = Black)

LEMMA PutKeeps ==
    ASSUME NEW c, CacheOK(c), NEW n \in Int, NEW p
    PROVE  /\ CacheOK(FC!Put(c, n, p))
           /\ \A m \in DOMAIN FC!Put(c, n, p).map :
                 \/ m \in DOMAIN c.map /\ FC!Put(c, n, p).map[m] = c.map[m]
                 \/ m = n /\ FC!Put(c, n, p).map[m] = p
BY PutAgrees DEF CacheOK, Numbers

LEMMA GotKeeps ==
    ASSUME NEW c, CacheOK(c), NEW n, FC!Has(c, n)
    PROVE  CacheOK(FC!Got(c, n)) /\ FC!Got(c, n).map = c.map
BY GotAgrees DEF CacheOK

\* decode at full size gives a right picture and leaves a right cache.
LEMMA DecodedRight ==
    ASSUME NEW c, NEW file, NEW enabled \in BOOLEAN, NEW n \in Int, CacheOK(c), Holds(c, file),
           slot \in {file, Null}, NEW r \in Decoded(c, enabled, n)
    PROVE  CacheOK(r[2]) /\ Holds(r[2], file) /\ Right(r[1], file, enabled, n)
<1>1. CASE ~enabled \/ slot = Null
  BY <1>1 DEF Decoded, Right
<1>2. CASE enabled /\ slot # Null /\ FC!Has(c, n)
  <2>1. r = <<c.map[n], FC!Got(c, n)>>
    BY <1>2 DEF Decoded
  <2>2. c.map[n] = <<file, n>>
    BY <1>2 DEF FC!Has, Holds
  <2> QED BY <1>2, <2>1, <2>2, GotKeeps DEF Holds, Right
<1>3. CASE enabled /\ slot # Null /\ ~FC!Has(c, n)
  <2>1. CASE r = <<Null, c>>
    BY <2>1 DEF Right
  <2>2. CASE r # <<Null, c>>
    <3>1. PICK pic \in DecodedTo(n) : r = <<pic, IF pic[2] = n THEN FC!Put(c, n, pic) ELSE c>>
      BY <1>3, <2>2 DEF Decoded
    <3>2. pic \in {<<file, n>>, <<file, n - 1>>}
      BY <1>3 DEF DecodedTo
    <3>3. CASE pic[2] = n
      <4>1. pic = <<file, n>> /\ r = <<pic, FC!Put(c, n, pic)>>
        BY <3>1, <3>2, <3>3
      <4>2. Holds(FC!Put(c, n, pic), file)
        BY <4>1, PutKeeps DEF Holds
      <4> QED BY <4>1, <4>2, PutKeeps DEF Right
    <3>4. CASE pic[2] # n
      BY <3>1, <3>2, <3>4 DEF Right
    <3> QED BY <3>3, <3>4
  <2> QED BY <2>1, <2>2
<1> QED BY <1>1, <1>2, <1>3

LEMMA UsedKeeps ==
    ASSUME NEW pv, PreviewsOK(pv), NEW n \in DOMAIN pv.map
    PROVE  PreviewsOK(Used(pv, n)) /\ Used(pv, n).map = pv.map
<1>1. /\ n \in FC!Range(pv.lru) /\ pv.lru \in Seq(Numbers)
      /\ \A i, j \in 1..Len(pv.lru) : pv.lru[i] = pv.lru[j] => i = j
  BY DEF PreviewsOK, Numbers
<1>2. /\ FC!ToEnd(pv.lru, n) \in Seq(Numbers) /\ Len(FC!ToEnd(pv.lru, n)) = Len(pv.lru)
      /\ FC!Range(FC!ToEnd(pv.lru, n)) = FC!Range(pv.lru)
      /\ \A i, j \in 1..Len(pv.lru) :
            FC!ToEnd(pv.lru, n)[i] = FC!ToEnd(pv.lru, n)[j] => i = j
  BY <1>1, ToEndPermutes
<1>3. Used(pv, n) = [map |-> pv.map, lru |-> FC!ToEnd(pv.lru, n)]
  BY DEF Used, PreviewsOK
<1>4. FC!ToEnd(pv.lru, n) \in Seq(Int)
  BY <1>2 DEF Numbers
<1>5. PICK l \in Seq(Int) : /\ Used(pv, n) = [map |-> pv.map, lru |-> l]
                            /\ Len(l) = Len(pv.lru) /\ FC!Range(l) = FC!Range(pv.lru)
                            /\ \A i, j \in 1..Len(pv.lru) : l[i] = l[j] => i = j
  BY <1>2, <1>3, <1>4
<1>6. Used(pv, n).map = pv.map /\ Used(pv, n).lru = l
  BY <1>5
<1>7. DOMAIN pv.map = FC!Range(pv.lru) /\ Len(pv.lru) <= PreviewMax
  BY DEF PreviewsOK
<1> QED BY <1>5, <1>6, <1>7 DEF PreviewsOK

LEMMA KeptKeeps ==
    ASSUME NEW pv, PreviewsOK(pv), NEW n \in Int, n \notin DOMAIN pv.map, NEW pic
    PROVE  /\ PreviewsOK(Kept(pv, n, pic))
           /\ \A m \in DOMAIN Kept(pv, n, pic).map :
                 \/ m \in DOMAIN pv.map /\ Kept(pv, n, pic).map[m] = pv.map[m]
                 \/ m = n /\ Kept(pv, n, pic).map[m] = pic
<1> DEFINE all == Append(pv.lru, n)
           lru == IF Len(all) > PreviewMax THEN Tail(all) ELSE all
           left == [m \in FC!Range(lru) |-> IF m = n THEN pic ELSE pv.map[m]]
<1>1. Kept(pv, n, pic) = [map |-> left, lru |-> lru]
  BY DEF Kept, Range, FC!Range
<1>2. /\ pv.lru \in Seq(Int) /\ Len(pv.lru) \in Nat /\ DOMAIN pv.map = FC!Range(pv.lru)
      /\ Len(pv.lru) <= PreviewMax /\ PreviewMax \in Nat
      /\ \A i, j \in 1..Len(pv.lru) : pv.lru[i] = pv.lru[j] => i = j
  BY DEF PreviewsOK
<1>3. /\ all \in Seq(Int) /\ Len(all) = Len(pv.lru) + 1 /\ all[Len(all)] = n
      /\ \A i \in 1..Len(pv.lru) : all[i] = pv.lru[i]
  BY <1>2
<1> HIDE DEF all
<1>4. \A i, j \in 1..Len(all) : all[i] = all[j] => i = j
  <2>1. \A i \in 1..Len(pv.lru) : all[i] # n
    <3>1. DOMAIN pv.lru = 1..Len(pv.lru) /\ n \notin FC!Range(pv.lru)
      BY <1>2
    <3>2. \A i \in 1..Len(pv.lru) : pv.lru[i] # n
      BY <3>1 DEF FC!Range
    <3> QED BY <1>3, <3>2
  <2>2. 1..Len(all) = (1..Len(pv.lru)) \cup {Len(all)}
    BY SMTT(30), <1>2, <1>3
  <2>3. \A i, j \in 1..Len(pv.lru) : all[i] = all[j] => i = j
    BY <1>2, <1>3
  <2> QED BY <1>3, <2>1, <2>2, <2>3
<1>5. \E k \in {0, 1} : /\ lru \in Seq(Int) /\ Len(lru) = Len(all) - k /\ Len(lru) <= PreviewMax
                        /\ \A i \in 1..Len(lru) : i + k \in 1..Len(all) /\ lru[i] = all[i + k]
  <2>1. CASE Len(all) > PreviewMax
    <3>1. all # <<>>
      BY <1>2, <1>3
    <3>2. /\ Tail(all) \in Seq(Int) /\ Len(Tail(all)) = Len(all) - 1
          /\ \A i \in 1..Len(Tail(all)) : i + 1 \in 1..Len(all) /\ Tail(all)[i] = all[i + 1]
      BY <1>2, <1>3, <3>1
    <3> QED BY <1>2, <1>3, <2>1, <3>2
  <2>2. CASE Len(all) <= PreviewMax
    <3>1. lru = all
      BY <1>2, <1>3, <2>2
    <3> QED BY <1>2, <1>3, <2>2, <3>1
  <2> QED BY SMTT(30), <1>2, <1>3, <2>1, <2>2
<1>6. PICK k \in {0, 1} : /\ lru \in Seq(Int) /\ Len(lru) = Len(all) - k /\ Len(lru) <= PreviewMax
                          /\ \A i \in 1..Len(lru) : i + k \in 1..Len(all) /\ lru[i] = all[i + k]
  BY <1>5
<1> HIDE DEF lru
<1>7. \A i, j \in 1..Len(lru) : lru[i] = lru[j] => i = j
  <2> SUFFICES ASSUME NEW i \in 1..Len(lru), NEW j \in 1..Len(lru), lru[i] = lru[j]
               PROVE  i = j
    OBVIOUS
  <2>1. i + k = j + k
    BY SMTT(30), <1>4, <1>6
  <2>2. Len(lru) \in Nat
    BY <1>6
  <2>3. i \in Int /\ j \in Int /\ k \in Int
    BY <2>2
  <2> HIDE DEF left
  <2> QED BY <2>1, <2>3
<1>8. \A m \in FC!Range(lru) : m = n \/ m \in DOMAIN pv.map
  <2> SUFFICES ASSUME NEW i \in 1..Len(lru) PROVE lru[i] = n \/ lru[i] \in FC!Range(pv.lru)
    BY <1>2, <1>6 DEF FC!Range
  <2>1. i + k \in 1..Len(all) /\ lru[i] = all[i + k]
    BY <1>6
  <2>2. CASE i + k = Len(all)
    BY <1>3, <2>1, <2>2
  <2>3. CASE i + k # Len(all)
    <3>1. i + k \in 1..Len(pv.lru)
      BY SMTT(30), <1>2, <1>3, <2>1, <2>3
    <3>2. lru[i] = pv.lru[i + k]
      BY <1>3, <2>1, <3>1
    <3>3. DOMAIN pv.lru = 1..Len(pv.lru)
      BY <1>2
    <3> QED BY <3>1, <3>2, <3>3 DEF FC!Range
  <2> QED BY <2>2, <2>3
<1>9. /\ DOMAIN left = FC!Range(lru)
      /\ \A m \in DOMAIN left : \/ m \in DOMAIN pv.map /\ left[m] = pv.map[m]
                                \/ m = n /\ left[m] = pic
  BY <1>8
<1> HIDE DEF left
<1> QED BY SMTT(30), <1>1, <1>6, <1>7, <1>9 DEF PreviewsOK

\* decode for a preview, likewise.
LEMMA PreviewedRight ==
    ASSUME NEW pv, NEW file, NEW enabled \in BOOLEAN, NEW n \in Int, PreviewsOK(pv),
           PreviewsHold(pv, file), slot \in {file, Null}, NEW r \in Previewed(pv, enabled, n)
    PROVE  PreviewsOK(r[2]) /\ PreviewsHold(r[2], file) /\ Right(r[1], file, enabled, n)
<1>1. CASE ~enabled \/ slot = Null
  BY <1>1 DEF Previewed, Right
<1>2. CASE enabled /\ slot # Null /\ n \in DOMAIN pv.map
  <2>1. r = <<pv.map[n], Used(pv, n)>>
    BY <1>2 DEF Previewed
  <2>2. pv.map[n] \in {<<file, n>>, <<file, n - 1>>}
    BY <1>2 DEF PreviewsHold
  <2> QED BY <1>2, <2>1, <2>2, UsedKeeps DEF PreviewsHold, Right
<1>3. CASE enabled /\ slot # Null /\ n \notin DOMAIN pv.map
  <2>1. CASE r = <<Null, pv>>
    BY <2>1 DEF Right
  <2>2. CASE r # <<Null, pv>>
    <3>1. PICK pic \in DecodedTo(n) : r = <<pic, Kept(pv, n, pic)>>
      BY <1>3, <2>2 DEF Previewed
    <3>2. pic \in {<<file, n>>, <<file, n - 1>>}
      BY <1>3 DEF DecodedTo
    <3>3. PreviewsHold(Kept(pv, n, pic), file)
      BY <1>3, <3>2, KeptKeeps DEF PreviewsHold
    <3> QED BY <1>3, <3>1, <3>2, <3>3, KeptKeeps DEF Right
  <2> QED BY <2>1, <2>2
<1> QED BY <1>1, <1>2, <1>3

LEMMA DivFacts ==
    ASSUME NEW a \in Int, NEW d \in Nat, d > 0
    PROVE  a \div d \in Int /\ d * (a \div d) <= a /\ a < d * (a \div d) + d
  OBVIOUS

LEMMA DivStep ==
    ASSUME NEW a \in Int, NEW b \in Int, NEW d \in Nat, d > 0, NEW k \in {0, 1}, a + k * d <= b
    PROVE  (a \div d) + k <= b \div d
<1> DEFINE p == a \div d
           q == b \div d
<1>1. /\ p \in Int /\ d * p <= a /\ a < d * p + d
      /\ q \in Int /\ d * q <= b /\ b < d * q + d
  BY DivFacts
<1> HIDE DEF p, q
<1> SUFFICES ASSUME ~(p + k <= q) PROVE FALSE
  BY DEF p, q
<1>2. q + 1 <= p + k
  BY <1>1
<1>3. d * (q + 1) <= d * (p + k)
  BY <1>1, <1>2
<1>4. d * (q + 1) = d * q + d /\ d * (p + k) = d * p + d * k /\ d * k = k * d
  BY <1>1
<1> QED BY <1>1, <1>3, <1>4

\* The pace of a medium: a position further on is no frame further back, and of
\* a medium that is no slower than the sequence a frame of its own.
LEMMA ScaledSteps ==
    ASSUME NEW n \in Int, NEW of \in Nat, NEW per \in Nat, of > 0, per > 0
    PROVE  /\ Scaled(n, of, per) \in Int
           /\ n >= 0 => /\ Scaled(n, of, per) <= Scaled(n + 1, of, per)
                        /\ of >= per => Scaled(n, of, per) + 1 <= Scaled(n + 1, of, per)
<1> DEFINE at(m) == 2 * m * of + per
           d == 2 * per
<1>1. d \in Nat /\ d > 0
  OBVIOUS
<1>2. \A m \in Int : at(m) \in Int /\ at(m) \div d \in Int
  <2> SUFFICES ASSUME NEW m \in Int PROVE at(m) \in Int /\ at(m) \div d \in Int
    OBVIOUS
  <2>1. at(m) \in Int
    OBVIOUS
  <2> HIDE DEF at, d
  <2> QED BY <1>1, <2>1, DivFacts
<1>3. Scaled(n, of, per) \in Int
  <2>1. at(n) \div d \in Int /\ at(-n) \div d \in Int
    BY <1>2
  <2> QED BY <2>1 DEF Scaled
<1>4. CASE n >= 0
  <2>1. Scaled(n, of, per) = at(n) \div d /\ Scaled(n + 1, of, per) = at(n + 1) \div d
    BY <1>4 DEF Scaled
  <2>2. at(n + 1) = at(n) + 2 * of
    OBVIOUS
  <2>3. at(n) \in Int /\ at(n + 1) \in Int
    BY <1>2
  <2>4. of >= per => d <= 2 * of
    OBVIOUS
  <2> HIDE DEF at, d
  <2>5. at(n) \div d <= at(n + 1) \div d
    <3>1. at(n) + 0 * d <= at(n + 1)
      BY <1>1, <2>2, <2>3
    <3>2. (at(n) \div d) + 0 <= at(n + 1) \div d
      BY <1>1, <2>3, <3>1, DivStep
    <3> QED BY <1>2, <3>2
  <2>6. of >= per => (at(n) \div d) + 1 <= at(n + 1) \div d
    <3> SUFFICES ASSUME of >= per PROVE (at(n) \div d) + 1 <= at(n + 1) \div d
      OBVIOUS
    <3>1. at(n) + 1 * d <= at(n + 1)
      BY <1>1, <2>2, <2>3, <2>4
    <3> QED BY <1>1, <2>3, <3>1, DivStep
  <2> QED BY <1>3, <2>1, <2>5, <2>6
<1> QED BY <1>3, <1>4

LEMMA ScaledNumbers ==
    ASSUME NEW n \in Int, NEW of \in Nat, NEW per \in Nat, of > 0, per > 0
    PROVE  Scaled(n, of, per) \in Int
BY ScaledSteps

LEMMA MediaFrames ==
    ASSUME NEW file \in Files, NEW src \in Nat, NEW n \in Int
    PROVE  /\ MediaFrame(file, src, n) \in Int
           /\ n >= 0 => /\ MediaFrame(file, src, n) <= MediaFrame(file, src, n + 1)
                        /\ ~(Fps[file] < SeqFps) =>
                              MediaFrame(file, src, n) + 1 <= MediaFrame(file, src, n + 1)
<1> DEFINE now == Scaled(n, Fps[file], SeqFps)
           then == Scaled(n + 1, Fps[file], SeqFps)
<1>1. Fps[file] \in Nat /\ Fps[file] > 0 /\ SeqFps \in Nat /\ SeqFps > 0
  OBVIOUS
<1>2. now \in Int /\ then \in Int
  <2>1. n + 1 \in Int
    OBVIOUS
  <2> QED BY <1>1, <2>1, ScaledNumbers
<1>3. n >= 0 => now <= then /\ (Fps[file] >= SeqFps => now + 1 <= then)
  BY <1>1, ScaledSteps
<1>4. MediaFrame(file, src, n) = src + now /\ MediaFrame(file, src, n + 1) = src + then
  BY DEF MediaFrame
<1> HIDE DEF now, then
<1> QED BY <1>1, <1>2, <1>3, <1>4

LEMMA MediaNumbers ==
    ASSUME NEW file \in Files, NEW src \in Nat, NEW n \in Int
    PROVE  MediaFrame(file, src, n) \in Int
BY MediaFrames

\* The frames that are asked for are numbers.
LEMMA FramesAreNumbers ==
    ASSUME NEW p \in Projects, NEW f \in Nat
    PROVE  AFrame(p, f) \in Int /\ TopFrame(p, f) \in Int /\ BFrameIn(p, f) \in Int
<1>1. p.file \in Files /\ p.a.src \in Nat /\ p.b \in Nat /\ Cut \in Nat
  BY DEF Projects
<1>2. AFrame(p, f) \in Int
  BY <1>1, MediaFrames DEF AFrame
<1>3. \A g \in Int : BFrame(p, g) \in Int
  BY <1>1, MediaFrames DEF BFrame
<1>4. BSeq(p.file, f) \in Int
  <2>1. f - Cut \in Int /\ Fps[p.file] \in Nat /\ Fps[p.file] > 0 /\ SeqFps \in Nat /\ SeqFps > 0
    BY <1>1
  <2>2. Scaled(f - Cut, SeqFps, Fps[p.file]) \in Int
    BY <2>1, ScaledSteps
  <2> QED BY <1>1, <2>2 DEF BSeq
<1> QED BY <1>2, <1>3, <1>4 DEF TopFrame, BFrameIn
-----------------
(* One medium *)

\* The caches agree, and outside close() all there is is of the file of the
\* project.
Medium ==
    /\ CacheOK(cache) /\ PreviewsOK(previews)
    /\ wpc # "joining" =>
          /\ slot \in {proj.file, Null} /\ bSlot \in {proj.file, Null}
          /\ Holds(cache, proj.file) /\ PreviewsHold(previews, proj.file)
          /\ job # Null => job.file = proj.file
          /\ baking # Null => baking.file = proj.file
          /\ result # Null => result.file = proj.file

LEMMA EmptyCaches ==
    /\ CacheOK(FC!NewCache) /\ PreviewsOK(NoPreviews)
    /\ \A file : Holds(FC!NewCache, file) /\ PreviewsHold(NoPreviews, file)
<1>1. IsCache(FC!NewCache) /\ FC!Agrees(FC!NewCache)
  BY NewAgrees
<1>2. DOMAIN FC!NewCache.map = {}
  BY DEF FC!NewCache
<1>3. /\ DOMAIN NoPreviews.map = {} /\ NoPreviews.lru = <<>> /\ Len(NoPreviews.lru) = 0
      /\ FC!Range(NoPreviews.lru) = {} /\ NoPreviews.lru \in Seq(Int)
      /\ NoPreviews = [map |-> NoPreviews.map, lru |-> NoPreviews.lru]
  BY DEF NoPreviews, FC!Range
<1> QED BY <1>1, <1>2, <1>3 DEF CacheOK, PreviewsOK, Holds, PreviewsHold

LEMMA MediumInit == Init => Medium
<1> SUFFICES ASSUME Init PROVE Medium
  OBVIOUS
<1>1. /\ slot = proj.file /\ bSlot = Null /\ cache = FC!NewCache /\ previews = NoPreviews
      /\ job = Null /\ baking = Null /\ result = Null
  BY DEF Init
<1> QED BY <1>1, EmptyCaches DEF Medium

\* What a call decodes at full size leaves the cache right.
LEMMA RgbaRight ==
    ASSUME TypeOK, Medium, ServeRgba
    PROVE  /\ CacheOK(cache') /\ Holds(cache', proj.file)
           /\ out'.at = head /\ out'.baked = FALSE
           /\ Right(out'.a, proj.file, TopOn(proj, head), TopFrame(proj, head))
           /\ out'.b = Null \/ Right(out'.b, proj.file, TRUE, BFrameIn(proj, head))
<1>1. proj \in Projects /\ head \in Nat /\ TopOn(proj, head) \in BOOLEAN
  BY DEF ServeRgba, TypeOK, Projects, TopOn
<1>2. TopFrame(proj, head) \in Int /\ BFrameIn(proj, head) \in Int
  BY <1>1, FramesAreNumbers
<1>3. slot \in {proj.file, Null} /\ CacheOK(cache) /\ Holds(cache, proj.file)
  BY DEF ServeRgba, Medium
<1>4. PICK a \in Decoded(cache, TopOn(proj, head), TopFrame(proj, head)) :
           \E b \in IF InTransition(proj, head)
                    THEN Decoded(a[2], TRUE, BFrameIn(proj, head)) ELSE {<<Null, a[2]>>} :
              out' = Result(head, a[1], b[1], FALSE) /\ cache' = b[2]
  BY DEF ServeRgba
<1>5. PICK b \in (IF InTransition(proj, head)
                  THEN Decoded(a[2], TRUE, BFrameIn(proj, head)) ELSE {<<Null, a[2]>>}) :
              out' = Result(head, a[1], b[1], FALSE) /\ cache' = b[2]
  BY <1>4
<1>6. /\ CacheOK(a[2]) /\ Holds(a[2], proj.file)
      /\ Right(a[1], proj.file, TopOn(proj, head), TopFrame(proj, head))
  BY <1>1, <1>2, <1>3, <1>4, DecodedRight
<1>7. /\ CacheOK(b[2]) /\ Holds(b[2], proj.file)
      /\ b[1] = Null \/ Right(b[1], proj.file, TRUE, BFrameIn(proj, head))
  <2>1. CASE InTransition(proj, head)
    <3>1. b \in Decoded(a[2], TRUE, BFrameIn(proj, head))
      BY <1>5, <2>1
    <3>2. CacheOK(b[2]) /\ Holds(b[2], proj.file)
              /\ Right(b[1], proj.file, TRUE, BFrameIn(proj, head))
      BY <1>2, <1>3, <1>6, <3>1, DecodedRight
    <3> QED BY <3>2
  <2>2. CASE ~InTransition(proj, head)
    <3>1. b = <<Null, a[2]>>
      BY <1>5, <2>2
    <3>2. b[1] = Null /\ b[2] = a[2]
      BY <3>1
    <3> QED BY <1>6, <3>2
  <2> QED BY <2>1, <2>2
<1> QED BY <1>6, <1>7, <1>5 DEF Result

LEMMA PreviewRight ==
    ASSUME TypeOK, Medium, NEW f \in Scrubs, PreviewRgba(f)
    PROVE  /\ PreviewsOK(previews') /\ PreviewsHold(previews', proj.file)
           /\ out'.at = f /\ out'.baked = FALSE
           /\ out'.a = Black \/ Right(out'.a, proj.file, TopOn(proj, f), TopFrame(proj, f))
           /\ out'.b = Null \/ Right(out'.b, proj.file, TRUE, BFrameIn(proj, f))
<1> DEFINE Shown(a, b) ==
             [Result(f, a[1], b[1], FALSE) EXCEPT !.a = IF @ = Null THEN Black ELSE @]
<1>1. proj \in Projects /\ f \in Nat /\ TopOn(proj, f) \in BOOLEAN
  BY DEF TypeOK, Projects, TopOn
<1>2. TopFrame(proj, f) \in Int /\ BFrameIn(proj, f) \in Int
  BY <1>1, FramesAreNumbers
<1>3. slot \in {proj.file, Null} /\ PreviewsOK(previews) /\ PreviewsHold(previews, proj.file)
  BY DEF PreviewRgba, Medium
<1>4. PICK a \in Previewed(previews, TopOn(proj, f), TopFrame(proj, f)) :
           \E b \in IF InTransition(proj, f)
                    THEN Previewed(a[2], TRUE, BFrameIn(proj, f)) ELSE {<<Null, a[2]>>} :
              out' = Shown(a, b) /\ previews' = b[2]
  BY DEF PreviewRgba
<1>5. PICK b \in (IF InTransition(proj, f)
                  THEN Previewed(a[2], TRUE, BFrameIn(proj, f)) ELSE {<<Null, a[2]>>}) :
              out' = Shown(a, b) /\ previews' = b[2]
  BY <1>4
<1>6. /\ PreviewsOK(a[2]) /\ PreviewsHold(a[2], proj.file)
      /\ Right(a[1], proj.file, TopOn(proj, f), TopFrame(proj, f))
  BY <1>1, <1>2, <1>3, <1>4, PreviewedRight
<1>7. /\ PreviewsOK(b[2]) /\ PreviewsHold(b[2], proj.file)
      /\ b[1] = Null \/ Right(b[1], proj.file, TRUE, BFrameIn(proj, f))
  <2>1. CASE InTransition(proj, f)
    <3>1. b \in Previewed(a[2], TRUE, BFrameIn(proj, f))
      BY <1>5, <2>1
    <3>2. PreviewsOK(b[2]) /\ PreviewsHold(b[2], proj.file)
              /\ Right(b[1], proj.file, TRUE, BFrameIn(proj, f))
      BY <1>2, <1>3, <1>6, <3>1, PreviewedRight
    <3> QED BY <3>2
  <2>2. CASE ~InTransition(proj, f)
    <3>1. b = <<Null, a[2]>>
      BY <1>5, <2>2
    <3>2. b[1] = Null /\ b[2] = a[2]
      BY <3>1
    <3> QED BY <1>6, <3>2
  <2> QED BY <2>1, <2>2
<1>8. /\ out'.at = f /\ out'.baked = FALSE /\ out'.b = b[1]
      /\ out'.a = Black \/ out'.a = a[1]
  BY <1>5 DEF Result
<1> QED BY <1>5, <1>6, <1>7, <1>8

\* A project of the same file.
Edited == EditClips \/ CommitGrade \/ UndoGrade \/ ReopenProject

LEMMA EditedKeeps ==
    ASSUME TypeOK, Edited
    PROVE  /\ proj'.file = proj.file /\ out' = Null
           /\ wpc = "idle" /\ wpc' = wpc
           /\ slot' = slot /\ bSlot' = bSlot /\ cache' = cache /\ previews' = previews
           /\ luts' = luts /\ job' = job /\ baking' = baking /\ result' = result
           /\ bpc' = bpc
<1>1. /\ out' = Null /\ wpc = "idle" /\ wpc' = wpc
      /\ slot' = slot /\ bSlot' = bSlot /\ cache' = cache /\ previews' = previews
      /\ luts' = luts /\ job' = job /\ baking' = baking /\ result' = result /\ bpc' = bpc
  BY DEF Edited, EditClips, CommitGrade, UndoGrade, ReopenProject, Swap, keptVars, bakeVars
<1>2. proj'.file = proj.file
  <2>1. CASE EditClips
    BY <2>1 DEF EditClips, Swap
  <2>2. ASSUME NEW g, proj' = [proj EXCEPT !.a.grade = g] PROVE proj'.file = proj.file
    BY <2>2 DEF TypeOK, Projects
  <2>3. CASE CommitGrade
    BY <2>3, <2>2 DEF CommitGrade, Swap
  <2>4. CASE UndoGrade
    BY <2>4, <2>2 DEF UndoGrade, Swap
  <2>5. CASE ReopenProject
    BY <2>5, <2>2 DEF ReopenProject, Swap
  <2> QED BY <2>1, <2>3, <2>4, <2>5 DEF Edited
<1> QED BY <1>1, <1>2

LEMMA MediumStep == TypeOK /\ BakeInv /\ Medium /\ [Next]_vars => Medium'
<1> SUFFICES ASSUME TypeOK, BakeInv, Medium, [Next]_vars PROVE Medium'
  OBVIOUS
<1>1. ASSUME NEW f \in Playheads, FrameAdopt(f) PROVE Medium'
  BY <1>1 DEF FrameAdopt, Medium
<1>2. ASSUME NEW f \in Scrubs, Preview(f) PROVE Medium'
  <2>1. UNCHANGED <<proj, slot, cache, wpc, job, baking, result>> /\ wpc = "idle"
    BY <1>2 DEF Preview, PreviewNv12, PreviewRgba, bakeVars
  <2>2. bSlot' \in {bSlot, proj.file, Null}
    BY <1>2 DEF Preview, PreviewNv12, PreviewRgba, OnGpu, NotOnGpu, BSlotOpen
  <2>3. PreviewsOK(previews') /\ PreviewsHold(previews', proj.file)
    <3>1. CASE PreviewNv12(f)
      BY <3>1 DEF PreviewNv12, Medium
    <3>2. CASE PreviewRgba(f)
      BY <3>2, PreviewRight
    <3> QED BY <1>2, <3>1, <3>2 DEF Preview
  <2> QED BY <2>1, <2>2, <2>3 DEF Medium
<1>3. CASE FrameKick
  <2>1. UNCHANGED <<proj, slot, bSlot, cache, previews, baking, result>>
    BY <1>3 DEF FrameKick, keptVars
  <2>2. wpc = "kick" /\ (job' = job \/ job'.file = proj.file)
    BY <1>3 DEF FrameKick, Job
  <2> QED BY <2>1, <2>2 DEF Medium
<1>4. CASE ServeBaked
  BY <1>4 DEF ServeBaked, bakeVars, Medium
<1>5. CASE ServeNv12
  <2>1. UNCHANGED <<proj, slot, cache, previews, job, baking, result>> /\ wpc = "serve"
    BY <1>5 DEF ServeNv12, bakeVars
  <2>2. bSlot' \in {bSlot, proj.file, Null}
    BY <1>5 DEF ServeNv12, OnGpu, BSlotOpen
  <2> QED BY <2>1, <2>2 DEF Medium
<1>6. CASE ServeRgba
  <2>1. UNCHANGED <<proj, slot, previews, job, baking, result>> /\ wpc = "serve"
    BY <1>6 DEF ServeRgba, bakeVars
  <2>2. bSlot' \in {bSlot, proj.file, Null}
    BY <1>6 DEF ServeRgba, NotOnGpu, BSlotOpen
  <2>3. CacheOK(cache') /\ Holds(cache', proj.file)
    BY <1>6, RgbaRight
  <2> QED BY <2>1, <2>2, <2>3 DEF Medium
<1>7. CASE Edited
  BY <1>7, EditedKeeps DEF Medium
<1>8. ASSUME NEW f \in Files, CloseStop(f) PROVE Medium'
  BY <1>8 DEF CloseStop, keptVars, Medium
<1>9. CASE CloseJoin
  <2>1. baking = Null
    BY <1>9 DEF CloseJoin, BakeInv
  <2>2. /\ slot' \in {proj.file, Null} /\ bSlot' = Null /\ cache' = FC!NewCache
        /\ previews' = NoPreviews /\ job' = Null /\ result' = Null
        /\ proj' = proj /\ baking' = baking
    BY <1>9 DEF CloseJoin
  <2> QED BY <2>1, <2>2, EmptyCaches DEF Medium
<1>10. CASE BakeStop \/ BakeTake \/ BakeFrame \/ BakeFail \/ BakeClear
  BY <1>10 DEF BakeStop, BakeTake, BakeFrame, BakeFail, BakeClear, bakeOnly, keptVars, Medium
<1>11. CASE BakePublish
  <2>1. UNCHANGED <<proj, wpc, slot, bSlot, cache, previews, job, baking>>
    BY <1>11 DEF BakePublish, bakeOnly, keptVars
  <2>2. result' = result \/ (baking # Null /\ result'.file = baking.file)
    BY <1>11 DEF BakePublish, BakeInv
  <2> QED BY <2>1, <2>2 DEF Medium
<1>12. CASE UNCHANGED vars
  BY <1>12 DEF vars, keptVars, bakeVars, Medium
<1> QED
  BY <1>1, <1>2, <1>3, <1>4, <1>5, <1>6, <1>7, <1>8, <1>9, <1>10, <1>11, <1>12
  DEF Next, Serve, Bake, Edited, Preview

LEMMA DecoderSafe == Spec => [](TypeOK /\ BakeInv /\ Medium)
<1>1. Init => TypeOK /\ BakeInv /\ Medium
  BY TypeInit, MediumInit DEF Init, BakeInv
<1>2. TypeOK /\ BakeInv /\ Medium /\ [Next]_vars => (TypeOK /\ BakeInv /\ Medium)'
  BY TypeStep, BakeStep, MediumStep
<1> QED BY <1>1, <1>2, PTL DEF Spec

\* Whatever the worker asks for and in whatever order, the frame cache and the
\* preview cache agree with the lists they evict by and stay within their
\* limits (frame_cache.cpp, and timeline_decoder.cpp, preview_cache_).
THEOREM CachesAgree == Spec => []CachesConsistent
<1>1. Medium => CachesConsistent
  <2> SUFFICES ASSUME Medium PROVE CachesConsistent
    OBVIOUS
  <2>1. FC!Consistent
    BY DEF Medium, CacheOK, FC!Consistent, FC!Agrees, FC!Range
  <2>2. /\ previews.lru \in Seq(Int) /\ DOMAIN previews.map = FC!Range(previews.lru)
        /\ \A i, j \in 1..Len(previews.lru) : previews.lru[i] = previews.lru[j] => i = j
        /\ Len(previews.lru) <= PreviewMax
    BY DEF Medium, PreviewsOK
  <2>3. DOMAIN previews.lru = 1..Len(previews.lru)
    BY <2>2
  <2> QED BY <2>1, <2>2, <2>3 DEF CachesConsistent, Range, FC!Range
<1> QED BY <1>1, DecoderSafe, PTL

\* Nothing of a medium that was closed is shown, kept or baked, however late the
\* bake thread publishes (timeline_decoder.cpp, close and bake_loop).
THEOREM OneMediumOnly == Spec => []OneMedium
<1>1. Medium => OneMedium
  BY DEF Medium, OneMedium, Holds, PreviewsHold
<1> QED BY <1>1, DecoderSafe, PTL
-----------------------------------------------------------------------------
(* The look *)

\* A look that has a change_seq is known under it, in the project and in
\* grade_lut_cache_.
LooksKept ==
    /\ proj.a.grade.seq # 0 => proj.a.grade.look = proj.a.grade.seq
    /\ \A q \in DOMAIN luts : q # 0 => luts[q] = q

LookInv == LooksKept /\ LookOfProject

LEMMA LookRight ==
    ASSUME LooksKept
    PROVE  /\ proj.a.grade.seq # 0 => Look(proj, luts) \in {0, proj.a.grade.look}
           /\ \A q \in DOMAIN Learnt(proj, luts) : q # 0 => Learnt(proj, luts)[q] = q
<1>1. proj.a.grade.seq # 0 => Look(proj, luts) \in {0, proj.a.grade.look}
  BY DEF LooksKept, Look
<1>2. CASE proj.a.grade.look = 0
  BY <1>1, <1>2 DEF Learnt, LooksKept
<1>3. CASE proj.a.grade.look # 0
  <2>1. Learnt(proj, luts) =
          [q \in DOMAIN luts \cup {proj.a.grade.seq} |->
             IF q = proj.a.grade.seq THEN Look(proj, luts) ELSE luts[q]]
    BY <1>3 DEF Learnt
  <2>2. proj.a.grade.seq # 0 => Look(proj, luts) = proj.a.grade.seq
    BY <1>3 DEF Look, LooksKept
  <2> QED BY <1>1, <2>1, <2>2 DEF LooksKept
<1> QED BY <1>2, <1>3

LEMMA LookStep == TypeOK /\ LookInv /\ [Next]_vars => LookInv'
<1> SUFFICES ASSUME TypeOK, LookInv, [Next]_vars PROVE LookInv'
  OBVIOUS
<1> USE DEF LookInv
<1>1. CASE ServeBaked \/ ServeNv12 \/ ServeRgba
  <2>1. proj' = proj /\ luts' \in {luts, Learnt(proj, luts)}
    BY <1>1 DEF ServeBaked, ServeNv12, OnGpu, ServeRgba, Graded
  <2>2. \E a, b, k : out' = Result(head, a, b, k)
    BY <1>1 DEF ServeBaked, ServeNv12, OnGpu, ServeRgba
  <2>3. out'.look \in {0, Look(proj, luts)}
    BY <2>2 DEF Result
  <2> QED BY <2>1, <2>3, LookRight DEF LooksKept, LookOfProject
<1>2. ASSUME NEW f \in Scrubs, Preview(f) PROVE LookInv'
  <2>1. proj' = proj /\ luts' \in {luts, Learnt(proj, luts)}
    BY <1>2 DEF Preview, PreviewNv12, PreviewRgba, OnGpu, Graded
  <2>2. out'.look \in {0, Look(proj, luts)}
    <3>1. \A g, a, b, k : Result(g, a, b, k).look \in {0, Look(proj, luts)}
      BY DEF Result
    <3>2. CASE PreviewNv12(f)
      BY <3>1, <3>2 DEF PreviewNv12, OnGpu
    <3>3. CASE PreviewRgba(f)
      <4>1. \E a, b, c : out' = [Result(f, a, b, FALSE) EXCEPT !.a = c]
        <5>1. \E a, b : out' = [Result(f, a, b, FALSE) EXCEPT !.a = IF @ = Null THEN Black ELSE @]
          BY <3>3, Zenon DEF PreviewRgba
        <5> QED BY <5>1
      <4>2. PICK a, b, c : out' = [Result(f, a, b, FALSE) EXCEPT !.a = c]
        BY <4>1
      <4>3. out'.look = Result(f, a, b, FALSE).look
        BY <4>2 DEF Result
      <4> QED BY <3>1, <4>3
    <3> QED BY <1>2, <3>2, <3>3 DEF Preview
  <2> QED BY <2>1, <2>2, LookRight DEF LooksKept, LookOfProject
<1>3. CASE UNCHANGED <<proj, luts, out>>
  BY <1>3 DEF LooksKept, LookOfProject
<1>4. ASSUME UNCHANGED <<proj, luts>>, out' = Null PROVE LookInv'
  BY <1>4 DEF LooksKept, LookOfProject
<1>5. ASSUME luts' = luts, out' = Null,
             proj'.a.grade.seq # 0 => proj'.a.grade.look = proj'.a.grade.seq
      PROVE  LookInv'
  BY <1>5 DEF LooksKept, LookOfProject
<1>6. ASSUME NEW f \in Playheads, FrameAdopt(f) PROVE LookInv'
  BY <1>4, <1>6 DEF FrameAdopt
<1>7. CASE Edited
  <2>1. luts' = luts /\ out' = Null
    BY <1>7, EditedKeeps
  <2>2. ASSUME NEW g \in Looks, proj' = [proj EXCEPT !.a.grade = g] PROVE proj'.a.grade = g
    <3>1. proj \in Projects
      BY DEF TypeOK
    <3>2. proj.a = [src |-> proj.a.src, on |-> proj.a.on, len |-> proj.a.len,
                    grade |-> proj.a.grade]
      BY <3>1 DEF Projects
    <3>3. proj = [file |-> proj.file, a |-> proj.a, b |-> proj.b]
      BY <3>1 DEF Projects
    <3> QED BY <2>2, <3>2, <3>3
  <2>3. CASE EditClips
    <3>1. proj'.a.grade = proj.a.grade
      BY <2>3 DEF EditClips, ClipA, Swap
    <3> QED BY <1>5, <2>1, <3>1 DEF LooksKept
  <2>4. CASE CommitGrade
    <3>1. [look |-> grades + 1, seq |-> grades + 1] \in Looks
      BY DEF TypeOK, Looks
    <3>2. proj'.a.grade = [look |-> grades + 1, seq |-> grades + 1]
      BY <2>4, <2>2, <3>1 DEF CommitGrade, Swap
    <3> QED BY <1>5, <2>1, <3>2
  <2>5. CASE UndoGrade
    <3>1. PICK k \in 1..grades : proj' = [proj EXCEPT !.a.grade = [look |-> k, seq |-> k]]
      BY <2>5 DEF UndoGrade, Swap
    <3>2. [look |-> k, seq |-> k] \in Looks
      BY DEF TypeOK, Looks
    <3>3. proj'.a.grade = [look |-> k, seq |-> k]
      BY <2>2, <3>1, <3>2
    <3> QED BY <1>5, <2>1, <3>3
  <2>6. CASE ReopenProject
    <3>1. PICK k \in FileLooks : proj' = [proj EXCEPT !.a.grade = [look |-> k, seq |-> 0]]
      BY <2>6 DEF ReopenProject, Swap
    <3>2. [look |-> k, seq |-> 0] \in Looks
      BY DEF TypeOK, Looks
    <3>3. proj'.a.grade = [look |-> k, seq |-> 0]
      BY <2>2, <3>1, <3>2
    <3> QED BY <1>5, <2>1, <3>3
  <2> QED BY <1>7, <2>3, <2>4, <2>5, <2>6 DEF Edited
<1>8. ASSUME NEW f \in Files, CloseStop(f) PROVE LookInv'
  <2>1. proj'.a = proj.a
    BY <1>8, Relinked DEF CloseStop, TypeOK
  <2> QED BY <1>5, <1>8, <2>1 DEF CloseStop, keptVars, LooksKept
<1>9. CASE CloseJoin
  <2>1. DOMAIN luts' = {} /\ proj' = proj /\ out' = out
    BY <1>9 DEF CloseJoin
  <2> QED BY <2>1 DEF LooksKept, LookOfProject
<1>10. CASE FrameKick \/ Bake \/ UNCHANGED vars
  BY <1>3, <1>10 DEF FrameKick, Bake, BakeStop, BakeTake, BakeFrame, BakeFail, BakePublish,
                     BakeClear, bakeOnly, keptVars, vars
<1> QED BY <1>1, <1>2, <1>6, <1>7, <1>8, <1>9, <1>10 DEF Next, Serve, Edited, Preview

\* A committed look is shown as it was committed, also when undo and redo bring
\* it back with the change_seq it had (timeline_decoder.cpp, grade_lut_for).
THEOREM LooksAreShown == Spec => []LookOfProject
<1>1. Init => TypeOK /\ LookInv
  <2> SUFFICES ASSUME Init PROVE LookInv
    BY TypeInit
  <2>1. proj.a.grade.seq = 0 /\ DOMAIN luts = {} /\ out = Null
    BY DEF Init, Ungraded, ClipA
  <2> QED BY <2>1 DEF LookInv, LooksKept, LookOfProject
<1>2. TypeOK /\ LookInv /\ [Next]_vars => (TypeOK /\ LookInv)'
  BY TypeStep, LookStep
<1> QED BY <1>1, <1>2, PTL DEF Spec, LookInv
-----------------------------------------------------------------------------
(* The pictures *)

\* A job, a bake and a result, and which pictures of A they may have: up to the
\* i-th, the one due or, of a slow medium, one of the i - 1 after it.
Windowed(j) == j.file \in Files /\ j.start \in Nat /\ j.a \in Nat

MayBe(j, i) ==
    LET due == MediaFrame(j.file, j.a, j.start + i - 1)
    IN {j.file} \X (due .. IF Fps[j.file] < SeqFps THEN due + i - 1 ELSE due)

Rightly(j, ps) ==
    /\ ps \in Seq((Files \X Int) \X (Files \X Int))
    /\ \A i \in 1 .. Len(ps) : ps[i][1] \in MayBe(j, i)

Planned ==
    /\ job # Null => Windowed(job)
    /\ baking # Null => Windowed(baking) /\ Rightly(baking, planes)
    /\ bpc # "bake" => planes = <<>>
    /\ result # Null => /\ Windowed(result) /\ Rightly(result, result.planes)
                        /\ Len(result.planes) = Cut - result.start
    /\ out # Null => wpc # "joining" /\ (out.baked => result # Null)

PictureInv == Planned /\ FrameOfProject

LEMMA NoneRightly == \A j : Rightly(j, <<>>)
BY DEF Rightly

\* The next picture of A: decode_to_hw goes on from the last one, and is not
\* past the one due unless the medium is slow.
LEMMA NextRightly ==
    ASSUME NEW j, Windowed(j), Rightly(j, planes), NEW f, f = j.start + Len(planes),
           NEW due, due = MediaFrame(j.file, j.a, f), NEW b \in Files \X Int
    PROVE  Rightly(j, Append(planes, <<<<j.file, NextOfA(due)>>, b>>))
<1> DEFINE k == Len(planes)
           ps == Append(planes, <<<<j.file, NextOfA(due)>>, b>>)
           slow == Fps[j.file] < SeqFps
<1>1. /\ k \in Nat /\ j.file \in Files /\ j.a \in Nat /\ j.start \in Nat /\ f = j.start + k
      /\ slow \in BOOLEAN
  BY DEF Windowed, Rightly
<1>2. due \in Int
  <2>1. f \in Int
    BY <1>1
  <2>2. MediaFrame(j.file, j.a, f) \in Int
    BY <1>1, <2>1, MediaNumbers
  <2> QED BY <2>2
<1>3. /\ NextOfA(due) \in Int /\ due <= NextOfA(due)
      /\ NextOfA(due) <= IF slow THEN due + k ELSE due
  <2>1. CASE planes = <<>>
    <3>1. NextOfA(due) = due
      BY <2>1 DEF NextOfA
    <3> QED BY <1>1, <1>2, <3>1
  <2>2. CASE planes # <<>>
    <3> DEFINE last == planes[k][1][2]
               was == MediaFrame(j.file, j.a, f - 1)
    <3>1. k >= 1 /\ k \in 1 .. k
      BY <1>1, <2>2 DEF Rightly
    <3>2. planes[k][1] \in MayBe(j, k) /\ j.start + k - 1 = f - 1 /\ f - 1 \in Nat
      <4>1. planes[k][1] \in MayBe(j, k)
        BY <3>1 DEF Rightly
      <4>2. j.start + k - 1 = f - 1 /\ f - 1 \in Nat
        <5> HIDE DEF k
        <5> QED BY <1>1, <3>1
      <4> QED BY <4>1, <4>2
    <3>3. was \in Int /\ was <= due /\ (~slow => was + 1 <= due)
      <4>1. f - 1 \in Int /\ f - 1 >= 0 /\ (f - 1) + 1 = f
        BY <1>1, <3>2
      <4>2. /\ MediaFrame(j.file, j.a, f - 1) \in Int
            /\ MediaFrame(j.file, j.a, f - 1) <= MediaFrame(j.file, j.a, (f - 1) + 1)
            /\ ~(Fps[j.file] < SeqFps) =>
                  MediaFrame(j.file, j.a, f - 1) + 1 <= MediaFrame(j.file, j.a, (f - 1) + 1)
        BY <1>1, <4>1, MediaFrames
      <4> QED BY <4>1, <4>2
    <3>4. last \in was .. (IF slow THEN was + k - 1 ELSE was)
      BY <3>2 DEF MayBe
    <3>5. NextOfA(due) = IF last < due THEN due ELSE last + 1
      BY <2>2 DEF NextOfA
    <3> HIDE DEF k, last, was, slow
    <3> QED BY <1>1, <1>2, <3>1, <3>3, <3>4, <3>5
  <2> QED BY <2>1, <2>2
<1> DEFINE pic == <<<<j.file, NextOfA(due)>>, b>>
<1>4. pic \in (Files \X Int) \X (Files \X Int) /\ pic[1] \in MayBe(j, k + 1)
  <2>1. pic[1] = <<j.file, NextOfA(due)>>
    OBVIOUS
  <2>2. j.start + (k + 1) - 1 = f
    BY <1>1
  <2>3. NextOfA(due) \in due .. (IF slow THEN due + (k + 1) - 1 ELSE due)
    BY <1>1, <1>2, <1>3
  <2>4. MayBe(j, k + 1) = {j.file} \X (due .. IF slow THEN due + (k + 1) - 1 ELSE due)
    BY <2>2 DEF MayBe
  <2>5. pic[1] \in MayBe(j, k + 1)
    BY <2>1, <2>3, <2>4
  <2> QED BY <1>1, <1>3, <2>5
<1> HIDE DEF pic
<1>5. /\ ps = Append(planes, pic) /\ planes \in Seq((Files \X Int) \X (Files \X Int))
      /\ \A i \in 1 .. k : planes[i][1] \in MayBe(j, i)
  BY DEF pic, Rightly
<1> HIDE DEF ps
<1>6. /\ ps \in Seq((Files \X Int) \X (Files \X Int)) /\ Len(ps) = k + 1 /\ ps[k + 1] = pic
      /\ \A i \in 1 .. k : ps[i] = planes[i]
  BY <1>4, <1>5
<1>7. \A i \in 1 .. k + 1 : i \in 1 .. k \/ i = k + 1
  BY <1>1
<1>8. \A i \in 1 .. Len(ps) : ps[i][1] \in MayBe(j, i)
  BY <1>4, <1>5, <1>6, <1>7
<1>9. Rightly(j, ps)
  BY <1>6, <1>8 DEF Rightly
<1> QED BY <1>9 DEF ps

\* What a call that does not use the result may return.
Fresh(r) ==
    /\ r.baked = FALSE
    /\ r.a \in {Null, Black} \/ Shows(r.a, TopFrame(proj, r.at))
    /\ r.b = Null \/ Shows(r.b, BFrameIn(proj, r.at))

LEMMA RightShows ==
    ASSUME NEW pic, NEW enabled, NEW n, Right(pic, proj.file, enabled, n)
    PROVE  pic \in {Null, Black} \/ Shows(pic, n)
BY DEF Right, Shows

LEMMA RgbaFresh ==
    ASSUME TypeOK, Medium, ServeRgba
    PROVE  Fresh(out')
<1>1. /\ out'.at = head /\ out'.baked = FALSE
      /\ Right(out'.a, proj.file, TopOn(proj, head), TopFrame(proj, head))
      /\ out'.b = Null \/ Right(out'.b, proj.file, TRUE, BFrameIn(proj, head))
  BY RgbaRight
<1>2. out'.a \in {Null, Black} \/ Shows(out'.a, TopFrame(proj, head))
  BY <1>1, RightShows
<1>3. out'.b = Null \/ Shows(out'.b, BFrameIn(proj, head))
  BY <1>1 DEF Right, Shows
<1> QED BY <1>1, <1>2, <1>3 DEF Fresh

LEMMA OnGpuFresh ==
    ASSUME NEW f, OnGpu(f), slot \in {proj.file, Null}, bSlot \in {proj.file, Null}
    PROVE  Fresh(out')
<1>1. bSlot' \in {proj.file, Null}
  BY DEF OnGpu, BSlotOpen
<1>2. \A from \in {proj.file, Null} : \A on, n : \A pic \in Nv12(from, on, n) \ {Null} :
          pic = <<proj.file, n>>
  BY DEF Nv12
<1>3. \A n : Shows(<<proj.file, n>>, n)
  BY DEF Shows
<1>4. InTransition(proj, f) => TopFrame(proj, f) = AFrame(proj, f)
  <2>1. InTransition(proj, f) => f < Cut
    BY DEF InTransition
  <2> QED BY <2>1 DEF TopFrame
<1>5. CASE InTransition(proj, f) /\ AFrame(proj, f) = BFrameIn(proj, f)
  <2>1. PICK a \in Nv12(slot, proj.a.on, AFrame(proj, f)) \ {Null} :
           out' = Result(f, a, a, FALSE)
    BY <1>5 DEF OnGpu
  <2>2. a = <<proj.file, TopFrame(proj, f)>> /\ a = <<proj.file, BFrameIn(proj, f)>>
    BY <1>2, <1>4, <1>5
  <2>3. out'.at = f /\ out'.baked = FALSE /\ out'.a = a /\ out'.b = a
    BY <2>1 DEF Result
  <2> QED BY <1>3, <2>2, <2>3 DEF Fresh
<1>6. CASE InTransition(proj, f) /\ AFrame(proj, f) # BFrameIn(proj, f)
  <2>1. PICK a \in Nv12(slot, proj.a.on, AFrame(proj, f)) \ {Null},
             b \in Nv12(bSlot', TRUE, BFrameIn(proj, f)) \ {Null} :
           out' = Result(f, a, b, FALSE)
    BY <1>6 DEF OnGpu
  <2>2. a = <<proj.file, TopFrame(proj, f)>>
    BY <1>2, <1>4, <1>6
  <2>3. b = <<proj.file, BFrameIn(proj, f)>>
    BY <1>1, <1>2
  <2>4. out'.at = f /\ out'.baked = FALSE /\ out'.a = a /\ out'.b = b
    BY <2>1 DEF Result
  <2> QED BY <1>3, <2>2, <2>3, <2>4 DEF Fresh
<1>7. CASE ~InTransition(proj, f)
  <2>1. PICK a \in Nv12(slot, TopOn(proj, f), TopFrame(proj, f)) \ {Null} :
           out' = Result(f, a, Null, FALSE)
    BY <1>7 DEF OnGpu
  <2>2. a = <<proj.file, TopFrame(proj, f)>>
    BY <1>2
  <2>3. out'.at = f /\ out'.baked = FALSE /\ out'.a = a /\ out'.b = Null
    BY <2>1 DEF Result
  <2> QED BY <1>3, <2>2, <2>3 DEF Fresh
<1> QED BY <1>5, <1>6, <1>7

LEMMA PreviewFresh ==
    ASSUME TypeOK, Medium, NEW f \in Scrubs, Preview(f)
    PROVE  Fresh(out')
<1>1. CASE PreviewNv12(f)
  <2>1. slot \in {proj.file, Null} /\ bSlot \in {proj.file, Null}
    BY <1>1 DEF PreviewNv12, Medium
  <2> QED BY <1>1, <2>1, OnGpuFresh DEF PreviewNv12
<1>2. CASE PreviewRgba(f)
  <2>1. /\ out'.at = f /\ out'.baked = FALSE
        /\ out'.a = Black \/ Right(out'.a, proj.file, TopOn(proj, f), TopFrame(proj, f))
        /\ out'.b = Null \/ Right(out'.b, proj.file, TRUE, BFrameIn(proj, f))
    BY <1>2, PreviewRight
  <2>2. out'.a \in {Null, Black} \/ Shows(out'.a, TopFrame(proj, f))
    BY <2>1, RightShows
  <2>3. out'.b = Null \/ Shows(out'.b, BFrameIn(proj, f))
    BY <2>1 DEF Right, Shows
  <2> QED BY <2>1, <2>2, <2>3 DEF Fresh
<1> QED BY <1>1, <1>2 DEF Preview

LEMMA Nv12Fresh ==
    ASSUME Medium, ServeNv12
    PROVE  Fresh(out')
<1>1. slot \in {proj.file, Null} /\ bSlot \in {proj.file, Null}
  BY DEF ServeNv12, Medium
<1> QED BY <1>1, OnGpuFresh DEF ServeNv12

\* What a picture is judged by does not change with a call.
LEMMA JudgedAlike ==
    ASSUME proj' = proj
    PROVE  /\ \A f : /\ TopFrame(proj, f)' = TopFrame(proj, f)
                     /\ BFrameIn(proj, f)' = BFrameIn(proj, f)
                     /\ InTransition(proj, f)' = InTransition(proj, f)
           /\ \A pic, n : Shows(pic, n)' = Shows(pic, n)
           /\ result' = result => \A f : BakedMayShow(f)' = BakedMayShow(f)
BY DEF TopFrame, BFrameIn, AFrame, BFrame, BSeq, MediaFrame, Scaled, InTransition, WinStart,
       Shows, BakedMayShow

LEMMA FreshKeeps ==
    ASSUME PictureInv, Fresh(out'), wpc' # "joining",
           UNCHANGED <<proj, bpc, job, baking, planes, result>>
    PROVE  PictureInv'
<1>1. Planned'
  BY DEF PictureInv, Planned, Fresh, Windowed, Rightly, MayBe, MediaFrame, Scaled
<1>2. FrameOfProject'
  BY JudgedAlike DEF Fresh, FrameOfProject
<1> QED BY <1>1, <1>2 DEF PictureInv

\* What is served from a result.
LEMMA BakedShown ==
    ASSUME TypeOK, BakeInv, Medium, PictureInv, ServeBaked
    PROVE  PictureInv'
<1> DEFINE i == head - result.start + 1
<1>1. /\ UNCHANGED <<proj, bpc, job, baking, planes, result>> /\ wpc' = "idle"
      /\ result # Null /\ InTransition(proj, head) /\ head \in result.start..result.end - 1
      /\ out' = Result(head, result.planes[i][1], result.planes[i][2], TRUE)
  BY DEF ServeBaked, Baked, bakeVars
<1>2. /\ result.end = Cut /\ result.file = proj.file /\ Cut \in Nat /\ head \in Nat
      /\ result.start \in Nat /\ Rightly(result, result.planes)
      /\ Len(result.planes) = Cut - result.start
  BY <1>1 DEF ServeBaked, BakeInv, Medium, PictureInv, Planned, Windowed, TypeOK
<1>3. i \in 1 .. Len(result.planes) /\ result.start + i - 1 = head /\ i - 1 = head - result.start
  BY <1>1, <1>2
<1>4. result.planes[i][1] \in MayBe(result, i)
  BY <1>2, <1>3 DEF Rightly
<1>5. MayBe(result, i) = BakedMayShow(head)
  <2> DEFINE due == MediaFrame(proj.file, result.a, head)
  <2>1. MayBe(result, i) =
          {proj.file} \X (due .. IF Fps[proj.file] < SeqFps THEN due + i - 1 ELSE due)
    BY <1>2, <1>3 DEF MayBe
  <2>2. due + i - 1 = due + head - result.start
    <3>1. due \in Int
      <4>1. proj.file \in Files /\ result.a \in Nat
        BY <1>1, <1>2 DEF PictureInv, Planned, Windowed
      <4>2. head \in Int
        BY <1>2
      <4> QED BY <4>1, <4>2, MediaNumbers
    <3> HIDE DEF due
    <3> QED BY <1>2, <3>1
  <2> QED BY <2>1, <2>2 DEF BakedMayShow
<1>6. /\ out'.at = head /\ out'.baked = TRUE /\ out'.a \in BakedMayShow(head)
  BY <1>1, <1>4, <1>5 DEF Result
<1> HIDE DEF i
<1>7. FrameOfProject'
  BY <1>1, <1>6, JudgedAlike DEF FrameOfProject
<1>8. Planned'
  <2>1. \A j, ps : Rightly(j, ps)' = Rightly(j, ps) /\ Windowed(j)' = Windowed(j)
    BY DEF Rightly, MayBe, MediaFrame, Scaled, Windowed
  <2>2. out' # Null => wpc' # "joining" /\ (out'.baked => result' # Null)
    BY <1>1
  <2> QED BY <1>1, <2>1, <2>2 DEF PictureInv, Planned
<1> QED BY <1>7, <1>8 DEF PictureInv

LEMMA PictureStep ==
    TypeOK /\ BakeInv /\ Medium /\ PictureInv /\ [Next]_vars => PictureInv'
<1> SUFFICES ASSUME TypeOK, BakeInv, Medium, PictureInv, [Next]_vars PROVE PictureInv'
  OBVIOUS
<1>0. \A j, ps : Rightly(j, ps)' = Rightly(j, ps) /\ Windowed(j)' = Windowed(j)
  BY DEF Rightly, MayBe, MediaFrame, Scaled, Windowed
<1>1. CASE ServeBaked
  BY <1>1, BakedShown
<1>2. CASE ServeNv12
  BY <1>2, Nv12Fresh, FreshKeeps DEF ServeNv12, bakeVars
<1>3. CASE ServeRgba
  BY <1>3, RgbaFresh, FreshKeeps DEF ServeRgba, bakeVars
<1>4. ASSUME NEW f \in Scrubs, Preview(f) PROVE PictureInv'
  BY <1>4, PreviewFresh, FreshKeeps DEF Preview, PreviewNv12, PreviewRgba, bakeVars
<1>5. ASSUME out' = Null, Planned' PROVE PictureInv'
  BY <1>5 DEF PictureInv, FrameOfProject
<1>6. ASSUME NEW f \in Playheads, FrameAdopt(f) PROVE PictureInv'
  BY <1>0, <1>5, <1>6 DEF FrameAdopt, PictureInv, Planned
<1>7. CASE Edited
  <2>1. /\ out' = Null
        /\ job' = job /\ baking' = baking /\ result' = result /\ bpc' = bpc
    BY <1>7, EditedKeeps
  <2>2. planes' = planes
    BY <1>7 DEF Edited, EditClips, CommitGrade, UndoGrade, ReopenProject, Swap, bakeVars
  <2>3. Planned'
    BY <1>0, <2>1, <2>2 DEF PictureInv, Planned
  <2> QED BY <1>5, <2>1, <2>3
<1>8. ASSUME NEW f \in Files, CloseStop(f) PROVE PictureInv'
  BY <1>0, <1>5, <1>8 DEF CloseStop, PictureInv, Planned
<1>9. CASE CloseJoin
  <2>1. out = Null
    BY <1>9 DEF CloseJoin, PictureInv, Planned
  <2>2. planes' = <<>> /\ baking' = Null
    BY <1>9 DEF CloseJoin, BakeInv, PictureInv, Planned
  <2> QED BY <1>0, <1>5, <1>9, <2>1, <2>2 DEF CloseJoin, PictureInv, Planned
<1>10. ASSUME UNCHANGED <<proj, out, result>>, Planned' PROVE PictureInv'
  BY <1>10, JudgedAlike DEF PictureInv, FrameOfProject
<1>11. CASE FrameKick
  <2>1. Windowed(Job(proj))
    <3>1. proj.a.len \in 0..Cut /\ proj.a.src \in Nat /\ proj.file \in Files /\ Cut \in Nat
      BY DEF TypeOK, Projects
    <3> QED BY <3>1 DEF Windowed, Job, WinStart
  <2>2. job' = job \/ job' = Job(proj)
    BY <1>11 DEF FrameKick
  <2>3. UNCHANGED <<proj, out, result, baking, planes>> /\ wpc' = "serve"
    BY <1>11 DEF FrameKick, keptVars
  <2>4. bpc = "bake" \/ bpc' # "bake"
    BY <1>11 DEF FrameKick
  <2>5. bpc' # "bake" => planes = <<>>
    BY <1>11 DEF FrameKick, PictureInv, Planned
  <2>6. Planned'
    BY <1>0, <2>1, <2>2, <2>3, <2>5 DEF PictureInv, Planned
  <2> QED BY <1>10, <2>3, <2>6
<1>12. CASE BakeStop \/ BakeTake \/ BakeFrame \/ BakeFail \/ BakeClear
  <2>1. UNCHANGED <<proj, out, result, wpc>>
    BY <1>12 DEF BakeStop, BakeTake, BakeFrame, BakeFail, BakeClear, bakeOnly, keptVars
  <2>2. CASE BakeStop \/ BakeClear
    BY <1>0, <1>10, <2>1, <2>2 DEF BakeStop, BakeClear, PictureInv, Planned
  <2>3. CASE BakeTake
    <3>1. planes = <<>> /\ planes' = <<>> /\ baking' = job /\ job' = Null /\ Windowed(job)
      BY <2>3 DEF BakeTake, PictureInv, Planned
    <3>2. Planned'
      BY <1>0, <2>1, <3>1, NoneRightly DEF PictureInv, Planned
    <3> QED BY <1>10, <2>1, <3>2
  <2>4. CASE BakeFail
    <3>1. planes' = <<>> /\ baking' = baking /\ job' = job
      BY <2>4 DEF BakeFail
    <3>2. Planned'
      BY <1>0, <2>1, <3>1, NoneRightly DEF PictureInv, Planned
    <3> QED BY <1>10, <2>1, <3>2
  <2>5. CASE BakeFrame
    <3> DEFINE f == baking.start + Len(planes)
               b == <<baking.file, BSeq(baking.file, f)>>
               due == MediaFrame(baking.file, baking.a, f)
    <3>1. /\ bpc = "bake" /\ bpc' = "bake" /\ baking' = baking /\ job' = job
          /\ planes' = Append(planes, <<<<baking.file, NextOfA(due)>>, b>>)
      BY <2>5 DEF BakeFrame
    <3>2. baking # Null /\ Windowed(baking) /\ Rightly(baking, planes)
      BY <3>1 DEF BakeInv, PictureInv, Planned
    <3>3. b \in Files \X Int
      <4>1. f \in Int /\ baking.file \in Files
        BY <3>2 DEF Windowed, Rightly
      <4>2. f - Cut \in Int /\ Fps[baking.file] \in Nat /\ Fps[baking.file] > 0
            /\ SeqFps \in Nat /\ SeqFps > 0 /\ Cut \in Nat
        BY <4>1
      <4> HIDE DEF f
      <4>3. Scaled(f - Cut, SeqFps, Fps[baking.file]) \in Int
        BY <4>2, ScaledSteps
      <4>4. BSeq(baking.file, f) \in Int
        BY <4>2, <4>3 DEF BSeq
      <4> QED BY <4>1, <4>4
    <3>4. Rightly(baking, Append(planes, <<<<baking.file, NextOfA(due)>>, b>>))
      <4> HIDE DEF b
      <4> QED BY <3>2, <3>3, NextRightly
    <3>5. Planned'
      BY <1>0, <2>1, <3>1, <3>2, <3>4 DEF PictureInv, Planned
    <3> QED BY <1>10, <2>1, <3>5
  <2> QED BY <1>12, <2>2, <2>3, <2>4, <2>5
<1>13. CASE BakePublish
  <2>1. UNCHANGED <<proj, out, wpc, job, baking>> /\ planes' = <<>>
    BY <1>13 DEF BakePublish, bakeOnly, keptVars
  <2>2. /\ baking # Null /\ Windowed(baking) /\ baking.end = Cut
        /\ Rightly(baking, planes) /\ Len(planes) = Cut - baking.start
        /\ result = Null
    BY <1>13 DEF BakePublish, BakeInv, PictureInv, Planned
  <2>3. CASE stop
    <3>1. result' = result
      BY <1>13, <2>3 DEF BakePublish
    <3>2. Planned'
      BY <1>0, <2>1, <2>2, <3>1, NoneRightly DEF PictureInv, Planned
    <3> QED BY <1>10, <2>1, <3>1, <3>2
  <2>4. CASE ~stop
    <3>1. result' = [file |-> baking.file, a |-> baking.a, start |-> baking.start,
                     end |-> baking.end, planes |-> planes]
      BY <1>13, <2>4 DEF BakePublish
    <3>2. Windowed(result') /\ result'.planes = planes /\ Len(planes) = Cut - result'.start
      BY <2>2, <3>1 DEF Windowed
    <3>3. \A i : MayBe(result', i) = MayBe(baking, i)
      BY <3>1 DEF MayBe
    <3>4. Rightly(result', result'.planes)
      BY <2>2, <3>2, <3>3 DEF Rightly
    <3>5. out # Null => ~out.baked
      BY <2>2 DEF PictureInv, Planned
    <3>6. Planned'
      BY <1>0, <2>1, <2>2, <3>2, <3>4, <3>5, NoneRightly DEF PictureInv, Planned
    <3>7. FrameOfProject'
      BY <2>1, <3>5, JudgedAlike DEF PictureInv, FrameOfProject
    <3> QED BY <3>6, <3>7 DEF PictureInv
  <2> QED BY <2>3, <2>4
<1>14. CASE UNCHANGED vars
  BY <1>0, <1>10, <1>14 DEF vars, keptVars, bakeVars, PictureInv, Planned
<1> QED
  BY <1>1, <1>2, <1>3, <1>4, <1>6, <1>7, <1>8, <1>9, <1>11, <1>12, <1>13, <1>14
  DEF Next, Serve, Bake, Edited, Preview

\* A frame shows what the project has at the position that was asked for, from
\* whichever cache, decoder or baked transition it came, and for media of any
\* rate (timeline_decoder.cpp, frame, preview and run_transition_bake).
THEOREM FramesAreOfProject == Spec => []FrameOfProject
<1> DEFINE Inv == TypeOK /\ BakeInv /\ Medium /\ PictureInv
<1>1. Init => Inv
  BY TypeInit, MediumInit DEF Init, BakeInv, PictureInv, Planned, FrameOfProject
<1>2. Inv /\ [Next]_vars => Inv'
  BY TypeStep, BakeStep, MediumStep, PictureStep
<1>3. Inv => FrameOfProject
  BY DEF PictureInv
<1> HIDE DEF Inv
<1> QED BY <1>1, <1>2, <1>3, PTL DEF Spec
=============================================================================
