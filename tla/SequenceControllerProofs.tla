---------------------- MODULE SequenceControllerProofs ----------------------
(* However the requests are coalesced and the two threads interleave, the    *)
(* playback worker ends up with the project, the transport and the frame it  *)
(* was asked for last (SequenceController).                                  *)
EXTENDS SequenceController, FiniteSetTheorems, TLAPS

Commands == {"SetProject", "SwapProject", "UpdateAudioMix", "Play", "Pause", "ReleaseAudio",
             "Seek", "SeekPreview", "Step"}
Snapshots == Projects \cup {NoProject}
Requests == [command : Commands, arg : Int, project : Snapshots]
Pictures == [frame : Int, project : Snapshots]

\* What a request does: replace the project, bring a project along, decide
\* whether the worker plays, say where the playhead goes.
Loads(r) == r.command \in {"SetProject", "SwapProject"}
Carries(r) == r.command \in {"SetProject", "SwapProject", "UpdateAudioMix"}
Turns(r) == r.command \in {"SetProject", "Play", "Pause", "ReleaseAudio"}
Moves(r) == r.command \in Seeks \/ (r.command = "SetProject" /\ r.arg >= 0)

\* A request as the window makes it.
Sound(r) ==
    /\ r \in Requests
    /\ Carries(r) <=> r.project # NoProject
    /\ r.command \in Seeks => r.arg \in Nat
    /\ r.command = "SetProject" => r.arg \in {-1, 0}

Working == pc \in {"handle", "preview"}

\* The requests the worker has not done with: the one it handles, then those
\* that wait.
Pending == IF Working THEN <<req>> \o queue ELSE queue

\* The playhead, the frames decoded ahead and the screen.
FramesOK ==
    /\ current \in Nat \cup {-1}
    /\ ready \in Seq(Pictures) /\ readyBase \in Int
    /\ shown \in [position : Int, picture : Pictures]

TypeOK ==
    /\ queue \in Seq(Requests) /\ \A i \in DOMAIN queue : Sound(queue[i])
    /\ Working => Sound(req)
    /\ pc \in {"top", "handle", "preview", "fill", "wait", "sleep", "present", "exited"}
    /\ pc = "preview" => req.command = "SeekPreview"
    /\ pc \in {"fill", "wait", "present"} => playing
    /\ intent \in BOOLEAN /\ playing \in BOOLEAN /\ refused \in BOOLEAN
    /\ scrubbing \in BOOLEAN /\ stopping \in BOOLEAN /\ pausedLast \in BOOLEAN
    /\ total \in Nat \cup {-1} /\ goal \in Nat \cup {-1}
    /\ project \in Snapshots /\ asked \in Snapshots
    /\ FramesOK
-----------------------------------------------------------------------------
(* Numbers and frames *)

LEMMA MaxOfTwo ==
    ASSUME NEW a \in Int, NEW b \in Int
    PROVE  Max({a, b}) = IF a >= b THEN a ELSE b
<1> DEFINE m == IF a >= b THEN a ELSE b
<1>1. m \in {a, b} /\ \A y \in {a, b} : m >= y
  OBVIOUS
<1>2. \A x \in {a, b} : (\A y \in {a, b} : x >= y) => x = m
  OBVIOUS
<1> HIDE DEF m
<1>3. Max({a, b}) \in {a, b} /\ \A y \in {a, b} : Max({a, b}) >= y
  BY <1>1 DEF Max
<1>4. Max({a, b}) = m
  BY <1>2, <1>3
<1> QED BY <1>4 DEF m

LEMMA MinOfTwo ==
    ASSUME NEW a \in Int, NEW b \in Int
    PROVE  Min({a, b}) = IF a =< b THEN a ELSE b
<1> DEFINE m == IF a =< b THEN a ELSE b
<1>1. m \in {a, b} /\ \A y \in {a, b} : m =< y
  OBVIOUS
<1>2. \A x \in {a, b} : (\A y \in {a, b} : x =< y) => x = m
  OBVIOUS
<1> HIDE DEF m
<1>3. Min({a, b}) \in {a, b} /\ \A y \in {a, b} : Min({a, b}) =< y
  BY <1>1 DEF Min
<1>4. Min({a, b}) = m
  BY <1>2, <1>3
<1> QED BY <1>4 DEF m

LEMMA ClampFact ==
    ASSUME NEW x \in Int, NEW lo \in Int, NEW hi \in Int, lo <= hi
    PROVE  ClampTo(x, lo, hi) \in lo .. hi /\ (x \in lo .. hi => ClampTo(x, lo, hi) = x)
<1>1. Min({x, hi}) = (IF x =< hi THEN x ELSE hi) /\ Min({x, hi}) \in Int
  BY MinOfTwo
<1>2. ClampTo(x, lo, hi) = IF lo >= Min({x, hi}) THEN lo ELSE Min({x, hi})
  BY <1>1, MaxOfTwo DEF ClampTo
<1> QED BY <1>1, <1>2

\* Where a seek goes: to the frame, if the timeline has it.
LEMMA SeekTargetFact ==
    ASSUME NEW frame \in Int, NEW n \in Int
    PROVE  /\ SeekTarget(frame, n) \in Nat
           /\ 0 <= frame /\ frame < n => SeekTarget(frame, n) = frame
<1>1. CASE n > 0
  BY <1>1, ClampFact DEF SeekTarget
<1>2. CASE ~(n > 0)
  <2>1. SeekTarget(frame, n) = IF frame >= 0 THEN frame ELSE 0
    BY <1>2, MaxOfTwo DEF SeekTarget
  <2> QED BY <1>2, <2>1
<1> QED BY <1>1, <1>2

\* fill_lookahead keeps what there is and goes on from there.
LEMMA FilledFact ==
    ASSUME NEW frames \in Seq(Pictures), NEW base \in Int, NEW n \in Int, NEW p \in Snapshots
    PROVE  /\ Filled(frames, base, n, p) \in Seq(Pictures)
           /\ \A i \in 1 .. Len(Filled(frames, base, n, p)) :
                 \/ i \in 1 .. Len(frames) /\ Filled(frames, base, n, p)[i] = frames[i]
                 \/ Filled(frames, base, n, p)[i] = Frame(base + i - 1, p)
<1> DEFINE last == ClampTo(n - base, 0, Lookahead)
           m == Max({Len(frames), last})
           F == [i \in 1 .. m |-> IF i <= Len(frames) THEN frames[i] ELSE Frame(base + i - 1, p)]
<1>1. last \in Nat
  BY ClampFact, LookaheadAssumption
<1>2. m \in Nat
  BY <1>1, MaxOfTwo
<1>3. Filled(frames, base, n, p) = F
  BY DEF Filled
<1> HIDE DEF m
<1>4. \A i \in 1 .. m : \/ i \in 1 .. Len(frames) /\ F[i] = frames[i]
                        \/ F[i] = Frame(base + i - 1, p)
  BY <1>2
<1>5. \A i \in 1 .. m : F[i] \in Pictures
  <2>1. \A i \in 1 .. m : base + i - 1 \in Int
    BY <1>2
  <2>2. \A i \in 1 .. m : Frame(base + i - 1, p) \in Pictures
    BY <2>1 DEF Frame, Pictures
  <2>3. \A i \in 1 .. Len(frames) : frames[i] \in Pictures
    OBVIOUS
  <2> QED BY <1>4, <2>2, <2>3
<1>6. F \in Seq(Pictures) /\ Len(F) = m
  BY <1>2, <1>5
<1> QED BY <1>3, <1>4, <1>6
-----------------------------------------------------------------------------
(* The requests that wait *)

\* Q is P without some of the requests of the queue that new outdates, the
\* others in their order, and new after them.
CoalescesBy(P, Q, new, k, f) ==
    /\ Q \in Seq(Requests) /\ Len(Q) = k + 1 /\ Q[k + 1] = new
    /\ \A m \in 1 .. k : Q[m] = P[f[m]]
    /\ \A m, n \in 1 .. k : m < n => f[m] < f[n]
    /\ \A i \in DOMAIN P : \/ \E m \in 1 .. k : f[m] = i
                           \/ P[i] \in Range(queue) /\ Outdated(P[i], new)

Coalesces(P, Q, new) ==
    \E k \in Nat : \E f \in [1 .. k -> DOMAIN P] : CoalescesBy(P, Q, new, k, f)

LEMMA NumberingFact ==
    ASSUME NEW n \in Nat, NEW S \in SUBSET (1 .. n), NEW f \in Numberings(S)
    PROVE  /\ Cardinality(S) \in Nat
           /\ f \in [1 .. Cardinality(S) -> S]
           /\ \A i \in S : \E m \in 1 .. Cardinality(S) : f[m] = i
           /\ \A m, j \in 1 .. Cardinality(S) : m < j => f[m] < f[j]
<1>1. IsFiniteSet(1 .. n)
  BY FS_Interval
<1>2. IsFiniteSet(S)
  BY <1>1, FS_Subset
<1>3. Cardinality(S) \in Nat
  BY <1>2, FS_CardinalityType
<1>4. f \in [1 .. Cardinality(S) -> S] /\ Range(f) = S
      /\ \A m, j \in DOMAIN f : m < j => f[m] < f[j]
  BY DEF Numberings
<1> QED BY <1>3, <1>4 DEF Range

LEMMA PushCoalesces ==
    ASSUME queue \in Seq(Requests), NEW new \in Requests, Push(new)
    PROVE  Coalesces(queue, queue', new)
<1> DEFINE S == {i \in DOMAIN queue : ~Outdated(queue[i], new)}
           k == Cardinality(S)
<1>1. PICK f \in Numberings(S) : queue' = Append([n \in DOMAIN f |-> queue[f[n]]], new)
  BY DEF Push
<1>2. Len(queue) \in Nat /\ DOMAIN queue = 1 .. Len(queue) /\ \A i \in DOMAIN queue : queue[i] \in Requests
  OBVIOUS
<1>3. S \in SUBSET (1 .. Len(queue))
  BY <1>2
<1>4. /\ k \in Nat /\ f \in [1 .. k -> S]
      /\ \A i \in S : \E m \in 1 .. k : f[m] = i
      /\ \A m, j \in 1 .. k : m < j => f[m] < f[j]
  BY <1>2, <1>3, NumberingFact
<1>5. \A i \in DOMAIN queue : i \in S \/ (queue[i] \in Range(queue) /\ Outdated(queue[i], new))
  BY DEF Range
<1>6. S \subseteq DOMAIN queue
  OBVIOUS
<1> HIDE DEF S, k
<1> DEFINE kept == [n \in 1 .. k |-> queue[f[n]]]
<1>7. queue' = Append(kept, new)
  BY <1>1, <1>4
<1>8. \A n \in 1 .. k : kept[n] = queue[f[n]] /\ f[n] \in DOMAIN queue /\ kept[n] \in Requests
  BY <1>2, <1>4, <1>6
<1>9. kept \in Seq(Requests) /\ Len(kept) = k
  BY <1>4, <1>8
<1> HIDE DEF kept
<1>10. /\ queue' \in Seq(Requests) /\ Len(queue') = k + 1 /\ queue'[k + 1] = new
       /\ \A m \in 1 .. k : queue'[m] = queue[f[m]]
  BY <1>4, <1>7, <1>8, <1>9
<1>11. f \in [1 .. k -> DOMAIN queue]
  BY <1>4, <1>6
<1>12. \A i \in DOMAIN queue : \/ \E m \in 1 .. k : f[m] = i
                               \/ queue[i] \in Range(queue) /\ Outdated(queue[i], new)
  BY <1>4, <1>5
<1> QED BY <1>4, <1>10, <1>11, <1>12 DEF Coalesces, CoalescesBy

\* The requests the worker has not done with, while it works on one.
LEMMA PendingFact ==
    ASSUME queue \in Seq(Requests), Working => req \in Requests
    PROVE  /\ Pending \in Seq(Requests)
           /\ Working => /\ Len(Pending) = Len(queue) + 1 /\ Pending[1] = req
                         /\ \A i \in DOMAIN queue : Pending[i + 1] = queue[i]
                         /\ \A i \in 2 .. Len(Pending) : i - 1 \in DOMAIN queue /\ Pending[i] = queue[i - 1]
           /\ ~Working => Pending = queue
<1>1. CASE ~Working
  BY <1>1 DEF Pending
<1>2. CASE Working
  <2>1. <<req>> \in Seq(Requests) /\ Len(<<req>>) = 1 /\ <<req>>[1] = req
    BY <1>2
  <2>2. Pending = <<req>> \o queue
    BY <1>2 DEF Pending
  <2>3. Len(queue) \in Nat /\ DOMAIN queue = 1 .. Len(queue)
    OBVIOUS
  <2>4. /\ Pending \in Seq(Requests) /\ Len(Pending) = Len(queue) + 1
        /\ \A i \in 1 .. Len(queue) + 1 : Pending[i] = IF i <= 1 THEN <<req>>[i] ELSE queue[i - 1]
    BY <2>1, <2>2, <2>3
  <2> HIDE DEF Pending
  <2> QED BY <1>2, <2>1, <2>3, <2>4
<1> QED BY <1>1, <1>2

\* A call of the window coalesces what waits, never what the worker handles.
LEMMA PendingPushed ==
    ASSUME TypeOK, NEW new \in Requests, Push(new), UNCHANGED <<pc, req>>
    PROVE  Coalesces(Pending, Pending', new)
<1>1. Coalesces(queue, queue', new)
  BY PushCoalesces DEF TypeOK
<1>2. CASE ~Working
  BY <1>1, <1>2 DEF Pending, Working
<1>3. CASE Working
  <2>1. queue \in Seq(Requests) /\ req \in Requests
    BY <1>3 DEF TypeOK, Sound
  <2>a. PICK k \in Nat : \E f \in [1 .. k -> DOMAIN queue] :
          /\ queue' \in Seq(Requests) /\ Len(queue') = k + 1 /\ queue'[k + 1] = new
          /\ \A m \in 1 .. k : queue'[m] = queue[f[m]]
          /\ \A m, n \in 1 .. k : m < n => f[m] < f[n]
          /\ \A i \in DOMAIN queue : \/ \E m \in 1 .. k : f[m] = i
                                     \/ queue[i] \in Range(queue) /\ Outdated(queue[i], new)
    BY <1>1 DEF Coalesces, CoalescesBy
  <2>2. PICK f \in [1 .. k -> DOMAIN queue] :
          /\ queue' \in Seq(Requests) /\ Len(queue') = k + 1 /\ queue'[k + 1] = new
          /\ \A m \in 1 .. k : queue'[m] = queue[f[m]]
          /\ \A m, n \in 1 .. k : m < n => f[m] < f[n]
          /\ \A i \in DOMAIN queue : \/ \E m \in 1 .. k : f[m] = i
                                     \/ queue[i] \in Range(queue) /\ Outdated(queue[i], new)
    BY <2>a
  <2>3. /\ Pending \in Seq(Requests) /\ Len(Pending) = Len(queue) + 1 /\ Pending[1] = req
        /\ \A i \in DOMAIN queue : Pending[i + 1] = queue[i]
        /\ \A i \in 2 .. Len(Pending) : i - 1 \in DOMAIN queue /\ Pending[i] = queue[i - 1]
    BY <1>3, <2>1, PendingFact
  <2>4. /\ Pending' \in Seq(Requests) /\ Len(Pending') = Len(queue') + 1 /\ Pending'[1] = req
        /\ \A i \in DOMAIN queue' : Pending'[i + 1] = queue'[i]
    <3> DEFINE Q == <<req>> \o queue'
    <3>1. <<req>> \in Seq(Requests) /\ Len(<<req>>) = 1 /\ <<req>>[1] = req
      BY <2>1
    <3>2. Pending' = Q
      BY <1>3 DEF Pending, Working
    <3>3. Len(queue') \in Nat /\ DOMAIN queue' = 1 .. Len(queue') /\ queue' \in Seq(Requests)
      BY <2>2
    <3>4. /\ Q \in Seq(Requests) /\ Len(Q) = Len(queue') + 1
          /\ \A i \in 1 .. Len(queue') + 1 : Q[i] = IF i <= 1 THEN <<req>>[i] ELSE queue'[i - 1]
      BY <3>1, <3>3
    <3> HIDE DEF Q
    <3> QED BY <3>1, <3>2, <3>3, <3>4
  <2> DEFINE g == [m \in 1 .. k + 1 |-> IF m = 1 THEN 1 ELSE f[m - 1] + 1]
  <2>5. Len(queue) \in Nat /\ DOMAIN queue = 1 .. Len(queue) /\ DOMAIN queue' = 1 .. k + 1
        /\ DOMAIN Pending = 1 .. Len(queue) + 1
    BY <2>1, <2>2, <2>3
  <2>6. \A m \in 1 .. k : f[m] \in 1 .. Len(queue)
    BY <2>2, <2>5
  <2>7. /\ g \in [1 .. k + 1 -> DOMAIN Pending] /\ g[1] = 1
        /\ \A m \in 1 .. k : m + 1 \in 1 .. k + 1 /\ g[m + 1] = f[m] + 1
    <3>1. \A m \in 1 .. k + 1 : g[m] = (IF m = 1 THEN 1 ELSE f[m - 1] + 1) /\ (m # 1 => m - 1 \in 1 .. k)
      BY <2>5
    <3>2. \A m \in 1 .. k + 1 : g[m] \in DOMAIN Pending
      BY <2>5, <2>6, <3>1
    <3>3. \A m \in 1 .. k : m + 1 \in 1 .. k + 1 /\ m + 1 # 1 /\ (m + 1) - 1 = m
      OBVIOUS
    <3> QED BY <3>1, <3>2, <3>3
  <2> HIDE DEF g
  <2>8. \A m \in 1 .. k + 1 : Pending'[m] = Pending[g[m]]
    <3> SUFFICES ASSUME NEW m \in 1 .. k + 1 PROVE Pending'[m] = Pending[g[m]]
      OBVIOUS
    <3>1. CASE m = 1
      BY <2>3, <2>4, <2>7, <3>1
    <3>2. CASE m # 1
      <4>1. PICK j \in 1 .. k : m = j + 1
        BY <3>2
      <4>a. j \in DOMAIN queue' /\ j \in DOMAIN f
        BY <2>2, <2>5
      <4>2. Pending'[m] = queue'[j] /\ queue'[j] = queue[f[j]] /\ g[m] = f[j] + 1
        BY <2>2, <2>4, <2>7, <4>1, <4>a
      <4>3. Pending[f[j] + 1] = queue[f[j]]
        BY <2>3, <2>5, <2>6
      <4> QED BY <4>2, <4>3
    <3> QED BY <3>1, <3>2
  <2>9. \A m, n \in 1 .. k + 1 : m < n => g[m] < g[n]
    <3> SUFFICES ASSUME NEW m \in 1 .. k + 1, NEW n \in 1 .. k + 1, m < n PROVE g[m] < g[n]
      OBVIOUS
    <3>1. PICK j \in 1 .. k : n = j + 1
      OBVIOUS
    <3>2. g[n] = f[j] + 1 /\ f[j] \in 1 .. Len(queue)
      BY <2>6, <2>7, <3>1
    <3>3. CASE m = 1
      BY <2>5, <2>7, <3>2, <3>3
    <3>4. CASE m # 1
      <4>1. PICK i \in 1 .. k : m = i + 1
        BY <3>4
      <4>2. g[m] = f[i] + 1 /\ f[i] \in 1 .. Len(queue) /\ i < j
        BY <2>6, <2>7, <3>1, <4>1
      <4>b. \A x, y \in 1 .. k : x < y => f[x] < f[y]
        BY <2>2
      <4>c. f[i] < f[j]
        BY <4>2, <4>b
      <4>3. f[i] < f[j] /\ f[i] \in Int /\ f[j] \in Int
        BY <2>5, <3>2, <4>2, <4>c
      <4> QED BY <3>2, <4>2, <4>3
    <3> QED BY <3>3, <3>4
  <2>10. \A i \in DOMAIN Pending : \/ \E m \in 1 .. k + 1 : g[m] = i
                                   \/ Pending[i] \in Range(queue) /\ Outdated(Pending[i], new)
    <3> SUFFICES ASSUME NEW i \in DOMAIN Pending, i # 1, ~(Pending[i] \in Range(queue) /\ Outdated(Pending[i], new))
                 PROVE  \E m \in 1 .. k + 1 : g[m] = i
      BY <2>7
    <3>1. i - 1 \in DOMAIN queue /\ Pending[i] = queue[i - 1]
      BY <2>3, <2>5
    <3>2. PICK m \in 1 .. k : f[m] = i - 1
      BY <2>2, <3>1
    <3>3. m + 1 \in 1 .. k + 1 /\ g[m + 1] = i
      BY <2>5, <2>7, <3>2
    <3> QED BY <3>3
  <2>11. Len(Pending') = (k + 1) + 1 /\ Pending'[(k + 1) + 1] = new /\ k + 1 \in Nat
    BY <2>2, <2>4, <2>5
  <2> QED BY <2>4, <2>7, <2>8, <2>9, <2>10, <2>11 DEF Coalesces, CoalescesBy
<1> QED BY <1>2, <1>3

\* Taking a request leaves it to be done with.
LEMMA PendingTaken ==
    ASSUME TypeOK, TakeRequest
    PROVE  Pending' = Pending /\ Sound(req')
<1>1. queue \in Seq(Requests) /\ queue # <<>> /\ req' = Head(queue) /\ queue' = Tail(queue)
      /\ ~Working /\ pc' = "handle"
  BY DEF TypeOK, TakeRequest, Working, Goto
<1>2. Pending = queue /\ Pending' = <<Head(queue)>> \o Tail(queue)
  BY <1>1 DEF Pending, Working
<1>3. 1 \in DOMAIN queue /\ Head(queue) = queue[1]
  BY <1>1
<1>4. <<Head(queue)>> \o Tail(queue) = queue
  BY <1>1
<1> QED BY <1>1, <1>2, <1>3, <1>4 DEF TypeOK

\* The worker goes on to the requests after the one it has handled.
LEMMA PendingDone ==
    ASSUME TypeOK, Working, ~Working', queue' = queue
    PROVE  /\ Pending' = queue /\ Pending' \in Seq(Requests)
           /\ Pending \in Seq(Requests) /\ Len(Pending) = Len(Pending') + 1 /\ Pending[1] = req
           /\ \A i \in DOMAIN Pending' : i + 1 \in DOMAIN Pending /\ Pending[i + 1] = Pending'[i]
           /\ \A i \in 2 .. Len(Pending) : i - 1 \in DOMAIN Pending' /\ Pending[i] = Pending'[i - 1]
<1>1. queue \in Seq(Requests) /\ req \in Requests
  BY DEF TypeOK, Sound
<1>2. Pending' = queue
  BY DEF Pending
<1>3. /\ Pending \in Seq(Requests) /\ Len(Pending) = Len(queue) + 1 /\ Pending[1] = req
      /\ \A i \in DOMAIN queue : Pending[i + 1] = queue[i]
      /\ \A i \in 2 .. Len(Pending) : i - 1 \in DOMAIN queue /\ Pending[i] = queue[i - 1]
  BY <1>1, PendingFact
<1>4. Len(queue) \in Nat /\ DOMAIN queue = 1 .. Len(queue) /\ DOMAIN Pending = 1 .. Len(queue) + 1
  BY <1>1, <1>3
<1> QED BY <1>1, <1>2, <1>3, <1>4

\* Every request not done with is one the window made.
LEMMA PendingSound ==
    ASSUME TypeOK
    PROVE  Pending \in Seq(Requests) /\ \A i \in DOMAIN Pending : Sound(Pending[i])
<1>1. queue \in Seq(Requests) /\ (Working => req \in Requests) /\ (Working => Sound(req))
      /\ \A i \in DOMAIN queue : Sound(queue[i])
  BY DEF TypeOK, Sound
<1>2. CASE Working
  <2>1. /\ Pending \in Seq(Requests) /\ Pending[1] = req
        /\ \A i \in 2 .. Len(Pending) : i - 1 \in DOMAIN queue /\ Pending[i] = queue[i - 1]
    BY <1>1, <1>2, PendingFact
  <2>2. \A i \in DOMAIN Pending : i = 1 \/ i \in 2 .. Len(Pending)
    BY <2>1
  <2> QED BY <1>1, <1>2, <2>1, <2>2
<1>3. CASE ~Working
  BY <1>1, <1>3, PendingFact
<1> QED BY <1>2, <1>3
-----------------------------------------------------------------------------
(* What a step does *)

\* What a call of the window that makes the request new tells the window, and
\* where it sends the playhead, if anywhere: a frame of the project given last.
Tells(new) ==
    /\ ~stopping /\ UNCHANGED <<stopping, workerVars>>
    /\ scrubbing' \in BOOLEAN
    /\ asked' = IF Loads(new) THEN new.project ELSE asked
    /\ Carries(new) => new.project = asked'
    /\ new.command \in {"SwapProject", "UpdateAudioMix"} \cup Seeks => asked # NoProject
    /\ intent' = IF new.command = "Play" THEN TRUE ELSE IF new.command = "Pause" THEN FALSE ELSE intent
    /\ refused' = IF new.command \in {"Play", "Pause"} THEN FALSE ELSE refused
    /\ pausedLast' = IF new.command = "Play" THEN FALSE ELSE IF Turns(new) THEN TRUE ELSE pausedLast

Aims(new) ==
    /\ goal' \in Nat \cup {-1}
    /\ goal' >= 0 =>
          /\ new.command \notin {"Play", "Step"}
          /\ goal' = IF Moves(new) THEN new.arg ELSE goal
          /\ Loads(new) \/ new.command \in Seeks => goal' < LengthOf[asked']
          /\ new.command \in Seeks => pausedLast
          /\ new.command = "SwapProject" => \A r \in Range(queue) : r.command # "SwapProject"

Called(new) == Sound(new) /\ Push(new) /\ Tells(new) /\ Aims(new)

LEMMA RequestFact ==
    ASSUME NEW command \in Commands, NEW arg \in Int, NEW p \in Snapshots
    PROVE  \E new \in Requests : /\ new = Request(command, arg, p)
                                /\ new.command = command /\ new.arg = arg /\ new.project = p
<1> DEFINE r == Request(command, arg, p)
<1>1. r \in Requests /\ r.command = command /\ r.arg = arg /\ r.project = p
  BY DEF Request, Requests
<1> QED BY <1>1

LEMMA WindowCalls ==
    ASSUME TypeOK, Gui, ~Destroy
    PROVE  \E new \in Requests : Called(new)
<1> USE DEF Sound, Snapshots, Loads, Carries, Turns, Moves, Seeks
<1>0. /\ goal \in Nat \cup {-1} /\ asked \in Snapshots /\ scrubbing \in BOOLEAN
      /\ \A p \in Projects : p # NoProject /\ LengthOf[p] \in Nat
  BY LengthAssumption, ProjectAssumption DEF TypeOK
<1>1. ASSUME NEW p \in Projects, NEW frame \in {-1, 0}, SetProject(p, frame)
      PROVE  \E new \in Requests : Called(new)
  <2>1. PICK new \in Requests : /\ new = Request("SetProject", frame, p)
                               /\ new.command = "SetProject" /\ new.arg = frame /\ new.project = p
    BY <1>0, RequestFact DEF Commands
  <2>2. Push(new)
    BY <1>1, <2>1 DEF SetProject
  <2>3. Sound(new)
    BY <1>0, <2>1
  <2>4. Tells(new)
    BY <1>0, <1>1, <2>1 DEF Tells, SetProject, KeptGoal, Call, workerVars
  <2>5. Aims(new)
    BY <1>0, <1>1, <2>1, <2>4 DEF Tells, Aims, SetProject, KeptGoal, Call
  <2> QED BY <2>2, <2>3, <2>4, <2>5 DEF Called
<1>2. ASSUME NEW p \in Projects, SwapProject(p)
      PROVE  \E new \in Requests : Called(new)
  <2>1. PICK new \in Requests : /\ new = Request("SwapProject", 0, p)
                               /\ new.command = "SwapProject" /\ new.arg = 0 /\ new.project = p
    BY <1>0, RequestFact DEF Commands
  <2>2. Push(new)
    BY <1>2, <2>1 DEF SwapProject
  <2>3. Sound(new)
    BY <1>0, <2>1
  <2>4. Tells(new)
    BY <1>0, <1>2, <2>1 DEF Tells, SwapProject, KeptGoal, Call, workerVars
  <2>5. Aims(new)
    BY <1>0, <1>2, <2>1, <2>4 DEF Tells, Aims, SwapProject, KeptGoal, Call
  <2> QED BY <2>2, <2>3, <2>4, <2>5 DEF Called
<1>3. CASE UpdateAudioMix
  <2>1. PICK new \in Requests : /\ new = Request("UpdateAudioMix", 0, asked)
                               /\ new.command = "UpdateAudioMix" /\ new.arg = 0 /\ new.project = asked
    BY <1>0, RequestFact DEF Commands
  <2>2. Push(new)
    BY <1>3, <2>1 DEF UpdateAudioMix
  <2>3. Sound(new)
    BY <1>0, <1>3, <2>1 DEF UpdateAudioMix
  <2>4. Tells(new)
    BY <1>0, <1>3, <2>1 DEF Tells, UpdateAudioMix, Call, workerVars
  <2>5. Aims(new)
    BY <1>0, <1>3, <2>1, <2>4 DEF Tells, Aims, UpdateAudioMix, Call
  <2> QED BY <2>2, <2>3, <2>4, <2>5 DEF Called
<1>4. ASSUME Call, PushPlay, UNCHANGED <<asked, scrubbing, stopping, workerVars>>
      PROVE  \E new \in Requests : Called(new)
  <2>1. PICK new \in Requests : /\ new = Request("Play", 0, NoProject)
                               /\ new.command = "Play" /\ new.arg = 0 /\ new.project = NoProject
    BY <1>0, RequestFact DEF Commands
  <2>2. Push(new)
    BY <1>4, <2>1 DEF PushPlay
  <2>3. Sound(new)
    BY <1>0, <2>1
  <2>4. Tells(new)
    BY <1>0, <1>4, <2>1 DEF Tells, PushPlay, Call, workerVars
  <2>5. Aims(new)
    BY <1>0, <1>4, <2>1, <2>4 DEF Tells, Aims, PushPlay, Call
  <2> QED BY <2>2, <2>3, <2>4, <2>5 DEF Called
<1>5. ASSUME Call, PushPause, UNCHANGED <<asked, scrubbing, stopping, workerVars>>
      PROVE  \E new \in Requests : Called(new)
  <2>1. PICK new \in Requests : /\ new = Request("Pause", 0, NoProject)
                               /\ new.command = "Pause" /\ new.arg = 0 /\ new.project = NoProject
    BY <1>0, RequestFact DEF Commands
  <2>2. Push(new)
    BY <1>5, <2>1 DEF PushPause
  <2>3. Sound(new)
    BY <1>0, <2>1
  <2>4. Tells(new)
    BY <1>0, <1>5, <2>1 DEF Tells, PushPause, Call, workerVars
  <2>5. Aims(new)
    BY <1>0, <1>5, <2>1, <2>4 DEF Tells, Aims, PushPause, Call
  <2> QED BY <2>2, <2>3, <2>4, <2>5 DEF Called
<1>6. CASE ReleaseAudio
  <2>1. PICK new \in Requests : /\ new = Request("ReleaseAudio", 0, NoProject)
                               /\ new.command = "ReleaseAudio" /\ new.arg = 0 /\ new.project = NoProject
    BY <1>0, RequestFact DEF Commands
  <2>2. Push(new)
    BY <1>6, <2>1 DEF ReleaseAudio
  <2>3. Sound(new)
    BY <1>0, <2>1
  <2>4. Tells(new)
    BY <1>0, <1>6, <2>1 DEF Tells, ReleaseAudio, Call, workerVars
  <2>5. Aims(new)
    BY <1>0, <1>6, <2>1, <2>4 DEF Tells, Aims, ReleaseAudio, Call
  <2> QED BY <2>2, <2>3, <2>4, <2>5 DEF Called
<1>7. ASSUME NEW command \in Seeks, NEW frame \in Nat, SeekTo(command, frame), scrubbing' \in BOOLEAN
      PROVE  \E new \in Requests : Called(new)
  <2>1. PICK new \in Requests : /\ new = Request(command, frame, NoProject)
                               /\ new.command = command /\ new.arg = frame /\ new.project = NoProject
    BY <1>0, RequestFact DEF Commands
  <2>2. Push(new)
    BY <1>7, <2>1 DEF SeekTo
  <2>3. Sound(new)
    BY <1>0, <2>1
  <2>4. Tells(new)
    BY <1>0, <1>7, <2>1 DEF Tells, SeekTo, Call, workerVars
  <2>5. Aims(new)
    BY <1>0, <1>7, <2>1, <2>4 DEF Tells, Aims, SeekTo, Call
  <2> QED BY <2>2, <2>3, <2>4, <2>5 DEF Called
<1>8. ASSUME NEW delta \in {-1, 1}, Step(delta)
      PROVE  \E new \in Requests : Called(new)
  <2>1. PICK new \in Requests : /\ new = Request("Step", delta, NoProject)
                               /\ new.command = "Step" /\ new.arg = delta /\ new.project = NoProject
    BY <1>0, RequestFact DEF Commands
  <2>2. Push(new)
    BY <1>8, <2>1 DEF Step
  <2>3. Sound(new)
    BY <1>0, <2>1
  <2>4. Tells(new)
    BY <1>0, <1>8, <2>1 DEF Tells, Step, Call, workerVars
  <2>5. Aims(new)
    BY <1>0, <1>8, <2>1, <2>4 DEF Tells, Aims, Step, Call
  <2> QED BY <2>2, <2>3, <2>4, <2>5 DEF Called
<1> QED
  <2>1. CASE Play \/ Pause \/ TogglePlayPause
    BY <1>4, <1>5, <2>1 DEF Play, Pause, TogglePlayPause
  <2>2. ASSUME NEW frame \in 0 .. LastFrame, Seek(frame) \/ Drag(frame) \/ Drop(frame)
        PROVE  \E new \in Requests : Called(new)
    <3>1. scrubbing' \in BOOLEAN /\ (SeekTo("Seek", frame) \/ SeekTo("SeekPreview", frame))
      BY <1>0, <2>2 DEF Seek, Drag, Drop
    <3>2. frame \in Nat
      OBVIOUS
    <3> QED BY <1>7, <3>1, <3>2
  <2> QED BY <1>1, <1>2, <1>3, <1>6, <1>8, <2>1, <2>2 DEF Gui

\* The call coalesces the requests not done with: those at f[1], f[2], ... stay
\* in their order, and new comes after them.
Keeps(new, k, f) ==
    /\ Pending \in Seq(Requests)
    /\ DOMAIN Pending' = 1 .. k + 1 /\ Len(Pending') = k + 1 /\ Pending'[k + 1] = new
    /\ \A n \in 1 .. k : Pending'[n] = Pending[f[n]] /\ f[n] \in DOMAIN Pending
    /\ \A m, n \in 1 .. k : f[m] < f[n] <=> m < n
    /\ \A i \in DOMAIN Pending : \/ \E m \in 1 .. k : f[m] = i
                                 \/ Pending[i] \in Range(queue) /\ Outdated(Pending[i], new)

LEMMA CallKeeps ==
    ASSUME TypeOK, Gui, ~Destroy
    PROVE  \E new \in Requests : Called(new) /\ \E k \in Nat : \E f : Keeps(new, k, f)
<1>1. PICK new \in Requests : Called(new)
  BY WindowCalls
<1>2. Coalesces(Pending, Pending', new)
  <2>1. Push(new) /\ UNCHANGED <<pc, req>>
    BY <1>1 DEF Called, Tells, workerVars
  <2> QED BY <2>1, PendingPushed
<1>3. PICK k \in Nat : \E f \in [1 .. k -> DOMAIN Pending] : CoalescesBy(Pending, Pending', new, k, f)
  BY <1>2 DEF Coalesces
<1>4. PICK f \in [1 .. k -> DOMAIN Pending] : CoalescesBy(Pending, Pending', new, k, f)
  BY <1>3
<1>5. Pending \in Seq(Requests) /\ DOMAIN Pending = 1 .. Len(Pending)
  BY PendingSound
<1>6. \A m, n \in 1 .. k : f[m] < f[n] <=> m < n
  <2>1. \A n \in 1 .. k : f[n] \in Int
    BY <1>5
  <2>2. \A m, n \in 1 .. k : m < n => f[m] < f[n]
    BY <1>4 DEF CoalescesBy
  <2>3. \A m, n \in 1 .. k : m < n \/ m = n \/ n < m
    OBVIOUS
  <2>4. ASSUME NEW m \in 1 .. k, NEW n \in 1 .. k PROVE f[m] < f[n] <=> m < n
    <3>1. (m < n => f[m] < f[n]) /\ (n < m => f[n] < f[m]) /\ f[m] \in Int /\ f[n] \in Int
      BY <2>1, <2>2
    <3> QED BY <2>3, <3>1
  <2> QED BY <2>4
<1>7. DOMAIN Pending' = 1 .. k + 1 /\ Len(Pending') = k + 1
  BY <1>4 DEF CoalescesBy
<1>8. \A n \in 1 .. k : Pending'[n] = Pending[f[n]] /\ f[n] \in DOMAIN Pending
  BY <1>4 DEF CoalescesBy
<1>9. Keeps(new, k, f)
  BY <1>4, <1>5, <1>6, <1>7, <1>8 DEF CoalescesBy, Keeps
<1> QED BY <1>1, <1>9

\* A seek shows the frame it goes to, of the project there is.
Sought(frame, p, n) ==
    \/ p = NoProject /\ UNCHANGED <<current, ready, readyBase, shown>>
    \/ /\ p # NoProject
       /\ current' \in Nat /\ (0 <= frame /\ frame < n => current' = frame)
       /\ ready' \in Seq(Pictures) /\ DOMAIN ready' = {} /\ readyBase' \in Int
       /\ shown' \in [position : Int, picture : Pictures]
       /\ shown'.position = current'
       /\ shown'.picture.frame = current' /\ shown'.picture.project = p

LEMMA SeekFact ==
    ASSUME NEW frame \in Int, NEW p \in Snapshots, NEW n \in Int, HandleSeek(frame, p, n)
    PROVE  Sought(frame, p, n)
<1> USE DEF Sought
<1>1. CASE p = NoProject
  BY <1>1 DEF HandleSeek
<1>2. CASE p # NoProject
  <2>1. /\ current' = SeekTarget(frame, n) /\ ready' = <<>> /\ readyBase' = -1
        /\ shown' = [position |-> current', picture |-> [frame |-> current', project |-> p]]
    BY <1>2 DEF HandleSeek, ResetReady, Show, Frame
  <2>2. current' \in Nat /\ (0 <= frame /\ frame < n => current' = frame)
    BY <2>1, SeekTargetFact
  <2>3. [frame |-> current', project |-> p] \in Pictures
    BY <2>2 DEF Pictures
  <2>4. ready' \in Seq(Pictures) /\ DOMAIN ready' = {} /\ readyBase' \in Int
    BY <2>1
  <2> QED BY <1>2, <2>1, <2>2, <2>3, <2>4
<1> QED BY <1>1, <1>2

LEMMA SoughtType ==
    ASSUME FramesOK, NEW frame, NEW p, NEW n, Sought(frame, p, n)
    PROVE  FramesOK'
BY DEF FramesOK, Sought

\* What the presentation of the next frame shows, wherever it was taken to.
LEMMA PresentFact ==
    ASSUME TypeOK, NEW n \in Nat \cup {-1}, NEW frames \in Seq(Pictures), NEW base \in Int,
           PresentAfter(n, frames, base)
    PROVE  /\ current' = n + 1 /\ ready' \in Seq(Pictures) /\ readyBase' \in Int
           /\ shown' \in [position : Int, picture : Pictures] /\ shown'.position = n + 1
           /\ \/ shown'.picture = NoFrame
              \/ frames # <<>> /\ base = n + 1 /\ shown'.picture = frames[1]
              \/ shown'.picture = Frame(n + 1, project)
           /\ \/ /\ frames # <<>> /\ base = n + 1 /\ readyBase' = base + 1
                 /\ \A i \in DOMAIN ready' : i + 1 \in DOMAIN frames /\ ready'[i] = frames[i + 1]
              \/ \A i \in DOMAIN ready' : ready'[i] = Frame(readyBase' + i - 1, project)
<1> DEFINE want == n + 1
           use == IF frames # <<>> /\ base = want THEN frames ELSE Filled(<<>>, want, total, project)
<1>1. /\ current' = want
      /\ ready' = IF use = <<>> THEN <<>> ELSE Tail(use)
      /\ readyBase' = IF use = <<>> THEN want ELSE want + 1
      /\ shown' = [position |-> want, picture |-> IF use = <<>> THEN NoFrame ELSE Head(use)]
  BY DEF PresentAfter, Show
<1>2. /\ want \in Int /\ total \in Int /\ project \in Snapshots
      /\ NoFrame \in Pictures
  BY DEF TypeOK, NoFrame, Pictures, Snapshots
<1>3. use \in Seq(Pictures) /\ (\/ frames # <<>> /\ base = want /\ use = frames
                               \/ \A i \in DOMAIN use : use[i] = Frame(want + i - 1, project))
  <2>1. CASE frames # <<>> /\ base = want
    BY <2>1
  <2>2. CASE ~(frames # <<>> /\ base = want)
    <3>1. PICK none : none = <<>>
      OBVIOUS
    <3>2. none \in Seq(Pictures) /\ Len(none) = 0 /\ use = Filled(none, want, total, project)
      BY <2>2, <3>1
    <3> HIDE DEF want, use
    <3>3. /\ use \in Seq(Pictures)
          /\ \A i \in 1 .. Len(use) : \/ i \in 1 .. Len(none) /\ use[i] = none[i]
                                      \/ use[i] = Frame(want + i - 1, project)
      <4>1. LET all == Filled(none, want, total, project)
            IN /\ all \in Seq(Pictures)
               /\ \A i \in 1 .. Len(all) : \/ i \in 1 .. Len(none) /\ all[i] = none[i]
                                           \/ all[i] = Frame(want + i - 1, project)
        BY <1>2, <3>2, FilledFact
      <4> QED BY <3>2, <4>1
    <3>4. \A i \in 1 .. Len(use) : use[i] = Frame(want + i - 1, project)
      BY <3>2, <3>3
    <3>5. DOMAIN use = 1 .. Len(use)
      BY <3>3
    <3> QED BY <3>3, <3>4, <3>5
  <2> QED BY <2>1, <2>2
<1> HIDE DEF want, use
<1>4. CASE use = <<>>
  <2>1. ready' = <<>> /\ DOMAIN ready' = {} /\ readyBase' = want /\ shown' = [position |-> want, picture |-> NoFrame]
    BY <1>1, <1>4
  <2> QED BY <1>1, <1>2, <2>1 DEF want
<1>5. CASE use # <<>>
  <2>1. /\ ready' = Tail(use) /\ readyBase' = want + 1 /\ shown' = [position |-> want, picture |-> use[1]]
        /\ use[1] \in Pictures /\ 1 \in DOMAIN use
    BY <1>1, <1>3, <1>5
  <2>2. /\ ready' \in Seq(Pictures)
        /\ \A i \in DOMAIN ready' : i + 1 \in DOMAIN use /\ ready'[i] = use[i + 1] /\ i \in Int
    BY <1>3, <1>5, <2>1
  <2>3. CASE frames # <<>> /\ base = want /\ use = frames
    BY <1>1, <1>2, <2>1, <2>2, <2>3 DEF want
  <2>4. CASE \A i \in DOMAIN use : use[i] = Frame(want + i - 1, project)
    <3>1. use[1] = Frame(want + 1 - 1, project) /\ want + 1 - 1 = want
      BY <1>2, <2>1, <2>4
    <3>2. \A i \in DOMAIN ready' : ready'[i] = Frame(want + (i + 1) - 1, project)
      BY <2>2, <2>4
    <3>3. \A i \in Int : want + (i + 1) - 1 = readyBase' + i - 1
      BY <1>2, <2>1
    <3> QED BY <1>1, <1>2, <2>1, <2>2, <3>1, <3>2, <3>3 DEF want
  <2> QED BY <1>3, <2>3, <2>4
<1> QED BY <1>4, <1>5

\* A playhead that skips frames stays before the last one.
LEMMA CaughtUpFact ==
    ASSUME current \in Nat \cup {-1}, total \in Nat, current + 1 < total,
           NEW owed \in 2 .. total, NEW audible \in -1 .. total - 1
    PROVE  CaughtUp(owed, audible) \in Nat
<1> DEFINE ceiling == audible + Max({Lookahead, 1})
           want == current + owed
           x == IF audible >= 0 /\ want > ceiling THEN ceiling ELSE want
<1>3. ceiling \in Int /\ want \in Int /\ total \in Int /\ total > 0
  BY MaxOfTwo, LookaheadAssumption
<1>4. Reconcile(want, audible, Lookahead, total) = ClampTo(x, 0, total - 1)
  BY <1>3 DEF Reconcile
<1>5. x \in Int
  BY <1>3
<1> HIDE DEF x
<1>6. ClampTo(x, 0, total - 1) \in 0 .. total - 1
  <2>1. 0 \in Int /\ total - 1 \in Int /\ 0 <= total - 1
    BY <1>3
  <2> QED BY <1>5, <2>1, ClampFact
<1>7. CaughtUp(owed, audible) = Min({ClampTo(x, 0, total - 1), total - 1})
  BY <1>4 DEF CaughtUp
<1> QED BY <1>3, <1>6, <1>7, MinOfTwo

LEMMA PresentCases ==
    ASSUME TypeOK, Present \/ PresentLate
    PROVE  \E n \in Nat \cup {-1}, frames \in Seq(Pictures), base \in Int :
              /\ PresentAfter(n, frames, base)
              /\ frames = <<>> \/ (frames = ready /\ base = readyBase)
<1>1. CASE Present
  <2>1. PresentAfter(current, ready, readyBase)
    BY <1>1 DEF Present
  <2> QED BY <2>1 DEF TypeOK, FramesOK
<1>2. CASE PresentLate
  <2>1. current \in Nat \cup {-1} /\ total \in Nat /\ current + 1 < total
    BY <1>2 DEF PresentLate, TypeOK, FramesOK
  <2>2. PICK owed \in 2 .. total, audible \in -1 .. total - 1 : PresentAfter(CaughtUp(owed, audible), <<>>, -1)
    BY <1>2 DEF PresentLate
  <2>3. CaughtUp(owed, audible) \in Nat /\ <<>> \in Seq(Pictures) /\ -1 \in Int
    BY <2>1, CaughtUpFact
  <2> QED BY <2>2, <2>3
<1> QED BY <1>1, <1>2

LEMMA ResetType ==
    ASSUME FramesOK, ResetReady, UNCHANGED shown, current' \in Nat \cup {-1}
    PROVE  FramesOK'
BY DEF FramesOK, ResetReady

LEMMA FillFact ==
    ASSUME TypeOK, Fill
    PROVE  /\ ready' \in Seq(Pictures) /\ readyBase' = current + 1
           /\ \A i \in DOMAIN ready' :
                 \/ readyBase = current + 1 /\ i \in DOMAIN ready /\ ready'[i] = ready[i]
                 \/ ready'[i] = Frame(current + i, project)
<1> DEFINE base == current + 1
<1>1. PICK kept \in Seq(Pictures) : /\ ready' = Filled(kept, base, total, project)
                                    /\ \A i \in 1 .. Len(kept) : readyBase = base /\ kept = ready
  <2>1. CASE readyBase = base
    <3>1. ready' = Filled(ready, base, total, project) /\ ready \in Seq(Pictures)
      BY <2>1 DEF Fill, FillLookahead, TypeOK, FramesOK
    <3> QED BY <2>1, <3>1
  <2>2. CASE readyBase # base
    <3>1. PICK none : none = <<>>
      OBVIOUS
    <3>2. ready' = Filled(none, base, total, project)
      BY <2>2, <3>1 DEF Fill, FillLookahead
    <3>3. none \in Seq(Pictures) /\ 1 .. Len(none) = {}
      BY <3>1
    <3> QED BY <3>2, <3>3
  <2> QED BY <2>1, <2>2
<1>2. base \in Int /\ total \in Int /\ project \in Snapshots /\ readyBase' = base
  BY DEF TypeOK, FramesOK, Fill
<1>3. LET all == Filled(kept, base, total, project)
      IN /\ all \in Seq(Pictures)
         /\ \A i \in 1 .. Len(all) : \/ i \in 1 .. Len(kept) /\ all[i] = kept[i]
                                     \/ all[i] = Frame(base + i - 1, project)
  BY <1>2, FilledFact
<1>4. /\ ready' \in Seq(Pictures) /\ DOMAIN ready' = 1 .. Len(ready')
      /\ \A i \in 1 .. Len(ready') : \/ i \in 1 .. Len(kept) /\ ready'[i] = kept[i]
                                     \/ ready'[i] = Frame(base + i - 1, project)
  BY <1>1, <1>3
<1>5. \A i \in Int : base + i - 1 = current + i
  BY DEF TypeOK, FramesOK
<1>6. ASSUME NEW i \in DOMAIN ready'
      PROVE  \/ readyBase = current + 1 /\ i \in DOMAIN ready /\ ready'[i] = ready[i]
             \/ ready'[i] = Frame(current + i, project)
  <2>1. i \in Int
    BY <1>4
  <2>2. CASE i \in 1 .. Len(kept) /\ ready'[i] = kept[i]
    <3>1. readyBase = base /\ kept = ready
      BY <1>1, <2>2
    <3>2. i \in DOMAIN kept
      BY <2>2
    <3> QED BY <2>2, <3>1, <3>2
  <2>3. CASE ready'[i] = Frame(base + i - 1, project)
    <3>1. base + i - 1 = current + i
      BY <1>5, <2>1
    <3> QED BY <2>3, <3>1
  <2> QED BY <1>4, <2>2, <2>3
<1> QED BY <1>2, <1>4, <1>6

LEMMA TypePreserved ==
    ASSUME TypeOK, [Next]_vars
    PROVE  TypeOK'
<1> USE DEF Goto, handled, unreadByGui, guiVars, Working, FramesOK
<1>1. CASE Gui /\ ~Destroy
  <2>1. PICK new \in Requests : Called(new)
    BY <1>1, WindowCalls
  <2>2. Coalesces(queue, queue', new)
    BY <2>1, PushCoalesces DEF Called, TypeOK
  <2>3. queue' \in Seq(Requests) /\ \A i \in DOMAIN queue' : Sound(queue'[i])
    <3>1. PICK k \in Nat : \E f \in [1 .. k -> DOMAIN queue] :
            /\ queue' \in Seq(Requests) /\ Len(queue') = k + 1 /\ queue'[k + 1] = new
            /\ \A m \in 1 .. k : queue'[m] = queue[f[m]]
      BY <2>2 DEF Coalesces, CoalescesBy
    <3>2. \A i \in DOMAIN queue' : i \in 1 .. k \/ i = k + 1
      BY <3>1
    <3> QED BY <2>1, <3>1, <3>2 DEF Called, TypeOK
  <2>4. /\ UNCHANGED <<stopping, workerVars>> /\ scrubbing' \in BOOLEAN
        /\ asked' \in Snapshots /\ intent' \in BOOLEAN /\ refused' \in BOOLEAN
        /\ pausedLast' \in BOOLEAN /\ goal' \in Nat \cup {-1}
    BY <2>1 DEF Called, Tells, Aims, TypeOK, Requests
  <2> QED BY <2>3, <2>4 DEF TypeOK, workerVars
<1>2. CASE Destroy
  BY <1>2 DEF Destroy, TypeOK, workerVars
<1>3. CASE TakeRequest
  <2>1. Sound(req') /\ queue' \in Seq(Requests) /\ \A i \in DOMAIN queue' : Sound(queue'[i])
    <3>1. queue \in Seq(Requests) /\ queue # <<>> /\ queue' = Tail(queue)
      BY <1>3 DEF TakeRequest, TypeOK
    <3>2. queue' \in Seq(Requests) /\ \A i \in DOMAIN queue' : i + 1 \in DOMAIN queue /\ queue'[i] = queue[i + 1]
      BY <3>1
    <3> QED BY <1>3, <3>2, PendingTaken DEF TypeOK
  <2> QED BY <1>3, <2>1 DEF TakeRequest, TypeOK
<1>4. CASE NothingToTake \/ Interrupted \/ FrameDue
  BY <1>4 DEF NothingToTake, Interrupted, FrameDue, TypeOK
<1>5. CASE HandleSetProject
  <2> DEFINE anchor == IF req.arg >= 0 THEN req.arg ELSE Max({current, 0})
  <2>1. /\ pc = "handle" /\ req.project \in Snapshots /\ req.project # NoProject /\ req.arg \in Int
        /\ LengthOf[req.project] \in Nat /\ current \in Int
    BY <1>5, LengthAssumption DEF HandleSetProject, Handle, TypeOK, Sound, Requests, Carries, Snapshots
  <2>2. anchor \in Int
    BY <2>1, MaxOfTwo
  <2>3. HandleSeek(anchor, req.project, LengthOf[req.project])
    BY <1>5 DEF HandleSetProject
  <2> HIDE DEF anchor
  <2>4. Sought(anchor, req.project, LengthOf[req.project])
    BY <2>1, <2>2, <2>3, SeekFact
  <2>5. FramesOK'
    BY <2>4, SoughtType DEF TypeOK
  <2> QED BY <1>5, <2>1, <2>5 DEF HandleSetProject, StopPlaying, TypeOK
<1>6. CASE HandleSwapProject
  <2>1. /\ pc = "handle" /\ req.project \in Snapshots /\ req.project # NoProject
        /\ LengthOf[req.project] \in Nat /\ current \in Int
    BY <1>6, LengthAssumption DEF HandleSwapProject, Handle, TypeOK, Sound, Requests, Carries, Snapshots
  <2>2. HandleSeek(current, req.project, LengthOf[req.project]) \/ UNCHANGED <<current, ready, readyBase, shown>>
    BY <1>6 DEF HandleSwapProject
  <2>3. Sought(current, req.project, LengthOf[req.project]) \/ UNCHANGED <<current, ready, readyBase, shown>>
    BY <2>1, <2>2, SeekFact
  <2>4. FramesOK'
    BY <2>3, SoughtType DEF TypeOK
  <2> QED BY <1>6, <2>1, <2>4 DEF HandleSwapProject, TypeOK
<1>7. CASE HandleUpdateAudioMix
  BY <1>7 DEF HandleUpdateAudioMix, Handle, TypeOK, Sound, Requests
<1>8. CASE HandlePlay
  <2>1. HandleSeek(0, project, total) \/ (ResetReady /\ UNCHANGED <<current, shown>>)
        \/ UNCHANGED <<current, ready, readyBase, shown>>
    BY <1>8 DEF HandlePlay
  <2>2. project \in Snapshots /\ total \in Int
    BY DEF TypeOK
  <2>3. Sought(0, project, total) \/ (ResetReady /\ UNCHANGED <<current, shown>>)
        \/ UNCHANGED <<current, ready, readyBase, shown>>
    BY <2>1, <2>2, SeekFact
  <2>4. FramesOK'
    BY <2>3, SoughtType, ResetType DEF TypeOK
  <2> QED BY <1>8, <2>4 DEF HandlePlay, TypeOK
<1>9. CASE HandlePause
  BY <1>9 DEF HandlePause, StopPlaying, TypeOK
<1>10. CASE HandleSeekOrStep
  <2> DEFINE frame == IF req.command = "Seek" THEN req.arg ELSE current + req.arg
  <2>1. HandleSeek(frame, project, total) /\ frame \in Int
    BY <1>10 DEF HandleSeekOrStep, Handle, TypeOK, Sound, Requests
  <2> HIDE DEF frame
  <2>2. project \in Snapshots /\ total \in Int
    BY DEF TypeOK
  <2>3. Sought(frame, project, total)
    BY <2>1, <2>2, SeekFact
  <2>4. FramesOK'
    BY <2>3, SoughtType DEF TypeOK
  <2> QED BY <1>10, <2>4 DEF HandleSeekOrStep, TypeOK
<1>11. CASE HandleSeekPreview
  <2>1. /\ req.command = "SeekPreview" /\ req.arg \in Int /\ total \in Int /\ pc = "handle"
    BY <1>11 DEF HandleSeekPreview, Handle, TypeOK, Sound, Requests
  <2>2. PreviewTarget \in Nat
    BY <2>1, SeekTargetFact DEF PreviewTarget
  <2>3. \/ HandleSeek(req.arg, project, total)
        \/ UNCHANGED <<current, ready, readyBase, shown>>
        \/ current' = PreviewTarget /\ UNCHANGED shown /\ (ResetReady \/ UNCHANGED <<ready, readyBase>>)
    BY <1>11 DEF HandleSeekPreview
  <2>a. project \in Snapshots
    BY DEF TypeOK
  <2>b. \/ Sought(req.arg, project, total)
        \/ UNCHANGED <<current, ready, readyBase, shown>>
        \/ current' = PreviewTarget /\ UNCHANGED shown /\ (ResetReady \/ UNCHANGED <<ready, readyBase>>)
    BY <2>1, <2>3, <2>a, SeekFact
  <2>4. FramesOK'
    BY <2>2, <2>b, SoughtType, ResetType DEF TypeOK
  <2>5. pc' \in {"top", "preview"} /\ UNCHANGED <<handled, playing, intent, refused, total, project>>
    BY <1>11 DEF HandleSeekPreview
  <2> QED BY <2>1, <2>4, <2>5 DEF TypeOK
<1>12. CASE FinishPreview
  <2>1. req.arg \in Int /\ total \in Int /\ pc = "preview"
    BY <1>12 DEF FinishPreview, TypeOK, Sound, Requests
  <2>a. PreviewTarget \in Nat /\ project \in Snapshots
    BY <2>1, SeekTargetFact DEF PreviewTarget, TypeOK
  <2>2. PreviewTarget \in Nat /\ Frame(PreviewTarget, project) \in Pictures
    BY <2>a DEF Frame, Pictures
  <2>3. /\ current' \in Nat \cup {-1} /\ shown' \in [position : Int, picture : Pictures]
    BY <1>12, <2>2 DEF FinishPreview, Show, TypeOK
  <2> QED BY <1>12, <2>1, <2>3 DEF FinishPreview, TypeOK
<1>13. CASE Fill
  <2>1. ready' \in Seq(Pictures) /\ readyBase' \in Int
    BY <1>13, FillFact DEF TypeOK
  <2> QED BY <1>13, <2>1 DEF Fill, TypeOK
<1>14. CASE PresentEnd
  BY <1>14 DEF PresentEnd, StopPlaying, TypeOK
<1>15. CASE Present \/ PresentLate
  <2>1. PICK n \in Nat \cup {-1}, frames \in Seq(Pictures), base \in Int : PresentAfter(n, frames, base)
    BY <1>15, PresentCases
  <2>2. /\ current' = n + 1 /\ ready' \in Seq(Pictures) /\ readyBase' \in Int
        /\ shown' \in [position : Int, picture : Pictures]
    BY <2>1, PresentFact
  <2>3. pc' = "top" /\ UNCHANGED <<handled, playing, intent, refused, total, project>>
    BY <2>1 DEF PresentAfter
  <2>4. n + 1 \in Nat
    BY <2>1
  <2> QED BY <2>2, <2>3, <2>4 DEF TypeOK
<1>16. CASE UNCHANGED vars
  BY <1>16 DEF vars, TypeOK
<1> QED BY <1>1, <1>2, <1>3, <1>4, <1>5, <1>6, <1>7, <1>8, <1>9, <1>10, <1>11, <1>12, <1>13,
           <1>14, <1>15, <1>16 DEF Next, Worker

\* The worker takes a request, waits, presents or begins a preview: nothing is
\* done with and no project changes.
GoesOn ==
    \/ TakeRequest \/ NothingToTake \/ Interrupted \/ FrameDue
    \/ Fill \/ PresentEnd \/ Present \/ PresentLate
    \/ HandleSeekPreview /\ pc' = "preview"

\* The worker is done with the request it works on.
Finishes ==
    \/ HandleSetProject \/ HandleSwapProject \/ HandleUpdateAudioMix
    \/ HandlePlay \/ HandlePause \/ HandleSeekOrStep \/ FinishPreview
    \/ HandleSeekPreview /\ pc' = "top"

LEMMA WorkerSteps == Worker => GoesOn \/ Finishes
  BY DEF Worker, GoesOn, Finishes, HandleSeekPreview, Goto

LEMMA GoingOn ==
    ASSUME TypeOK, GoesOn
    PROVE  Pending' = Pending /\ UNCHANGED <<project, total, scrubbing, stopping, guiVars>>
<1> USE DEF Goto, handled, unreadByGui
<1>1. CASE TakeRequest
  BY <1>1, PendingTaken DEF TakeRequest
<1>2. CASE NothingToTake \/ Interrupted \/ FrameDue \/ Fill \/ PresentEnd
  <2>1. ~Working /\ ~Working' /\ queue' = queue
    BY <1>2 DEF NothingToTake, Interrupted, FrameDue, Fill, PresentEnd, Working
  <2> QED BY <1>2, <2>1 DEF NothingToTake, Interrupted, FrameDue, Fill, PresentEnd, Pending
<1>3. CASE Present \/ PresentLate
  <2>1. pc = "present" /\ \E n, frames, base : PresentAfter(n, frames, base)
    BY <1>3 DEF Present, PresentLate
  <2>2. pc' = "top" /\ UNCHANGED <<handled, project, total>>
    BY <2>1 DEF PresentAfter
  <2> QED BY <2>1, <2>2 DEF Pending, Working
<1>4. CASE HandleSeekPreview /\ pc' = "preview"
  <2>1. pc = "handle" /\ UNCHANGED <<handled, project, total>>
    BY <1>4 DEF HandleSeekPreview, Handle
  <2> QED BY <1>4, <2>1 DEF Pending, Working
<1> QED BY <1>1, <1>2, <1>3, <1>4 DEF GoesOn

LEMMA Finishing ==
    ASSUME TypeOK, Finishes
    PROVE  /\ Working /\ ~Working' /\ queue' = queue /\ req' = req
           /\ UNCHANGED <<scrubbing, stopping, guiVars>>
BY DEF Finishes, Working, HandleSetProject, HandleSwapProject, HandleUpdateAudioMix, HandlePlay,
       HandlePause, HandleSeekOrStep, FinishPreview, HandleSeekPreview, Handle, Goto, handled, unreadByGui

\* The request the worker works on, and what it works with.
LEMMA Handling ==
    ASSUME TypeOK, Working
    PROVE  /\ req.command \in Commands /\ req.arg \in Int /\ req.project \in Snapshots
           /\ Carries(req) => req.project \in Projects /\ req.project # NoProject /\ LengthOf[req.project] \in Nat
           /\ req.command \in Seeks => req.arg \in Nat
           /\ req.command = "SetProject" => req.arg \in {-1, 0}
           /\ current \in Int /\ total \in Int /\ project \in Snapshots
BY LengthAssumption DEF TypeOK, FramesOK, Sound, Requests, Snapshots

LEMMA SetProjectFact ==
    ASSUME TypeOK, HandleSetProject
    PROVE  /\ project' = req.project /\ total' = LengthOf[req.project] /\ req.project # NoProject
           /\ LengthOf[req.project] \in Nat
           /\ ~playing' /\ ~intent' /\ ~refused'
           /\ req.arg >= 0 => Sought(req.arg, req.project, LengthOf[req.project])
           /\ req.arg < 0 /\ current >= 0 => Sought(current, req.project, LengthOf[req.project])
           /\ \E anchor \in Int : Sought(anchor, req.project, LengthOf[req.project])
<1> DEFINE anchor == IF req.arg >= 0 THEN req.arg ELSE Max({current, 0})
<1>1. /\ project' = req.project /\ total' = LengthOf[req.project] /\ req.command = "SetProject" /\ Working
      /\ ~playing' /\ ~intent' /\ ~refused'
      /\ HandleSeek(anchor, req.project, LengthOf[req.project])
  BY DEF HandleSetProject, Handle, Working, StopPlaying
<1>2. /\ req.arg \in Int /\ req.project \in Snapshots /\ req.project # NoProject
      /\ LengthOf[req.project] \in Int /\ LengthOf[req.project] \in Nat /\ current \in Int
  BY <1>1, Handling DEF Carries
<1>3. anchor = IF req.arg >= 0 THEN req.arg ELSE IF current >= 0 THEN current ELSE 0
  BY <1>2, MaxOfTwo
<1>4. anchor \in Int
  BY <1>2, <1>3
<1> HIDE DEF anchor
<1>5. Sought(anchor, req.project, LengthOf[req.project])
  BY <1>1, <1>2, <1>4, SeekFact
<1> QED BY <1>1, <1>2, <1>3, <1>4, <1>5
-----------------------------------------------------------------------------
(* The first project *)

\* There is a playhead once there is a project, and whatever needs a project
\* comes after the one set first.
ProjectInv ==
    /\ project # NoProject => current >= 0
    /\ total > 0 => project # NoProject
    /\ project = NoProject => \A i \in DOMAIN Pending :
          Carries(Pending[i]) => \E j \in 1 .. i : Pending[j].command = "SetProject"
    /\ project = NoProject /\ asked # NoProject /\ ~stopping =>
          \E i \in DOMAIN Pending : Pending[i].command = "SetProject"

LEMMA ProjectPreserved ==
    ASSUME TypeOK, TypeOK', ProjectInv, [Next]_vars
    PROVE  ProjectInv'
<1>1. CASE Gui /\ ~Destroy
  <2>1. PICK new \in Requests : Called(new) /\ \E k \in Nat : \E f : Keeps(new, k, f)
    BY <1>1, CallKeeps
  <2>2. /\ UNCHANGED <<project, total, current, pc, req, stopping>> /\ ~stopping
        /\ asked' = IF Loads(new) THEN new.project ELSE asked
        /\ new.command \in {"SwapProject", "UpdateAudioMix"} \cup Seeks => asked # NoProject
    BY <2>1 DEF Called, Tells, workerVars
  <2>3. PICK k \in Nat : \E f : Keeps(new, k, f)
    BY <2>1
  <2>4. PICK f : Keeps(new, k, f)
    BY <2>3
  <2>5. /\ \A m \in 1 .. k : Pending'[m] = Pending[f[m]] /\ f[m] \in DOMAIN Pending
        /\ \A m, n \in 1 .. k : f[m] < f[n] <=> m < n
        /\ Pending'[k + 1] = new
    BY <2>4 DEF Keeps
  <2>6. Pending \in Seq(Requests) /\ DOMAIN Pending' = 1 .. k + 1 /\ DOMAIN Pending = 1 .. Len(Pending)
        /\ Len(Pending) \in Nat
    BY <2>4 DEF Keeps
  <2>7. ASSUME NEW i \in DOMAIN Pending, Pending[i].command = "SetProject"
        PROVE  \E m \in 1 .. k : f[m] = i
    BY <2>4, <2>7 DEF Keeps, Outdated, Seeks
  <2>8. project = NoProject => \A i \in DOMAIN Pending' :
          Carries(Pending'[i]) => \E j \in 1 .. i : Pending'[j].command = "SetProject"
    <3> SUFFICES ASSUME project = NoProject, NEW i \in DOMAIN Pending', Carries(Pending'[i])
                 PROVE  \E j \in 1 .. i : Pending'[j].command = "SetProject"
      OBVIOUS
    <3>1. CASE i \in 1 .. k
      <4>1. f[i] \in DOMAIN Pending /\ Carries(Pending[f[i]])
        BY <2>5, <3>1
      <4>2. PICK j \in 1 .. f[i] : Pending[j].command = "SetProject"
        BY <4>1 DEF ProjectInv
      <4>3. j \in DOMAIN Pending /\ f[i] \in Int
        BY <2>6, <4>1
      <4>4. PICK m \in 1 .. k : f[m] = j
        BY <2>7, <4>2, <4>3
      <4>5. ~(i < m)
        BY <2>5, <3>1, <4>3, <4>4
      <4> QED BY <2>5, <3>1, <4>2, <4>4, <4>5
    <3>2. CASE i = k + 1
      <4>1. CASE new.command = "SetProject"
        BY <2>5, <3>2, <4>1
      <4>2. CASE new.command # "SetProject"
        <5>1. asked # NoProject
          BY <2>2, <2>5, <3>2, <4>2 DEF Carries
        <5>2. PICK j \in DOMAIN Pending : Pending[j].command = "SetProject"
          BY <2>2, <5>1 DEF ProjectInv
        <5>3. PICK m \in 1 .. k : f[m] = j
          BY <2>7, <5>2
        <5> QED BY <2>5, <3>2, <5>2, <5>3
      <4> QED BY <4>1, <4>2
    <3> QED BY <2>6, <3>1, <3>2
  <2>9. project = NoProject /\ asked' # NoProject =>
          \E i \in DOMAIN Pending' : Pending'[i].command = "SetProject"
    <3> SUFFICES ASSUME project = NoProject, asked' # NoProject
                 PROVE  \E i \in DOMAIN Pending' : Pending'[i].command = "SetProject"
      OBVIOUS
    <3>1. CASE new.command = "SetProject"
      BY <2>5, <2>6, <3>1
    <3>2. CASE new.command # "SetProject"
      <4>1. asked # NoProject
        BY <2>2, <3>2 DEF Loads
      <4>2. PICK j \in DOMAIN Pending : Pending[j].command = "SetProject"
        BY <2>2, <4>1 DEF ProjectInv
      <4>3. PICK m \in 1 .. k : f[m] = j
        BY <2>7, <4>2
      <4>4. m \in DOMAIN Pending' /\ Pending'[m] = Pending[j]
        BY <2>5, <2>6, <4>3
      <4> QED BY <4>2, <4>4
    <3> QED BY <3>1, <3>2
  <2> QED BY <2>2, <2>8, <2>9 DEF ProjectInv
<1>2. CASE Destroy
  <2>1. queue' = <<>> /\ stopping' /\ UNCHANGED <<project, total, current, pc, req>>
    BY <1>2 DEF Destroy, workerVars
  <2>2. ASSUME project = NoProject, NEW i \in DOMAIN Pending', Carries(Pending'[i])
        PROVE  \E j \in 1 .. i : Pending'[j].command = "SetProject"
    <3>1. CASE Working
      <4>1. Pending' = <<req>> \o <<>> /\ req \in Requests
        BY <2>1, <3>1 DEF Pending, Working, TypeOK, Sound
      <4>2. DOMAIN Pending' = {1} /\ Pending'[1] = req
        BY <4>1
      <4>3. Pending[1] = req /\ 1 \in DOMAIN Pending
        BY <3>1, PendingFact DEF TypeOK, Sound
      <4>4. \E j \in 1 .. 1 : Pending[j].command = "SetProject"
        BY <2>2, <4>2, <4>3 DEF ProjectInv
      <4> QED BY <4>2, <4>3, <4>4
    <3>2. CASE ~Working
      <4>1. Pending' = <<>>
        BY <2>1, <3>2 DEF Pending, Working
      <4> QED BY <4>1
    <3> QED BY <3>1, <3>2
  <2> QED BY <2>1, <2>2 DEF ProjectInv
<1>3. CASE GoesOn
  <2>1. Pending' = Pending /\ UNCHANGED <<project, total, stopping, asked>>
    BY <1>3, GoingOn DEF guiVars
  <2>2. current' = current \/ current' \in Nat
    <3>1. CASE Present \/ PresentLate
      <4>1. PICK n \in Nat \cup {-1} : \E frames, base : PresentAfter(n, frames, base)
        BY <3>1, PresentCases
      <4>2. current' = n + 1
        BY <4>1 DEF PresentAfter
      <4> QED BY <4>1, <4>2
    <3>2. CASE HandleSeekPreview /\ pc' = "preview"
      <4>1. req.arg \in Int /\ total \in Int
        BY <3>2 DEF HandleSeekPreview, Handle, TypeOK, Working, Sound, Requests
      <4>2. PreviewTarget \in Nat
        BY <4>1, SeekTargetFact DEF PreviewTarget
      <4>3. current' = PreviewTarget
        BY <3>2 DEF HandleSeekPreview, Goto
      <4> QED BY <4>2, <4>3
    <3>3. CASE TakeRequest \/ NothingToTake \/ Interrupted \/ FrameDue \/ Fill \/ PresentEnd
      BY <3>3 DEF TakeRequest, NothingToTake, Interrupted, FrameDue, Fill, PresentEnd
    <3> QED BY <1>3, <3>1, <3>2, <3>3 DEF GoesOn
  <2> QED BY <2>1, <2>2 DEF ProjectInv
<1>4. CASE Finishes
  <2>1. /\ Working /\ ~Working' /\ queue' = queue /\ req' = req
        /\ UNCHANGED <<stopping, asked>>
    BY <1>4, Finishing DEF guiVars
  <2>2. /\ Pending \in Seq(Requests) /\ Len(Pending) = Len(Pending') + 1 /\ Pending[1] = req
        /\ Pending' \in Seq(Requests)
        /\ \A i \in DOMAIN Pending' : i + 1 \in DOMAIN Pending /\ Pending[i + 1] = Pending'[i]
        /\ \A i \in 2 .. Len(Pending) : i - 1 \in DOMAIN Pending' /\ Pending[i] = Pending'[i - 1]
    BY <2>1, PendingDone
  <2>3. 1 \in DOMAIN Pending /\ DOMAIN Pending = 1 .. Len(Pending) /\ DOMAIN Pending' = 1 .. Len(Pending')
        /\ Len(Pending') \in Nat
    BY <2>2
  <2>4. Sound(req) /\ total \in Int /\ project \in Snapshots
    BY <2>1 DEF TypeOK
  <2>5. req.command \in {"SwapProject", "UpdateAudioMix"} => project # NoProject
    <3> SUFFICES ASSUME req.command \in {"SwapProject", "UpdateAudioMix"}, project = NoProject PROVE FALSE
      OBVIOUS
    <3>1. \E j \in 1 .. 1 : Pending[j].command = "SetProject"
      BY <2>2, <2>3 DEF ProjectInv, Carries
    <3> QED BY <2>2, <3>1
  <2>6. CASE project' = project /\ total' = total /\ req.command # "SetProject"
             /\ (current' = current \/ current' \in Nat)
    <3>1. ASSUME project = NoProject, NEW i \in DOMAIN Pending', Carries(Pending'[i])
          PROVE  \E j \in 1 .. i : Pending'[j].command = "SetProject"
      <4>1. i + 1 \in DOMAIN Pending /\ Carries(Pending[i + 1])
        BY <2>2, <3>1
      <4>2. PICK j \in 1 .. i + 1 : Pending[j].command = "SetProject"
        BY <3>1, <4>1 DEF ProjectInv
      <4>3. j # 1
        BY <2>2, <2>6, <4>2
      <4>4. j \in 2 .. Len(Pending) /\ j - 1 \in 1 .. i
        BY <2>2, <2>3, <4>1, <4>2, <4>3
      <4> QED BY <2>2, <4>2, <4>4
    <3>2. ASSUME project = NoProject, asked # NoProject, ~stopping
          PROVE  \E i \in DOMAIN Pending' : Pending'[i].command = "SetProject"
      <4>1. PICK i \in DOMAIN Pending : Pending[i].command = "SetProject"
        BY <3>2 DEF ProjectInv
      <4>2. i # 1
        BY <2>2, <2>6, <4>1
      <4>3. i \in 2 .. Len(Pending)
        BY <2>3, <4>2
      <4> QED BY <2>2, <4>1, <4>3
    <3> QED BY <2>1, <2>6, <3>1, <3>2 DEF ProjectInv
  <2>7. CASE HandleSetProject \/ HandleSwapProject
    <3>1. project' = req.project /\ project' # NoProject
      BY <2>4, <2>7 DEF HandleSetProject, HandleSwapProject, Handle, Sound, Carries
    <3>2. current' >= 0
      <4>1. CASE HandleSwapProject
        <5>1. req.command = "SwapProject" /\ (current >= 0 => HandleSeek(current, req.project, LengthOf[req.project]))
          BY <4>1 DEF HandleSwapProject, Handle
        <5>2. current >= 0 /\ current \in Int
          BY <2>5, <5>1 DEF ProjectInv, TypeOK, FramesOK
        <5>3. req.project \in Snapshots /\ LengthOf[req.project] \in Int /\ req.project # NoProject
          BY <2>4, <3>1, LengthAssumption DEF Sound, Requests, Snapshots
        <5>4. Sought(current, req.project, LengthOf[req.project])
          BY <5>1, <5>2, <5>3, SeekFact
        <5> QED BY <5>3, <5>4 DEF Sought
      <4>2. CASE HandleSetProject
        <5>1. PICK anchor \in Int : Sought(anchor, req.project, LengthOf[req.project])
          BY <4>2, SetProjectFact
        <5>2. req.project # NoProject
          BY <4>2, SetProjectFact
        <5> QED BY <5>1, <5>2 DEF Sought
      <4> QED BY <2>7, <4>1, <4>2
    <3> QED BY <3>1, <3>2 DEF ProjectInv
  <2>8. CASE HandleUpdateAudioMix
    <3>1. project # NoProject /\ project' # NoProject /\ UNCHANGED <<current, total>>
      BY <2>4, <2>5, <2>8 DEF HandleUpdateAudioMix, Handle, Sound, Carries
    <3> QED BY <3>1 DEF ProjectInv
  <2>9. CASE HandlePlay \/ HandlePause \/ HandleSeekOrStep \/ FinishPreview \/ (HandleSeekPreview /\ pc' = "top")
    <3>1. project' = project /\ total' = total /\ req.command # "SetProject"
      BY <2>9 DEF HandlePlay, HandlePause, HandleSeekOrStep, FinishPreview, HandleSeekPreview, Handle, TypeOK
    <3>2. /\ req.arg \in Int /\ current \in Int
      BY <2>4 DEF Sound, Requests, TypeOK, FramesOK
    <3>3. PreviewTarget \in Nat
      BY <2>4, <3>2, SeekTargetFact DEF PreviewTarget
    <3>4. \/ \E frame \in Int : HandleSeek(frame, project, total)
          \/ current' = current
          \/ current' = PreviewTarget
      BY <2>9, <3>2 DEF HandlePlay, HandlePause, HandleSeekOrStep, FinishPreview, HandleSeekPreview
    <3>5. ASSUME NEW frame \in Int, HandleSeek(frame, project, total)
          PROVE  current' = current \/ current' \in Nat
      <4>1. Sought(frame, project, total)
        BY <2>4, <3>5, SeekFact
      <4> QED BY <4>1 DEF Sought
    <3>6. current' = current \/ current' \in Nat
      BY <3>3, <3>4, <3>5
    <3> QED BY <2>6, <3>1, <3>6
  <2> QED BY <1>4, <2>7, <2>8, <2>9 DEF Finishes
<1>5. CASE UNCHANGED vars
  BY <1>5 DEF vars, guiVars, ProjectInv, Pending, Working
<1> QED BY <1>1, <1>2, <1>3, <1>4, <1>5, WorkerSteps DEF Next
-----------------------------------------------------------------------------
(* The frames decoded ahead and on screen *)

\* A step of the worker puts on screen a frame of the project it has then, one
\* decoded ahead or none, and keeps what is ahead numbered from readyBase on.
Screens ==
    /\ \/ shown' = shown
       \/ shown'.picture = NoFrame
       \/ shown'.picture.frame = shown'.position /\ shown'.picture.project = project'
       \/ \E j \in DOMAIN ready : shown'.picture = ready[j] /\ shown'.position = readyBase + j - 1
    /\ \A i \in DOMAIN ready' :
          \/ ready'[i].frame = readyBase' + i - 1 /\ ready'[i].project = project'
          \/ \E j \in DOMAIN ready : ready'[i] = ready[j] /\ readyBase' + i - 1 = readyBase + j - 1

LEMMA SwapFact ==
    ASSUME TypeOK, ProjectInv, HandleSwapProject
    PROVE  /\ project' = req.project /\ total' = LengthOf[req.project] /\ req.project # NoProject
           /\ UNCHANGED <<playing, intent, refused>>
           /\ current \in Nat /\ LengthOf[req.project] \in Nat
           /\ Sought(current, req.project, LengthOf[req.project])
<1>1. /\ project' = req.project /\ total' = LengthOf[req.project] /\ req.command = "SwapProject" /\ Working
      /\ UNCHANGED <<playing, intent, refused>>
      /\ current >= 0 => HandleSeek(current, req.project, LengthOf[req.project])
  BY DEF HandleSwapProject, Handle, Working
<1>2. /\ req.project \in Snapshots /\ req.project # NoProject
      /\ LengthOf[req.project] \in Nat /\ LengthOf[req.project] \in Int /\ current \in Int
  BY <1>1, Handling DEF Carries
<1>3. current >= 0
  <2> SUFFICES ASSUME project = NoProject PROVE FALSE
    BY DEF ProjectInv
  <2>1. Pending[1] = req /\ 1 \in DOMAIN Pending
    BY <1>1, PendingFact DEF TypeOK, Sound
  <2>2. \E j \in 1 .. 1 : Pending[j].command = "SetProject"
    BY <1>1, <2>1 DEF ProjectInv, Carries
  <2> QED BY <1>1, <2>1, <2>2
<1>4. Sought(current, req.project, LengthOf[req.project])
  BY <1>1, <1>2, <1>3, SeekFact
<1> QED BY <1>1, <1>2, <1>3, <1>4

LEMMA ScreenSteps ==
    ASSUME TypeOK, ProjectInv, Worker
    PROVE  Screens
<1>1. ASSUME NEW frame, NEW n, Sought(frame, project', n), project' # NoProject
      PROVE  Screens
  BY <1>1 DEF Sought, Screens
<1>2. ASSUME UNCHANGED shown, DOMAIN ready' = {} \/ UNCHANGED <<ready, readyBase>>
      PROVE  Screens
  <2>1. \A i \in DOMAIN ready : ready[i] = ready[i] /\ readyBase + i - 1 = readyBase + i - 1
    OBVIOUS
  <2> QED BY <1>2, <2>1 DEF Screens
<1>3. ResetReady => DOMAIN ready' = {}
  BY DEF ResetReady
<1>4. ASSUME NEW frame \in Int, HandleSeek(frame, project, total), UNCHANGED project
      PROVE  Screens
  <2>1. project \in Snapshots /\ total \in Int
    BY DEF TypeOK
  <2>2. Sought(frame, project, total)
    BY <1>4, <2>1, SeekFact
  <2>3. CASE project = NoProject
    BY <1>2, <2>2, <2>3 DEF Sought
  <2>4. CASE project # NoProject
    BY <1>1, <1>4, <2>2, <2>4
  <2> QED BY <2>3, <2>4
<1>5. CASE HandleSetProject
  <2>1. project' = req.project /\ req.project # NoProject
    BY <1>5, SetProjectFact
  <2>2. PICK anchor \in Int : Sought(anchor, req.project, LengthOf[req.project])
    BY <1>5, SetProjectFact
  <2> QED BY <1>1, <2>1, <2>2
<1>6. CASE HandleSwapProject
  <2>1. project' = req.project /\ req.project # NoProject /\ Sought(current, req.project, LengthOf[req.project])
    BY <1>6, SwapFact
  <2> QED BY <1>1, <2>1
<1>7. CASE HandleUpdateAudioMix \/ HandlePause \/ TakeRequest \/ NothingToTake \/ Interrupted \/ FrameDue \/ PresentEnd
  BY <1>2, <1>7 DEF HandleUpdateAudioMix, HandlePause, TakeRequest, NothingToTake, Interrupted, FrameDue, PresentEnd
<1>8. CASE HandlePlay
  <2>1. UNCHANGED project
        /\ (HandleSeek(0, project, total) \/ (ResetReady /\ UNCHANGED shown) \/ UNCHANGED <<ready, readyBase, shown>>)
    BY <1>8 DEF HandlePlay
  <2> QED BY <1>2, <1>3, <1>4, <2>1
<1>9. CASE HandleSeekOrStep
  <2> DEFINE frame == IF req.command = "Seek" THEN req.arg ELSE current + req.arg
  <2>1. HandleSeek(frame, project, total) /\ UNCHANGED project /\ Working
    BY <1>9 DEF HandleSeekOrStep, Handle, Working
  <2>2. frame \in Int
    BY <2>1, Handling
  <2> HIDE DEF frame
  <2> QED BY <1>4, <2>1, <2>2
<1>10. CASE HandleSeekPreview
  <2>1. Working /\ UNCHANGED project
        /\ (HandleSeek(req.arg, project, total) \/ (UNCHANGED shown /\ (ResetReady \/ UNCHANGED <<ready, readyBase>>)))
    BY <1>10 DEF HandleSeekPreview, Handle, Working
  <2>2. req.arg \in Int
    BY <2>1, Handling
  <2> QED BY <1>2, <1>3, <1>4, <2>1, <2>2
<1>11. CASE FinishPreview
  <2>1. UNCHANGED <<project, ready, readyBase>>
        /\ (UNCHANGED shown \/ shown' = [position |-> PreviewTarget, picture |-> Frame(PreviewTarget, project)])
    BY <1>11 DEF FinishPreview, Show
  <2>2. CASE UNCHANGED shown
    BY <1>2, <2>1, <2>2
  <2>3. CASE shown' = [position |-> PreviewTarget, picture |-> Frame(PreviewTarget, project)]
    <3>1. shown'.picture.frame = shown'.position /\ shown'.picture.project = project'
      BY <2>1, <2>3 DEF Frame
    <3> QED BY <2>1, <3>1 DEF Screens
  <2> QED BY <2>1, <2>2, <2>3
<1>12. CASE Fill
  <2>1. UNCHANGED <<shown, project>> /\ current \in Int
    BY <1>12 DEF Fill, TypeOK, FramesOK
  <2>2. /\ ready' \in Seq(Pictures) /\ readyBase' = current + 1
        /\ \A i \in DOMAIN ready' :
              \/ readyBase = current + 1 /\ i \in DOMAIN ready /\ ready'[i] = ready[i]
              \/ ready'[i] = Frame(current + i, project)
    BY <1>12, FillFact
  <2>3. ASSUME NEW i \in DOMAIN ready'
        PROVE  \/ ready'[i].frame = readyBase' + i - 1 /\ ready'[i].project = project'
               \/ \E j \in DOMAIN ready : ready'[i] = ready[j] /\ readyBase' + i - 1 = readyBase + j - 1
    <3>1. i \in Int /\ readyBase' + i - 1 = current + i
      BY <2>1, <2>2
    <3>2. CASE readyBase = current + 1 /\ i \in DOMAIN ready /\ ready'[i] = ready[i]
      BY <2>2, <3>2
    <3>3. CASE ready'[i] = Frame(current + i, project)
      BY <2>1, <3>1, <3>3 DEF Frame
    <3> QED BY <2>2, <3>2, <3>3
  <2> QED BY <2>1, <2>3 DEF Screens
<1>13. CASE Present \/ PresentLate
  <2>1. PICK n \in Nat \cup {-1}, frames \in Seq(Pictures), base \in Int :
           PresentAfter(n, frames, base) /\ (frames = <<>> \/ (frames = ready /\ base = readyBase))
    BY <1>13, PresentCases
  <2>2. UNCHANGED project
    BY <2>1 DEF PresentAfter
  <2>3. /\ ready' \in Seq(Pictures) /\ readyBase' \in Int /\ shown'.position = n + 1
        /\ \/ shown'.picture = NoFrame
           \/ frames # <<>> /\ base = n + 1 /\ shown'.picture = frames[1]
           \/ shown'.picture = Frame(n + 1, project)
        /\ \/ /\ frames # <<>> /\ base = n + 1 /\ readyBase' = base + 1
              /\ \A i \in DOMAIN ready' : i + 1 \in DOMAIN frames /\ ready'[i] = frames[i + 1]
           \/ \A i \in DOMAIN ready' : ready'[i] = Frame(readyBase' + i - 1, project)
    BY <2>1, PresentFact
  <2>4. \/ shown'.picture = NoFrame
        \/ shown'.picture.frame = shown'.position /\ shown'.picture.project = project'
        \/ \E j \in DOMAIN ready : shown'.picture = ready[j] /\ shown'.position = readyBase + j - 1
    <3>1. CASE frames # <<>> /\ base = n + 1 /\ shown'.picture = frames[1]
      <4>1. frames = ready /\ base = readyBase /\ 1 \in DOMAIN ready
        BY <2>1, <3>1
      <4>2. shown'.position = readyBase + 1 - 1
        BY <2>1, <2>3, <3>1, <4>1
      <4> QED BY <3>1, <4>1, <4>2
    <3>2. CASE shown'.picture = Frame(n + 1, project)
      BY <2>2, <2>3, <3>2 DEF Frame
    <3> QED BY <2>3, <3>1, <3>2
  <2>5. ASSUME NEW i \in DOMAIN ready'
        PROVE  \/ ready'[i].frame = readyBase' + i - 1 /\ ready'[i].project = project'
               \/ \E j \in DOMAIN ready : ready'[i] = ready[j] /\ readyBase' + i - 1 = readyBase + j - 1
    <3>1. CASE /\ frames # <<>> /\ base = n + 1 /\ readyBase' = base + 1
               /\ \A j \in DOMAIN ready' : j + 1 \in DOMAIN frames /\ ready'[j] = frames[j + 1]
      <4>1. frames = ready /\ base = readyBase /\ i + 1 \in DOMAIN ready /\ ready'[i] = ready[i + 1]
        BY <2>1, <3>1
      <4>2. i \in Int /\ readyBase \in Int
        BY <2>1, <2>3, <4>1
      <4>3. readyBase' + i - 1 = readyBase + (i + 1) - 1
        BY <3>1, <4>1, <4>2
      <4> QED BY <4>1, <4>3
    <3>2. CASE \A j \in DOMAIN ready' : ready'[j] = Frame(readyBase' + j - 1, project)
      BY <2>2, <3>2 DEF Frame
    <3> QED BY <2>3, <3>1, <3>2
  <2> QED BY <2>4, <2>5 DEF Screens
<1> QED BY <1>5, <1>6, <1>7, <1>8, <1>9, <1>10, <1>11, <1>12, <1>13 DEF Worker

\* Pictures are of the position they are kept or shown for.
FramesInv ==
    /\ shown.picture # NoFrame => shown.picture.frame = shown.position
    /\ \A i \in DOMAIN ready : ready[i].frame = readyBase + i - 1

LEMMA FramesPreserved ==
    ASSUME TypeOK, ProjectInv, FramesInv, [Next]_vars
    PROVE  FramesInv'
<1>1. CASE Worker
  BY <1>1, ScreenSteps DEF Screens, FramesInv
<1>2. CASE Gui /\ ~Destroy
  <2>1. UNCHANGED workerVars
    BY <1>2, WindowCalls DEF Called, Tells
  <2> QED BY <2>1 DEF FramesInv, workerVars
<1>3. CASE Destroy \/ UNCHANGED vars
  <2>1. UNCHANGED <<shown, ready, readyBase>>
    BY <1>3 DEF Destroy, workerVars, vars
  <2> QED BY <2>1 DEF FramesInv
<1> QED BY <1>1, <1>2, <1>3 DEF Next
-----------------------------------------------------------------------------
(* The project given last *)

\* The last request to bring a project along brings the one given last; once no
\* project is to be loaded, the worker has that one, and all its frames are of it.
FreshInv == ~stopping =>
    /\ \A i \in DOMAIN Pending :
          Carries(Pending[i]) /\ (\A j \in DOMAIN Pending : j > i => ~Loads(Pending[j])) =>
             Pending[i].project = asked
    /\ (\A i \in DOMAIN Pending : ~Loads(Pending[i])) =>
          /\ project = asked /\ (asked # NoProject => total = LengthOf[asked])
          /\ shown.picture # NoFrame => shown.picture.project = asked
          /\ \A i \in DOMAIN ready : ready[i].project = asked

LEMMA FreshPreserved ==
    ASSUME TypeOK, TypeOK', ProjectInv, FreshInv, [Next]_vars
    PROVE  FreshInv'
<1>1. CASE Gui /\ ~Destroy
  <2>1. PICK new \in Requests : Called(new) /\ \E k \in Nat : \E f : Keeps(new, k, f)
    BY <1>1, CallKeeps
  <2>2. /\ UNCHANGED <<project, total, ready, shown, stopping>> /\ ~stopping
        /\ asked' = IF Loads(new) THEN new.project ELSE asked
        /\ Carries(new) => new.project = asked'
    BY <2>1 DEF Called, Tells, workerVars
  <2>3. PICK k \in Nat : \E f : Keeps(new, k, f)
    BY <2>1
  <2>4. PICK f : Keeps(new, k, f)
    BY <2>3
  <2>5. /\ DOMAIN Pending' = 1 .. k + 1 /\ Pending'[k + 1] = new
        /\ \A n \in 1 .. k : Pending'[n] = Pending[f[n]] /\ f[n] \in DOMAIN Pending
        /\ \A m, n \in 1 .. k : f[m] < f[n] <=> m < n
    BY <2>4 DEF Keeps
  <2>6. k + 1 \in DOMAIN Pending' /\ \A n \in 1 .. k : n \in DOMAIN Pending' /\ n < k + 1
    BY <2>5
  <2>7. ASSUME ~Loads(new), NEW j \in DOMAIN Pending, Loads(Pending[j])
        PROVE  \E m \in 1 .. k : f[m] = j
    BY <2>4, <2>7 DEF Keeps, Outdated, Loads, Seeks
  <2>8. ASSUME NEW i \in DOMAIN Pending', Carries(Pending'[i]), \A j \in DOMAIN Pending' : j > i => ~Loads(Pending'[j])
        PROVE  Pending'[i].project = asked'
    <3>1. CASE i = k + 1
      BY <2>2, <2>5, <2>8, <3>1
    <3>2. CASE i # k + 1
      <4>1. i \in 1 .. k
        BY <2>5, <3>2
      <4>2. ~Loads(new)
        BY <2>5, <2>6, <2>8, <4>1
      <4>3. ASSUME NEW j \in DOMAIN Pending, j > f[i] PROVE ~Loads(Pending[j])
        <5> SUFFICES ASSUME Loads(Pending[j]) PROVE FALSE
          OBVIOUS
        <5>1. PICK m \in 1 .. k : f[m] = j
          BY <2>7, <4>2
        <5>2. m > i /\ Pending'[m] = Pending[j]
          BY <2>5, <4>1, <4>3, <5>1
        <5> QED BY <2>6, <2>8, <5>2
      <4>4. Pending[f[i]].project = asked
        BY <2>2, <2>5, <2>8, <4>1, <4>3 DEF FreshInv
      <4> QED BY <2>2, <2>5, <4>1, <4>2, <4>4
    <3> QED BY <3>1, <3>2
  <2>9. ASSUME \A i \in DOMAIN Pending' : ~Loads(Pending'[i])
        PROVE  ~Loads(new) /\ \A i \in DOMAIN Pending : ~Loads(Pending[i])
    <3>1. ~Loads(new)
      BY <2>5, <2>6, <2>9
    <3>2. ASSUME NEW j \in DOMAIN Pending, Loads(Pending[j]) PROVE FALSE
      <4>1. PICK m \in 1 .. k : f[m] = j
        BY <2>7, <3>1, <3>2
      <4> QED BY <2>5, <2>6, <2>9, <3>2, <4>1
    <3> QED BY <3>1, <3>2
  <2> QED BY <2>2, <2>8, <2>9 DEF FreshInv
<1>2. CASE Destroy
  BY <1>2 DEF Destroy, FreshInv
<1>3. CASE GoesOn
  <2>1. Pending' = Pending /\ UNCHANGED <<project, total, stopping, asked>>
    BY <1>3, GoingOn DEF guiVars
  <2>2. Screens
    BY <1>3, ScreenSteps DEF GoesOn, Worker
  <2> QED BY <2>1, <2>2 DEF FreshInv, Screens
<1>4. CASE Finishes
  <2>1. Working /\ ~Working' /\ queue' = queue /\ UNCHANGED <<stopping, asked>>
    BY <1>4, Finishing DEF guiVars
  <2>2. /\ Pending \in Seq(Requests) /\ Len(Pending) = Len(Pending') + 1 /\ Pending[1] = req
        /\ Pending' \in Seq(Requests)
        /\ \A i \in DOMAIN Pending' : i + 1 \in DOMAIN Pending /\ Pending[i + 1] = Pending'[i]
        /\ \A i \in 2 .. Len(Pending) : i - 1 \in DOMAIN Pending' /\ Pending[i] = Pending'[i - 1]
    BY <2>1, PendingDone
  <2>3. 1 \in DOMAIN Pending /\ DOMAIN Pending = 1 .. Len(Pending) /\ DOMAIN Pending' = 1 .. Len(Pending')
        /\ Len(Pending') \in Nat
    BY <2>2
  <2>4. ASSUME ~stopping, NEW i \in DOMAIN Pending', Carries(Pending'[i]),
               \A j \in DOMAIN Pending' : j > i => ~Loads(Pending'[j])
        PROVE  Pending'[i].project = asked
    <3>1. i + 1 \in DOMAIN Pending /\ Carries(Pending[i + 1])
      BY <2>2, <2>4
    <3>2. ASSUME NEW j \in DOMAIN Pending, j > i + 1 PROVE ~Loads(Pending[j])
      <4>1. j \in 2 .. Len(Pending) /\ j - 1 > i
        BY <2>3, <3>2
      <4> QED BY <2>2, <2>4, <4>1
    <3> QED BY <2>2, <2>4, <3>1, <3>2 DEF FreshInv
  <2>5. ASSUME ~stopping, \A i \in DOMAIN Pending' : ~Loads(Pending'[i])
        PROVE  /\ project' = asked /\ (asked # NoProject => total' = LengthOf[asked])
               /\ shown'.picture # NoFrame => shown'.picture.project = asked
               /\ \A i \in DOMAIN ready' : ready'[i].project = asked
    <3>1. \A j \in DOMAIN Pending : j > 1 => ~Loads(Pending[j])
      <4>1. \A j \in DOMAIN Pending : j > 1 => j \in 2 .. Len(Pending)
        BY <2>3
      <4> QED BY <2>2, <2>5, <4>1
    <3>2. Carries(req) => req.project = asked
      BY <2>2, <2>3, <2>5, <3>1 DEF FreshInv
    <3>3. Screens
      BY <1>4, ScreenSteps DEF Finishes, Worker
    <3>4. CASE HandleSetProject
      <4>1. /\ project' = req.project /\ total' = LengthOf[req.project] /\ req.project # NoProject
            /\ req.command = "SetProject"
        BY <3>4, SetProjectFact DEF HandleSetProject, Handle
      <4>2. PICK anchor \in Int : Sought(anchor, req.project, LengthOf[req.project])
        BY <3>4, SetProjectFact
      <4> QED BY <3>2, <4>1, <4>2 DEF Sought, Carries
    <3>5. CASE HandleSwapProject
      <4>1. /\ project' = req.project /\ total' = LengthOf[req.project] /\ req.project # NoProject
            /\ req.command = "SwapProject"
            /\ Sought(current, req.project, LengthOf[req.project])
        BY <3>5, SwapFact DEF HandleSwapProject, Handle
      <4> QED BY <3>2, <4>1 DEF Sought, Carries
    <3>6. CASE HandleUpdateAudioMix \/ HandlePlay \/ HandlePause \/ HandleSeekOrStep \/ FinishPreview
               \/ (HandleSeekPreview /\ pc' = "top")
      <4>1. ~Loads(req)
        BY <3>6 DEF HandleUpdateAudioMix, HandlePlay, HandlePause, HandleSeekOrStep, FinishPreview,
                    HandleSeekPreview, Handle, Loads, TypeOK
      <4>2. total' = total /\ (project' = project \/ (Carries(req) /\ project' = req.project))
        BY <3>6 DEF HandleUpdateAudioMix, HandlePlay, HandlePause, HandleSeekOrStep, FinishPreview,
                    HandleSeekPreview, Handle, Carries
      <4>3. \A i \in DOMAIN Pending : ~Loads(Pending[i])
        <5>1. \A j \in DOMAIN Pending : j = 1 \/ j > 1
          BY <2>3
        <5> QED BY <2>2, <3>1, <4>1, <5>1
      <4>4. /\ project = asked /\ (asked # NoProject => total = LengthOf[asked])
            /\ shown.picture # NoFrame => shown.picture.project = asked
            /\ \A i \in DOMAIN ready : ready[i].project = asked
        BY <2>5, <4>3 DEF FreshInv
      <4>5. project' = asked
        BY <3>2, <4>2, <4>4
      <4> QED BY <3>3, <4>2, <4>4, <4>5 DEF Screens
    <3> QED BY <1>4, <3>4, <3>5, <3>6 DEF Finishes
  <2> QED BY <2>1, <2>4, <2>5 DEF FreshInv
<1>5. CASE UNCHANGED vars
  BY <1>5 DEF vars, guiVars, FreshInv, Pending, Working
<1> QED BY <1>1, <1>2, <1>3, <1>4, <1>5, WorkerSteps DEF Next
-----------------------------------------------------------------------------
(* The transport *)

\* Of the requests up to the i-th, none leaves the worker playing.
Stops(r) == r.command \in {"SetProject", "Pause", "ReleaseAudio"}
StoppedAt(i) ==
    /\ playing => \E j \in 1 .. i : Stops(Pending[j])
    /\ \A k \in 1 .. i : Pending[k].command = "Play" => \E j \in k + 1 .. i : Stops(Pending[j])

\* A play comes before a stop when pause was asked for last; once no request turns
\* playback on or off, the intent is what the worker does or has refused. A
\* worker that plays against the intent has yet to be paused.
TransportInv == ~stopping =>
    /\ pausedLast => StoppedAt(Len(Pending))
    /\ (\A i \in DOMAIN Pending : ~Turns(Pending[i])) => intent = (playing \/ refused)
    /\ playing /\ ~intent => \E i \in DOMAIN Pending : Pending[i].command = "Pause"
\* What a request leaves of StoppedAt when the worker is done with it.
LEMMA StoppedDone ==
    ASSUME TypeOK, Finishes, NEW i \in 1 .. Len(Pending), StoppedAt(i)
    PROVE  StoppedAt(i - 1)'
<1>1. Working /\ ~Working' /\ queue' = queue
  BY Finishing
<1>2. /\ Pending \in Seq(Requests) /\ Len(Pending) = Len(Pending') + 1 /\ Pending[1] = req
      /\ Pending' \in Seq(Requests)
      /\ \A j \in DOMAIN Pending' : j + 1 \in DOMAIN Pending /\ Pending[j + 1] = Pending'[j]
      /\ \A j \in 2 .. Len(Pending) : j - 1 \in DOMAIN Pending' /\ Pending[j] = Pending'[j - 1]
  BY <1>1, PendingDone
<1>3. Len(Pending) \in Nat /\ DOMAIN Pending' = 1 .. Len(Pending') /\ Len(Pending') \in Nat
  BY <1>2
<1>4. playing' => req.command = "Play" \/ (playing /\ ~Stops(req))
  BY DEF Finishes, HandleSetProject, HandleSwapProject, HandleUpdateAudioMix, HandlePlay, HandlePause,
         HandleSeekOrStep, FinishPreview, HandleSeekPreview, StopPlaying, Handle, Stops, TypeOK
<1>5. playing' => \E j \in 1 .. i - 1 : Stops(Pending'[j])
  <2> SUFFICES ASSUME playing' PROVE \E j \in 1 .. i - 1 : Stops(Pending'[j])
    OBVIOUS
  <2>1. PICK j \in 2 .. i : Stops(Pending[j])
    <3>1. CASE req.command = "Play"
      <4>1. 1 \in 1 .. i /\ Pending[1].command = "Play"
        BY <1>2, <3>1
      <4>2. \A n \in 1 .. i : Pending[n].command = "Play" => \E j \in n + 1 .. i : Stops(Pending[j])
        BY DEF StoppedAt
      <4>3. \E j \in 1 + 1 .. i : Stops(Pending[j])
        BY <4>1, <4>2
      <4> QED BY <4>3
    <3>2. CASE playing /\ ~Stops(req)
      <4>1. PICK j \in 1 .. i : Stops(Pending[j])
        BY <3>2 DEF StoppedAt
      <4>2. j # 1
        BY <1>2, <3>2, <4>1
      <4> QED BY <4>1, <4>2
    <3> QED BY <1>4, <3>1, <3>2
  <2>2. j \in 2 .. Len(Pending) /\ j - 1 \in 1 .. i - 1
    BY <1>3, <2>1
  <2> QED BY <1>2, <2>1, <2>2
<1>6. ASSUME NEW k \in 1 .. i - 1, Pending'[k].command = "Play"
      PROVE  \E j \in k + 1 .. i - 1 : Stops(Pending'[j])
  <2>1. k \in DOMAIN Pending' /\ k + 1 \in 1 .. i
    BY <1>2, <1>3
  <2>2. Pending[k + 1].command = "Play"
    BY <1>2, <1>6, <2>1
  <2>3. PICK j \in (k + 1) + 1 .. i : Stops(Pending[j])
    BY <2>1, <2>2 DEF StoppedAt
  <2>4. j \in 2 .. Len(Pending) /\ j - 1 \in k + 1 .. i - 1
    BY <1>3, <2>1, <2>3
  <2> QED BY <1>2, <2>3, <2>4
<1> QED BY <1>5, <1>6 DEF StoppedAt

\* A call other than play drops no request that stops.
LEMMA StoppedKept ==
    ASSUME NEW new, NEW k \in Nat, NEW f, Keeps(new, k, f), new.command # "Play", playing' = playing,
           NEW i \in 0 .. Len(Pending), NEW n \in 0 .. k + 1,
           \A m \in 1 .. k : m <= n <=> f[m] <= i,
           StoppedAt(i)
    PROVE  StoppedAt(n)'
<1>1. /\ DOMAIN Pending = 1 .. Len(Pending) /\ Len(Pending) \in Nat /\ Pending'[k + 1] = new
      /\ \A m \in 1 .. k : Pending'[m] = Pending[f[m]] /\ f[m] \in DOMAIN Pending
      /\ \A x, y \in 1 .. k : f[x] < f[y] <=> x < y
  BY DEF Keeps
<1>2. ASSUME NEW j \in DOMAIN Pending, Stops(Pending[j])
      PROVE  \E m \in 1 .. k : f[m] = j
  BY <1>2 DEF Keeps, Outdated, Stops, Seeks
<1>3. playing' => \E j \in 1 .. n : Stops(Pending'[j])
  <2> SUFFICES ASSUME playing PROVE \E j \in 1 .. n : Stops(Pending'[j])
    OBVIOUS
  <2>1. PICK j \in 1 .. i : Stops(Pending[j])
    BY DEF StoppedAt
  <2>2. PICK m \in 1 .. k : f[m] = j
    BY <1>1, <1>2, <2>1
  <2>3. m \in 1 .. n
    BY <2>1, <2>2
  <2> QED BY <1>1, <2>1, <2>2, <2>3
<1>4. ASSUME NEW p \in 1 .. n, Pending'[p].command = "Play"
      PROVE  \E j \in p + 1 .. n : Stops(Pending'[j])
  <2>1. p \in 1 .. k
    BY <1>1, <1>4
  <2>2. f[p] \in 1 .. i /\ Pending[f[p]].command = "Play"
    BY <1>1, <1>4, <2>1
  <2>3. PICK j \in f[p] + 1 .. i : Stops(Pending[j])
    BY <2>2 DEF StoppedAt
  <2>4. j \in DOMAIN Pending /\ f[p] < j
    BY <1>1, <2>2, <2>3
  <2>5. PICK m \in 1 .. k : f[m] = j
    BY <1>2, <2>3, <2>4
  <2>6. m \in p + 1 .. n
    BY <1>1, <2>1, <2>3, <2>4, <2>5
  <2> QED BY <1>1, <2>3, <2>5, <2>6
<1> QED BY <1>3, <1>4 DEF StoppedAt

LEMMA TransportPreserved ==
    ASSUME TypeOK, TypeOK', TransportInv, [Next]_vars
    PROVE  TransportInv'
<1>1. CASE Gui /\ ~Destroy
  <2>1. PICK new \in Requests : Called(new) /\ \E k \in Nat : \E f : Keeps(new, k, f)
    BY <1>1, CallKeeps
  <2>2. /\ UNCHANGED <<playing, stopping>> /\ ~stopping
        /\ intent' = IF new.command = "Play" THEN TRUE ELSE IF new.command = "Pause" THEN FALSE ELSE intent
        /\ refused' = IF new.command \in {"Play", "Pause"} THEN FALSE ELSE refused
        /\ pausedLast' = IF new.command = "Play" THEN FALSE ELSE IF Turns(new) THEN TRUE ELSE pausedLast
    BY <2>1 DEF Called, Tells, workerVars
  <2>3. PICK k \in Nat : \E f : Keeps(new, k, f)
    BY <2>1
  <2>4. PICK f : Keeps(new, k, f)
    BY <2>3
  <2>5. /\ DOMAIN Pending' = 1 .. k + 1 /\ Pending'[k + 1] = new
        /\ DOMAIN Pending = 1 .. Len(Pending) /\ Len(Pending) \in Nat
        /\ \A n \in 1 .. k : Pending'[n] = Pending[f[n]] /\ f[n] \in DOMAIN Pending
    BY <2>4 DEF Keeps
  <2>6. k + 1 \in DOMAIN Pending' /\ (\A n \in 1 .. k : n \in DOMAIN Pending') /\ Len(Pending') = k + 1
    BY <2>4, <2>5 DEF Keeps
  <2>7. ASSUME NEW j \in DOMAIN Pending, \/ Turns(Pending[j]) /\ ~Turns(new)
                                         \/ Pending[j].command = "Pause"
        PROVE  \E m \in 1 .. k : f[m] = j
    BY <2>4, <2>7 DEF Keeps, Outdated, Turns, Seeks
  <2>8. pausedLast' => StoppedAt(k + 1)'
    <3> SUFFICES ASSUME pausedLast' PROVE StoppedAt(k + 1)'
      OBVIOUS
    <3>1. CASE Stops(new)
      <4>1. \A j \in 1 .. k + 1 : j = k + 1 \/ k + 1 \in j + 1 .. k + 1
        OBVIOUS
      <4>2. Pending'[k + 1].command # "Play" /\ Stops(Pending'[k + 1]) /\ k + 1 \in 1 .. k + 1
        BY <2>5, <3>1 DEF Stops
      <4> QED BY <4>1, <4>2 DEF StoppedAt
    <3>2. CASE ~Stops(new)
      <4>1. pausedLast /\ new.command # "Play"
        BY <2>2, <3>2 DEF Stops, Turns
      <4>2. StoppedAt(Len(Pending))
        BY <2>2, <4>1 DEF TransportInv
      <4>3. \A m \in 1 .. k : m <= k + 1 <=> f[m] <= Len(Pending)
        BY <2>5
      <4> QED BY <2>2, <2>4, <2>5, <4>1, <4>2, <4>3, StoppedKept
    <3> QED BY <3>1, <3>2
  <2>9. ASSUME \A i \in DOMAIN Pending' : ~Turns(Pending'[i])
        PROVE  intent' = (playing' \/ refused')
    <3>1. ~Turns(new)
      BY <2>5, <2>6, <2>9
    <3>2. ASSUME NEW j \in DOMAIN Pending, Turns(Pending[j]) PROVE FALSE
      <4>1. PICK m \in 1 .. k : f[m] = j
        BY <2>7, <3>1, <3>2
      <4> QED BY <2>5, <2>6, <2>9, <3>2, <4>1
    <3>3. intent = (playing \/ refused)
      BY <2>2, <3>2 DEF TransportInv
    <3>4. intent' = intent /\ refused' = refused /\ playing' = playing
      BY <2>2, <3>1 DEF Turns
    <3> QED BY <3>3, <3>4
  <2>10. ASSUME playing', ~intent'
         PROVE  \E i \in DOMAIN Pending' : Pending'[i].command = "Pause"
    <3>1. CASE new.command = "Pause"
      BY <2>5, <2>6, <3>1
    <3>2. CASE new.command # "Pause"
      <4>1. PICK j \in DOMAIN Pending : Pending[j].command = "Pause"
        BY <2>2, <2>10, <3>2 DEF TransportInv
      <4>2. PICK m \in 1 .. k : f[m] = j
        BY <2>7, <4>1
      <4> QED BY <2>5, <2>6, <4>1, <4>2
    <3> QED BY <3>1, <3>2
  <2>11. pausedLast' => StoppedAt(Len(Pending))'
    <3>1. PICK n : n = k + 1
      OBVIOUS
    <3>2. pausedLast' => StoppedAt(n)'
      BY <2>8, <3>1
    <3> QED BY <2>6, <3>1, <3>2 DEF StoppedAt
  <2> QED BY <2>9, <2>10, <2>11 DEF TransportInv
<1>2. CASE Destroy
  BY <1>2 DEF Destroy, TransportInv
<1>3. CASE GoesOn
  <2>1. Pending' = Pending /\ UNCHANGED <<stopping, pausedLast>>
    BY <1>3, GoingOn DEF guiVars
  <2>2. UNCHANGED <<playing, intent, refused>> \/ (~playing' /\ ~intent' /\ ~refused')
    <3>1. CASE Present \/ PresentLate
      BY <3>1 DEF Present, PresentLate, PresentAfter
    <3>2. CASE GoesOn /\ ~Present /\ ~PresentLate
      BY <3>2 DEF GoesOn, TakeRequest, NothingToTake, Interrupted, FrameDue, Fill, PresentEnd, StopPlaying,
                  HandleSeekPreview
    <3> QED BY <1>3, <3>1, <3>2
  <2>3. intent' \in BOOLEAN /\ playing' \in BOOLEAN /\ refused' \in BOOLEAN
    BY DEF TypeOK
  <2> QED BY <2>1, <2>2, <2>3 DEF TransportInv, StoppedAt
<1>4. CASE Finishes
  <2>1. Working /\ ~Working' /\ queue' = queue /\ UNCHANGED <<stopping, pausedLast>>
    BY <1>4, Finishing DEF guiVars
  <2>2. /\ Pending \in Seq(Requests) /\ Len(Pending) = Len(Pending') + 1 /\ Pending[1] = req
        /\ Pending' \in Seq(Requests)
        /\ \A i \in DOMAIN Pending' : i + 1 \in DOMAIN Pending /\ Pending[i + 1] = Pending'[i]
        /\ \A i \in 2 .. Len(Pending) : i - 1 \in DOMAIN Pending' /\ Pending[i] = Pending'[i - 1]
    BY <2>1, PendingDone
  <2>3. 1 \in DOMAIN Pending /\ DOMAIN Pending = 1 .. Len(Pending) /\ DOMAIN Pending' = 1 .. Len(Pending')
        /\ Len(Pending') \in Nat
    BY <2>2
  <2>4. ~stopping /\ pausedLast => StoppedAt(Len(Pending))'
    <3> SUFFICES ASSUME ~stopping, pausedLast PROVE StoppedAt(Len(Pending))'
      OBVIOUS
    <3>1. PICK i \in 1 .. Len(Pending) : i = Len(Pending)
      BY <2>2, <2>3
    <3>2. StoppedAt(i)
      BY <3>1 DEF TransportInv
    <3>3. StoppedAt(i - 1)'
      BY <1>4, <3>2, StoppedDone
    <3>4. PICK n : n = i - 1
      OBVIOUS
    <3>5. StoppedAt(n)' /\ n = Len(Pending')
      BY <2>2, <2>3, <3>1, <3>3, <3>4
    <3> QED BY <3>5 DEF StoppedAt
  <2>5. ASSUME ~stopping, playing, ~intent, req.command # "Pause"
        PROVE  \E i \in DOMAIN Pending' : Pending'[i].command = "Pause"
    <3>1. PICK i \in DOMAIN Pending : Pending[i].command = "Pause"
      BY <2>5 DEF TransportInv
    <3>2. i \in 2 .. Len(Pending)
      BY <2>2, <2>3, <2>5, <3>1
    <3> QED BY <2>2, <3>1, <3>2
  <2>6. ASSUME ~stopping, \A i \in DOMAIN Pending' : ~Turns(Pending'[i]), ~Turns(req)
        PROVE  intent = (playing \/ refused)
    <3>1. ASSUME NEW j \in DOMAIN Pending PROVE ~Turns(Pending[j])
      <4>1. j = 1 \/ j \in 2 .. Len(Pending)
        BY <2>3
      <4> QED BY <2>2, <2>6, <4>1
    <3> QED BY <2>6, <3>1 DEF TransportInv
  <2>7. CASE HandleSetProject \/ HandlePause
    <3>1. intent' \in BOOLEAN /\ playing' \in BOOLEAN /\ refused' \in BOOLEAN
      BY DEF TypeOK
    <3>2. ~playing' /\ ~intent' /\ ~refused'
      BY <2>7 DEF HandleSetProject, HandlePause, StopPlaying
    <3>3. intent' = (playing' \/ refused')
      BY <3>1, <3>2
    <3> QED BY <2>1, <2>4, <3>2, <3>3 DEF TransportInv
  <2>8. CASE HandlePlay
    <3>1. /\ req.command = "Play" /\ playing \in BOOLEAN /\ intent \in BOOLEAN
          /\ \/ refused' = intent /\ playing' = playing /\ intent' = intent
             \/ intent' = TRUE /\ playing' = TRUE /\ refused' = FALSE
      BY <2>8 DEF HandlePlay, Handle, TypeOK
    <3>2. ~stopping /\ playing' /\ ~intent' => \E i \in DOMAIN Pending' : Pending'[i].command = "Pause"
      BY <2>5, <3>1
    <3>3. ASSUME ~stopping, \A i \in DOMAIN Pending' : ~Turns(Pending'[i])
          PROVE  intent' = (playing' \/ refused')
      <4>1. playing' => intent'
        BY <3>2, <3>3, <3>1 DEF Turns
      <4> QED BY <3>1, <4>1
    <3> QED BY <2>1, <2>4, <3>2, <3>3 DEF TransportInv
  <2>9. CASE HandleSwapProject \/ HandleUpdateAudioMix \/ HandleSeekOrStep \/ FinishPreview
             \/ (HandleSeekPreview /\ pc' = "top")
    <3>1. UNCHANGED <<playing, intent, refused>> /\ ~Turns(req) /\ req.command # "Pause"
      BY <2>9 DEF HandleSwapProject, HandleUpdateAudioMix, HandleSeekOrStep, FinishPreview, HandleSeekPreview,
                  Handle, Turns, TypeOK
    <3>2. ~stopping /\ (\A i \in DOMAIN Pending' : ~Turns(Pending'[i])) => intent' = (playing' \/ refused')
      BY <2>6, <3>1
    <3>3. ~stopping /\ playing' /\ ~intent' => \E i \in DOMAIN Pending' : Pending'[i].command = "Pause"
      BY <2>5, <3>1
    <3> QED BY <2>1, <2>4, <3>2, <3>3 DEF TransportInv
  <2> QED BY <1>4, <2>7, <2>8, <2>9 DEF Finishes
<1>5. CASE UNCHANGED vars
  BY <1>5 DEF vars, guiVars, TransportInv, StoppedAt, Pending, Working
<1> QED BY <1>1, <1>2, <1>3, <1>4, <1>5, WorkerSteps DEF Next
-----------------------------------------------------------------------------
(* The frame sought last *)

\* A request that leaves the playhead where it was sought.
Rests(r) == r.command \notin {"Play", "Step"} /\ ~Moves(r) /\ (Loads(r) => LengthOf[r.project] > goal)

\* The project there is once the i-th request is handled has the frame sought.
ReachesAt(i) ==
    /\ (\A k \in 1 .. i : ~Loads(Pending[k])) => total > goal
    /\ \A k \in 1 .. i : Loads(Pending[k]) /\ (\A j \in k + 1 .. i : ~Loads(Pending[j])) =>
          LengthOf[Pending[k].project] > goal

\* One of the requests moves the playhead there, unless it is there (i = 0); at
\* that point the worker does not play and has a project with that frame, and
\* no request after it moves the playhead.
SeekInv == ~stopping /\ goal >= 0 =>
    /\ pausedLast
    /\ \E i \in 0 .. Len(Pending) :
          /\ i = 0 => current = goal /\ shown.position = goal
          /\ i > 0 => Moves(Pending[i]) /\ Pending[i].arg = goal
          /\ StoppedAt(i) /\ ReachesAt(i)
          /\ \A j \in i + 1 .. Len(Pending) : Rests(Pending[j])

\* What a request leaves of ReachesAt when the worker is done with it.
LEMMA ReachesDone ==
    ASSUME TypeOK, ProjectInv, Finishes, NEW i \in 1 .. Len(Pending), ReachesAt(i)
    PROVE  ReachesAt(i - 1)'
<1>1. Working /\ ~Working' /\ queue' = queue /\ goal' = goal
  BY Finishing DEF guiVars
<1>2. /\ Pending \in Seq(Requests) /\ Len(Pending) = Len(Pending') + 1 /\ Pending[1] = req
      /\ Pending' \in Seq(Requests)
      /\ \A j \in DOMAIN Pending' : j + 1 \in DOMAIN Pending /\ Pending[j + 1] = Pending'[j]
      /\ \A j \in 2 .. Len(Pending) : j - 1 \in DOMAIN Pending' /\ Pending[j] = Pending'[j - 1]
  BY <1>1, PendingDone
<1>3. Len(Pending) \in Nat /\ DOMAIN Pending' = 1 .. Len(Pending') /\ Len(Pending') \in Nat /\ 1 \in 1 .. i
  BY <1>2
<1>4. \/ Loads(req) /\ total' = LengthOf[req.project]
      \/ ~Loads(req) /\ total' = total
  BY DEF Finishes, HandleSetProject, HandleSwapProject, HandleUpdateAudioMix, HandlePlay, HandlePause,
         HandleSeekOrStep, FinishPreview, HandleSeekPreview, Handle, Loads, TypeOK
<1>5. ASSUME NEW j \in 2 .. i PROVE j - 1 \in 1 .. i - 1 /\ Pending'[j - 1] = Pending[j]
  <2>1. j \in 2 .. Len(Pending)
    BY <1>3
  <2> QED BY <1>2, <2>1
<1>6. (\A k \in 1 .. i - 1 : ~Loads(Pending'[k])) => total' > goal'
  <2> SUFFICES ASSUME \A k \in 1 .. i - 1 : ~Loads(Pending'[k]) PROVE total' > goal
    BY <1>1
  <2>1. \A j \in 2 .. i : ~Loads(Pending[j])
    BY <1>5
  <2>2. CASE Loads(req)
    <3>1. \A j \in 1 + 1 .. i : ~Loads(Pending[j])
      BY <2>1
    <3>2. \A n \in 1 .. i : Loads(Pending[n]) /\ (\A j \in n + 1 .. i : ~Loads(Pending[j])) =>
             LengthOf[Pending[n].project] > goal
      BY DEF ReachesAt
    <3>3. LengthOf[Pending[1].project] > goal
      BY <1>2, <1>3, <2>2, <3>1, <3>2
    <3> QED BY <1>2, <1>4, <2>2, <3>3
  <2>3. CASE ~Loads(req)
    <3>1. \A j \in 1 .. i : j = 1 \/ j \in 2 .. i
      OBVIOUS
    <3>2. \A j \in 1 .. i : ~Loads(Pending[j])
      BY <1>2, <2>1, <2>3, <3>1
    <3> QED BY <1>4, <2>3, <3>2 DEF ReachesAt
  <2> QED BY <2>2, <2>3
<1>7. ASSUME NEW k \in 1 .. i - 1, Loads(Pending'[k]), \A j \in k + 1 .. i - 1 : ~Loads(Pending'[j])
      PROVE  LengthOf[Pending'[k].project] > goal'
  <2>1. k \in DOMAIN Pending' /\ k + 1 \in 1 .. i /\ Pending[k + 1] = Pending'[k]
    BY <1>2, <1>3
  <2>2. ASSUME NEW j \in (k + 1) + 1 .. i PROVE ~Loads(Pending[j])
    <3>1. j \in 2 .. i /\ j - 1 \in k + 1 .. i - 1
      BY <2>1
    <3> QED BY <1>5, <1>7, <3>1
  <2>3. LengthOf[Pending[k + 1].project] > goal
    BY <1>7, <2>1, <2>2 DEF ReachesAt
  <2> QED BY <1>1, <2>1, <2>3
<1> QED BY <1>6, <1>7 DEF ReachesAt

\* A call drops no request that loads a project, but for a swap that replaces one.
LEMMA ReachesKept ==
    ASSUME NEW new, NEW k \in Nat, NEW f, Keeps(new, k, f), total' = total, goal' = goal,
           new.command = "SwapProject" => \A r \in Range(queue) : r.command # "SwapProject",
           NEW i \in 0 .. Len(Pending), NEW n \in 0 .. k,
           \A m \in 1 .. k : m <= n <=> f[m] <= i,
           ReachesAt(i)
    PROVE  ReachesAt(n)'
<1>1. /\ DOMAIN Pending = 1 .. Len(Pending) /\ Len(Pending) \in Nat
      /\ \A m \in 1 .. k : Pending'[m] = Pending[f[m]] /\ f[m] \in DOMAIN Pending
      /\ \A x, y \in 1 .. k : f[x] < f[y] <=> x < y
  BY DEF Keeps
<1>2. ASSUME NEW j \in DOMAIN Pending, Loads(Pending[j])
      PROVE  \E m \in 1 .. k : f[m] = j
  BY <1>2 DEF Keeps, Outdated, Loads, Seeks
<1>3. (\A j \in 1 .. n : ~Loads(Pending'[j])) => total' > goal'
  <2> SUFFICES ASSUME \A j \in 1 .. n : ~Loads(Pending'[j]) PROVE total > goal
    OBVIOUS
  <2>1. ASSUME NEW j \in 1 .. i, Loads(Pending[j]) PROVE FALSE
    <3>1. PICK m \in 1 .. k : f[m] = j
      BY <1>1, <1>2, <2>1
    <3>2. m \in 1 .. n
      BY <3>1
    <3> QED BY <1>1, <2>1, <3>1, <3>2
  <2> QED BY <2>1 DEF ReachesAt
<1>4. ASSUME NEW p \in 1 .. n, Loads(Pending'[p]), \A j \in p + 1 .. n : ~Loads(Pending'[j])
      PROVE  LengthOf[Pending'[p].project] > goal'
  <2>1. p \in 1 .. k /\ f[p] \in 1 .. i /\ Loads(Pending[f[p]]) /\ Pending'[p] = Pending[f[p]]
    BY <1>1, <1>4
  <2>2. ASSUME NEW j \in f[p] + 1 .. i, Loads(Pending[j]) PROVE FALSE
    <3>1. j \in DOMAIN Pending /\ f[p] < j
      BY <1>1, <2>1
    <3>2. PICK m \in 1 .. k : f[m] = j
      BY <1>2, <2>2, <3>1
    <3>3. m \in p + 1 .. n
      BY <1>1, <2>1, <3>1, <3>2
    <3> QED BY <1>1, <1>4, <2>2, <3>2, <3>3
  <2>3. LengthOf[Pending[f[p]].project] > goal
    BY <2>1, <2>2 DEF ReachesAt
  <2> QED BY <2>1, <2>3
<1> QED BY <1>3, <1>4 DEF ReachesAt

\* A request that moves the playhead settles where it rests.
LEMMA SeekMoved ==
    ASSUME TypeOK', FreshInv', TransportInv', ~stopping', pausedLast',
           NEW n \in 1 .. Len(Pending'), n = Len(Pending'), DOMAIN Pending' = 1 .. n,
           asked' # NoProject, goal' < LengthOf[asked'], goal' \in Int
    PROVE  StoppedAt(n)' /\ ReachesAt(n)'
<1>1. StoppedAt(n)'
  BY DEF TransportInv, StoppedAt
<1>2. LengthOf[asked'] > goal'
  <2>1. LengthOf[asked'] \in Nat
    BY LengthAssumption DEF TypeOK, Snapshots
  <2> QED BY <2>1
<1>3. (\A k \in 1 .. n : ~Loads(Pending'[k])) => total' > goal'
  BY <1>2 DEF FreshInv
<1>4. ASSUME NEW k \in 1 .. n, Loads(Pending'[k]), \A j \in k + 1 .. n : ~Loads(Pending'[j])
      PROVE  LengthOf[Pending'[k].project] > goal'
  <2>1. Carries(Pending'[k]) /\ k \in DOMAIN Pending'
    BY <1>4 DEF Loads, Carries
  <2>2. ASSUME NEW j \in DOMAIN Pending', j > k PROVE ~Loads(Pending'[j])
    <3>1. j \in k + 1 .. n
      BY <2>2
    <3> QED BY <1>4, <3>1
  <2>3. Pending'[k].project = asked'
    BY <2>1, <2>2 DEF FreshInv
  <2> QED BY <1>2, <2>3
<1> QED BY <1>1, <1>3, <1>4 DEF ReachesAt

LEMMA SeekCalled ==
    ASSUME TypeOK, TypeOK', FreshInv', TransportInv', SeekInv, Gui, ~Destroy
    PROVE  SeekInv'
<1>1. PICK new \in Requests : Called(new) /\ \E k \in Nat : \E f : Keeps(new, k, f)
  BY CallKeeps
<1>2. /\ UNCHANGED <<playing, total, current, shown, stopping>> /\ ~stopping
      /\ asked' = IF Loads(new) THEN new.project ELSE asked
      /\ Carries(new) => new.project = asked'
      /\ new.command \in {"SwapProject", "UpdateAudioMix"} \cup Seeks => asked # NoProject
      /\ pausedLast' = IF new.command = "Play" THEN FALSE ELSE IF Turns(new) THEN TRUE ELSE pausedLast
      /\ goal' \in Nat \cup {-1} /\ Sound(new)
  BY <1>1 DEF Called, Tells, Aims, workerVars
<1>3. PICK k \in Nat : \E f : Keeps(new, k, f)
  BY <1>1
<1>4. PICK f : Keeps(new, k, f)
  BY <1>3
<1>5. /\ DOMAIN Pending' = 1 .. k + 1 /\ Len(Pending') = k + 1 /\ Pending'[k + 1] = new
      /\ DOMAIN Pending = 1 .. Len(Pending) /\ Len(Pending) \in Nat
      /\ \A n \in 1 .. k : Pending'[n] = Pending[f[n]] /\ f[n] \in DOMAIN Pending
      /\ \A m, n \in 1 .. k : f[m] < f[n] <=> m < n
  BY <1>4 DEF Keeps
<1> SUFFICES ASSUME goal' >= 0
             PROVE  /\ pausedLast'
                    /\ \E i \in 0 .. k + 1 :
                          /\ i = 0 => current' = goal' /\ shown'.position = goal'
                          /\ i > 0 => Moves(Pending'[i]) /\ Pending'[i].arg = goal'
                          /\ StoppedAt(i)' /\ ReachesAt(i)'
                          /\ \A j \in i + 1 .. k + 1 : Rests(Pending[j])'
  BY <1>5 DEF SeekInv
<1>6. /\ new.command \notin {"Play", "Step"}
      /\ goal' = IF Moves(new) THEN new.arg ELSE goal
      /\ Loads(new) \/ new.command \in Seeks => goal' < LengthOf[asked']
      /\ new.command \in Seeks => pausedLast
      /\ new.command = "SwapProject" => \A r \in Range(queue) : r.command # "SwapProject"
  BY <1>1 DEF Called, Aims
<1>7. CASE Moves(new)
  <2>1. pausedLast'
    BY <1>2, <1>6, <1>7 DEF Moves, Turns
  <2>2. asked' # NoProject /\ goal' < LengthOf[asked'] /\ goal' \in Int
    BY <1>2, <1>6, <1>7 DEF Moves, Loads, Carries, Sound, Seeks
  <2>3. PICK n \in 1 .. k + 1 : n = k + 1
    OBVIOUS
  <2>4. StoppedAt(n)' /\ ReachesAt(n)'
    BY <1>2, <1>5, <2>1, <2>2, <2>3, SeekMoved
  <2>5. n + 1 .. k + 1 = {} /\ n \in 0 .. k + 1 /\ n > 0
    BY <2>3
  <2>6. Moves(Pending'[n]) /\ Pending'[n].arg = goal'
    BY <1>5, <1>6, <1>7, <2>3
  <2> QED BY <2>1, <2>4, <2>5, <2>6
<1>8. CASE ~Moves(new)
  <2>1. goal' = goal
    BY <1>6, <1>8
  <2>2. PICK i \in 0 .. Len(Pending) :
          /\ i = 0 => current = goal /\ shown.position = goal
          /\ i > 0 => Moves(Pending[i]) /\ Pending[i].arg = goal
          /\ StoppedAt(i) /\ ReachesAt(i)
          /\ \A j \in i + 1 .. Len(Pending) : Rests(Pending[j])
    BY <1>2, <2>1 DEF SeekInv
  <2>3. pausedLast'
    BY <1>2, <1>6, <2>1 DEF SeekInv
  <2>4. PICK n \in 0 .. k : (i = 0 /\ n = 0) \/ (n > 0 /\ f[n] = i)
    <3>1. CASE i = 0
      BY <3>1
    <3>2. CASE i # 0
      <4>1. i \in DOMAIN Pending /\ Moves(Pending[i])
        BY <1>5, <2>2, <3>2
      <4>2. ~Outdated(Pending[i], new)
        BY <1>6, <1>8, <4>1 DEF Outdated, Moves, Seeks
      <4>3. PICK m \in 1 .. k : f[m] = i
        BY <1>4, <4>1, <4>2 DEF Keeps
      <4> QED BY <4>3
    <3> QED BY <3>1, <3>2
  <2>5. \A m \in 1 .. k : m <= n <=> f[m] <= i
    <3> SUFFICES ASSUME NEW m \in 1 .. k PROVE m <= n <=> f[m] <= i
      OBVIOUS
    <3>1. f[m] \in 1 .. Len(Pending)
      BY <1>5
    <3>2. CASE n = 0
      BY <2>4, <3>1, <3>2
    <3>3. CASE n > 0
      <4>1. n \in 1 .. k /\ f[n] = i
        BY <2>4, <3>3
      <4>2. (f[n] < f[m] <=> n < m) /\ i \in Int
        BY <1>5, <4>1
      <4> QED BY <3>1, <4>1, <4>2
    <3> QED BY <3>2, <3>3
  <2>6. StoppedAt(n)'
    <3>1. n \in 0 .. k + 1
      OBVIOUS
    <3> QED BY <1>2, <1>4, <1>6, <2>2, <2>5, <3>1, StoppedKept
  <2>7. ReachesAt(n)'
    BY <1>2, <1>4, <1>6, <2>1, <2>2, <2>5, ReachesKept
  <2>8. ASSUME NEW j \in n + 1 .. k + 1
        PROVE  Rests(Pending[j])'
    <3>1. CASE j = k + 1
      <4>1. new.command \notin {"Play", "Step"} /\ ~Moves(new)
        BY <1>6, <1>8
      <4>2. Loads(new) => LengthOf[new.project] > goal'
        <5>1. Loads(new) => new.project = asked' /\ asked' # NoProject /\ goal' < LengthOf[asked']
          BY <1>2, <1>6 DEF Loads, Carries, Sound
        <5>2. asked' # NoProject => LengthOf[asked'] \in Nat
          BY LengthAssumption DEF TypeOK, Snapshots
        <5> QED BY <1>2, <5>1, <5>2
      <4> QED BY <1>5, <3>1, <4>1, <4>2 DEF Rests
    <3>2. CASE j # k + 1
      <4>1. j \in 1 .. k /\ ~(j <= n)
        BY <3>2
      <4>2. f[j] \in i + 1 .. Len(Pending)
        BY <1>5, <2>5, <4>1
      <4>3. Rests(Pending[f[j]])
        BY <2>2, <4>2
      <4> QED BY <1>5, <2>1, <4>1, <4>3 DEF Rests
    <3> QED BY <3>1, <3>2
  <2>9. n > 0 => Moves(Pending'[n]) /\ Pending'[n].arg = goal'
    <3>1. n > 0 => n \in 1 .. k
      OBVIOUS
    <3> QED BY <1>5, <2>1, <2>2, <2>4, <3>1
  <2>10. n = 0 => current' = goal' /\ shown'.position = goal'
    BY <1>2, <2>1, <2>2, <2>4
  <2>11. n \in 0 .. k + 1
    OBVIOUS
  <2> QED BY <2>3, <2>6, <2>7, <2>8, <2>9, <2>10, <2>11
<1> QED BY <1>7, <1>8

\* The request that moves the playhead takes it to the frame and shows that.
LEMMA Arrives ==
    ASSUME TypeOK, ProjectInv, Finishes, goal >= 0, Moves(req), req.arg = goal,
           Loads(req) => LengthOf[req.project] > goal,
           ~Loads(req) => total > goal,
           \A j \in DOMAIN queue : ~Moves(queue[j])
    PROVE  current' = goal /\ shown'.position = goal
<1>1. Working /\ goal \in Int /\ total \in Int /\ project \in Snapshots /\ req.arg \in Int
  BY Finishing, Handling DEF TypeOK
<1>2. CASE HandleSetProject
  <2>1. Sought(goal, req.project, LengthOf[req.project]) /\ req.project # NoProject
        /\ LengthOf[req.project] \in Nat /\ Loads(req)
    BY <1>2, SetProjectFact DEF HandleSetProject, Handle, Loads
  <2>2. current' = goal
    BY <1>1, <2>1 DEF Sought
  <2> QED BY <2>1, <2>2 DEF Sought
<1>3. ASSUME ~Loads(req) PROVE project # NoProject /\ 0 <= goal /\ goal < total
  BY <1>1, <1>3 DEF ProjectInv
<1>4. ASSUME ~Loads(req), HandleSeek(goal, project, total)
      PROVE  current' = goal /\ shown'.position = goal
  <2>1. Sought(goal, project, total)
    BY <1>1, <1>4, SeekFact
  <2>2. current' = goal
    BY <1>3, <1>4, <2>1 DEF Sought
  <2> QED BY <1>3, <1>4, <2>1, <2>2 DEF Sought
<1>5. CASE HandleSeekOrStep
  <2>1. req.command = "Seek" /\ ~Loads(req) /\ HandleSeek(goal, project, total)
    BY <1>5 DEF HandleSeekOrStep, Handle, Moves, Loads, Seeks
  <2> QED BY <1>4, <2>1
<1>6. CASE FinishPreview \/ (HandleSeekPreview /\ pc' = "top")
  <2>1. req.command = "SeekPreview" /\ ~Loads(req)
    BY <1>6 DEF FinishPreview, HandleSeekPreview, Handle, TypeOK, Loads
  <2>2. PreviewTarget = goal
    BY <1>1, <1>3, <2>1, SeekTargetFact DEF PreviewTarget
  <2>3. ~Superseded(PreviewTarget)
    BY DEF Superseded, Moves, Seeks
  <2>4. CASE FinishPreview
    <3>1. current' = PreviewTarget /\ shown' = [position |-> PreviewTarget, picture |-> Frame(PreviewTarget, project)]
      BY <2>3, <2>4 DEF FinishPreview, Show
    <3> QED BY <2>2, <3>1
  <2>5. CASE HandleSeekPreview /\ pc' = "top"
    <3>1. HandleSeek(req.arg, project, total)
      BY <1>3, <2>1, <2>3, <2>5 DEF HandleSeekPreview, Goto
    <3> QED BY <1>4, <2>1, <3>1
  <2> QED BY <1>6, <2>4, <2>5
<1>7. CASE HandleSwapProject \/ HandleUpdateAudioMix \/ HandlePlay \/ HandlePause
  BY <1>7 DEF HandleSwapProject, HandleUpdateAudioMix, HandlePlay, HandlePause, Handle, Moves, Seeks
<1> QED BY <1>2, <1>5, <1>6, <1>7 DEF Finishes

\* A request that rests leaves the playhead there.
LEMMA Stays ==
    ASSUME TypeOK, ProjectInv, Finishes, goal >= 0, Rests(req), ~playing, total > goal,
           current = goal, shown.position = goal
    PROVE  current' = goal /\ shown'.position = goal /\ ~playing' /\ total' > goal
<1>1. Working /\ goal \in Int /\ current \in Int
  BY Finishing, Handling DEF TypeOK
<1>2. ASSUME NEW p \in Snapshots, LengthOf[p] \in Nat, LengthOf[p] > goal, p # NoProject, Sought(current, p, LengthOf[p])
      PROVE  current' = goal /\ shown'.position = goal
  <2>1. current' = goal
    BY <1>1, <1>2 DEF Sought
  <2> QED BY <1>2, <2>1 DEF Sought
<1>3. Carries(req) => req.project \in Snapshots
  BY <1>1, Handling
<1>4. CASE HandleSetProject
  <2>1. /\ req.command = "SetProject" /\ total' = LengthOf[req.project] /\ req.project # NoProject
        /\ ~playing' /\ LengthOf[req.project] \in Nat
        /\ req.arg < 0 /\ current >= 0 => Sought(current, req.project, LengthOf[req.project])
    BY <1>4, SetProjectFact DEF HandleSetProject, Handle
  <2>2. req.arg \in Int /\ req.project \in Snapshots
    BY <1>1, Handling
  <2>3. req.arg < 0 /\ LengthOf[req.project] > goal
    BY <2>1, <2>2 DEF Rests, Moves, Loads
  <2> QED BY <1>2, <2>1, <2>2, <2>3
<1>5. CASE HandleSwapProject
  <2>1. /\ req.command = "SwapProject" /\ total' = LengthOf[req.project] /\ req.project # NoProject
        /\ playing' = playing /\ LengthOf[req.project] \in Nat
        /\ Sought(current, req.project, LengthOf[req.project])
    BY <1>5, SwapFact DEF HandleSwapProject, Handle
  <2>2. req.project \in Snapshots
    BY <1>1, Handling
  <2>3. LengthOf[req.project] > goal
    BY <2>1 DEF Rests, Loads
  <2> QED BY <1>2, <2>1, <2>2, <2>3
<1>6. CASE HandleUpdateAudioMix \/ HandlePause
  BY <1>6 DEF HandleUpdateAudioMix, HandlePause, StopPlaying
<1>7. CASE HandlePlay \/ HandleSeekOrStep \/ FinishPreview \/ HandleSeekPreview
  BY <1>7 DEF HandlePlay, HandleSeekOrStep, FinishPreview, HandleSeekPreview, Handle, TypeOK, Rests, Moves, Seeks
<1> QED BY <1>4, <1>5, <1>6, <1>7 DEF Finishes

LEMMA SeekFinished ==
    ASSUME TypeOK, ProjectInv, SeekInv, Finishes
    PROVE  SeekInv'
<1>1. Working /\ ~Working' /\ queue' = queue /\ UNCHANGED <<stopping, pausedLast, goal>>
  BY Finishing DEF guiVars
<1>2. /\ Pending \in Seq(Requests) /\ Len(Pending) = Len(Pending') + 1 /\ Pending[1] = req
      /\ Pending' \in Seq(Requests) /\ Pending' = queue
      /\ \A i \in DOMAIN Pending' : i + 1 \in DOMAIN Pending /\ Pending[i + 1] = Pending'[i]
  BY <1>1, PendingDone
<1>3. 1 \in 1 .. Len(Pending) /\ DOMAIN Pending' = 1 .. Len(Pending') /\ Len(Pending') \in Nat
      /\ Len(Pending) \in Nat
  BY <1>2
<1> SUFFICES ASSUME ~stopping, goal >= 0
             PROVE  /\ pausedLast
                    /\ \E i \in 0 .. Len(Pending') :
                          /\ i = 0 => current' = goal /\ shown'.position = goal
                          /\ i > 0 => Moves(Pending'[i]) /\ Pending'[i].arg = goal
                          /\ StoppedAt(i)' /\ ReachesAt(i)'
                          /\ \A j \in i + 1 .. Len(Pending') : Rests(Pending[j])'
  BY <1>1 DEF SeekInv
<1>4. PICK i \in 0 .. Len(Pending) :
        /\ i = 0 => current = goal /\ shown.position = goal
        /\ i > 0 => Moves(Pending[i]) /\ Pending[i].arg = goal
        /\ StoppedAt(i) /\ ReachesAt(i)
        /\ \A j \in i + 1 .. Len(Pending) : Rests(Pending[j])
  BY DEF SeekInv
<1>5. pausedLast
  BY DEF SeekInv
<1>6. ASSUME NEW j \in 1 .. Len(Pending'), j >= i
      PROVE  Rests(Pending[j])'
  <2>1. j + 1 \in i + 1 .. Len(Pending) /\ Pending[j + 1] = Pending'[j]
    BY <1>2, <1>3, <1>6
  <2>2. Rests(Pending[j + 1])
    BY <1>4, <2>1
  <2> QED BY <1>1, <2>1, <2>2 DEF Rests
<1>7. CASE i = 0
  <2>1. ~playing /\ total > goal
    BY <1>4, <1>7 DEF StoppedAt, ReachesAt
  <2>2. Rests(req)
    BY <1>2, <1>3, <1>4, <1>7
  <2>3. current' = goal /\ shown'.position = goal /\ ~playing' /\ total' > goal
    BY <1>4, <1>7, <2>1, <2>2, Stays
  <2>4. StoppedAt(0)' /\ ReachesAt(0)'
    BY <1>1, <2>3 DEF StoppedAt, ReachesAt
  <2>5. \A j \in 0 + 1 .. Len(Pending') : Rests(Pending[j])'
    BY <1>6, <1>7
  <2>6. 0 \in 0 .. Len(Pending')
    BY <1>3
  <2> QED BY <1>5, <2>3, <2>4, <2>5, <2>6
<1>8. CASE i > 0
  <2>1. i \in 1 .. Len(Pending)
    BY <1>8
  <2>2. PICK n \in 0 .. Len(Pending') : n = i - 1
    BY <1>2, <1>3, <2>1
  <2>3. StoppedAt(n)' /\ ReachesAt(n)'
    <3>1. StoppedAt(i - 1)' /\ ReachesAt(i - 1)'
      BY <1>4, <2>1, StoppedDone, ReachesDone
    <3> QED BY <2>2, <3>1
  <2>4. \A j \in n + 1 .. Len(Pending') : Rests(Pending[j])'
    BY <1>6, <2>2
  <2>5. n > 0 => Moves(Pending'[n]) /\ Pending'[n].arg = goal
    BY <1>2, <1>3, <1>4, <1>8, <2>2
  <2>6. n = 0 => current' = goal /\ shown'.position = goal
    <3> SUFFICES ASSUME n = 0 PROVE current' = goal /\ shown'.position = goal
      OBVIOUS
    <3>1. i = 1 /\ Moves(req) /\ req.arg = goal
      BY <1>2, <1>4, <2>2
    <3>2. \A j \in 1 + 1 .. 1 : FALSE
      OBVIOUS
    <3>3. ReachesAt(1)
      BY <1>4, <3>1
    <3>4. Loads(req) => LengthOf[req.project] > goal
      BY <1>2, <3>2, <3>3 DEF ReachesAt
    <3>5. ~Loads(req) => total > goal
      BY <1>2, <3>3 DEF ReachesAt
    <3>6. ASSUME NEW j \in DOMAIN queue PROVE ~Moves(queue[j])
      <4>1. j + 1 \in i + 1 .. Len(Pending) /\ Pending[j + 1] = queue[j]
        BY <1>2, <1>3, <3>1
      <4> QED BY <1>4, <4>1 DEF Rests
    <3> QED BY <3>1, <3>4, <3>5, <3>6, Arrives
  <2> QED BY <1>5, <2>2, <2>3, <2>4, <2>5, <2>6
<1> QED BY <1>7, <1>8

LEMMA SeekPreserved ==
    ASSUME TypeOK, TypeOK', ProjectInv, FreshInv', TransportInv', SeekInv, [Next]_vars
    PROVE  SeekInv'
<1>1. CASE Gui /\ ~Destroy
  BY <1>1, SeekCalled
<1>2. CASE Destroy
  BY <1>2 DEF Destroy, SeekInv
<1>3. CASE GoesOn
  <2>1. Pending' = Pending /\ UNCHANGED <<stopping, pausedLast, goal, total>>
    BY <1>3, GoingOn DEF guiVars
  <2>2. playing' => playing
    <3>1. CASE Present \/ PresentLate
      BY <3>1 DEF Present, PresentLate, PresentAfter
    <3>2. CASE GoesOn /\ ~Present /\ ~PresentLate
      BY <3>2 DEF GoesOn, TakeRequest, NothingToTake, Interrupted, FrameDue, Fill, PresentEnd, StopPlaying,
                  HandleSeekPreview
    <3> QED BY <1>3, <3>1, <3>2
  <2>3. \A i \in 0 .. Len(Pending) : StoppedAt(i) => StoppedAt(i)'
    BY <2>1, <2>2 DEF StoppedAt
  <2>4. \A i \in 0 .. Len(Pending) : ReachesAt(i) => ReachesAt(i)'
    BY <2>1 DEF ReachesAt
  <2>5. ASSUME ~playing, \A j \in 1 .. Len(Pending) : ~Moves(Pending[j])
        PROVE  UNCHANGED <<current, shown>>
    <3>1. ~(HandleSeekPreview /\ pc' = "preview")
      <4> SUFFICES ASSUME HandleSeekPreview PROVE FALSE
        OBVIOUS
      <4>1. Working /\ req.command = "SeekPreview" /\ queue \in Seq(Requests)
        BY DEF HandleSeekPreview, Handle, Working, TypeOK
      <4>2. Pending[1] = req /\ Len(Pending) = Len(queue) + 1 /\ Len(queue) \in Nat
        BY <4>1, PendingFact DEF TypeOK, Sound
      <4>3. Moves(Pending[1]) /\ 1 \in 1 .. Len(Pending)
        BY <4>1, <4>2 DEF Moves, Seeks
      <4> QED BY <2>5, <4>3
    <3>2. ~(Present \/ PresentLate)
      BY <2>5 DEF Present, PresentLate, TypeOK
    <3> QED BY <1>3, <3>1, <3>2 DEF GoesOn, TakeRequest, NothingToTake, Interrupted, FrameDue, Fill, PresentEnd
  <2>6. ASSUME NEW j \in 1 .. Len(Pending), Rests(Pending[j])
        PROVE  Rests(Pending[j])' /\ ~Moves(Pending[j])
    BY <2>1, <2>6 DEF Rests
  <2> SUFFICES ASSUME ~stopping, goal >= 0
               PROVE  /\ pausedLast
                      /\ \E i \in 0 .. Len(Pending) :
                            /\ i = 0 => current' = goal /\ shown'.position = goal
                            /\ i > 0 => Moves(Pending[i]) /\ Pending[i].arg = goal
                            /\ StoppedAt(i)' /\ ReachesAt(i)'
                            /\ \A j \in i + 1 .. Len(Pending) : Rests(Pending[j])'
    BY <2>1 DEF SeekInv
  <2>7. PICK i \in 0 .. Len(Pending) :
          /\ i = 0 => current = goal /\ shown.position = goal
          /\ i > 0 => Moves(Pending[i]) /\ Pending[i].arg = goal
          /\ StoppedAt(i) /\ ReachesAt(i)
          /\ \A j \in i + 1 .. Len(Pending) : Rests(Pending[j])
    BY DEF SeekInv
  <2>8. i = 0 => current' = goal /\ shown'.position = goal
    <3> SUFFICES ASSUME i = 0 PROVE current' = goal /\ shown'.position = goal
      OBVIOUS
    <3>1. ~playing
      BY <2>7 DEF StoppedAt
    <3>2. \A j \in 1 .. Len(Pending) : ~Moves(Pending[j])
      BY <2>7 DEF Rests
    <3> QED BY <2>5, <2>7, <3>1, <3>2
  <2>9. \A j \in i + 1 .. Len(Pending) : Rests(Pending[j])'
    <3>1. \A j \in i + 1 .. Len(Pending) : j \in 1 .. Len(Pending)
      OBVIOUS
    <3> QED BY <2>6, <2>7, <3>1
  <2>10. pausedLast
    BY DEF SeekInv
  <2> QED BY <2>3, <2>4, <2>7, <2>8, <2>9, <2>10
<1>4. CASE Finishes
  BY <1>4, SeekFinished
<1>5. CASE UNCHANGED vars
  <2>1. Pending' = Pending
    BY <1>5 DEF vars, Pending, Working
  <2> QED BY <1>5, <2>1 DEF vars, guiVars, SeekInv, StoppedAt, ReachesAt, Rests
<1> QED BY <1>1, <1>2, <1>3, <1>4, <1>5, WorkerSteps DEF Next
-----------------------------------------------------------------------------
(* What holds of every run *)

IInv ==
    TypeOK /\ ProjectInv /\ FramesInv /\ FreshInv /\ TransportInv /\ SeekInv

LEMMA InitIInv == Init => IInv
<1> SUFFICES ASSUME Init PROVE IInv
  OBVIOUS
<1>1. /\ queue = <<>> /\ pc = "top" /\ Pending = <<>> /\ ready = <<>> /\ goal = -1
      /\ project = NoProject /\ asked = NoProject /\ current = -1 /\ total = -1
  BY DEF Init, Pending, Working
<1>2. /\ Len(Pending) = 0 /\ DOMAIN Pending = {} /\ DOMAIN queue = {} /\ DOMAIN ready = {}
      /\ queue \in Seq(Requests) /\ ready \in Seq(Pictures)
  BY <1>1
<1>3. TypeOK
  <2>1. NoFrame \in Pictures
    BY DEF NoFrame, Pictures, Snapshots
  <2>2. shown \in [position : Int, picture : Pictures]
    BY <2>1 DEF Init
  <2> QED BY <1>1, <1>2, <2>2 DEF Init, TypeOK, FramesOK, Working, Snapshots
<1>4. shown.picture = NoFrame
  BY DEF Init
<1>5. playing = FALSE /\ intent = FALSE /\ refused = FALSE
  BY DEF Init
<1>6. TransportInv
  <2>1. intent = (playing \/ refused)
    BY <1>3, <1>5 DEF TypeOK
  <2> QED BY <1>2, <1>5, <2>1 DEF TransportInv, StoppedAt
<1> QED BY <1>1, <1>2, <1>3, <1>4, <1>6 DEF IInv, ProjectInv, FramesInv, FreshInv, SeekInv

LEMMA IInvPreserved == IInv /\ [Next]_vars => IInv'
<1> SUFFICES ASSUME IInv, [Next]_vars PROVE IInv'
  OBVIOUS
<1>1. TypeOK'
  BY TypePreserved DEF IInv
<1>2. ProjectInv' /\ FramesInv' /\ FreshInv' /\ TransportInv'
  BY <1>1, ProjectPreserved, FramesPreserved, FreshPreserved, TransportPreserved DEF IInv
<1>3. SeekInv'
  BY <1>1, <1>2, SeekPreserved DEF IInv
<1> QED BY <1>1, <1>2, <1>3 DEF IInv

LEMMA SpecIInv == Spec => []IInv
BY InitIInv, IInvPreserved, PTL DEF Spec

\* At rest nothing is pending.
LEMMA RestFact ==
    ASSUME AtRest
    PROVE  Len(Pending) = 0 /\ DOMAIN Pending = {} /\ ~stopping
<1>1. Pending = <<>>
  BY DEF AtRest, Pending, Working
<1> QED BY <1>1 DEF AtRest

\* The requests, the worker's state and the frames are what their declarations in
\* the header say, and the worker only fills, waits and presents while it plays.
THEOREM TypeCorrect == Spec => []TypeOK
<1>1. IInv => TypeOK
  BY DEF IInv
<1> QED BY <1>1, SpecIInv, PTL

\* Whatever push() drops of the queue and whenever the worker takes what is left,
\* a worker that has served the queue has the project the window gave last.
THEOREM LatestProjectCorrect == Spec => []LatestProjectWins
<1>1. IInv => LatestProjectWins
  BY RestFact DEF IInv, FreshInv, LatestProjectWins
<1> QED BY <1>1, SpecIInv, PTL

\* The intent the play / pause key toggles and the worker's own playing_ agree
\* once the queue is served, and a pause pushed after the last play holds.
THEOREM TransportCorrect == Spec => []TransportSettles
<1>1. IInv => TransportSettles
  BY RestFact DEF IInv, TransportInv, StoppedAt, TransportSettles
<1> QED BY <1>1, SpecIInv, PTL

\* The frame on screen and every frame decoded ahead is the one of its position,
\* and once the queue is served all of them are of the project given last.
THEOREM PictureCorrect == Spec => []PictureMatches
<1>1. IInv => PictureMatches
  BY RestFact DEF IInv, FramesInv, FreshInv, PictureMatches
<1> QED BY <1>1, SpecIInv, PTL

\* However seeks and previews replace each other, are given up half way and mix with
\* edits, a playhead moved while paused rests on the frame it was moved to last.
THEOREM SeekCorrect == Spec => []SeekHonoured
<1>1. IInv => SeekHonoured
  <2> SUFFICES ASSUME IInv, AtRest, goal >= 0 PROVE current = goal /\ shown.position = goal
    BY DEF SeekHonoured
  <2>1. Len(Pending) = 0 /\ ~stopping
    BY RestFact
  <2>2. PICK i \in 0 .. Len(Pending) : i = 0 => current = goal /\ shown.position = goal
    BY <2>1 DEF IInv, SeekInv
  <2> QED BY <2>1, <2>2
<1> QED BY <1>1, SpecIInv, PTL
=============================================================================
