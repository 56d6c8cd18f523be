----------------------- MODULE ThumbnailServiceProofs -----------------------
(* The thumbnail service answers with the right pictures, for any number of  *)
(* workers, frames, cells and requests and every size of the cache           *)
(* (ThumbnailService): its two structures agree, what is kept under a name   *)
(* is what the name says, a key that someone waits for is queued or made     *)
(* exactly once, and a cell never takes the answer to what it asked before.  *)
EXTENDS ThumbnailService, FiniteSetTheorems, TLAPS

\* What is kept under a key, and what a request for it may be answered with.
Kept(k) == IF k \in Frames THEN {k} ELSE {k, Blank}
Answers(k) == IF k \in Frames THEN Near[k] ELSE {k, Blank}

Working == {"make", "store", "answer"}

-----------------------------------------------------------------------------
(* The inductive invariant.                                                  *)

TypeOK ==
    /\ queue \in Seq(Keys)
    /\ waiters \in [Keys -> SUBSET Nat]
    /\ lru \in Seq(Keys)
    /\ disk \in [Keys -> Keys \cup {Blank, Null}]
    /\ pc \in [Workers -> {"eval", "blocking", "asleep", "exited"} \cup Working]
    /\ job \in [Workers -> Keys \cup {Null}]
    /\ made \in [Workers -> (Keys \cup {Blank, Null}) \X (Keys \cup {Null})]
    /\ nextId \in Nat
    /\ shows \in [Cells -> [id : Nat, key : Keys \cup {Null}, pic : Keys \cup {Blank, Null}]]
    /\ events \in SUBSET (Nat \X (Keys \cup {Blank, Null}))

\* Keys are queued or worked on once, and someone waits for exactly these.
QueueInv ==
    /\ Distinct(queue)
    /\ \A w \in Workers : job[w] # Null <=> pc[w] \in Working
    /\ \A v, w \in Workers : job[v] = job[w] /\ job[v] # Null => v = w
    /\ \A w \in Workers : \A i \in DOMAIN queue : queue[i] # job[w]
    /\ \A k \in Keys :
          waiters[k] # {} <=> (k \in Range(queue) \/ \E w \in Workers : job[w] = k)

CacheInv ==
    /\ DOMAIN cache = Range(lru) /\ Distinct(lru) /\ Len(lru) <= CacheMax
    /\ \A k \in DOMAIN cache : cache[k] \in Kept(k)
    /\ \A k \in Keys : disk[k] \in Kept(k) \cup {Null}

\* What a worker has made is kept under its own name and answers the job.
MadeInv ==
    \A w \in Workers :
        /\ pc[w] = "store" => /\ made[w][2] \in Keys
                              /\ made[w][1] \in Kept(made[w][2])
                              /\ made[w][1] \in Answers(job[w])
        /\ pc[w] = "answer" => made[w][1] \in Answers(job[w]) \cup {Null}

\* An id belongs to one request, and answers under it are for its key.
IdsInv ==
    /\ \A k \in Keys : \A id \in waiters[k] : id < nextId
    /\ \A e \in events : e[1] < nextId
    /\ \A c \in Cells : shows[c].id < nextId
    /\ \A k \in Keys : \A id \in waiters[k] : \A c \in Cells :
          shows[c].id = id => shows[c].key = k
    /\ \A e \in events : \A c \in Cells :
          shows[c].id = e[1] => e[2] \in Answers(shows[c].key) \cup {Null}
    /\ \A c \in Cells : shows[c].pic # Null => shows[c].pic \in Answers(shows[c].key)

IInv == TypeOK /\ QueueInv /\ CacheInv /\ MadeInv /\ IdsInv
-----------------------------------------------------------------------------
(* The lists.                                                                *)

LEMMA KindsOfKeys ==
    /\ \A k \in Keys : Kept(k) \subseteq Answers(k)
    /\ \A k \in Keys : Kept(k) \subseteq Keys \cup {Blank} /\ Answers(k) \subseteq Keys \cup {Blank}
    /\ \A k \in Keys : Null \notin Kept(k) /\ Null \notin Answers(k) /\ k \in Kept(k)
    /\ Null \notin Keys /\ Null # Blank
BY ThumbnailAssumption DEF Kept, Answers, Keys

\* The key that is used becomes the last; the list names the same keys and it,
\* each once.
LEMMA TouchedLists ==
    ASSUME lru \in Seq(Keys), Distinct(lru), NEW k \in Keys
    PROVE  /\ Touched(k) \in Seq(Keys) /\ Distinct(Touched(k))
           /\ Range(Touched(k)) = Range(lru) \cup {k}
           /\ Len(Touched(k)) = IF k \in Range(lru) THEN Len(lru) ELSE Len(lru) + 1
<1>1. /\ Len(lru) \in Nat /\ DOMAIN lru = 1..Len(lru)
      /\ \A j \in 1..Len(lru) : lru[j] \in Keys
      /\ Range(lru) = {lru[j] : j \in 1..Len(lru)}
  BY DEF Range
<1>2. CASE k \notin Range(lru)
  <2> DEFINE t == Append(lru, k)
  <2>1. Touched(k) = t
    BY <1>2 DEF Touched
  <2>2. /\ t \in Seq(Keys) /\ Len(t) = Len(lru) + 1 /\ DOMAIN t = 1..Len(lru) + 1
        /\ \A j \in 1..Len(lru) : t[j] = lru[j]
        /\ t[Len(lru) + 1] = k
    BY <1>1
  <2> HIDE DEF t
  <2>3. \A j \in 1..Len(lru) : t[j] # k
    BY <1>1, <1>2, <2>2
  <2>4. Distinct(t)
    BY <1>1, <2>2, <2>3 DEF Distinct
  <2>5. Range(t) = Range(lru) \cup {k}
    <3>1. ASSUME NEW x \in Range(t) PROVE x \in Range(lru) \cup {k}
      BY <1>1, <2>2, <3>1 DEF Range
    <3>2. ASSUME NEW x \in Range(lru) PROVE x \in Range(t)
      BY <1>1, <2>2, <3>2 DEF Range
    <3>3. k \in Range(t)
      BY <1>1, <2>2 DEF Range
    <3> QED BY <3>1, <3>2, <3>3
  <2> QED BY <1>2, <2>1, <2>2, <2>4, <2>5
<1>3. CASE k \in Range(lru)
  <2> DEFINE i == CHOOSE i \in 1..Len(lru) : lru[i] = k
             t == [j \in 1..Len(lru) |->
                      IF j < i THEN lru[j] ELSE IF j < Len(lru) THEN lru[j + 1] ELSE k]
  <2>1. i \in 1..Len(lru) /\ lru[i] = k
    BY <1>1, <1>3
  <2>2. Touched(k) = t
    BY <1>3 DEF Touched
  <2> HIDE DEF i
  <2>3. \A j \in 1..Len(lru) :
           t[j] = IF j < i THEN lru[j] ELSE IF j < Len(lru) THEN lru[j + 1] ELSE k
    OBVIOUS
  <2>4. t \in Seq(Keys) /\ Len(t) = Len(lru) /\ DOMAIN t = 1..Len(lru)
    <3>1. \A j \in 1..Len(lru) : t[j] \in Keys
      BY <1>1, <2>1, <2>3
    <3>2. t \in [1..Len(lru) -> Keys]
      BY <3>1
    <3> QED BY <1>1, <3>2
  <2> HIDE DEF t
  <2> DEFINE from(j) == IF j < i THEN j ELSE IF j < Len(lru) THEN j + 1 ELSE i
  <2>5. \A j \in 1..Len(lru) : from(j) \in 1..Len(lru) /\ t[j] = lru[from(j)]
    BY <1>1, <2>1, <2>3
  <2>6. \A j, m \in 1..Len(lru) : from(j) = from(m) => j = m
    BY <1>1, <2>1
  <2>0. \E j \in 1..Len(lru) : from(j) = i
    <3>0. Len(lru) \in Nat /\ i \in 1..Len(lru)
      BY <1>1, <2>1
    <3>1. PICK m \in Nat : Len(lru) = m
      BY <3>0
    <3>2. m \in 1..m /\ i \in 1..m
      BY <3>0, <3>1
    <3>3. from(m) = i
      BY <3>1, <3>2
    <3> QED BY <3>1, <3>2, <3>3
  <2>7. \A n \in 1..Len(lru) : \E j \in 1..Len(lru) : from(j) = n
    <3> SUFFICES ASSUME NEW n \in 1..Len(lru) PROVE \E j \in 1..Len(lru) : from(j) = n
      OBVIOUS
    <3>1. CASE n < i
      BY <1>1, <2>1, <3>1
    <3>2. CASE n = i
      BY <2>0, <3>2
    <3>3. CASE n > i
      <4>1. n - 1 \in 1..Len(lru) /\ from(n - 1) = n
        BY <1>1, <2>1, <3>3
      <4> QED BY <4>1
    <3> QED BY <1>1, <2>1, <3>1, <3>2, <3>3
  <2> HIDE DEF from
  <2>8. Distinct(t)
    <3> SUFFICES ASSUME NEW j \in 1..Len(lru), NEW m \in 1..Len(lru), t[j] = t[m] PROVE j = m
      BY <2>4 DEF Distinct
    <3>1. from(j) = from(m)
      BY <1>1, <2>5 DEF Distinct
    <3> QED BY <2>6, <3>1
  <2>9. Range(t) = Range(lru)
    <3>1. ASSUME NEW x \in Range(t) PROVE x \in Range(lru)
      BY <1>1, <2>4, <2>5, <3>1 DEF Range
    <3>2. ASSUME NEW x \in Range(lru) PROVE x \in Range(t)
      <4>1. PICK n \in 1..Len(lru) : lru[n] = x
        BY <1>1, <3>2
      <4>2. PICK j \in 1..Len(lru) : from(j) = n
        BY <2>7
      <4>3. t[j] = x
        BY <2>5, <4>1, <4>2
      <4> QED BY <2>4, <4>3 DEF Range
    <3> QED BY <3>1, <3>2
  <2> QED BY <1>3, <2>2, <2>4, <2>8, <2>9
<1> QED BY <1>2, <1>3

\* What is left of a list without its first.
LEMMA TailLists ==
    ASSUME NEW s \in Seq(Keys), s # <<>>, Distinct(s)
    PROVE  /\ Tail(s) \in Seq(Keys) /\ Distinct(Tail(s)) /\ Len(Tail(s)) = Len(s) - 1
           /\ Head(s) \in Keys
           /\ Range(Tail(s)) = Range(s) \ {Head(s)} /\ Head(s) \in Range(s)
<1>1. /\ Len(s) \in Nat /\ Len(s) >= 1 /\ DOMAIN s = 1..Len(s) /\ Head(s) = s[1]
      /\ \A j \in 1..Len(s) : s[j] \in Keys
  OBVIOUS
<1>2. /\ Tail(s) \in Seq(Keys) /\ Len(Tail(s)) = Len(s) - 1
      /\ DOMAIN Tail(s) = 1..Len(s) - 1
      /\ \A j \in 1..Len(s) - 1 : Tail(s)[j] = s[j + 1]
  BY <1>1
<1>3. Distinct(Tail(s))
  BY <1>1, <1>2 DEF Distinct
<1>4. ASSUME NEW x \in Range(Tail(s)) PROVE x \in Range(s) /\ x # Head(s)
  <2>1. PICK j \in 1..Len(s) - 1 : x = s[j + 1]
    BY <1>1, <1>2, <1>4 DEF Range
  <2>2. j + 1 \in 1..Len(s) /\ 1 \in 1..Len(s) /\ j + 1 # 1
    BY <1>1
  <2> QED BY <1>1, <2>1, <2>2 DEF Range, Distinct
<1>5. ASSUME NEW x \in Range(s), x # Head(s) PROVE x \in Range(Tail(s))
  <2>1. PICK j \in 1..Len(s) : x = s[j]
    BY <1>1, <1>5 DEF Range
  <2>2. j - 1 \in 1..Len(s) - 1 /\ Tail(s)[j - 1] = x
    BY <1>1, <1>2, <1>5, <2>1
  <2> QED BY <1>2, <2>2 DEF Range
<1>6. Head(s) \in Range(s)
  BY <1>1 DEF Range
<1> QED BY <1>1, <1>2, <1>3, <1>4, <1>5, <1>6

\* A key that is new to the queue joins it at either end.
LEMMA JoinsQueue ==
    ASSUME NEW s \in Seq(Keys), Distinct(s), NEW k \in Keys, k \notin Range(s),
           NEW t, t = Append(s, k) \/ t = <<k>> \o s
    PROVE  t \in Seq(Keys) /\ Distinct(t) /\ Range(t) = Range(s) \cup {k}
<1>1. /\ Len(s) \in Nat /\ DOMAIN s = 1..Len(s)
      /\ \A j \in 1..Len(s) : s[j] \in Keys /\ s[j] # k
  BY DEF Range
<1>2. CASE t = Append(s, k)
  <2>1. /\ t \in Seq(Keys) /\ DOMAIN t = 1..Len(s) + 1
        /\ \A j \in 1..Len(s) : t[j] = s[j]
        /\ t[Len(s) + 1] = k
    BY <1>1, <1>2
  <2>2. Distinct(t)
    BY <1>1, <2>1 DEF Distinct
  <2>3. \A x \in Range(t) : x \in Range(s) \cup {k}
    BY <1>1, <2>1 DEF Range
  <2>4. \A x \in Range(s) : x \in Range(t)
    BY <1>1, <2>1 DEF Range
  <2>5. k \in Range(t)
    BY <1>1, <2>1 DEF Range
  <2> QED BY <2>1, <2>2, <2>3, <2>4, <2>5
<1>3. CASE t = <<k>> \o s
  <2>1. /\ t \in Seq(Keys) /\ Len(t) = Len(s) + 1 /\ DOMAIN t = 1..Len(s) + 1
        /\ t[1] = k
        /\ \A j \in 2..Len(s) + 1 : t[j] = s[j - 1]
    BY <1>1, <1>3
  <2>2. \A j \in 2..Len(s) + 1 : t[j] # k /\ j - 1 \in 1..Len(s)
    BY <1>1, <2>1
  <2>3. Distinct(t)
    <3> SUFFICES ASSUME NEW i \in 1..Len(s) + 1, NEW j \in 1..Len(s) + 1, t[i] = t[j]
                 PROVE  i = j
      BY <2>1 DEF Distinct
    <3>1. CASE i = 1 \/ j = 1
      BY <1>1, <2>1, <2>2, <3>1
    <3>2. CASE i # 1 /\ j # 1
      <4>1. s[i - 1] = s[j - 1] /\ i - 1 \in 1..Len(s) /\ j - 1 \in 1..Len(s)
        BY <1>1, <2>1, <3>2
      <4>2. i - 1 = j - 1
        BY <1>1, <4>1 DEF Distinct
      <4> QED BY <1>1, <4>2
    <3> QED BY <3>1, <3>2
  <2>4. ASSUME NEW x \in Range(t), x # k PROVE x \in Range(s)
    <3>1. PICK j \in 1..Len(s) + 1 : t[j] = x
      BY <2>1, <2>4 DEF Range
    <3>2. j - 1 \in 1..Len(s) /\ s[j - 1] = x
      BY <1>1, <2>1, <2>2, <2>4, <3>1
    <3> QED BY <1>1, <3>2 DEF Range
  <2>5. ASSUME NEW x \in Range(s) PROVE x \in Range(t)
    <3>1. PICK j \in 1..Len(s) : s[j] = x
      BY <1>1, <2>5 DEF Range
    <3>2. j + 1 \in 2..Len(s) + 1 /\ j + 1 \in 1..Len(s) + 1 /\ (j + 1) - 1 = j
      BY <1>1
    <3>3. t[j + 1] = x
      BY <2>1, <3>1, <3>2
    <3> QED BY <2>1, <3>2, <3>3 DEF Range
  <2>6. k \in Range(t)
    BY <1>1, <2>1 DEF Range
  <2> QED BY <2>1, <2>3, <2>4, <2>5, <2>6
<1> QED BY <1>2, <1>3
-----------------------------------------------------------------------------
(* The steps.                                                                *)

LEMMA ServiceInit == Init => IInv
<1> SUFFICES ASSUME Init PROVE IInv
  OBVIOUS
<1>1. TypeOK
  BY DEF Init, TypeOK, Keys
<1>2. QueueInv
  <2>1. DOMAIN queue = {} /\ Range(queue) = {} /\ Distinct(queue)
    BY DEF Init, Range, Distinct
  <2>2. \A w \in Workers : job[w] = Null /\ pc[w] \notin Working
    BY DEF Init, Working
  <2>3. \A k \in Keys : waiters[k] = {} /\ k # Null
    BY KindsOfKeys DEF Init
  <2> QED BY <2>1, <2>2, <2>3 DEF QueueInv
<1>3. CacheInv
  BY ThumbnailAssumption DEF Init, CacheInv, Distinct, Range
<1>4. MadeInv
  BY DEF Init, MadeInv
<1>5. IdsInv
  BY DEF Init, IdsInv
<1> QED BY <1>1, <1>2, <1>3, <1>4, <1>5 DEF IInv

\* Steps that only set a flag, or move a worker that has no job.
LEMMA ControlKeeps ==
    ASSUME IInv, UNCHANGED <<workVars, windowVars, events>>,
           pc' \in [Workers -> {"eval", "blocking", "asleep", "exited"} \cup Working],
           \A w \in Workers : pc'[w] = pc[w] \/ (pc[w] \notin Working /\ pc'[w] \notin Working)
    PROVE  IInv'
<1> USE DEF IInv
<1>1. TypeOK'
  BY DEF TypeOK, workVars, windowVars
<1>2. QueueInv'
  BY DEF QueueInv, workVars
<1>3. CacheInv'
  BY DEF CacheInv, workVars
<1>4. MadeInv'
  BY DEF MadeInv, workVars, Working
<1>5. IdsInv'
  BY DEF IdsInv, workVars, windowVars
<1> QED BY <1>1, <1>2, <1>3, <1>4, <1>5

\* A worker that has no job goes somewhere else without one.
LEMMA GoneTo ==
    ASSUME TypeOK, NEW w \in Workers, NEW at \in {"eval", "blocking", "asleep", "exited"},
           pc[w] \notin Working, Goto(w, at)
    PROVE  /\ pc' \in [Workers -> {"eval", "blocking", "asleep", "exited"} \cup Working]
           /\ \A v \in Workers :
                 pc'[v] = pc[v] \/ (pc[v] \notin Working /\ pc'[v] \notin Working)
BY DEF TypeOK, Goto, Working

LEMMA WokenTo ==
    ASSUME TypeOK, pc' = Woken
    PROVE  /\ pc' \in [Workers -> {"eval", "blocking", "asleep", "exited"} \cup Working]
           /\ \A v \in Workers :
                 pc'[v] = pc[v] \/ (pc[v] \notin Working /\ pc'[v] \notin Working)
BY DEF TypeOK, Woken, Working

\* A cell asks under an id that no one has: of what waits or is on its way,
\* only this request is its own.
LEMMA AskKeeps ==
    ASSUME IInv, NEW c \in Cells, NEW k \in Keys, Ask(c, k)
    PROVE  IInv'
<1> USE DEF IInv
<1>1. /\ nextId \in Nat /\ nextId' = nextId + 1
      /\ shows' = [shows EXCEPT ![c] = [id |-> nextId, key |-> k, pic |-> Null]]
      /\ UNCHANGED <<cache, disk, raw, pc, job, made>>
  BY DEF Ask, TypeOK
<1>2. /\ shows'[c] = [id |-> nextId, key |-> k, pic |-> Null]
      /\ \A b \in Cells : b # c => shows'[b] = shows[b]
      /\ shows' \in [Cells -> [id : Nat, key : Keys \cup {Null}, pic : Keys \cup {Blank, Null}]]
  BY <1>1 DEF TypeOK
<1>3. \A b \in Cells : shows'[b].id = nextId => b = c
  BY <1>2 DEF IdsInv
<1>4. \A b \in Cells : shows'[b].id < nextId' /\ shows[b].id \in Nat /\ shows'[b].id \in Nat
  BY <1>1, <1>2 DEF IdsInv, TypeOK
<1>5. \A b \in Cells : shows'[b].pic # Null => shows'[b].pic \in Answers(shows'[b].key)
  BY <1>2 DEF IdsInv
<1>6. MadeInv'
  BY <1>1 DEF MadeInv
<1>7. CASE /\ k \in DOMAIN cache
           /\ lru' = Touched(k)
           /\ events' = events \cup {<<nextId, cache[k]>>}
           /\ UNCHANGED <<queue, waiters>>
  <2>1. cache[k] \in Answers(k) /\ cache[k] \in Keys \cup {Blank}
    BY <1>7, KindsOfKeys DEF CacheInv
  <2>2. /\ lru' \in Seq(Keys) /\ Distinct(lru') /\ Range(lru') = Range(lru)
        /\ Len(lru') = Len(lru)
    <3>1. lru \in Seq(Keys) /\ Distinct(lru) /\ k \in Range(lru)
      BY <1>7 DEF TypeOK, CacheInv
    <3>2. /\ Touched(k) \in Seq(Keys) /\ Distinct(Touched(k))
          /\ Range(Touched(k)) = Range(lru) \cup {k}
          /\ Len(Touched(k)) = Len(lru)
      BY <3>1, TouchedLists
    <3> QED BY <1>7, <3>1, <3>2
  <2>3. events' \in SUBSET (Nat \X (Keys \cup {Blank, Null}))
    BY <1>1, <1>7, <2>1 DEF TypeOK
  <2>4. TypeOK'
    BY <1>1, <1>2, <1>7, <2>2, <2>3 DEF TypeOK
  <2>5. QueueInv'
    BY <1>1, <1>7 DEF QueueInv
  <2>6. CacheInv'
    BY <1>1, <2>2 DEF CacheInv
  <2>7. \A e \in events : e[1] \in Nat /\ e[1] < nextId
    BY DEF TypeOK, IdsInv
  <2>8. \A e \in events' : e[1] < nextId'
    <3> SUFFICES ASSUME NEW e \in events' PROVE e[1] < nextId'
      OBVIOUS
    <3>1. CASE e \in events
      BY <1>1, <2>7, <3>1
    <3>2. CASE e = <<nextId, cache[k]>>
      BY <1>1, <3>2
    <3> QED BY <1>7, <3>1, <3>2
  <2>9. \A e \in events' : \A b \in Cells :
           shows'[b].id = e[1] => e[2] \in Answers(shows'[b].key) \cup {Null}
    <3> SUFFICES ASSUME NEW e \in events', NEW b \in Cells, shows'[b].id = e[1]
                 PROVE  e[2] \in Answers(shows'[b].key) \cup {Null}
      OBVIOUS
    <3>1. CASE e \in events
      <4>1. b # c
        BY <1>2, <2>7, <3>1
      <4> QED BY <1>2, <3>1, <4>1 DEF IdsInv
    <3>2. CASE e = <<nextId, cache[k]>>
      BY <1>2, <1>3, <2>1, <3>2
    <3> QED BY <1>7, <3>1, <3>2
  <2>10. \A j \in Keys : \A id \in waiters[j] : id \in Nat /\ id < nextId
    BY DEF TypeOK, IdsInv
  <2>11. \A j \in Keys : \A id \in waiters'[j] : id < nextId'
    BY <1>1, <1>7, <2>10
  <2>12. \A j \in Keys : \A id \in waiters'[j] : \A b \in Cells :
           shows'[b].id = id => shows'[b].key = j
    <3> SUFFICES ASSUME NEW j \in Keys, NEW id \in waiters[j], NEW b \in Cells,
                        shows'[b].id = id
                 PROVE  shows'[b].key = j
      BY <1>7
    <3>1. b # c
      BY <1>2, <2>10
    <3> QED BY <1>2, <3>1 DEF IdsInv
  <2>13. IdsInv'
    BY <1>4, <1>5, <2>8, <2>9, <2>11, <2>12 DEF IdsInv
  <2> QED BY <1>6, <2>4, <2>5, <2>6, <2>13
<1>8. CASE /\ k \notin DOMAIN cache
           /\ waiters' = [waiters EXCEPT ![k] = @ \cup {nextId}]
           /\ IF waiters[k] # {}
              THEN UNCHANGED queue
              ELSE queue' = IF k \in Waves THEN <<k>> \o queue ELSE Append(queue, k)
           /\ UNCHANGED <<lru, events>>
  <2>1. /\ waiters' \in [Keys -> SUBSET Nat]
        /\ waiters'[k] = waiters[k] \cup {nextId}
        /\ \A j \in Keys : j # k => waiters'[j] = waiters[j]
    BY <1>1, <1>8 DEF TypeOK
  <2>2. queue' \in Seq(Keys) /\ QueueInv'
    <3>1. CASE waiters[k] # {}
      <4>1. \A j \in Keys : waiters'[j] # {} <=> waiters[j] # {}
        BY <2>1, <3>1
      <4> QED BY <1>1, <1>8, <3>1, <4>1 DEF QueueInv, TypeOK
    <3>2. CASE waiters[k] = {}
      <4>1. queue \in Seq(Keys) /\ Distinct(queue) /\ k \notin Range(queue)
            /\ \A w \in Workers : job[w] # k
        BY <3>2 DEF QueueInv, TypeOK
      <4>2. queue' = Append(queue, k) \/ queue' = <<k>> \o queue
        BY <1>8, <3>2
      <4>3. queue' \in Seq(Keys) /\ Distinct(queue') /\ Range(queue') = Range(queue) \cup {k}
        BY <4>1, <4>2, JoinsQueue
      <4>4. \A w \in Workers : job[w] \notin Range(queue)
        BY DEF QueueInv, Range
      <4>5. \A w \in Workers : \A i \in DOMAIN queue' : queue'[i] # job'[w]
        BY <1>1, <4>1, <4>3, <4>4 DEF Range
      <4>6. \A j \in Keys :
               waiters'[j] # {} <=> (j \in Range(queue') \/ \E w \in Workers : job'[w] = j)
        <5> SUFFICES ASSUME NEW j \in Keys
                     PROVE  waiters'[j] # {} <=>
                               (j \in Range(queue') \/ \E w \in Workers : job'[w] = j)
          OBVIOUS
        <5>1. CASE j = k
          BY <2>1, <4>3, <5>1
        <5>2. CASE j # k
          BY <1>1, <2>1, <4>3, <5>2 DEF QueueInv
        <5> QED BY <5>1, <5>2
      <4> QED BY <1>1, <4>3, <4>5, <4>6 DEF QueueInv
    <3> QED BY <3>1, <3>2
  <2>3. TypeOK'
    BY <1>1, <1>2, <1>8, <2>1, <2>2 DEF TypeOK
  <2>4. CacheInv'
    BY <1>1, <1>8 DEF CacheInv
  <2>5. \A j \in Keys : \A id \in waiters[j] : id \in Nat /\ id < nextId
    BY DEF TypeOK, IdsInv
  <2>6. \A e \in events : e[1] \in Nat /\ e[1] < nextId
    BY DEF TypeOK, IdsInv
  <2>7. ASSUME NEW j \in Keys, NEW id \in waiters'[j]
        PROVE  /\ id < nextId'
               /\ \A b \in Cells : shows'[b].id = id => shows'[b].key = j
    <3>1. CASE id \in waiters[j]
      <4>1. id < nextId' /\ id # nextId
        BY <1>1, <2>5, <3>1
      <4>2. \A b \in Cells : shows'[b].id = id => b # c
        BY <1>2, <4>1
      <4> QED BY <1>2, <3>1, <4>1, <4>2 DEF IdsInv
    <3>2. CASE j = k /\ id = nextId
      BY <1>1, <1>2, <1>3, <3>2
    <3> QED BY <2>1, <2>7, <3>1, <3>2
  <2>8. \A e \in events' : e[1] < nextId'
    BY <1>1, <1>8, <2>6
  <2>9. \A e \in events' : \A b \in Cells :
           shows'[b].id = e[1] => e[2] \in Answers(shows'[b].key) \cup {Null}
    <3> SUFFICES ASSUME NEW e \in events, NEW b \in Cells, shows'[b].id = e[1]
                 PROVE  e[2] \in Answers(shows'[b].key) \cup {Null}
      BY <1>8
    <3>1. b # c
      BY <1>2, <2>6
    <3> QED BY <1>2, <3>1 DEF IdsInv
  <2>10. IdsInv'
    BY <1>4, <1>5, <2>7, <2>8, <2>9 DEF IdsInv
  <2> QED BY <1>6, <2>2, <2>3, <2>4, <2>10
<1> QED BY <1>7, <1>8 DEF Ask, Submit

\* The window takes an answer: the cells that asked under its id show it.
LEMMA DeliverKeeps ==
    ASSUME IInv, NEW e \in events, Deliver(e)
    PROVE  IInv'
<1> USE DEF IInv
<1>1. /\ UNCHANGED workVars /\ UNCHANGED <<pc, nextId>> /\ events' \subseteq events
      /\ shows' = [c \in Cells |->
            IF shows[c].id = e[1] /\ e[2] # Null THEN [shows[c] EXCEPT !.pic = e[2]]
            ELSE shows[c]]
  BY DEF Deliver
<1>2. e[2] \in Keys \cup {Blank, Null}
  BY DEF TypeOK
<1>3. ASSUME NEW c \in Cells
      PROVE  /\ shows'[c] \in [id : Nat, key : Keys \cup {Null}, pic : Keys \cup {Blank, Null}]
             /\ shows'[c].id = shows[c].id /\ shows'[c].key = shows[c].key
             /\ shows'[c].pic # Null => shows'[c].pic \in Answers(shows'[c].key)
  <2>0. shows[c] \in [id : Nat, key : Keys \cup {Null}, pic : Keys \cup {Blank, Null}]
    BY DEF TypeOK
  <2>1. CASE shows[c].id = e[1] /\ e[2] # Null
    <3>1. shows'[c] = [shows[c] EXCEPT !.pic = e[2]]
      BY <1>1, <2>1
    <3>2. e[2] \in Answers(shows[c].key)
      BY <2>1 DEF IdsInv
    <3> QED BY <1>2, <2>0, <3>1, <3>2
  <2>2. CASE ~(shows[c].id = e[1] /\ e[2] # Null)
    BY <1>1, <2>0, <2>2 DEF IdsInv
  <2> QED BY <2>1, <2>2
<1>4. shows' \in [Cells -> [id : Nat, key : Keys \cup {Null}, pic : Keys \cup {Blank, Null}]]
  BY <1>1, <1>3
<1>5. TypeOK'
  BY <1>1, <1>4 DEF TypeOK, workVars
<1>6. QueueInv' /\ CacheInv' /\ MadeInv'
  BY <1>1 DEF QueueInv, CacheInv, MadeInv, workVars
<1>7. IdsInv'
  BY <1>1, <1>3 DEF IdsInv, workVars
<1> QED BY <1>5, <1>6, <1>7

\* A worker takes the first key of the queue.
LEMMA TakeKeeps ==
    ASSUME IInv, NEW w \in Workers, WorkerTake(w)
    PROVE  IInv'
<1> USE DEF IInv
<1>1. /\ queue # <<>> /\ pc[w] = "eval"
      /\ job' = [job EXCEPT ![w] = Head(queue)]
      /\ queue' = Tail(queue)
      /\ pc' = [pc EXCEPT ![w] = "make"]
      /\ UNCHANGED <<waiters, cache, lru, disk, raw, made, windowVars, events>>
  BY DEF WorkerTake, Goto
<1>2. queue \in Seq(Keys) /\ Distinct(queue)
  BY DEF TypeOK, QueueInv
<1>3. /\ queue' \in Seq(Keys) /\ Distinct(queue')
      /\ Head(queue) \in Keys
      /\ Range(queue') = Range(queue) \ {Head(queue)} /\ Head(queue) \in Range(queue)
  BY <1>1, <1>2, TailLists
<1>4. /\ job' \in [Workers -> Keys \cup {Null}]
      /\ job'[w] = Head(queue) /\ \A v \in Workers : v # w => job'[v] = job[v]
      /\ pc' \in [Workers -> {"eval", "blocking", "asleep", "exited"} \cup Working]
      /\ pc'[w] = "make" /\ \A v \in Workers : v # w => pc'[v] = pc[v]
  BY <1>1, <1>3 DEF TypeOK, Working
<1>5. TypeOK'
  BY <1>1, <1>3, <1>4 DEF TypeOK, windowVars
<1>6. \A v \in Workers : job[v] \notin Range(queue)
  BY DEF QueueInv, Range
<1>7. job[w] = Null
  BY <1>1 DEF QueueInv, Working
<1>8. QueueInv'
  <2>1. \A v \in Workers : job'[v] # Null <=> pc'[v] \in Working
    BY <1>3, <1>4, KindsOfKeys DEF QueueInv, Working
  <2>2. \A u, v \in Workers : job'[u] = job'[v] /\ job'[u] # Null => u = v
    BY <1>3, <1>4, <1>6 DEF QueueInv
  <2>3. \A v \in Workers : \A i \in DOMAIN queue' : queue'[i] # job'[v]
    <3>1. \A v \in Workers : job'[v] \notin Range(queue')
      BY <1>3, <1>4, <1>6
    <3> QED BY <3>1 DEF Range
  <2>4. \A k \in Keys :
           waiters'[k] # {} <=> (k \in Range(queue') \/ \E v \in Workers : job'[v] = k)
    <3> SUFFICES ASSUME NEW k \in Keys
                 PROVE  waiters[k] # {} <=>
                           (k \in Range(queue') \/ \E v \in Workers : job'[v] = k)
      BY <1>1
    <3>1. waiters[k] # {} <=> (k \in Range(queue) \/ \E v \in Workers : job[v] = k)
      BY DEF QueueInv
    <3>2. CASE k = Head(queue)
      BY <1>3, <1>4, <3>1, <3>2
    <3>3. CASE k # Head(queue)
      <4>1. (\E v \in Workers : job[v] = k) <=> (\E v \in Workers : job'[v] = k)
        BY <1>4, <1>7, <3>3, KindsOfKeys
      <4> QED BY <1>3, <3>1, <3>3, <4>1
    <3> QED BY <3>2, <3>3
  <2> QED BY <1>3, <2>1, <2>2, <2>3, <2>4 DEF QueueInv
<1>9. CacheInv'
  BY <1>1 DEF CacheInv
<1>10. MadeInv'
  BY <1>1, <1>4 DEF MadeInv
<1>11. IdsInv'
  BY <1>1 DEF IdsInv, windowVars
<1> QED BY <1>5, <1>8, <1>9, <1>10, <1>11

\* A picture that is made, or not, belongs to its own name and answers the job.
LEMMA MakeKeeps ==
    ASSUME IInv, NEW w \in Workers, NEW pic \in Keys \cup {Blank, Null}, NEW key \in Keys,
           NEW at \in {"store", "answer"}, pc[w] = "make",
           Goto(w, at), Made(w, pic, key),
           IF at = "store" THEN pic \in Kept(key) /\ pic \in Answers(job[w]) ELSE pic = Null,
           disk' \in {disk, [disk EXCEPT ![key] = pic]}, at = "answer" => disk' = disk,
           UNCHANGED <<queue, waiters, cache, lru, job, windowVars, events>>
    PROVE  IInv'
<1> USE DEF IInv
<1>1. /\ pc' \in [Workers -> {"eval", "blocking", "asleep", "exited"} \cup Working]
      /\ pc'[w] = at /\ \A v \in Workers : v # w => pc'[v] = pc[v]
  BY DEF TypeOK, Goto, Working
<1>2. /\ made' \in [Workers -> (Keys \cup {Blank, Null}) \X (Keys \cup {Null})]
      /\ made'[w] = <<pic, key>> /\ \A v \in Workers : v # w => made'[v] = made[v]
  BY DEF TypeOK, Made
<1>3. /\ disk' \in [Keys -> Keys \cup {Blank, Null}]
      /\ \A k \in Keys : disk'[k] \in Kept(k) \cup {Null}
  BY DEF TypeOK, CacheInv
<1>4. TypeOK'
  BY <1>1, <1>2, <1>3 DEF TypeOK, windowVars
<1>5. \A v \in Workers : pc'[v] \in Working <=> pc[v] \in Working
  BY <1>1 DEF Working
<1>6. QueueInv'
  BY <1>5 DEF QueueInv
<1>7. CacheInv'
  BY <1>3 DEF CacheInv
<1>8. MadeInv'
  <2> SUFFICES ASSUME NEW v \in Workers
               PROVE  /\ pc'[v] = "store" => /\ made'[v][2] \in Keys
                                             /\ made'[v][1] \in Kept(made'[v][2])
                                             /\ made'[v][1] \in Answers(job[v])
                      /\ pc'[v] = "answer" => made'[v][1] \in Answers(job[v]) \cup {Null}
    BY DEF MadeInv
  <2>1. CASE v = w
    BY <1>1, <1>2, <2>1
  <2>2. CASE v # w
    BY <1>1, <1>2, <2>2 DEF MadeInv
  <2> QED BY <2>1, <2>2
<1>9. IdsInv'
  BY DEF IdsInv, windowVars
<1> QED BY <1>4, <1>6, <1>7, <1>8, <1>9

LEMMA MakingKeeps ==
    ASSUME IInv, NEW w \in Workers,
           WorkerLoad(w) \/ WorkerDecode(w) \/ WorkerFail(w) \/ WorkerDraw(w)
    PROVE  IInv'
<1>1. pc[w] = "make" /\ job[w] \in Keys
  BY DEF IInv, TypeOK, QueueInv, Working, WorkerLoad, WorkerDecode, WorkerFail, WorkerDraw
<1>2. CASE WorkerLoad(w)
  <2>1. /\ disk[job[w]] \in Kept(job[w]) /\ disk[job[w]] \in Answers(job[w])
        /\ disk[job[w]] \in Keys \cup {Blank, Null}
    BY <1>1, <1>2, KindsOfKeys DEF IInv, CacheInv, TypeOK, WorkerLoad
  <2>2. /\ Goto(w, "store") /\ Made(w, disk[job[w]], job[w]) /\ disk' = disk
        /\ UNCHANGED <<queue, waiters, cache, lru, job, windowVars, events>>
    BY <1>2 DEF WorkerLoad
  <2> QED BY <1>1, <2>1, <2>2, MakeKeeps
<1>3. CASE WorkerDecode(w)
  <2>1. PICK f \in Near[job[w]] : Saved(f, f) /\ Made(w, f, f)
    BY <1>3 DEF WorkerDecode
  <2>2. f \in Keys /\ f \in Kept(f) /\ f \in Answers(job[w])
    BY <1>3, <2>1, ThumbnailAssumption DEF WorkerDecode, Keys, Kept, Answers
  <2>3. /\ Goto(w, "store") /\ disk' \in {disk, [disk EXCEPT ![f] = f]}
        /\ UNCHANGED <<queue, waiters, cache, lru, job, windowVars, events>>
    BY <1>3, <2>1 DEF WorkerDecode, Saved
  <2> QED BY <1>1, <2>1, <2>2, <2>3, MakeKeeps
<1>4. CASE WorkerFail(w)
  <2>1. /\ Goto(w, "answer") /\ Made(w, Null, job[w]) /\ disk' = disk
        /\ UNCHANGED <<queue, waiters, cache, lru, job, windowVars, events>>
    BY <1>4 DEF WorkerFail
  <2> QED BY <1>1, <2>1, MakeKeeps
<1>5. CASE WorkerDraw(w)
  <2>1. PICK pic \in {Blank, job[w]} : Saved(job[w], pic) /\ Made(w, pic, job[w])
    BY <1>5 DEF WorkerDraw
  <2>2. pic \in Keys \cup {Blank} /\ pic \in Kept(job[w]) /\ pic \in Answers(job[w])
    BY <1>1, <1>5, <2>1, ThumbnailAssumption DEF WorkerDraw, Kept, Answers
  <2>3. /\ Goto(w, "store") /\ disk' \in {disk, [disk EXCEPT ![job[w]] = pic]}
        /\ UNCHANGED <<queue, waiters, cache, lru, job, windowVars, events>>
    BY <1>5, <2>1 DEF WorkerDraw, Saved
  <2> QED BY <1>1, <2>1, <2>2, <2>3, MakeKeeps
<1> QED BY <1>2, <1>3, <1>4, <1>5

\* The picture joins the cache and the oldest leaves it, from both structures.
LEMMA StoreKeeps ==
    ASSUME IInv, NEW w \in Workers, WorkerStore(w)
    PROVE  IInv'
<1> USE DEF IInv
<1> DEFINE pic == made[w][1]
           key == made[w][2]
           order == Touched(key)
           kept == IF Len(order) > CacheMax THEN Tail(order) ELSE order
           pictures == [k \in DOMAIN cache \cup {key} |-> IF k = key THEN pic ELSE cache[k]]
<1>1. /\ pc[w] = "store" /\ lru' = kept /\ cache' = Restrict(pictures, Range(kept))
      /\ pc' = [pc EXCEPT ![w] = "answer"]
      /\ UNCHANGED <<queue, waiters, disk, raw, job, made, windowVars, events>>
  BY DEF WorkerStore, Goto
<1>2. key \in Keys /\ pic \in Kept(key) /\ pic \in Answers(job[w])
  BY <1>1 DEF MadeInv
<1>3. /\ lru \in Seq(Keys) /\ Distinct(lru) /\ Len(lru) <= CacheMax
      /\ DOMAIN cache = Range(lru) /\ \A k \in DOMAIN cache : cache[k] \in Kept(k)
      /\ Len(lru) \in Nat /\ CacheMax \in Nat
  BY ThumbnailAssumption DEF TypeOK, CacheInv
<1> HIDE DEF pic, key
<1>4. /\ order \in Seq(Keys) /\ Distinct(order)
      /\ Range(order) = Range(lru) \cup {key}
      /\ Len(order) = IF key \in Range(lru) THEN Len(lru) ELSE Len(lru) + 1
  BY <1>2, <1>3, TouchedLists
<1>5. \A k \in Range(order) : k \in DOMAIN pictures /\ pictures[k] \in Kept(k)
  BY <1>2, <1>3, <1>4
<1> HIDE DEF order, pictures
<1>6. /\ kept \in Seq(Keys) /\ Distinct(kept) /\ Len(kept) <= CacheMax
      /\ Range(kept) \subseteq Range(order)
  <2>1. CASE Len(order) > CacheMax
    <3>1. order # <<>> /\ kept = Tail(order)
      BY <1>3, <2>1
    <3>2. /\ Tail(order) \in Seq(Keys) /\ Distinct(Tail(order))
          /\ Len(Tail(order)) = Len(order) - 1
          /\ Range(Tail(order)) = Range(order) \ {Head(order)}
      BY <1>4, <3>1, TailLists
    <3>3. Len(order) - 1 <= CacheMax
      BY <1>3, <1>4
    <3> HIDE DEF kept
    <3> QED BY <3>1, <3>2, <3>3
  <2>2. CASE ~(Len(order) > CacheMax)
    BY <1>3, <1>4, <2>2
  <2> QED BY <2>1, <2>2
<1> HIDE DEF kept
<1>7. CacheInv'
  <2>1. DOMAIN cache' = Range(kept) /\ \A k \in Range(kept) : cache'[k] = pictures[k]
    BY <1>1 DEF Restrict
  <2> QED BY <1>1, <1>5, <1>6, <2>1 DEF CacheInv
<1>8. /\ pc' \in [Workers -> {"eval", "blocking", "asleep", "exited"} \cup Working]
      /\ pc'[w] = "answer" /\ \A v \in Workers : v # w => pc'[v] = pc[v]
  BY <1>1 DEF TypeOK, Working
<1>9. TypeOK'
  BY <1>1, <1>6, <1>8 DEF TypeOK, windowVars
<1>10. \A v \in Workers : pc'[v] \in Working <=> pc[v] \in Working
  BY <1>1, <1>8 DEF Working
<1>11. QueueInv'
  BY <1>1, <1>10 DEF QueueInv
<1>12. MadeInv'
  BY <1>1, <1>8 DEF MadeInv
<1>13. IdsInv'
  BY <1>1 DEF IdsInv, windowVars
<1> QED BY <1>7, <1>9, <1>11, <1>12, <1>13

\* Everyone who waits for the key that was asked for is answered, and a later
\* request for it joins the queue again.
LEMMA AnswerKeeps ==
    ASSUME IInv, NEW w \in Workers, WorkerAnswer(w)
    PROVE  IInv'
<1> USE DEF IInv
<1>1. /\ pc[w] = "answer"
      /\ events' = events \cup {<<id, made[w][1]>> : id \in waiters[job[w]]}
      /\ waiters' = [waiters EXCEPT ![job[w]] = {}]
      /\ job' = [job EXCEPT ![w] = Null]
      /\ made' = [made EXCEPT ![w] = <<Null, Null>>]
      /\ pc' = [pc EXCEPT ![w] = "eval"]
      /\ UNCHANGED <<queue, cache, lru, disk, raw, windowVars>>
  BY DEF WorkerAnswer, Goto
<1>2. job[w] \in Keys /\ made[w][1] \in Answers(job[w]) \cup {Null}
  BY <1>1 DEF TypeOK, QueueInv, MadeInv, Working
<1>3. made[w][1] \in Keys \cup {Blank, Null}
  BY DEF TypeOK
<1>4. /\ job' \in [Workers -> Keys \cup {Null}]
      /\ job'[w] = Null /\ \A v \in Workers : v # w => job'[v] = job[v]
      /\ pc' \in [Workers -> {"eval", "blocking", "asleep", "exited"} \cup Working]
      /\ pc'[w] = "eval" /\ \A v \in Workers : v # w => pc'[v] = pc[v]
      /\ made' \in [Workers -> (Keys \cup {Blank, Null}) \X (Keys \cup {Null})]
      /\ \A v \in Workers : v # w => made'[v] = made[v]
      /\ waiters' \in [Keys -> SUBSET Nat]
      /\ waiters'[job[w]] = {} /\ \A k \in Keys : k # job[w] => waiters'[k] = waiters[k]
  BY <1>1, <1>2 DEF TypeOK, Working
<1>5. events' \in SUBSET (Nat \X (Keys \cup {Blank, Null}))
  BY <1>1, <1>2, <1>3 DEF TypeOK
<1>6. TypeOK'
  BY <1>1, <1>4, <1>5 DEF TypeOK, windowVars
<1>7. QueueInv'
  <2>1. \A v \in Workers : job'[v] # Null <=> pc'[v] \in Working
    BY <1>4 DEF QueueInv, Working
  <2>2. \A u, v \in Workers : job'[u] = job'[v] /\ job'[u] # Null => u = v
    BY <1>4 DEF QueueInv
  <2>3. \A v \in Workers : \A i \in DOMAIN queue' : queue'[i] # job'[v]
    <3>1. \A i \in DOMAIN queue : queue[i] # Null
      BY KindsOfKeys DEF TypeOK
    <3> QED BY <1>1, <1>4, <3>1 DEF QueueInv
  <2>4. \A k \in Keys :
           waiters'[k] # {} <=> (k \in Range(queue') \/ \E v \in Workers : job'[v] = k)
    <3> SUFFICES ASSUME NEW k \in Keys
                 PROVE  waiters'[k] # {} <=>
                           (k \in Range(queue) \/ \E v \in Workers : job'[v] = k)
      BY <1>1
    <3>1. waiters[k] # {} <=> (k \in Range(queue) \/ \E v \in Workers : job[v] = k)
      BY DEF QueueInv
    <3>2. CASE k = job[w]
      <4>1. k \notin Range(queue)
        BY <3>2 DEF QueueInv, Range
      <4>2. \A v \in Workers : job'[v] # k
        BY <1>2, <1>4, <3>2, KindsOfKeys DEF QueueInv
      <4> QED BY <1>4, <3>2, <4>1, <4>2
    <3>3. CASE k # job[w]
      <4>1. (\E v \in Workers : job[v] = k) <=> (\E v \in Workers : job'[v] = k)
        BY <1>4, <3>3, KindsOfKeys
      <4> QED BY <1>4, <3>1, <3>3, <4>1
    <3> QED BY <3>2, <3>3
  <2> QED BY <1>1, <2>1, <2>2, <2>3, <2>4 DEF QueueInv
<1>8. CacheInv'
  BY <1>1 DEF CacheInv
<1>9. MadeInv'
  BY <1>4 DEF MadeInv
<1>10. IdsInv'
  <2>1. \A k \in Keys : waiters'[k] \subseteq waiters[k]
    BY <1>2, <1>4
  <2>2. ASSUME NEW e \in events'
        PROVE  /\ e[1] < nextId
               /\ \A c \in Cells : shows[c].id = e[1] => e[2] \in Answers(shows[c].key) \cup {Null}
    <3>1. CASE e \in events
      BY <3>1 DEF IdsInv
    <3>2. CASE e \in {<<id, made[w][1]>> : id \in waiters[job[w]]}
      <4>1. PICK id \in waiters[job[w]] : e = <<id, made[w][1]>>
        BY <3>2
      <4>2. e[1] = id /\ e[2] = made[w][1]
        BY <4>1
      <4>3. id < nextId /\ \A c \in Cells : shows[c].id = id => shows[c].key = job[w]
        BY <1>2 DEF IdsInv
      <4> QED BY <1>2, <4>2, <4>3
    <3> QED BY <1>1, <2>2, <3>1, <3>2
  <2> QED BY <1>1, <2>1, <2>2 DEF IdsInv, windowVars
<1> QED BY <1>6, <1>7, <1>8, <1>9, <1>10

LEMMA ServiceStep == IInv /\ [Next]_vars => IInv'
<1> SUFFICES ASSUME IInv, [Next]_vars PROVE IInv'
  OBVIOUS
<1>0. TypeOK
  BY DEF IInv
<1>1. CASE \E c \in Cells, k \in Keys : Ask(c, k)
  BY <1>1, AskKeeps
<1>2. CASE \E e \in events : Deliver(e)
  BY <1>2, DeliverKeeps
<1>3. CASE SubmitNotify \/ DestroyNotify \/ JobStarted \/ JobFinished
  <2>1. pc' = Woken /\ UNCHANGED <<workVars, windowVars, events>>
    BY <1>3 DEF SubmitNotify, DestroyNotify, JobStarted, JobFinished
  <2> QED BY <1>0, <2>1, WokenTo, ControlKeeps
<1>4. CASE DestroyStop \/ UNCHANGED vars
  <2>1. pc' = pc /\ UNCHANGED <<workVars, windowVars, events>>
    BY <1>4 DEF DestroyStop, vars, workVars, windowVars
  <2> QED BY <1>0, <2>1, ControlKeeps DEF TypeOK
<1>5. ASSUME NEW w \in Workers, Worker(w) \/ SpuriousWake(w) PROVE IInv'
  <2>1. CASE WorkerExit(w) \/ WorkerBlock(w) \/ WorkerSleep(w) \/ SpuriousWake(w)
    <3>1. PICK at \in {"eval", "blocking", "asleep", "exited"} : Goto(w, at)
      BY <2>1 DEF WorkerExit, WorkerBlock, WorkerSleep, SpuriousWake
    <3>2. pc[w] \notin Working /\ UNCHANGED <<workVars, windowVars, events>>
      BY <2>1 DEF WorkerExit, WorkerBlock, WorkerSleep, SpuriousWake, Working
    <3> QED BY <1>0, <3>1, <3>2, GoneTo, ControlKeeps
  <2>2. CASE WorkerTake(w)
    BY <2>2, TakeKeeps
  <2>3. CASE WorkerLoad(w) \/ WorkerDecode(w) \/ WorkerFail(w) \/ WorkerDraw(w)
    BY <2>3, MakingKeeps
  <2>4. CASE WorkerStore(w)
    BY <2>4, StoreKeeps
  <2>5. CASE WorkerAnswer(w)
    BY <2>5, AnswerKeeps
  <2> QED BY <1>5, <2>1, <2>2, <2>3, <2>4, <2>5 DEF Worker
<1> QED BY <1>1, <1>2, <1>3, <1>4, <1>5 DEF Next

LEMMA ServiceSafe == Spec => []IInv
BY ServiceInit, ServiceStep, PTL DEF Spec
-----------------------------------------------------------------------------
\* The map and the list of the cache name the same keys, no more than fit, and
\* a frame in the cache or on disk is the one it is named for, though another
\* was decoded in its place (store_cached, worker_loop).
THEOREM CacheCorrect == Spec => []CachesTrue
<1>1. IInv => CachesTrue
  <2> SUFFICES ASSUME IInv PROVE CachesTrue
    OBVIOUS
  <2>1. \A k \in Frames : disk[k] \in {k, Null}
    BY DEF IInv, CacheInv, Kept, Keys
  <2>2. \A k \in DOMAIN cache \cap Frames : cache[k] = k
    BY DEF IInv, CacheInv, Kept
  <2> QED BY <2>1, <2>2 DEF IInv, CacheInv, CachesTrue
<1> QED BY <1>1, ServiceSafe, PTL

\* A key that someone waits for is queued or being made, once; one that no one
\* waits for is neither (submit and worker_loop).
THEOREM PendingCorrect == Spec => []PendingIsOnItsWay
<1>1. IInv => PendingIsOnItsWay
  <2> SUFFICES ASSUME IInv, NEW k \in Keys
               PROVE  Cardinality({i \in DOMAIN queue : queue[i] = k})
                        + Cardinality({w \in Workers : job[w] = k})
                      = IF waiters[k] = {} THEN 0 ELSE 1
    BY DEF PendingIsOnItsWay
  <2> DEFINE places == {i \in DOMAIN queue : queue[i] = k}
             makers == {w \in Workers : job[w] = k}
  <2>0. k # Null
    BY KindsOfKeys
  <2>1. CASE waiters[k] = {}
    <3>1. places = {} /\ makers = {}
      BY <2>1 DEF IInv, QueueInv, Range
    <3> QED BY <2>1, <3>1, FS_EmptySet
  <2>2. CASE waiters[k] # {} /\ k \in Range(queue)
    <3>1. PICK i \in DOMAIN queue : queue[i] = k
      BY <2>2 DEF Range
    <3>2. places = {i}
      BY <3>1 DEF IInv, QueueInv, Distinct
    <3>3. makers = {}
      BY <3>1 DEF IInv, QueueInv
    <3>4. Cardinality(places) = 1 /\ Cardinality(makers) = 0
      BY <3>2, <3>3, FS_EmptySet, FS_Singleton
    <3> HIDE DEF places, makers
    <3>5. Cardinality(places) + Cardinality(makers) = 1
      BY <3>4
    <3> QED BY <2>2, <3>5 DEF places, makers
  <2>3. CASE waiters[k] # {} /\ k \notin Range(queue)
    <3>1. PICK w \in Workers : job[w] = k
      BY <2>3 DEF IInv, QueueInv
    <3>2. places = {}
      BY <2>3 DEF Range
    <3>3. makers = {w}
      BY <2>0, <3>1 DEF IInv, QueueInv
    <3>4. Cardinality(places) = 0 /\ Cardinality(makers) = 1
      BY <3>2, <3>3, FS_EmptySet, FS_Singleton
    <3> HIDE DEF places, makers
    <3>5. Cardinality(places) + Cardinality(makers) = 1
      BY <3>4
    <3> QED BY <2>3, <3>5 DEF places, makers
  <2> QED BY <2>1, <2>2, <2>3
<1> QED BY <1>1, ServiceSafe, PTL

\* A cell of the filmstrip shows what it asked for last, or a frame within
\* three of it, whatever answers to earlier requests are still on their way
\* (on_thumbnail_ready).
THEOREM CellsCorrect == Spec => []CellsShowTheirFrame
<1>1. IInv => CellsShowTheirFrame
  BY DEF IInv, IdsInv, CellsShowTheirFrame, Answers
<1> QED BY <1>1, ServiceSafe, PTL
=============================================================================
