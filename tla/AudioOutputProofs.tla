-------------------------- MODULE AudioOutputProofs --------------------------
(***************************************************************************)
(* Safety of the sound for every length, lead, size of buffers and bound   *)
(* of commands (AudioOutput), also where a scrub ends while the worker is  *)
(* in the flush of a pause and both callers are in a call of the output.   *)
(*                                                                         *)
(*   Calls    what each caller has left of its call is a list the code     *)
(*            unfolds into;                                                *)
(*   Locks    who is where, from who holds mutex_;                         *)
(*   Device   the writer, the handle and what a caller counts on where it  *)
(*            is;                                                          *)
(*   Silenced what the device has when a flush is about to end;            *)
(*   Ordered  what waits, from the device back to the queue, is in order;  *)
(*   Marks    and was fed before the mark, but while a flush that is to    *)
(*            drop it is under way.                                        *)
(***************************************************************************)
EXTENDS AudioOutput, TLAPS

-----------------------------------------------------------------------------
(* What a caller has still to do *)

\* Steps that take the mutex or need none, that give it back, and those of
\* close() and flush().
Entries == {"rewind", "preroll", "openOutput", "hold", "play", "closeOutput", "feed",
            "grain", "scrubOpened", "reset"}
Releases == {"unlock", "inactive", "feedOn", "openDevice"}
Closing == {"close", "closePcm", "closed"}
Flushing == {"flush", "join", "joined", "clear", "drop", "dropping", "start"}

Steps(c) ==
    IF c = "worker" THEN Entries \cup Releases \cup Closing \cup Flushing
    ELSE {"closeOutput", "reset", "inactive"} \cup Closing \cup Flushing

\* What may come right after a step, and the steps something must come after.
After(x) ==
    CASE x = "join" -> {"joined"}
      [] x = "joined" -> {"clear", "closePcm"}
      [] x = "clear" -> {"drop"}
      [] x \in {"drop", "dropping"} -> {"start"}
      [] x \in {"flush", "start"} -> {"unlock", "close", "feedOn", "inactive"}
      [] x = "closePcm" -> {"closed"}
      [] x \in {"close", "closed"} -> {"inactive", "openDevice"}
      [] OTHER -> Entries \cup Releases \cup Closing \cup Flushing

Linking == {"join", "joined", "clear", "drop", "dropping", "closePcm"}

\* What is left once the mutex was given back: the destructor still closes.
Outside(c) == IF c = "window" /\ quit THEN Entries \cup {"close"} ELSE Entries

Shape(c) ==
    /\ todo[c] \in Seq(Steps(c))
    /\ \A i \in 1..Len(todo[c]) : i < Len(todo[c]) => todo[c][i + 1] \in After(todo[c][i])
    /\ todo[c] # <<>> => todo[c][Len(todo[c])] \notin Linking
    /\ \A i, j \in 1..Len(todo[c]) :
          i < j /\ todo[c][i] \in Releases \cup Entries => todo[c][j] \in Outside(c)

Now(c) == IF todo[c] = <<>> THEN "idle" ELSE Head(todo[c])
Left(c) == {todo[c][i] : i \in 1..Len(todo[c])}

\* These steps may take the place of x.
Fits(s, x) ==
    /\ \A i \in 1..Len(s) :
          i < Len(s) => s[i + 1] \in After(s[i]) /\ s[i] \notin Releases \cup Entries
    /\ s # <<>> =>
          /\ After(x) \subseteq After(s[Len(s)])
          /\ s[Len(s)] \in Linking => x \in Linking
          /\ s[Len(s)] \in Releases \cup Entries => x \in Releases \cup Entries

\* Steps that take the place of the first of a list: where each of the new
\* list comes from.
LEMMA Splice ==
    ASSUME NEW S, NEW t \in Seq(S), t # <<>>, NEW s \in Seq(S), NEW u, u = s \o Tail(t)
    PROVE  /\ u \in Seq(S) /\ Len(u) = Len(s) + (Len(t) - 1)
           /\ Len(s) \in Nat /\ Len(t) \in Nat /\ Len(t) >= 1
           /\ \A i \in 1..Len(s) : u[i] = s[i]
           /\ \A i \in 1..Len(u) : i > Len(s) =>
                 /\ i - Len(s) + 1 \in 1..Len(t)
                 /\ u[i] = t[i - Len(s) + 1]
<1>1. /\ Tail(t) \in Seq(S) /\ Len(Tail(t)) = Len(t) - 1 /\ Len(t) \in Nat /\ Len(t) >= 1
      /\ \A i \in 1..(Len(t) - 1) : Tail(t)[i] = t[i + 1]
  OBVIOUS
<1>2. PICK r \in Seq(S) : r = Tail(t)
  BY <1>1
<1>3. /\ u \in Seq(S) /\ Len(u) = Len(s) + Len(r)
      /\ \A i \in 1..Len(s) : u[i] = s[i]
      /\ \A i \in 1..Len(u) : i > Len(s) => u[i] = r[i - Len(s)]
  BY <1>2
<1>4. ASSUME NEW i \in 1..Len(u), i > Len(s)
      PROVE  i - Len(s) + 1 \in 1..Len(t) /\ u[i] = t[i - Len(s) + 1]
  <2>1. PICK m \in Nat : m = Len(s)
    OBVIOUS
  <2>2. PICK j \in Int : j = i - m
    BY <1>3
  <2>3. j \in 1..(Len(t) - 1) /\ u[i] = r[j]
    BY <1>1, <1>2, <1>3, <1>4, <2>1, <2>2
  <2>4. r[j] = t[j + 1]
    BY <1>1, <1>2, <2>3
  <2> QED BY SMTT(30), <1>1, <2>1, <2>2, <2>3, <2>4
<1> QED BY <1>1, <1>2, <1>3, <1>4

\* A step of a call that others take the place of.
LEMMA Goes ==
    ASSUME NEW c \in Callers, Shape(c), NEW x, Now(c) = x, x # "idle",
           todo = [d \in Callers |-> todo[d]],
           NEW s \in Seq(Steps(c)), Fits(s, x), Then(c, s), quit' = quit
    PROVE  /\ Shape(c)' /\ todo' = [d \in Callers |-> todo'[d]]
           /\ \A d \in Callers : d # c => todo'[d] = todo[d]
           /\ s # <<>> => Now(c)' = s[1]
           /\ s = <<>> => Now(c)' \in After(x) \/ (Now(c)' = "idle" /\ x \notin Linking)
           /\ s = <<>> /\ x \in Releases \cup Entries =>
                 Now(c)' = "idle" \/ Now(c)' \in Outside(c)
           /\ \A y \in Left(c)' : y \in {s[i] : i \in 1..Len(s)} \cup Left(c)
           /\ x \in Releases \cup Entries =>
                 \A y \in Left(c)' : y \in {s[i] : i \in 1..Len(s)} \cup Outside(c)
<1> DEFINE t == todo[c]
           u == s \o Tail(t)
<1>1. t # <<>> /\ x = t[1]
  BY DEF Now
<1>2. /\ todo' = [d \in Callers |-> todo'[d]] /\ todo'[c] = u
      /\ \A d \in Callers : d # c => todo'[d] = todo[d]
  BY DEF Then
<1>3. /\ t \in Seq(Steps(c))
      /\ \A i \in 1..Len(t) : i < Len(t) => t[i + 1] \in After(t[i])
      /\ t[Len(t)] \notin Linking
      /\ \A i, j \in 1..Len(t) : i < j /\ t[i] \in Releases \cup Entries => t[j] \in Outside(c)
  BY <1>1 DEF Shape
<1> HIDE DEF t
<1>4. /\ u \in Seq(Steps(c)) /\ Len(u) = Len(s) + (Len(t) - 1)
      /\ Len(s) \in Nat /\ Len(t) \in Nat /\ Len(t) >= 1
      /\ \A i \in 1..Len(s) : u[i] = s[i]
      /\ \A i \in 1..Len(u) : i > Len(s) =>
            i - Len(s) + 1 \in 1..Len(t) /\ u[i] = t[i - Len(s) + 1]
  BY <1>1, <1>3, Splice
<1> HIDE DEF u
<1>5. PICK m \in Nat : m = Len(s)
  BY <1>4
<1>6. PICK k \in Nat : k = Len(t) /\ k >= 1
  BY <1>4
<1>7. /\ Len(u) = m + (k - 1)
      /\ \A i \in 1..m : u[i] = s[i]
      /\ \A i \in 1..(m + (k - 1)) : i > m => i - m + 1 \in 1..k /\ u[i] = t[i - m + 1]
  BY <1>4, <1>5, <1>6
<1>8. /\ \A i \in 1..m :
            i < m => s[i + 1] \in After(s[i]) /\ s[i] \notin Releases \cup Entries
      /\ m > 0 => /\ After(x) \subseteq After(s[m])
                  /\ s[m] \in Linking => x \in Linking
                  /\ s[m] \in Releases \cup Entries => x \in Releases \cup Entries
  BY <1>5 DEF Fits
<1>9. ASSUME NEW i \in 1..Len(u), i < Len(u) PROVE u[i + 1] \in After(u[i])
  <2>1. CASE i < m
    <3>1. i \in 1..m /\ i + 1 \in 1..m
      BY <2>1, <1>9, <1>7
    <3> QED BY <1>7, <1>8, <2>1, <3>1
  <2>2. CASE i = m
    <3>1. m \in 1..m /\ m + 1 \in 1..(m + (k - 1)) /\ m + 1 - m + 1 = 2 /\ 1 < k
      BY <2>2, <1>9, <1>7
    <3>2. u[m] = s[m]
      BY <1>7, <3>1
    <3>3. PICK n \in Nat : n = m + 1
      OBVIOUS
    <3>4. n \in 1..(m + (k - 1)) /\ n > m /\ n - m + 1 = 2
      BY <3>1, <3>3
    <3>5. u[n] = t[2]
      BY <1>7, <3>4
    <3>6. t[2] \in After(t[1])
      <4>1. 1 \in 1..Len(t) /\ 1 < Len(t) /\ 1 + 1 = 2
        BY <1>6, <3>1
      <4>2. \A h \in 1..Len(t) : h < Len(t) => t[h + 1] \in After(t[h])
        BY <1>3
      <4> QED BY <4>1, <4>2
    <3>7. After(x) \subseteq After(s[m])
      BY <1>8, <3>1
    <3>8. x = t[1]
      BY <1>1
    <3> QED BY <2>2, <3>2, <3>3, <3>5, <3>6, <3>7, <3>8
  <2>3. CASE i > m
    <3>1. PICK j \in Nat : j = i - m + 1
      BY <2>3, <1>9
    <3>2. i + 1 \in 1..(m + (k - 1)) /\ i + 1 - m + 1 = j + 1 /\ j \in 1..k /\ j < k
      BY SMTT(30), <2>3, <1>9, <1>7, <3>1
    <3>3. u[i] = t[j] /\ u[i + 1] = t[j + 1]
      BY SMTT(30), <1>7, <1>9, <2>3, <3>1, <3>2
    <3> QED BY <1>3, <1>6, <3>2, <3>3
  <2> QED BY <1>9, <2>1, <2>2, <2>3
<1>10. u # <<>> => u[Len(u)] \notin Linking
  <2>1. CASE k > 1
    <3>1. m + (k - 1) \in 1..(m + (k - 1)) /\ m + (k - 1) > m /\ m + (k - 1) - m + 1 = k
      BY <2>1
    <3> QED BY <1>3, <1>6, <1>7, <3>1
  <2>2. CASE k = 1 /\ m > 0
    <3>1. x \notin Linking
      BY <1>1, <1>3, <1>6, <2>2 DEF t
    <3>2. u[Len(u)] = s[m]
      BY <1>7, <2>2
    <3> QED BY <1>8, <2>2, <3>1, <3>2
  <2>3. CASE k = 1 /\ m = 0
    BY <1>4, <1>7, <2>3
  <2>4. k > 1 \/ (k = 1 /\ m > 0) \/ (k = 1 /\ m = 0)
    BY <1>6
  <2> QED BY <2>1, <2>2, <2>3, <2>4
<1>11. ASSUME NEW i \in 1..Len(u), NEW j \in 1..Len(u), i < j, u[i] \in Releases \cup Entries
       PROVE  u[j] \in Outside(c)
  <2>1. CASE j <= m
    BY <1>7, <1>8, <1>11, <2>1
  <2>2. CASE j > m
    <3>1. PICK b \in Nat : b = j - m + 1
      BY SMTT(30), <2>2, <1>11
    <3>2. b \in 1..k /\ u[j] = t[b] /\ b > 1
      BY <1>7, <1>11, <2>2, <3>1
    <3>3. CASE i <= m
      <4>1. i = m /\ s[m] \in Releases \cup Entries
        BY <1>7, <1>8, <1>11, <3>3
      <4>2. t[1] \in Releases \cup Entries
        BY <1>1, <1>8, <1>11, <4>1 DEF t
      <4> QED BY SMTT(30), <1>3, <1>6, <3>2, <4>2
    <3>4. CASE i > m
      <4>1. PICK a \in Nat : a = i - m + 1
        BY SMTT(30), <3>4, <1>11
      <4>2. a \in 1..k /\ u[i] = t[a] /\ a < b
        BY SMTT(30), <1>7, <1>11, <3>1, <3>4, <4>1
      <4> QED BY <1>3, <1>6, <1>11, <3>2, <4>2
    <3> QED BY <1>11, <3>3, <3>4
  <2> QED BY <1>11, <2>1, <2>2
<1>12. Shape(c)'
  <2>1. Outside(c)' = Outside(c)
    BY DEF Outside
  <2> QED BY <1>2, <1>4, <1>9, <1>10, <1>11, <2>1 DEF Shape
<1>13. s # <<>> => Now(c)' = s[1]
  <2> SUFFICES ASSUME s # <<>> PROVE u # <<>> /\ Head(u) = s[1]
    BY <1>2 DEF Now
  <2>1. m >= 1
    BY <1>5
  <2>2. u[1] = s[1] /\ Len(u) >= 1
    BY SMTT(30), <1>6, <1>7, <2>1
  <2> QED BY <1>4, <2>2
<1>14. s = <<>> => \/ k > 1 /\ Now(c)' = t[2]
                   \/ k = 1 /\ Now(c)' = "idle"
  <2> SUFFICES ASSUME s = <<>> PROVE \/ k > 1 /\ u # <<>> /\ Head(u) = t[2]
                                     \/ k = 1 /\ u = <<>>
    BY <1>2 DEF Now
  <2>1. m = 0
    BY <1>5
  <2>2. CASE k > 1
    <3>1. u[1] = t[1 - 0 + 1]
      BY <1>7, <2>1, <2>2
    <3> QED BY <1>4, <1>7, <2>1, <2>2, <3>1
  <2>3. CASE k = 1
    BY <1>4, <1>7, <2>1, <2>3
  <2> QED BY <1>6, <2>2, <2>3
<1>15. k > 1 => t[2] \in After(x) /\ (x \in Releases \cup Entries => t[2] \in Outside(c))
  <2> SUFFICES ASSUME k > 1
               PROVE  t[2] \in After(x) /\ (x \in Releases \cup Entries => t[2] \in Outside(c))
    OBVIOUS
  <2>1. 1 \in 1..Len(t) /\ 2 \in 1..Len(t) /\ 1 < Len(t)
    BY <1>6
  <2> QED BY SMTT(30), <1>1, <1>3, <2>1 DEF t
<1>16. k = 1 => x \notin Linking
  BY <1>1, <1>3, <1>6 DEF t
<1>17. Left(c)' = {u[i] : i \in 1..Len(u)}
  BY <1>2 DEF Left
<1>18. ASSUME NEW y \in Left(c)'
       PROVE  \/ y \in {s[i] : i \in 1..Len(s)}
              \/ y \in Left(c) /\ (x \in Releases \cup Entries => y \in Outside(c))
  <2>1. PICK i \in 1..Len(u) : y = u[i]
    BY <1>17
  <2>2. CASE i <= m
    BY <1>5, <1>7, <2>1, <2>2
  <2>3. CASE i > m
    <3>1. PICK b \in Nat : b = i - m + 1
      BY <2>3, <2>1
    <3>2. b \in 1..k /\ u[i] = t[b] /\ b > 1
      BY <1>7, <2>1, <2>3, <3>1
    <3>3. t[b] \in Left(c)
      BY <1>6, <3>2 DEF Left, t
    <3>4. x \in Releases \cup Entries => t[b] \in Outside(c)
      <4>1. 1 \in 1..Len(t) /\ b \in 1..Len(t)
        BY <1>6, <3>2
      <4>2. x = t[1]
        BY <1>1
      <4> QED BY <1>3, <3>2, <4>1, <4>2
    <3> QED BY <2>1, <3>2, <3>3, <3>4
  <2> QED BY <2>1, <2>2, <2>3
<1> QED BY <1>2, <1>12, <1>13, <1>14, <1>15, <1>16, <1>18
-----------------------------------------------------------------------------
(* Who is where *)

Calls ==
    /\ todo = [c \in Callers |-> todo[c]]
    /\ \A c \in Callers : Shape(c)

Busy(c) == Now(c) \in Releases \cup Closing \cup Flushing

\* Who is where: what each caller has left and who holds the mutex.
Locks ==
    /\ \A y \in Left("worker") : y \in Releases \cup Closing => mutex = "worker"
    /\ \A y \in Left("window") :
          y \in Releases \cup Closing \cup Flushing => mutex = "window" \/ quit
    /\ quit => Now("worker") = "idle"

\* How a step x with the steps s in its place treats the mutex.
Keeps(c, x, s) ==
    \/ /\ x \notin Releases \cup Entries
       /\ mutex' = mutex
       /\ \A i \in 1..Len(s) : s[i] \in Flushing \/ (x \in Closing /\ s[i] \in Closing)
    \/ x \in Entries /\ s = <<>> /\ mutex' = mutex
    \/ x \in Entries /\ Free(c) /\ mutex' = c
    \/ x \in Entries /\ Free(c) /\ s = <<>> /\ mutex' = "none"
    \/ x \in Releases /\ s = <<>> /\ mutex' = "none"

\* The step a caller is at is one of those it has left.
LEMMA NowAndLeft ==
    ASSUME Calls, NEW c \in Callers
    PROVE  /\ Now(c) \in Steps(c) \cup {"idle"}
           /\ Now(c) = "idle" <=> todo[c] = <<>>
           /\ Now(c) # "idle" => Now(c) \in Left(c)
           /\ Now(c) = "idle" => Left(c) = {}
<1>1. todo[c] \in Seq(Steps(c))
  BY DEF Calls, Shape
<1>2. "idle" \notin Steps(c)
  BY DEF Steps, Entries, Releases, Closing, Flushing
<1>3. CASE todo[c] = <<>>
  BY <1>3 DEF Now, Left
<1>4. CASE todo[c] # <<>>
  <2>1. /\ Len(todo[c]) \in Nat /\ Len(todo[c]) >= 1
        /\ Head(todo[c]) = todo[c][1] /\ todo[c][1] \in Steps(c)
    BY <1>1, <1>4
  <2>2. 1 \in 1..Len(todo[c])
    BY <2>1
  <2> QED BY <1>2, <1>4, <2>1, <2>2 DEF Now, Left
<1> QED BY <1>3, <1>4

\* The same, with what it does to who holds the mutex.
LEMMA Passes ==
    ASSUME Calls, Locks, NEW c \in Callers, NEW x, Now(c) = x, x # "idle",
           NEW s \in Seq(Steps(c)), Fits(s, x), Then(c, s), quit' = quit, Keeps(c, x, s)
    PROVE  /\ Calls' /\ Locks'
           /\ \A d \in Callers : d # c => Now(d)' = Now(d) /\ Left(d)' = Left(d)
           /\ s # <<>> => Now(c)' = s[1]
           /\ s = <<>> => Now(c)' \in After(x) \/ (Now(c)' = "idle" /\ x \notin Linking)
           /\ s = <<>> /\ x \in Releases \cup Entries =>
                 Now(c)' = "idle" \/ Now(c)' \in Outside(c)
           /\ \A y \in Left(c)' : y \in {s[i] : i \in 1..Len(s)} \cup Left(c)
           /\ x \in Releases \cup Entries =>
                 \A y \in Left(c)' : y \in {s[i] : i \in 1..Len(s)} \cup Outside(c)
<1>1. /\ Shape(c)' /\ todo' = [d \in Callers |-> todo'[d]]
      /\ \A d \in Callers : d # c => todo'[d] = todo[d]
      /\ s # <<>> => Now(c)' = s[1]
      /\ s = <<>> => Now(c)' \in After(x) \/ (Now(c)' = "idle" /\ x \notin Linking)
      /\ s = <<>> /\ x \in Releases \cup Entries =>
            Now(c)' = "idle" \/ Now(c)' \in Outside(c)
      /\ \A y \in Left(c)' : y \in {s[i] : i \in 1..Len(s)} \cup Left(c)
      /\ x \in Releases \cup Entries =>
            \A y \in Left(c)' : y \in {s[i] : i \in 1..Len(s)} \cup Outside(c)
  <2>1. Shape(c) /\ todo = [d \in Callers |-> todo[d]]
    BY DEF Calls
  <2> QED BY <2>1, Goes
<1>2. \A d \in Callers : d # c => Now(d)' = Now(d) /\ Left(d)' = Left(d)
  BY <1>1 DEF Now, Left
<1>3. Calls'
  <2>1. ASSUME NEW d \in Callers, d # c PROVE Shape(d)'
    BY <1>1, <2>1 DEF Calls, Shape, Outside
  <2> QED BY <1>1, <2>1 DEF Calls
<1>4. x \in Left(c)
  BY NowAndLeft
<1>5. Now(c)' # "idle" => Now(c)' \in Left(c)'
  <2>1. todo'[c] \in Seq(Steps(c))
    BY <1>1 DEF Shape, Steps, Entries, Releases, Closing, Flushing
  <2>2. PICK t : t = todo'[c]
    OBVIOUS
  <2>3. t # <<>> => 1 \in 1..Len(t) /\ Head(t) = t[1]
    BY <2>1, <2>2
  <2>4. t # <<>> => Head(t) \in {t[i] : i \in 1..Len(t)}
    BY <2>3
  <2> QED BY <2>2, <2>4 DEF Now, Left
<1>6. /\ Outside("worker") = Entries
      /\ Outside("window") = IF quit THEN Entries \cup {"close"} ELSE Entries
  BY DEF Outside
<1>7. /\ Entries \cap Releases = {} /\ Entries \cap Flushing = {} /\ Entries \cap Closing = {}
      /\ Releases \cap Flushing = {} /\ Releases \cap Closing = {} /\ Closing \cap Flushing = {}
      /\ "close" \in Closing /\ "idle" \notin Flushing
  BY DEF Entries, Releases, Flushing, Closing
<1>8. x \in Entries \cup Releases \cup Closing \cup Flushing
  BY NowAndLeft DEF Steps, Closing, Flushing, Entries, Releases
<1>9. s = <<>> => {s[i] : i \in 1..Len(s)} = {}
  OBVIOUS
<1>10. Locks'
  <2>1. CASE /\ x \notin Releases \cup Entries
             /\ mutex' = mutex
             /\ \A i \in 1..Len(s) : s[i] \in Flushing \/ (x \in Closing /\ s[i] \in Closing)
    <3>1. \A y \in Left(c)' : \/ y \in Left(c)
                              \/ y \in Flushing
                              \/ x \in Closing /\ y \in Closing
      BY <1>1, <2>1
    <3>2. CASE c = "worker"
      <4>1. Now("window")' = Now("window") /\ Left("window")' = Left("window")
        BY <1>2, <3>2 DEF Callers
      <4>2. ~quit
        BY <3>2 DEF Locks
      <4>3. x \in Flushing \/ mutex = "worker"
        BY <1>4, <1>8, <2>1, <3>2 DEF Locks
      <4> QED BY <1>4, <1>7, <2>1, <3>1, <3>2, <4>1, <4>2, <4>3 DEF Locks
    <3>3. CASE c = "window"
      <4>1. Now("worker")' = Now("worker") /\ Left("worker")' = Left("worker")
        BY <1>2, <3>3 DEF Callers
      <4>2. mutex = "window" \/ quit
        BY <1>4, <1>8, <2>1, <3>3 DEF Locks
      <4> QED BY <1>7, <2>1, <3>3, <4>1, <4>2 DEF Locks
    <3> QED BY <3>2, <3>3 DEF Callers
  <2>2. CASE x \in Entries \cup Releases /\ s = <<>> /\ mutex' \in {mutex, "none"}
             /\ (mutex' = mutex \/ Free(c) \/ x \in Releases)
    <3>1. \A y \in Left(c)' : y \in Outside(c)
      BY <1>1, <1>9, <2>2
    <3>2. CASE c = "worker"
      <4>1. Now("window")' = Now("window") /\ Left("window")' = Left("window")
        BY <1>2, <3>2 DEF Callers
      <4>2. ~quit
        BY <3>2 DEF Locks
      <4>3. \A y \in Left("worker")' : y \in Entries
        BY <1>6, <3>1, <3>2
      <4>4. mutex' = mutex \/ mutex = "worker" \/ mutex = "none"
        BY <1>4, <2>2, <3>2 DEF Locks, Free
      <4> QED BY <1>7, <3>2, <4>1, <4>2, <4>3, <4>4 DEF Locks
    <3>3. CASE c = "window"
      <4>1. Now("worker")' = Now("worker") /\ Left("worker")' = Left("worker")
        BY <1>2, <3>3 DEF Callers
      <4>2. \A y \in Left("window")' : y \in Entries \/ quit
        BY <1>6, <3>1, <3>3
      <4>3. mutex' = mutex \/ mutex = "window" \/ mutex = "none" \/ quit
        BY <1>4, <2>2, <3>3 DEF Locks, Free
      <4>4. quit => Now("worker") = "idle" /\ Left("worker") = {}
        BY NowAndLeft DEF Locks, Callers
      <4> QED BY <1>7, <2>2, <4>1, <4>2, <4>3, <4>4 DEF Locks
    <3> QED BY <3>2, <3>3 DEF Callers
  <2>3. CASE x \in Entries /\ Free(c) /\ mutex' = c
    <3>1. CASE c = "worker"
      <4>1. Now("window")' = Now("window") /\ Left("window")' = Left("window")
        BY <1>2, <3>1 DEF Callers
      <4>2. ~quit
        BY <3>1 DEF Locks
      <4> QED BY <2>3, <3>1, <4>1, <4>2 DEF Locks, Free
    <3>2. CASE c = "window"
      <4>1. Now("worker")' = Now("worker") /\ Left("worker")' = Left("worker")
        BY <1>2, <3>2 DEF Callers
      <4> QED BY <2>3, <3>2, <4>1 DEF Locks, Free
    <3> QED BY <3>1, <3>2 DEF Callers
  <2> QED BY <2>1, <2>2, <2>3 DEF Keeps
<1> QED BY <1>1, <1>2, <1>3, <1>10
-----------------------------------------------------------------------------
(* Where each step of a call leads *)

\* The lists of steps that the calls of the code unfold into.
LEMMA ListsFit ==
    ASSUME NEW x
    PROVE  /\ Fits(<<>>, x)
           /\ Fits(<<"dropping">>, "drop")
           /\ Fits(<<"clear", "drop", "start">>, "flush")
           /\ Fits(<<"join", "joined", "clear", "drop", "start">>, "flush")
           /\ Fits(<<"closePcm", "closed">>, "close")
           /\ Fits(<<"join", "joined", "closePcm", "closed">>, "close")
           /\ x \in Entries =>
                 /\ Fits(<<"flush", "close", "inactive">>, x)
                 /\ Fits(<<"close", "openDevice">>, x)
                 /\ Fits(<<"flush", "unlock">>, x)
                 /\ Fits(<<"flush", "feedOn">>, x)
                 /\ Fits(<<"flush", "inactive">>, x)
<1>1. Fits(<<>>, x)
  BY DEF Fits
<1>2. Fits(<<"dropping">>, "drop")
  BY DEF Fits, After, Linking, Releases, Entries
<1>3. Fits(<<"clear", "drop", "start">>, "flush")
  BY DEF Fits, After, Linking, Releases, Entries
<1>4. Fits(<<"join", "joined", "clear", "drop", "start">>, "flush")
  BY DEF Fits, After, Linking, Releases, Entries
<1>5. Fits(<<"closePcm", "closed">>, "close")
  BY DEF Fits, After, Linking, Releases, Entries
<1>6. Fits(<<"join", "joined", "closePcm", "closed">>, "close")
  BY DEF Fits, After, Linking, Releases, Entries
<1>7. ASSUME x \in Entries
      PROVE  /\ Fits(<<"flush", "close", "inactive">>, x)
             /\ Fits(<<"close", "openDevice">>, x)
             /\ Fits(<<"flush", "unlock">>, x)
             /\ Fits(<<"flush", "feedOn">>, x)
             /\ Fits(<<"flush", "inactive">>, x)
  <2>1. After(x) = Entries \cup Releases \cup Closing \cup Flushing
    BY <1>7 DEF After, Entries
  <2>2. /\ After("inactive") = After(x) /\ After("openDevice") = After(x)
        /\ After("unlock") = After(x) /\ After("feedOn") = After(x)
    BY <2>1 DEF After
  <2>3. Fits(<<"flush", "close", "inactive">>, x)
    BY <1>7, <2>2 DEF Fits, After, Linking, Releases, Entries
  <2>4. Fits(<<"close", "openDevice">>, x)
    BY <1>7, <2>2 DEF Fits, After, Linking, Releases, Entries
  <2>5. Fits(<<"flush", "unlock">>, x)
    BY <1>7, <2>2 DEF Fits, After, Linking, Releases, Entries
  <2>6. Fits(<<"flush", "feedOn">>, x)
    BY <1>7, <2>2 DEF Fits, After, Linking, Releases, Entries
  <2>7. Fits(<<"flush", "inactive">>, x)
    BY <1>7, <2>2 DEF Fits, After, Linking, Releases, Entries
  <2> QED BY <2>3, <2>4, <2>5, <2>6, <2>7
<1> QED BY <1>1, <1>2, <1>3, <1>4, <1>5, <1>6, <1>7

\* Where the step of a call leads: y comes after x.
Turn(c, x, y) ==
    /\ x = "flush" =>
          y \in (IF ~open THEN {"unlock", "close", "feedOn", "inactive", "idle"}
                 ELSE IF writer = "none" THEN {"clear"} ELSE {"join"})
    /\ x = "join" => y = "joined"
    /\ x = "joined" => y \in {"clear", "closePcm"}
    /\ x = "clear" => y = "drop"
    /\ x = "drop" => y = (IF open /\ pcm THEN "dropping" ELSE "start")
    /\ x = "dropping" => y = "start"
    /\ x = "start" => y \in {"unlock", "close", "feedOn", "inactive", "idle"}
    /\ x = "close" => y = (IF writer = "none" THEN "closePcm" ELSE "join")
    /\ x = "closePcm" => y = "closed"
    /\ x = "closed" => y \in {"inactive", "openDevice", "idle"}
    /\ x \in Releases => y \in Entries \cup {"idle", "close"}
    /\ x \in Entries =>
          \/ y \in Entries \cup {"idle", "close"}
          \/ y = "flush" /\ active /\ mutex' = c

\* One step of a caller leaves the others where they are.
Turned(c) ==
    /\ Calls' /\ Locks'
    /\ \A d \in Callers : d # c => Now(d)' = Now(d) /\ Left(d)' = Left(d)
    /\ Turn(c, Now(c), Now(c)')
    /\ "feedOn" \in Left(c)' => Now(c) \notin Releases /\ (active \/ "feedOn" \in Left(c))

\* The four kinds of steps, none in two of them.
LEMMA Kinds ==
    /\ Entries \cap Releases = {} /\ Entries \cap Flushing = {} /\ Entries \cap Closing = {}
    /\ Releases \cap Flushing = {} /\ Releases \cap Closing = {} /\ Closing \cap Flushing = {}
    /\ "idle" \notin Entries \cup Releases \cup Closing \cup Flushing
    /\ {"flush", "join", "joined", "clear", "drop", "dropping", "start"} = Flushing
    /\ {"close", "closePcm", "closed"} = Closing
    /\ {"unlock", "inactive", "feedOn", "openDevice"} = Releases
BY DEF Entries, Releases, Flushing, Closing

\* A step that nothing takes the place of.
LEMMA Plain ==
    ASSUME Calls, Locks, NEW c \in Callers, NEW x, Now(c) = x, x # "idle",
           Then(c, <<>>), quit' = quit,
           \/ x \in Flushing \cup Closing /\ mutex' = mutex
           \/ x \in Entries /\ mutex' = mutex
           \/ x \in Entries /\ Free(c) /\ mutex' = "none"
           \/ x \in Releases /\ mutex' = "none",
           x # "close", x = "flush" => ~open, x = "drop" => ~(open /\ pcm)
    PROVE  Turned(c)
<1>1. <<>> \in Seq(Steps(c))
  OBVIOUS
<1>2. PICK s \in Seq(Steps(c)) : s = <<>>
  BY <1>1
<1>3. Fits(s, x) /\ Then(c, s)
  BY <1>2, ListsFit
<1>4. Keeps(c, x, s)
  BY <1>2, Kinds DEF Keeps
<1>5. /\ Calls' /\ Locks'
      /\ \A d \in Callers : d # c => Now(d)' = Now(d) /\ Left(d)' = Left(d)
      /\ s = <<>> => Now(c)' \in After(x) \/ (Now(c)' = "idle" /\ x \notin Linking)
      /\ s = <<>> /\ x \in Releases \cup Entries =>
            Now(c)' = "idle" \/ Now(c)' \in Outside(c)
      /\ \A y \in Left(c)' : y \in {s[i] : i \in 1..Len(s)} \cup Left(c)
      /\ x \in Releases \cup Entries =>
            \A y \in Left(c)' : y \in {s[i] : i \in 1..Len(s)} \cup Outside(c)
  BY <1>3, <1>4, Passes
<1>6. /\ Calls' /\ Locks'
      /\ \A d \in Callers : d # c => Now(d)' = Now(d) /\ Left(d)' = Left(d)
      /\ Now(c)' \in After(x) \/ (Now(c)' = "idle" /\ x \notin Linking)
      /\ x \in Releases \cup Entries => Now(c)' = "idle" \/ Now(c)' \in Outside(c)
      /\ \A y \in Left(c)' : y \in {s[i] : i \in 1..Len(s)} \cup Left(c)
      /\ x \in Releases \cup Entries =>
            \A y \in Left(c)' : y \in {s[i] : i \in 1..Len(s)} \cup Outside(c)
  BY <1>2, <1>5
<1>7. {s[i] : i \in 1..Len(s)} = {}
  BY <1>2
<1>8. \A y \in Outside(c) : y \in Entries \cup {"close"} /\ y # "feedOn"
  BY DEF Outside, Entries
<1>9. Turn(c, x, Now(c)')
  BY <1>6, <1>8, Kinds DEF Turn, After, Linking
<1>10. "feedOn" \in Left(c)' => "feedOn" \in Left(c) /\ x \notin Releases
  BY <1>6, <1>7, <1>8
<1> QED BY <1>6, <1>9, <1>10 DEF Turned

\* A step that others take the place of.
LEMMA Led ==
    ASSUME Calls, Locks, NEW c \in Callers, NEW x, Now(c) = x, x # "idle",
           NEW s \in Seq(Steps(c)), s # <<>>, Fits(s, x), Then(c, s), quit' = quit,
           \/ /\ x \in Flushing /\ mutex' = mutex
              /\ \A i \in 1..Len(s) : s[i] \in Flushing
           \/ /\ x \in Closing /\ mutex' = mutex
              /\ \A i \in 1..Len(s) : s[i] \in Flushing \cup Closing
           \/ x \in Entries /\ Free(c) /\ mutex' = c,
           \A i \in 1..Len(s) : s[i] = "feedOn" => active,
           Turn(c, x, s[1])
    PROVE  Turned(c)
<1>1. Keeps(c, x, s)
  BY Kinds DEF Keeps
<1>2. /\ Calls' /\ Locks'
      /\ \A d \in Callers : d # c => Now(d)' = Now(d) /\ Left(d)' = Left(d)
      /\ Now(c)' = s[1]
      /\ \A y \in Left(c)' : y \in {s[i] : i \in 1..Len(s)} \cup Left(c)
      /\ x \in Releases \cup Entries =>
            \A y \in Left(c)' : y \in {s[i] : i \in 1..Len(s)} \cup Outside(c)
  BY <1>1, Passes
<1>3. "feedOn" \in Left(c)' => x \notin Releases /\ (active \/ "feedOn" \in Left(c))
  BY <1>2, Kinds
<1> QED BY <1>2, <1>3 DEF Turned

\* At, without the crash.
LEMMA AtNow ==
    ASSUME NEW c \in Callers, NEW x, At(c, x)
    PROVE  Now(c) = x
BY DEF At, Now

\* A caller takes the step it is at, and no other.
LEMMA StepAt ==
    ASSUME NEW c \in Callers, Step(c)
    PROVE  Now(c) # "idle" /\ (Now(c) = "dropping" => Dropping(c))
BY AtNow DEF Step, Flush, Join, Joined, Clear, Drop, Start, Close, ClosePcm, Closed, OpenDevice,
             Hold, CloseOutput, Inactive, OpenOutput, Rewind, Unlock, Preroll, PlayStep, FeedOn,
             ScrubGrain, Reset, ScrubOpened, NowPlaying, Dropping

\* Both callers flush and close; only the worker opens, rewinds and feeds.
LEMMA Anywhere ==
    ASSUME NEW c \in Callers
    PROVE  /\ Flushing \cup Closing \cup {"inactive"} \subseteq Steps(c)
           /\ \A x \in {"openOutput", "rewind", "feed"} :
                 x \in Steps(c) => Releases \subseteq Steps(c)
BY DEF Steps, Flushing, Closing, Releases, Entries

\* flush() (audio_output.cpp): what it unfolds into, with a writer and without.
LEMMA FlushTurns ==
    ASSUME Calls, Locks, NEW c \in Callers, Flush(c)
    PROVE  Turned(c)
<1>1. Now(c) = "flush" /\ "flush" \in Flushing /\ mutex' = mutex /\ quit' = quit
  BY AtNow DEF Flush, Flushing, pipeVars, bounds
<1>2. CASE ~open /\ Then(c, <<>>)
  BY <1>1, <1>2, Plain
<1>3. CASE open /\ StopThread(c, <<"clear", "drop", "start">>)
  <2>1. CASE writer = "none" /\ Then(c, <<"clear", "drop", "start">>)
    <3>1. PICK s : s = <<"clear", "drop", "start">>
      OBVIOUS
    <3>2. s \in Seq(Steps(c)) /\ s # <<>>
      BY <3>1, Anywhere DEF Flushing
    <3>3. Fits(s, "flush") /\ Then(c, s)
      BY <2>1, <3>1, ListsFit
    <3>4. \A i \in 1..Len(s) : s[i] \in Flushing /\ s[i] # "feedOn"
      BY <3>1 DEF Flushing
    <3>5. Turn(c, "flush", s[1])
      BY <1>3, <2>1, <3>1 DEF Turn, Releases, Entries
    <3> QED BY <1>1, <3>2, <3>3, <3>4, <3>5, Led
  <2>2. CASE writer # "none" /\ Then(c, <<"join", "joined">> \o <<"clear", "drop", "start">>)
    <3>1. PICK s : s = <<"join", "joined", "clear", "drop", "start">>
      OBVIOUS
    <3>2. s = <<"join", "joined">> \o <<"clear", "drop", "start">>
      BY <3>1
    <3>3. s \in Seq(Steps(c)) /\ s # <<>>
      BY <3>1, Anywhere DEF Flushing
    <3>4. Fits(s, "flush") /\ Then(c, s)
      BY <2>2, <3>1, <3>2, ListsFit
    <3>5. \A i \in 1..Len(s) : s[i] \in Flushing /\ s[i] # "feedOn"
      BY <3>1 DEF Flushing
    <3>6. Turn(c, "flush", s[1])
      BY <1>3, <2>2, <3>1 DEF Turn, Releases, Entries
    <3> QED BY <1>1, <3>3, <3>4, <3>5, <3>6, Led
  <2> QED BY <1>3, <2>1, <2>2 DEF StopThread
<1> QED BY <1>2, <1>3 DEF Flush

\* close() (audio_output.cpp), in the same way.
LEMMA CloseTurns ==
    ASSUME Calls, Locks, NEW c \in Callers, Close(c)
    PROVE  Turned(c)
<1>1. Now(c) = "close" /\ "close" \in Closing /\ mutex' = mutex /\ quit' = quit
  BY AtNow DEF Close, Closing, pipeVars, bounds
<1>2. CASE writer = "none" /\ Then(c, <<"closePcm", "closed">>)
  <2>1. PICK s : s = <<"closePcm", "closed">>
    OBVIOUS
  <2>2. s \in Seq(Steps(c)) /\ s # <<>>
    BY <2>1, Anywhere DEF Closing
  <2>3. Fits(s, "close") /\ Then(c, s)
    BY <1>2, <2>1, ListsFit
  <2>4. \A i \in 1..Len(s) : s[i] \in Flushing \cup Closing /\ s[i] # "feedOn"
    BY <2>1 DEF Flushing, Closing
  <2>5. Turn(c, "close", s[1])
    BY <1>2, <2>1 DEF Turn, Releases, Entries
  <2> QED BY <1>1, <2>2, <2>3, <2>4, <2>5, Led
<1>3. CASE writer # "none" /\ Then(c, <<"join", "joined">> \o <<"closePcm", "closed">>)
  <2>1. PICK s : s = <<"join", "joined", "closePcm", "closed">>
    OBVIOUS
  <2>2. s = <<"join", "joined">> \o <<"closePcm", "closed">>
    BY <2>1
  <2>3. s \in Seq(Steps(c)) /\ s # <<>>
    BY <2>1, Anywhere DEF Closing, Flushing
  <2>4. Fits(s, "close") /\ Then(c, s)
    BY <1>3, <2>1, <2>2, ListsFit
  <2>5. \A i \in 1..Len(s) : s[i] \in Flushing \cup Closing /\ s[i] # "feedOn"
    BY <2>1 DEF Flushing, Closing
  <2>6. Turn(c, "close", s[1])
    BY <1>3, <2>1 DEF Turn, Releases, Entries
  <2> QED BY <1>1, <2>3, <2>4, <2>5, <2>6, Led
<1> QED BY <1>2, <1>3 DEF Close, StopThread

\* snd_pcm_drop of the handle, or none where there is no device.
LEMMA DropTurns ==
    ASSUME Calls, Locks, NEW c \in Callers, Drop(c)
    PROVE  Turned(c)
<1>1. Now(c) = "drop" /\ "drop" \in Flushing /\ mutex' = mutex /\ quit' = quit
  BY AtNow DEF Drop, Flushing, pipeVars, bounds
<1>2. CASE ~(open /\ pcm)
  <2>1. Then(c, <<>>)
    BY <1>2 DEF Drop
  <2> QED BY <1>1, <1>2, <2>1, Plain
<1>3. CASE open /\ pcm
  <2>1. PICK s : s = <<"dropping">>
    OBVIOUS
  <2>2. s \in Seq(Steps(c)) /\ s # <<>>
    BY <2>1, Anywhere DEF Flushing
  <2>3. Fits(s, "drop") /\ Then(c, s)
    BY <1>3, <2>1, ListsFit DEF Drop
  <2>4. \A i \in 1..Len(s) : s[i] \in Flushing /\ s[i] # "feedOn"
    BY <2>1 DEF Flushing
  <2>5. Turn(c, "drop", s[1])
    BY <1>3, <2>1 DEF Turn, Releases, Entries
  <2> QED BY <1>1, <2>2, <2>3, <2>4, <2>5, Led
<1> QED BY <1>2, <1>3

\* A call that takes the mutex.
LEMMA TakeTurns ==
    ASSUME Calls, Locks, NEW c \in Callers, NEW x \in Entries, At(c, x), Free(c), mutex' = c,
           quit' = quit,
           \/ active /\ Then(c, <<"flush", "close", "inactive">>)
           \/ x = "openOutput" /\ Then(c, <<"close", "openDevice">>)
           \/ x = "rewind" /\ active /\ Then(c, <<"flush", "unlock">>)
           \/ x = "feed" /\ active /\ Then(c, <<"flush", "feedOn">>)
           \/ active /\ Then(c, <<"flush", "inactive">>)
    PROVE  Turned(c)
<1>1. Now(c) = x /\ x # "idle" /\ x \notin Flushing \cup Releases
  BY AtNow, Kinds
<1>2. x \in Steps(c)
  BY <1>1, NowAndLeft
<1>3. PICK s : /\ s \in {<<"flush", "close", "inactive">>, <<"close", "openDevice">>,
                         <<"flush", "unlock">>, <<"flush", "feedOn">>, <<"flush", "inactive">>}
               /\ Then(c, s)
               /\ s # <<"close", "openDevice">> => active
               /\ s = <<"close", "openDevice">> => x = "openOutput"
               /\ s = <<"flush", "unlock">> => x = "rewind"
               /\ s = <<"flush", "feedOn">> => x = "feed"
  <2>1. /\ <<"flush", "close", "inactive">> # <<"close", "openDevice">>
        /\ <<"flush", "close", "inactive">> # <<"flush", "unlock">>
        /\ <<"flush", "close", "inactive">> # <<"flush", "feedOn">>
        /\ <<"close", "openDevice">> # <<"flush", "unlock">>
        /\ <<"close", "openDevice">> # <<"flush", "feedOn">>
        /\ <<"close", "openDevice">> # <<"flush", "inactive">>
        /\ <<"flush", "unlock">> # <<"flush", "feedOn">>
        /\ <<"flush", "unlock">> # <<"flush", "inactive">>
        /\ <<"flush", "feedOn">> # <<"flush", "inactive">>
    OBVIOUS
  <2>2. CASE active /\ Then(c, <<"flush", "close", "inactive">>)
    BY <2>1, <2>2
  <2>3. CASE x = "openOutput" /\ Then(c, <<"close", "openDevice">>)
    BY <2>1, <2>3
  <2>4. CASE x = "rewind" /\ active /\ Then(c, <<"flush", "unlock">>)
    BY <2>1, <2>4
  <2>5. CASE x = "feed" /\ active /\ Then(c, <<"flush", "feedOn">>)
    BY <2>1, <2>5
  <2>6. CASE active /\ Then(c, <<"flush", "inactive">>)
    BY <2>1, <2>6
  <2> QED BY <2>2, <2>3, <2>4, <2>5, <2>6
<1>4. s \in Seq(Steps(c)) /\ s # <<>>
  <2>1. {"flush", "close", "inactive"} \subseteq Steps(c)
    BY Anywhere DEF Flushing, Closing
  <2>2. /\ <<"flush", "close", "inactive">> \in Seq(Steps(c))
        /\ <<"flush", "inactive">> \in Seq(Steps(c))
    BY <2>1
  <2>3. x \in {"openOutput", "rewind", "feed"} =>
           {"unlock", "feedOn", "openDevice"} \subseteq Steps(c)
    BY <1>2, Anywhere DEF Releases
  <2>4. x \in {"openOutput", "rewind", "feed"} =>
           /\ <<"close", "openDevice">> \in Seq(Steps(c))
           /\ <<"flush", "unlock">> \in Seq(Steps(c)) /\ <<"flush", "feedOn">> \in Seq(Steps(c))
    BY <2>1, <2>3
  <2>5. s # <<>>
    BY <1>3
  <2>6. CASE s \in {<<"flush", "close", "inactive">>, <<"flush", "inactive">>}
    BY <2>2, <2>5, <2>6
  <2>7. CASE s \in {<<"close", "openDevice">>, <<"flush", "unlock">>, <<"flush", "feedOn">>}
    <3>1. x \in {"openOutput", "rewind", "feed"}
      BY <1>3, <2>7
    <3> QED BY <2>4, <2>5, <2>7, <3>1
  <2> QED BY <1>3, <2>6, <2>7
<1>5. Fits(s, x)
  BY <1>3, ListsFit
<1>6. \A i \in 1..Len(s) : s[i] = "feedOn" => active
  <2>1. CASE s = <<"close", "openDevice">>
    BY <2>1
  <2> QED BY <1>3, <2>1
<1>7. (s[1] = "flush" /\ active) \/ s[1] = "close"
  BY <1>3
<1>8. Turn(c, x, s[1])
  BY <1>7, Kinds DEF Turn
<1> QED BY <1>1, <1>3, <1>4, <1>5, <1>6, <1>8, Led

\* Two sequences of one element, joined.
LEMMA OneAndOne ==
    ASSUME NEW a, NEW b
    PROVE  <<a>> \o <<b>> = <<a, b>>
<1> DEFINE S == {a, b}
<1> a \in S /\ b \in S
  OBVIOUS
<1> HIDE DEF S
<1>1. /\ <<a>> \in Seq(S) /\ Len(<<a>>) = 1 /\ <<a>>[1] = a
      /\ <<b>> \in Seq(S) /\ Len(<<b>>) = 1 /\ <<b>>[1] = b
      /\ <<a, b>> \in Seq(S) /\ Len(<<a, b>>) = 2 /\ <<a, b>>[1] = a /\ <<a, b>>[2] = b
  OBVIOUS
<1>2. PICK p \in Seq(S) : p = <<a>> /\ Len(p) = 1 /\ p[1] = a
  BY <1>1
<1>3. PICK q \in Seq(S) : q = <<b>> /\ Len(q) = 1 /\ q[1] = b
  BY <1>1
<1>4. PICK s \in Seq(S) : s = <<a, b>> /\ Len(s) = 2 /\ s[1] = a /\ s[2] = b
  BY <1>1
<1>5. PICK r : r = p \o q
  OBVIOUS
<1>6. r \in Seq(S) /\ Len(r) = 2
  BY <1>2, <1>3, <1>5
<1>7. r[1] = a
  BY <1>2, <1>3, <1>5
<1>8. r[2] = b
  BY <1>2, <1>3, <1>5
<1>9. r = s
  BY <1>4, <1>6, <1>7, <1>8
<1> QED BY <1>2, <1>3, <1>4, <1>5, <1>9

\* Every step of a call leads where Turn says.
LEMMA StepTurns ==
    ASSUME Calls, Locks, NEW c \in Callers, Step(c)
    PROVE  Turned(c)
<1> USE DEF bounds, pipeVars
<1>1. ASSUME NEW x \in {"join", "joined", "clear", "dropping", "start", "closePcm", "closed"},
             At(c, x), Then(c, <<>>), mutex' = mutex, quit' = quit
      PROVE  Turned(c)
  <2>1. Now(c) = x /\ x # "idle" /\ x \in Flushing \cup Closing
    BY <1>1, AtNow DEF Flushing, Closing
  <2>2. x \notin {"close", "flush", "drop"}
    BY <1>1
  <2> QED BY <1>1, <2>1, <2>2, Plain
<1>2. ASSUME NEW x \in Entries, At(c, x), Then(c, <<>>), quit' = quit,
             mutex' = mutex \/ (Free(c) /\ mutex' = "none")
      PROVE  Turned(c)
  <2>1. Now(c) = x /\ x # "idle"
    BY <1>2, AtNow, Kinds
  <2>2. x \notin {"close", "flush", "drop"}
    BY DEF Entries
  <2> QED BY <1>2, <2>1, <2>2, Plain
<1>3. ASSUME NEW x \in Releases, At(c, x), Then(c, <<>>), quit' = quit, mutex' = "none"
      PROVE  Turned(c)
  <2>1. Now(c) = x /\ x # "idle"
    BY <1>3, AtNow, Kinds
  <2>2. x \notin {"close", "flush", "drop"}
    BY DEF Releases
  <2> QED BY <1>3, <2>1, <2>2, Plain
<1>4. CASE Flush(c)
  BY <1>4, FlushTurns
<1>5. CASE Close(c)
  BY <1>5, CloseTurns
<1>6. CASE Drop(c)
  BY <1>6, DropTurns
<1>7. CASE \/ Join(c) \/ Joined(c) \/ Clear(c) \/ Dropping(c) \/ Start(c) \/ ClosePcm(c)
           \/ Closed(c)
  BY <1>1, <1>7 DEF Join, Joined, Clear, Dropping, Start, ClosePcm, Closed
<1>8. CASE OpenDevice(c) \/ Inactive(c) \/ Unlock(c) \/ FeedOn(c)
  BY <1>3, <1>8 DEF OpenDevice, Inactive, Unlock, FeedOn, Feed, Releases
<1>9. CASE Hold(c) \/ Preroll(c) \/ ScrubGrain(c) \/ ScrubOpened(c) \/ NowPlaying(c)
  BY <1>2, <1>9 DEF Hold, Preroll, ScrubGrain, ScrubOpened, NowPlaying, Entries
<1>10. CASE CloseOutput(c)
  <2>1. CASE ~active
    BY <1>2, <1>10, <2>1 DEF CloseOutput, Entries
  <2>2. CASE active
    BY <1>10, <2>2, TakeTurns DEF CloseOutput, Entries
  <2> QED BY <2>1, <2>2
<1>11. CASE OpenOutput(c)
  <2>1. CASE active
    BY <1>2, <1>11, <2>1 DEF OpenOutput, Entries
  <2>2. CASE ~active
    BY <1>11, <2>2, TakeTurns DEF OpenOutput, Entries
  <2> QED BY <2>1, <2>2
<1>12. CASE Rewind(c)
  <2>1. CASE ~active
    BY <1>2, <1>12, <2>1 DEF Rewind, Anchored, Entries
  <2>2. CASE active
    <3>1. Then(c, <<"flush">> \o <<"unlock">>) /\ mutex' = c
      BY <1>12, <2>2 DEF Rewind, Anchored
    <3>2. <<"flush">> \o <<"unlock">> = <<"flush", "unlock">>
      BY OneAndOne
    <3> QED BY <1>12, <2>2, <3>1, <3>2, TakeTurns DEF Rewind, Entries
  <2> QED BY <2>1, <2>2
<1>13. CASE PlayStep(c)
  <2>1. At(c, "feed") /\ Free(c) /\ quit' = quit /\ "feed" \in Entries
    BY <1>13 DEF PlayStep, Feed, Entries
  <2>2. CASE ~Ready
    <3>1. Then(c, <<>>) /\ mutex' = mutex
      BY <1>13, <2>2 DEF PlayStep
    <3> QED BY <1>2, <2>1, <3>1
  <2>3. CASE Ready /\ Anchored(c, <<"feedOn">>)
    <3>1. active /\ Then(c, <<"flush">> \o <<"feedOn">>) /\ mutex' = c
      BY <2>3 DEF Ready, Anchored
    <3>2. <<"flush">> \o <<"feedOn">> = <<"flush", "feedOn">>
      BY OneAndOne
    <3> QED BY <2>1, <3>1, <3>2, TakeTurns
  <2>4. CASE Ready /\ Feed(c)
    BY <1>2, <2>1, <2>4 DEF Feed
  <2> QED BY <1>13, <2>2, <2>3, <2>4 DEF PlayStep
<1>14. CASE Reset(c)
  <2>1. CASE ~active
    BY <1>2, <1>14, <2>1 DEF Reset, Entries
  <2>2. CASE active
    BY <1>14, <2>2, TakeTurns DEF Reset, Entries
  <2> QED BY <2>1, <2>2
<1> QED BY <1>4, <1>5, <1>6, <1>7, <1>8, <1>9, <1>10, <1>11, <1>12, <1>13, <1>14 DEF Step
-----------------------------------------------------------------------------
(* How calls begin *)

\* A caller with nothing to do begins a call.
Begun(c) ==
    /\ Calls' /\ Locks'
    /\ \A d \in Callers : d # c => Now(d)' = Now(d) /\ Left(d)' = Left(d)
    /\ Now(c) = "idle" /\ "feedOn" \notin Left(c)'
    /\ Now(c)' \in Entries \cup {"idle"} \/ (c = "worker" /\ Now(c)' = "flush")

\* A list of steps that a caller with nothing to do sets out on.
LEMMA Begins ==
    ASSUME Calls, NEW c \in Callers, NEW s \in Seq(Steps(c)), Begin(c, s),
           \A i \in 1..Len(s) : i < Len(s) => s[i] \in Entries,
           s # <<>> => s[Len(s)] \notin Linking,
           \A i, j \in 1..Len(s) : i < j => s[j] \in Outside(c)',
           quit' = quit \/ (c = "window" /\ todo["worker"] = <<>>)
    PROVE  /\ Now(c) = "idle"
           /\ \A d \in Callers : d # c => Now(d)' = Now(d) /\ Left(d)' = Left(d)
           /\ Left(c)' = {s[i] : i \in 1..Len(s)}
           /\ Now(c)' = IF s = <<>> THEN "idle" ELSE s[1]
           /\ Calls'
<1>1. todo = [d \in Callers |-> todo[d]]
  BY DEF Calls
<1>2. /\ todo[c] = <<>> /\ todo' = [d \in Callers |-> todo'[d]] /\ todo'[c] = s
      /\ \A d \in Callers : d # c => todo'[d] = todo[d]
  BY <1>1 DEF Begin
<1>3. Shape(c)'
  <2>1. s \in Seq(Steps(c)) /\ Steps(c)' = Steps(c)
    BY DEF Steps
  <2>2. ASSUME NEW i \in 1..Len(s), i < Len(s) PROVE s[i + 1] \in After(s[i])
    <3>1. i + 1 \in 1..Len(s)
      BY <2>2
    <3>2. s[i + 1] \in Entries \cup Releases \cup Closing \cup Flushing
      BY <3>1 DEF Steps, Entries, Releases, Closing, Flushing
    <3>3. s[i] \in Entries
      BY <2>2
    <3> QED BY <3>2, <3>3 DEF After, Entries
  <2> QED BY <1>2, <2>1, <2>2 DEF Shape
<1>4. ASSUME NEW d \in Callers, d # c PROVE Shape(d)'
  <2>1. CASE quit' = quit
    BY <1>2, <1>4, <2>1 DEF Calls, Shape, Outside
  <2>2. CASE c = "window" /\ todo["worker"] = <<>>
    <3>1. d = "worker" /\ todo'[d] = <<>>
      BY <1>2, <1>4, <2>2 DEF Callers
    <3>2. <<>> \in Seq(Steps(d)') /\ 1..Len(<<>>) = {}
      OBVIOUS
    <3> QED BY <3>1, <3>2 DEF Shape
  <2> QED BY <2>1, <2>2
<1>5. Calls'
  BY <1>2, <1>3, <1>4 DEF Calls
<1>6. Now(c)' = IF s = <<>> THEN "idle" ELSE s[1]
  BY <1>2 DEF Now
<1> QED BY <1>2, <1>5, <1>6 DEF Now, Left

\* A command of the worker that calls the pipeline.
LEMMA CommandBegins ==
    ASSUME Calls, Locks, NEW s \in Seq(Entries), Command(s), quit' = quit, mutex' = mutex
    PROVE  Begun("worker")
<1>1. s \in Seq(Steps("worker"))
  BY DEF Steps
<1>2. \A i \in 1..Len(s) : s[i] \in Entries
  OBVIOUS
<1>3. s # <<>> => Len(s) \in 1..Len(s) /\ 1 \in 1..Len(s)
  OBVIOUS
<1>4. Entries \cap Linking = {} /\ "idle" \notin Flushing /\ "feedOn" \notin Entries
  BY DEF Entries, Linking, Flushing
<1>5. \A i \in 1..Len(s) : s[i] \in Outside("worker")'
  BY <1>2 DEF Outside
<1>6. /\ Now("worker") = "idle"
      /\ \A d \in Callers : d # "worker" => Now(d)' = Now(d) /\ Left(d)' = Left(d)
      /\ Left("worker")' = {s[i] : i \in 1..Len(s)}
      /\ Now("worker")' = IF s = <<>> THEN "idle" ELSE s[1]
      /\ Calls'
  BY <1>1, <1>2, <1>3, <1>4, <1>5, Begins DEF Command, Callers
<1>7. Now("worker")' \in Entries \cup {"idle"}
  BY <1>2, <1>3, <1>6
<1>8. Locks'
  <2>1. ~quit
    BY DEF Command
  <2> QED BY <1>2, <1>4, <1>6, <1>7, <2>1, Kinds DEF Locks, Callers
<1> QED BY <1>2, <1>4, <1>6, <1>7, <1>8 DEF Begun

\* The flush of a pause, which takes no mutex, whatever the window is in.
LEMMA PauseBegins ==
    ASSUME Calls, Locks, Command(<<"flush">>), quit' = quit, mutex' = mutex
    PROVE  Begun("worker")
<1>1. PICK s \in Seq(Steps("worker")) : s = <<"flush">>
  <2>1. <<"flush">> \in Seq(Steps("worker"))
    BY DEF Steps, Flushing
  <2> QED BY <2>1
<1>2. Len(s) = 1 /\ s[1] = "flush" /\ s # <<>> /\ "flush" \notin Linking
  BY <1>1 DEF Linking
<1>3. /\ Now("worker") = "idle"
      /\ \A d \in Callers : d # "worker" => Now(d)' = Now(d) /\ Left(d)' = Left(d)
      /\ Left("worker")' = {s[i] : i \in 1..Len(s)}
      /\ Now("worker")' = IF s = <<>> THEN "idle" ELSE s[1]
      /\ Calls'
  <2>1. Begin("worker", s)
    BY <1>1 DEF Command
  <2>2. /\ \A i \in 1..Len(s) : i < Len(s) => s[i] \in Entries
        /\ \A i, j \in 1..Len(s) : i < j => s[j] \in Outside("worker")'
        /\ s # <<>> => s[Len(s)] \notin Linking
    BY <1>2
  <2> QED BY <2>1, <2>2, Begins DEF Callers
<1>4. Left("worker")' = {"flush"} /\ Now("worker")' = "flush"
  BY <1>2, <1>3
<1>5. Locks'
  <2>1. ~quit
    BY DEF Command
  <2> QED BY <1>3, <1>4, <2>1, Kinds DEF Locks, Callers
<1> QED BY <1>3, <1>4, <1>5 DEF Begun

\* end_scrub() and the destructor, on the window's thread.
LEMMA WindowBegins ==
    ASSUME Calls, Locks, EndScrub \/ Destroy
    PROVE  Begun("window")
<1>1. mutex' = mutex /\ ~quit
  BY DEF EndScrub, Destroy, pipeVars
<1>2. PICK s \in Seq({"closeOutput", "reset", "close"}) :
         /\ Begin("window", s)
         /\ \/ s \in {<<>>, <<"closeOutput">>} /\ quit' = quit
            \/ s = <<"reset", "close">> /\ quit' /\ todo["worker"] = <<>>
  <2>1. /\ <<>> \in Seq({"closeOutput", "reset", "close"})
        /\ <<"closeOutput">> \in Seq({"closeOutput", "reset", "close"})
        /\ <<"reset", "close">> \in Seq({"closeOutput", "reset", "close"})
    OBVIOUS
  <2>2. CASE EndScrub
    <3>1. quit' = quit
      BY <2>2 DEF EndScrub
    <3>2. CASE Begin("window", <<>>)
      BY <2>1, <3>1, <3>2
    <3>3. CASE Begin("window", <<"closeOutput">>)
      BY <2>1, <3>1, <3>3
    <3>4. Begin("window", <<>>) \/ Begin("window", <<"closeOutput">>)
      BY <2>2 DEF EndScrub
    <3> QED BY <3>2, <3>3, <3>4
  <2>3. CASE Destroy
    <3>1. Begin("window", <<"reset", "close">>) /\ quit' /\ todo["worker"] = <<>>
      BY <2>3 DEF Destroy
    <3> QED BY <2>1, <3>1
  <2> QED BY <2>2, <2>3
<1>3. s \in Seq(Steps("window"))
  BY DEF Steps, Closing
<1>4. Len(s) \in 0..2 /\ (Len(s) = 2 => s[1] = "reset" /\ s[2] = "close" /\ quit')
  BY <1>2
<1>5. s # <<>> => s[Len(s)] \notin Linking
  BY <1>2, <1>4 DEF Linking
<1>6. \A i \in 1..Len(s) : i < Len(s) => s[i] \in Entries
  <2>1. ASSUME NEW i \in 1..Len(s), i < Len(s) PROVE s[i] = "reset"
    <3>1. PICK k \in 0..2 : k = Len(s)
      BY <1>4
    <3>2. i \in 1..k /\ i < k
      BY <2>1, <3>1
    <3>3. k = 2 /\ i = 1
      BY <3>2
    <3> QED BY <1>4, <3>1, <3>3
  <2> QED BY <2>1 DEF Entries
<1>7. \A i, j \in 1..Len(s) : i < j => s[j] \in Outside("window")'
  BY <1>4 DEF Outside
<1>8. /\ Now("window") = "idle"
      /\ \A d \in Callers : d # "window" => Now(d)' = Now(d) /\ Left(d)' = Left(d)
      /\ Left("window")' = {s[i] : i \in 1..Len(s)}
      /\ Now("window")' = IF s = <<>> THEN "idle" ELSE s[1]
      /\ Calls'
  BY <1>2, <1>3, <1>5, <1>6, <1>7, Begins DEF Callers
<1>9. Now("window")' \in {"idle", "closeOutput", "reset"}
  BY <1>2, <1>8
<1>10. \A y \in Left("window")' : y = "closeOutput" \/ (y \in {"reset", "close"} /\ quit')
  BY <1>2, <1>8
<1>11. Now("worker")' = Now("worker") /\ Left("worker")' = Left("worker")
  BY <1>8 DEF Callers
<1>12. Locks'
  <2>1. CASE s \in {<<>>, <<"closeOutput">>} /\ quit' = quit
    <3>1. "closeOutput" \notin Releases \cup Closing \cup Flushing
      BY DEF Flushing, Releases, Closing
    <3>2. \A y \in Left("window")' : y = "closeOutput"
      BY <1>1, <1>10, <2>1
    <3> QED BY <1>1, <1>11, <2>1, <3>1, <3>2 DEF Locks
  <2>2. CASE quit' /\ todo["worker"] = <<>>
    <3>1. Now("worker") = "idle" /\ Left("worker") = {}
      BY <2>2 DEF Now, Left
    <3> QED BY <1>11, <2>2, <3>1, Kinds DEF Locks
  <2> QED BY <1>2, <2>1, <2>2
<1>13. {"closeOutput", "reset"} \subseteq Entries
  BY DEF Entries
<1> QED BY <1>8, <1>9, <1>10, <1>12, <1>13 DEF Begun

Commands ==
    \/ Play \/ Pause \/ ReleaseAudio \/ SetProject \/ Present \/ PlayedOut
    \/ \E f \in 0..(Length - 1) : Seek(f) \/ SeekPreview(f)

\* Whatever command the worker takes.
LEMMA WorkerBegins ==
    ASSUME Calls, Locks, Commands
    PROVE  Begun("worker")
<1> USE DEF pipeVars, bounds
<1>1. /\ <<>> \in Seq(Entries) /\ <<"rewind">> \in Seq(Entries) /\ <<"preroll">> \in Seq(Entries)
      /\ <<"openOutput", "rewind", "preroll", "hold", "play">> \in Seq(Entries)
      /\ <<"closeOutput">> \in Seq(Entries) /\ <<"reset", "rewind">> \in Seq(Entries)
      /\ <<"feed">> \in Seq(Entries) /\ <<"grain">> \in Seq(Entries)
      /\ <<"openOutput", "rewind", "scrubOpened", "grain">> \in Seq(Entries)
  BY DEF Entries
<1>2. ASSUME NEW s, NEW t, s \in Seq(Entries), t \in Seq(Entries) PROVE s \o t \in Seq(Entries)
  BY <1>2
<1>3. CASE Play
  <2>1. PICK s : /\ s \in Seq(Entries) /\ Command(s) /\ quit' = quit /\ mutex' = mutex
    <3>1. PICK a : a \in Seq(Entries) /\ a = (IF frame >= Length - 1 THEN <<"rewind">> ELSE <<>>)
      BY <1>1
    <3>2. PICK b : b \in Seq(Entries)
                   /\ b = (IF frame >= Length - 1 /\ playing THEN <<"preroll">> ELSE <<>>)
      BY <1>1
    <3>3. PICK d : d \in Seq(Entries) /\ d = <<"openOutput", "rewind", "preroll", "hold", "play">>
      BY <1>1
    <3>4. Command(a \o b \o d) /\ quit' = quit /\ mutex' = mutex
      BY <1>3, <3>1, <3>2, <3>3 DEF Play, Counts
    <3>5. a \o b \o d \in Seq(Entries)
      BY <1>2, <3>1, <3>2, <3>3
    <3> QED BY <3>4, <3>5
  <2> QED BY <2>1, CommandBegins
<1>4. CASE Pause
  <2>1. quit' = quit /\ mutex' = mutex
    BY <1>4 DEF Pause, Counts
  <2>2. Command(<<"flush">>) \/ Command(<<>>)
    BY <1>4 DEF Pause
  <2> QED BY <1>1, <2>1, <2>2, PauseBegins, CommandBegins
<1>5. CASE ReleaseAudio
  <2>1. quit' = quit /\ mutex' = mutex /\ (Command(<<"closeOutput">>) \/ Command(<<>>))
    BY <1>5 DEF ReleaseAudio, Counts
  <2> QED BY <1>1, <2>1, CommandBegins
<1>6. CASE SetProject
  <2>1. quit' = quit /\ mutex' = mutex /\ (Command(<<"rewind">>) \/ Command(<<"reset", "rewind">>))
    BY <1>6 DEF SetProject, Counts
  <2> QED BY <1>1, <2>1, CommandBegins
<1>7. CASE Present \/ PlayedOut
  <2>1. quit' = quit /\ mutex' = mutex /\ (Command(<<"feed">>) \/ Command(<<>>))
    BY <1>7 DEF Present, PlayedOut
  <2> QED BY <1>1, <2>1, CommandBegins
<1>8. ASSUME NEW f \in 0..(Length - 1), Seek(f) PROVE Begun("worker")
  <2>1. PICK s : /\ s \in Seq(Entries) /\ Command(s) /\ quit' = quit /\ mutex' = mutex
    <3>1. PICK a : a \in Seq(Entries) /\ a = <<"rewind">>
      BY <1>1
    <3>2. PICK b : b \in Seq(Entries) /\ b = (IF playing THEN <<"preroll">> ELSE <<>>)
      BY <1>1
    <3>3. Command(a \o b) /\ quit' = quit /\ mutex' = mutex
      BY <1>8, <3>1, <3>2 DEF Seek, Counts
    <3> QED BY <1>2, <3>1, <3>2, <3>3
  <2> QED BY <2>1, CommandBegins
<1>9. ASSUME NEW f \in 0..(Length - 1), SeekPreview(f) PROVE Begun("worker")
  <2>1. /\ quit' = quit /\ mutex' = mutex
        /\ \/ Command(<<"feed">>) \/ Command(<<>>) \/ Command(<<"grain">>)
           \/ Command(<<"openOutput", "rewind", "scrubOpened", "grain">>)
    BY <1>9 DEF SeekPreview, Counts
  <2> QED BY <1>1, <2>1, CommandBegins
<1> QED BY <1>3, <1>4, <1>5, <1>6, <1>7, <1>8, <1>9 DEF Commands
-----------------------------------------------------------------------------
(* The writer, the handle and what a caller counts on *)

\* Once the writer has been joined, until it is started again.
Stopped == {"joined", "clear", "drop", "dropping", "start", "closePcm", "closed"}

\* What a caller may count on where it is.  Another flush may have started the
\* writer again, but only with nothing left for it to take.
Counted(c) ==
    /\ Now(c) \in Stopped => batch = <<>> /\ (writer # "none" => queue = <<>>)
    /\ Now(c) \in {"drop", "dropping", "start"} => queue = <<>>
    /\ Now(c) = "closed" => ~pcm

Handles ==
    /\ writer \in {"none", "eval", "asleep", "write", "ended"}
    /\ batch # <<>> => writer = "write"
    /\ ~pcm => device = <<>> /\ heard = None
    /\ pcm => open

Device == Handles /\ \A c \in Callers : Counted(c)

\* The window is in no call of the output while the worker takes the mutex.
LEMMA FreeAlone ==
    ASSUME Calls, Locks, Now("worker") # "idle", Free("worker")
    PROVE  ~Busy("window")
<1>1. Now("window") # "idle" => Now("window") \in Left("window")
  BY NowAndLeft DEF Callers
<1>2. mutex # "window" /\ ~quit
  BY DEF Free, Locks
<1> QED BY <1>1, <1>2, Kinds DEF Locks, Busy

\* Only the worker opens, feeds and gives back the mutex for more.
LEMMA OnlyWorker ==
    ASSUME Calls, Locks, NEW c \in Callers,
           Now(c) \in {"openOutput", "rewind", "preroll", "hold", "play", "feed", "grain",
                       "scrubOpened", "openDevice", "feedOn", "unlock"}
    PROVE  /\ c = "worker" /\ Now(c) # "idle"
           /\ Now(c) \in Releases => Free("worker")
<1>1. Now(c) # "idle" /\ Now(c) \in Steps(c) /\ Now(c) \in Left(c)
  BY NowAndLeft
<1>2. c = "worker"
  BY <1>1 DEF Steps, Closing, Flushing, Callers
<1> QED BY <1>1, <1>2 DEF Locks, Free

\* Less in the queue, and a writer that starts with nothing to take, disturb
\* nobody.
LEMMA CountedKept ==
    ASSUME NEW d \in Callers, Now(d)' = Now(d), Counted(d),
           batch' = batch, queue' \in {queue, <<>>}, pcm' => pcm,
           writer' = "none" \/ writer # "none" \/ queue' = <<>>
    PROVE  Counted(d)'
BY DEF Counted

\* The steps of flush() and close(), whoever else is in one: no caller loses
\* what it counts on.
LEMMA InsideDevice ==
    ASSUME Calls, Locks, Device, NEW c \in Callers,
           \/ Flush(c) \/ Join(c) \/ Joined(c) \/ Clear(c) \/ Drop(c) \/ Dropping(c)
           \/ Start(c) \/ Close(c) \/ ClosePcm(c) \/ Closed(c)
    PROVE  Device'
<1>1. Step(c)
  BY DEF Step
<1>2. Turned(c)
  BY <1>1, StepTurns
<1>3. PICK d \in Callers : d # c /\ Callers = {c, d}
  BY DEF Callers
<1>4. Now(d)' = Now(d) /\ Turn(c, Now(c), Now(c)')
  BY <1>2, <1>3 DEF Turned
<1>5. Counted(c) /\ Counted(d) /\ Handles
  BY DEF Device
<1>6. ASSUME Handles', Counted(c)', batch' = batch, queue' \in {queue, <<>>}, pcm' => pcm,
             writer' = "none" \/ writer # "none" \/ queue' = <<>>
      PROVE  Device'
  <2>1. Counted(d)'
    BY <1>4, <1>5, <1>6, CountedKept
  <2> QED BY <1>3, <1>6, <2>1 DEF Device
<1>7. ASSUME NEW x, At(c, x) PROVE Now(c) = x
  BY <1>7, AtNow
<1> USE DEF Turn, outputVars, deviceVars, threadVars
<1>8. CASE Flush(c)
  <2>1. Now(c) = "flush"
    BY <1>7, <1>8 DEF Flush
  <2>2. UNCHANGED <<queue, batch, device, pcm, heard, open>>
    BY <1>8 DEF Flush
  <2>3. writer' = writer \/ (writer # "none" /\ writer' = Woken)
    BY <1>8 DEF Flush, StopThread
  <2>4. Now(c)' \notin Stopped \/ (Now(c)' = "clear" /\ writer = "none")
    BY <1>4, <2>1 DEF Stopped
  <2>5. Counted(c)'
    BY <1>5, <2>2, <2>3, <2>4 DEF Counted, Handles, Stopped
  <2>6. Handles'
    BY <1>5, <2>2, <2>3 DEF Handles, Woken
  <2> QED BY <1>6, <2>2, <2>3, <2>5, <2>6
<1>9. CASE Close(c)
  <2>1. Now(c) = "close"
    BY <1>7, <1>9 DEF Close
  <2>2. UNCHANGED <<queue, batch, device, pcm, heard, open>>
    BY <1>9 DEF Close
  <2>3. writer' = writer \/ (writer # "none" /\ writer' = Woken)
    BY <1>9 DEF Close, StopThread
  <2>4. Now(c)' \notin Stopped \/ (Now(c)' = "closePcm" /\ writer = "none")
    BY <1>4, <2>1 DEF Stopped
  <2>5. Counted(c)'
    BY <1>5, <2>2, <2>3, <2>4 DEF Counted, Handles, Stopped
  <2>6. Handles'
    BY <1>5, <2>2, <2>3 DEF Handles, Woken
  <2> QED BY <1>6, <2>2, <2>3, <2>5, <2>6
<1>10. CASE Join(c)
  <2>1. Now(c)' = "joined"
    BY <1>4, <1>7, <1>10 DEF Join
  <2>2. /\ UNCHANGED <<queue, batch, device, pcm, heard, open>>
        /\ writer = "ended" /\ writer' = "none"
    BY <1>10 DEF Join
  <2>3. Counted(c)' /\ Handles'
    BY <1>5, <2>1, <2>2 DEF Counted, Handles, Stopped
  <2> QED BY <1>6, <2>2, <2>3
<1>11. CASE Joined(c)
  <2>1. Now(c) = "joined" /\ Now(c)' \in {"clear", "closePcm"}
    BY <1>4, <1>7, <1>11 DEF Joined
  <2>2. UNCHANGED <<queue, batch, writer, device, pcm, heard, open>>
    BY <1>11 DEF Joined
  <2>3. Counted(c)' /\ Handles'
    BY <1>5, <2>1, <2>2 DEF Counted, Handles, Stopped
  <2> QED BY <1>6, <2>2, <2>3
<1>12. CASE Clear(c)
  <2>1. Now(c) = "clear" /\ Now(c)' = "drop"
    BY <1>4, <1>7, <1>12 DEF Clear
  <2>2. queue' = <<>> /\ UNCHANGED <<batch, writer, device, pcm, heard, open>>
    BY <1>12 DEF Clear
  <2>3. Counted(c)' /\ Handles'
    BY <1>5, <2>1, <2>2 DEF Counted, Handles, Stopped
  <2> QED BY <1>6, <2>2, <2>3
<1>13. CASE Drop(c)
  <2>1. Now(c) = "drop" /\ Now(c)' = IF open /\ pcm THEN "dropping" ELSE "start"
    BY <1>4, <1>7, <1>13 DEF Drop
  <2>2. UNCHANGED <<queue, batch, writer, device, pcm, heard, open>>
    BY <1>13 DEF Drop
  <2>3. Counted(c)' /\ Handles'
    BY <1>5, <2>1, <2>2 DEF Counted, Handles, Stopped
  <2> QED BY <1>6, <2>2, <2>3
<1>14. CASE Dropping(c)
  <2>1. Now(c) = "dropping" /\ Now(c)' = "start"
    BY <1>4, <1>7, <1>14 DEF Dropping
  <2>2. device' = <<>> /\ heard' = None /\ UNCHANGED <<queue, batch, writer, pcm, open>>
    BY <1>5, <1>14 DEF Dropping, Handles
  <2>3. Counted(c)' /\ Handles'
    BY <1>5, <2>1, <2>2 DEF Counted, Handles, Stopped
  <2> QED BY <1>6, <2>2, <2>3
<1>15. CASE Start(c)
  <2>1. Now(c) = "start" /\ Now(c)' \notin Stopped
    BY <1>4, <1>7, <1>15 DEF Start, Stopped
  <2>2. /\ writer' = writer \/ (writer = "none" /\ writer' = "eval")
        /\ UNCHANGED <<queue, batch, device, pcm, heard, open>>
    BY <1>15 DEF Start
  <2>3. queue = <<>>
    BY <1>5, <2>1 DEF Counted
  <2>4. Counted(c)' /\ Handles'
    BY <1>5, <2>1, <2>2 DEF Counted, Handles, Stopped
  <2> QED BY <1>6, <2>2, <2>3, <2>4
<1>16. CASE ClosePcm(c)
  <2>1. Now(c) = "closePcm" /\ Now(c)' = "closed"
    BY <1>4, <1>7, <1>16 DEF ClosePcm
  <2>2. /\ pcm' = FALSE /\ device' = <<>> /\ heard' = None
        /\ UNCHANGED <<queue, batch, writer, open>>
    BY <1>16 DEF ClosePcm
  <2>3. Counted(c)' /\ Handles'
    BY <1>5, <2>1, <2>2 DEF Counted, Handles, Stopped
  <2> QED BY <1>6, <2>2, <2>3
<1>17. CASE Closed(c)
  <2>1. Now(c) = "closed" /\ Now(c)' \notin Stopped
    BY <1>4, <1>7, <1>17 DEF Closed, Stopped
  <2>2. open' = FALSE /\ queue' = <<>> /\ UNCHANGED <<batch, writer, device, pcm, heard>>
    BY <1>17 DEF Closed
  <2>3. Counted(c)' /\ Handles'
    BY <1>5, <2>1, <2>2 DEF Counted, Handles, Stopped
  <2> QED BY <1>6, <2>2, <2>3
<1> QED BY <1>8, <1>9, <1>10, <1>11, <1>12, <1>13, <1>14, <1>15, <1>16, <1>17

\* No step of a call takes from under a caller what it counts on.
LEMMA StepDevice ==
    ASSUME Calls, Locks, Device, NEW c \in Callers, Step(c)
    PROVE  Device'
<1>1. Turned(c)
  BY StepTurns
<1>2. PICK d \in Callers : d # c /\ Callers = {c, d}
  BY DEF Callers
<1>3. Now(d)' = Now(d) /\ Turn(c, Now(c), Now(c)')
  BY <1>1, <1>2 DEF Turned
<1>4. Counted(d) /\ Handles
  BY DEF Device
<1>5. ASSUME Now(c) \in Entries \cup Releases PROVE Counted(c)'
  <2>1. Now(c)' \notin Stopped
    BY <1>3, <1>5 DEF Turn, Stopped, Entries, Releases
  <2> QED BY <2>1 DEF Counted, Stopped
<1>6. ASSUME Handles', Now(c) \in Entries \cup Releases, Counted(d)'
      PROVE  Device'
  BY <1>2, <1>5, <1>6 DEF Device
<1>7. ASSUME c = "worker", Now(c) # "idle", Free("worker") PROVE Counted(d)'
  <2>1. ~Busy("window") /\ d = "window"
    BY <1>2, <1>7, FreeAlone DEF Callers
  <2>2. Now(d)' \notin Stopped
    BY <1>3, <2>1 DEF Busy, Stopped, Flushing, Closing
  <2> QED BY <2>2 DEF Counted, Stopped
<1>8. ASSUME NEW x, At(c, x) PROVE Now(c) = x
  BY <1>8, AtNow
<1> USE DEF outputVars, deviceVars, threadVars
<1>9. CASE \/ Flush(c) \/ Join(c) \/ Joined(c) \/ Clear(c) \/ Drop(c) \/ Dropping(c)
           \/ Start(c) \/ Close(c) \/ ClosePcm(c) \/ Closed(c)
  BY <1>9, InsideDevice
<1>10. CASE OpenDevice(c)
  <2>1. Now(c) = "openDevice" /\ Now(c) \in Releases
    BY <1>8, <1>10 DEF OpenDevice, Releases
  <2>2. Counted(d)'
    BY <1>7, <2>1, OnlyWorker
  <2>3. /\ UNCHANGED <<queue, batch, device, heard>>
        /\ \/ pcm' /\ open' /\ (writer' = writer \/ (writer = "none" /\ writer' = "eval"))
           \/ UNCHANGED <<pcm, open, writer>>
    BY <1>10 DEF OpenDevice
  <2>4. Handles'
    BY <1>4, <2>3 DEF Handles
  <2> QED BY <1>6, <2>1, <2>2, <2>4
<1>11. ASSUME Now(c) \in Entries \cup Releases, writer' \in {writer, Woken},
              UNCHANGED <<batch, device, pcm, heard, open>>,
              queue' = queue \/ (c = "worker" /\ Now(c) # "idle" /\ Free("worker"))
       PROVE  Device'
  <2>1. Handles'
    BY <1>4, <1>11 DEF Handles, Woken
  <2>2. Counted(d)'
    <3>1. CASE queue' = queue
      <4>1. writer' = "none" \/ writer # "none"
        BY <1>11 DEF Woken
      <4> QED BY <1>3, <1>4, <1>11, <3>1, <4>1, CountedKept
    <3> QED BY <1>7, <1>11, <3>1
  <2> QED BY <1>6, <1>11, <2>1, <2>2
<1>12. ASSUME NEW s, WriteFloat(s) PROVE writer' \in {writer, Woken}
  BY <1>12 DEF WriteFloat
<1>13. CASE Hold(c)
  BY <1>8, <1>11, <1>13 DEF Hold, Entries
<1>14. CASE Preroll(c)
  <2>1. Now(c) = "preroll" /\ Now(c) \in Entries /\ Free(c)
    BY <1>8, <1>14 DEF Preroll, Entries
  <2>2. c = "worker" /\ Now(c) # "idle"
    BY <2>1, OnlyWorker
  <2>3. writer' \in {writer, Woken} /\ UNCHANGED <<batch, device, pcm, heard, open>>
    BY <1>12, <1>14 DEF Preroll, WriteMixed
  <2> QED BY <1>11, <2>1, <2>2, <2>3
<1>15. ASSUME Feed(c), c = "worker", Now(c) \in Entries \cup Releases, Now(c) # "idle",
              Free("worker")
       PROVE  Device'
  <2>1. writer' \in {writer, Woken} /\ UNCHANGED <<batch, device, pcm, heard, open>>
    BY <1>12, <1>15 DEF Feed, WriteMixed
  <2> QED BY <1>11, <1>15, <2>1
<1>16. CASE PlayStep(c)
  <2>1. Now(c) = "feed" /\ Now(c) \in Entries /\ Free(c)
    BY <1>8, <1>16 DEF PlayStep, Entries
  <2>2. c = "worker" /\ Now(c) # "idle"
    BY <2>1, OnlyWorker
  <2>3. CASE Feed(c)
    BY <1>15, <2>1, <2>2, <2>3
  <2>4. CASE UNCHANGED outputVars
    BY <1>11, <2>1, <2>4
  <2> QED BY <1>16, <2>3, <2>4 DEF PlayStep
<1>17. CASE FeedOn(c)
  <2>1. Now(c) = "feedOn" /\ Now(c) \in Releases
    BY <1>8, <1>17 DEF FeedOn, Releases
  <2>2. c = "worker" /\ Now(c) # "idle" /\ Free("worker")
    BY <2>1, OnlyWorker
  <2> QED BY <1>15, <1>17, <2>1, <2>2 DEF FeedOn
<1>18. CASE ScrubGrain(c)
  <2>1. Now(c) = "grain" /\ Now(c) \in Entries /\ Free(c)
    BY <1>8, <1>18 DEF ScrubGrain, Entries
  <2>2. c = "worker" /\ Now(c) # "idle"
    BY <2>1, OnlyWorker
  <2>3. writer' \in {writer, Woken} /\ UNCHANGED <<batch, device, pcm, heard, open>>
    BY <1>12, <1>18 DEF ScrubGrain
  <2> QED BY <1>11, <2>1, <2>2, <2>3
<1>19. CASE CloseOutput(c) \/ Inactive(c) \/ OpenOutput(c) \/ Rewind(c) \/ Unlock(c) \/ Reset(c)
            \/ ScrubOpened(c) \/ NowPlaying(c)
  <2>1. Now(c) \in Entries \cup Releases
    BY <1>8, <1>19 DEF CloseOutput, Inactive, OpenOutput, Rewind, Unlock, Reset, ScrubOpened,
                       NowPlaying, Entries, Releases
  <2>2. UNCHANGED outputVars
    BY <1>19 DEF CloseOutput, Inactive, OpenOutput, Rewind, Unlock, Reset, ScrubOpened, NowPlaying
  <2> QED BY <1>11, <2>1, <2>2
<1> QED BY <1>9, <1>10, <1>13, <1>14, <1>16, <1>17, <1>18, <1>19 DEF Step

\* The writer and the device leave the callers where they are.
LEMMA Apartness ==
    ASSUME Calls, Locks, UNCHANGED <<todo, mutex, quit>>
    PROVE  /\ Calls' /\ Locks'
           /\ \A c \in Callers : Now(c)' = Now(c) /\ Left(c)' = Left(c)
<1>1. \A c \in Callers : Shape(c)'
  BY DEF Calls, Shape, Outside
<1>2. Calls'
  BY <1>1 DEF Calls
<1>3. /\ \A c : Now(c)' = Now(c) /\ Left(c)' = Left(c)
  BY DEF Now, Left
<1> QED BY <1>2, <1>3 DEF Locks

\* The writer and the device go on: what a caller counts on stays as it is.
LEMMA WriterKeeps ==
    ASSUME Calls, Locks, Device, Writer \/ DevicePlays
    PROVE  Calls' /\ Locks' /\ Device'
<1> USE DEF writerElse, pipeVars, bounds, deviceVars, threadVars
<1>1. UNCHANGED <<todo, mutex, quit>>
  BY DEF Writer, WriterTake, WriterSleep, WriterHold, WriterWrite, WriterNext, WriterEnd,
         DevicePlays
<1>2. Calls' /\ Locks' /\ \A c \in Callers : Now(c)' = Now(c)
  BY <1>1, Apartness
<1>3. Handles /\ \A c \in Callers : Counted(c)
  BY DEF Device
<1>4. ASSUME Handles', \A c \in Callers : Counted(c)' PROVE Device'
  BY <1>4 DEF Device
<1>5. CASE WriterTake
  <2>1. /\ writer = "eval" /\ queue # <<>> /\ batch' = queue /\ queue' = <<>> /\ writer' = "write"
        /\ UNCHANGED <<device, pcm, heard, open>>
    BY <1>5 DEF WriterTake
  <2>2. \A c \in Callers : Now(c) \notin Stopped
    BY <1>3, <2>1 DEF Counted
  <2>3. \A c \in Callers : Counted(c)'
    BY <1>2, <2>2 DEF Counted, Stopped
  <2>4. Handles'
    BY <1>3, <2>1 DEF Handles
  <2> QED BY <1>2, <1>4, <2>3, <2>4
<1>6. CASE WriterSleep \/ WriterNext \/ WriterEnd
  <2>1. /\ writer \in {"eval", "write"} /\ writer' \in {"asleep", "eval", "ended"}
        /\ batch' \in {batch, <<>>} /\ (writer' = "asleep" => writer = "eval" /\ batch' = batch)
        /\ (writer' # "asleep" => batch' = <<>>)
        /\ UNCHANGED <<queue, device, pcm, heard, open>>
    BY <1>6 DEF WriterSleep, WriterNext, WriterEnd
  <2>2. \A c \in Callers : Counted(c)'
    BY <1>2, <1>3, <2>1 DEF Counted
  <2>3. Handles'
    BY <1>3, <2>1 DEF Handles
  <2> QED BY <1>2, <1>4, <2>2, <2>3
<1>7. CASE WriterHold
  <2>1. /\ pcm /\ device' = Append(device, Silence)
        /\ UNCHANGED <<queue, writer, batch, pcm, heard, open>>
    BY <1>7 DEF WriterHold
  <2>2. \A c \in Callers : Counted(c)'
    BY <1>2, <1>3, <2>1 DEF Counted
  <2>3. Handles'
    BY <1>3, <2>1 DEF Handles
  <2> QED BY <1>2, <1>4, <2>2, <2>3
<1>8. CASE WriterWrite
  <2>1. writer = "write" /\ batch # <<>> /\ UNCHANGED <<queue, writer, pcm, heard, open>>
        /\ (pcm \/ device' = device)
    BY <1>8 DEF WriterWrite
  <2>2. \A c \in Callers : Now(c) \notin Stopped
    BY <1>3, <2>1 DEF Counted
  <2>3. \A c \in Callers : Counted(c)'
    BY <1>2, <2>2 DEF Counted, Stopped
  <2>4. Handles'
    BY <1>3, <2>1 DEF Handles
  <2> QED BY <1>2, <1>4, <2>3, <2>4
<1>9. CASE DevicePlays
  <2>1. device # <<>> /\ UNCHANGED <<queue, writer, batch, pcm, open>>
    BY <1>9 DEF DevicePlays
  <2>2. \A c \in Callers : Counted(c)'
    BY <1>2, <1>3, <2>1 DEF Counted
  <2>3. Handles'
    BY <1>3, <2>1 DEF Handles
  <2> QED BY <1>2, <1>4, <2>2, <2>3
<1> QED BY <1>5, <1>6, <1>7, <1>8, <1>9 DEF Writer

\* Setting out on a call touches nothing of the output.
LEMMA BegunDevice ==
    ASSUME Device, NEW c \in Callers, Begun(c),
           UNCHANGED <<queue, batch, writer, device, pcm, heard, open>>
    PROVE  Device'
<1>1. Now(c)' \notin Stopped /\ Now(c) \notin Stopped
  BY Kinds DEF Begun, Stopped, Entries, Flushing
<1>2. \A d \in Callers : d # c => Now(d)' = Now(d)
  BY DEF Begun
<1>3. \A d \in Callers : Counted(d)'
  BY <1>1, <1>2 DEF Device, Counted, Stopped
<1>4. Handles'
  BY <1>1, <1>2 DEF Device, Handles, Stopped
<1> QED BY <1>3, <1>4 DEF Device
-----------------------------------------------------------------------------
(* The first invariant, and what follows of it *)

Safe == Calls /\ Locks /\ Device

\* At the start nobody is in a call.
LEMMA InitSafe == Init => Safe
<1> SUFFICES ASSUME Init PROVE Safe
  OBVIOUS
<1>1. \A c \in Callers : todo[c] = <<>> /\ Now(c) = "idle" /\ Left(c) = {}
  BY DEF Init, Now, Left
<1>2. Calls
  <2>1. \A c : <<>> \in Seq(Steps(c)) /\ Len(<<>>) = 0 /\ 1..0 = {}
    OBVIOUS
  <2>2. \A c \in Callers : Shape(c)
    BY <1>1, <2>1 DEF Shape
  <2> QED BY <2>2 DEF Init, Calls
<1>3. Locks
  BY <1>1, Kinds DEF Locks, Callers
<1>4. Device
  BY <1>1 DEF Device, Handles, Counted, Stopped, Init
<1> QED BY <1>2, <1>3, <1>4 DEF Safe

\* The steps there are.
LEMMA NextCases ==
    ASSUME Next
    PROVE  \/ \E c \in Callers : Step(c)
           \/ Commands \/ EndScrub \/ Destroy
           \/ Writer \/ DevicePlays
BY DEF Next, Worker, Window, Commands, Callers

\* Commands change nothing of the output before the calls they make.
LEMMA CommandLeaves ==
    ASSUME Commands \/ EndScrub \/ Destroy
    PROVE  UNCHANGED <<queue, batch, writer, device, pcm, heard, open, active>>
BY DEF Commands, Play, Pause, ReleaseAudio, SetProject, Present, PlayedOut, Seek, SeekPreview,
       EndScrub, Destroy, outputVars, deviceVars, threadVars, pipeVars

\* Every step keeps the mutex, the thread and the handle in agreement.
LEMMA NextSafe == Safe /\ [Next]_vars => Safe'
<1> SUFFICES ASSUME Safe, [Next]_vars PROVE Safe'
  OBVIOUS
<1>1. Calls /\ Locks /\ Device
  BY DEF Safe
<1>2. CASE UNCHANGED vars
  <2>1. UNCHANGED <<todo, mutex, quit, queue, batch, writer, device, pcm, heard, open>>
    BY <1>2 DEF vars, outputVars, deviceVars, threadVars, pipeVars, bounds
  <2>2. Calls' /\ Locks' /\ \A c \in Callers : Now(c)' = Now(c)
    BY <1>1, <2>1, Apartness
  <2>3. Device'
    BY <1>1, <2>1, <2>2 DEF Device, Handles, Counted, Stopped
  <2> QED BY <2>2, <2>3 DEF Safe
<1>3. ASSUME NEW c \in Callers, Step(c) PROVE Safe'
  BY <1>1, <1>3, StepTurns, StepDevice DEF Turned, Safe
<1>4. CASE Commands \/ EndScrub \/ Destroy
  <2>1. Begun("worker") \/ Begun("window")
    BY <1>1, <1>4, WorkerBegins, WindowBegins
  <2>2. Device'
    BY <1>1, <1>4, <2>1, BegunDevice, CommandLeaves DEF Callers
  <2> QED BY <2>1, <2>2 DEF Begun, Safe
<1>5. CASE Writer \/ DevicePlays
  BY <1>1, <1>5, WriterKeeps DEF Safe
<1> QED BY <1>2, <1>3, <1>4, <1>5, NextCases

-----------------------------------------------------------------------------
(* Sequences of sound *)

\* A sequence of one more.
LEMMA Longer ==
    ASSUME NEW s \in Seq(Int), NEW e \in Int, NEW r, r = Append(s, e)
    PROVE  /\ r \in Seq(Int)
           /\ \A i \in DOMAIN r : \/ i \in DOMAIN s /\ r[i] = s[i]
                                  \/ r[i] = e /\ \A j \in DOMAIN r : j <= i
<1>1. /\ r \in Seq(Int) /\ Len(s) \in Nat /\ DOMAIN s = 1..Len(s) /\ DOMAIN r = 1..(Len(s) + 1)
      /\ \A i \in 1..Len(s) : r[i] = s[i]
      /\ r[Len(s) + 1] = e
  OBVIOUS
<1>2. Len(s) \in Nat
  OBVIOUS
<1>3. PICK n \in Nat : n = Len(s)
  BY <1>2
<1>4. /\ DOMAIN s = 1..n /\ DOMAIN r = 1..(n + 1) /\ r[n + 1] = e
      /\ \A i \in 1..n : r[i] = s[i]
  BY <1>1, <1>3
<1>5. ASSUME NEW i \in DOMAIN r
      PROVE  \/ i \in DOMAIN s /\ r[i] = s[i]
             \/ r[i] = e /\ \A j \in DOMAIN r : j <= i
  <2>1. i \in 1..n \/ i = n + 1
    BY <1>4, <1>5
  <2> QED BY <1>4, <2>1
<1> QED BY <1>1, <1>5

\* A sequence of one less.
LEMMA Shorter ==
    ASSUME NEW s \in Seq(Int), s # <<>>, NEW r, r = Tail(s)
    PROVE  /\ r \in Seq(Int) /\ 1 \in DOMAIN s /\ Head(s) = s[1] /\ Head(s) \in Int
           /\ \A i \in DOMAIN r : i \in Int /\ i + 1 \in DOMAIN s /\ i + 1 > 1 /\ r[i] = s[i + 1]
<1>1. /\ r \in Seq(Int) /\ Len(s) \in Nat /\ Len(s) >= 1
      /\ DOMAIN s = 1..Len(s) /\ DOMAIN r = 1..(Len(s) - 1)
      /\ \A i \in 1..(Len(s) - 1) : r[i] = s[i + 1]
      /\ Head(s) = s[1]
  OBVIOUS
<1>2. Len(s) \in Nat /\ Len(s) >= 1
  OBVIOUS
<1>3. PICK n \in Nat : n = Len(s) /\ n >= 1
  BY <1>2
<1>4. /\ DOMAIN s = 1..n /\ DOMAIN r = 1..(n - 1)
      /\ \A i \in 1..(n - 1) : r[i] = s[i + 1]
  BY <1>1, <1>3
<1>5. 1 \in DOMAIN s /\ s[1] \in Int
  BY <1>3, <1>4
<1>6. \A i \in DOMAIN r : i \in Int /\ i + 1 \in DOMAIN s /\ i + 1 > 1 /\ r[i] = s[i + 1]
  BY <1>4
<1> QED BY <1>1, <1>5, <1>6

\* Two sequences after one another.
LEMMA Joint ==
    ASSUME NEW s \in Seq(Int), NEW t \in Seq(Int), NEW r, r = s \o t
    PROVE  /\ r \in Seq(Int) /\ Len(s) \in Nat /\ DOMAIN s = 1..Len(s)
           /\ DOMAIN r = 1..(Len(s) + Len(t))
           /\ \A i \in DOMAIN r :
                 \/ i \in DOMAIN s /\ r[i] = s[i]
                 \/ i > Len(s) /\ i - Len(s) \in DOMAIN t /\ r[i] = t[i - Len(s)]
<1>1. /\ r \in Seq(Int) /\ Len(s) \in Nat /\ Len(t) \in Nat
      /\ DOMAIN s = 1..Len(s) /\ DOMAIN t = 1..Len(t)
      /\ DOMAIN r = 1..(Len(s) + Len(t))
      /\ \A i \in 1..Len(s) : r[i] = s[i]
      /\ \A i \in DOMAIN r : i > Len(s) => r[i] = t[i - Len(s)]
  OBVIOUS
<1>2. Len(s) \in Nat /\ Len(t) \in Nat
  OBVIOUS
<1>3. PICK m \in Nat, n \in Nat : m = Len(s) /\ n = Len(t)
  BY <1>2
<1>4. ASSUME NEW i \in DOMAIN r
      PROVE  \/ i \in DOMAIN s /\ r[i] = s[i]
             \/ i > m /\ i - m \in DOMAIN t /\ r[i] = t[i - m]
  <2>1. i \in 1..m \/ (i > m /\ i - m \in 1..n)
    BY <1>1, <1>3, <1>4
  <2> QED BY <1>1, <1>3, <1>4, <2>1
<1> QED BY <1>1, <1>3, <1>4

-----------------------------------------------------------------------------
(* The order of the sound, from the device back to the queue *)

Sound(x) == x \in 0..(Length - 1)
Sorted(s) == \A i, j \in DOMAIN s : i < j /\ s[i] >= 0 /\ Sound(s[j]) => s[i] < s[j]
Before(s, t) == \A i \in DOMAIN s, j \in DOMAIN t : s[i] >= 0 /\ Sound(t[j]) => s[i] < t[j]
Ahead(s) == \A i \in DOMAIN s : Sound(s[i]) => heard < s[i]

Ordered ==
    /\ Sorted(device) /\ Sorted(batch) /\ Sorted(queue)
    /\ Before(device, batch) /\ Before(device, queue) /\ Before(batch, queue)
    /\ Ahead(device) /\ Ahead(batch) /\ Ahead(queue)

Sounds ==
    /\ queue \in Seq(Int) /\ batch \in Seq(Int) /\ device \in Seq(Int)
    /\ heard \in Int /\ heard >= None

\* What is dropped, of whichever of them, leaves the rest in order.
LEMMA OrderShrinks ==
    ASSUME Ordered, Sounds, device' \in {device, <<>>}, batch' \in {batch, <<>>},
           queue' \in {queue, <<>>}, heard' \in {heard, None}
    PROVE  Ordered' /\ Sounds'
<1>1. DOMAIN <<>> = {} /\ <<>> \in Seq(Int)
  OBVIOUS
<1>2. Sounds'
  <2>1. heard' \in Int /\ heard' >= None
    BY DEF Sounds, None
  <2>2. queue' \in Seq(Int) /\ batch' \in Seq(Int) /\ device' \in Seq(Int)
    BY <1>1 DEF Sounds
  <2> QED BY <2>1, <2>2 DEF Sounds
<1>3. Sorted(device)' /\ Sorted(batch)' /\ Sorted(queue)'
  BY <1>1 DEF Ordered, Sorted, Sound
<1>4. Before(device, batch)' /\ Before(device, queue)' /\ Before(batch, queue)'
  BY <1>1 DEF Ordered, Before, Sound
<1>5. ASSUME NEW x \in Int, Sound(x), heard < x PROVE heard' < x
  BY <1>5 DEF Sound, None, Sounds
<1>6. Ahead(device)' /\ Ahead(batch)' /\ Ahead(queue)'
  BY <1>1, <1>5 DEF Ordered, Ahead, Sounds, Sound
<1> QED BY <1>2, <1>3, <1>4, <1>6 DEF Ordered

\* What waits or has been heard, silence and grains left out.
Audible ==
    {x \in {device[i] : i \in DOMAIN device} \cup {batch[i] : i \in DOMAIN batch}
           \cup {queue[i] : i \in DOMAIN queue} \cup {heard} : x >= 0}

\* All that can be heard is audible.
LEMMA Heards ==
    ASSUME Sounds
    PROVE  /\ \A i \in DOMAIN device : device[i] >= 0 => device[i] \in Audible
           /\ \A i \in DOMAIN batch : batch[i] >= 0 => batch[i] \in Audible
           /\ \A i \in DOMAIN queue : queue[i] >= 0 => queue[i] \in Audible
           /\ heard >= 0 => heard \in Audible
           /\ Audible \subseteq Int
BY DEF Audible, Sounds

\* The flush that is about to start the writer again has silenced the device.
Silenced ==
    \A c \in Callers :
        Now(c) = "start" => heard = None /\ \A i \in DOMAIN device : device[i] = Silence

\* A flush comes to its end by a device that was dropped or that there is not.
LEMMA StepSilenced ==
    ASSUME Safe, Silenced, NEW c \in Callers, Step(c)
    PROVE  Silenced'
<1>1. Calls /\ Locks /\ Device /\ Turned(c)
  BY StepTurns DEF Safe
<1>2. Turn(c, Now(c), Now(c)') /\ \A d \in Callers : d # c => Now(d)' = Now(d)
  BY <1>1 DEF Turned
<1>3. DOMAIN <<>> = {}
  OBVIOUS
<1> USE DEF outputVars, deviceVars
<1>4. device' \in {device, <<>>} /\ heard' \in {heard, None}
  <2>1. CASE \/ Flush(c) \/ Join(c) \/ Joined(c) \/ Clear(c) \/ Drop(c) \/ Dropping(c)
             \/ Start(c) \/ Close(c) \/ ClosePcm(c) \/ Closed(c)
    BY <2>1 DEF Flush, Join, Joined, Clear, Drop, Dropping, Start, Close, ClosePcm, Closed
  <2>2. CASE \/ OpenDevice(c) \/ Hold(c) \/ CloseOutput(c) \/ Inactive(c) \/ OpenOutput(c)
             \/ Rewind(c) \/ Unlock(c) \/ Reset(c) \/ ScrubOpened(c) \/ NowPlaying(c)
    BY <2>2 DEF OpenDevice, Hold, CloseOutput, Inactive, OpenOutput, Rewind, Unlock, Reset,
                ScrubOpened, NowPlaying
  <2>3. CASE Preroll(c) \/ PlayStep(c) \/ FeedOn(c) \/ ScrubGrain(c)
    BY <2>3 DEF Preroll, PlayStep, FeedOn, Feed, ScrubGrain
  <2> QED BY <2>1, <2>2, <2>3 DEF Step
<1>5. ASSUME NEW d \in Callers, Now(d)' = "start", Now(d) = "start"
      PROVE  heard' = None /\ \A i \in DOMAIN device' : device'[i] = Silence
  BY <1>3, <1>4, <1>5 DEF Silenced
<1>6. ASSUME Now(c)' = "start", Now(c) # "start" PROVE device' = <<>> /\ heard' = None
  <2>1. Now(c) = "dropping" \/ (Now(c) = "drop" /\ ~(open /\ pcm))
    <3>1. Now(c) \in Entries \cup Releases \cup Closing \cup Flushing
      <4>1. Now(c) \in Steps(c) /\ "closeOutput" \in Entries /\ "reset" \in Entries
            /\ "inactive" \in Releases
        BY <1>1, NowAndLeft, StepAt DEF Entries, Releases
      <4> QED BY <4>1 DEF Steps
    <3>2. "start" \notin Entries \cup {"idle", "close", "flush"}
      BY DEF Entries
    <3>3. Now(c) \notin Entries \cup Releases
      BY <1>2, <1>6, <3>2 DEF Turn
    <3> QED BY <1>2, <1>6, <3>1, <3>3, Kinds DEF Turn
  <2>2. ~pcm => device = <<>> /\ heard = None
    BY <1>1 DEF Device, Handles
  <2>3. pcm => open
    BY <1>1 DEF Device, Handles
  <2>4. CASE Now(c) = "dropping"
    <3>1. Dropping(c)
      BY <2>4, StepAt
    <3> QED BY <2>2, <3>1 DEF Dropping
  <2>5. CASE Now(c) = "drop" /\ ~(open /\ pcm)
    BY <1>4, <2>2, <2>3, <2>5
  <2> QED BY <2>1, <2>4, <2>5
<1>7. ASSUME NEW d \in Callers, Now(d)' = "start"
      PROVE  heard' = None /\ \A i \in DOMAIN device' : device'[i] = Silence
  <2>1. CASE Now(d) = "start"
    BY <1>5, <1>7, <2>1
  <2>2. CASE Now(d) # "start"
    BY <1>2, <1>3, <1>6, <1>7, <2>2
  <2> QED BY <2>1, <2>2
<1> QED BY <1>7 DEF Silenced

\* Until then the writer has only silence to add to it.
LEMMA WriterSilenced ==
    ASSUME Safe, Sounds, Silenced, Writer \/ DevicePlays
    PROVE  Silenced'
<1> USE DEF deviceVars, threadVars
<1>1. UNCHANGED todo
  BY DEF Writer, WriterTake, WriterSleep, WriterHold, WriterWrite, WriterNext, WriterEnd,
         DevicePlays, writerElse
<1>2. \A c \in Callers : Now(c)' = Now(c)
  BY <1>1 DEF Now
<1> SUFFICES ASSUME NEW c \in Callers, Now(c) = "start"
             PROVE  heard' = None /\ \A i \in DOMAIN device' : device'[i] = Silence
  BY <1>2 DEF Silenced
<1>3. /\ heard = None /\ \A i \in DOMAIN device : device[i] = Silence
      /\ batch = <<>> /\ device \in Seq(Int)
  BY DEF Silenced, Safe, Device, Counted, Stopped, Sounds
<1>4. Silence \in Int /\ ~(Silence >= 0)
  BY DEF Silence
<1>5. CASE WriterTake \/ WriterSleep \/ WriterNext \/ WriterEnd
  BY <1>3, <1>5 DEF WriterTake, WriterSleep, WriterNext, WriterEnd
<1>6. CASE WriterHold
  <2>1. device' = Append(device, Silence) /\ heard' = heard
    BY <1>6 DEF WriterHold
  <2>2. \A i \in DOMAIN device' : \/ i \in DOMAIN device /\ device'[i] = device[i]
                                  \/ device'[i] = Silence
    BY <1>3, <1>4, <2>1, Longer
  <2> QED BY <1>3, <2>1, <2>2
<1>7. CASE WriterWrite
  BY <1>3, <1>7 DEF WriterWrite
<1>8. CASE DevicePlays
  <2>1. PICK e : e = Head(device)
    OBVIOUS
  <2>2. device # <<>> /\ device' = Tail(device) /\ heard' = IF e >= 0 THEN e ELSE heard
    BY <1>8, <2>1 DEF DevicePlays
  <2>3. /\ 1 \in DOMAIN device /\ e = device[1]
        /\ \A i \in DOMAIN device' : i + 1 \in DOMAIN device /\ device'[i] = device[i + 1]
    BY <1>3, <2>1, <2>2, Shorter
  <2> QED BY <1>3, <1>4, <2>2, <2>3
<1> QED BY <1>5, <1>6, <1>7, <1>8 DEF Writer

\* Every step leaves the device silent where a flush has silenced it.
LEMMA NextSilenced == Safe /\ Sounds /\ Silenced /\ [Next]_vars => Silenced'
<1> SUFFICES ASSUME Safe, Sounds, Silenced, [Next]_vars PROVE Silenced'
  OBVIOUS
<1>1. CASE UNCHANGED vars
  <2>1. UNCHANGED <<todo, device, heard>>
    BY <1>1 DEF vars, outputVars, deviceVars
  <2> QED BY <2>1 DEF Silenced, Now
<1>2. ASSUME NEW c \in Callers, Step(c) PROVE Silenced'
  BY <1>2, StepSilenced
<1>3. CASE Commands \/ EndScrub \/ Destroy
  <2>1. PICK c \in Callers : Begun(c)
    BY <1>3, WorkerBegins, WindowBegins DEF Safe, Callers
  <2>2. Now(c)' # "start" /\ \A d \in Callers : d # c => Now(d)' = Now(d)
    BY <2>1, Kinds DEF Begun, Entries
  <2>3. UNCHANGED <<device, heard>>
    BY <1>3, CommandLeaves
  <2> QED BY <2>2, <2>3 DEF Silenced
<1>4. CASE Writer \/ DevicePlays
  BY <1>4, WriterSilenced
<1> QED BY <1>1, <1>2, <1>3, <1>4, NextCases

\* The writer takes the queue when it has nothing left and hands its batch on
\* from the front; the device plays from its front.
LEMMA WriterOrder ==
    ASSUME Safe, Ordered, Sounds, Writer \/ DevicePlays
    PROVE  Ordered' /\ Sounds' /\ Audible' \subseteq Audible
<1> USE DEF deviceVars, threadVars
<1>1. DOMAIN <<>> = {} /\ <<>> \in Seq(Int)
  OBVIOUS
<1>2. CASE WriterTake
  <2>1. batch = <<>>
    BY <1>2 DEF WriterTake, Safe, Device, Handles
  <2>2. device' = device /\ batch' = queue /\ queue' = <<>> /\ heard' = heard
    BY <1>2 DEF WriterTake
  <2>3. Sounds'
    BY <1>1, <2>2 DEF Sounds
  <2>4. Ordered'
    BY <1>1, <2>2 DEF Ordered, Sorted, Before, Ahead, Sound
  <2>5. Audible' \subseteq Audible
    BY <1>1, <2>2 DEF Audible
  <2> QED BY <2>3, <2>4, <2>5
<1>3. CASE WriterSleep \/ WriterNext \/ WriterEnd
  <2>1. device' = device /\ batch' \in {batch, <<>>} /\ queue' = queue /\ heard' = heard
    BY <1>3 DEF WriterSleep, WriterNext, WriterEnd
  <2>2. Audible' \subseteq Audible
    BY <1>1, <2>1 DEF Audible
  <2> QED BY <2>1, <2>2, OrderShrinks
<1>4. CASE WriterHold
  <2>1. device' = Append(device, Silence) /\ batch' = batch /\ queue' = queue /\ heard' = heard
    BY <1>4 DEF WriterHold
  <2>2. Silence \in Int /\ ~(Silence >= 0)
    BY DEF Silence
  <2>3. /\ device' \in Seq(Int)
        /\ \A i \in DOMAIN device' : \/ i \in DOMAIN device /\ device'[i] = device[i]
                                     \/ device'[i] = Silence
    BY <2>1, <2>2, Longer DEF Sounds
  <2>4. \A i \in DOMAIN device' : device'[i] >= 0 => i \in DOMAIN device /\ device'[i] = device[i]
    BY <2>2, <2>3
  <2>5. Sounds'
    BY <2>1, <2>3 DEF Sounds
  <2>6. \A x : Sound(x) => x >= 0
    BY DEF Sound
  <2>7. Ordered'
    BY <2>1, <2>4, <2>6 DEF Ordered, Sorted, Before, Ahead, Sound
  <2>8. Audible' \subseteq Audible
    BY <2>1, <2>4 DEF Audible
  <2> QED BY <2>5, <2>7, <2>8
<1>5. CASE WriterWrite /\ ~pcm
  <2>1. UNCHANGED <<device, batch, queue, heard>>
    BY <1>5 DEF WriterWrite
  <2>2. Audible' = Audible
    BY <2>1 DEF Audible
  <2> QED BY <2>1, <2>2, OrderShrinks
<1>6. CASE WriterWrite /\ pcm
  <2>1. PICK e : e = Head(batch)
    OBVIOUS
  <2>2. /\ batch # <<>> /\ device' = Append(device, e) /\ batch' = Tail(batch)
        /\ queue' = queue /\ heard' = heard
    BY <1>6, <2>1 DEF WriterWrite
  <2>3. /\ batch' \in Seq(Int) /\ 1 \in DOMAIN batch /\ e = batch[1] /\ e \in Int
        /\ \A i \in DOMAIN batch' :
              i \in Int /\ i + 1 \in DOMAIN batch /\ i + 1 > 1 /\ batch'[i] = batch[i + 1]
    BY <2>1, <2>2, Shorter DEF Sounds
  <2>4. /\ device' \in Seq(Int)
        /\ \A i \in DOMAIN device' : \/ i \in DOMAIN device /\ device'[i] = device[i]
                                     \/ device'[i] = e /\ \A j \in DOMAIN device' : j <= i
    BY <2>2, <2>3, Longer DEF Sounds
  <2>5. Sounds'
    BY <2>2, <2>3, <2>4 DEF Sounds
  <2>6. Sorted(device)'
    <3> SUFFICES ASSUME NEW i \in DOMAIN device', NEW j \in DOMAIN device', i < j,
                        device'[i] >= 0, Sound(device'[j])
                 PROVE  device'[i] < device'[j]
      BY DEF Sorted, Sound
    <3>1. i \in DOMAIN device /\ device'[i] = device[i]
      BY <2>4
    <3>2. CASE j \in DOMAIN device /\ device'[j] = device[j]
      BY <3>1, <3>2 DEF Ordered, Sorted
    <3>3. CASE device'[j] = batch[1]
      BY <2>3, <3>1, <3>3 DEF Ordered, Before
    <3> QED BY <2>3, <2>4, <3>2, <3>3
  <2>7. Sorted(batch)'
    BY <2>3 DEF Ordered, Sorted, Sound
  <2>8. Sorted(queue)'
    BY <2>2 DEF Ordered, Sorted, Sound
  <2>9. Before(device, batch)'
    <3> SUFFICES ASSUME NEW i \in DOMAIN device', NEW j \in DOMAIN batch',
                        device'[i] >= 0, Sound(batch'[j])
                 PROVE  device'[i] < batch'[j]
      BY DEF Before, Sound
    <3>1. j + 1 \in DOMAIN batch /\ 1 < j + 1 /\ batch'[j] = batch[j + 1]
      BY <2>3
    <3>2. CASE i \in DOMAIN device /\ device'[i] = device[i]
      BY <3>1, <3>2 DEF Ordered, Before
    <3>3. CASE device'[i] = batch[1]
      BY <2>3, <3>1, <3>3 DEF Ordered, Sorted
    <3> QED BY <2>3, <2>4, <3>2, <3>3
  <2>10. Before(device, queue)'
    BY <2>2, <2>3, <2>4 DEF Ordered, Before, Sound
  <2>11. Before(batch, queue)'
    BY <2>2, <2>3 DEF Ordered, Before, Sound
  <2>12. Ahead(device)' /\ Ahead(batch)' /\ Ahead(queue)'
    BY <2>2, <2>3, <2>4 DEF Ordered, Ahead, Sound
  <2>13. Audible' \subseteq Audible
    BY <2>2, <2>3, <2>4 DEF Audible
  <2> QED BY <2>5, <2>6, <2>7, <2>8, <2>9, <2>10, <2>11, <2>12, <2>13 DEF Ordered
<1>7. CASE DevicePlays
  <2>1. PICK e : e = Head(device)
    OBVIOUS
  <2>2. /\ device # <<>> /\ device' = Tail(device) /\ batch' = batch /\ queue' = queue
        /\ heard' = IF e >= 0 THEN e ELSE heard
    BY <1>7, <2>1 DEF DevicePlays
  <2>3. /\ device' \in Seq(Int) /\ 1 \in DOMAIN device /\ e = device[1] /\ e \in Int
        /\ \A i \in DOMAIN device' :
              i \in Int /\ i + 1 \in DOMAIN device /\ i + 1 > 1 /\ device'[i] = device[i + 1]
    BY <2>1, <2>2, Shorter DEF Sounds
  <2>4. Sounds'
    BY <2>2, <2>3 DEF Sounds, None
  <2>5. Sorted(device)'
    BY <2>3 DEF Ordered, Sorted, Sound
  <2>6. Sorted(batch)' /\ Sorted(queue)' /\ Before(batch, queue)'
    BY <2>2 DEF Ordered, Sorted, Before, Sound
  <2>7. Before(device, batch)' /\ Before(device, queue)'
    BY SMTT(30), <2>2, <2>3 DEF Ordered, Before, Sound
  <2>8. Ahead(device)'
    <3> SUFFICES ASSUME NEW i \in DOMAIN device', Sound(device'[i]) PROVE heard' < device'[i]
      BY DEF Ahead, Sound
    <3>1. i + 1 \in DOMAIN device /\ 1 < i + 1 /\ device'[i] = device[i + 1]
      BY <2>3
    <3> QED BY <2>2, <2>3, <3>1 DEF Ordered, Ahead, Sorted
  <2>9. Ahead(batch)'
    BY <2>2, <2>3 DEF Ordered, Ahead, Before, Sound
  <2>10. Ahead(queue)'
    BY <2>2, <2>3 DEF Ordered, Ahead, Before, Sound
  <2>11. Audible' \subseteq Audible
    BY <2>2, <2>3 DEF Audible
  <2> QED BY <2>4, <2>5, <2>6, <2>7, <2>8, <2>9, <2>10, <2>11 DEF Ordered
<1> QED BY <1>2, <1>3, <1>4, <1>5, <1>6, <1>7 DEF Writer

\* The operators of FiniteSetsExt on two and three numbers.
LEMMA Greatest ==
    ASSUME NEW a \in Int, NEW b \in Int
    PROVE  /\ Max({a, b}) \in Int /\ Max({a, b}) >= a /\ Max({a, b}) >= b
           /\ Max({a, b}) = a \/ Max({a, b}) = b
<1>1. \E x \in {a, b} : \A y \in {a, b} : x >= y
  <2>1. CASE a >= b
    BY <2>1
  <2>2. CASE b >= a
    BY <2>2
  <2> QED BY <2>1, <2>2
<1>2. Max({a, b}) \in {a, b} /\ \A y \in {a, b} : Max({a, b}) >= y
  BY <1>1 DEF Max
<1> QED BY <1>2

\* The greatest of three.
LEMMA GreatestOfThree ==
    ASSUME NEW a \in Int, NEW b \in Int, NEW d \in Int
    PROVE  /\ Max({a, b, d}) \in Int
           /\ Max({a, b, d}) >= a /\ Max({a, b, d}) >= b /\ Max({a, b, d}) >= d
<1>1. \E x \in {a, b, d} : \A y \in {a, b, d} : x >= y
  <2>1. CASE a >= b /\ a >= d
    BY <2>1
  <2>2. CASE b >= a /\ b >= d
    BY <2>2
  <2>3. CASE d >= a /\ d >= b
    BY <2>3
  <2> QED BY <2>1, <2>2, <2>3
<1>2. Max({a, b, d}) \in {a, b, d} /\ \A y \in {a, b, d} : Max({a, b, d}) >= y
  BY <1>1 DEF Max
<1> QED BY <1>2

\* The least of two.
LEMMA Least ==
    ASSUME NEW a \in Int, NEW b \in Int
    PROVE  Min({a, b}) \in Int /\ (Min({a, b}) = a \/ Min({a, b}) = b)
<1>1. \E x \in {a, b} : \A y \in {a, b} : x <= y
  <2>1. CASE a >= b
    BY <2>1
  <2>2. CASE b >= a
    BY <2>2
  <2> QED BY <2>1, <2>2
<1>2. Min({a, b}) \in {a, b}
  BY <1>1 DEF Min
<1> QED BY <1>2

\* What is fed goes on from the mark, in order, and moves the mark past it.
LEMMA MixGoesOn ==
    ASSUME mark \in Int, frame \in Nat, Length \in Nat, NEW want \in Nat,
           NEW s \in {<<>>, Mixed(frame, want)}, WriteMixed(frame, s)
    PROVE  /\ s \in Seq(Int) /\ mark' \in Int /\ mark' >= mark /\ WriteFloat(s)
           /\ \A i \in DOMAIN s :
                 /\ s[i] >= mark /\ s[i] >= 0
                 /\ s[i] < mark' \/ Length <= mark'
           /\ \A i, j \in DOMAIN s : i < j => s[i] < s[j]
<1>1. WriteFloat(s)
  BY DEF WriteMixed
<1>2. CASE s = <<>>
  <2>1. s \in Seq(Int) /\ DOMAIN s = {}
    BY <1>2
  <2>2. mark' = mark
    BY <1>2 DEF WriteMixed
  <2> QED BY <1>1, <2>1, <2>2
<1>3. CASE s # <<>> /\ s = Mixed(frame, want)
  <2>1. frame \in Int /\ mark \in Int
    OBVIOUS
  <2>2. PICK f \in Int : f = From(frame) /\ f >= frame /\ f >= mark
    <3>1. Max({frame, mark}) \in Int /\ Max({frame, mark}) >= frame /\ Max({frame, mark}) >= mark
      BY <2>1, Greatest
    <3> QED BY <3>1 DEF From
  <2>3. PICK n \in Nat : n = Max({0, frame + want - f})
    <3>1. PICK z \in Int, e \in Int : z = 0 /\ e = frame + want - f
      BY <2>2
    <3>2. Max({z, e}) \in Int /\ Max({z, e}) >= z
      BY Greatest
    <3> QED BY <3>1, <3>2
  <2>4. s = [i \in 1..n |-> f + i - 1]
    BY <1>3, <2>2, <2>3 DEF Mixed
  <2>5. /\ s \in Seq(Int) /\ DOMAIN s = 1..n /\ Len(s) = n
        /\ \A i \in 1..n : s[i] = f + i - 1
    BY <2>4
  <2>6. PICK m \in Int : m = Min({f + n, Length}) /\ (m = f + n \/ m = Length)
    <3>1. f + n \in Int /\ Length \in Int
      BY <2>2, <2>3
    <3>2. Min({f + n, Length}) \in Int
          /\ (Min({f + n, Length}) = f + n \/ Min({f + n, Length}) = Length)
      BY <3>1, Least
    <3> QED BY <3>2
  <2>7. mark' = Max({mark, frame, m})
    BY <1>3, <2>2, <2>5, <2>6 DEF WriteMixed
  <2>8. mark' \in Int /\ mark' >= mark /\ mark' >= m
    <3>1. /\ Max({mark, frame, m}) \in Int
          /\ Max({mark, frame, m}) >= mark /\ Max({mark, frame, m}) >= m
      BY <2>1, GreatestOfThree
    <3> QED BY <2>7, <3>1
  <2>9. \A i \in DOMAIN s : /\ s[i] >= mark /\ s[i] >= 0
                            /\ s[i] < mark' \/ Length <= mark'
    <3> SUFFICES ASSUME NEW i \in 1..n
                 PROVE  s[i] >= mark /\ s[i] >= 0 /\ (s[i] < mark' \/ Length <= mark')
      BY <2>5
    <3>1. PICK k \in Int : k = f + i - 1
      BY <2>2
    <3>2. k = s[i] /\ k = f + i - 1
      BY <2>5, <3>1
    <3>3. k >= mark /\ k >= 0 /\ k < f + n
      BY <2>1, <2>2, <3>2
    <3>4. k < mark' \/ Length <= mark'
      BY SMTT(30), <2>2, <2>6, <2>8, <3>3
    <3> QED BY <3>2, <3>3, <3>4
  <2>10. \A i, j \in DOMAIN s : i < j => s[i] < s[j]
    BY <2>2, <2>5
  <2> QED BY <1>1, <2>5, <2>8, <2>9, <2>10
<1> QED BY <1>2, <1>3

\* What is written comes after all there is.
LEMMA WriteOrder ==
    ASSUME Ordered, Sounds, NEW s \in Seq(Int), WriteFloat(s), Sorted(s),
           \A x \in Audible : \A i \in DOMAIN s : Sound(s[i]) => x < s[i],
           UNCHANGED <<device, batch, heard>>
    PROVE  /\ Ordered' /\ Sounds'
           /\ \A x \in Audible' : x \in Audible \/ \E i \in DOMAIN s : x = s[i] /\ x >= 0
<1>1. DOMAIN <<>> = {} /\ <<>> \in Seq(Int)
  OBVIOUS
<1>2. CASE queue' = queue
  BY <1>2 DEF Ordered, Sorted, Before, Ahead, Sound, Sounds, Audible
<1>3. \A i \in DOMAIN s : Sound(s[i]) => heard < s[i]
  BY SMTT(30), Heards DEF Sounds, Sound, None
<1>4. Before(device, s) /\ Before(batch, s)
  BY Heards DEF Before
<1>5. CASE queue' = s
  <2>1. Sounds'
    BY <1>5 DEF Sounds
  <2>2. Ordered'
    BY <1>3, <1>4, <1>5 DEF Ordered, Sorted, Before, Ahead, Sound
  <2>3. \A x \in Audible' : x \in Audible \/ \E i \in DOMAIN s : x = s[i] /\ x >= 0
    BY <1>5 DEF Audible
  <2> QED BY <2>1, <2>2, <2>3
<1>6. CASE queue' = queue \o s
  <2>1. PICK m \in Nat : m = Len(queue) /\ DOMAIN queue = 1..m
    BY DEF Sounds
  <2>2. PICK r : r = queue'
    OBVIOUS
  <2>3. /\ r \in Seq(Int) /\ DOMAIN r \subseteq Int
        /\ \A i \in DOMAIN r : \/ i \in DOMAIN queue /\ r[i] = queue[i]
                               \/ i > m /\ i - m \in DOMAIN s /\ r[i] = s[i - m]
    BY <1>6, <2>1, <2>2, Joint DEF Sounds
  <2>4. Sounds'
    BY <2>2, <2>3 DEF Sounds
  <2>5. Before(queue, s)
    BY Heards DEF Before
  <2>6. Sorted(r)
    <3> SUFFICES ASSUME NEW i \in DOMAIN r, NEW j \in DOMAIN r, i < j, r[i] >= 0, Sound(r[j])
                 PROVE  r[i] < r[j]
      BY DEF Sorted
    <3>1. CASE j \in DOMAIN queue /\ r[j] = queue[j]
      <4>1. i \in DOMAIN queue /\ r[i] = queue[i]
        BY <2>1, <2>3, <3>1
      <4> QED BY <3>1, <4>1 DEF Ordered, Sorted
    <3>2. CASE j > m /\ j - m \in DOMAIN s /\ r[j] = s[j - m]
      <4>1. CASE i \in DOMAIN queue /\ r[i] = queue[i]
        BY <2>5, <3>2, <4>1 DEF Before
      <4>2. CASE i > m /\ i - m \in DOMAIN s /\ r[i] = s[i - m]
        <5>1. i - m < j - m
          BY <2>1, <2>3
        <5> QED BY <3>2, <4>2, <5>1 DEF Sorted
      <4> QED BY <2>3, <4>1, <4>2
    <3> QED BY <2>3, <3>1, <3>2
  <2>7. Before(device, r) /\ Before(batch, r)
    BY <1>4, <2>3 DEF Ordered, Before
  <2>8. Ahead(r)
    BY <1>3, <2>3 DEF Ordered, Ahead
  <2>9. Ordered'
    BY <2>2, <2>6, <2>7, <2>8 DEF Ordered, Sorted, Before, Ahead, Sound
  <2>10. \A x \in Audible' : x \in Audible \/ \E i \in DOMAIN s : x = s[i] /\ x >= 0
    BY <2>2, <2>3 DEF Audible
  <2> QED BY <2>4, <2>9, <2>10
<1> QED BY <1>2, <1>5, <1>6 DEF WriteFloat, Enqueued

-----------------------------------------------------------------------------
(* What waits was fed: the mark of the clip is past it *)

Covers == \A x \in Audible : x < mark \/ Length <= mark

\* A flush goes back to the start of the feeding before it has silenced.
Exempt == \E c \in Callers : Now(c) \in (Flushing \ {"start"}) \cup Closing

Marks ==
    /\ mark \in Int /\ frame \in 0..Length
    /\ ~Exempt => Covers
    /\ ~active => Audible = {}
    /\ ~open => Audible = {}
    /\ \A c \in Callers : Now(c) = "inactive" => Audible = {}
    /\ "feedOn" \in Left("worker") => active

\* Where nothing waits any more any mark will do.
LEMMA MarksSilent ==
    ASSUME Marks, Audible' = {}, mark' \in Int, frame' = frame,
           "feedOn" \in Left("worker")' => active'
    PROVE  Marks'
BY DEF Marks, Covers

\* A mark that goes up stays past what waits.
LEMMA MarksKept ==
    ASSUME Marks, Length \in Nat, Audible \subseteq Int, Audible' \subseteq Audible,
           mark' \in Int, mark' >= mark, frame' \in 0..Length,
           Exempt => Exempt', active => active', active' => active, open => open',
           \A c \in Callers : Now(c)' = "inactive" => Now(c) = "inactive" \/ Audible = {},
           "feedOn" \in Left("worker")' => active
    PROVE  Marks'
<1>1. Covers => Covers'
  <2> SUFFICES ASSUME Covers, NEW x \in Audible' PROVE x < mark' \/ Length <= mark'
    BY DEF Covers
  <2>1. x \in Int /\ mark \in Int /\ (x < mark \/ Length <= mark)
    BY DEF Covers, Marks
  <2> QED BY <2>1
<1> QED BY <1>1 DEF Marks

\* Silence, all round.
LEMMA Nothing ==
    ASSUME queue = <<>>, batch = <<>>, heard = None,
           \A i \in DOMAIN device : device[i] = Silence
    PROVE  Audible = {}
<1>1. DOMAIN <<>> = {}
  OBVIOUS
<1> QED BY <1>1 DEF Audible, None, Silence

\* What a caller is at once its step is replaced.
LEMMA FirstOf ==
    ASSUME Calls, NEW c \in Callers, Now(c) # "idle", NEW S, NEW s \in Seq(S), s # <<>>, Then(c, s)
    PROVE  Now(c)' = s[1]
<1>1. PICK t : t = todo[c] /\ t # <<>> /\ t \in Seq(Steps(c))
  BY NowAndLeft DEF Calls, Shape
<1>2. PICK u : u = s \o Tail(t)
  OBVIOUS
<1>3. todo'[c] = u
  BY <1>1, <1>2 DEF Then, Calls
<1> DEFINE R == S \cup Steps(c)
<1>4. s \in Seq(R) /\ t \in Seq(R)
  BY <1>1
<1> HIDE DEF R
<1>5. /\ u \in Seq(R) /\ Len(u) = Len(s) + (Len(t) - 1)
      /\ Len(s) \in Nat /\ Len(t) \in Nat /\ Len(t) >= 1
      /\ \A i \in 1..Len(s) : u[i] = s[i]
  BY <1>1, <1>2, <1>4, Splice
<1>6. Len(s) >= 1
  BY <1>4
<1>7. u # <<>> /\ Head(u) = u[1] /\ u[1] = s[1]
  BY <1>5, <1>6
<1> QED BY <1>3, <1>7 DEF Now

\* What is fed and written.
LEMMA FeedSorts ==
    ASSUME Safe, Sounds, Ordered, Covers, mark \in Int, frame \in 0..Length, Length \in Nat,
           NEW want \in Nat, NEW s \in {<<>>, Mixed(frame, want)}, WriteMixed(frame, s),
           UNCHANGED <<device, batch, heard>>
    PROVE  Sounds' /\ Ordered' /\ Covers' /\ mark' \in Int
<1>1. frame \in Nat
  OBVIOUS
<1>2. /\ s \in Seq(Int) /\ mark' \in Int /\ mark' >= mark /\ WriteFloat(s)
      /\ \A i \in DOMAIN s : /\ s[i] >= mark /\ s[i] >= 0
                             /\ s[i] < mark' \/ Length <= mark'
      /\ \A i, j \in DOMAIN s : i < j => s[i] < s[j]
  BY <1>1, MixGoesOn
<1>3. Sorted(s)
  BY <1>2 DEF Sorted
<1>4. Audible \subseteq Int
  BY Heards
<1>5. \A x \in Audible : \A i \in DOMAIN s : Sound(s[i]) => x < s[i]
  <2> SUFFICES ASSUME NEW x \in Audible, NEW i \in DOMAIN s, Sound(s[i]) PROVE x < s[i]
    OBVIOUS
  <2>1. x \in Int /\ (x < mark \/ Length <= mark)
    BY <1>4 DEF Covers
  <2>2. s[i] \in Int /\ s[i] >= mark /\ s[i] < Length
    BY <1>2 DEF Sound
  <2> QED BY <2>1, <2>2
<1>6. /\ Ordered' /\ Sounds'
      /\ \A x \in Audible' : x \in Audible \/ \E i \in DOMAIN s : x = s[i] /\ x >= 0
  BY <1>2, <1>3, <1>5, WriteOrder
<1>7. Covers'
  <2> SUFFICES ASSUME NEW x \in Audible' PROVE x < mark' \/ Length <= mark'
    BY DEF Covers
  <2>1. CASE x \in Audible
    <3>1. x \in Int /\ (x < mark \/ Length <= mark)
      BY <1>4, <2>1 DEF Covers
    <3> QED BY <1>2, <3>1
  <2>2. CASE \E i \in DOMAIN s : x = s[i] /\ x >= 0
    BY <1>2, <2>2
  <2> QED BY <1>6, <2>1, <2>2
<1> QED BY <1>2, <1>6, <1>7

Sorts == Sounds /\ Ordered /\ Marks

\* Every step of a call keeps what waits in order and behind the mark, or
\* is about to silence it.
LEMMA StepSorts ==
    ASSUME Safe, Safe', Silenced, Silenced', Sorts, NEW c \in Callers, Step(c)
    PROVE  Sorts'
<1>1. Calls /\ Locks /\ Device /\ Turned(c)
  BY StepTurns DEF Safe
<1>2. PICK d \in Callers : d # c /\ Callers = {c, d}
  BY DEF Callers
<1>3. Now(d)' = Now(d) /\ Left(d)' = Left(d)
  BY <1>1, <1>2 DEF Turned
<1>4. Turn(c, Now(c), Now(c)')
  BY <1>1 DEF Turned
<1>5. Length \in Nat /\ Lead \in Nat
  BY AudioAssumption
<1>6. /\ Sounds /\ Ordered /\ Marks /\ mark \in Int /\ frame \in 0..Length
      /\ Audible \subseteq Int
  BY Heards DEF Sorts, Marks
<1>7. ASSUME c = "worker", Now(c) # "idle", Free("worker")
      PROVE  Now(d) # "inactive" /\ Now(d) \notin Flushing \cup Closing
  <2>1. d = "window" /\ ~Busy("window")
    BY <1>1, <1>2, <1>7, FreeAlone DEF Callers
  <2> QED BY <2>1 DEF Busy, Releases
<1>8. "feedOn" \in Left("worker")' =>
         /\ active \/ "feedOn" \in Left("worker")
         /\ c = "worker" => Now(c) \notin Releases
  BY <1>1, <1>2, <1>3 DEF Turned, Callers
<1>9. "feedOn" \in Left("worker")' => active
  BY <1>6, <1>8 DEF Marks
<1>10. ASSUME NEW x, At(c, x) PROVE Now(c) = x
  BY <1>10, AtNow
<1>11. ASSUME device' \in {device, <<>>}, batch' \in {batch, <<>>}, queue' \in {queue, <<>>},
              heard' \in {heard, None}
       PROVE  Ordered' /\ Sounds' /\ Audible' \subseteq Audible
  <2>1. DOMAIN <<>> = {} /\ ~(None >= 0)
    BY DEF None
  <2>2. Audible' \subseteq Audible
    BY <1>11, <2>1 DEF Audible
  <2> QED BY <1>6, <1>11, <2>2, OrderShrinks
(* Inside a call of the output *)
<1>12. ASSUME Now(c) \in Flushing \cup Closing,
              device' \in {device, <<>>}, batch' \in {batch, <<>>}, queue' \in {queue, <<>>},
              heard' \in {heard, None},
              UNCHANGED <<mark, frame, active>>,
              ((open => open') /\ Now(c) # "closed") \/ Audible' = {}
       PROVE  Sorts'
  <2>1. Ordered' /\ Sounds' /\ Audible' \subseteq Audible
    BY <1>11, <1>12
  <2>2. CASE Audible' = {}
    BY <1>6, <1>9, <1>12, <2>1, <2>2, MarksSilent DEF Sorts
  <2>3. CASE Audible' # {}
    <3>1. Now(c) # "start" /\ Now(c)' # "start"
      <4>1. Counted(c) /\ Counted(c)'
        BY <1>1 DEF Safe, Device
      <4>2. Now(c) = "start" => Audible = {}
        BY <4>1, Nothing DEF Counted, Stopped, Silenced
      <4>3. Now(c)' = "start" => Audible' = {}
        <5> SUFFICES ASSUME Now(c)' = "start" PROVE Audible' = {}
          OBVIOUS
        <5>1. queue' = <<>> /\ batch' = <<>>
          BY <4>1 DEF Counted, Stopped
        <5>2. heard' = None /\ \A i \in DOMAIN device' : device'[i] = Silence
          BY DEF Silenced
        <5>3. DOMAIN <<>> = {}
          OBVIOUS
        <5> QED BY <5>1, <5>2, <5>3 DEF Audible, None, Silence
      <4> QED BY <2>1, <2>3, <4>2, <4>3
    <3>2. Now(c) # "closed" /\ open
      BY <1>6, <1>12, <2>1, <2>3 DEF Marks
    <3>3. Now(c)' \in (Flushing \ {"start"}) \cup Closing
      BY <1>4, <1>12, <3>1, <3>2 DEF Turn, Flushing, Closing
    <3>4. Exempt' /\ open' /\ active
      BY <1>6, <1>12, <2>1, <2>3, <3>3 DEF Exempt, Marks
    <3>5. Now(c)' # "inactive"
      BY <3>3 DEF Flushing, Closing
    <3> QED BY <1>2, <1>3, <1>5, <1>6, <1>9, <1>12, <2>1, <3>4, <3>5, MarksKept DEF Sorts
  <2> QED BY <2>2, <2>3
(* Around one *)
<1>13. ASSUME Now(c) \in Entries \cup Releases,
              UNCHANGED <<queue, batch, device, heard, open, active, frame>>,
              mark' = mark \/ (mark' \in Int /\ (Audible = {} \/ Now(c)' = "flush"))
       PROVE  Sorts'
  <2>1. Ordered' /\ Sounds' /\ Audible' \subseteq Audible
    BY <1>11, <1>13
  <2>2. Now(c) \notin (Flushing \ {"start"}) \cup Closing /\ Now(c)' # "inactive"
    BY <1>4, <1>13, Kinds DEF Turn, Entries
  <2>3. Exempt => Exempt'
    BY <1>2, <1>3, <2>2 DEF Exempt
  <2>4. CASE mark' = mark
    BY <1>2, <1>3, <1>5, <1>6, <1>9, <1>13, <2>1, <2>2, <2>3, <2>4, MarksKept DEF Sorts
  <2>5. CASE mark' \in Int /\ Audible = {}
    BY <1>6, <1>9, <1>13, <2>1, <2>5, MarksSilent DEF Sorts
  <2>6. CASE mark' \in Int /\ Now(c)' = "flush"
    <3>1. Exempt'
      BY <2>6 DEF Exempt, Flushing
    <3> QED BY <1>2, <1>3, <1>6, <1>9, <1>13, <2>1, <2>2, <2>6, <3>1 DEF Sorts, Marks
  <2> QED BY <1>13, <2>4, <2>5, <2>6
<1> USE DEF outputVars, deviceVars, threadVars, pipeVars, playVars
<1>14. CASE \/ Flush(c) \/ Join(c) \/ Joined(c) \/ Clear(c) \/ Drop(c) \/ Dropping(c) \/ Start(c)
            \/ Close(c) \/ ClosePcm(c)
  <2>1. Now(c) \in Flushing \cup Closing
    BY <1>10, <1>14 DEF Flush, Join, Joined, Clear, Drop, Dropping, Start, Close, ClosePcm,
                        Flushing, Closing
  <2>2. Now(c) # "closed"
    BY <1>10, <1>14 DEF Flush, Join, Joined, Clear, Drop, Dropping, Start, Close, ClosePcm
  <2>3. /\ device' \in {device, <<>>} /\ batch' \in {batch, <<>>} /\ queue' \in {queue, <<>>}
        /\ heard' \in {heard, None} /\ UNCHANGED <<mark, frame, active, open>>
    BY <1>14 DEF Flush, Join, Joined, Clear, Drop, Dropping, Start, Close, ClosePcm
  <2> QED BY <1>12, <2>1, <2>3, <2>2
<1>15. CASE Closed(c)
  <2>1. Now(c) = "closed"
    BY <1>10, <1>15 DEF Closed
  <2>2. batch = <<>> /\ device = <<>> /\ heard = None
    BY <1>1, <2>1 DEF Device, Counted, Handles, Stopped
  <2>3. queue' = <<>> /\ UNCHANGED <<batch, device, heard, mark, frame, active>>
    BY <1>15 DEF Closed
  <2>4. Audible' = {}
    <3>1. DOMAIN <<>> = {}
      OBVIOUS
    <3> QED BY <2>2, <2>3, <3>1 DEF Audible, None
  <2>5. Now(c) \in Flushing \cup Closing
    BY <2>1 DEF Closing
  <2> QED BY <1>12, <2>3, <2>4, <2>5
<1>16. CASE OpenDevice(c)
  <2>1. Now(c) = "openDevice" /\ c = "worker" /\ Now(c) # "idle" /\ Free("worker")
    BY <1>1, <1>10, <1>16, OnlyWorker DEF OpenDevice, Releases
  <2>2. UNCHANGED <<queue, batch, device, heard, mark, frame>>
        /\ (active => active') /\ (open => open')
    BY <1>16 DEF OpenDevice
  <2>3. Ordered' /\ Sounds' /\ Audible' \subseteq Audible
    BY <1>11, <2>2
  <2>4. Now(c)' # "inactive" /\ Now(d)' # "inactive"
    BY <1>3, <1>4, <1>7, <2>1 DEF Turn, Entries, Releases
  <2>5. ~Exempt
    BY <1>2, <1>7, <2>1 DEF Exempt, Flushing, Closing
  <2>6. Covers'
    BY <1>6, <2>2, <2>3, <2>5 DEF Marks, Covers
  <2> QED BY <1>2, <1>6, <1>9, <2>2, <2>3, <2>4, <2>6 DEF Sorts, Marks
<1>17. CASE Inactive(c)
  <2>1. Now(c) = "inactive"
    BY <1>10, <1>17 DEF Inactive
  <2>2. UNCHANGED <<queue, batch, device, heard, mark, frame>>
    BY <1>17 DEF Inactive
  <2>3. Ordered' /\ Sounds' /\ Audible' = {}
    BY <1>6, <1>11, <2>1, <2>2 DEF Marks
  <2>4. "feedOn" \notin Left("worker")'
    <3>1. CASE c = "worker"
      BY <1>8, <2>1, <3>1 DEF Releases
    <3>2. CASE c = "window"
      <4>1. Left("worker")' = Left("worker")
        BY <1>2, <1>3, <3>2 DEF Callers
      <4>2. mutex = "window" \/ quit
        BY <1>1, <2>1, <3>2, NowAndLeft DEF Locks, Releases, Callers
      <4>3. quit => Left("worker") = {}
        BY <1>1, NowAndLeft DEF Locks, Callers
      <4>4. "feedOn" \in Left("worker") => mutex = "worker"
        BY <1>1 DEF Locks, Releases
      <4> QED BY <4>1, <4>2, <4>3, <4>4
    <3> QED BY <3>1, <3>2 DEF Callers
  <2> QED BY <1>6, <2>2, <2>3, <2>4, MarksSilent DEF Sorts
<1>18. CASE \/ CloseOutput(c) \/ OpenOutput(c) \/ Unlock(c)
            \/ Hold(c) \/ ScrubOpened(c) \/ NowPlaying(c)
  <2>1. Now(c) \in Entries \cup Releases
    BY <1>10, <1>18 DEF CloseOutput, OpenOutput, Unlock, Hold, ScrubOpened, NowPlaying,
                        Entries, Releases
  <2>2. UNCHANGED <<queue, batch, device, heard, open, active, frame, mark>>
    BY <1>18 DEF CloseOutput, OpenOutput, Unlock, Hold, ScrubOpened, NowPlaying
  <2> QED BY <1>13, <2>1, <2>2
<1>19. ASSUME Now(c) \in Entries, UNCHANGED <<queue, batch, device, heard, open, active, frame>>,
              NEW s \in Seq({"flush", "unlock", "inactive", "feedOn"}), s # <<>>, s[1] = "flush",
              mark' = None, active => Then(c, s)
       PROVE  Sorts'
  <2>1. Now(c) # "idle"
    BY <1>19, Kinds
  <2>2. active => Now(c)' = "flush"
    BY <1>1, <1>19, <2>1, FirstOf
  <2>3. ~active => Audible = {}
    BY <1>6 DEF Marks
  <2> QED BY <1>13, <1>19, <2>2, <2>3 DEF None
<1>20. CASE Rewind(c)
  <2>1. Now(c) \in Entries
    BY <1>10, <1>20 DEF Rewind, Entries
  <2>2. /\ <<"flush", "unlock">> \in Seq({"flush", "unlock", "inactive", "feedOn"})
        /\ <<"flush", "unlock">>[1] = "flush"
    OBVIOUS
  <2>3. PICK s \in Seq({"flush", "unlock", "inactive", "feedOn"}) :
           s = <<"flush", "unlock">> /\ s # <<>> /\ s[1] = "flush"
    BY <2>2
  <2>4. s = <<"flush">> \o <<"unlock">>
    BY <2>3, OneAndOne
  <2> QED BY <1>19, <1>20, <2>1, <2>3, <2>4 DEF Rewind, Anchored
<1>21. CASE Reset(c)
  <2>1. Now(c) \in Entries
    BY <1>10, <1>21 DEF Reset, Entries
  <2>2. /\ <<"flush", "inactive">> \in Seq({"flush", "unlock", "inactive", "feedOn"})
        /\ <<"flush", "inactive">>[1] = "flush"
    OBVIOUS
  <2>3. PICK s \in Seq({"flush", "unlock", "inactive", "feedOn"}) :
           s = <<"flush", "inactive">> /\ s # <<>> /\ s[1] = "flush"
    BY <2>2
  <2> QED BY <1>19, <1>21, <2>1, <2>3 DEF Reset
<1>22. ASSUME Now(c) \in Entries \/ Now(c) = "feedOn", c = "worker", Free("worker"), active,
              NEW want \in Nat, NEW s \in {<<>>, Mixed(frame, want)}, WriteMixed(frame, s),
              UNCHANGED <<device, batch, heard, frame, active, open>>
       PROVE  Sorts'
  <2>1. ~Exempt
    BY <1>2, <1>7, <1>22, Kinds DEF Exempt, Entries, Flushing, Closing
  <2>2. Sounds' /\ Ordered' /\ Covers' /\ mark' \in Int
    BY <1>5, <1>6, <1>22, <2>1, FeedSorts DEF Marks
  <2>3. Now(c)' # "inactive" /\ Now(d)' # "inactive"
    BY <1>3, <1>4, <1>7, <1>22, Kinds DEF Turn, Entries, Releases
  <2>4. ~open => queue' = queue
    BY <1>22 DEF WriteMixed, WriteFloat
  <2>5. ~open => Audible' = {}
    BY <1>6, <1>22, <2>4 DEF Audible, Marks
  <2> QED BY <1>2, <1>6, <1>22, <2>2, <2>3, <2>5 DEF Sorts, Marks
<1>23. CASE Preroll(c)
  <2>1. Now(c) \in Entries /\ c = "worker" /\ Free("worker")
    BY <1>1, <1>10, <1>23, OnlyWorker DEF Preroll, Entries
  <2>2. CASE Ready
    <3>1. PICK s \in {<<>>, Mixed(frame, Lead)} : WriteMixed(frame, s)
      BY <1>23, <2>2 DEF Preroll
    <3>2. active
      BY <2>2 DEF Ready
    <3> QED BY <1>5, <1>22, <1>23, <2>1, <3>1, <3>2 DEF Preroll
  <2>3. CASE ~Ready
    BY <1>13, <1>23, <2>1, <2>3 DEF Preroll
  <2> QED BY <2>2, <2>3
<1>24. ASSUME Feed(c), active, c = "worker", Free("worker"), Now(c) \in Entries \/ Now(c) = "feedOn"
       PROVE  Sorts'
  <2>1. PICK s \in Fed(frame) : WriteMixed(frame, s)
    BY <1>24 DEF Feed
  <2>2. \E want \in {1, 2} : s \in {<<>>, Mixed(frame, want)}
    BY <2>1 DEF Fed
  <2>3. PICK want \in Nat : s \in {<<>>, Mixed(frame, want)}
    BY <2>2
  <2> QED BY <1>22, <1>24, <2>1, <2>3 DEF Feed
<1>25. CASE PlayStep(c)
  <2>1. Now(c) \in Entries /\ c = "worker" /\ Free("worker")
    BY <1>1, <1>10, <1>25, OnlyWorker DEF PlayStep, Entries
  <2>2. CASE ~Ready
    BY <1>13, <1>25, <2>1, <2>2 DEF PlayStep
  <2>3. CASE Ready /\ Feed(c)
    BY <1>24, <2>1, <2>3 DEF Ready
  <2>4. CASE /\ Ready /\ Anchored(c, <<"feedOn">>)
             /\ UNCHANGED <<outputVars, active, playVars, crashed, bounds>>
    <3>1. /\ <<"flush", "feedOn">> \in Seq({"flush", "unlock", "inactive", "feedOn"})
          /\ <<"flush", "feedOn">>[1] = "flush"
      OBVIOUS
    <3>2. PICK s \in Seq({"flush", "unlock", "inactive", "feedOn"}) :
             s = <<"flush", "feedOn">> /\ s # <<>> /\ s[1] = "flush"
      BY <3>1
    <3>3. s = <<"flush">> \o <<"feedOn">>
      BY <3>2, OneAndOne
    <3> QED BY <1>19, <2>1, <2>4, <3>2, <3>3 DEF Anchored
  <2> QED BY <1>25, <2>2, <2>3, <2>4 DEF PlayStep
<1>26. CASE FeedOn(c)
  <2>1. Now(c) = "feedOn" /\ c = "worker" /\ Free("worker")
    BY <1>1, <1>10, <1>26, OnlyWorker DEF FeedOn, Releases
  <2>2. "feedOn" \in Left("worker")
    BY <1>1, <2>1, NowAndLeft
  <2>3. active
    BY <1>6, <2>2 DEF Marks
  <2> QED BY <1>24, <1>26, <2>1, <2>3 DEF FeedOn
<1>27. CASE ScrubGrain(c)
  <2>1. Now(c) \in Entries /\ Now(c) # "idle" /\ c = "worker" /\ Free("worker")
    BY <1>1, <1>10, <1>27, OnlyWorker DEF ScrubGrain, Entries
  <2>2. PICK s \in Seq(Int) : WriteFloat(s) /\ \A i \in DOMAIN s : s[i] = Grain
    <3>1. /\ <<Grain>> \in Seq(Int) /\ <<>> \in Seq(Int)
          /\ \A i \in DOMAIN <<Grain>> : <<Grain>>[i] = Grain
      BY DEF Grain
    <3>2. WriteFloat(<<Grain>>) \/ WriteFloat(<<>>)
      BY <1>27 DEF ScrubGrain
    <3>3. DOMAIN <<>> = {}
      OBVIOUS
    <3> QED BY <3>1, <3>2, <3>3
  <2>3. UNCHANGED <<device, batch, heard, open, active, mark, frame>>
    BY <1>27 DEF ScrubGrain
  <2>4. \A i \in DOMAIN s : ~(s[i] >= 0) /\ ~Sound(s[i])
    BY <2>2 DEF Grain, Sound
  <2>5. /\ Ordered' /\ Sounds'
        /\ \A x \in Audible' : x \in Audible \/ \E i \in DOMAIN s : x = s[i] /\ x >= 0
    <3>1. Sorted(s)
      BY <2>4 DEF Sorted
    <3> QED BY <1>6, <2>2, <2>3, <2>4, <3>1, WriteOrder
  <2>6. Audible' \subseteq Audible
    BY <2>4, <2>5
  <2>7. Now(c)' # "inactive" /\ Now(d)' # "inactive"
    BY <1>3, <1>4, <1>7, <2>1, Kinds DEF Turn, Entries
  <2>8. Exempt => Exempt'
    BY <1>2, <1>3, <2>1, Kinds DEF Exempt
  <2> QED BY <1>2, <1>5, <1>6, <1>9, <2>3, <2>5, <2>6, <2>7, <2>8, MarksKept DEF Sorts
<1> QED BY <1>14, <1>15, <1>16, <1>17, <1>18, <1>20, <1>21, <1>23, <1>25, <1>26, <1>27 DEF Step

\* Only a late picture moves the mark with no sound, and only up.
LEMMA CommandMarks ==
    ASSUME mark \in Int, frame \in 0..Length, Length \in Nat, Length >= 1,
           Commands \/ EndScrub \/ Destroy
    PROVE  mark' \in Int /\ mark' >= mark /\ frame' \in 0..Length
<1>1. CASE Present
  <2>1. PICK late \in frame..(Length - 1) :
           /\ frame' = late + 1
           /\ mark' = IF late > frame /\ active THEN Max({0, mark, late}) ELSE mark
    BY <1>1 DEF Present
  <2>2. PICK z \in Int : z = 0
    OBVIOUS
  <2>3. late \in Int
    OBVIOUS
  <2>4. Max({z, mark, late}) \in Int /\ Max({z, mark, late}) >= mark
    BY <2>3, GreatestOfThree
  <2>5. mark' \in Int /\ mark' >= mark
    BY <2>1, <2>2, <2>4
  <2>6. frame' \in 0..Length
    BY <2>1
  <2> QED BY <2>5, <2>6
<1>2. CASE Play
  BY <1>2 DEF Play, pipeVars
<1>3. CASE \E f \in 0..(Length - 1) : Seek(f) \/ SeekPreview(f)
  BY <1>3 DEF Seek, SeekPreview, pipeVars
<1>4. CASE Pause \/ ReleaseAudio \/ SetProject \/ PlayedOut \/ EndScrub \/ Destroy
  BY <1>4 DEF Pause, ReleaseAudio, SetProject, PlayedOut, EndScrub, Destroy, pipeVars, playVars
<1> QED BY <1>1, <1>2, <1>3, <1>4 DEF Commands

\* Commands leave what waits where it is.
LEMMA CommandSorts ==
    ASSUME Sorts, NEW c \in Callers, Begun(c), Commands \/ EndScrub \/ Destroy
    PROVE  Sorts'
<1>1. Length \in Nat /\ Length >= 1
  BY AudioAssumption
<1>2. Sounds /\ Ordered /\ Marks /\ Audible \subseteq Int
  BY Heards DEF Sorts
<1>3. mark' \in Int /\ mark' >= mark /\ frame' \in 0..Length
  BY <1>1, <1>2, CommandMarks DEF Marks
<1>4. UNCHANGED <<queue, batch, device, heard, open, active>>
  BY CommandLeaves
<1>5. Ordered' /\ Sounds'
  BY <1>2, <1>4, OrderShrinks
<1>6. Audible' = Audible
  BY <1>4 DEF Audible
<1>7. \A d \in Callers : d # c => Now(d)' = Now(d) /\ Left(d)' = Left(d)
  BY DEF Begun
<1>8. Now(c) = "idle" /\ Now(c)' # "inactive" /\ "feedOn" \notin Left(c)'
  BY Kinds DEF Begun, Entries
<1>9. Exempt => Exempt'
  BY <1>7, <1>8, Kinds DEF Exempt
<1>10. "feedOn" \in Left("worker")' => active
  BY <1>2, <1>7, <1>8 DEF Marks, Callers
<1>11. \A d \in Callers : Now(d)' = "inactive" => Now(d) = "inactive"
  BY <1>7, <1>8
<1> QED BY <1>1, <1>2, <1>3, <1>4, <1>5, <1>6, <1>9, <1>10, <1>11, MarksKept DEF Sorts

\* The writer and the device keep it in order.
LEMMA WriterSorts ==
    ASSUME Safe, Sorts, Writer \/ DevicePlays
    PROVE  Sorts'
<1>1. Length \in Nat
  BY AudioAssumption
<1>2. Sounds /\ Ordered /\ Marks /\ Audible \subseteq Int
  BY Heards DEF Sorts
<1>3. Ordered' /\ Sounds' /\ Audible' \subseteq Audible
  BY <1>2, WriterOrder
<1>4. UNCHANGED <<todo, mutex, quit, mark, frame, active, open>>
  BY DEF Writer, WriterTake, WriterSleep, WriterHold, WriterWrite, WriterNext, WriterEnd,
         DevicePlays, writerElse, pipeVars, playVars, bounds
<1>5. \A c \in Callers : Now(c)' = Now(c) /\ Left(c)' = Left(c)
  BY <1>4, Apartness DEF Safe
<1>6. Exempt => Exempt'
  BY <1>5 DEF Exempt
<1>7. "feedOn" \in Left("worker")' => active
  BY <1>2, <1>5 DEF Marks, Callers
<1>8. mark' \in Int /\ mark' >= mark /\ frame' \in 0..Length
  BY <1>2, <1>4 DEF Marks
<1>9. \A d \in Callers : Now(d)' = "inactive" => Now(d) = "inactive"
  BY <1>5
<1> QED BY <1>1, <1>2, <1>3, <1>4, <1>6, <1>7, <1>8, <1>9, MarksKept DEF Sorts

\* At the start nothing waits.
LEMMA InitSorts == Init => Sorts
<1> SUFFICES ASSUME Init PROVE Sorts
  OBVIOUS
<1>1. DOMAIN <<>> = {} /\ <<>> \in Seq(Int)
  OBVIOUS
<1>2. queue = <<>> /\ batch = <<>> /\ device = <<>> /\ heard = None /\ None \in Int
  BY DEF Init, None
<1>3. Sounds /\ Ordered
  BY <1>1, <1>2 DEF Sounds, Ordered, Sorted, Before, Ahead, None
<1>4. Audible = {}
  BY <1>2, Nothing
<1>5. mark \in Int /\ frame \in 0..Length
  BY AudioAssumption DEF Init, None
<1>6. "feedOn" \notin Left("worker")
  BY DEF Init, Left, Callers
<1> QED BY <1>3, <1>4, <1>5, <1>6 DEF Sorts, Marks, Covers

\* Every step keeps what waits in order.
LEMMA NextSorts == Safe /\ Silenced /\ Sorts /\ [Next]_vars => Sorts'
<1> SUFFICES ASSUME Safe, Silenced, Sorts, [Next]_vars PROVE Sorts'
  OBVIOUS
<1>1. Safe' /\ Silenced'
  BY NextSafe, NextSilenced DEF Sorts
<1>2. CASE UNCHANGED vars
  <2>1. UNCHANGED <<todo, mutex, quit, queue, batch, device, heard, open, active, mark, frame>>
    BY <1>2 DEF vars, outputVars, deviceVars, threadVars, pipeVars, playVars, bounds
  <2>2. \A c \in Callers : Now(c)' = Now(c) /\ Left(c)' = Left(c)
    BY <2>1, Apartness DEF Safe
  <2>3. Sounds /\ Ordered /\ Marks
    BY DEF Sorts
  <2>4. Ordered' /\ Sounds'
    BY <2>1, <2>3, OrderShrinks
  <2>5. Audible' = Audible
    BY <2>1 DEF Audible
  <2>6. Exempt' <=> Exempt
    BY <2>2 DEF Exempt
  <2>7. Marks'
    BY <2>1, <2>2, <2>3, <2>5, <2>6 DEF Marks, Covers, Callers
  <2> QED BY <2>4, <2>7 DEF Sorts
<1>3. ASSUME NEW c \in Callers, Step(c) PROVE Sorts'
  BY <1>1, <1>3, StepSorts
<1>4. CASE Commands \/ EndScrub \/ Destroy
  <2>1. Begun("worker") \/ Begun("window")
    BY <1>4, WorkerBegins, WindowBegins DEF Safe
  <2> QED BY <1>4, <2>1, CommandSorts DEF Callers
<1>5. CASE Writer \/ DevicePlays
  BY <1>5, WriterSorts
<1> QED BY <1>2, <1>3, <1>4, <1>5, NextCases

\* What is in order piece by piece is in order from the device back to the
\* queue.
LEMMA OrderedIsInOrder ==
    ASSUME Sounds, Ordered
    PROVE  InOrder
<1>1. PICK a : a = device \o batch
  OBVIOUS
<1> DEFINE r == device \o batch \o queue
<1>2. r = a \o queue
  BY <1>1
<1> HIDE DEF r
<1>3. /\ a \in Seq(Int) /\ device \in Seq(Int) /\ batch \in Seq(Int)
       /\ Len(a) \in Nat /\ Len(device) \in Nat /\ Len(batch) \in Nat
  <2>1. device \o batch \in Seq(Int) /\ device \in Seq(Int) /\ batch \in Seq(Int)
    BY DEF Sounds
  <2>2. a \in Seq(Int)
    BY <1>1, <2>1
  <2> QED BY <2>1, <2>2
<1>4. PICK l \in Nat, m \in Nat, n \in Nat : l = Len(device) /\ m = Len(batch) /\ n = Len(a)
  <2>1. Len(a) \in Nat /\ Len(device) \in Nat /\ Len(batch) \in Nat
    BY <1>3
  <2> QED BY <2>1
<1>5. /\ DOMAIN device = 1..l /\ DOMAIN batch = 1..m /\ DOMAIN a = 1..n /\ a \in Seq(Int)
      /\ l = Len(device) /\ m = Len(batch) /\ n = Len(a)
  BY <1>3, <1>4
<1>6. \A i \in DOMAIN a : \/ i \in DOMAIN device /\ a[i] = device[i]
                          \/ i > l /\ i - l \in DOMAIN batch /\ a[i] = batch[i - l]
  BY SMTT(30), <1>1, <1>5, Joint DEF Sounds
<1>7. /\ r \in Seq(Int)
      /\ \A i \in DOMAIN r : \/ i \in DOMAIN a /\ r[i] = a[i]
                             \/ i > n /\ i - n \in DOMAIN queue /\ r[i] = queue[i - n]
  BY SMTT(30), <1>1, <1>2, <1>5, Joint DEF Sounds
<1>8. Sorted(a)
  <2> SUFFICES ASSUME NEW i \in DOMAIN a, NEW j \in DOMAIN a, i < j, a[i] >= 0, Sound(a[j])
               PROVE  a[i] < a[j]
    BY DEF Sorted
  <2>1. CASE j \in DOMAIN device /\ a[j] = device[j]
    <3>1. i \in DOMAIN device /\ a[i] = device[i]
      BY <1>5, <1>6, <2>1
    <3> QED BY <2>1, <3>1 DEF Ordered, Sorted
  <2>2. CASE j > l /\ j - l \in DOMAIN batch /\ a[j] = batch[j - l]
    <3>1. CASE i \in DOMAIN device /\ a[i] = device[i]
      BY <2>2, <3>1 DEF Ordered, Before
    <3>2. CASE i > l /\ i - l \in DOMAIN batch /\ a[i] = batch[i - l]
      <4>1. i - l < j - l
        BY <1>5
      <4> QED BY <2>2, <3>2, <4>1 DEF Ordered, Sorted
    <3> QED BY <1>6, <3>1, <3>2
  <2> QED BY <1>6, <2>1, <2>2
<1>9. Before(a, queue) /\ Ahead(a)
  BY <1>6 DEF Ordered, Before, Ahead
<1>10. Sorted(r)
  <2> SUFFICES ASSUME NEW i \in DOMAIN r, NEW j \in DOMAIN r, i < j, r[i] >= 0, Sound(r[j])
               PROVE  r[i] < r[j]
    BY DEF Sorted
  <2>1. CASE j \in DOMAIN a /\ r[j] = a[j]
    <3>1. i \in DOMAIN a /\ r[i] = a[i]
      BY <1>5, <1>7, <2>1
    <3> QED BY <1>8, <2>1, <3>1 DEF Sorted
  <2>2. CASE j > n /\ j - n \in DOMAIN queue /\ r[j] = queue[j - n]
    <3>1. CASE i \in DOMAIN a /\ r[i] = a[i]
      BY <1>9, <2>2, <3>1 DEF Before
    <3>2. CASE i > n /\ i - n \in DOMAIN queue /\ r[i] = queue[i - n]
      <4>1. i - n < j - n
        BY SMTT(30), <1>5
      <4> QED BY <2>2, <3>2, <4>1 DEF Ordered, Sorted
    <3> QED BY <1>7, <3>1, <3>2
  <2> QED BY <1>7, <2>1, <2>2
<1>11. Ahead(r)
  BY <1>7, <1>9 DEF Ordered, Ahead
<1>12. Coming = r
  BY DEF Coming, r
<1>13. DOMAIN r = 1..Len(r) /\ Len(r) \in Nat
  BY <1>7
<1> SUFFICES ASSUME NEW i \in DOMAIN r, Sound(r[i])
             PROVE  /\ r[i] > heard
                    /\ \A j \in 1..(i - 1) : Sound(r[j]) => r[j] < r[i]
  BY <1>12 DEF InOrder, Sound
<1>14. r[i] > heard
  BY <1>7, <1>11 DEF Ahead, Sound, Sounds
<1>15. ASSUME NEW j \in 1..(i - 1), Sound(r[j]) PROVE r[j] < r[i]
  <2>1. j \in DOMAIN r /\ j < i /\ r[j] >= 0
    BY <1>13, <1>15 DEF Sound
  <2> QED BY <1>10, <2>1 DEF Sorted
<1> QED BY <1>14, <1>15

\* At the start nobody flushes.
LEMMA InitSilenced == Init => Silenced
BY DEF Init, Silenced, Now

\* The invariant the theorems rest on.
Kept == Safe /\ Silenced /\ Sorts

LEMMA KeptHolds == Spec => []Kept
<1>1. Init => Kept
  BY InitSafe, InitSilenced, InitSorts DEF Kept
<1>2. Kept /\ [Next]_vars => Kept'
  BY NextSafe, NextSilenced, NextSorts DEF Kept, Sorts
<1> QED BY <1>1, <1>2, PTL DEF Spec

\* When a flush is about to let the writer run again nothing of before is left
\* anywhere, also where another flush runs at the same time and has started it
\* already: not in the queue, not in the hands of the writer, not in the device
\* (audio_output.cpp, flush and alsa_thread_stop).
THEOREM FlushCorrect == Spec => []FlushSilences
<1>1. Kept => FlushSilences
  <2> SUFFICES ASSUME Kept, NEW c \in Callers, At(c, "start")
               PROVE  queue = <<>> /\ batch = <<>> /\ \A i \in DOMAIN device : device[i] = Silence
    BY DEF FlushSilences
  <2>1. Now(c) = "start"
    BY AtNow
  <2> QED BY <2>1 DEF Kept, Safe, Device, Counted, Stopped, Silenced
<1> QED BY <1>1, KeptHolds, PTL

\* Whatever is fed, prerolled, skipped, sought and paused, the sound of the
\* clip is heard in order and no frame of it twice from one flush to the next
\* (audio_pipeline.cpp, feed_watermarks_; audio_output.cpp, alsa_thread_loop).
THEOREM InOrderCorrect == Spec => []InOrder
<1>1. Kept => InOrder
  BY OrderedIsInOrder DEF Kept, Sorts
<1> QED BY <1>1, KeptHolds, PTL
=============================================================================
