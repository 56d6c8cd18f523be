----------------------------- MODULE FrameCache -----------------------------
(***************************************************************************)
(* The cache of decoded frames of core/src/media/frame_cache.cpp: a map    *)
(* from frame numbers to pictures, a list of the numbers from the least to *)
(* the most recently used, and the bytes they take.                        *)
(*                                                                         *)
(* A cache belongs to one decoder, whose frames all take FrameBytes.  The  *)
(* operators are the critical sections of mutex_ as functions of the cache *)
(* (TimelineDecoder composes several of them in one call); Spec is a cache *)
(* that is used in any order.                                              *)
(***************************************************************************)
EXTENDS Integers, Sequences, Functions

CONSTANTS
    Numbers,     \* frame numbers
    Pictures,    \* decoded pictures
    FrameBytes,  \* VideoFrame::bytes()
    MaxBytes     \* max_bytes_

VARIABLE cache   \* [map |-> map_, lru |-> lru_, bytes |-> bytes_]

NewCache == [map |-> <<>>, lru |-> <<>>, bytes |-> 0]

Has(c, n) == n \in DOMAIN c.map

\* lru_.splice: n, which is in the list, becomes its last.
ToEnd(s, n) ==
    LET i == CHOOSE i \in 1 .. Len(s) : s[i] = n
    IN [j \in 1 .. Len(s) |-> IF j < i THEN s[j] ELSE IF j < Len(s) THEN s[j + 1] ELSE n]

\* get() of a frame that is there.
Got(c, n) == [c EXCEPT !.lru = ToEnd(@, n)]

\* Mutant: what is evicted leaves the list and stays in the map.
EvictedFromListOnly(c) ==
    LET gone == IF c.bytes > MaxBytes THEN 1 ELSE 0
    IN [c EXCEPT !.lru = SubSeq(@, gone + 1, Len(@)), !.bytes = @ - gone * FrameBytes]

\* evict_locked(): the oldest go until the rest fits.
Evicted(c) ==
    LET over == c.bytes - MaxBytes
        gone == IF over <= 0 THEN 0 ELSE (over + FrameBytes - 1) \div FrameBytes
        kept == SubSeq(c.lru, gone + 1, Len(c.lru))
    IN [map |-> [n \in Range(kept) |-> c.map[n]], lru |-> kept,
        bytes |-> c.bytes - gone * FrameBytes]

\* put(): nothing, if the frame is too big or already there.
Put(c, n, p) ==
    IF FrameBytes > MaxBytes \/ Has(c, n) THEN c
    ELSE Evicted([map |-> [m \in DOMAIN c.map \cup {n} |-> IF m = n THEN p ELSE c.map[m]],
                  lru |-> Append(c.lru, n),
                  bytes |-> c.bytes + FrameBytes])
-----------------------------------------------------------------------------
Init == cache = NewCache

GetFrame(n) == Has(cache, n) /\ cache' = Got(cache, n)
PutFrame(n, p) == cache' = Put(cache, n, p)
Clear == cache' = NewCache

Next ==
    \/ \E n \in Numbers : GetFrame(n)
    \/ \E n \in Numbers, p \in Pictures : PutFrame(n, p)
    \/ Clear

Spec == Init /\ [][Next]_cache
-----------------------------------------------------------------------------
\* The list names exactly the frames of the map, each once, and the bytes are
\* those of the frames and within the limit: what evict_locked() relies on to
\* end with an entry for every number it pops.
Agrees(c) ==
    /\ DOMAIN c.map = Range(c.lru)
    /\ \A i, j \in 1 .. Len(c.lru) : c.lru[i] = c.lru[j] => i = j
    /\ c.bytes = FrameBytes * Len(c.lru)
    /\ c.bytes <= MaxBytes

Consistent == Agrees(cache)
=============================================================================
