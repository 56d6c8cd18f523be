--------------------------- MODULE VideoDecoder ---------------------------
(* Random access to a film in core/src/media: VideoDecoder::decode_to_hw     *)
(* (video_decoder.cpp) and SoftDecoder::decode_to_frame (sw_decode.cpp) over *)
(* the demuxer they share. A call goes on from where the last one stopped or *)
(* seeks to a key frame and decodes up to its target; the decoder believes   *)
(* the length the container states until it meets the end.                   *)
(*                                                                           *)
(* The frames of the film are 0..Last, in order. Left out: frames the codec  *)
(* gives in software while it warms up, decode errors, and the limit of 4000 *)
(* frames on the way to a target.                                            *)
EXTENDS Integers, FiniteSets

CONSTANTS
    Last,         \* the last frame of the film
    Keys,         \* its key frames
    Far           \* 64: from this distance on a call seeks

ASSUME MediaAssumption ==
    /\ Last \in Nat /\ Far \in Nat \ {0}
    /\ Keys \subseteq 0..Last /\ 0 \in Keys

None == -1

\* A decoder just opened on a file whose container states the duration as
\* `declared` frames (None: it states none) and that hardware can decode or
\* not. out is the frame the codec gives next, next and last are next_frame and
\* last_frame; hold and holdOf are hold_hw_ and hold_hw_src_, kept is hold_rgba_.
Fresh(declared, hw) ==
    [out |-> 0, next |-> 0, last |-> None, hold |-> None, holdOf |-> None,
     kept |-> None, declared |-> declared, hw |-> hw]

Refined(d) == IF d.last > 0 \/ d.declared = None THEN d ELSE [d EXCEPT !.last = d.declared]

Clamped(d, t) == IF d.last > 0 /\ t > d.last THEN d.last ELSE t

KeyBefore(t) == CHOOSE k \in Keys : k <= t /\ \A j \in Keys : j <= t => j <= k

\* container_seek_seconds to the key frame at or before t.
SeekTo(d, t) == [d EXCEPT !.out = KeyBefore(t), !.next = 0]

\* Frames are received until one is not before t; at the end of the film the
\* length is corrected to what was seen.
Forward(d, t) ==
    LET n == IF d.out < t THEN t ELSE d.out
        through == IF d.out <= Last THEN Last + 1 ELSE d.next
    IN  IF n <= Last
        THEN [pic |-> n, dec |-> [d EXCEPT !.out = n + 1, !.next = n + 1]]
        ELSE [pic |-> None,
              dec |-> [d EXCEPT !.out = Last + 1, !.next = through,
                                !.last = IF through > 0 /\ (@ < 0 \/ through - 1 < @)
                                         THEN through - 1 ELSE @]]

\* Near its position decode_to_hw only goes forward, whatever the target.
HwForward(d, t) ==
    Forward(IF t - d.next >= Far \/ d.next - t >= Far THEN SeekTo(d, t) ELSE d, t)

\* The last frame, decoded once and held for every target behind it.
Holding(d) ==
    IF d.hold # None /\ d.holdOf = d.last
    THEN d
    ELSE LET r == HwForward(SeekTo(d, d.last), d.last)
         IN  [r.dec EXCEPT !.hold = r.pic,
                           !.holdOf = IF r.pic = None THEN None ELSE r.dec.last]

DecodeToHw(d, t) ==
    LET e == Refined(d)
    IN  IF ~e.hw THEN [pic |-> None, dec |-> e]
        ELSE IF e.last > 0 /\ t > e.last
             THEN [pic |-> Holding(e).hold, dec |-> Holding(e)]
             ELSE HwForward(e, t)

\* seek_to_frame_indexed, and seek_to_frame while there is no index.
SeekForward(d, t) == Forward(SeekTo(d, Clamped(d, t)), Clamped(d, t))

\* What was decoded at the end of the film is kept for targets behind it.
Keeping(r) ==
    IF r.pic # None /\ r.dec.last > 0 /\ r.pic >= r.dec.last
    THEN [r EXCEPT !.dec.kept = r.pic] ELSE r

DecodeToFrame(d, target) ==
    LET e == Refined(d)
        t == Clamped(e, target)
        first == IF t >= e.next /\ t - e.next < Far
                 THEN Forward(e, t) ELSE [pic |-> None, dec |-> e]
    IN  IF e.last > 0 /\ target > e.last /\ e.kept = e.last
        THEN [pic |-> e.kept, dec |-> e]
        ELSE Keeping(IF first.pic # None THEN first ELSE SeekForward(first.dec, t))
=============================================================================
