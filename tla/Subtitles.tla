------------------------------ MODULE Subtitles ------------------------------
(***************************************************************************)
(* From Whisper's segments to the cues of subtitle.srt (worker/            *)
(* real_media_smoke.py, format_srt_timestamp and _segments_to_srt): what   *)
(* the stage "srt" of Pipeline does to a transcript.  Times are in tenths  *)
(* of a millisecond, so that rounding has halves to decide.                *)
(***************************************************************************)
EXTENDS Naturals

CONSTANTS
    Times,     \* the times a segment may start or end at
    MaxLength  \* bound: segments of a transcript

ASSUME SubtitlesAssumption == Times \subseteq Nat /\ MaxLength \in Nat

\* What Whisper found, in its order.
Segment == [ start : Times, end : Times ]
Transcripts == UNION { [1 .. n -> Segment] : n \in 0 .. MaxLength }

\* Python's round: a half goes to the even neighbour.
Round(t) ==
    LET q == t \div 10 IN
    IF t % 10 > 5 \/ (t % 10 = 5 /\ q % 2 = 1) THEN q + 1 ELSE q

\* Mutant: each field for itself, the rounding carries nowhere.
TimestampOfParts(t) ==
    [ h |-> t \div 36000000, m |-> (t % 36000000) \div 600000,
      s |-> (t % 600000) \div 10000, ms |-> Round(t % 10000) % 1000 ]

\* format_srt_timestamp: one rounding, then divmod by hour, minute, second.
Timestamp(t) ==
    LET inHour   == Round(t) % 3600000
        inMinute == inHour % 60000
    IN  [ h |-> Round(t) \div 3600000, m |-> inHour \div 60000,
          s |-> inMinute \div 1000, ms |-> inMinute % 1000 ]

\* _segments_to_srt: one numbered cue per segment, in their order.
SegmentsToSrt(segs) ==
    [ i \in DOMAIN segs |-> [ index |-> i, start |-> Timestamp(segs[i].start),
                              end |-> Timestamp(segs[i].end) ] ]
-----------------------------------------------------------------------------
\* How a player reads a timestamp, and in which order it puts two of them.
WellFormed(x) == x.m \in 0 .. 59 /\ x.s \in 0 .. 59 /\ x.ms \in 0 .. 999
Millis(x) == 3600000 * x.h + 60000 * x.m + 1000 * x.s + x.ms
NotAfter(x, y) ==
    \/ x.h < y.h
    \/ x.h = y.h /\ x.m < y.m
    \/ x.h = y.h /\ x.m = y.m /\ x.s < y.s
    \/ x.h = y.h /\ x.m = y.m /\ x.s = y.s /\ x.ms <= y.ms

\* No cue ends before it starts, or starts before an earlier one starts.
Monotonic(cues) ==
    \A i, j \in DOMAIN cues :
        NotAfter(cues[i].start, cues[i].end) /\ (i < j => NotAfter(cues[i].start, cues[j].start))

\* format_srt_timestamp: every timestamp can be read, at the carry of each field
\* too, and is at most half a millisecond from the time it stands for.
TimestampsExact ==
    \A t \in Times :
        /\ WellFormed(Timestamp(t))
        /\ 10 * Millis(Timestamp(t)) <= t + 5 /\ t <= 10 * Millis(Timestamp(t)) + 5

\* _segments_to_srt keeps the order of the times of a transcript, within a
\* segment and from one to another: what Whisper ordered stays ordered, and
\* segments that meet do not overlap as cues.
OrderKept ==
    \A segs \in Transcripts :
        LET cues == SegmentsToSrt(segs) IN
        \A i, j \in DOMAIN segs :
            /\ segs[i].start <= segs[i].end => NotAfter(cues[i].start, cues[i].end)
            /\ segs[i].end <= segs[j].start => NotAfter(cues[i].end, cues[j].start)
=============================================================================
