---------------------------- MODULE MjpegEncoder ----------------------------
(***************************************************************************)
(* The rate control of the MJPEG encoder (mjpeg-encoder.c).  The encoder     *)
(* chooses one of seven JPEG qualities and a frame rate so that the stream   *)
(* fits the bit rate.  An evaluation round encodes successive frames at       *)
(* different qualities and settles on one; the bit rate goes down on frame    *)
(* drops and negative client reports, up on positive ones, and each change    *)
(* starts a round.                                                           *)
(*                                                                         *)
(* Time is in milliseconds.  adjusted_fps, a double, is kept as its ratio to  *)
(* fps in hundredths, which is what mjpeg_encoder_reset_quality preserves.    *)
(***************************************************************************)
EXTENDS Integers, FiniteSets, FiniteSetsExt

CONSTANTS StartRate,    \* starting_bit_rate / 8
          FrameSizes,   \* the sizes an encoded frame may have
          SourceFps,    \* what get_source_fps may answer
          FrameGaps,    \* times between two frames
          Reports,      \* records [drops, age, end, delay, audio], see StreamReport
          MaxFrames     \* bound on the calls

VARIABLES rc,           \* MJpegEncoderRateControl
          clock,        \* spice_get_monotonic_time_ns and the frame's mm time
          calls,        \* calls so far
          round         \* frames encoded in the current evaluation round

ASSUME MjpegAssumption ==
    /\ StartRate \in Nat /\ MaxFrames \in Nat
    /\ FrameSizes \subseteq Nat /\ SourceFps \subseteq Nat /\ FrameGaps \subseteq Nat
    /\ \A rep \in Reports : rep.delay \in Int /\ rep.audio \in Int

mjpegVars == <<rc, clock, calls, round>>

MaxFps == 25
MinFps == 1
TopQuality == 6         \* MJPEG_QUALITY_SAMPLE_NUM - 1
Median == 3             \* MJPEG_QUALITY_SAMPLE_NUM / 2
StrictFps == 10
PermissiveFps == 5
Warmup == 3000
Latency == 0            \* half the round trip
HundredthsPerMs == 100000 \* a frame each millisecond, in hundredths of a frame per second

Qualities == 0 .. TopQuality
Unsampled == [q \in Qualities |-> 0]

GetMaxFps(size, rate) == IF size # 0 THEN rate \div size ELSE MaxFps

\* memset of quality_eval_data and the limits mjpeg_encoder_reset_quality gives it.
FreshEval == [type |-> "set", reason |-> "size", sizes |-> Unsampled, minId |-> 0, minFps |-> 0,
              maxId |-> TopQuality, maxFps |-> MaxFps, best |-> 0, bestId |-> 0]

ResetQuality(r, q, fps) ==
    [r EXCEPT !.during = FALSE,
              !.last = IF r.q = q THEN @ ELSE 0,
              !.encoded = IF r.ev.reason = "rate" THEN 0 ELSE @,
              !.dropped = IF r.ev.reason = "rate" THEN 0 ELSE @,
              !.q = q, !.ev = FreshEval,
              !.fps = Min({MaxFps, Max({MinFps, fps})}),
              !.adjStart = 0, !.adjFrames = 0, !.sum = 0, !.num = 0]

MjpegNew ==
    [ResetQuality([during |-> FALSE, ev |-> FreshEval, rate |-> StartRate, q |-> Median, fps |-> 0,
                   ratio |-> 150, adjStart |-> 0, adjFrames |-> 0, last |-> 0, sum |-> 0, num |-> 0,
                   warm |-> 1, changeStart |-> 0, lastFrame |-> 0, upgraded |-> FALSE, encFrames |-> 0,
                   encSum |-> 0, encoded |-> 0, dropped |-> 0, maxVideo |-> 0, maxAudio |-> 0], Median, 5)
     EXCEPT !.during = TRUE, !.ev.reason = "rate"]

Evaluated(r, q) == r.ev.sizes[q] # 0

\* The fps of the last sampled quality is the best so far.
Sampled(r, fps, src) ==
    IF fps > r.ev.best \/ ((fps = r.ev.best \/ fps >= src) /\ r.q > r.ev.bestId)
    THEN [r EXCEPT !.ev.best = fps, !.ev.bestId = r.q] ELSE r

CompleteSample(r) ==
    LET final == IF r.ev.best # 0 THEN Max({r.q, r.ev.bestId}) ELSE r.q
        size == r.ev.sizes[final]
        fps == GetMaxFps(size, r.rate)
        low == IF final = r.ev.minId THEN Max({fps, r.ev.minFps}) ELSE fps
        high == IF final = r.ev.maxId THEN Min({low, r.ev.maxFps}) ELSE low
    IN  [ResetQuality(r, final, high) EXCEPT !.sum = size, !.num = 1]

\* The variant for the mutation: the neighbour is always sampled again.
StepDownAgain(r) == [r EXCEPT !.q = @ - 1]

\* A quality whose neighbour below is already sampled settles there; otherwise
\* the neighbour is the next to sample.
StepDown(r) ==
    LET down == [r EXCEPT !.q = @ - 1]
    IN  IF Evaluated(r, r.q - 1) THEN CompleteSample(down) ELSE down

\* mjpeg_encoder_eval_quality.
EvalQuality(r0, src) ==
    LET size == r0.ev.sizes[r0.q]
        fps == GetMaxFps(size, r0.rate)
        r == Sampled(r0, fps, src)
        slow == fps < StrictFps /\ fps < src
    IN  IF size = 0 THEN r0
        ELSE IF r.q > Median /\ slow THEN StepDown(r)
        ELSE IF (fps > PermissiveFps /\ 100 * fps >= 66 * r.ev.minFps) \/ fps >= src
        THEN IF \/ r.q = TopQuality \/ r.q >= r.ev.maxId
                \/ Evaluated(r, r.q + 1) \/ (r.q = Median /\ slow)
             THEN CompleteSample(r) ELSE [r EXCEPT !.q = @ + 1]
        ELSE IF r.q = 0 \/ r.q <= r.ev.minId THEN CompleteSample(r) ELSE StepDown(r)

SetUpgrade(r, why) ==
    [r EXCEPT !.during = TRUE, !.ev.type = "upgrade", !.ev.reason = why,
              !.ev.minId = r.q, !.ev.minFps = r.fps]

SetDowngrade(r, why) ==
    [r EXCEPT !.during = TRUE, !.ev.type = "downgrade", !.ev.reason = why,
              !.ev.maxId = r.q, !.ev.maxFps = r.fps]

\* mjpeg_encoder_quality_eval_stop: a cancelled round falls back to where it began.
EvalStop(r) ==
    IF ~r.during THEN r
    ELSE CASE r.ev.type = "upgrade"   -> ResetQuality(r, r.ev.minId, r.ev.minFps)
           [] r.ev.type = "downgrade" -> ResetQuality(r, r.ev.maxId, r.ev.maxFps)
           [] r.ev.type = "set"       -> ResetQuality(r, Median, MaxFps \div 2)

\* Enough frames since the last change to measure the bit rate they really took.
Measurable(r) == r.encFrames > 3 \/ r.encFrames > r.fps

MeasuredRate(r) == (r.encSum * 1000) \div (r.lastFrame - r.changeStart)

Changed(r, rate, up) ==
    [r EXCEPT !.rate = rate, !.changeStart = 0, !.lastFrame = 0, !.encFrames = 0, !.encSum = 0,
              !.upgraded = up]

DecreaseBitRate(r0, now) ==
    LET r == [EvalStop(r0) EXCEPT !.maxVideo = 0, !.maxAudio = 0]
        measured == Min({r.rate, IF Measurable(r) THEN MeasuredRate(r) ELSE r.rate})
        frame == IF Measurable(r) THEN r.encSum \div r.encFrames ELSE r.rate \div r.fps
        less == IF frame >= measured THEN measured \div 2 ELSE frame
    IN  IF r.warm # 0 /\ now - r.warm < Warmup THEN r
        ELSE SetDowngrade([Changed(r, measured - less, FALSE) EXCEPT !.warm = 0], "rate")

IncreaseBitRate(r0) ==
    LET r == EvalStop(r0)
        frame == r0.encSum \div r0.encFrames
        rate == IF MeasuredRate(r0) + frame < r0.rate THEN r0.rate
                ELSE Min({MeasuredRate(r0), r0.rate}) + frame
    IN  IF ~Measurable(r0) THEN r0 ELSE SetUpgrade(Changed(r, rate, TRUE), "rate")

\* mjpeg_encoder_process_server_drops: more than a tenth of the frames dropped.
TooManyDropped(r, src) ==
    r.encoded >= Min({r.fps, src}) /\ 10 * r.dropped > r.dropped + r.encoded

ProcessServerDrops(r, src, now) ==
    LET d == IF TooManyDropped(r, src) THEN DecreaseBitRate(r, now) ELSE r
    IN  IF r.encoded < Min({r.fps, src}) THEN r ELSE [d EXCEPT !.encoded = 0, !.dropped = 0]

AdjustParamsToBitRate(r, src, now) ==
    LET short == r.num < 3 /\ r.num < r.fps
        avg == IF short THEN 0 ELSE r.sum \div r.num
        fps == GetMaxFps(avg, r.rate)
        e == IF short THEN r
             ELSE IF fps > r.fps /\ (r.fps < src \/ r.q < TopQuality) THEN SetUpgrade(r, "size")
             ELSE IF fps < r.fps /\ fps < src THEN SetDowngrade(r, "size")
             ELSE r
    IN  IF r.last = 0 THEN r
        ELSE IF r.during THEN EvalQuality([r EXCEPT !.ev.sizes[r.q] = r.last], src)
        ELSE IF r.num = 0 THEN r
        ELSE IF e.during THEN EvalQuality([e EXCEPT !.ev.sizes[e.q] = avg], src)
        ELSE ProcessServerDrops(e, src, now)

\* mjpeg_encoder_adjust_fps; averages are in hundredths of a frame per second.
AdjustFps(r, src, now) ==
    LET passed == now - r.adjStart
        avg == (r.adjFrames * HundredthsPerMs) \div passed
        scaled == IF avg = 0 THEN 2 * r.ratio ELSE (r.ratio * r.fps * 100) \div avg
        ratio == IF avg + 50 < 100 * r.fps /\ 100 * src > avg THEN Min({200, scaled})
                 ELSE IF 100 * r.fps + 50 < avg THEN Max({100, scaled})
                 ELSE r.ratio
    IN  IF ~r.during /\ passed > 500 /\ passed * r.fps * r.ratio > HundredthsPerMs
        THEN [r EXCEPT !.ratio = ratio, !.adjStart = now, !.adjFrames = 0] ELSE r

MjpegInit == rc = MjpegNew /\ clock = 1 /\ calls = 0 /\ round = 0

Counted(r) == ~r.during \/ r.ev.reason = "size"

\* mjpeg_encoder_start_frame up to the choice of the quality.
StartFrame(r0, src, now) ==
    LET r == AdjustParamsToBitRate(r0, src, now)
    IN  IF Counted(r)
        THEN [r EXCEPT !.changeStart = IF @ = 0 THEN now ELSE @, !.lastFrame = now] ELSE r

\* mjpeg_encoder_end_frame.
EndFrame(r, size) ==
    LET full == r.num >= 3
        c == [r EXCEPT !.last = size, !.encoded = @ + 1]
        w == [c EXCEPT !.sum = IF full THEN size ELSE @ + size, !.num = IF full THEN 1 ELSE @ + 1,
                       !.adjFrames = @ + 1]
        b == IF r.during THEN c ELSE w
    IN  IF Counted(r) THEN [b EXCEPT !.encSum = @ + size, !.encFrames = @ + 1] ELSE b

\* mjpeg_encoder_encode_frame, called for a frame of the stream; size 0 is a
\* frame that could not be compressed (mjpeg_encoder_encode_scanline).
EncodeFrame(gap, src, size) ==
    /\ calls < MaxFrames
    /\ LET now == clock + gap
           a == AdjustFps(IF rc.adjStart = 0 THEN [rc EXCEPT !.adjStart = now] ELSE rc, src, now)
           early == (now - a.lastFrame) * a.fps * a.ratio < HundredthsPerMs
           s == StartFrame(a, src, now)
       IN  /\ clock' = now
           /\ rc' = IF early THEN a ELSE IF size = 0 THEN [s EXCEPT !.last = 0] ELSE EndFrame(s, size)
           /\ round' = IF early THEN round
                       ELSE IF ~s.during THEN 0
                       ELSE (IF rc.during THEN round ELSE 0) + (IF size = 0 THEN 0 ELSE 1)
    /\ calls' = calls + 1

\* mjpeg_encoder_notify_server_frame_drop.
NotifyServerFrameDrop(src) ==
    /\ calls < MaxFrames
    /\ LET r == [rc EXCEPT !.dropped = @ + 1]
       IN  /\ rc' = ProcessServerDrops(r, src, clock)
           /\ round' = IF TooManyDropped(r, src) THEN 0 ELSE round
    /\ calls' = calls + 1 /\ UNCHANGED clock

MinDelay(r, size) ==
    IF size = 0 \/ r.rate = 0 THEN Latency ELSE Min({2 * ((size * 1000) \div r.rate) + Latency, 5000})

\* A report is stale when the rate went down after the frames it speaks of.
NegativeReport(r, end, now) ==
    IF (r.changeStart > end \/ r.changeStart = 0) /\ ~r.upgraded THEN r ELSE DecreaseBitRate(r, now)

PositiveReport(r, start, src) ==
    LET strict == (r.fps > StrictFps \/ r.fps >= src) /\ r.q > Median
    IN  IF \/ r.during /\ r.ev.reason = "rate"
           \/ r.changeStart = 0
           \/ start - r.changeStart < (IF strict THEN 3000 ELSE 2000)
        THEN r ELSE IncreaseBitRate(r)

\* mjpeg_encoder_client_stream_report: frames between start and end were shown
\* with `delay' to spare (negative: too late), the sound with `audio'.
StreamReport(rep, src) ==
    LET r == rc
        start == clock - rep.age
        end == clock - rep.end
        avg == IF r.num # 0 THEN r.sum \div r.num ELSE 0
        small == MinDelay(r, avg) > rep.delay
                 /\ (r.q # TopQuality \/ r.fps < Min({src, MaxFps}) \/ rep.delay < 0)
        k == [r EXCEPT !.maxVideo = Max({@, rep.delay}), !.maxAudio = Max({@, rep.audio})]
        audioLeads == rep.delay > 0 /\ 2 * rep.audio < r.maxAudio /\ 4 * rep.delay > 5 * rep.audio
        shrunk == (2 * rep.delay < k.maxVideo /\ small) \/ 4 * rep.delay < k.maxVideo
    IN  /\ calls < MaxFrames
        /\ ~(r.during /\ r.ev.type = "downgrade" /\ r.ev.reason = "rate")
        /\ rc' = IF audioLeads \/ rep.delay < -15 THEN NegativeReport(r, end, clock)
                 ELSE IF shrunk THEN NegativeReport(k, end, clock)
                 ELSE IF rep.drops = 0 THEN PositiveReport(k, start, src) ELSE k
        /\ round' = IF rc'.ev = rc.ev THEN round ELSE 0
        /\ calls' = calls + 1 /\ UNCHANGED clock

MjpegNext ==
    \E src \in SourceFps :
        \/ \E gap \in FrameGaps, size \in FrameSizes \cup {0} : EncodeFrame(gap, src, size)
        \/ NotifyServerFrameDrop(src)
        \/ \E rep \in Reports : rep.age < clock /\ StreamReport(rep, src)

MjpegSpec == MjpegInit /\ [][MjpegNext]_mjpegVars

(* A round of quality evaluation ends: it never encodes a quality twice, so  *)
(* at most one frame per quality is spent on it, whatever sizes the frames    *)
(* turn out to have (the sizes need not grow with the quality) and whatever   *)
(* reports and drops arrive meanwhile; a round begun because the rate was too *)
(* high never picks a better quality; and the frame rate stays between one    *)
(* and 25, the adjusted one between it and its double, so that no division of *)
(* mjpeg_encoder_decrease_bit_rate or mjpeg_encoder_adjust_fps is by zero.     *)
QualityRoundEnds ==
    /\ round <= Cardinality(Qualities)
    /\ rc.during => rc.q \in Qualities /\ rc.q <= rc.ev.maxId /\ ~Evaluated(rc, rc.q)
    /\ rc.fps \in MinFps .. MaxFps /\ rc.ratio \in 100 .. 200
    /\ Measurable(rc) => rc.lastFrame > rc.changeStart
=============================================================================
