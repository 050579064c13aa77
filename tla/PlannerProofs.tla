---------------------------- MODULE PlannerProofs ----------------------------
(***************************************************************************)
(* What the planner of compression.go computes, for every input size,      *)
(* duration, audio rate and frame: lemmas about the operators of           *)
(* Compression, and of Conversion where FFmpeg's filter follows them.      *)
(*                                                                         *)
(* Everything here is arithmetic of quotients.  A quotient is known by the *)
(* two inequalities that define it; products of two unknowns appear only   *)
(* in facts that name them.                                                *)
(***************************************************************************)
EXTENDS Conversion, WellFoundedInduction, TLAPS

-----------------------------------------------------------------------------
(* Arithmetic *)

\* What the quotient of two numbers is
LEMMA Quotient ==
  ASSUME NEW n \in Int, NEW d \in Nat \ {0}
  PROVE  n \div d \in Int /\ d * (n \div d) <= n /\ n < d * (n \div d) + d
  OBVIOUS

\* Products keep an order.
LEMMA Monotone ==
  ASSUME NEW a \in Int, NEW b \in Int, NEW c \in Nat, a <= b
  PROVE  c * a <= c * b
  OBVIOUS

-----------------------------------------------------------------------------
(* The bit rates *)

\* A total: 85% of the source's rate, 1.6 Mbps at most
LEMMA Totals ==
  ASSUME NEW source \in Nat
  PROVE  /\ TargetTotal(source) \in Nat /\ MaxTotal(source) \in Nat
         /\ TargetTotal(source) <= MaxTotal(source) /\ MaxTotal(source) <= 1600000
         /\ 100 * TargetTotal(source) <= 85 * source
         /\ 100 * MaxTotal(source) <= 95 * source
  BY SMT DEF TargetTotal, MaxTotal, Lesser, Greater, autoSourceTargetPercent, autoSourceMaxPercent,
         autoMaxTotalBitrate

\* What a total leaves for video beside a kilobits of audio, in bits per second
Rest(total, a) == total - a * 1000 - 20000

\* a kilobits of audio, of the kbps asked for, leave video its floor: exactly
\* that where audio has been cut, at least that where the target has room for
\* both floors.
AudioFits(target, kbps, a) ==
  /\ a \in 16 .. kbps
  /\ a < kbps => Rest(target, a) \in 300000 .. 300999
  /\ target > 336000 => Rest(target, a) >= 300000

\* A rate that requests may ask for
AudioValid(kbps) == kbps \in 16 .. 512

\* The audio asked for, or less of it, in whole kilobits
LEMMA AudioKnown ==
  ASSUME NEW target \in Nat, NEW output, AudioValid(output.kbps)
  PROVE  LET audio == AudioShare(target, RequestedAudio(output)) IN
         \E a : /\ AudioFits(target, output.kbps, a)
                /\ audio \div 1000 = a
                /\ \A total \in Nat : VideoShare(total, audio) = Rest(total, a)
<1> DEFINE kbps == output.kbps
           audio == AudioShare(target, RequestedAudio(output))
           k == VideoShare(target, autoMinimumVideoBps) \div 1000
<1>1. k \in Int /\ 1000 * k <= target - 320000 /\ target - 320000 < 1000 * k + 1000
  <2>1. VideoShare(target, autoMinimumVideoBps) = target - 320000
    BY SMT DEF VideoShare, autoMinimumVideoBps, autoContainerOverhead
  <2>2. target - 320000 \in Int /\ 1000 \in Nat \ {0}
    BY SMT
  <2>3. QED
    BY SMT, <2>1, <2>2, Quotient
<1>2. RequestedAudio(output) = kbps * 1000 /\ kbps \in 16 .. 512
  BY SMT DEF RequestedAudio, AudioValid
<1>3. VideoShare(target, RequestedAudio(output)) = target - kbps * 1000 - 20000
  BY SMT, <1>2 DEF VideoShare, autoContainerOverhead
<1>4. audio = IF target - kbps * 1000 - 20000 < 300000 /\ target > 336000
              THEN Greater(k * 1000, 16000) ELSE kbps * 1000
  BY SMT, <1>2, <1>3 DEF AudioShare, autoMinimumVideoBps, autoContainerOverhead,
     autoMinimumAudioBps
<1> HIDE DEF audio, k, kbps
<1>5. \E a \in 16 .. kbps : audio = a * 1000 /\ AudioFits(target, kbps, a)
  <2>1. CASE target - kbps * 1000 - 20000 < 300000 /\ target > 336000
    <3>1. k \in 16 .. kbps /\ k < kbps
      BY SMT, <1>1, <1>2, <2>1
    <3>2. audio = k * 1000
      BY SMT, <1>4, <2>1, <3>1 DEF Greater
    <3>3. Rest(target, k) \in 300000 .. 300999
      BY SMT, <1>1, <3>1 DEF Rest
    <3>4. AudioFits(target, kbps, k)
      BY SMT, <3>1, <3>3 DEF AudioFits
    <3>5. QED
      BY <3>1, <3>2, <3>4
  <2>2. CASE ~(target - kbps * 1000 - 20000 < 300000 /\ target > 336000)
    <3>1. audio = kbps * 1000 /\ kbps \in 16 .. kbps
      BY SMT, <1>2, <1>4, <2>2
    <3>2. AudioFits(target, kbps, kbps)
      BY SMT, <1>2, <2>2 DEF AudioFits, Rest
    <3>3. QED
      BY <3>1, <3>2
  <2>3. QED
    BY SMT, <2>1, <2>2
<1>6. PICK a \in 16 .. kbps : audio = a * 1000 /\ AudioFits(target, kbps, a)
  BY <1>5
<1>7. audio \div 1000 = a /\ \A total \in Nat : VideoShare(total, audio) = Rest(total, a)
  BY SMT, <1>2, <1>6 DEF VideoShare, Rest, autoContainerOverhead
<1>8. QED
  BY <1>6, <1>7 DEF audio, kbps

\* A kilobit or the whole kilobits of a rate
LEMMA Kilobits ==
  ASSUME NEW bps \in Nat
  PROVE  /\ bitrateArg(bps) \in Nat \ {0}
         /\ bps >= 1000 => bitrateArg(bps) * 1000 <= bps /\ bps < bitrateArg(bps) * 1000 + 1000
         /\ bps < 1000 => bitrateArg(bps) = 1
  BY SMT DEF bitrateArg, Greater

\* More bits are no fewer kilobits.
LEMMA KilobitsOrdered ==
  ASSUME NEW a \in Nat, NEW b \in Nat, a <= b
  PROVE  bitrateArg(a) <= bitrateArg(b)
<1>1. a \div 1000 <= b \div 1000 /\ a \div 1000 \in Nat /\ b \div 1000 \in Nat
  BY SMT
<1>2. QED
  BY SMT, <1>1 DEF bitrateArg, Greater

\* The target has room for a kilobit of video beside the audio asked for, or
\* for both floors.
Suffices(target, kbps) == target >= kbps * 1000 + 21000 \/ target > 336000

\* Rates of a plan, in kilobits: average v and maximum m of video, a of audio
RatesFit(target, max, kbps, v, m, a) ==
  /\ v \in Nat \ {0} /\ m \in Nat /\ v <= m /\ a \in 16 .. kbps
  /\ Suffices(target, kbps) => 1000 * (v + a + 20) <= target /\ 1000 * (m + a + 20) <= max
  /\ a < kbps => v = 300

\* The video rates of a plan, by what the totals leave
VideoRate(rest)          == IF rest <= 0 THEN 1000 ELSE rest
MaxVideoRate(rest, most) == Greater(VideoRate(rest), IF rest <= 0 THEN 0 ELSE most)

\* The fields of a plan that encodes
LEMMA PlanFields ==
  ASSUME NEW inputSize, NEW probe_, NEW output,
         ~autoCompressionPlan(inputSize, probe_, output).copy
  PROVE  LET source == inputTotalBitrate(inputSize, probe_.seconds)
             audio  == AudioShare(TargetTotal(source), RequestedAudio(output))
             rest   == VideoShare(TargetTotal(source), audio)
             plan_  == autoCompressionPlan(inputSize, probe_, output)
         IN  /\ plan_.video = VideoRate(rest)
             /\ plan_.maxrate = MaxVideoRate(rest, VideoShare(MaxTotal(source), audio))
             /\ plan_.audioKbps = audio \div 1000
<1> DEFINE source == inputTotalBitrate(inputSize, probe_.seconds)
           target == TargetTotal(source)
           max    == MaxTotal(source)
           audio  == AudioShare(target, RequestedAudio(output))
           rest   == VideoShare(target, audio)
           video  == VideoRate(rest)
           size   == compressionTargetDimensions(output, chooseCompressionTier(target),
                                                 Displayed(probe_))
           copy   == rest <= 0 /\ autoCopySafe(probe_, output, size)
           plan_  == autoCompressionPlan(inputSize, probe_, output)
<1>1. plan_ = [source     |-> source,
               target     |-> IF copy THEN source ELSE target,
               max        |-> IF copy THEN source ELSE max,
               video      |-> IF copy THEN 0 ELSE video,
               maxrate    |-> IF copy THEN 0
                              ELSE MaxVideoRate(rest, VideoShare(max, audio)),
               audioKbps  |-> (IF copy THEN Greater(audio, autoMinimumAudioBps) ELSE audio) \div 1000,
               size       |-> size,
               resolution |-> autoPlanResolution(output, size),
               copy       |-> copy]
  BY DEF autoCompressionPlan, VideoRate, MaxVideoRate
<1> HIDE DEF plan_, source, target, max, audio, rest, video, size, copy
<1>2. copy = plan_.copy
  BY <1>1
<1>3. ~copy
  BY <1>2 DEF plan_
<1>4. /\ plan_.video = video /\ plan_.maxrate = MaxVideoRate(rest, VideoShare(max, audio))
      /\ plan_.audioKbps = audio \div 1000
  BY <1>1, <1>3
<1>5. QED
  BY <1>4 DEF plan_, source, target, max, audio, rest, video

\* What the totals leave for video, and what of it is asked for
LEMMA VideoKnown ==
  ASSUME NEW target \in Nat, NEW max \in Nat, target <= max, NEW kbps, AudioValid(kbps),
         NEW a, AudioFits(target, kbps, a)
  PROVE  RatesFit(target, max, kbps, bitrateArg(VideoRate(Rest(target, a))),
                  bitrateArg(MaxVideoRate(Rest(target, a), Rest(max, a))), a)
<1> DEFINE rest == Rest(target, a)
           video == VideoRate(rest)
           greater == MaxVideoRate(rest, Rest(max, a))
           v == bitrateArg(video)
           m == bitrateArg(greater)
<1>1. kbps \in 16 .. 512 /\ a \in 16 .. kbps
  BY SMT DEF AudioValid, AudioFits
<1>2. rest \in Int /\ rest = target - a * 1000 - 20000 /\ Rest(max, a) = max - a * 1000 - 20000
  BY SMT, <1>1 DEF Rest
<1> HIDE DEF rest
<1>3. video \in Nat /\ video = IF rest <= 0 THEN 1000 ELSE rest
  BY SMT, <1>2 DEF VideoRate
<1>4. /\ greater \in Nat /\ video <= greater
      /\ rest >= 1000 => greater = max - a * 1000 - 20000
  BY SMT, <1>1, <1>2, <1>3 DEF MaxVideoRate, Greater
<1> HIDE DEF video, greater
<1>5. v \in Nat \ {0} /\ m \in Nat
  BY SMT, <1>3, <1>4, Kilobits
<1>6. v <= m
  BY <1>3, <1>4, KilobitsOrdered
<1>7. ASSUME Suffices(target, kbps)
      PROVE  1000 * (v + a + 20) <= target /\ 1000 * (m + a + 20) <= max
  <2>1. rest >= 1000
    BY SMT, <1>1, <1>2, <1>7 DEF Suffices, AudioFits, rest
  <2>2. video >= 1000 /\ greater >= 1000
    BY SMT, <1>3, <1>4, <2>1
  <2>3. v * 1000 <= video /\ m * 1000 <= greater
    BY SMT, <1>3, <1>4, <2>2, Kilobits
  <2>4. QED
    BY SMT, <1>1, <1>2, <1>3, <1>4, <1>5, <2>1, <2>3
<1>8. a < kbps => v = 300
  <2>1. a < kbps => video \in 300000 .. 300999
    BY SMT, <1>3 DEF AudioFits, rest
  <2>2. QED
    BY SMT, <2>1 DEF bitrateArg, Greater
<1>9. RatesFit(target, max, kbps, v, m, a)
  BY SMT, <1>1, <1>5, <1>6, <1>7, <1>8 DEF RatesFit
<1>10. QED
  BY <1>9 DEF v, m, video, greater, rest

\* The rates of a plan that encodes, in kilobits, against its totals
LEMMA RatesKnown ==
  ASSUME NEW inputSize, NEW probe_, NEW output, AudioValid(output.kbps),
         inputTotalBitrate(inputSize, probe_.seconds) \in Nat,
         ~autoCompressionPlan(inputSize, probe_, output).copy
  PROVE  LET source == inputTotalBitrate(inputSize, probe_.seconds)
             plan_  == autoCompressionPlan(inputSize, probe_, output)
         IN  RatesFit(TargetTotal(source), MaxTotal(source), output.kbps,
                      bitrateArg(plan_.video), bitrateArg(plan_.maxrate), plan_.audioKbps)
<1> DEFINE target == TargetTotal(inputTotalBitrate(inputSize, probe_.seconds))
           max    == MaxTotal(inputTotalBitrate(inputSize, probe_.seconds))
           audio  == AudioShare(target, RequestedAudio(output))
           plan_  == autoCompressionPlan(inputSize, probe_, output)
<1>1. target \in Nat /\ max \in Nat /\ target <= max
  BY Totals
<1>2. /\ plan_.video = VideoRate(VideoShare(target, audio))
      /\ plan_.maxrate = MaxVideoRate(VideoShare(target, audio), VideoShare(max, audio))
      /\ plan_.audioKbps = audio \div 1000
  BY PlanFields
<1> HIDE DEF target, max, plan_
<1>3. PICK a : /\ AudioFits(target, output.kbps, a)
               /\ audio \div 1000 = a
               /\ \A total \in Nat : VideoShare(total, audio) = Rest(total, a)
  BY <1>1, AudioKnown
<1> HIDE DEF audio
<1>4. /\ plan_.video = VideoRate(Rest(target, a))
      /\ plan_.maxrate = MaxVideoRate(Rest(target, a), Rest(max, a))
      /\ plan_.audioKbps = a
  BY <1>1, <1>2, <1>3
<1>5. RatesFit(target, max, output.kbps, bitrateArg(plan_.video), bitrateArg(plan_.maxrate),
               plan_.audioKbps)
  BY <1>1, <1>3, <1>4, VideoKnown
<1>6. QED
  BY <1>5 DEF target, max, plan_

\* The input's rate, over its duration, is no more than its bytes.
LEMMA SourceRate ==
  ASSUME NEW inputSize \in Nat, NEW seconds \in Nat \ {0}
  PROVE  /\ inputTotalBitrate(inputSize, seconds) \in Nat
         /\ seconds * inputTotalBitrate(inputSize, seconds) <= 8 * inputSize
<1>1. CASE inputSize = 0
  BY <1>1 DEF inputTotalBitrate
<1>2. CASE inputSize > 0
  <2>1. inputTotalBitrate(inputSize, seconds) = (inputSize * 8) \div seconds
    BY <1>2 DEF inputTotalBitrate
  <2>2. inputSize * 8 \in Int
    OBVIOUS
  <2>3. (inputSize * 8) \div seconds \in Nat
    BY <1>2
  <2>4. QED
    BY <2>1, <2>2, <2>3, Quotient
<1>3. QED
  BY <1>1, <1>2

\* a is at most that percentage of b; a total has room for k kilobits.
Part(a, percent, b) == 100 * a <= percent * b
Room(total, k)      == 1000 * k <= total

\* Bytes asked for at a rate that is a percentage of the source's
LEMMA Bytes ==
  ASSUME NEW inputSize \in Nat, NEW seconds \in Nat \ {0}, NEW percent \in Nat, NEW total \in Nat,
         Part(total, percent, inputTotalBitrate(inputSize, seconds))
  PROVE  \A k \in Nat : Room(total, k) => Part(seconds * 125 * k, percent, inputSize)
<1> DEFINE source == inputTotalBitrate(inputSize, seconds)
<1> SUFFICES ASSUME NEW k \in Nat, 1000 * k <= total
             PROVE  100 * (seconds * 125 * k) <= percent * inputSize
  BY DEF Part, Room
<1> USE DEF Part
<1>1. source \in Nat /\ seconds * source <= 8 * inputSize
  BY SourceRate
<1> HIDE DEF source
<1>2. seconds * (1000 * k) <= seconds * total
  BY Monotone
<1>3. seconds * (100 * total) <= seconds * (percent * source)
  <2>1. 100 * total \in Int /\ percent * source \in Int /\ 100 * total <= percent * source
    BY <1>1 DEF source
  <2>2. QED
    BY <2>1, Monotone
<1>4. percent * (seconds * source) <= percent * (8 * inputSize)
  BY <1>1, Monotone
<1>5. seconds * (percent * source) = percent * (seconds * source)
  BY <1>1
<1>6. 100 * (seconds * (1000 * k)) <= 100 * (seconds * total)
  BY <1>2
<1>7. 100 * (seconds * total) = seconds * (100 * total)
  OBVIOUS
<1>8. percent * (8 * inputSize) = 8 * (percent * inputSize)
  OBVIOUS
<1>9. 100 * (seconds * (1000 * k)) = 8 * (100 * (seconds * 125 * k))
  OBVIOUS
<1>10. 8 * (100 * (seconds * 125 * k)) <= 8 * (percent * inputSize)
  BY <1>1, <1>3, <1>4, <1>5, <1>6, <1>7, <1>8, <1>9
<1>11. QED
  BY <1>10

\* Rates v on average and m at most of video, a of audio, all in kilobits and
\* at least one: wherever the target has room, no more than 85% of the input's
\* bytes and 1.6 Mbps on average, 95% and 1.6 Mbps at most, the container's
\* overhead included; and audio is cut only as far as video needs 300.
BudgetKept(size, seconds, kbps, v, m, a) ==
  /\ v >= 1 /\ v <= m /\ a >= 16 /\ a <= kbps
  /\ Suffices(TargetTotal(inputTotalBitrate(size, seconds)), kbps) =>
       /\ v + a + 20 <= 1600 /\ m + a + 20 <= 1600
       /\ 100 * (seconds * 125 * (v + a + 20)) <= 85 * size
       /\ 100 * (seconds * 125 * (m + a + 20)) <= 95 * size
  /\ a < kbps => v = 300

\* Rates that fit the totals keep the budget.
LEMMA RatesKept ==
  ASSUME NEW size \in Nat, NEW seconds \in Nat \ {0}, NEW kbps, AudioValid(kbps),
         NEW v, NEW m, NEW a,
         RatesFit(TargetTotal(inputTotalBitrate(size, seconds)),
                  MaxTotal(inputTotalBitrate(size, seconds)), kbps, v, m, a)
  PROVE  BudgetKept(size, seconds, kbps, v, m, a)
<1>1. PICK source \in Nat : source = inputTotalBitrate(size, seconds)
  BY SourceRate
<1>2. PICK target, max : target = TargetTotal(source) /\ max = MaxTotal(source)
  OBVIOUS
<1>3. /\ target \in Nat /\ max \in Nat /\ target <= max /\ max <= 1600000
      /\ 100 * target <= 85 * source /\ 100 * max <= 95 * source
  BY SMT, <1>2, Totals
<1>4. /\ \A k \in Nat : Room(target, k) => Part(seconds * 125 * k, 85, size)
      /\ \A k \in Nat : Room(max, k) => Part(seconds * 125 * k, 95, size)
  <2>1. ASSUME NEW percent \in Nat, NEW total \in Nat, Part(total, percent, source)
        PROVE  \A k \in Nat : Room(total, k) => Part(seconds * 125 * k, percent, size)
    BY <1>1, <2>1, Bytes
  <2>2. Part(target, 85, source) /\ Part(max, 95, source) /\ 85 \in Nat /\ 95 \in Nat
    BY SMT, <1>3 DEF Part
  <2>3. QED
    BY <1>3, <2>1, <2>2
<1>5. /\ v \in Nat /\ m \in Nat /\ a \in Nat /\ v >= 1 /\ v <= m /\ a >= 16 /\ a <= kbps
      /\ a < kbps => v = 300
  BY SMT DEF RatesFit, AudioValid
<1>6. ASSUME Suffices(target, kbps)
      PROVE  /\ v + a + 20 <= 1600 /\ m + a + 20 <= 1600
             /\ 100 * (seconds * 125 * (v + a + 20)) <= 85 * size
             /\ 100 * (seconds * 125 * (m + a + 20)) <= 95 * size
  <2>1. 1000 * (v + a + 20) <= target /\ 1000 * (m + a + 20) <= max
    BY SMT, <1>1, <1>2, <1>6 DEF RatesFit
  <2>2. v + a + 20 \in Nat /\ m + a + 20 \in Nat
    BY SMT, <1>5
  <2>3. v + a + 20 <= 1600 /\ m + a + 20 <= 1600
    BY SMT, <1>3, <1>5, <2>1
  <2>4. Room(target, v + a + 20) /\ Room(max, m + a + 20)
    BY SMT, <2>1 DEF Room
  <2>5. /\ Part(seconds * 125 * (v + a + 20), 85, size)
        /\ Part(seconds * 125 * (m + a + 20), 95, size)
    BY <1>4, <2>2, <2>4
  <2>6. QED
    BY SMT, <2>3, <2>5 DEF Part
<1>7. QED
  BY SMT, <1>1, <1>2, <1>5, <1>6 DEF BudgetKept

\* A plan that encodes keeps the budget, whatever size, duration and audio.
THEOREM WithinBudget ==
  ASSUME NEW size \in Nat, NEW probe_, probe_.seconds \in Nat \ {0},
         NEW output, AudioValid(output.kbps), ~autoCompressionPlan(size, probe_, output).copy
  PROVE  LET plan_ == autoCompressionPlan(size, probe_, output) IN
         BudgetKept(size, probe_.seconds, output.kbps, bitrateArg(plan_.video),
                    bitrateArg(plan_.maxrate), plan_.audioKbps)
<1>1. inputTotalBitrate(size, probe_.seconds) \in Nat
  BY SourceRate
<1>2. QED
  BY <1>1, RatesKnown, RatesKept

-----------------------------------------------------------------------------
(* Reading ffprobe's report *)

\* A set of natural numbers has a least one.
LEMMA Least ==
  ASSUME NEW T, T \subseteq Nat, T # {}
  PROVE  \E x \in T : \A y \in T : x <= y
<1> DEFINE R == OpToRel(<, Nat)
<1>1. IsWellFoundedOn(R, Nat)
  BY Zenon, NatLessThanWellFounded
<1>2. \A x, y \in Nat : x < y => <<x, y>> \in R
  BY Zenon DEF OpToRel
<1> HIDE DEF R
<1>3. PICK x \in T : \A y \in T : ~(<<y, x>> \in R)
  BY <1>1, WFMin
<1>4. ASSUME NEW y \in T PROVE x <= y
  <2>1. x \in Nat /\ y \in Nat /\ ~(y < x)
    BY <1>2, <1>3
  <2>2. QED
    BY <2>1
<1>5. QED
  BY <1>4

\* A report with video has a first video stream, and that has a frame.
LEMMA DisplayedKnown ==
  ASSUME NEW probe_ \in Probes, HasVideo(probe_)
  PROVE  Displayed(probe_).width \in Int /\ Displayed(probe_).height \in Int
<1> DEFINE indexes == VideoIndexes(probe_)
           first == CHOOSE i \in indexes : \A k \in indexes : i <= k
           stream == probeVideo(probe_)
<1>1. probe_.streams \in Seq(ProbeStream)
  BY ConversionAssumption
<1>2. indexes \subseteq Nat /\ indexes \subseteq DOMAIN probe_.streams /\ indexes # {}
  BY <1>1 DEF VideoIndexes, HasVideo
<1>3. first \in indexes
  BY <1>2, Least
<1>4. stream = probe_.streams[first]
  BY DEF probeVideo
<1> HIDE DEF first, indexes
<1>5. probe_.streams[first] \in ProbeStream
  BY <1>1, <1>2, <1>3
<1>6. stream.width \in Int /\ stream.height \in Int
  BY <1>4, <1>5 DEF ProbeStream
<1> HIDE DEF stream
<1>7. probeDisplayDimensions(stream) \in {Size(stream.height, stream.width),
                                          Size(stream.width, stream.height)}
  BY DEF probeDisplayDimensions
<1>8. QED
  BY <1>6, <1>7 DEF Displayed, Size, stream

-----------------------------------------------------------------------------
(* The frame size *)

\* Products order their factors.
LEMMA Cancel ==
  ASSUME NEW a \in Int, NEW b \in Int, NEW c \in Nat, c * a < c * b
  PROVE  a < b
<1>1. SUFFICES ASSUME b <= a PROVE FALSE
  BY SMT
<1>2. c * b <= c * a
  BY <1>1, Monotone
<1>3. QED
  BY SMT, <1>2

\* The even number at or just below a number
LEMMA EvenBelowKnown ==
  ASSUME NEW n \in Int
  PROVE  /\ EvenBelow(n) \in Int /\ EvenBelow(n) % 2 = 0
         /\ n - 1 <= EvenBelow(n) /\ EvenBelow(n) <= n
         /\ n >= 2 => EvenBelow(n) >= 2
         /\ n % 2 = 0 => EvenBelow(n) = n
  BY SMT DEF EvenBelow

\* FFmpeg's rounded quotient, by its double
LEMMA RescaleKnown ==
  ASSUME NEW a \in Nat, NEW b \in Nat, NEW c \in Nat \ {0}
  PROVE  /\ Rescale(a, b, c) \in Int
         /\ c * (2 * Rescale(a, b, c)) <= 2 * (a * b) + c
         /\ 2 * (a * b) < c * (2 * Rescale(a, b, c)) + c
<1> DEFINE n == 2 * a * b + c
           r == Rescale(a, b, c)
<1>1. n \in Int /\ 2 * c \in Nat \ {0} /\ n = 2 * (a * b) + c
  BY SMT
<1>2. r = n \div (2 * c)
  BY DEF Rescale
<1> HIDE DEF n, r
<1>3. r \in Int /\ (2 * c) * r <= n /\ n < (2 * c) * r + 2 * c
  BY <1>1, <1>2, Quotient
<1>4. (2 * c) * r = c * (2 * r)
  BY SMT, <1>3
<1>5. QED
  BY SMT, <1>1, <1>3, <1>4 DEF r

\* The planner's rounded quotient
LEMMA RoundedEvenKnown ==
  ASSUME NEW n \in Nat, NEW d \in Nat \ {0}
  PROVE  /\ roundedEven(n, d) \in Int /\ roundedEven(n, d) % 2 = 0
         /\ d * roundedEven(n, d) <= n + d /\ n <= d * roundedEven(n, d) + d
<1> DEFINE q == (n + d) \div (2 * d)
<1>1. n + d \in Int /\ 2 * d \in Nat \ {0}
  BY SMT
<1>2. q \in Int /\ (2 * d) * q <= n + d /\ n + d < (2 * d) * q + 2 * d
  BY <1>1, Quotient
<1>3. roundedEven(n, d) = q * 2
  BY DEF roundedEven
<1> HIDE DEF q
<1>4. (2 * d) * q = d * (q * 2)
  BY SMT, <1>2
<1>5. (q * 2) % 2 = 0
  BY SMT, <1>2
<1>6. QED
  BY SMT, <1>2, <1>3, <1>4, <1>5

\* Its even number within a limit: nothing is lost of an even number that is
\* within it.
LEMMA EvenAtMostKnown ==
  ASSUME NEW v \in Int, NEW limit \in Int, limit >= 2
  PROVE  LET e == evenAtMost(v, limit) IN
         /\ e \in Int /\ e % 2 = 0 /\ e >= 2 /\ e <= limit
         /\ e >= v - 1 \/ e >= limit - 1
         /\ (v % 2 = 0 /\ v <= limit) => e >= v
  BY SMT DEF evenAtMost, Lesser

\* A side that the filter makes: half of a pixel and an odd one are lost of
\* the smaller of the side it is given and the one the shape leads to.
LEMMA FilterKnown ==
  ASSUME NEW a \in Nat, NEW b \in Nat, NEW m \in Nat, NEW n \in Nat \ {0}
  PROVE  LET f == EvenBelow(Lesser(a, Rescale(b, m, n))) IN
         /\ f \in Int /\ f % 2 = 0 /\ f <= a
         /\ (a >= 2 /\ n * 3 <= 2 * (b * m)) => f >= 2
         /\ f >= a - 1 \/ 2 * (b * m) < n * (2 * f + 3)
<1> DEFINE r == Rescale(b, m, n)
           f == EvenBelow(Lesser(a, r))
<1>1. r \in Int /\ 2 * (b * m) < n * (2 * r) + n
  BY RescaleKnown
<1> HIDE DEF r
<1>2. Lesser(a, r) \in Int /\ Lesser(a, r) \in {a, r} /\ Lesser(a, r) <= a
  BY SMT, <1>1 DEF Lesser
<1>3. /\ f \in Int /\ f % 2 = 0 /\ f <= Lesser(a, r) /\ f >= Lesser(a, r) - 1
      /\ Lesser(a, r) >= 2 => f >= 2
  BY <1>2, EvenBelowKnown
<1> HIDE DEF f
<1>4. ASSUME a >= 2, n * 3 <= 2 * (b * m) PROVE f >= 2
  <2>1. n * 2 < n * (2 * r)
    BY SMT, <1>1, <1>4
  <2>2. 2 < 2 * r
    BY <1>1, <2>1, Cancel
  <2>3. QED
    BY SMT, <1>1, <1>2, <1>3, <1>4, <2>2
<1>5. ASSUME f >= r - 1 PROVE 2 * (b * m) < n * (2 * f + 3)
  <2>1. n * (2 * r + 1) <= n * (2 * f + 3)
    <3>1. 2 * r + 1 \in Int /\ 2 * f + 3 \in Int /\ 2 * r + 1 <= 2 * f + 3
      BY SMT, <1>1, <1>3, <1>5
    <3>2. QED
      BY <3>1, Monotone
  <2>2. n * (2 * r + 1) = n * (2 * r) + n
    BY SMT, <1>1
  <2>3. QED
    BY SMT, <1>1, <1>3, <2>1, <2>2
<1>6. QED
  BY SMT, <1>2, <1>3, <1>4, <1>5 DEF f, r

\* A short side s of at most four pixels less than that of the source x by y,
\* that of the box L by S, or that of the source's shape at the side L
Enough(x, y, L, S, s) == s + 4 > y \/ s + 4 > S \/ (s + 4) * x > y * L

\* Even sides l and s in source and box, either of them long enough
FrameFits(x, y, L, S, l, s) ==
  /\ l \in Int /\ l % 2 = 0 /\ l >= 2 /\ l <= x /\ l <= L /\ Enough(x, y, L, S, l)
  /\ s \in Int /\ s % 2 = 0 /\ s >= 2 /\ s <= y /\ s <= S /\ Enough(x, y, L, S, s)

\* The frame that the filter makes of a source x by y in l by s
FilterLong(x, y, l, s)  == EvenBelow(Lesser(l, Rescale(s, x, y)))
FilterShort(x, y, l, s) == EvenBelow(Lesser(s, Rescale(l, y, x)))

\* A source and a box, longer sides first, no side vanishing
Sides(x, y, L, S) ==
  /\ x \in Nat /\ y \in Nat /\ y >= 4 /\ x >= y /\ x <= 320 * y
  /\ L \in Nat /\ L >= 640 /\ L % 2 = 0 /\ S \in Nat /\ S >= 4 /\ S % 2 = 0

\* A small source is made even and otherwise kept.
LEMMA FrameKept ==
  ASSUME NEW x, NEW y, NEW L, NEW S, Sides(x, y, L, S), x <= L, y <= S,
         NEW l \in Int, l >= 2, l <= x, l >= x - 1, NEW s \in Int, s >= 2, s <= y, s >= y - 1
  PROVE  FrameFits(x, y, L, S, FilterLong(x, y, l, s), FilterShort(x, y, l, s))
<1> DEFINE fl == FilterLong(x, y, l, s)
           fs == FilterShort(x, y, l, s)
<1>1. /\ x \in Nat \ {0} /\ y \in Nat \ {0} /\ y >= 4 /\ x >= y /\ l \in Nat /\ s \in Nat
      /\ x <= 320 * y
  BY SMT DEF Sides
<1>2. /\ fl \in Int /\ fl % 2 = 0 /\ fl <= l
      /\ (l >= 2 /\ y * 3 <= 2 * (s * x)) => fl >= 2
      /\ fl >= l - 1 \/ 2 * (s * x) < y * (2 * fl + 3)
  BY <1>1, FilterKnown DEF FilterLong
<1>3. /\ fs \in Int /\ fs % 2 = 0 /\ fs <= s
      /\ (s >= 2 /\ x * 3 <= 2 * (l * y)) => fs >= 2
      /\ fs >= s - 1 \/ 2 * (l * y) < x * (2 * fs + 3)
  BY <1>1, FilterKnown DEF FilterShort
<1> HIDE DEF fl, fs
<1>4. s * x >= y * x - x /\ s * x >= 2 * x /\ l * y >= x * y - y /\ l * y >= 4 * l
  <2>1. x * (y - 1) <= x * s /\ x * 2 <= x * s /\ y * (x - 1) <= y * l /\ l * 4 <= l * y
    <3>1. y - 1 \in Int /\ x - 1 \in Int /\ y - 1 <= s /\ x - 1 <= l
      BY SMT, <1>1
    <3>2. QED
      BY <1>1, <3>1, Monotone
  <2>2. QED
    BY SMT, <1>1, <2>1
<1>5. fl >= 2 /\ fs >= 2
  BY SMT, <1>1, <1>2, <1>3, <1>4
<1>6. fs + 4 > y
  <2>1. CASE 2 * (l * y) < x * (2 * fs + 3)
    <3>1. x * (2 * y) < x * (2 * fs + 5)
      BY SMT, <1>1, <1>3, <1>4, <2>1
    <3>2. 2 * y < 2 * fs + 5
      BY <1>1, <1>3, <3>1, Cancel
    <3>3. QED
      BY SMT, <1>1, <1>3, <3>2
  <2>2. QED
    BY SMT, <1>1, <1>3, <2>1
<1>7. fl + 4 > y
  <2>1. CASE 2 * (s * x) < y * (2 * fl + 3)
    <3>1. (y - 1) * (x - y) >= 0
      BY SMT, <1>1
    <3>2. y * (2 * y) = 2 * (y * x - x) - 2 * ((y - 1) * (x - y)) + 2 * y
      BY SMT, <1>1
    <3>3. y * (2 * y) < y * (2 * fl + 5)
      BY SMT, <1>1, <1>2, <1>4, <2>1, <3>1, <3>2
    <3>4. 2 * y < 2 * fl + 5
      BY <1>1, <1>2, <3>3, Cancel
    <3>5. QED
      BY SMT, <1>1, <1>2, <3>4
  <2>2. QED
    BY SMT, <1>1, <1>2, <2>1
<1>8. FrameFits(x, y, L, S, fl, fs)
  BY SMT, <1>1, <1>2, <1>3, <1>5, <1>6, <1>7 DEF FrameFits, Enough, Sides
<1>9. QED
  BY <1>8 DEF fl, fs

\* A source that the box's shorter side holds
LEMMA FrameAtShort ==
  ASSUME NEW x, NEW y, NEW L, NEW S, Sides(x, y, L, S), S < y,
         NEW l \in Int, l >= 2, l <= x, l <= L, x * S <= y * l + y
  PROVE  FrameFits(x, y, L, S, FilterLong(x, y, l, S), FilterShort(x, y, l, S))
<1> DEFINE fl == FilterLong(x, y, l, S)
           fs == FilterShort(x, y, l, S)
<1>1. /\ x \in Nat \ {0} /\ y \in Nat \ {0} /\ x >= y /\ l \in Nat /\ S \in Nat /\ S >= 4
  BY SMT DEF Sides
<1>2. /\ fl \in Int /\ fl % 2 = 0 /\ fl <= l
      /\ (l >= 2 /\ y * 3 <= 2 * (S * x)) => fl >= 2
      /\ fl >= l - 1 \/ 2 * (S * x) < y * (2 * fl + 3)
  BY <1>1, FilterKnown DEF FilterLong
<1>3. /\ fs \in Int /\ fs % 2 = 0 /\ fs <= S
      /\ (S >= 2 /\ x * 3 <= 2 * (l * y)) => fs >= 2
      /\ fs >= S - 1 \/ 2 * (l * y) < x * (2 * fs + 3)
  BY <1>1, FilterKnown DEF FilterShort
<1> HIDE DEF fl, fs
<1>4. S * y <= S * x /\ x * 4 <= x * S
  BY <1>1, Monotone
<1>5. fl >= 2 /\ fs >= 2
  BY SMT, <1>1, <1>2, <1>3, <1>4
<1>6. fs + 4 > S
  <2>1. CASE 2 * (l * y) < x * (2 * fs + 3)
    <3>1. x * (2 * S) < x * (2 * fs + 5)
      BY SMT, <1>1, <1>3, <2>1
    <3>2. 2 * S < 2 * fs + 5
      BY <1>1, <1>3, <3>1, Cancel
    <3>3. QED
      BY SMT, <1>1, <1>3, <3>2
  <2>2. QED
    BY SMT, <1>1, <1>3, <2>1
<1>7. fl + 4 > S
  <2>1. CASE 2 * (S * x) < y * (2 * fl + 3)
    <3>1. y * (2 * S) < y * (2 * fl + 3)
      BY SMT, <1>1, <1>2, <1>4, <2>1
    <3>2. 2 * S < 2 * fl + 3
      BY <1>1, <1>2, <3>1, Cancel
    <3>3. QED
      BY SMT, <1>1, <1>2, <3>2
  <2>2. CASE fl >= l - 1
    <3>1. y * S < y * (l + 2)
      BY SMT, <1>1, <1>4
    <3>2. S < l + 2
      BY <1>1, <3>1, Cancel
    <3>3. QED
      BY SMT, <1>1, <1>2, <2>2, <3>2
  <2>3. QED
    BY <1>2, <2>1, <2>2
<1>8. Enough(x, y, L, S, fl) /\ Enough(x, y, L, S, fs)
  BY <1>6, <1>7 DEF Enough
<1>9. fl <= x /\ fl <= L /\ fs <= y /\ fs <= S
  <2>1. x \in Int /\ y \in Int /\ L \in Int /\ S \in Int
    BY SMT DEF Sides
  <2>2. QED
    BY SMT, <1>2, <1>3, <2>1
<1>10. FrameFits(x, y, L, S, fl, fs)
  BY <1>2, <1>3, <1>5, <1>8, <1>9 DEF FrameFits
<1>11. QED
  BY <1>10 DEF fl, fs

\* A source that the box's longer side holds
LEMMA FrameAtLong ==
  ASSUME NEW x, NEW y, NEW L, NEW S, Sides(x, y, L, S), L < x,
         NEW s \in Int, s >= 2, s <= y, s <= S, y * L <= x * s + x
  PROVE  FrameFits(x, y, L, S, FilterLong(x, y, L, s), FilterShort(x, y, L, s))
<1> DEFINE fl == FilterLong(x, y, L, s)
           fs == FilterShort(x, y, L, s)
<1>1. /\ x \in Nat \ {0} /\ y \in Nat \ {0} /\ x >= y /\ s \in Nat /\ L \in Nat /\ L >= 640
      /\ x <= 320 * y
  BY SMT DEF Sides
<1>2. /\ fl \in Int /\ fl % 2 = 0 /\ fl <= L
      /\ (L >= 2 /\ y * 3 <= 2 * (s * x)) => fl >= 2
      /\ fl >= L - 1 \/ 2 * (s * x) < y * (2 * fl + 3)
  BY <1>1, FilterKnown DEF FilterLong
<1>3. /\ fs \in Int /\ fs % 2 = 0 /\ fs <= s
      /\ (s >= 2 /\ x * 3 <= 2 * (L * y)) => fs >= 2
      /\ fs >= s - 1 \/ 2 * (L * y) < x * (2 * fs + 3)
  BY <1>1, FilterKnown DEF FilterShort
<1> HIDE DEF fl, fs
<1>4. x * 2 <= x * s /\ y * 640 <= y * L
  BY SMT, <1>1, Monotone
<1>5. fl >= 2 /\ fs >= 2
  BY SMT, <1>1, <1>2, <1>3, <1>4
<1>6. (fs + 4) * x > y * L
  <2>1. CASE 2 * (L * y) < x * (2 * fs + 3)
    BY SMT, <1>1, <1>3, <2>1
  <2>2. CASE fs >= s - 1
    <3>1. x * (s + 3) <= x * (fs + 4)
      BY SMT, <1>1, <1>3, <2>2, Monotone
    <3>2. QED
      BY SMT, <1>1, <1>3, <3>1
  <2>3. QED
    BY <1>3, <2>1, <2>2
<1>7. (fl + 4) * x > y * L
  <2>1. CASE fl >= L - 1
    <3>1. L * y <= L * x /\ x * (L + 3) <= x * (fl + 4)
      BY SMT, <1>1, <1>2, <2>1, Monotone
    <3>2. QED
      BY SMT, <1>1, <1>2, <3>1
  <2>2. CASE 2 * (s * x) < y * (2 * fl + 3)
    <3>1. (x - y) * (y * L - x) >= 0
      <4>1. x - y \in Nat /\ y * L - x \in Nat
        BY SMT, <1>1, <1>4
      <4>2. QED
        BY <4>1
    <3>2. x * (2 * (y * L - x) + 1) <= x * (y * (2 * fl + 3))
      <4>1. /\ 2 * (y * L - x) + 1 \in Int /\ y * (2 * fl + 3) \in Int
            /\ 2 * (y * L - x) + 1 <= y * (2 * fl + 3)
        BY SMT, <1>1, <1>2, <2>2
      <4>2. QED
        BY <1>1, <4>1, Monotone
    <3>3. y * (2 * ((fl + 4) * x)) = x * (y * (2 * fl + 3)) + 5 * (x * y)
      BY SMT, <1>1, <1>2
    <3>4. x * (2 * (y * L - x) + 1) + 5 * (x * y)
            = y * (2 * (y * L)) + 2 * ((x - y) * (y * L - x)) + 3 * (x * y) + x
      BY SMT, <1>1
    <3>5. x * y >= 0
      BY SMT, <1>1
    <3>6. y * (2 * (y * L)) < y * (2 * ((fl + 4) * x))
      BY SMT, <1>1, <1>2, <3>1, <3>2, <3>3, <3>4, <3>5
    <3>7. 2 * (y * L) < 2 * ((fl + 4) * x)
      BY <1>1, <1>2, <3>6, Cancel
    <3>8. QED
      BY SMT, <1>1, <1>2, <3>7
  <2>3. QED
    BY <1>2, <2>1, <2>2
<1>8. Enough(x, y, L, S, fl) /\ Enough(x, y, L, S, fs)
  BY <1>6, <1>7 DEF Enough
<1>9. fl <= x /\ fl <= L /\ fs <= y /\ fs <= S
  <2>1. x \in Int /\ y \in Int /\ L \in Int /\ S \in Int
    BY SMT DEF Sides
  <2>2. QED
    BY SMT, <1>2, <1>3, <2>1
<1>10. FrameFits(x, y, L, S, fl, fs)
  BY <1>2, <1>3, <1>5, <1>8, <1>9 DEF FrameFits
<1>11. QED
  BY <1>10 DEF fl, fs

\* The even number within a limit that a rounded quotient becomes
LEMMA RoundedWithin ==
  ASSUME NEW n \in Nat, NEW d \in Nat \ {0}, NEW limit \in Nat, limit >= 2, n <= d * limit
  PROVE  LET e == evenAtMost(roundedEven(n, d), limit) IN
         e \in Int /\ e >= 2 /\ e <= limit /\ n <= d * e + d
<1> DEFINE r == roundedEven(n, d)
           e == evenAtMost(r, limit)
<1>1. r \in Int /\ r % 2 = 0 /\ n <= d * r + d /\ limit \in Int
  BY RoundedEvenKnown
<1> HIDE DEF r
<1>2. /\ e \in Int /\ e >= 2 /\ e <= limit
      /\ e >= r - 1 \/ e >= limit - 1
      /\ r <= limit => e >= r
  BY <1>1, EvenAtMostKnown
<1> HIDE DEF e
<1>3. CASE r <= limit
  <2>1. d * r <= d * e
    BY <1>1, <1>2, <1>3, Monotone
  <2>2. QED
    BY SMT, <1>1, <1>2, <2>1 DEF e, r
<1>4. CASE r > limit
  <2>1. limit - 1 <= e /\ limit - 1 \in Int
    BY SMT, <1>1, <1>2, <1>4
  <2>2. d * (limit - 1) <= d * e
    BY <1>2, <2>1, Monotone
  <2>3. d * (limit - 1) = d * limit - d
    BY SMT
  <2>4. QED
    BY SMT, <1>2, <2>2, <2>3 DEF e, r
<1>5. r <= limit \/ r > limit
  BY SMT, <1>1
<1>6. QED
  BY <1>3, <1>4, <1>5

\* The sides l and s that the planner gives a source x by y in a box L by S
PlannedSides(x, y, L, S, l, s) ==
  \/ x <= L /\ y <= S /\ l = evenAtMost(x, Lesser(x, L)) /\ s = evenAtMost(y, Lesser(y, S))
  \/ /\ ~(x <= L /\ y <= S) /\ x * S >= y * L
     /\ l = evenAtMost(L, Lesser(x, L)) /\ s = evenAtMost(roundedEven(y * L, x), Lesser(y, S))
  \/ /\ ~(x <= L /\ y <= S) /\ x * S <= y * L
     /\ l = evenAtMost(roundedEven(x * S, y), Lesser(x, L)) /\ s = evenAtMost(S, Lesser(y, S))

\* From them the filter makes a frame that fits.
LEMMA PlannedFits ==
  ASSUME NEW x, NEW y, NEW L, NEW S, Sides(x, y, L, S), NEW l, NEW s,
         PlannedSides(x, y, L, S, l, s)
  PROVE  /\ l \in Int /\ s \in Int /\ l >= 2 /\ s >= 2
         /\ FrameFits(x, y, L, S, FilterLong(x, y, l, s), FilterShort(x, y, l, s))
<1>1. /\ x \in Nat \ {0} /\ y \in Nat \ {0} /\ x >= 4 /\ y >= 4 /\ x >= y
      /\ L \in Nat /\ L >= 4 /\ L % 2 = 0 /\ S \in Nat /\ S >= 4 /\ S % 2 = 0
  BY SMT DEF Sides
<1>2. /\ \A a, b : Lesser(a, b) = IF a < b THEN a ELSE b
      /\ x * S \in Nat /\ y * L \in Nat
  BY SMT, <1>1 DEF Lesser
<1>3. CASE x <= L /\ y <= S /\ l = evenAtMost(x, Lesser(x, L)) /\ s = evenAtMost(y, Lesser(y, S))
  <2>1. Lesser(x, L) = x /\ Lesser(y, S) = y
    BY SMT, <1>1, <1>3 DEF Lesser
  <2>2. /\ l \in Int /\ l >= 2 /\ l <= x /\ l >= x - 1
        /\ s \in Int /\ s >= 2 /\ s <= y /\ s >= y - 1
    BY SMT, <1>1, <1>3, <2>1, EvenAtMostKnown
  <2>3. QED
    BY <1>1, <1>3, <2>2, FrameKept
<1>4. CASE /\ ~(x <= L /\ y <= S) /\ x * S >= y * L
           /\ l = evenAtMost(L, Lesser(x, L))
           /\ s = evenAtMost(roundedEven(y * L, x), Lesser(y, S))
  <2>1. L < x
    <3>1. SUFFICES ASSUME x <= L PROVE FALSE
      BY SMT, <1>1
    <3>2. S + 1 <= y /\ S + 1 \in Int
      BY SMT, <1>1, <1>4, <3>1
    <3>3. x * (S + 1) <= x * y /\ y * x <= y * L
      BY <1>1, <3>1, <3>2, Monotone
    <3>4. QED
      BY SMT, <1>1, <1>4, <3>3
  <2>2. l = L
    <3>1. Lesser(x, L) = L
      BY SMT, <1>1, <2>1 DEF Lesser
    <3>2. evenAtMost(L, L) \in Int /\ evenAtMost(L, L) <= L /\ evenAtMost(L, L) >= L
      BY SMT, <1>1, EvenAtMostKnown
    <3>3. QED
      BY SMT, <1>1, <1>4, <3>1, <3>2
  <2>3. PICK m \in {y, S} : m = Lesser(y, S) /\ m <= y /\ m <= S
    BY SMT, <1>1 DEF Lesser
  <2>4. y * L <= x * m
    <3>1. y * L <= y * x
      BY <1>1, <2>1, Monotone
    <3>2. QED
      BY SMT, <1>1, <1>4, <2>3, <3>1
  <2>5. m \in Nat /\ m >= 2
    BY SMT, <1>1, <2>3
  <2>6. s \in Int /\ s >= 2 /\ s <= m /\ y * L <= x * s + x
    BY <1>1, <1>2, <1>4, <2>3, <2>4, <2>5, RoundedWithin
  <2>7. s <= y /\ s <= S
    BY SMT, <1>1, <2>3, <2>5, <2>6
  <2>8. l \in Int /\ l >= 2
    BY SMT, <1>1, <2>2
  <2>9. QED
    BY <2>1, <2>2, <2>6, <2>7, <2>8, FrameAtLong
<1>5. CASE /\ ~(x <= L /\ y <= S) /\ x * S <= y * L
           /\ l = evenAtMost(roundedEven(x * S, y), Lesser(x, L))
           /\ s = evenAtMost(S, Lesser(y, S))
  <2>1. S < y
    <3>1. SUFFICES ASSUME y <= S PROVE FALSE
      BY SMT, <1>1
    <3>2. L + 1 <= x /\ L + 1 \in Int
      BY SMT, <1>1, <1>5, <3>1
    <3>3. S * (L + 1) <= S * x /\ L * y <= L * S
      BY <1>1, <3>1, <3>2, Monotone
    <3>4. QED
      BY SMT, <1>1, <1>5, <3>3
  <2>2. s = S
    <3>1. Lesser(y, S) = S
      BY SMT, <1>1, <2>1 DEF Lesser
    <3>2. evenAtMost(S, S) \in Int /\ evenAtMost(S, S) <= S /\ evenAtMost(S, S) >= S
      BY SMT, <1>1, EvenAtMostKnown
    <3>3. QED
      BY SMT, <1>1, <1>5, <3>1, <3>2
  <2>3. PICK m \in {x, L} : m = Lesser(x, L) /\ m <= x /\ m <= L
    BY SMT, <1>1 DEF Lesser
  <2>4. x * S <= y * m
    <3>1. x * S <= x * y
      BY <1>1, <2>1, Monotone
    <3>2. QED
      BY SMT, <1>1, <1>5, <2>3, <3>1
  <2>5. m \in Nat /\ m >= 2
    BY SMT, <1>1, <2>3
  <2>6. l \in Int /\ l >= 2 /\ l <= m /\ x * S <= y * l + y
    BY <1>1, <1>2, <1>5, <2>3, <2>4, <2>5, RoundedWithin
  <2>7. l <= x /\ l <= L
    BY SMT, <1>1, <2>3, <2>5, <2>6
  <2>8. s \in Int /\ s >= 2
    BY SMT, <1>1, <2>2
  <2>9. QED
    BY <2>1, <2>2, <2>6, <2>7, <2>8, FrameAtShort
<1>6. QED
  BY <1>3, <1>4, <1>5 DEF PlannedSides

\* The sides of the box that a total affords
BoxLong(total)  == IF total >= 1250000 THEN 1280 ELSE IF total >= 850000 THEN 854 ELSE 640
BoxShort(total) == IF total >= 1250000 THEN 720 ELSE IF total >= 850000 THEN 480 ELSE 360

\* They are even, and those of the tier.
LEMMA Boxes ==
  ASSUME NEW total
  PROVE  LET L == BoxLong(total)  S == BoxShort(total) IN
         /\ L \in Nat /\ L >= 640 /\ L <= 1280 /\ L % 2 = 0
         /\ S \in Nat /\ S >= 4 /\ S <= 720 /\ S % 2 = 0 /\ S <= L
         /\ chooseCompressionTier(total).long = L /\ chooseCompressionTier(total).short = S
<1>1. /\ compressionTiers[1].long = 640 /\ compressionTiers[1].short = 360
      /\ compressionTiers[2].long = 854 /\ compressionTiers[2].short = 480
      /\ compressionTiers[3].long = 1280 /\ compressionTiers[3].short = 720
  BY SMT DEF compressionTiers
<1>2. CASE total >= 1250000
  BY SMT, <1>1, <1>2 DEF BoxLong, BoxShort, chooseCompressionTier
<1>3. CASE ~(total >= 1250000) /\ total >= 850000
  BY SMT, <1>1, <1>3 DEF BoxLong, BoxShort, chooseCompressionTier
<1>4. CASE ~(total >= 1250000) /\ ~(total >= 850000)
  BY SMT, <1>1, <1>4 DEF BoxLong, BoxShort, chooseCompressionTier
<1>5. QED
  BY <1>2, <1>3, <1>4

\* The box that the planner fits a frame in lies as the source does.
LEMMA Bounds ==
  ASSUME NEW total, NEW source, source.width \in Int, source.height \in Int
  PROVE  LET L == BoxLong(total)  S == BoxShort(total)
             box == compressionBounds(chooseCompressionTier(total), source)
         IN  /\ box = BoxFor(total, source)
             /\ box = IF source.width >= source.height THEN Size(L, S) ELSE Size(S, L)
<1> DEFINE tier == chooseCompressionTier(total)
<1>1. tier.long = BoxLong(total) /\ tier.short = BoxShort(total)
  BY Boxes
<1> HIDE DEF tier
<1>2. source.height > source.width <=> ~(source.width >= source.height)
  BY SMT
<1>3. BoxFor(total, source) = IF source.height > source.width
                              THEN Size(BoxShort(total), BoxLong(total))
                              ELSE Size(BoxLong(total), BoxShort(total))
  BY SMT DEF BoxFor, BoxLong, BoxShort
<1>4. compressionBounds(tier, source) = IF source.width >= source.height
                                        THEN Size(tier.long, tier.short)
                                        ELSE Size(tier.short, tier.long)
  BY DEF compressionBounds, Landscape
<1>5. QED
  BY <1>1, <1>2, <1>3, <1>4 DEF tier

\* The planner's frame, by its sides
LEMMA FitKnown ==
  ASSUME NEW total, NEW source, source.width \in Nat, source.height \in Nat
  PROVE  LET L == BoxLong(total)  S == BoxShort(total)
             w == source.width    h == source.height
             size == fitCompressionBounds(chooseCompressionTier(total), source)
         IN  /\ w >= h => PlannedSides(w, h, L, S, size.width, size.height)
             /\ ~(w >= h) => PlannedSides(h, w, L, S, size.height, size.width)
<1> DEFINE L == BoxLong(total)
           S == BoxShort(total)
           w == source.width
           h == source.height
           box == compressionBounds(chooseCompressionTier(total), source)
           wide == w * box.height > h * box.width
           fitted == IF Within(source, box) THEN source
                     ELSE IF wide THEN Size(box.width, roundedEven(h * box.width, w))
                     ELSE Size(roundedEven(w * box.height, h), box.height)
           size == fitCompressionBounds(chooseCompressionTier(total), source)
<1>1. size = Size(evenAtMost(fitted.width, Lesser(w, box.width)),
                  evenAtMost(fitted.height, Lesser(h, box.height)))
  BY DEF fitCompressionBounds
<1>2. box = IF w >= h THEN Size(L, S) ELSE Size(S, L)
  BY Bounds
<1>3. L \in Nat /\ S \in Nat /\ w \in Nat /\ h \in Nat
  BY Boxes
<1>4. \A a, b : Size(a, b).width = a /\ Size(a, b).height = b
  BY DEF Size
<1> HIDE DEF size, box, L, S
<1>5. /\ size.width = evenAtMost(fitted.width, Lesser(w, box.width))
      /\ size.height = evenAtMost(fitted.height, Lesser(h, box.height))
  BY <1>1, <1>4
<1>6. /\ Within(source, box) => fitted.width = w /\ fitted.height = h
      /\ ~Within(source, box) /\ wide =>
           fitted.width = box.width /\ fitted.height = roundedEven(h * box.width, w)
      /\ ~Within(source, box) /\ ~wide =>
           fitted.width = roundedEven(w * box.height, h) /\ fitted.height = box.height
  BY <1>4
<1> HIDE DEF fitted
<1>7. ASSUME w >= h
      PROVE  PlannedSides(w, h, L, S, size.width, size.height)
  <2>1. box.width = L /\ box.height = S
    BY <1>2, <1>4, <1>7
  <2>2. Within(source, box) <=> w <= L /\ h <= S
    BY <2>1 DEF Within
  <2>3. wide => w * S >= h * L
    BY SMT, <1>3, <2>1
  <2>4. ~wide => w * S <= h * L
    BY SMT, <1>3, <2>1
  <2> HIDE DEF w, h, wide
  <2>5. QED
    BY <1>5, <1>6, <2>1, <2>2, <2>3, <2>4 DEF PlannedSides
<1>8. ASSUME ~(w >= h)
      PROVE  PlannedSides(h, w, L, S, size.height, size.width)
  <2>1. box.width = S /\ box.height = L
    BY <1>2, <1>4, <1>8
  <2>2. Within(source, box) <=> h <= L /\ w <= S
    BY <2>1 DEF Within
  <2>3. wide => h * S <= w * L
    BY SMT, <1>3, <2>1
  <2>4. ~wide => h * S >= w * L
    BY SMT, <1>3, <2>1
  <2> HIDE DEF w, h, wide
  <2>5. QED
    BY <1>5, <1>6, <2>1, <2>2, <2>3, <2>4 DEF PlannedSides
<1>9. QED
  BY <1>7, <1>8 DEF L, S, size

\* The planner's frame is in the box.
LEMMA InBox ==
  ASSUME NEW total, NEW source, source.width \in Nat \ {0}, source.height \in Nat \ {0}
  PROVE  LET size == fitCompressionBounds(chooseCompressionTier(total), source)
             box_ == BoxFor(total, source)
         IN  /\ size.width \in Int /\ size.height \in Int
             /\ box_.width \in Int /\ box_.height \in Int
             /\ Within(size, box_)
<1> DEFINE w == source.width
           h == source.height
           box == compressionBounds(chooseCompressionTier(total), source)
           fitted == IF Within(source, box) THEN source
                     ELSE IF w * box.height > h * box.width
                     THEN Size(box.width, roundedEven(h * box.width, w))
                     ELSE Size(roundedEven(w * box.height, h), box.height)
           size == fitCompressionBounds(chooseCompressionTier(total), source)
<1>1. box = BoxFor(total, source)
  BY Bounds
<1>2. \A a, b : Size(a, b).width = a /\ Size(a, b).height = b
  BY DEF Size
<1>3. box.width \in Nat /\ box.height \in Nat
  <2>1. box \in {Size(BoxLong(total), BoxShort(total)), Size(BoxShort(total), BoxLong(total))}
    BY Bounds
  <2>2. BoxLong(total) \in Nat /\ BoxShort(total) \in Nat
    BY Boxes
  <2> HIDE DEF box
  <2>3. QED
    BY <1>2, <2>1, <2>2
<1>4. /\ size.width = evenAtMost(fitted.width, Lesser(w, box.width))
      /\ size.height = evenAtMost(fitted.height, Lesser(h, box.height))
  BY <1>2 DEF fitCompressionBounds
<1> HIDE DEF size, box
<1>5. fitted.width \in Int /\ fitted.height \in Int
  <2>1. /\ roundedEven(h * box.width, w) \in Int /\ roundedEven(w * box.height, h) \in Int
        /\ w \in Int /\ h \in Int
    <3>1. /\ h * box.width \in Nat /\ w * box.height \in Nat
          /\ w \in Nat \ {0} /\ h \in Nat \ {0} /\ w \in Int /\ h \in Int
      BY <1>3
    <3> HIDE DEF w, h
    <3>2. QED
      BY <3>1, RoundedEvenKnown
  <2>2. QED
    BY <1>2, <1>3, <2>1
<1> HIDE DEF fitted
<1>6. ASSUME NEW v \in Int, NEW a \in Nat, NEW b \in Nat
      PROVE  evenAtMost(v, Lesser(a, b)) \in Int /\ evenAtMost(v, Lesser(a, b)) <= b
  BY SMT DEF evenAtMost, Lesser
<1>7. /\ size.width \in Int /\ size.width <= box.width
      /\ size.height \in Int /\ size.height <= box.height
  BY <1>3, <1>4, <1>5, <1>6
<1>8. QED
  BY <1>1, <1>3, <1>7 DEF Within, size

\* Whatever a source's shape, and whatever total it is given, the frame that
\* FFmpeg makes of it in the planner's bounds fits source and box, and is no
\* smaller than it has to be.
THEOREM FrameFitted ==
  ASSUME NEW total, NEW source, source.width \in Int, source.height \in Int, Reducible(source)
  PROVE  LET size == fitCompressionBounds(chooseCompressionTier(total), source) IN
         WellFitted(ScaledFrame(source, Resolution("fit", size, FALSE)), source,
                    BoxFor(total, source))
<1> DEFINE L == BoxLong(total)
           S == BoxShort(total)
           w == source.width
           h == source.height
           size == fitCompressionBounds(chooseCompressionTier(total), source)
           frame == ScaledFrame(source, Resolution("fit", size, FALSE))
           box == BoxFor(total, source)
<1>1. w \in Nat /\ h \in Nat /\ w >= 4 /\ h >= 4 /\ w <= 320 * h /\ h <= 320 * w
  BY SMT DEF Reducible
<1>2. /\ L \in Nat /\ L >= 640 /\ L % 2 = 0
      /\ S \in Nat /\ S >= 4 /\ S % 2 = 0 /\ S <= L
  BY Boxes
<1>3. \A a, b : Size(a, b).width = a /\ Size(a, b).height = b
  BY DEF Size
<1>4. box = IF w >= h THEN Size(L, S) ELSE Size(S, L)
  BY <1>1, Bounds
<1>5. /\ w >= h => PlannedSides(w, h, L, S, size.width, size.height)
      /\ ~(w >= h) => PlannedSides(h, w, L, S, size.height, size.width)
  BY <1>1, FitKnown
<1> HIDE DEF L, S, size
<1>6. ASSUME size.width >= 2, size.height >= 2
      PROVE  /\ frame.width = FilterLong(w, h, size.width, size.height)
             /\ frame.height = FilterShort(w, h, size.width, size.height)
  <2>1. size.width # 0 /\ size.height # 0
    BY SMT, <1>6
  <2>2. frame = Size(EvenBelow(Lesser(size.width, Rescale(size.height, w, h))),
                     EvenBelow(Lesser(size.height, Rescale(size.width, h, w))))
    BY <2>1 DEF ScaledFrame, Resolution
  <2>3. QED
    BY <1>3, <2>2 DEF FilterLong, FilterShort
<1> HIDE DEF frame, box
<1>7. CASE w >= h
  <2>1. Sides(w, h, L, S)
    BY <1>1, <1>2, <1>7 DEF Sides
  <2>2. /\ size.width >= 2 /\ size.height >= 2
        /\ FrameFits(w, h, L, S, FilterLong(w, h, size.width, size.height),
                     FilterShort(w, h, size.width, size.height))
    BY <1>5, <1>7, <2>1, PlannedFits
  <2>3. FrameFits(w, h, L, S, frame.width, frame.height)
    BY <1>6, <2>2
  <2>4. box.width = L /\ box.height = S
    BY <1>3, <1>4, <1>7
  <2>5. LongSide(source) = w /\ ShortSide(source) = h /\ ShortSide(box) = S /\ LongSide(box) = L
    BY SMT, <1>1, <1>2, <1>7, <2>4 DEF LongSide, ShortSide, Greater, Lesser
  <2>6. ShortSide(frame) \in {frame.width, frame.height}
    BY DEF ShortSide, Lesser
  <2> HIDE DEF w, h
  <2>7. Enough(w, h, L, S, ShortSide(frame))
    BY <2>3, <2>6 DEF FrameFits
  <2>8. WellFitted(frame, source, box)
    BY <2>3, <2>4, <2>5, <2>7 DEF FrameFits, Enough, WellFitted, Within, w, h
  <2>9. QED
    BY <2>8 DEF frame, size, box
<1>8. CASE ~(w >= h)
  <2>1. Sides(h, w, L, S)
    BY <1>1, <1>2, <1>8 DEF Sides
  <2>2. /\ size.width >= 2 /\ size.height >= 2
        /\ FrameFits(h, w, L, S, FilterLong(h, w, size.height, size.width),
                     FilterShort(h, w, size.height, size.width))
    BY <1>5, <1>8, <2>1, PlannedFits
  <2>3. FrameFits(h, w, L, S, frame.height, frame.width)
    BY <1>6, <2>2 DEF FilterLong, FilterShort
  <2>4. box.width = S /\ box.height = L
    BY <1>3, <1>4, <1>8
  <2>5. LongSide(source) = h /\ ShortSide(source) = w /\ ShortSide(box) = S /\ LongSide(box) = L
    BY SMT, <1>1, <1>2, <1>8, <2>4 DEF LongSide, ShortSide, Greater, Lesser
  <2>6. ShortSide(frame) \in {frame.width, frame.height}
    BY DEF ShortSide, Lesser
  <2> HIDE DEF w, h
  <2>7. Enough(h, w, L, S, ShortSide(frame))
    BY <2>3, <2>6 DEF FrameFits
  <2>8. WellFitted(frame, source, box)
    BY <2>3, <2>4, <2>5, <2>7 DEF FrameFits, Enough, WellFitted, Within, w, h
  <2>9. QED
    BY <2>8 DEF frame, size, box
<1>9. QED
  BY <1>7, <1>8

\* What a plan says of the frame, and when it is a copy
LEMMA PlanFrame ==
  ASSUME NEW inputSize, NEW probe_, NEW output,
         output.mode = "auto" \/ autoCompressionPlan(inputSize, probe_, output).copy
  PROVE  LET total == TargetTotal(inputTotalBitrate(inputSize, probe_.seconds))
             size  == fitCompressionBounds(chooseCompressionTier(total), Displayed(probe_))
             plan_ == autoCompressionPlan(inputSize, probe_, output)
         IN  /\ plan_.resolution = Resolution("fit", size, FALSE)
             /\ plan_.copy => autoCopySafe(probe_, output, size)
<1> DEFINE source == inputTotalBitrate(inputSize, probe_.seconds)
           target == TargetTotal(source)
           max    == MaxTotal(source)
           audio  == AudioShare(target, RequestedAudio(output))
           rest   == VideoShare(target, audio)
           video  == VideoRate(rest)
           size   == compressionTargetDimensions(output, chooseCompressionTier(target),
                                                 Displayed(probe_))
           copy   == rest <= 0 /\ autoCopySafe(probe_, output, size)
           plan_  == autoCompressionPlan(inputSize, probe_, output)
<1>1. plan_ = [source     |-> source,
               target     |-> IF copy THEN source ELSE target,
               max        |-> IF copy THEN source ELSE max,
               video      |-> IF copy THEN 0 ELSE video,
               maxrate    |-> IF copy THEN 0
                              ELSE MaxVideoRate(rest, VideoShare(max, audio)),
               audioKbps  |-> (IF copy THEN Greater(audio, autoMinimumAudioBps) ELSE audio) \div 1000,
               size       |-> size,
               resolution |-> autoPlanResolution(output, size),
               copy       |-> copy]
  BY DEF autoCompressionPlan, VideoRate, MaxVideoRate
<1> HIDE DEF plan_, source, target, max, audio, rest, video, size, copy
<1>2. plan_.copy = copy /\ plan_.resolution = autoPlanResolution(output, size)
  BY <1>1
<1>3. plan_.copy => autoCopySafe(probe_, output, size)
  BY <1>2 DEF copy
<1>4. output.mode = "auto"
  BY <1>3 DEF autoCopySafe, plan_
<1>5. size = fitCompressionBounds(chooseCompressionTier(target), Displayed(probe_))
  BY <1>4 DEF compressionTargetDimensions, size
<1>6. autoPlanResolution(output, size) = Resolution("fit", size, FALSE)
  BY <1>4 DEF autoPlanResolution
<1>7. QED
  BY <1>2, <1>3, <1>5, <1>6 DEF plan_, target, source
=============================================================================
