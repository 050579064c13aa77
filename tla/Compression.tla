----------------------------- MODULE Compression -----------------------------
(***************************************************************************)
(* The automatic compression planner of compression.go: from the size of   *)
(* the input, ffprobe's report and the stored output specification to the  *)
(* bit rates and the frame size that FFmpeg is asked for.                  *)
(*                                                                         *)
(* Rates are in bits per second.  A duration is a number of seconds, 0 for *)
(* one that does not parse or is not positive.                             *)
(***************************************************************************)
EXTENDS Integers, Sequences

autoMaxTotalBitrate   == 1600000
autoContainerOverhead == 20000
autoDefaultAudioKbps  == 128
autoMinimumAudioBps   == 16000
autoMinimumVideoBps   == 300000

\* Percentages of the source's bit rate
autoSourceTargetPercent == 85
autoSourceMaxPercent    == 95

Lesser(a, b)  == IF a < b THEN a ELSE b
Greater(a, b) == IF a > b THEN a ELSE b

\* A frame size
Size(w, h) == [width |-> w, height |-> h]

Landscape(s) == s.width >= s.height

\* s needs no reduction to be at most b.
Within(s, b) == s.width <= b.width /\ s.height <= b.height

-----------------------------------------------------------------------------
(* Reading ffprobe's report *)

VideoIndexes(probe) == {i \in DOMAIN probe.streams : probe.streams[i].type = "video"}

HasVideo(probe) == VideoIndexes(probe) # {}

\* The first video stream
probeVideo(probe) ==
  probe.streams[CHOOSE i \in VideoIndexes(probe) : \A k \in VideoIndexes(probe) : i <= k]

\* rotations: the stream's own field, the side data in order, the rotate tag;
\* the first that is not 0 counts.
probeRotation(stream) ==
  LET r       == stream.rotations
      nonzero == {i \in DOMAIN r : r[i] # 0}
  IN  IF nonzero = {} THEN 0
      ELSE r[CHOOSE i \in nonzero : \A k \in nonzero : i <= k] % 360

probeDisplayDimensions(stream) ==
  IF probeRotation(stream) \in {90, 270}
  THEN Size(stream.height, stream.width)
  ELSE Size(stream.width, stream.height)

Displayed(probe) == probeDisplayDimensions(probeVideo(probe))

inputTotalBitrate(inputSize, seconds) ==
  IF inputSize <= 0 \/ seconds <= 0 THEN 0 ELSE (inputSize * 8) \div seconds

\* There is something to plan for.
Plannable(inputSize, probe) ==
  /\ HasVideo(probe)
  /\ probe.seconds > 0
  /\ inputSize > 0 /\ Displayed(probe).width > 0 /\ Displayed(probe).height > 0
  /\ inputTotalBitrate(inputSize, probe.seconds) > 0

-----------------------------------------------------------------------------
(* The frame size *)

\* Bounding boxes, by their longer and their shorter side
compressionTiers == <<[long |-> 640,  short |-> 360],
                      [long |-> 854,  short |-> 480],
                      [long |-> 1280, short |-> 720]>>

chooseCompressionTier(target) ==
  compressionTiers[IF target >= 1250000 THEN 3 ELSE IF target >= 850000 THEN 2 ELSE 1]

compressionBounds(tier, source) ==
  IF Landscape(source) THEN Size(tier.long, tier.short) ELSE Size(tier.short, tier.long)

\* n / d rounded to the nearest even number
roundedEven(n, d) == ((n + d) \div (2 * d)) * 2

evenAtMost(value, limit) ==
  LET v == Lesser(value, limit)
      e == v - (v % 2)
  IN  IF e < 2 /\ limit >= 2 THEN 2 ELSE e

\* The largest box of the source's shape in the tier's, in even numbers
fitCompressionBounds(tier, source) ==
  LET box  == compressionBounds(tier, source)
      wide == source.width * box.height > source.height * box.width
      fitted == IF Within(source, box) THEN source
                ELSE IF wide
                THEN Size(box.width, roundedEven(source.height * box.width, source.width))
                ELSE Size(roundedEven(source.width * box.height, source.height), box.height)
  IN  Size(evenAtMost(fitted.width, Lesser(source.width, box.width)),
           evenAtMost(fitted.height, Lesser(source.height, box.height)))

\* Mistake: the fitting is left to FFmpeg.
TargetUnfitted(output, tier, source) ==
  CASE output.mode = "source" -> source
    [] output.mode = "fit"    -> Size(output.width, output.height)
    [] OTHER                  -> compressionBounds(tier, source)

compressionTargetDimensions(output, tier, source) ==
  CASE output.mode = "source" -> source
    [] output.mode = "fit"    -> Size(output.width, output.height)
    [] OTHER                  -> fitCompressionBounds(tier, source)

\* What the scale filter is given
Resolution(mode, size, upscale) == [mode |-> mode, size |-> size, upscale |-> upscale]

Requested(output) == Resolution(output.mode, Size(output.width, output.height), output.upscale)

autoPlanResolution(output, size) ==
  IF output.mode \in {"source", "fit"} THEN Requested(output) ELSE Resolution("fit", size, FALSE)

-----------------------------------------------------------------------------
(* The bit rates *)

RequestedAudio(output) ==
  (IF output.kbps <= 0 THEN autoDefaultAudioKbps ELSE output.kbps) * 1000

\* What a total leaves for video
VideoShare(total, audio) == total - audio - autoContainerOverhead

\* Mistake: audio always gets what it asks for.
AudioUncut(target, requested) == requested

\* The requested audio, or less of it when video would get less than its floor
\* and the total has room for both floors
AudioShare(target, requested) ==
  IF /\ VideoShare(target, requested) < autoMinimumVideoBps
     /\ target > autoContainerOverhead + autoMinimumAudioBps + autoMinimumVideoBps
  THEN Greater((VideoShare(target, autoMinimumVideoBps) \div 1000) * 1000, autoMinimumAudioBps)
  ELSE requested

\* Mistake: only the video stream is looked at.
CopySafeVideo(probe, output, target) ==
  /\ output.container = "mp4" /\ output.codec = "h264" /\ output.acodec = "aac"
  /\ output.mode = "auto"
  /\ probeVideo(probe).codec = "h264" /\ Within(Displayed(probe), target)

\* The streams can be kept as they are.
autoCopySafe(probe, output, target) ==
  /\ output.container = "mp4" /\ output.codec = "h264" /\ output.acodec = "aac"
  /\ output.mode = "auto"
  /\ probeVideo(probe).codec = "h264" /\ Within(Displayed(probe), target)
  /\ \A i \in DOMAIN probe.streams :
       probe.streams[i].type = "audio" => probe.streams[i].codec = "aac"

TargetTotal(source) ==
  Lesser((source * autoSourceTargetPercent) \div 100, autoMaxTotalBitrate)

MaxTotal(source) ==
  Greater(Lesser((source * autoSourceMaxPercent) \div 100, autoMaxTotalBitrate),
          TargetTotal(source))

\* Where nothing is left for video, a safe copy, else the smallest rate.
autoCompressionPlan(inputSize, probe, output) ==
  LET source == inputTotalBitrate(inputSize, probe.seconds)
      target == TargetTotal(source)
      max    == MaxTotal(source)
      audio  == AudioShare(target, RequestedAudio(output))
      left   == VideoShare(target, audio)
      video  == IF left <= 0 THEN 1000 ELSE left
      size   == compressionTargetDimensions(output, chooseCompressionTier(target),
                                            Displayed(probe))
      copy   == left <= 0 /\ autoCopySafe(probe, output, size)
  IN  [source     |-> source,
       target     |-> IF copy THEN source ELSE target,
       max        |-> IF copy THEN source ELSE max,
       video      |-> IF copy THEN 0 ELSE video,
       maxrate    |-> IF copy THEN 0
                      ELSE Greater(video, IF left <= 0 THEN 0 ELSE VideoShare(max, audio)),
       audioKbps  |-> (IF copy THEN Greater(audio, autoMinimumAudioBps) ELSE audio) \div 1000,
       size       |-> size,
       resolution |-> autoPlanResolution(output, size),
       copy       |-> copy]

\* The number of kilobits FFmpeg is given
bitrateArg(bps) == Greater(bps \div 1000, 1)
=============================================================================
