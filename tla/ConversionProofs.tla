--------------------------- MODULE ConversionProofs ---------------------------
(***************************************************************************)
(* Theorems about Conversion, for any requests and reports of ffprobe, any *)
(* limits, amounts written to stderr, and number of restarts.              *)
(*                                                                         *)
(* The argument: the specification a job is stored with stays valid and    *)
(* the same, so does the report, and all that a run decides from them is   *)
(* decided again the same way; only the devices differ, and they only      *)
(* shorten the list of encoders, never by its last one, software.          *)
(***************************************************************************)
EXTENDS Conversion, SequenceTheorems, TLAPS

\* Codecs that tables have, a quality in its range
SpecValid == compatible(spec) /\ QualityValid(spec)

\* The plan of every run, the arguments it leads to
PlanOf == autoCompressionPlan(request.size, probe, spec)

VideoOf(name) ==
  IF PlanOf.copy
  THEN [name |-> "copy", control |-> "copy", quality |-> 0, rate |-> 0, maxrate |-> 0, buffer |-> 0]
  ELSE [name |-> name, control |-> "rate", quality |-> 0,
        rate |-> bitrateArg(PlanOf.video), maxrate |-> bitrateArg(PlanOf.maxrate),
        buffer |-> bitrateArg(PlanOf.maxrate * 2)]

AudioOf ==
  [codec  |-> IF PlanOf.copy THEN "copy" ELSE audioEncoder[spec.acodec],
   kbps   |-> IF PlanOf.copy THEN 0 ELSE PlanOf.audioKbps,
   tracks |-> "first"]

ScaleOf == IF PlanOf.copy THEN None ELSE Scale(PlanOf.resolution)

Modes == {"software", "nvenc", "vaapi", "copy"}

\* Names of encoders for the codec
Names == {softwareEncoder[spec.codec], nvencEncoder[spec.codec], vaapiEncoder[spec.codec], "copy"}

Encoders == {e \in [mode : Modes, name : Names, hardware : BOOLEAN] :
               e.hardware = (e.mode \in {"nvenc", "vaapi"})}

AtWork == {"launch", "running"}

\* What the current run decided
RunKnown ==
  stage \in AtWork =>
    /\ plan \in {None, PlanOf}
    /\ spec.quality = "auto" => plan # None
    /\ left \in Seq(Encoders) /\ left # <<>>
    /\ spec.encoder = "auto" => ~left[Len(left)].hardware
    /\ plan = None => \A i \in 1 .. Len(left) : left[i].mode # "copy"
    /\ stage = "running" => \E c \in commands : c.mode = left[1].mode

\* What all runs asked for
CommandKnown(c) ==
  /\ c.video.control \in {"rate", "copy"} =>
       (\E n \in Names : c.video = VideoOf(n)) /\ c.audio = AudioOf /\ c.scale = ScaleOf
  /\ c.video.control \in {"crf", "qp", "cq"} =>
       c.video.quality \in 0 .. (IF spec.codec \in {"h264", "hevc"} THEN 51 ELSE 63)

\* A command is about a specification and a report that are there for good.
HistoryKnown ==
  /\ stage \in {"new", "refused", "stored"} => commands = {}
  /\ \A c \in commands : CommandKnown(c)

ErrorKnown ==
  /\ error # "build"
  /\ error # "none" => stage = "failed"
  /\ FallsBack

\* A buffer that holds what it says
Honest(b) ==
  /\ b \in [held : Nat, truncated : BOOLEAN, written : Nat, short : BOOLEAN]
  /\ b.held = Lesser(b.written, StderrLimit)
  /\ b.truncated = (b.written > StderrLimit)
  /\ ~b.short

StderrKnown == Honest(stderr)

IInv ==
  /\ stage \in {"new", "refused", "stored", "queued", "launch", "running", "completed", "failed"}
  /\ stage \notin {"new", "refused"} => SpecValid
  /\ RunKnown /\ HistoryKnown /\ ErrorKnown /\ StderrKnown

-----------------------------------------------------------------------------
(* Encoders *)

\* A valid specification has codecs that every table has.
LEMMA ValidCodecs ==
  ASSUME SpecValid
  PROVE  spec.codec \in {"h264", "hevc", "av1", "vp9"} /\ spec.acodec \in {"aac", "opus", "flac"}
  BY DEF SpecValid, compatible, VideoCodecsOf, AudioCodecsOf

\* The encoder for a mode is one.
LEMMA EncodersKnown ==
  /\ Software(spec) \in Encoders /\ Vaapi(spec) \in Encoders /\ Nvenc(spec) \in Encoders
  /\ Encoder("copy", "copy") \in Encoders
<1>1. ASSUME NEW mode \in Modes, NEW name \in Names
      PROVE  Encoder(mode, name) \in Encoders
  BY DEF Encoder, Encoders, Modes
<1>2. QED
  BY <1>1 DEF Software, Vaapi, Nvenc, Modes, Names

\* A list with one more at its end
LEMMA Extended ==
  ASSUME NEW s \in Seq(Encoders), NEW e \in Encoders
  PROVE  LET t == s \o <<e>> IN
           /\ t \in Seq(Encoders) /\ t # <<>> /\ t[Len(t)] = e
           /\ \A i \in 1 .. Len(t) : t[i] = e \/ \E k \in 1 .. Len(s) : t[i] = s[k]
<1> DEFINE t == s \o <<e>>
<1>1. <<e>> \in Seq(Encoders) /\ Len(<<e>>) = 1 /\ <<e>>[1] = e
  OBVIOUS
<1>2. t \in Seq(Encoders) /\ Len(t) = Len(s) + 1
  BY <1>1, ConcatProperties
<1>3. \A i \in 1 .. Len(t) : t[i] = IF i <= Len(s) THEN s[i] ELSE <<e>>[i - Len(s)]
  BY <1>1, <1>2, ConcatProperties
<1>4. Len(s) \in Nat /\ t[Len(t)] = e
  BY <1>1, <1>2, <1>3, LenProperties
<1>5. ASSUME NEW i \in 1 .. Len(t)
      PROVE  t[i] = e \/ \E k \in 1 .. Len(s) : t[i] = s[k]
  BY <1>1, <1>2, <1>3, <1>4
<1>6. QED
  BY <1>2, <1>4, <1>5, EmptySeq

\* The list is of encoders; under auto it ends in software, whatever devices
\* there are.
LEMMA ListKnown ==
  ASSUME NEW present
  PROVE  LET list == videoEncoders(spec, present) IN
           /\ list \in Seq(Encoders)
           /\ \A i \in 1 .. Len(list) : list[i].mode # "copy"
           /\ spec.encoder = "auto" => list # <<>> /\ ~list[Len(list)].hardware
<1> DEFINE list == videoEncoders(spec, present)
           Good(s) == s \in Seq(Encoders) /\ \A i \in 1 .. Len(s) : s[i].mode # "copy"
           hw == IF NvencUsable(spec, present) THEN <<Nvenc(spec)>> ELSE <<>>
           va == IF VaapiUsable(present) THEN <<Vaapi(spec)>> ELSE <<>>
<1>1. /\ Software(spec) \in Encoders /\ Vaapi(spec) \in Encoders /\ Nvenc(spec) \in Encoders
  BY EncodersKnown
<1>2. /\ Software(spec).mode # "copy" /\ ~Software(spec).hardware
      /\ Vaapi(spec).mode # "copy" /\ Nvenc(spec).mode # "copy"
  BY DEF Software, Vaapi, Nvenc, Encoder
<1>3. ASSUME NEW e \in Encoders, e.mode # "copy"
      PROVE  Good(<<e>>)
  BY <1>3
<1>4. Good(<<>>)
  BY EmptySeq
<1>5. Good(hw) /\ Good(va) /\ Good(<<Software(spec)>>)
  BY <1>1, <1>2, <1>3, <1>4
<1>6. Good(hw \o va)
  <2>1. CASE VaapiUsable(present)
    BY <1>1, <1>2, <1>5, <2>1, Extended
  <2>2. CASE ~VaapiUsable(present)
    BY <1>5, <2>2, ConcatEmptySeq
  <2>3. QED
    BY <2>1, <2>2
<1>7. LET t == hw \o va \o <<Software(spec)>> IN
        Good(t) /\ t # <<>> /\ ~t[Len(t)].hardware
  BY <1>1, <1>2, <1>6, Extended
<1>8. CASE spec.encoder \in {"software", "vaapi", "nvenc"}
  <2>1. list \in {<<>>, <<Software(spec)>>, va, hw}
    BY <1>8 DEF videoEncoders
  <2>2. QED
    BY <1>4, <1>5, <1>8, <2>1
<1>9. CASE spec.encoder \notin {"software", "vaapi", "nvenc"}
  <2>1. list = hw \o va \o <<Software(spec)>>
    BY <1>9 DEF videoEncoders
  <2>2. QED
    BY <1>7, <2>1
<1>10. QED
  BY <1>8, <1>9

-----------------------------------------------------------------------------
(* Commands *)

\* What is stored has all that a command needs.
LEMMA ValidBuildable ==
  ASSUME SpecValid
  PROVE  Buildable
  BY ValidCodecs DEF Buildable, crfMax, audioEncoder

\* The constant quality is one the codec has.
LEMMA QualityInRange ==
  ASSUME SpecValid, spec.quality # "auto"
  PROVE  crf(spec) \in 0 .. (IF spec.codec \in {"h264", "hevc"} THEN 51 ELSE 63)
<1> DEFINE max == IF spec.codec \in {"h264", "hevc"} THEN 51 ELSE 63
<1>1. crfMax[spec.codec] = max
  BY ValidCodecs DEF crfMax
<1>2. CASE spec.quality = "crf"
  BY <1>1, <1>2 DEF SpecValid, QualityValid, crf
<1>3. CASE spec.quality = "quality"
  <2>1. PICK v \in 0 .. 100 : v = spec.value
    BY <1>3 DEF SpecValid, QualityValid
  <2>2. 51 - ((v * 51) \div 100) \in 0 .. 51 /\ 63 - ((v * 63) \div 100) \in 0 .. 63
    OBVIOUS
  <2>3. crf(spec) = max - ((v * max) \div 100)
    BY <1>1, <1>3, <2>1 DEF crf
  <2>4. QED
    BY <2>2, <2>3
<1>4. QED
  BY <1>2, <1>3 DEF SpecValid, QualityValid

\* While request, specification and report stay, so does what is known of a
\* command.
LEMMA Frozen ==
  ASSUME UNCHANGED <<request, spec, probe>>, NEW c, CommandKnown(c)
  PROVE  CommandKnown(c)'
<1>1. PlanOf' = PlanOf
  BY DEF PlanOf
<1>2. AudioOf' = AudioOf /\ ScaleOf' = ScaleOf
  BY <1>1 DEF AudioOf, ScaleOf
<1>3. \A n : VideoOf(n)' = VideoOf(n)
  BY <1>1 DEF VideoOf
<1>4. QED
  BY <1>2, <1>3 DEF CommandKnown, Names

\* A command that is built is one that any run would build.
LEMMA BuiltKnown ==
  ASSUME IInv, stage = "launch"
  PROVE  CommandKnown(ffmpegCmdWithPlan(left[1]))
<1> DEFINE c == ffmpegCmdWithPlan(left[1])
<1>1. SpecValid /\ RunKnown
  BY DEF IInv
<1>2. left[1] \in Encoders /\ 1 \in 1 .. Len(left)
  BY <1>1, EmptySeq, ElementOfSeq DEF RunKnown, AtWork
<1>3. c.video = videoEncoderArgs(left[1]) /\ c.audio = audioArgs /\ c.scale = ffmpegFilter
  BY DEF ffmpegCmdWithPlan
<1>4. CASE Planned
  <2>1. plan = PlanOf
    BY <1>1, <1>4 DEF RunKnown, AtWork, Planned
  <2>2. Copying <=> PlanOf.copy
    BY <1>4, <2>1 DEF Copying
  <2>3. videoEncoderArgs(left[1]) = VideoOf(left[1].name)
    BY <1>4, <2>1, <2>2 DEF videoEncoderArgs, VideoOf
  <2>4. audioArgs = AudioOf /\ ffmpegFilter = ScaleOf
    BY <1>4, <2>1, <2>2 DEF audioArgs, AudioOf, ffmpegFilter, ScaleOf
  <2>5. left[1].name \in Names
    BY <1>2 DEF Encoders
  <2>6. c.video.control \in {"rate", "copy"}
    BY <1>3, <2>3 DEF VideoOf
  <2>7. QED
    BY <1>3, <2>3, <2>4, <2>5, <2>6 DEF CommandKnown
<1>5. CASE ~Planned
  <2>1. spec.quality # "auto" /\ left[1].mode \in {"software", "vaapi", "nvenc"}
    BY <1>1, <1>2, <1>5 DEF RunKnown, AtWork, Planned, Encoders, Modes
  <2>2. c.video.control \in {"crf", "qp", "cq"} /\ c.video.quality = crf(spec)
    BY <1>3, <1>5, <2>1 DEF videoEncoderArgs, Copying, QualityControl
  <2>3. QED
    BY <1>1, <2>1, <2>2, QualityInRange DEF CommandKnown
<1>6. QED
  BY <1>4, <1>5

-----------------------------------------------------------------------------
(* The buffer *)

\* An empty buffer is honest.
LEMMA EmptyHonest == Honest(EmptyBuffer)
<1>1. EmptyBuffer = [held |-> 0, truncated |-> FALSE, written |-> 0, short |-> FALSE]
  BY DEF EmptyBuffer
<1>2. 0 = Lesser(0, StderrLimit) /\ ~(0 > StderrLimit)
  BY ConversionAssumption DEF Lesser
<1>3. FALSE = (0 > StderrLimit)
  BY <1>2
<1>4. QED
  BY <1>1, <1>2, <1>3 DEF Honest

\* One write keeps it so.
LEMMA BufferKept ==
  ASSUME NEW b, Honest(b), NEW n \in Nat
  PROVE  Honest(Buffered(b, n))
<1>1. StderrLimit \in Nat
  BY ConversionAssumption
<1>2. PICK h \in Nat, w \in Nat, t \in BOOLEAN : h = b.held /\ w = b.written /\ t = b.truncated
  BY DEF Honest
<1>3. /\ h = IF w < StderrLimit THEN w ELSE StderrLimit
      /\ t <=> w > StderrLimit
  BY <1>2 DEF Honest, Lesser
<1>4. Stored(b, n) = IF n < StderrLimit - h THEN n ELSE StderrLimit - h
  BY <1>1, <1>2, <1>3 DEF Stored, Lesser, Greater
<1>5. h + Stored(b, n) \in Nat /\ h + Stored(b, n) = Lesser(w + n, StderrLimit)
  BY <1>1, <1>3, <1>4 DEF Lesser
<1>6. n > Stored(b, n) <=> h + n > StderrLimit
  BY <1>1, <1>3, <1>4
<1>7. (t \/ n > Stored(b, n)) <=> w + n > StderrLimit
  BY <1>1, <1>3, <1>6
<1>8. (t \/ n > Stored(b, n)) = (w + n > StderrLimit)
  BY <1>7
<1>9. (b.short \/ Taken(b, n) < n) = FALSE
  BY DEF Honest, Taken
<1>10. Buffered(b, n) = [held |-> h + Stored(b, n), truncated |-> w + n > StderrLimit,
                         written |-> w + n, short |-> FALSE]
  BY <1>2, <1>8, <1>9 DEF Buffered
<1>11. QED
  BY <1>5, <1>10 DEF Honest

-----------------------------------------------------------------------------
(* Steps *)

\* What is stored is valid, and nothing has been built from it.
LEMMA CreateStep ==
  ASSUME IInv, Create
  PROVE  IInv'
<1>1. commands' = {} /\ error' = "none"
  BY DEF IInv, Create, HistoryKnown, ErrorKnown
<1>2. stage' \in {"stored", "refused"} /\ (stage' = "stored" => SpecValid')
  BY DEF Create, Acceptable, SpecValid
<1>3. RunKnown' /\ StderrKnown'
  BY <1>2 DEF IInv, Create, RunKnown, AtWork, StderrKnown, Honest
<1>4. QED
  BY <1>1, <1>2, <1>3 DEF IInv, HistoryKnown, ErrorKnown, FallsBack

\* The report comes before any command.
LEMMA ProbeStep ==
  ASSUME IInv, Probe
  PROVE  IInv'
<1>1. commands' = {} /\ UNCHANGED <<spec, stderr>>
  BY DEF IInv, Probe, HistoryKnown
<1>2. /\ stage' \in {"queued", "failed"} /\ error' \in {"none", "probe"}
      /\ error' # "none" => stage' = "failed"
  BY DEF IInv, Probe, Fail, ErrorKnown
<1>3. SpecValid' /\ RunKnown' /\ StderrKnown'
  BY <1>1, <1>2 DEF IInv, Probe, SpecValid, RunKnown, AtWork, StderrKnown, Honest
<1>4. QED
  BY <1>1, <1>2, <1>3 DEF IInv, HistoryKnown, ErrorKnown, FallsBack

\* What stays when neither specification nor report nor commands change.
LEMMA HistoryStays ==
  ASSUME IInv, UNCHANGED <<request, spec, probe>>, stage \notin {"new", "refused", "stored"},
         stage' \notin {"new", "refused", "stored"}, commands' = commands
  PROVE  SpecValid' /\ HistoryKnown'
<1>1. ASSUME NEW c \in commands PROVE CommandKnown(c)'
  BY <1>1, Frozen DEF IInv, HistoryKnown
<1>2. QED
  BY <1>1 DEF IInv, SpecValid, HistoryKnown

\* The plan is made again from the same data, the list from the devices.
LEMMA StartStep ==
  ASSUME IInv, NEW present, Start(present)
  PROVE  IInv'
<1>1. UNCHANGED <<request, spec, probe, stderr, commands>> /\ error = "none"
  BY DEF IInv, Start, ErrorKnown
<1>2. /\ stage' \in {"launch", "failed"} /\ error' \in {"none", "plan", "device"}
      /\ error' # "none" => stage' = "failed"
  BY <1>1 DEF Start, Fail
<1>3. SpecValid' /\ HistoryKnown'
  BY <1>1, <1>2, HistoryStays DEF Start
<1>4. RunKnown'
  <2>1. SUFFICES ASSUME stage' = "launch" PROVE RunKnown'
    BY <1>2 DEF RunKnown, AtWork
  <2>2. PICK p \in {None, PlanOf} :
          /\ plan' = p
          /\ spec.quality = "auto" => p # None
          /\ left' = IF p # None /\ p.copy THEN <<Encoder("copy", "copy")>>
                     ELSE videoEncoders(spec, present)
          /\ left' # <<>>
    BY <2>1 DEF Start, Fail, PlanOf
  <2>3. Encoders' = Encoders /\ PlanOf' = PlanOf
    BY <1>1 DEF Encoders, Names, PlanOf
  <2>4. PICK l : l = left'
    OBVIOUS
  <2>5. /\ l \in Seq(Encoders) /\ l # <<>>
        /\ spec.encoder = "auto" => ~l[Len(l)].hardware
        /\ p = None => \A i \in 1 .. Len(l) : l[i].mode # "copy"
    <3>1. CASE p # None /\ p.copy
      <4>1. l = <<Encoder("copy", "copy")>> /\ ~Encoder("copy", "copy").hardware
        BY <2>2, <2>4, <3>1 DEF Encoder
      <4>2. QED
        BY <3>1, <4>1, EncodersKnown
    <3>2. CASE ~(p # None /\ p.copy)
      <4>1. l = videoEncoders(spec, present)
        BY <2>2, <2>4, <3>2
      <4>2. QED
        BY <2>2, <2>4, <4>1, ListKnown
    <3>3. QED
      BY <3>1, <3>2
  <2>6. plan' \in {None, PlanOf} /\ (spec.quality = "auto" => plan' # None)
    BY <2>2
  <2>7. plan' = None => \A i \in 1 .. Len(left') : left'[i].mode # "copy"
    BY <2>2, <2>4, <2>5
  <2>8. QED
    BY <1>1, <2>1, <2>3, <2>4, <2>5, <2>6, <2>7 DEF RunKnown
<1>5. QED
  BY <1>1, <1>2, <1>3, <1>4 DEF IInv, ErrorKnown, FallsBack, StderrKnown, Honest

\* The command is recorded, the buffer is empty.
LEMMA LaunchStep ==
  ASSUME IInv, Launch
  PROVE  IInv'
<1>1. Buildable /\ RunKnown
  BY ValidBuildable DEF IInv, Launch
<1>2. /\ UNCHANGED <<request, spec, probe, plan, left, error>>
      /\ stage = "launch" /\ stage' = "running" /\ stderr' = EmptyBuffer
      /\ commands' = commands \cup {ffmpegCmdWithPlan(left[1])}
  BY <1>1 DEF Launch
<1>3. Encoders' = Encoders /\ PlanOf' = PlanOf
  BY <1>2 DEF Encoders, Names, PlanOf
<1>4. RunKnown'
  <2>1. ffmpegCmdWithPlan(left[1]).mode = left[1].mode
    BY DEF ffmpegCmdWithPlan
  <2>2. QED
    BY <1>1, <1>2, <1>3, <2>1 DEF RunKnown, AtWork
<1>5. HistoryKnown'
  <2>1. ASSUME NEW c \in commands' PROVE CommandKnown(c)
    BY <1>2, <2>1, BuiltKnown DEF IInv, HistoryKnown
  <2>2. ASSUME NEW c \in commands' PROVE CommandKnown(c)'
    BY <1>2, <2>1, <2>2, Frozen
  <2>3. QED
    BY <1>2, <2>2 DEF HistoryKnown
<1>6. StderrKnown'
  BY <1>2, EmptyHonest DEF StderrKnown, Honest
<1>7. QED
  BY <1>2, <1>4, <1>5, <1>6 DEF IInv, SpecValid, ErrorKnown, FallsBack

\* What does not fit is dropped and counted.
LEMMA WriteStderrStep ==
  ASSUME IInv, NEW n \in Writes, WriteStderr(n)
  PROVE  IInv'
<1>1. n \in Nat
  BY ConversionAssumption
<1>2. StderrKnown'
  BY <1>1, BufferKept DEF IInv, WriteStderr, StderrKnown, Honest
<1>3. SpecValid' /\ HistoryKnown'
  BY HistoryStays DEF WriteStderr
<1>4. RunKnown'
  BY DEF IInv, WriteStderr, RunKnown, Encoders, Names, PlanOf
<1>5. QED
  BY <1>2, <1>3, <1>4 DEF IInv, WriteStderr, ErrorKnown, FallsBack

\* The job ends without an error, or starts over.
LEMMA EndStep ==
  ASSUME IInv, Succeed \/ Restart
  PROVE  IInv'
<1>1. stage' \in {"completed", "queued"} /\ UNCHANGED <<request, spec, probe, error, commands>>
  BY DEF Succeed, Restart
<1>2. SpecValid' /\ HistoryKnown'
  BY <1>1, HistoryStays DEF Succeed, Restart
<1>3. error = "none"
  BY DEF IInv, ErrorKnown, Succeed, Restart
<1>4. RunKnown'
  BY <1>1 DEF RunKnown, AtWork
<1>5. StderrKnown'
  <2>1. CASE stderr' = stderr
    BY <2>1 DEF IInv, StderrKnown, Honest
  <2>2. CASE stderr' = EmptyBuffer
    BY <2>2, EmptyHonest DEF StderrKnown, Honest
  <2>3. QED
    BY <2>1, <2>2 DEF Succeed, Restart
<1>6. QED
  BY <1>1, <1>2, <1>3, <1>4, <1>5 DEF IInv, ErrorKnown, FallsBack

\* The list gets shorter as long as hardware is at its head; what is left
\* when there is no fallback was tried.
LEMMA EncoderFailsStep ==
  ASSUME IInv, EncoderFails
  PROVE  IInv'
<1>1. /\ UNCHANGED <<request, spec, probe, plan, stderr, commands>>
      /\ stage = "running" /\ stage' \in {"launch", "failed"} /\ error = "none"
  BY DEF IInv, ErrorKnown, EncoderFails, Fail
<1>2. SpecValid' /\ HistoryKnown'
  BY <1>1, HistoryStays
<1>3. /\ left \in Seq(Encoders) /\ left # <<>> /\ plan \in {None, PlanOf}
      /\ spec.quality = "auto" => plan # None
      /\ spec.encoder = "auto" => ~left[Len(left)].hardware
      /\ plan = None => \A i \in 1 .. Len(left) : left[i].mode # "copy"
      /\ \E c \in commands : c.mode = left[1].mode
  BY <1>1 DEF IInv, RunKnown, AtWork
<1>4. Len(left) \in Nat \ {0} /\ left[1] \in Encoders /\ Head(left) = left[1]
  <2>1. Len(left) \in Nat \ {0}
    BY <1>3, EmptySeq
  <2>2. QED
    BY <1>3, <2>1, ElementOfSeq
<1>5. CASE stage' = "launch"
  <2>1. Len(left) > 1 /\ left' = Tail(left) /\ error' = error
    BY <1>5 DEF EncoderFails, HasFallback, Fail
  <2>2. PICK l : l = left'
    OBVIOUS
  <2>3. /\ l \in Seq(Encoders) /\ Len(l) = Len(left) - 1
        /\ \A i \in 1 .. Len(l) : l[i] = left[i + 1]
    BY <1>3, <2>1, <2>2, HeadTailProperties
  <2>4. l # <<>> /\ l[Len(l)] = left[Len(left)]
    BY <1>4, <2>1, <2>3
  <2>5. plan = None => \A i \in 1 .. Len(l) : l[i].mode # "copy"
    BY <1>3, <1>4, <2>3
  <2>6. Encoders' = Encoders /\ PlanOf' = PlanOf
    BY <1>1 DEF Encoders, Names, PlanOf
  <2>7. RunKnown'
    BY <1>1, <1>3, <1>5, <2>2, <2>3, <2>4, <2>5, <2>6 DEF RunKnown
  <2>8. QED
    BY <1>1, <1>2, <1>5, <2>1, <2>7 DEF IInv, ErrorKnown, FallsBack, StderrKnown, Honest
<1>6. CASE stage' = "failed"
  <2>1. error' = "remove" \/ (error' = "transcode" /\ ~HasFallback)
    BY <1>6 DEF EncoderFails, Fail
  <2>2. (error' = "transcode" /\ spec.encoder = "auto") => left[1].mode \in {"software", "copy"}
    <3>1. SUFFICES ASSUME ~HasFallback, spec.encoder = "auto"
                   PROVE  left[1].mode \in {"software", "copy"}
      BY <2>1
    <3>2. ~left[1].hardware
      BY <1>3, <1>4, <3>1 DEF HasFallback
    <3>3. QED
      BY <1>4, <3>2 DEF Encoders, Modes
  <2>3. ErrorKnown'
    BY <1>1, <1>3, <1>6, <2>1, <2>2 DEF ErrorKnown, FallsBack
  <2>4. RunKnown' /\ StderrKnown'
    BY <1>1, <1>6 DEF IInv, RunKnown, AtWork, StderrKnown, Honest
  <2>5. QED
    BY <1>2, <1>6, <2>3, <2>4 DEF IInv
<1>7. QED
  BY <1>1, <1>5, <1>6

-----------------------------------------------------------------------------
(* Theorems *)

\* Nothing is known of a job that was not asked for.
LEMMA Initially ==
  ASSUME Init
  PROVE  IInv
<1>1. StderrKnown
  BY EmptyHonest DEF Init, StderrKnown
<1>2. QED
  BY <1>1 DEF Init, IInv, RunKnown, AtWork, HistoryKnown, ErrorKnown, FallsBack

\* Every step keeps the invariant.
LEMMA Inductive ==
  ASSUME IInv, [Next]_vars
  PROVE  IInv'
<1>1. CASE UNCHANGED vars
  <2>1. ASSUME NEW c \in commands PROVE CommandKnown(c)'
    BY <1>1, <2>1, Frozen DEF IInv, HistoryKnown, vars
  <2>2. SpecValid' <=> SpecValid
    BY <1>1 DEF SpecValid, vars
  <2>3. RunKnown' /\ ErrorKnown' /\ StderrKnown'
    BY <1>1 DEF IInv, RunKnown, Encoders, Names, PlanOf, ErrorKnown, FallsBack, StderrKnown,
       Honest, vars
  <2>4. QED
    BY <1>1, <2>1, <2>2, <2>3 DEF IInv, HistoryKnown, vars
<1>2. QED
  BY <1>1, CreateStep, ProbeStep, StartStep, LaunchStep, WriteStderrStep, EndStep,
     EncoderFailsStep DEF Next

\* In every state the specification is valid, the run's plan is the one every
\* run makes, and the commands are those it leads to.
THEOREM Invariance == Spec => []IInv
<1>1. Init => IInv
  BY Initially
<1>2. IInv /\ [Next]_vars => IInv'
  BY Inductive
<1>3. QED
  BY <1>1, <1>2, PTL DEF Spec

\* No request that is accepted fails for a codec or a number, however long
\* after its acceptance, and no constant quality leaves its codec's range.
THEOREM NothingUnbuildable == Spec => []AcceptedIsBuildable
<1>1. ASSUME IInv PROVE AcceptedIsBuildable
  BY <1>1 DEF IInv, ErrorKnown, HistoryKnown, CommandKnown, AcceptedIsBuildable, QualityCommands
<1>2. QED
  BY <1>1, Invariance, PTL

\* Under automatic encoding, whatever devices appear and disappear, a
\* transcode fails for good only after software was tried.
THEOREM SoftwareTried == Spec => []FallsBack
<1>1. IInv => FallsBack
  BY DEF IInv, ErrorKnown
<1>2. QED
  BY <1>1, Invariance, PTL

\* All encoders of all runs get the same rates, audio and filter.
THEOREM OnePlan == Spec => []SamePlan
<1>1. ASSUME IInv PROVE SamePlan
  <2>1. SUFFICES ASSUME NEW c \in PlannedCommands \cup CopyCommands,
                        NEW d \in PlannedCommands \cup CopyCommands
                 PROVE  /\ [c.video EXCEPT !.name = d.video.name] = d.video
                        /\ c.audio = d.audio /\ c.scale = d.scale
    BY DEF SamePlan
  <2>2. PICK n \in Names, m \in Names :
          /\ c.video = VideoOf(n) /\ c.audio = AudioOf /\ c.scale = ScaleOf
          /\ d.video = VideoOf(m) /\ d.audio = AudioOf /\ d.scale = ScaleOf
    BY <1>1 DEF IInv, HistoryKnown, CommandKnown, PlannedCommands, CopyCommands
  <2>3. [VideoOf(n) EXCEPT !.name = VideoOf(m).name] = VideoOf(m)
    BY DEF VideoOf
  <2>4. QED
    BY <2>2, <2>3
<1>2. QED
  BY <1>1, Invariance, PTL

\* However FFmpeg cuts what it writes into pieces, the buffer keeps as much of
\* its beginning as the limit allows, and says so.
THEOREM StderrBounded == Spec => []StderrHonest
<1>1. IInv => StderrHonest
  BY DEF IInv, StderrKnown, Honest, StderrHonest
<1>2. QED
  BY <1>1, Invariance, PTL
=============================================================================
