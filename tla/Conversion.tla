----------------------------- MODULE Conversion -----------------------------
(***************************************************************************)
(* What a job is converted to: its request is normalized and stored, its   *)
(* input probed, and run of main.go plans, chooses encoders and starts     *)
(* FFmpeg with one after the other, from the beginning again after a       *)
(* crash, by which time the devices of the host may be others.             *)
(*                                                                         *)
(* One job: conversions share nothing but worker slots, whose scheduling   *)
(* is in Processing, as are the statements between the steps here.         *)
(***************************************************************************)
EXTENDS Compression, JobSpec, FiniteSets

CONSTANTS
  Requests,     \* requests: [preset, output, size, named]
  Probes,       \* reports of ffprobe: [seconds, streams]
  MaxStreams,   \* MAX_STREAMS
  MaxDuration,  \* MAX_DURATION_SECONDS
  StderrLimit,  \* maxCapturedProcessStderr
  Writes,       \* amounts FFmpeg writes to stderr at a time
  MaxWritten,   \* bound on what it writes in all
  MaxRestarts   \* bound on crashes

\* A stream as ffprobe reports it
ProbeStream == [type : STRING, codec : STRING, width : Int, height : Int, rotations : Seq(Int)]

ASSUME ConversionAssumption ==
  /\ \A r \in Requests : r.size \in Int
  /\ \A p \in Probes : p.seconds \in Nat /\ p.streams \in Seq(ProbeStream)
  /\ MaxStreams \in Nat /\ MaxDuration \in Nat
  /\ StderrLimit \in Nat /\ Writes \subseteq Nat /\ MaxWritten \in Nat
  /\ MaxRestarts \in Nat

VARIABLES
  request,   \* what the client asked for
  stage,     \* how far the job is
  error,     \* jobs.error: what made it fail
  spec,      \* jobs.spec
  probe,     \* jobs.probe_json
  plan,      \* the plan of the current run
  left,      \* encoders the current run has not ruled out
  stderr,    \* the boundedBuffer of the running FFmpeg, and what was written to it
  commands,  \* history: FFmpeg command lines of all runs
  restarts

vars == <<request, stage, error, spec, probe, plan, left, stderr, commands, restarts>>

None == [none |-> TRUE]

EmptyBuffer == [held |-> 0, truncated |-> FALSE, written |-> 0, short |-> FALSE]

\* Mistake: the reason is lost.
FailUnexplained(what) == stage' = "failed" /\ UNCHANGED error

Fail(what) == stage' = "failed" /\ error' = what

-----------------------------------------------------------------------------
(* Encoders *)

Encoder(mode, name) == [mode |-> mode, name |-> name, hardware |-> mode \in {"nvenc", "vaapi"}]

Software(o) == Encoder("software", softwareEncoder[o.codec])
Nvenc(o)    == Encoder("nvenc", nvencEncoder[o.codec])
Vaapi(o)    == Encoder("vaapi", vaapiEncoder[o.codec])

\* present: hardware whose device nodes are there
NvencUsable(o, present) == "nvenc" \in present /\ o.codec \in DOMAIN nvencEncoder
VaapiUsable(present)    == "vaapi" \in present

\* The encoders to try in turn; none is an error.
videoEncoders(o, present) ==
  CASE o.encoder = "software" -> <<Software(o)>>
    [] o.encoder = "vaapi"    -> IF VaapiUsable(present) THEN <<Vaapi(o)>> ELSE <<>>
    [] o.encoder = "nvenc"    -> IF NvencUsable(o, present) THEN <<Nvenc(o)>> ELSE <<>>
    [] OTHER -> (IF NvencUsable(o, present) THEN <<Nvenc(o)>> ELSE <<>>)
                \o (IF VaapiUsable(present) THEN <<Vaapi(o)>> ELSE <<>>)
                \o <<Software(o)>>

-----------------------------------------------------------------------------
(* The command line, by the arguments that matter *)

Planned == plan # None

Copying == Planned /\ plan.copy

\* scaleFilter: only a fit has a filter.
Scale(resolution) == IF resolution.mode = "fit" THEN resolution ELSE None

ffmpegFilter ==
  IF Copying THEN None ELSE Scale(IF Planned THEN plan.resolution ELSE Requested(spec))

\* Constant quality, by the option each kind of encoder has for it
QualityControl == [software |-> "crf", vaapi |-> "qp", nvenc |-> "cq"]

\* Rates are in kilobits per second, as they are written; 0 where there is none.
videoEncoderArgs(e) ==
  IF Copying
  THEN [name |-> "copy", control |-> "copy", quality |-> 0, rate |-> 0, maxrate |-> 0, buffer |-> 0]
  ELSE IF Planned
  THEN [name |-> e.name, control |-> "rate", quality |-> 0,
        rate |-> bitrateArg(plan.video), maxrate |-> bitrateArg(plan.maxrate),
        buffer |-> bitrateArg(plan.maxrate * 2)]
  ELSE [name |-> e.name, control |-> QualityControl[e.mode], quality |-> crf(spec),
        rate |-> 0, maxrate |-> 0, buffer |-> 0]

\* Automatic compression keeps the first audio stream only.
audioArgs ==
  [codec  |-> IF Copying THEN "copy" ELSE audioEncoder[spec.acodec],
   kbps   |-> IF Copying THEN 0 ELSE IF Planned THEN plan.audioKbps ELSE spec.kbps,
   tracks |-> IF Planned THEN "first" ELSE "all"]

\* Mistake: only the software encoder scales.
CmdScaledInSoftware(e) ==
  [mode |-> e.mode, video |-> videoEncoderArgs(e), audio |-> audioArgs,
   scale |-> IF e.hardware THEN None ELSE ffmpegFilter, container |-> spec.container,
   devices |-> IF e.hardware THEN {e.mode} ELSE {}]

\* devices: hardware the sandbox lets through
ffmpegCmdWithPlan(e) ==
  [mode |-> e.mode, video |-> videoEncoderArgs(e), audio |-> audioArgs,
   scale |-> ffmpegFilter, container |-> spec.container,
   devices |-> IF e.hardware THEN {e.mode} ELSE {}]

\* ffmpegCmdWithPlan returns no error.
Buildable ==
  /\ Planned \/ spec.codec \in DOMAIN crfMax
  /\ Copying \/ spec.acodec \in DOMAIN audioEncoder

-----------------------------------------------------------------------------
(* Steps of the job *)

\* create: refused requests leave no job.
Create ==
  /\ stage = "new"
  /\ IF Acceptable(request)
     THEN stage' = "stored" /\ spec' = Normalized(request)
     ELSE stage' = "refused" /\ UNCHANGED spec
  /\ UNCHANGED <<request, error, probe, plan, left, stderr, commands, restarts>>

validateProbe(p) ==
  /\ Len(p.streams) \in 1 .. MaxStreams
  /\ p.seconds > 0 /\ p.seconds <= MaxDuration
  /\ \A i \in DOMAIN p.streams :
       p.streams[i].width <= MaxWidth /\ p.streams[i].height <= MaxHeight

\* The input has been uploaded; ffprobe reports on it, or fails.
Probe ==
  /\ stage = "stored"
  /\ \/ \E p \in Probes : IF validateProbe(p)
                          THEN stage' = "queued" /\ probe' = p /\ UNCHANGED error
                          ELSE Fail("probe") /\ UNCHANGED probe
     \/ Fail("probe") /\ UNCHANGED probe
  /\ UNCHANGED <<request, spec, plan, left, stderr, commands, restarts>>

\* run, up to the list of encoders, with the devices that are present now.
Start(present) ==
  /\ stage = "queued"
  /\ LET auto == spec.quality = "auto"
         p    == IF auto /\ Plannable(request.size, probe)
                 THEN autoCompressionPlan(request.size, probe, spec) ELSE None
         list == IF p # None /\ p.copy THEN <<Encoder("copy", "copy")>>
                 ELSE videoEncoders(spec, present)
     IN  IF auto /\ p = None THEN Fail("plan") /\ UNCHANGED <<plan, left>>
         ELSE /\ plan' = p /\ left' = list
              /\ IF list = <<>> THEN Fail("device") ELSE stage' = "launch" /\ UNCHANGED error
  /\ UNCHANGED <<request, spec, probe, stderr, commands, restarts>>

\* FFmpeg is started with the first encoder left.
Launch ==
  /\ stage = "launch"
  /\ IF Buildable
     THEN /\ stage' = "running" /\ stderr' = EmptyBuffer
          /\ commands' = commands \cup {ffmpegCmdWithPlan(Head(left))}
          /\ UNCHANGED error
     ELSE Fail("build") /\ UNCHANGED <<stderr, commands>>
  /\ UNCHANGED <<request, spec, probe, plan, left, restarts>>

-----------------------------------------------------------------------------
(* FFmpeg at work *)

\* boundedBuffer.Write: what does not fit is dropped; the answer is the whole
\* length, since a shorter one would end the copying with an error.
Stored(b, n) == Lesser(n, Greater(StderrLimit - b.held, 0))

\* Mistake: the answer is what was stored.
TakenStored(b, n) == Stored(b, n)

Taken(b, n) == n

Buffered(b, n) ==
  [held      |-> b.held + Stored(b, n),
   truncated |-> b.truncated \/ n > Stored(b, n),
   written   |-> b.written + n,
   short     |-> b.short \/ Taken(b, n) < n]

WriteStderr(n) ==
  /\ stage = "running" /\ stderr.written + n <= MaxWritten
  /\ stderr' = Buffered(stderr, n)
  /\ UNCHANGED <<request, stage, error, spec, probe, plan, left, commands, restarts>>

\* FFmpeg ends well, and its output was all taken.
Succeed ==
  /\ stage = "running" /\ ~stderr.short
  /\ stage' = "completed"
  /\ UNCHANGED <<request, error, spec, probe, plan, left, stderr, commands, restarts>>

\* Mistake: the last encoder is not counted.
HasFallbackBeforeLast == Head(left).hardware /\ Len(left) > 2

HasFallback == Head(left).hardware /\ Len(left) > 1

\* It fails: the encoder after a hardware encoder is tried, once the artifact
\* is out of the way.
EncoderFails ==
  /\ stage = "running"
  /\ IF HasFallback
     THEN \/ stage' = "launch" /\ left' = Tail(left) /\ UNCHANGED error
          \/ Fail("remove") /\ UNCHANGED left
     ELSE Fail("transcode") /\ UNCHANGED left
  /\ UNCHANGED <<request, spec, probe, plan, stderr, commands, restarts>>

\* The process dies; the job is queued again and its run starts over.
Restart ==
  /\ stage \in {"launch", "running"} /\ restarts < MaxRestarts
  /\ stage' = "queued" /\ restarts' = restarts + 1
  /\ plan' = None /\ left' = <<>> /\ stderr' = EmptyBuffer
  /\ UNCHANGED <<request, error, spec, probe, commands>>

Init ==
  /\ request \in Requests
  /\ stage = "new" /\ error = "none"
  /\ spec = None /\ probe = None /\ plan = None /\ left = <<>>
  /\ stderr = EmptyBuffer /\ commands = {} /\ restarts = 0

Next ==
  \/ Create \/ Probe \/ Launch \/ Succeed \/ EncoderFails \/ Restart
  \/ \E present \in SUBSET {"nvenc", "vaapi"} : Start(present)
  \/ \E n \in Writes : WriteStderr(n)

Spec == Init /\ [][Next]_vars
-----------------------------------------------------------------------------
(* FFmpeg's scale and scale_cuda filters *)

\* a * b / c rounded to the nearest number
Rescale(a, b, c) == (2 * a * b + c) \div (2 * c)

EvenBelow(n) == n - (n % 2)

\* force_original_aspect_ratio=decrease takes the largest frame of the
\* source's shape in the box, whether or not that enlarges it, and rounds it
\* down to even numbers; without it the box itself is the frame.
ScaledFrame(source, scale) ==
  LET w == IF scale.size.width = 0 THEN source.width ELSE scale.size.width
      h == IF scale.size.height = 0 THEN source.height ELSE scale.size.height
  IN  IF scale.upscale THEN Size(w, h)
      ELSE Size(EvenBelow(Lesser(w, Rescale(h, source.width, source.height))),
                EvenBelow(Lesser(h, Rescale(w, source.height, source.width))))

\* The frame a command encodes; FFmpeg has rotated its input for display.
Frame(c, source) == IF c.scale = None THEN source ELSE ScaledFrame(source, c.scale)

-----------------------------------------------------------------------------
(* Correctness *)

\* Commands that encode under a plan, under a constant quality
PlannedCommands == {c \in commands : c.video.control = "rate"}
QualityCommands == {c \in commands : c.video.control \in {"crf", "qp", "cq"}}
CopyCommands    == {c \in commands : c.video.control = "copy"}

\* Types of the variables that change.
TypeOK ==
  /\ request \in Requests
  /\ stage \in {"new", "refused", "stored", "queued", "launch", "running", "completed", "failed"}
  /\ error \in {"none", "probe", "plan", "device", "build", "remove", "transcode"}
  /\ (stage = "failed") = (error # "none")
  /\ stage \in {"new", "refused"} \/ DOMAIN spec = DOMAIN defaultOutput
  /\ probe \in Probes \cup {None}
  /\ Len(left) \in 0 .. 3
  /\ stderr.held \in 0 .. StderrLimit /\ stderr.written \in 0 .. MaxWritten
  /\ \A c \in commands : c.mode \in {"software", "nvenc", "vaapi", "copy"}
  /\ restarts \in 0 .. MaxRestarts

(* What is accepted can be built: no job is stored whose codecs or numbers   *)
(* the tables consulted hours later, after upload and probe, refuse; the     *)
(* constant quality is one the codec has, wherever preset, overrides and     *)
(* codec come from.                                                          *)
AcceptedIsBuildable ==
  /\ error # "build"
  /\ \A c \in QualityCommands :
       c.video.quality \in 0 .. (IF spec.codec \in {"h264", "hevc"} THEN 51 ELSE 63)

EncodersFor == [h264 |-> {"libx264", "h264_nvenc", "h264_vaapi"},
                hevc |-> {"libx265", "hevc_nvenc", "hevc_vaapi"},
                vp9  |-> {"libvpx-vp9", "vp9_vaapi"},
                av1  |-> {"libsvtav1", "av1_nvenc", "av1_vaapi"}]

Asked(f) == f \in DOMAIN request.output

\* A percentage of quality on the scale of the codec, where less is better
QualityFor(percent) ==
  LET max == IF spec.codec \in {"h264", "hevc"} THEN 51 ELSE 63
  IN  max - ((percent * max) \div 100)

(* "Explicit output fields override the preset defaults" (api.go:97), down   *)
(* to the command line, for a CRF or quality of zero too, and for every      *)
(* encoder tried; "software, vaapi, and nvenc require that mode and do not   *)
(* fall back" (api.go:104).  Audio keeps its asked rate except under a plan, *)
(* which shares the budget out, and its asked codec unless it is copied.     *)
AsRequested ==
  \A c \in commands : LET x == request.output IN
    /\ Asked("container") => c.container = x.container
    /\ Asked("codec") => c.video.name \in EncodersFor[x.codec] \cup {"copy"}
    /\ Asked("encoder") => x.encoder = "auto" \/ c.mode \in {x.encoder, "copy"}
    /\ (Asked("quality") /\ x.quality = "crf") =>
          c.video.quality = (IF Asked("crf") THEN x.crf ELSE 0)
    /\ (Asked("quality") /\ x.quality # "auto") => c \in QualityCommands
    /\ (Asked("quality") /\ x.quality = "quality") =>
          c.video.quality = QualityFor(IF Asked("value") THEN x.value ELSE 0)
    /\ Asked("mode") => spec.mode = x.mode /\ (x.mode = "source" => c.scale = None)
    /\ spec.mode = "fit" =>
          /\ c.scale # None
          /\ Asked("width") => c.scale.size.width = x.width
          /\ Asked("height") => c.scale.size.height = x.height
          /\ Asked("upscale") => c.scale.upscale = x.upscale
    /\ Asked("acodec") => c \in CopyCommands \/ c.audio.codec = audioEncoder[x.acodec]
    /\ (Asked("kbps") /\ c \in QualityCommands) => c.audio.kbps = x.kbps

(* Automatic encoding falls back: when a transcode fails for good, software  *)
(* has been tried, or the streams were only to be copied.                    *)
FallsBack ==
  (error = "transcode" /\ spec.encoder = "auto") =>
    \E c \in commands : c.mode \in {"software", "copy"}

(* "Software, VA-API, and NVENC all receive the same average/max bitrate     *)
(* plan" (README:11), and so does a run that a crash made start over on      *)
(* other devices: the input's rates are read once.                           *)
SamePlan ==
  \A c, d \in PlannedCommands \cup CopyCommands :
    /\ [c.video EXCEPT !.name = d.video.name] = d.video
    /\ c.audio = d.audio /\ c.scale = d.scale

(* The bytes an encode is asked for: its rates over the input's duration,    *)
(* with the container's overhead of 20 kbps.                                 *)
AskedBytes(kbps) == probe.seconds * 125 * (kbps + 20)

\* The target leaves a kilobit for video beside the audio asked for, or both
\* their floors.
BudgetSuffices ==
  LET target == TargetTotal(inputTotalBitrate(request.size, probe.seconds))
  IN  target >= RequestedAudio(spec) + 21000 \/ target > 336000

(* "targets min(input bitrate * 0.85, 1.6 Mbps)" (README:9): a planned       *)
(* encode asks for no more than 85% of the input's bytes and 1.6 Mbps on     *)
(* average, 95% and 1.6 Mbps at most, from whatever rate the input has down  *)
(* to where audio alone exhausts the budget; and audio gets less than was    *)
(* asked for only where video would be below 300 kbps.                       *)
AutoBudget ==
  \A c \in PlannedCommands :
    LET v == c.video  a == c.audio.kbps  requested == RequestedAudio(spec) \div 1000 IN
      /\ v.rate >= 1 /\ v.rate <= v.maxrate /\ a >= 16 /\ a <= requested
      /\ BudgetSuffices =>
           /\ v.rate + a + 20 <= 1600 /\ v.maxrate + a + 20 <= 1600
           /\ 100 * AskedBytes(v.rate + a) <= 85 * request.size
           /\ 100 * AskedBytes(v.maxrate + a) <= 95 * request.size
      /\ a < requested => v.rate \in 300 .. 301

\* No side vanishes in the smallest box.
Reducible(source) ==
  /\ source.width >= 4 /\ source.height >= 4
  /\ source.width <= 320 * source.height /\ source.height <= 320 * source.width

LongSide(s)  == Greater(s.width, s.height)
ShortSide(s) == Lesser(s.width, s.height)

\* The class of frame a total bit rate affords, in the source's orientation
BoxFor(total, source) ==
  LET long  == IF total >= 1250000 THEN 1280 ELSE IF total >= 850000 THEN 854 ELSE 640
      short == IF total >= 1250000 THEN 720 ELSE IF total >= 850000 THEN 480 ELSE 360
  IN  IF source.height > source.width THEN Size(short, long) ELSE Size(long, short)

\* Even sides within the source and the box; to the pixels that the roundings
\* of planner and filter take, the shorter side is the source's, the box's, or
\* that of the source's shape at the box's longer side.
WellFitted(frame, source, box) ==
  /\ frame.width >= 2 /\ frame.width % 2 = 0
  /\ frame.height >= 2 /\ frame.height % 2 = 0
  /\ Within(frame, source) /\ Within(frame, box)
  /\ LET short == ShortSide(frame) + 4 IN
       \/ short > ShortSide(source) \/ short > ShortSide(box)
       \/ short * LongSide(source) > ShortSide(source) * LongSide(box)

(* "The planner ... never upscales", "portrait input can use 720x1280" and   *)
(* "computes the actual fitted dimensions" (README:9, 11): under automatic   *)
(* compression and resolution FFmpeg makes a frame of even sides, no larger  *)
(* than source and box, turned as the source is displayed, and no smaller    *)
(* than it has to be.                                                        *)
AutoFrame ==
  \A c \in PlannedCommands :
    LET source == Displayed(probe)
        total  == TargetTotal(inputTotalBitrate(request.size, probe.seconds))
    IN  (spec.mode = "auto" /\ Reducible(source)) =>
          WellFitted(Frame(c, source), source, BoxFor(total, source))

(* A stream copy is what was asked for: streams of the codecs of the         *)
(* specification, in its container, in a 720p-class frame.                   *)
CopyGivesRequested ==
  \A c \in CopyCommands :
    /\ spec.quality = "auto" /\ spec.mode = "auto" /\ spec.container = "mp4"
    /\ probeVideo(probe).codec = spec.codec
    /\ \A i \in DOMAIN probe.streams :
         probe.streams[i].type = "audio" => probe.streams[i].codec = spec.acodec
    /\ LET d == Displayed(probe) IN
         Greater(d.width, d.height) <= 1280 /\ Lesser(d.width, d.height) <= 720

(* However much FFmpeg has to say, as much of its beginning is kept as the   *)
(* limit allows, the record says whether that is all, and FFmpeg never sees  *)
(* a write fail.                                                             *)
StderrHonest ==
  /\ stderr.held = Lesser(stderr.written, StderrLimit)
  /\ stderr.truncated = (stderr.written > StderrLimit)
  /\ ~stderr.short

(* "Whether fit mode may enlarge the input. Defaults to false" (api.go:121). *)
NoEnlargement ==
  \A c \in commands :
    ~spec.upscale /\ HasVideo(probe) => Within(Frame(c, Displayed(probe)), Displayed(probe))
=============================================================================
