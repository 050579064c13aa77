----------------------- MODULE ConversionRequestProofs -----------------------
(***************************************************************************)
(* Theorems that tie what FFmpeg is asked for to what the client asked     *)
(* for, for any requests, reports of ffprobe, limits and restarts.         *)
(*                                                                         *)
(* The argument: from its acceptance on, a job's specification is the      *)
(* normal form of its request; every encoder in the list of a run is one   *)
(* that the specification names; and a command line says of container,     *)
(* codec, quality, audio and frame what specification and plan say.  What  *)
(* the plan says is arithmetic, and in PlannerProofs.                      *)
(***************************************************************************)
EXTENDS ConversionProofs, PlannerProofs

\* Where a job stands, what it is stored with
RequestKnown ==
  /\ request \in Requests /\ probe \in Probes \cup {None}
  /\ stage \notin {"new", "refused"} => Acceptable(request) /\ spec = Normalized(request)
  /\ (stage \in {"queued", "launch", "running", "completed"} \/ commands # {}) =>
       probe \in Probes /\ validateProbe(probe)

\* Encoders that the specification allows
Allowed ==
  {e \in {Software(spec), Vaapi(spec)}
           \cup (IF spec.codec \in DOMAIN nvencEncoder THEN {Nvenc(spec)} ELSE {}) :
     spec.encoder # "auto" => e.mode = spec.encoder}
  \cup {Encoder("copy", "copy")}

\* The list of the current run, and why it has a plan
ListKnownAsked ==
  /\ Len(left) \in 0 .. 3
  /\ stage \in AtWork =>
       /\ plan # None <=> spec.quality = "auto"
       /\ plan # None => Plannable(request.size, probe)
       /\ left \in Seq(Allowed)
       /\ \A i \in 1 .. Len(left) : left[i].mode = "copy" => Copying

\* A command line, by what the specification says
CommandAsked(c) ==
  /\ c.container = spec.container
  /\ c.mode \in Modes /\ (spec.encoder # "auto" => c.mode \in {spec.encoder, "copy"})
  /\ c.video.name \in EncodersFor[spec.codec] \cup {"copy"}
  /\ c.video.control = "copy" \/ c.audio.codec = audioEncoder[spec.acodec]
  /\ spec.quality = "auto" =>
       c.video.control \in {"rate", "copy"} /\ Plannable(request.size, probe)
  /\ spec.quality # "auto" =>
       /\ c.video.control \in {"crf", "qp", "cq"} /\ c.video.quality = crf(spec)
       /\ c.audio.kbps = spec.kbps /\ c.scale = Scale(Requested(spec))

\* Failures, and what is bounded
OutcomeKnown ==
  /\ (stage = "failed") = (error # "none")
  /\ error \in {"none", "probe", "plan", "device", "build", "remove", "transcode"}
  /\ stderr.written <= MaxWritten /\ restarts \in 0 .. MaxRestarts

AskedInv ==
  /\ IInv /\ RequestKnown /\ ListKnownAsked /\ OutcomeKnown
  /\ \A c \in commands : CommandAsked(c)

-----------------------------------------------------------------------------
(* The specification and the list *)

\* What acceptance says of the specification
LEMMA AcceptedKnown ==
  ASSUME RequestKnown, stage \notin {"new", "refused"}
  PROVE  /\ spec = Normalized(request) /\ SpecValid /\ EncoderValid(spec)
         /\ spec.kbps \in 16 .. 512 /\ request.size \in Nat \ {0}
         /\ spec.codec \in {"h264", "hevc", "av1", "vp9"}
<1>1. spec = Normalized(request) /\ Acceptable(request)
  BY DEF RequestKnown
<1>2. SpecValid /\ EncoderValid(spec) /\ spec.kbps \in 16 .. 512
  BY <1>1 DEF Acceptable, SpecValid
<1>3. request.size \in Int /\ request.size > 0
  BY <1>1, ConversionAssumption DEF RequestKnown, Acceptable, InputValid
<1>4. request.size \in Nat \ {0}
  BY <1>3
<1>5. QED
  BY <1>1, <1>2, <1>4, ValidCodecs

\* The encoders that the specification allows have their names in the table.
LEMMA AllowedKnown ==
  ASSUME NEW e \in Allowed, spec.codec \in {"h264", "hevc", "av1", "vp9"}
  PROVE  /\ e.mode \in Modes /\ (spec.encoder # "auto" => e.mode \in {spec.encoder, "copy"})
         /\ e.mode # "copy" => e.mode \in DOMAIN QualityControl
         /\ e.mode # "copy" => e.name \in EncodersFor[spec.codec]
<1>1. ASSUME NEW mode, NEW name
      PROVE  Encoder(mode, name).mode = mode /\ Encoder(mode, name).name = name
  BY DEF Encoder
<1>2. /\ softwareEncoder[spec.codec] \in EncodersFor[spec.codec]
      /\ vaapiEncoder[spec.codec] \in EncodersFor[spec.codec]
      /\ spec.codec \in DOMAIN nvencEncoder => nvencEncoder[spec.codec] \in EncodersFor[spec.codec]
  BY DEF softwareEncoder, vaapiEncoder, nvencEncoder, EncodersFor
<1>3. {"software", "nvenc", "vaapi"} \subseteq DOMAIN QualityControl
  BY DEF QualityControl
<1>4. CASE e = Encoder("copy", "copy")
  BY <1>1, <1>4 DEF Modes
<1>5. CASE e # Encoder("copy", "copy")
  <2>1. /\ e \in {Software(spec), Vaapi(spec)} \/ (e = Nvenc(spec) /\ spec.codec \in DOMAIN nvencEncoder)
        /\ spec.encoder # "auto" => e.mode = spec.encoder
    BY <1>5 DEF Allowed
  <2>2. CASE e = Software(spec)
    BY <1>1, <1>2, <1>3, <2>1, <2>2 DEF Software, Modes
  <2>3. CASE e = Vaapi(spec)
    BY <1>1, <1>2, <1>3, <2>1, <2>3 DEF Vaapi, Modes
  <2>4. CASE e = Nvenc(spec) /\ spec.codec \in DOMAIN nvencEncoder
    BY <1>1, <1>2, <1>3, <2>1, <2>4 DEF Nvenc, Modes
  <2>5. QED
    BY <2>1, <2>2, <2>3, <2>4
<1>6. QED
  BY <1>4, <1>5

\* A list with one more
LEMMA Longer ==
  ASSUME NEW S, NEW s \in Seq(S), NEW t \in Seq(S), NEW n \in Nat, Len(s) \in 0 .. n, Len(t) \in 0 .. 1
  PROVE  s \o t \in Seq(S) /\ Len(s \o t) \in 0 .. n + 1
<1>1. s \o t \in Seq(S) /\ Len(s \o t) = Len(s) + Len(t)
  BY ConcatProperties
<1>2. \A i \in 0 .. n, j \in 0 .. 1 : i + j \in 0 .. n + 1
  OBVIOUS
<1>3. QED
  BY <1>1, <1>2

\* Whatever devices there are, the list has encoders that the specification
\* allows, three at most.
LEMMA AllowedList ==
  ASSUME EncoderValid(spec), NEW present
  PROVE  LET list == videoEncoders(spec, present) IN list \in Seq(Allowed) /\ Len(list) \in 0 .. 3
<1> DEFINE list == videoEncoders(spec, present)
           sw == <<Software(spec)>>
           hw == IF NvencUsable(spec, present) THEN <<Nvenc(spec)>> ELSE <<>>
           va == IF VaapiUsable(present) THEN <<Vaapi(spec)>> ELSE <<>>
           Short(s, n) == s \in Seq(Allowed) /\ Len(s) \in 0 .. n
<1>1. /\ Software(spec).mode = "software" /\ Vaapi(spec).mode = "vaapi"
      /\ Nvenc(spec).mode = "nvenc"
  BY DEF Software, Vaapi, Nvenc, Encoder
<1>2. /\ spec.encoder \in {"auto", "software"} => Software(spec) \in Allowed
      /\ spec.encoder \in {"auto", "vaapi"} => Vaapi(spec) \in Allowed
      /\ spec.encoder \in {"auto", "nvenc"} /\ NvencUsable(spec, present) => Nvenc(spec) \in Allowed
  BY <1>1 DEF Allowed, NvencUsable
<1>3. ASSUME NEW e \in Allowed
      PROVE  Short(<<e>>, 1)
  BY <1>3
<1>4. Short(<<>>, 1)
  BY EmptySeq
<1>5. CASE spec.encoder = "software"
  <2>1. list = sw
    BY <1>5 DEF videoEncoders
  <2>2. QED
    BY <1>2, <1>3, <1>5, <2>1
<1>6. CASE spec.encoder = "vaapi"
  <2>1. list = va
    BY <1>6 DEF videoEncoders
  <2>2. QED
    BY <1>2, <1>3, <1>4, <1>6, <2>1
<1>7. CASE spec.encoder = "nvenc"
  <2>1. list = hw
    BY <1>7 DEF videoEncoders
  <2>2. QED
    BY <1>2, <1>3, <1>4, <1>7, <2>1
<1>8. CASE spec.encoder = "auto"
  <2>1. list = hw \o va \o sw
    BY <1>8 DEF videoEncoders
  <2>2. Short(hw, 1) /\ Short(va, 1) /\ Short(sw, 1)
    BY <1>2, <1>3, <1>4, <1>8
  <2> HIDE DEF hw, va, sw, list
  <2>3. Short(hw \o va, 1 + 1)
    BY <2>2, Longer
  <2>4. 1 + 1 \in Nat
    OBVIOUS
  <2>5. Short((hw \o va) \o sw, 1 + 1 + 1)
    BY <2>2, <2>3, <2>4, Longer
  <2>6. Short(list, 3)
    BY <2>1, <2>5
  <2>7. QED
    BY <2>6 DEF list
<1>9. QED
  BY <1>5, <1>6, <1>7, <1>8 DEF EncoderValid

\* A command line is built from specification and plan.
LEMMA BuiltAsked ==
  ASSUME AskedInv, stage = "launch"
  PROVE  CommandAsked(ffmpegCmdWithPlan(left[1]))
<1> DEFINE c == ffmpegCmdWithPlan(left[1])
           e == left[1]
<1>1. /\ plan # None <=> spec.quality = "auto"
      /\ plan # None => Plannable(request.size, probe)
      /\ left \in Seq(Allowed) /\ left # <<>>
      /\ \A i \in 1 .. Len(left) : left[i].mode = "copy" => Copying
  BY DEF AskedInv, ListKnownAsked, IInv, RunKnown, AtWork
<1>2. e \in Allowed /\ (e.mode = "copy" => Copying)
  <2>1. 1 \in 1 .. Len(left)
    BY <1>1, EmptySeq
  <2>2. QED
    BY <1>1, <2>1, ElementOfSeq
<1>3. spec.codec \in {"h264", "hevc", "av1", "vp9"}
  BY AcceptedKnown DEF AskedInv
<1>4. /\ e.mode \in Modes /\ (spec.encoder # "auto" => e.mode \in {spec.encoder, "copy"})
      /\ e.mode # "copy" => e.mode \in DOMAIN QualityControl
      /\ e.mode # "copy" => e.name \in EncodersFor[spec.codec]
  BY <1>2, <1>3, AllowedKnown
<1>5. /\ c.mode = e.mode /\ c.container = spec.container /\ c.video = videoEncoderArgs(e)
      /\ c.audio = audioArgs /\ c.scale = ffmpegFilter
  BY DEF ffmpegCmdWithPlan
<1> HIDE DEF c, e
<1>6. c.video.name \in EncodersFor[spec.codec] \cup {"copy"}
  <2>1. c.video.name \in {"copy", e.name} /\ (Copying => c.video.name = "copy")
    BY <1>5 DEF videoEncoderArgs
  <2>2. QED
    BY <1>2, <1>4, <2>1
<1>7. ASSUME spec.quality = "auto"
      PROVE  c.video.control \in {"rate", "copy"} /\ Plannable(request.size, probe)
  BY <1>1, <1>5, <1>7 DEF videoEncoderArgs, Planned
<1>8. ASSUME spec.quality # "auto"
      PROVE  /\ c.video.control \in {"crf", "qp", "cq"} /\ c.video.quality = crf(spec)
             /\ c.audio.kbps = spec.kbps /\ c.scale = Scale(Requested(spec))
  <2>1. ~Planned /\ ~Copying
    BY <1>1, <1>8 DEF Planned, Copying
  <2>2. c.audio.kbps = spec.kbps /\ c.scale = Scale(Requested(spec))
    BY <1>5, <2>1 DEF audioArgs, ffmpegFilter
  <2>3. c.video.control = QualityControl[e.mode] /\ c.video.quality = crf(spec)
    BY <1>5, <2>1 DEF videoEncoderArgs
  <2>4. QualityControl[e.mode] \in {"crf", "qp", "cq"}
    BY <1>2, <1>4, <2>1 DEF QualityControl, Modes
  <2>5. QED
    BY <2>2, <2>3, <2>4
<1>9. c.video.control = "copy" \/ c.audio.codec = audioEncoder[spec.acodec]
  BY <1>5 DEF videoEncoderArgs, audioArgs
<1>10. CommandAsked(c)
  BY <1>4, <1>5, <1>6, <1>7, <1>8, <1>9 DEF CommandAsked
<1>11. QED
  BY <1>10 DEF c

-----------------------------------------------------------------------------
(* Steps *)

\* While request, specification and report stay, so does what a command line
\* was asked for.
LEMMA AskedFrozen ==
  ASSUME UNCHANGED <<request, spec, probe>>, NEW c, CommandAsked(c)
  PROVE  CommandAsked(c)'
  BY DEF CommandAsked

\* Nothing is stored that was not accepted.
LEMMA CreateAsked ==
  ASSUME AskedInv, Create
  PROVE  AskedInv'
<1>1. IInv'
  BY CreateStep DEF AskedInv
<1>2. commands' = {} /\ UNCHANGED <<request, probe, left, error, stderr, restarts, commands>>
  BY DEF AskedInv, IInv, HistoryKnown, Create
<1>3. /\ stage = "new" /\ stage' \in {"stored", "refused"}
      /\ stage' = "stored" => Acceptable(request) /\ spec' = Normalized(request)
  BY DEF Create
<1>4. RequestKnown'
  BY <1>2, <1>3 DEF AskedInv, RequestKnown
<1>5. ListKnownAsked' /\ OutcomeKnown'
  BY <1>2, <1>3 DEF AskedInv, ListKnownAsked, OutcomeKnown, AtWork
<1>6. QED
  BY <1>1, <1>2, <1>4, <1>5 DEF AskedInv

\* A job is queued with a report that was validated.
LEMMA ProbeAsked ==
  ASSUME AskedInv, Probe
  PROVE  AskedInv'
<1>1. IInv'
  BY ProbeStep DEF AskedInv
<1>2. /\ commands' = {} /\ stage = "stored" /\ error = "none"
      /\ UNCHANGED <<request, spec, left, stderr, restarts, commands>>
  BY DEF AskedInv, IInv, HistoryKnown, ErrorKnown, Probe
<1>3. \/ stage' = "queued" /\ probe' \in Probes /\ validateProbe(probe') /\ error' = error
      \/ stage' = "failed" /\ error' = "probe" /\ probe' = probe
  BY DEF Probe, Fail
<1>4. RequestKnown'
  BY <1>2, <1>3 DEF AskedInv, RequestKnown, validateProbe
<1>5. ListKnownAsked' /\ OutcomeKnown'
  BY <1>2, <1>3 DEF AskedInv, ListKnownAsked, OutcomeKnown, AtWork
<1>6. QED
  BY <1>1, <1>2, <1>4, <1>5 DEF AskedInv

\* From the queue on, specification and report stay.
LEMMA RequestStays ==
  ASSUME AskedInv, UNCHANGED <<request, spec, probe>>,
         stage \in {"queued", "launch", "running"}, stage' \notin {"new", "refused"}
  PROVE  RequestKnown'
  BY DEF AskedInv, RequestKnown, validateProbe

\* A run makes a list of what is allowed, and a plan where there is one to make.
LEMMA StartAsked ==
  ASSUME AskedInv, NEW present, Start(present)
  PROVE  AskedInv'
<1>1. IInv'
  BY StartStep DEF AskedInv
<1>2. /\ UNCHANGED <<request, spec, probe, stderr, commands, restarts>>
      /\ stage = "queued" /\ error = "none"
  BY DEF AskedInv, IInv, ErrorKnown, Start
<1>3. EncoderValid(spec) /\ Len(left) \in 0 .. 3
  BY <1>2, AcceptedKnown DEF AskedInv, ListKnownAsked
<1>4. Allowed' = Allowed
  BY <1>2 DEF Allowed
<1>5. PICK p, list :
        /\ p = IF spec.quality = "auto" /\ Plannable(request.size, probe) THEN PlanOf ELSE None
        /\ list = IF p # None /\ p.copy THEN <<Encoder("copy", "copy")>>
                  ELSE videoEncoders(spec, present)
        /\ \/ /\ spec.quality = "auto" /\ p = None
              /\ stage' = "failed" /\ error' = "plan" /\ left' = left
           \/ /\ ~(spec.quality = "auto" /\ p = None) /\ plan' = p /\ left' = list
              /\ \/ list = <<>> /\ stage' = "failed" /\ error' = "device"
                 \/ list # <<>> /\ stage' = "launch" /\ error' = error
  BY DEF Start, Fail, PlanOf
<1>6. list \in Seq(Allowed) /\ Len(list) \in 0 .. 3
  <2>1. CASE p # None /\ p.copy
    <3>1. list = <<Encoder("copy", "copy")>> /\ Encoder("copy", "copy") \in Allowed
      BY <1>5, <2>1 DEF Allowed
    <3>2. QED
      BY <3>1
  <2>2. CASE ~(p # None /\ p.copy)
    BY <1>3, <1>5, <2>2, AllowedList
  <2>3. QED
    BY <2>1, <2>2
<1>7. ~(p # None /\ p.copy) => \A i \in 1 .. Len(list) : list[i].mode # "copy"
  BY <1>5, ListKnown
<1>8. ListKnownAsked'
  <2>1. Len(left') \in 0 .. 3
    BY <1>3, <1>5, <1>6
  <2>2. ASSUME stage' \in AtWork
        PROVE  /\ plan' # None <=> spec.quality = "auto"
               /\ plan' # None => Plannable(request.size, probe)
               /\ left' \in Seq(Allowed)
               /\ \A i \in 1 .. Len(left') : left'[i].mode = "copy" => plan' # None /\ plan'.copy
    <3>1. /\ plan' = p /\ left' = list /\ ~(spec.quality = "auto" /\ p = None)
      BY <1>5, <2>2 DEF AtWork
    <3>2. p # None => spec.quality = "auto" /\ Plannable(request.size, probe)
      BY <1>5
    <3>3. \A i \in 1 .. Len(list) : list[i].mode = "copy" => p # None /\ p.copy
      BY <1>7
    <3>4. QED
      BY <1>6, <3>1, <3>2, <3>3
  <2>3. QED
    BY <1>2, <1>4, <2>1, <2>2 DEF ListKnownAsked, Copying, Planned, AtWork
<1>9. stage' \in {"failed", "launch"} /\ OutcomeKnown'
  BY <1>2, <1>5 DEF AskedInv, OutcomeKnown
<1>10. RequestKnown' /\ \A c \in commands' : CommandAsked(c)'
  BY <1>2, <1>9, RequestStays, AskedFrozen DEF AskedInv
<1>11. QED
  BY <1>1, <1>8, <1>9, <1>10 DEF AskedInv

\* The command line is built from specification and plan.
LEMMA LaunchAsked ==
  ASSUME AskedInv, Launch
  PROVE  AskedInv'
<1>1. IInv'
  BY LaunchStep DEF AskedInv
<1>2. Buildable
  BY ValidBuildable DEF AskedInv, IInv, Launch
<1>3. /\ UNCHANGED <<request, spec, probe, plan, left, error, restarts>>
      /\ stage = "launch" /\ stage' = "running" /\ stderr' = EmptyBuffer
      /\ commands' = commands \cup {ffmpegCmdWithPlan(left[1])}
  BY <1>2 DEF Launch
<1>4. ASSUME NEW c \in commands' PROVE CommandAsked(c)'
  BY <1>3, <1>4, BuiltAsked, AskedFrozen DEF AskedInv
<1>5. ListKnownAsked'
  BY <1>3 DEF AskedInv, ListKnownAsked, AtWork, Allowed, Copying, Planned
<1>6. OutcomeKnown'
  BY <1>3, ConversionAssumption DEF AskedInv, OutcomeKnown, EmptyBuffer
<1>7. RequestKnown'
  BY <1>3, RequestStays
<1>8. QED
  BY <1>1, <1>4, <1>5, <1>6, <1>7 DEF AskedInv

\* FFmpeg at work changes its buffer only.
LEMMA WriteAsked ==
  ASSUME AskedInv, NEW n \in Writes, WriteStderr(n)
  PROVE  AskedInv'
<1>1. IInv'
  BY WriteStderrStep DEF AskedInv
<1>2. /\ UNCHANGED <<request, stage, error, spec, probe, plan, left, commands, restarts>>
      /\ stage = "running" /\ stderr.written + n <= MaxWritten /\ stderr' = Buffered(stderr, n)
  BY DEF WriteStderr
<1>3. RequestKnown' /\ ListKnownAsked'
  BY <1>2, RequestStays DEF AskedInv, ListKnownAsked, AtWork, Allowed, Copying, Planned
<1>4. stderr'.written = stderr.written + n
  BY <1>2 DEF Buffered
<1>5. OutcomeKnown'
  BY <1>2, <1>4 DEF AskedInv, OutcomeKnown
<1>6. \A c \in commands' : CommandAsked(c)'
  BY <1>2, AskedFrozen DEF AskedInv
<1>7. QED
  BY <1>1, <1>3, <1>5, <1>6 DEF AskedInv

\* The job ends well, or its run starts over.
LEMMA EndAsked ==
  ASSUME AskedInv, Succeed \/ Restart
  PROVE  AskedInv'
<1>1. IInv'
  BY EndStep DEF AskedInv
<1>2. /\ UNCHANGED <<request, spec, probe, error, commands>> /\ error = "none"
      /\ stage \in {"launch", "running"} /\ stage' \in {"completed", "queued"}
  BY DEF AskedInv, IInv, ErrorKnown, Succeed, Restart
<1>3. /\ left' \in {left, <<>>} /\ stderr' \in {stderr, EmptyBuffer}
      /\ restarts' = restarts \/ (restarts' = restarts + 1 /\ restarts < MaxRestarts)
  BY DEF Succeed, Restart
<1>4. RequestKnown' /\ ListKnownAsked'
  BY <1>2, <1>3, RequestStays DEF AskedInv, ListKnownAsked, AtWork
<1>5. OutcomeKnown'
  <2>1. stderr'.written <= MaxWritten
    BY <1>3, ConversionAssumption DEF AskedInv, OutcomeKnown, EmptyBuffer
  <2>2. restarts' \in 0 .. MaxRestarts
    BY <1>3, ConversionAssumption DEF AskedInv, OutcomeKnown
  <2>3. QED
    BY <1>2, <2>1, <2>2 DEF OutcomeKnown
<1>6. \A c \in commands' : CommandAsked(c)'
  BY <1>2, AskedFrozen DEF AskedInv
<1>7. QED
  BY <1>1, <1>4, <1>5, <1>6 DEF AskedInv

\* What is left of the list is still allowed.
LEMMA EncoderFailsAsked ==
  ASSUME AskedInv, EncoderFails
  PROVE  AskedInv'
<1>1. IInv'
  BY EncoderFailsStep DEF AskedInv
<1>2. /\ UNCHANGED <<request, spec, probe, plan, stderr, commands, restarts>>
      /\ stage = "running" /\ error = "none"
  BY DEF AskedInv, IInv, ErrorKnown, EncoderFails
<1>3. \/ stage' = "launch" /\ left' = Tail(left) /\ error' = error
      \/ stage' = "failed" /\ left' = left /\ error' \in {"remove", "transcode"}
  BY DEF EncoderFails, Fail
<1>4. /\ Len(left) \in 0 .. 3 /\ left \in Seq(Allowed) /\ left # <<>>
      /\ plan # None <=> spec.quality = "auto"
      /\ plan # None => Plannable(request.size, probe)
      /\ \A i \in 1 .. Len(left) : left[i].mode = "copy" => Copying
  BY <1>2 DEF AskedInv, ListKnownAsked, IInv, RunKnown, AtWork
<1>5. Allowed' = Allowed /\ Copying' = Copying
  BY <1>2 DEF Allowed, Copying, Planned
<1>6. ListKnownAsked'
  <2>1. CASE stage' = "launch" /\ left' = Tail(left)
    <3>1. PICK l : l = left'
      OBVIOUS
    <3>2. /\ l \in Seq(Allowed) /\ Len(l) = Len(left) - 1
          /\ \A i \in 1 .. Len(l) : l[i] = left[i + 1]
      BY <1>4, <2>1, <3>1, HeadTailProperties
    <3>3. Len(left) \in 1 .. 3 /\ Len(l) \in 0 .. 3
      <4>1. Len(left) # 0
        BY <1>4, EmptySeq
      <4>2. QED
        BY <1>4, <3>2, <4>1
    <3>4. \A i \in 1 .. Len(l) : l[i].mode = "copy" => Copying
      <4>1. \A i \in 1 .. Len(l) : i + 1 \in 1 .. Len(left)
        BY <3>2, <3>3
      <4>2. QED
        BY <1>4, <3>2, <4>1
    <3>5. QED
      BY <1>2, <1>4, <1>5, <2>1, <3>1, <3>2, <3>3, <3>4 DEF ListKnownAsked
  <2>2. CASE stage' = "failed" /\ left' = left
    BY <1>4, <2>2 DEF ListKnownAsked, AtWork
  <2>3. QED
    BY <1>3, <2>1, <2>2
<1>7. OutcomeKnown'
  BY <1>2, <1>3 DEF AskedInv, OutcomeKnown
<1>8. RequestKnown' /\ \A c \in commands' : CommandAsked(c)'
  BY <1>2, <1>3, RequestStays, AskedFrozen DEF AskedInv
<1>9. QED
  BY <1>1, <1>6, <1>7, <1>8 DEF AskedInv

\* Nothing is asked for at first.
LEMMA InitiallyAsked ==
  ASSUME Init
  PROVE  AskedInv
<1>1. IInv
  BY Initially
<1>2. Len(left) = 0 /\ stderr.written = 0 /\ restarts = 0 /\ commands = {} /\ stage = "new"
  BY EmptySeq DEF Init, EmptyBuffer
<1>3. RequestKnown /\ ListKnownAsked
  BY <1>2 DEF Init, RequestKnown, ListKnownAsked, AtWork
<1>4. OutcomeKnown
  BY <1>2, ConversionAssumption DEF Init, OutcomeKnown
<1>5. QED
  BY <1>1, <1>2, <1>3, <1>4 DEF AskedInv

\* Every step keeps what is known.
LEMMA AskedInductive ==
  ASSUME AskedInv, [Next]_vars
  PROVE  AskedInv'
<1>1. CASE UNCHANGED vars
  <2>1. IInv'
    BY Inductive DEF AskedInv
  <2>2. \A c \in commands' : CommandAsked(c)'
    BY <1>1, AskedFrozen DEF AskedInv, vars
  <2>3. Allowed' = Allowed /\ Copying' = Copying
    BY <1>1 DEF Allowed, Copying, Planned, vars
  <2>4. RequestKnown' /\ ListKnownAsked' /\ OutcomeKnown'
    BY <1>1, <2>3 DEF AskedInv, RequestKnown, ListKnownAsked, OutcomeKnown, validateProbe, vars
  <2>5. QED
    BY <2>1, <2>2, <2>4 DEF AskedInv
<1>2. QED
  BY <1>1, CreateAsked, ProbeAsked, StartAsked, LaunchAsked, WriteAsked, EndAsked,
     EncoderFailsAsked DEF Next

\* In every state the job, its list and its command lines are what its request
\* leads to.
THEOREM AskedInvariance == Spec => []AskedInv
<1>1. Init => AskedInv
  BY InitiallyAsked
<1>2. AskedInv /\ [Next]_vars => AskedInv'
  BY AskedInductive
<1>3. QED
  BY <1>1, <1>2, PTL DEF Spec

-----------------------------------------------------------------------------
(* Theorems *)

\* A normal form has the fields of a specification: those the request gives,
\* the quality's number zero where the request has a quality without it.
LEMMA NormalizedKnown ==
  ASSUME NEW r, r.preset \in DOMAIN presetOutput
  PROVE  LET o == Normalized(r)  x == r.output IN
         /\ DOMAIN o = DOMAIN defaultOutput
         /\ \A f \in DOMAIN defaultOutput \ {"value", "crf"} : f \in DOMAIN x => o[f] = x[f]
         /\ ("quality" \in DOMAIN x /\ x.quality = "quality") =>
              o.value = (IF "value" \in DOMAIN x THEN x.value ELSE 0)
         /\ ("quality" \in DOMAIN x /\ x.quality = "crf") =>
              o.crf = (IF "crf" \in DOMAIN x THEN x.crf ELSE 0)
<1> DEFINE o == Normalized(r)
           x == r.output
           b == presetOutput[r.preset]
<1>1. DOMAIN b = DOMAIN defaultOutput
  <2>1. r.preset \in {"none", "web1080p", "archiveav1"}
    BY DEF presetOutput
  <2>2. /\ DOMAIN presetOutput["none"] = DOMAIN defaultOutput
        /\ DOMAIN presetOutput["web1080p"] = DOMAIN defaultOutput
        /\ DOMAIN presetOutput["archiveav1"] = DOMAIN defaultOutput
    BY DEF presetOutput
  <2>3. QED
    BY <2>1, <2>2
<1>2. o = [f \in DOMAIN b |-> IF f \notin Overriding(x) THEN b[f]
                              ELSE IF f \in DOMAIN x THEN x[f] ELSE 0]
  BY DEF Normalized, merge
<1> HIDE DEF o, b
<1>3. /\ \A f \in DOMAIN x \ {"value", "crf"} : f \in Overriding(x)
      /\ ("quality" \in DOMAIN x /\ x.quality = "quality") => "value" \in Overriding(x)
      /\ ("quality" \in DOMAIN x /\ x.quality = "crf") => "crf" \in Overriding(x)
  BY DEF Overriding
<1>4. {"value", "crf"} \subseteq DOMAIN defaultOutput
  BY DEF defaultOutput
<1>5. QED
  BY <1>1, <1>2, <1>3, <1>4 DEF o

\* What is known of every command line
LEMMA CommandsKnown ==
  ASSUME AskedInv, NEW c \in commands
  PROVE  /\ CommandKnown(c) /\ CommandAsked(c)
         /\ stage \notin {"new", "refused"} /\ Acceptable(request) /\ spec = Normalized(request)
         /\ SpecValid /\ EncoderValid(spec) /\ spec.kbps \in 16 .. 512
         /\ request.size \in Nat \ {0}
         /\ probe \in Probes /\ probe.seconds \in Nat \ {0}
<1>1. CommandKnown(c) /\ CommandAsked(c) /\ stage \notin {"new", "refused"}
  BY DEF AskedInv, IInv, HistoryKnown
<1>2. Acceptable(request) /\ probe \in Probes /\ validateProbe(probe)
  BY <1>1 DEF AskedInv, RequestKnown
<1>3. probe.seconds \in Nat /\ probe.seconds > 0
  BY <1>2, ConversionAssumption DEF validateProbe
<1>4. probe.seconds \in Nat \ {0}
  BY <1>3
<1>5. QED
  BY <1>1, <1>2, <1>4, AcceptedKnown DEF AskedInv

\* For any requests, reports and limits the variables keep their types.
THEOREM WellFormed == Spec => []TypeOK
<1>1. ASSUME AskedInv PROVE TypeOK
  <2>1. stage \in {"new", "refused"} \/ DOMAIN spec = DOMAIN defaultOutput
    BY <1>1, NormalizedKnown DEF AskedInv, RequestKnown, Acceptable
  <2>2. stderr.held \in 0 .. StderrLimit /\ stderr.written \in 0 .. MaxWritten
    BY <1>1, ConversionAssumption
       DEF AskedInv, IInv, StderrKnown, Honest, OutcomeKnown, Lesser
  <2>3. \A c \in commands : c.mode \in {"software", "nvenc", "vaapi", "copy"}
    BY <1>1 DEF AskedInv, CommandAsked, Modes
  <2>4. QED
    BY <1>1, <2>1, <2>2, <2>3
       DEF AskedInv, IInv, RequestKnown, ListKnownAsked, OutcomeKnown, TypeOK
<1>2. QED
  BY <1>1, AskedInvariance, PTL

\* What a request says of the output is what every encoder is asked for, on
\* whatever devices, before and after crashes.
THEOREM Obeyed == Spec => []AsRequested
<1>1. ASSUME AskedInv PROVE AsRequested
  <2>1. SUFFICES ASSUME NEW c \in commands
        PROVE LET x == request.output IN
          /\ Asked("container") => c.container = x.container
          /\ Asked("codec") => c.video.name \in EncodersFor[x.codec] \cup {"copy"}
          /\ Asked("encoder") => x.encoder = "auto" \/ c.mode \in {x.encoder, "copy"}
          /\ (Asked("quality") /\ x.quality = "crf") =>
                c.video.quality = (IF Asked("crf") THEN x.crf ELSE 0)
          /\ (Asked("quality") /\ x.quality # "auto") => c \in QualityCommands
          /\ (Asked("quality") /\ x.quality = "quality") =>
                c.video.quality = QualityFor(IF Asked("value") THEN x.value ELSE 0)
          /\ Asked("mode") => spec.mode = x.mode /\ (x.mode = "source" => c.scale = None)
          /\ spec.mode = "fit" =>
                /\ c.scale # None
                /\ Asked("width") => c.scale.size.width = x.width
                /\ Asked("height") => c.scale.size.height = x.height
                /\ Asked("upscale") => c.scale.upscale = x.upscale
          /\ Asked("acodec") => c \in CopyCommands \/ c.audio.codec = audioEncoder[x.acodec]
          /\ (Asked("kbps") /\ c \in QualityCommands) => c.audio.kbps = x.kbps
    BY DEF AsRequested
  <2> DEFINE x == request.output
  <2>2. CommandKnown(c) /\ CommandAsked(c) /\ SpecValid
    BY <1>1, CommandsKnown
  <2>3. /\ \A f \in DOMAIN defaultOutput \ {"value", "crf"} : f \in DOMAIN x => spec[f] = x[f]
        /\ ("quality" \in DOMAIN x /\ x.quality = "quality") =>
             spec.value = (IF "value" \in DOMAIN x THEN x.value ELSE 0)
        /\ ("quality" \in DOMAIN x /\ x.quality = "crf") =>
             spec.crf = (IF "crf" \in DOMAIN x THEN x.crf ELSE 0)
    <3>1. spec = Normalized(request) /\ request.preset \in DOMAIN presetOutput
      BY <1>1, CommandsKnown DEF Acceptable
    <3>2. QED
      BY <3>1, NormalizedKnown
  <2> HIDE DEF x
  <2>4. /\ Asked("container") => spec.container = x.container
        /\ Asked("codec") => spec.codec = x.codec
        /\ Asked("encoder") => spec.encoder = x.encoder
        /\ Asked("quality") => spec.quality = x.quality
        /\ Asked("mode") => spec.mode = x.mode
        /\ Asked("width") => spec.width = x.width
        /\ Asked("height") => spec.height = x.height
        /\ Asked("upscale") => spec.upscale = x.upscale
        /\ Asked("acodec") => spec.acodec = x.acodec
        /\ Asked("kbps") => spec.kbps = x.kbps
    BY <2>3 DEF defaultOutput, Asked, x
  <2>5. ASSUME Asked("quality"), x.quality # "auto" PROVE c \in QualityCommands
    BY <2>2, <2>4, <2>5 DEF CommandAsked, QualityCommands
  <2>6. ASSUME Asked("quality"), x.quality = "crf"
        PROVE  c.video.quality = IF Asked("crf") THEN x.crf ELSE 0
    BY <2>2, <2>3, <2>4, <2>6 DEF CommandAsked, crf, Asked, x
  <2>7. ASSUME Asked("quality"), x.quality = "quality"
        PROVE  c.video.quality = QualityFor(IF Asked("value") THEN x.value ELSE 0)
    <3>1. spec.quality = "quality" /\ spec.value = IF Asked("value") THEN x.value ELSE 0
      BY <2>3, <2>4, <2>7 DEF Asked, x
    <3>2. crfMax[spec.codec] = IF spec.codec \in {"h264", "hevc"} THEN 51 ELSE 63
      BY <2>2, ValidCodecs DEF crfMax
    <3>3. c.video.quality = crfMax[spec.codec] - ((spec.value * crfMax[spec.codec]) \div 100)
      BY <2>2, <3>1 DEF CommandAsked, crf
    <3>4. QED
      BY <3>1, <3>2, <3>3 DEF QualityFor
  <2>8. ASSUME spec.mode \in {"source", "fit"} PROVE c.scale = Scale(Requested(spec))
    <3>1. CASE spec.quality # "auto"
      BY <2>2, <3>1 DEF CommandAsked
    <3>2. CASE spec.quality = "auto"
      <4>1. c.scale = ScaleOf
        BY <2>2, <3>2 DEF CommandAsked, CommandKnown
      <4>2. ~PlanOf.copy
        BY <2>8, PlanFrame DEF PlanOf, autoCopySafe
      <4>3. PlanOf.resolution = Requested(spec)
        BY <2>8 DEF PlanOf, autoCompressionPlan, autoPlanResolution
      <4>4. QED
        BY <4>1, <4>2, <4>3 DEF ScaleOf
    <3>3. QED
      BY <3>1, <3>2
  <2>9. ASSUME Asked("mode") PROVE spec.mode = x.mode /\ (x.mode = "source" => c.scale = None)
    BY <2>4, <2>8, <2>9 DEF Scale, Requested, Resolution
  <2>10. ASSUME spec.mode = "fit"
         PROVE  /\ c.scale # None
                /\ Asked("width") => c.scale.size.width = x.width
                /\ Asked("height") => c.scale.size.height = x.height
                /\ Asked("upscale") => c.scale.upscale = x.upscale
    <3>1. c.scale = Resolution("fit", Size(spec.width, spec.height), spec.upscale)
      BY <2>8, <2>10 DEF Scale, Requested, Resolution
    <3>2. QED
      BY <2>4, <3>1 DEF Resolution, Size, None
  <2>11. ASSUME Asked("acodec")
         PROVE  c \in CopyCommands \/ c.audio.codec = audioEncoder[x.acodec]
    BY <2>2, <2>4, <2>11 DEF CommandAsked, CopyCommands
  <2>12. ASSUME Asked("kbps"), c \in QualityCommands PROVE c.audio.kbps = x.kbps
    BY <2>2, <2>4, <2>12 DEF CommandAsked, QualityCommands
  <2>13. QED
    BY <2>2, <2>4, <2>5, <2>6, <2>7, <2>9, <2>10, <2>11, <2>12 DEF CommandAsked, x
<1>2. QED
  BY <1>1, AskedInvariance, PTL

\* What a planned command line asks of FFmpeg
LEMMA PlannedKnown ==
  ASSUME AskedInv, NEW c \in PlannedCommands
  PROVE  /\ c \in commands /\ spec.quality = "auto" /\ Plannable(request.size, probe) /\ ~PlanOf.copy
         /\ c.video.rate = bitrateArg(PlanOf.video) /\ c.video.maxrate = bitrateArg(PlanOf.maxrate)
         /\ c.audio.kbps = PlanOf.audioKbps /\ c.scale = Scale(PlanOf.resolution)
<1>1. c \in commands /\ c.video.control = "rate" /\ CommandKnown(c) /\ CommandAsked(c)
  BY CommandsKnown DEF PlannedCommands
<1>2. spec.quality = "auto" /\ Plannable(request.size, probe)
  BY <1>1 DEF CommandAsked
<1>3. PICK n : c.video = VideoOf(n) /\ c.audio = AudioOf /\ c.scale = ScaleOf
  BY <1>1 DEF CommandKnown
<1>4. ~PlanOf.copy
  BY <1>1, <1>3 DEF VideoOf
<1>5. QED
  BY <1>1, <1>2, <1>3, <1>4 DEF VideoOf, AudioOf, ScaleOf

\* From whatever rate the input has, every planned encode of every run stays
\* within its bytes and the ceiling.
THEOREM BudgetSafe == Spec => []AutoBudget
<1>1. ASSUME AskedInv PROVE AutoBudget
  <2>1. SUFFICES ASSUME NEW c \in PlannedCommands
        PROVE LET v == c.video  a == c.audio.kbps  requested == RequestedAudio(spec) \div 1000 IN
          /\ v.rate >= 1 /\ v.rate <= v.maxrate /\ a >= 16 /\ a <= requested
          /\ BudgetSuffices =>
               /\ v.rate + a + 20 <= 1600 /\ v.maxrate + a + 20 <= 1600
               /\ 100 * AskedBytes(v.rate + a) <= 85 * request.size
               /\ 100 * AskedBytes(v.maxrate + a) <= 95 * request.size
          /\ a < requested => v.rate \in 300 .. 301
    BY DEF AutoBudget
  <2>2. c \in commands /\ ~PlanOf.copy
    BY <1>1, PlannedKnown
  <2>3. /\ AudioValid(spec.kbps) /\ request.size \in Nat /\ probe.seconds \in Nat \ {0}
        /\ spec.kbps \in 16 .. 512
    BY <1>1, <2>2, CommandsKnown DEF AudioValid
  <2>4. PICK v, m, a : /\ v = c.video.rate /\ m = c.video.maxrate /\ a = c.audio.kbps
                       /\ BudgetKept(request.size, probe.seconds, spec.kbps, v, m, a)
    <3>1. BudgetKept(request.size, probe.seconds, spec.kbps, bitrateArg(PlanOf.video),
                     bitrateArg(PlanOf.maxrate), PlanOf.audioKbps)
      BY <2>2, <2>3, WithinBudget DEF PlanOf
    <3>2. QED
      BY <1>1, <3>1, PlannedKnown
  <2>5. RequestedAudio(spec) = spec.kbps * 1000 /\ RequestedAudio(spec) \div 1000 = spec.kbps
    BY SMT, <2>3 DEF RequestedAudio
  <2>6. BudgetSuffices =>
          Suffices(TargetTotal(inputTotalBitrate(request.size, probe.seconds)), spec.kbps)
    BY SMT, <2>5 DEF BudgetSuffices, Suffices
  <2>7. /\ AskedBytes(v + a) = probe.seconds * 125 * (v + a + 20)
        /\ AskedBytes(m + a) = probe.seconds * 125 * (m + a + 20)
    BY DEF AskedBytes
  <2>8. a < spec.kbps => v \in 300 .. 301
    BY SMT, <2>4 DEF BudgetKept
  <2>9. QED
    BY SMT, <2>4, <2>5, <2>6, <2>7, <2>8 DEF BudgetKept
<1>2. QED
  BY <1>1, AskedInvariance, PTL

\* Whatever shape the source has, every planned encode makes a frame that fits.
THEOREM FrameSafe == Spec => []AutoFrame
<1>1. ASSUME AskedInv PROVE AutoFrame
  <2> DEFINE source == Displayed(probe)
             total == TargetTotal(inputTotalBitrate(request.size, probe.seconds))
             size == fitCompressionBounds(chooseCompressionTier(total), source)
  <2>1. SUFFICES ASSUME NEW c \in PlannedCommands, spec.mode = "auto", Reducible(source)
                 PROVE  WellFitted(Frame(c, source), source, BoxFor(total, source))
    BY DEF AutoFrame
  <2>2. /\ c \in commands /\ HasVideo(probe) /\ c.scale = Scale(PlanOf.resolution)
    BY <1>1, PlannedKnown DEF Plannable
  <2>3. source.width \in Int /\ source.height \in Int
    BY <1>1, <2>2, CommandsKnown, DisplayedKnown
  <2>4. PlanOf.resolution = Resolution("fit", size, FALSE)
    BY <2>1, PlanFrame DEF PlanOf
  <2>5. WellFitted(ScaledFrame(source, Resolution("fit", size, FALSE)), source,
                   BoxFor(total, source))
    BY <2>1, <2>3, FrameFitted
  <2> HIDE DEF source, total, size
  <2>6. c.scale = Resolution("fit", size, FALSE)
    BY <2>2, <2>4 DEF Scale, Resolution
  <2>7. Resolution("fit", size, FALSE) # None
    BY DEF Resolution, None
  <2>8. Frame(c, source) = ScaledFrame(source, Resolution("fit", size, FALSE))
    BY <2>6, <2>7 DEF Frame
  <2>9. QED
    BY <2>5, <2>8
<1>2. QED
  BY <1>1, AskedInvariance, PTL

\* Streams are copied only where they already are what was asked for.
THEOREM CopySafe == Spec => []CopyGivesRequested
<1>1. ASSUME AskedInv PROVE CopyGivesRequested
  <2> DEFINE d == Displayed(probe)
             total == TargetTotal(inputTotalBitrate(request.size, probe.seconds))
             size == fitCompressionBounds(chooseCompressionTier(total), d)
             box == BoxFor(total, d)
  <2>1. SUFFICES ASSUME NEW c \in CopyCommands
        PROVE /\ spec.quality = "auto" /\ spec.mode = "auto" /\ spec.container = "mp4"
              /\ probeVideo(probe).codec = spec.codec
              /\ \A i \in DOMAIN probe.streams :
                   probe.streams[i].type = "audio" => probe.streams[i].codec = spec.acodec
              /\ Greater(d.width, d.height) <= 1280 /\ Lesser(d.width, d.height) <= 720
    BY DEF CopyGivesRequested
  <2>2. c \in commands /\ c.video.control = "copy" /\ CommandKnown(c) /\ CommandAsked(c)
    BY <1>1, <2>1, CommandsKnown DEF CopyCommands
  <2>3. spec.quality = "auto" /\ Plannable(request.size, probe)
    BY <2>2 DEF CommandAsked
  <2>4. PlanOf.copy
    <3>1. PICK n : c.video = VideoOf(n)
      BY <2>2 DEF CommandKnown
    <3>2. ~PlanOf.copy => VideoOf(n).control = "rate"
      BY DEF VideoOf
    <3>3. QED
      BY <2>2, <3>1, <3>2
  <2>5. autoCopySafe(probe, spec, size)
    BY <2>4, PlanFrame DEF PlanOf
  <2>6. d.width \in Nat \ {0} /\ d.height \in Nat \ {0}
    <3>1. d.width \in Int /\ d.height \in Int
      BY <1>1, <2>2, <2>3, CommandsKnown, DisplayedKnown DEF Plannable
    <3>2. d.width > 0 /\ d.height > 0
      BY <2>3 DEF Plannable
    <3> HIDE DEF d
    <3>3. QED
      BY <3>1, <3>2
  <2>7. /\ size.width \in Int /\ size.height \in Int
        /\ box.width \in Int /\ box.height \in Int
        /\ Within(d, size) /\ Within(size, box)
    BY <2>5, <2>6, InBox DEF autoCopySafe
  <2>8. Greater(d.width, d.height) <= 1280 /\ Lesser(d.width, d.height) <= 720
    <3> HIDE DEF d, size, box
    <3>1. d.width <= box.width /\ d.height <= box.height
      BY <2>6, <2>7 DEF Within
    <3>2. box = IF d.height > d.width THEN Size(BoxShort(total), BoxLong(total))
                ELSE Size(BoxLong(total), BoxShort(total))
      BY SMT DEF BoxFor, BoxLong, BoxShort, box
    <3>3. /\ BoxShort(total) \in Nat /\ BoxShort(total) <= 720
          /\ BoxLong(total) \in Nat /\ BoxLong(total) <= 1280
      BY SMT, Boxes
    <3> HIDE DEF total
    <3>4. QED
      BY SMT, <2>6, <3>1, <3>2, <3>3 DEF Size, Greater, Lesser
  <2>9. QED
    BY <2>3, <2>5, <2>8 DEF autoCopySafe
<1>2. QED
  BY <1>1, AskedInvariance, PTL
=============================================================================
