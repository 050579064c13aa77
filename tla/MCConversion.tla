---------------------------- MODULE MCConversion ----------------------------
(* Instances of Conversion: requests that use each field, alone and against *)
(* the presets, and inputs around every boundary of the planner.            *)
EXTENDS Conversion, TLC

Ask(preset, output, size) == [preset |-> preset, output |-> output, size |-> size, named |-> TRUE]

\* What is given beside a preset
Codecs == {[codec |-> c] : c \in {"h264", "hevc", "vp9", "av1", "mpeg2"}}
            \cup {[codec |-> "vp9", container |-> "webm", acodec |-> "opus"],
                  [codec |-> "av1", container |-> "mkv", acodec |-> "flac"],
                  [container |-> "avi"], [acodec |-> "mp3"], [acodec |-> "aac"]}
Qualities == {[quality |-> "crf", crf |-> c] : c \in {51, 52, 63}}
               \cup {[quality |-> "quality", value |-> v] : v \in {1, 100, 101}}
               \cup {[quality |-> "crf"], [quality |-> "quality"], [quality |-> "auto"],
                     [quality |-> "cbr"], [crf |-> 23]}
Frames == {[mode |-> "fit", width |-> 641, height |-> 361, upscale |-> u] : u \in BOOLEAN}
            \cup {[mode |-> "fit"], [mode |-> "source"], [mode |-> "auto"], [mode |-> "crop"],
                  [width |-> 640]}
Modes  == {[encoder |-> e] : e \in {"auto", "software", "vaapi", "nvenc", "qsv"}}
Audios == {[kbps |-> k] : k \in {15, 16, 320, 513}}

Outputs == Codecs \cup Qualities \cup Frames \cup Modes \cup Audios
             \cup {[codec |-> "av1"] @@ q : q \in {[quality |-> "crf", crf |-> 52],
                                                  [quality |-> "crf", crf |-> 63],
                                                  [quality |-> "quality"]}}
             \cup {c @@ [encoder |-> "nvenc"] : c \in {[codec |-> "hevc"], [codec |-> "vp9"]}}
             \cup {f @@ [quality |-> "auto"] : f \in Frames}

\* Sizes; at eight seconds also the total bit rate: around the floors of the
\* budget, the tiers and the ceiling, and nothing at all
Sizes == {1, 100000, 174118, 175300, 395295, 395297, 500000, 1000000, 1470589, 1882353, 20000000}

MCRequests ==
  {Ask("none", o, 1000000) : o \in Outputs}
  \cup {Ask(p, o, 1000000) : p \in {"web1080p", "archiveav1"}, o \in Codecs \cup Qualities \cup Frames}
  \cup {Ask("none", o, n) : o \in {[encoder |-> "auto"], [kbps |-> 320]}, n \in Sizes}
  \cup {Ask("none", [encoder |-> "auto"], n) : n \in {0, 20000001}}
  \cup {Ask("unknown", [encoder |-> "auto"], 1000),
        [Ask("none", [encoder |-> "auto"], 1000) EXCEPT !.named = FALSE]}

Stream(type, codec, w, h, r) ==
  [type |-> type, codec |-> codec, width |-> w, height |-> h, rotations |-> r]
Video(codec, w, h, r) == Stream("video", codec, w, h, r)
Audio(codec) == Stream("audio", codec, 0, 0, <<>>)
Report(streams) == [seconds |-> 8, streams |-> streams]

Clip(w, h) == Report(<<Audio("aac"), Video("h264", w, h, <<>>)>>)

MCProbes ==
  {Clip(d[1], d[2]) : d \in {<<640, 360>>, <<639, 359>>, <<1920, 1080>>, <<1080, 1920>>,
                             <<720, 720>>, <<2560, 1080>>, <<855, 481>>, <<1281, 4>>,
                             <<7680, 25>>, <<1, 2>>, <<2, 1>>, <<0, 0>>, <<7682, 2>>}}
  \cup {Report(<<Video("h264", 1920, 1080, r)>>) : r \in {<<0, -90>>, <<0, 0, 90>>, <<180, 90>>}}
  \cup {Report(<<Video("hevc", 320, 240, <<>>), Audio("aac")>>),
        Report(<<Video("h264", 320, 240, <<>>), Audio("aac"), Audio("opus")>>),
        Report(<<Audio("aac")>>), Report(<<>>),
        Report(<<Audio("aac"), Audio("aac"), Audio("aac"), Audio("aac")>>),
        [Clip(320, 240) EXCEPT !.seconds = 0], [Clip(320, 240) EXCEPT !.seconds = 16],
        [Clip(320, 240) EXCEPT !.seconds = 17]}

(* Every shape of source, in every class of frame                           *)
Sides == (4 .. 12) \cup {18, 25, 99, 240, 359, 360, 361, 479, 480, 481, 639, 640, 641, 719, 720,
         721, 853, 854, 855, 1079, 1080, 1279, 1280, 1281, 1919, 1920, 2159, 2160, 3840, 4320, 7680}

ASSUME FramesFit ==
  \A w, h \in Sides, total \in {849999, 850000, 1250000} : LET source == Size(w, h) IN
    Reducible(source) =>
      WellFitted(ScaledFrame(source, Resolution("fit",
                   fitCompressionBounds(chooseCompressionTier(total), source), FALSE)),
                 source, BoxFor(total, source))
=============================================================================
