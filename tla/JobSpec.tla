------------------------------- MODULE JobSpec -------------------------------
(***************************************************************************)
(* From a request to the output specification a job is stored with:        *)
(* normalize of main.go and the tables of codecs it consults.              *)
(*                                                                         *)
(* A specification is one flat record.  What a request says of the output  *)
(* is a function of the fields it gives: a field that JSON leaves out, or  *)
(* that is empty or zero, is outside its domain.                           *)
(***************************************************************************)
EXTENDS Integers

CONSTANTS Capacity,            \* SPOOL_CAPACITY_BYTES
          MaxWidth, MaxHeight  \* MAX_WIDTH, MAX_HEIGHT

ASSUME JobSpecAssumption == Capacity \in Nat /\ MaxWidth \in Nat /\ MaxHeight \in Nat

\* Containers with the codecs they take
VideoCodecsOf == [mp4  |-> {"h264", "hevc", "av1"},
                  webm |-> {"vp9", "av1"},
                  mkv  |-> {"h264", "hevc", "av1", "vp9"}]

AudioCodecsOf == [mp4  |-> {"aac"},
                  webm |-> {"opus"},
                  mkv  |-> {"aac", "opus", "flac"}]

compatible(o) ==
  /\ o.container \in DOMAIN VideoCodecsOf
  /\ o.codec \in VideoCodecsOf[o.container]
  /\ o.acodec \in AudioCodecsOf[o.container]

\* The largest CRF, of the codecs that are supported
crfMax == [av1 |-> 63, vp9 |-> 63, h264 |-> 51, hevc |-> 51]

\* Mistake: one scale for all codecs.
crfOneScale(o) == IF o.quality = "crf" THEN o.crf ELSE 63 - ((o.value * 63) \div 100)

\* The public quality, or an explicit CRF
crf(o) == IF o.quality = "crf" THEN o.crf
          ELSE crfMax[o.codec] - ((o.value * crfMax[o.codec]) \div 100)

softwareEncoder == [h264 |-> "libx264", hevc |-> "libx265",
                    vp9 |-> "libvpx-vp9", av1 |-> "libsvtav1"]

audioEncoder == [aac |-> "aac", opus |-> "libopus", flac |-> "flac"]

nvencEncoder == [h264 |-> "h264_nvenc", hevc |-> "hevc_nvenc", av1 |-> "av1_nvenc"]

vaapiEncoder == [h264 |-> "h264_vaapi", hevc |-> "hevc_vaapi",
                 vp9 |-> "vp9_vaapi", av1 |-> "av1_vaapi"]

-----------------------------------------------------------------------------
(* Presets *)

defaultOutput ==
  [container |-> "mp4", codec |-> "h264", encoder |-> "auto",
   quality |-> "auto", value |-> 0, crf |-> 0,
   mode |-> "auto", width |-> 0, height |-> 0, upscale |-> FALSE,
   acodec |-> "aac", kbps |-> 128]

\* The specification a preset stands for; "none" is a request without one.
presetOutput ==
  [none |-> defaultOutput,
   web1080p |-> [defaultOutput EXCEPT !.quality = "quality", !.value = 72,
                   !.mode = "fit", !.width = 1920, !.height = 1080, !.kbps = 160],
   archiveav1 |-> [defaultOutput EXCEPT !.container = "mkv", !.codec = "av1",
                     !.quality = "quality", !.value = 80, !.mode = "source",
                     !.acodec = "opus", !.kbps = 192]]

\* Mistake: a number that is zero is taken for one that is not given.
OverridingNonzero(x) == DOMAIN x

\* Fields of a request that count.  With the quality mode its number counts,
\* also when it is zero; without it no number does.
Overriding(x) ==
  (DOMAIN x \ {"value", "crf"})
    \cup (IF "quality" \notin DOMAIN x THEN {}
          ELSE IF x.quality = "quality" THEN {"value"}
          ELSE IF x.quality = "crf" THEN {"crf"} ELSE {})

merge(b, x) ==
  [f \in DOMAIN b |-> IF f \notin Overriding(x) THEN b[f]
                      ELSE IF f \in DOMAIN x THEN x[f] ELSE 0]

-----------------------------------------------------------------------------
(* Validation *)

QualityValid(o) ==
  \/ o.quality = "auto"
  \/ o.quality = "quality" /\ o.value \in 0 .. 100
  \/ o.quality = "crf" /\ o.crf \in 0 .. crfMax[o.codec]

ResolutionValid(o) ==
  \/ o.mode \in {"auto", "source"}
  \/ o.mode = "fit" /\ o.width \in 2 .. MaxWidth /\ o.height \in 2 .. MaxHeight

EncoderValid(o) ==
  \/ o.encoder \in {"auto", "software", "vaapi"}
  \/ o.encoder = "nvenc" /\ o.codec \in DOMAIN nvencEncoder

\* named: the file name and the declared checksum are well-formed.
InputValid(r) == r.size > 0 /\ r.size <= Capacity /\ r.named

Normalized(r) == merge(presetOutput[r.preset], r.output)

\* normalize returns no error.
Acceptable(r) ==
  /\ InputValid(r)
  /\ r.preset \in DOMAIN presetOutput
  /\ LET o == Normalized(r) IN
       /\ compatible(o) /\ EncoderValid(o)
       /\ o.kbps \in 16 .. 512
       /\ QualityValid(o) /\ ResolutionValid(o)
=============================================================================
