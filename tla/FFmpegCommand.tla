---------------------------- MODULE FFmpegCommand ----------------------------
(***************************************************************************)
(* The pure part of the publisher: which targets share an ffmpeg, which of *)
(* them a URL names, and the command line of an ffmpeg.                    *)
(* Source: src/ws/ffmpeg_worker.go.                                        *)
(*                                                                         *)
(* A URL is a record: base is its scheme, host and path, stream the app    *)
(* and stream of its streamid (or None), auth who filled in the user and   *)
(* the password.  An input is the sequence of its parts between colons,    *)
(* each with the key in front of it: "video", "audio" or "other".  A       *)
(* listing is what ffmpeg prints on its devices, line by line: the two     *)
(* headings "video" and "audio", a quoted "name", or "other".  Names are   *)
(* equal when they differ in case only.                                    *)
(***************************************************************************)
EXTENDS Naturals, Sequences, FiniteSets

CONSTANTS
  None,       \* an empty string
  Contained,  \* pairs of names, the first of which is a part of the second
  Continued   \* pairs of URLs that do not parse: the first goes on with "?" after the second

Elements(s) == {s[i] : i \in DOMAIN s}

\* The first occurrence of everything that is not blank, in order.
UniqueNonEmpty(in) ==
  LET IsNew(n) == in[n] # None /\ \A i \in 1..(n - 1) : in[i] # in[n]
      upTo[n \in 0..Len(in)] ==
        IF n = 0 THEN <<>>
        ELSE IF IsNew(n) THEN Append(upTo[n - 1], in[n]) ELSE upTo[n - 1]
  IN upTo[Len(in)]

IsDShowInput(input) == input # <<>> /\ input[1].key \in {"video", "audio"}

\* Mutant: two targets are no reason to share.
UsesSharedFFmpegForThree(os, input, targets) ==
  Len(targets) > 2 /\ os = "windows" /\ IsDShowInput(input)

\* shouldUseSharedFFmpeg.
UsesSharedFFmpeg(os, input, targets) ==
  Len(targets) > 1 /\ os = "windows" /\ IsDShowInput(input)

SameBase(u, v) == u.base # None /\ u.base = v.base

\* mapKeysInOrder: the elements of s that are in keep, in order.
Filter(s, keep) ==
  LET upTo[n \in 0..Len(s)] ==
        IF n = 0 THEN <<>>
        ELSE IF s[n] \in keep THEN Append(upTo[n - 1], s[n]) ELSE upTo[n - 1]
  IN upTo[Len(s)]

\* Those on the same server and path.  When the URL parses, the prefix test adds none.
OfSameBase(targets, named) ==
  Filter(targets, {t \in Elements(targets) : SameBase(t, named) \/ <<t, named>> \in Continued})

\* Mutant: an equal URL is one of the same base like any other.
ResolveTargetsByBase(targets, named) == OfSameBase(targets, named)

\* The targets a command names: the one with this URL, or else all on the same
\* server and path.
ResolveTargets(targets, named) ==
  IF named \in Elements(targets) THEN <<named>> ELSE OfSameBase(targets, named)

-----------------------------------------------------------------------------
(* Capture devices *)

\* The last part with this key tells the device; a colon ends its name.
Requested(input, key) ==
  LET parts == {i \in DOMAIN input : input[i].key = key}
  IN IF parts = {} THEN None
     ELSE input[CHOOSE i \in parts : \A j \in parts : j <= i].name

\* Mutant: the heading of the audio devices is overlooked.
ParseDShowDevicesOneSection(listing) ==
  LET scan[n \in 0..Len(listing)] ==
        IF n = 0 THEN [section |-> "none", video |-> {}, audio |-> {}]
        ELSE LET before == scan[n - 1]
                 line == listing[n]
             IN IF line.mark = "video"
                THEN [before EXCEPT !.section = "video"]
                ELSE IF line.mark = "name" /\ before.section # "none"
                THEN [before EXCEPT ![before.section] = @ \cup {line.name}]
                ELSE before
  IN scan[Len(listing)]

\* The names under each heading; those before any heading are dropped.
ParseDShowDevices(listing) ==
  LET scan[n \in 0..Len(listing)] ==
        IF n = 0 THEN [section |-> "none", video |-> {}, audio |-> {}]
        ELSE LET before == scan[n - 1]
                 line == listing[n]
             IN IF line.mark \in {"video", "audio"}
                THEN [before EXCEPT !.section = line.mark]
                ELSE IF line.mark = "name" /\ before.section # "none"
                THEN [before EXCEPT ![before.section] = @ \cup {line.name}]
                ELSE before
  IN scan[Len(listing)]

Resembles(a, b) == <<a, b>> \in Contained \/ <<b, a>> \in Contained

\* The device itself, else the only one that resembles it, else what was asked.
ResolveDeviceName(name, devices) ==
  LET near == {d \in devices : Resembles(d, name)}
  IN IF name = None \/ name \in devices \/ Cardinality(near) # 1
     THEN name
     ELSE CHOOSE d \in near : TRUE

\* Both devices of a capture.  A probe that fails lists nothing and leaves the
\* request as it is.
Capture(input, listing) ==
  LET devices == ParseDShowDevices(listing)
  IN [video |-> ResolveDeviceName(Requested(input, "video"), devices.video),
      audio |-> ResolveDeviceName(Requested(input, "audio"), devices.audio)]

-----------------------------------------------------------------------------
(* The command line *)

PortraitSizes == <<<<1080, 1920>>, <<720, 1280>>, <<540, 960>>>>
LandscapeSizes == <<<<1920, 1080>>, <<1280, 720>>, <<960, 540>>>>

\* What is none of the three layouts counts as portrait.
VideoRenditions(layout) ==
  CASE layout = "landscape" -> LandscapeSizes
    [] layout = "both" -> PortraitSizes \o LandscapeSizes
    [] OTHER -> PortraitSizes

NoCapture == [video |-> None, audio |-> None]

\* buildFFmpegCommand, for at least one output.
BuildFFmpegCommand(os, input, layout, outputs, listing) ==
  LET dshow == os = "windows" /\ IsDShowInput(input)
  IN [dshow   |-> dshow,
      loop    |-> ~dshow,
      codec   |-> IF os = "windows" /\ ~dshow THEN "h264_qsv" ELSE "libx264",
      capture |-> IF dshow THEN Capture(input, listing) ELSE NoCapture,
      video   |-> VideoRenditions(layout),
      muxer   |-> IF Len(outputs) = 1 THEN "mpegts" ELSE "tee",
      outputs |-> outputs]
=============================================================================
