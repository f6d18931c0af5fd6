------------------------------ MODULE MCStartup ------------------------------
(***************************************************************************)
(* A finite instance of Startup for TLC.                                   *)
(***************************************************************************)
EXTENDS Startup

Literal == [by |-> "literal", at |-> 0]
Url(base, stream, auth) == [base |-> base, stream |-> stream, auth |-> auth]

\* Two servers, two streams, a URL without a streamid, and one that does not parse,
\* with and without its query.
Main1 == Url("first", "main", Placeholder)
Main2 == Url("second", "main", Placeholder)
Side1 == Url("first", "side", Literal)
Plain == Url("first", None, Literal)
Broken == Url(None, "main", Literal)
Bare == Url(None, None, Literal)
Foreign == Url("first", "other", Literal)
Others == {Foreign, Bare}
Queries == {<<Broken, Bare>>}

Part(key, name) == [key |-> key, name |-> name]
Movie == <<Part("other", "movie")>>
Camera == <<Part("video", "cam")>>
CameraAndMic == <<Part("video", "cam"), Part("audio", "mic")>>
MicAndNothing == <<Part("audio", "mic"), Part("video", None)>>

File(url, url2, api, secret, input, layout) ==
  [workerNames |-> "set", workerId |-> 1, authApiAddr |-> api, appSecret |-> secret,
   publishUrl |-> url, publishUrl2 |-> url2, inputFile |-> input, videoLayout |-> layout]

Files ==
  {None, File(None, Main2, None, None, None, None),
         [File(Main1, None, None, None, Movie, None) EXCEPT !.workerNames = None]}
  \cup {File(u, v, api, secret, input, None) :
          u \in {None, Main1, Side1, Plain, Broken}, v \in {None, Main1, Main2},
          api \in {None, "service"}, secret \in {None, "secret"}, input \in {Movie, Camera}}
  \cup {File(Main1, v, None, "secret", input, layout) :
          v \in {None, Side1}, input \in {CameraAndMic, MicAndNothing, Movie},
          layout \in {None, "landscape", "Both"}}

Variables ==
  {<<>>, [workerId |-> 0], [workerId |-> Unparsable], [publishUrl |-> Main2],
   [appSecret |-> "secret"], [inputFile |-> CameraAndMic],
   [videoLayout |-> "portrait"], [videoLayout |-> "square"]}

Heading(mark) == [mark |-> mark, name |-> None]
Name(name) == [mark |-> "name", name |-> name]

\* Both devices; another camera; another camera that shows up as a microphone
\* only; two cameras like the one asked for; no headings at all.
Devices ==
  {<<Heading("video"), Name("cam"), Heading("audio"), Name("mic")>>,
   <<Heading("video"), Name("cam hd"), Heading("audio"), Name("mic"), Heading("other")>>,
   <<Heading("video"), Heading("audio"), Name("cam hd")>>,
   <<Heading("video"), Name("cam hd"), Name("cam 4k")>>,
   <<Name("cam hd"), Name("mic")>>}

PartOf == {<<"cam", "cam hd">>, <<"cam", "cam 4k">>}
=============================================================================
