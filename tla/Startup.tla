------------------------------- MODULE Startup -------------------------------
(***************************************************************************)
(* From the configuration to the ffmpeg processes: main loads the          *)
(* configuration, resolves the URLs to publish to, announces the first of  *)
(* them to the server and initialises the publisher; from then on ffmpeg   *)
(* processes are launched, while the server pauses and resumes targets and *)
(* devices are plugged in and out.                                         *)
(* Source: src/main.go, src/conf/config.go, src/utils/publish_auth.go,     *)
(* src/ws/ffmpeg_worker.go.                                                *)
(*                                                                         *)
(* Only what a launch asks of ffmpeg is looked at here, with the targets   *)
(* that are not paused at that moment; how launches, pauses and stops      *)
(* overlap is the subject of FFmpegPublisher.                              *)
(***************************************************************************)
EXTENDS FFmpegCommand

CONSTANTS
  ConfigFiles,   \* contents of the configuration file, None: not there or no YAML
  Environments,  \* what the VPUBLISHER_ variables set, by the name of the field
  Unparsable,    \* a variable that should be a number or a flag and is not
  Systems,       \* operating systems
  Listings,      \* what ffmpeg prints on the devices
  OtherURLs,     \* URLs the server sends besides those it could know
  Answers,       \* answers of the authentication service
  MaxClock       \* bound of the seconds that pass while main resolves the URLs

ASSUME StartupAssumption ==
  /\ None \notin OtherURLs /\ None \notin {"landscape", "both", "Both"} /\ Unparsable # None
  /\ Systems \subseteq {"windows", "linux"}
  /\ MaxClock \in Nat

\* A listing is a sequence of lines.
ASSUME ListingAssumption == \A lines \in Listings : lines \in Seq(Elements(lines))

Fields ==
  {"workerNames", "workerId", "authApiAddr", "appSecret",
   "publishUrl", "publishUrl2", "inputFile", "videoLayout"}

Placeholder == [by |-> "placeholder", at |-> 0]

\* All that may take the place of the placeholders of a URL.
AllCredentials ==
  {[by |-> "secret", at |-> n] : n \in 0..MaxClock} \cup {[by |-> "service", at |-> a] : a \in Answers}

\* A field of the configuration is blank or a URL, which does not become blank
\* when its credentials are filled in.
BlankOrURL(u) ==
  \/ u = None
  \/ /\ u = [base |-> u.base, stream |-> u.stream, auth |-> u.auth]
     /\ \A c \in AllCredentials : [u EXCEPT !.auth = c] # None

ASSUME ConfigAssumption ==
  /\ \A c \in ConfigFiles \ {None} :
       c = [f \in Fields |-> c[f]] /\ BlankOrURL(c.publishUrl) /\ BlankOrURL(c.publishUrl2)
  /\ \A e \in Environments : \A f \in DOMAIN e \cap {"publishUrl", "publishUrl2"} :
       e[f] = Unparsable \/ BlankOrURL(e[f])

VARIABLES
  os,         \* runtime.GOOS
  file, env,  \* the file and the environment main finds
  pc,         \* where main is
  failure,    \* why main has ended
  cfg,        \* the configuration, None before it is loaded
  now,        \* seconds since main has begun to resolve
  next,       \* the URL resolvePublishTargets looks at
  targets,    \* targets of resolvePublishTargets, later those of publisherMgr.cfg
  announced,  \* wsPublishURL, sent with every registration
  workers,    \* the targets of each worker of publisherMgr
  paused,     \* publisherMgr.paused
  listing,    \* what ffmpeg would print on the devices now
  command     \* the command each worker has launched last, or None

mainVars == <<os, file, env, failure, cfg, now, next, targets, announced>>
vars == <<mainVars, pc, workers, paused, listing, command>>

Init ==
  /\ os \in Systems /\ file \in ConfigFiles /\ env \in Environments
  /\ pc = "load" /\ failure = "none" /\ cfg = None
  /\ now = 0 /\ next = 1 /\ targets = <<>> /\ announced = None
  /\ workers = <<>> /\ paused = {} /\ command = <<>>
  /\ listing \in Listings

-----------------------------------------------------------------------------
(* The configuration *)

\* A variable counts when it is not blank and, for workerId and publishOnReady,
\* when it can be parsed.
OverrideByEnv(config, variables) ==
  [f \in DOMAIN config |->
     IF f \in DOMAIN variables /\ variables[f] # Unparsable THEN variables[f] ELSE config[f]]

LowerCase(layout) == IF layout = "Both" THEN "both" ELSE layout

Layout(config) == IF config.videoLayout = None THEN "portrait" ELSE LowerCase(config.videoLayout)

\* Mutant: the publish URLs are not looked at.
ValidWithoutURL(config) ==
  /\ config.workerNames # None
  /\ config.workerId > 0
  /\ config.inputFile # None
  /\ Layout(config) \in {"portrait", "landscape", "both"}

\* Validate; workerNames stands for workerType, workerRegion and workerMgrAddr.
Valid(config) ==
  /\ config.workerNames # None
  /\ config.workerId > 0
  /\ config.publishUrl # None \/ config.publishUrl2 # None
  /\ config.inputFile # None
  /\ Layout(config) \in {"portrait", "landscape", "both"}

Exit(why) == pc' = "exited" /\ failure' = why

\* main returns when the file is not there or cannot be parsed, ...
NoConfig ==
  /\ pc = "load"
  /\ file = None
  /\ Exit("config")
  /\ UNCHANGED <<os, file, env, cfg, now, next, targets, announced, workers, paused, listing, command>>

\* ... or what it says, together with the environment, is not valid.
ConfigRejected ==
  /\ pc = "load"
  /\ file # None
  /\ ~Valid(OverrideByEnv(file, env))
  /\ Exit("config")
  /\ UNCHANGED <<os, file, env, cfg, now, next, targets, announced, workers, paused, listing, command>>

\* Load: the environment comes before the validation, which settles the layout.
Load ==
  /\ pc = "load"
  /\ file # None
  /\ LET config == OverrideByEnv(file, env)
     IN /\ Valid(config)
        /\ cfg' = [config EXCEPT !.videoLayout = Layout(config)]
  /\ pc' = "resolve"
  /\ UNCHANGED <<os, file, env, failure, now, next, targets, announced, workers, paused, listing, command>>

-----------------------------------------------------------------------------
(* resolvePublishTargets *)

HasAuth == cfg.authApiAddr # None \/ cfg.appSecret # None

Raw == <<cfg.publishUrl, cfg.publishUrl2>>[next]

\* The credential of the application secret tells the second, that of the
\* service is whatever it answers.
Credentials ==
  IF cfg.appSecret # None THEN {[by |-> "secret", at |-> now]}
  ELSE {[by |-> "service", at |-> a] : a \in Answers}

Resolutions(url) ==
  IF ~HasAuth THEN {url}
  ELSE IF url.stream = None \/ url.base = None THEN {}
  ELSE IF url.auth = Placeholder THEN {[url EXCEPT !.auth = c] : c \in Credentials}
  ELSE {url}

\* Mutant: a stream is seen when its name is.
AddTargetOfStream(seen, target) ==
  IF \E t \in Elements(seen) : t.stream = target.stream THEN seen ELSE Append(seen, target)

AddTarget(seen, target) == IF target \in Elements(seen) THEN seen ELSE Append(seen, target)

SkipBlank ==
  /\ pc = "resolve" /\ next <= 2 /\ Raw = None
  /\ next' = next + 1
  /\ UNCHANGED <<os, file, env, failure, cfg, now, targets, announced, pc, workers, paused, listing, command>>

Resolve ==
  /\ pc = "resolve" /\ next <= 2 /\ Raw # None
  /\ \E r \in Resolutions(Raw) : targets' = AddTarget(targets, r)
  /\ next' = next + 1
  /\ UNCHANGED <<os, file, env, failure, cfg, now, announced, pc, workers, paused, listing, command>>

\* The URL has no streamid or does not parse; or the service, which is asked
\* when there is no secret, fails or answers a blank user or password.
ResolveFails ==
  /\ pc = "resolve" /\ next <= 2 /\ Raw # None
  /\ HasAuth
  /\ Resolutions(Raw) = {} \/ cfg.appSecret = None
  /\ Exit("credential")
  /\ UNCHANGED <<os, file, env, cfg, now, next, targets, announced, workers, paused, listing, command>>

Tick ==
  /\ pc = "resolve" /\ now < MaxClock
  /\ now' = now + 1
  /\ UNCHANGED <<os, file, env, failure, cfg, next, targets, announced, pc, workers, paused, listing, command>>

\* The last test of resolvePublishTargets, and the URL for the registrations.
Announce ==
  /\ pc = "resolve" /\ next > 2
  /\ IF targets = <<>>
     THEN Exit("targets") /\ UNCHANGED announced
     ELSE pc' = "init" /\ announced' = targets[1] /\ UNCHANGED failure
  /\ UNCHANGED <<os, file, env, cfg, now, next, targets, workers, paused, listing, command>>

-----------------------------------------------------------------------------
(* The publisher *)

\* InitFFmpegPublisher on the empty manager: one worker for all targets of a
\* capture, otherwise one for each.
InitFFmpegPublisher ==
  /\ pc = "init"
  /\ LET unique == UniqueNonEmpty(targets)
         shared == UsesSharedFFmpeg(os, cfg.inputFile, unique)
     IN /\ targets' = unique
        /\ workers' = IF shared THEN <<unique>> ELSE [i \in DOMAIN unique |-> <<unique[i]>>]
  /\ command' = [i \in DOMAIN workers' |-> None]
  /\ pc' = "ready"
  /\ UNCHANGED <<os, file, env, failure, cfg, now, next, announced, paused, listing>>

Active(i) == Filter(workers[i], Elements(workers[i]) \ paused)

\* runLoop builds the command anew for every launch.
Launch(i) ==
  /\ pc = "ready"
  /\ Active(i) # <<>>
  /\ command' = [command EXCEPT ![i] =
       BuildFFmpegCommand(os, cfg.inputFile, cfg.videoLayout, Active(i), listing)]
  /\ UNCHANGED <<mainVars, pc, workers, paused, listing>>

\* URLs the server may have from the registration or from the configuration.
NamedURLs == (Elements(targets) \cup {cfg.publishUrl, cfg.publishUrl2} \cup OtherURLs) \ {None}

Down(url) ==
  /\ pc = "ready"
  /\ paused' = paused \cup Elements(ResolveTargets(targets, url))
  /\ UNCHANGED <<mainVars, pc, workers, listing, command>>

Up(url) ==
  /\ pc = "ready"
  /\ paused' = paused \ Elements(ResolveTargets(targets, url))
  /\ UNCHANGED <<mainVars, pc, workers, listing, command>>

\* Devices come and go.
Plug ==
  /\ pc = "ready"
  /\ listing' \in Listings
  /\ UNCHANGED <<mainVars, pc, workers, paused, command>>

Publishing ==
  /\ pc = "ready"
  /\ \/ \E i \in DOMAIN workers : Launch(i)
     \/ \E u \in NamedURLs : Down(u) \/ Up(u)

Exited == pc = "exited" /\ UNCHANGED vars

Next ==
  \/ NoConfig \/ ConfigRejected \/ Load
  \/ SkipBlank \/ Resolve \/ ResolveFails \/ Tick \/ Announce
  \/ InitFFmpegPublisher \/ Publishing \/ Plug
  \/ Exited

Spec == Init /\ [][Next]_vars

-----------------------------------------------------------------------------
(* Properties *)

\* The target is what became of the configured URL.
CameFrom(target, url) ==
  /\ target.base = url.base /\ target.stream = url.stream
  /\ target.auth = url.auth \/ (HasAuth /\ url.auth = Placeholder)
  /\ HasAuth => target.auth # Placeholder

Configured == {cfg.publishUrl, cfg.publishUrl2} \ {None}

\* Every configured URL is sent by a worker, no target by two or twice by one,
\* and a capture device is opened by one ffmpeg only (README.md:91,
\* ffmpeg_worker.go:994).  The same URL in both fields is one target, unless its
\* credential has changed between the two (main.go:99).
EveryStreamIsSentOnce ==
  pc = "ready" =>
    /\ \A url \in Configured :
         \E i \in DOMAIN workers : \E t \in Elements(workers[i]) : CameFrom(t, url)
    /\ \A i \in DOMAIN workers :
         /\ Cardinality(Elements(workers[i])) = Len(workers[i])
         /\ \A j \in DOMAIN workers \ {i} : Elements(workers[i]) \cap Elements(workers[j]) = {}
    /\ os = "windows" /\ IsDShowInput(cfg.inputFile) => Len(workers) = 1
    /\ (cfg.publishUrl = cfg.publishUrl2 /\ now = 0 /\ (HasAuth => cfg.appSecret # None))
         => Len(targets) = 1

\* Once the configuration is accepted, only the credentials can keep main from
\* publishing: there are targets, an input and outputs for every worker
\* (main.go:106, ffmpeg_worker.go:160, 779).
OnlyCredentialsFailLate ==
  /\ failure # "targets"
  /\ failure = "credential" => HasAuth
  /\ pc \in {"init", "ready"} => targets # <<>> /\ cfg.inputFile # None
  /\ pc = "ready" => workers # <<>> /\ \A i \in DOMAIN workers : workers[i] # <<>>

\* The announced URL names its target and no other, and a URL as it stands in
\* the configuration, with its placeholders, still names what became of it
\* (ffmpeg_worker.go:367-398).
EveryUrlNamesItsStream ==
  pc = "ready" =>
    /\ ResolveTargets(targets, announced) = <<announced>>
    /\ \A url \in Configured : \E t \in Elements(ResolveTargets(targets, url)) : CameFrom(t, url)

\* The last word on a field: the environment, if it says something.
Asked(f) == IF f \in DOMAIN env /\ env[f] # Unparsable THEN env[f] ELSE file[f]

\* The names that stand under a heading with no other heading in between.
Listed(lines, key) ==
  {lines[n].name : n \in {m \in DOMAIN lines : lines[m].mark = "name" /\
     \E h \in 1..m : /\ lines[h].mark = key
                     /\ \A k \in h..m : lines[k].mark \in {"video", "audio"} => k = h}}

\* A device that is not the one asked for is the only one of its kind that
\* resembles it, while the one asked for is not there.
FitsRequest(opened, asked, devices) ==
  \/ opened = asked
  \/ /\ asked \notin devices /\ opened \in devices
     /\ {d \in devices : Resembles(d, asked)} = {opened}

\* The command c of worker i does what the configuration asks.
AsConfigured(c, i) ==
  LET wide == {n \in DOMAIN c.video : c.video[n][1] > c.video[n][2]}
      layout == Asked("videoLayout")
  IN /\ c.outputs # <<>>
     /\ Elements(c.outputs) \subseteq Elements(workers[i])
     /\ (wide # {}) = (layout \in {"landscape", "both", "Both"})
     /\ (wide = DOMAIN c.video) = (layout = "landscape")
     /\ c.dshow => \A key \in {"video", "audio"} :
          LET asked == Requested(Asked("inputFile"), key)
          IN IF asked = None THEN c.capture[key] = None
             ELSE FitsRequest(c.capture[key], asked, Listed(listing, key))

\* Every launch does what the configuration asks: it sends to targets of its
\* worker, in the sizes of the layout (README.md:83), and captures the devices
\* that were asked for and are there, a camera never being taken for a
\* microphone (ffmpeg_worker.go:898-983).
LaunchesAsConfigured ==
  [][\A i \in DOMAIN command : command'[i] # command[i] => AsConfigured(command'[i], i)]_vars
=============================================================================
