--------------------------- MODULE ReconnectClient ---------------------------
(***************************************************************************)
(* The websocket client: WebsocketClientThread, which makes the first      *)
(* connection, the read and heartbeat loops of a session, the one          *)
(* reconnectLoop, and the shutdown that main drives through                *)
(* CloseWebsocketMainThread.  Source: src/ws/ws_client.go.                 *)
(*                                                                         *)
(* A session is what startSessionLoops creates: a stopCh and the two loops *)
(* started with it.  Loops do not remember their stopCh: they read the     *)
(* field c.stopCh, and c.conn, whatever session these belong to by then.   *)
(* Identities of sessions and connections that nothing refers to any more  *)
(* are reused.                                                             *)
(***************************************************************************)
EXTENDS FiniteSets, Naturals

CONSTANTS
  Sessions,       \* identities of sessions; bounds the loops alive at once
  Conns,          \* identities of connections
  None,           \* c.conn is nil
  HandlerPanics,  \* TRUE: a command handler may panic (a double close in a stop)
  MayShutDown     \* TRUE: SIGINT or SIGTERM may arrive

ASSUME ClientAssumption ==
  /\ None \notin Conns
  /\ HandlerPanics \in BOOLEAN /\ MayShutDown \in BOOLEAN

VARIABLES
  conn,       \* c.conn
  link,       \* state of a connection: "closed" by the client, "broken" elsewhere, "open"
  stopCh,     \* c.stopCh
  closedStop, \* the sessions whose stopCh is closed
  triggered,  \* c.triggerOnce has run
  signal,     \* a token is in c.reconnectCh
  reconnect,  \* c.reconnect
  done,       \* c.doneCh is closed
  readPc,     \* readLoop of a session
  readConn,   \* the connection it reads from
  beatPc,     \* heartbeatLoop of a session
  beatConn,   \* the connection it writes to
  beatStop,   \* the stopCh its select waits on
  rcPc,       \* reconnectLoop
  threadPc,   \* WebsocketClientThread
  registered, \* the client is in mapWsClient
  wg,         \* c.wg
  mainPc,     \* main(): "serving", then CloseWebsocketMainThread
  interrupted \* a signal waits in the channel of WebsocketClientThread

connVars == <<conn, link>>
flagVars == <<triggered, signal>>
readVars == <<readPc, readConn>>
beatVars == <<beatPc, beatConn, beatStop>>
doneVars == <<reconnect, done>>
regVars  == <<registered, wg>>
mainVars == <<mainPc, interrupted>>
vars == <<conn, link, stopCh, closedStop, triggered, signal, reconnect, done, readPc, readConn,
          beatPc, beatConn, beatStop, rcPc, threadPc, registered, wg, mainPc, interrupted>>

ReadPcs   == {"off", "select", "conn", "read", "handle", "trigger"}
BeatPcs   == {"off", "send", "write", "arm", "wait", "trigger"}
RcPcs     == {"head", "wait", "teardown", "drop", "retry", "dial", "start", "off"}
ThreadPcs == {"notify", "dial", "start", "register", "add", "serve", "exit", "off"}

Init ==
  /\ conn = None
  /\ link = [k \in Conns |-> "closed"]
  /\ stopCh \in Sessions
  /\ closedStop = {}
  /\ triggered = FALSE
  /\ signal = FALSE
  /\ reconnect = TRUE
  /\ done = FALSE
  /\ readPc = [s \in Sessions |-> "off"]
  /\ readConn = [s \in Sessions |-> None]
  /\ beatPc = [s \in Sessions |-> "off"]
  /\ beatConn = [s \in Sessions |-> None]
  /\ beatStop = [s \in Sessions |-> None]
  /\ rcPc = "off"
  /\ threadPc = "notify"
  /\ registered = FALSE
  /\ wg = 0
  /\ mainPc = "serving"
  /\ interrupted = FALSE

-----------------------------------------------------------------------------
(* connect, triggerReconnect, startSessionLoops: the methods the goroutines  *)
(* share                                                                     *)

\* Dial succeeds with a connection nothing else refers to, and c.conn is set.
DialSucceeds ==
  \E k \in Conns :
    /\ link[k] = "closed"
    /\ k # conn
    /\ \A s \in Sessions : readConn[s] # k /\ beatConn[s] # k
    /\ conn' = k
    /\ link' = [link EXCEPT ![k] = "open"]

CloseConn == link' = IF conn = None THEN link ELSE [link EXCEPT ![conn] = "closed"]

\* The first caller since triggerOnce was reset closes the connection of the
\* moment and leaves a token; the others do nothing.
TriggerReconnect ==
  IF triggered
  THEN UNCHANGED <<link, triggered, signal>>
  ELSE /\ triggered' = TRUE
       /\ CloseConn
       /\ signal' = TRUE

\* Mutant: triggerOnce is not reset.
StartSessionLoopsOnce ==
  \E s \in Sessions :
    /\ s # stopCh
    /\ readPc[s] = "off" /\ beatPc[s] = "off"
    /\ \A t \in Sessions : beatStop[t] # s
    /\ stopCh' = s
    /\ closedStop' = closedStop \ {s}
    /\ UNCHANGED triggered
    /\ readPc' = [readPc EXCEPT ![s] = "select"]
    /\ beatPc' = [beatPc EXCEPT ![s] = "send"]

\* Mutant: the stopCh of the session before is kept.
StartSessionLoopsOldStop ==
  \E s \in Sessions :
    /\ readPc[s] = "off" /\ beatPc[s] = "off"
    /\ UNCHANGED <<stopCh, closedStop>>
    /\ triggered' = FALSE
    /\ readPc' = [readPc EXCEPT ![s] = "select"]
    /\ beatPc' = [beatPc EXCEPT ![s] = "send"]

\* A new stopCh, a new triggerOnce, two new goroutines.
StartSessionLoops ==
  \E s \in Sessions :
    /\ s # stopCh
    /\ readPc[s] = "off" /\ beatPc[s] = "off"
    /\ \A t \in Sessions : beatStop[t] # s
    /\ stopCh' = s
    /\ closedStop' = closedStop \ {s}
    /\ triggered' = FALSE
    /\ readPc' = [readPc EXCEPT ![s] = "select"]
    /\ beatPc' = [beatPc EXCEPT ![s] = "send"]

-----------------------------------------------------------------------------
(* readLoop *)

ReadGoto(s, pc) == readPc' = [readPc EXCEPT ![s] = pc]

\* The non-blocking look at stopCh and doneCh.
ReadSelect(s) ==
  /\ readPc[s] = "select"
  /\ ReadGoto(s, IF stopCh \in closedStop \/ done THEN "off" ELSE "conn")
  /\ UNCHANGED <<connVars, stopCh, closedStop, flagVars, doneVars, readConn, beatVars, rcPc,
                 threadPc, regVars, mainVars>>

\* Mutant: the nil test is forgotten.
ReadTakesAnyConn(s) ==
  /\ readPc[s] = "conn"
  /\ ReadGoto(s, "read")
  /\ readConn' = [readConn EXCEPT ![s] = conn]
  /\ UNCHANGED <<connVars, stopCh, closedStop, flagVars, doneVars, beatVars, rcPc, threadPc,
                 regVars, mainVars>>

\* The connection of the moment, under connMu.
ReadTakesConn(s) ==
  /\ readPc[s] = "conn"
  /\ ReadGoto(s, IF conn = None THEN "trigger" ELSE "read")
  /\ readConn' = [readConn EXCEPT ![s] = conn]
  /\ UNCHANGED <<connVars, stopCh, closedStop, flagVars, doneVars, beatVars, rcPc, threadPc,
                 regVars, mainVars>>

\* Mutant: the loop returns on a message it should skip.
ReadMessageOrReturn(s) ==
  /\ readPc[s] = "read"
  /\ link[readConn[s]] = "open"
  /\ \E pc \in {"handle", "off"} : ReadGoto(s, pc)
  /\ readConn' = [readConn EXCEPT ![s] = None]
  /\ UNCHANGED <<connVars, stopCh, closedStop, flagVars, doneVars, beatVars, rcPc, threadPc,
                 regVars, mainVars>>

\* ReadMessage returns a command, or a message the loop skips ...
ReadMessage(s) ==
  /\ readPc[s] = "read"
  /\ link[readConn[s]] = "open"
  /\ \E pc \in {"handle", "select"} : ReadGoto(s, pc)
  /\ readConn' = [readConn EXCEPT ![s] = None]
  /\ UNCHANGED <<connVars, stopCh, closedStop, flagVars, doneVars, beatVars, rcPc, threadPc,
                 regVars, mainVars>>

\* ... or an error.
ReadFails(s) ==
  /\ readPc[s] = "read"
  /\ link[readConn[s]] # "open"
  /\ ReadGoto(s, "trigger")
  /\ readConn' = [readConn EXCEPT ![s] = None]
  /\ UNCHANGED <<connVars, stopCh, closedStop, flagVars, doneVars, beatVars, rcPc, threadPc,
                 regVars, mainVars>>

\* handleNodeMsgReq returns; whether the answer could be sent changes nothing.
HandlerReturns(s) ==
  /\ readPc[s] = "handle"
  /\ ReadGoto(s, "select")
  /\ UNCHANGED <<connVars, stopCh, closedStop, flagVars, doneVars, readConn, beatVars, rcPc,
                 threadPc, regVars, mainVars>>

\* TryException recovers a panic of the handler: the loop is gone, and it has
\* not asked for a reconnect.
HandlerPanic(s) ==
  /\ HandlerPanics
  /\ readPc[s] = "handle"
  /\ ReadGoto(s, "off")
  /\ UNCHANGED <<connVars, stopCh, closedStop, flagVars, doneVars, readConn, beatVars, rcPc,
                 threadPc, regVars, mainVars>>

ReadTriggers(s) ==
  /\ readPc[s] = "trigger"
  /\ TriggerReconnect
  /\ ReadGoto(s, "off")
  /\ UNCHANGED <<conn, stopCh, closedStop, doneVars, readConn, beatVars, rcPc, threadPc,
                 regVars, mainVars>>

ReadStep(s) ==
  \/ ReadSelect(s) \/ ReadTakesConn(s) \/ ReadMessage(s) \/ ReadFails(s)
  \/ HandlerReturns(s) \/ HandlerPanic(s) \/ ReadTriggers(s)

\* What does not depend on a message of the server.
ReadProgress(s) ==
  ReadSelect(s) \/ ReadTakesConn(s) \/ ReadFails(s) \/ HandlerReturns(s) \/ ReadTriggers(s)

-----------------------------------------------------------------------------
(* heartbeatLoop *)

BeatGoto(s, pc) == beatPc' = [beatPc EXCEPT ![s] = pc]

\* sendWorkerIndication takes the connection of the moment; nil is an error.
BeatTakesConn(s) ==
  /\ beatPc[s] = "send"
  /\ BeatGoto(s, IF conn = None THEN "trigger" ELSE "write")
  /\ beatConn' = [beatConn EXCEPT ![s] = conn]
  /\ UNCHANGED <<connVars, stopCh, closedStop, flagVars, doneVars, readVars, beatStop, rcPc,
                 threadPc, regVars, mainVars>>

\* A write to a connection that is broken elsewhere may still succeed.
BeatSucceeds(s) ==
  /\ beatPc[s] = "write"
  /\ link[beatConn[s]] # "closed"
  /\ BeatGoto(s, "arm")
  /\ beatConn' = [beatConn EXCEPT ![s] = None]
  /\ UNCHANGED <<connVars, stopCh, closedStop, flagVars, doneVars, readVars, beatStop, rcPc,
                 threadPc, regVars, mainVars>>

BeatFails(s) ==
  /\ beatPc[s] = "write"
  /\ link[beatConn[s]] # "open"
  /\ BeatGoto(s, "trigger")
  /\ beatConn' = [beatConn EXCEPT ![s] = None]
  /\ UNCHANGED <<connVars, stopCh, closedStop, flagVars, doneVars, readVars, beatStop, rcPc,
                 threadPc, regVars, mainVars>>

\* The select evaluates c.stopCh once and then blocks.
BeatArms(s) ==
  /\ beatPc[s] = "arm"
  /\ BeatGoto(s, "wait")
  /\ beatStop' = [beatStop EXCEPT ![s] = stopCh]
  /\ UNCHANGED <<connVars, stopCh, closedStop, flagVars, doneVars, readVars, beatConn, rcPc,
                 threadPc, regVars, mainVars>>

BeatWakes(s, pc) ==
  /\ beatPc[s] = "wait"
  /\ BeatGoto(s, pc)
  /\ beatStop' = [beatStop EXCEPT ![s] = None]
  /\ UNCHANGED <<connVars, stopCh, closedStop, flagVars, doneVars, readVars, beatConn, rcPc,
                 threadPc, regVars, mainVars>>

BeatStops(s) == (beatStop[s] \in closedStop \/ done) /\ BeatWakes(s, "off")

\* The 60 s ticker.
BeatTicks(s) == BeatWakes(s, "send")

BeatTriggers(s) ==
  /\ beatPc[s] = "trigger"
  /\ TriggerReconnect
  /\ BeatGoto(s, "off")
  /\ UNCHANGED <<conn, stopCh, closedStop, doneVars, readVars, beatConn, beatStop, rcPc,
                 threadPc, regVars, mainVars>>

BeatStep(s) ==
  \/ BeatTakesConn(s) \/ BeatSucceeds(s) \/ BeatFails(s) \/ BeatArms(s)
  \/ BeatStops(s) \/ BeatTicks(s) \/ BeatTriggers(s)

-----------------------------------------------------------------------------
(* reconnectLoop *)

RcHead ==
  /\ rcPc = "head"
  /\ rcPc' = IF reconnect THEN "wait" ELSE "off"
  /\ UNCHANGED <<connVars, stopCh, closedStop, flagVars, doneVars, readVars, beatVars, threadPc,
                 regVars, mainVars>>

RcSignalled ==
  /\ rcPc = "wait"
  /\ signal
  /\ signal' = FALSE
  /\ rcPc' = IF reconnect THEN "teardown" ELSE "off"
  /\ UNCHANGED <<connVars, stopCh, closedStop, triggered, doneVars, readVars, beatVars, threadPc,
                 regVars, mainVars>>

RcDone ==
  /\ rcPc = "wait"
  /\ done
  /\ rcPc' = "off"
  /\ UNCHANGED <<connVars, stopCh, closedStop, flagVars, doneVars, readVars, beatVars, threadPc,
                 regVars, mainVars>>

\* close(c.stopCh)
RcTeardown ==
  /\ rcPc = "teardown"
  /\ closedStop' = closedStop \cup {stopCh}
  /\ rcPc' = "drop"
  /\ UNCHANGED <<connVars, stopCh, flagVars, doneVars, readVars, beatVars, threadPc, regVars,
                 mainVars>>

RcDrop ==
  /\ rcPc = "drop"
  /\ CloseConn
  /\ conn' = None
  /\ rcPc' = "retry"
  /\ UNCHANGED <<stopCh, closedStop, flagVars, doneVars, readVars, beatVars, threadPc, regVars,
                 mainVars>>

\* The test of reconnect, the sleep, and the look at doneCh after it.
RcRetry ==
  /\ rcPc = "retry"
  /\ rcPc' = IF ~reconnect THEN "head" ELSE IF done THEN "off" ELSE "dial"
  /\ UNCHANGED <<connVars, stopCh, closedStop, flagVars, doneVars, readVars, beatVars, threadPc,
                 regVars, mainVars>>

RcDialSucceeds ==
  /\ rcPc = "dial"
  /\ DialSucceeds
  /\ rcPc' = "start"
  /\ UNCHANGED <<stopCh, closedStop, flagVars, doneVars, readVars, beatVars, threadPc, regVars,
                 mainVars>>

RcDialFails ==
  /\ rcPc = "dial"
  /\ rcPc' = "retry"
  /\ UNCHANGED <<connVars, stopCh, closedStop, flagVars, doneVars, readVars, beatVars, threadPc,
                 regVars, mainVars>>

\* Mutant: the retry loop goes on after a success.
RcStartsWithoutBreak ==
  /\ rcPc = "start"
  /\ StartSessionLoops
  /\ rcPc' = "retry"
  /\ UNCHANGED <<connVars, signal, doneVars, readConn, beatConn, beatStop, threadPc, regVars,
                 mainVars>>

RcStarts ==
  /\ rcPc = "start"
  /\ StartSessionLoops
  /\ rcPc' = "head"
  /\ UNCHANGED <<connVars, signal, doneVars, readConn, beatConn, beatStop, threadPc, regVars,
                 mainVars>>

RcStep ==
  \/ RcHead \/ RcSignalled \/ RcDone \/ RcTeardown \/ RcDrop \/ RcRetry
  \/ RcDialSucceeds \/ RcDialFails \/ RcStarts

-----------------------------------------------------------------------------
(* WebsocketClientThread                                                    *)

\* signal.Notify on the thread's own channel, and the "go c.reconnectLoop()" that
\* Start begins with
ThreadNotifies ==
  /\ threadPc = "notify"
  /\ threadPc' = "dial"
  /\ rcPc' = "head"
  /\ UNCHANGED <<connVars, stopCh, closedStop, flagVars, doneVars, readVars, beatVars, regVars,
                 mainVars>>

ThreadDialSucceeds ==
  /\ threadPc = "dial"
  /\ DialSucceeds
  /\ threadPc' = "start"
  /\ UNCHANGED <<stopCh, closedStop, flagVars, doneVars, readVars, beatVars, rcPc, regVars,
                 mainVars>>

ThreadDialFails ==
  /\ threadPc = "dial"
  /\ TriggerReconnect
  /\ threadPc' = "register"
  /\ UNCHANGED <<conn, stopCh, closedStop, doneVars, readVars, beatVars, rcPc, regVars, mainVars>>

ThreadStarts ==
  /\ threadPc = "start"
  /\ StartSessionLoops
  /\ threadPc' = "register"
  /\ UNCHANGED <<connVars, signal, doneVars, readConn, beatConn, beatStop, rcPc, regVars, mainVars>>

\* mapWsClient[nodeMgrAddr] = wc
ThreadRegisters ==
  /\ threadPc = "register"
  /\ registered' = TRUE
  /\ threadPc' = "add"
  /\ UNCHANGED <<connVars, stopCh, closedStop, flagVars, doneVars, readVars, beatVars, rcPc, wg,
                 mainVars>>

\* wc.wg.Add(1), after the client can be found
ThreadAdds ==
  /\ threadPc = "add"
  /\ wg' = 1
  /\ threadPc' = "serve"
  /\ UNCHANGED <<connVars, stopCh, closedStop, flagVars, doneVars, readVars, beatVars, rcPc,
                 registered, mainVars>>

\* doneCh is closed; nobody reads the channel of the signals after that.
ThreadDone ==
  /\ threadPc = "serve"
  /\ done
  /\ CloseConn
  /\ threadPc' = "exit"
  /\ interrupted' = FALSE
  /\ UNCHANGED <<conn, stopCh, closedStop, flagVars, doneVars, readVars, beatVars, rcPc, regVars,
                 mainPc>>

ThreadInterrupted ==
  /\ threadPc = "serve"
  /\ interrupted
  /\ interrupted' = FALSE
  /\ threadPc' = "exit"
  /\ UNCHANGED <<connVars, stopCh, closedStop, flagVars, doneVars, readVars, beatVars, rcPc,
                 regVars, mainPc>>

\* Mutant: wg.Done is missing.
ThreadExitsSilently ==
  /\ threadPc = "exit"
  /\ reconnect' = FALSE
  /\ threadPc' = "off"
  /\ UNCHANGED <<connVars, stopCh, closedStop, flagVars, done, readVars, beatVars, rcPc,
                 regVars, mainVars>>

ThreadExits ==
  /\ threadPc = "exit"
  /\ reconnect' = FALSE
  /\ wg' = 0
  /\ threadPc' = "off"
  /\ UNCHANGED <<connVars, stopCh, closedStop, flagVars, done, readVars, beatVars, rcPc,
                 registered, mainVars>>

ThreadStep ==
  \/ ThreadNotifies \/ ThreadDialSucceeds \/ ThreadDialFails \/ ThreadStarts
  \/ ThreadRegisters \/ ThreadAdds \/ ThreadDone \/ ThreadInterrupted \/ ThreadExits

-----------------------------------------------------------------------------
(* main(): up to its signal.Notify and the wait for a signal ("serving"),     *)
(* StopFFmpegPublisher, CloseWebsocketMainThread, exit                       *)

\* The process ends, with its goroutines and its connections.
ProgramEnds ==
  /\ mainPc' = "exited"
  /\ threadPc' = "off" /\ rcPc' = "off"
  /\ readPc' = [s \in Sessions |-> "off"] /\ readConn' = [s \in Sessions |-> None]
  /\ beatPc' = [s \in Sessions |-> "off"] /\ beatConn' = [s \in Sessions |-> None]
  /\ beatStop' = [s \in Sessions |-> None]
  /\ conn' = None /\ link' = [k \in Conns |-> "closed"]
  /\ closedStop' = {} /\ signal' = FALSE /\ triggered' = FALSE
  /\ interrupted' = FALSE
  /\ UNCHANGED <<stopCh, doneVars, regVars>>

\* Neither main nor the thread has called signal.Notify: the default action.
SignalKills ==
  /\ mainPc = "serving" /\ threadPc = "notify"
  /\ ProgramEnds

\* Every channel registered by then gets the signal, if it has room; who has left its
\* select reads it no more.  Main stops if its signal.Notify, which no other goroutine can see, came
\* first; so whether it did is decided here.
SignalDelivered ==
  /\ mainPc = "serving" \/ ~interrupted
  /\ interrupted' = (threadPc \notin {"notify", "exit", "off"})
  /\ \/ mainPc = "serving" /\ mainPc' = "stopping"
     \/ (mainPc # "serving" \/ threadPc # "notify") /\ UNCHANGED mainPc
  /\ UNCHANGED <<connVars, stopCh, closedStop, flagVars, doneVars, readVars, beatVars, rcPc,
                 threadPc, regVars>>

Signalled == MayShutDown /\ (SignalKills \/ SignalDelivered)

\* The snapshot of mapWsClient and closeWsClient.
MainCloses ==
  /\ mainPc = "stopping"
  /\ registered
  /\ reconnect' = FALSE
  /\ done' = TRUE
  /\ mainPc' = "waiting"
  /\ UNCHANGED <<connVars, stopCh, closedStop, flagVars, readVars, beatVars, rcPc, threadPc,
                 regVars, interrupted>>

\* Nothing to close, or nothing left of it (wc.wg.Wait()).
MainExits ==
  /\ \/ mainPc = "stopping" /\ ~registered
     \/ mainPc = "waiting" /\ wg = 0
  /\ ProgramEnds

MainStep == MainCloses \/ MainExits

\* The network or the peer breaks a connection.
LinkBreaks(k) ==
  /\ link[k] = "open"
  /\ link' = [link EXCEPT ![k] = "broken"]
  /\ UNCHANGED <<conn, stopCh, closedStop, flagVars, doneVars, readVars, beatVars, rcPc, threadPc,
                 regVars, mainVars>>

Terminated == mainPc = "exited" /\ UNCHANGED vars

Next ==
  \/ /\ mainPc # "exited"
     /\ \/ \E s \in Sessions : ReadStep(s) \/ BeatStep(s)
        \/ RcStep \/ ThreadStep \/ Signalled \/ MainStep
        \/ \E k \in Conns : LinkBreaks(k)
  \/ Terminated

Spec == Init /\ [][Next]_vars

\* Ready goroutines run, the ticker ticks, handlers return, and writes to a
\* broken connection do not succeed for ever.  The server is reachable again
\* and again: a dial that is retried without end succeeds.
Fairness ==
  /\ \A s \in Sessions :
       WF_vars(ReadProgress(s)) /\ WF_vars(BeatStep(s)) /\ SF_vars(BeatFails(s))
  /\ WF_vars(RcStep) /\ SF_vars(RcDialSucceeds)
  /\ WF_vars(ThreadStep) /\ WF_vars(MainStep)

FairSpec == Spec /\ Fairness

\* A select between a closed stopCh and the ticker, which picks at random, does
\* not pick the ticker for ever.
FairSelectSpec == FairSpec /\ \A s \in Sessions : SF_vars(BeatStops(s))

\* The shutdown depends on two goroutines only: one of them runs while one can.
ShutdownSpec == Spec /\ WF_vars(ThreadStep \/ MainStep)

-----------------------------------------------------------------------------
(* Properties *)

\* Every variable keeps to its type, and a read or write has a connection.
ClientTypeOK ==
  /\ conn \in Conns \cup {None}
  /\ link \in [Conns -> {"closed", "broken", "open"}]
  /\ stopCh \in Sessions
  /\ closedStop \subseteq Sessions
  /\ triggered \in BOOLEAN /\ signal \in BOOLEAN
  /\ reconnect \in BOOLEAN /\ done \in BOOLEAN
  /\ readPc \in [Sessions -> ReadPcs] /\ readConn \in [Sessions -> Conns \cup {None}]
  /\ beatPc \in [Sessions -> BeatPcs] /\ beatConn \in [Sessions -> Conns \cup {None}]
  /\ beatStop \in [Sessions -> Sessions \cup {None}]
  /\ rcPc \in RcPcs /\ threadPc \in ThreadPcs
  /\ registered \in BOOLEAN /\ wg \in {0, 1}
  /\ mainPc \in {"serving", "stopping", "waiting", "exited"} /\ interrupted \in BOOLEAN
  /\ \A s \in Sessions : /\ readPc[s] = "read" => readConn[s] # None
                         /\ beatPc[s] = "write" => beatConn[s] # None

\* However many reconnects there are, the only connection the client has not
\* closed is c.conn: none is forgotten (ws_client.go:242, 451).
NoConnForgotten == \A k \in Conns : link[k] # "closed" => k = conn

\* reconnectLoop never closes a stopCh twice: the panic would end it, and the
\* client would never connect again (ws_client.go:447).
StopChClosedOnce == rcPc = "teardown" => stopCh \notin closedStop

\* No lost wake-up: while reconnectLoop waits, a token is there or a loop is
\* alive that will leave one when it fails (ws_client.go:253, 262, 272), even
\* after a handler's panic.
WakeUpIsPossible ==
  rcPc = "wait" /\ threadPc \in {"register", "add", "serve"} /\ ~done =>
    \/ signal
    \/ ~triggered /\ \E s \in Sessions : readPc[s] # "off" \/ beatPc[s] # "off"

Connected == conn # None /\ link[conn] = "open"

\* A signal has ended the program, or its websocket thread only.
Ended == interrupted \/ threadPc \in {"exit", "off"} \/ mainPc # "serving"

\* A client is connected again and again, however often the connection breaks,
\* unless a signal ends the program or its websocket thread.
Reconnects == []<>(Connected \/ Ended)

\* A client that stays connected reads commands again and again, as long as no
\* handler panics.
Reading == \E s \in Sessions : readPc[s] = "read"
Listens == []<>(~Connected \/ Reading \/ Ended)

\* A signal that finds main listening ends the program, also when an earlier one
\* has ended the websocket thread already (main.go:71, ws_client.go:94, 127): main is
\* not for ever between the two.
ShutdownCompletes == []<>(mainPc \in {"serving", "exited"})

\* A connection has one read loop (ws_client.go:87: one pair of loops for each
\* connection cycle).
OneReaderPerConn ==
  \A s, t \in Sessions :
    readPc[s] = "read" /\ readPc[t] = "read" /\ readConn[s] = readConn[t] => s = t
=============================================================================
