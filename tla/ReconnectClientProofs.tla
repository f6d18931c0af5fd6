----------------------- MODULE ReconnectClientProofs -----------------------
(***************************************************************************)
(* Proofs about ReconnectClient, for any sets of sessions and connections, *)
(* with and without panicking handlers and a shutdown.                     *)
(*                                                                         *)
(* reconnectLoop and WebsocketClientThread both dial, and loops of several *)
(* sessions share one stopCh field, one triggerOnce and one c.conn.  The   *)
(* invariant says why they do not get into each other's way: until the     *)
(* thread has started the first loops nothing can trigger a reconnect, so  *)
(* there is one dialler at a time; it dials only when c.conn is nil; and   *)
(* of all the loops alive the heartbeat of the current session is the one  *)
(* that is sure to be there while reconnectLoop waits for a token.         *)
(***************************************************************************)
EXTENDS ReconnectClient, TLAPS

\* Before the first session nothing runs that could ask for a reconnect, and main
\* cannot find the client to close it.
BeforeLoops ==
  /\ threadPc \in {"notify", "dial", "start", "register"} => ~registered /\ reconnect /\ ~done
  /\ threadPc \in {"notify", "dial", "start"} =>
       /\ rcPc \in IF threadPc = "notify" THEN {"off"} ELSE {"head", "wait"}
       /\ ~signal /\ ~triggered /\ closedStop = {}
       /\ \A s \in Sessions : readPc[s] = "off" /\ beatPc[s] = "off"

\* Whoever dials does it without a connection.
DialsFromNil == threadPc \in {"notify", "dial"} \/ rcPc \in {"retry", "dial"} => conn = None

\* A closed stopCh is on its way to be replaced, or reconnectLoop ends.
StopChOpen ==
  stopCh \in closedStop =>
    \/ rcPc \in {"drop", "retry", "dial", "start", "off"}
    \/ rcPc = "head" /\ ~reconnect

\* reconnectLoop waits for a token, or is about to.
WillWait == rcPc = "wait" \/ (rcPc = "head" /\ reconnect)

\* The heartbeat of the current session waits on the current stopCh, and it is there
\* while reconnectLoop waits with no token left: that loop ends only when it triggers.
HeartbeatWatches ==
  /\ beatPc[stopCh] = "wait" => beatStop[stopCh] = stopCh
  /\ WillWait /\ threadPc \in {"register", "add", "serve"} /\ ~done /\ ~signal =>
       ~triggered /\ beatPc[stopCh] # "off"

\* The inductive invariant.
ClientInv ==
  /\ ClientTypeOK
  /\ NoConnForgotten
  /\ BeforeLoops
  /\ DialsFromNil
  /\ StopChOpen
  /\ HeartbeatWatches

\* The initial states satisfy it.
LEMMA InitClient == Init => ClientInv
<1> SUFFICES ASSUME Init
             PROVE  ClientInv
  OBVIOUS
<1> USE ClientAssumption DEF Init
<1>1. ClientTypeOK
  BY DEF ClientTypeOK, ReadPcs, BeatPcs, RcPcs, ThreadPcs
<1>2. NoConnForgotten /\ BeforeLoops /\ DialsFromNil
  BY DEF NoConnForgotten, BeforeLoops, DialsFromNil
<1>3. StopChOpen /\ HeartbeatWatches
  BY DEF StopChOpen, HeartbeatWatches
<1> QED
  BY <1>1, <1>2, <1>3 DEF ClientInv

\* Every step keeps it.
LEMMA StepClient ==
  ASSUME ClientInv, [Next]_vars
  PROVE  ClientInv'
<1> USE ClientAssumption DEF ClientInv, ClientTypeOK, NoConnForgotten, BeforeLoops, DialsFromNil,
      StopChOpen, HeartbeatWatches, WillWait, ReadPcs, BeatPcs, RcPcs, ThreadPcs,
      connVars, flagVars, readVars, beatVars, doneVars, regVars, mainVars
<1>1. ASSUME NEW s \in Sessions, ReadSelect(s)
      PROVE  ClientInv'
  BY <1>1 DEF ReadSelect, ReadGoto
<1>2. ASSUME NEW s \in Sessions, ReadTakesConn(s)
      PROVE  ClientInv'
  BY <1>2 DEF ReadTakesConn, ReadGoto
<1>3. ASSUME NEW s \in Sessions, ReadMessage(s)
      PROVE  ClientInv'
  BY <1>3 DEF ReadMessage, ReadGoto
<1>4. ASSUME NEW s \in Sessions, ReadFails(s)
      PROVE  ClientInv'
  BY <1>4 DEF ReadFails, ReadGoto
<1>5. ASSUME NEW s \in Sessions, HandlerReturns(s)
      PROVE  ClientInv'
  BY <1>5 DEF HandlerReturns, ReadGoto
<1>6. ASSUME NEW s \in Sessions, HandlerPanic(s)
      PROVE  ClientInv'
  BY <1>6 DEF HandlerPanic, ReadGoto
<1>7. ASSUME NEW s \in Sessions, ReadTriggers(s)
      PROVE  ClientInv'
  <2>1. ClientTypeOK'
    <3>1. triggered' \in BOOLEAN /\ signal' \in BOOLEAN
      BY <1>7 DEF ReadTriggers, ReadGoto, TriggerReconnect, CloseConn
    <3> QED
      BY <1>7, <3>1 DEF ReadTriggers, ReadGoto, TriggerReconnect, CloseConn
  <2>2. NoConnForgotten' /\ BeforeLoops' /\ DialsFromNil'
    BY <1>7 DEF ReadTriggers, ReadGoto, TriggerReconnect, CloseConn
  <2>3. StopChOpen' /\ HeartbeatWatches'
    BY <1>7 DEF ReadTriggers, ReadGoto, TriggerReconnect, CloseConn
  <2> QED
    BY <2>1, <2>2, <2>3
<1>8. ASSUME NEW s \in Sessions, BeatTakesConn(s)
      PROVE  ClientInv'
  BY <1>8 DEF BeatTakesConn, BeatGoto
<1>9. ASSUME NEW s \in Sessions, BeatSucceeds(s)
      PROVE  ClientInv'
  BY <1>9 DEF BeatSucceeds, BeatGoto
<1>10. ASSUME NEW s \in Sessions, BeatFails(s)
       PROVE  ClientInv'
  BY <1>10 DEF BeatFails, BeatGoto
<1>11. ASSUME NEW s \in Sessions, BeatArms(s)
       PROVE  ClientInv'
  BY <1>11 DEF BeatArms, BeatGoto
<1>12. ASSUME NEW s \in Sessions, BeatStops(s)
       PROVE  ClientInv'
  BY <1>12 DEF BeatStops, BeatGoto, BeatWakes
<1>13. ASSUME NEW s \in Sessions, BeatTicks(s)
       PROVE  ClientInv'
  BY <1>13 DEF BeatTicks, BeatGoto, BeatWakes
<1>14. ASSUME NEW s \in Sessions, BeatTriggers(s)
       PROVE  ClientInv'
  <2>1. ClientTypeOK'
    <3>1. triggered' \in BOOLEAN /\ signal' \in BOOLEAN
      BY <1>14 DEF BeatTriggers, BeatGoto, TriggerReconnect, CloseConn
    <3> QED
      BY <1>14, <3>1 DEF BeatTriggers, BeatGoto, TriggerReconnect, CloseConn
  <2>2. NoConnForgotten' /\ BeforeLoops' /\ DialsFromNil'
    BY <1>14 DEF BeatTriggers, BeatGoto, TriggerReconnect, CloseConn
  <2>3. StopChOpen' /\ HeartbeatWatches'
    BY <1>14 DEF BeatTriggers, BeatGoto, TriggerReconnect, CloseConn
  <2> QED
    BY <2>1, <2>2, <2>3
<1>15. ASSUME RcHead
       PROVE  ClientInv'
  BY <1>15 DEF RcHead
<1>16. ASSUME RcSignalled
       PROVE  ClientInv'
  <2>1. ClientTypeOK'
    BY ZenonT(60), <1>16 DEF RcSignalled
  <2>2. NoConnForgotten' /\ BeforeLoops' /\ DialsFromNil'
    BY <1>16 DEF RcSignalled
  <2>3. StopChOpen' /\ HeartbeatWatches'
    BY <1>16 DEF RcSignalled
  <2> QED
    BY <2>1, <2>2, <2>3
<1>17. ASSUME RcDone
       PROVE  ClientInv'
  BY <1>17 DEF RcDone
<1>18. ASSUME RcTeardown
       PROVE  ClientInv'
  BY <1>18 DEF RcTeardown
<1>19. ASSUME RcDrop
       PROVE  ClientInv'
  BY <1>19 DEF RcDrop, CloseConn
<1>20. ASSUME RcRetry
       PROVE  ClientInv'
  BY <1>20 DEF RcRetry
<1>21. ASSUME RcDialSucceeds
       PROVE  ClientInv'
  BY <1>21 DEF RcDialSucceeds, DialSucceeds
<1>22. ASSUME RcDialFails
       PROVE  ClientInv'
  BY <1>22 DEF RcDialFails
<1>23. ASSUME RcStarts
       PROVE  ClientInv'
  <2>1. ClientTypeOK'
    <3>1. triggered' \in BOOLEAN
      BY <1>23 DEF RcStarts, StartSessionLoops
    <3> QED
      BY <1>23, <3>1 DEF RcStarts, StartSessionLoops
  <2>2. NoConnForgotten' /\ BeforeLoops' /\ DialsFromNil'
    BY <1>23 DEF RcStarts, StartSessionLoops
  <2>3. StopChOpen' /\ HeartbeatWatches'
    BY <1>23 DEF RcStarts, StartSessionLoops
  <2> QED
    BY <2>1, <2>2, <2>3
<1>24. ASSUME ThreadDialSucceeds
       PROVE  ClientInv'
  BY <1>24 DEF ThreadDialSucceeds, DialSucceeds
<1>25. ASSUME ThreadDialFails
       PROVE  ClientInv'
  BY <1>25 DEF ThreadDialFails, TriggerReconnect, CloseConn
<1>26. ASSUME ThreadStarts
       PROVE  ClientInv'
  <2>1. ClientTypeOK'
    <3>1. triggered' \in BOOLEAN
      BY <1>26 DEF ThreadStarts, StartSessionLoops
    <3> QED
      BY <1>26, <3>1 DEF ThreadStarts, StartSessionLoops
  <2>2. NoConnForgotten' /\ BeforeLoops' /\ DialsFromNil'
    BY <1>26 DEF ThreadStarts, StartSessionLoops
  <2>3. StopChOpen' /\ HeartbeatWatches'
    BY <1>26 DEF ThreadStarts, StartSessionLoops
  <2> QED
    BY <2>1, <2>2, <2>3
<1>27. ASSUME ThreadRegisters
       PROVE  ClientInv'
  BY <1>27 DEF ThreadRegisters
<1>28. ASSUME ThreadAdds
       PROVE  ClientInv'
  BY <1>28 DEF ThreadAdds
<1>29. ASSUME ThreadDone
       PROVE  ClientInv'
  <2>1. ClientTypeOK'
    <3>1. link' \in [Conns -> {"closed", "broken", "open"}]
      BY <1>29 DEF ThreadDone, CloseConn
    <3>2. interrupted' \in BOOLEAN /\ threadPc' \in ThreadPcs
      BY <1>29 DEF ThreadDone
    <3> QED
      BY <1>29, <3>1, <3>2 DEF ThreadDone
  <2>2. NoConnForgotten' /\ BeforeLoops' /\ DialsFromNil'
    BY <1>29 DEF ThreadDone, CloseConn
  <2>3. StopChOpen' /\ HeartbeatWatches'
    BY <1>29 DEF ThreadDone, CloseConn
  <2> QED
    BY <2>1, <2>2, <2>3
<1>30. ASSUME ThreadInterrupted
       PROVE  ClientInv'
  <2>1. ClientTypeOK'
    <3>1. interrupted' \in BOOLEAN /\ threadPc' \in ThreadPcs
      BY <1>30 DEF ThreadInterrupted
    <3> QED
      BY <1>30, <3>1 DEF ThreadInterrupted
  <2>2. NoConnForgotten' /\ BeforeLoops' /\ DialsFromNil'
    BY <1>30 DEF ThreadInterrupted
  <2>3. StopChOpen' /\ HeartbeatWatches'
    BY <1>30 DEF ThreadInterrupted
  <2> QED
    BY <2>1, <2>2, <2>3
<1>31. ASSUME ThreadExits
       PROVE  ClientInv'
  <2>1. ClientTypeOK'
    BY ZenonT(60), <1>31 DEF ThreadExits
  <2>2. NoConnForgotten' /\ BeforeLoops' /\ DialsFromNil'
    BY <1>31 DEF ThreadExits
  <2>3. StopChOpen' /\ HeartbeatWatches'
    BY <1>31 DEF ThreadExits
  <2> QED
    BY <2>1, <2>2, <2>3
<1>32. ASSUME ProgramEnds
       PROVE  ClientInv'
  <2>1. ClientTypeOK'
    BY <1>32 DEF ProgramEnds
  <2>2. NoConnForgotten' /\ BeforeLoops' /\ DialsFromNil'
    BY <1>32 DEF ProgramEnds
  <2>3. StopChOpen' /\ HeartbeatWatches'
    BY <1>32 DEF ProgramEnds
  <2> QED
    BY <2>1, <2>2, <2>3
<1>33. ASSUME SignalDelivered
       PROVE  ClientInv'
  <2>1. ClientTypeOK'
    <3>1. /\ interrupted' \in BOOLEAN
          /\ mainPc' \in {"serving", "stopping", "waiting", "exited"}
      BY <1>33 DEF SignalDelivered
    <3> QED
      BY <1>33, <3>1 DEF SignalDelivered
  <2>2. NoConnForgotten' /\ BeforeLoops' /\ DialsFromNil'
    BY <1>33 DEF SignalDelivered
  <2>3. StopChOpen' /\ HeartbeatWatches'
    BY <1>33 DEF SignalDelivered
  <2> QED
    BY <2>1, <2>2, <2>3
<1>34. ASSUME MainCloses
       PROVE  ClientInv'
  <2>1. ClientTypeOK'
    <3>1. reconnect' \in BOOLEAN /\ done' \in BOOLEAN
      BY <1>34 DEF MainCloses
    <3>2. mainPc' \in {"serving", "stopping", "waiting", "exited"}
      BY <1>34 DEF MainCloses
    <3> QED
      BY <1>34, <3>1, <3>2 DEF MainCloses
  <2>2. NoConnForgotten' /\ BeforeLoops' /\ DialsFromNil'
    BY <1>34 DEF MainCloses
  <2>3. StopChOpen' /\ HeartbeatWatches'
    BY <1>34 DEF MainCloses
  <2> QED
    BY <2>1, <2>2, <2>3
<1>35. ASSUME NEW k \in Conns, LinkBreaks(k)
       PROVE  ClientInv'
  BY <1>35 DEF LinkBreaks
<1>36. ASSUME ThreadNotifies
       PROVE  ClientInv'
  BY <1>36 DEF ThreadNotifies
<1>37. CASE UNCHANGED vars
  BY <1>37 DEF vars
<1> QED
  BY <1>1, <1>2, <1>3, <1>4, <1>5, <1>6, <1>7, <1>8, <1>9, <1>10, <1>11, <1>12, <1>13, <1>14,
    <1>15, <1>16, <1>17, <1>18, <1>19, <1>20, <1>21, <1>22, <1>23, <1>24, <1>25, <1>26, <1>27,
    <1>28, <1>29, <1>30, <1>31, <1>32, <1>33, <1>34, <1>35, <1>36, <1>37
  DEF Next, ReadStep, BeatStep, RcStep, ThreadStep, MainStep, MainExits, Signalled, SignalKills,
      Terminated

\* It holds in every reachable state.
LEMMA ClientInductive == Spec => []ClientInv
BY InitClient, StepClient, PTL DEF Spec

-----------------------------------------------------------------------------
(* What follows from it *)

\* Every variable keeps to its type, and whoever reads or writes has a connection.
THEOREM ClientTypeCorrect == Spec => []ClientTypeOK
<1>1. ClientInv => ClientTypeOK
  BY DEF ClientInv
<1> QED
  BY <1>1, ClientInductive, PTL

\* No reconnect leaves a connection open that c.conn no longer holds
\* (ws_client.go:242, 451).
THEOREM NoConnIsForgotten == Spec => []NoConnForgotten
<1>1. ClientInv => NoConnForgotten
  BY DEF ClientInv
<1> QED
  BY <1>1, ClientInductive, PTL

\* reconnectLoop never closes a closed stopCh, however many sessions there were
\* (ws_client.go:447).
THEOREM StopChIsClosedOnce == Spec => []StopChClosedOnce
<1>1. ClientInv => StopChClosedOnce
  BY DEF ClientInv, StopChOpen, StopChClosedOnce
<1> QED
  BY <1>1, ClientInductive, PTL

\* While reconnectLoop waits there is a token, or a loop is alive that will leave
\* one, even when every handler panics (ws_client.go:253, 262, 272).
THEOREM NoWakeUpIsLost == Spec => []WakeUpIsPossible
<1>1. ClientInv => WakeUpIsPossible
  BY DEF ClientInv, ClientTypeOK, HeartbeatWatches, WillWait, WakeUpIsPossible
<1> QED
  BY <1>1, ClientInductive, PTL
=============================================================================
