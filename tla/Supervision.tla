----------------------------- MODULE Supervision -----------------------------
(***************************************************************************)
(* What a worker promises to those who start and stop it, whatever they do *)
(* and whatever ffmpeg does: there is a process only while the worker      *)
(* serves its target, never two at once, a stop allows at most the one     *)
(* launch that is already on its way, and serving ends without a process.  *)
(*                                                                         *)
(* FFmpegWorker implements it.                                             *)
(***************************************************************************)
CONSTANT Workers

VARIABLES
  serving,  \* "off"; "on"; "stopping": one more launch may come; "stopped": none may
  up        \* the worker has a process

vars == <<serving, up>>

Init ==
  /\ serving = [w \in Workers |-> "off"]
  /\ up = [w \in Workers |-> FALSE]

Serve(w, from, to) ==
  /\ serving[w] \in from
  /\ serving' = [serving EXCEPT ![w] = to]

Start(w) == Serve(w, {"off"}, "on") /\ UNCHANGED up

Stop(w) == (Serve(w, {"on"}, "stopping") \/ Serve(w, {"on"}, "stopped")) /\ UNCHANGED up

\* The launch on its way fails.
GiveUp(w) == Serve(w, {"stopping"}, "stopped") /\ UNCHANGED up

Launch(w) ==
  /\ ~up[w]
  /\ up' = [up EXCEPT ![w] = TRUE]
  /\ Serve(w, {"on"}, "on") \/ Serve(w, {"stopping"}, "stopped")

Down(w) == up[w] /\ up' = [up EXCEPT ![w] = FALSE] /\ UNCHANGED serving

\* Stopped, or told that its target is paused.
End(w) == ~up[w] /\ Serve(w, {"on", "stopped"}, "off") /\ UNCHANGED up

Next == \E w \in Workers :
  Start(w) \/ Stop(w) \/ GiveUp(w) \/ Launch(w) \/ Down(w) \/ End(w)

Spec == Init /\ [][Next]_vars
=============================================================================
