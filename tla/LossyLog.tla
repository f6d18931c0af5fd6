------------------------------ MODULE LossyLog ------------------------------
(***************************************************************************)
(* What logs promise to those who write to them: messages reach the file   *)
(* in the order in which they were accepted, each at most once, and one is *)
(* lost only because the log is full, because the message itself cannot be *)
(* written, or because the log is closed while it waits.                   *)
(*                                                                         *)
(* Logger implements it.                                                   *)
(***************************************************************************)
EXTENDS Naturals, Sequences

CONSTANTS
  Logs,
  Capacity  \* messages that may wait in a log

VARIABLES
  offered,  \* messages offered to all logs; a message is its number
  state,    \* of each log: "unopened", "open" or "closed"
  pending,  \* accepted and not yet written, oldest first
  written   \* the contents of the file

vars == <<offered, state, pending, written>>

Init ==
  /\ offered = 0
  /\ state = [l \in Logs |-> "unopened"]
  /\ pending = [l \in Logs |-> <<>>]
  /\ written = [l \in Logs |-> <<>>]

Open(l) ==
  /\ state[l] = "unopened"
  /\ state' = [state EXCEPT ![l] = "open"]
  /\ UNCHANGED <<offered, pending, written>>

\* A message is accepted whether or not it has a chance to be written.
Accept(l) ==
  /\ state[l] # "unopened"
  /\ pending' = [pending EXCEPT ![l] = Append(@, offered + 1)]
  /\ offered' = offered + 1
  /\ UNCHANGED <<state, written>>

Without(s, i) == SubSeq(s, 1, i - 1) \o SubSeq(s, i + 1, Len(s))

\* A full log forgets its oldest message, or the one after it when the oldest
\* is already in the hands of the writer.
AcceptAndForget(l) ==
  /\ state[l] # "unopened"
  /\ Len(pending[l]) >= Capacity
  /\ \E i \in {1, 2} \cap DOMAIN pending[l] :
       pending' = [pending EXCEPT ![l] = Append(Without(@, i), offered + 1)]
  /\ offered' = offered + 1
  /\ UNCHANGED <<state, written>>

Write(l) ==
  /\ state[l] = "open"
  /\ pending[l] # <<>>
  /\ written' = [written EXCEPT ![l] = Append(@, Head(pending[l]))]
  /\ pending' = [pending EXCEPT ![l] = Tail(@)]
  /\ UNCHANGED <<offered, state>>

\* The oldest message cannot be written.
Fail(l) ==
  /\ state[l] = "open"
  /\ pending[l] # <<>>
  /\ pending' = [pending EXCEPT ![l] = Tail(@)]
  /\ UNCHANGED <<offered, state, written>>

Close(l) ==
  /\ state[l] = "open"
  /\ state' = [state EXCEPT ![l] = "closed"]
  /\ UNCHANGED <<offered, pending, written>>

\* The oldest message cannot be written, and no other will be.
Break(l) ==
  /\ state[l] = "open"
  /\ pending[l] # <<>>
  /\ state' = [state EXCEPT ![l] = "closed"]
  /\ pending' = [pending EXCEPT ![l] = Tail(@)]
  /\ UNCHANGED <<offered, written>>

Next == \E l \in Logs :
  \/ Open(l) \/ Accept(l) \/ AcceptAndForget(l) \/ Write(l) \/ Fail(l) \/ Close(l) \/ Break(l)

Spec == Init /\ [][Next]_vars
=============================================================================
