------------------------------ MODULE LossyFifo ------------------------------
(***************************************************************************)
(* What the message queue promises to the rollouter and the trainer: the   *)
(* samples it was given are delivered in the order they were given, each   *)
(* at most once; at most Capacity wait at any time; a sample that is lost  *)
(* is the oldest one waiting, lost to make room, or was cleared.           *)
(*                                                                         *)
(* The state is the log of all samples ever accepted and the position of   *)
(* the first one still waiting.                                            *)
(***************************************************************************)
EXTENDS Naturals, Sequences

CONSTANTS Samples, Consumers, None, Capacity

VARIABLES log, first, delivered

vars == <<log, first, delivered>>

Waiting == Len(log) + 1 - first

Init ==
  /\ log = <<>>
  /\ first = 1
  /\ delivered = [c \in Consumers |-> None]

Accept(s) ==
  /\ log' = Append(log, s)
  /\ first' = first + (IF Waiting = Capacity THEN 1 ELSE 0)
  /\ UNCHANGED delivered

Deliver(c) ==
  /\ Waiting > 0
  /\ delivered' = [delivered EXCEPT ![c] = log[first]]
  /\ first' = first + 1
  /\ UNCHANGED log

Clear ==
  /\ first' = Len(log) + 1
  /\ UNCHANGED <<log, delivered>>

(* A closed and empty queue answers None.                                  *)
Decline(c) ==
  /\ Waiting = 0
  /\ delivered' = [delivered EXCEPT ![c] = None]
  /\ UNCHANGED <<log, first>>

Next ==
  \/ \E s \in Samples : Accept(s)
  \/ \E c \in Consumers : Deliver(c) \/ Decline(c)
  \/ Clear

Spec == Init /\ [][Next]_vars
=============================================================================
