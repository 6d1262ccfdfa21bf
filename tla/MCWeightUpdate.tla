--------------------------- MODULE MCWeightUpdate ---------------------------
(* Two actor ranks and two servers, two workers that shuffled the servers  *)
(* differently; a single-turn response of three tokens, and a tool call,   *)
(* the tool's response of one token and an end.                            *)
EXTENDS WeightUpdate
MCActorRanks == <<"actor0", "actor1">>
MCWorkers == <<"worker0", "worker1">>
MCShuffles == {[w \in {"worker0", "worker1"} |->
  IF w = "worker0" THEN <<"server0", "server1">> ELSE <<"server1", "server0">>]}
MCScript == [k \in {"single", "tool"} |->
  IF k = "single" THEN <<"text", "text", "end">>
  ELSE <<"open", "close", "tool", "end">>]

(* Three buckets, the second row with one of them; fewer parameters than   *)
(* actor ranks; one larger than the device buffer among small ones.        *)
TwoRows == <<1, 1, 2>>
OneParam == <<3>>
Mixed == <<1, 2, 1, 1, 3>>
MCWeightsInfos == {TwoRows, OneParam, Mixed}

Setup(m, p, k, n, info) ==
  [mode |-> m, partial_rollout |-> p, kind |-> k, response_length |-> n,
   weights_info |-> info]
MCSetups == {
  Setup("plain", TRUE, "tool", 4, TwoRows), Setup("overlap", FALSE, "single", 2, Mixed),
  Setup("overlap", TRUE, "single", 2, TwoRows), Setup("plain", FALSE, "tool", 3, Mixed),
  Setup("engine", TRUE, "single", 1, TwoRows), Setup("engine", FALSE, "single", 4, OneParam)}

(* With partial rollout, in the setup of a response of one token: servers  *)
(* are paused, and the generations of an intruder return at once.          *)
MCMaxIntruders == [s \in MCSetups |->
  IF ~s.partial_rollout THEN 2 ELSE IF s.response_length = 1 THEN 1 ELSE 0]
=============================================================================
