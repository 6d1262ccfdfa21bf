--------------------------- MODULE MCMessageQueue ---------------------------
(***************************************************************************)
(* A small message queue: two consumers that compete for the samples, a    *)
(* queue that fills up, and enough calls of put_sample to drop samples.    *)
(***************************************************************************)
EXTENDS MessageQueueLog

CONSTANTS a, b, c1, c2

MCSamples == {a, b}
MCConsumers == {c1, c2}
MCVersions == {0}
MCResults == {0, 1}
=============================================================================
