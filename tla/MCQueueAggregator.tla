------------------------- MODULE MCQueueAggregator --------------------------
(* Instances of QueueAggregator for TLC. *)
EXTENDS QueueAggregator

CONSTANTS w1, w2
=============================================================================
