----------------------------- MODULE MCEmitter ------------------------------
(* Small instances of Emitter for TLC. *)
EXTENDS Emitter, TLC

CONSTANTS t1, t2, c1, l1, r1, r2

\* r1 serves shard 0 and r2 shard 1.
HomeByShard == (r1 :> 0) @@ (r2 :> 1)

\* The hashes of the tasks: both belong to shard 0 of 2.
HashOf == [t \in Task |-> 2]
=============================================================================
