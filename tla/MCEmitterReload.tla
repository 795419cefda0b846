--------------------------- MODULE MCEmitterReload --------------------------
(* A small instance of EmitterReload for TLC. *)
EXTENDS EmitterReload, TLC

CONSTANTS t1, c1, d1, d2

Shrinks == <<3, 2>>

\* A coordinator that fails at will is asked before the one that works.
InTurn == <<d1, d2>>

\* The task belongs to shard 2 of 3, which the second configuration abandons, and to
\* shard 1 of 2.
HashOf == t1 :> 5
=============================================================================
