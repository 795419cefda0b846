--------------------------- MODULE MCLockedQueue ---------------------------
(* Instances of LockedQueue for TLC. *)
EXTENDS LockedQueue

CONSTANTS p1, p2, c1, c2, c3

\* all_tasks_ while the sharding is changed: the workers of a strict and of a
\* non-strict configuration, and Reload(), which drains shard 2.
MixedKind == [c \in {c1, c2, c3} |-> IF c = c1 THEN "strict"
                                    ELSE IF c = c2 THEN "hint" ELSE "nowait"]
MixedHome == [c \in {c1, c2, c3} |-> IF c = c1 THEN 0 ELSE IF c = c2 THEN 1 ELSE 2]
=============================================================================
