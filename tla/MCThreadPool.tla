---------------------------- MODULE MCThreadPool ----------------------------
(* A small instance of ThreadPool for TLC: two workers, two callers of Push() *)
(* and one thread that has a name resolved.                                   *)
EXTENDS ThreadPool

CONSTANTS p1, p2, c1, c2, r1

AllDefault == [c \in {c1, c2} |-> "default"]
AllHome == [c \in {c1, c2} |-> 0]
MCPromises == 1 .. 5 \union {r1}
=============================================================================
