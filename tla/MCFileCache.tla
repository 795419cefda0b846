---------------------------- MODULE MCFileCache ----------------------------
(* A small instance of FileCache for TLC. *)
EXTENDS FileCache, TLC

CONSTANTS t1, t2, h, u, e1, e2

\* Sizes that tell the entries apart.
ObjectSizes(e) == IF e = e1 THEN 1 ELSE 2
DepsSizes(e) == IF e = e1 THEN 3 ELSE 4

Symmetry == Permutations(Thread)
=============================================================================
