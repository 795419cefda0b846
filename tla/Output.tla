------------------------------- MODULE Output -------------------------------
(***************************************************************************)
(* The output of a child as the daemon uses it: Process reads it in pieces *)
(* that depend on how the child and Run() were scheduled, and makes a rope *)
(* of them (base/process_impl_linux.cc), which ConstString reads.          *)
(***************************************************************************)
EXTENDS Process, ConstString

CONSTANT Patterns      \* what is looked for in an output

Piece(k) == SubSeq(stdout.chars, IF k = 1 THEN 1 ELSE stdout.ends[k - 1] + 1, stdout.ends[k])
stdout_ == FromRope([k \in DOMAIN stdout.ends |-> Flat(Piece(k))])

\* What is done with an output does not depend on the pieces in which the pipe
\* delivered it: its characters, its hash, of which the caches make their keys, alone and
\* as a part of another rope; its equality with others, its copies, the place of a pattern.
ChunksInvisible ==
  run.pc = "waitpid" =>
    LET flat  == Flat(stdout.chars)
        twice == Flat(flat.string \o flat.string)
        Found(str) == {i \in 0 .. flat.size - Len(str) :
                         SubSeq(flat.string, i + 1, i + Len(str)) = str}
    IN  /\ Equal(stdout_, flat)
        /\ data(stdout_) = flat.string /\ string_copy(stdout_) = flat.string
        /\ Hash(stdout_) = Hash(flat)
        /\ Hash(Plus(stdout_, flat)) = Hash(twice)
        /\ Hash(Plus(flat, stdout_)) = Hash(twice)
        /\ \A str \in Patterns :
             find(stdout_, str) = IF Found(str) = {} THEN NPos ELSE Min(Found(str))
=============================================================================
