----------------------------- MODULE MCProcess -----------------------------
(* A small instance of Output: outputs of six and three characters whose   *)
(* prefixes repeat, pipes of three characters and blocks of two, so that a *)
(* double block is four characters and may span all pieces.                *)
EXTENDS Output

MCOutputs == {<<1, 1, 2, 1, 1, 1>>, <<1, 2, 1>>}
MCPatterns == BoundedSeq({1, 2}, 3)
=============================================================================
