---------------------------- MODULE ConstString ----------------------------
(***************************************************************************)
(* Immutable strings: base/const_string.cc.                                *)
(*                                                                         *)
(* A string is flat, or a rope of strings that nobody has copied together  *)
(* yet.  Every operator below reads a rope the way the code does, without  *)
(* flattening it first, so what it returns could depend on where the rope  *)
(* happens to be cut.  Characters are any values; the arithmetic that      *)
(* mixes the blocks of Hash() is left out, and a hash is what goes into    *)
(* it: the blocks in their order, the tail and the size.                   *)
(***************************************************************************)
EXTENDS Integers, Sequences, SequencesExt

CONSTANT BlockSize      \* block_size of Hash(), 8 in the code

ASSUME BlockSizeAssumption == BlockSize \in Nat \ {0}

Flat(chars) == [rope |-> <<>>, string |-> chars, size |-> Len(chars)]

\* A string made of a rope adds up the sizes of its pieces.
FromRope(rope) ==
  [rope   |-> rope,
   string |-> <<>>,
   size   |-> FoldSeq(LAMBDA str, sum : str.size + sum, 0, rope)]

\* What at() does with an index that counts from the first piece of the rope.
RECURSIVE at(_, _)
at(internal, index) ==
  IF internal.rope = <<>>
  THEN internal.string[index + 1]
  ELSE LET str == Head(internal.rope)
       IN  IF index < str.size
           THEN at(str, index)
           ELSE at([internal EXCEPT !.rope = Tail(@)], index - str.size)

\* A rope of one piece shares the piece, others are copied together.
RECURSIVE CollapseRope(_)
CollapseRope(str) ==
  CASE Len(str.rope) = 0 -> str
    [] Len(str.rope) = 1 -> [str.rope[1] EXCEPT !.size = str.size]
    [] OTHER -> Flat(FlattenSeq([i \in DOMAIN str.rope |->
                                   CollapseRope(str.rope[i]).string]))

data(str) == CollapseRope(str).string

\* Copies a rope without collapsing it.
RECURSIVE string_copy(_)
string_copy(str) ==
  IF str.rope = <<>>
  THEN str.string
  ELSE FlattenSeq([i \in DOMAIN str.rope |-> string_copy(str.rope[i])])

Equal(str, other) ==
  /\ str.size = other.size
  /\ \A i \in 0 .. str.size - 1 : at(str, i) = at(other, i)

\* operator+: appends to the rope, or makes a new one of two pieces.
Plus(str, other) ==
  IF str.rope # <<>> THEN FromRope(Append(str.rope, other))
                     ELSE FromRope(<<str, other>>)

-----------------------------------------------------------------------------
(* find(): the algorithm of Knuth, Morris and Pratt.                       *)

NPos == -1

\* The two inner loops: the longest border of str that the character extends.
RECURSIVE Shift(_, _, _, _)
Shift(str, t, pos, char) ==
  IF pos # -1 /\ (pos = Len(str) \/ str[pos + 1] # char)
  THEN Shift(str, t, t[pos], char)
  ELSE pos

RECURSIVE FailureTable(_, _)
FailureTable(str, i) ==
  IF i = 0
  THEN [k \in {0} |-> -1]
  ELSE LET t == FailureTable(str, i - 1)
       IN  [k \in 0 .. i |-> IF k = i THEN Shift(str, t, t[i - 1], str[i]) + 1
                                      ELSE t[k]]

RECURSIVE Scan(_, _, _, _, _)
Scan(string, str, t, sp, kp) ==
  IF sp >= string.size
  THEN NPos
  ELSE LET k == Shift(str, t, kp, at(string, sp)) + 1
       IN  IF k = Len(str) THEN sp + 1 - Len(str)
                           ELSE Scan(string, str, t, sp + 1, k)

find(string, str) ==
  IF str = <<>> THEN 0
                ELSE Scan(string, str, FailureTable(str, Len(str)), 0, 0)

-----------------------------------------------------------------------------
(* Hash(): blocks of block_size characters, then a tail.                   *)

\* The cursor at the beginning of the it-th piece; ptr is what is left of it.
Start(rope, it) ==
  [it |-> it, ptr |-> IF it > Len(rope) THEN <<>> ELSE CollapseRope(rope[it]).string]

Advance(cursor, n) == [cursor EXCEPT !.ptr = SubSeq(@, n + 1, Len(@))]

\* A block that spans pieces is put together from as many as it needs.
RECURSIVE Gather(_, _, _)
Gather(rope, cursor, got) ==
  LET missing == BlockSize - Len(got)
  IN  CASE missing = 0 -> [block |-> got, cursor |-> cursor]
        [] missing > 0 /\ Len(cursor.ptr) <= missing ->
             Gather(rope, Start(rope, cursor.it + 1), got \o cursor.ptr)
        [] OTHER -> [block  |-> got \o SubSeq(cursor.ptr, 1, missing),
                     cursor |-> Advance(cursor, missing)]

\* A plausible mistake: the cursor stays where the split piece begins.
NextBlockRereads(rope, cursor) ==
  IF Len(cursor.ptr) >= BlockSize
  THEN [block  |-> SubSeq(cursor.ptr, 1, BlockSize),
        cursor |-> IF Len(cursor.ptr) = BlockSize THEN Start(rope, cursor.it + 1)
                                                  ELSE Advance(cursor, BlockSize)]
  ELSE LET next == Gather(rope, Start(rope, cursor.it + 1), cursor.ptr)
       IN  [next EXCEPT !.cursor = Start(rope, next.cursor.it)]

NextBlock(rope, cursor) ==
  CASE Len(cursor.ptr) > BlockSize ->
         [block  |-> SubSeq(cursor.ptr, 1, BlockSize),
          cursor |-> Advance(cursor, BlockSize)]
    [] Len(cursor.ptr) = BlockSize ->
         [block  |-> cursor.ptr,
          cursor |-> Start(rope, IF cursor.it <= Len(rope) THEN cursor.it + 1
                                                           ELSE cursor.it)]
    [] OTHER -> Gather(rope, Start(rope, cursor.it + 1), cursor.ptr)

RECURSIVE Blocks(_, _, _)
Blocks(rope, cursor, n) ==
  IF n = 0
  THEN <<>>
  ELSE LET next == NextBlock(rope, cursor)
       IN  <<next.block>> \o Blocks(rope, next.cursor, n - 1)

Hash(str) ==
  LET doubleBlocks == str.size \div (2 * BlockSize)
      tail         == doubleBlocks * 2 * BlockSize
      first        == IF str.rope = <<>> THEN [it |-> 1, ptr |-> str.string]
                                         ELSE Start(str.rope, 1)
  IN  IF str.size = 0
      THEN <<>>
      ELSE [blocks |-> Blocks(str.rope, first, 2 * doubleBlocks),
            tail   |-> [i \in 1 .. str.size - tail |-> at(str, tail + i - 1)],
            size   |-> str.size]

=============================================================================
