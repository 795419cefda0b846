----------------------------- MODULE LockedList -----------------------------
(***************************************************************************)
(* base::LockedList (base/locked_list.h): a linked list that threads       *)
(* append to without a lock.  A list is a record; its node 0 is head_, and *)
(* node k the k-th that was ever linked.  The steps of Append() are an     *)
(* access to an atomic each: the load of tail_hint_, the compare-exchange, *)
(* the store of tail_hint_.  Pop() is for one thread at a time.            *)
(***************************************************************************)
LOCAL INSTANCE Naturals
LOCAL INSTANCE Sequences

EmptyList == [items |-> <<>>, popped |-> 0, hint |-> 0]

\* The node after node n, or none: head_ is followed by the first that is left.
HasNext(l, n) == (IF n = 0 THEN l.popped ELSE n) < Len(l.items)
NextNode(l, n) == (IF n = 0 THEN l.popped ELSE n) + 1

\* Faulty: the new node is stored where the thread believes the end to be, whatever is
\* linked there now.
LinkBlindly(l, n, x) ==
  LET rest == SubSeq(l.items, 1, IF n = 0 THEN l.popped ELSE n)
  IN [list |-> [l EXCEPT !.items = Append(rest, x)], linked |-> TRUE, node |-> Len(rest) + 1]

\* compare_exchange_weak() at node n: x is linked there, or the next node is tried.
Link(l, n, x) ==
  IF HasNext(l, n)
  THEN [list |-> l, linked |-> FALSE, node |-> NextNode(l, n)]
  ELSE [list |-> [l EXCEPT !.items = Append(@, x)], linked |-> TRUE, node |-> Len(l.items) + 1]

SetHint(l, n) == [l EXCEPT !.hint = n]

IsEmpty(l) == ~HasNext(l, 0)
FirstNode(l) == l.items[l.popped + 1]
Pop(l) ==
  LET rest == [l EXCEPT !.popped = @ + 1]
  IN IF IsEmpty(rest) THEN SetHint(rest, 0) ELSE rest

\* What is in the list, from the front to the end.
Listed(l) == SubSeq(l.items, l.popped + 1, Len(l.items))
=============================================================================
