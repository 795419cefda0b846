----------------------------- MODULE ShardLists -----------------------------
(***************************************************************************)
(* What a sharded queue promises to its users, without locks, threads or   *)
(* the second index: every shard is a first-in-first-out list of the items *)
(* pushed into it, an item is numbered by the order of its insertion, and  *)
(* an item leaves the queue exactly once, from the front of its own shard. *)
(***************************************************************************)
EXTENDS Naturals, Sequences

CONSTANT Shard

VARIABLES lists,     \* the items of every shard, oldest first
          inserted   \* how many items were ever accepted

listVars == <<lists, inserted>>

ListsInit ==
  /\ lists = [s \in Shard |-> <<>>]
  /\ inserted = 0

Put(s) ==
  /\ lists' = [lists EXCEPT ![s] = Append(@, inserted + 1)]
  /\ inserted' = inserted + 1

Get(s) ==
  /\ lists[s] # <<>>
  /\ lists' = [lists EXCEPT ![s] = Tail(@)]
  /\ UNCHANGED inserted

ListsNext == \E s \in Shard : Put(s) \/ Get(s)

ListsSpec == ListsInit /\ [][ListsNext]_listVars
=============================================================================
