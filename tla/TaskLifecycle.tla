--------------------------- MODULE TaskLifecycle ----------------------------
(***************************************************************************)
(* What a daemon promises to a client: a task that was accepted is         *)
(* answered once, or its connection is dropped without an answer; after    *)
(* that nothing happens to it any more.                                    *)
(***************************************************************************)
EXTENDS Naturals

CONSTANT Task

VARIABLES status,   \* "new", "pending", "answered" or "dropped"
          answers   \* how many replies a task got

lifeVars == <<status, answers>>

LifeInit ==
  /\ status = [t \in Task |-> "new"]
  /\ answers = [t \in Task |-> 0]

Accept(t) ==
  /\ status[t] = "new"
  /\ status' = [status EXCEPT ![t] = "pending"]
  /\ UNCHANGED answers

Answer(t) ==
  /\ status[t] \in {"new", "pending"}
  /\ status' = [status EXCEPT ![t] = "answered"]
  /\ answers' = [answers EXCEPT ![t] = 1]

Drop(t) ==
  /\ status[t] \in {"new", "pending"}
  /\ status' = [status EXCEPT ![t] = "dropped"]
  /\ UNCHANGED answers

LifeNext == \E t \in Task : Accept(t) \/ Answer(t) \/ Drop(t)

LifeSpec == LifeInit /\ [][LifeNext]_lifeVars
=============================================================================
