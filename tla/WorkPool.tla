-------------------------------- MODULE WorkPool --------------------------------
(***************************************************************************)
(* What every bulk operation of the program may assume of the concurrent   *)
(* runner: items are started once each, at most Width of them are under    *)
(* way or waiting to be collected, a finished item is delivered at most    *)
(* once, and after the runner has closed nothing is started or delivered,  *)
(* although what is under way still finishes.                              *)
(***************************************************************************)
EXTENDS Naturals, FiniteSets

CONSTANTS
  Items,     \* what is to be worked on
  Width      \* bound on the items between their start and their delivery

VARIABLES
  stage,     \* how far each item has come
  closed     \* the runner has stopped scheduling and delivering

poolVars == <<stage, closed>>

Stages == {"waiting", "running", "finished", "delivered"}
At(s)  == {i \in Items : stage[i] = s}

(* A pool with nothing to do may be closed from the start.                 *)
Init ==
  /\ stage = [i \in Items |-> "waiting"]
  /\ closed \in BOOLEAN /\ (closed => Items = {})

Move(i, from, to) ==
  /\ stage[i] = from
  /\ stage' = [stage EXCEPT ![i] = to]
  /\ UNCHANGED closed

Start(i) ==
  /\ ~closed /\ Cardinality(At("running") \cup At("finished")) < Width
  /\ Move(i, "waiting", "running")

Finish(i)  == Move(i, "running", "finished")
Deliver(i) == ~closed /\ Move(i, "finished", "delivered")
Close      == closed' = TRUE /\ UNCHANGED stage

Next == Close \/ \E i \in Items : Start(i) \/ Finish(i) \/ Deliver(i)

Spec == Init /\ [][Next]_poolVars
=============================================================================
