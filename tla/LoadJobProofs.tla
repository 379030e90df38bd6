---------------------------- MODULE LoadJobProofs -----------------------------
(***************************************************************************)
(* What TLAPS proves of a load in the background: of ThrottledRunner, for  *)
(* every number of items and every throttle policy; and of BackgroundJobs, *)
(* for every number of sessions, ids, jobs and results.                    *)
(***************************************************************************)
EXTENDS ThrottledRunner, BackgroundJobs, FiniteSetTheorems, TLAPS

-----------------------------------------------------------------------------
(* ThrottledRunner                                                         *)

Leaving == {"exit", "end"}
Started == {i \in Items : future[i] # "none"}

(* Where the items are: what waits has not been started, what was started  *)
(* is collected and yielded once, and until the runner leaves nothing is   *)
(* lost in between.                                                        *)
Custody ==
  /\ \A i \in pending : future[i] = "none"
  /\ \A i \in active : future[i] # "none"
  /\ \A i \in yielded : future[i] \in Results /\ i \notin active
  /\ pc \notin Leaving => outcome = "drained" /\ Started = active \cup yielded

(* Unless an abort was asked for, what was not started still waits, and a  *)
(* runner that leaves of its own accord leaves nothing behind.             *)
Complete ==
  /\ ~abort => Items = pending \cup Started
  /\ pc \in Leaving /\ outcome = "drained" =>
       /\ Started = yielded
       /\ ~abort => pending = {}

(* Halving stays between the bounds of the policy.                         *)
LEMMA HalvedBounded ==
  ASSUME limit \in MinConcurrency .. MaxConcurrency
  PROVE  Halved(limit) \in MinConcurrency .. MaxConcurrency
BY RunnerAssumption DEF Halved

(* Every variable keeps its type; in particular the limit never leaves the *)
(* bounds of the policy, however often it is halved or raised.             *)
THEOREM TypeCorrect == Spec => []TypeOK
<1>. USE RunnerAssumption
<1>1. Init => TypeOK
  <2>. SUFFICES ASSUME Init PROVE TypeOK
    OBVIOUS
  <2>1. log \in Seq(Results \cup {"down", "up"})
    BY DEF Init
  <2>2. limit \in MinConcurrency .. MaxConcurrency /\ streak \in Nat
    BY DEF Init
  <2>3. future \in [Items -> {"none", "running"} \cup Finished]
    BY DEF Init
  <2>. QED  BY <2>1, <2>2, <2>3 DEF Init, TypeOK
<1>2. TypeOK /\ [Next]_vars => TypeOK'
  <2>. SUFFICES ASSUME TypeOK, [Next]_vars PROVE TypeOK'
    OBVIOUS
  <2>. USE DEF TypeOK, control, work, told
  <2>1. CASE FillAborted \/ Fill \/ Filled
    BY <2>1 DEF FillAborted, Fill, Filled, Await
  <2>2. CASE Submit
    BY <2>2 DEF Submit
  <2>3. CASE Wait
    BY <2>3 DEF Wait, Completed
  <2>4. ASSUME NEW i \in Items, Take(i) PROVE TypeOK'
    <3>1. log' \in Seq(Results \cup {"down", "up"}) /\ future[i] \in Results
      BY <2>4 DEF Take
    <3>2. streak' \in Nat
      BY <2>4 DEF Take, Streak
    <3>3. throttled' \in BOOLEAN
      BY <2>4 DEF Take, Overloaded
    <3>4. wave' \in SUBSET active' /\ active' \in SUBSET Items /\ yielded' \in SUBSET Items
      BY <2>4 DEF Take
    <3>. QED  BY <2>4, <3>1, <3>2, <3>3, <3>4 DEF Take
  <2>5. ASSUME NEW i \in Items, TakeRaised(i) PROVE TypeOK'
    BY <2>5 DEF TakeRaised
  <2>6. CASE Resume
    BY <2>6 DEF Resume
  <2>7. CASE Abandon
    BY <2>7 DEF Abandon
  <2>8. CASE Throttle
    <3>1. log' \in Seq(Results \cup {"down", "up"})
      BY <2>8 DEF Throttle
    <3>2. limit' \in MinConcurrency .. MaxConcurrency
      BY <2>8, HalvedBounded DEF Throttle
    <3>. QED  BY <2>8, <3>1, <3>2 DEF Throttle
  <2>9. CASE Recover
    <3>1. log' \in Seq(Results \cup {"down", "up"})
      BY <2>9 DEF Recover
    <3>2. limit' \in MinConcurrency .. MaxConcurrency
      BY <2>9 DEF Recover, Recovers
    <3>. QED  BY <2>9, <3>1, <3>2 DEF Recover
  <2>10. CASE Keep \/ Wake
    BY <2>10 DEF Keep, Wake
  <2>11. CASE Poll
    <3>1. aborted' \in BOOLEAN
      BY <2>11 DEF Poll
    <3>. QED  BY <2>11, <3>1 DEF Poll
  <2>12. CASE Exit
    BY <2>12 DEF Exit
  <2>13. ASSUME NEW i \in Items, Worker(i) PROVE TypeOK'
    BY <2>13 DEF Worker, Finish
  <2>14. CASE RequestAbort
    BY <2>14 DEF RequestAbort
  <2>15. CASE UNCHANGED vars
    BY <2>15 DEF vars
  <2>. QED
    BY <2>1, <2>2, <2>3, <2>4, <2>5, <2>6, <2>7, <2>8, <2>9, <2>10, <2>11, <2>12,
       <2>13, <2>14, <2>15 DEF Next, Generator, Stopped
<1>. QED  BY <1>1, <1>2, PTL DEF Spec

-----------------------------------------------------------------------------
(* A step that moves no item between the places Custody and Complete name. *)
LEMMA CustodyFrame ==
  ASSUME Custody, Complete, UNCHANGED <<pending, active, future, yielded, abort, outcome>>,
         pc \notin Leaving, pc' \notin Leaving
  PROVE  Custody' /\ Complete'
BY DEF Custody, Complete, Started

(* With nothing in flight there is room, so a fill that ends without       *)
(* finding anything to submit has emptied the list of items.               *)
LEMMA EmptyHasRoom ==
  ASSUME TypeOK, active = {}
  PROVE  HasRoom
BY RunnerAssumption, FS_EmptySet DEF TypeOK, HasRoom

LEMMA CustodyInvariant == Spec => [](TypeOK /\ Custody /\ Complete)
<1>1. Init => Custody /\ Complete
  <2>. SUFFICES ASSUME Init PROVE Custody /\ Complete
    OBVIOUS
  <2>1. Started = {}
    BY DEF Init, Started
  <2>2. N = 0 => Items = {}
    BY DEF Items
  <2>. QED  BY <2>1, <2>2 DEF Init, Custody, Complete, Leaving
<1>2. TypeOK /\ Custody /\ Complete /\ [Next]_vars => Custody' /\ Complete'
  <2>. SUFFICES ASSUME TypeOK, Custody, Complete, [Next]_vars PROVE Custody' /\ Complete'
    OBVIOUS
  <2>. USE DEF control, work, told, Leaving
  <2>1. CASE FillAborted
    BY <2>1 DEF FillAborted, Await, Custody, Complete, Started
  <2>2. CASE Filled
    <3>1. CASE active = {}
      <4>1. pending = {}
        BY <2>2, <3>1, EmptyHasRoom DEF Filled
      <4>. QED  BY <2>2, <3>1, <4>1 DEF Filled, Await, Custody, Complete, Started
    <3>2. CASE active # {}
      BY <2>2, <3>2, CustodyFrame DEF Filled, Await
    <3>. QED  BY <3>1, <3>2
  <2>3. CASE Submit
    <3>1. PICK i \in pending : /\ pending' = pending \ {i}
                               /\ active' = active \cup {i}
                               /\ future' = [future EXCEPT ![i] = "running"]
      BY <2>3 DEF Submit
    <3>2. i \in Items /\ i \notin yielded /\ future[i] = "none"
      BY <3>1 DEF TypeOK, Custody, Results
    <3>3. Started' = Started \cup {i}
      BY <3>1, <3>2 DEF TypeOK, Started
    <3>4. Custody'
      BY <2>3, <3>1, <3>2, <3>3 DEF Submit, TypeOK, Custody
    <3>5. Complete'
      BY <2>3, <3>1, <3>2, <3>3 DEF Submit, Complete
    <3>. QED  BY <3>4, <3>5
  <2>4. ASSUME NEW i \in Items, Take(i) PROVE Custody' /\ Complete'
    <3>1. i \in active /\ active' \cup yielded' = active \cup yielded
      BY <2>4 DEF Take, TypeOK
    <3>2. Started' = Started
      BY <2>4 DEF Take, Started
    <3>3. Custody'
      BY <2>4, <3>1, <3>2 DEF Take, Custody
    <3>4. Complete'
      BY <2>4, <3>2 DEF Take, Complete
    <3>. QED  BY <3>3, <3>4
  <2>5. ASSUME NEW i \in Items, TakeRaised(i) PROVE Custody' /\ Complete'
    BY <2>5 DEF TakeRaised, Custody, Complete, Started
  <2>6. CASE Abandon
    BY <2>6 DEF Abandon, Custody, Complete, Started
  <2>7. CASE Poll
    BY <2>7 DEF Poll, Custody, Complete, Started
  <2>8. CASE Exit
    BY <2>8 DEF Exit, Custody, Complete, Started
  <2>9. ASSUME NEW i \in Items, Worker(i) PROVE Custody' /\ Complete'
    <3>1. PICK r \in Finished : Finish(i, r)
      BY <2>9 DEF Worker
    <3>2. i \notin pending /\ i \notin yielded
      BY <3>1 DEF Finish, Custody, Results
    <3>3. \A j \in Items : j # i => future'[j] = future[j]
      BY <3>1 DEF Finish, TypeOK
    <3>4. future'[i] # "none" /\ future[i] # "none"
      BY <3>1 DEF Finish, TypeOK, Finished, Results
    <3>5. Started' = Started
      BY <3>3, <3>4 DEF Started
    <3>6. Custody'
      BY <3>1, <3>2, <3>3, <3>4, <3>5 DEF Finish, Custody, TypeOK
    <3>. QED  BY <3>1, <3>5, <3>6 DEF Finish, Complete
  <2>10. CASE RequestAbort
    BY <2>10 DEF RequestAbort, Custody, Complete, Started
  <2>11. CASE UNCHANGED vars
    BY <2>11 DEF vars, Custody, Complete, Started
  <2>12. CASE Fill \/ Wait \/ Resume \/ Throttle \/ Recover \/ Keep \/ Wake
    BY <2>12, CustodyFrame DEF Fill, Wait, Resume, Throttle, Recover, Keep, Wake
  <2>. QED
    BY <2>1, <2>2, <2>3, <2>4, <2>5, <2>6, <2>7, <2>8, <2>9, <2>10, <2>11, <2>12
       DEF Next, Generator, Stopped
<1>. QED  BY <1>1, <1>2, TypeCorrect, PTL DEF Spec

(* A runner that neither raised nor was dropped has delivered all it       *)
(* started, and everything there was if no abort was asked for.            *)
THEOREM NothingIsForgotten == Spec => []NothingForgotten
<1>1. TypeOK /\ Custody /\ Complete => NothingForgotten
  <2>. SUFFICES ASSUME TypeOK, Custody, Complete, pc = "end", outcome = "drained"
                PROVE  /\ {i \in Items : future[i] # "none"} = yielded
                       /\ ~abort => yielded = Items
    BY DEF NothingForgotten
  <2>1. Started = yielded /\ (~abort => pending = {})
    BY DEF Complete, Leaving
  <2>. QED  BY <2>1 DEF Complete, Started
<1>. QED  BY <1>1, CustodyInvariant, PTL

-----------------------------------------------------------------------------
(* The streak is the number of clean results at the end of the log.        *)
CleanTail ==
  /\ streak <= Len(log)
  /\ \A j \in Len(log) - streak + 1 .. Len(log) : log[j] = "ok"

(* The limit is raised only after RecoverAfter clean results in a row,     *)
(* with neither a failure nor another change of the limit among them.      *)
THEOREM RecoveryIsEarned == Spec => []CleanRunBeforeRecovery
<1>. USE RunnerAssumption
<1>1. Init => CleanTail /\ CleanRunBeforeRecovery
  BY DEF Init, CleanTail, CleanRunBeforeRecovery
<1>2. TypeOK /\ CleanTail /\ CleanRunBeforeRecovery /\ [Next]_vars
        => CleanTail' /\ CleanRunBeforeRecovery'
  <2>. SUFFICES ASSUME TypeOK, CleanTail, CleanRunBeforeRecovery, [Next]_vars
                PROVE  CleanTail' /\ CleanRunBeforeRecovery'
    OBVIOUS
  <2>. USE DEF control, work, told
  <2>0. streak \in Nat /\ Len(log) \in Nat
    BY DEF TypeOK
  <2>1. ASSUME NEW i \in Items, Take(i) PROVE CleanTail' /\ CleanRunBeforeRecovery'
    <3>1. /\ Len(log') = Len(log) + 1 /\ log'[Len(log) + 1] = future[i]
          /\ \A j \in 1 .. Len(log) : log'[j] = log[j]
      BY <2>1 DEF Take, TypeOK
    <3>2. CleanTail'
      BY <2>0, <2>1, <3>1 DEF Take, Streak, CleanTail
    <3>3. future[i] # "up"
      BY <2>1 DEF Take, Results
    <3>4. CleanRunBeforeRecovery'
      BY <2>0, <3>1, <3>3 DEF CleanRunBeforeRecovery
    <3>. QED  BY <3>2, <3>4
  <2>2. CASE Throttle
    <3>1. /\ Len(log') = Len(log) + 1 /\ log'[Len(log) + 1] = "down" /\ streak' = 0
          /\ \A j \in 1 .. Len(log) : log'[j] = log[j]
      BY <2>2 DEF Throttle, TypeOK
    <3>2. CleanTail'
      BY <2>0, <3>1 DEF CleanTail
    <3>3. CleanRunBeforeRecovery'
      BY <2>0, <3>1 DEF CleanRunBeforeRecovery
    <3>. QED  BY <3>2, <3>3
  <2>3. CASE Recover
    <3>1. /\ Len(log') = Len(log) + 1 /\ log'[Len(log) + 1] = "up" /\ streak' = 0
          /\ \A j \in 1 .. Len(log) : log'[j] = log[j]
      BY <2>3 DEF Recover, TypeOK
    <3>2. CleanTail'
      BY <2>0, <3>1 DEF CleanTail
    <3>3. streak >= RecoverAfter
      BY <2>3 DEF Recover, Recovers
    <3>4. \A j \in Len(log) + 1 - RecoverAfter .. Len(log) : log[j] = "ok"
      BY <2>0, <3>3 DEF CleanTail
    <3>5. Len(log) + 1 > RecoverAfter
      BY <2>0, <3>3 DEF CleanTail
    <3>6. CleanRunBeforeRecovery'
      <4>. SUFFICES ASSUME NEW k \in 1 .. Len(log) + 1, log'[k] = "up"
                    PROVE  /\ k > RecoverAfter
                           /\ \A j \in k - RecoverAfter .. k - 1 : log'[j] = "ok"
        BY <3>1 DEF CleanRunBeforeRecovery
      <4>1. CASE k = Len(log) + 1
        BY <2>0, <3>1, <3>4, <3>5, <4>1
      <4>2. CASE k \in 1 .. Len(log)
        BY <2>0, <3>1, <4>2 DEF CleanRunBeforeRecovery
      <4>. QED  BY <2>0, <4>1, <4>2
    <3>. QED  BY <3>2, <3>6
  <2>4. CASE UNCHANGED <<streak, log>>
    BY <2>4 DEF CleanTail, CleanRunBeforeRecovery
  <2>5. \/ UNCHANGED <<streak, log>> \/ Throttle \/ Recover
        \/ \E i \in Items : Take(i)
    BY DEF Next, Generator, Stopped, Worker, vars, FillAborted, Fill, Submit, Filled, Wait,
           TakeRaised, Resume, Abandon, Keep, Wake, Poll, Exit, Finish, RequestAbort
  <2>. QED  BY <2>1, <2>2, <2>3, <2>4, <2>5
<1>. QED  BY <1>1, <1>2, TypeCorrect, PTL DEF Spec

(* An overload nobody has answered holds the runner between the wave that  *)
(* reported it and the lowering of the limit.                              *)
OwedIsHeld ==
  Owed => pc \in Leaving \/ (throttled /\ pc \in {"take", "yielded", "adapt"})

(* No item is started while an overload is unanswered.                     *)
THEOREM OverloadComesFirst == Spec => OverloadAnsweredFirst
<1>1. Init => OwedIsHeld
  BY DEF Init, OwedIsHeld, Owed
<1>2. TypeOK /\ OwedIsHeld /\ [Next]_vars => OwedIsHeld'
  <2>. SUFFICES ASSUME TypeOK, OwedIsHeld, [Next]_vars PROVE OwedIsHeld'
    OBVIOUS
  <2>. USE DEF control, work, told, Leaving
  <2>0. Len(log) \in Nat
    BY DEF TypeOK
  <2>1. ASSUME NEW i \in Items, Take(i) PROVE OwedIsHeld'
    <3>1. /\ Len(log') = Len(log) + 1 /\ log'[Len(log) + 1] = future[i]
          /\ \A j \in 1 .. Len(log) : log'[j] = log[j]
      BY <2>1 DEF Take, TypeOK
    <3>2. Owed' => Owed \/ future[i] = "overload"
      BY <2>0, <3>1 DEF Owed
    <3>3. pc = "take" /\ pc' = "yielded"
      BY <2>1 DEF Take
    <3>4. Owed => throttled
      BY <3>3 DEF OwedIsHeld
    <3>5. throttled \/ future[i] = "overload" => throttled'
      BY <2>1 DEF Take, Overloaded
    <3>. QED  BY <3>2, <3>3, <3>4, <3>5 DEF OwedIsHeld
  <2>2. CASE Throttle
    <3>1. /\ Len(log') = Len(log) + 1 /\ log'[Len(log) + 1] = "down"
          /\ \A j \in 1 .. Len(log) : log'[j] = log[j]
      BY <2>2 DEF Throttle, TypeOK
    <3>2. ~Owed'
      BY <2>0, <3>1 DEF Owed
    <3>. QED  BY <3>2 DEF OwedIsHeld
  <2>3. CASE Recover
    <3>1. /\ Len(log') = Len(log) + 1 /\ log'[Len(log) + 1] = "up"
          /\ \A j \in 1 .. Len(log) : log'[j] = log[j]
      BY <2>3 DEF Recover, TypeOK
    <3>2. ~Owed
      BY <2>3 DEF Recover, OwedIsHeld
    <3>3. ~Owed'
      BY <2>0, <3>1, <3>2 DEF Owed
    <3>. QED  BY <3>3 DEF OwedIsHeld
  <2>4. CASE UNCHANGED log /\ (Wait \/ Resume)
    <3>1. Owed' <=> Owed
      BY <2>4 DEF Owed
    <3>. QED  BY <2>4, <3>1 DEF Wait, Resume, OwedIsHeld
  <2>5. CASE UNCHANGED <<log, throttled>> /\ (pc' = pc \/ pc' \in Leaving \/ ~Owed)
    <3>1. Owed' <=> Owed
      BY <2>5 DEF Owed
    <3>. QED  BY <2>5, <3>1 DEF OwedIsHeld
  <2>6. \/ UNCHANGED <<log, throttled>> /\ (pc' = pc \/ pc' \in Leaving \/ ~Owed)
        \/ UNCHANGED log /\ (Wait \/ Resume)
        \/ Throttle \/ Recover \/ \E i \in Items : Take(i)
    BY DEF Next, Generator, Stopped, Worker, vars, FillAborted, Fill, Submit, Filled, Wait, OwedIsHeld,
           TakeRaised, Resume, Abandon, Keep, Wake, Poll, Exit, Finish, RequestAbort
  <2>. QED  BY <2>1, <2>2, <2>3, <2>4, <2>5, <2>6
<1>3. OwedIsHeld /\ [Next]_vars => [pending' # pending /\ Owed => active' = active]_vars
  <2>1. OwedIsHeld /\ Submit => ~Owed
    BY DEF Submit, OwedIsHeld, Leaving
  <2>2. [Next]_vars => Submit \/ pending' = pending \/ active' = active
    BY DEF Next, Generator, Stopped, Worker, vars, control, work, told, FillAborted, Fill, Filled,
           Wait, Take, TakeRaised, Resume, Abandon, Throttle, Recover, Keep, Wake, Poll, Exit,
           Finish, RequestAbort
  <2>. QED  BY <2>1, <2>2
<1>. QED  BY <1>1, <1>2, <1>3, TypeCorrect, PTL DEF Spec, OverloadAnsweredFirst

-----------------------------------------------------------------------------
(* The stage of an item follows from its future and from its delivery.     *)
LEMMA StageOf ==
  ASSUME TypeOK, Custody, NEW i \in Items
  PROVE  /\ future[i] = "none" => Stage(i) = "waiting"
         /\ future[i] = "running" => Stage(i) = "running"
         /\ i \in yielded => Stage(i) = "delivered"
         /\ future[i] \notin {"none", "running"} /\ i \notin yielded => Stage(i) = "finished"
<1>1. i \in yielded => future[i] \notin {"none", "running"}
  BY DEF Custody, Results
<1>. QED  BY <1>1 DEF Stage

(* A step that leaves the futures and the deliveries alone moves no item.  *)
LEMMA StageFrame ==
  ASSUME UNCHANGED <<future, yielded>>
  PROVE  [i \in Items |-> Stage(i)]' = [i \in Items |-> Stage(i)]
BY DEF Stage

(* A step that changes the stage of one item is a move of the pool.        *)
LEMMA StageMove ==
  ASSUME NEW i \in Items, NEW from, NEW to,
         \A j \in Items \ {i} : Stage(j)' = Stage(j),
         Stage(i) = from, Stage(i)' = to, pc \notin Leaving, pc' \notin Leaving
  PROVE  Pool!Move(i, from, to)
<1>1. \A j \in Items : Stage(j)' = IF j = i THEN to ELSE Stage(j)
  OBVIOUS
<1>2. [j \in Items |-> Stage(j)]' = [[j \in Items |-> Stage(j)] EXCEPT ![i] = to]
  BY <1>1
<1>3. UNCHANGED (pc \in {"exit", "end"})
  BY DEF Leaving
<1>. QED  BY <1>2, <1>3 DEF Pool!Move

(* While the runner schedules, what the pool counts is what is in flight.  *)
LEMMA InFlight ==
  ASSUME TypeOK, Custody, pc \notin Leaving
  PROVE  Pool!At("running") \cup Pool!At("finished") = active
<1>1. \A i \in Items : i \in active <=> Stage(i) \in {"running", "finished"}
  <2>. SUFFICES ASSUME NEW i \in Items PROVE i \in active <=> Stage(i) \in {"running", "finished"}
    OBVIOUS
  <2>1. i \in active => Stage(i) \in {"running", "finished"}
    BY StageOf DEF Custody
  <2>2. i \notin active => future[i] = "none" \/ i \in yielded
    BY DEF Custody, Started
  <2>3. i \notin active => Stage(i) \notin {"running", "finished"}
    BY <2>2, StageOf
  <2>. QED  BY <2>1, <2>3
<1>2. active \subseteq Items
  BY DEF TypeOK
<1>. QED  BY <1>1, <1>2 DEF Pool!At

(* The runner is a work pool of the width its policy allows.               *)
THEOREM RunnerIsPool == Spec => ImplementsPool
<1>1. Init => Pool!Init
  <2>. SUFFICES ASSUME Init PROVE Pool!Init
    OBVIOUS
  <2>1. [i \in Items |-> Stage(i)] = [i \in Items |-> "waiting"]
    BY DEF Init, Stage
  <2>2. pc \in {"exit", "end"} => Items = {}
    BY DEF Init, Items
  <2>. QED  BY <2>1, <2>2 DEF Pool!Init
<1>2. TypeOK /\ Custody /\ Custody' /\ TypeOK' /\ [Next]_vars => [Pool!Next]_(Pool!poolVars)
  <2>. SUFFICES ASSUME TypeOK, Custody, TypeOK', Custody', [Next]_vars
                PROVE  Pool!Next \/ UNCHANGED Pool!poolVars
    OBVIOUS
  <2>. USE DEF control, work, told
  <2>1. ASSUME UNCHANGED <<future, yielded>>, pc \notin Leaving
        PROVE  Pool!Next \/ UNCHANGED Pool!poolVars
    <3>1. UNCHANGED [i \in Items |-> Stage(i)]
      BY <2>1, StageFrame
    <3>2. CASE pc' \in Leaving
      BY <3>1, <3>2 DEF Pool!Next, Pool!Close, Leaving
    <3>3. CASE pc' \notin Leaving
      BY <2>1, <3>1, <3>3 DEF Pool!poolVars, Leaving
    <3>. QED  BY <3>2, <3>3
  <2>2. ASSUME UNCHANGED <<future, yielded>>, pc \in Leaving, pc' \in Leaving
        PROVE  Pool!Next \/ UNCHANGED Pool!poolVars
    <3>1. UNCHANGED [i \in Items |-> Stage(i)]
      BY <2>2, StageFrame
    <3>. QED  BY <2>2, <3>1 DEF Pool!poolVars, Leaving
  <2>3. CASE Submit
    <3>1. PICK i \in pending : future' = [future EXCEPT ![i] = "running"]
      BY <2>3 DEF Submit
    <3>2. i \in Items /\ future[i] = "none" /\ future'[i] = "running"
      BY <3>1 DEF TypeOK, Custody
    <3>0. i \notin yielded'
      BY <3>2 DEF Custody, Results
    <3>3. \A j \in Items \ {i} : Stage(j)' = Stage(j)
      BY <2>3, <3>1, <3>2 DEF Submit, TypeOK, Stage
    <3>4. Stage(i) = "waiting" /\ Stage(i)' = "running"
      <4>1. Stage(i) = "waiting"
        BY <3>2, StageOf
      <4>2. Stage(i)' = "running"
        BY <3>0, <3>2 DEF Stage
      <4>. QED  BY <4>1, <4>2
    <3>5. pc \notin Leaving /\ pc' \notin Leaving
      BY <2>3 DEF Submit, Leaving
    <3>6. Pool!Move(i, "waiting", "running")
      BY <3>2, <3>3, <3>4, <3>5, StageMove
    <3>7. Cardinality(Pool!At("running") \cup Pool!At("finished")) < MaxConcurrency
      <4>1. IsFiniteSet(active)
        <5>1. IsFiniteSet(1 .. N)
          BY FS_Interval, RunnerAssumption
        <5>2. active \subseteq 1 .. N
          BY DEF TypeOK, Items
        <5>. QED  BY <5>1, <5>2, FS_Subset
      <4>2. Cardinality(active) \in Nat
        BY <4>1, FS_CardinalityType
      <4>3. Cardinality(active) < MaxConcurrency
        BY <2>3, <4>2, RunnerAssumption DEF Submit, HasRoom, TypeOK
      <4>. QED  BY <3>5, <4>3, InFlight
    <3>8. (pc \in {"exit", "end"}) = FALSE
      BY <3>5 DEF Leaving
    <3>9. Pool!Cardinality(Pool!At("running") \cup Pool!At("finished")) < MaxConcurrency
      BY <3>7 DEF Pool!Cardinality, Cardinality
    <3>10. Pool!Start(i)
      BY <3>6, <3>8, <3>9 DEF Pool!Start
    <3>. QED  BY <3>2, <3>10 DEF Pool!Next
  <2>4. ASSUME NEW i \in Items, Take(i) PROVE Pool!Next
    <3>1. i \notin yielded /\ i \in yielded' /\ future[i] \in Results /\ UNCHANGED future
      BY <2>4 DEF Take, TypeOK, Custody
    <3>2. \A j \in Items \ {i} : Stage(j)' = Stage(j)
      BY <2>4, <3>1 DEF Take, Stage
    <3>3. Stage(i) = "finished"
      BY <3>1, StageOf DEF Results
    <3>4. Stage(i)' = "delivered"
      BY <3>1 DEF Stage, Results
    <3>5. pc \notin Leaving /\ pc' \notin Leaving
      BY <2>4 DEF Take, Leaving
    <3>6. Pool!Move(i, "finished", "delivered")
      BY <3>2, <3>3, <3>4, <3>5, StageMove
    <3>. QED  BY <3>5, <3>6 DEF Pool!Next, Pool!Deliver, Leaving
  <2>5. ASSUME NEW i \in Items, Worker(i) PROVE Pool!Next
    <3>1. PICK r \in Finished : Finish(i, r)
      BY <2>5 DEF Worker
    <3>2. i \notin yielded /\ future[i] = "running" /\ future'[i] = r
      BY <3>1 DEF Finish, Custody, Results, TypeOK
    <3>3. \A j \in Items \ {i} : Stage(j)' = Stage(j)
      BY <3>1 DEF Finish, Stage, TypeOK
    <3>4. Stage(i) = "running" /\ Stage(i)' = "finished"
      BY <3>1, <3>2 DEF Finish, Stage, Finished, Results
    <3>5. [j \in Items |-> Stage(j)]' = [[j \in Items |-> Stage(j)] EXCEPT ![i] = "finished"]
      BY <3>3, <3>4
    <3>6. Pool!Finish(i)
      BY <3>1, <3>4, <3>5 DEF Finish, Pool!Finish, Pool!Move
    <3>. QED  BY <3>6 DEF Pool!Next
  <2>6. CASE Exit
    <3>1. UNCHANGED <<future, yielded>> /\ pc \in Leaving /\ pc' \in Leaving
      BY <2>6 DEF Exit, Leaving
    <3>. QED  BY <3>1, <2>2
  <2>7. CASE RequestAbort \/ UNCHANGED vars
    <3>1. UNCHANGED <<future, yielded>> /\ pc' = pc
      BY <2>7 DEF RequestAbort, vars
    <3>2. CASE pc \in Leaving
      BY <3>1, <3>2, <2>2
    <3>3. CASE pc \notin Leaving
      BY <3>1, <3>3, <2>1
    <3>. QED  BY <3>2, <3>3
  <2>8. ASSUME NEW i \in Items, TakeRaised(i) PROVE Pool!Next \/ UNCHANGED Pool!poolVars
    BY <2>1, <2>8 DEF TakeRaised, Leaving
  <2>9. CASE \/ FillAborted \/ Fill \/ Filled \/ Wait \/ Resume \/ Abandon
             \/ Throttle \/ Recover \/ Keep \/ Wake \/ Poll
    BY <2>1, <2>9 DEF FillAborted, Fill, Filled, Wait, Resume, Abandon, Throttle, Recover,
                       Keep, Wake, Poll, Leaving
  <2>. QED
    BY <2>3, <2>4, <2>5, <2>6, <2>7, <2>8, <2>9 DEF Next, Generator, Stopped
<1>. QED  BY <1>1, <1>2, CustodyInvariant, PTL DEF Spec, ImplementsPool, Pool!Spec

-----------------------------------------------------------------------------
(* BackgroundJobs                                                          *)

(* A job not yet started has left no trace, in particular not in the       *)
(* registry, where the abort button could reach it.                        *)
Fresh ==
  /\ \A j \in registry : j <= started
  /\ \A j \in Jobs : j > started =>
       place[j] = "none" /\ status[j] = "none" /\ recorded[j] = 0 /\ late[j] = 0
  /\ \A j \in Jobs : late[j] <= recorded[j]

TypeInv == JobsTypeOK /\ Fresh

(* Starting a job uses the first number not given to one.                  *)
LEMMA NextSlot ==
  ASSUME TypeInv, NEW s \in Sessions, StartJob(s)
  PROVE  /\ started + 1 \in Jobs /\ started' = started + 1
         /\ place[started + 1] = "none" /\ status[started + 1] = "none"
         /\ recorded[started + 1] = 0 /\ late[started + 1] = 0
BY JobsAssumption DEF StartJob, TypeInv, JobsTypeOK, Fresh, Jobs

(* The steps of a thread other than the recording of a result touch only   *)
(* its own place, status and verdict.                                      *)
LEMMA ThreadFrame ==
  ASSUME TypeInv, NEW j \in Jobs,
         Check(j) \/ Exhaust(j) \/ Raise(j) \/ Judge(j) \/ FinishJob(j)
  PROVE  /\ UNCHANGED <<registry, started, recorded, late, aborting, launched, shown, drawn>>
         /\ \A k \in Jobs \ {j} :
              place'[k] = place[k] /\ status'[k] = status[k] /\ verdict'[k] = verdict[k]
BY DEF Check, Exhaust, Raise, Judge, FinishJob, TypeInv, JobsTypeOK, thread, page

(* TypeInv is inductive.                                                   *)
LEMMA TypeInvariant == JobsSpec => []TypeInv
<1>. USE JobsAssumption DEF TypeInv, JobsTypeOK, thread, page
<1>1. JobsInit => TypeInv
  BY DEF JobsInit, Fresh, Running, Jobs, Nothing, NoJob
<1>2. TypeInv /\ [JobsNext]_jobsVars => TypeInv'
  <2>. SUFFICES ASSUME TypeInv, [JobsNext]_jobsVars PROVE TypeInv'
    OBVIOUS
  <2>1. ASSUME NEW s \in Sessions, StartJob(s) PROVE TypeInv'
    <3>. DEFINE n == started + 1
    <3>0. n \in Jobs /\ started' = n /\ started \in Nat
      BY <2>1, NextSlot
    <3>1. /\ registry' = registry \cup {n} /\ launched' = [launched EXCEPT ![s] = n]
          /\ status' = [status EXCEPT ![n] = "running"] /\ place' = [place EXCEPT ![n] = "work"]
          /\ UNCHANGED <<recorded, verdict, late, aborting, shown, drawn>>
      BY <2>1 DEF StartJob
    <3>2. /\ registry' \subseteq Jobs /\ started' \in 0 .. MaxJobs
          /\ launched' \in [Sessions -> 0 .. MaxJobs]
      BY <3>0, <3>1 DEF Jobs
    <3>3. \A j \in Jobs : Running(j)' <=> place'[j] \notin {"none", "over"}
      BY <3>0, <3>1 DEF Running
    <3>4. \A k \in registry' : k <= started'
      BY <3>0, <3>1 DEF Fresh, Jobs
    <3>5. \A j \in Jobs : j > started' =>
            place'[j] = "none" /\ status'[j] = "none" /\ recorded'[j] = 0 /\ late'[j] = 0
      BY <3>0, <3>1 DEF Fresh, Jobs
    <3>. QED  BY <3>0, <3>1, <3>2, <3>3, <3>4, <3>5 DEF Fresh
  <2>2. ASSUME NEW s \in Sessions, Hold(s) PROVE TypeInv'
    BY <2>2 DEF Hold, Fresh, Running, NoJob
  <2>3. ASSUME NEW s \in Sessions, Render(s) PROVE TypeInv'
    <3>1. UNCHANGED <<registry, started, place, status, recorded, verdict, late, aborting, launched>>
      BY <2>3 DEF Render
    <3>2. drawn' \in [Sessions -> [job : 0 .. MaxJobs, look : {"none", "running", "over"}]]
      BY <2>3 DEF Render, Look, Nothing, NoJob
    <3>3. shown' \in [Sessions -> 0 .. MaxJobs]
      BY <2>3 DEF Render, NoJob
    <3>. QED  BY <3>1, <3>2, <3>3 DEF Fresh, Running
  <2>4. ASSUME NEW s \in Sessions, PressAbort(s) PROVE TypeInv'
    <3>1. aborting' \in [Jobs -> BOOLEAN]
      <4>1. aborting' = [j \in Jobs |-> aborting[j] \/ (j \in registry /\ j = drawn[s].job)]
        BY <2>4 DEF PressAbort
      <4>2. \A j \in Jobs : (aborting[j] \/ (j \in registry /\ j = drawn[s].job)) \in BOOLEAN
        OBVIOUS
      <4>. QED  BY <4>1, <4>2
    <3>2. /\ launched' \in [Sessions -> 0 .. MaxJobs]
          /\ UNCHANGED <<registry, started, place, status, recorded, verdict, late, shown, drawn>>
      BY <2>4 DEF PressAbort, NoJob
    <3>. QED  BY <3>1, <3>2 DEF Fresh, Running
  <2>5. ASSUME NEW s \in Sessions, PressClear(s) PROVE TypeInv'
    <3>1. /\ registry' \subseteq registry
          /\ launched' \in [Sessions -> 0 .. MaxJobs] /\ shown' \in [Sessions -> 0 .. MaxJobs]
          /\ UNCHANGED <<started, place, status, recorded, verdict, late, aborting, drawn>>
      BY <2>5 DEF PressClear, NoJob
    <3>. QED  BY <3>1 DEF Fresh, Running
  <2>6. ASSUME NEW j \in Jobs, Record(j) PROVE TypeInv'
    <3>1. place[j] = "work" /\ recorded[j] < Total /\ j <= started
      BY <2>6 DEF Record, Fresh, Jobs
    <3>2. recorded' \in [Jobs -> 0 .. Total]
      BY <2>6, <3>1 DEF Record
    <3>3. late' \in [Jobs -> 0 .. Total] /\ \A k \in Jobs : late'[k] <= recorded'[k]
      BY <2>6, <3>1 DEF Record, Fresh
    <3>4. \A k \in Jobs : k > started' =>
            place'[k] = "none" /\ status'[k] = "none" /\ recorded'[k] = 0 /\ late'[k] = 0
      BY <2>6, <3>1 DEF Record, Fresh, Jobs
    <3>5. \A k \in Jobs : Running(k)' <=> place'[k] \notin {"none", "over"}
      BY <2>6, <3>1 DEF Record, Running
    <3>. QED  BY <2>6, <3>2, <3>3, <3>4, <3>5 DEF Record, Fresh
  <2>7. ASSUME NEW j \in Jobs, Check(j) \/ Exhaust(j) \/ Raise(j) \/ Judge(j) \/ FinishJob(j)
        PROVE  TypeInv'
    <3>1. place[j] \notin {"none", "over"} /\ ~(j > started)
      BY <2>7 DEF Check, Exhaust, Raise, Judge, FinishJob, Fresh
    <3>2. /\ UNCHANGED <<registry, started, recorded, late, aborting, launched, shown, drawn>>
          /\ \A k \in Jobs \ {j} : place'[k] = place[k] /\ status'[k] = status[k]
      BY <2>7, ThreadFrame
    <3>3. /\ place' \in [Jobs -> {"none", "work", "check", "ending", "finish", "over"}]
          /\ status' \in [Jobs -> {"none", "running", "done", "aborted", "error"}]
          /\ verdict' \in [Jobs -> {"done", "aborted"}]
      BY <2>7 DEF Check, Exhaust, Raise, Judge, FinishJob, Verdict
    <3>4. Running(j)' <=> place'[j] \notin {"none", "over"}
      BY <2>7, <3>1 DEF Check, Exhaust, Raise, Judge, FinishJob, Running
    <3>5. \A k \in Jobs : Running(k)' <=> place'[k] \notin {"none", "over"}
      BY <3>2, <3>4 DEF Running
    <3>. QED  BY <3>1, <3>2, <3>3, <3>5 DEF Fresh
  <2>8. CASE UNCHANGED jobsVars
    BY <2>8 DEF jobsVars, Fresh, Running
  <2>. QED
    BY <2>1, <2>2, <2>3, <2>4, <2>5, <2>6, <2>7, <2>8 DEF JobsNext, Thread, Idle
<1>. QED  BY <1>1, <1>2, PTL DEF JobsSpec

(* Every variable keeps its type, and a thread is under way exactly while  *)
(* its job says it is running.                                             *)
THEOREM JobsTypeCorrect == JobsSpec => []JobsTypeOK
<1>. QED  BY TypeInvariant, PTL DEF TypeInv

-----------------------------------------------------------------------------
(* The end of a thread: an item recorded after the abort is the last one,  *)
(* and a thread that stops short of the last item has seen the abort.      *)
EndingInv ==
  \A j \in Jobs :
    /\ late[j] <= 1
    /\ late[j] = 1 => aborting[j] /\ place[j] \in {"check", "ending", "finish", "over"}
    /\ place[j] = "ending" => aborting[j] \/ recorded[j] = Total
    /\ place[j] = "finish" /\ verdict[j] = "done" => recorded[j] = Total
    /\ status[j] = "done" => recorded[j] = Total /\ place[j] = "over"

(* EndingInv is inductive.                                                 *)
LEMMA EndingInvariant == JobsSpec => []EndingInv
<1>. USE JobsAssumption DEF thread, page
<1>1. JobsInit => EndingInv
  BY DEF JobsInit, EndingInv
<1>2. TypeInv /\ EndingInv /\ [JobsNext]_jobsVars => EndingInv'
  <2>. SUFFICES ASSUME TypeInv, EndingInv, [JobsNext]_jobsVars PROVE EndingInv'
    OBVIOUS
  <2>0. \A j \in Jobs : late[j] \in Nat
    BY DEF TypeInv, JobsTypeOK
  <2>1. ASSUME NEW s \in Sessions, StartJob(s) PROVE EndingInv'
    <3>0. /\ started + 1 \in Jobs /\ place[started + 1] = "none" /\ late[started + 1] = 0
      BY <2>1, NextSlot
    <3>1. /\ status' = [status EXCEPT ![started + 1] = "running"]
          /\ place' = [place EXCEPT ![started + 1] = "work"]
          /\ UNCHANGED <<recorded, verdict, late, aborting>>
      BY <2>1 DEF StartJob
    <3>. QED  BY <3>0, <3>1 DEF EndingInv, TypeInv, JobsTypeOK
  <2>2. ASSUME NEW j \in Jobs, Record(j) PROVE EndingInv'
    <3>1. place[j] = "work" /\ late[j] = 0 /\ status[j] = "running"
      <4>1. place[j] = "work" /\ late[j] \in Nat
        BY <2>0, <2>2 DEF Record
      <4>2. status[j] = "running"
        BY <4>1 DEF TypeInv, JobsTypeOK, Running
      <4>3. late[j] <= 1 /\ late[j] # 1
        BY <4>1 DEF EndingInv
      <4>. QED  BY <4>1, <4>2, <4>3
    <3>2. /\ late'[j] = (IF aborting[j] THEN 1 ELSE 0) /\ place'[j] = "check"
          /\ \A k \in Jobs \ {j} : late'[k] = late[k] /\ recorded'[k] = recorded[k] /\ place'[k] = place[k]
          /\ UNCHANGED <<status, verdict, aborting>>
      BY <2>2, <3>1 DEF Record, TypeInv, JobsTypeOK
    <3>. QED  BY <3>1, <3>2 DEF EndingInv
  <2>3. ASSUME NEW j \in Jobs, Check(j) \/ Exhaust(j) \/ Raise(j) \/ Judge(j) \/ FinishJob(j)
        PROVE  EndingInv'
    <3>1. /\ UNCHANGED <<recorded, late, aborting>>
          /\ \A k \in Jobs \ {j} :
               place'[k] = place[k] /\ status'[k] = status[k] /\ verdict'[k] = verdict[k]
      BY <2>3 DEF Check, Exhaust, Raise, Judge, FinishJob, TypeInv, JobsTypeOK
    <3>2. CASE Check(j) \/ Exhaust(j)
      BY <2>0, <3>1, <3>2 DEF Check, Exhaust, EndingInv, TypeInv, JobsTypeOK, Running
    <3>3. CASE Raise(j)
      BY <2>0, <3>1, <3>3 DEF Raise, EndingInv, TypeInv, JobsTypeOK
    <3>4. CASE Judge(j)
      BY <2>0, <3>1, <3>4 DEF Judge, Verdict, EndingInv, TypeInv, JobsTypeOK, Running
    <3>5. CASE FinishJob(j)
      BY <2>0, <3>1, <3>5 DEF FinishJob, EndingInv, TypeInv, JobsTypeOK
    <3>. QED  BY <2>3, <3>2, <3>3, <3>4, <3>5
  <2>4. ASSUME NEW s \in Sessions, PressAbort(s) PROVE EndingInv'
    <3>1. \A j \in Jobs : aborting[j] => aborting'[j]
      BY <2>4 DEF PressAbort
    <3>. QED  BY <2>4, <3>1 DEF PressAbort, EndingInv
  <2>5. CASE UNCHANGED <<thread, aborting>>
    BY <2>5 DEF EndingInv
  <2>. QED
    BY <2>1, <2>2, <2>3, <2>4, <2>5
       DEF JobsNext, Thread, Idle, jobsVars, Hold, Render, PressClear
<1>. QED  BY <1>1, <1>2, TypeInvariant, PTL DEF JobsSpec

(* After the abort flag is up a job records at most the item under way,    *)
(* and a job reported done has recorded every item.                        *)
THEOREM AbortAndDone == JobsSpec => [](AbortHonoured /\ DoneMeansComplete)
<1>1. EndingInv => AbortHonoured /\ DoneMeansComplete
  BY DEF EndingInv, AbortHonoured, DoneMeansComplete
<1>. QED  BY <1>1, EndingInvariant, PTL

(* What the panel shows of a finished job never changes again, whatever    *)
(* is started, cleared or aborted after it.                                *)
THEOREM VerdictsAreFinal == JobsSpec => TerminalIsFinal
<1>1. TypeInv /\ [JobsNext]_jobsVars =>
        [\A j \in Jobs : status[j] \in {"done", "aborted", "error"} =>
           status'[j] = status[j] /\ recorded'[j] = recorded[j]]_jobsVars
  <2>. SUFFICES ASSUME TypeInv, JobsNext, NEW j \in Jobs, status[j] \in {"done", "aborted", "error"}
                PROVE  status'[j] = status[j] /\ recorded'[j] = recorded[j]
    OBVIOUS
  <2>0. place[j] \in {"none", "over"}
    BY DEF TypeInv, JobsTypeOK, Running
  <2>1. ASSUME NEW s \in Sessions, StartJob(s)
        PROVE  status'[j] = status[j] /\ recorded'[j] = recorded[j]
    <3>1. status[started + 1] = "none"
      BY <2>1, NextSlot
    <3>. QED  BY <2>1, <3>1 DEF StartJob, TypeInv, JobsTypeOK
  <2>2. ASSUME NEW k \in Jobs, Thread(k)
        PROVE  status'[j] = status[j] /\ recorded'[j] = recorded[j]
    <3>1. k # j
      BY <2>0, <2>2 DEF Thread, Record, Check, Exhaust, Raise, Judge, FinishJob
    <3>. QED
      BY <2>2, <3>1 DEF Thread, Record, Check, Exhaust, Raise, Judge, FinishJob, TypeInv, JobsTypeOK
  <2>3. CASE UNCHANGED thread
    BY <2>3 DEF thread
  <2>. QED
    BY <2>1, <2>2, <2>3
       DEF JobsNext, Idle, jobsVars, thread, Hold, Render, PressAbort, PressClear
<1>. QED  BY <1>1, TypeInvariant, PTL DEF JobsSpec, TerminalIsFinal

-----------------------------------------------------------------------------
(* What a panel has drawn as over is over for good, whatever was started   *)
(* since, so that its Clear takes no running job out of the registry.      *)
Over(j) == j \in Jobs /\ status[j] \in {"done", "aborted", "error"}

RegistryInv ==
  /\ RunningStaysRegistered
  /\ \A j \in registry : status[j] # "none"
  /\ \A s \in Sessions : drawn[s].look = "over" => Over(drawn[s].job)

(* A running load is never taken out of the registry, for any number of    *)
(* panels, however old the drawing is whose Clear is pressed.              *)
THEOREM RunningJobsAreFound == JobsSpec => []RunningStaysRegistered
<1>. USE JobsAssumption DEF thread, page
<1>1. JobsInit => RegistryInv
  BY DEF JobsInit, RegistryInv, RunningStaysRegistered, Running, Nothing, Over
<1>2. TypeInv /\ RegistryInv /\ [JobsNext]_jobsVars => RegistryInv'
  <2>. SUFFICES ASSUME TypeInv, RegistryInv, [JobsNext]_jobsVars PROVE RegistryInv'
    OBVIOUS
  <2>. USE DEF RegistryInv, RunningStaysRegistered
  <2>0. /\ registry \subseteq Jobs
        /\ status \in [Jobs -> {"none", "running", "done", "aborted", "error"}]
    BY DEF TypeInv, JobsTypeOK
  <2>1. ASSUME NEW s \in Sessions, StartJob(s) PROVE RegistryInv'
    <3>. DEFINE n == started + 1
    <3>0. n \in Jobs /\ status[n] = "none"
      BY <2>1, NextSlot
    <3>1. /\ registry' = registry \cup {n} /\ drawn' = drawn
          /\ status' = [status EXCEPT ![n] = "running"]
      BY <2>1 DEF StartJob
    <3>2. \A j \in Jobs : Running(j)' => j \in registry'
      BY <2>0, <3>1 DEF Running
    <3>3. \A j \in registry' : status'[j] # "none"
      BY <2>0, <3>0, <3>1
    <3>4. \A j \in Jobs : Over(j) => j # n /\ Over(j)'
      BY <2>0, <3>0, <3>1 DEF Over
    <3>5. \A t \in Sessions : drawn'[t].look = "over" => Over(drawn[t].job)'
      BY <3>1, <3>4 DEF Over
    <3>. QED  BY <3>2, <3>3, <3>5
  <2>2. ASSUME NEW s \in Sessions, Render(s) PROVE RegistryInv'
    <3>1. UNCHANGED <<registry, status>>
      BY <2>2 DEF Render
    <3>2. \A j \in registry : Look(j) = "over" => Over(j)
      BY <2>0 DEF Look, Over, Running
    <3>3. \A t \in Sessions : drawn'[t].look = "over" => Over(drawn'[t].job)
      <4>1. CASE shown[s] \in registry /\ drawn' = [drawn EXCEPT ![s] = [job |-> shown[s], look |-> Look(shown[s])]]
        BY <3>2, <4>1 DEF TypeInv, JobsTypeOK
      <4>2. CASE drawn' = [drawn EXCEPT ![s] = Nothing]
        BY <4>2 DEF Nothing, TypeInv, JobsTypeOK
      <4>. QED  BY <2>2, <4>1, <4>2 DEF Render
    <3>. QED  BY <3>1, <3>3 DEF Running, Over
  <2>3. ASSUME NEW s \in Sessions, PressClear(s) PROVE RegistryInv'
    <3>1. Over(drawn[s].job) /\ registry' = registry \ {drawn[s].job} /\ UNCHANGED <<status, drawn>>
      BY <2>3 DEF PressClear, Cleared
    <3>. QED  BY <3>1 DEF Running, Over
  <2>4. ASSUME NEW j \in Jobs, Thread(j) PROVE RegistryInv'
    <3>1. Running(j) /\ UNCHANGED <<registry, drawn>>
      BY <2>4 DEF Thread, Record, Check, Exhaust, Raise, Judge, FinishJob, TypeInv, JobsTypeOK
    <3>2. /\ \A k \in Jobs : k # j => status'[k] = status[k]
          /\ status'[j] # "none"
      BY <2>0, <2>4, <3>1
         DEF Thread, Record, Check, Exhaust, Raise, Judge, FinishJob, Running, Verdict, TypeInv, JobsTypeOK
    <3>3. \A k \in Jobs : Running(k)' => Running(k)
      BY <3>1, <3>2 DEF Running
    <3>4. \A k \in Jobs : Over(k) => Over(k)'
      BY <3>1, <3>2 DEF Over, Running
    <3>5. \A t \in Sessions : drawn'[t].look = "over" => Over(drawn[t].job)'
      BY <3>1, <3>4 DEF Over
    <3>. QED  BY <2>0, <3>1, <3>2, <3>3, <3>5
  <2>5. CASE UNCHANGED <<registry, status, drawn>>
    BY <2>5 DEF Running, Over
  <2>. QED
    BY <2>1, <2>2, <2>3, <2>4, <2>5 DEF JobsNext, Idle, jobsVars, PressAbort, Hold
<1>3. RegistryInv => RunningStaysRegistered
  BY DEF RegistryInv
<1>. QED  BY <1>1, <1>2, <1>3, TypeInvariant, PTL DEF JobsSpec
=============================================================================
