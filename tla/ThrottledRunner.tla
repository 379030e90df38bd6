---------------------------- MODULE ThrottledRunner ----------------------------
(***************************************************************************)
(* run_concurrent_throttled of app/services/concurrency.py: N items go     *)
(* through a thread pool.  The number in flight is kept under a limit that *)
(* is halved when a wave of results reports an overloaded service and that *)
(* recovers by one after RecoverAfter clean results.                       *)
(*                                                                         *)
(* The runner is a generator: it advances only while its consumer asks for *)
(* the next result, the consumer may drop it at any yield, and leaving it, *)
(* however that happens, waits for the workers still under way.  The       *)
(* workers are threads: they finish whenever they like.                    *)
(***************************************************************************)
EXTENDS Integers, Sequences, FiniteSets

CONSTANTS
  N,               \* number of items
  MaxConcurrency,  \* ThrottlePolicy.max_concurrency
  MinConcurrency,  \* ThrottlePolicy.min_concurrency
  RecoverAfter     \* ThrottlePolicy.recover_after_successes

ASSUME RunnerAssumption ==
  /\ N \in Nat
  /\ MinConcurrency \in Nat \ {0}
  /\ MaxConcurrency \in Nat /\ MinConcurrency <= MaxConcurrency
  /\ RecoverAfter \in Nat \ {0}

Items == 1 .. N

VARIABLES
  pc,         \* where the generator stands
  pending,    \* items not yet handed to the pool
  active,     \* items whose futures have not been collected
  future,     \* state of each item's future
  wave,       \* completed futures of this wave still to be collected
  throttled,  \* an overload was seen in this wave
  limit,      \* bound on the items in flight
  streak,     \* consecutive_ok
  abort,      \* what should_abort() returns
  aborted,    \* stats.aborted
  yielded,    \* items whose result reached the consumer
  outcome,    \* why the generator is leaving
  log         \* results and limit changes in the order they happened

control == <<throttled, limit, streak>>
work    == <<pending, active, future, wave>>
told    == <<yielded, log>>
vars    == <<pc, work, control, abort, aborted, told, outcome>>

Results  == {"ok", "failed", "overload"}
Finished == Results \cup {"raised"}

Init ==
  /\ pc = IF N = 0 THEN "end" ELSE "fill"
  /\ pending = Items /\ active = {} /\ future = [i \in Items |-> "none"] /\ wave = {}
  /\ throttled = FALSE /\ limit = MaxConcurrency /\ streak = 0
  /\ abort = FALSE /\ aborted = FALSE
  /\ yielded = {} /\ log = <<>> /\ outcome = "drained"

-----------------------------------------------------------------------------
(* _fill and the test of the loop that follows it                          *)

Await == IF active = {} THEN "exit" ELSE "wait"

FillAborted ==
  /\ pc = "fill" /\ abort
  /\ pc' = Await
  /\ UNCHANGED <<work, control, abort, aborted, told, outcome>>

Fill ==
  /\ pc = "fill" /\ ~abort
  /\ pc' = "submit"
  /\ UNCHANGED <<work, control, abort, aborted, told, outcome>>

HasRoomForOneMore == Cardinality(active) <= limit    \* slip: off by one
HasRoom == Cardinality(active) < limit

Submit ==
  /\ pc = "submit" /\ HasRoom
  /\ \E i \in pending :
       /\ \A j \in pending : i <= j
       /\ pending' = pending \ {i}
       /\ active' = active \cup {i}
       /\ future' = [future EXCEPT ![i] = "running"]
  /\ UNCHANGED <<pc, wave, control, abort, aborted, told, outcome>>

Filled ==
  /\ pc = "submit" /\ (~HasRoom \/ pending = {})
  /\ pc' = Await
  /\ UNCHANGED <<work, control, abort, aborted, told, outcome>>

-----------------------------------------------------------------------------
(* A wave: every future that has completed is collected and yielded.       *)

Completed == {i \in active : future[i] \in Finished}

Wait ==
  /\ pc = "wait" /\ Completed # {}
  /\ wave' = Completed /\ throttled' = FALSE
  /\ pc' = "take"
  /\ UNCHANGED <<pending, active, future, limit, streak, abort, aborted, told, outcome>>

(* slip: a failure does not end the streak                                 *)
StreakKept(r) == IF r = "ok" THEN streak + 1 ELSE streak
Streak(r) == IF r = "ok" THEN streak + 1 ELSE 0

LastOverload(r) == r = "overload"       \* slip: a later result of the wave wins
Overloaded(r) == throttled \/ r = "overload"

Take(i) ==
  /\ pc = "take" /\ i \in wave /\ future[i] \in Results
  /\ wave' = wave \ {i} /\ active' = active \ {i}
  /\ streak' = Streak(future[i])
  /\ throttled' = Overloaded(future[i])
  /\ yielded' = yielded \cup {i} /\ log' = Append(log, future[i])
  /\ pc' = "yielded"
  /\ UNCHANGED <<pending, future, limit, abort, aborted, outcome>>

(* fut.result() raises what work raised, and the generator dies of it.     *)
TakeRaised(i) ==
  /\ pc = "take" /\ i \in wave /\ future[i] = "raised"
  /\ wave' = wave \ {i} /\ active' = active \ {i}
  /\ outcome' = "raised" /\ pc' = "exit"
  /\ UNCHANGED <<pending, future, control, abort, aborted, told>>

(* slip: one result per wave is collected, the others are forgotten        *)
ResumeFirst ==
  /\ pc = "yielded"
  /\ pc' = "adapt"
  /\ active' = active \ wave /\ wave' = {}
  /\ UNCHANGED <<pending, future, control, abort, aborted, told, outcome>>

(* The consumer asks for the next result ...                               *)
Resume ==
  /\ pc = "yielded"
  /\ pc' = IF wave = {} THEN "adapt" ELSE "take"
  /\ UNCHANGED <<work, control, abort, aborted, told, outcome>>

(* ... or drops the generator, which then leaves the pool's with block.    *)
Abandon ==
  /\ pc = "yielded"
  /\ outcome' = "abandoned" /\ pc' = "exit"
  /\ UNCHANGED <<work, control, abort, aborted, told>>

-----------------------------------------------------------------------------
(* The adaptive limit                                                      *)

HalvedBlindly(v) == v \div 2      \* slip: the floor of the policy is forgotten
Halved(v) == IF v \div 2 < MinConcurrency THEN MinConcurrency ELSE v \div 2

Throttle ==
  /\ pc = "adapt" /\ throttled
  /\ limit' = Halved(limit) /\ streak' = 0
  /\ log' = Append(log, "down")
  /\ pc' = "cooldown"
  /\ UNCHANGED <<work, throttled, abort, aborted, yielded, outcome>>

Recovers == streak >= RecoverAfter /\ limit < MaxConcurrency

Recover ==
  /\ pc = "adapt" /\ ~throttled /\ Recovers
  /\ limit' = limit + 1 /\ streak' = 0
  /\ log' = Append(log, "up")
  /\ pc' = "poll"
  /\ UNCHANGED <<work, throttled, abort, aborted, yielded, outcome>>

Keep ==
  /\ pc = "adapt" /\ ~throttled /\ ~Recovers
  /\ pc' = "poll"
  /\ UNCHANGED <<work, control, abort, aborted, told, outcome>>

(* The cooldown is over, and the hard pause when nothing is in flight.     *)
Wake ==
  /\ pc = "cooldown"
  /\ pc' = "poll"
  /\ UNCHANGED <<work, control, abort, aborted, told, outcome>>

(* slip: an abort pauses the runner instead of draining it                 *)
PollPaused ==
  /\ pc = "poll"
  /\ aborted' = (aborted \/ abort)
  /\ pc' = IF abort THEN "poll" ELSE "fill"
  /\ UNCHANGED <<work, control, abort, told, outcome>>

(* The abort flag is polled between waves.                                 *)
Poll ==
  /\ pc = "poll"
  /\ aborted' = (aborted \/ abort)
  /\ pending' = IF abort THEN {} ELSE pending
  /\ pc' = "fill"
  /\ UNCHANGED <<active, future, wave, control, abort, told, outcome>>

(* Leaving the with block waits for every worker.                          *)
Exit ==
  /\ pc = "exit" /\ \A i \in Items : future[i] # "running"
  /\ pc' = "end"
  /\ UNCHANGED <<work, control, abort, aborted, told, outcome>>

-----------------------------------------------------------------------------
(* The environment: a worker's call of work(item), and the operator.       *)

Finish(i, r) ==
  /\ future[i] = "running"
  /\ future' = [future EXCEPT ![i] = r]
  /\ UNCHANGED <<pc, pending, active, wave, control, abort, aborted, told, outcome>>

RequestAbort ==
  /\ pc # "end" /\ ~abort
  /\ abort' = TRUE
  /\ UNCHANGED <<pc, work, control, aborted, told, outcome>>

Stopped == pc = "end" /\ UNCHANGED vars

Generator ==
  \/ FillAborted \/ Fill \/ Submit \/ Filled \/ Wait
  \/ \E i \in Items : Take(i) \/ TakeRaised(i)
  \/ Resume \/ Abandon \/ Throttle \/ Recover \/ Keep \/ Wake \/ Poll \/ Exit

Worker(i) == \E r \in Finished : Finish(i, r)

Next == Generator \/ (\E i \in Items : Worker(i)) \/ RequestAbort \/ Stopped

(* The consumer keeps asking (or leaves), and every call of work ends: each*)
(* HTTP request it makes carries a timeout.  The operator owes nothing.    *)
Spec == Init /\ [][Next]_vars /\ WF_vars(Generator) /\ \A i \in Items : WF_vars(Worker(i))

-----------------------------------------------------------------------------
(* Every variable holds a value of its type; the limit stays between the   *)
(* two bounds of the policy.                                               *)
TypeOK ==
  /\ pc \in {"fill", "submit", "wait", "take", "yielded", "adapt", "cooldown", "poll", "exit", "end"}
  /\ pending \in SUBSET Items /\ active \in SUBSET Items /\ wave \in SUBSET active
  /\ future \in [Items -> {"none", "running"} \cup Finished]
  /\ throttled \in BOOLEAN /\ limit \in MinConcurrency .. MaxConcurrency /\ streak \in Nat
  /\ abort \in BOOLEAN /\ aborted \in BOOLEAN
  /\ yielded \in SUBSET Items
  /\ outcome \in {"drained", "raised", "abandoned"}
  /\ log \in Seq(Results \cup {"down", "up"})

(* The limit rises only right after RecoverAfter clean results in a row:   *)
(* neither a failure nor another change of the limit lies among them.      *)
CleanRunBeforeRecovery ==
  \A k \in 1 .. Len(log) :
    log[k] = "up" =>
      /\ k > RecoverAfter
      /\ \A j \in k - RecoverAfter .. k - 1 : log[j] = "ok"

(* An overload that was reported and not yet answered by a lower limit.    *)
Owed ==
  \E k \in 1 .. Len(log) :
    log[k] = "overload" /\ \A j \in k .. Len(log) : log[j] # "down"

(* While an overload is unanswered no item is started, whatever other      *)
(* results its wave held and in whatever order they were collected.        *)
OverloadAnsweredFirst == [][pending' # pending /\ Owed => active' = active]_vars

(* Unless work raised or the consumer left, everything that was started is *)
(* delivered before the generator ends, and everything there was to start  *)
(* if no abort was asked for.                                              *)
NothingForgotten ==
  pc = "end" /\ outcome = "drained" =>
    /\ {i \in Items : future[i] # "none"} = yielded
    /\ ~abort => yielded = Items

(* The generator comes to an end, whatever the workers answer and whenever *)
(* the abort flag goes up.                                                 *)
Terminates == <>(pc = "end")

Stage(i) ==
  CASE future[i] = "none"    -> "waiting"
    [] future[i] = "running" -> "running"
    [] i \in yielded         -> "delivered"
    [] OTHER                 -> "finished"

Pool == INSTANCE WorkPool WITH
  Width <- MaxConcurrency,
  stage <- [i \in Items |-> Stage(i)],
  closed <- pc \in {"exit", "end"}

(* Through limits, waves, aborts and cooldowns, the runner is a work pool  *)
(* of the width its policy allows.                                         *)
ImplementsPool == Pool!Spec
=============================================================================
