------------------------------ MODULE IntervalLoad ------------------------------
(***************************************************************************)
(* The Smart Tier interval load: run_interval and _run_wp_tier of          *)
(* app/services/interval_loader.py, driven by the work loop of the page's  *)
(* background job, with its ResumableProgress file.  Work-products are     *)
(* submitted by worker threads under the throttled runner, of which this   *)
(* module keeps what WorkPool promises; what succeeded is marked in memory *)
(* and saved to the file every SaveEvery marks and at the end of the tier. *)
(*                                                                         *)
(* A job is one press of the page's button: it reads the file, loads what  *)
(* is not marked in it, may be aborted, may fail, and dies with the        *)
(* process.  All jobs here load the same interval, hence the same file.    *)
(***************************************************************************)
EXTENDS Integers, FiniteSets

CONSTANTS
  Jobs,         \* presses of the button
  Manifests,    \* work-product manifests of the interval
  Width,        \* ThrottlePolicy.max_concurrency
  SaveEvery,    \* ResumableProgress.save_every
  Exclusive,    \* the operator presses again only when no job is running
  Unanswered,   \* a submit may be accepted and yet answered by an error
  Crashes       \* how often the process may die

ASSUME IntervalAssumption ==
  /\ IsFiniteSet(Jobs) /\ IsFiniteSet(Manifests)
  /\ Width \in Nat \ {0} /\ SaveEvery \in Nat \ {0} /\ Crashes \in Nat
  /\ Exclusive \in BOOLEAN /\ Unanswered \in BOOLEAN

VARIABLES
  pc,        \* where each job's thread stands
  after,     \* where it goes on after the check of its abort flag
  status,    \* LoadJob.status, or "none" and "crashed"
  abort,     \* LoadJob._abort
  call,      \* state of each submit of each job
  waiting,   \* manifests of the tier not yet given to the pool
  marked,    \* ResumableProgress._completed of each job
  unsaved,   \* ResumableProgress._since_save
  disk,      \* content of the progress file
  temp,      \* content of its .tmp file
  open,      \* where the file a job is writing lives: "tmp", "disk" or "gone"
  minted,    \* how many times the service has taken each manifest
  doubt,     \* manifests taken by the service and answered by an error
  crashed    \* how often the process has died

job     == <<pc, after, status, abort>>
pool    == <<call, waiting>>
memory  == <<marked, unsaved>>
files   == <<disk, temp, open>>
service == <<minted, doubt>>
vars    == <<job, pool, memory, files, service, crashed>>

(* A file is absent, holds the names it was given, or does not parse.      *)
Files == [state: {"absent", "text", "torn"}, names: SUBSET Manifests]
Text(names) == [state |-> "text", names |-> names]
Absent == [state |-> "absent", names |-> {}]
Torn   == [state |-> "torn", names |-> {}]

Calls    == {"none", "running", "accepted", "ok", "error", "raised", "collected"}

Init ==
  /\ pc = [j \in Jobs |-> "new"] /\ after = [j \in Jobs |-> "tier"]
  /\ status = [j \in Jobs |-> "none"] /\ abort = [j \in Jobs |-> FALSE]
  /\ call = [j \in Jobs |-> [m \in Manifests |-> "none"]]
  /\ waiting = [j \in Jobs |-> {}]
  /\ marked = [j \in Jobs |-> {}] /\ unsaved = [j \in Jobs |-> 0]
  /\ disk = Absent /\ temp = Absent /\ open = [j \in Jobs |-> "gone"]
  /\ minted = [m \in Manifests |-> 0] /\ doubt = {} /\ crashed = 0

Goto(j, place) == pc' = [pc EXCEPT ![j] = place]

(* An event is yielded to the work loop of the job, which records it and   *)
(* then looks at the abort flag.                                           *)
Emit(j, then) == Goto(j, "check") /\ after' = [after EXCEPT ![j] = then]

Busy(j)    == {m \in Manifests : call[j][m] \in {"running", "accepted"}}
Pending(j) == {m \in Manifests : call[j][m] \in {"running", "accepted", "ok", "error", "raised"}}
Running(j) == status[j] = "running"

-----------------------------------------------------------------------------
(* The page and the job                                                    *)

Loaded == IF disk.state = "text" THEN disk.names ELSE {}

(* _start_smart_tier_job: read the progress file, start the thread.        *)
Kick(j) ==
  /\ status[j] = "none"
  /\ Exclusive => \A k \in Jobs : ~Running(k)
  /\ status' = [status EXCEPT ![j] = "running"]
  /\ marked' = [marked EXCEPT ![j] = Loaded]
  /\ Goto(j, "storage")
  /\ UNCHANGED <<after, abort, pool, unsaved, files, service, crashed>>

RequestAbort(j) ==
  /\ Running(j) /\ ~abort[j]
  /\ abort' = [abort EXCEPT ![j] = TRUE]
  /\ UNCHANGED <<pc, after, status, pool, memory, files, service, crashed>>

(* if job.aborting: break, which drops the generator where it is suspended *)
Check(j) ==
  /\ pc[j] = "check"
  /\ Goto(j, IF abort[j] THEN "closing" ELSE after[j])
  /\ UNCHANGED <<after, status, abort, pool, memory, files, service, crashed>>

(* slip: waits for results that nobody collects any more                   *)
CloseOnResults(j) ==
  /\ pc[j] \in {"closing", "failing"}
  /\ IF Pending(j) # {} THEN UNCHANGED vars
     ELSE /\ status' = [status EXCEPT ![j] = "done"] /\ Goto(j, "over")
          /\ UNCHANGED <<after, abort, pool, memory, files, service, crashed>>

(* The thread ends once the pool's workers have: the with block waits.     *)
Close(j) ==
  /\ pc[j] \in {"closing", "failing"} /\ Busy(j) = {}
  /\ status' = [status EXCEPT ![j] = IF pc[j] = "failing" THEN "error"
                                     ELSE IF abort[j] THEN "aborted" ELSE "done"]
  /\ Goto(j, "over")
  /\ UNCHANGED <<after, abort, pool, memory, files, service, crashed>>

-----------------------------------------------------------------------------
(* run_interval: storage tiers are upserts and keep no progress; the tiers *)
(* are entered one after the other, each after a poll of the abort flag.   *)

LoadStorage(j) ==
  /\ pc[j] = "storage" /\ ~abort[j]
  /\ Emit(j, "tier")
  /\ UNCHANGED <<status, abort, pool, memory, files, service, crashed>>

SkipTier(j) ==
  /\ pc[j] \in {"storage", "tier"} /\ abort[j]
  /\ Goto(j, "closing")
  /\ UNCHANGED <<after, status, abort, pool, memory, files, service, crashed>>

AllOfTier(j) == Manifests                \* slip: progress is not consulted
Remaining(j) == Manifests \ marked[j]

OpenTier(j) ==
  /\ pc[j] = "tier" /\ ~abort[j]
  /\ waiting' = [waiting EXCEPT ![j] = Remaining(j)]
  /\ Emit(j, "run")
  /\ UNCHANGED <<status, abort, call, memory, files, service, crashed>>

-----------------------------------------------------------------------------
(* The pool, as WorkPool describes it; it is fed and emptied only while    *)
(* the job's thread is inside the runner.                                  *)

SetCall(j, m, c) == call' = [call EXCEPT ![j][m] = c]

Room(j) == Cardinality(Pending(j)) < Width

(* slip: what is started is not taken off the list                         *)
StartAgain(j, m) ==
  /\ pc[j] = "run" /\ m \in waiting[j] /\ Room(j)
  /\ SetCall(j, m, "running")
  /\ UNCHANGED <<job, waiting, memory, files, service, crashed>>

Start(j, m) ==
  /\ pc[j] = "run" /\ m \in waiting[j] /\ Room(j)
  /\ SetCall(j, m, "running")
  /\ waiting' = [waiting EXCEPT ![j] = @ \ {m}]
  /\ UNCHANGED <<job, memory, files, service, crashed>>

(* The runner sees the abort flag: nothing more is scheduled.              *)
Drain(j) ==
  /\ pc[j] = "run" /\ abort[j] /\ waiting[j] # {}
  /\ waiting' = [waiting EXCEPT ![j] = {}]
  /\ UNCHANGED <<job, call, memory, files, service, crashed>>

(* The service takes the manifest, whoever still waits for the answer.     *)
Accept(j, m) ==
  /\ call[j][m] = "running"
  /\ SetCall(j, m, "accepted")
  /\ minted' = [minted EXCEPT ![m] = @ + 1]
  /\ UNCHANGED <<job, waiting, memory, files, doubt, crashed>>

(* submit_work_products ends in a result, or raises (no token).            *)
Finish(j, m, c) ==
  /\ Running(j)
  /\ \/ c = "ok" /\ call[j][m] = "accepted"
     \/ c = "error" /\ call[j][m] \in {"running"} \cup (IF Unanswered THEN {"accepted"} ELSE {})
     \/ c = "raised" /\ call[j][m] = "running"
  /\ SetCall(j, m, c)
  /\ doubt' = IF c = "error" /\ call[j][m] = "accepted" THEN doubt \cup {m} ELSE doubt
  /\ UNCHANGED <<job, waiting, memory, files, minted, crashed>>

-----------------------------------------------------------------------------
(* A result reaches _run_wp_tier                                           *)

Collected(j, m) == call[j][m] \in {"ok", "error"}         \* slip: failures are marked too
Succeeded(j, m) == call[j][m] = "ok"

SaveLate(j) == unsaved[j] >= SaveEvery         \* slip: off by one
SaveDue(j)  == unsaved[j] + 1 >= SaveEvery

(* mark_and_maybe_save, then the item event.                               *)
CollectOk(j, m) ==
  /\ pc[j] = "run" /\ Succeeded(j, m)
  /\ SetCall(j, m, "collected")
  /\ marked' = [marked EXCEPT ![j] = @ \cup {m}]
  /\ unsaved' = [unsaved EXCEPT ![j] = @ + 1]
  /\ after' = [after EXCEPT ![j] = "run"]
  /\ Goto(j, IF SaveDue(j) THEN "open" ELSE "check")
  /\ UNCHANGED <<status, abort, waiting, files, service, crashed>>

CollectError(j, m) ==
  /\ pc[j] = "run" /\ call[j][m] = "error"
  /\ SetCall(j, m, "collected")
  /\ Emit(j, "run")
  /\ UNCHANGED <<status, abort, waiting, memory, files, service, crashed>>

CollectRaised(j, m) ==
  /\ pc[j] = "run" /\ call[j][m] = "raised"
  /\ Goto(j, "failing")
  /\ UNCHANGED <<after, status, abort, pool, memory, files, service, crashed>>

(* The runner has nothing left: save and announce the end of the tier.     *)
EndTier(j) ==
  /\ pc[j] = "run" /\ waiting[j] = {} /\ Pending(j) = {}
  /\ after' = [after EXCEPT ![j] = "closing"]
  /\ Goto(j, "open")
  /\ UNCHANGED <<status, abort, pool, memory, files, service, crashed>>

-----------------------------------------------------------------------------
(* ResumableProgress.save: truncate the .tmp file, write it, move it over  *)
(* the progress file.  A file that is moved stays open for who writes it.  *)

KeepCount(j)  == unsaved' = unsaved          \* slip: the counter is not reset
ResetCount(j) == unsaved' = [unsaved EXCEPT ![j] = 0]

Truncate(j) ==
  /\ pc[j] = "open"
  /\ ResetCount(j)
  /\ temp' = Torn /\ open' = [open EXCEPT ![j] = "tmp"]
  /\ Goto(j, "write")
  /\ UNCHANGED <<after, status, abort, pool, marked, disk, service, crashed>>

(* Writing over what another job wrote may leave the end of its text.      *)
Overwritten(old, names) == IF old = Torn THEN {Text(names)} ELSE {Text(names), Torn}

Write(j) ==
  /\ pc[j] = "write"
  /\ IF open[j] = "tmp" THEN temp' \in Overwritten(temp, marked[j]) ELSE temp' = temp
  /\ IF open[j] = "disk" THEN disk' \in Overwritten(disk, marked[j]) ELSE disk' = disk
  /\ Goto(j, "replace")
  /\ UNCHANGED <<after, status, abort, pool, memory, open, service, crashed>>

Replace(j) ==
  /\ pc[j] = "replace" /\ temp # Absent
  /\ disk' = temp /\ temp' = Absent
  /\ open' = [k \in Jobs |-> IF open[k] = "tmp" /\ k # j THEN "disk" ELSE "gone"]
  /\ Goto(j, "check")
  /\ UNCHANGED <<after, status, abort, pool, memory, service, crashed>>

(* Another job has moved the .tmp file away: the job fails.                *)
ReplaceMissing(j) ==
  /\ pc[j] = "replace" /\ temp = Absent
  /\ Goto(j, "failing")
  /\ UNCHANGED <<after, status, abort, pool, memory, files, service, crashed>>

-----------------------------------------------------------------------------
(* The process dies: threads and memory are gone, files and requests stay. *)
Crash ==
  /\ crashed < Crashes
  /\ \E j \in Jobs : Running(j)
  /\ status' = [j \in Jobs |-> IF Running(j) THEN "crashed" ELSE status[j]]
  /\ pc' = [j \in Jobs |-> IF Running(j) THEN "over" ELSE pc[j]]
  /\ open' = [j \in Jobs |-> "gone"]
  /\ crashed' = crashed + 1
  /\ UNCHANGED <<after, abort, pool, memory, disk, temp, service>>

Quiet == (\A j \in Jobs : ~Running(j)) /\ UNCHANGED vars

Thread(j) ==
  \/ Check(j) \/ Close(j) \/ LoadStorage(j) \/ SkipTier(j) \/ OpenTier(j)
  \/ \E m \in Manifests : Start(j, m) \/ CollectOk(j, m) \/ CollectError(j, m) \/ CollectRaised(j, m)
  \/ Drain(j) \/ EndTier(j) \/ Truncate(j) \/ Write(j) \/ Replace(j) \/ ReplaceMissing(j)

Worker(j) == \E m \in Manifests, c \in {"ok", "error", "raised"} : Finish(j, m, c)

Next ==
  \/ \E j \in Jobs : Kick(j) \/ RequestAbort(j) \/ Thread(j) \/ Worker(j)
  \/ \E j \in Jobs, m \in Manifests : Accept(j, m)
  \/ Crash \/ Quiet

(* The thread runs, and every submit ends: by its answer or its timeout.   *)
(* A submit the service has taken is answered even if only by an error.    *)
Spec == Init /\ [][Next]_vars /\ \A j \in Jobs : WF_vars(Thread(j)) /\ WF_vars(Worker(j))

-----------------------------------------------------------------------------
(* Every variable holds a value of its type.                               *)
TypeOK ==
  /\ pc \in [Jobs -> {"new", "storage", "tier", "run", "check", "open", "write",
                      "replace", "closing", "failing", "over"}]
  /\ after \in [Jobs -> {"tier", "run", "closing"}]
  /\ status \in [Jobs -> {"none", "running", "done", "aborted", "error", "crashed"}]
  /\ abort \in [Jobs -> BOOLEAN]
  /\ call \in [Jobs -> [Manifests -> Calls]]
  /\ waiting \in [Jobs -> SUBSET Manifests]
  /\ marked \in [Jobs -> SUBSET Manifests] /\ unsaved \in [Jobs -> 0 .. SaveEvery]
  /\ disk \in Files /\ temp \in Files
  /\ open \in [Jobs -> {"tmp", "disk", "gone"}]
  /\ minted \in [Manifests -> 0 .. Cardinality(Jobs)] /\ doubt \in SUBSET Manifests
  /\ crashed \in 0 .. Crashes

(* The progress file never claims a manifest the service has not taken:    *)
(* no failed or unsent work-product is silently left out of every resume.  *)
MarkedMeansMinted ==
  /\ \A j \in Jobs : \A m \in marked[j] : minted[m] > 0
  /\ \A m \in Loaded : minted[m] > 0

(* A manifest the file records is never submitted again.                   *)
SavedNeverResent ==
  [][\A j \in Jobs : \A m \in Manifests :
       m \in Loaded /\ call[j][m] = "none" => call'[j][m] = "none"]_vars

(* What one interruption can make the next run load again: the marks since *)
(* the last save and what was in flight, and never more; a job that says   *)
(* it is done has put every success it saw on the disk.                    *)
AtRisk(j) == (marked[j] \cup {m \in Manifests : call[j][m] \in {"accepted", "ok"}}) \ Loaded
ExposureBounded ==
  \A j \in Jobs :
    /\ Running(j) => Cardinality(AtRisk(j)) <= SaveEvery + Width - 1
    /\ status[j] = "done" => marked[j] \subseteq Loaded

(* A manifest is taken twice only if a job was interrupted (aborted, died  *)
(* or failed) or an answer went missing.                                   *)
DuplicatesHaveACause ==
  (\A j \in Jobs : status[j] \in {"none", "running", "done"}) =>
    \A m \in Manifests \ doubt : minted[m] <= 1

Stage(j, m) ==
  CASE call[j][m] = "none"                    -> "waiting"
    [] call[j][m] \in {"running", "accepted"} -> "running"
    [] call[j][m] = "collected"               -> "delivered"
    [] OTHER                                  -> "finished"

Pool(j) == INSTANCE WorkPool WITH
  Items <- Manifests,
  stage <- [m \in Manifests |-> Stage(j, m)],
  closed <- pc[j] \in {"closing", "failing", "over"}

(* Each job submits as the throttled runner lets it: see ThrottledRunner,  *)
(* which implements the same pool.                                         *)
UsesPool ==
  /\ \A j \in Jobs : Pool(j)!Init
  /\ [][\A j \in Jobs : Pool(j)!Next \/ UNCHANGED Pool(j)!poolVars]_vars

(* Every job comes to an end, aborted or not.                              *)
JobsEnd == \A j \in Jobs : Running(j) ~> ~Running(j)
=============================================================================
