---------------------------- MODULE BackgroundJobs ----------------------------
(***************************************************************************)
(* app/services/background_jobs.py and the job panel of the Bulk Load      *)
(* page.  A load runs on a daemon thread; its progress sits in a registry  *)
(* of the process, under a job id that the page keeps in its session.      *)
(* Every press of Load makes a new id (uuid4), so a job goes by its number *)
(* and the registry is a set of jobs; start_job's return of a job that     *)
(* runs under the same id is never reached from the page.                  *)
(*                                                                         *)
(* The panel draws a snapshot with Abort under a running job and Clear     *)
(* under one that is over.  A button belongs to its drawing: pressed later *)
(* it still acts on the job it was drawn with, whatever the session holds  *)
(* by then.                                                                *)
(*                                                                         *)
(* Every access to a job and to the registry is made under its lock, so a  *)
(* step here is one critical section.                                      *)
(***************************************************************************)
EXTENDS Naturals

CONSTANTS
  Sessions,   \* the job panels: one per browser session and tab
  MaxJobs,    \* how many jobs are ever started
  Total       \* results a complete load records

ASSUME JobsAssumption == MaxJobs \in Nat /\ Total \in Nat

Jobs  == 1 .. MaxJobs
NoJob == 0

VARIABLES
  registry,   \* _JOBS: the jobs registered
  started,    \* number of jobs started so far
  place,      \* where each job's thread stands
  status,     \* LoadJob.status
  recorded,   \* number of LoadJob._results
  aborting,   \* LoadJob._abort
  verdict,    \* status the thread is about to set
  late,       \* results recorded after the abort flag went up
  launched,   \* the job each session's script has started and not yet stored
  shown,      \* the job id in each session's state
  drawn       \* what each session's panel drew last, and of which job

thread   == <<place, status, recorded, verdict, late>>
page     == <<launched, shown, drawn>>
jobsVars == <<registry, started, thread, aborting, page>>

Nothing == [job |-> NoJob, look |-> "none"]

JobsInit ==
  /\ registry = {} /\ started = 0
  /\ place = [j \in Jobs |-> "none"] /\ status = [j \in Jobs |-> "none"]
  /\ recorded = [j \in Jobs |-> 0] /\ late = [j \in Jobs |-> 0]
  /\ aborting = [j \in Jobs |-> FALSE] /\ verdict = [j \in Jobs |-> "done"]
  /\ launched = [s \in Sessions |-> NoJob] /\ shown = [s \in Sessions |-> NoJob]
  /\ drawn = [s \in Sessions |-> Nothing]

Running(j) == status[j] = "running"

-----------------------------------------------------------------------------
(* Load: the thread is started, then the session is told of it.  A click   *)
(* in between stops the script: the load runs and no panel knows it.       *)

StartJob(s) ==
  LET j == started + 1 IN
  /\ started < MaxJobs
  /\ started' = j /\ registry' = registry \cup {j}
  /\ status' = [status EXCEPT ![j] = "running"] /\ place' = [place EXCEPT ![j] = "work"]
  /\ launched' = [launched EXCEPT ![s] = j]
  /\ UNCHANGED <<recorded, verdict, late, aborting, shown, drawn>>

Hold(s) ==
  /\ launched[s] # NoJob
  /\ shown' = [shown EXCEPT ![s] = launched[s]]
  /\ launched' = [launched EXCEPT ![s] = NoJob]
  /\ UNCHANGED <<registry, started, thread, aborting, drawn>>

-----------------------------------------------------------------------------
(* The job's thread                                                        *)

(* slip: the item is put back instead of being counted                     *)
RecordNothing(j) ==
  /\ place[j] = "work" /\ recorded[j] < Total
  /\ place' = [place EXCEPT ![j] = "check"]
  /\ UNCHANGED <<registry, started, status, recorded, verdict, late, aborting, page>>

Record(j) ==
  /\ place[j] = "work" /\ recorded[j] < Total
  /\ recorded' = [recorded EXCEPT ![j] = @ + 1]
  /\ late' = [late EXCEPT ![j] = IF aborting[j] THEN @ + 1 ELSE @]
  /\ place' = [place EXCEPT ![j] = "check"]
  /\ UNCHANGED <<registry, started, status, verdict, aborting, page>>

(* if job.aborting: break                                                  *)
Check(j) ==
  /\ place[j] = "check"
  /\ place' = [place EXCEPT ![j] = IF aborting[j] THEN "ending" ELSE "work"]
  /\ UNCHANGED <<registry, started, status, recorded, verdict, late, aborting, page>>

(* The load has no more results; one that polls the flag may stop early.   *)
Exhaust(j) ==
  /\ place[j] = "work" /\ (recorded[j] = Total \/ aborting[j])
  /\ place' = [place EXCEPT ![j] = "ending"]
  /\ UNCHANGED <<registry, started, status, recorded, verdict, late, aborting, page>>

Raise(j) ==
  /\ place[j] = "work"
  /\ place' = [place EXCEPT ![j] = "over"] /\ status' = [status EXCEPT ![j] = "error"]
  /\ UNCHANGED <<registry, started, recorded, verdict, late, aborting, page>>

VerdictBlind(j) == "done"                       \* slip: the flag is not read again
Verdict(j) == IF aborting[j] THEN "aborted" ELSE "done"

(* The verdict is read under the lock, and set in a second critical        *)
(* section.                                                                *)
Judge(j) ==
  /\ place[j] = "ending"
  /\ verdict' = [verdict EXCEPT ![j] = Verdict(j)]
  /\ place' = [place EXCEPT ![j] = "finish"]
  /\ UNCHANGED <<registry, started, status, recorded, late, aborting, page>>

FinishJob(j) ==
  /\ place[j] = "finish"
  /\ status' = [status EXCEPT ![j] = verdict[j]]
  /\ place' = [place EXCEPT ![j] = "over"]
  /\ UNCHANGED <<registry, started, recorded, verdict, late, aborting, page>>

-----------------------------------------------------------------------------
(* The panel                                                               *)

Look(j) == IF Running(j) THEN "running" ELSE "over"

Render(s) ==
  /\ launched[s] = NoJob
  /\ \/ /\ shown[s] \in registry
        /\ drawn' = [drawn EXCEPT ![s] = [job |-> shown[s], look |-> Look(shown[s])]]
        /\ UNCHANGED shown
     \/ /\ shown[s] \notin registry
        /\ drawn' = [drawn EXCEPT ![s] = Nothing]
        /\ shown' = [shown EXCEPT ![s] = NoJob]
  /\ UNCHANGED <<registry, started, thread, aborting, launched>>

PressAbort(s) ==
  /\ drawn[s].look = "running"
  /\ aborting' = [j \in Jobs |-> aborting[j] \/ (j \in registry /\ j = drawn[s].job)]
  /\ launched' = [launched EXCEPT ![s] = NoJob]
  /\ UNCHANGED <<registry, started, thread, shown, drawn>>

ClearedNow(s) == shown[s]                  \* slip: the id is read when Clear is pressed
Cleared(s) == drawn[s].job

PressClear(s) ==
  /\ drawn[s].look = "over"
  /\ registry' = registry \ {Cleared(s)}
  /\ shown' = [shown EXCEPT ![s] = NoJob] /\ launched' = [launched EXCEPT ![s] = NoJob]
  /\ UNCHANGED <<started, thread, aborting, drawn>>

Thread(j) ==
  \/ Record(j) \/ Check(j) \/ Exhaust(j) \/ Raise(j) \/ Judge(j) \/ FinishJob(j)

Idle == (\A j \in Jobs : place[j] \in {"none", "over"}) /\ UNCHANGED jobsVars

JobsNext ==
  \/ \E s \in Sessions :
       StartJob(s) \/ Hold(s) \/ Render(s) \/ PressAbort(s) \/ PressClear(s)
  \/ \E j \in Jobs : Thread(j)
  \/ Idle

(* A thread runs to its end, whoever watches it; the operator owes nothing.*)
JobsSpec == JobsInit /\ [][JobsNext]_jobsVars /\ \A j \in Jobs : WF_jobsVars(Thread(j))

-----------------------------------------------------------------------------
(* Every variable holds a value of its type, and a thread is under way     *)
(* exactly while its job says it is running.                               *)
JobsTypeOK ==
  /\ registry \subseteq Jobs /\ started \in 0 .. MaxJobs
  /\ place \in [Jobs -> {"none", "work", "check", "ending", "finish", "over"}]
  /\ status \in [Jobs -> {"none", "running", "done", "aborted", "error"}]
  /\ recorded \in [Jobs -> 0 .. Total] /\ late \in [Jobs -> 0 .. Total]
  /\ aborting \in [Jobs -> BOOLEAN] /\ verdict \in [Jobs -> {"done", "aborted"}]
  /\ launched \in [Sessions -> 0 .. MaxJobs] /\ shown \in [Sessions -> 0 .. MaxJobs]
  /\ drawn \in [Sessions -> [job : 0 .. MaxJobs, look : {"none", "running", "over"}]]
  /\ \A j \in Jobs : Running(j) <=> place[j] \notin {"none", "over"}

(* A running load is never taken out of the registry, where the panel and  *)
(* the abort look for it: a Clear that was drawn under an earlier load and *)
(* pressed while the next one starts removes the earlier one.              *)
RunningStaysRegistered == \A j \in Jobs : Running(j) => j \in registry

(* What the panel shows of a finished job is final.                        *)
TerminalIsFinal ==
  [][\A j \in Jobs : status[j] \in {"done", "aborted", "error"} =>
       status'[j] = status[j] /\ recorded'[j] = recorded[j]]_jobsVars

(* After the abort flag is up the job records at most the item it had      *)
(* under way.                                                              *)
AbortHonoured == \A j \in Jobs : late[j] <= 1

(* A job is reported done only if every item was recorded, even when the   *)
(* abort raced with its end.                                               *)
DoneMeansComplete == \A j \in Jobs : status[j] = "done" => recorded[j] = Total

(* Every job ends.                                                         *)
JobsEnd == \A j \in Jobs : Running(j) ~> ~Running(j)
=============================================================================
