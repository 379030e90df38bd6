------------------------------ MODULE ManifestRun ------------------------------
(***************************************************************************)
(* The Manifest page: validate, check the legal tag, submit to the workflow*)
(* service, poll the run to its end, verify by search; the rows it leaves  *)
(* in the local run history, and the History page that purges them.        *)
(*                                                                         *)
(* The page is one Streamlit script.  A click or an edit stops the script  *)
(* where it next touches the session and starts it again from the top, so  *)
(* the writes to the session that matter are steps of their own and what   *)
(* the script held in local variables is lost between two of them.         *)
(* The sticky error banner, the latency log and the option lists of the    *)
(* form are left out: nothing below reads them.                            *)
(***************************************************************************)
EXTENDS RunHistory, Integers

CONSTANTS
  MaxRuns,     \* runs the service ever accepts
  MaxClicks,   \* interactions of the operator
  Timeout      \* POLL_TIMEOUT_SECONDS, in ticks of the clock

ASSUME ManifestAssumption ==
  MaxRuns \in Nat /\ MaxClicks \in Nat /\ Timeout \in Nat \ {0} /\ NoRow \notin Row

Runs  == 1 .. MaxRuns
Unset == -1

(* Classes of manifest text: nothing, not a manifest, the sample with its  *)
(* placeholders, sections that are lists, a Data section that is an object.*)
Texts == {"empty", "bad", "sample", "flat", "object"}
Buttons == {"none", "dismiss", "sample", "generate", "clear", "clear below", "validate"}
Statuses == {"none", "in_progress", "unknown", "finished", "failed"}

VARIABLES
  svc,       \* the service's side of each run
  rows,      \* workflow_runs
  overdue,   \* runs the page gave up polling for their age
  run,       \* RUN_ID, 0 if none
  age,       \* time since SUBMIT_STARTED_AT, Unset if there is none
  kinds,     \* the run whose kinds are in KINDS, 0 if it is empty
  status,    \* WORKFLOW_STATUS
  polling,   \* POLLING_ACTIVE
  done,      \* VERIFICATION_DONE
  results,   \* the run whose kinds VERIFICATION_RESULTS are about, 0 if none
  source,    \* MANIFEST_SUBMIT_SOURCE
  text,      \* MANIFEST_TEXT
  pending,   \* MANIFEST_BUILDER_PENDING_TEXT is set
  pc,        \* where the script stands
  pressed,   \* the button this script run was started by
  mine,      \* submit_result.run_id, 0 if none
  step,      \* the next write of the submit pipeline, or of a clear
  tag,       \* the submit source popped for the row
  clicks     \* interactions so far

form    == <<source, text, pending>>
shown   == <<run, age, kinds, status, polling, done, results>>
local   == <<mine, step, tag>>
script  == <<pc, pressed, local>>
vars    == <<svc, rows, overdue, shown, form, script, clicks>>

Fresh ==
  /\ run = 0 /\ age = Unset /\ kinds = 0 /\ status = "none" /\ polling = FALSE
  /\ done = FALSE /\ results = 0
  /\ source = "manifest_page" /\ text = "empty" /\ pending = FALSE

Init ==
  /\ svc = [r \in Runs |-> "none"] /\ rows = [r \in Runs |-> NoRow] /\ overdue = {}
  /\ Fresh
  /\ pc = "top" /\ pressed = "none" /\ mine = 0 /\ step = 0 /\ tag = "manifest_page"
  /\ clicks = 0

Made == {r \in Runs : svc[r] # "none"}

-----------------------------------------------------------------------------
(* Where a script goes next                                                *)

Goto(p) == pc' = p /\ UNCHANGED <<pressed, local>>
Restart(b) == pc' = "top" /\ pressed' = b /\ mine' = 0 /\ step' = 0 /\ tag' = "manifest_page"
Rerun   == Restart("none")

(* Without a connection, or without a sign-in, the page shows nothing.     *)
PreflightFails ==
  /\ pc = "top"
  /\ Goto("away")
  /\ UNCHANGED <<svc, rows, overdue, shown, form, clicks>>

(* The Builder's text is moved into the editor before the editor is drawn. *)
Prime ==
  /\ pc = "top"
  /\ text' = IF pending THEN "object" ELSE text
  /\ pending' = FALSE
  /\ Goto("act")
  /\ UNCHANGED <<svc, rows, overdue, shown, source, clicks>>

(* The keys about the run shown are written one at a time and in this      *)
(* order, after a submit as well as by _clear_history_and_state.           *)
Write(r, a, k, st, p) ==
  /\ run'     = IF step = 1 THEN r ELSE run
  /\ age'     = IF step = 2 THEN a ELSE age
  /\ kinds'   = IF step = 3 THEN k ELSE kinds
  /\ status'  = IF step = 4 THEN st ELSE status
  /\ polling' = IF step = 5 THEN p ELSE polling
  /\ done'    = IF step = 6 THEN FALSE ELSE done
  /\ results' = IF step = 7 THEN 0 ELSE results
  /\ step' = step + 1

StartClear == pc' = "clear" /\ step' = 1 /\ UNCHANGED <<pressed, mine, tag>>

ClearHistoryAndState ==
  /\ pc = "clear"
  /\ \/ step < 8 /\ Write(0, Unset, 0, "none", FALSE) /\ UNCHANGED <<pc, pressed, mine, tag>>
     \/ step = 8 /\ Rerun /\ UNCHANGED shown
  /\ UNCHANGED <<svc, rows, overdue, form, clicks>>

-----------------------------------------------------------------------------
(* The buttons above the status block                                      *)

NoButton ==
  /\ pc = "act" /\ pressed \in {"none", "clear below"}
  /\ Goto("status")
  /\ UNCHANGED <<svc, rows, overdue, shown, form, clicks>>

DismissError ==
  /\ pc = "act" /\ pressed = "dismiss"
  /\ Rerun
  /\ UNCHANGED <<svc, rows, overdue, shown, form, clicks>>

InsertSample ==
  /\ pc = "act" /\ pressed = "sample"
  /\ text' = "sample" /\ Rerun
  /\ UNCHANGED <<svc, rows, overdue, shown, source, pending, clicks>>

(* _handle_generate_click: a field is missing, or the manifest is built.   *)
Generate ==
  /\ pc = "act" /\ pressed = "generate"
  /\ \/ Goto("status") /\ UNCHANGED form
     \/ pending' = TRUE /\ source' = "builder" /\ Rerun /\ UNCHANGED text
  /\ UNCHANGED <<svc, rows, overdue, shown, clicks>>

Clear ==
  /\ pc = "act" /\ pressed = "clear"
  /\ StartClear
  /\ UNCHANGED <<svc, rows, overdue, shown, form, clicks>>

-----------------------------------------------------------------------------
(* The submit pipeline                                                     *)

Resolved(t) == IF t = "sample" THEN "flat" ELSE t
Valid(t)    == t \in {"flat", "object"}

(* Only the items of sections that are lists have their kinds extracted.   *)
HasKinds(t) == t = "flat"

(* A field is missing, or the text is no manifest.                         *)
Reject ==
  /\ pc = "act" /\ pressed = "validate"
  /\ Goto("status")
  /\ UNCHANGED <<svc, rows, overdue, shown, form, clicks>>

Validate ==
  /\ pc = "act" /\ pressed = "validate"
  /\ Valid(Resolved(text)) /\ Goto("legal")
  /\ UNCHANGED <<svc, rows, overdue, shown, form, clicks>>

(* No token, or the tag is not valid, or the answer tells nothing: the     *)
(* pipeline stops and the script goes on below it.                         *)
CheckLegalTag ==
  /\ pc = "legal"
  /\ Goto("status") \/ Goto("submit")
  /\ UNCHANGED <<svc, rows, overdue, shown, form, clicks>>

(* The service refuses; or it takes the run, and its answer is lost or     *)
(* names no run id; or the page learns the run id.                         *)
Submit ==
  /\ pc = "submit"
  /\ \/ Goto("status") /\ UNCHANGED svc
     \/ \E r \in Runs \ Made :
          /\ \A q \in Runs \ Made : r <= q
          /\ svc' = [svc EXCEPT ![r] = "running"]
          /\ \/ Goto("status")
             \/ mine' = r /\ step' = 1 /\ pc' = "save" /\ UNCHANGED <<pressed, tag>>
  /\ UNCHANGED <<rows, overdue, shown, form, clicks>>

(* slip: the kinds are set by default only, as the other keys are          *)
KindsKept == IF kinds # 0 THEN kinds ELSE IF HasKinds(Resolved(text)) THEN mine ELSE 0

KindsSubmitted == IF HasKinds(Resolved(text)) THEN mine ELSE 0

(* What the answer to the submit says of the run's status.                 *)
Told == {"in_progress", "unknown"} \cup ({svc[mine]} \cap Terminal)

Save ==
  /\ pc = "save" /\ step < 8
  /\ \E st \in Told : Write(mine, 0, KindsSubmitted, st, TRUE)
  /\ UNCHANGED <<svc, rows, overdue, form, pc, pressed, mine, tag, clicks>>

PopSource ==
  /\ pc = "save" /\ step = 8
  /\ tag' = source /\ source' = "manifest_page" /\ step' = 9
  /\ UNCHANGED <<svc, rows, overdue, shown, text, pending, pc, pressed, mine, clicks>>

RecordSubmit ==
  /\ pc = "save" /\ step = 9
  /\ rows' \in Written(rows, AfterSubmit(rows, mine, tag))
  /\ Rerun
  /\ UNCHANGED <<svc, overdue, shown, form, clicks>>

-----------------------------------------------------------------------------
(* The status block: one poll in each script run                           *)

(* Without a run id, or a start to count from, the block draws nothing.    *)
Polled == run # 0 /\ age # Unset /\ polling

Active == pc = "status" /\ Polled

ToVerify ==
  /\ pc = "status" /\ ~Polled
  /\ Goto("verify")
  /\ UNCHANGED <<svc, rows, overdue, shown, form, clicks>>

(* No token now: polling stops.                                            *)
NoToken ==
  /\ Active /\ age < Timeout
  /\ polling' = FALSE /\ Goto("verify")
  /\ UNCHANGED <<svc, rows, overdue, run, age, kinds, status, done, results, form, clicks>>

(* slip: a poll that fails counts as a failed run                          *)
AnswersOrFails(r) == {"failed"} \cup {IF svc[r] = "running" THEN "in_progress" ELSE svc[r]}

(* What a poll may answer: the service's status, or nothing usable.        *)
Answers(r) == {"unknown"} \cup {IF svc[r] = "running" THEN "in_progress" ELSE svc[r]}

(* slip: the age of the run is not looked at                               *)
PollAtAnyAge ==
  /\ Active
  /\ status' \in Answers(run)
  /\ IF status' \in Terminal THEN Goto("close") ELSE Rerun
  /\ UNCHANGED <<svc, rows, overdue, run, age, kinds, polling, done, results, form, clicks>>

(* slip: a poll without an answer is recorded as a failure, and polling    *)
(* goes on                                                                 *)
PollRecordsSilence ==
  /\ Active /\ age < Timeout
  /\ status' \in Answers(run)
  /\ IF status' \in Terminal THEN Goto("close") ELSE Rerun
  /\ rows' = IF status' = "unknown" THEN AfterFinish(rows, run, "failed") ELSE rows
  /\ UNCHANGED <<svc, overdue, run, age, kinds, polling, done, results, form, clicks>>

(* A run still under way is polled again by the next script run.           *)
Poll ==
  /\ Active /\ age < Timeout
  /\ status' \in Answers(run)
  /\ IF status' \in Terminal THEN Goto("close") ELSE Rerun
  /\ UNCHANGED <<svc, rows, overdue, run, age, kinds, polling, done, results, form, clicks>>

Expire ==
  /\ Active /\ age >= Timeout
  /\ status' = "failed" /\ Goto("expire")
  /\ UNCHANGED <<svc, rows, overdue, run, age, kinds, polling, done, results, form, clicks>>

GiveUp ==
  /\ pc = "expire"
  /\ polling' = FALSE /\ overdue' = overdue \cup {run}
  /\ rows' \in Written(rows, AfterFinish(rows, run, "failed"))
  /\ Goto("verify")
  /\ UNCHANGED <<svc, run, age, kinds, status, done, results, form, clicks>>

Close ==
  /\ pc = "close"
  /\ polling' = FALSE
  /\ IF status = "finished"
     THEN Goto("finish") /\ UNCHANGED rows
     ELSE Goto("verify") /\ rows' \in Written(rows, AfterFinish(rows, run, "failed"))
  /\ UNCHANGED <<svc, overdue, run, age, kinds, status, done, results, form, clicks>>

RecordFinished ==
  /\ pc = "finish"
  /\ done' = FALSE
  /\ rows' \in Written(rows, AfterFinish(rows, run, "finished"))
  /\ Rerun
  /\ UNCHANGED <<svc, overdue, run, age, kinds, status, polling, results, form, clicks>>

-----------------------------------------------------------------------------
(* Verification, and the end of the script                                 *)

(* The token may be missing; the searches, three at most for a kind,       *)
(* answer in any case.                                                     *)
Verify ==
  /\ pc = "verify"
  /\ \/ status = "finished" /\ ~done /\ results' = kinds /\ Goto("verified")
     \/ Goto("end") /\ UNCHANGED results
  /\ UNCHANGED <<svc, rows, overdue, run, age, kinds, status, polling, done, form, clicks>>

Verified ==
  /\ pc = "verified"
  /\ done' = TRUE /\ Goto("end")
  /\ UNCHANGED <<svc, rows, overdue, run, age, kinds, status, polling, results, form, clicks>>

(* The history panel's own Clear button comes last.                        *)
End ==
  /\ pc = "end"
  /\ IF pressed = "clear below" THEN StartClear ELSE Goto("idle")
  /\ UNCHANGED <<svc, rows, overdue, shown, form, clicks>>

Script ==
  \/ PreflightFails \/ Prime \/ NoButton \/ DismissError \/ InsertSample \/ Generate \/ Clear
  \/ Reject \/ Validate \/ CheckLegalTag \/ Submit \/ Save \/ PopSource \/ RecordSubmit
  \/ ToVerify \/ NoToken \/ Poll \/ Expire \/ GiveUp \/ Close \/ RecordFinished
  \/ Verify \/ Verified \/ End \/ ClearHistoryAndState

-----------------------------------------------------------------------------
(* The operator, at any point of the script                                *)

Interact == clicks < MaxClicks /\ clicks' = clicks + 1

Click(b) ==
  /\ Interact /\ pc # "away" /\ Restart(b)
  /\ UNCHANGED <<svc, rows, overdue, shown, form>>

Edit(t) ==
  /\ Interact /\ pc # "away" /\ Restart("none")
  /\ text' = t
  /\ UNCHANGED <<svc, rows, overdue, shown, source, pending>>

(* To another page, where the connection may be repaired, and back.        *)
Leave ==
  /\ Interact /\ pc # "away"
  /\ pc' = "away" /\ UNCHANGED <<pressed, local>>
  /\ UNCHANGED <<svc, rows, overdue, shown, form>>

Return ==
  /\ pc = "away" /\ Restart("none")
  /\ UNCHANGED <<svc, rows, overdue, shown, form, clicks>>

(* The tab is closed and a new session opened.                             *)
NewSession ==
  /\ Interact
  /\ run' = 0 /\ age' = Unset /\ kinds' = 0 /\ status' = "none" /\ polling' = FALSE
  /\ done' = FALSE /\ results' = 0
  /\ source' = "manifest_page" /\ text' = "empty" /\ pending' = FALSE
  /\ Restart("none")
  /\ UNCHANGED <<svc, rows, overdue>>

(* The History page, in this session or in another.                        *)
Purge ==
  /\ Interact
  /\ \/ \E cutoff \in Runs : rows' = AfterPurge(rows, cutoff)
     \/ rows' = AfterClear(rows)
  /\ UNCHANGED <<svc, overdue, shown, form, script>>

-----------------------------------------------------------------------------
(* The service and the clock                                               *)

RunEnds(r) ==
  /\ svc[r] = "running"
  /\ \E s \in Terminal : svc' = [svc EXCEPT ![r] = s]
  /\ UNCHANGED <<rows, overdue, shown, form, script, clicks>>

Tick ==
  /\ age # Unset /\ age < Timeout
  /\ age' = age + 1
  /\ UNCHANGED <<svc, rows, overdue, run, kinds, status, polling, done, results, form, script, clicks>>

Waiting == pc \in {"idle", "away"} /\ UNCHANGED vars

Next ==
  \/ Script
  \/ \E b \in Buttons : Click(b)
  \/ \E t \in Texts : Edit(t)
  \/ Leave \/ Return \/ NewSession
  \/ Purge
  \/ \E r \in Runs : RunEnds(r)
  \/ Tick \/ Waiting

(* The script runs on and time passes; neither the operator nor the        *)
(* service owes anything.                                                  *)
Spec == Init /\ [][Next]_vars /\ WF_vars(Script) /\ WF_vars(Tick)

-----------------------------------------------------------------------------
Places == {"top", "act", "legal", "submit", "save", "status", "close", "finish", "expire",
           "verify", "verified", "end", "clear", "idle", "away"}

RunsTyped ==
  /\ svc \in [Runs -> {"none", "running"} \cup Terminal]
  /\ rows \in [Runs -> Row \cup {NoRow}] /\ overdue \in SUBSET Runs
  /\ run \in {0} \cup Runs /\ kinds \in {0} \cup Runs /\ results \in {0} \cup Runs
  /\ age \in {Unset} \cup 0 .. Timeout

FormTyped ==
  /\ status \in Statuses /\ text \in Texts /\ source \in {"manifest_page", "builder"}
  /\ polling \in BOOLEAN /\ done \in BOOLEAN /\ pending \in BOOLEAN

ScriptTyped ==
  /\ pc \in Places /\ pressed \in Buttons /\ tag \in {"manifest_page", "builder"}
  /\ mine \in {0} \cup Runs /\ step \in 0 .. 9 /\ clicks \in 0 .. MaxClicks
  /\ (pc = "save" => mine # 0 /\ step # 0)

(* Every variable holds a value of its type.                               *)
TypeOK == RunsTyped /\ FormTyped /\ ScriptTyped

(* A row says finished only of a run the service finished, and failed only *)
(* of one it failed or one the page has given up for its age: an answer    *)
(* that tells nothing is never taken for an outcome.                       *)
OutcomesAreTrue ==
  \A r \in Runs :
    /\ StatusIs(rows, r, "finished") => svc[r] = "finished"
    /\ StatusIs(rows, r, "failed") => svc[r] = "failed" \/ r \in overdue

(* record_workflow_finish writes over whatever the row holds; the page     *)
(* still never changes an outcome, wherever its script is stopped.         *)
OutcomeIsFinal ==
  [][\A r \in Runs : Holds(rows, r) /\ rows[r].status \in Terminal =>
       rows'[r] \in {rows[r], NoRow}]_vars

(* Once the history says that the run shown has finished, what the page    *)
(* shows as its verification is not about another run's kinds.             *)
VerdictIsOfShownRun ==
  run # 0 /\ StatusIs(rows, run, "finished") /\ done => results \in {0, run}

(* As long as the operator stays on the page, the polling of a run ends.   *)
(* POLLING_ACTIVE itself may stay up: a clear stopped by a click leaves it *)
(* up with no run to poll.                                                 *)
PollingEnds == Polled ~> (~Polled \/ pc = "away")
=============================================================================
