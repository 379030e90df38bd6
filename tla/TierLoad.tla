-------------------------------- MODULE TierLoad --------------------------------
(***************************************************************************)
(* The Registered Datasets tab of the Bulk Load page: preview a tier,      *)
(* submit its manifests one after the other to the workflow service, and   *)
(* look up what became of the runs; with submit_manifest_paths, which      *)
(* reads, rewrites and submits, and the rows it leaves in the run history. *)
(*                                                                         *)
(* The tab is a part of one Streamlit script.  An interaction stops the    *)
(* script where it next touches the session, the generator it drives with  *)
(* it, and starts the script again from the top.  The folder of a dataset  *)
(* may change at any time: nothing of a manifest is kept between two       *)
(* readings.  A manifest holds one record; the sticky error, the option    *)
(* lists and the notices of the page are left out.                         *)
(***************************************************************************)
EXTENDS RunHistory, FiniteSets

CONSTANTS
  Tiers, NoTier,   \* the enabled tiers of the registered datasets
  Size,            \* manifests of all tiers, numbered in the order of their names
  TierOf,          \* the tier a manifest is in
  Refs,            \* <<m, n>>: the record of m refers to the record of n
  Unstable,        \* manifests whose files may change
  MaxRuns,         \* runs the service ever accepts
  MaxClicks,       \* interactions of the operator
  MaxEdits         \* changes of the folders

Manifests == 1 .. Size
Runs      == 1 .. MaxRuns

ASSUME TierAssumption ==
  /\ Size \in Nat /\ MaxRuns \in Nat /\ MaxClicks \in Nat /\ MaxEdits \in Nat
  /\ NoTier \notin Tiers /\ NoRow \notin Row
  /\ TierOf \in [Manifests -> Tiers]
  /\ Refs \subseteq Manifests \X Manifests /\ Unstable \subseteq Manifests

(* What a run of the service was given: the manifest, the script run that  *)
(* submitted it, whether its record's id carries the load prefix, and      *)
(* which of its references do.                                             *)
Copy    == [of : {0} \cup Manifests, load : 0 .. MaxClicks, renamed : BOOLEAN,
            links : SUBSET Manifests, told : BOOLEAN]
Outcome == [status : {"none", "error", "success"}, run : {0} \cup Runs]
Buttons == {"none", "preview", "submit", "loading", "status"}
NoOutcomes == [m \in Manifests |-> [status |-> "none", run |-> 0]]

VARIABLES
  disk,      \* the state of each manifest's file
  svc,       \* the service's side of each run
  made,      \* what each run was given
  rows,      \* workflow_runs
  lost,      \* runs whose row could not be written
  sel,       \* the tier selected
  prefix,    \* the load prefix is filled
  filled,    \* legal tag and ACL groups are filled
  seen,      \* BULK_PREVIEW_SEEN
  previews,  \* BULK_PREVIEW_RESULTS
  results,   \* BULK_SUBMIT_RESULTS
  statuses,  \* BULK_RUN_STATUS
  abort,     \* BULK_ABORT
  pc,        \* where the script stands
  pressed,   \* the button this script run was started by
  todo,      \* the manifests submit_manifest_paths has not come to
  idmap,     \* the manifests whose record is in its id map
  got,       \* the results the loop has collected
  clicks, edits

service == <<svc, made, rows, lost>>
form    == <<sel, prefix, filled>>
shown   == <<seen, previews, results, statuses>>
local   == <<todo, idmap, got>>
counts  == <<clicks, edits>>
vars    == <<disk, service, form, shown, abort, pc, pressed, local, counts>>

Fresh ==
  /\ seen = NoTier /\ previews = {} /\ results = NoOutcomes
  /\ statuses = [r \in Runs |-> "none"] /\ abort = FALSE

Init ==
  /\ disk = [m \in Manifests |-> "good"]
  /\ svc = [r \in Runs |-> "none"] /\ rows = [r \in Runs |-> NoRow] /\ lost = {}
  /\ made = [r \in Runs |-> [of |-> 0, load |-> 0, renamed |-> FALSE, links |-> {}, told |-> FALSE]]
  /\ sel \in Tiers /\ prefix = FALSE /\ filled = FALSE
  /\ Fresh
  /\ pc = "top" /\ pressed = "none"
  /\ todo = {} /\ idmap = {} /\ got = NoOutcomes
  /\ clicks = 0 /\ edits = 0

Made == {r \in Runs : svc[r] # "none"}

-----------------------------------------------------------------------------
(* Where a script goes next                                                *)

Goto(p)    == pc' = p /\ UNCHANGED <<pressed, local>>
Restart(b) == pc' = "top" /\ pressed' = b /\ todo' = {} /\ idmap' = {} /\ got' = NoOutcomes

(* Without a connection, a sign-in or a data partition there is no page.   *)
PreflightFails ==
  /\ pc = "top" /\ Goto("away")
  /\ UNCHANGED <<disk, service, form, shown, abort, counts>>

(* The registry is read again: a tier that is gone gives way to another,   *)
(* and without any tier the tab ends here.                                 *)
Select ==
  /\ pc = "top"
  /\ sel' \in Tiers
  /\ IF seen \in {NoTier, sel'} THEN Goto("preview") \/ Goto("idle") ELSE Goto("unsee")
  /\ UNCHANGED <<disk, service, prefix, filled, shown, abort, counts>>

(* Another dataset or tier than the one previewed closes the gate.         *)
Unsee ==
  /\ pc = "unsee" /\ seen' = NoTier /\ Goto("unpreview")
  /\ UNCHANGED <<disk, service, form, previews, results, statuses, abort, counts>>

Unpreview ==
  /\ pc = "unpreview" /\ previews' = {} /\ Goto("preview")
  /\ UNCHANGED <<disk, service, form, seen, results, statuses, abort, counts>>

-----------------------------------------------------------------------------
(* The Preview button                                                      *)

(* Reading every manifest of the tier; one that cannot be read, or a tier  *)
(* that is gone by now, fails the preview.                                 *)
Listed == {m \in Manifests : TierOf[m] = sel /\ disk[m] # "absent"}

NoPreview ==
  /\ pc = "preview" /\ pressed # "preview" /\ Goto("gate")
  /\ UNCHANGED <<disk, service, form, shown, abort, counts>>

PreviewFails ==
  /\ pc = "preview" /\ pressed = "preview"
  /\ previews' = {} /\ Goto("unseeing")
  /\ UNCHANGED <<disk, service, form, seen, results, statuses, abort, counts>>

Unseeing ==
  /\ pc = "unseeing" /\ seen' = NoTier /\ Restart("none")
  /\ UNCHANGED <<disk, service, form, previews, results, statuses, abort, counts>>

PreviewTier ==
  /\ pc = "preview" /\ pressed = "preview"
  /\ \A m \in Listed : disk[m] = "good"
  /\ previews' = Listed /\ Goto("seeing")
  /\ UNCHANGED <<disk, service, form, seen, results, statuses, abort, counts>>

Seeing ==
  /\ pc = "seeing" /\ seen' = sel /\ Goto("forget")
  /\ UNCHANGED <<disk, service, form, previews, results, statuses, abort, counts>>

ForgetResults ==
  /\ pc = "forget" /\ results' = NoOutcomes /\ Goto("gate")
  /\ UNCHANGED <<disk, service, form, seen, previews, statuses, abort, counts>>

-----------------------------------------------------------------------------
(* The Submit button                                                       *)

(* Why the button may be disabled: no preview of this tier, or no settings.*)
GateOpen == seen = sel /\ filled

NoSubmit ==
  /\ pc = "gate" /\ (pressed # "submit" \/ ~GateOpen) /\ Goto("status")
  /\ UNCHANGED <<disk, service, form, shown, abort, counts>>

NoToken ==
  /\ pc = "gate" /\ pressed = "submit" /\ Goto("status")
  /\ UNCHANGED <<disk, service, form, shown, abort, counts>>

(* submit_tier looks the tier up once more and raises: the results go, and *)
(* the page starts again with the error.                                   *)
TierIsGone ==
  /\ pc = "gate" /\ pressed = "submit" /\ GateOpen
  /\ results' = NoOutcomes /\ Restart("none")
  /\ UNCHANGED <<disk, service, form, seen, previews, statuses, abort, counts>>

(* The map of ids to rename is built from all the files that can be read   *)
(* now; the loop reads each of them again.                                 *)
IdMap == IF prefix THEN {m \in Listed : disk[m] = "good"} ELSE {}

StartSubmit ==
  /\ pc = "gate" /\ pressed = "submit" /\ GateOpen
  /\ todo' = Listed /\ idmap' = IdMap /\ UNCHANGED got
  /\ pc' = "send" /\ pressed' = "loading"
  /\ UNCHANGED <<disk, service, form, shown, abort, counts>>

Current == CHOOSE m \in todo : \A n \in todo : m <= n

Collect(status, r) ==
  /\ got' = [got EXCEPT ![Current] = [status |-> status, run |-> r]]
  /\ todo' = todo \ {Current}
  /\ pc' = "store" /\ UNCHANGED <<pressed, idmap>>

(* The file cannot be read now, or the service refuses it.                 *)
Unsent ==
  /\ pc = "send" /\ todo # {}
  /\ Collect("error", 0)
  /\ UNCHANGED <<disk, service, form, shown, abort, counts>>

(* slip: every id is rewritten, whether the load knows it or not           *)
AllLinks(m) == {n \in Manifests : <<m, n>> \in Refs /\ prefix}

(* The references apply_prefix_to_body rewrites in a manifest.             *)
Links(m) == {n \in idmap : <<m, n>> \in Refs}

Accepted(r, told) ==
  /\ r \notin Made /\ \A q \in Runs \ Made : r <= q
  /\ made' = [made EXCEPT ![r] = [of |-> Current, load |-> clicks, told |-> told,
                                  renamed |-> Current \in idmap, links |-> Links(Current)]]

(* The service takes the run, and its answer is lost or names no run id.   *)
SendUnanswered ==
  /\ pc = "send" /\ todo # {} /\ disk[Current] = "good"
  /\ \E r \in Runs : Accepted(r, FALSE) /\ svc' = [svc EXCEPT ![r] = "running"]
  /\ Collect("error", 0) \/ Collect("success", 0)
  /\ UNCHANGED <<disk, rows, lost, form, shown, abort, counts>>

(* slip: the row is only updated, as if it were there                      *)
FinishOnly(r, status) == Written(rows, AfterFinish(rows, r, status))

(* _record_submit_history: a row, and the outcome if the answer names one; *)
(* a write that fails is logged, and the load goes on.                     *)
Recorded(r, status) ==
  LET row == AfterSubmit(rows, r, "bulk_load") IN Written(row, AfterFinish(row, r, status))

Unrecorded(r, status) == Written(rows, AfterFinish(rows, r, status))

Send ==
  /\ pc = "send" /\ todo # {} /\ disk[Current] = "good"
  /\ \E r \in Runs, status \in {"running"} \cup Terminal :
       /\ Accepted(r, TRUE) /\ svc' = [svc EXCEPT ![r] = status]
       /\ \/ rows' \in Recorded(r, status) /\ lost' = lost
          \/ rows' \in Unrecorded(r, status) /\ lost' = lost \cup {r}
       /\ Collect("success", r)
  /\ UNCHANGED <<disk, form, shown, abort, counts>>

Store ==
  /\ pc = "store" /\ results' = got /\ Goto("check")
  /\ UNCHANGED <<disk, service, form, seen, previews, statuses, abort, counts>>

(* slip: the loop ends at the first manifest that fails                    *)
CheckAndStop ==
  /\ pc = "check"
  /\ Goto(IF abort \/ \E m \in Manifests : got[m].status = "error" THEN "ended" ELSE "send")
  /\ UNCHANGED <<disk, service, form, shown, abort, counts>>

(* The abort flag is looked at after each manifest.                        *)
Check ==
  /\ pc = "check" /\ Goto(IF abort THEN "ended" ELSE "send")
  /\ UNCHANGED <<disk, service, form, shown, abort, counts>>

Exhaust ==
  /\ pc = "send" /\ todo = {} /\ Goto("ended")
  /\ UNCHANGED <<disk, service, form, shown, abort, counts>>

EndSubmit ==
  /\ pc = "ended" /\ results' = got /\ Goto("status")
  /\ UNCHANGED <<disk, service, form, seen, previews, statuses, abort, counts>>

-----------------------------------------------------------------------------
(* What became of the runs                                                 *)

RunIds == {results[m].run : m \in Manifests} \ {0}

NoStatus ==
  /\ pc = "status" /\ Goto("idle")
  /\ UNCHANGED <<disk, service, form, shown, abort, counts>>

(* slip: a run that cannot be looked up counts as failed                   *)
AnswersOrFails(r) == {"failed", svc[r]}

(* The state of a run, or nothing usable.                                  *)
Answers(r) == {"unknown", svc[r]}

(* Each run is asked for in turn, and the answers are stored together.     *)
CheckIngestionStatus ==
  /\ pc = "status" /\ pressed = "status" /\ RunIds # {}
  /\ \E answer \in [RunIds -> {"unknown", "running"} \cup Terminal] :
       /\ \A r \in RunIds : answer[r] \in Answers(r)
       /\ statuses' = [r \in Runs |-> IF r \in RunIds THEN answer[r] ELSE "none"]
  /\ Goto("idle")
  /\ UNCHANGED <<disk, service, form, seen, previews, results, abort, counts>>

Script ==
  \/ PreflightFails \/ Select \/ Unsee \/ Unpreview
  \/ NoPreview \/ PreviewFails \/ Unseeing \/ PreviewTier \/ Seeing \/ ForgetResults
  \/ NoSubmit \/ NoToken \/ TierIsGone \/ StartSubmit
  \/ Unsent \/ SendUnanswered \/ Send \/ Store \/ Check \/ Exhaust \/ EndSubmit
  \/ NoStatus \/ CheckIngestionStatus

-----------------------------------------------------------------------------
(* The operator, at any point of the script                                *)

Interact == clicks < MaxClicks /\ clicks' = clicks + 1 /\ UNCHANGED edits

Click(b) ==
  /\ Interact /\ (pc = "away" => b = "none") /\ Restart(b)
  /\ UNCHANGED <<disk, service, form, shown, abort>>

Edit ==
  /\ Interact /\ pc # "away" /\ Restart("none")
  /\ \/ sel' \in Tiers \ {sel} /\ UNCHANGED <<prefix, filled>>
     \/ prefix' = ~prefix /\ UNCHANGED <<sel, filled>>
  /\ UNCHANGED <<disk, service, shown, abort>>

(* What is filled once stays filled.                                       *)
Fill ==
  /\ ~filled /\ filled' = TRUE
  /\ pc # "away" /\ Restart("none")
  /\ UNCHANGED <<disk, service, sel, prefix, shown, abort, counts>>

(* _set_bulk_abort runs before the script; the button is there as long as  *)
(* the script run that drew it is the last one.                            *)
Abort ==
  /\ Interact /\ pressed = "loading"
  /\ abort' = TRUE /\ Restart("none")
  /\ UNCHANGED <<disk, service, form, shown>>

NewSession ==
  /\ Interact
  /\ seen' = NoTier /\ previews' = {} /\ results' = NoOutcomes
  /\ statuses' = [r \in Runs |-> "none"] /\ abort' = FALSE
  /\ sel' \in Tiers /\ prefix' = FALSE /\ filled' = FALSE
  /\ Restart("none")
  /\ UNCHANGED <<disk, service>>

-----------------------------------------------------------------------------
(* The folders and the service                                             *)

ChangeFile(m) ==
  /\ edits < MaxEdits /\ edits' = edits + 1
  /\ \E d \in {"absent", "broken", "good"} : disk' = [disk EXCEPT ![m] = d]
  /\ UNCHANGED <<service, form, shown, abort, pc, pressed, local, clicks>>

RunEnds(r) ==
  /\ svc[r] = "running"
  /\ \E s \in Terminal : svc' = [svc EXCEPT ![r] = s]
  /\ UNCHANGED <<disk, made, rows, lost, form, shown, abort, pc, pressed, local, counts>>

Waiting == pc \in {"idle", "away"} /\ UNCHANGED vars

Next ==
  \/ Script
  \/ \E b \in Buttons \ {"loading"} : Click(b)
  \/ Edit \/ Fill \/ Abort \/ NewSession
  \/ \E m \in Unstable : ChangeFile(m)
  \/ \E r \in Runs : RunEnds(r)
  \/ Waiting

Spec == Init /\ [][Next]_vars

-----------------------------------------------------------------------------
(* Every variable holds a value of its type.                               *)
TypeOK ==
  /\ disk \in [Manifests -> {"absent", "broken", "good"}]
  /\ svc \in [Runs -> {"none", "running"} \cup Terminal]
  /\ made \in [Runs -> Copy] /\ rows \in [Runs -> Row \cup {NoRow}] /\ lost \in SUBSET Runs
  /\ sel \in Tiers /\ prefix \in BOOLEAN /\ filled \in BOOLEAN
  /\ seen \in Tiers \cup {NoTier} /\ previews \in SUBSET Manifests
  /\ results \in [Manifests -> Outcome] /\ abort \in BOOLEAN
  /\ statuses \in [Runs -> {"none", "unknown", "running"} \cup Terminal]
  /\ pressed \in Buttons
  /\ pc \in {"top", "unsee", "unpreview", "preview", "unseeing", "seeing", "forget", "gate",
             "send", "store", "check", "ended", "status", "idle", "away"}
  /\ todo \in SUBSET Manifests /\ idmap \in SUBSET Manifests
  /\ got \in [Manifests -> Outcome]
  /\ clicks \in 0 .. MaxClicks /\ edits \in 0 .. MaxEdits

(* Wherever the script is stopped, before the page has listed a run or     *)
(* after: a run whose id the loader was told is in the history, unless the *)
(* write of its row failed, and its row tells no untrue outcome.           *)
RunsAreRecorded ==
  \A r \in Made :
    /\ made[r].told /\ r \notin lost => Holds(rows, r)
    /\ \A s \in Terminal : StatusIs(rows, r, s) => svc[r] = s

(* Links between the records of one load lead to records of that load:     *)
(* a reference carries the prefix just when the record it names does, even *)
(* if files are repaired or broken between the two readings.               *)
LinksAgree ==
  \A r, q \in Made :
    made[r].load = made[q].load /\ <<made[r].of, made[q].of>> \in Refs =>
      (made[q].of \in made[r].links <=> made[q].renamed)

(* What the ingestion status says of a run is, or was, what the service    *)
(* says of it, whatever the page has submitted since.                      *)
StatusesAreTrue ==
  \A r \in Runs : statuses[r] \in Terminal => svc[r] = statuses[r]

(* A load that runs to its end without an abort has an outcome for every   *)
(* manifest it was to submit: one that fails does not end the load. An     *)
(* outcome that names a run names one of that very manifest.               *)
LoadsAreWhole ==
  /\ pc = "ended" /\ ~abort => todo = {}
  /\ \A m \in Manifests : results[m].run # 0 => made[results[m].run].of = m
=============================================================================
