------------------------------- MODULE FileUpload -------------------------------
(***************************************************************************)
(* The File page: a signed URL, the bytes to blob storage, the metadata    *)
(* record that makes them a file; the row of the upload in the local run   *)
(* history, the entry the Manifest Builder picks recent uploads from, and  *)
(* the History page that purges the rows.                                  *)
(*                                                                         *)
(* The page is one Streamlit script.  A click stops the script where it    *)
(* next touches the session, which it does after each of the three calls.  *)
(* Every attempt asks for a URL of its own and registers at most once, so  *)
(* an upload, its FileSource and its record go by the number of its URL.   *)
(* The latency log and the option lists of the form are left out.          *)
(***************************************************************************)
EXTENDS Naturals

CONSTANTS
  MaxUploads,   \* URLs the service ever allocates
  MaxClicks     \* interactions of the operator

ASSUME UploadAssumption == MaxUploads \in Nat /\ MaxClicks \in Nat

Uploads == 1 .. MaxUploads
Buttons == {"none", "dismiss", "upload", "another", "clear"}

(* The file chosen: none, one without a byte, one that fits, one above     *)
(* MAX_FILE_BYTES_V1.                                                      *)
Sizes == {"none", "empty", "fits", "large"}

VARIABLES
  blobs,     \* the storage's side of each URL
  records,   \* uploads the service holds a metadata record of
  rows,      \* file_uploads
  recent,    \* uploads with a summary in FILE_UPLOAD_HISTORY
  result,    \* FILE_UPLOAD_LAST_RESULT: the upload, 0 if none
  named,     \* the result names a record id
  error,     \* FILE_UPLOAD_LAST_ERROR: the phase that failed, "none" if empty
  blamed,    \* the upload whose file id the error names, 0 if none
  size,      \* the file chosen
  filled,    \* legal tag and ACL groups are filled
  pc,        \* where the script stands
  pressed,   \* the button this script run was started by
  mine,      \* the upload this script run is about, 0 if none
  supplied,  \* the service has supplied a file id with the URL
  told,      \* the metadata answer names the record
  clicks     \* interactions so far

service == <<blobs, records>>
shown   == <<recent, result, named, error, blamed>>
form    == <<size, filled>>
local   == <<mine, supplied, told>>
script  == <<pc, pressed, local>>
vars    == <<service, rows, shown, form, script, clicks>>

Fresh == recent = {} /\ result = 0 /\ named = FALSE /\ error = "none" /\ blamed = 0

Init ==
  /\ blobs = [u \in Uploads |-> "none"] /\ records = {} /\ rows = {}
  /\ Fresh
  /\ size = "none" /\ filled = FALSE
  /\ pc = "top" /\ pressed = "none"
  /\ mine = 0 /\ supplied = FALSE /\ told = FALSE
  /\ clicks = 0

-----------------------------------------------------------------------------
(* Where a script goes next                                                *)

Goto(p)    == pc' = p /\ UNCHANGED <<pressed, local>>
Drop       == mine' = 0 /\ supplied' = FALSE /\ told' = FALSE
Restart(b) == pc' = "top" /\ pressed' = b /\ Drop

(* Without a connection, a sign-in or a data partition there is no page.   *)
PreflightFails ==
  /\ pc = "top"
  /\ Goto("away")
  /\ UNCHANGED <<service, rows, shown, form, clicks>>

NoButton ==
  /\ pc = "top" /\ pressed = "none"
  /\ Goto("idle")
  /\ UNCHANGED <<service, rows, shown, form, clicks>>

DismissError ==
  /\ pc = "top" /\ pressed = "dismiss"
  /\ error' = "none" /\ blamed' = 0 /\ Restart("none")
  /\ UNCHANGED <<service, rows, recent, result, named, form, clicks>>

UploadAnother ==
  /\ pc = "top" /\ pressed = "another"
  /\ result' = 0 /\ named' = FALSE /\ Restart("none")
  /\ UNCHANGED <<service, rows, recent, error, blamed, form, clicks>>

(* The summaries go with the latency log they are kept in.                 *)
ClearHistory ==
  /\ pc = "top" /\ pressed = "clear"
  /\ recent' = {} /\ Restart("none")
  /\ UNCHANGED <<service, rows, result, named, error, blamed, form, clicks>>

-----------------------------------------------------------------------------
(* The upload pipeline                                                     *)

(* The script ends with the error in the banner, the last result stays.    *)
Failed(phase, u) ==
  /\ error' = phase /\ blamed' = IF supplied THEN u ELSE 0
  /\ pc' = "idle" /\ Drop /\ UNCHANGED pressed

(* No file, a field or a size that will not do, no bytes, no token.        *)
Refuse ==
  /\ pc = "top" /\ pressed = "upload"
  /\ Failed("gate", 0)
  /\ UNCHANGED <<service, rows, recent, result, named, form, clicks>>

Start ==
  /\ pc = "top" /\ pressed = "upload"
  /\ size = "fits" /\ filled
  /\ error' = "none" /\ blamed' = 0
  /\ Goto("url")
  /\ UNCHANGED <<service, rows, recent, result, named, form, clicks>>

NoUrl ==
  /\ pc = "url"
  /\ Failed("url", 0)
  /\ UNCHANGED <<service, rows, recent, result, named, form, clicks>>

(* The file id is optional in the answer.                                  *)
GetUploadUrl ==
  /\ pc = "url"
  /\ \E u \in Uploads :
       /\ blobs[u] = "none" /\ \A v \in Uploads : v < u => blobs[v] # "none"
       /\ blobs' = [blobs EXCEPT ![u] = "allocated"] /\ mine' = u
  /\ supplied' \in BOOLEAN
  /\ pc' = "put" /\ UNCHANGED <<pressed, told>>
  /\ UNCHANGED <<records, rows, shown, form, clicks>>

(* slip: only an answer that refuses is a failure, not one that is lost    *)
PutUnlessRefused ==
  /\ pc = "put"
  /\ blobs' \in {blobs, [blobs EXCEPT ![mine] = "landed"]}
  /\ Goto("register")
  /\ UNCHANGED <<records, rows, shown, form, clicks>>

PutBytes ==
  /\ pc = "put"
  /\ blobs' = [blobs EXCEPT ![mine] = "landed"]
  /\ Goto("register")
  /\ UNCHANGED <<records, rows, shown, form, clicks>>

(* A refusal, or an answer that is lost: the bytes may be in storage.      *)
PutFails ==
  /\ pc = "put"
  /\ blobs' \in {blobs, [blobs EXCEPT ![mine] = "landed"]}
  /\ Goto("put failed")
  /\ UNCHANGED <<records, rows, shown, form, clicks>>

(* The record is made, and the answer may not name it; a refusal, or an    *)
(* answer that is lost: there may be a record.                             *)
PostFileMetadata ==
  /\ pc = "register"
  /\ \/ records' = records \cup {mine} /\ told' \in BOOLEAN
        /\ pc' = IF told' THEN "summary" ELSE "result"
     \/ records' \in {records, records \cup {mine}} /\ told' = FALSE /\ pc' = "register failed"
  /\ UNCHANGED <<blobs, rows, shown, form, pressed, mine, supplied, clicks>>

AppendSummary ==
  /\ pc = "summary"
  /\ recent' = recent \cup {mine}
  /\ Goto("row")
  /\ UNCHANGED <<service, rows, result, named, error, blamed, form, clicks>>

(* A write that fails is swallowed.                                        *)
RecordFileUpload ==
  /\ pc = "row"
  /\ rows' \in {rows, rows \cup {mine}}
  /\ Goto("result")
  /\ UNCHANGED <<service, shown, form, clicks>>

KeepResult ==
  /\ pc = "result"
  /\ result' = mine /\ named' = told
  /\ Restart("none")
  /\ UNCHANGED <<service, rows, recent, error, blamed, form, clicks>>

(* slip: the summary of the failure goes without the file id               *)
FailNameless ==
  /\ pc \in {"put failed", "register failed"}
  /\ Failed(IF pc = "put failed" THEN "bytes" ELSE "metadata", 0)
  /\ UNCHANGED <<service, rows, recent, result, named, form, clicks>>

Fail ==
  /\ pc \in {"put failed", "register failed"}
  /\ Failed(IF pc = "put failed" THEN "bytes" ELSE "metadata", mine)
  /\ UNCHANGED <<service, rows, recent, result, named, form, clicks>>

Script ==
  \/ PreflightFails \/ NoButton \/ DismissError \/ UploadAnother \/ ClearHistory
  \/ Refuse \/ Start \/ NoUrl \/ GetUploadUrl \/ PutBytes \/ PutFails \/ PostFileMetadata
  \/ AppendSummary \/ RecordFileUpload \/ KeepResult \/ Fail

-----------------------------------------------------------------------------
(* The operator, at any point of the script                                *)

Interact == clicks < MaxClicks /\ clicks' = clicks + 1

(* What the page shows decides which buttons there are.                    *)
Drawn(b) ==
  CASE b = "dismiss" -> error # "none"
    [] b = "upload"  -> size # "large"
    [] b = "another" -> result # 0 /\ named
    [] OTHER         -> TRUE

Click(b) ==
  /\ Interact /\ pc # "away" /\ Drawn(b) /\ Restart(b)
  /\ UNCHANGED <<service, rows, shown, form>>

Choose(s) ==
  /\ Interact /\ pc # "away" /\ Restart("none")
  /\ size' = s /\ filled' \in BOOLEAN
  /\ UNCHANGED <<service, rows, shown>>

(* To another page and back: what the page's widgets held is gone.         *)
Leave ==
  /\ Interact /\ pc # "away"
  /\ pc' = "away" /\ pressed' = "none" /\ Drop
  /\ size' = "none" /\ filled' = FALSE
  /\ UNCHANGED <<service, rows, shown>>

Return ==
  /\ pc = "away" /\ Restart("none")
  /\ UNCHANGED <<service, rows, shown, form, clicks>>

(* The tab is closed, or the process dies, and a new session opened.       *)
NewSession ==
  /\ Interact /\ Restart("none")
  /\ recent' = {} /\ result' = 0 /\ named' = FALSE /\ error' = "none" /\ blamed' = 0
  /\ size' = "none" /\ filled' = FALSE
  /\ UNCHANGED <<service, rows>>

(* The History page, in this session or in another.                        *)
Purge ==
  /\ Interact
  /\ \/ \E cutoff \in Uploads : rows' = {u \in rows : u >= cutoff}
     \/ rows' = {}
  /\ UNCHANGED <<service, shown, form, script>>

Waiting == pc \in {"idle", "away"} /\ UNCHANGED vars

Next ==
  \/ Script
  \/ \E b \in Buttons : Click(b)
  \/ \E s \in Sizes : Choose(s)
  \/ Leave \/ Return \/ NewSession \/ Purge \/ Waiting

Spec == Init /\ [][Next]_vars

-----------------------------------------------------------------------------
Places == {"top", "url", "put", "put failed", "register", "register failed", "summary",
           "row", "result", "idle", "away"}

(* Every variable holds a value of its type.                               *)
TypeOK ==
  /\ blobs \in [Uploads -> {"none", "allocated", "landed"}]
  /\ records \in SUBSET Uploads /\ rows \in SUBSET Uploads /\ recent \in SUBSET Uploads
  /\ result \in {0} \cup Uploads /\ named \in BOOLEAN
  /\ error \in {"none", "gate", "url", "bytes", "metadata"} /\ blamed \in {0} \cup Uploads
  /\ size \in Sizes /\ filled \in BOOLEAN
  /\ pc \in Places /\ pressed \in Buttons
  /\ mine \in {0} \cup Uploads /\ supplied \in BOOLEAN /\ told \in BOOLEAN
  /\ clicks \in 0 .. MaxClicks

(* What the page, the Manifest Builder's picker and the run history list   *)
(* as uploaded has a record in the service, and a record has its bytes in  *)
(* storage, whatever answer was lost and wherever the script was stopped.  *)
ListedIsStored ==
  /\ rows \cup recent \cup ({result} \ {0}) \subseteq records
  /\ \A u \in records : blobs[u] = "landed"

(* "Preserve the file id so the operator can recover": a script that ends  *)
(* by itself, having put bytes in storage that have no record, leaves a    *)
(* banner with the file id, if the service has supplied one. Bytes whose   *)
(* record the page was told of are kept as the result.                     *)
OrphansAreNamed ==
  [][mine # 0 /\ mine' = 0 /\ clicks' = clicks /\ blobs[mine] = "landed" =>
       \/ mine \in records /\ result' = mine
       \/ error' \in {"bytes", "metadata"} /\ blamed' = IF supplied THEN mine ELSE 0]_vars
=============================================================================
