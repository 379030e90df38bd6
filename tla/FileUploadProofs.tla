---------------------------- MODULE FileUploadProofs ----------------------------
(***************************************************************************)
(* What TLAPS proves of FileUpload, for every number of uploads and of     *)
(* interactions.                                                           *)
(***************************************************************************)
EXTENDS FileUpload, TLAPS

(* The script is about an upload just between the URL and its end: what    *)
(* stops it there also makes it forget the upload.                         *)
Busy == {"put", "put failed", "register", "register failed", "summary", "row", "result"}

Minds == mine # 0 <=> pc \in Busy

TypeInv == TypeOK /\ Minds

LEMMA ZeroIsNone == 0 \notin Uploads /\ 0 \in 0 .. MaxClicks
BY UploadAssumption DEF Uploads

LEMMA ClicksTyped ==
  ASSUME clicks \in 0 .. MaxClicks, Interact
  PROVE  clicks' \in 0 .. MaxClicks /\ clicks' # clicks
BY UploadAssumption DEF Interact

(* What the operator does, save the purge, leaves the service alone and    *)
(* the script without an upload.                                           *)
LEMMA InteractionForgets ==
  ASSUME TypeInv,
         \/ \E b \in Buttons : Click(b)
         \/ \E s \in Sizes : Choose(s)
         \/ Leave \/ Return \/ NewSession
  PROVE  /\ pc' \in {"top", "away"} /\ mine' = 0
         /\ UNCHANGED <<blobs, records, rows>>
         /\ UNCHANGED <<recent, result>> \/ (recent' = {} /\ result' = 0)
BY DEF Click, Choose, Leave, Return, NewSession, Restart, Drop, service, shown

LEMMA InteractionTyped ==
  ASSUME TypeOK,
         \/ \E b \in Buttons : Click(b)
         \/ \E s \in Sizes : Choose(s)
         \/ Leave \/ Return \/ NewSession
  PROVE  TypeOK'
<1>. USE ZeroIsNone, ClicksTyped DEF TypeOK, Restart, Drop, service, shown, form, script, local
<1>0. "top" \in Places /\ "away" \in Places /\ "none" \in Buttons /\ "none" \in Sizes
  BY DEF Places, Buttons, Sizes
<1>1. ASSUME NEW b \in Buttons, Click(b) PROVE TypeOK'
  BY <1>0, <1>1 DEF Click
<1>2. ASSUME NEW s \in Sizes, Choose(s) PROVE TypeOK'
  BY <1>0, <1>2 DEF Choose
<1>3. CASE Leave
  BY <1>0, <1>3 DEF Leave
<1>4. CASE Return
  BY <1>0, <1>4 DEF Return
<1>5. CASE NewSession
  BY <1>0, <1>5 DEF NewSession
<1>. QED  BY <1>1, <1>2, <1>3, <1>4, <1>5

LEMMA TypeStep == TypeInv /\ [Next]_vars => TypeOK'
<1>. SUFFICES ASSUME TypeInv, [Next]_vars PROVE TypeOK'
  OBVIOUS
<1>0. TypeOK /\ "none" \in Buttons
      /\ \A p \in {"top", "url", "put", "put failed", "register", "register failed", "summary",
                   "row", "result", "idle", "away"} : p \in Places
  BY DEF TypeInv, Places, Buttons
<1>. USE <1>0, ZeroIsNone DEF TypeOK,
         Goto, Drop, Restart, Failed, service, shown, form, local, script
<1>1. CASE PreflightFails \/ NoButton
  BY <1>1 DEF PreflightFails, NoButton
<1>2. CASE DismissError \/ UploadAnother \/ ClearHistory
  BY <1>2 DEF DismissError, UploadAnother, ClearHistory
<1>3. CASE Refuse \/ Start \/ NoUrl
  BY <1>3 DEF Refuse, Start, NoUrl
<1>4. CASE GetUploadUrl
  BY <1>4 DEF GetUploadUrl
<1>5. CASE PutBytes \/ PutFails
  BY <1>5 DEF PutBytes, PutFails
<1>6. CASE PostFileMetadata
  <2>1. mine \in Uploads
    BY <1>6 DEF PostFileMetadata, TypeInv, Minds, Busy
  <2>. QED  BY <1>6, <2>1 DEF PostFileMetadata
<1>7. CASE AppendSummary \/ RecordFileUpload
  <2>1. mine \in Uploads
    BY <1>7 DEF AppendSummary, RecordFileUpload, TypeInv, Minds, Busy
  <2>. QED  BY <1>7, <2>1 DEF AppendSummary, RecordFileUpload
<1>8. CASE KeepResult
  BY <1>8 DEF KeepResult
<1>9. CASE Fail
  BY <1>9 DEF Fail
<1>10. CASE \/ \E b \in Buttons : Click(b)
            \/ \E s \in Sizes : Choose(s)
            \/ Leave \/ Return \/ NewSession
  BY <1>10, InteractionTyped
<1>11. CASE Purge
  <2>1. rows' \in SUBSET Uploads /\ clicks' \in 0 .. MaxClicks
    BY <1>11, ClicksTyped DEF Purge
  <2>. QED  BY <1>11, <2>1 DEF Purge
<1>12. CASE UNCHANGED vars
  BY <1>12 DEF vars
<1>. QED  BY <1>1, <1>2, <1>3, <1>4, <1>5, <1>6, <1>7, <1>8, <1>9, <1>10, <1>11, <1>12
          DEF Next, Script, Waiting

LEMMA MindStep == TypeInv /\ [Next]_vars => Minds'
<1>. SUFFICES ASSUME TypeInv, [Next]_vars PROVE Minds'
  OBVIOUS
<1>. USE ZeroIsNone DEF TypeInv, Minds, Busy, Goto, Drop, Restart, Failed, local, script
<1>1. CASE PreflightFails \/ NoButton
  BY <1>1 DEF PreflightFails, NoButton
<1>2. CASE DismissError \/ UploadAnother \/ ClearHistory
  BY <1>2 DEF DismissError, UploadAnother, ClearHistory
<1>3. CASE Refuse \/ Start \/ NoUrl
  BY <1>3 DEF Refuse, Start, NoUrl
<1>4. CASE GetUploadUrl
  BY <1>4 DEF GetUploadUrl
<1>5. CASE PutBytes \/ PutFails
  BY <1>5 DEF PutBytes, PutFails
<1>6. CASE PostFileMetadata
  BY <1>6 DEF PostFileMetadata
<1>7. CASE AppendSummary \/ RecordFileUpload
  BY <1>7 DEF AppendSummary, RecordFileUpload
<1>8. CASE KeepResult \/ Fail
  BY <1>8 DEF KeepResult, Fail
<1>9. CASE \/ \E b \in Buttons : Click(b)
           \/ \E s \in Sizes : Choose(s)
           \/ Leave \/ Return \/ NewSession
  BY <1>9, InteractionForgets
<1>10. CASE Purge \/ UNCHANGED vars
  BY <1>10 DEF Purge, vars
<1>. QED  BY <1>1, <1>2, <1>3, <1>4, <1>5, <1>6, <1>7, <1>8, <1>9, <1>10
          DEF Next, Script, Waiting

LEMMA TypeInvariant == Spec => []TypeInv
<1>1. Init => TypeInv
  BY ZeroIsNone DEF Init, Fresh, TypeInv, TypeOK, Minds, Busy, Buttons, Sizes, Places
<1>2. TypeInv /\ [Next]_vars => TypeInv'
  BY TypeStep, MindStep DEF TypeInv
<1>. QED  BY <1>1, <1>2, PTL DEF Spec

(* Every variable of the page holds a value of its type.                   *)
THEOREM TypeCorrect == Spec => []TypeOK
BY TypeInvariant, PTL DEF TypeInv

-----------------------------------------------------------------------------
(* The order of the pipeline: bytes first, then the record, then what is   *)
(* told of it.                                                             *)
StoredInv ==
  /\ ListedIsStored
  /\ pc = "register" => blobs[mine] = "landed"
  /\ pc \in {"summary", "row", "result"} => mine \in records

LEMMA StoredInvariant == Spec => []StoredInv
<1>. USE DEF StoredInv, ListedIsStored
<1>1. Init => StoredInv
  BY DEF Init, Fresh
<1>2. TypeInv /\ StoredInv /\ [Next]_vars => StoredInv'
  <2>. SUFFICES ASSUME TypeInv, StoredInv, [Next]_vars PROVE StoredInv'
    OBVIOUS
  <2>. USE DEF TypeInv, TypeOK, Minds, Busy, Goto, Drop, Restart, Failed, service, shown, form, local, script
  <2>1. CASE PreflightFails \/ NoButton
    BY <2>1 DEF PreflightFails, NoButton
  <2>2. CASE DismissError \/ UploadAnother \/ ClearHistory
    BY <2>2 DEF DismissError, UploadAnother, ClearHistory
  <2>3. CASE Refuse \/ Start \/ NoUrl
    BY <2>3 DEF Refuse, Start, NoUrl
  <2>4. CASE GetUploadUrl
    BY <2>4 DEF GetUploadUrl
  <2>5. CASE PutBytes \/ PutFails
    <3>1. mine \in Uploads /\ UNCHANGED <<records, rows, recent, result, mine>>
      BY <2>5 DEF PutBytes, PutFails
    <3>2. \A u \in Uploads : blobs'[u] # blobs[u] => u = mine /\ blobs'[u] = "landed"
      BY <2>5, <3>1 DEF PutBytes, PutFails
    <3>. QED  BY <2>5, <3>1, <3>2 DEF PutBytes, PutFails
  <2>6. CASE PostFileMetadata
    BY <2>6 DEF PostFileMetadata
  <2>7. CASE AppendSummary \/ RecordFileUpload
    BY <2>7 DEF AppendSummary, RecordFileUpload
  <2>8. CASE KeepResult
    BY <2>8 DEF KeepResult
  <2>9. CASE Fail
    BY <2>9 DEF Fail
  <2>10. CASE \/ \E b \in Buttons : Click(b)
              \/ \E s \in Sizes : Choose(s)
              \/ Leave \/ Return \/ NewSession
    BY <2>10, InteractionForgets
  <2>11. CASE Purge
    BY <2>11 DEF Purge, Interact
  <2>12. CASE UNCHANGED vars
    BY <2>12 DEF vars
  <2>. QED  BY <2>1, <2>2, <2>3, <2>4, <2>5, <2>6, <2>7, <2>8, <2>9, <2>10, <2>11, <2>12
            DEF Next, Script, Waiting
<1>. QED  BY <1>1, <1>2, TypeInvariant, PTL DEF Spec

(* Whatever was lost and wherever the script was stopped: what the page,   *)
(* the picker and the history list is stored.                              *)
THEOREM ListingsAreTrue == Spec => []ListedIsStored
BY StoredInvariant, PTL DEF StoredInv

-----------------------------------------------------------------------------
(* Bytes put in storage by a script that then ends are named.              *)
THEOREM OrphansStayNamed == Spec => OrphansAreNamed
<1>. DEFINE Named ==
       \/ mine \in records /\ result' = mine
       \/ error' \in {"bytes", "metadata"} /\ blamed' = IF supplied THEN mine ELSE 0
<1>1. ASSUME TypeInv, StoredInv, [Next]_vars,
             mine # 0, mine' = 0, clicks' = clicks
      PROVE  Named
  <2>. USE <1>1 DEF TypeInv, TypeOK, Minds, Busy, Goto, Drop, Restart
  <2>1. CASE PreflightFails \/ NoButton \/ DismissError \/ UploadAnother \/ ClearHistory
    BY <2>1 DEF PreflightFails, NoButton, DismissError, UploadAnother, ClearHistory
  <2>2. CASE Refuse \/ Start \/ NoUrl \/ GetUploadUrl
    BY <2>2 DEF Refuse, Start, NoUrl, GetUploadUrl, Failed
  <2>3. CASE PutBytes \/ PutFails \/ PostFileMetadata \/ AppendSummary \/ RecordFileUpload
    BY <2>3 DEF PutBytes, PutFails, PostFileMetadata, AppendSummary, RecordFileUpload, local
  <2>4. CASE KeepResult
    BY <2>4 DEF KeepResult, StoredInv
  <2>5. CASE Fail
    BY <2>5 DEF Fail, Failed
  <2>6. ASSUME Interact PROVE FALSE
    <3>1. clicks \in 0 .. MaxClicks /\ clicks' = clicks
      BY <1>1
    <3>. QED  BY <2>6, <3>1, ClicksTyped
  <2>7. CASE Return
    BY <2>7 DEF Return
  <2>8. CASE UNCHANGED vars
    BY <2>8 DEF vars, script, local
  <2>9. Script \/ Return \/ Interact \/ UNCHANGED vars
    BY <1>1 DEF Next, Waiting, Click, Choose, Leave, NewSession, Purge
  <2>. QED  BY <2>1, <2>2, <2>3, <2>4, <2>5, <2>6, <2>7, <2>8, <2>9 DEF Script
<1>2. TypeInv /\ StoredInv /\ [Next]_vars =>
        [mine # 0 /\ mine' = 0 /\ clicks' = clicks /\ blobs[mine] = "landed" => Named]_vars
  BY <1>1
<1>. QED  BY <1>2, TypeInvariant, StoredInvariant, PTL DEF Spec, OrphansAreNamed
=============================================================================
