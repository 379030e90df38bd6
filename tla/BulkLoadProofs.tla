---------------------------- MODULE BulkLoadProofs ----------------------------
(***************************************************************************)
(* What TLAPS proves of the two halves of the bulk loader: of TierLoad, for*)
(* every set of tiers, every number of manifests with their references, and*)
(* every number of runs, clicks and changed files; and of RecordLoad, for  *)
(* every list of manifests, every batch size and every limit of the service.*)
(***************************************************************************)
EXTENDS TierLoad, RecordLoad, FiniteSetTheorems, SequenceTheorems, WellFoundedInduction, TLAPS

-----------------------------------------------------------------------------
(* TierLoad                                                                *)

(* Naturals have a least one among them.                                   *)
LEMMA LeastOf ==
  ASSUME NEW T \in SUBSET Nat, T # {}
  PROVE  \E m \in T : \A n \in T : m <= n
<1>1. PICK m \in T : \A n \in T : ~ (<<n, m>> \in OpToRel(<, Nat))
  BY NatLessThanWellFounded, WFMin, Zenon
<1>2. \A n \in T : ~(n < m)
  BY <1>1 DEF OpToRel
<1>. QED  BY <1>2

(* The manifest at hand is one of those the loop has not come to.          *)
LEMMA CurrentIsNext ==
  ASSUME TypeOK, todo # {}
  PROVE  Current \in todo /\ Current \in Manifests
<1>1. todo \in SUBSET Nat
  BY TierAssumption DEF TypeOK, Manifests
<1>2. \E m \in todo : \A n \in todo : m <= n
  BY <1>1, LeastOf
<1>. QED  BY <1>2 DEF Current, TypeOK

-----------------------------------------------------------------------------
(* What a step may do to each of the variables                             *)

LEMMA NoOutcomesTyped == NoOutcomes \in [Manifests -> Outcome]
BY DEF NoOutcomes, Outcome

(* A restart forgets what the script had of its own.                       *)
LEMMA RestartTyped ==
  ASSUME NEW b \in Buttons, Restart(b)
  PROVE  /\ pc' = "top" /\ pressed' \in Buttons
         /\ todo' \in SUBSET Manifests /\ idmap' \in SUBSET Manifests
         /\ got' \in [Manifests -> Outcome]
BY NoOutcomesTyped DEF Restart

LEMMA CollectTyped ==
  ASSUME TypeOK, todo # {}, NEW s \in {"error", "success"}, NEW r \in {0} \cup Runs, Collect(s, r)
  PROVE  /\ pc' = "store" /\ pressed' = pressed /\ idmap' = idmap
         /\ todo' \in SUBSET Manifests /\ got' \in [Manifests -> Outcome]
<1>1. [status |-> s, run |-> r] \in Outcome
  BY DEF Outcome
<1>. QED  BY <1>1, CurrentIsNext DEF Collect, TypeOK

(* A run the service accepts is a new one, and is given what the id map of *)
(* this load makes of the manifest at hand.                                *)
LEMMA AcceptedTyped ==
  ASSUME TypeOK, todo # {}, NEW r \in Runs, NEW t \in BOOLEAN, Accepted(r, t)
  PROVE  /\ r \in Runs \ Made
         /\ made' \in [Runs -> Copy]
         /\ made' = [made EXCEPT ![r] = [of |-> Current, load |-> clicks, told |-> t,
                                        renamed |-> Current \in idmap, links |-> Links(Current)]]
<1>1. Links(Current) \in SUBSET Manifests
  BY DEF Links, TypeOK
<1>2. [of |-> Current, load |-> clicks, told |-> t,
       renamed |-> Current \in idmap, links |-> Links(Current)] \in Copy
  BY <1>1, CurrentIsNext DEF Copy, TypeOK
<1>. QED  BY <1>2 DEF Accepted, TypeOK

(* A statement on the history leaves a table of rows.                      *)
LEMMA WrittenTyped ==
  ASSUME rows \in [Runs -> Row \cup {NoRow}], NEW r \in Runs, NEW s \in {"running"} \cup Terminal,
         NEW t, t \in Recorded(r, s) \/ t \in Unrecorded(r, s)
  PROVE  t \in [Runs -> Row \cup {NoRow}]
<1>1. ASSUME NEW u \in [Runs -> Row \cup {NoRow}]
      PROVE  AfterFinish(u, r, s) \in [Runs -> Row \cup {NoRow}]
  <2>1. CASE Holds(u, r) /\ s \in Terminal
    <3>1. u[r] \in Row
      BY <2>1 DEF Holds
    <3>2. [u[r] EXCEPT !.status = s] \in Row
      BY <2>1, <3>1 DEF Row
    <3>. QED  BY <2>1, <3>2 DEF AfterFinish
  <2>. QED  BY <2>1 DEF AfterFinish
<1>2. AfterSubmit(rows, r, "bulk_load") \in [Runs -> Row \cup {NoRow}]
  BY DEF AfterSubmit, Row
<1>. QED  BY <1>1, <1>2 DEF Recorded, Unrecorded, Written

-----------------------------------------------------------------------------
LEMMA InitTyped == Init => TypeOK
<1>. SUFFICES ASSUME Init PROVE TypeOK
  OBVIOUS
<1>1. made \in [Runs -> Copy] /\ rows \in [Runs -> Row \cup {NoRow}] /\ lost \in SUBSET Runs
  BY TierAssumption DEF Init, Copy
<1>2. /\ seen \in Tiers \cup {NoTier} /\ previews \in SUBSET Manifests
      /\ results \in [Manifests -> Outcome] /\ abort \in BOOLEAN
      /\ statuses \in [Runs -> {"none", "unknown", "running"} \cup Terminal]
  BY NoOutcomesTyped DEF Init, Fresh
<1>3. /\ disk \in [Manifests -> {"absent", "broken", "good"}]
      /\ svc \in [Runs -> {"none", "running"} \cup Terminal]
      /\ clicks \in 0 .. MaxClicks /\ edits \in 0 .. MaxEdits
  BY TierAssumption DEF Init
<1>4. /\ sel \in Tiers /\ prefix \in BOOLEAN /\ filled \in BOOLEAN
      /\ todo \in SUBSET Manifests /\ idmap \in SUBSET Manifests
      /\ got \in [Manifests -> Outcome] /\ pressed \in Buttons
  BY NoOutcomesTyped DEF Init, Buttons
<1>. QED  BY <1>1, <1>2, <1>3, <1>4 DEF Init, TypeOK

(* Every variable holds a value of its type.                               *)
THEOREM TypeCorrect == Spec => []TypeOK
<1>. USE TierAssumption DEF service, form, shown, local, counts
<1>1. Init => TypeOK
  BY InitTyped
<1>2. TypeOK /\ [Next]_vars => TypeOK'
  <2>. SUFFICES ASSUME TypeOK, [Next]_vars PROVE TypeOK'
    OBVIOUS
  <2>1. ASSUME PreflightFails PROVE TypeOK'
    BY <2>1 DEF PreflightFails, Goto, TypeOK
  <2>2. ASSUME Select PROVE TypeOK'
    BY <2>2 DEF Select, Goto, TypeOK
  <2>3. ASSUME Unsee PROVE TypeOK'
    BY <2>3 DEF Unsee, Goto, TypeOK
  <2>4. ASSUME Unpreview PROVE TypeOK'
    BY <2>4 DEF Unpreview, Goto, TypeOK
  <2>5. ASSUME NoPreview PROVE TypeOK'
    BY <2>5 DEF NoPreview, Goto, TypeOK
  <2>6. ASSUME PreviewFails PROVE TypeOK'
    BY <2>6 DEF PreviewFails, Goto, TypeOK
  <2>7. ASSUME Unseeing PROVE TypeOK'
    BY <2>7, RestartTyped DEF Unseeing, TypeOK, Buttons
  <2>8. ASSUME PreviewTier PROVE TypeOK'
    BY <2>8 DEF PreviewTier, TypeOK, Goto, Listed
  <2>9. ASSUME Seeing PROVE TypeOK'
    BY <2>9 DEF Seeing, Goto, TypeOK
  <2>10. ASSUME ForgetResults PROVE TypeOK'
    BY <2>10 DEF ForgetResults, TypeOK, Goto, NoOutcomes, Outcome
  <2>11. ASSUME NoSubmit PROVE TypeOK'
    BY <2>11 DEF NoSubmit, Goto, TypeOK
  <2>12. ASSUME NoToken PROVE TypeOK'
    BY <2>12 DEF NoToken, Goto, TypeOK
  <2>13. ASSUME TierIsGone PROVE TypeOK'
    BY <2>13, RestartTyped DEF TierIsGone, TypeOK, Buttons, NoOutcomes, Outcome
  <2>14. ASSUME StartSubmit PROVE TypeOK'
    BY <2>14 DEF StartSubmit, TypeOK, Listed, IdMap, Buttons
  <2>15. ASSUME Unsent PROVE TypeOK'
    BY <2>15, CollectTyped DEF Unsent, TypeOK
  <2>16. ASSUME SendUnanswered PROVE TypeOK'
    <3>1. PICK r \in Runs : Accepted(r, FALSE) /\ svc' = [svc EXCEPT ![r] = "running"]
      BY <2>16 DEF SendUnanswered
    <3>2. made' \in [Runs -> Copy]
      BY <2>16, <3>1, AcceptedTyped DEF SendUnanswered
    <3>3. \E s \in {"error", "success"} : Collect(s, 0)
      BY <2>16 DEF SendUnanswered
    <3>4. /\ pc' = "store" /\ pressed' = pressed /\ idmap' = idmap
          /\ todo' \in SUBSET Manifests /\ got' \in [Manifests -> Outcome]
      BY <2>16, <3>3, CollectTyped DEF SendUnanswered
    <3>. QED  BY <2>16, <3>1, <3>2, <3>4 DEF SendUnanswered, TypeOK
  <2>17. ASSUME Send PROVE TypeOK'
    <3>1. PICK r \in Runs, s \in {"running"} \cup Terminal :
            /\ Accepted(r, TRUE) /\ svc' = [svc EXCEPT ![r] = s]
            /\ \/ rows' \in Recorded(r, s) /\ lost' = lost
               \/ rows' \in Unrecorded(r, s) /\ lost' = lost \cup {r}
            /\ Collect("success", r)
      BY <2>17 DEF Send
    <3>2. made' \in [Runs -> Copy]
      BY <2>17, <3>1, AcceptedTyped DEF Send
    <3>3. rows' \in [Runs -> Row \cup {NoRow}] /\ lost' \in SUBSET Runs
      BY <3>1, WrittenTyped DEF TypeOK
    <3>4. /\ pc' = "store" /\ pressed' = pressed /\ idmap' = idmap
          /\ todo' \in SUBSET Manifests /\ got' \in [Manifests -> Outcome]
      BY <2>17, <3>1, CollectTyped DEF Send
    <3>. QED  BY <2>17, <3>1, <3>2, <3>3, <3>4 DEF Send, TypeOK
  <2>18. ASSUME Store PROVE TypeOK'
    BY <2>18 DEF Store, Goto, TypeOK
  <2>19. ASSUME Check PROVE TypeOK'
    BY <2>19 DEF Check, Goto, TypeOK
  <2>20. ASSUME Exhaust PROVE TypeOK'
    BY <2>20 DEF Exhaust, Goto, TypeOK
  <2>21. ASSUME EndSubmit PROVE TypeOK'
    BY <2>21 DEF EndSubmit, Goto, TypeOK
  <2>22. ASSUME NoStatus PROVE TypeOK'
    BY <2>22 DEF NoStatus, Goto, TypeOK
  <2>23. ASSUME CheckIngestionStatus PROVE TypeOK'
    BY <2>23 DEF CheckIngestionStatus, Goto, TypeOK
  <2>24. ASSUME NEW b \in Buttons \ {"loading"}, Click(b) PROVE TypeOK'
    BY <2>24, RestartTyped DEF Click, Interact, TypeOK
  <2>25. ASSUME Edit PROVE TypeOK'
    <3>1. /\ pc' = "top" /\ pressed' \in Buttons
          /\ todo' \in SUBSET Manifests /\ idmap' \in SUBSET Manifests
          /\ got' \in [Manifests -> Outcome]
      BY <2>25, RestartTyped DEF Edit, Buttons
    <3>2. clicks' \in 0 .. MaxClicks /\ edits' = edits
      BY <2>25 DEF Edit, Interact, TypeOK
    <3>3. sel' \in Tiers /\ prefix' \in BOOLEAN /\ filled' \in BOOLEAN
      BY <2>25 DEF Edit, TypeOK
    <3>. QED  BY <2>25, <3>1, <3>2, <3>3 DEF Edit, TypeOK
  <2>26. ASSUME Fill PROVE TypeOK'
    BY <2>26, RestartTyped DEF Fill, TypeOK, Buttons
  <2>27. ASSUME Abort PROVE TypeOK'
    BY <2>27, RestartTyped DEF Abort, Interact, TypeOK, Buttons
  <2>28. ASSUME NewSession PROVE TypeOK'
    <3>1. /\ pc' = "top" /\ pressed' \in Buttons
          /\ todo' \in SUBSET Manifests /\ idmap' \in SUBSET Manifests
          /\ got' \in [Manifests -> Outcome]
      BY <2>28, RestartTyped DEF NewSession, Buttons
    <3>2. /\ seen' \in Tiers \cup {NoTier} /\ previews' \in SUBSET Manifests
          /\ results' \in [Manifests -> Outcome] /\ abort' \in BOOLEAN
          /\ statuses' \in [Runs -> {"none", "unknown", "running"} \cup Terminal]
      BY <2>28, NoOutcomesTyped DEF NewSession
    <3>3. clicks' \in 0 .. MaxClicks /\ edits' = edits
      BY <2>28 DEF NewSession, Interact, TypeOK
    <3>4. sel' \in Tiers /\ prefix' \in BOOLEAN /\ filled' \in BOOLEAN
      BY <2>28 DEF NewSession
    <3>. QED  BY <2>28, <3>1, <3>2, <3>3, <3>4 DEF NewSession, TypeOK
  <2>29. ASSUME NEW m \in Unstable, ChangeFile(m) PROVE TypeOK'
    BY <2>29 DEF ChangeFile, TypeOK
  <2>30. ASSUME NEW r \in Runs, RunEnds(r) PROVE TypeOK'
    BY <2>30 DEF RunEnds, TypeOK
  <2>31. CASE UNCHANGED vars
    BY <2>31 DEF vars, TypeOK
  <2>. QED
    BY <2>1, <2>2, <2>3, <2>4, <2>5, <2>6, <2>7, <2>8, <2>9, <2>10, <2>11, <2>12, <2>13, <2>14, <2>15, <2>16, <2>17, <2>18, <2>19, <2>20, <2>21, <2>22, <2>23, <2>24, <2>25, <2>26, <2>27, <2>28, <2>29, <2>30, <2>31
       DEF Next, Script, Waiting
<1>. QED  BY <1>1, <1>2, PTL DEF Spec

-----------------------------------------------------------------------------
(* The service and the history                                             *)

(* Only a submission, or the end of a run, changes anything there.         *)
LEMMA ServiceStep ==
  ASSUME [Next]_vars
  PROVE  UNCHANGED service \/ SendUnanswered \/ Send \/ \E r \in Runs : RunEnds(r)
<1>1. CASE Script
  BY <1>1 DEF Script, PreflightFails, Select, Unsee, Unpreview, NoPreview, PreviewFails, Unseeing,
       PreviewTier, Seeing, ForgetResults, NoSubmit, NoToken, TierIsGone, StartSubmit, Unsent,
       Store, Check, Exhaust, EndSubmit, NoStatus, CheckIngestionStatus
<1>2. CASE \/ \E b \in Buttons \ {"loading"} : Click(b)
           \/ Edit \/ Fill \/ Abort \/ NewSession \/ \E m \in Unstable : ChangeFile(m)
  BY <1>2 DEF Click, Edit, Fill, Abort, NewSession, ChangeFile
<1>3. CASE UNCHANGED vars
  BY <1>3 DEF vars
<1>. QED  BY <1>1, <1>2, <1>3 DEF Next, Waiting

(* A run the service has taken is never forgotten or given to another, and *)
(* its end is final.                                                       *)
LEMMA RunsStay ==
  ASSUME TypeOK, [Next]_vars, NEW r \in Made
  PROVE  /\ r \in Made' /\ made'[r] = made[r]
         /\ svc[r] \in Terminal => svc'[r] = svc[r]
<1>. USE DEF TypeOK, Made, Terminal
<1>1. CASE UNCHANGED service
  BY <1>1 DEF service
<1>2. CASE SendUnanswered \/ Send
  <2>1. PICK q \in Runs, t \in BOOLEAN, s \in {"running"} \cup Terminal :
          Accepted(q, t) /\ svc' = [svc EXCEPT ![q] = s]
    BY <1>2 DEF SendUnanswered, Send
  <2>. HIDE DEF TypeOK, Made, Terminal
  <2>2. todo # {}
    BY <1>2 DEF SendUnanswered, Send
  <2>3. q \in Runs \ Made /\ made' \in [Runs -> Copy]
        /\ made' = [made EXCEPT ![q] = [of |-> Current, load |-> clicks, told |-> t,
                                        renamed |-> Current \in idmap, links |-> Links(Current)]]
    BY <2>1, <2>2, AcceptedTyped
  <2>. QED  BY <2>1, <2>3 DEF TypeOK, Made, Terminal
<1>3. CASE \E q \in Runs : RunEnds(q)
  <2>1. PICK q \in Runs : RunEnds(q)
    BY <1>3
  <2>. QED  BY <2>1 DEF RunEnds
<1>. QED  BY <1>1, <1>2, <1>3, ServiceStep

(* The service has not seen a run the history or the list of lost rows     *)
(* knows nothing of; the other way round, what they know has been seen.    *)
NewRunsAreBlank == \A r \in Runs : svc[r] = "none" => rows[r] = NoRow /\ r \notin lost

RecordInv == TypeOK /\ NewRunsAreBlank /\ RunsAreRecorded

(* What the two statements make of a run that has no row.                  *)
LEMMA FirstRow ==
  ASSUME TypeOK, NEW r \in Runs, rows[r] = NoRow, NEW s \in {"running"} \cup Terminal,
         NEW t \in Recorded(r, s)
  PROVE  /\ Holds(t, r) /\ \A q \in Runs \ {r} : t[q] = rows[q]
         /\ \A e \in Terminal : StatusIs(t, r, e) => s = e
<1>. DEFINE row == [status |-> "submitted", source |-> "bulk_load"]
            u == AfterSubmit(rows, r, "bulk_load")
<1>1. row \in Row /\ row # NoRow
  BY TierAssumption DEF Row
<1>2. u = [rows EXCEPT ![r] = row] /\ u[r] = row
  BY DEF AfterSubmit, Holds, TypeOK
<1>3. CASE t = u
  BY <1>1, <1>2, <1>3 DEF Holds, StatusIs, Terminal, TypeOK
<1>4. CASE t = AfterFinish(u, r, s)
  <2>1. CASE s \in Terminal
    <3>1. t = [u EXCEPT ![r].status = s]
      BY <1>1, <1>2, <1>4, <2>1 DEF AfterFinish, Holds
    <3>2. t[r] = [status |-> s, source |-> "bulk_load"] /\ \A q \in Runs \ {r} : t[q] = rows[q]
      BY <1>2, <3>1 DEF TypeOK
    <3>3. t[r] \in Row
      BY <2>1, <3>2 DEF Row
    <3>. QED  BY <3>2, <3>3, TierAssumption DEF Holds, StatusIs
  <2>2. CASE s \notin Terminal
    <3>1. t = u
      BY <1>4, <2>2 DEF AfterFinish
    <3>. QED  BY <1>3, <3>1
  <2>. QED  BY <2>1, <2>2
<1>. QED  BY <1>3, <1>4 DEF Recorded, Written

LEMMA RecordInvInit == Init => RecordInv
BY InitTyped DEF Init, RecordInv, NewRunsAreBlank, RunsAreRecorded, Made

LEMMA RecordInvStep ==
  ASSUME RecordInv, TypeOK', [Next]_vars
  PROVE  RecordInv'
<1>. USE DEF RecordInv
<1>1. CASE UNCHANGED service
  BY <1>1 DEF service, NewRunsAreBlank, RunsAreRecorded, Made, Holds, StatusIs
<1>2. CASE SendUnanswered
  <2>1. PICK r \in Runs : Accepted(r, FALSE) /\ svc' = [svc EXCEPT ![r] = "running"]
    BY <1>2 DEF SendUnanswered
  <2>2. /\ r \in Runs \ Made
        /\ made' = [made EXCEPT ![r] = [of |-> Current, load |-> clicks, told |-> FALSE,
                                        renamed |-> Current \in idmap, links |-> Links(Current)]]
    BY <1>2, <2>1, AcceptedTyped DEF SendUnanswered
  <2>3. rows' = rows /\ lost' = lost /\ rows[r] = NoRow
    BY <1>2, <2>2 DEF SendUnanswered, NewRunsAreBlank, Made
  <2>4. made'[r].told = FALSE /\ \A q \in Runs \ {r} : svc'[q] = svc[q] /\ made'[q] = made[q]
    BY <2>1, <2>2 DEF TypeOK
  <2>5. NewRunsAreBlank'
    BY <2>1, <2>3 DEF NewRunsAreBlank, TypeOK
  <2>6. RunsAreRecorded'
    BY <2>2, <2>3, <2>4 DEF RunsAreRecorded, Made, Holds, StatusIs
  <2>. QED  BY <2>5, <2>6
<1>3. CASE Send
  <2>1. PICK r \in Runs, s \in {"running"} \cup Terminal :
          /\ Accepted(r, TRUE) /\ svc' = [svc EXCEPT ![r] = s]
          /\ \/ rows' \in Recorded(r, s) /\ lost' = lost
             \/ rows' \in Unrecorded(r, s) /\ lost' = lost \cup {r}
    BY <1>3 DEF Send
  <2>2. r \in Runs \ Made /\ rows[r] = NoRow /\ r \notin lost
        /\ made' = [made EXCEPT ![r] = [of |-> Current, load |-> clicks, told |-> TRUE,
                                        renamed |-> Current \in idmap, links |-> Links(Current)]]
    BY <1>3, <2>1, AcceptedTyped DEF Send, NewRunsAreBlank, Made
  <2>3. svc'[r] = s /\ \A q \in Runs \ {r} : svc'[q] = svc[q] /\ made'[q] = made[q]
    BY <2>1, <2>2 DEF TypeOK
  <2>4. CASE rows' \in Recorded(r, s) /\ lost' = lost
    <3>1. /\ Holds(rows', r) /\ \A q \in Runs \ {r} : rows'[q] = rows[q]
          /\ \A e \in Terminal : StatusIs(rows', r, e) => s = e
      BY <2>2, <2>4, FirstRow
    <3>2. NewRunsAreBlank'
      BY <2>3, <2>4, <3>1 DEF NewRunsAreBlank, Terminal
    <3>3. RunsAreRecorded'
      BY <2>3, <2>4, <3>1 DEF RunsAreRecorded, Made, Holds, StatusIs
    <3>. QED  BY <3>2, <3>3
  <2>5. CASE rows' \in Unrecorded(r, s) /\ lost' = lost \cup {r}
    <3>1. rows' = rows
      BY <2>2, <2>5 DEF Unrecorded, Written, AfterFinish, Holds
    <3>2. NewRunsAreBlank'
      BY <2>3, <2>5, <3>1 DEF NewRunsAreBlank, Terminal
    <3>3. RunsAreRecorded'
      BY <2>2, <2>3, <2>5, <3>1 DEF RunsAreRecorded, Made, Holds, StatusIs
    <3>. QED  BY <3>2, <3>3
  <2>. QED  BY <2>1, <2>4, <2>5
<1>4. CASE \E r \in Runs : RunEnds(r)
  <2>1. PICK r \in Runs : RunEnds(r)
    BY <1>4
  <2>2. PICK s \in Terminal : svc' = [svc EXCEPT ![r] = s]
    BY <2>1 DEF RunEnds
  <2>3. svc[r] = "running" /\ UNCHANGED <<made, rows, lost>>
    BY <2>1 DEF RunEnds
  <2>4. svc'[r] # "none" /\ \A q \in Runs \ {r} : svc'[q] = svc[q]
    BY <2>2 DEF TypeOK, Terminal
  <2>5. NewRunsAreBlank'
    BY <2>3, <2>4 DEF NewRunsAreBlank
  <2>6. RunsAreRecorded'
    BY <2>3, <2>4 DEF RunsAreRecorded, Made, Holds, StatusIs, Terminal
  <2>. QED  BY <2>5, <2>6
<1>. QED  BY <1>1, <1>2, <1>3, <1>4, ServiceStep

(* A run whose id the loader was told is in the history from the very step *)
(* that submits it, unless the write fails, and no row of the history ever *)
(* tells an end the service has not reached (_record_submit_history).      *)
THEOREM SubmissionsAreRecorded == Spec => []RunsAreRecorded
<1>1. Spec => []TypeOK
  BY TypeCorrect
<1>2. TypeOK /\ TypeOK' /\ RecordInv /\ [Next]_vars => RecordInv'
  BY RecordInvStep
<1>3. RecordInv => RunsAreRecorded
  BY DEF RecordInv
<1>. QED  BY <1>1, <1>2, <1>3, RecordInvInit, PTL DEF Spec

-----------------------------------------------------------------------------
(* What the page says of the runs                                          *)

LEMMA StatusesStep ==
  ASSUME [Next]_vars
  PROVE  \/ statuses' = statuses
         \/ statuses' = [r \in Runs |-> "none"]
         \/ CheckIngestionStatus
<1>. USE DEF shown
<1>1. CASE Script
  BY <1>1 DEF Script, PreflightFails, Select, Unsee, Unpreview, NoPreview, PreviewFails, Unseeing,
       PreviewTier, Seeing, ForgetResults, NoSubmit, NoToken, TierIsGone, StartSubmit, Unsent,
       SendUnanswered, Send, Store, Check, Exhaust, EndSubmit, NoStatus
<1>2. CASE \/ \E b \in Buttons \ {"loading"} : Click(b)
           \/ Edit \/ Fill \/ Abort \/ NewSession \/ \E m \in Unstable : ChangeFile(m)
           \/ \E r \in Runs : RunEnds(r)
  BY <1>2 DEF Click, Edit, Fill, Abort, NewSession, ChangeFile, RunEnds
<1>3. CASE UNCHANGED vars
  BY <1>3 DEF vars
<1>. QED  BY <1>1, <1>2, <1>3 DEF Next, Waiting

(* Whatever the page says of a run that has ended is what the service says *)
(* of it from then on, whichever runs it has submitted or forgotten since. *)
THEOREM StatusesAreTold == Spec => []StatusesAreTrue
<1>1. Init => StatusesAreTrue
  BY DEF Init, Fresh, StatusesAreTrue, Terminal
<1>2. TypeOK /\ StatusesAreTrue /\ [Next]_vars => StatusesAreTrue'
  <2>. SUFFICES ASSUME TypeOK, StatusesAreTrue, [Next]_vars, NEW r \in Runs,
                       statuses'[r] \in Terminal
                PROVE  svc'[r] = statuses'[r]
    BY DEF StatusesAreTrue
  <2>1. svc[r] \in Terminal => svc'[r] = svc[r]
    BY RunsStay DEF Made, Terminal
  <2>2. CASE statuses' = statuses
    BY <2>1, <2>2 DEF StatusesAreTrue
  <2>3. CASE statuses' = [q \in Runs |-> "none"]
    BY <2>3 DEF Terminal
  <2>4. CASE CheckIngestionStatus
    <3>1. statuses'[r] \in {"unknown", svc[r], "none"} /\ UNCHANGED service
      BY <2>4 DEF CheckIngestionStatus, Answers
    <3>. QED  BY <3>1 DEF service, Terminal
  <2>. QED  BY <2>2, <2>3, <2>4, StatusesStep
<1>. QED  BY <1>1, <1>2, TypeCorrect, PTL DEF Spec

-----------------------------------------------------------------------------
(* What the outcomes of a load name                                        *)

Names(outcomes) ==
  \A m \in Manifests : outcomes[m].run # 0 =>
    outcomes[m].run \in Made /\ made[outcomes[m].run].of = m

LEMMA NoOutcomesNameNothing == Names(NoOutcomes)
BY DEF Names, NoOutcomes

(* Outcomes go on naming what they named.                                  *)
LEMMA NamesStay ==
  ASSUME TypeOK, [Next]_vars, NEW t \in [Manifests -> Outcome], Names(t)
  PROVE  \A m \in Manifests : t[m].run # 0 =>
           t[m].run \in Made' /\ made'[t[m].run].of = m
BY RunsStay DEF Names

LEMMA OutcomesStep ==
  ASSUME [Next]_vars
  PROVE  /\ results' \in {results, got, NoOutcomes}
         /\ \/ got' \in {got, NoOutcomes}
            \/ Unsent \/ SendUnanswered \/ Send
<1>. USE DEF shown, local
<1>1. CASE Script
  <2>1. CASE PreflightFails \/ Select \/ Unsee \/ Unpreview \/ NoPreview \/ PreviewFails \/ Unseeing
    BY <2>1 DEF PreflightFails, Select, Unsee, Unpreview, NoPreview, PreviewFails, Unseeing, Goto, Restart
  <2>2. CASE PreviewTier \/ Seeing \/ ForgetResults \/ NoSubmit \/ NoToken \/ TierIsGone \/ StartSubmit
    BY <2>2 DEF PreviewTier, Seeing, ForgetResults, NoSubmit, NoToken, TierIsGone, StartSubmit, Goto, Restart
  <2>3. CASE Unsent \/ SendUnanswered \/ Send
    BY <2>3 DEF Unsent, SendUnanswered, Send
  <2>4. CASE Store \/ Check \/ Exhaust \/ EndSubmit \/ NoStatus \/ CheckIngestionStatus
    BY <2>4 DEF Store, Check, Exhaust, EndSubmit, NoStatus, CheckIngestionStatus, Goto
  <2>. QED  BY <1>1, <2>1, <2>2, <2>3, <2>4 DEF Script
<1>2. CASE \/ \E b \in Buttons \ {"loading"} : Click(b)
           \/ Edit \/ Fill \/ Abort \/ NewSession \/ \E m \in Unstable : ChangeFile(m)
           \/ \E r \in Runs : RunEnds(r)
  BY <1>2 DEF Click, Edit, Fill, Abort, NewSession, ChangeFile, RunEnds, Restart
<1>3. CASE UNCHANGED vars
  BY <1>3 DEF vars
<1>. QED  BY <1>1, <1>2, <1>3 DEF Next, Waiting

(* A manifest is sent, or not, and the outcome of it names what was sent.  *)
LEMMA SendingNames ==
  ASSUME TypeOK, Names(got), [Next]_vars, Unsent \/ SendUnanswered \/ Send
  PROVE  Names(got)'
<1>0. todo # {}
  BY DEF Unsent, SendUnanswered, Send
<1>1. \A m \in Manifests : got[m].run # 0 => got[m].run \in Made' /\ made'[got[m].run].of = m
  BY NamesStay DEF TypeOK
<1>2. PICK s \in {"error", "success"}, r \in {0} \cup Runs :
        Collect(s, r) /\ (r # 0 => Accepted(r, TRUE) /\ svc'[r] # "none")
  <2>1. CASE Unsent \/ SendUnanswered
    BY <2>1 DEF Unsent, SendUnanswered
  <2>2. CASE Send
    <3>1. PICK r \in Runs, s \in {"running"} \cup Terminal :
            Accepted(r, TRUE) /\ svc' = [svc EXCEPT ![r] = s] /\ Collect("success", r)
      BY <2>2 DEF Send
    <3>2. svc'[r] # "none"
      BY <3>1 DEF TypeOK, Terminal
    <3>. QED  BY <3>1, <3>2
  <2>. QED  BY <2>1, <2>2
<1>3. r # 0 => r \in Made' /\ made'[r].of = Current
  <2>. SUFFICES ASSUME r # 0 PROVE r \in Made' /\ made'[r].of = Current
    OBVIOUS
  <2>1. made' = [made EXCEPT ![r] = [of |-> Current, load |-> clicks, told |-> TRUE,
                                    renamed |-> Current \in idmap, links |-> Links(Current)]]
    BY <1>0, <1>2, AcceptedTyped
  <2>. QED  BY <1>2, <2>1 DEF Made, TypeOK
<1>4. got' = [got EXCEPT ![Current] = [status |-> s, run |-> r]] /\ Current \in Manifests
  BY <1>0, <1>2, CurrentIsNext DEF Collect
<1>5. got'[Current].run = r /\ \A m \in Manifests \ {Current} : got'[m] = got[m]
  BY <1>4 DEF TypeOK
<1>. QED  BY <1>1, <1>3, <1>5 DEF Names

(* The submission has come to its end with an abort, or has come to every  *)
(* manifest.                                                               *)
EndIsTrue == pc = "ended" /\ ~abort => todo = {}

OutcomeInv == TypeOK /\ Names(got) /\ Names(results) /\ EndIsTrue

LEMMA EndIsTrueStep ==
  ASSUME TypeOK, EndIsTrue, [Next]_vars
  PROVE  EndIsTrue'
<1>. USE DEF EndIsTrue, shown, local
<1>1. CASE Script
  <2>1. CASE PreflightFails \/ Select \/ Unsee \/ Unpreview \/ NoPreview \/ PreviewFails \/ Unseeing
    BY <2>1 DEF PreflightFails, Select, Unsee, Unpreview, NoPreview, PreviewFails, Unseeing, Goto, Restart
  <2>2. CASE PreviewTier \/ Seeing \/ ForgetResults \/ NoSubmit \/ NoToken \/ TierIsGone \/ StartSubmit
    BY <2>2 DEF PreviewTier, Seeing, ForgetResults, NoSubmit, NoToken, TierIsGone, StartSubmit, Goto, Restart
  <2>3. CASE Unsent \/ SendUnanswered \/ Send
    BY <2>3 DEF Unsent, SendUnanswered, Send, Collect
  <2>4. CASE Store \/ Check \/ Exhaust \/ EndSubmit \/ NoStatus \/ CheckIngestionStatus
    BY <2>4 DEF Store, Check, Exhaust, EndSubmit, NoStatus, CheckIngestionStatus, Goto, TypeOK
  <2>. QED  BY <1>1, <2>1, <2>2, <2>3, <2>4 DEF Script
<1>2. CASE \/ \E b \in Buttons \ {"loading"} : Click(b)
           \/ Edit \/ Fill \/ Abort \/ NewSession \/ \E m \in Unstable : ChangeFile(m)
           \/ \E r \in Runs : RunEnds(r)
  BY <1>2 DEF Click, Edit, Fill, Abort, NewSession, ChangeFile, RunEnds, Restart
<1>3. CASE UNCHANGED vars
  BY <1>3 DEF vars
<1>. QED  BY <1>1, <1>2, <1>3 DEF Next, Waiting

(* Every manifest of a load that ends unaborted has its outcome, and what  *)
(* an outcome names is a run of that manifest, across the writes of the    *)
(* loop's own list into the session and every restart between them.        *)
THEOREM LoadsEndWhole == Spec => []LoadsAreWhole
<1>1. Init => OutcomeInv
  BY InitTyped, NoOutcomesNameNothing DEF Init, Fresh, OutcomeInv, EndIsTrue
<1>2. TypeOK' /\ OutcomeInv /\ [Next]_vars => OutcomeInv'
  <2>. SUFFICES ASSUME TypeOK', OutcomeInv, [Next]_vars PROVE OutcomeInv'
    OBVIOUS
  <2>. USE DEF OutcomeInv
  <2>1. EndIsTrue'
    BY EndIsTrueStep
  <2>2. ASSUME NEW t \in [Manifests -> Outcome], Names(t)
        PROVE  \A m \in Manifests : t[m].run # 0 => t[m].run \in Made' /\ made'[t[m].run].of = m
    BY <2>2, NamesStay
  <2>3. NoOutcomes \in [Manifests -> Outcome] /\ Names(NoOutcomes)
    BY NoOutcomesTyped, NoOutcomesNameNothing
  <2>4. Names(results)'
    BY <2>2, <2>3, OutcomesStep DEF Names, TypeOK
  <2>5. Names(got)'
    <3>1. CASE got' \in {got, NoOutcomes}
      BY <2>2, <2>3, <3>1 DEF Names, TypeOK
    <3>2. CASE Unsent \/ SendUnanswered \/ Send
      BY <3>2, SendingNames
    <3>. QED  BY <3>1, <3>2, OutcomesStep
  <2>. QED  BY <2>1, <2>4, <2>5
<1>3. OutcomeInv => LoadsAreWhole
  BY DEF OutcomeInv, LoadsAreWhole, Names, EndIsTrue
<1>. QED  BY <1>1, <1>2, <1>3, TypeCorrect, PTL DEF Spec

-----------------------------------------------------------------------------
(* Links between the records of a load                                     *)

(* What a run was given is what the id map makes of its manifest.          *)
OfIdMap(r) ==
  /\ made[r].renamed <=> made[r].of \in idmap
  /\ made[r].links = {n \in idmap : <<made[r].of, n>> \in Refs}

Submitting == {"send", "store", "check", "ended"}

(* A script run submits one load, with one id map from its first manifest  *)
(* to its last: no run belongs to a load that has not begun.               *)
LoadInv ==
  /\ pc \in Submitting => pressed = "loading"
  /\ \A r \in Made : made[r].load <= clicks
  /\ pressed = "submit" => \A r \in Made : made[r].load < clicks
  /\ pressed = "loading" => \A r \in Made : made[r].load = clicks => OfIdMap(r)

LinkInv == TypeOK /\ LoadInv /\ LinksAgree

(* The script goes on, stops, is started by a button, or starts a load.    *)
LEMMA LoadStep ==
  ASSUME [Next]_vars
  PROVE  \/ /\ UNCHANGED <<pressed, idmap, clicks>>
            /\ pc' \in Submitting => pc \in Submitting
         \/ UNCHANGED service /\ pc' = "top" /\ pressed' = "none" /\ clicks' \in {clicks, clicks + 1}
         \/ UNCHANGED service /\ pc' = "top" /\ pressed' # "loading" /\ clicks' = clicks + 1
         \/ /\ UNCHANGED <<service, clicks>>
            /\ pc' = "send" /\ pressed = "submit" /\ pressed' = "loading"
<1>. USE DEF local, counts, Submitting
<1>1. CASE Script
  <2>1. CASE PreflightFails \/ Select \/ Unsee \/ Unpreview \/ NoPreview \/ PreviewFails \/ Unseeing
    BY <2>1 DEF PreflightFails, Select, Unsee, Unpreview, NoPreview, PreviewFails, Unseeing, Goto, Restart
  <2>2. CASE PreviewTier \/ Seeing \/ ForgetResults \/ NoSubmit \/ NoToken \/ TierIsGone \/ StartSubmit
    BY <2>2 DEF PreviewTier, Seeing, ForgetResults, NoSubmit, NoToken, TierIsGone, StartSubmit, Goto, Restart
  <2>3. CASE Unsent \/ SendUnanswered \/ Send
    BY <2>3 DEF Unsent, SendUnanswered, Send, Collect
  <2>4. CASE Store \/ Check \/ Exhaust \/ EndSubmit \/ NoStatus \/ CheckIngestionStatus
    BY <2>4 DEF Store, Check, Exhaust, EndSubmit, NoStatus, CheckIngestionStatus, Goto
  <2>. QED  BY <1>1, <2>1, <2>2, <2>3, <2>4 DEF Script
<1>2. CASE \E b \in Buttons \ {"loading"} : Click(b)
  BY <1>2 DEF Click, Interact, Restart
<1>3. CASE Edit \/ Fill \/ Abort \/ NewSession
  BY <1>3 DEF Edit, Fill, Abort, NewSession, Interact, Restart
<1>4. CASE (\E m \in Unstable : ChangeFile(m)) \/ \E r \in Runs : RunEnds(r)
  BY <1>4 DEF ChangeFile, RunEnds
<1>5. CASE UNCHANGED vars
  BY <1>5 DEF vars
<1>. QED  BY <1>1, <1>2, <1>3, <1>4, <1>5 DEF Next, Waiting

(* A run, if any, that a step adds is of this load and of its id map.      *)
LEMMA MadeStep ==
  ASSUME TypeOK, [Next]_vars
  PROVE  \/ Made' = Made /\ \A r \in Made : made'[r] = made[r]
         \/ /\ pc = "send"
            /\ \E q \in Runs \ Made :
                 /\ Made' = Made \cup {q} /\ \A r \in Made : made'[r] = made[r]
                 /\ made'[q].load = clicks
                 /\ made'[q].renamed <=> made'[q].of \in idmap
                 /\ made'[q].links = {n \in idmap : <<made'[q].of, n>> \in Refs}
<1>1. CASE UNCHANGED service
  BY <1>1 DEF service, Made
<1>2. CASE SendUnanswered \/ Send
  <2>1. PICK q \in Runs, t \in BOOLEAN, s \in {"running"} \cup Terminal :
          Accepted(q, t) /\ svc' = [svc EXCEPT ![q] = s]
    BY <1>2 DEF SendUnanswered, Send
  <2>2. pc = "send" /\ todo # {}
    BY <1>2 DEF SendUnanswered, Send
  <2>3. /\ q \in Runs \ Made
        /\ made' = [made EXCEPT ![q] = [of |-> Current, load |-> clicks, told |-> t,
                                        renamed |-> Current \in idmap, links |-> Links(Current)]]
    BY <2>1, <2>2, AcceptedTyped
  <2>4. Made' = Made \cup {q}
    BY <2>1, <2>3 DEF Made, TypeOK, Terminal
  <2>5. made'[q] = [of |-> Current, load |-> clicks, told |-> t,
                    renamed |-> Current \in idmap, links |-> Links(Current)]
    BY <2>3 DEF TypeOK
  <2>6. \A r \in Made : made'[r] = made[r]
    BY <2>3 DEF TypeOK, Made
  <2>7. Links(Current) = {n \in idmap : <<Current, n>> \in Refs}
    BY DEF Links
  <2>8. made'[q].load = clicks /\ made'[q].of = Current /\ made'[q].links = Links(Current)
    BY <2>5
  <2>9. made'[q].renamed <=> Current \in idmap
    <3>. DEFINE given == Current \in idmap
    <3>1. given \in BOOLEAN /\ t \in BOOLEAN
      OBVIOUS
    <3>2. made'[q] = [of |-> Current, load |-> clicks, told |-> t,
                      renamed |-> given, links |-> Links(Current)]
      BY <2>5
    <3>. HIDE DEF given
    <3>3. made'[q].renamed = given
      BY <3>1, <3>2
    <3>. QED  BY <3>1, <3>3 DEF given
  <2>. QED  BY <2>2, <2>3, <2>4, <2>6, <2>7, <2>8, <2>9
<1>3. CASE \E q \in Runs : RunEnds(q)
  BY <1>3 DEF RunEnds, Made, TypeOK, Terminal
<1>. QED  BY <1>1, <1>2, <1>3, ServiceStep

LEMMA LinkInvStep ==
  ASSUME LinkInv, TypeOK', [Next]_vars
  PROVE  LinkInv'
<1>. USE DEF LinkInv
<1>0. clicks \in Nat /\ \A r \in Made : made[r].load \in Nat
  BY DEF TypeOK, Made, Copy
<1>1. CASE Made' = Made /\ \A r \in Made : made'[r] = made[r]
  <2>1. LinksAgree'
    BY <1>1 DEF LinksAgree
  <2>2. LoadInv'
    <3>1. CASE UNCHANGED <<pressed, idmap, clicks>> /\ (pc' \in Submitting => pc \in Submitting)
      BY <1>1, <3>1 DEF LoadInv, OfIdMap
    <3>2. CASE pc' = "top" /\ pressed' = "none" /\ clicks' \in {clicks, clicks + 1}
      BY <1>0, <1>1, <3>2 DEF LoadInv, Submitting
    <3>3. CASE pc' = "top" /\ pressed' # "loading" /\ clicks' = clicks + 1
      BY <1>0, <1>1, <3>3 DEF LoadInv, Submitting
    <3>4. CASE clicks' = clicks /\ pc' = "send" /\ pressed = "submit" /\ pressed' = "loading"
      BY <1>0, <1>1, <3>4 DEF LoadInv
    <3>. QED  BY <3>1, <3>2, <3>3, <3>4, LoadStep
  <2>. QED  BY <2>1, <2>2
<1>2. ASSUME pc = "send", NEW q \in Runs \ Made,
             Made' = Made \cup {q}, \A r \in Made : made'[r] = made[r],
             made'[q].load = clicks,
             made'[q].renamed <=> made'[q].of \in idmap,
             made'[q].links = {n \in idmap : <<made'[q].of, n>> \in Refs}
      PROVE  LinkInv'
  <2>1. pressed = "loading" /\ ~UNCHANGED service
    <3>1. Made' # Made
      BY <1>2
    <3>. QED  BY <1>2, <3>1 DEF LoadInv, Submitting, service, Made
  <2>2. UNCHANGED <<pressed, idmap, clicks>> /\ (pc' \in Submitting => pc \in Submitting)
    BY <2>1, LoadStep
  <2>3. \A r \in Made' : made'[r].load = clicks => OfIdMap(r)'
    BY <1>2, <2>1, <2>2 DEF LoadInv, OfIdMap
  <2>4. LoadInv'
    BY <1>0, <1>2, <2>1, <2>2, <2>3 DEF LoadInv
  <2>5. LinksAgree'
    <3>. SUFFICES ASSUME NEW r \in Made', NEW p \in Made',
                         made'[r].load = made'[p].load, <<made'[r].of, made'[p].of>> \in Refs
                  PROVE  made'[p].of \in made'[r].links <=> made'[p].renamed
      BY DEF LinksAgree
    <3>1. CASE made'[r].load = clicks
      BY <2>3, <3>1 DEF OfIdMap
    <3>2. CASE made'[r].load # clicks
      BY <1>2, <3>2 DEF LinksAgree
    <3>. QED  BY <3>1, <3>2
  <2>. QED  BY <2>4, <2>5
<1>. QED  BY <1>1, <1>2, MadeStep

(* A reference between two records of one load carries the load prefix     *)
(* just when the record it names does: the id map of a load is made once,  *)
(* and the file of either may change before it is read to be sent.         *)
THEOREM LoadsAreLinked == Spec => []LinksAgree
<1>1. Init => LinkInv
  BY InitTyped DEF Init, LinkInv, LoadInv, LinksAgree, Made, Submitting
<1>2. TypeOK' /\ LinkInv /\ [Next]_vars => LinkInv'
  BY LinkInvStep
<1>3. LinkInv => LinksAgree
  BY DEF LinkInv
<1>. QED  BY <1>1, <1>2, <1>3, TypeCorrect, PTL DEF Spec

-----------------------------------------------------------------------------
(* RecordLoad                                                              *)

(* There are finitely many records, so a load has a total.                 *)
LEMMA FinitelyMany == IsFiniteSet(Records)
<1>. DEFINE Of == [f \in Files |-> {f} \X (1 .. Count[f])]
            All == {{f} \X (1 .. Count[f]) : f \in Files}
<1>1. IsFiniteSet(Files)
  BY FS_Interval, RecordAssumption DEF Files
<1>2. Of \in Surjection(Files, All)
  BY Zenon DEF Surjection
<1>3. IsFiniteSet(All)
  BY <1>1, <1>2, FS_Surjection
<1>4. ASSUME NEW T \in All PROVE IsFiniteSet(T)
  <2>1. PICK f \in Files : T = {f} \X (1 .. Count[f])
    OBVIOUS
  <2>2. IsFiniteSet(1 .. Count[f])
    BY FS_Interval, RecordAssumption
  <2>3. IsFiniteSet({f})
    BY FS_Singleton
  <2>. QED  BY <2>1, <2>2, <2>3, FS_Product
<1>. HIDE DEF Of, All
<1>5. IsFiniteSet(UNION All)
  BY <1>3, <1>4, FS_UNION
<1>. QED  BY <1>5 DEF All, Records

LEMMA TotalIsNatural ==
  ASSUME NEW from, NEW to
  PROVE  Cardinality(SectionRecords(from, to)) \in Nat
<1>1. SectionRecords(from, to) \in SUBSET Records
  BY DEF SectionRecords
<1>. QED  BY <1>1, FinitelyMany, FS_Subset, FS_CardinalityType

(* Whatever the operator asks for, a batch holds one record at least and   *)
(* no more than the service takes.                                         *)
LEMMA ClampedInRange ==
  ASSUME NEW n \in BatchSizes
  PROVE  Clamped(n) \in 1 .. MaxPerCall
BY RecordAssumption DEF Clamped

LEMMA LastTyped ==
  ASSUME NEW start \in Files, NEW limit \in 0 .. NumFiles
  PROVE  LastOf(start, limit) \in Nat
BY RecordAssumption DEF LastOf, Files

LEMMA RecordsTyped ==
  ASSUME NEW f \in Files
  PROVE  RecordsOf(f) \in Seq(Records)
<1>1. \A i \in 1 .. Count[f] : <<f, i>> \in Records
  BY DEF Records
<1>2. RecordsOf(f) \in [1 .. Count[f] -> Records]
  BY <1>1 DEF RecordsOf
<1>3. Count[f] \in Nat
  BY RecordAssumption
<1>. QED  BY <1>2, <1>3, SeqDef


(* Besides the types: the thread reads manifests of the folder only.       *)
TypeInv == RecordsTypeOK /\ first >= 1 /\ last <= NumFiles /\ file >= 1

LEMMA ResultTyped ==
  ASSUME NEW of \in Records \cup (Files \X {0}), NEW s \in {"success", "error"}
  PROVE  [of |-> of, status |-> s] \in Results
BY DEF Results

LEMMA TypeInvariant == RecordsSpec => []TypeInv
<1>. USE RecordAssumption DEF TypeInv, RecordsTypeOK
<1>1. RecordsInit => TypeInv
  <2>1. <<>> \in Seq(Records) /\ <<>> \in Seq(Results)
    BY EmptySeq
  <2>2. RecordsInit => buffer \in Seq(Records) /\ batch \in Seq(Records) /\ recorded \in Seq(Results)
    BY <2>1, Zenon DEF RecordsInit
  <2>3. RecordsInit => /\ first \in Nat /\ last \in Nat /\ file \in Nat /\ size \in 1 .. MaxPerCall
                /\ total \in Nat /\ loads \in 0 .. MaxLoads /\ touches \in 0 .. MaxTouches
                /\ first >= 1 /\ last <= NumFiles /\ file >= 1
    BY DEF RecordsInit
  <2>4. RecordsInit => /\ readable \in SUBSET Files /\ stored \in SUBSET Records /\ place = "idle"
                /\ status = "error" /\ aborting = FALSE /\ calm = TRUE
    BY DEF RecordsInit
  <2>. QED  BY <2>2, <2>3, <2>4
<1>2. TypeInv /\ [RecordsNext]_recordsVars => TypeInv'
  <2>. SUFFICES ASSUME TypeInv, [RecordsNext]_recordsVars PROVE TypeInv'
    OBVIOUS
  <2>1. ASSUME NEW start \in Files, NEW limit \in 0 .. NumFiles, NEW n \in BatchSizes,
               Press(start, limit, n)
        PROVE  TypeInv'
    <3>1. first' = start /\ last' = LastOf(start, limit) /\ size' = Clamped(n)
          /\ file' = start /\ buffer' = <<>> /\ batch' = <<>> /\ status' = "error"
          /\ recorded' = <<>> /\ aborting' = FALSE /\ calm' = TRUE /\ place' = "read"
          /\ UNCHANGED <<readable, stored, touches>>
      BY <2>1 DEF Press
    <3>2. loads' \in 0 .. MaxLoads
      BY <2>1 DEF Press
    <3>3. total' \in Nat
      BY <2>1, TotalIsNatural DEF Press
    <3>4. size' \in 1 .. MaxPerCall
      BY <3>1, ClampedInRange
    <3>5. last' \in Nat /\ last' <= NumFiles
      BY <3>1, LastTyped DEF LastOf, Files
    <3>6. first' \in Nat /\ first' >= 1 /\ file' \in Nat /\ file' >= 1
      BY <3>1 DEF Files
    <3>. QED  BY EmptySeq, <3>1, <3>2, <3>3, <3>4, <3>5, <3>6
  <2>2. CASE RequestAbort
    BY <2>2 DEF RequestAbort, chosen, generator
  <2>3. CASE Read
    <3>1. file \in Files
      BY <2>3 DEF Read, Files
    <3>2. buffer' \in Seq(Records)
      BY <2>3, <3>1, RecordsTyped, ConcatProperties DEF Read
    <3>. QED  BY <2>3, <3>2 DEF Read, chosen
  <2>4. CASE Unreadable
    <3>1. file \in Files
      BY <2>4 DEF Unreadable, Files
    <3>2. [of |-> <<file, 0>>, status |-> "error"] \in Results
      BY <3>1, ResultTyped
    <3>3. recorded' \in Seq(Results)
      BY <2>4, <3>2, AppendProperties DEF Unreadable
    <3>. QED  BY <2>4, <3>3 DEF Unreadable, chosen
  <2>5. ASSUME NEW records \in Seq(Records), Submit(records), buffer' \in Seq(Records)
        PROVE  TypeInv'
    <3>1. {records[i] : i \in DOMAIN records} \subseteq Records
      BY LenProperties, ElementOfSeq
    <3>2. stored' \in SUBSET Records /\ status' \in {"success", "error"}
      BY <2>5, <3>1 DEF Submit, PutRecords
    <3>. QED  BY <2>5, <3>2 DEF Submit, chosen
  <2>6. CASE Flush
    <3>1. \A i \in 1 .. Len(buffer) : buffer[i] \in Records
      BY ElementOfSeq
    <3>2. Len(buffer) \in Nat /\ size <= Len(buffer) /\ size \in Nat
      BY <2>6, LenProperties DEF Flush
    <3>3. SubSeq(buffer, 1, size) \in Seq(Records)
      BY <3>1, <3>2, SubSeqProperties
    <3>4. SubSeq(buffer, size + 1, Len(buffer)) \in Seq(Records)
      BY <3>1, <3>2, SubSeqProperties
    <3>. QED  BY <2>5, <2>6, <3>3, <3>4 DEF Flush
  <2>7. CASE Flushed
    BY <2>7 DEF Flushed, chosen, generator
  <2>8. CASE Drain
    <3>1. buffer' \in Seq(Records) /\ Submit(buffer)
      BY <2>8, EmptySeq DEF Drain
    <3>. QED  BY <2>5, <3>1
  <2>9. CASE Yield
    <3>1. Head(batch) \in Records /\ Tail(batch) \in Seq(Records)
      BY <2>9, HeadTailProperties DEF Yield
    <3>2. [of |-> Head(batch), status |-> status] \in Results
      BY <3>1, ResultTyped
    <3>3. recorded' \in Seq(Results)
      BY <2>9, <3>2, AppendProperties DEF Yield
    <3>. QED  BY <2>9, <3>1, <3>3 DEF Yield, chosen
  <2>10. CASE Yielded
    BY <2>10 DEF Yielded, chosen, generator
  <2>11. CASE CheckAbort
    BY <2>11 DEF CheckAbort, chosen, generator
  <2>12. CASE EndLoad
    BY <2>12 DEF EndLoad, chosen, generator
  <2>13. ASSUME NEW f \in Files, TouchFile(f) PROVE TypeInv'
    <3>1. readable' \in SUBSET Files
      BY <2>13 DEF TouchFile
    <3>2. touches' \in 0 .. MaxTouches
      BY <2>13 DEF TouchFile
    <3>. QED  BY <2>13, <3>1, <3>2 DEF TouchFile, chosen, generator
  <2>14. CASE UNCHANGED recordsVars
    BY <2>14 DEF recordsVars, chosen, generator
  <2>. QED  BY <2>1, <2>2, <2>3, <2>4, <2>6, <2>7, <2>8, <2>9, <2>10, <2>11, <2>12, <2>13,
               <2>14 DEF RecordsNext, Thread, Over
<1>. QED  BY <1>1, <1>2, PTL DEF RecordsSpec

(* Every variable of the load holds a value of its type.                   *)
THEOREM RecordsTypeCorrect == RecordsSpec => []RecordsTypeOK
BY TypeInvariant, PTL DEF TypeInv

-----------------------------------------------------------------------------
(* The records on their way share an outcome; where it is a success, they  *)
(* are stored, as are those whose outcome the job has recorded.            *)
Held(records) == \A i \in DOMAIN records : records[i] \in stored

StoredInv == SuccessIsStored /\ (status = "success" => Held(batch))

(* No record is ever taken out of the service.                             *)
LEMMA StoredGrows ==
  ASSUME NEW records \in Seq(Records), PutRecords({records[i] : i \in DOMAIN records})
  PROVE  stored \subseteq stored' /\ (status' = "success" => \A i \in DOMAIN records : records[i] \in stored')
BY DEF PutRecords

(* A result that is true when it is recorded.                              *)
LEMMA OneMore ==
  ASSUME RecordsTypeOK, SuccessIsStored, NEW e \in Results, recorded' = Append(recorded, e),
         stored' = stored, e.status = "success" => e.of \in stored
  PROVE  SuccessIsStored'
<1>1. recorded \in Seq(Results)
  BY DEF RecordsTypeOK
<1>2. Append(recorded, e) \in Seq(Results) /\ Len(Append(recorded, e)) = Len(recorded) + 1
  BY <1>1, AppendProperties
<1>3. DOMAIN recorded = 1 .. Len(recorded) /\ DOMAIN recorded' = 1 .. Len(recorded) + 1
      /\ Len(recorded) \in Nat
  BY <1>1, <1>2, LenProperties
<1>4. ASSUME NEW i \in DOMAIN recorded', recorded'[i].status = "success"
      PROVE  recorded'[i].of \in stored'
  <2>1. CASE i \in DOMAIN recorded
    <3>1. recorded'[i] = recorded[i]
      BY <1>1, <1>3, <2>1, AppendProperties
    <3>. QED  BY <1>4, <2>1, <3>1 DEF SuccessIsStored
  <2>2. CASE i = Len(recorded) + 1
    <3>1. recorded'[i] = e
      BY <1>1, <2>2, AppendProperties
    <3>. QED  BY <1>4, <3>1
  <2>. QED  BY <1>3, <2>1, <2>2
<1>. QED  BY <1>4 DEF SuccessIsStored

LEMMA StoredInvariant == RecordsSpec => []StoredInv
<1>. USE DEF StoredInv, SuccessIsStored, Held
<1>1. RecordsInit => StoredInv
  BY DEF RecordsInit
<1>2. TypeInv /\ StoredInv /\ [RecordsNext]_recordsVars => StoredInv'
  <2>. SUFFICES ASSUME TypeInv, StoredInv, [RecordsNext]_recordsVars PROVE StoredInv'
    OBVIOUS
  <2>. USE DEF TypeInv, RecordsTypeOK
  <2>1. ASSUME NEW start \in Files, NEW limit \in 0 .. NumFiles, NEW n \in BatchSizes,
               Press(start, limit, n)
        PROVE  StoredInv'
    BY <2>1 DEF Press
  <2>2. ASSUME NEW records \in Seq(Records), Submit(records) PROVE StoredInv'
    <3>1. stored \subseteq stored' /\ (status' = "success" => \A i \in DOMAIN records : records[i] \in stored')
      BY <2>2, StoredGrows DEF Submit
    <3>. QED  BY <2>2, <3>1 DEF Submit
  <2>3. CASE Flush
    <3>1. \A i \in 1 .. size : buffer[i] \in Records
      BY <2>3, ElementOfSeq, LenProperties DEF Flush
    <3>2. SubSeq(buffer, 1, size) \in Seq(Records)
      BY <3>1, SubSeqProperties
    <3>. QED  BY <2>2, <2>3, <3>2 DEF Flush
  <2>4. CASE Drain
    BY <2>2, <2>4 DEF Drain
  <2>5. CASE Unreadable
    <3>. DEFINE e == [of |-> <<file, 0>>, status |-> "error"]
    <3>1. recorded' = Append(recorded, e) /\ UNCHANGED <<stored, status, batch>>
      BY <2>5 DEF Unreadable
    <3>0. file \in Files
      BY <2>5, RecordAssumption DEF Unreadable, Files
    <3>2. e \in Results
      BY <3>0, ResultTyped
    <3>3. SuccessIsStored'
      BY <3>1, <3>2, OneMore
    <3>. QED  BY <3>1, <3>3
  <2>6. CASE Yield
    <3>. DEFINE e == [of |-> Head(batch), status |-> status]
    <3>1. recorded' = Append(recorded, e) /\ batch' = Tail(batch) /\ UNCHANGED <<stored, status>>
          /\ batch # <<>>
      BY <2>6 DEF Yield
    <3>2. Head(batch) \in Records /\ Head(batch) = batch[1]
      BY <3>1, HeadTailProperties
    <3>3. e \in Results
      BY <3>2, ResultTyped
    <3>4. e.status = "success" => e.of \in stored
      BY <3>1, <3>2, EmptySeq, LenProperties
    <3>5. SuccessIsStored'
      BY <3>1, <3>3, <3>4, OneMore
    <3>6. \A i \in DOMAIN Tail(batch) : i + 1 \in DOMAIN batch /\ Tail(batch)[i] = batch[i + 1]
      BY <3>1, HeadTailProperties, LenProperties
    <3>7. (status = "success" => Held(batch))'
      BY <3>1, <3>6
    <3>. QED  BY <3>5, <3>7, Zenon
  <2>7. CASE RequestAbort \/ Read \/ Flushed \/ Yielded \/ CheckAbort \/ EndLoad \/ UNCHANGED recordsVars
    BY <2>7 DEF RequestAbort, Read, Flushed, Yielded, CheckAbort, EndLoad, recordsVars, chosen, generator
  <2>8. ASSUME NEW f \in Files, TouchFile(f) PROVE StoredInv'
    BY <2>8 DEF TouchFile, generator
  <2>. QED  BY <2>1, <2>3, <2>4, <2>5, <2>6, <2>7, <2>8 DEF RecordsNext, Thread, Over
<1>. QED  BY <1>1, <1>2, TypeInvariant, PTL DEF RecordsSpec

(* A success the panel lists is held by the service, at whatever step the  *)
(* load stands and however it ended.                                       *)
THEOREM SuccessesAreStored == RecordsSpec => []SuccessIsStored
BY StoredInvariant, PTL DEF StoredInv

-----------------------------------------------------------------------------
(* The generator is suspended between two batches, or within one of which  *)
(* some results are still to come; what it has not sent fills no batch     *)
(* when the next manifest is read.                                         *)
BatchInv ==
  /\ Len(batch) <= size
  /\ place \in {"read", "flush"} => batch = <<>>
  /\ place = "check" => Len(batch) < size
  /\ place = "read" => Len(buffer) < size
  /\ place = "idle" /\ aborting => Len(batch) < size

LEMMA BatchInvariant == RecordsSpec => []BatchInv
<1>. USE DEF BatchInv
<1>1. RecordsInit => BatchInv
  BY EmptySeq DEF RecordsInit
<1>2. TypeInv /\ BatchInv /\ [RecordsNext]_recordsVars => BatchInv'
  <2>. SUFFICES ASSUME TypeInv, BatchInv, [RecordsNext]_recordsVars PROVE BatchInv'
    OBVIOUS
  <2>. USE DEF TypeInv, RecordsTypeOK
  <2>0. Len(<<>>) = 0 /\ size \in Nat /\ size > 0 /\ Len(batch) \in Nat /\ Len(buffer) \in Nat
    BY RecordAssumption, LenProperties, EmptySeq
  <2>1. ASSUME NEW start \in Files, NEW limit \in 0 .. NumFiles, NEW n \in BatchSizes,
               Press(start, limit, n)
        PROVE  BatchInv'
    BY <2>0, <2>1, ClampedInRange, RecordAssumption DEF Press
  <2>2. CASE RequestAbort
    BY <2>2 DEF RequestAbort, chosen, generator
  <2>3. CASE Read
    BY <2>0, <2>3 DEF Read, chosen
  <2>4. CASE Unreadable
    BY <2>0, <2>4 DEF Unreadable, chosen
  <2>5. CASE Flush
    <3>1. \A i \in 1 .. size : buffer[i] \in Records
      BY <2>5, <2>0, ElementOfSeq DEF Flush
    <3>2. Len(SubSeq(buffer, 1, size)) = size
      BY <3>1, <2>0, SubSeqProperties
    <3>. QED  BY <2>0, <2>5, <3>2 DEF Flush, Submit, chosen
  <2>6. CASE Flushed
    BY <2>6, <2>0 DEF Flushed, chosen, generator
  <2>7. CASE Drain
    BY <2>7, <2>0 DEF Drain, Submit, chosen
  <2>8. CASE Yield
    <3>1. Len(batch') = Len(batch) - 1
      BY <2>8, HeadTailProperties DEF Yield
    <3>. QED  BY <2>0, <2>8, <3>1 DEF Yield, chosen
  <2>9. CASE Yielded
    BY <2>9, <2>0 DEF Yielded, chosen, generator
  <2>10. CASE CheckAbort
    BY <2>10, <2>0 DEF CheckAbort, chosen, generator
  <2>11. CASE EndLoad
    BY <2>11, <2>0 DEF EndLoad, chosen, generator
  <2>12. ASSUME NEW f \in Files, TouchFile(f) PROVE BatchInv'
    BY <2>12 DEF TouchFile, chosen, generator
  <2>13. CASE UNCHANGED recordsVars
    BY <2>13 DEF recordsVars, chosen, generator
  <2>. QED  BY <2>1, <2>2, <2>3, <2>4, <2>5, <2>6, <2>7, <2>8, <2>9, <2>10, <2>11, <2>12, <2>13
            DEF RecordsNext, Thread, Over
<1>. QED  BY <1>1, <1>2, TypeInvariant, PTL DEF RecordsSpec

(* No call holds more than the service accepts, and an abort leaves fewer  *)
(* than a batch of stored records without a result.                        *)
THEOREM BatchesStayBounded == RecordsSpec => []BatchesAreBounded
<1>1. TypeInv /\ BatchInv => BatchesAreBounded
  BY RecordAssumption DEF TypeInv, RecordsTypeOK, BatchInv, BatchesAreBounded
<1>. QED  BY <1>1, TypeInvariant, BatchInvariant, PTL

-----------------------------------------------------------------------------
(* Sequences that hold nothing twice                                       *)

Elements(s) == {s[i] : i \in DOMAIN s}
Distinct(s) == \A i, j \in DOMAIN s : s[i] = s[j] => i = j

LEMMA NothingIsDistinct == Elements(<<>>) = {} /\ Distinct(<<>>)
BY DEF Elements, Distinct

LEMMA JoinDistinct ==
  ASSUME NEW S, NEW s \in Seq(S), NEW t \in Seq(S), Distinct(s), Distinct(t),
         Elements(s) \cap Elements(t) = {}
  PROVE  Distinct(s \o t) /\ Elements(s \o t) = Elements(s) \cup Elements(t)
<1>. DEFINE u == s \o t
<1>1. Len(s) \in Nat /\ Len(t) \in Nat /\ DOMAIN s = 1 .. Len(s) /\ DOMAIN t = 1 .. Len(t)
  BY LenProperties
<1>2. u \in Seq(S) /\ Len(u) = Len(s) + Len(t)
  BY ConcatProperties
<1>3. DOMAIN u = 1 .. Len(s) + Len(t)
  BY <1>2, LenProperties
<1>4. \A i \in 1 .. Len(s) + Len(t) : u[i] = IF i <= Len(s) THEN s[i] ELSE t[i - Len(s)]
  BY ConcatProperties
<1>. HIDE DEF u
<1>5. \A i \in 1 .. Len(s) : i \in DOMAIN u /\ u[i] = s[i]
  BY <1>1, <1>3, <1>4
<1>6. \A i \in 1 .. Len(t) : i + Len(s) \in DOMAIN u /\ u[i + Len(s)] = t[i]
  BY <1>1, <1>3, <1>4
<1>7. \A i \in DOMAIN u : i \in 1 .. Len(s) \/ i - Len(s) \in 1 .. Len(t)
  BY <1>1, <1>3
<1>8. Elements(u) = Elements(s) \cup Elements(t)
  <2>1. Elements(s) \cup Elements(t) \subseteq Elements(u)
    BY <1>1, <1>5, <1>6 DEF Elements
  <2>2. \A i \in DOMAIN u : u[i] \in Elements(s) \cup Elements(t)
    BY <1>1, <1>3, <1>4, <1>7 DEF Elements
  <2>. QED  BY <2>1, <2>2 DEF Elements
<1>9. ASSUME NEW i \in DOMAIN u, NEW j \in DOMAIN u, u[i] = u[j] PROVE i = j
  <2>1. CASE i <= Len(s) /\ j <= Len(s)
    BY <1>1, <1>3, <1>5, <1>9, <2>1 DEF Distinct
  <2>2. CASE i > Len(s) /\ j > Len(s)
    <3>1. i - Len(s) \in DOMAIN t /\ j - Len(s) \in DOMAIN t /\ t[i - Len(s)] = t[j - Len(s)]
      BY <1>1, <1>3, <1>4, <1>9, <2>2
    <3>. QED  BY <1>1, <1>3, <3>1 DEF Distinct
  <2>3. ASSUME NEW k \in DOMAIN u, NEW l \in DOMAIN u, k <= Len(s), l > Len(s) PROVE u[k] # u[l]
    <3>1. u[k] \in Elements(s)
      BY <1>1, <1>3, <1>5, <2>3 DEF Elements
    <3>2. l - Len(s) \in DOMAIN t /\ u[l] = t[l - Len(s)]
      BY <1>1, <1>3, <1>4, <2>3
    <3>3. u[l] \in Elements(t)
      BY <3>2 DEF Elements
    <3>. QED  BY <3>1, <3>3
  <2>. QED  BY <1>1, <1>3, <1>9, <2>1, <2>2, <2>3
<1>. QED  BY <1>8, <1>9 DEF Distinct, u

LEMMA CutDistinct ==
  ASSUME NEW S, NEW s \in Seq(S), Distinct(s), NEW n \in 0 .. Len(s)
  PROVE  /\ Distinct(SubSeq(s, 1, n)) /\ Distinct(SubSeq(s, n + 1, Len(s)))
         /\ Elements(SubSeq(s, 1, n)) \cap Elements(SubSeq(s, n + 1, Len(s))) = {}
         /\ Elements(s) = Elements(SubSeq(s, 1, n)) \cup Elements(SubSeq(s, n + 1, Len(s)))
<1>. DEFINE a == SubSeq(s, 1, n)
            b == SubSeq(s, n + 1, Len(s))
<1>0. n \in Nat /\ n <= Len(s)
  BY LenProperties
<1>1. Len(s) \in Nat /\ DOMAIN s = 1 .. Len(s)
  BY LenProperties
<1>2. \A i \in 1 .. Len(s) : s[i] \in S
  BY ElementOfSeq
<1>3. a \in Seq(S) /\ Len(a) = n /\ \A i \in 1 .. n : a[i] = s[i]
  <2>1. \A i \in 1 .. n : s[i] \in S
    BY <1>0, <1>1, <1>2
  <2>2. Len(a) = (IF 1 <= n THEN n - 1 + 1 ELSE 0) /\ \A i \in 1 .. n - 1 + 1 : a[i] = s[1 + i - 1]
    BY <1>0, <2>1, SubSeqProperties
  <2>. QED  BY <1>0, <2>1, <2>2, SubSeqProperties
<1>4. b \in Seq(S) /\ Len(b) = Len(s) - n /\ \A i \in 1 .. Len(s) - n : b[i] = s[n + i]
  <2>1. \A i \in n + 1 .. Len(s) : s[i] \in S
    BY <1>0, <1>1, <1>2
  <2>2. /\ b \in Seq(S)
        /\ Len(b) = (IF n + 1 <= Len(s) THEN Len(s) - (n + 1) + 1 ELSE 0)
        /\ \A i \in 1 .. Len(s) - (n + 1) + 1 : b[i] = s[n + 1 + i - 1]
    BY <1>0, <1>1, <2>1, SubSeqProperties
  <2>. HIDE DEF b
  <2>3. ASSUME NEW i \in 1 .. Len(s) - n PROVE b[i] = s[n + i]
    <3>1. i \in 1 .. Len(s) - (n + 1) + 1 /\ n + 1 + i - 1 = n + i
      BY <1>0, <1>1
    <3>. QED  BY <2>2, <3>1
  <2>4. Len(b) = Len(s) - n
    <3>1. Len(b) = (IF n + 1 <= Len(s) THEN Len(s) - (n + 1) + 1 ELSE 0)
      BY <2>2
    <3>2. n \in Int /\ Len(s) \in Int /\ n <= Len(s)
      BY <1>0, <1>1
    <3>3. CASE n + 1 <= Len(s)
      BY <3>1, <3>2, <3>3
    <3>4. CASE ~(n + 1 <= Len(s))
      <4>1. Len(b) = 0
        BY <3>1, <3>4
      <4>2. n = Len(s)
        BY <3>2, <3>4
      <4>. QED  BY <3>2, <4>1, <4>2
    <3>. QED  BY <3>3, <3>4
  <2>. QED  BY <2>2, <2>3, <2>4
<1>. HIDE DEF a, b
<1>5. DOMAIN a = 1 .. n /\ DOMAIN b = 1 .. Len(s) - n
  BY <1>3, <1>4, LenProperties
<1>6. \A i \in DOMAIN s : i \in DOMAIN a \/ (i - n \in DOMAIN b /\ b[i - n] = s[i])
  <2>. SUFFICES ASSUME NEW i \in DOMAIN s, i \notin DOMAIN a
                PROVE  i - n \in DOMAIN b /\ b[i - n] = s[i]
    OBVIOUS
  <2>1. i - n \in 1 .. Len(s) - n /\ n + (i - n) = i
    BY <1>0, <1>1, <1>5
  <2>. QED  BY <1>4, <1>5, <2>1
<1>7. Distinct(a)
  BY <1>0, <1>1, <1>3, <1>5 DEF Distinct
<1>8. \A i \in DOMAIN b : n + i \in DOMAIN s /\ n + i \notin DOMAIN a /\ s[n + i] = b[i]
  <2>. SUFFICES ASSUME NEW i \in DOMAIN b
                PROVE  n + i \in DOMAIN s /\ n + i \notin DOMAIN a /\ s[n + i] = b[i]
    OBVIOUS
  <2>1. i \in 1 .. Len(s) - n
    BY <1>0, <1>5
  <2>2. n + i \in 1 .. Len(s) /\ n + i \notin 1 .. n
    BY <1>0, <1>1, <2>1
  <2>3. b[i] = s[n + i]
    BY <1>4, <2>1
  <2>. QED  BY <1>0, <1>1, <1>5, <2>2, <2>3
<1>9. Distinct(b)
  <2>. SUFFICES ASSUME NEW i \in DOMAIN b, NEW j \in DOMAIN b, b[i] = b[j] PROVE i = j
    BY DEF Distinct
  <2>1. n + i = n + j
    BY <1>8 DEF Distinct
  <2>. QED  BY <1>0, <1>1, <1>5, <2>1
<1>10. Elements(a) \cap Elements(b) = {}
  <2>. SUFFICES ASSUME NEW i \in DOMAIN a, NEW j \in DOMAIN b PROVE a[i] # b[j]
    BY DEF Elements
  <2>1. i \in DOMAIN s /\ a[i] = s[i]
    BY <1>0, <1>1, <1>3, <1>5
  <2>. QED  BY <1>8, <2>1 DEF Distinct
<1>11. Elements(a) \cup Elements(b) \subseteq Elements(s)
  <2>1. \A i \in DOMAIN a : i \in DOMAIN s /\ s[i] = a[i]
    BY <1>0, <1>1, <1>3, <1>5
  <2>. QED  BY <1>8, <2>1 DEF Elements
<1>12. Elements(s) \subseteq Elements(a) \cup Elements(b)
  BY <1>0, <1>1, <1>3, <1>5, <1>6 DEF Elements
<1>. QED  BY <1>7, <1>9, <1>10, <1>11, <1>12 DEF a, b

LEMMA TakeHead ==
  ASSUME NEW S, NEW s \in Seq(S), s # <<>>, Distinct(s)
  PROVE  /\ Distinct(Tail(s)) /\ Head(s) \notin Elements(Tail(s))
         /\ Elements(s) = {Head(s)} \cup Elements(Tail(s))
<1>1. Len(s) \in Nat \ {0} /\ DOMAIN s = 1 .. Len(s)
  BY LenProperties, EmptySeq
<1>2. /\ DOMAIN Tail(s) = 1 .. Len(s) - 1
      /\ \A i \in 1 .. Len(s) - 1 : Tail(s)[i] = s[i + 1]
  BY HeadTailProperties, LenProperties
<1>3. Head(s) = s[1]
  OBVIOUS
<1>4. \A i \in DOMAIN s : i = 1 \/ (i - 1 \in DOMAIN Tail(s) /\ Tail(s)[i - 1] = s[i])
  <2>. SUFFICES ASSUME NEW i \in DOMAIN s, i # 1
                PROVE  i - 1 \in DOMAIN Tail(s) /\ Tail(s)[i - 1] = s[i]
    OBVIOUS
  <2>1. i - 1 \in 1 .. Len(s) - 1 /\ (i - 1) + 1 = i
    BY <1>1
  <2>. QED  BY <1>2, <2>1
<1>5. Distinct(Tail(s))
  BY <1>1, <1>2 DEF Distinct
<1>6. Head(s) \notin Elements(Tail(s))
  BY <1>1, <1>2, <1>3 DEF Distinct, Elements
<1>7. {Head(s)} \cup Elements(Tail(s)) \subseteq Elements(s)
  BY <1>1, <1>2, <1>3 DEF Elements
<1>8. Elements(s) \subseteq {Head(s)} \cup Elements(Tail(s))
  BY <1>1, <1>3, <1>4 DEF Elements
<1>. QED  BY <1>5, <1>6, <1>7, <1>8

LEMMA FileDistinct ==
  ASSUME NEW f \in Files
  PROVE  /\ Distinct(RecordsOf(f)) /\ Elements(RecordsOf(f)) = {f} \X (1 .. Count[f])
<1>1. DOMAIN RecordsOf(f) = 1 .. Count[f] /\ \A i \in 1 .. Count[f] : RecordsOf(f)[i] = <<f, i>>
  BY DEF RecordsOf
<1>2. Distinct(RecordsOf(f))
  BY <1>1 DEF Distinct
<1>3. Elements(RecordsOf(f)) = {<<f, i>> : i \in 1 .. Count[f]}
  BY <1>1 DEF Elements
<1>. QED  BY <1>2, <1>3

-----------------------------------------------------------------------------
(* Each record is answered once                                            *)

(* What the job has recorded a result for, and everything that is recorded *)
(* or still on its way there.                                              *)
Told  == {recorded[i].of : i \in DOMAIN recorded}
Known == Told \cup Elements(batch) \cup Elements(buffer)

ToldOnce == \A i, j \in DOMAIN recorded : recorded[i].of = recorded[j].of => i = j

(* Nothing is in two places, or twice in one.                              *)
Apart ==
  /\ ToldOnce /\ Distinct(batch) /\ Distinct(buffer)
  /\ Told \cap Elements(batch) = {} /\ Told \cap Elements(buffer) = {}
  /\ Elements(batch) \cap Elements(buffer) = {}

(* All of a manifest that was read is there, and nothing of one that could *)
(* not be read but the result that says so.                                *)
AllRead ==
  /\ \A x \in Known : x[1] \in first .. file - 1
  /\ \A f \in first .. file - 1 : \A i \in 1 .. Count[f] :
       <<f, i>> \in Known <=> <<f, 0>> \notin Told

Calm ==
  calm => /\ total = Cardinality(SectionRecords(first, last))
          /\ \A f \in first .. file - 1 : <<f, 0>> \in Told <=> f \notin readable

AnswerInv ==
  /\ Apart /\ AllRead /\ Calm
  /\ first <= file /\ file <= last + 1
  /\ place = "idle" /\ ~aborting => file = last + 1 /\ batch = <<>> /\ buffer = <<>>

(* One more result, for something that had none.                           *)
LEMMA ToldGrows ==
  ASSUME recorded \in Seq(Results), NEW e \in Results, recorded' = Append(recorded, e), ToldOnce,
         e.of \notin Told
  PROVE  Told' = Told \cup {e.of} /\ ToldOnce'
<1>1. Len(recorded) \in Nat /\ DOMAIN recorded = 1 .. Len(recorded)
  BY LenProperties
<1>2. recorded' \in Seq(Results) /\ Len(recorded') = Len(recorded) + 1
      /\ recorded'[Len(recorded) + 1] = e
      /\ \A i \in 1 .. Len(recorded) : recorded'[i] = recorded[i]
  BY AppendProperties
<1>3. DOMAIN recorded' = 1 .. Len(recorded) + 1
  BY <1>2, LenProperties
<1>4. \A i \in DOMAIN recorded : i \in DOMAIN recorded' /\ recorded'[i] = recorded[i]
  BY <1>1, <1>2, <1>3
<1>5. \A i \in DOMAIN recorded' : i \in DOMAIN recorded \/ i = Len(recorded) + 1
  BY <1>1, <1>3
<1>6. Len(recorded) + 1 \in DOMAIN recorded'
  BY <1>1, <1>3
<1>7. Told' = Told \cup {e.of}
  BY <1>2, <1>4, <1>5, <1>6 DEF Told
<1>8. ToldOnce'
  BY <1>2, <1>4, <1>5 DEF ToldOnce, Told
<1>. QED  BY <1>7, <1>8

(* What moves on, from the buffer to the batch or from there to the        *)
(* results, is a record, and says nothing of a manifest as a whole.        *)
LEMMA Moved ==
  ASSUME TypeInv, AnswerInv, Apart', Known' = Known, Told \subseteq Told',
         Told' \subseteq Told \cup Records, UNCHANGED <<readable, chosen, file, calm>>,
         place' # "idle"
  PROVE  AnswerInv'
<1>1. \A f : <<f, 0>> \notin Records
  BY DEF Records
<1>2. \A f : <<f, 0>> \in Told' <=> <<f, 0>> \in Told
  BY <1>1
<1>3. UNCHANGED <<first, last, total>>
  BY DEF chosen
<1>4. AllRead'
  BY <1>2, <1>3 DEF AllRead, AnswerInv
<1>5. Calm'
  BY <1>2, <1>3 DEF Calm, AnswerInv, SectionRecords
<1>. QED  BY <1>3, <1>4, <1>5 DEF AnswerInv

(* Nothing that is known moves.                                            *)
LEMMA AtRest ==
  ASSUME AnswerInv, UNCHANGED <<chosen, generator, recorded>>,
         calm' => calm /\ readable' = readable,
         place' = "idle" /\ ~aborting' =>
           (place = "idle" /\ ~aborting) \/ (file = last + 1 /\ batch = <<>> /\ buffer = <<>>)
  PROVE  AnswerInv'
<1>1. UNCHANGED <<first, last, total, file, batch, buffer, recorded>>
  BY DEF chosen, generator
<1>2. Apart' /\ Known' = Known /\ Told' = Told
  BY <1>1 DEF AnswerInv, Apart, Known, Told, ToldOnce
<1>3. Calm'
  BY <1>1, <1>2 DEF Calm, AnswerInv, SectionRecords
<1>4. AllRead'
  BY <1>1, <1>2 DEF AllRead, AnswerInv
<1>. QED  BY <1>1, <1>2, <1>3, <1>4 DEF AnswerInv

LEMMA NothingTold ==
  ASSUME recorded = <<>>, batch = <<>>, buffer = <<>>
  PROVE  Told = {} /\ Known = {} /\ Apart
BY NothingIsDistinct DEF Told, Known, Apart, ToldOnce

LEMMA AnswerInit == RecordsInit => AnswerInv
<1>. SUFFICES ASSUME RecordsInit PROVE AnswerInv
  OBVIOUS
<1>1. Told = {} /\ Known = {} /\ Apart
  BY NothingTold DEF RecordsInit
<1>2. SectionRecords(first, last) = {} /\ total = 0 /\ file = 1 /\ first = 1 /\ last = 0
  BY DEF RecordsInit, SectionRecords
<1>3. Calm
  BY <1>2, FS_EmptySet DEF Calm
<1>4. AllRead
  BY <1>1, <1>2 DEF AllRead
<1>. QED  BY <1>1, <1>2, <1>3, <1>4 DEF AnswerInv, RecordsInit

LEMMA AnswerPress ==
  ASSUME TypeInv, NEW start \in Files, NEW limit \in 0 .. NumFiles, NEW n \in BatchSizes,
         Press(start, limit, n)
  PROVE  AnswerInv'
<1>1. /\ first' = start /\ last' = LastOf(start, limit) /\ file' = start /\ place' = "read"
      /\ total' = Cardinality(SectionRecords(start, LastOf(start, limit)))
      /\ recorded' = <<>> /\ batch' = <<>> /\ buffer' = <<>> /\ readable' = readable
  BY DEF Press
<1>2. Told' = {} /\ Known' = {} /\ Apart'
  BY <1>1, NothingTold, NothingIsDistinct DEF Told, Known, Apart, ToldOnce
<1>3. start \in Nat /\ LastOf(start, limit) \in Nat /\ start <= LastOf(start, limit) + 1
  BY RecordAssumption DEF LastOf, Files
<1>4. AllRead'
  BY <1>1, <1>2, <1>3 DEF AllRead
<1>5. SectionRecords(start, LastOf(start, limit)) = SectionRecords(first, last)'
  BY <1>1 DEF SectionRecords
<1>6. Calm'
  BY <1>1, <1>3, <1>5 DEF Calm
<1>. QED  BY <1>1, <1>2, <1>3, <1>4, <1>6 DEF AnswerInv

LEMMA AnswerRead ==
  ASSUME TypeInv, BatchInv, AnswerInv, Read
  PROVE  AnswerInv'
<1>. DEFINE new == {file} \X (1 .. Count[file])
<1>1. /\ place = "read" /\ file <= last /\ file \in readable
      /\ buffer' = buffer \o RecordsOf(file) /\ file' = file + 1 /\ place' = "flush"
      /\ UNCHANGED <<readable, first, last, total, batch, recorded, calm>>
  BY DEF Read, chosen
<1>2. file \in Files /\ buffer \in Seq(Records) /\ first \in Nat /\ last \in Nat
  BY <1>1 DEF TypeInv, RecordsTypeOK, Files
<1>3. RecordsOf(file) \in Seq(Records) /\ Distinct(RecordsOf(file)) /\ Elements(RecordsOf(file)) = new
  BY <1>2, RecordsTyped, FileDistinct
<1>4. \A x \in Known : x[1] \in first .. file - 1
  BY DEF AnswerInv, AllRead
<1>5. Known \cap new = {}
  BY <1>2, <1>4
<1>6. Distinct(buffer') /\ Elements(buffer') = Elements(buffer) \cup new
  <2>1. Elements(buffer) \cap Elements(RecordsOf(file)) = {}
    BY <1>3, <1>5 DEF Known
  <2>. QED  BY <1>1, <1>2, <1>3, <2>1, JoinDistinct DEF AnswerInv, Apart
<1>7. Told' = Told /\ Elements(batch') = Elements(batch) /\ (ToldOnce' <=> ToldOnce)
  BY <1>1 DEF Told, ToldOnce
<1>. HIDE DEF new
<1>8. Known' = Known \cup new
  BY <1>6, <1>7 DEF Known
<1>9. Apart'
  <2>1. Told \cap new = {} /\ Elements(batch) \cap new = {}
    BY <1>5 DEF Known
  <2>. QED  BY <1>1, <1>6, <1>7, <2>1 DEF AnswerInv, Apart
<1>10. <<file, 0>> \notin Told
  BY <1>2, <1>4 DEF Known
<1>11. AllRead'
  <2>1. \A x \in Known' : x[1] \in first .. file
    BY <1>2, <1>4, <1>8 DEF new, Files, AnswerInv
  <2>2. ASSUME NEW f \in first .. file, NEW i \in 1 .. Count[f]
        PROVE  <<f, i>> \in Known' <=> <<f, 0>> \notin Told'
    <3>1. CASE f = file
      BY <1>7, <1>8, <1>10, <2>2, <3>1 DEF new
    <3>2. CASE f # file
      <4>1. f \in first .. file - 1 /\ <<f, i>> \notin new
        BY <1>2, <3>2 DEF new, Files
      <4>. QED  BY <1>7, <1>8, <4>1 DEF AnswerInv, AllRead
    <3>. QED  BY <3>1, <3>2
  <2>. QED  BY <1>1, <1>2, <2>1, <2>2 DEF AllRead, Files
<1>12. Calm'
  <2>. SUFFICES ASSUME calm' PROVE Calm'
    BY DEF Calm
  <2>1. SectionRecords(first, last)' = SectionRecords(first, last)
    BY <1>1 DEF SectionRecords
  <2>2. ASSUME NEW f \in first .. file PROVE <<f, 0>> \in Told <=> f \notin readable
    <3>1. CASE f = file
      BY <1>1, <1>10, <3>1
    <3>2. CASE f # file
      BY <1>1, <1>2, <3>2 DEF AnswerInv, Calm, Files
    <3>. QED  BY <3>1, <3>2
  <2>. QED  BY <1>1, <1>2, <1>7, <2>1, <2>2 DEF Calm, AnswerInv, Files
<1>. QED  BY <1>1, <1>2, <1>9, <1>11, <1>12 DEF AnswerInv, Files

LEMMA AnswerUnreadable ==
  ASSUME TypeInv, BatchInv, AnswerInv, Unreadable
  PROVE  AnswerInv'
<1>. DEFINE e == [of |-> <<file, 0>>, status |-> "error"]
<1>1. /\ place = "read" /\ file <= last /\ file \notin readable
      /\ recorded' = Append(recorded, e) /\ file' = file + 1 /\ place' = "check"
      /\ UNCHANGED <<readable, first, last, total, batch, buffer, calm>>
  BY DEF Unreadable, chosen
<1>2. file \in Files /\ file \in Nat /\ first \in Nat /\ last \in Nat /\ recorded \in Seq(Results)
  <2>1. file \in Files
    BY <1>1, RecordAssumption DEF TypeInv, RecordsTypeOK, Files
  <2>. QED  BY <2>1 DEF TypeInv, RecordsTypeOK
<1>3. \A x \in Known : x[1] \in first .. file - 1
  BY DEF AnswerInv, AllRead
<1>4. \A i : <<file, i>> \notin Known
  BY <1>2, <1>3
<1>5. e \in Results /\ e.of = <<file, 0>>
  BY <1>2, ResultTyped
<1>. HIDE DEF e
<1>6. Told' = Told \cup {<<file, 0>>} /\ ToldOnce'
  BY <1>1, <1>2, <1>4, <1>5, ToldGrows DEF AnswerInv, Apart, Known
<1>7. Elements(batch') = Elements(batch) /\ Elements(buffer') = Elements(buffer)
  BY <1>1
<1>8. Known' = Known \cup {<<file, 0>>}
  BY <1>6, <1>7 DEF Known
<1>9. Apart'
  BY <1>1, <1>4, <1>6, <1>7 DEF AnswerInv, Apart, Known
<1>10. AllRead'
  <2>1. first <= file
    BY DEF AnswerInv
  <2>2. ASSUME NEW f \in first .. file, NEW i \in 1 .. Count[f]
        PROVE  <<f, i>> \in Known' <=> <<f, 0>> \notin Told'
    <3>1. CASE f = file
      BY <1>4, <1>6, <1>8, <3>1
    <3>2. CASE f # file
      <4>1. f \in first .. file - 1
        BY <1>2, <3>2
      <4>. QED  BY <1>6, <1>8, <3>2, <4>1 DEF AnswerInv, AllRead
    <3>. QED  BY <3>1, <3>2
  <2>3. \A x \in Known' : x[1] \in first .. file
    BY <1>2, <1>3, <1>8, <2>1
  <2>. QED  BY <1>1, <1>2, <2>2, <2>3 DEF AllRead
<1>11. Calm'
  <2>1. SectionRecords(first, last)' = SectionRecords(first, last)
    BY <1>1 DEF SectionRecords
  <2>2. ASSUME calm, NEW f \in first .. file PROVE <<f, 0>> \in Told' <=> f \notin readable
    <3>1. CASE f = file
      BY <1>1, <1>6, <3>1
    <3>2. CASE f # file
      BY <1>2, <1>6, <2>2, <3>2 DEF AnswerInv, Calm
    <3>. QED  BY <3>1, <3>2
  <2>. QED  BY <1>1, <1>2, <2>1, <2>2 DEF Calm, AnswerInv
<1>. QED  BY <1>1, <1>2, <1>9, <1>10, <1>11 DEF AnswerInv

LEMMA AnswerFlush ==
  ASSUME TypeInv, BatchInv, AnswerInv, Flush
  PROVE  AnswerInv'
<1>1. /\ place = "flush" /\ Len(buffer) >= size /\ place' = "yield"
      /\ batch' = SubSeq(buffer, 1, size) /\ buffer' = SubSeq(buffer, size + 1, Len(buffer))
      /\ UNCHANGED <<readable, chosen, file, recorded, calm>>
  BY DEF Flush, Submit
<1>2. Elements(batch) = {}
  BY <1>1, NothingIsDistinct DEF BatchInv
<1>3. buffer \in Seq(Records) /\ size \in Nat /\ size <= Len(buffer)
  <2>1. Len(buffer) \in Nat
    BY LenProperties DEF TypeInv, RecordsTypeOK
  <2>. QED  BY <1>1, <2>1 DEF TypeInv, RecordsTypeOK
<1>4. /\ Distinct(batch') /\ Distinct(buffer') /\ Elements(batch') \cap Elements(buffer') = {}
      /\ Elements(buffer) = Elements(batch') \cup Elements(buffer')
  <2>1. Distinct(buffer)
    BY DEF AnswerInv, Apart
  <2>2. size \in 0 .. Len(buffer)
    BY <1>3, LenProperties
  <2>. QED  BY <1>1, <1>3, <2>1, <2>2, CutDistinct
<1>5. Told' = Told /\ (ToldOnce' <=> ToldOnce)
  BY <1>1 DEF Told, ToldOnce
<1>6. Known' = Known
  BY <1>2, <1>4, <1>5 DEF Known
<1>7. Apart'
  BY <1>4, <1>5 DEF AnswerInv, Apart
<1>. QED  BY <1>1, <1>5, <1>6, <1>7, Moved

LEMMA AnswerDrain ==
  ASSUME TypeInv, BatchInv, AnswerInv, Drain
  PROVE  AnswerInv'
<1>1. /\ place = "read" /\ place' = "yield" /\ batch' = buffer /\ buffer' = <<>>
      /\ UNCHANGED <<readable, chosen, file, recorded, calm>>
  BY DEF Drain, Submit
<1>2. Elements(batch) = {} /\ Elements(buffer') = {} /\ Distinct(buffer')
  BY <1>1, NothingIsDistinct DEF BatchInv
<1>3. Elements(batch') = Elements(buffer) /\ (Distinct(batch') <=> Distinct(buffer))
  BY <1>1
<1>4. Told' = Told /\ (ToldOnce' <=> ToldOnce)
  BY <1>1 DEF Told, ToldOnce
<1>5. Known' = Known
  BY <1>2, <1>3, <1>4 DEF Known
<1>6. Apart'
  BY <1>2, <1>3, <1>4 DEF AnswerInv, Apart
<1>. QED  BY <1>1, <1>4, <1>5, <1>6, Moved

LEMMA AnswerYield ==
  ASSUME TypeInv, BatchInv, AnswerInv, Yield
  PROVE  AnswerInv'
<1>. DEFINE e == [of |-> Head(batch), status |-> status]
<1>1. /\ batch # <<>> /\ batch' = Tail(batch) /\ recorded' = Append(recorded, e) /\ place' = "check"
      /\ UNCHANGED <<readable, chosen, file, buffer, calm>>
  BY DEF Yield
<1>2. batch \in Seq(Records) /\ recorded \in Seq(Results) /\ status \in {"success", "error"}
  BY DEF TypeInv, RecordsTypeOK
<1>3. /\ Distinct(batch') /\ Head(batch) \notin Elements(batch')
      /\ Elements(batch) = {Head(batch)} \cup Elements(batch')
  BY <1>1, <1>2, TakeHead DEF AnswerInv, Apart
<1>4. Head(batch) \in Records
  BY <1>1, <1>2, HeadTailProperties
<1>5. e \in Results /\ e.of = Head(batch)
  BY <1>2, <1>4, ResultTyped
<1>. HIDE DEF e
<1>6. Told' = Told \cup {Head(batch)} /\ ToldOnce'
  BY <1>1, <1>2, <1>3, <1>5, ToldGrows DEF AnswerInv, Apart
<1>7. Elements(buffer') = Elements(buffer) /\ (Distinct(buffer') <=> Distinct(buffer))
  BY <1>1
<1>8. Known' = Known
  BY <1>3, <1>6, <1>7 DEF Known
<1>9. Apart'
  BY <1>3, <1>6, <1>7 DEF AnswerInv, Apart
<1>. QED  BY <1>1, <1>4, <1>6, <1>8, <1>9, Moved

LEMMA AnswerInvariant == RecordsSpec => []AnswerInv
<1>1. TypeInv /\ BatchInv /\ AnswerInv /\ [RecordsNext]_recordsVars => AnswerInv'
  <2>. SUFFICES ASSUME TypeInv, BatchInv, AnswerInv, [RecordsNext]_recordsVars PROVE AnswerInv'
    OBVIOUS
  <2>1. CASE RequestAbort \/ Flushed \/ Yielded \/ CheckAbort
    BY <2>1, AtRest DEF RequestAbort, Flushed, Yielded, CheckAbort
  <2>2. CASE EndLoad
    <3>1. /\ file > last /\ buffer = <<>> /\ place = "read" /\ UNCHANGED <<chosen, generator, recorded, readable, calm>>
      BY <2>2 DEF EndLoad
    <3>2. batch = <<>> /\ file = last + 1
      BY <3>1 DEF BatchInv, AnswerInv, TypeInv, RecordsTypeOK
    <3>. QED  BY <3>1, <3>2, AtRest
  <2>3. ASSUME NEW f \in Files, TouchFile(f) PROVE AnswerInv'
    BY <2>3, AtRest DEF TouchFile
  <2>4. CASE UNCHANGED recordsVars
    BY <2>4, AtRest DEF recordsVars
  <2>. QED  BY <2>1, <2>2, <2>3, <2>4, AnswerPress, AnswerRead, AnswerUnreadable, AnswerFlush,
               AnswerDrain, AnswerYield DEF RecordsNext, Thread, Over
<1>. QED  BY <1>1, AnswerInit, TypeInvariant, BatchInvariant, PTL DEF RecordsSpec

(* The number of results for what is told once, or not at all.             *)
LEMMA AnswersCounted ==
  ASSUME ToldOnce, NEW x
  PROVE  AnswersFor(x) = IF x \in Told THEN 1 ELSE 0
<1>. DEFINE those == {i \in DOMAIN recorded : recorded[i].of = x}
<1>1. CASE x \in Told
  <2>1. PICK i \in DOMAIN recorded : recorded[i].of = x
    BY <1>1 DEF Told
  <2>2. those = {i}
    BY <2>1 DEF ToldOnce
  <2>. QED  BY <1>1, <2>2, FS_Singleton DEF AnswersFor
<1>2. CASE x \notin Told
  <2>1. those = {}
    BY <1>2 DEF Told
  <2>. QED  BY <1>2, <2>1, FS_EmptySet DEF AnswersFor
<1>. QED  BY <1>1, <1>2

(* A finished job has as many results about records as there were records  *)
(* to count before it was started.                                         *)
LEMMA TotalIsMet ==
  ASSUME TypeInv, AnswerInv, place = "idle", ~aborting, calm
  PROVE  total = Cardinality({i \in DOMAIN recorded : recorded[i].of[2] # 0})
<1>. DEFINE those == {i \in DOMAIN recorded : recorded[i].of[2] # 0}
            All == SectionRecords(first, last)
            of == [i \in those |-> recorded[i].of]
<1>1. /\ file = last + 1 /\ Known = Told /\ total = Cardinality(All)
      /\ \A f \in first .. last : <<f, 0>> \in Told <=> f \notin readable
      /\ last \in Nat /\ first \in Nat
  BY NothingIsDistinct DEF AnswerInv, Calm, Known, TypeInv, RecordsTypeOK
<1>2. \A i \in DOMAIN recorded : recorded[i].of \in Records \cup (Files \X {0})
  <2>1. recorded \in Seq(Results)
    BY DEF TypeInv, RecordsTypeOK
  <2>2. \A i \in DOMAIN recorded : recorded[i] \in Results
    BY <2>1, ElementOfSeq, LenProperties
  <2>. QED  BY <2>2 DEF Results
<1>3. \A f \in first .. last : \A i \in 1 .. Count[f] : <<f, i>> \in Told <=> <<f, 0>> \notin Told
  <2>1. file - 1 = last
    BY <1>1
  <2>. QED  BY <1>1, <2>1 DEF AnswerInv, AllRead
<1>4. ASSUME NEW i \in those PROVE recorded[i].of \in All
  <2>. DEFINE x == recorded[i].of
  <2>1. x \in Records /\ x \in Told
    BY <1>2 DEF Told
  <2>2. x[1] \in first .. last
    BY <1>1, <2>1 DEF AnswerInv, AllRead
  <2>3. PICK f \in Files : \E j \in 1 .. Count[f] : x = <<f, j>>
    BY <2>1 DEF Records
  <2>4. PICK j \in 1 .. Count[f] : x = <<f, j>>
    BY <2>3
  <2>5. <<f, j>> \in Told /\ f \in first .. last
    BY <2>1, <2>2, <2>4
  <2>6. <<f, 0>> \notin Told
    BY <1>1, <1>3, <2>5
  <2>. QED  BY <1>1, <2>1, <2>2, <2>4, <2>5, <2>6 DEF SectionRecords
<1>5. ASSUME NEW x \in All PROVE \E i \in those : recorded[i].of = x
  <2>1. PICK f \in Files : \E j \in 1 .. Count[f] : x = <<f, j>>
    BY DEF SectionRecords, Records
  <2>2. PICK j \in 1 .. Count[f] : x = <<f, j>>
    BY <2>1
  <2>3. f \in first .. last /\ f \in readable
    BY <2>2 DEF SectionRecords
  <2>4. x \in Told
    BY <1>1, <1>3, <2>2, <2>3
  <2>5. x[2] # 0
    BY <2>2, RecordAssumption
  <2>. QED  BY <2>4, <2>5 DEF Told
<1>6. \A i, j \in those : of[i] = of[j] => i = j
  BY DEF AnswerInv, Apart, ToldOnce
<1>7. of \in [those -> All] /\ \A x \in All : \E i \in those : of[i] = x
  BY <1>4, <1>5
<1>. HIDE DEF those, All, of
<1>8. of \in Bijection(those, All)
  BY <1>6, <1>7 DEF Bijection, Injection, Surjection, IsInjective
<1>9. IsFiniteSet(those)
  <2>1. DOMAIN recorded = 1 .. Len(recorded) /\ Len(recorded) \in Nat
    BY LenProperties DEF TypeInv, RecordsTypeOK
  <2>2. IsFiniteSet(1 .. Len(recorded)) /\ those \subseteq 1 .. Len(recorded)
    BY <2>1, FS_Interval DEF those
  <2>. QED  BY <2>2, FS_Subset
<1>10. Cardinality(those) = Cardinality(All)
  BY <1>8, <1>9, FS_Bijection DEF ExistsBijection
<1>. QED  BY <1>1, <1>10 DEF those

(* A load that runs to its end has one result for each record of each      *)
(* manifest it could read, however they fell into batches and whatever     *)
(* became of those, one for each manifest it could not read, and the total *)
(* the panel measures the progress against is met if nothing changed.      *)
THEOREM EveryRecordIsAnswered == RecordsSpec => []EveryRecordAnswered
<1>1. TypeInv /\ AnswerInv => EveryRecordAnswered
  <2>. SUFFICES ASSUME TypeInv, AnswerInv, place = "idle", ~aborting PROVE
         /\ \A f \in first .. last :
              LET n == AnswersFor(<<f, 0>>) IN
              n \in {0, 1} /\ \A i \in 1 .. Count[f] : AnswersFor(<<f, i>>) = 1 - n
         /\ calm => total = Cardinality({i \in DOMAIN recorded : recorded[i].of[2] # 0})
    BY DEF EveryRecordAnswered
  <2>1. ToldOnce /\ Known = Told /\ file - 1 = last
    BY NothingIsDistinct DEF AnswerInv, Apart, Known, TypeInv, RecordsTypeOK
  <2>2. ASSUME NEW f \in first .. last
        PROVE  /\ AnswersFor(<<f, 0>>) \in {0, 1}
               /\ \A i \in 1 .. Count[f] : AnswersFor(<<f, i>>) = 1 - AnswersFor(<<f, 0>>)
    BY <2>1, AnswersCounted DEF AnswerInv, AllRead
  <2>. QED  BY <2>2, TotalIsMet
<1>. QED  BY <1>1, TypeInvariant, AnswerInvariant, PTL
=============================================================================
