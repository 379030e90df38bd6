--------------------------- MODULE ManifestRunProofs ---------------------------
(***************************************************************************)
(* What TLAPS proves of ManifestRun, for every number of runs and of       *)
(* interactions and every patience of the page.                            *)
(***************************************************************************)
EXTENDS ManifestRun, TLAPS

(* The script looks at a run just where it has one.                        *)
HasRun == pc \in {"close", "finish", "expire"} => run # 0

TypeInv == TypeOK /\ HasRun

LEMMA ZeroIsNone ==
  /\ 0 \notin Runs /\ 0 \in 0 .. MaxClicks
  /\ 0 \in {Unset} \cup 0 .. Timeout /\ Unset \in {Unset} \cup 0 .. Timeout
BY ManifestAssumption DEF Runs, Unset

LEMMA ClicksTyped ==
  ASSUME clicks \in 0 .. MaxClicks, Interact
  PROVE  clicks' \in 0 .. MaxClicks
BY ManifestAssumption DEF Interact

-----------------------------------------------------------------------------
(* What the statements of the run history make of its rows                 *)

Table == [Runs -> Row \cup {NoRow}]

LEMMA SubmitTyped ==
  ASSUME rows \in Table, NEW r \in Runs, NEW t \in {"manifest_page", "builder"}
  PROVE  AfterSubmit(rows, r, t) \in Table
<1>1. [status |-> "submitted", source |-> t] \in Row
  BY DEF Row
<1>. QED  BY <1>1 DEF AfterSubmit, Table

LEMMA FinishTyped ==
  ASSUME rows \in Table, NEW r \in Runs, NEW s \in Terminal
  PROVE  AfterFinish(rows, r, s) \in Table
<1>1. CASE Holds(rows, r)
  <2>1. rows[r] \in Row
    BY <1>1 DEF Table, Holds
  <2>2. [rows[r] EXCEPT !.status = s] \in Row
    BY <2>1 DEF Row, Terminal
  <2>3. [rows EXCEPT ![r] = [rows[r] EXCEPT !.status = s]] \in Table
    BY <2>2 DEF Table
  <2>. QED  BY <2>3 DEF AfterFinish
<1>2. CASE ~Holds(rows, r)
  BY <1>2 DEF AfterFinish
<1>. QED  BY <1>1, <1>2

LEMMA PurgeTyped ==
  ASSUME rows \in Table
  PROVE  (\A c \in Runs : AfterPurge(rows, c) \in Table) /\ AfterClear(rows) \in Table
BY DEF AfterPurge, AfterClear, Table

(* Of the run concerned the row may become what is written, of all others  *)
(* it stays as it was.                                                     *)
Ended(r) == Holds(rows, r) /\ rows[r].status \in Terminal

LEMMA SubmitWrites ==
  ASSUME rows \in Table, NEW r \in Runs, NEW t, rows' \in Written(rows, AfterSubmit(rows, r, t))
  PROVE  /\ \A q \in Runs \ {r} : rows'[q] = rows[q]
         /\ rows'[r] = rows[r] \/ (~Ended(r) /\ rows'[r] = [status |-> "submitted", source |-> t])
BY DEF Written, AfterSubmit, Table, Ended

LEMMA FinishWrites ==
  ASSUME rows \in Table, NEW r \in Runs, NEW s \in Terminal,
         rows' \in Written(rows, AfterFinish(rows, r, s))
  PROVE  /\ \A q \in Runs \ {r} : rows'[q] = rows[q]
         /\ rows'[r] = rows[r] \/ (Holds(rows, r) /\ rows'[r] = [rows[r] EXCEPT !.status = s])
BY DEF Written, AfterFinish, Table

-----------------------------------------------------------------------------
(* Typing                                                                  *)

LEMMA PlacesTyped ==
  \A p \in {"top", "act", "legal", "submit", "save", "status", "close", "finish", "expire",
            "verify", "verified", "end", "clear", "idle", "away"} : p \in Places
BY DEF Places

LEMMA NamesTyped ==
  /\ "none" \in Buttons /\ \A t \in {"empty", "sample", "object"} : t \in Texts
  /\ \A s \in {"none", "in_progress", "unknown", "finished", "failed"} : s \in Statuses
BY DEF Buttons, Texts, Statuses

(* A write to the session keeps the types, whatever is written.            *)
LEMMA WriteTyped ==
  ASSUME RunsTyped, FormTyped, UNCHANGED <<svc, rows, overdue, form>>,
         NEW r \in {0} \cup Runs, NEW a \in {Unset} \cup 0 .. Timeout,
         NEW k \in {0} \cup Runs, NEW st \in Statuses, NEW p \in BOOLEAN,
         Write(r, a, k, st, p)
  PROVE  RunsTyped' /\ FormTyped'
<1>1. RunsTyped'
  BY ZeroIsNone DEF RunsTyped, Write
<1>2. FormTyped'
  BY DEF FormTyped, Write, form
<1>. QED  BY <1>1, <1>2

LEMMA OperatorTyped ==
  ASSUME TypeOK,
         \/ \E b \in Buttons : Click(b)
         \/ \E t \in Texts : Edit(t)
         \/ Leave \/ Return \/ NewSession
  PROVE  TypeOK'
<1>. USE ZeroIsNone, ClicksTyped DEF TypeOK, RunsTyped, FormTyped, ScriptTyped, Restart, shown, form, script, local
<1>0. /\ "top" \in Places /\ "away" \in Places /\ "none" \in Buttons /\ "empty" \in Texts
      /\ "none" \in Statuses
  BY PlacesTyped, NamesTyped
<1>1. ASSUME NEW b \in Buttons, Click(b) PROVE TypeOK'
  BY <1>0, <1>1 DEF Click
<1>2. ASSUME NEW t \in Texts, Edit(t) PROVE TypeOK'
  BY <1>0, <1>2 DEF Edit
<1>3. CASE Leave
  BY <1>0, <1>3 DEF Leave
<1>4. CASE Return
  BY <1>0, <1>4 DEF Return
<1>5. CASE NewSession
  <2>1. /\ run' = 0 /\ age' = Unset /\ kinds' = 0 /\ results' = 0 /\ mine' = 0 /\ step' = 0
        /\ pc' = "top" /\ clicks' \in 0 .. MaxClicks
    BY <1>5 DEF NewSession
  <2>2. /\ status' = "none" /\ polling' = FALSE /\ done' = FALSE /\ pending' = FALSE
        /\ source' = "manifest_page" /\ tag' = "manifest_page" /\ text' = "empty"
        /\ pressed' = "none" /\ UNCHANGED <<svc, rows, overdue>>
    BY <1>5 DEF NewSession
  <2>3. RunsTyped'
    BY <1>0, <2>1, <2>2
  <2>4. FormTyped'
    BY <1>0, <2>2
  <2>5. ScriptTyped'
    BY <1>0, <2>1, <2>2
  <2>. QED  BY <2>3, <2>4, <2>5
<1>. QED  BY <1>1, <1>2, <1>3, <1>4, <1>5

LEMMA TypeStep == TypeInv /\ [Next]_vars => TypeOK'
<1>. SUFFICES ASSUME TypeInv, [Next]_vars PROVE TypeOK'
  OBVIOUS
<1>0. TypeOK /\ rows \in Table
  BY DEF TypeInv, TypeOK, RunsTyped, Table
<1>. USE <1>0, ZeroIsNone, PlacesTyped, NamesTyped DEF TypeOK, RunsTyped, FormTyped, ScriptTyped,
         Goto, Rerun, Restart, StartClear, shown, form, local, script
<1>1. CASE PreflightFails \/ Prime \/ NoButton
  BY <1>1 DEF PreflightFails, Prime, NoButton
<1>2. CASE DismissError \/ InsertSample \/ Generate
  <2>1. CASE DismissError
    BY <2>1 DEF DismissError
  <2>2. CASE InsertSample
    BY <2>2 DEF InsertSample
  <2>3. CASE Generate
    <3>1. RunsTyped'
      BY <2>3 DEF Generate
    <3>2. FormTyped'
      BY <2>3 DEF Generate
    <3>3. ScriptTyped'
      BY <2>3 DEF Generate
    <3>. QED  BY <3>1, <3>2, <3>3
  <2>. QED  BY <1>2, <2>1, <2>2, <2>3
<1>3. CASE Clear \/ End
  <2>1. UNCHANGED <<svc, rows, overdue, form, shown, clicks>>
    BY <1>3 DEF Clear, End
  <2>2. StartClear \/ Goto("idle")
    BY <1>3 DEF Clear, End
  <2>3. CASE StartClear
    BY <2>1, <2>3
  <2>4. CASE Goto("idle")
    BY <2>1, <2>4
  <2>. QED  BY <2>2, <2>3, <2>4
<1>4. CASE Reject \/ Validate \/ CheckLegalTag
  BY <1>4 DEF Reject, Validate, CheckLegalTag
<1>5. CASE Submit
  BY <1>5 DEF Submit
<1>6. CASE Save
  <2>0. mine \in Runs /\ step \in 1 .. 7
    BY <1>6 DEF Save
  <2>1. mine \in Runs /\ step' \in 0 .. 9 /\ step' # 0
    <3>1. step' = step + 1
      BY <1>6 DEF Save, Write
    <3>. QED  BY <2>0, <3>1
  <2>2. PICK st \in Told : Write(mine, 0, KindsSubmitted, st, TRUE)
    BY <1>6 DEF Save
  <2>3. st \in Statuses /\ KindsSubmitted \in {0} \cup Runs
    BY <2>1 DEF Told, Terminal, KindsSubmitted
  <2>4. UNCHANGED <<svc, rows, overdue, form, pc, pressed, mine, tag, clicks>>
    BY <1>6 DEF Save
  <2>. QED  BY <2>1, <2>2, <2>3, <2>4, WriteTyped
<1>7. CASE PopSource
  <2>1. step' \in 0 .. 9 /\ step' # 0
    BY <1>7 DEF PopSource
  <2>. QED  BY <1>7, <2>1 DEF PopSource
<1>8. CASE RecordSubmit
  <2>1. rows' \in Table
    BY <1>8, SubmitTyped DEF RecordSubmit, Written
  <2>. QED  BY <1>8, <2>1 DEF RecordSubmit, Table
<1>9. CASE ToVerify \/ NoToken \/ Expire
  BY <1>9 DEF ToVerify, NoToken, Expire
<1>10. CASE Poll
  <2>1. Answers(run) \subseteq Statuses
    BY <1>10 DEF Poll, Active, Polled, Answers, Terminal
  <2>. QED  BY <1>10, <2>1 DEF Poll
<1>11. CASE GiveUp \/ Close \/ RecordFinished
  <2>1. run \in Runs
    BY <1>11 DEF TypeInv, HasRun, GiveUp, Close, RecordFinished
  <2>2. rows' \in Table
    BY <1>11, <2>1, FinishTyped DEF GiveUp, Close, RecordFinished, Written, Terminal
  <2>3. CASE GiveUp
    BY <2>1, <2>2, <2>3 DEF GiveUp, Table
  <2>4. CASE Close
    BY <2>1, <2>2, <2>4 DEF Close, Table
  <2>5. CASE RecordFinished
    <3>1. RunsTyped'
      BY <2>1, <2>2, <2>5 DEF RecordFinished, Table
    <3>2. FormTyped'
      BY <2>1, <2>2, <2>5 DEF RecordFinished, Table
    <3>3. ScriptTyped'
      BY <2>1, <2>2, <2>5 DEF RecordFinished, Table
    <3>. QED  BY <3>1, <3>2, <3>3
  <2>. QED  BY <1>11, <2>3, <2>4, <2>5
<1>12. CASE Verify \/ Verified
  BY <1>12 DEF Verify, Verified
<1>13. CASE \/ \E b \in Buttons : Click(b)
            \/ \E t \in Texts : Edit(t)
            \/ Leave \/ Return \/ NewSession
  BY <1>13, OperatorTyped
<1>14. CASE Purge
  <2>1. rows' \in Table
    BY <1>14, PurgeTyped DEF Purge
  <2>. QED  BY <1>14, <2>1, ClicksTyped DEF Purge, Table
<1>15. ASSUME NEW r \in Runs, RunEnds(r) PROVE TypeOK'
  BY <1>15 DEF RunEnds
<1>16. CASE Tick
  <2>1. age' \in {Unset} \cup 0 .. Timeout
    BY <1>16, ManifestAssumption DEF Tick, Unset
  <2>. QED  BY <1>16, <2>1 DEF Tick
<1>17. CASE UNCHANGED vars
  BY <1>17 DEF vars
<1>18. CASE ClearHistoryAndState
  <2>0. UNCHANGED <<svc, rows, overdue, form, clicks>> /\ pc = "clear"
    BY <1>18 DEF ClearHistoryAndState
  <2>1. CASE /\ step < 8 /\ Write(0, Unset, 0, "none", FALSE)
             /\ UNCHANGED <<pc, pressed, mine, tag>>
    <3>1. step' \in 0 .. 9
      BY <2>1 DEF Write
    <3>2. RunsTyped' /\ FormTyped'
      BY <2>0, <2>1, WriteTyped
    <3>. QED  BY <2>0, <2>1, <3>1, <3>2
  <2>2. CASE Rerun /\ UNCHANGED shown
    BY <2>0, <2>2
  <2>. QED  BY <1>18, <2>1, <2>2 DEF ClearHistoryAndState
<1>. QED  BY <1>1, <1>2, <1>3, <1>4, <1>5, <1>6, <1>7, <1>8, <1>9, <1>10, <1>11, <1>12, <1>13,
             <1>14, <1>15, <1>16, <1>17, <1>18 DEF Next, Script, Waiting

LEMMA RunStep == TypeInv /\ [Next]_vars => HasRun'
<1>. SUFFICES ASSUME TypeInv, [Next]_vars PROVE HasRun'
  OBVIOUS
<1>. USE DEF TypeInv, HasRun, Goto, Rerun, Restart, StartClear, Write, shown, script, vars
<1>1. CASE Script
  BY <1>1 DEF Script, PreflightFails, Prime, NoButton, DismissError, InsertSample, Generate, Clear,
       Reject, Validate, CheckLegalTag, Submit, Save, PopSource, RecordSubmit,
       ToVerify, NoToken, Poll, Expire, GiveUp, Close, RecordFinished, Verify, Verified, End, ClearHistoryAndState, Active,
       Polled
<1>2. CASE ~Script
  BY <1>2 DEF Next, Click, Edit, Leave, Return, NewSession, Purge, RunEnds, Tick, Waiting
<1>. QED  BY <1>1, <1>2

LEMMA TypeInvariant == Spec => []TypeInv
<1>1. Init => TypeInv
  <2>1. Init => /\ rows \in Table /\ svc \in [Runs -> {"none", "running"} \cup Terminal]
    BY DEF Init, Table
  <2>2. Init => /\ run = 0 /\ age = Unset /\ kinds = 0 /\ results = 0 /\ mine = 0 /\ step = 0
                /\ clicks = 0 /\ overdue = {} /\ pc = "top"
    BY DEF Init, Fresh
  <2>3. Init => /\ status = "none" /\ polling = FALSE /\ done = FALSE /\ pending = FALSE
                /\ source = "manifest_page" /\ tag = "manifest_page" /\ text = "empty"
                /\ pressed = "none"
    BY DEF Init, Fresh
  <2>4. Init => RunsTyped
    BY <2>1, <2>2, ZeroIsNone DEF RunsTyped, Table
  <2>5. Init => FormTyped
    BY <2>3, NamesTyped DEF FormTyped
  <2>6. Init => ScriptTyped
    BY <2>2, <2>3, ZeroIsNone, PlacesTyped, NamesTyped DEF ScriptTyped
  <2>. QED  BY <2>2, <2>4, <2>5, <2>6 DEF TypeInv, TypeOK, HasRun
<1>2. TypeInv /\ [Next]_vars => TypeInv'
  BY TypeStep, RunStep DEF TypeInv
<1>. QED  BY <1>1, <1>2, PTL DEF Spec

(* Every variable of the page holds a value of its type.                   *)
THEOREM TypeCorrect == Spec => []TypeOK
BY TypeInvariant, PTL DEF TypeInv

-----------------------------------------------------------------------------
(* Outcomes                                                                *)

(* An outcome on its way to the history is the service's.                  *)
OutcomeInv ==
  /\ OutcomesAreTrue
  /\ pc = "close" => status \in Terminal /\ svc[run] = status
  /\ pc = "finish" => svc[run] = "finished"

(* The steps that touch neither the service nor the history nor a run that *)
(* is looked at.                                                           *)
(* A clear only takes away, and leaves the service and the history alone.  *)
LEMMA ClearStep ==
  ASSUME ClearHistoryAndState
  PROVE  /\ UNCHANGED <<svc, rows, overdue>> /\ pc' \in {"clear", "top"}
         /\ run' \in {0, run} /\ kinds' \in {0, kinds} /\ results' \in {0, results}
         /\ (polling' => polling) /\ (done' => done)
<1>1. UNCHANGED <<svc, rows, overdue>> /\ pc' \in {"clear", "top"}
  BY DEF ClearHistoryAndState, Rerun, Restart
<1>2. CASE Write(0, Unset, 0, "none", FALSE)
  <2>1. run' \in {0, run} /\ kinds' \in {0, kinds} /\ results' \in {0, results}
    BY <1>2 DEF Write
  <2>2. polling' => polling
    BY <1>2, Zenon DEF Write
  <2>3. done' => done
    BY <1>2, Zenon DEF Write
  <2>. QED  BY <1>1, <2>1, <2>2, <2>3
<1>3. CASE UNCHANGED shown
  BY <1>1, <1>3 DEF shown
<1>. QED  BY <1>2, <1>3 DEF ClearHistoryAndState

LEMMA PlainStep ==
  ASSUME \/ PreflightFails \/ Prime \/ NoButton \/ DismissError \/ InsertSample \/ Generate
         \/ Clear \/ Reject \/ Validate \/ CheckLegalTag \/ ToVerify \/ NoToken
         \/ Verify \/ Verified \/ End \/ ClearHistoryAndState
         \/ \E b \in Buttons : Click(b)
         \/ \E t \in Texts : Edit(t)
         \/ Leave \/ Return \/ NewSession
  PROVE  /\ UNCHANGED <<svc, rows, overdue>>
         /\ pc' \notin {"save", "close", "finish", "expire"}
         /\ run' \in {0, run} /\ (polling' => polling)
<1>1. CASE ClearHistoryAndState
  BY <1>1, ClearStep
<1>2. CASE NoToken
  BY <1>2 DEF NoToken, Goto
<1>3. CASE NewSession
  BY <1>3 DEF NewSession, Restart
<1>4. CASE \/ PreflightFails \/ Prime \/ NoButton \/ DismissError \/ InsertSample \/ Generate
           \/ Clear \/ Reject \/ Validate \/ CheckLegalTag \/ ToVerify
           \/ Verify \/ Verified \/ End
           \/ \E b \in Buttons : Click(b)
           \/ \E t \in Texts : Edit(t)
           \/ Leave \/ Return
  <2>1. UNCHANGED <<svc, rows, overdue>> /\ UNCHANGED <<run, polling>>
    BY <1>4 DEF PreflightFails, Prime, NoButton, DismissError, InsertSample, Generate, Clear,
         Reject, Validate, CheckLegalTag, ToVerify, Verify, Verified, End, Click, Edit,
         Leave, Return, shown
  <2>2. pc' \notin {"save", "close", "finish", "expire"}
    BY <1>4 DEF PreflightFails, Prime, NoButton, DismissError, InsertSample, Generate, Clear,
         Reject, Validate, CheckLegalTag, ToVerify, Verify, Verified, End, Click, Edit,
         Leave, Return, Goto, Rerun, Restart, StartClear
  <2>. QED  BY <2>1, <2>2
<1>. QED  BY <1>1, <1>2, <1>3, <1>4

LEMMA OutcomeInvariant == Spec => []OutcomeInv
<1>1. Init => OutcomeInv
  BY DEF Init, OutcomeInv, OutcomesAreTrue, StatusIs, Holds
<1>2. TypeInv /\ OutcomeInv /\ [Next]_vars => OutcomeInv'
  <2>. SUFFICES ASSUME TypeInv, OutcomeInv, [Next]_vars PROVE OutcomeInv'
    OBVIOUS
  <2>0. /\ rows \in Table /\ svc \in [Runs -> {"none", "running"} \cup Terminal]
        /\ run \in {0} \cup Runs /\ HasRun
        /\ tag \in {"manifest_page", "builder"} /\ mine \in {0} \cup Runs /\ (pc = "save" => mine # 0)
    BY DEF TypeInv, TypeOK, RunsTyped, ScriptTyped, Table
  <2>. USE <2>0 DEF OutcomeInv, OutcomesAreTrue, StatusIs, Holds
  <2>1. CASE /\ UNCHANGED <<svc, rows, overdue>>
             /\ pc' \notin {"save", "close", "finish", "expire"}
    BY <2>1
  <2>2. CASE Submit
    <3>1. /\ UNCHANGED <<rows, overdue>> /\ pc' \in {"status", "save"}
          /\ \/ svc' = svc
             \/ \E r \in Runs \ Made : svc' = [svc EXCEPT ![r] = "running"]
      BY <2>2 DEF Submit, Goto
    <3>2. CASE svc' = svc
      BY <3>1, <3>2
    <3>3. ASSUME NEW r \in Runs, svc[r] = "none", svc' = [svc EXCEPT ![r] = "running"]
          PROVE  OutcomeInv'
      <4>1. \A q \in Runs : svc[q] \in Terminal => svc'[q] = svc[q]
        BY <3>3 DEF Terminal
      <4>. QED  BY <3>1, <4>1 DEF Terminal
    <3>. QED  BY <3>1, <3>2, <3>3 DEF Made
  <2>3. CASE Save \/ PopSource
    BY <2>3 DEF Save, Write, PopSource
  <2>4. CASE RecordSubmit
    <3>1. mine \in Runs /\ pc' = "top" /\ UNCHANGED <<svc, overdue>>
      BY <2>4 DEF RecordSubmit, Rerun, Restart
    <3>2. \A q \in Runs : \/ rows'[q] = rows[q]
                          \/ rows'[q] = [status |-> "submitted", source |-> tag]
      BY <2>4, <3>1, SubmitWrites DEF RecordSubmit
    <3>. QED  BY <3>1, <3>2
  <2>5. CASE Poll
    BY <2>5 DEF Poll, Active, Polled, Answers, Goto, Rerun, Restart, Terminal
  <2>6. CASE Expire
    BY <2>6 DEF Expire, Goto
  <2>7. ASSUME NEW s \in Terminal, run \in Runs, rows' \in Written(rows, AfterFinish(rows, run, s)),
               svc' = svc, overdue \subseteq overdue',
               svc[run] = s \/ (s = "failed" /\ run \in overdue')
        PROVE  OutcomesAreTrue'
    <3>1. /\ \A q \in Runs \ {run} : rows'[q] = rows[q]
          /\ rows'[run] = rows[run] \/ (Holds(rows, run) /\ rows'[run] = [rows[run] EXCEPT !.status = s])
      BY <2>7, FinishWrites
    <3>2. Holds(rows, run) => rows[run] \in Row
      BY <2>7 DEF Table
    <3>3. ASSUME NEW r \in Runs, NEW t \in Terminal, Holds(rows, r)', rows'[r].status = t
          PROVE  svc'[r] = t \/ (t = "failed" /\ r \in overdue')
      <4>1. CASE rows'[r] = rows[r]
        BY <2>7, <3>3, <4>1 DEF Terminal
      <4>2. CASE r = run /\ Holds(rows, run) /\ rows'[run] = [rows[run] EXCEPT !.status = s]
        <5>1. rows'[run].status = s
          BY <3>2, <4>2 DEF Row
        <5>. QED  BY <2>7, <3>3, <4>2, <5>1
      <4>. QED  BY <3>1, <4>1, <4>2
    <3>. QED  BY <3>3 DEF Terminal
  <2>8. CASE GiveUp
    <3>1. run \in Runs /\ pc' = "verify"
      BY <2>8 DEF GiveUp, HasRun, Goto
    <3>2. OutcomesAreTrue'
      BY <2>7, <2>8, <3>1 DEF GiveUp, Terminal
    <3>. QED  BY <3>1, <3>2
  <2>9. CASE Close
    <3>1. run \in Runs /\ status \in Terminal /\ svc[run] = status
      BY <2>9 DEF Close, HasRun
    <3>2. CASE status = "finished"
      BY <2>9, <3>1, <3>2 DEF Close, Goto
    <3>3. CASE status = "failed"
      <4>1. OutcomesAreTrue'
        BY <2>7, <2>9, <3>1, <3>3 DEF Close, Terminal
      <4>. QED  BY <2>9, <3>3, <4>1 DEF Close, Goto
    <3>. QED  BY <3>1, <3>2, <3>3 DEF Terminal
  <2>10. CASE RecordFinished
    <3>1. run \in Runs /\ pc' = "top" /\ svc[run] = "finished"
      BY <2>10 DEF RecordFinished, HasRun, Rerun, Restart
    <3>2. OutcomesAreTrue'
      BY <2>7, <2>10, <3>1 DEF RecordFinished, Terminal
    <3>. QED  BY <3>1, <3>2
  <2>11. CASE Purge
    <3>1. \A q \in Runs : rows'[q] \in {rows[q], NoRow}
      BY <2>11 DEF Purge, AfterPurge, AfterClear, Table
    <3>. QED  BY <2>11, <3>1 DEF Purge, shown, script
  <2>12. ASSUME NEW r \in Runs, RunEnds(r) PROVE OutcomeInv'
    BY <2>12 DEF RunEnds, shown, script, Terminal, HasRun
  <2>13. CASE Tick
    BY <2>13 DEF Tick, script
  <2>14. CASE UNCHANGED vars
    BY <2>14 DEF vars, shown, script
  <2>. QED  BY <2>1, <2>2, <2>3, <2>4, <2>5, <2>6, <2>8, <2>9, <2>10, <2>11, <2>12, <2>13, <2>14,
               PlainStep DEF Next, Script, Waiting
<1>. QED  BY <1>1, <1>2, TypeInvariant, PTL DEF Spec

(* The history says of a run what the service said of it, or what the page *)
(* has found by the clock; a poll that tells nothing leaves no trace.      *)
THEOREM OutcomesStayTrue == Spec => []OutcomesAreTrue
BY OutcomeInvariant, PTL DEF OutcomeInv

-----------------------------------------------------------------------------
(* A run whose outcome is in the history is not polled any more, and the   *)
(* script that is about to write an outcome has found none.                *)
FinalInv ==
  /\ \A r \in Runs : svc[r] = "none" => rows[r] = NoRow
  /\ run # 0 /\ polling => ~Ended(run)
  /\ pc \in {"close", "expire"} => polling
  /\ pc = "finish" => ~polling /\ ~Ended(run)
  /\ pc = "save" => svc[mine] # "none" /\ ~Ended(mine) /\ (step > 1 => run = mine)

(* The row of a run may be written over until it holds an outcome.         *)
Kept == \A r \in Runs : Ended(r) => rows'[r] \in {rows[r], NoRow}

LEMMA FinalStep ==
  ASSUME TypeInv, FinalInv, [Next]_vars
  PROVE  FinalInv' /\ Kept
<1>0. /\ rows \in Table /\ svc \in [Runs -> {"none", "running"} \cup Terminal]
      /\ run \in {0} \cup Runs /\ HasRun /\ step \in 0 .. 9
      /\ tag \in {"manifest_page", "builder"} /\ mine \in {0} \cup Runs
      /\ (pc = "save" => mine # 0 /\ step # 0)
  BY DEF TypeInv, TypeOK, RunsTyped, ScriptTyped, Table
<1>. USE <1>0 DEF FinalInv, Kept, Ended, Holds
<1>1. CASE /\ UNCHANGED <<svc, rows, overdue>>
           /\ pc' \notin {"save", "close", "finish", "expire"}
           /\ run' \in {0, run} /\ (polling' => polling)
  BY <1>1
<1>2. CASE Submit
  BY <1>2 DEF Submit, Goto, shown, Made
<1>3. CASE Save
  <2>1. UNCHANGED <<svc, rows, mine, pc>> /\ pc = "save"
    BY <1>3 DEF Save, Write
  <2>2. step' = step + 1 /\ (step = 1 => run' = mine) /\ (step # 1 => run' = run)
    BY <1>3 DEF Save, Write
  <2>3. step = 1 \/ step > 1
    BY <2>1
  <2>4. run' = mine
    BY <2>1, <2>2, <2>3
  <2>. QED  BY <2>1, <2>4
<1>4. CASE PopSource
  BY <1>4 DEF PopSource, shown
<1>5. CASE RecordSubmit
  <2>1. mine \in Runs /\ pc = "save" /\ pc' = "top" /\ UNCHANGED <<svc, run, polling>>
    BY <1>5 DEF RecordSubmit, Rerun, Restart, shown
  <2>2. /\ \A q \in Runs \ {mine} : rows'[q] = rows[q]
        /\ rows'[mine] = rows[mine] \/ rows'[mine] = [status |-> "submitted", source |-> tag]
    BY <1>5, <2>1, SubmitWrites DEF RecordSubmit
  <2>3. [status |-> "submitted", source |-> tag].status \notin Terminal
    BY DEF Terminal
  <2>. QED  BY <2>1, <2>2, <2>3
<1>6. CASE Poll
  BY <1>6 DEF Poll, Active, Polled, Goto, Rerun, Restart
<1>7. CASE Expire
  BY <1>7 DEF Expire, Active, Polled, Goto
<1>8. ASSUME run \in Runs, ~Ended(run), NEW s \in Terminal,
             rows' \in Written(rows, AfterFinish(rows, run, s)), svc' = svc
      PROVE  Kept /\ \A r \in Runs : svc'[r] = "none" => rows'[r] = NoRow
  <2>1. /\ \A q \in Runs \ {run} : rows'[q] = rows[q]
        /\ rows'[run] = rows[run] \/ Holds(rows, run)
    BY <1>8, FinishWrites
  <2>. QED  BY <1>8, <2>1
<1>9. CASE GiveUp
  <2>1. run \in Runs /\ ~Ended(run) /\ polling' = FALSE /\ pc' = "verify"
    BY <1>9 DEF GiveUp, HasRun, Goto
  <2>. QED  BY <1>8, <1>9, <2>1 DEF GiveUp, Terminal
<1>10. CASE Close
  <2>1. run \in Runs /\ ~Ended(run) /\ polling' = FALSE /\ run' = run /\ svc' = svc
    BY <1>10 DEF Close, HasRun
  <2>2. CASE status = "finished"
    BY <1>10, <2>1, <2>2 DEF Close, Goto
  <2>3. CASE status # "finished"
    <3>1. Kept /\ \A r \in Runs : svc'[r] = "none" => rows'[r] = NoRow
      BY <1>8, <1>10, <2>1, <2>3 DEF Close, Terminal
    <3>. QED  BY <1>10, <2>1, <2>3, <3>1 DEF Close, Goto
  <2>. QED  BY <2>2, <2>3
<1>11. CASE RecordFinished
  <2>1. run \in Runs /\ ~Ended(run) /\ polling' = FALSE /\ pc' = "top"
    BY <1>11 DEF RecordFinished, HasRun, Rerun, Restart
  <2>. QED  BY <1>8, <1>11, <2>1 DEF RecordFinished, Terminal
<1>12. CASE Purge
  <2>1. \A q \in Runs : rows'[q] \in {rows[q], NoRow}
    BY <1>12 DEF Purge, AfterPurge, AfterClear, Table
  <2>2. UNCHANGED <<svc, run, polling, pc, mine, step>>
    BY <1>12 DEF Purge, shown, script, local
  <2>. QED  BY <2>1, <2>2 DEF HasRun
<1>13. ASSUME NEW r \in Runs, RunEnds(r) PROVE FinalInv' /\ Kept
  <2>1. UNCHANGED <<rows, run, polling, pc, mine, step>> /\ svc[r] = "running"
        /\ \E s \in Terminal : svc' = [svc EXCEPT ![r] = s]
    BY <1>13 DEF RunEnds, shown, script, local
  <2>2. \A q \in Runs : svc'[q] = "none" <=> svc[q] = "none"
    BY <2>1 DEF Terminal
  <2>. QED  BY <2>1, <2>2
<1>14. CASE Tick
  BY <1>14 DEF Tick, script, local
<1>15. CASE UNCHANGED vars
  BY <1>15 DEF vars, shown, script, local
<1>. QED  BY <1>1, <1>2, <1>3, <1>4, <1>5, <1>6, <1>7, <1>9, <1>10, <1>11, <1>12, <1>13, <1>14, <1>15,
             PlainStep DEF Next, Script, Waiting

LEMMA FinalInvariant == Spec => []FinalInv
<1>1. Init => FinalInv
  BY DEF Init, Fresh, FinalInv
<1>2. TypeInv /\ FinalInv /\ [Next]_vars => FinalInv'
  BY FinalStep
<1>. QED  BY <1>1, <1>2, TypeInvariant, PTL DEF Spec


(* The page never changes an outcome, wherever its script is stopped.      *)
THEOREM OutcomesStayFinal == Spec => OutcomeIsFinal
<1>1. TypeInv /\ FinalInv /\ [Next]_vars =>
        [\A r \in Runs : Holds(rows, r) /\ rows[r].status \in Terminal =>
           rows'[r] \in {rows[r], NoRow}]_vars
  BY FinalStep DEF Kept, Ended
<1>. QED  BY <1>1, TypeInvariant, FinalInvariant, PTL DEF Spec, OutcomeIsFinal

-----------------------------------------------------------------------------
(* Verification.  A run has no row before all that the page shows of it    *)
(* has been written, so a row of the run shown vouches for the kinds.      *)
VerdictInv ==
  /\ run # 0 /\ Holds(rows, run) => kinds \in {0, run} /\ (done => results \in {0, run})
  /\ pc = "save" => /\ rows[mine] = NoRow
                    /\ step > 3 => kinds \in {0, mine}
                    /\ step > 6 => ~done
                    /\ step > 7 => results = 0
  /\ pc = "verified" => results = kinds

(* Most steps leave all of this alone, or forget the run shown.            *)
LEMMA QuietStep ==
  ASSUME \/ PreflightFails \/ Prime \/ NoButton \/ DismissError \/ InsertSample \/ Generate
         \/ Clear \/ Reject \/ Validate \/ CheckLegalTag \/ ToVerify \/ NoToken
         \/ Poll \/ Expire \/ End \/ ClearHistoryAndState
         \/ \E b \in Buttons : Click(b)
         \/ \E t \in Texts : Edit(t)
         \/ Leave \/ Return \/ NewSession
  PROVE  /\ rows' = rows /\ pc' \notin {"save", "verified"}
         /\ run' \in {0, run} /\ kinds' \in {0, kinds} /\ results' \in {0, results}
         /\ (done' => done)
<1>1. CASE ClearHistoryAndState
  BY <1>1, ClearStep
<1>2. CASE NewSession
  BY <1>2 DEF NewSession, Restart
<1>3. CASE \/ PreflightFails \/ Prime \/ NoButton \/ DismissError \/ InsertSample \/ Generate
           \/ Clear \/ Reject \/ Validate \/ CheckLegalTag \/ ToVerify \/ NoToken
           \/ Poll \/ Expire \/ End
           \/ \E b \in Buttons : Click(b)
           \/ \E t \in Texts : Edit(t)
           \/ Leave \/ Return
  <2>1. UNCHANGED <<rows, run, kinds, done, results>>
    BY <1>3 DEF PreflightFails, Prime, NoButton, DismissError, InsertSample, Generate, Clear,
         Reject, Validate, CheckLegalTag, ToVerify, NoToken, Poll, Expire, End, Click, Edit,
         Leave, Return, shown
  <2>2. pc' \notin {"save", "verified"}
    BY <1>3 DEF PreflightFails, Prime, NoButton, DismissError, InsertSample, Generate, Clear,
         Reject, Validate, CheckLegalTag, ToVerify, NoToken, Poll, Expire, End, Click, Edit,
         Leave, Return, Goto, Rerun, Restart, StartClear
  <2>. QED  BY <2>1, <2>2
<1>. QED  BY <1>1, <1>2, <1>3

LEMMA VerdictStep ==
  ASSUME TypeInv, FinalInv, VerdictInv, [Next]_vars
  PROVE  VerdictInv'
<1>0. /\ rows \in Table /\ run \in {0} \cup Runs /\ HasRun /\ step \in 0 .. 9
      /\ mine \in {0} \cup Runs /\ (pc = "save" => mine # 0 /\ step # 0)
      /\ (pc = "save" => (step > 1 => run = mine))
      /\ \A r \in Runs : svc[r] = "none" => rows[r] = NoRow
  BY DEF TypeInv, TypeOK, RunsTyped, ScriptTyped, Table, FinalInv
<1>. USE <1>0 DEF VerdictInv, Holds
<1>1. CASE /\ rows' = rows /\ pc' \notin {"save", "verified"}
           /\ run' \in {0, run} /\ kinds' \in {0, kinds} /\ results' \in {0, results}
           /\ (done' => done)
  BY <1>1
<1>2. CASE Submit
  <2>1. UNCHANGED <<rows, run, kinds, done, results>> /\ pc' \in {"status", "save"}
    BY <1>2 DEF Submit, Goto, shown
  <2>2. pc' = "save" => step' = 1 /\ mine' \in Runs /\ svc[mine'] = "none"
    BY <1>2 DEF Submit, Goto, Made
  <2>. QED  BY <2>1, <2>2
<1>3. CASE Save
  <2>1. pc = "save" /\ UNCHANGED <<rows, mine, pc>> /\ step \in 1 .. 7 /\ step' = step + 1
    BY <1>3 DEF Save, Write
  <2>2. run' = mine
    BY <1>3, <2>1 DEF Save, Write
  <2>3. step' > 3 => kinds' \in {0, mine}
    BY <1>3, <2>1 DEF Save, Write, KindsSubmitted
  <2>4. step' > 6 => ~done'
    <3>1. done' = IF step = 6 THEN FALSE ELSE done
      BY <1>3 DEF Save, Write
    <3>2. CASE step = 6
      BY <3>1, <3>2
    <3>3. CASE step # 6
      <4>1. step' > 6 => ~done
        BY <2>1, <3>3
      <4>. QED  BY <3>1, <4>1
    <3>. QED  BY <3>2, <3>3
  <2>5. step' > 7 => results' = 0
    BY <1>3, <2>1 DEF Save, Write
  <2>. QED  BY <2>1, <2>2, <2>3, <2>4, <2>5
<1>4. CASE PopSource
  BY <1>4 DEF PopSource, shown
<1>5. CASE RecordSubmit
  <2>1. /\ pc = "save" /\ step = 9 /\ pc' = "top" /\ UNCHANGED <<run, kinds, done, results>>
        /\ mine \in Runs
    BY <1>5 DEF RecordSubmit, Rerun, Restart, shown
  <2>. QED  BY <2>1
<1>6. ASSUME run \in Runs, NEW s \in Terminal, rows' \in Written(rows, AfterFinish(rows, run, s))
      PROVE  rows'[run] # NoRow => rows[run] # NoRow
  BY <1>6, FinishWrites
<1>7. CASE GiveUp
  <2>1. run \in Runs /\ pc' = "verify" /\ UNCHANGED <<run, kinds, done, results>>
    BY <1>7 DEF GiveUp, HasRun, Goto
  <2>2. rows'[run] # NoRow => rows[run] # NoRow
    BY <1>6, <1>7, <2>1 DEF GiveUp, Terminal
  <2>. QED  BY <2>1, <2>2
<1>8. CASE Close
  <2>1. run \in Runs /\ pc' \in {"finish", "verify"} /\ UNCHANGED <<run, kinds, done, results>>
    BY <1>8 DEF Close, HasRun, Goto
  <2>2. rows'[run] # NoRow => rows[run] # NoRow
    BY <1>6, <1>8, <2>1 DEF Close, Terminal
  <2>. QED  BY <2>1, <2>2
<1>9. CASE RecordFinished
  <2>1. run \in Runs /\ pc' = "top" /\ ~done' /\ UNCHANGED <<run, kinds>>
    BY <1>9 DEF RecordFinished, HasRun, Rerun, Restart
  <2>2. rows'[run] # NoRow => rows[run] # NoRow
    BY <1>6, <1>9, <2>1 DEF RecordFinished, Terminal
  <2>. QED  BY <2>1, <2>2
<1>10. CASE Verify
  BY <1>10 DEF Verify, Goto, shown
<1>11. CASE Verified
  BY <1>11 DEF Verified, Goto, shown
<1>12. CASE Purge
  <2>1. \A q \in Runs : rows'[q] \in {rows[q], NoRow}
    BY <1>12 DEF Purge, AfterPurge, AfterClear, Table
  <2>2. UNCHANGED <<run, kinds, done, results, pc, mine, step>>
    BY <1>12 DEF Purge, shown, script, local
  <2>. QED  BY <2>1, <2>2
<1>13. CASE (\E r \in Runs : RunEnds(r)) \/ Tick \/ UNCHANGED vars
  BY <1>13 DEF RunEnds, Tick, vars, shown, script, local
<1>. QED  BY <1>1, <1>2, <1>3, <1>4, <1>5, <1>7, <1>8, <1>9, <1>10, <1>11, <1>12, <1>13,
             QuietStep DEF Next, Script, Waiting

(* Once the history says that the run shown has finished, what the page    *)
(* shows as its verification is not about another run's kinds.             *)
THEOREM VerdictsAreOfShownRun == Spec => []VerdictIsOfShownRun
<1>1. Init => VerdictInv
  BY DEF Init, Fresh, VerdictInv
<1>2. TypeInv /\ FinalInv /\ VerdictInv /\ [Next]_vars => VerdictInv'
  BY VerdictStep
<1>3. VerdictInv => VerdictIsOfShownRun
  BY DEF VerdictInv, VerdictIsOfShownRun, StatusIs
<1>. QED  BY <1>1, <1>2, <1>3, TypeInvariant, FinalInvariant, PTL DEF Spec
=============================================================================
