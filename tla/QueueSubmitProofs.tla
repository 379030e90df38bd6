--------------------------- MODULE QueueSubmitProofs ---------------------------
(***************************************************************************)
(* What TLAPS proves of QueueSubmit, for every queue length, attempt limit *)
(* and breaker threshold: the bookkeeping of the generator, the traffic to *)
(* the workflow service, the run history, and the contract with the page.  *)
(***************************************************************************)
EXTENDS QueueSubmit, FiniteSetTheorems, TLAPS

(* How far the generator has come: one result per row left behind, and an  *)
(* attempt under way is one the retry policy allows.                       *)
Progress ==
  /\ Len(results) = row - 1
  /\ pc = "end" <=> row = N + 1
  /\ pc \in {"retry", "send"} => attempts < MaxAttempts
  /\ pc \in {"posted", "answered"} => attempts >= 1

TypeInv == TypeOK /\ Progress

(* Both history writes leave well-formed rows, whichever of them is lost.  *)
LEMMA FailureTyped ==
  ASSUME row \in Rows, history \in SUBSET HistoryRows, lost \in SUBSET Rows, RecordFailure
  PROVE  history' \in SUBSET HistoryRows /\ lost' \in SUBSET Rows
<1>1. PICK submit \in StoreOutcomes, finish \in StoreOutcomes :
        /\ history' = history \cup
             (IF ~submit THEN {}
              ELSE {HistoryRow(row, 0, IF finish THEN "failed" ELSE "submitted")})
        /\ lost' = IF submit /\ finish THEN lost ELSE lost \cup {row}
  BY DEF RecordFailure
<1>2. HistoryRow(row, 0, "failed") \in HistoryRows /\ HistoryRow(row, 0, "submitted") \in HistoryRows
  BY QueueAssumption DEF HistoryRow, HistoryRows
<1>3. history' \in SUBSET HistoryRows
  BY <1>1, <1>2
<1>4. lost' \in SUBSET Rows
  BY <1>1
<1>. QED  BY <1>3, <1>4

(* A decided row's result is well formed, and nothing else moves.           *)
LEMMA DecideTyped ==
  ASSUME NEW s \in {"success", "error", "rejected", "skipped"}, NEW c \in Causes,
         NEW n \in 0 .. MaxAttempts, Decide(s, c, n)
  PROVE  current' \in ResultSet /\ pc' = "emit" /\ answer' \in Answers
        /\ UNCHANGED <<row, attempts, results>>
BY DEF Decide, Result, ResultSet, Answers

(* The one history write of a success leaves well-formed rows.             *)
LEMMA SuccessTyped ==
  ASSUME row \in Rows, attempts \in 0 .. MaxAttempts,
         history \in SUBSET HistoryRows, lost \in SUBSET Rows, RecordSuccess
  PROVE  history' \in SUBSET HistoryRows /\ lost' \in SUBSET Rows
<1>1. HistoryRow(row, attempts, "submitted") \in HistoryRows
  BY DEF HistoryRow, HistoryRows
<1>. QED  BY <1>1 DEF RecordSuccess

(* TypeInv is inductive.                                                   *)
LEMMA TypeInvariant == Spec => []TypeInv
<1>. USE QueueAssumption DEF TypeInv, TypeOK, Progress, Steps, Terminal
<1>1. Init => TypeInv
  <2>. SUFFICES ASSUME Init PROVE TypeInv
    OBVIOUS
  <2>1. current \in ResultSet /\ answer \in Answers
    BY DEF Init, NoResult, Result, ResultSet, Causes, Answers
  <2>2. trip \in [row: 0 .. N, remaining: 0 .. N, labels: SUBSET Rows]
    BY DEF Init, NoTrip
  <2>3. kind \in [Rows -> RowKinds] /\ pc \in Steps \cup Terminal /\ row \in 1 .. N + 1
    BY DEF Init
  <2>4. results \in Seq(ResultSet) /\ Len(results) = row - 1
    BY DEF Init
  <2>5. Progress
    BY <2>4 DEF Init
  <2>6. attempts \in 0 .. MaxAttempts /\ failures \in Nat /\ failing \in SUBSET Rows
    BY DEF Init
  <2>8. tripped \in BOOLEAN /\ abort \in BOOLEAN
    BY DEF Init
  <2>7. /\ inflight \in SUBSET Requests /\ accepted \in SUBSET Requests
        /\ late \in SUBSET Requests /\ confirmed \in SUBSET (Requests \X {"ok", "noRunId"})
        /\ history \in SUBSET HistoryRows /\ lost \in SUBSET Rows
    BY DEF Init
  <2>. QED
    BY <2>1, <2>2, <2>3, <2>4, <2>5, <2>6, <2>7, <2>8
<1>2. TypeInv /\ [Next]_vars => TypeInv'
  <2>. SUFFICES ASSUME TypeInv, [Next]_vars PROVE TypeInv'
    OBVIOUS
  <2>0. pc # "end" => row \in Rows
    BY DEF Rows
  <2>1. CASE SkipAborted
    <3>1. current' \in ResultSet /\ pc' = "emit" /\ answer' \in Answers
        /\ UNCHANGED <<row, attempts, results>>
      BY <2>1, DecideTyped DEF SkipAborted, Causes
    <3>. QED  BY <2>1, <3>1 DEF SkipAborted, breaker, service, store
  <2>2. CASE RejectInvalid
    <3>1. current' \in ResultSet /\ pc' = "emit" /\ answer' \in Answers
        /\ UNCHANGED <<row, attempts, results>>
      BY <2>2, DecideTyped DEF RejectInvalid, Causes
    <3>2. history' \in SUBSET HistoryRows /\ lost' \in SUBSET Rows
      BY <2>2, <2>0, FailureTyped DEF RejectInvalid
    <3>. QED  BY <2>2, <3>1, <3>2 DEF RejectInvalid, breaker, service
  <2>3. CASE SkipTripped
    <3>1. current' \in ResultSet /\ pc' = "emit" /\ answer' \in Answers
        /\ UNCHANGED <<row, attempts, results>>
      BY <2>3, DecideTyped DEF SkipTripped, Causes
    <3>2. history' \in SUBSET HistoryRows /\ lost' \in SUBSET Rows
      BY <2>3, <2>0, FailureTyped DEF SkipTripped
    <3>. QED  BY <2>3, <3>1, <3>2 DEF SkipTripped, breaker, service
  <2>4. CASE FailUnparsed
    <3>1. current' \in ResultSet /\ pc' = "emit" /\ answer' \in Answers
        /\ UNCHANGED <<row, attempts, results>>
      BY <2>4, DecideTyped DEF FailUnparsed, Causes
    <3>2. history' \in SUBSET HistoryRows /\ lost' \in SUBSET Rows
      BY <2>4, <2>0, FailureTyped DEF FailUnparsed
    <3>. QED  BY <2>4, <3>1, <3>2 DEF FailUnparsed, breaker, service
  <2>5. CASE FailUnstampable
    <3>1. current' \in ResultSet /\ pc' = "emit" /\ answer' \in Answers
        /\ UNCHANGED <<row, attempts, results>>
      BY <2>5, DecideTyped DEF FailUnstampable, Causes
    <3>2. history' \in SUBSET HistoryRows /\ lost' \in SUBSET Rows
      BY <2>5, <2>0, FailureTyped DEF FailUnstampable
    <3>. QED  BY <2>5, <3>1, <3>2 DEF FailUnstampable, breaker, service
  <2>6. CASE StartRow
    BY <2>6 DEF StartRow, breaker, service, store
  <2>7. CASE AbortRow
    <3>1. current' \in ResultSet /\ pc' = "emit" /\ answer' \in Answers
        /\ UNCHANGED <<row, attempts, results>>
      BY <2>7, DecideTyped DEF AbortRow, Causes
    <3>. QED  BY <2>7, <3>1 DEF AbortRow, breaker, service, store
  <2>8. CASE CheckAbort
    BY <2>8 DEF CheckAbort, breaker, service, store
  <2>9. CASE Send
    <3>1. <<row, attempts + 1>> \in Requests /\ attempts + 1 \in 1 .. MaxAttempts
      BY <2>9, <2>0 DEF Send, Requests
    <3>. QED  BY <2>9, <3>1 DEF Send, breaker, store
  <2>10. ASSUME NEW a \in Answers, Answer(a) PROVE TypeInv'
    <3>1. <<row, attempts>> \in Requests
      BY <2>10, <2>0 DEF Answer, Requests
    <3>2. confirmed' \in SUBSET (Requests \X {"ok", "noRunId"})
      BY <2>10, <3>1 DEF Answer
    <3>3. inflight' \in SUBSET Requests
      BY <2>10 DEF Answer
    <3>. QED  BY <2>10, <3>2, <3>3 DEF Answer, breaker, store
  <2>11. CASE Succeed
    <3>1. current' \in ResultSet /\ pc' = "emit" /\ answer' \in Answers
        /\ UNCHANGED <<row, attempts, results>>
      BY <2>11, DecideTyped DEF Succeed, Causes
    <3>2. history' \in SUBSET HistoryRows /\ lost' \in SUBSET Rows
      BY <2>11, <2>0, SuccessTyped DEF Succeed
    <3>. QED  BY <2>11, <3>1, <3>2 DEF Succeed, breaker, service
  <2>12. CASE Backoff
    BY <2>12 DEF Backoff, MayRetry, Answers, breaker, service, store
  <2>13. CASE Fail
    <3>1. current' \in ResultSet /\ pc' = "emit" /\ answer' \in Answers
        /\ UNCHANGED <<row, attempts, results>>
      BY <2>13, DecideTyped DEF Fail, Causes
    <3>2. history' \in SUBSET HistoryRows /\ lost' \in SUBSET Rows
      BY <2>13, <2>0, FailureTyped DEF Fail
    <3>. QED  BY <2>13, <3>1, <3>2 DEF Fail, breaker, service
  <2>14. CASE Yield
    <3>0. row \in 1 .. N
      BY <2>14, <2>0 DEF Yield, Rows
    <3>1. failures' \in Nat /\ tripped' \in BOOLEAN /\ failing' \in SUBSET Rows
      <4>1. CASE BumpBreaker
        BY <4>1, <2>0, <2>14 DEF BumpBreaker, Yield
      <4>2. CASE ResetBreaker
        BY <4>2 DEF ResetBreaker
      <4>3. CASE UNCHANGED breaker
        BY <4>3 DEF breaker
      <4>. QED  BY <2>14, <4>1, <4>2, <4>3 DEF Yield, UpdateBreaker
    <3>2. trip' \in [row: 0 .. N, remaining: 0 .. N, labels: SUBSET Rows]
      BY <2>14, <2>0, <3>0 DEF Yield, UpdateBreaker, BumpBreaker, ResetBreaker, breaker
    <3>3. results' \in Seq(ResultSet) /\ Len(results') = row' - 1
      BY <2>14, <3>0 DEF Yield
    <3>4. current' \in ResultSet
      BY <2>14 DEF Yield, NoResult, Result, ResultSet, Causes
    <3>5. row' \in 1 .. N + 1 /\ (pc' = "end" <=> row' = N + 1) /\ pc' \in {"row", "end"}
      BY <2>14, <3>0 DEF Yield
    <3>. QED  BY <2>14, <3>1, <3>2, <3>3, <3>4, <3>5 DEF Yield, service, store
  <2>15. ASSUME NEW q \in Requests, Accept(q) PROVE TypeInv'
    BY <2>15 DEF Accept, batch, breaker, store
  <2>16. CASE RequestAbort
    BY <2>16 DEF RequestAbort, batch, breaker, service, store
  <2>17. CASE Close
    BY <2>17 DEF Close, Polls, breaker, service, store
  <2>18. CASE Crash
    BY <2>18 DEF Crash, Running, breaker, service, store
  <2>19. CASE UNCHANGED vars
    BY <2>19 DEF vars, batch, breaker, service, store
  <2>. QED
    BY <2>1, <2>2, <2>3, <2>4, <2>5, <2>6, <2>7, <2>8, <2>9, <2>10, <2>11, <2>12,
       <2>13, <2>14, <2>15, <2>16, <2>17, <2>18, <2>19 DEF Next, Program, Stopped
<1>. QED
  BY <1>1, <1>2, PTL DEF Spec

(* Every variable keeps its type, so in particular the generator makes at  *)
(* most MaxAttempts attempts of a row and never runs past the queue.       *)
THEOREM TypeCorrect == Spec => []TypeOK
<1>1. TypeInv => TypeOK
  BY DEF TypeInv
<1>. QED  BY <1>1, TypeInvariant, PTL

-----------------------------------------------------------------------------
(***************************************************************************)
(* The circuit breaker.  Beyond what the page may rely on, the invariant   *)
(* says where the generator may stand once the breaker is open: it submits *)
(* nothing, and the row it is answering changes the breaker no more.       *)
(***************************************************************************)
Submitting == {"retry", "send", "posted", "answered"}

BreakerInv ==
  /\ BreakerCountsTrailingFailures
  /\ BreakerOpensOnTime
  /\ tripped => pc \notin Submitting
  /\ tripped /\ pc = "emit" => ~Counted(current) /\ ~Succeeded(current)
  /\ \A q \in inflight \cup accepted : q[1] <= row
  /\ tripped => \A q \in inflight \cup accepted : q[1] <= trip.row

(* Handing over a result changes the trailing failures as the code changes *)
(* its counter: a counted failure joins them, a success clears them.       *)
LEMMA TrailingStep ==
  ASSUME TypeInv, Yield
  PROVE  TrailingFailures' = IF Succeeded(current) THEN {}
                             ELSE IF Counted(current) THEN TrailingFailures \cup {row}
                             ELSE TrailingFailures
<1>. USE DEF TypeInv, TypeOK, Progress
<1>1. row \in 1 .. N /\ Len(results) = row - 1 /\ Len(results') = row
  BY QueueAssumption DEF Yield, Steps, Terminal
<1>2. results'[row] = current /\ \A i \in 1 .. row - 1 : results'[i] = results[i]
  BY <1>1 DEF Yield
<1>3. TrailingFailures' = {i \in 1 .. row : /\ Counted(results'[i])
                                            /\ \A j \in i .. row : ~Succeeded(results'[j])}
  BY <1>1 DEF TrailingFailures, Answered, Counted, Succeeded
<1>4. TrailingFailures = {i \in 1 .. row - 1 : /\ Counted(results[i])
                                               /\ \A j \in i .. row - 1 : ~Succeeded(results[j])}
  BY <1>1 DEF TrailingFailures, Answered
<1>5. CASE Succeeded(current)
  <2>1. \A i \in 1 .. row : row \in i .. row /\ Succeeded(results'[row])
    BY <1>1, <1>2, <1>5
  <2>. QED  BY <2>1, <1>3, <1>5
<1>6. CASE ~Succeeded(current)
  <2>1. \A i \in 1 .. row - 1 :
          /\ Counted(results'[i]) <=> Counted(results[i])
          /\ (\A j \in i .. row : ~Succeeded(results'[j]))
               <=> (\A j \in i .. row - 1 : ~Succeeded(results[j]))
    BY <1>1, <1>2, <1>6 DEF Counted, Succeeded
  <2>2. \A i \in 1 .. row - 1 : i \in TrailingFailures' <=> i \in TrailingFailures
    BY <2>1, <1>1, <1>3, <1>4
  <2>3. row \in TrailingFailures' <=> Counted(current)
    BY <1>1, <1>2, <1>3, <1>6 DEF Counted, Succeeded
  <2>4. TrailingFailures' \subseteq 1 .. row /\ TrailingFailures \subseteq 1 .. row - 1
    BY <1>3, <1>4
  <2>5. \A i : i \in 1 .. row <=> i \in 1 .. row - 1 \/ i = row
    BY <1>1
  <2>6. row \notin 1 .. row - 1
    BY <1>1
  <2>7. CASE Counted(current)
    <3>1. TrailingFailures' = TrailingFailures \cup {row}
      BY <2>2, <2>3, <2>4, <2>5, <2>6, <2>7
    <3>. QED  BY <3>1, <2>7, <1>6
  <2>8. CASE ~Counted(current)
    <3>1. TrailingFailures' = TrailingFailures
      BY <2>2, <2>3, <2>4, <2>5, <2>6, <2>8
    <3>. QED  BY <3>1, <2>8, <1>6
  <2>. QED  BY <2>7, <2>8
<1>. QED  BY <1>5, <1>6

(* A step that neither touches the breaker nor hands over a result.        *)
LEMMA BreakerFrame ==
  ASSUME BreakerCountsTrailingFailures, BreakerOpensOnTime, UNCHANGED <<results, breaker>>
  PROVE  BreakerCountsTrailingFailures' /\ BreakerOpensOnTime'
BY DEF BreakerCountsTrailingFailures, BreakerOpensOnTime, TrailingFailures, Answered, breaker

(* Handing over a result keeps the breaker right.                          *)
LEMMA YieldBreaker ==
  ASSUME TypeInv, BreakerInv, Yield
  PROVE  BreakerInv'
<1>. USE QueueAssumption DEF TypeInv, TypeOK, Progress
<1>1. row \in 1 .. N /\ row' = row + 1 /\ pc' \notin Submitting \cup {"emit"}
  BY DEF Yield, Submitting, Steps, Terminal
<1>2. IsFiniteSet(failing) /\ failing \subseteq 1 .. row - 1 /\ row \notin failing
  <2>1. failing \subseteq 1 .. row - 1
    BY <1>1 DEF BreakerInv, BreakerCountsTrailingFailures, TrailingFailures, Answered
  <2>2. IsFiniteSet(1 .. row - 1)
    BY <1>1, FS_Interval
  <2>3. IsFiniteSet(failing)
    BY <2>1, <2>2, FS_Subset
  <2>4. row \notin 1 .. row - 1
    BY <1>1
  <2>. QED  BY <2>1, <2>3, <2>4
<1>3. /\ BreakerCountsTrailingFailures' /\ BreakerOpensOnTime'
      /\ (tripped' => \A q \in inflight \cup accepted : q[1] <= trip'.row)
  <2>1. CASE Counted(current)
    <3>1. ~tripped /\ failures < Threshold /\ ~Succeeded(current)
      BY <2>1 DEF BreakerInv, BreakerOpensOnTime, Yield, Counted, Succeeded
    <3>2. BumpBreaker
      BY <2>1, <3>1 DEF Yield, UpdateBreaker
    <3>3. failing' = TrailingFailures'
      BY <2>1, <3>1, <3>2, TrailingStep DEF BumpBreaker, BreakerInv, BreakerCountsTrailingFailures
    <3>4. Cardinality(failing') = failures'
      BY <1>2, <3>2, FS_AddElement DEF BumpBreaker, BreakerInv, BreakerCountsTrailingFailures
    <3>5. BreakerOpensOnTime'
      <4>1. CASE failures + 1 >= Threshold
        <5>1. Opens
          BY <4>1, <3>1 DEF Opens
        <5>2. /\ tripped'
              /\ trip' = [row |-> row, remaining |-> N - row, labels |-> failing \cup {row}]
              /\ failing' = failing \cup {row}
          BY <5>1, <3>2 DEF BumpBreaker
        <5>3. failures' = failures + 1 /\ failures' = Threshold
          BY <4>1, <3>1, <3>2 DEF BumpBreaker
        <5>. QED  BY <5>2, <5>3, <3>4 DEF BreakerOpensOnTime
      <4>2. CASE ~(failures + 1 >= Threshold)
        <5>1. ~tripped'
          BY <4>2, <3>1, <3>2 DEF BumpBreaker, Opens
        <5>2. ~(failures' >= Threshold)
          BY <4>2, <3>2 DEF BumpBreaker
        <5>. QED  BY <5>1, <5>2 DEF BreakerOpensOnTime
      <4>. QED  BY <4>1, <4>2
    <3>6. tripped' => trip'.row = row
      BY <3>1, <3>2 DEF BumpBreaker, Opens
    <3>. QED
      BY <3>3, <3>4, <3>5, <3>6 DEF BreakerCountsTrailingFailures, BreakerInv
  <2>2. CASE Succeeded(current)
    <3>1. ~tripped /\ ~Counted(current)
      BY <2>2 DEF BreakerInv, Yield, Counted, Succeeded
    <3>2. ResetBreaker
      BY <2>2, <3>1 DEF Yield, UpdateBreaker
    <3>3. failing' = TrailingFailures' /\ failures' = Cardinality(failing')
      BY <2>2, <3>2, TrailingStep, FS_EmptySet DEF ResetBreaker
    <3>. QED
      BY <3>1, <3>2, <3>3 DEF ResetBreaker, BreakerCountsTrailingFailures, BreakerOpensOnTime
  <2>3. CASE ~Counted(current) /\ ~Succeeded(current)
    <3>1. UNCHANGED breaker
      BY <2>3 DEF Yield, UpdateBreaker
    <3>2. failing' = TrailingFailures'
      BY <2>3, <3>1, TrailingStep DEF breaker, BreakerInv, BreakerCountsTrailingFailures
    <3>. QED
      BY <3>1, <3>2 DEF breaker, BreakerInv, BreakerCountsTrailingFailures, BreakerOpensOnTime
  <2>. QED  BY <2>1, <2>2, <2>3
<1>4. UNCHANGED <<inflight, accepted>>
  BY DEF Yield, service
<1>. QED
  BY <1>1, <1>3, <1>4 DEF BreakerInv, Requests, Rows

(* A step that answers the current row leaves the breaker alone, and what  *)
(* it decides counts for the breaker only if the breaker is closed.        *)
LEMMA DecideBreaker ==
  ASSUME BreakerInv, NEW s, NEW c, NEW n, Decide(s, c, n),
         UNCHANGED <<breaker, inflight, accepted>>,
         tripped => s \in {"skipped", "rejected"}
  PROVE  BreakerInv'
<1>1. BreakerCountsTrailingFailures' /\ BreakerOpensOnTime'
  BY BreakerFrame DEF BreakerInv, Decide
<1>2. pc' = "emit" /\ current' = Result(s, c, n) /\ row' = row
  BY DEF Decide
<1>3. tripped' => ~Counted(current') /\ ~Succeeded(current')
  BY <1>2 DEF breaker, Counted, Succeeded, Result
<1>. QED
  BY <1>1, <1>2, <1>3 DEF BreakerInv, Submitting, breaker

(* BreakerInv is inductive, given that the state keeps its type.           *)
LEMMA BreakerInvariant == Spec => []BreakerInv
<1>1. Init => BreakerInv
  <2>. SUFFICES ASSUME Init PROVE BreakerInv
    OBVIOUS
  <2>1. TrailingFailures = {} /\ Cardinality({}) = 0
    BY FS_EmptySet DEF Init, TrailingFailures, Answered
  <2>2. BreakerCountsTrailingFailures /\ BreakerOpensOnTime
    BY <2>1, QueueAssumption DEF Init, BreakerCountsTrailingFailures, BreakerOpensOnTime
  <2>. QED  BY <2>2 DEF Init, BreakerInv
<1>2. TypeInv /\ BreakerInv /\ [Next]_vars => BreakerInv'
  <2>. SUFFICES ASSUME TypeInv, BreakerInv, [Next]_vars PROVE BreakerInv'
    OBVIOUS
  <2>. USE DEF breaker, service
  <2>1. CASE SkipAborted
    BY <2>1, DecideBreaker DEF SkipAborted
  <2>2. CASE RejectInvalid
    BY <2>2, DecideBreaker DEF RejectInvalid
  <2>3. CASE SkipTripped
    BY <2>3, DecideBreaker DEF SkipTripped
  <2>4. CASE FailUnparsed
    BY <2>4, DecideBreaker DEF FailUnparsed
  <2>5. CASE FailUnstampable
    BY <2>5, DecideBreaker DEF FailUnstampable
  <2>6. CASE AbortRow
    BY <2>6, DecideBreaker DEF AbortRow
  <2>7. CASE Succeed
    <3>1. ~tripped
      BY <2>7 DEF Succeed, BreakerInv, Submitting
    <3>. QED  BY <2>7, <3>1, DecideBreaker DEF Succeed
  <2>8. CASE Fail
    <3>1. ~tripped
      BY <2>8 DEF Fail, BreakerInv, Submitting
    <3>. QED  BY <2>8, <3>1, DecideBreaker DEF Fail
  <2>9. CASE Yield
    BY <2>9, YieldBreaker
  <2>10. CASE Send
    <3>1. ~tripped
      BY <2>10 DEF Send, BreakerInv, Submitting
    <3>2. \A q \in inflight' \cup accepted' : q[1] <= row
      BY <2>10 DEF Send, BreakerInv, TypeInv, TypeOK
    <3>. QED  BY <2>10, <3>1, <3>2, BreakerFrame DEF Send, BreakerInv
  <2>11. ASSUME NEW q \in Requests, Accept(q) PROVE BreakerInv'
    <3>1. inflight' \cup accepted' = inflight \cup accepted
      BY <2>11 DEF Accept
    <3>. QED  BY <2>11, <3>1, BreakerFrame DEF Accept, BreakerInv, batch
  <2>12. ASSUME NEW a \in Answers, Answer(a) PROVE BreakerInv'
    <3>1. ~tripped
      BY <2>12 DEF Answer, BreakerInv, Submitting
    <3>2. inflight' \cup accepted' \subseteq inflight \cup accepted
      BY <2>12 DEF Answer
    <3>. QED  BY <2>12, <3>1, <3>2, BreakerFrame DEF Answer, BreakerInv
  <2>13. CASE StartRow \/ CheckAbort \/ Backoff
    <3>1. ~tripped
      BY <2>13 DEF StartRow, Submittable, CheckAbort, Backoff, BreakerInv, Submitting
    <3>. QED
      BY <2>13, <3>1, BreakerFrame DEF StartRow, CheckAbort, Backoff, BreakerInv
  <2>14. CASE RequestAbort
    BY <2>14, BreakerFrame DEF RequestAbort, BreakerInv, batch
  <2>15. CASE Close \/ Crash
    BY <2>15, BreakerFrame DEF Close, Crash, BreakerInv, Submitting
  <2>16. CASE UNCHANGED vars
    BY <2>16, BreakerFrame DEF vars, batch, BreakerInv
  <2>. QED
    BY <2>1, <2>2, <2>3, <2>4, <2>5, <2>6, <2>7, <2>8, <2>9, <2>10, <2>11, <2>12,
       <2>13, <2>14, <2>15, <2>16 DEF Next, Program, Stopped
<1>. QED  BY <1>1, <1>2, TypeInvariant, PTL DEF Spec

(* The breaker opens exactly after Threshold consecutive counted failures, *)
(* names them, and no request is sent for a later row.                     *)
THEOREM BreakerCorrect ==
  Spec => [](BreakerIsExact /\ OpenBreakerStopsTraffic)
<1>1. BreakerInv => BreakerIsExact /\ OpenBreakerStopsTraffic
  BY DEF BreakerInv, BreakerIsExact, OpenBreakerStopsTraffic
<1>. QED  BY <1>1, BreakerInvariant, PTL

(* Only a poll that found the abort flag down leads to a send, so the flag *)
(* can overtake one request and no more.                                   *)
AbortInv ==
  /\ IsFiniteSet(late) /\ Cardinality(late) <= 1
  /\ ~abort => late = {}
  /\ pc = "send" => late = {}

(* However the abort races with the sends, at most one request leaves      *)
(* after the flag went up.                                                 *)
THEOREM AbortIsHonoured == Spec => []AbortStopsTraffic
<1>1. Init => AbortInv
  BY FS_EmptySet DEF Init, AbortInv
<1>2. AbortInv /\ [Next]_vars => AbortInv'
  <2>. SUFFICES ASSUME AbortInv, [Next]_vars PROVE AbortInv'
    OBVIOUS
  <2>1. CASE Send
    <3>1. late = {} /\ pc' = "posted" /\ abort' = abort
      BY <2>1 DEF Send, AbortInv
    <3>2. CASE abort
      <4>1. late' = {<<row, attempts + 1>>}
        BY <2>1, <3>1, <3>2 DEF Send
      <4>2. IsFiniteSet(late') /\ Cardinality(late') = 1
        BY <4>1, FS_Singleton
      <4>. QED  BY <3>1, <3>2, <4>2 DEF AbortInv
    <3>3. CASE ~abort
      <4>1. late' = {}
        BY <2>1, <3>1, <3>3 DEF Send
      <4>. QED  BY <3>1, <4>1, FS_EmptySet DEF AbortInv
    <3>. QED  BY <3>2, <3>3
  <2>2. CASE CheckAbort
    BY <2>2 DEF CheckAbort, AbortInv, service
  <2>3. CASE UNCHANGED late /\ (abort => abort') /\ (pc' = "send" => pc = "send")
    BY <2>3 DEF AbortInv
  <2>4. \/ Send \/ CheckAbort
        \/ UNCHANGED late /\ (abort => abort') /\ (pc' = "send" => pc = "send")
    BY DEF Next, Program, Stopped, vars, batch, service, SkipAborted, RejectInvalid, SkipTripped,
           FailUnparsed, FailUnstampable, StartRow, AbortRow, Answer, Succeed, Backoff, Fail,
           Yield, Accept, RequestAbort, Close, Crash, Decide
  <2>. QED  BY <2>1, <2>2, <2>3, <2>4
<1>3. AbortInv => AbortStopsTraffic
  BY DEF AbortInv, AbortStopsTraffic
<1>. QED  BY <1>1, <1>2, <1>3, PTL DEF Spec

-----------------------------------------------------------------------------
(* Where a confirmed attempt stands: its row is answered with it, or it is *)
(* the last attempt of the row being worked on, which has no retry ahead.  *)
Settled(c) ==
  \/ /\ c[1][1] \in Answered /\ results[c[1][1]].attempts = c[1][2]
  \/ /\ c[1][1] = row /\ c[1][2] = attempts
     /\ \/ pc = "answered" /\ answer = c[2]
        \/ pc = "emit" /\ current.attempts = attempts
        \/ pc \in {"closed", "crashed"}

ConfirmedInv == \A c \in confirmed : Settled(c)

(* Handing over a result keeps the results before it.                      *)
LEMMA YieldAppends ==
  ASSUME TypeInv, Yield
  PROVE  /\ row \in 1 .. N /\ Answered = 1 .. row - 1 /\ Answered' = 1 .. row
         /\ results'[row] = current
         /\ \A r \in 1 .. row - 1 : results'[r] = results[r]
<1>1. row \in 1 .. N /\ Len(results) = row - 1 /\ results \in Seq(ResultSet) /\ current \in ResultSet
  BY QueueAssumption DEF TypeInv, TypeOK, Progress, Yield, Steps, Terminal
<1>2. results' = Append(results, current)
  BY DEF Yield
<1>. QED  BY <1>1, <1>2 DEF Answered

(* The row being worked on has no answer yet.                              *)
LEMMA RowUnanswered ==
  ASSUME TypeInv
  PROVE  row \notin Answered /\ Answered = 1 .. row - 1
BY DEF TypeInv, TypeOK, Progress, Answered

(* A step that answers no request and decides nothing for the row.         *)
LEMMA SettledFrame ==
  ASSUME ConfirmedInv, UNCHANGED <<results, row, attempts, confirmed>>,
         \/ pc \notin {"answered", "emit", "closed", "crashed"}
         \/ UNCHANGED <<pc, answer, current>>
         \/ pc' \in {"closed", "crashed"}
         \/ pc = "answered" /\ pc' = "emit" /\ current'.attempts = attempts
  PROVE  ConfirmedInv'
<1>. SUFFICES ASSUME NEW c \in confirmed PROVE Settled(c)'
  BY DEF ConfirmedInv
<1>1. Settled(c)
  BY DEF ConfirmedInv
<1>. QED  BY <1>1 DEF Settled, Answered

(* ConfirmedInv is inductive: an attempt is followed by another only if it *)
(* was not confirmed.                                                      *)
LEMMA ConfirmedInvariant == Spec => []ConfirmedInv
<1>1. Init => ConfirmedInv
  BY DEF Init, ConfirmedInv
<1>2. TypeInv /\ ConfirmedInv /\ [Next]_vars => ConfirmedInv'
  <2>. SUFFICES ASSUME TypeInv, ConfirmedInv, [Next]_vars PROVE ConfirmedInv'
    OBVIOUS
  <2>. USE DEF service
  <2>1. CASE SkipAborted \/ RejectInvalid \/ SkipTripped \/ FailUnparsed \/ FailUnstampable
    BY <2>1, SettledFrame DEF SkipAborted, RejectInvalid, SkipTripped, FailUnparsed,
       FailUnstampable, Decide
  <2>2. CASE StartRow
    <3>1. \A c \in confirmed : c[1][1] \in Answered /\ results[c[1][1]].attempts = c[1][2]
      BY <2>2 DEF StartRow, ConfirmedInv, Settled
    <3>. QED  BY <2>2, <3>1 DEF StartRow, ConfirmedInv, Settled, Answered
  <2>3. CASE AbortRow \/ CheckAbort
    BY <2>3, SettledFrame DEF AbortRow, CheckAbort, Decide
  <2>4. CASE Send
    <3>1. \A c \in confirmed : c[1][1] \in Answered /\ results[c[1][1]].attempts = c[1][2]
      BY <2>4 DEF Send, ConfirmedInv, Settled
    <3>. QED  BY <2>4, <3>1 DEF Send, ConfirmedInv, Settled, Answered
  <2>5. ASSUME NEW a \in Answers, Answer(a) PROVE ConfirmedInv'
    <3>. SUFFICES ASSUME NEW c \in confirmed' PROVE Settled(c)'
      BY DEF ConfirmedInv
    <3>1. CASE c \in confirmed
      <4>1. c[1][1] \in Answered /\ results[c[1][1]].attempts = c[1][2]
        BY <2>5, <3>1 DEF Answer, ConfirmedInv, Settled
      <4>. QED  BY <2>5, <4>1 DEF Answer, Settled, Answered
    <3>2. CASE c \notin confirmed
      <4>1. c = <<<<row, attempts>>, a>> /\ pc' = "answered" /\ answer' = a
        BY <2>5, <3>2 DEF Answer
      <4>2. UNCHANGED <<row, attempts>>
        BY <2>5 DEF Answer
      <4>. QED  BY <4>1, <4>2 DEF Settled
    <3>. QED  BY <3>1, <3>2
  <2>6. CASE Succeed \/ Fail
    <3>1. current'.attempts = attempts /\ pc = "answered" /\ pc' = "emit"
      BY <2>6 DEF Succeed, Fail, Decide, Result
    <3>. QED  BY <2>6, <3>1, SettledFrame DEF Succeed, Fail, Decide
  <2>7. CASE Backoff
    <3>1. answer \notin {"ok", "noRunId"}
      BY <2>7 DEF Backoff, MayRetry, Retryable
    <3>2. \A c \in confirmed : c[1][1] \in Answered /\ results[c[1][1]].attempts = c[1][2]
      BY <2>7, <3>1 DEF Backoff, ConfirmedInv, Settled, TypeInv, TypeOK
    <3>. QED  BY <2>7, <3>2 DEF Backoff, ConfirmedInv, Settled, Answered
  <2>8. CASE Yield
    <3>. SUFFICES ASSUME NEW c \in confirmed PROVE Settled(c)'
      BY <2>8 DEF Yield, ConfirmedInv
    <3>1. Settled(c) /\ pc = "emit"
      BY <2>8 DEF ConfirmedInv, Yield
    <3>. QED  BY <2>8, <3>1, YieldAppends DEF Settled
  <2>9. CASE Close \/ Crash
    BY <2>9, SettledFrame DEF Close, Crash
  <2>10. CASE RequestAbort \/ UNCHANGED vars
    BY <2>10, SettledFrame DEF RequestAbort, vars, batch
  <2>11. ASSUME NEW q \in Requests, Accept(q) PROVE ConfirmedInv'
    BY <2>11, SettledFrame DEF Accept, batch
  <2>. QED
    BY <2>1, <2>2, <2>3, <2>4, <2>5, <2>6, <2>7, <2>8, <2>9, <2>10, <2>11
       DEF Next, Program, Stopped
<1>. QED  BY <1>1, <1>2, TypeInvariant, PTL DEF Spec

(* A manifest the service has confirmed is never sent again.               *)
THEOREM NoResend == Spec => []ConfirmedAttemptIsLast
<1>1. TypeInv /\ ConfirmedInv => ConfirmedAttemptIsLast
  <2>. SUFFICES ASSUME TypeInv, ConfirmedInv, NEW c \in confirmed
                PROVE  AttemptsOf(c[1][1]) = c[1][2]
    BY DEF ConfirmedAttemptIsLast
  <2>1. Settled(c)
    BY DEF ConfirmedInv
  <2>. QED  BY <2>1, RowUnanswered DEF Settled, AttemptsOf
<1>. QED  BY <1>1, ConfirmedInvariant, TypeInvariant, PTL

-----------------------------------------------------------------------------
(* A run whose id was received is recorded, or its recording was lost, or  *)
(* the generator stands just before recording it.                          *)
Recorded(c) ==
  \/ c[1][1] \in lost
  \/ HistoryRow(c[1][1], c[1][2], "submitted") \in history
  \/ pc \in {"answered", "crashed"} /\ c[1] = <<row, attempts>>

RecordedInv == \A c \in confirmed : c[2] = "ok" => Recorded(c)

(* The history and the list of lost writes only grow.                      *)
LEMMA FailureGrows ==
  ASSUME RecordFailure
  PROVE  history \subseteq history' /\ lost \subseteq lost'
BY DEF RecordFailure

(* A step that leaves the confirmed runs and the row alone.                *)
LEMMA RecordedFrame ==
  ASSUME RecordedInv, UNCHANGED confirmed, history \subseteq history', lost \subseteq lost',
         \/ pc \notin {"answered", "crashed"}
         \/ UNCHANGED <<pc, row, attempts>>
         \/ pc' = "crashed" /\ UNCHANGED <<row, attempts>>
  PROVE  RecordedInv'
<1>. SUFFICES ASSUME NEW c \in confirmed, c[2] = "ok" PROVE Recorded(c)'
  BY DEF RecordedInv
<1>1. Recorded(c)
  BY DEF RecordedInv
<1>. QED  BY <1>1 DEF Recorded

(* The id of a run, once received, reaches the run history: only a failed  *)
(* write, or a crash right after the answer, keeps it out.                 *)
THEOREM RunIdsReachHistory == Spec => []AnsweredRunsRecorded
<1>1. Init => RecordedInv
  BY DEF Init, RecordedInv
<1>2. TypeInv /\ ConfirmedInv /\ RecordedInv /\ [Next]_vars => RecordedInv'
  <2>. SUFFICES ASSUME TypeInv, ConfirmedInv, RecordedInv, [Next]_vars PROVE RecordedInv'
    OBVIOUS
  <2>. USE DEF service, store
  <2>1. CASE RejectInvalid \/ SkipTripped \/ FailUnparsed \/ FailUnstampable
    BY <2>1, FailureGrows, RecordedFrame DEF RejectInvalid, SkipTripped, FailUnparsed, FailUnstampable
  <2>2. CASE SkipAborted \/ StartRow \/ AbortRow \/ CheckAbort \/ Send \/ Yield
    BY <2>2, RecordedFrame DEF SkipAborted, StartRow, AbortRow, CheckAbort, Send, Yield
  <2>3. ASSUME NEW a \in Answers, Answer(a) PROVE RecordedInv'
    <3>. SUFFICES ASSUME NEW c \in confirmed', c[2] = "ok" PROVE Recorded(c)'
      BY DEF RecordedInv
    <3>1. CASE c \in confirmed
      <4>1. Recorded(c) /\ pc = "posted" /\ UNCHANGED <<history, lost>>
        BY <2>3, <3>1 DEF RecordedInv, Answer
      <4>. QED  BY <4>1 DEF Recorded
    <3>2. CASE c \notin confirmed
      <4>1. c = <<<<row, attempts>>, a>> /\ pc' = "answered" /\ UNCHANGED <<row, attempts>>
        BY <2>3, <3>2 DEF Answer
      <4>. QED  BY <4>1 DEF Recorded
    <3>. QED  BY <3>1, <3>2
  <2>4. CASE Succeed
    <3>. SUFFICES ASSUME NEW c \in confirmed, c[2] = "ok" PROVE Recorded(c)'
      BY <2>4 DEF RecordedInv, Succeed
    <3>1. Recorded(c)
      BY DEF RecordedInv
    <3>2. PICK stored \in StoreOutcomes :
            /\ history' = history \cup (IF stored THEN {HistoryRow(row, attempts, "submitted")} ELSE {})
            /\ lost' = IF stored THEN lost ELSE lost \cup {row}
      BY <2>4 DEF Succeed, RecordSuccess
    <3>3. CASE c[1] = <<row, attempts>>
      BY <3>2, <3>3 DEF Recorded
    <3>4. CASE c[1] # <<row, attempts>>
      BY <3>1, <3>2, <3>4 DEF Recorded
    <3>. QED  BY <3>3, <3>4
  <2>5. CASE Fail \/ Backoff
    <3>. SUFFICES ASSUME NEW c \in confirmed, c[2] = "ok" PROVE Recorded(c)'
      BY <2>5 DEF RecordedInv, Fail, Backoff
    <3>1. Recorded(c) /\ Settled(c)
      BY DEF RecordedInv, ConfirmedInv
    <3>2. pc = "answered" /\ answer # "ok" /\ history \subseteq history' /\ lost \subseteq lost'
      BY <2>5, FailureGrows DEF Fail, Backoff, MayRetry, Retryable
    <3>3. c[1][1] \in Answered
      BY <3>1, <3>2 DEF Settled
    <3>4. c[1] # <<row, attempts>>
      BY <3>3, RowUnanswered
    <3>. QED  BY <3>1, <3>2, <3>4 DEF Recorded
  <2>6. CASE Close \/ Crash
    BY <2>6, RecordedFrame DEF Close, Crash, Polls
  <2>7. CASE RequestAbort \/ UNCHANGED vars
    BY <2>7, RecordedFrame DEF RequestAbort, vars, batch
  <2>8. ASSUME NEW q \in Requests, Accept(q) PROVE RecordedInv'
    BY <2>8, RecordedFrame DEF Accept, batch
  <2>. QED
    BY <2>1, <2>2, <2>3, <2>4, <2>5, <2>6, <2>7, <2>8 DEF Next, Program, Stopped
<1>3. TypeInv /\ RecordedInv => AnsweredRunsRecorded
  <2>. SUFFICES ASSUME TypeInv, RecordedInv,
                       NEW c \in confirmed, c[2] = "ok", c[1][1] \notin lost,
                       HistoryRow(c[1][1], c[1][2], "submitted") \notin history
                PROVE  pc \in {"answered", "crashed"} /\ c = <<<<row, attempts>>, "ok">>
    BY DEF AnsweredRunsRecorded
  <2>1. Recorded(c)
    BY DEF RecordedInv
  <2>. QED  BY <2>1 DEF Recorded, TypeInv, TypeOK
<1>. QED  BY <1>1, <1>2, <1>3, TypeInvariant, ConfirmedInvariant, PTL DEF Spec

-----------------------------------------------------------------------------
(* The history follows the results, and is one row ahead of them between   *)
(* the decision of a row and its delivery.                                 *)
HistoryInv ==
  /\ HistoryMatchesResults
  /\ pc = "emit" /\ row \notin lost => Entries(row) = Expected(row, current)
  /\ pc \in Steps \ {"emit"} => row \notin lost /\ Entries(row) = {}
  /\ \A h \in history : h.row <= row
  /\ \A r \in lost : r <= row

(* A write about the row being worked on leaves the other rows' entries.   *)
LEMMA EntriesStep ==
  ASSUME NEW X, history' = history \cup X, \A h \in X : h.row = row
  PROVE  /\ Entries(row)' = {h \in history' : h.row = row'}
         /\ \A r : r # row => {h \in history' : h.row = r} = Entries(r)
         /\ {h \in history' : h.row = row} = Entries(row) \cup X
BY DEF Entries

(* Deciding a row, together with its history write.                        *)
LEMMA DecideHistory ==
  ASSUME TypeInv, HistoryInv, pc \in Steps \ {"emit"},
         NEW s, NEW c, NEW n, Decide(s, c, n),
         NEW X, history' = history \cup X, \A h \in X : h.row = row,
         lost' \in {lost, lost \cup {row}},
         row \notin lost' => X = Expected(row, Result(s, c, n))
  PROVE  HistoryInv'
<1>1. row' = row /\ results' = results /\ current' = Result(s, c, n) /\ pc' = "emit" /\ Answered' = Answered
  BY DEF Decide, Answered
<1>2. row \notin Answered /\ row \in Nat
  BY RowUnanswered DEF TypeInv, TypeOK
<1>3. HistoryMatchesResults'
  <2>. SUFFICES ASSUME NEW r \in Answered, r \notin lost'
                PROVE  {h \in history' : h.row = r} = Expected(r, results[r])
    BY <1>1 DEF HistoryMatchesResults, Entries, Expected
  <2>1. r # row /\ r \notin lost
    BY <1>2
  <2>. QED  BY <2>1, EntriesStep DEF HistoryInv, HistoryMatchesResults
<1>4. row' \notin lost' => Entries(row)' = Expected(row, current)'
  <2>. SUFFICES ASSUME row \notin lost'
                PROVE  {h \in history' : h.row = row} = Expected(row, Result(s, c, n))
    BY <1>1 DEF Entries
  <2>1. Entries(row) = {}
    BY DEF HistoryInv
  <2>. QED  BY <2>1, EntriesStep
<1>5. (\A h \in history' : h.row <= row') /\ (\A r \in lost' : r <= row')
  BY <1>1, <1>2 DEF HistoryInv
<1>. QED  BY <1>1, <1>3, <1>4, <1>5 DEF HistoryInv

(* The two writes of a failure give what a failed row is expected to have. *)
LEMMA FailureHistory ==
  ASSUME TypeInv, HistoryInv, pc \in Steps \ {"emit"}, RecordFailure,
         NEW s, NEW c, NEW n, Decide(s, c, n), s # "success", c # "abort"
  PROVE  HistoryInv'
<1>1. PICK submit \in StoreOutcomes, finish \in StoreOutcomes :
        /\ history' = history \cup
             (IF ~submit THEN {}
              ELSE {HistoryRow(row, 0, IF finish THEN "failed" ELSE "submitted")})
        /\ lost' = IF submit /\ finish THEN lost ELSE lost \cup {row}
  BY DEF RecordFailure
<1>. DEFINE X == IF ~submit THEN {}
                 ELSE {HistoryRow(row, 0, IF finish THEN "failed" ELSE "submitted")}
<1>2. Expected(row, Result(s, c, n)) = {HistoryRow(row, 0, "failed")}
  BY DEF Expected, Succeeded, Result
<1>3. \A h \in X : h.row = row
  BY DEF HistoryRow
<1>4. row \notin lost' => X = {HistoryRow(row, 0, "failed")}
  BY <1>1
<1>5. lost' \in {lost, lost \cup {row}} /\ history' = history \cup X
  BY <1>1
<1>. HIDE DEF X
<1>. QED  BY <1>2, <1>3, <1>4, <1>5, DecideHistory

(* A step that neither decides nor delivers nor writes.                    *)
LEMMA HistoryFrame ==
  ASSUME HistoryInv, UNCHANGED <<history, lost, results, row, current>>,
         \/ pc' = pc
         \/ pc \in Steps \ {"emit"} /\ pc' \in Steps \ {"emit"}
         \/ pc' \in Terminal
  PROVE  HistoryInv'
BY DEF HistoryInv, HistoryMatchesResults, Entries, Expected, Answered, Steps, Terminal

(* Unless a write was swallowed, the run history tells of every answered   *)
(* row what its result tells the page.                                     *)
THEOREM HistoryTellsResults == Spec => []HistoryMatchesResults
<1>1. Init => HistoryInv
  <2>. SUFFICES ASSUME Init PROVE HistoryInv
    OBVIOUS
  <2>1. Answered = {} /\ history = {} /\ lost = {} /\ pc # "emit"
    BY DEF Init, Answered
  <2>. QED  BY <2>1 DEF HistoryInv, HistoryMatchesResults, Entries
<1>2. TypeInv /\ HistoryInv /\ [Next]_vars => HistoryInv'
  <2>. SUFFICES ASSUME TypeInv, HistoryInv, [Next]_vars PROVE HistoryInv'
    OBVIOUS
  <2>. USE DEF store
  <2>1. CASE SkipAborted \/ AbortRow
    <3>1. Expected(row, Result("skipped", "abort", 0)) = {}
          /\ Expected(row, Result("skipped", "abort", attempts)) = {}
      BY DEF Expected, Succeeded, Result
    <3>2. history' = history \cup {} /\ lost' = lost /\ pc \in Steps \ {"emit"}
      BY <2>1 DEF SkipAborted, AbortRow, Steps
    <3>. QED  BY <2>1, <3>1, <3>2, DecideHistory DEF SkipAborted, AbortRow
  <2>2. CASE RejectInvalid
    BY <2>2, FailureHistory DEF RejectInvalid, Steps
  <2>3. CASE SkipTripped
    BY <2>3, FailureHistory DEF SkipTripped, Steps
  <2>4. CASE FailUnparsed
    BY <2>4, FailureHistory DEF FailUnparsed, Steps
  <2>5. CASE FailUnstampable
    BY <2>5, FailureHistory DEF FailUnstampable, Steps
  <2>6. CASE Fail
    BY <2>6, FailureHistory DEF Fail, Steps
  <2>7. CASE Succeed
    <3>1. PICK stored \in StoreOutcomes :
            /\ history' = history \cup (IF stored THEN {HistoryRow(row, attempts, "submitted")} ELSE {})
            /\ lost' = IF stored THEN lost ELSE lost \cup {row}
      BY <2>7 DEF Succeed, RecordSuccess
    <3>. DEFINE X == IF stored THEN {HistoryRow(row, attempts, "submitted")} ELSE {}
    <3>2. Expected(row, Result("success", "submit", attempts)) = {HistoryRow(row, attempts, "submitted")}
      BY DEF Expected, Succeeded, Result
    <3>3. \A h \in X : h.row = row
      BY DEF HistoryRow
    <3>4. row \notin lost' => X = {HistoryRow(row, attempts, "submitted")}
      BY <3>1
    <3>5. lost' \in {lost, lost \cup {row}} /\ history' = history \cup X
      BY <3>1
    <3>6. pc \in Steps \ {"emit"} /\ Decide("success", "submit", attempts)
      BY <2>7 DEF Succeed, Steps
    <3>. HIDE DEF X
    <3>. QED  BY <3>2, <3>3, <3>4, <3>5, <3>6, DecideHistory
  <2>8. CASE StartRow \/ CheckAbort \/ Send \/ Backoff
    BY <2>8, HistoryFrame DEF StartRow, CheckAbort, Send, Backoff, Steps
  <2>9. ASSUME NEW a \in Answers, Answer(a) PROVE HistoryInv'
    BY <2>9, HistoryFrame DEF Answer, Steps
  <2>10. CASE Yield
    <3>1. /\ pc = "emit" /\ row' = row + 1 /\ pc' \in {"row", "end"}
          /\ history' = history /\ lost' = lost
      BY <2>10 DEF Yield
    <3>2. HistoryMatchesResults'
      <4>. SUFFICES ASSUME NEW r \in 1 .. row, r \notin lost
                    PROVE  Entries(r) = Expected(r, results'[r])
        BY <2>10, <3>1, YieldAppends DEF HistoryMatchesResults, Entries, Expected
      <4>1. CASE r = row
        BY <2>10, <3>1, <4>1, YieldAppends DEF HistoryInv
      <4>2. CASE r # row
        <5>1. r \in 1 .. row - 1
          BY <4>2, <2>10, YieldAppends
        <5>. QED  BY <5>1, <2>10, YieldAppends DEF HistoryInv, HistoryMatchesResults
      <4>. QED  BY <4>1, <4>2
    <3>3. row \in 1 .. N
      BY <2>10, YieldAppends
    <3>4. (\A h \in history : h.row \in Nat) /\ lost \subseteq Nat
      BY DEF TypeInv, TypeOK, HistoryRows, Rows
    <3>5. row' \notin lost' /\ Entries(row)' = {}
      BY <3>1, <3>3, <3>4, QueueAssumption DEF HistoryInv, Entries
    <3>6. (\A h \in history' : h.row <= row') /\ (\A r \in lost' : r <= row')
      BY <3>1, <3>3, <3>4, QueueAssumption DEF HistoryInv
    <3>. QED  BY <3>1, <3>2, <3>5, <3>6 DEF HistoryInv
  <2>11. CASE Close \/ Crash
    BY <2>11, HistoryFrame DEF Close, Crash, Terminal
  <2>12. CASE RequestAbort \/ UNCHANGED vars
    BY <2>12, HistoryFrame DEF RequestAbort, vars, batch
  <2>13. ASSUME NEW q \in Requests, Accept(q) PROVE HistoryInv'
    BY <2>13, HistoryFrame DEF Accept, batch
  <2>. QED
    BY <2>1, <2>2, <2>3, <2>4, <2>5, <2>6, <2>7, <2>8, <2>9, <2>10, <2>11, <2>12, <2>13
       DEF Next, Program, Stopped
<1>3. HistoryInv => HistoryMatchesResults
  BY DEF HistoryInv
<1>. QED  BY <1>1, <1>2, <1>3, TypeInvariant, PTL DEF Spec

-----------------------------------------------------------------------------
(* What is known of a decided row before the page sees it, and that an     *)
(* answer that honoured an abort is never followed by any other.           *)
ContractInv ==
  /\ pc = "emit" /\ current.cause = "abort" => abort
  /\ pc = "emit" /\ tripped => current.status \in {"skipped", "rejected"}
  /\ pc = "emit" /\ current.status = "skipped" => current.cause = "abort" \/ tripped
  /\ (\E r \in Answered : results[r].cause = "abort") =>
       abort /\ pc \notin Submitting /\ (pc = "emit" => current.cause = "abort")

(* Deciding a row, with the flags as the head of the loop found them.      *)
LEMMA DecideContract ==
  ASSUME ContractInv, NEW s, NEW c, NEW n, Decide(s, c, n), UNCHANGED <<breaker, abort>>,
         c = "abort" => abort,
         tripped => s \in {"skipped", "rejected"},
         s = "skipped" => c = "abort" \/ tripped,
         abort /\ pc \notin Submitting => c = "abort"
  PROVE  ContractInv'
<1>1. pc' = "emit" /\ current' = Result(s, c, n) /\ results' = results
  BY DEF Decide
<1>2. current'.status = s /\ current'.cause = c
  BY <1>1 DEF Result
<1>. QED  BY <1>1, <1>2 DEF ContractInv, Answered, Submitting, breaker

(* A step that decides nothing and delivers nothing.                       *)
LEMMA ContractFrame ==
  ASSUME ContractInv, UNCHANGED <<results, current, breaker>>, abort => abort',
         \/ pc' = pc
         \/ pc \in Submitting /\ pc' \in Submitting
         \/ pc = "row" /\ ~abort /\ pc' \in Submitting
         \/ pc' \in Terminal
  PROVE  ContractInv'
BY DEF ContractInv, Answered, breaker, Submitting, Terminal

(* ContractInv is inductive.                                               *)
LEMMA ContractInvariant == Spec => []ContractInv
<1>1. Init => ContractInv
  BY DEF Init, ContractInv, Answered
<1>2. TypeInv /\ BreakerInv /\ ContractInv /\ [Next]_vars => ContractInv'
  <2>. SUFFICES ASSUME TypeInv, BreakerInv, ContractInv, [Next]_vars PROVE ContractInv'
    OBVIOUS
  <2>1. CASE SkipAborted
    BY <2>1, DecideContract DEF SkipAborted
  <2>2. CASE RejectInvalid
    BY <2>2, DecideContract DEF RejectInvalid
  <2>3. CASE SkipTripped
    BY <2>3, DecideContract DEF SkipTripped
  <2>4. CASE FailUnparsed
    BY <2>4, DecideContract DEF FailUnparsed
  <2>5. CASE FailUnstampable
    BY <2>5, DecideContract DEF FailUnstampable
  <2>6. CASE AbortRow
    BY <2>6, DecideContract DEF AbortRow
  <2>7. CASE Succeed
    <3>1. ~tripped /\ pc \in Submitting
      BY <2>7 DEF Succeed, BreakerInv, Submitting
    <3>. QED  BY <2>7, <3>1, DecideContract DEF Succeed
  <2>8. CASE Fail
    <3>1. ~tripped /\ pc \in Submitting
      BY <2>8 DEF Fail, BreakerInv, Submitting
    <3>. QED  BY <2>8, <3>1, DecideContract DEF Fail
  <2>9. CASE Yield
    <3>1. (\E r \in Answered' : results'[r].cause = "abort") => abort
      <4>1. (\E r \in Answered' : results'[r].cause = "abort")
              => (\E r \in Answered : results[r].cause = "abort") \/ current.cause = "abort"
        <5>1. \A r \in 1 .. row : r = row \/ r \in 1 .. row - 1
          BY <2>9, YieldAppends
        <5>. QED  BY <5>1, <2>9, YieldAppends
      <4>. QED  BY <2>9, <4>1 DEF ContractInv, Yield
    <3>2. pc' \notin Submitting \cup {"emit"} /\ abort' = abort
      BY <2>9 DEF Yield, Submitting
    <3>. QED  BY <3>1, <3>2 DEF ContractInv
  <2>10. CASE StartRow \/ CheckAbort \/ Send \/ Backoff
    BY <2>10, ContractFrame DEF StartRow, Submittable, CheckAbort, Send, Backoff, Submitting
  <2>11. ASSUME NEW a \in Answers, Answer(a) PROVE ContractInv'
    BY <2>11, ContractFrame DEF Answer, Submitting
  <2>12. CASE Close \/ Crash
    BY <2>12, ContractFrame DEF Close, Crash, Terminal
  <2>13. CASE RequestAbort \/ UNCHANGED vars
    BY <2>13, ContractFrame DEF RequestAbort, vars, batch
  <2>14. ASSUME NEW q \in Requests, Accept(q) PROVE ContractInv'
    BY <2>14, ContractFrame DEF Accept, batch
  <2>. QED
    BY <2>1, <2>2, <2>3, <2>4, <2>5, <2>6, <2>7, <2>8, <2>9, <2>10, <2>11, <2>12, <2>13, <2>14
       DEF Next, Program, Stopped
<1>. QED
  BY <1>1, <1>2, TypeInvariant, BreakerInvariant, PTL DEF Spec

(* Every answer is a well-formed result.                                   *)
LEMMA AnswerTyped ==
  ASSUME TypeInv, NEW r \in Answered
  PROVE  results[r].status \in {"success", "error", "rejected", "skipped"}
<1>1. results \in Seq(ResultSet) /\ r \in 1 .. Len(results)
  BY DEF TypeInv, TypeOK, Answered
<1>2. results[r] \in ResultSet
  BY <1>1
<1>. QED  BY <1>2 DEF ResultSet

(* The page sees one verdict per result.                                   *)
LEMMA VerdictsTyped ==
  ASSUME TypeInv
  PROVE  Verdicts \in Seq(Contract!Verdicts) /\ Len(Verdicts) = row - 1
<1>1. results \in Seq(ResultSet) /\ Len(results) = row - 1
  BY DEF TypeInv, TypeOK, Progress
<1>2. \A r \in Answered : Verdict(results[r]) \in Contract!Verdicts
  <2>. SUFFICES ASSUME NEW r \in Answered PROVE Verdict(results[r]) \in Contract!Verdicts
    OBVIOUS
  <2>1. results[r].status \in {"success", "error", "rejected", "skipped"}
    BY AnswerTyped
  <2>. QED  BY <2>1 DEF Verdict, Contract!Verdicts
<1>3. Len(results) \in Nat
  BY <1>1
<1>. QED  BY <1>1, <1>2, <1>3 DEF Verdicts, Answered

(* The generator implements the contract the page relies on.               *)
THEOREM KeepsContract == Spec => ImplementsContract
<1>1. Init => Contract!Init
  <2>. SUFFICES ASSUME Init PROVE Contract!Init
    OBVIOUS
  <2>1. Answered = {} /\ tripped = FALSE
    BY DEF Init, Answered
  <2>2. Verdicts = <<>>
    BY <2>1 DEF Verdicts
  <2>. QED  BY <2>1, <2>2 DEF Contract!Init
<1>2. TypeInv /\ BreakerInv /\ ContractInv /\ [Next]_vars => [Contract!Next]_(Contract!contractVars)
  <2>. SUFFICES ASSUME TypeInv, BreakerInv, ContractInv, [Next]_vars
                PROVE  Contract!Next \/ UNCHANGED Contract!contractVars
    OBVIOUS
  <2>1. CASE UNCHANGED <<results, tripped>>
    BY <2>1 DEF Contract!contractVars, Verdicts, Answered
  <2>2. CASE Yield
    <3>. DEFINE v == Verdict(current)
    <3>1. v \in Contract!Verdicts
      BY <2>2 DEF TypeInv, TypeOK, ResultSet, Verdict, Contract!Verdicts
    <3>2. Len(Verdicts) < N
      BY <2>2, VerdictsTyped, YieldAppends, QueueAssumption
    <3>3. Contract!HasAborted => v = "aborted"
      <4>1. ASSUME NEW r \in 1 .. Len(Verdicts), Verdicts[r] = "aborted"
            PROVE  v = "aborted"
        <5>1. r \in Answered
          BY VerdictsTyped, RowUnanswered
        <5>2. results[r].cause = "abort"
          <6>1. Verdict(results[r]) = "aborted"
            BY <4>1, <5>1 DEF Verdicts
          <6>. QED  BY <5>1, <6>1, AnswerTyped DEF Verdict
        <5>. QED  BY <2>2, <5>1, <5>2 DEF ContractInv, Yield, Verdict
      <4>. QED  BY <4>1 DEF Contract!HasAborted
    <3>4. tripped => v \notin Contract!Submitted
      BY <2>2 DEF ContractInv, Yield, Verdict, Contract!Submitted
    <3>5. v = "skipped" => tripped
      BY <2>2 DEF ContractInv, Yield, Verdict
    <3>6. Verdicts' = Append(Verdicts, v)
      <4>1. Verdicts' = [r \in 1 .. row |-> Verdict(results'[r])]
        BY <2>2, YieldAppends DEF Verdicts, Verdict
      <4>2. Verdicts = [r \in 1 .. row - 1 |-> Verdict(results[r])]
        BY <2>2, YieldAppends DEF Verdicts
      <4>3. \A r \in 1 .. row : Verdict(results'[r]) = IF r = row THEN v ELSE Verdict(results[r])
        <5>1. \A r \in 1 .. row : r = row \/ r \in 1 .. row - 1
          BY <2>2, YieldAppends
        <5>. QED  BY <5>1, <2>2, YieldAppends
      <4>. QED  BY <4>1, <4>2, <4>3, <2>2, VerdictsTyped, YieldAppends
    <3>7. tripped' \in (IF v = "error" THEN {tripped, TRUE} ELSE {tripped})
      <4>1. CASE Counted(current)
        <5>1. v = "error"
          BY <4>1 DEF Counted, Verdict
        <5>2. tripped' = (tripped \/ Opens)
          BY <2>2, <4>1 DEF Yield, UpdateBreaker, BumpBreaker, Counted, Succeeded
        <5>. QED  BY <5>1, <5>2 DEF TypeInv, TypeOK, Opens
      <4>2. CASE ~Counted(current)
        <5>1. tripped' = tripped
          BY <2>2, <4>2 DEF Yield, UpdateBreaker, ResetBreaker, breaker
        <5>. QED  BY <5>1
      <4>. QED  BY <4>1, <4>2
    <3>8. Contract!AnswerRow(v)
      BY <3>2, <3>3, <3>4, <3>5, <3>6, <3>7 DEF Contract!AnswerRow
    <3>. QED  BY <3>1, <3>8 DEF Contract!Next
  <2>3. Yield \/ UNCHANGED <<results, tripped>>
    BY DEF Next, Program, Stopped, vars, batch, breaker, SkipAborted, RejectInvalid, SkipTripped,
           FailUnparsed, FailUnstampable, StartRow, AbortRow, CheckAbort, Send, Answer, Succeed,
           Backoff, Fail, Accept, RequestAbort, Close, Crash, Decide
  <2>. QED  BY <2>1, <2>2, <2>3
<1>. QED
  BY <1>1, <1>2, TypeInvariant, BreakerInvariant, ContractInvariant, PTL
     DEF Spec, ImplementsContract, Contract!Spec
=============================================================================
