------------------------------ MODULE QueueSubmit ------------------------------
(***************************************************************************)
(* submit_queue of app/services/bulk_ingestion.py: a queue of N manifests  *)
(* is sent, one row after the other, to the workflow service.  Each row    *)
(* has its own retry loop (_submit_with_retry), every row is answered with *)
(* exactly one result, a circuit breaker opens after Threshold consecutive *)
(* failures, an operator may raise the abort flag at any moment, and every *)
(* outcome but an abort is written to the local run history.               *)
(*                                                                         *)
(* submit_queue is a generator driven by a page: the page may be abandoned *)
(* (the generator is then closed where it waits) and the process may die.  *)
(* The workflow service is external: it may accept a manifest whose answer *)
(* never reaches the client, even after the client has stopped waiting.    *)
(***************************************************************************)
EXTENDS Integers, Sequences, FiniteSets

CONSTANTS
  N,             \* number of queued manifests
  MaxAttempts,   \* RetryPolicy.max_attempts
  Threshold,     \* circuit_breaker_threshold
  StoreOutcomes  \* {TRUE}, or {TRUE, FALSE} when a history write may fail

ASSUME QueueAssumption ==
  /\ N \in Nat
  /\ MaxAttempts \in Nat \ {0}
  /\ Threshold \in Nat \ {0}
  /\ StoreOutcomes \in SUBSET BOOLEAN
  /\ StoreOutcomes # {}

Rows == 1 .. N
Requests == Rows \X (1 .. MaxAttempts)

VARIABLES
  kind,      \* validation verdict of each row
  pc,        \* where the generator stands
  row,       \* row being worked on
  attempts,  \* HTTP attempts made for that row
  answer,    \* kind of the HTTP answer being handled ("ok" when none is)
  current,   \* result decided for the row, not yet handed over
  results,   \* results handed to the consumer, one per row
  failures,  \* CircuitBreakerState.consecutive_failures
  tripped,   \* CircuitBreakerState.is_tripped
  failing,   \* failing_labels, as the set of their rows
  trip,      \* the breaker_tripped event given to the page, if any
  abort,     \* what abort_check() returns
  inflight,  \* requests the service may still accept
  accepted,  \* requests the service turned into workflow runs
  confirmed, \* requests the client holds a 2xx answer for, with that answer
  history,   \* rows of workflow_runs
  lost,      \* rows one of whose history writes failed
  late       \* requests sent while the abort flag was up

batch   == <<pc, row, attempts, answer, current, results>>
breaker == <<failures, tripped, failing, trip>>
service == <<inflight, accepted, confirmed, late>>
store   == <<history, lost>>
vars    == <<kind, batch, breaker, abort, service, store>>

(***************************************************************************)
(* A row is well formed, fails validate_manifest_json (and is rejected if  *)
(* skip_invalid is on, tried as "unparsed" if it is off), or passes it but  *)
(* cannot be stamped (deepcopy of a manifest nested too deeply).           *)
(***************************************************************************)
RowKinds == {"valid", "invalid", "unparsed", "unstampable"}

RetryNoRunId == {"transport", "throttled", "serverError", "noRunId"}  \* slip: a 2xx without a run id retried
Retryable == {"transport", "throttled", "serverError"}
Answers   == Retryable \cup {"ok", "noRunId", "clientError"}
Terminal  == {"end", "closed", "crashed"}
Steps     == {"row", "retry", "send", "posted", "answered", "emit"}

Causes == {"none", "abort", "breaker", "invalid", "stamp", "submit"}
Result(status, cause, n) == [status |-> status, cause |-> cause, attempts |-> n]
ResultSet == [status: {"success", "error", "rejected", "skipped"},
              cause: Causes, attempts: 0 .. MaxAttempts]
NoResult  == Result("skipped", "none", 0)

(* A history row: run 0 is the synthetic "bulk-load:..." id, run k the     *)
(* workflow run that attempt k of the row started.                         *)
HistoryRow(r, k, status) == [row |-> r, run |-> k, status |-> status]
HistoryRows == [row: Rows, run: 0 .. MaxAttempts, status: {"submitted", "failed"}]

NoTrip == [row |-> 0, remaining |-> 0, labels |-> {}]

Init ==
  /\ kind \in [Rows -> RowKinds]
  /\ \A r, s \in Rows : <<kind[r], kind[s]>> # <<"invalid", "unparsed">>
  /\ pc = IF N = 0 THEN "end" ELSE "row"
  /\ row = 1 /\ attempts = 0 /\ answer = "ok"
  /\ current = NoResult /\ results = <<>>
  /\ failures = 0 /\ tripped = FALSE /\ failing = {} /\ trip = NoTrip
  /\ abort = FALSE
  /\ inflight = {} /\ accepted = {} /\ confirmed = {} /\ late = {}
  /\ history = {} /\ lost = {}

-----------------------------------------------------------------------------
(* Run history: both writes of a failure may be swallowed independently,   *)
(* and a finish without its submit updates nothing.                        *)

RecordSuccess ==
  \E stored \in StoreOutcomes :
    /\ history' = history \cup
         (IF stored THEN {HistoryRow(row, attempts, "submitted")} ELSE {})
    /\ lost' = IF stored THEN lost ELSE lost \cup {row}

(* slip: the finish is written before the submit, and updates nothing      *)
FinishFirst ==
  \E submit, finish \in StoreOutcomes :
    /\ history' = history \cup (IF submit THEN {HistoryRow(row, 0, "submitted")} ELSE {})
    /\ lost' = IF submit /\ finish THEN lost ELSE lost \cup {row}

RecordFailure ==
  \E submit, finish \in StoreOutcomes :
    /\ history' = history \cup
         (IF ~submit THEN {}
          ELSE {HistoryRow(row, 0, IF finish THEN "failed" ELSE "submitted")})
    /\ lost' = IF submit /\ finish THEN lost ELSE lost \cup {row}

(* The result of the current row is known; what remains is the progress    *)
(* callback, the breaker and the yield.  The answer itself is dropped.     *)
Decide(status, cause, n) ==
  /\ current' = Result(status, cause, n)
  /\ pc' = "emit"
  /\ answer' = "ok"
  /\ UNCHANGED <<row, attempts, results>>

-----------------------------------------------------------------------------
(* The head of the loop over the rows.                                     *)

SkipAborted ==
  /\ pc = "row" /\ abort
  /\ Decide("skipped", "abort", 0)
  /\ UNCHANGED <<kind, breaker, abort, service, store>>

Rejected == kind[row] = "invalid"

RejectInvalid ==
  /\ pc = "row" /\ ~abort /\ Rejected
  /\ RecordFailure
  /\ Decide("rejected", "invalid", 0)
  /\ UNCHANGED <<kind, breaker, abort, service>>

SkipTripped ==
  /\ pc = "row" /\ ~abort /\ ~Rejected /\ tripped
  /\ RecordFailure
  /\ Decide("skipped", "breaker", 0)
  /\ UNCHANGED <<kind, breaker, abort, service>>

(* skip_invalid is off: the row fails without an HTTP call.                *)
FailUnparsed ==
  /\ pc = "row" /\ ~abort /\ ~tripped /\ kind[row] = "unparsed"
  /\ RecordFailure
  /\ Decide("error", "invalid", 0)
  /\ UNCHANGED <<kind, breaker, abort, service>>

FailUnstampable ==
  /\ pc = "row" /\ ~abort /\ ~tripped /\ kind[row] = "unstampable"
  /\ RecordFailure
  /\ Decide("error", "stamp", 0)
  /\ UNCHANGED <<kind, breaker, abort, service>>

SubmitAnyway == ~abort /\ kind[row] = "valid"   \* slip: the breaker is not consulted
Submittable  == ~abort /\ ~tripped /\ kind[row] = "valid"

StartRow ==
  /\ pc = "row" /\ Submittable
  /\ pc' = "retry" /\ attempts' = 0
  /\ UNCHANGED <<kind, row, answer, current, results, breaker, abort, service, store>>

-----------------------------------------------------------------------------
(* _submit_with_retry                                                      *)

AbortRow ==
  /\ pc = "retry" /\ abort
  /\ Decide("skipped", "abort", attempts)
  /\ UNCHANGED <<kind, breaker, abort, service, store>>

CheckAbort ==
  /\ pc = "retry" /\ ~abort
  /\ pc' = "send"
  /\ UNCHANGED <<kind, row, attempts, answer, current, results, breaker, abort, service, store>>

(* submit_manifest posts; the abort flag is not looked at again.           *)
Send ==
  /\ pc = "send"
  /\ pc' = "posted" /\ attempts' = attempts + 1
  /\ inflight' = inflight \cup {<<row, attempts + 1>>}
  /\ late' = IF abort THEN late \cup {<<row, attempts + 1>>} ELSE late
  /\ UNCHANGED <<kind, row, answer, current, results, breaker, abort, accepted, confirmed, store>>

(* The workflow service turns a request into a run, whoever still waits.   *)
Accept(q) ==
  /\ q \in inflight
  /\ inflight' = inflight \ {q} /\ accepted' = accepted \cup {q}
  /\ UNCHANGED <<kind, batch, breaker, abort, confirmed, late, store>>

(* What submit_manifest reports: a 2xx is only given for an accepted       *)
(* request, a 4xx only for a refused one, and a 5xx or a timeout says      *)
(* nothing about what the service did.                                     *)
Answer(a) ==
  LET q == <<row, attempts>> IN
  /\ pc = "posted"
  /\ a \in {"ok", "noRunId"} => q \in accepted
  /\ a \in {"clientError", "throttled"} => q \in inflight
  /\ inflight' = IF a \in {"clientError", "throttled"} THEN inflight \ {q} ELSE inflight
  /\ confirmed' = IF a \in {"ok", "noRunId"} THEN confirmed \cup {<<q, a>>} ELSE confirmed
  /\ pc' = "answered" /\ answer' = a
  /\ UNCHANGED <<kind, row, attempts, current, results, breaker, abort, accepted, late, store>>

Succeed ==
  /\ pc = "answered" /\ answer = "ok"
  /\ RecordSuccess
  /\ Decide("success", "submit", attempts)
  /\ UNCHANGED <<kind, breaker, abort, service>>

MayRetry == answer \in Retryable /\ attempts < MaxAttempts

(* slip: no poll of the abort flag between the sleep and the next attempt  *)
BackoffBlind ==
  /\ pc = "answered" /\ MayRetry
  /\ pc' = "send" /\ answer' = "ok"
  /\ UNCHANGED <<kind, row, attempts, current, results, breaker, abort, service, store>>

(* slip: every sleep starts the count of attempts afresh                   *)
BackoffForever ==
  /\ pc = "answered" /\ MayRetry
  /\ pc' = "retry" /\ attempts' = 0 /\ answer' = "ok"
  /\ UNCHANGED <<kind, row, current, results, breaker, abort, service, store>>

(* The backoff sleep, which ends early when the abort flag goes up.        *)
Backoff ==
  /\ pc = "answered" /\ MayRetry
  /\ pc' = "retry" /\ answer' = "ok"
  /\ UNCHANGED <<kind, row, attempts, current, results, breaker, abort, service, store>>

Fail ==
  /\ pc = "answered" /\ answer # "ok" /\ ~MayRetry
  /\ RecordFailure
  /\ Decide("error", "submit", attempts)
  /\ UNCHANGED <<kind, breaker, abort, service>>

-----------------------------------------------------------------------------
(* _bump_breaker: count a failure and open the breaker at the threshold.   *)
(* Only failures of the submit itself, and unparsed rows, are counted.     *)

Counted(res)   == res.status = "error" /\ res.cause \in {"submit", "invalid"}
Succeeded(res) == res.status = "success"

Opens == failures + 1 >= Threshold /\ ~tripped

BumpBreaker ==
  /\ failures' = failures + 1
  /\ tripped' = (tripped \/ Opens)
  /\ failing' = failing \cup {row}
  /\ trip' = IF Opens THEN [row |-> row, remaining |-> N - row, labels |-> failing \cup {row}]
                      ELSE trip

(* slip: a success leaves the list of failing labels                       *)
ResetCounterOnly ==
  /\ failures' = 0
  /\ UNCHANGED <<tripped, failing, trip>>

ResetBreaker ==
  /\ failures' = 0 /\ failing' = {}
  /\ UNCHANGED <<tripped, trip>>

UpdateBreaker ==
  \/ Counted(current) /\ BumpBreaker
  \/ Succeeded(current) /\ ResetBreaker
  \/ ~Counted(current) /\ ~Succeeded(current) /\ UNCHANGED breaker

(* The result reaches the consumer and the loop moves to the next row.     *)
Yield ==
  /\ pc = "emit"
  /\ UpdateBreaker
  /\ results' = Append(results, current)
  /\ row' = row + 1
  /\ pc' = IF row = N THEN "end" ELSE "row"
  /\ current' = NoResult /\ attempts' = 0
  /\ UNCHANGED <<kind, answer, abort, service, store>>

-----------------------------------------------------------------------------
(* The environment.                                                        *)

Running == pc \in Steps

RequestAbort ==
  /\ Running /\ ~abort
  /\ abort' = TRUE
  /\ UNCHANGED <<kind, batch, breaker, service, store>>

PollsBeforeWrite == {"row", "retry", "answered", "emit"}  \* slip: the callback comes before the history write
Polls == {"row", "retry", "emit"}

(* The consumer is gone: the generator dies in a callback or at a poll of  *)
(* the abort flag, never inside submit_manifest or a history write.        *)
Close ==
  /\ pc \in Polls
  /\ pc' = "closed"
  /\ UNCHANGED <<kind, row, attempts, answer, current, results, breaker, abort, service, store>>

Crash ==
  /\ Running
  /\ pc' = "crashed"
  /\ UNCHANGED <<kind, row, attempts, answer, current, results, breaker, abort, service, store>>

Stopped == ~Running /\ UNCHANGED vars

Program ==
  \/ SkipAborted \/ RejectInvalid \/ SkipTripped \/ FailUnparsed
  \/ FailUnstampable \/ StartRow \/ AbortRow \/ CheckAbort \/ Send
  \/ \E a \in Answers : Answer(a)
  \/ Succeed \/ Backoff \/ Fail \/ Yield

Next ==
  \/ Program
  \/ \E q \in Requests : Accept(q)
  \/ RequestAbort \/ Close \/ Crash \/ Stopped

(* The generator runs to its next step, and an HTTP call ends by an answer *)
(* or by its timeout; the operator and the service owe nothing.            *)
Spec == Init /\ [][Next]_vars /\ WF_vars(Program)

-----------------------------------------------------------------------------
(* Every variable holds a value of its type.                               *)
TypeOK ==
  /\ kind \in [Rows -> RowKinds]
  /\ pc \in Steps \cup Terminal
  /\ row \in 1 .. N + 1
  /\ attempts \in 0 .. MaxAttempts
  /\ answer \in Answers
  /\ current \in ResultSet
  /\ results \in Seq(ResultSet)
  /\ failures \in Nat /\ tripped \in BOOLEAN /\ failing \in SUBSET Rows
  /\ trip \in [row: 0 .. N, remaining: 0 .. N, labels: SUBSET Rows]
  /\ abort \in BOOLEAN
  /\ inflight \in SUBSET Requests /\ accepted \in SUBSET Requests
  /\ late \in SUBSET Requests
  /\ confirmed \in SUBSET (Requests \X {"ok", "noRunId"})
  /\ history \in SUBSET HistoryRows /\ lost \in SUBSET Rows

Answered == 1 .. Len(results)

(* What the run history must hold for a row with this result: the run of a *)
(* success, nothing for an abort, one failed row for anything else.        *)
Expected(r, res) ==
  CASE Succeeded(res)      -> {HistoryRow(r, res.attempts, "submitted")}
    [] res.cause = "abort" -> {}
    [] OTHER               -> {HistoryRow(r, 0, "failed")}

Entries(r) == {h \in history : h.row = r}

(* Unless a write was swallowed, the run history tells of every answered   *)
(* row exactly what its result tells the page: aborted rows write nothing, *)
(* successful, rejected, breaker-skipped and failed rows write one row.    *)
HistoryMatchesResults ==
  \A r \in Answered : r \notin lost => Entries(r) = Expected(r, results[r])

TrailingFailures ==
  {i \in Answered : /\ Counted(results[i])
                    /\ \A j \in i .. Len(results) : ~Succeeded(results[j])}

(* The breaker's counter and its list of failing labels agree, and both    *)
(* are the counted failures since the last success: rejected, skipped,     *)
(* unstampable and aborted rows in between neither count nor reset.        *)
BreakerCountsTrailingFailures ==
  failing = TrailingFailures /\ failures = Cardinality(failing)

(* The breaker is open exactly when Threshold failures in a row have been  *)
(* counted, and the event the page shows names those rows and no other.    *)
BreakerOpensOnTime ==
  /\ tripped <=> failures >= Threshold
  /\ tripped => /\ trip.labels = failing /\ Cardinality(trip.labels) = Threshold
                /\ trip.row \in failing /\ trip.remaining = N - trip.row

(* The breaker's counter, its list of failing labels, its opening and the  *)
(* event the page shows tell exactly of the failures since the last        *)
(* success, whatever rows lie between them.                                *)
BreakerIsExact == BreakerCountsTrailingFailures /\ BreakerOpensOnTime

(* Once the breaker is open no later row reaches the workflow service, not *)
(* even through a request that was still under way.                        *)
OpenBreakerStopsTraffic ==
  tripped => \A q \in inflight \cup accepted : q[1] <= trip.row

(* A run whose id the client received is in the run history, whether the   *)
(* page is abandoned or the batch aborted right after: only a crash        *)
(* between the answer and the write, or a failed write, loses one.         *)
AnsweredRunsRecorded ==
  {c \in confirmed : /\ c[2] = "ok" /\ c[1][1] \notin lost
                     /\ HistoryRow(c[1][1], c[1][2], "submitted") \notin history}
    \subseteq (IF pc \in {"answered", "crashed"} THEN {<<<<row, attempts>>, "ok">>} ELSE {})

AttemptsOf(r) == IF r \in Answered THEN results[r].attempts ELSE attempts

(* A manifest the service has confirmed (with or without a run id) is      *)
(* never sent again: only unconfirmed attempts are retried.                *)
ConfirmedAttemptIsLast ==
  \A c \in confirmed : AttemptsOf(c[1][1]) = c[1][2]

(* However the abort flag races with the sends, at most the one request    *)
(* whose poll had already passed leaves after the flag went up.            *)
AbortStopsTraffic == Cardinality(late) <= 1

(* Every batch is answered row by row to its end, unless its consumer or   *)
(* its process goes away.                                                  *)
EveryRowAnswered == <>(pc \in {"closed", "crashed"} \/ Len(results) = N)

(* How the page sees a result: an aborted row is a skipped one.            *)
Verdict(res) == IF res.cause = "abort" THEN "aborted" ELSE res.status
Verdicts     == [r \in Answered |-> Verdict(results[r])]

Contract == INSTANCE QueueContract WITH outcome <- Verdicts, open <- tripped

(* The generator, with its retries, its history writes and its unreliable  *)
(* service, implements the contract the page relies on.                    *)
ImplementsContract == Contract!Spec
=============================================================================
