# Verification of the ADME Ingestion Tool

TLA+ specifications of the ADME Ingestion Tool, a Streamlit application that
loads OSDU manifests, records and files into an Azure Data Manager for Energy
instance. The modules are read from the code under `src/app`; `PROJECT.json`
maps every definition to the lines it models, every property to a run and to a
slip of the code that the run catches, and every hazard of the code to the
properties that watch it.

Run a model with `tlc -config <run>.cfg MC<Module>.tla`, the proofs with
`tlapm <Name>Proofs.tla`; a `Proofs` module covers one model or two that belong
together, as section 5 says.

## 1. Inventory

### Parts of the system

| Component | State it keeps | Operations | Talks to |
|---|---|---|---|
| Bulk ingestion queue (`services/bulk_ingestion.py`) | the position in the queue, the attempts of the row, the circuit breaker | `submit_queue`, `_submit_with_retry`, `_bump_breaker` | called row by row by the page (generator); workflow service over HTTP; run history |
| Bulk Load page, queue tab (`pages/9_Bulk_Load.py`) | the queue items, preview gate, in-flight and abort flags, results, breaker report in the Streamlit session | upload, preview, submit, abort, resume, reset | drives `submit_queue` |
| Concurrent throttled runner (`services/concurrency.py`) | futures in flight, adaptive limit, streak of clean results | `run_concurrent_throttled` | a thread pool; called by the interval loader and the dataset loaders |
| Background jobs (`services/background_jobs.py`) | registry of jobs, per job: status, results, abort flag, each under a lock | `start_job`, `record`, `request_abort`, `finish`, `snapshot`, `clear_job` | a daemon thread per job; polled by the page |
| Interval loader (`services/interval_loader.py`, `load_progress.py`, `work_product_loader.py`) | the tier under way, a progress file and its copy in memory | `run_interval`, `_run_wp_tier`, `ResumableProgress.save` | background job (consumer), throttled runner, workflow and file services |
| Bulk loader (`services/bulk_loader.py`) and its two tabs of the Bulk Load page | the preview gate, results and run states in the session; the buffer and the batch being filled, the id map | preview, submit a tier, check its runs; `submit_manifest_paths`, `submit_records_from_paths`, prefix rewriting | storage and workflow services, run history, the dataset's folder |
| Run history (`services/run_history.py`, the History page) | the `workflow_runs` and `file_uploads` tables | submit, finish, record upload, list, delete, purge, clear | SQLite; every page and loader |
| Settings store and connection state (`services/settings_store.py`, `connection_state.py`, `storage_bridge.py`, `pages/1_Instance_Configuration.py`) | the row of the settings database, secret and token in the credential store, the profile store, each tab's session | save, hydrate, load profile, sign in and out, test | SQLite and the credential store, which fail independently |
| Authentication (`services/auth.py`, `token_utils.py`) | the user token and the sign-in flow in the session | start a flow, exchange its code, paste a token; `RefreshingTokenProvider` | MSAL, Azure CLI |
| Manifest page, workflow polling, verification (`pages/5_Manifest.py`, `services/ingestion.py`, `verification.py`, `manifest_builder.py`) | text, run id, kinds, status, polling and verification in the session | generate, validate, submit, poll, verify, clear | workflow, legal and search services, run history |
| File page and upload (`pages/6_File.py`, `services/files.py`) | the last result, the last error and the recent uploads in the session | allocate a URL, PUT, register | file service, blob storage, run history, the Manifest Builder's picker |
| Search (`pages/7_Search.py`, `services/search.py`) | selected kinds, applied query, one page of results, the record inspected, the export | search, turn the page, build a query, inspect, export by cursor | search and storage services |
| Legal tags, entitlements, health | last response in the session | one HTTP call each | ADME services |
| Volve and TNO ingestion (`services/volve_ingestion.py`, `tno_ingestion.py`, `scripts/`) | flags of the tracks done | run the tracks one after the other | the loaders above |
| Manifest generator, record generators | none | pure functions | |
| Persistence (`storage/`) | schema, sessions | migrations, repositories | SQLite |

### What is hard

- **Interleaving.** Loads run on daemon threads and on a pool's workers while
  the page polls and writes flags; two jobs may share one progress file.
- **Streamlit scripts.** A page is one script that an interaction stops where
  it next touches the session and starts again from the top: whatever it held
  in local variables is gone, and a result stored in several writes may be
  stored in part.
- **Generators.** `submit_queue`, `run_concurrent_throttled` and
  `run_interval` only advance while somebody asks for the next item. A consumer
  that breaks or disappears ends them at the `yield` where they are suspended,
  and what follows it is not run.
- **Unreliable answers.** A timed out or 5xx submit may have been accepted.
- **Partial failure.** History writes are swallowed when they fail; keyring
  and database are written one after the other.
- **Interruption.** A process that dies in the middle of a tier resumes from a
  file; the operator aborts at any moment.
- **Limits.** Attempts per row, consecutive failures of the breaker, width of
  the pool, batch size, number of marks between two saves.

### What makes each part correct

- Queue: each row answered once and in order; a submitted row that the service
  confirmed is never submitted again; the breaker counts exactly consecutive
  failures and, once open, stops traffic; abort lets at most the request under
  way leave; the history tells what the page was told.
- Runner: every started item is delivered; the number in flight stays under the
  limit; overload is answered before anything new is started; it ends.
- Background jobs: a running load stays registered, where panel and abort look
  for it; the reported verdict is right and final; abort takes effect within one
  item; every load ends.
- Interval loader: the progress file only claims what the service took; a saved
  manifest is never sent again; what an interruption can repeat is bounded.
- Bulk loader: a run the loader was told of is in the history; references
  between the records of one load lead to records of that load; every record is
  answered once and a success is stored; no call exceeds the service's limit.
- Manifest page: an outcome in the history is true and final, verification is
  about the run shown, polling ends.
- Connection: what a tab shows is what is stored and active; a token comes back
  whole or not at all; a health verdict is about the connection it is shown for.
- File page: what is listed as uploaded has a record, what has a record has its
  bytes, and bytes without a record are announced.
- Search: rows, total and page numbers belong to one answer, a finished export
  has every record found, the first load ends with an answer or its failure.

## 2. Plan

The order of the work, and how the modules hang together.

1. `QueueSubmit`, which implements `QueueContract`; `QueuePage`, which stands on
   the contract.
2. `WorkPool`, which `ThrottledRunner` implements and `IntervalLoad` uses.
3. `BackgroundJobs`, the registry and the threads of the loads.
4. `RunHistory`, the table of runs as operators; `ManifestRun` and `TierLoad`
   extend it.
5. `RecordLoad`, the storage tier of a load; `Connection`, `FileUpload`,
   `SearchPage`, one module per page with the services behind it.

All of these are written, and the safety properties of the passing runs are
proved. What a next pass would take up: the legal tag page as a module of its
own, the checkpoint of the Volve and TNO tracks, and the types of `SearchPage`.

## 3. Modules

### QueueSubmit, QueueContract

`QueueSubmit` is `submit_queue` at the grain of its observable steps. `pc` says
where the generator stands: `row` is the head of the loop, `retry`, `send`,
`posted`, `answered` are the inside of `_submit_with_retry`, `emit` is the
stretch from `_emit` to the `yield`. Each early exit of the loop is an action
(`SkipAborted`, `RejectInvalid`, `SkipTripped`, `FailUnparsed`,
`FailUnstampable`), in the order the code tests them. `RecordSuccess` and
`RecordFailure` are the history writes, each of which may be swallowed.
`Accept` is the service taking a request, whenever it likes while the request
is in flight; `Answer` is what `submit_manifest` classifies. `Close` is a
consumer that drops the generator (only at a poll or a callback, where
Streamlit can interrupt the script); `Crash` is the process dying.
`QueueContract` is what the page relies on: rows answered in order, once, and
the meaning of the breaker and of the abort.

### QueuePage

The queue tab as interactions and script runs. `PressSubmit` is the button's
callback, `SubmitQueue` the script run that follows it, `EndBatch` the end of
`_handle_submit_queue`. Any other interaction stops a batch under way, with
what it had collected. The batch itself is abstracted to the number of rows it
answers, which `QueueContract` says is all of them.

### WorkPool, ThrottledRunner

`ThrottledRunner` follows the loop of `run_concurrent_throttled`: `fill` and
`submit` are `_fill`, `wait`/`take`/`yielded` a wave, `adapt`/`cooldown` the
adaptive limit, `poll` the test of the abort flag, `exit` the leaving of the
`with` block. Workers (`Finish`) end at any moment with a clean, failed or
overloaded result, or raise. The results of a wave are taken in any order,
because `wait` returns a set. `log` is a history variable: results and limit
changes in order. `WorkPool` is the promise the rest of the program uses.

### IntervalLoad

One press of the button is a job: `Kick` reads the progress file, the thread
loads the storage tiers, opens the work-product tier (`OpenTier` filters by
what is marked), runs it through the pool, marks every success and saves when
due. `Emit`/`Check` are the yield of an event and the page's `work` loop, which
looks at the abort flag after each event and closes the generator by breaking.
`Truncate`, `Write`, `Replace` are the three file operations of
`ResumableProgress.save`. A file is absent, holds names, or does not parse; a
writer keeps writing into the file it opened, even after a rename (POSIX
semantics). `Accept` is the service taking the manifest. `Crash` kills all
threads; files and the service keep their state.

### BackgroundJobs

Every critical section of `LoadJob` and of the registry is one action.
`Record` and `Check` are the loop of the page's `work` closure, `Judge` reads
the abort flag, `FinishJob` writes the status, in separate critical sections as in
the code. The page makes a new id at every press of Load, so a job goes by its
number, the registry is a set of jobs, and `start_job`'s return of a job already
running under the same id is never reached. `StartJob` is the registration,
`Hold` the write of the id to the session after it, which a click may prevent.
A panel shows a snapshot (`Render`); its buttons keep the job they were drawn
with (`drawn`), and act on that one when pressed later, whatever the session
holds by then (`PressAbort`, `Cleared`, `PressClear`).

### RunHistory, ManifestRun

`RunHistory` gives each SQL statement of `run_history.py` as what it makes of
the table: a submit never writes over an outcome, a finish writes over anything
but makes no row. `ManifestRun` is the Manifest page over that table. `pc` is
where the script stands; every write to the session after a successful submit
is a step of its own (`Save`, in the order of the code, then `PopSource` and
`RecordSubmit`), because a click may stop the script between any two. A clear is
written the same way (`StartClear`, `ClearHistoryAndState`): both go through
`Write`, which gives the order of the keys once. A stopped clear leaves a
part of the old run behind, such as a polling flag without a run id; `Polled` is
what the status block takes for a run to poll. `Told` is the status in the answer
to the submit, which may be terminal already. A script run polls once (`Poll`, `Expire`); `Close`, `RecordFinished`, `GiveUp` store
what it learnt. `Verify` searches for the kinds the session holds. The clock
(`Tick`) counts the age of the run shown up to `Timeout`. The operator clicks,
edits, leaves, opens new sessions and purges the history at any point.

### Connection

The Instance Configuration page over the four places that keep a connection:
the settings row, the credential store, the profile store and each tab's
session. `Hydrate` and `LoadProfile` open the page; `Commit`, `StoreSecret`,
`Activate`, `Show`, `PersistProfile` are `save_connection`; `Wipe` and `Write`
move a token in and out of the credential store one chunk at a time; `Callback`,
`Paste`, `StartFlow`, `SignOut`, `Test`, `Probe`, `RecordRun` are the rest of
the page. Any write may fail; `Crash` empties every session and leaves the
stores as they are. Only whose piece a chunk is counts: a payload parses if the
last chunk, and no other, closes it.

### TierLoad, RecordLoad

`TierLoad` is the Registered Datasets tab with `submit_manifest_paths`: the
preview gate (`PreviewTier`, `Seeing`, `GateOpen`), the id map that is built
from one reading of the folder while the loop reads each file again (`IdMap`,
`Links`), the loop itself (`Send`, `SendUnanswered`, `Unsent`, `Store`,
`Check`) and the look at what became of the runs (`CheckIngestionStatus`).
`ChangeFile` is the folder changing between two readings; `made` records what
each run of the service was given. `RecordLoad` is the Downloaded Dataset tab's
storage part, a job that drives `submit_records_from_paths`: `Read` fills the
buffer, `Flush` and `Drain` cut batches from it, `PutRecords` is the call,
`Yield` hands over one result per record, `CheckAbort` looks at the abort flag.
`BackgroundJobs` and `RecordLoad` give their specification names of its own
(`JobsSpec`, `RecordsSpec`, ...), so that a module of proofs can extend them
beside the other half of the load they belong to.

### FileUpload

The File page. `GetUploadUrl`, `PutBytes`/`PutFails`, `PostFileMetadata` are the
three calls; a failed one may still have had its effect. `AppendSummary`,
`RecordFileUpload`, `KeepResult` are what the page keeps of a success, `Fail`
what it keeps of a failure. An upload, its URL and its record go by one number,
since every attempt asks for a URL of its own.

### SearchPage

The Search page and its client. `Query` is what `build_multi_kind_query` and the
request body make of the selection; `Hits` gives the records each query finds.
`ListKinds`, `Aggregate`, `SearchAnswered`/`SearchFails` and the four writes
`StoreResults` .. `ClearError` are a search; `Toolbar`, `Unselect`, `Resolve` the
buttons that start one; `Turn` the pager with its two ceilings; `StartExport`,
`PageArrives`, `KeepPage`, `FinishExport` the cursor loop. `turns` remembers
which pager buttons the last drawing enabled, since a button acts on the press
it was drawn for. An export keeps the hits that parse (`Parsed`), by position.
`settled` and `informed` are history variables of the properties.

## 4. Runs

| Run | Question | Bounds and why they are enough |
|---|---|---|
| `queue` | breaker, history, page and service agree; contract and liveness | 3 rows, 2 attempts, threshold 2, failing writes: a failure with a retry, an opening and a row behind it, or a success between two failures |
| `queue_click` | does Submit submit (violated) | queues below, at and above the cap |
| `runner` | limit, recovery, overload, delivery, refinement of `WorkPool`, termination | 4 items, limit 1..3: halving to the floor, two recoveries, waves of up to 3 |
| `interval_resume` | what a resumed run relies on | 2 jobs, 3 manifests, a save every 2 marks, one crash: a periodic save, a mark after it, a final save and a second run |
| `interval_end` | every job ends; pool used as promised | 2 jobs at a time, 2 manifests, two submits in flight each |
| `jobs_api` | running loads stay registered, verdicts, every job ends | 2 panels, 2 loads, 2 items: a Clear drawn under the first load and pressed at any moment of the second, in either panel; the theorems cover more of each |
| `manifest` | outcomes true and final, verification of the run shown, polling ends | 2 runs, 4 interactions, a timeout of 2 ticks: a submit over a run still polled, a purge and a stop between two writes of a submit or of a clear |
| `connection` | shown is saved, tokens whole, verdicts current | 2 tabs, 3 connections, 2 tokens of 2 and of 3 chunks, 5 interactions: a shorter token over a longer one, a save in one tab and a crash while a token is written |
| `tier` | history, links, statuses, completeness of a load | 2 tiers, 2 manifests of which one refers to the other, 2 runs, 3 interactions, 2 changes of a file: a preview, a load and a second load or a look at its runs, and a file that is broken after the preview and repaired between the two readings; the proofs cover longer histories |
| `records` | each record answered once and truly | manifests of 3, 0 and 2 records, batches of 1, 2 and 3 with a service limit of 2, 2 loads: batches that cross files, a rest, a clamp |
| `upload` | listings true, orphans named | 3 uploads, 7 interactions |
| `search` | one answer shown, exports whole, first load accounted for | 2 kinds, 1 text, pages of 2 under a ceiling of 4 with 5 hits of which one is malformed, 4 interactions: a page turn to the ceiling, a query changed between two turns, an export behind a failed search |

`IntervalLoad` is checked under symmetry of jobs and manifests in
`interval_resume`, `Connection` under symmetry of tabs and `SearchPage` under
symmetry of kinds, all for invariants and action properties only: symmetry is
unsound for liveness. Models that come to an end have an explicit stuttering step
there (`Stopped`, `Quiet`, `Idle`, `Waiting`, `Over`), so deadlock is checked in
every run. A service that never runs out of URLs or runs is bounded by
`MaxRuns`/`MaxUploads`: at the bound its calls only fail.

Every detailed module but `QueuePage` states its types (`TypeOK`, `JobsTypeOK`,
`RecordsTypeOK`). All are proved but that of `SearchPage`, so the
runs do not list them, which leaves their time to the other properties; each of
them, `SearchPage`'s included, holds in the configurations above when added to
their invariants.

**Fairness.** Weak fairness of the program's own thread and of the workers:
Python threads are scheduled, and every HTTP call carries a timeout, so a worker
ends. A page's script runs on to its end unless it is stopped (`ManifestRun`,
which also assumes that the clock goes on; `Connection`). Nothing is assumed of
the operator, the service or crashes; that the consumer keeps asking for the next
item is assumed where the consumer is the program's own loop.

## 5. Proofs

`QueueSubmitProofs`, for every queue length, attempt limit and threshold
(assumption `QueueAssumption`):

- `TypeCorrect`: `TypeOK`, from the inductive `TypeInv`, which adds how the
  position in the queue, the program counter and the attempts hang together
  (`Progress`); without it `results` could outgrow the queue.
- `BreakerCorrect`: `BreakerIsExact` and `OpenBreakerStopsTraffic` (which no run
  lists), from `BreakerInv`, which adds that an open breaker
  finds the generator outside the submit and with a result that does not count,
  and that no request belongs to a later row. `TrailingStep` is the lemma that
  handing over a result changes the trailing failures as the code changes its
  counter.

The rest of what the queue run checks, but liveness:

- `AbortIsHonoured`: `AbortStopsTraffic`, because only a poll that found the
  flag down leads to `send` (`AbortInv`).
- `NoResend`: `ConfirmedAttemptIsLast`, from `ConfirmedInv`: a confirmed attempt
  is the one its row is answered with, or the last one of the row being worked
  on, with no retry ahead.
- `RunIdsReachHistory`: `AnsweredRunsRecorded`, from `RecordedInv` (a received
  run id is recorded, its write was lost, or the generator stands right before
  the write); it needs `ConfirmedInv`, without which a retry could walk away
  from a confirmed run.
- `HistoryTellsResults`: `HistoryMatchesResults`, from `HistoryInv`, in which the
  history is one row ahead of the results between decision and delivery.
- `KeepsContract`: `ImplementsContract`. Only `Yield` is a step of the contract;
  `ContractInv` says what is known of a decided row before the page sees it, and
  that after an honoured abort only aborts are decided.

`LoadJobProofs`, of `ThrottledRunner`, for every number of items and every policy
(assumption `RunnerAssumption`):

- `TypeCorrect`: `TypeOK`; the only arithmetic is in `HalvedBounded`, which
  keeps the halved limit between the bounds of the policy.
- `NothingIsForgotten`: `NothingForgotten`, from the inductive `Custody` (each
  item is pending, in flight, or handed over, and the wave holds only finished
  futures) and `Complete` (leaving as "drained" means that nothing is in flight,
  and that nothing is pending unless an abort was asked for). The limit being
  at least one, an empty pool always has room (`EmptyHasRoom`), so the fill step
  cannot give up with items pending.
- `RecoveryIsEarned`: `CleanRunBeforeRecovery`, from an invariant that ties the
  counter `streak` to the last results of the log.
- `OverloadComesFirst`: `OverloadAnsweredFirst`, from an invariant that an
  overload still owed finds the generator inside its wave, with `throttled` set.
- `RunnerIsPool`: `ImplementsPool`. With `Custody`, the stage of an item is a
  function of its future and its delivery (`StageOf`), and what the abstract
  pool counts is exactly the set of items in flight (`InFlight`); each action is
  then one move of one item (`StageMove`), the closing of the pool, or a stutter
  (`StageFrame`).

`LoadJobProofs`, of `BackgroundJobs`, for every number of panels, jobs and
results (assumption `JobsAssumption`):

- `JobsTypeCorrect`: `JobsTypeOK`, with `Fresh`: a job not yet started has left no trace.
- `AbortAndDone`: `AbortHonoured` and `DoneMeansComplete`, from `EndingInv`,
  which follows a thread through its end: who stopped short has seen the flag.
- `VerdictsAreFinal`: `TerminalIsFinal`, an action property no run lists.
- `RunningJobsAreFound`: `RunningStaysRegistered`, from `RegistryInv`: a job that
  a panel has drawn as over is over for good, so no Clear, however late, names a
  job that runs.

`IntervalLoadProofs`, for every interval, policy, saving rhythm and number of
jobs and crashes (assumption `IntervalAssumption`):

- `MarksAreTrue`: `MarkedMeansMinted`, also when several jobs write the same
  file. `MintInv` follows the claim "this manifest was loaded" along its whole
  way: answer, mark, `.tmp` file, progress file.
- `SavedStaysSaved`: `SavedNeverResent`, assuming `Exclusive`. `SingleInv` says
  that the file belongs to the one job that runs: it holds no more than that
  job's marks, nobody else has the `.tmp` file open, and what is still to be
  started is neither marked nor started. Without the assumption the theorem is
  false: a second job decides from the file as it was when it started.
- `JobsUsePools`: `UsesPool`, for any number of jobs at once. `PoolInv` says that
  what waits has not been started and that a job has submitted nothing before
  its tier is opened; `StageMove` and `StageFrame` turn each step of the program
  into a step of `WorkPool` or a stutter.
- `ExposureStaysBounded`: `ExposureBounded`, assuming `Exclusive`. `ExposureInv`
  counts: outside a save the file lacks at most as many marks as
  `_since_save` says, fewer than `SaveEvery`; during a save it may lack
  `SaveEvery`, but then one place of the pool is free, which is why the two
  worst cases never add up.
- `DuplicatesStayExplained`: `DuplicatesHaveACause`, assuming `Exclusive`.
  `OnceInv` says that as long as nothing was interrupted, whatever the service
  took is vouched for by the file or by the job that runs and is being submitted
  by nobody; `EndInv`, that a job which ends as done has collected every answer.
- `TypeCorrect`: `TypeOK`. Its bound on `minted` is the interesting part: by
  `CountInv` the service has a manifest at most as often as there are jobs whose
  own call for it is over, so no job submits one twice.

`ManifestRunProofs`, for every number of runs and interactions and every timeout
(assumption `ManifestAssumption`):

- `TypeCorrect`: `TypeOK`, in the three parts its definition names.
- `OutcomesStayTrue`: `OutcomesAreTrue`, from `OutcomeInv`: a status the session
  shows as finished or failed, at the places where the script is about to record
  it, is that of the run shown. That a second submit may change the run shown
  under an older status is what makes it more than the property: the status is
  only trusted between the poll and the write that follows it.
- `OutcomesStayFinal`: `OutcomeIsFinal`, from `FinalInv`: a run that is still
  polled, or was just submitted, has no outcome in the history yet, so the
  writes that could change one never meet one.
- `VerdictsAreOfShownRun`: `VerdictIsOfShownRun`, from `VerdictInv`: a run has no
  row before all the session's writes about it are made, so a row of the run
  shown vouches for the kinds the verification is about.

`BulkLoadProofs`, of `TierLoad`, for every set of tiers, every graph of
references and every number of runs, clicks and changes of a file (assumption
`TierAssumption`):

- `TypeCorrect`: `TypeOK`.
- `SubmissionsAreRecorded`: `RunsAreRecorded`, from `RecordInv`, which adds that
  what the service has not run yet the history knows nothing of; so the
  statements that record a submit meet no row, and `FirstRow` says what they
  make of none.
- `StatusesAreTold`: `StatusesAreTrue`, because a run that ended stays as it
  ended and no run is given to another manifest (`RunsStay`).
- `LoadsEndWhole`: `LoadsAreWhole`, from `OutcomeInv`: the outcomes the loop has
  collected and those the page keeps both name runs of their own manifests.
- `LoadsAreLinked`: `LinksAgree`, from `LinkInv`: a script run submits one load
  with one id map, built before its first manifest, and what each of its runs
  was given is what that map makes of the manifest. `LoadStep` reduces every
  step to the four things it may do to the load under way.

That the manifest at hand is one of those still to do rests on the least of a
set of naturals (`LeastOf`, from the well-foundedness of `<`).

`BulkLoadProofs`, of `RecordLoad`, for every folder, batch size, limit and number
of loads (assumption `RecordAssumption`):

- `RecordsTypeCorrect`: `RecordsTypeOK`.
- `SuccessesAreStored`: `SuccessIsStored`, from `StoredInv`: the batch whose
  results are still to be handed over is stored if its outcome is a success.
- `BatchesStayBounded`: `BatchesAreBounded`, from `BatchInv`: a batch is cut at
  the clamped size, and one result of it has been handed over before the abort
  flag is looked at.
- `EveryRecordIsAnswered`: `EveryRecordAnswered`, from `AnswerInv`: results,
  batch and buffer never hold a record twice or share one (`Apart`), together
  they hold all of each manifest that was read and nothing of one that could not
  be (`AllRead`), and a load that ended left batch and buffer empty. The counts
  of the property follow from the sets: what moves is described by the elements
  of a sequence (`Elements`, `Distinct`) as it is joined, cut or loses its head.

`ConnectionProofs`, for any tabs, settings, secrets and tokens of any length
(assumption `ConnectionAssumption`):

- `TypeCorrect`: `TypeOK`, with `Places`: what a script that saves, clears or
  keeps holds at each place, in particular that past its commit the row is the
  draft's and past its activation active.
- `ShowsWhatIsSaved`: `ShownIsSaved`, from `Places`. It needs no more because
  the model takes the operator to work in one tab at a time (`tab`): the scripts
  of two tabs do not overlap.
- `TokensAreKeptWhole`: `TokensComeBackWhole`, from `Whole`: the count is the
  first entry to go and the last to come, so while it is there the chunks it
  speaks of are one token's and all of it, whatever lies behind them.
- `VerdictsStayCurrent`: `VerdictsAreCurrent`, from `Verdicts`: a connection that
  differs from the one shown has its token, sign-in and health dropped before it
  is shown, and none of these is got for the old one in between.

`SearchPageProofs`, for every set of kinds and texts, every index, page size and
ceiling (assumption `SearchAssumption`):

- `FirstLoadAccounts`: `FirstLoadIsAccountedFor`, from `FirstInv`: as long as no
  answer is stored there is no row to select, so no other failure can take the
  banner from that of the first load.
- `ExportsEndWhole`: `ExportsAreWhole`, from `WalkInv`: the loop that stores is
  the one that walks, it has kept what parses of the hits read (`ParsedOn`), its
  last page ends with the last hit, and the status says "exporting" as long as
  it walks.
- `PagesAreOneAnswer`: `PageIsOneAnswer`, from `PageInv`, which follows the
  answer through the four writes that store it and the text through the request
  that asks for it.

`FileUploadProofs`, for every number of uploads and interactions (assumption
`UploadAssumption`):

- `TypeCorrect`: `TypeOK` with `Minds`: the script is about an upload exactly
  between its URL and its end.
- `ListingsAreTrue`: `ListedIsStored`, from `StoredInv`: the metadata call is
  made for bytes that have landed, and what is kept afterwards has its record.
- `OrphansStayNamed`: `OrphansAreNamed`.

Model-checked only: liveness (`EveryRowAnswered`, `Terminates`, `JobsEnd`,
`PollingEnds`), and the types of `SearchPage`, whose rows are what `SelectSeq`
leaves of a page, a recursion over its records. Every other property of a
passing run is a theorem.

## 6. Where code and documentation disagree

Shown by a run:

- The queue tab never submits (`queue_click`): the callback of the Submit
  button raises the in-flight flag, and the script run of the same click then
  finds the button disabled by it. Nothing lowers the flag again, so
  `submit_queue` is reached by its tests and not by its page.

Met while modelling, modelled as the code has them, and not given a run:

Bulk loads.
- An abort loses progress: the page breaks out of the loop, the generator is
  closed at its `yield`, and the save after the loop is skipped; the next run
  mints up to `save_every - 1` records again, plus those in flight.
- Two jobs over one interval write the same `.tmp` file and can tear it.
- A second press of the load button, a click between `start_job` and the write of
  its id to the session, or a Clear drawn under the load before and pressed while
  the new one starts hides a running load from its panel: it runs on, and no
  Abort reaches it.
- `start_job` promises not to start a running job a second time; the page gives
  every job a fresh id, so the promise is never called upon.
- A row skipped by an abort between two attempts reports those attempts
  (`AbortRow`), where `QueueSubmitResult` documents 0; a load cut short by an
  abort that only `_fill` sees ends with `stats.aborted` False (`FillAborted`).
- The abort flags of the tier and of the generator tab are never reset: the next
  load of the session stops after its first manifest.
- A manifest that cannot be read while the id map is built, and can be a moment
  later, is submitted without the load prefix.
- Resetting the generated CSV data can be stopped half way; a CSV header read
  with and without its BOM differs; of two header cells mapped to one field the
  later one wins.

Manifest page.
- A manifest built by the Manifest Builder has a Data section that is not a list:
  no kinds are extracted from it and its verification searches for nothing.
- A clear stopped by a click between its first write (the run id) and the one of
  the polling flag leaves the flag up with no run. The status block draws nothing
  then; the next submit sets the flag anyway.
- A run left while it is polled is polled again only if its page is reopened in
  the same session.

File page.
- The banner "The bytes are in storage but no record exists. Retry with this
  file id" is untrue after a lost answer, no retry by file id exists, and the file
  id is optional in the service's answer.
- A click between two phases leaves an orphan without a banner; a metadata answer
  without a record id is kept as a result that shows nothing.
- The Manifest Builder keeps the display name it prefilled when another upload is
  picked.

Connection.
- A token outlives a connection it no longer belongs to if the process dies, or
  the credential store fails, between the commit of the settings and the wipe.
- A failed write of the secret leaves the new settings with the old secret.
- The latest validation shown for a profile may be of its earlier settings.
- `forget_*` of the settings store is called by no page; `RefreshingTokenProvider`
  refreshes without a lock.

Search.
- With several kinds selected, the page takes the pair that
  `build_multi_kind_query` returns for a string: without a text the filter is
  dropped and everything is searched, with one the pair is rendered into the
  query. The page's tests replace the function by one that returns a string.
- "Apply to search" writes the query box's key after the box was drawn, which
  Streamlit refuses.
- A Next pressed again while its turn is under way asks for an offset at the
  ceiling, and `search_records` raises, which the comment at the pager excludes.
- A failed or stopped Refresh or Search leaves the old rows under a page number
  of the new query; Next then skips the new query's first page.
- The export walks the kinds selected now, not the query of the page shown. It is
  offered beside other results until it is cleared. Its abort is a click, which
  ends the loop before the loop looks at the flag.
- Hits without an id make a page short, and the next page overlaps it.
- "Export will fetch all N records" counts hits; those without an id or a kind
  are dropped, and missing from an export offered as complete.
- After a first search that failed, the first load counts as made and the page
  says "No records matched."; the banner with the failure is drawn above, and so
  appears only with the next interaction.

## 7. What is left out

- Durations: backoff, cooldown and poll intervals have no length; sleeping is a
  state that is left at any time. No property depends on a length.
- The content of manifests, records and messages: which string a prefix is
  rewritten into, what a generated manifest looks like, how answers are matched
  to records in a verification.
- `submit_queue`'s progress callback can raise: it is caught and logged, and
  changes nothing.
- A file that is not UTF-8 raises `UnicodeDecodeError`, which the reading that
  builds the id map and the count of records do not catch: the load does not
  start, or ends as an error, before anything is sent.
- Discovery of parts on disk, legacy integer progress entries and the CSV
  generator.
- `upload_files` and `upload_file_blocks`, which no page calls; the environment's
  default connection and the validation of form fields; the session's list of
  past searches, the latency charts and the option lists of forms.
- Streamlit's own scheduling, beyond its effect on a script run: it may be
  interrupted where it touches the session, and callbacks run before the script.
- Legal tags: one session and one HTTP call per button; not modelled.
- Entitlements: calls that only read.
- Volve and TNO ingestion: tracks one after the other over the loaders modelled
  here, with a checkpoint written once at the end. Wellbore DDMS: a loop of
  independent POSTs.
- The one-off TNO scripts and the vendored CSV converter.
- Out of the prover's reach and left to TLC: liveness, `ENABLED`, and what
  the recursion of `SelectSeq` gives.
