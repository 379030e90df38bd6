------------------------------- MODULE RecordLoad -------------------------------
(***************************************************************************)
(* The Downloaded Dataset tab of the Bulk Load page, for the parts that go *)
(* to the Storage service: a job that drives submit_records_from_paths.    *)
(* The generator reads the manifests of the part one by one, gathers their *)
(* records in a buffer, writes them in batches with put_records and yields *)
(* one result for each record; the job records it and looks at its abort   *)
(* flag.  An abort closes the generator where it stands.                   *)
(*                                                                         *)
(* How a record is rewritten is TierLoad's business, what the registry of  *)
(* jobs does BackgroundJobs'.  Records are upserted: what matters of the   *)
(* service is which records it holds.                                      *)
(***************************************************************************)
EXTENDS Naturals, Sequences, FiniteSets

CONSTANTS
  NumFiles,     \* manifests of the part, in the order of their names
  Count,        \* records in the section of each
  BatchSizes,   \* what the operator may ask for
  MaxPerCall,   \* STORAGE_MAX_RECORDS_PER_CALL
  MaxLoads,     \* presses of the button
  MaxTouches    \* changes of the folder

Files == 1 .. NumFiles

ASSUME RecordAssumption ==
  /\ NumFiles \in Nat /\ Count \in [Files -> Nat]
  /\ BatchSizes \subseteq Nat /\ MaxPerCall \in Nat \ {0}
  /\ MaxLoads \in Nat /\ MaxTouches \in Nat

(* The i-th record of a file; a result may also be about a file, <<f, 0>>. *)
Records == UNION {{f} \X (1 .. Count[f]) : f \in Files}
Results == [of : Records \cup (Files \X {0}), status : {"success", "error"}]

VARIABLES
  readable,   \* the manifests that can be read now
  stored,     \* the records the service holds
  place,      \* where the job's thread stands, "idle" if there is none
  first, last,\* the manifests chosen
  file,       \* the next manifest to read
  size,       \* records in a batch
  buffer,     \* records read and not sent
  batch,      \* records sent whose results are still to be yielded
  status,     \* the outcome they share
  recorded,   \* what the job has recorded
  aborting,   \* the job's abort flag
  total,      \* the job's total
  calm,       \* no manifest has changed since the job was started
  loads, touches

chosen    == <<first, last, size, total>>
generator == <<file, buffer, batch, status>>
recordsVars == <<readable, stored, place, chosen, generator, recorded, aborting, calm, loads, touches>>

RecordsInit ==
  /\ readable \in SUBSET Files /\ stored = {}
  /\ place = "idle" /\ first = 1 /\ last = 0 /\ size = 1 /\ total = 0
  /\ file = 1 /\ buffer = <<>> /\ batch = <<>> /\ status = "error"
  /\ recorded = <<>> /\ aborting = FALSE /\ calm = TRUE /\ loads = 0 /\ touches = 0

-----------------------------------------------------------------------------
(* The Load button                                                         *)

(* slip: the limit of the service is forgotten                             *)
AtLeastOne(n) == IF n < 1 THEN 1 ELSE n

Clamped(n) == IF n < 1 THEN 1 ELSE IF n > MaxPerCall THEN MaxPerCall ELSE n

(* list_part_manifests: the manifests from a start on, all if limit is 0.  *)
LastOf(start, limit) ==
  IF limit = 0 \/ start + limit > NumFiles THEN NumFiles ELSE start + limit - 1

(* count_section_records: those of the manifests that can be read.         *)
SectionRecords(from, to) == {r \in Records : r[1] \in from .. to /\ r[1] \in readable}

Press(start, limit, n) ==
  /\ place = "idle" /\ loads < MaxLoads
  /\ first' = start /\ last' = LastOf(start, limit) /\ size' = Clamped(n)
  /\ total' = Cardinality(SectionRecords(start, LastOf(start, limit)))
  /\ file' = start /\ buffer' = <<>> /\ batch' = <<>> /\ status' = "error"
  /\ recorded' = <<>> /\ aborting' = FALSE /\ calm' = TRUE /\ loads' = loads + 1
  /\ place' = "read"
  /\ UNCHANGED <<readable, stored, touches>>

(* The Abort button of the job's panel.                                    *)
RequestAbort ==
  /\ place # "idle" /\ ~aborting /\ aborting' = TRUE
  /\ UNCHANGED <<readable, stored, place, chosen, generator, recorded, calm, loads, touches>>

-----------------------------------------------------------------------------
(* The generator and the loop that drives it                               *)

RecordsOf(f) == [i \in 1 .. Count[f] |-> <<f, i>>]

Read ==
  /\ place = "read" /\ file <= last /\ file \in readable
  /\ buffer' = buffer \o RecordsOf(file) /\ file' = file + 1 /\ place' = "flush"
  /\ UNCHANGED <<readable, stored, chosen, batch, status, recorded, aborting, calm, loads, touches>>

(* One result for the file, and the load goes on.                          *)
Unreadable ==
  /\ place = "read" /\ file <= last /\ file \notin readable
  /\ recorded' = Append(recorded, [of |-> <<file, 0>>, status |-> "error"])
  /\ file' = file + 1 /\ place' = "check"
  /\ UNCHANGED <<readable, stored, chosen, buffer, batch, status, aborting, calm, loads, touches>>

(* slip: the outcome is set once and not for each batch                    *)
PutKeepsStatus(those) ==
  \/ status' = status /\ UNCHANGED stored
  \/ status' = "success" /\ stored' = stored \cup those

(* put_records: a refusal, and nothing is stored; an answer that is lost;  *)
(* or the records are stored, and all of them are a success.               *)
PutRecords(those) ==
  \/ status' = "error" /\ stored' \in {stored, stored \cup those}
  \/ status' = "success" /\ stored' = stored \cup those

(* _submit_batch: a missing token is as a refusal.                         *)
Submit(records) ==
  /\ batch' = records /\ place' = "yield"
  /\ PutRecords({records[i] : i \in DOMAIN records})
  /\ UNCHANGED <<readable, chosen, file, recorded, aborting, calm, loads, touches>>

Flush ==
  /\ place = "flush" /\ Len(buffer) >= size
  /\ buffer' = SubSeq(buffer, size + 1, Len(buffer))
  /\ Submit(SubSeq(buffer, 1, size))

Flushed ==
  /\ place = "flush" /\ Len(buffer) < size
  /\ place' = "read"
  /\ UNCHANGED <<readable, stored, chosen, generator, recorded, aborting, calm, loads, touches>>

(* slip: what does not fill a batch is not sent                            *)
DropRest ==
  /\ place = "read" /\ file > last /\ buffer # <<>>
  /\ buffer' = <<>>
  /\ UNCHANGED <<readable, stored, place, chosen, file, batch, status, recorded, aborting, calm, loads, touches>>

Drain ==
  /\ place = "read" /\ file > last /\ buffer # <<>>
  /\ buffer' = <<>>
  /\ Submit(buffer)

Yield ==
  /\ place = "yield" /\ batch # <<>>
  /\ recorded' = Append(recorded, [of |-> Head(batch), status |-> status])
  /\ batch' = Tail(batch) /\ place' = "check"
  /\ UNCHANGED <<readable, stored, chosen, file, buffer, status, aborting, calm, loads, touches>>

Yielded ==
  /\ place = "yield" /\ batch = <<>>
  /\ place' = "flush"
  /\ UNCHANGED <<readable, stored, chosen, generator, recorded, aborting, calm, loads, touches>>

(* The generator is closed where it stands: what it held is gone.          *)
CheckAbort ==
  /\ place = "check"
  /\ place' = IF aborting THEN "idle" ELSE "yield"
  /\ UNCHANGED <<readable, stored, chosen, generator, recorded, aborting, calm, loads, touches>>

EndLoad ==
  /\ place = "read" /\ file > last /\ buffer = <<>>
  /\ place' = "idle"
  /\ UNCHANGED <<readable, stored, chosen, generator, recorded, aborting, calm, loads, touches>>

Thread ==
  Read \/ Unreadable \/ Flush \/ Flushed \/ Drain \/ Yield \/ Yielded \/ CheckAbort \/ EndLoad

(* A manifest is rewritten on disk, or read while it is.                   *)
TouchFile(f) ==
  /\ touches < MaxTouches /\ touches' = touches + 1
  /\ readable' = IF f \in readable THEN readable \ {f} ELSE readable \cup {f}
  /\ calm' = FALSE
  /\ UNCHANGED <<stored, place, chosen, generator, recorded, aborting, loads>>

Over == place = "idle" /\ loads = MaxLoads /\ UNCHANGED recordsVars

RecordsNext ==
  \/ \E start \in Files, limit \in 0 .. NumFiles, n \in BatchSizes : Press(start, limit, n)
  \/ RequestAbort \/ Thread
  \/ \E f \in Files : TouchFile(f)
  \/ Over

RecordsSpec == RecordsInit /\ [][RecordsNext]_recordsVars

-----------------------------------------------------------------------------
(* Every variable holds a value of its type.                               *)
RecordsTypeOK ==
  /\ readable \in SUBSET Files /\ stored \in SUBSET Records
  /\ place \in {"idle", "read", "flush", "yield", "check"}
  /\ first \in Nat /\ last \in Nat /\ file \in Nat /\ size \in 1 .. MaxPerCall /\ total \in Nat
  /\ buffer \in Seq(Records) /\ batch \in Seq(Records)
  /\ status \in {"success", "error"} /\ recorded \in Seq(Results)
  /\ aborting \in BOOLEAN /\ calm \in BOOLEAN
  /\ loads \in 0 .. MaxLoads /\ touches \in 0 .. MaxTouches

(* A record the panel lists as a success is held by the service, even if   *)
(* the next batch fails or the load is aborted.                            *)
SuccessIsStored ==
  \A i \in DOMAIN recorded : recorded[i].status = "success" => recorded[i].of \in stored

(* A load that runs to its end has one result for each record of the       *)
(* manifests it could read, one for each it could not, and none besides;   *)
(* its total is the number of the former if no manifest has changed.       *)
AnswersFor(x) == Cardinality({i \in DOMAIN recorded : recorded[i].of = x})

EveryRecordAnswered ==
  place = "idle" /\ ~aborting =>
    /\ \A f \in first .. last :
         LET n == AnswersFor(<<f, 0>>) IN
         n \in {0, 1} /\ \A i \in 1 .. Count[f] : AnswersFor(<<f, i>>) = 1 - n
    /\ calm => total = Cardinality({i \in DOMAIN recorded : recorded[i].of[2] # 0})

(* At most a batch is on its way, and no call holds more records than the  *)
(* service accepts: an abort leaves fewer than a batch without a result.   *)
BatchesAreBounded ==
  /\ Len(batch) <= size /\ size <= MaxPerCall
  /\ place = "idle" /\ aborting => Len(batch) < size
=============================================================================

