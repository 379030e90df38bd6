------------------------------- MODULE RunHistory -------------------------------
(***************************************************************************)
(* app/services/run_history.py: the workflow_runs table, as what each SQL  *)
(* statement makes of its rows.  A row is kept as its status and the page  *)
(* that submitted the run; every statement runs in one transaction.  Runs  *)
(* are numbered in the order of their submission times.                    *)
(***************************************************************************)
EXTENDS Naturals

CONSTANT NoRow      \* the table holds no row for a run

Terminal == {"finished", "failed"}
Row == [status : {"submitted"} \cup Terminal, source : {"manifest_page", "builder", "bulk_load"}]

Holds(rows, r) == rows[r] # NoRow
StatusIs(rows, r, s) == Holds(rows, r) /\ rows[r].status = s

(* INSERT ... ON CONFLICT DO UPDATE ... WHERE status NOT IN (...)          *)
AfterSubmit(rows, r, source) ==
  IF Holds(rows, r) /\ rows[r].status \in Terminal THEN rows
  ELSE [rows EXCEPT ![r] = [status |-> "submitted", source |-> source]]

(* UPDATE ... WHERE run_id = ?: a missing row stays missing, a terminal    *)
(* row is written over.                                                    *)
AfterFinish(rows, r, status) ==
  IF Holds(rows, r) /\ status \in Terminal THEN [rows EXCEPT ![r].status = status] ELSE rows

(* DELETE ... WHERE submitted_at < cutoff                                  *)
AfterPurge(rows, cutoff) == [r \in DOMAIN rows |-> IF r < cutoff THEN NoRow ELSE rows[r]]

AfterClear(rows) == [r \in DOMAIN rows |-> NoRow]

(* A caller swallows RUN_HISTORY_WRITE_ERRORS: the statement may not take. *)
Written(rows, after) == {rows, after}
=============================================================================
