----------------------------- MODULE QueueContract -----------------------------
(***************************************************************************)
(* What submit_queue promises the page that drives it, whatever happens    *)
(* between the program and the workflow service: the rows are answered in  *)
(* order, each once and for good; a row is skipped by the circuit breaker  *)
(* only after the breaker opened; the breaker opens on an error and stays  *)
(* open; nothing is submitted once it is open, nor after the operator's    *)
(* abort has been honoured for a row.                                      *)
(***************************************************************************)
EXTENDS Naturals, Sequences

CONSTANT N    \* number of queued manifests

VARIABLES
  outcome,    \* the answers given so far, in row order
  open        \* the circuit breaker is open

contractVars == <<outcome, open>>

Verdicts  == {"success", "error", "rejected", "skipped", "aborted"}
Submitted == {"success", "error"}

HasAborted == \E i \in 1 .. Len(outcome) : outcome[i] = "aborted"

Init == outcome = <<>> /\ open = FALSE

AnswerRow(v) ==
  /\ Len(outcome) < N
  /\ HasAborted => v = "aborted"
  /\ open => v \notin Submitted
  /\ v = "skipped" => open
  /\ outcome' = Append(outcome, v)
  /\ open' \in (IF v = "error" THEN {open, TRUE} ELSE {open})

Next == \E v \in Verdicts : AnswerRow(v)

Spec == Init /\ [][Next]_contractVars
=============================================================================
