------------------------------- MODULE QueuePage -------------------------------
(***************************************************************************)
(* The queue tab of the Bulk Load page.  The operator parses a queue, ticks*)
(* the preview box, fills the settings and presses Submit; a script run    *)
(* then drives submit_queue to its end and stores what it answered.        *)
(*                                                                         *)
(* Streamlit runs a button's callback first and then the page's script from*)
(* its top; an interaction that comes while a script is under way stops it *)
(* where it next touches the session, and starts the next run.  What the   *)
(* batch answers is QueueSubmit's business: here it is only how many rows  *)
(* it answered, all of them, and whether the breaker opened.               *)
(***************************************************************************)
EXTENDS Naturals

CONSTANTS
  Lengths,     \* lengths of the queues the operator can parse
  MaxQueue     \* MAX_QUEUE_SIZE

VARIABLES
  run,        \* what the script run under way is for: "none", "submit" or "batch"
  items,      \* length of the parsed queue, 0 if there is none
  seen,       \* the preview box is ticked
  filled,     \* legal tag, ACL owners and ACL viewers are filled
  inflight,   \* QUEUE_SUBMIT_IN_FLIGHT_KEY
  abort,      \* QUEUE_ABORT_KEY
  results,    \* number of live results
  breaker,    \* a breaker event is shown
  start       \* first row of the batch under way

queue    == <<items, seen, filled>>
outcome  == <<results, breaker>>
vars     == <<run, queue, inflight, abort, outcome, start>>

Init ==
  /\ run = "none"
  /\ items = 0 /\ seen = FALSE /\ filled = FALSE
  /\ inflight = FALSE /\ abort = FALSE
  /\ results = 0 /\ breaker = FALSE /\ start = 0

CanSubmit == items \in 1 .. MaxQueue /\ seen /\ filled /\ ~inflight

-----------------------------------------------------------------------------
(* Interactions whose script run does nothing else; a batch under way is   *)
(* stopped by any of them and what it answered is lost.                    *)

Interact == run' = "none" /\ UNCHANGED <<inflight, outcome, start>>

Parse(n) == Interact /\ items' = n /\ seen' = FALSE /\ UNCHANGED <<filled, abort>>

SwitchMode == Interact /\ items' = 0 /\ seen' = FALSE /\ UNCHANGED <<filled, abort>>

TickPreview == Interact /\ seen' = ~seen /\ UNCHANGED <<items, filled, abort>>

FillSettings == Interact /\ filled' = ~filled /\ UNCHANGED <<items, seen, abort>>

PressAbort == Interact /\ abort' = TRUE /\ UNCHANGED queue

-----------------------------------------------------------------------------
(* Submit and resume                                                       *)

(* The callback of the button, _reset_queue_abort_and_mark_in_flight.      *)
PressSubmit ==
  /\ run = "none" /\ CanSubmit
  /\ abort' = FALSE /\ inflight' = TRUE
  /\ run' = "submit"
  /\ UNCHANGED <<queue, outcome, start>>

(* _handle_submit_queue, up to its first call of submit_queue.             *)
StartBatch(first) ==
  \/ inflight' = FALSE /\ run' = "none" /\ UNCHANGED <<breaker, start>>   \* no token
  \/ breaker' = FALSE /\ start' = first /\ run' = "batch" /\ UNCHANGED inflight

(* The script run of the click.                                            *)
SubmitQueue ==
  /\ run = "submit"
  /\ \/ CanSubmit /\ results' = 0 /\ StartBatch(0)
     \/ ~CanSubmit /\ run' = "none" /\ UNCHANGED <<inflight, outcome, start>>
  /\ UNCHANGED <<queue, abort>>

PressResume ==
  /\ run = "none" /\ breaker /\ results < items
  /\ abort' = FALSE /\ results' = results
  /\ StartBatch(results)
  /\ UNCHANGED queue

EndBatch ==
  /\ run = "batch"
  /\ results' = results + (items - start)
  /\ breaker' \in BOOLEAN
  /\ inflight' = FALSE /\ run' = "none"
  /\ UNCHANGED <<queue, abort, start>>

Next ==
  \/ \E n \in Lengths : Parse(n)
  \/ SwitchMode \/ TickPreview \/ FillSettings \/ PressAbort
  \/ PressSubmit \/ SubmitQueue \/ PressResume \/ EndBatch

Spec == Init /\ [][Next]_vars

-----------------------------------------------------------------------------
(* What the button says it does, "Send every valid row through the         *)
(* bulk-ingestion service": the script run its click leads to finds the    *)
(* conditions under which the button was offered, and starts the batch.    *)
ClickIsHonoured == run = "submit" => CanSubmit
=============================================================================
