------------------------------- MODULE SearchPage -------------------------------
(***************************************************************************)
(* The Search page with its client of the Search and Storage services:     *)
(* pages of results within the offset ceiling, the query that was applied  *)
(* and the kinds selected, the record inspected, the export of a whole     *)
(* result set by cursor.                                                   *)
(*                                                                         *)
(* The page is one Streamlit script.  An interaction stops the script      *)
(* where it next touches the session, also between two writes of one       *)
(* answer, and starts it again from the top.  A record is a number, a      *)
(* 2xx answer holds a JSON object, the index does not change.  The session *)
(* history with its chart and the wording of errors are left out.          *)
(***************************************************************************)
EXTENDS Integers, Sequences, FiniteSets

CONSTANTS
  Kinds,              \* the kinds the service knows
  Texts, NoText,      \* free-text queries, and the empty one
  Garbled,            \* the query text that holds a rendered Python tuple
  Hits,               \* the records each query finds, in the order of the service
  Malformed,          \* records whose hit has no id or no kind
  PageSize,           \* SEARCH_PAGE_SIZE
  Ceiling,            \* MAX_OFFSET_PLUS_LIMIT
  MaxClauses,         \* clauses in the query builder
  MaxClicks           \* interactions of the operator

(* No kind is the wildcard.                                                *)
Queries == [kinds : SUBSET Kinds, text : Texts \cup {NoText, Garbled}]

ASSUME SearchAssumption ==
  /\ PageSize \in Nat \ {0} /\ Ceiling \in Nat /\ PageSize <= Ceiling
  /\ MaxClauses \in Nat /\ MaxClicks \in Nat
  /\ NoText \notin Texts /\ Garbled \notin Texts \cup {NoText}
  /\ \A q \in Queries : Hits[q] \in Seq(Nat \ {0})

VARIABLES
  sel, text, aggregate,   \* the kind filter, the query box and the checkbox
  options,    \* SEARCH_KIND_OPTIONS, without the wildcard
  resolved,   \* SEARCH_RESOLVED_QUERY
  results,    \* SEARCH_RESULTS, with the query and the offset they answer
  total,      \* SEARCH_TOTAL_COUNT, with the query it is of; -1 if unknown
  offset,     \* SEARCH_PAGE_OFFSET
  error,      \* SEARCH_LAST_ERROR
  selected,   \* SEARCH_SELECTED_RECORD_ID, 0 if none
  cache,      \* SEARCH_FULL_RECORD_CACHE
  agg,        \* the query SEARCH_AGGREGATION_RESULTS counts, if any
  done,       \* SEARCH_AUTORUN_DONE
  clauses,    \* QUERY_BUILDER_CLAUSES: whether each names a field
  xstatus,    \* EXPORT_STATUS
  xrecords,   \* EXPORT_RECORDS: by position, with the query they are of
  xabort,     \* EXPORT_ABORT
  turns,      \* of Prev and Next, those last drawn enabled
  pc,         \* where the script stands
  pressed,    \* the button this script run was started by
  req,        \* the query and the offset of the search under way
  answer,     \* its answer: the page and the total
  walk,       \* the cursor walk: its query, hits read, records accumulated
  settled,    \* the last search that changed the page has been stored whole
  informed,   \* an answer is stored, or the first load's failure was dismissed
  clicks      \* interactions so far

form   == <<sel, text, aggregate>>
page   == <<results, total, offset>>
shown  == <<options, error, selected, cache, agg, done, clauses>>
export == <<xstatus, xrecords, xabort>>
local  == <<req, answer, walk>>
ghosts == <<settled, informed>>
vars   == <<form, resolved, page, shown, export, turns, pc, pressed, local, ghosts, clicks>>

Everything == [kinds |-> {}, text |-> NoText]
NoPage     == [of |-> Everything, at |-> 0, rows |-> <<>>]
Unknown    == [of |-> Everything, n |-> -1]
NoRequest  == [of |-> Everything, at |-> 0]
NoAnswer   == [page |-> NoPage, total |-> Unknown]
NoRecords  == [of |-> Everything, kept |-> {}]
NoWalk     == [of |-> Everything, n |-> 0, kept |-> {}, more |-> FALSE]

Init ==
  /\ sel = {} /\ text = NoText /\ aggregate = FALSE
  /\ resolved = NoText
  /\ results = NoPage /\ total = Unknown /\ offset = 0
  /\ options = {} /\ error = "none" /\ selected = 0 /\ cache = {} /\ agg = {}
  /\ done = FALSE /\ clauses = <<>>
  /\ xstatus = "idle" /\ xrecords = NoRecords /\ xabort = FALSE
  /\ turns = {}
  /\ pc = "top" /\ pressed = "none"
  /\ req = NoRequest /\ answer = NoAnswer /\ walk = NoWalk
  /\ settled = TRUE /\ informed = FALSE /\ clicks = 0

(* One kind goes as such.  More than one go into the query: with a text, a *)
(* Python tuple is rendered into it; without, the tuple itself is passed   *)
(* on as the query, and left out of the request as it is no string.        *)
Query(kinds, t) ==
  IF Cardinality(kinds) <= 1 THEN [kinds |-> kinds, text |-> t]
  ELSE [kinds |-> {}, text |-> IF t = NoText THEN NoText ELSE Garbled]

Min2(x, y) == IF x < y THEN x ELSE y
Max2(x, y) == IF x > y THEN x ELSE y

(* One request never reaches over the ceiling.                             *)
Limit(at) == IF at + PageSize > Ceiling THEN Max2(1, Ceiling - at) ELSE PageSize

(* The hits asked for, without those that cannot be shown.                 *)
Rows(q, at) ==
  SelectSeq(SubSeq(Hits[q], at + 1, Min2(at + Limit(at), Len(Hits[q]))),
            LAMBDA r : r \notin Malformed)

(* Of the hits after the first m, up to the n-th, those that are kept: a   *)
(* hit without an id or a kind is dropped from an export as from a page.   *)
Parsed(q, m, n) == {i \in m + 1 .. n : Hits[q][i] \notin Malformed}

Shown == {results.rows[i] : i \in DOMAIN results.rows}

-----------------------------------------------------------------------------
(* Where a script goes next                                                *)

Goto(p)    == pc' = p /\ UNCHANGED <<pressed, local>>
Restart(b) == pc' = "top" /\ pressed' = b
              /\ req' = NoRequest /\ answer' = NoAnswer /\ walk' = NoWalk

(* A search ends the first run's bootstrap, or the run of a button.        *)
Finish == IF done THEN Restart("none") ELSE Goto("booted")

Ask(kinds, t, at) == req' = [of |-> Query(kinds, t), at |-> at]

(* Without a connection, a sign-in, a data partition or a token the page   *)
(* ends here.                                                              *)
PreflightFails ==
  /\ pc = "top" /\ Goto("idle") /\ turns' = {}
  /\ UNCHANGED <<form, resolved, page, shown, export, ghosts, clicks>>

Dismiss ==
  /\ pc = "top" /\ pressed = "dismiss" /\ error # "none"
  /\ error' = "none" /\ informed' = (informed \/ done) /\ Restart("none")
  /\ UNCHANGED <<form, resolved, page, options, selected, cache, agg, done, clauses,
                 export, turns, settled, clicks>>

(* slip: the first load is marked before it is made                        *)
EnterBooted ==
  /\ pc = "top" /\ ~(pressed = "dismiss" /\ error # "none")
  /\ done' = TRUE
  /\ Goto(IF done THEN "bar" ELSE "kinds")
  /\ UNCHANGED <<form, resolved, page, options, error, selected, cache, agg, clauses,
                 export, turns, ghosts, clicks>>

Enter ==
  /\ pc = "top" /\ ~(pressed = "dismiss" /\ error # "none")
  /\ Goto(IF done THEN "bar" ELSE "kinds")
  /\ UNCHANGED <<form, resolved, page, shown, export, turns, ghosts, clicks>>

-----------------------------------------------------------------------------
(* Searching                                                               *)

(* The kinds come from an aggregation, from a sample of records, or not at *)
(* all; the search that follows takes the selected ones among them.        *)
ListKinds ==
  /\ pc = "kinds"
  /\ options' \in SUBSET Kinds
  /\ Ask(sel \cap options', resolved, offset)
  /\ pc' = "search" /\ UNCHANGED <<pressed, answer, walk>>
  /\ UNCHANGED <<form, resolved, page, error, selected, cache, agg, done, clauses,
                 export, turns, ghosts, clicks>>

Aggregate ==
  /\ pc = "search"
  /\ agg' \in (IF aggregate THEN {{}, {req.of}} ELSE {{}})
  /\ Goto("ask")
  /\ UNCHANGED <<form, resolved, page, options, error, selected, cache, done, clauses,
                 export, turns, ghosts, clicks>>

Fits(at) == at + Limit(at) <= Ceiling

(* search_records raises rather than ask for more than the ceiling, and    *)
(* the script dies of it.                                                  *)
Overflow ==
  /\ pc = "ask" /\ ~Fits(req.at)
  /\ Goto("idle")
  /\ UNCHANGED <<form, resolved, page, shown, export, turns, ghosts, clicks>>

SearchAnswered ==
  /\ pc = "ask" /\ Fits(req.at)
  /\ \E n \in {Len(Hits[req.of]), -1} :
       answer' = [page |-> [of |-> req.of, at |-> req.at, rows |-> Rows(req.of, req.at)],
                  total |-> [of |-> req.of, n |-> n]]
  /\ pc' = "results" /\ UNCHANGED <<pressed, req, walk>>
  /\ UNCHANGED <<form, resolved, page, shown, export, turns, ghosts, clicks>>

(* Refused, lost or timed out: only the banner changes, which a script     *)
(* draws at its top, so that it is seen with the next interaction.         *)
SearchFails ==
  /\ pc = "ask" /\ Fits(req.at)
  /\ error' = "search" /\ Finish
  /\ UNCHANGED <<form, resolved, page, options, selected, cache, agg, done, clauses,
                 export, turns, ghosts, clicks>>

(* The answer is stored in four writes.                                    *)
StoreResults ==
  /\ pc = "results"
  /\ results' = answer.page /\ settled' = FALSE /\ informed' = TRUE /\ Goto("total")
  /\ UNCHANGED <<form, resolved, total, offset, shown, export, turns, clicks>>

StoreTotal ==
  /\ pc = "total"
  /\ total' = answer.total /\ Goto("offset")
  /\ UNCHANGED <<form, resolved, results, offset, shown, export, turns, ghosts, clicks>>

StoreOffset ==
  /\ pc = "offset"
  /\ offset' = answer.page.at /\ settled' = TRUE /\ Goto("clear")
  /\ UNCHANGED <<form, resolved, results, total, shown, export, turns, informed, clicks>>

ClearError ==
  /\ pc = "clear"
  /\ error' = "none" /\ Finish
  /\ UNCHANGED <<form, resolved, page, options, selected, cache, agg, done, clauses,
                 export, turns, ghosts, clicks>>

(* _autorun_once: done, whatever the answer was.                           *)
Booted ==
  /\ pc = "booted"
  /\ done' = TRUE /\ Goto("bar")
  /\ UNCHANGED <<form, resolved, page, options, error, selected, cache, agg, clauses,
                 export, turns, ghosts, clicks>>

-----------------------------------------------------------------------------
(* Toolbar and query builder                                               *)

(* The kind filter drops what is no longer offered.  Refresh and Search go *)
(* back to the first page before anything is known of the new one.         *)
Toolbar ==
  /\ pc = "bar"
  /\ sel' = sel \cap options
  /\ IF pressed \in {"refresh", "search"}
     THEN /\ offset' = 0 /\ settled' = FALSE
          /\ Goto(IF pressed = "search" THEN "unselect" ELSE "resolve")
     ELSE Goto("builder") /\ UNCHANGED <<offset, settled>>
  /\ UNCHANGED <<text, aggregate, resolved, results, total, shown, export, turns, informed, clicks>>

Unselect ==
  /\ pc = "unselect"
  /\ selected' = 0 /\ Goto(IF pressed = "search" THEN "resolve" ELSE "search")
  /\ UNCHANGED <<form, resolved, page, options, error, cache, agg, done, clauses,
                 export, turns, ghosts, clicks>>

Resolve ==
  /\ pc = "resolve"
  /\ resolved' = text
  /\ IF pressed = "refresh" THEN Goto("kinds")
     ELSE Ask(sel, text, 0) /\ pc' = "search" /\ UNCHANGED <<pressed, answer, walk>>
  /\ UNCHANGED <<form, page, shown, export, turns, ghosts, clicks>>

SetClauses(cs) ==
  /\ clauses' = cs /\ Restart("none")
  /\ UNCHANGED <<form, resolved, page, options, error, selected, cache, agg, done,
                 export, turns, ghosts, clicks>>

AddClause ==
  /\ pc = "builder" /\ pressed = "add" /\ Len(clauses) < MaxClauses
  /\ \E named \in BOOLEAN : SetClauses(Append(clauses, named))

RemoveClause ==
  /\ pc = "builder" /\ pressed = "remove" /\ clauses # <<>>
  /\ \E i \in DOMAIN clauses : SetClauses(SubSeq(clauses, 1, i - 1) \o SubSeq(clauses, i + 1, Len(clauses)))

(* A clause without a field gives no query.                                *)
Lucene == \E i \in DOMAIN clauses : clauses[i]

(* Apply writes to the query box after the box was drawn: Streamlit raises *)
(* and the script dies, before the query is resolved.                      *)
Apply ==
  /\ pc = "builder" /\ pressed = "apply" /\ Goto("idle") /\ turns' = {}
  /\ UNCHANGED <<form, resolved, page, shown, export, ghosts, clicks>>

NoBuilder ==
  /\ pc = "builder" /\ pressed # "apply"
  /\ ~(pressed = "add" /\ Len(clauses) < MaxClauses) /\ ~(pressed = "remove" /\ clauses # <<>>)
  /\ Goto("rows")
  /\ UNCHANGED <<form, resolved, page, shown, export, turns, ghosts, clicks>>

-----------------------------------------------------------------------------
(* The table of results                                                    *)

NoRows ==
  /\ pc = "rows" /\ Shown = {}
  /\ Goto("idle") /\ turns' = {}
  /\ UNCHANGED <<form, resolved, page, shown, export, ghosts, clicks>>

(* The selection is kept while its row is on the page.                     *)
Select ==
  /\ pc = "rows" /\ Shown # {}
  /\ selected' \in (IF pressed = "pick" THEN Shown \cup {0}
                   ELSE {IF selected \in Shown THEN selected ELSE 0})
  /\ Goto("export")
  /\ UNCHANGED <<form, resolved, page, options, error, cache, agg, done, clauses,
                 export, turns, ghosts, clicks>>

-----------------------------------------------------------------------------
(* The export                                                              *)

Large == total.n > Len(results.rows)

ClearExport ==
  /\ pc = "export" /\ pressed = "clear" /\ xstatus \in {"done", "error"}
  /\ xstatus' = "idle" /\ xrecords' = NoRecords /\ xabort' = FALSE /\ Restart("none")
  /\ UNCHANGED <<form, resolved, page, shown, turns, ghosts, clicks>>

Exportable == xstatus \in {"idle", "exporting"} /\ Large

(* The export walks what is selected and resolved now, which need not be   *)
(* the query of the page shown.                                            *)
StartExport ==
  /\ pc = "export" /\ pressed = "export" /\ Exportable
  /\ xstatus' = "exporting" /\ xabort' = FALSE
  /\ walk' = [NoWalk EXCEPT !.of = Query(sel, resolved), !.more = TRUE]
  /\ pc' = "begin" /\ UNCHANGED <<pressed, req, answer, xrecords>>
  /\ UNCHANGED <<form, resolved, page, shown, turns, ghosts, clicks>>

(* A small result is offered as it is on the page.                         *)
NoExport ==
  /\ pc = "export"
  /\ ~(pressed = "clear" /\ xstatus \in {"done", "error"}) /\ ~(pressed = "export" /\ Exportable)
  /\ Goto("pages")
  /\ UNCHANGED <<form, resolved, page, shown, export, turns, ghosts, clicks>>

BeginWalk ==
  /\ pc = "begin"
  /\ xrecords' = [of |-> walk.of, kept |-> {}] /\ Goto("fetch")
  /\ UNCHANGED <<form, resolved, page, shown, xstatus, xabort, turns, ghosts, clicks>>

(* The service returns a cursor while hits remain, and perhaps one more.   *)
PageArrives ==
  /\ pc = "fetch"
  /\ LET all  == Len(Hits[walk.of])
         read == Min2(walk.n + PageSize, all)
     IN \E more \in BOOLEAN :
          /\ read < all => more
          /\ more => read > walk.n
          /\ walk' = [walk EXCEPT !.n = read, !.more = more,
                                  !.kept = @ \cup Parsed(walk.of, walk.n, read)]
  /\ pc' = "keep" /\ UNCHANGED <<pressed, req, answer>>
  /\ UNCHANGED <<form, resolved, page, shown, export, turns, ghosts, clicks>>

(* slip: a page that fails is taken for the last one                       *)
PageEnds ==
  /\ pc = "fetch"
  /\ xstatus' = "done" /\ Restart("none")
  /\ UNCHANGED <<form, resolved, page, shown, xrecords, xabort, turns, ghosts, clicks>>

(* Refused, lost, timed out or expired: what was read is kept as a part.   *)
PageFails ==
  /\ pc = "fetch"
  /\ xstatus' = "error" /\ Restart("none")
  /\ UNCHANGED <<form, resolved, page, shown, xrecords, xabort, turns, ghosts, clicks>>

(* The abort flag is looked at after each page; but it is a click that     *)
(* sets it, and that has stopped this loop before.                         *)
KeepPage ==
  /\ pc = "keep"
  /\ xrecords' = [of |-> walk.of, kept |-> walk.kept]
  /\ IF xabort THEN xstatus' = "done" /\ Restart("none")
     ELSE xstatus' = xstatus /\ Goto(IF walk.more THEN "fetch" ELSE "walked")
  /\ UNCHANGED <<form, resolved, page, shown, xabort, turns, ghosts, clicks>>

FinishExport ==
  /\ pc = "walked"
  /\ xstatus' = "done" /\ Restart("none")
  /\ UNCHANGED <<form, resolved, page, shown, xrecords, xabort, turns, ghosts, clicks>>

-----------------------------------------------------------------------------
(* Pagination and the record inspected                                     *)

NextOffset == offset + Len(results.rows)
AtCeiling  == NextOffset + PageSize > Ceiling
PastTotal  == total.n >= 0 /\ NextOffset >= total.n

(* The buttons are drawn, enabled or not; one pressed before acts even if  *)
(* it is drawn disabled now.                                               *)
DrawTurns ==
  turns' = (IF offset > 0 THEN {"prev"} ELSE {})
           \cup (IF AtCeiling \/ PastTotal THEN {} ELSE {"next"})

(* slip: the page moves on before its rows are there                       *)
TurnAtOnce ==
  /\ pc = "pages" /\ pressed \in {"prev", "next"}
  /\ DrawTurns
  /\ offset' = (IF pressed = "prev" THEN Max2(0, offset - PageSize) ELSE NextOffset)
  /\ Ask(sel, resolved, offset') /\ pc' = "unselect"
  /\ UNCHANGED <<pressed, answer, walk>>
  /\ UNCHANGED <<form, resolved, results, total, shown, export, ghosts, clicks>>

Turn ==
  /\ pc = "pages" /\ pressed \in {"prev", "next"}
  /\ DrawTurns
  /\ Ask(sel, resolved, IF pressed = "prev" THEN Max2(0, offset - PageSize) ELSE NextOffset)
  /\ pc' = "unselect" /\ UNCHANGED <<pressed, answer, walk>>
  /\ UNCHANGED <<form, resolved, page, shown, export, ghosts, clicks>>

Stay ==
  /\ pc = "pages" /\ pressed \notin {"prev", "next"}
  /\ DrawTurns /\ Goto("detail")
  /\ UNCHANGED <<form, resolved, page, shown, export, ghosts, clicks>>

Inspecting == pressed = "fetch" /\ selected # 0

FetchRecord ==
  /\ pc = "detail" /\ Inspecting
  /\ \/ cache' = cache \cup {selected} /\ error' = error
     \/ error' = "record" /\ cache' = cache
  /\ Restart("none")
  /\ UNCHANGED <<form, resolved, page, options, selected, agg, done, clauses,
                 export, turns, ghosts, clicks>>

Rest ==
  /\ pc = "detail" /\ ~Inspecting /\ Goto("idle")
  /\ UNCHANGED <<form, resolved, page, shown, export, turns, ghosts, clicks>>

-----------------------------------------------------------------------------
(* The operator: each interaction stops the script and starts it again.    *)

Interact == clicks < MaxClicks /\ clicks' = clicks + 1

(* What the page offers to click                                           *)
Drawn(b) ==
  CASE b \in {"prev", "next"} -> b \in turns
    [] b = "dismiss"          -> error # "none"
    [] b = "clear"            -> xstatus \in {"done", "error"}
    [] b = "export"           -> Exportable
    [] b = "pick"             -> Shown # {}
    [] b = "fetch"            -> selected \in Shown
    [] b = "remove"           -> clauses # <<>>
    [] b = "apply"            -> Lucene
    [] OTHER                  -> TRUE

Buttons == {"dismiss", "refresh", "search", "add", "remove", "apply", "pick", "export",
            "clear", "prev", "next", "fetch"}

Click(b) ==
  /\ Interact /\ Drawn(b) /\ Restart(b)
  /\ UNCHANGED <<form, resolved, page, shown, export, turns, ghosts>>

(* The button is there only while the loop runs.                           *)
AbortExport ==
  /\ Interact /\ pc \in {"begin", "fetch", "keep", "walked"}
  /\ xabort' = TRUE /\ Restart("none")
  /\ UNCHANGED <<form, resolved, page, shown, xstatus, xrecords, turns, ghosts>>

(* A changed widget reaches the session with the next script run.          *)
Fill ==
  /\ Interact /\ Restart("none")
  /\ \/ sel' \in SUBSET options /\ UNCHANGED <<text, aggregate>>
     \/ text' \in Texts \cup {NoText} /\ UNCHANGED <<sel, aggregate>>
     \/ aggregate' = ~aggregate /\ UNCHANGED <<sel, text>>
  /\ UNCHANGED <<resolved, page, shown, export, turns, ghosts>>

Script ==
  \/ PreflightFails \/ Dismiss \/ Enter
  \/ ListKinds \/ Aggregate \/ Overflow \/ SearchAnswered \/ SearchFails
  \/ StoreResults \/ StoreTotal \/ StoreOffset \/ ClearError \/ Booted
  \/ Toolbar \/ Unselect \/ Resolve \/ AddClause \/ RemoveClause \/ Apply \/ NoBuilder
  \/ NoRows \/ Select
  \/ ClearExport \/ StartExport \/ NoExport \/ BeginWalk \/ PageArrives \/ PageFails
  \/ KeepPage \/ FinishExport
  \/ Turn \/ Stay \/ FetchRecord \/ Rest

Quiet == pc = "idle" /\ clicks = MaxClicks /\ UNCHANGED vars

Next == Script \/ (\E b \in Buttons : Click(b)) \/ AbortExport \/ Fill \/ Quiet

Spec == Init /\ [][Next]_vars

-----------------------------------------------------------------------------
(* Every variable holds a value of its type.                               *)
Walks == [of : Queries, n : Nat, kept : SUBSET Nat, more : BOOLEAN]
Pages == [of : Queries, at : Nat, rows : Seq(Nat)]

TypeOK ==
  /\ sel \in SUBSET Kinds /\ text \in Texts \cup {NoText} /\ aggregate \in BOOLEAN
  /\ options \in SUBSET Kinds /\ resolved \in Texts \cup {NoText}
  /\ results \in Pages /\ total \in [of : Queries, n : Nat \cup {-1}] /\ offset \in Nat
  /\ error \in {"none", "search", "record"} /\ selected \in Nat /\ cache \in SUBSET Nat
  /\ agg \in SUBSET Queries /\ done \in BOOLEAN /\ clauses \in Seq(BOOLEAN)
  /\ xstatus \in {"idle", "exporting", "done", "error"} /\ xrecords \in [of : Queries, kept : SUBSET Nat]
  /\ xabort \in BOOLEAN /\ turns \in SUBSET {"prev", "next"}
  /\ pressed \in Buttons \cup {"none"}
  /\ req \in [of : Queries, at : Nat] /\ walk \in Walks
  /\ settled \in BOOLEAN /\ informed \in BOOLEAN /\ clicks \in 0 .. MaxClicks

(* The rows, the total and the numbers in the caption are of one answer,   *)
(* to the applied text under some choice of kinds, wherever searches, page *)
(* turns and exports were stopped or failed; but for a Refresh or a Search *)
(* that was stopped or failed since, and an answer stored in part.         *)
PageIsOneAnswer ==
  settled => /\ results.at = offset /\ results.of = total.of
             /\ \E kinds \in SUBSET Kinds : results.of = Query(kinds, resolved)

(* An export offered as complete holds every record of one query, however  *)
(* often the loop failed, was stopped or was started anew before; hits     *)
(* without an id or a kind are no records, and are missing from it.        *)
ExportsAreWhole ==
  xstatus = "done" /\ ~xabort =>
    xrecords.kept = Parsed(xrecords.of, 0, Len(Hits[xrecords.of]))

(* The page takes its first load for made only when it holds an answer, or *)
(* the failure of a search in its banner until the operator dismisses it:  *)
(* a click during the first load never leaves an empty page without cause. *)
FirstLoadIsAccountedFor == done => informed \/ error = "search"
=============================================================================
