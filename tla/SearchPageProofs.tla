---------------------------- MODULE SearchPageProofs ----------------------------
(***************************************************************************)
(* What TLAPS proves of SearchPage, for every index and set of queries,    *)
(* every page size and ceiling, and any number of interactions.            *)
(***************************************************************************)
EXTENDS SearchPage, FiniteSetTheorems, TLAPS

(* The operator stops the script and starts it again.                      *)
Interaction == (\E b \in Buttons : Click(b)) \/ AbortExport \/ Fill

-----------------------------------------------------------------------------
(* The first load                                                          *)

(* Behind an answer stored the page is informed, and behind a search that  *)
(* was to be the first load it is that, or the banner names the failure;   *)
(* without an answer there is no row to select, so no other banner.        *)
FirstInv ==
  /\ FirstLoadIsAccountedFor
  /\ pc \in {"total", "offset", "clear"} => informed
  /\ pc = "booted" => informed \/ error = "search"
  /\ informed \/ (results.rows = <<>> /\ selected = 0)

LEMMA FirstInvStep ==
  ASSUME FirstInv, [Next]_vars
  PROVE  FirstInv'
<1>. USE DEF FirstInv, FirstLoadIsAccountedFor, shown, ghosts, page
<1>1. CASE PreflightFails \/ Enter \/ ListKinds \/ Aggregate \/ Overflow
  BY <1>1 DEF PreflightFails, Enter, ListKinds, Aggregate, Overflow, Goto, Restart
<1>2. CASE SearchAnswered \/ SearchFails \/ StoreResults \/ StoreTotal \/ StoreOffset \/ ClearError \/ Booted
  BY <1>2 DEF SearchAnswered, SearchFails, StoreResults, StoreTotal, StoreOffset, ClearError, Booted,
       Finish, Goto, Restart
<1>3. CASE Toolbar \/ Unselect \/ Resolve \/ NoBuilder \/ NoRows
  BY <1>3 DEF Toolbar, Unselect, Resolve, NoBuilder, NoRows, Goto, Restart
<1>4. CASE AddClause \/ RemoveClause \/ Apply
  <2>1. /\ UNCHANGED <<done, informed, error, results, selected>>
        /\ pc' \notin {"total", "offset", "clear", "booted"}
    BY <1>4 DEF AddClause, RemoveClause, Apply, SetClauses, Goto, Restart
  <2>. QED  BY <2>1
<1>5. CASE \/ ClearExport \/ StartExport \/ NoExport \/ BeginWalk \/ PageArrives \/ PageFails
           \/ KeepPage \/ FinishExport
  <2>1. /\ UNCHANGED <<done, informed, error, results, selected>>
        /\ pc' \notin {"total", "offset", "clear", "booted"}
    BY <1>5 DEF ClearExport, StartExport, NoExport, BeginWalk, PageArrives, PageFails, KeepPage,
         FinishExport, Goto, Restart
  <2>. QED  BY <2>1
<1>6. CASE Turn \/ Stay \/ FetchRecord \/ Rest
  BY <1>6 DEF Turn, Stay, FetchRecord, Inspecting, Rest, Goto, Restart
<1>7. CASE Interaction
  BY <1>7 DEF Interaction, Click, AbortExport, Fill, Restart
<1>8. CASE Select
  <2>1. results.rows # <<>>
    BY <1>8 DEF Select, Shown
  <2>. QED  BY <1>8, <2>1 DEF Select, Goto
<1>9. CASE Dismiss
  <2>1. /\ UNCHANGED <<done, results, selected>> /\ pc' = "top"
        /\ informed' = (informed \/ done)
    BY <1>9 DEF Dismiss, Restart
  <2>2. done' => informed'
    BY <2>1, Zenon
  <2>3. informed => informed'
    BY <2>1, Zenon
  <2>. QED  BY <2>1, <2>2, <2>3
<1>10. CASE UNCHANGED vars
  BY <1>10 DEF vars
<1>. QED  BY <1>1, <1>2, <1>3, <1>4, <1>5, <1>6, <1>7, <1>8, <1>9, <1>10 DEF Next, Script, Interaction, Quiet

(* _autorun_once is entered anew by every script run until a search of it  *)
(* has come to its end, with an answer stored or a failure in the banner.  *)
THEOREM FirstLoadAccounts == Spec => []FirstLoadIsAccountedFor
<1>1. Init => FirstInv
  BY DEF Init, FirstInv, FirstLoadIsAccountedFor, NoPage
<1>2. FirstInv => FirstLoadIsAccountedFor
  BY DEF FirstInv
<1>. QED  BY <1>1, <1>2, FirstInvStep, PTL DEF Spec

-----------------------------------------------------------------------------
(* What the form holds                                                     *)

FormTyped ==
  /\ sel \in SUBSET Kinds /\ options \in SUBSET Kinds
  /\ text \in Texts \cup {NoText} /\ resolved \in Texts \cup {NoText}

LEMMA FormInvariant == Spec => []FormTyped
<1>. USE DEF FormTyped, form, shown
<1>1. Init => FormTyped
  BY DEF Init
<1>2. FormTyped /\ [Next]_vars => FormTyped'
  <2>. SUFFICES ASSUME FormTyped, [Next]_vars PROVE FormTyped'
    OBVIOUS
  <2>1. CASE PreflightFails \/ Dismiss \/ Enter \/ ListKinds \/ Aggregate \/ Overflow
    BY <2>1 DEF PreflightFails, Dismiss, Enter, ListKinds, Aggregate, Overflow
  <2>2. CASE SearchAnswered \/ SearchFails \/ StoreResults \/ StoreTotal \/ StoreOffset \/ ClearError \/ Booted
    BY <2>2 DEF SearchAnswered, SearchFails, StoreResults, StoreTotal, StoreOffset, ClearError, Booted
  <2>3. CASE \/ Toolbar \/ Unselect \/ Resolve \/ AddClause \/ RemoveClause \/ Apply \/ NoBuilder
             \/ NoRows \/ Select
    BY <2>3 DEF Toolbar, Unselect, Resolve, AddClause, RemoveClause, Apply, NoBuilder, NoRows, Select,
         SetClauses
  <2>4. CASE \/ ClearExport \/ StartExport \/ NoExport \/ BeginWalk \/ PageArrives \/ PageFails
             \/ KeepPage \/ FinishExport
    BY <2>4 DEF ClearExport, StartExport, NoExport, BeginWalk, PageArrives, PageFails, KeepPage, FinishExport
  <2>5. CASE Turn \/ Stay \/ FetchRecord \/ Rest
    BY <2>5 DEF Turn, Stay, FetchRecord, Rest
  <2>6. CASE Interaction
    BY <2>6 DEF Interaction, Click, AbortExport, Fill
  <2>7. CASE UNCHANGED vars
    BY <2>7 DEF vars
  <2>. QED  BY <2>1, <2>2, <2>3, <2>4, <2>5, <2>6, <2>7 DEF Next, Script, Interaction, Quiet
<1>. QED  BY <1>1, <1>2, PTL DEF Spec

(* A search is for something the service can be asked.                     *)
LEMMA QueryTyped ==
  ASSUME NEW kinds \in SUBSET Kinds, NEW t \in Texts \cup {NoText}
  PROVE  Query(kinds, t) \in Queries
BY DEF Query, Queries

-----------------------------------------------------------------------------
(* The export                                                              *)

Walking == {"begin", "fetch", "keep", "walked"}

(* The walk of the loop that runs now has the records among the hits read, *)
(* and ends with the last hit; what is stored of it is offered as complete *)
(* by that loop alone.                                                     *)
WalkInv ==
  /\ walk \in [of : Queries, n : Nat, kept : SUBSET Int, more : BOOLEAN]
  /\ walk.n <= Len(Hits[walk.of]) /\ walk.kept = Parsed(walk.of, 0, walk.n)
  /\ pc \in Walking => xstatus = "exporting"
  /\ pc = "keep" /\ ~walk.more => walk.n = Len(Hits[walk.of])
  /\ pc = "walked" => xrecords.kept = Parsed(xrecords.of, 0, Len(Hits[xrecords.of]))
  /\ ExportsAreWhole

(* A walk that has read nothing has kept nothing.                          *)
LEMMA FreshWalk ==
  ASSUME NEW q \in Queries
  PROVE  0 <= Len(Hits[q]) /\ Parsed(q, 0, 0) = {}
<1>1. Len(Hits[q]) \in Nat
  BY SearchAssumption
<1>2. 0 + 1 .. 0 = {}
  OBVIOUS
<1>. QED  BY <1>1, <1>2 DEF Parsed

LEMMA NoWalkIsFresh ==
  /\ NoWalk \in [of : Queries, n : Nat, kept : SUBSET Int, more : BOOLEAN]
  /\ NoWalk.n <= Len(Hits[NoWalk.of]) /\ NoWalk.kept = Parsed(NoWalk.of, 0, NoWalk.n)
<1>1. Everything \in Queries
  BY DEF Everything, Queries
<1>. QED  BY <1>1, FreshWalk DEF NoWalk

(* The records up to one hit and from there to another are those up to it. *)
LEMMA ParsedOn ==
  ASSUME NEW q, NEW m \in Nat, NEW n \in Nat, m <= n
  PROVE  Parsed(q, 0, m) \cup Parsed(q, m, n) = Parsed(q, 0, n)
BY DEF Parsed

(* The other steps leave the loop and what it stores alone.                *)
LEMMA WalkAtRest ==
  ASSUME WalkInv, UNCHANGED <<xstatus, xrecords>>, xabort' = xabort \/ xabort',
         walk' = walk \/ walk' = NoWalk, pc' \in Walking => pc' = pc /\ walk' = walk
  PROVE  WalkInv'
BY NoWalkIsFresh DEF WalkInv, ExportsAreWhole, Walking, Parsed

LEMMA WalkInvStep ==
  ASSUME WalkInv, FormTyped, [Next]_vars
  PROVE  WalkInv'
<1>. USE DEF export, local
<1>1. CASE PreflightFails \/ Dismiss \/ Enter \/ ListKinds \/ Aggregate \/ Overflow
  BY <1>1, WalkAtRest DEF PreflightFails, Dismiss, Enter, ListKinds, Aggregate, Overflow, Goto, Restart, Walking
<1>2. CASE SearchAnswered \/ SearchFails \/ StoreResults \/ StoreTotal \/ StoreOffset \/ ClearError \/ Booted
  BY <1>2, WalkAtRest DEF SearchAnswered, SearchFails, StoreResults, StoreTotal, StoreOffset, ClearError,
       Booted, Finish, Goto, Restart, Walking
<1>3. CASE \/ Toolbar \/ Unselect \/ Resolve \/ AddClause \/ RemoveClause \/ Apply \/ NoBuilder
           \/ NoRows \/ Select
  BY <1>3, WalkAtRest DEF Toolbar, Unselect, Resolve, AddClause, RemoveClause, Apply, NoBuilder, NoRows,
       Select, SetClauses, Goto, Restart, Walking
<1>4. CASE NoExport \/ Turn \/ Stay \/ FetchRecord \/ Rest
  BY <1>4, WalkAtRest DEF NoExport, Turn, Stay, FetchRecord, Rest, Goto, Restart, Walking
<1>5. CASE Interaction
  BY <1>5, WalkAtRest DEF Interaction, Click, AbortExport, Fill, Restart, Walking
<1>6. CASE ClearExport
  BY <1>6, NoWalkIsFresh DEF ClearExport, Restart, WalkInv, ExportsAreWhole, Walking, Parsed
<1>7. CASE StartExport
  <2>1. Query(sel, resolved) \in Queries
    BY QueryTyped DEF FormTyped
  <2>2. walk' = [of |-> Query(sel, resolved), n |-> 0, kept |-> {}, more |-> TRUE]
    BY <1>7 DEF StartExport, NoWalk
  <2>3. walk' \in [of : Queries, n : Nat, kept : SUBSET Int, more : BOOLEAN]
    BY <2>1, <2>2
  <2>4. walk'.n <= Len(Hits[walk'.of]) /\ walk'.kept = Parsed(walk'.of, 0, walk'.n)
    BY <2>1, <2>2, FreshWalk
  <2>. QED  BY <1>7, <2>3, <2>4 DEF StartExport, WalkInv, ExportsAreWhole
<1>8. CASE BeginWalk
  BY <1>8 DEF BeginWalk, Goto, WalkInv, ExportsAreWhole, Walking, Parsed
<1>9. CASE PageArrives
  <2>. DEFINE all  == Len(Hits[walk.of])
              read == Min2(walk.n + PageSize, all)
  <2>1. all \in Nat
    BY SearchAssumption DEF WalkInv
  <2>2. read \in Nat /\ walk.n <= read /\ read <= all
    BY <2>1, SearchAssumption DEF WalkInv, Min2
  <2>3. PICK more \in BOOLEAN :
          /\ read < all => more
          /\ walk' = [walk EXCEPT !.n = read, !.more = more,
                                 !.kept = @ \cup Parsed(walk.of, walk.n, read)]
    BY <1>9 DEF PageArrives
  <2>4. /\ walk'.of = walk.of /\ walk'.n = read /\ walk'.more = more
        /\ walk'.kept = walk.kept \cup Parsed(walk.of, walk.n, read)
        /\ walk' \in [of : Queries, n : Nat, kept : SUBSET Int, more : BOOLEAN]
    <3>1. Parsed(walk.of, walk.n, read) \in SUBSET Int
      BY <2>2 DEF WalkInv, Parsed
    <3>. HIDE DEF read
    <3>. QED  BY <2>2, <2>3, <3>1 DEF WalkInv
  <2>5. walk'.kept = Parsed(walk'.of, 0, walk'.n)
    BY <2>2, <2>4, ParsedOn DEF WalkInv
  <2>6. UNCHANGED <<xstatus, xrecords, xabort>> /\ pc = "fetch" /\ pc' = "keep"
    BY <1>9 DEF PageArrives
  <2>7. walk'.n <= Len(Hits[walk'.of]) /\ (~walk'.more => walk'.n = Len(Hits[walk'.of]))
    BY <2>1, <2>2, <2>3, <2>4
  <2>. QED  BY <2>4, <2>5, <2>6, <2>7 DEF WalkInv, ExportsAreWhole, Walking, Parsed
<1>10. CASE PageFails
  BY <1>10, NoWalkIsFresh DEF PageFails, Restart, WalkInv, ExportsAreWhole, Walking, Parsed
<1>11. CASE KeepPage
  BY <1>11, NoWalkIsFresh DEF KeepPage, Goto, Restart, WalkInv, ExportsAreWhole, Walking, Parsed
<1>12. CASE FinishExport
  BY <1>12, NoWalkIsFresh DEF FinishExport, Restart, WalkInv, ExportsAreWhole, Walking, Parsed
<1>13. CASE UNCHANGED vars
  BY <1>13, WalkAtRest DEF vars
<1>. QED  BY <1>1, <1>2, <1>3, <1>4, <1>5, <1>6, <1>7, <1>8, <1>9, <1>10, <1>11, <1>12, <1>13
          DEF Next, Script, Interaction, Quiet

(* An export offered as complete holds every record its query finds: an    *)
(* abort, a page that fails and a click that stops the loop between the    *)
(* two writes of a page all leave something else than "done".              *)
THEOREM ExportsEndWhole == Spec => []ExportsAreWhole
<1>1. Init => WalkInv
  BY NoWalkIsFresh DEF Init, WalkInv, ExportsAreWhole, Walking
<1>2. WalkInv => ExportsAreWhole
  BY DEF WalkInv
<1>. QED  BY <1>1, <1>2, WalkInvStep, FormInvariant, PTL DEF Spec

-----------------------------------------------------------------------------
(* The page                                                                *)

OfSome(q) == \E kinds \in SUBSET Kinds : q = Query(kinds, resolved)

(* A search asks for the text that is applied; its answer is stored write  *)
(* by write, and the page counts as settled after the last.                *)
PageInv ==
  /\ pc \in {"search", "ask"} => OfSome(req.of)
  /\ pc = "unselect" /\ pressed # "search" => OfSome(req.of)
  /\ pc \in {"results", "total", "offset"} =>
       answer.page.of = answer.total.of /\ OfSome(answer.page.of)
  /\ pc \in {"total", "offset"} => ~settled /\ results = answer.page
  /\ pc = "offset" => total = answer.total
  /\ pc = "resolve" => ~settled
  /\ pc = "unselect" /\ pressed = "search" => ~settled
  /\ PageIsOneAnswer

(* The script is nowhere near a search.                                    *)
Elsewhere ==
  pc \notin {"search", "ask", "unselect", "results", "total", "offset", "resolve"}

LEMMA PageAtRest ==
  ASSUME PageInv, UNCHANGED <<resolved, results, total, offset, settled>>, Elsewhere'
  PROVE  PageInv'
BY DEF PageInv, PageIsOneAnswer, Elsewhere

LEMMA PageInvStep ==
  ASSUME PageInv, FormTyped, [Next]_vars
  PROVE  PageInv'
<1>. USE DEF page, ghosts
<1>1. CASE PreflightFails \/ Dismiss \/ Enter \/ Overflow \/ SearchFails \/ ClearError \/ Booted
  BY <1>1, PageAtRest DEF PreflightFails, Dismiss, Enter, Overflow, SearchFails, ClearError, Booted,
       Finish, Goto, Restart, Elsewhere
<1>2. CASE \/ AddClause \/ RemoveClause \/ Apply \/ NoBuilder \/ NoRows \/ Select
           \/ Stay \/ FetchRecord \/ Rest
  BY <1>2, PageAtRest DEF AddClause, RemoveClause, Apply, NoBuilder, NoRows, Select, SetClauses,
       Stay, FetchRecord, Rest, Goto, Restart, Elsewhere
<1>3. CASE \/ ClearExport \/ StartExport \/ NoExport \/ BeginWalk \/ PageArrives \/ PageFails
           \/ KeepPage \/ FinishExport
  <2>1. UNCHANGED <<resolved, page, settled>> /\ Elsewhere'
    BY <1>3 DEF ClearExport, StartExport, NoExport, BeginWalk, PageArrives, PageFails, KeepPage,
         FinishExport, Goto, Restart, Elsewhere
  <2>. QED  BY <2>1, PageAtRest
<1>4. CASE Interaction
  BY <1>4, PageAtRest DEF Interaction, Click, AbortExport, Fill, Restart, Elsewhere
<1>5. CASE ListKinds
  <2>1. req'.of = Query(sel \cap options', resolved) /\ sel \cap options' \in SUBSET Kinds
    BY <1>5 DEF ListKinds, Ask, FormTyped
  <2>. QED  BY <1>5, <2>1 DEF ListKinds, PageInv, PageIsOneAnswer, OfSome
<1>6. CASE Aggregate
  BY <1>6 DEF Aggregate, Goto, local, PageInv, PageIsOneAnswer, OfSome
<1>7. CASE SearchAnswered
  BY <1>7 DEF SearchAnswered, PageInv, PageIsOneAnswer, OfSome
<1>8. CASE StoreResults
  BY <1>8 DEF StoreResults, Goto, local, PageInv, PageIsOneAnswer, OfSome
<1>9. CASE StoreTotal
  BY <1>9 DEF StoreTotal, Goto, local, PageInv, PageIsOneAnswer, OfSome
<1>10. CASE StoreOffset
  BY <1>10 DEF StoreOffset, Goto, local, PageInv, PageIsOneAnswer, OfSome
<1>11. CASE Toolbar
  BY <1>11 DEF Toolbar, Goto, local, PageInv, PageIsOneAnswer
<1>12. CASE Unselect
  BY <1>12 DEF Unselect, Goto, local, PageInv, PageIsOneAnswer, OfSome
<1>13. CASE Resolve
  <2>1. req' = req \/ req'.of = Query(sel, text)
    BY <1>13 DEF Resolve, Goto, Ask, local
  <2>. QED  BY <1>13, <2>1 DEF Resolve, Goto, Ask, local, FormTyped, PageInv, PageIsOneAnswer, OfSome
<1>14. CASE Turn
  <2>1. req'.of = Query(sel, resolved)
    BY <1>14 DEF Turn, Ask
  <2>. QED  BY <1>14, <2>1 DEF Turn, FormTyped, PageInv, PageIsOneAnswer, OfSome
<1>15. CASE UNCHANGED vars
  BY <1>15 DEF vars, local, PageInv, PageIsOneAnswer, OfSome
<1>. QED  BY <1>1, <1>2, <1>3, <1>4, <1>5, <1>6, <1>7, <1>8, <1>9, <1>10, <1>11, <1>12, <1>13, <1>14,
             <1>15 DEF Next, Script, Interaction, Quiet

(* A settled page is one answer to the text that is applied: its rows, its *)
(* total and its offset, across every click that stopped a search, a turn  *)
(* of the page or an export between two of their writes.                   *)
THEOREM PagesAreOneAnswer == Spec => []PageIsOneAnswer
<1>1. Init => PageInv
  <2>1. Everything = Query({}, NoText)
    <3>1. Cardinality({}) <= 1
      BY FS_EmptySet
    <3>. QED  BY <3>1 DEF Everything, Query
  <2>. QED  BY <2>1 DEF Init, PageInv, PageIsOneAnswer, OfSome, NoPage, Unknown
<1>2. PageInv => PageIsOneAnswer
  BY DEF PageInv
<1>. QED  BY <1>1, <1>2, PageInvStep, FormInvariant, PTL DEF Spec
=============================================================================
