--------------------------- MODULE ConnectionProofs ---------------------------
(***************************************************************************)
(* What TLAPS proves of Connection, for any tabs, settings, secrets and    *)
(* tokens, whatever the length of each, and any number of interactions.    *)
(***************************************************************************)
EXTENDS Connection, TLAPS

(* What the operator, or the end of the process, does between the steps of *)
(* a script.                                                               *)
Outside ==
  (\E s \in Tabs, b \in Pressed : Open(s, b)) \/ Interrupt \/ (\E s \in Tabs : Reopen(s)) \/ Crash

-----------------------------------------------------------------------------
(* Types                                                                   *)

LEMMA LoadedTyped ==
  ASSUME TypeOK
  PROVE  LoadUserToken \in Bearers
BY ConnectionAssumption DEF TypeOK, LoadUserToken, Bearers

Healths == [of : Connection \cup {NoConn}, by : Bearers, fresh : BOOLEAN]

LEMMA HealthTyped ==
  ASSUME TypeOK
  PROVE  /\ NoHealth \in Healths /\ LatestRun \in Healths
         /\ \A s \in Tabs : Checked(conn[s], token[s]) \in Healths
<1>1. NoHealth \in Healths
  BY DEF Healths, NoHealth, Bearers
<1>2. LatestRun \in Healths
  BY <1>1 DEF TypeOK, LatestRun, Healths, Connection, Bearers
<1>3. \A s \in Tabs : Checked(conn[s], token[s]) \in Healths
  BY DEF TypeOK, Checked, Healths
<1>. QED  BY <1>1, <1>2, <1>3

LEMMA InitTyped == Init => TypeOK
<1>. SUFFICES ASSUME Init PROVE TypeOK
  OBVIOUS
<1>1. health \in [Tabs -> [of : Connection \cup {NoConn}, by : Bearers, fresh : BOOLEAN]]
  BY DEF Init, NoHealth, Bearers
<1>2. count \in 0 .. MaxChunks /\ k \in 0 .. MaxChunks + 1 /\ clicks \in 0 .. MaxClicks
  BY ConnectionAssumption DEF Init
<1>3. token \in [Tabs -> Bearers]
  BY DEF Init, Bearers
<1>. QED  BY <1>1, <1>2, <1>3 DEF Init, TypeOK, Pressed, InSession

LEMMA ContinueTyped ==
  ASSUME TypeOK, Continue, via # "none" => draft # NoConn
  PROVE  /\ UNCHANGED <<tab>> /\ pressed' \in Pressed
         /\ pc' \in {"show", "validate", "finally", "hydrate"}
         /\ pc' = "show" => via' # "none"
         /\ via' \in {via, "none"} /\ draft' \in {draft, NoConn} /\ bearer' \in {bearer, None}
         /\ via' # "none" => draft' # NoConn
         /\ k' = 0
BY DEF TypeOK, Continue, Start, Rerun, Pressed

(* The places of a script: save_connection has stored and activated what   *)
(* it goes on to show, and only a token that is given is kept.             *)
Saving   == via # "none"
Clearing == {"drop_token", "drop_flow", "drop_health"}

Places ==
  /\ tab = None => pc = "idle" /\ ~Saving
  /\ Saving => pc \in {"commit", "secret", "activate", "wipe", "show", "latest", "keep_profile"} \cup Clearing
  /\ Saving /\ pc # "commit" => row = draft.at
  /\ Saving /\ pc \notin {"commit", "secret", "activate"} => active
  /\ pc \in Clearing => Saving \/ pressed = "sign_out"
  /\ pc \in {"keep_health", "keep_token", "write"} => Keeping /\ bearer # None
  /\ pc = "wipe" => Saving \/ pressed = "sign_out" \/ bearer # None

LEMMA PlacesStep ==
  ASSUME TypeOK, Places, [Next]_vars
  PROVE  Places'
<1>. USE DEF Places, Saving, Clearing, Keeping, disk, script
<1>0. Saving => draft # NoConn
  BY DEF TypeOK
<1>1. CASE Hydrate \/ LoadProfile \/ LoadLatest \/ LoadNoLatest \/ SaveClicked \/ SaveFails
  BY <1>1 DEF Hydrate, LoadProfile, LoadLatest, LoadNoLatest, SaveClicked, SaveFails, Goto, Leave, Back, At
<1>2. CASE Commit \/ StoreSecret \/ Activate \/ Show \/ PersistProfile
  BY <1>2 DEF TypeOK, Commit, StoreSecret, Activate, Show, PersistProfile, Goto, Leave, At
<1>3. CASE DropToken \/ DropFlow \/ DropHealth
  BY <1>3 DEF DropToken, DropFlow, DropHealth, Goto, Start, At
<1>4. CASE NotKept
  BY <1>4 DEF NotKept, Continue, Start, Rerun, At
<1>5. CASE Wipe
  <2>1. CASE k < MaxChunks
    BY <1>5, <2>1 DEF Wipe, At
  <2>2. CASE ~(k < MaxChunks) /\ Keeping
    BY <1>5, <2>2 DEF Wipe, At
  <2>3. CASE ~(k < MaxChunks) /\ ~Keeping
    BY <1>5, <2>3 DEF Wipe, At, Continue, Start, Rerun
  <2>. QED  BY <2>1, <2>2, <2>3
<1>6. CASE Write
  <2>1. CASE k <= Length[bearer]
    BY <1>6, <2>1 DEF Write, At
  <2>2. CASE ~(k <= Length[bearer])
    BY <1>6, <2>2 DEF Write, At, Continue, Start, Rerun
  <2>. QED  BY <2>1, <2>2
<1>7. CASE KeepHealth \/ KeepToken \/ Callback \/ Paste
  BY <1>7, ConnectionAssumption
     DEF TypeOK, KeepHealth, KeepToken, Callback, Paste, Exchanged, PastedToken, Goto, Start, At
<1>8. CASE Finally \/ ToIdentity \/ StartFlow \/ SignOut
  BY <1>8 DEF Finally, ToIdentity, StartFlow, SignOut, Goto, Leave, At
<1>9. CASE NoTest \/ Test \/ Probe \/ RecordRun
  BY <1>9 DEF NoTest, Test, Probe, RecordRun, Goto, Over, At
<1>10. CASE Outside
  <2>1. CASE \E s \in Tabs, b \in Pressed : Open(s, b)
    BY <2>1, ConnectionAssumption DEF Open
  <2>2. CASE \E s \in Tabs : Reopen(s)
    BY <2>2 DEF Reopen
  <2>3. CASE Interrupt \/ Crash
    BY <2>3 DEF Interrupt, Crash, Over
  <2>. QED  BY <1>10, <2>1, <2>2, <2>3 DEF Outside
<1>11. CASE UNCHANGED vars
  BY <1>11 DEF vars
<1>. QED
  BY <1>1, <1>2, <1>3, <1>4, <1>5, <1>6, <1>7, <1>8, <1>9, <1>10, <1>11 DEF Next, Script, Outside, Quiet

LEMMA TypeStep ==
  ASSUME TypeOK, Places, [Next]_vars
  PROVE  TypeOK'
<1>. USE ConnectionAssumption DEF TypeOK, disk, session, script, InSession, Pressed
<1>1. CASE Hydrate
  <2>1. tab \in Tabs /\ token' \in [Tabs -> Bearers]
    BY <1>1, LoadedTyped DEF Hydrate, At, HydrateUserToken, Bearers
  <2>2. conn' \in [Tabs -> Connection \cup {NoConn}]
    BY <1>1, <2>1 DEF Hydrate, LoadConnection, LoadSecret, Connection
  <2>. QED  BY <1>1, <2>1, <2>2 DEF Hydrate, Goto
<1>2. CASE LoadProfile
  BY <1>2 DEF LoadProfile, Goto, At, LoadActiveProfile, Connection, NoConn
<1>3. CASE LoadLatest \/ LoadNoLatest
  <2>1. health' \in [Tabs -> Healths]
    BY <1>3, HealthTyped DEF LoadLatest, LoadNoLatest, Healths
  <2>. QED  BY <1>3, <2>1 DEF LoadLatest, LoadNoLatest, Leave, Healths
<1>4. CASE SaveClicked \/ SaveFails \/ Commit \/ StoreSecret
  BY <1>4 DEF SaveClicked, SaveFails, Commit, StoreSecret, Leave, Back, Goto, At, Connection, NoConn, Settings
<1>5. CASE Activate
  <2>1. row # None
    BY <1>5 DEF Activate, At, Places, Saving, Clearing, Connection, NoConn, Settings
  <2>. QED  BY <1>5, <2>1 DEF Activate, Goto, At
<1>6. CASE Show
  BY <1>6 DEF Show, Goto, At
<1>7. CASE PersistProfile
  BY <1>7 DEF PersistProfile, SaveProfile, Leave, At, Connection, NoConn
<1>8. CASE DropToken \/ DropFlow
  <2>1. token' \in [Tabs -> Bearers] /\ flow' \in [Tabs -> Settings \cup {None}]
    BY <1>8 DEF DropToken, DropFlow, Bearers
  <2>. QED  BY <1>8, <2>1 DEF DropToken, DropFlow, Goto, At
<1>9. CASE DropHealth \/ KeepHealth \/ Test
  <2>1. health' \in [Tabs -> Healths]
    BY <1>9, HealthTyped DEF DropHealth, KeepHealth, Test, Healths
  <2>. QED  BY <1>9, <2>1 DEF DropHealth, KeepHealth, Test, Goto, Start, At, Healths
<1>10. CASE NotKept
  BY <1>10, ContinueTyped DEF NotKept, At
<1>11. CASE Wipe
  <2>1. count' \in 0 .. MaxChunks /\ chunk' \in [1 .. MaxChunks -> Tokens \cup {None}]
    BY <1>11 DEF Wipe
  <2>2. CASE k < MaxChunks
    BY <1>11, <2>1, <2>2 DEF Wipe, At
  <2>3. CASE ~(k < MaxChunks) /\ Keeping
    BY <1>11, <2>1, <2>3 DEF Wipe, At, Keeping, Places, Saving
  <2>4. CASE ~(k < MaxChunks) /\ ~Keeping
    BY <1>11, <2>1, <2>4, ContinueTyped DEF Wipe, At
  <2>. QED  BY <2>2, <2>3, <2>4
<1>12. CASE Write
  BY <1>12, ContinueTyped DEF Write, At
<1>13. CASE KeepToken
  BY <1>13 DEF KeepToken, Start, At, Bearers
<1>14. CASE Callback \/ Paste
  BY <1>14 DEF Callback, Paste, Goto, At, Exchanged, PastedToken
<1>15. CASE Finally
  BY <1>15 DEF Finally, Leave, At
<1>16. CASE ToIdentity \/ SignOut
  BY <1>16 DEF ToIdentity, SignOut, Goto, At
<1>17. CASE StartFlow
  <2>1. flow' \in [Tabs -> Settings \cup {None}]
    BY <1>17 DEF StartFlow, AuthFlow, At, IsUser, Settings
  <2>. QED  BY <1>17, <2>1 DEF StartFlow, Goto
<1>18. CASE NoTest
  BY <1>18 DEF NoTest, Over
<1>19. CASE Probe
  <2>1. health' \in [Tabs -> Healths]
    BY <1>19, HealthTyped DEF Probe, At, Healths
  <2>. QED  BY <1>19, <2>1 DEF Probe, Over, Goto, At, Healths
<1>20. CASE RecordRun
  <2>1. profile' \in Settings \cup {None} /\ latest' \in Settings \cup {None}
    BY <1>20 DEF RecordRun, SaveProfile, RecordedRun, At, Connection, NoConn
  <2>. QED  BY <1>20, <2>1 DEF RecordRun, Over
<1>21. CASE Outside
  <2>1. /\ health' \in [Tabs -> Healths] /\ token' \in [Tabs -> Bearers]
        /\ conn' \in [Tabs -> Connection \cup {NoConn}] /\ flow' \in [Tabs -> Settings \cup {None}]
    <3>. USE HealthTyped DEF Healths, Bearers
    <3>1. CASE \E s \in Tabs, b \in Pressed : Open(s, b)
      BY <3>1 DEF Open
    <3>2. CASE Interrupt
      BY <3>2 DEF Interrupt
    <3>3. CASE \E s \in Tabs : Reopen(s)
      BY <3>3 DEF Reopen
    <3>4. CASE Crash
      BY <3>4 DEF Crash
    <3>. QED  BY <1>21, <3>1, <3>2, <3>3, <3>4 DEF Outside
  <2>2. clicks' \in 0 .. MaxClicks /\ UNCHANGED disk
    BY <1>21 DEF Outside, Open, Interrupt, Reopen, Crash, Interact
  <2>3. (tab' \in Tabs /\ pc' = "hydrate" /\ pressed' \in Pressed /\ UNCHANGED <<via, draft, bearer, k>>)
        \/ UNCHANGED script \/ Over
    BY <1>21 DEF Outside, Open, Interrupt, Reopen, Crash
  <2>. QED  BY <2>1, <2>2, <2>3 DEF Over, Healths
<1>22. CASE UNCHANGED vars
  BY <1>22 DEF vars
<1>. QED
  BY <1>1, <1>2, <1>3, <1>4, <1>5, <1>6, <1>7, <1>8, <1>9, <1>10, <1>11, <1>12, <1>13, <1>14, <1>15,
     <1>16, <1>17, <1>18, <1>19, <1>20, <1>21, <1>22
     DEF Next, Script, Outside, Quiet

LEMMA PlacesInvariant == Spec => [](TypeOK /\ Places)
<1>1. Init => TypeOK /\ Places
  BY InitTyped DEF Init, Places, Saving, Clearing
<1>2. TypeOK /\ Places /\ [Next]_vars => (TypeOK /\ Places)'
  BY TypeStep, PlacesStep
<1>. QED  BY <1>1, <1>2, PTL DEF Spec

(* Whatever the order of clicks, failures and restarts, every variable     *)
(* keeps to its type and a script's locals fit the place it stands at.     *)
THEOREM TypeCorrect == Spec => []TypeOK
BY PlacesInvariant, PTL

-----------------------------------------------------------------------------
(* The connection a tab shows                                              *)

LEMMA ShownStep ==
  ASSUME TypeOK, Places, [Next]_vars
  PROVE  \A s \in Tabs : conn'[s] # conn[s] /\ conn'[s] # NoConn => row = conn'[s].at /\ active
<1>. USE DEF TypeOK
<1>1. CASE Hydrate
  BY <1>1 DEF Hydrate, LoadConnection, At
<1>2. CASE Show
  BY <1>2 DEF Show, At, Places, Saving
<1>3. CASE Script /\ ~Hydrate /\ ~Show
  <2>1. UNCHANGED conn
    BY <1>3
       DEF Script, LoadProfile, LoadLatest, LoadNoLatest, SaveClicked, SaveFails, Commit, StoreSecret,
         Activate, PersistProfile, DropToken, DropFlow, DropHealth, NotKept, Wipe, Write, KeepHealth,
         KeepToken, Callback, Finally, ToIdentity, StartFlow, SignOut, Paste, NoTest, Test, Probe,
         RecordRun, session
  <2>. QED  BY <2>1
<1>4. CASE Outside
  BY <1>4 DEF Outside, Open, Interrupt, Reopen, Crash, session
<1>5. CASE UNCHANGED vars
  BY <1>5 DEF vars, session
<1>. QED  BY <1>1, <1>2, <1>3, <1>4, <1>5 DEF Next, Outside, Quiet

(* save_connection stores the settings, the secret and then is_active, and *)
(* only then gives the connection to the session: a tab never starts to    *)
(* show a connection that another tab would not find.                      *)
THEOREM ShowsWhatIsSaved == Spec => ShownIsSaved
<1>1. TypeOK /\ Places /\ [Next]_vars =>
        [\A s \in Tabs : conn'[s] # conn[s] /\ conn'[s] # NoConn => row = conn'[s].at /\ active]_vars
  BY ShownStep
<1>. QED  BY <1>1, PlacesInvariant, PTL DEF Spec, ShownIsSaved

-----------------------------------------------------------------------------
(* The token in the credential store                                       *)

(* The chunks a count speaks of are one token's, and all of it.            *)
Kept == \E t \in Tokens : Length[t] = count /\ \A i \in 1 .. count : chunk[i] = t

Whole ==
  /\ count # 0 => Kept
  /\ pc = "wipe" /\ k # 0 => count = 0
  /\ pc = "write" => count = 0 /\ k # 0 /\ \A i \in 1 .. k - 1 : chunk[i] = bearer

LEMMA LoadedWhole ==
  ASSUME TypeOK, Whole
  PROVE  LoadUserToken # Garbled
<1>1. CASE count = 0
  BY <1>1, ConnectionAssumption DEF LoadUserToken
<1>2. CASE count # 0
  <2>1. 1 \in 1 .. count /\ \A i \in 1 .. count : chunk[i] = chunk[1]
    BY <1>2 DEF TypeOK, Whole, Kept
  <2>2. chunk[1] # Garbled
    BY <2>1, ConnectionAssumption DEF TypeOK
  <2>. QED  BY <2>1, <2>2, ConnectionAssumption DEF LoadUserToken
<1>. QED  BY <1>1, <1>2

LEMMA WholeStep ==
  ASSUME TypeOK, Places, Whole, [Next]_vars
  PROVE  Whole'
<1>. USE DEF Whole, Kept, disk, script
<1>1. CASE Wipe
  <2>1. k \in Nat /\ MaxChunks \in Nat
    BY ConnectionAssumption DEF TypeOK
  <2>2. CASE k = 0
    <3>1. count' = 0
      BY <1>1, <2>2 DEF Wipe
    <3>2. pc' = "write" => k' = 1
      BY <1>1, <2>1, <2>2 DEF Wipe, At, Continue, Start, Rerun
    <3>. QED  BY <3>1, <3>2
  <2>3. CASE k # 0
    <3>1. count' = 0
      BY <1>1, <2>3 DEF Wipe, At
    <3>2. pc' = "write" => k' = 1
      BY <1>1, <2>1, <2>3 DEF Wipe, At, Continue, Start, Rerun
    <3>. QED  BY <3>1, <3>2
  <2>. QED  BY <2>2, <2>3
<1>2. CASE Write
  <2>1. CASE k <= Length[bearer]
    <3>1. k \in 1 .. MaxChunks /\ Length[bearer] \in Nat
      BY <1>2, <2>1, ConnectionAssumption DEF Write, At, TypeOK, Places
    <3>2. pc' = "write" /\ count' = 0 /\ k' = k + 1 /\ bearer' = bearer /\ chunk' = [chunk EXCEPT ![k] = bearer]
      BY <1>2, <2>1 DEF Write, At
    <3>3. \A i \in 1 .. k' - 1 : chunk'[i] = bearer
      BY <1>2, <3>1, <3>2 DEF Write, At, TypeOK
    <3>. QED  BY <3>1, <3>2, <3>3
  <2>2. CASE ~(k <= Length[bearer])
    <3>1. bearer \in Tokens /\ count' = Length[bearer] /\ chunk' = chunk
      BY <1>2, <2>2 DEF Write, At, TypeOK, Places
    <3>2. \A i \in 1 .. Length[bearer] : chunk[i] = bearer
      BY <1>2, <2>2, <3>1, ConnectionAssumption DEF Write, At, TypeOK
    <3>3. pc' # "write" /\ (pc' = "wipe" => k' = 0)
      BY <1>2, <2>2 DEF Write, At, Continue, Start, Rerun
    <3>. QED  BY <3>1, <3>2, <3>3
  <2>. QED  BY <2>1, <2>2
<1>3. CASE (Script \/ Outside) /\ ~Wipe /\ ~Write
  <2>1. UNCHANGED <<count, chunk>>
    BY <1>3
       DEF Script, Hydrate, LoadProfile, LoadLatest, LoadNoLatest, SaveClicked, SaveFails, Commit, StoreSecret,
         Activate, Show, PersistProfile, DropToken, DropFlow, DropHealth, NotKept, KeepHealth,
         KeepToken, Callback, Finally, ToIdentity, StartFlow, SignOut, Paste, NoTest, Test, Probe,
         RecordRun, Outside, Open, Interrupt, Reopen, Crash
  <2>2. CASE NotKept \/ DropHealth \/ KeepToken
    BY <2>1, <2>2 DEF NotKept, DropHealth, KeepToken, Continue, Start, Rerun
  <2>3. CASE Script /\ ~NotKept /\ ~DropHealth /\ ~KeepToken
    <3>1. pc' \notin {"wipe", "write"}
      BY <1>3, <2>3
         DEF Script, Hydrate, LoadProfile, LoadLatest, LoadNoLatest, SaveClicked, SaveFails, Commit, StoreSecret,
           Activate, Show, PersistProfile, DropToken, DropFlow, KeepHealth, Callback, Finally, ToIdentity,
           StartFlow, SignOut, Paste, NoTest, Test, Probe, RecordRun, Goto, Leave, Back, Over
    <3>. QED  BY <2>1, <3>1
  <2>4. CASE Outside
    <3>1. pc' \notin {"wipe", "write"} \/ UNCHANGED script
      BY <2>4 DEF Outside, Open, Interrupt, Reopen, Crash, Over
    <3>. QED  BY <2>1, <3>1
  <2>. QED  BY <1>3, <2>2, <2>3, <2>4
<1>4. CASE UNCHANGED vars
  BY <1>4 DEF vars
<1>. QED  BY <1>1, <1>2, <1>3, <1>4 DEF Next, Outside, Quiet

LEMMA TokensStep ==
  ASSUME TypeOK, Places, Whole, TokensComeBackWhole, [Next]_vars
  PROVE  TokensComeBackWhole'
<1>. USE ConnectionAssumption DEF TokensComeBackWhole, TypeOK
<1>1. CASE Hydrate
  BY <1>1, LoadedWhole DEF Hydrate, HydrateUserToken
<1>2. CASE DropToken \/ KeepToken
  BY <1>2 DEF DropToken, KeepToken
<1>3. CASE Script /\ ~Hydrate /\ ~DropToken /\ ~KeepToken
  <2>1. UNCHANGED token
    BY <1>3
       DEF Script, LoadProfile, LoadLatest, LoadNoLatest, SaveClicked, SaveFails, Commit, StoreSecret,
         Activate, Show, PersistProfile, DropFlow, DropHealth, NotKept, Wipe, Write, KeepHealth,
         Callback, Finally, ToIdentity, StartFlow, SignOut, Paste, NoTest, Test, Probe, RecordRun, session
  <2>. QED  BY <2>1
<1>4. CASE Outside
  BY <1>4 DEF Outside, Open, Interrupt, Reopen, Crash, session
<1>5. CASE UNCHANGED vars
  BY <1>5 DEF vars, session
<1>. QED  BY <1>1, <1>2, <1>3, <1>4, <1>5 DEF Next, Outside, Quiet

(* Its count is the first entry of a token to be deleted and the last to   *)
(* be written: no crash or failed write between two entries, and no token  *)
(* shorter than the one before it, leaves a mixture for the next hydration.*)
THEOREM TokensAreKeptWhole == Spec => []TokensComeBackWhole
<1>. DEFINE IInv == Whole /\ TokensComeBackWhole
<1>1. Init => IInv
  BY ConnectionAssumption DEF Init, Whole, TokensComeBackWhole
<1>2. TypeOK /\ Places /\ IInv /\ [Next]_vars => IInv'
  BY WholeStep, TokensStep
<1>. QED  BY <1>1, <1>2, PlacesInvariant, PTL DEF Spec

-----------------------------------------------------------------------------
(* Health and sign-in                                                      *)

Verdicts ==
  /\ VerdictsAreCurrent
  /\ \A s \in Tabs : health[s].fresh => conn[s] # NoConn
  /\ pc = "probe" => conn[tab] # NoConn
  /\ pc = "keep_token" /\ health[tab].fresh => token[tab] = bearer
  /\ pc = "drop_health" => flow[tab] = None
  /\ pc = "wipe" /\ Saving => flow[tab] = None /\ ~health[tab].fresh
  /\ pc = "show" /\ conn[tab] # draft => flow[tab] = None /\ ~health[tab].fresh

Following == {"probe", "keep_token", "drop_health", "wipe", "show"}

LEMMA AfterTheToken ==
  ASSUME Places, Continue, pc \in {"wipe", "write"}
  PROVE  pc' \in {"validate", "finally", "hydrate"} \/ (pc' = "show" /\ Saving /\ pc = "wipe")
<1>1. CASE Saving
  BY <1>1 DEF Continue, Start, Places, Saving, Keeping
<1>2. CASE ~Saving
  BY <1>2 DEF Continue, Start, Rerun, Saving
<1>. QED  BY <1>1, <1>2

LEMMA VerdictsStep ==
  ASSUME TypeOK, Places, Verdicts, [Next]_vars
  PROVE  Verdicts'
<1>. USE DEF Verdicts, VerdictsAreCurrent, session
<1>1. CASE Hydrate
  <2>1. pc' \notin Following /\ UNCHANGED <<tab, flow, health>>
    BY <1>1 DEF Hydrate, Goto, Following
  <2>2. CASE conn[tab] = NoConn
    <3>1. tab \in Tabs /\ flow[tab] = None /\ ~health[tab].fresh
      BY <1>1, <2>2 DEF Hydrate, At, TypeOK, NoConn
    <3>2. \A s \in Tabs \ {tab} : conn'[s] = conn[s] /\ token'[s] = token[s]
      BY <1>1, <2>2, <3>1 DEF Hydrate, TypeOK
    <3>. QED  BY <2>1, <3>1, <3>2 DEF Following
  <2>3. CASE conn[tab] # NoConn
    BY <1>1, <2>1, <2>3 DEF Hydrate, Following
  <2>. QED  BY <2>2, <2>3
<1>2. CASE LoadLatest
  BY <1>2 DEF LoadLatest, LatestRun, NoHealth, Leave, At, TypeOK
<1>3. CASE Activate
  BY <1>3 DEF Activate, Goto, At
<1>4. CASE Show
  <2>1. tab \in Tabs /\ draft # NoConn
    BY <1>4 DEF Show, At, TypeOK
  <2>. QED  BY <1>4, <2>1 DEF Show, Goto, At, TypeOK
<1>5. CASE DropToken \/ DropFlow \/ DropHealth
  <2>1. CASE DropToken
    BY <2>1 DEF DropToken, Goto, At, TypeOK
  <2>2. CASE DropFlow
    BY <2>2 DEF DropFlow, Goto, At, TypeOK
  <2>3. CASE DropHealth
    BY <2>3 DEF DropHealth, Start, At, NoHealth, TypeOK
  <2>. QED  BY <1>5, <2>1, <2>2, <2>3
<1>6. CASE NotKept \/ Wipe \/ Write
  <2>1. UNCHANGED session /\ tab' = tab
    BY <1>6 DEF NotKept, Wipe, Write, Continue, Start, Rerun
  <2>2. \/ pc' = pc /\ via' = via /\ pc \in {"wipe", "write"}
        \/ pc' = "write"
        \/ Continue /\ pc \in {"wipe", "write"}
    BY <1>6 DEF NotKept, Wipe, Write, At
  <2>3. CASE Continue /\ pc \in {"wipe", "write"}
    <3>1. pc' \notin Following \/ (pc' = "show" /\ Saving /\ pc = "wipe")
      BY <2>3, AfterTheToken DEF Following
    <3>. QED  BY <2>1, <3>1 DEF Following
  <2>4. CASE ~(Continue /\ pc \in {"wipe", "write"})
    BY <2>1, <2>2, <2>4 DEF Saving
  <2>. QED  BY <2>3, <2>4
<1>7. CASE KeepHealth \/ KeepToken
  <2>1. ~Saving /\ bearer # None
    BY <1>7 DEF KeepHealth, KeepToken, At, Places, Saving, Keeping
  <2>2. CASE KeepHealth
    BY <2>1, <2>2 DEF KeepHealth, Goto, At, NoHealth, TypeOK
  <2>3. CASE KeepToken
    BY <2>1, <2>3 DEF KeepToken, Start, At, Saving, TypeOK
  <2>. QED  BY <1>7, <2>2, <2>3
<1>8. CASE StartFlow \/ Finally
  BY <1>8 DEF StartFlow, Finally, AuthFlow, Goto, Leave, At, TypeOK
<1>9. CASE Test \/ Probe
  <2>1. CASE Test
    <3>1. conn[tab] # NoConn
      BY <2>1, ConnectionAssumption DEF Test, IsValid, NoConn
    <3>. QED  BY <2>1, <3>1 DEF Test, NoHealth, Goto, At, TypeOK
  <2>2. CASE Probe
    <3>1. tab \in Tabs /\ conn[tab] # NoConn /\ UNCHANGED <<conn, token, flow>> /\ pc' \notin Following
      BY <2>2 DEF Probe, Goto, Over, At, TypeOK, Following
    <3>2. health' = health \/ health' = [health EXCEPT ![tab] = Checked(conn[tab], token[tab])]
      BY <2>2 DEF Probe
    <3>3. ASSUME NEW s \in Tabs, health'[s].fresh
          PROVE  /\ health'[s].of = conn[s] /\ conn[s] # NoConn
                 /\ token[s] # None => health'[s].by = token[s]
      BY <3>1, <3>2, <3>3 DEF Checked, TypeOK
    <3>. QED  BY <3>1, <3>3 DEF Following
  <2>. QED  BY <1>9, <2>1, <2>2
<1>10. CASE \/ LoadProfile \/ LoadNoLatest \/ SaveClicked \/ SaveFails \/ Commit \/ StoreSecret
            \/ PersistProfile \/ Callback \/ ToIdentity \/ SignOut \/ Paste \/ NoTest \/ RecordRun
  <2>1. UNCHANGED session /\ pc' \notin Following
    BY <1>10
       DEF LoadProfile, LoadNoLatest, SaveClicked, SaveFails, Commit, StoreSecret, PersistProfile,
         Callback, ToIdentity, SignOut, Paste, NoTest, RecordRun, Goto, Leave, Back, Over, Following
  <2>. QED  BY <2>1 DEF Following
<1>11. CASE Outside
  <2>1. CASE Crash
    BY <2>1 DEF Crash, Over, NoHealth
  <2>2. CASE \E s \in Tabs : Reopen(s)
    <3>1. PICK s \in Tabs : Reopen(s)
      BY <2>2
    <3>2. tab = None /\ pc' = "idle"
      BY <3>1 DEF Reopen, Places, script
    <3>. QED  BY <3>1, <3>2 DEF Reopen, NoHealth, TypeOK
  <2>3. CASE Interrupt \/ \E s \in Tabs, b \in Pressed : Open(s, b)
    BY <2>3 DEF Interrupt, Open, Over, TypeOK
  <2>. QED  BY <1>11, <2>1, <2>2, <2>3 DEF Outside
<1>12. CASE UNCHANGED vars
  BY <1>12 DEF vars, script, Saving
<1>. QED
  BY <1>1, <1>2, <1>3, <1>4, <1>5, <1>6, <1>7, <1>8, <1>9, <1>10, <1>11, <1>12
     DEF Next, Script, Outside, Quiet

(* A connection that differs clears the token, the flow and the health     *)
(* before it is shown, a token that differs clears the health before it is *)
(* stored: wherever a script is stopped, no tab keeps the green verdict or *)
(* the pending sign-in of another connection or identity.                  *)
THEOREM VerdictsStayCurrent == Spec => []VerdictsAreCurrent
<1>1. Init => Verdicts
  BY DEF Init, Verdicts, VerdictsAreCurrent, NoHealth
<1>2. TypeOK /\ Places /\ Verdicts /\ [Next]_vars => Verdicts'
  BY VerdictsStep
<1>3. Verdicts => VerdictsAreCurrent
  BY DEF Verdicts
<1>. QED  BY <1>1, <1>2, <1>3, PlacesInvariant, PTL DEF Spec
=============================================================================
