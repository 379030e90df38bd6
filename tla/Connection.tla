------------------------------- MODULE Connection -------------------------------
(***************************************************************************)
(* The connection: the Instance Configuration page over the four places    *)
(* that keep it.  The settings database holds the row "default", the       *)
(* operating system's credential store the client secret and the user      *)
(* token in chunks, the profile store the profile without its secret and   *)
(* the latest health run, and each browser tab a session of its own.       *)
(*                                                                         *)
(* No transaction spans two of them: every write is a step, may fail on    *)
(* its own, and the process may die between any two.  One operator works   *)
(* in one tab at a time, so the scripts of two tabs do not overlap; a      *)
(* click in the same tab stops its script where it touches the session.    *)
(***************************************************************************)
EXTENDS Naturals, FiniteSets

CONSTANTS
  Tabs,          \* browser tabs
  UserSettings,  \* settings of a user-impersonation connection
  AppSettings,   \* settings of a service principal
  Secrets,       \* client secrets
  Tokens,        \* bearer tokens
  Length,        \* the number of chunks each token's payload is cut into
  MaxChunks,     \* _MAX_TOKEN_CHUNKS
  MaxClicks,     \* interactions of the operator
  None           \* nothing there

Garbled == "garbled"  \* what a credential store in disorder gives back

ASSUME ConnectionAssumption ==
  /\ MaxChunks \in Nat /\ MaxClicks \in Nat /\ Length \in [Tokens -> 1 .. MaxChunks]
  /\ UserSettings \cap AppSettings = {}
  /\ None \notin UserSettings \cup AppSettings \cup Secrets \cup Tokens \cup Tabs
  /\ Garbled \notin Tokens \cup {None}

Settings   == UserSettings \cup AppSettings
Connection == [at : Settings, secret : Secrets \cup {None}]
Bearers    == Tokens \cup {None, Garbled}
NoConn     == [at |-> None, secret |-> None]
NoHealth   == [of |-> NoConn, by |-> None, fresh |-> FALSE]
Pressed    == {"none", "save", "sign_out", "paste", "callback", "test"}

VARIABLES
  row, active,    \* connections: the settings of the row, its is_active
  secret,         \* credential store: the client secret
  count, chunk,   \* credential store: ::count, and whose piece each ::i is
  profile,        \* profile store: the settings of the active profile
  latest,         \* profile store: the settings its latest health run tested
  conn,           \* adme_connection of each tab
  token,          \* adme_user_auth_state
  flow,           \* adme_user_auth_flow: the settings it was started for
  health,         \* adme_health_results: of what, by whom, tested by this tab
  tab, pc,        \* the tab whose script runs, and where it stands
  pressed,        \* what the script was started by
  via,            \* who called save_connection: the form or the profile load
  draft, bearer,  \* the connection, and the token, being saved
  k,              \* the next chunk
  clicks          \* interactions so far

disk    == <<row, active, secret, count, chunk, profile, latest>>
session == <<conn, token, flow, health>>
script  == <<tab, pc, pressed, via, draft, bearer, k>>
vars    == <<disk, session, script, clicks>>

Init ==
  /\ row = None /\ active = FALSE /\ secret = None
  /\ count = 0 /\ chunk = [i \in 1 .. MaxChunks |-> None]
  /\ profile = None /\ latest = None
  /\ conn = [s \in Tabs |-> NoConn] /\ token = [s \in Tabs |-> None]
  /\ flow = [s \in Tabs |-> None] /\ health = [s \in Tabs |-> NoHealth]
  /\ tab = None /\ pc = "idle" /\ pressed = "none" /\ via = "none"
  /\ draft = NoConn /\ bearer = None /\ k = 0 /\ clicks = 0

IsValid(c) == c.at \in UserSettings \/ (c.at \in AppSettings /\ c.secret # None)
IsUser(c)  == c.at \in UserSettings

(* auth_readiness; a token that has expired is as good as none.            *)
Ready(c, t) == IF IsUser(c) THEN t # None ELSE c.secret # None

At(p)   == tab # None /\ pc = p
Goto(p) == pc' = p /\ UNCHANGED <<tab, pressed, via, draft, bearer, k>>
Start(p) == pc' = p /\ k' = 0 /\ UNCHANGED <<tab, pressed, via, draft, bearer>>
Over    == /\ tab' = None /\ pc' = "idle" /\ pressed' = "none" /\ via' = "none"
           /\ draft' = NoConn /\ bearer' = None /\ k' = 0

(* st.rerun                                                                *)
Rerun == /\ pc' = "hydrate" /\ pressed' = "none" /\ via' = "none"
         /\ draft' = NoConn /\ bearer' = None /\ k' = 0 /\ UNCHANGED tab

(* Back to the page, once save_connection has raised or returned.          *)
Leave(p) == /\ pc' = p /\ via' = "none" /\ draft' = NoConn /\ bearer' = None /\ k' = 0
            /\ UNCHANGED <<tab, pressed>>

-----------------------------------------------------------------------------
(* What the credential store gives back                                    *)

(* The last piece of a token closes its payload, and no other piece does.  *)
Parses == \A i \in 1 .. count : chunk[i] # None /\ (Length[chunk[i]] = i <=> i = count)

LoadUserToken ==
  IF count = 0 \/ ~Parses THEN None
  ELSE IF \A i \in 1 .. count : chunk[i] = chunk[1] THEN chunk[1] ELSE Garbled

(* Each read may find the store out of reach, and then finds nothing.      *)
LoadSecret == {secret, None}
LoadConnection == {[at |-> row, secret |-> s] : s \in LoadSecret}
HydrateUserToken == {LoadUserToken, None}

-----------------------------------------------------------------------------
(* What the profile store makes of a save, of a run and of a read: any of  *)
(* its transactions may fail, and a run follows the profile it is about.   *)

SaveProfile(c) == {profile, c.at}
RecordedRun(c, saved) == IF saved = c.at THEN {latest, c.at} ELSE {latest}
LoadActiveProfile == IF profile = None THEN {} ELSE {[at |-> profile, secret |-> None]}

(* The latest run of the profile, whatever the profile was when it was run.*)
LatestRun == IF latest = None THEN NoHealth
             ELSE [of |-> [at |-> latest, secret |-> None], by |-> None, fresh |-> FALSE]

-----------------------------------------------------------------------------
(* What the identity service and the ADME services answer                  *)

AuthFlow(c)  == {None, c.at}
Exchanged(f) == IF f = None THEN {} ELSE Tokens
PastedToken  == Tokens
Checked(c, t) == [of |-> c, by |-> t, fresh |-> TRUE]

-----------------------------------------------------------------------------
(* The top of the page                                                     *)

(* The database, and each entry of the credential store, may be out of     *)
(* reach.                                                                  *)
Hydrate ==
  /\ At("hydrate")
  /\ IF conn[tab] = NoConn
     THEN \/ UNCHANGED <<conn, token>>
          \/ /\ active
             /\ \E c \in LoadConnection : conn' = [conn EXCEPT ![tab] = c]
             /\ \E t \in HydrateUserToken :
                  token' = IF token[tab] = None THEN [token EXCEPT ![tab] = t] ELSE token
     ELSE UNCHANGED <<conn, token>>
  /\ Goto("profile")
  /\ UNCHANGED <<disk, flow, health, clicks>>

(* A connection in the session is kept; a profile is saved as its form     *)
(* would save it, without a secret.                                        *)
LoadProfile ==
  /\ At("profile")
  /\ \/ Goto("act")
     \/ /\ conn[tab] = NoConn
        /\ draft' \in LoadActiveProfile /\ via' = "profile" /\ pc' = "commit"
        /\ UNCHANGED <<tab, pressed, bearer, k>>
  /\ UNCHANGED <<disk, session, clicks>>

LoadLatest ==
  /\ At("latest")
  /\ health' = IF latest = None THEN health ELSE [health EXCEPT ![tab] = LatestRun]
  /\ Leave("act")
  /\ UNCHANGED <<disk, conn, token, flow, clicks>>

LoadNoLatest ==
  /\ At("latest") /\ Leave("act")
  /\ UNCHANGED <<disk, session, clicks>>

-----------------------------------------------------------------------------
(* connection_state.save_connection, for the form and for the profile      *)

SaveClicked ==
  /\ At("act") /\ pressed = "save"
  /\ \/ Goto("identity")
     \/ \E c \in Connection :
          /\ IsValid(c) /\ (IsUser(c) => c.secret = None)
          /\ draft' = c /\ via' = "save" /\ pc' = "commit"
          /\ UNCHANGED <<tab, pressed, bearer, k>>
  /\ UNCHANGED <<disk, session, clicks>>

Back == IF via = "save" THEN "identity" ELSE "act"

(* SettingsStoreError, from any of the three durable writes.               *)
SaveFails ==
  /\ \/ At("commit") \/ At("secret") \/ At("activate")
  /\ Leave(Back)
  /\ UNCHANGED <<disk, session, clicks>>

(* slip: the tab shows the connection before it is stored                  *)
ShowFirst ==
  /\ At("commit")
  /\ row' = draft.at /\ Goto("secret") /\ conn' = [conn EXCEPT ![tab] = draft]
  /\ UNCHANGED <<active, secret, count, chunk, profile, latest, token, flow, health, clicks>>

Commit ==
  /\ At("commit")
  /\ row' = draft.at /\ Goto("secret")
  /\ UNCHANGED <<active, secret, count, chunk, profile, latest, session, clicks>>

StoreSecret ==
  /\ At("secret")
  /\ secret' = draft.secret /\ Goto("activate")
  /\ UNCHANGED <<row, active, count, chunk, profile, latest, session, clicks>>

Activate ==
  /\ At("activate")
  /\ active' = TRUE
  /\ IF conn[tab] # draft THEN Goto("drop_token") ELSE Goto("show")
  /\ UNCHANGED <<row, secret, count, chunk, profile, latest, session, clicks>>

Show ==
  /\ At("show")
  /\ conn' = [conn EXCEPT ![tab] = draft]
  /\ Goto(IF via = "save" THEN "keep_profile" ELSE "latest")
  /\ UNCHANGED <<disk, token, flow, health, clicks>>

(* The profile store is optional: it may not take the profile.             *)
PersistProfile ==
  /\ At("keep_profile")
  /\ profile' \in SaveProfile(draft) /\ Leave("identity")
  /\ UNCHANGED <<row, active, secret, count, chunk, latest, session, clicks>>

-----------------------------------------------------------------------------
(* clear_user_auth_state                                                   *)

(* slip: only the token is cleared                                         *)
DropTokenOnly ==
  /\ At("drop_token")
  /\ token' = [token EXCEPT ![tab] = None] /\ Start("wipe")
  /\ UNCHANGED <<disk, conn, flow, health, clicks>>

DropToken ==
  /\ At("drop_token")
  /\ token' = [token EXCEPT ![tab] = None] /\ Goto("drop_flow")
  /\ UNCHANGED <<disk, conn, flow, health, clicks>>

DropFlow ==
  /\ At("drop_flow")
  /\ flow' = [flow EXCEPT ![tab] = None] /\ Goto("drop_health")
  /\ UNCHANGED <<disk, conn, token, health, clicks>>

DropHealth ==
  /\ At("drop_health")
  /\ health' = [health EXCEPT ![tab] = NoHealth] /\ Start("wipe")
  /\ UNCHANGED <<disk, conn, token, flow, clicks>>

-----------------------------------------------------------------------------
(* The user token in the credential store: its count is the first entry to *)
(* go and the last to come, so that a token is there whole or not at all.  *)
(* Nothing is kept under a connection that is not active.                  *)

Keeping == via = "none" /\ pressed \in {"paste", "callback"}

(* What follows clear_user_token and save_user_token, done or failed.      *)
Continue ==
  IF via # "none" THEN Start("show")
  ELSE IF pressed = "sign_out" THEN Start("validate")
  ELSE IF pressed = "callback" THEN Start("finally")
  ELSE Rerun

NotKept ==
  /\ At("wipe") \/ At("write")
  /\ Continue
  /\ UNCHANGED <<disk, session, clicks>>

Wipe ==
  /\ At("wipe") /\ active /\ k <= MaxChunks
  /\ IF k = 0 THEN count' = 0 /\ UNCHANGED chunk
     ELSE chunk' = [chunk EXCEPT ![k] = None] /\ UNCHANGED count
  /\ IF k < MaxChunks THEN k' = k + 1 /\ UNCHANGED <<tab, pc, pressed, via, draft, bearer>>
     ELSE IF Keeping THEN pc' = "write" /\ k' = 1 /\ UNCHANGED <<tab, pressed, via, draft, bearer>>
     ELSE Continue
  /\ UNCHANGED <<row, active, secret, profile, latest, session, clicks>>

Write ==
  /\ At("write")
  /\ IF k <= Length[bearer]
     THEN /\ chunk' = [chunk EXCEPT ![k] = bearer] /\ k' = k + 1
          /\ UNCHANGED <<count, tab, pc, pressed, via, draft, bearer>>
     ELSE count' = Length[bearer] /\ Continue /\ UNCHANGED chunk
  /\ UNCHANGED <<row, active, secret, profile, latest, session, clicks>>

-----------------------------------------------------------------------------
(* Signing in and out                                                      *)

(* store_user_auth_state: a token that differs makes the health stale.     *)
KeepHealth ==
  /\ At("keep_health")
  /\ health' = IF token[tab] = bearer THEN health ELSE [health EXCEPT ![tab] = NoHealth]
  /\ Goto("keep_token")
  /\ UNCHANGED <<disk, conn, token, flow, clicks>>

(* slip: the pieces are written over those that are there                  *)
WriteOver ==
  /\ At("keep_token")
  /\ token' = [token EXCEPT ![tab] = bearer]
  /\ pc' = "write" /\ k' = 1 /\ UNCHANGED <<tab, pressed, via, draft, bearer>>
  /\ UNCHANGED <<disk, conn, flow, health, clicks>>

KeepToken ==
  /\ At("keep_token")
  /\ token' = [token EXCEPT ![tab] = bearer] /\ Start("wipe")
  /\ UNCHANGED <<disk, conn, flow, health, clicks>>

(* The answer of the sign-in service comes back in the page's address: it  *)
(* is exchanged once, for the flow that is pending.                        *)
Callback ==
  /\ At("act") /\ pressed = "callback"
  /\ \/ Goto("finally")
     \/ /\ IsUser(conn[tab])
        /\ bearer' \in Exchanged(flow[tab])
        /\ pc' = "keep_health" /\ UNCHANGED <<tab, pressed, via, draft, k>>
  /\ UNCHANGED <<disk, session, clicks>>

Finally ==
  /\ At("finally")
  /\ flow' = [flow EXCEPT ![tab] = None] /\ Leave("identity")
  /\ UNCHANGED <<disk, conn, token, health, clicks>>

ToIdentity ==
  /\ At("act") /\ pressed \notin {"save", "callback"}
  /\ Goto("identity")
  /\ UNCHANGED <<disk, session, clicks>>

(* A flow is started, or fails to, as soon as there is no token.           *)
StartFlow ==
  /\ At("identity") /\ pressed \notin {"sign_out", "paste"}
  /\ IF IsUser(conn[tab]) /\ token[tab] = None /\ flow[tab] = None
     THEN \E f \in AuthFlow(conn[tab]) : flow' = [flow EXCEPT ![tab] = f]
     ELSE UNCHANGED flow
  /\ Goto("validate")
  /\ UNCHANGED <<disk, conn, token, health, clicks>>

SignOut ==
  /\ At("identity") /\ pressed = "sign_out"
  /\ IF IsUser(conn[tab]) /\ token[tab] # None THEN Goto("drop_token") ELSE Goto("validate")
  /\ UNCHANGED <<disk, session, clicks>>

(* A text that is no token, or an expired one, is refused.                 *)
Paste ==
  /\ At("identity") /\ pressed = "paste"
  /\ \/ Goto("validate")
     \/ /\ IsUser(conn[tab])
        /\ bearer' \in PastedToken
        /\ pc' = "keep_health" /\ UNCHANGED <<tab, pressed, via, draft, k>>
  /\ UNCHANGED <<disk, session, clicks>>

-----------------------------------------------------------------------------
(* Test Connection                                                         *)

NoTest ==
  /\ At("validate") /\ (pressed # "test" \/ ~IsValid(conn[tab]) \/ ~Ready(conn[tab], token[tab]))
  /\ Over
  /\ UNCHANGED <<disk, session, clicks>>

Test ==
  /\ At("validate") /\ pressed = "test"
  /\ IsValid(conn[tab]) /\ Ready(conn[tab], token[tab])
  /\ health' = [health EXCEPT ![tab] = NoHealth] /\ Goto("probe")
  /\ UNCHANGED <<disk, conn, token, flow, clicks>>

(* check_all answers for every service, or no token is acquired.           *)
Probe ==
  /\ At("probe")
  /\ \/ Over /\ UNCHANGED health
     \/ /\ health' = [health EXCEPT ![tab] = Checked(conn[tab], token[tab])]
        /\ Goto("record")
  /\ UNCHANGED <<disk, conn, token, flow, clicks>>

(* record_health_run: the profile is saved, then its run.                  *)
RecordRun ==
  /\ At("record")
  /\ profile' \in SaveProfile(conn[tab])
  /\ latest' \in RecordedRun(conn[tab], profile')
  /\ Over
  /\ UNCHANGED <<row, active, secret, count, chunk, session, clicks>>

Script ==
  \/ Hydrate \/ LoadProfile \/ LoadLatest \/ LoadNoLatest
  \/ SaveClicked \/ SaveFails \/ Commit \/ StoreSecret \/ Activate \/ Show \/ PersistProfile
  \/ DropToken \/ DropFlow \/ DropHealth \/ NotKept \/ Wipe \/ Write
  \/ KeepHealth \/ KeepToken \/ Callback \/ Finally \/ ToIdentity \/ StartFlow \/ SignOut \/ Paste
  \/ NoTest \/ Test \/ Probe \/ RecordRun

-----------------------------------------------------------------------------
(* The operator, and the process                                           *)

Interact == clicks < MaxClicks /\ clicks' = clicks + 1

Open(s, b) ==
  /\ Interact /\ tab = None
  /\ tab' = s /\ pc' = "hydrate" /\ pressed' = b
  /\ UNCHANGED <<via, draft, bearer, k, disk, session>>

(* A click in the tab whose script runs: the script stops at its next use  *)
(* of the session, the callback's finally clause still taken.              *)
InSession == {"profile", "latest", "act", "identity", "validate", "show", "drop_token",
              "drop_flow", "drop_health", "keep_health", "keep_token", "finally", "probe", "record"}

Interrupt ==
  /\ Interact /\ tab # None /\ pc \in InSession
  /\ flow' = IF pressed = "callback" /\ pc \in {"keep_health", "keep_token", "finally"}
             THEN [flow EXCEPT ![tab] = None] ELSE flow
  /\ Over
  /\ UNCHANGED <<disk, conn, token, health>>

(* A tab is closed and opened again.                                       *)
Reopen(s) ==
  /\ Interact /\ tab = None
  /\ conn' = [conn EXCEPT ![s] = NoConn] /\ token' = [token EXCEPT ![s] = None]
  /\ flow' = [flow EXCEPT ![s] = None] /\ health' = [health EXCEPT ![s] = NoHealth]
  /\ UNCHANGED <<disk, script>>

(* The process dies and is started again.                                  *)
Crash ==
  /\ Interact
  /\ conn' = [s \in Tabs |-> NoConn] /\ token' = [s \in Tabs |-> None]
  /\ flow' = [s \in Tabs |-> None] /\ health' = [s \in Tabs |-> NoHealth]
  /\ Over
  /\ UNCHANGED disk

Quiet == tab = None /\ UNCHANGED vars

Next ==
  \/ Script
  \/ \E s \in Tabs, b \in Pressed : Open(s, b)
  \/ Interrupt \/ (\E s \in Tabs : Reopen(s)) \/ Crash \/ Quiet

(* A script that runs goes on to its end.                                  *)
Spec == Init /\ [][Next]_vars /\ WF_vars(Script)

-----------------------------------------------------------------------------
(* Every variable holds a value of its type, and a script's locals fit the *)
(* place it stands at.                                                     *)
TypeOK ==
  /\ row \in Settings \cup {None} /\ active \in BOOLEAN /\ (active => row # None)
  /\ secret \in Secrets \cup {None}
  /\ count \in 0 .. MaxChunks /\ chunk \in [1 .. MaxChunks -> Tokens \cup {None}]
  /\ profile \in Settings \cup {None} /\ latest \in Settings \cup {None}
  /\ conn \in [Tabs -> Connection \cup {NoConn}]
  /\ token \in [Tabs -> Bearers]
  /\ flow \in [Tabs -> Settings \cup {None}]
  /\ health \in [Tabs -> [of : Connection \cup {NoConn}, by : Bearers, fresh : BOOLEAN]]
  /\ tab \in Tabs \cup {None} /\ pressed \in Pressed /\ via \in {"none", "save", "profile"}
  /\ pc \in InSession \cup {"idle", "hydrate", "commit", "secret", "activate", "keep_profile",
                           "wipe", "write"}
  /\ draft \in Connection \cup {NoConn} /\ bearer \in Tokens \cup {None}
  /\ k \in 0 .. MaxChunks + 1 /\ clicks \in 0 .. MaxClicks
  /\ (pc \in {"commit", "secret", "activate", "show", "keep_profile"} => via # "none")
  /\ (via # "none" => draft # NoConn)
  /\ (pc \in {"keep_health", "keep_token", "write"} => bearer # None)

(* What save_connection promises: a tab that starts to show a connection   *)
(* shows the one that is stored and active, whatever write had failed.     *)
ShownIsSaved ==
  [][\A s \in Tabs : conn'[s] # conn[s] /\ conn'[s] # NoConn =>
       row = conn'[s].at /\ active]_vars

(* A token comes back from the credential store as it was given to it, or  *)
(* not at all: no crash, failed write or shorter token leaves one made of  *)
(* the pieces of two.                                                      *)
TokensComeBackWhole == \A s \in Tabs : token[s] # Garbled

(* The health a tab has tested is that of the connection it shows, by the  *)
(* identity it shows, and a sign-in under way is for that connection.      *)
VerdictsAreCurrent ==
  \A s \in Tabs :
    /\ health[s].fresh => health[s].of = conn[s]
                         /\ (token[s] # None => health[s].by = token[s])
    /\ flow[s] # None => flow[s] = conn[s].at
=============================================================================
