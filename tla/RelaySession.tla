------------------------------ MODULE RelaySession ------------------------------
(***************************************************************************)
(* Staying logged in: the saved session token of one machine across runs   *)
(* of the program, from main.go's start-up and the onboarding screen       *)
(* through relay/auth.go on the server to the save in ui/app.go.           *)
(*                                                                         *)
(* All runs share one config.json.  config.Update loads it, truncates it   *)
(* and writes it in three steps no lock protects.  Each run has one relay  *)
(* connection, handled by one goroutine of the server, one request at a    *)
(* time; hub is that of RelayServer, seen from the handlers' Join and      *)
(* Leave.  Abstracted: passwords (a sign-in is one with good credentials,  *)
(* by login, registration or recovery alike), presence, requestTimeout     *)
(* (RelayClient), and the settings no step here reads.                     *)
(***************************************************************************)
EXTENDS Naturals, Sequences

CONSTANTS
  Runs,      \* runs of the program; each starts at most once
  Servers,   \* relay servers, by address
  Accounts,  \* registered handles, the same on every server
  NoOne,     \* "no server", "no account", "no run"
  MaxTries,  \* bound: sign-ins attempted in one run
  MayFail    \* can runs crash, connections break and the store fail?

ASSUME SessionAssumption ==
  /\ NoOne \notin Runs /\ NoOne \notin Servers /\ NoOne \notin Accounts
  /\ MaxTries \in Nat

VARIABLES
  file,     \* config.json: the handle, server_url and session_token saved
  torn,     \* is config.json empty or garbled at the moment?
  pc,       \* where each run is
  step,     \* how far its current config.Update is
  copy,     \* the Config value Update is about to write
  at,       \* --server, or NoOne for a LAN-only run
  name,     \* the handle the run goes by (NoOne: an anonymous one)
  tok,      \* the token the run holds, 0 for none
  tries,    \* sign-ins attempted (bounded by MaxTries)
  link,     \* its connection: "none", "up" or "down"
  srv,      \* where the server's handler of that connection is
  acct,     \* the account the handler is authenticating
  old,      \* the token presented to it, 0 for a sign-in
  new,      \* the token it issued
  issued,   \* sessions ever created: token n is issued[n]
  live,     \* tokens still in the sessions table
  expired,  \* tokens past their expires_at
  hub,      \* Hub.clients of every server
  mishaps   \* history: "lapse", "overlap", "rename"

fileVars == <<file, torn>>
runVars == <<pc, step, copy, at, name, tok, tries>>
handlerVars == <<link, srv, acct, old, new>>
storeVars == <<issued, live, expired>>
vars == <<fileVars, runVars, handlerVars, storeVars, hub, mishaps>>

Settings == [handle : Accounts \cup {NoOne}, url : Servers \cup {NoOne}, token : Nat]
Fresh == [handle |-> NoOne, url |-> NoOne, token |-> 0]

Init ==
  /\ file = Fresh /\ torn = FALSE
  /\ pc = [r \in Runs |-> "off"]
  /\ step = [r \in Runs |-> "load"]
  /\ copy = [r \in Runs |-> Fresh]
  /\ at = [r \in Runs |-> NoOne]
  /\ name = [r \in Runs |-> NoOne]
  /\ tok = [r \in Runs |-> 0]
  /\ tries = [r \in Runs |-> 0]
  /\ link = [r \in Runs |-> "none"]
  /\ srv = [r \in Runs |-> "idle"]
  /\ acct = [r \in Runs |-> NoOne]
  /\ old = [r \in Runs |-> 0]
  /\ new = [r \in Runs |-> 0]
  /\ issued = <<>> /\ live = {} /\ expired = {}
  /\ hub = [s \in Servers |-> [h \in Accounts |-> NoOne]]
  /\ mishaps = {}

Goto(r, phase) == pc' = [pc EXCEPT ![r] = phase]
Turn(r, phase) == srv' = [srv EXCEPT ![r] = phase]
Note(what) == mishaps' = mishaps \cup what

Over(r) == pc[r] \in {"off", "ended"} /\ (link[r] = "none" \/ srv[r] = "gone")

-------------------------------------------------------------------------------
(* Start-up: main.go. *)

\* main: resolveHandle persists an explicit --handle, or reads the saved one.
Launch(r, s, h) ==
  /\ pc[r] = "off"
  /\ at' = [at EXCEPT ![r] = s]
  /\ name' = [name EXCEPT ![r] = h]
  /\ Goto(r, IF h = NoOne THEN "getHandle" ELSE "setHandle")
  /\ Note((IF h = NoOne THEN {} ELSE {"rename"})
          \cup (IF \A q \in Runs \ {r} : Over(q) THEN {} ELSE {"overlap"}))
  /\ UNCHANGED <<fileVars, step, copy, tok, tries, handlerVars, storeVars, hub>>

GetHandle(r) ==
  /\ pc[r] = "getHandle"
  /\ name' = [name EXCEPT ![r] = IF torn THEN NoOne ELSE file.handle]
  /\ Goto(r, "setStatus")
  /\ UNCHANGED <<fileVars, step, copy, at, tok, tries, handlerVars, storeVars, hub, mishaps>>

\* resolveSavedToken.
GetToken(r) ==
  /\ pc[r] = "getToken"
  /\ tok' = [tok EXCEPT ![r] =
              IF torn \/ file.url # at[r] \/ file.token \in expired THEN 0 ELSE file.token]
  /\ Goto(r, "dial")
  /\ UNCHANGED <<fileVars, step, copy, at, name, tries, handlerVars, storeVars, hub, mishaps>>

-------------------------------------------------------------------------------
(* config.Update: load, then truncate and write (os.WriteFile). *)

\* Mutant: a resumed run keeps the token it started with.
SavedForgetful(r, c) ==
  IF pc[r] = "setHandle" THEN [c EXCEPT !.handle = name[r]]
  ELSE IF pc[r] = "setStatus"
    THEN [c EXCEPT !.url = IF at[r] = NoOne THEN @ ELSE at[r]]
    ELSE [c EXCEPT !.handle = name[r], !.token = IF old[r] # 0 THEN @ ELSE tok[r]]

\* What the caller's mutate function makes of the loaded settings c:
\* resolveHandle, writeNetworkStatus and App's AuthenticatedMsg.
Saved(r, c) ==
  IF pc[r] = "setHandle" THEN [c EXCEPT !.handle = name[r]]
  ELSE IF pc[r] = "setStatus"
    THEN [c EXCEPT !.url = IF at[r] = NoOne THEN @ ELSE at[r]]
    ELSE [c EXCEPT !.handle = name[r], !.token = tok[r]]

AfterUpdate(r) ==
  Goto(r, IF pc[r] = "setHandle" THEN "setStatus"
          ELSE IF pc[r] = "save" THEN "online"
          ELSE IF at[r] = NoOne THEN "lan" ELSE "getToken")

Updating(r, s) == pc[r] \in {"setHandle", "setStatus", "save"} /\ step[r] = s

\* A file that does not parse makes Update return: nothing is saved.
Load(r) ==
  /\ Updating(r, "load")
  /\ IF torn
       THEN AfterUpdate(r) /\ UNCHANGED <<step, copy>>
       ELSE /\ copy' = [copy EXCEPT ![r] = Saved(r, file)]
            /\ step' = [step EXCEPT ![r] = "truncate"]
            /\ UNCHANGED pc
  /\ UNCHANGED <<fileVars, at, name, tok, tries, handlerVars, storeVars, hub, mishaps>>

Truncate(r) ==
  /\ Updating(r, "truncate")
  /\ torn' = TRUE
  /\ step' = [step EXCEPT ![r] = "write"]
  /\ UNCHANGED <<file, pc, copy, at, name, tok, tries, handlerVars, storeVars, hub, mishaps>>

\* Over what another run wrote since the truncation, a shorter text leaves
\* the end of the longer one behind.
Write(r) ==
  /\ Updating(r, "write")
  /\ file' = copy[r]
  /\ torn' \in (IF ~torn /\ file # copy[r] THEN BOOLEAN ELSE {FALSE})
  /\ step' = [step EXCEPT ![r] = "load"]
  /\ AfterUpdate(r)
  /\ UNCHANGED <<copy, at, name, tok, tries, handlerVars, storeVars, hub, mishaps>>

-------------------------------------------------------------------------------
(* Onboarding: the client's side of a connection. *)

\* One request is with the server; the handler starts on it.
Ask(r, phase, h, t) ==
  /\ Turn(r, phase)
  /\ acct' = [acct EXCEPT ![r] = h]
  /\ old' = [old EXCEPT ![r] = t]
  /\ new' = [new EXCEPT ![r] = 0]

\* dialResultMsg: resume with the saved token, if there is one.
Dial(r) ==
  /\ pc[r] = "dial"
  /\ link' = [link EXCEPT ![r] = "up"]
  /\ IF tok[r] # 0
       THEN Goto(r, "resuming") /\ Ask(r, "check", NoOne, tok[r])
       ELSE Goto(r, "welcome") /\ UNCHANGED <<srv, acct, old, new>>
  /\ UNCHANGED <<fileVars, step, copy, at, name, tok, tries, storeVars, hub, mishaps>>

DialFails(r) ==
  /\ MayFail /\ pc[r] = "dial"
  /\ Goto(r, "failed")
  /\ UNCHANGED <<fileVars, step, copy, at, name, tok, tries, handlerVars, storeVars, hub, mishaps>>

\* loginCmd, registerCmd or recoverFinishCmd, with good credentials.
SignIn(r, h) ==
  /\ pc[r] = "welcome" /\ link[r] = "up" /\ tries[r] < MaxTries
  /\ tries' = [tries EXCEPT ![r] = @ + 1]
  /\ name' = [name EXCEPT ![r] = h]
  /\ Goto(r, "entering") /\ Ask(r, "issue", h, 0)
  /\ UNCHANGED <<fileVars, step, copy, at, tok, link, storeVars, hub, mishaps>>

\* authResultMsg: an error goes back to the welcome screen without a saved
\* token; a success is saved by App.  Without a connection there is no reply.
Reply(r) ==
  /\ srv[r] \in {"reply", "refuse"}
  /\ Turn(r, IF srv[r] = "reply" THEN "serving" ELSE "idle")
  /\ IF link[r] = "up"
       THEN /\ Goto(r, IF srv[r] = "reply" THEN "save" ELSE "welcome")
            /\ tok' = [tok EXCEPT ![r] = IF srv[r] = "reply" THEN new[r] ELSE 0]
       ELSE UNCHANGED <<pc, tok>>
  /\ UNCHANGED <<fileVars, step, copy, at, name, tries, link, acct, old, new,
                 storeVars, hub, mishaps>>

-------------------------------------------------------------------------------
(* The server's handler: Auth, the sessions table and the Hub. *)

Server(r) == at[r]

\* ResumeSession's Authenticate.
Check(r) ==
  /\ srv[r] = "check"
  /\ IF old[r] \in live \ expired /\ issued[old[r]].server = Server(r)
       THEN Turn(r, "issue") /\ acct' = [acct EXCEPT ![r] = issued[old[r]].account]
       ELSE Turn(r, "refuse") /\ UNCHANGED acct
  /\ UNCHANGED <<fileVars, runVars, link, old, new, storeVars, hub, mishaps>>

\* Mutant: CreateSession's error is ignored.
IssueUnrecorded(r) ==
  /\ srv[r] = "issue"
  /\ new' = [new EXCEPT ![r] = Len(issued) + 1]
  /\ Turn(r, IF old[r] # 0 THEN "revoke" ELSE "join")
  /\ UNCHANGED <<fileVars, runVars, link, acct, old, storeVars, hub, mishaps>>

\* issueSession; a resumed session's old token is revoked next.
Issue(r) ==
  /\ srv[r] = "issue"
  /\ issued' = Append(issued, [server |-> Server(r), account |-> acct[r]])
  /\ live' = live \cup {Len(issued) + 1}
  /\ new' = [new EXCEPT ![r] = Len(issued) + 1]
  /\ Turn(r, IF old[r] # 0 THEN "revoke" ELSE "join")
  /\ UNCHANGED <<fileVars, runVars, link, acct, old, expired, hub, mishaps>>

\* DeleteSession, whose failure ResumeSession ignores.
Revoke(r) ==
  /\ srv[r] = "revoke"
  /\ live' = live \ {old[r]} \/ (MayFail /\ UNCHANGED live)
  /\ Turn(r, "join")
  /\ UNCHANGED <<fileVars, runVars, link, acct, old, new, issued, expired, hub, mishaps>>

StoreFails(r) ==
  /\ MayFail /\ srv[r] \in {"check", "issue"}
  /\ Turn(r, "refuse")
  /\ UNCHANGED <<fileVars, runVars, link, acct, old, new, storeVars, hub, mishaps>>

\* Mutant: completeJoin answers with the token although Join refused.
JoinUnchecked(r) ==
  /\ srv[r] = "join"
  /\ hub' = IF hub[Server(r)][acct[r]] = NoOne
              THEN [hub EXCEPT ![Server(r)][acct[r]] = r] ELSE hub
  /\ Turn(r, "reply")
  /\ UNCHANGED <<fileVars, runVars, link, acct, old, new, storeVars, mishaps>>

\* completeJoin: the session exists by now, whether Hub.Join refuses or not.
Join(r) ==
  /\ srv[r] = "join"
  /\ IF hub[Server(r)][acct[r]] = NoOne
       THEN hub' = [hub EXCEPT ![Server(r)][acct[r]] = r] /\ Turn(r, "reply")
       ELSE Turn(r, "refuse") /\ UNCHANGED hub
  /\ UNCHANGED <<fileVars, runVars, link, acct, old, new, storeVars, mishaps>>

\* readLoop sees the end of the connection between two requests.
Leave(r) ==
  /\ link[r] = "down" /\ srv[r] \in {"idle", "serving"}
  /\ hub' = [s \in Servers |-> [h \in Accounts |->
              IF hub[s][h] = r THEN NoOne ELSE hub[s][h]]]
  /\ Turn(r, "gone")
  /\ UNCHANGED <<fileVars, runVars, link, acct, old, new, storeVars, mishaps>>

\* Time passes.
Expire(t) ==
  /\ t \in live \ expired
  /\ expired' = expired \cup {t}
  /\ UNCHANGED <<fileVars, runVars, handlerVars, issued, live, hub, mishaps>>

-------------------------------------------------------------------------------
(* The end of a run. *)

Waiting(r) == pc[r] \in {"resuming", "entering"}

End(r) ==
  /\ Goto(r, "ended")
  /\ link' = [link EXCEPT ![r] = IF @ = "up" THEN "down" ELSE @]
  /\ UNCHANGED <<fileVars, step, copy, at, name, tok, tries, srv, acct, old, new,
                 storeVars, hub>>

\* ctrl+c works on every screen, also while a request is with the server.
Quit(r) ==
  /\ Waiting(r) \/ pc[r] \in {"welcome", "failed", "lan", "online"}
  /\ End(r)
  /\ Note(IF Waiting(r) THEN {"lapse"} ELSE {})

Crash(r) ==
  /\ MayFail /\ pc[r] \notin {"off", "ended"}
  /\ End(r) /\ Note({"lapse"})

\* The connection breaks: a waiting request fails, nothing redials.
LoseConn(r) ==
  /\ MayFail /\ link[r] = "up"
  /\ link' = [link EXCEPT ![r] = "down"]
  /\ IF Waiting(r)
       THEN /\ Goto(r, "welcome") /\ tok' = [tok EXCEPT ![r] = 0]
            /\ Note({"lapse"})
       ELSE UNCHANGED <<pc, tok, mishaps>>
  /\ UNCHANGED <<fileVars, step, copy, at, name, tries, srv, acct, old, new,
                 storeVars, hub>>

-------------------------------------------------------------------------------
Program(r) ==
  \/ GetHandle(r) \/ GetToken(r) \/ Load(r) \/ Truncate(r) \/ Write(r) \/ Dial(r)

Handler(r) ==
  \/ Check(r) \/ Issue(r) \/ Revoke(r) \/ Join(r) \/ Reply(r) \/ Leave(r)

User(r) ==
  \/ \E s \in Servers \cup {NoOne}, h \in Accounts \cup {NoOne} : Launch(r, s, h)
  \/ \E h \in Accounts : SignIn(r, h)
  \/ Quit(r)

Failure(r) == DialFails(r) \/ StoreFails(r) \/ Crash(r) \/ LoseConn(r)

Next ==
  \/ \E r \in Runs : Program(r) \/ Handler(r) \/ User(r) \/ Failure(r)
  \/ \E t \in live : Expire(t)

Spec == Init /\ [][Next]_vars

-------------------------------------------------------------------------------
Tokens == 0..Len(issued)

TypeOK ==
  /\ file \in Settings /\ torn \in BOOLEAN
  /\ pc \in [Runs -> {"off", "getHandle", "setHandle", "setStatus", "getToken", "dial",
                      "failed", "lan", "resuming", "welcome", "entering", "save",
                      "online", "ended"}]
  /\ step \in [Runs -> {"load", "truncate", "write"}]
  /\ copy \in [Runs -> Settings]
  /\ at \in [Runs -> Servers \cup {NoOne}]
  /\ name \in [Runs -> Accounts \cup {NoOne}]
  /\ tok \in [Runs -> Tokens] /\ tries \in [Runs -> 0..MaxTries]
  /\ link \in [Runs -> {"none", "up", "down"}]
  /\ srv \in [Runs -> {"idle", "check", "issue", "revoke", "join", "reply", "refuse",
                       "serving", "gone"}]
  /\ acct \in [Runs -> Accounts \cup {NoOne}]
  /\ old \in [Runs -> Tokens] /\ new \in [Runs -> Tokens]
  /\ issued \in Seq([server : Servers, account : Accounts])
  /\ live \subseteq Tokens /\ expired \subseteq Tokens
  /\ hub \in [Servers -> [Accounts -> Runs \cup {NoOne}]]
  /\ mishaps \subseteq {"lapse", "overlap", "rename"}

\* No run is between reading its settings and having saved what came of it.
AtRest == \A r \in Runs : pc[r] \in {"off", "welcome", "failed", "lan", "online", "ended"}

Remembers ==
  file.token # 0 => /\ ~torn /\ file.token \in live
                    /\ issued[file.token].account = file.handle \/ "rename" \in mishaps

\* Tokens rotate at every resume, and sign-ins replace them, yet the one on
\* disk is always the one the server still knows, for the handle saved with
\* it, as long as runs follow one another and none dies with a request out.
Remembered == AtRest /\ mishaps \cap {"lapse", "overlap"} = {} => Remembers

\* main.go: the saved token is used "only if it was issued for this same
\* server address"; even of runs that do not overlap.
TokenForItsServer ==
  "overlap" \notin mishaps =>
    \A r \in Runs : srv[r] = "check" => issued[old[r]].server = at[r]

\* A run that believes it is logged in is the one its server would reach:
\* registered, at the server it dialed, for the account it signed in to.
OnlineIsRegistered ==
  \A r \in Runs : pc[r] \in {"save", "online"} /\ link[r] = "up" =>
    /\ hub[at[r]][acct[r]] = r
    /\ name[r] = acct[r] \/ mishaps \cap {"rename", "overlap"} # {}
================================================================================
