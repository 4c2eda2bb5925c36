# TLA+ models of tiru

tiru is a terminal chat: peers find each other on the LAN by UDP broadcast and
talk over one-shot TCP connections; an optional relay server adds accounts,
organizations, presence, points and shared todos across networks; two games
run over a peer-to-peer connection or locally. This directory models the parts
of it whose correctness depends on what happens between two goroutines, two
processes or two transactions, model-checks them with TLC on small instances,
and proves the main results with TLAPS for every value of the constants.

Every definition is translated from the Go source; `PROJECT.json` maps each one
to the lines it stands for, and lists the runs, the mutants that show each
property can fail, the hazards the properties are aimed at and the theorems.

## Inventory

| Component | State | Operations | Talks to | What is hard | What makes it correct |
|---|---|---|---|---|---|
| relay server (`relay/server.go`, `hub.go`) | Hub's handle→outbox map, one outbox and two goroutines per connection | authenticate, join, relay, presence exchange, leave | the store; other connections' outboxes; clients over TCP | interleaved handlers, bounded outboxes, clients that vanish or stall | one connection per handle; presence exchanged both ways; nothing leaks across organizations; handles are released |
| accounts (`relay/auth.go`) | users, sessions, profiles | register, login, resume (rotating the token), recover | store, Hub | token rotated before the join is known to succeed; lost replies; crashes | a client that holds a valid token never loses it silently |
| store layers (`relay/pgstore.go`, `orgs.go`, `points.go`, `todos.go`) | SQL tables | organizations, invites, points, unlockables, shared todos | PostgreSQL | concurrent transactions, checks made before locks | single-use invites; points never negative; a balance is what was paid in less what was spent |
| relay client (`relay/client.go`) | waiting flag, reply channel, event channel | request, SendRelay, readLoop | server over TCP; UI over channels | replies carry no id; full channels block the reader | a reply answers its request; pushes arrive in order; requests return |
| LAN messages (`network/tcp.go`, `game.go`) | inboxes, pending invitations, game sessions | message, challenge, accept, deny, moves | peers over TCP, UI over channels | a time-out on either side racing the answer | both sides agree whether a game started |
| file transfer (`network/file.go`) | pending offers, files being written | offer, accept, stream, save | peers, disk | time-outs, a save that fails after acceptance, colliding names | a file reported as received is whole; nothing saved without a yes; no transfer touches another file |
| tic-tac-toe (`games/tictactoe`) | two boards, turn | move, resign, disconnect | GameSession | two copies of one game | boards agree; one outcome; both return to the chat |
| ludo (`games/ludo`) | board, dice, turn; host's authoritative copy | roll, move, AI step; broadcast, guest requests | GameSessions | stale guest requests, rules at the board's edges | tokens stay on the track; guests the network reaches converge to the host |
| screens (`ui/app.go`, `ui/model.go`) | active screen, channel pumps | screen switches, commands, pump messages | everything above | a pump that is not re-armed stops for ever | every pump runs while the program does |
| onboarding, org, todo, account screens (`ui/onboarding`, ...) | form state, request in flight | wizard steps, requests | relay client | answers arriving after the user moved on | a form submits what was entered; one request in flight |
| discovery (`discovery`, `peer`) | registry of peers, last-seen times | heartbeat, expire, goodbye | UDP | lost and late heartbeats | live peers stay listed, dead ones go |
| local files (`store`, `config`) | history, todos, saved settings and token | load, append, save | disk | read-modify-write across processes | nothing saved is lost |

Pure rendering (`view.go` files, styles, avatars), string helpers, desktop
notifications and the platform-specific socket options keep no state that
changes and are not modelled.

How the parts meet: the UI (one goroutine, Bubble Tea's `Update`) starts
commands that call the relay client and the network package; both answer over
channels the UI drains by "pump" commands. The relay client and the relay
server share one TCP connection per login. On the server every connection's
handler calls Auth, Orgs, Points and Todos, which call the Store (PostgreSQL),
and reaches other connections only through the Hub. Runs of the program on one
machine share `~/.tiru-emba/config.json`.

## The modules

| Module | Models | Composes / refines |
|---|---|---|
| `RelayServer`, `RelayServerProofs` | handlers, writers, Hub, clients' rosters | |
| `RelayClient`, `RelayClientProofs` | callers, `readLoop`, event pump, a FIFO server | |
| `RelaySession`, `RelaySessionProofs` | runs of the program, `config.json`, Auth, sessions, Hub | program and server together |
| `StoreContract`, `RelayStore`, `RelayStoreProofs` | the queries of Auth, Orgs, Points, Todos | `RelayStore` implements `StoreContract` |
| `TicTacToe`, `Match`, `MatchProofs` | a challenge, its time-outs, two boards over one connection | `Match` implements `TicTacToe` |
| `LudoRules`, `LudoMatch`, `LudoProofs` | the rules and the computer player; a match with ticks, or a host and guests | `LudoMatch` extends `LudoRules` |
| `FileTransfer`, `LanProofs` | senders, handlers, prompt, directory, restarts | |
| `SignIn`, `App`, `AppProofs` | wizard and organization screen; router, pumps, invitations, Ludo lobby | `App` composes `SignIn` |
| `Discovery`, `LanProofs` | heartbeats, listener, registry, pruning | |

`MC*` modules hold the definitions and symmetry sets of the runs.

What a next step would add: the requests of the todo and account screens (they
end in operations `RelayStore` already has), and the safety half of the liveness
properties as theorems: that whenever a call, a transfer or a challenge is
unfinished, a step that advances it is possible.

## The runs

| Run | Instance | Shows |
|---|---|---|
| `server_safety` | 2 connections, 2 users sharing nothing at first, 2 orgs, outbox 1, 2 requests each, silent and stalled clients, failing store | `IInv`, `OneConnectionPerHandle`, `OrgIsolation`, `NoMissedPresence` |
| `server_live` | 3 connections of 2 org-mates, one of them on two of the connections, a hang-up, outbox 1, fair | `RosterConverges`, `HandleReleased` |
| `client` | 2 calls, 1 relay, 2 pushes, one-slot event channel, time-outs, a close, fair | `TypeOK`, `OneInFlight`, `PushesInOrder`, `RepliesInStep`, `CallsReturn`, `PushesShown` |
| `session` | 2 runs, 2 servers, 2 accounts, 1 sign-in each, crashes, lost connections | `TypeOK`, `Remembered`, `OnlineIsRegistered` |
| `session_server` | 2 runs, 2 servers, nothing fails | **violated** `TokenForItsServer`: a token is offered to a server that never issued it |
| `store` | 2 workers, 3 accounts, 1 org, code, item and todo, statements that fail | `IInv`, `SeatsPaid`, `Ledger`, `ProfilesComplete`, `Implements` |
| `match` | 2 players, a board of 2 rows of 3, time-outs, a network that breaks, fair | `BoardsAgree`, `SameOutcome`, `PlaysTicTacToe`, `Concluded` |
| `ludo` | 2 seats, 2 tokens, 4 squares, a two-sided die; the local and the networked match, a network that may fail, fair | `TypeOK`, `SomeoneActs`, `CaptureRule`, `Lockstep`, `TokensAdvance`, `TurnEnds`, `EndReachesAll` |
| `files` | 2 transfers of one name, one-slot channels, time-outs, files that change, a disk that fails, a restart, fair | `SavedWhole`, `Consent`, `NothingOverwritten`, `Settled` |
| `app` | 2 pumps, 2 guests, with and without a server, fair | `PumpsKept`, `SignUpChecked`, `LobbyAllOrNothing`, `Attended` |
| `app_pumps` | the same | **violated** `PumpForLife`: an event that comes while another screen is open ends its pump |
| `lan` | 2 other programs, a heartbeat every 2 steps, listed for 6 | `ListIsLive` |

The violated runs are disagreements between the code and its own comments;
`PROJECT.json` quotes both under "findings". `CHECK_DEADLOCK FALSE` in every
configuration: users may do nothing more, and the bounds on requests, calls,
pushes, matches and so on are used up in the end.

## RelayServer

One connection is a handler goroutine (`handleConn` → `readLoop` → the request
handlers) and a writer goroutine (`writeLoop`) around one bounded outbox.
`pc[c]` is the handler's place; a step ends where the code takes `Hub.mu`,
touches a channel or queries the store.

| Model | Code |
|---|---|
| `hub` | `Hub.clients` |
| `Authenticate`, `Refuse` | `handlePreAuth`, `loginAndJoin`, `Hub.Join` |
| `PushReply` | `outbox <- ...`, blocking while the handler's own outbox is full |
| `QueryMates`, `VisitMate`, `PushMate`, `Lookup`, `Deliver`, `EndLoop` | the presence loop of `completeJoin`, of `notifyOrgOfNewMember` and of `handleConn`'s exit, with `Hub.Online` and `Hub.Send` in the two halves the lock divides them into |
| `Relay`, `RedeemInvite`, `CreateOrg`, `Ask` | `handleAuthed`, `handleRelay` |
| `ReadEnd`, `Leave`, `QueryFarewell`, `Finish` | the end of `readLoop` and of `handleConn` |
| `WriteNext` | `writeLoop`, which may stop at an error |
| `roster`, `Seen` | the UI's `orgMates` and `handleRelayEvent` |
| `HangUp`, `Stall` | the client's end of the connection (external) |
| `told`, `lost`, `undone` | history: who was sent whose arrival, which arrivals were dropped, and which were taken back by the late farewell of the same user's earlier connection |

`RosterConverges` is about every pair of registered org-mates that both stay, and
excepts the two ways in which the code leaves a roster wrong: a notice dropped at
a full outbox (`lost`), and a farewell that is said after the Hub was left, when
the user is back on another connection and that arrival has been told (`undone`,
set by `Overtaken`). A later arrival takes the pair out of `undone` again.

Bounds: two users are the smallest pair for every presence property (all of
them relate two connections). `server_live` has a third connection: one user stays
on `c1` while the mate hangs up `c2` and comes back on `c3`, which is what makes a
farewell late. `Accounts` says whose client a connection may be (in `server_safety`
anybody's) and `MayHangUp` which connections their clients end; without `undone`
TLC finds the roster that lacks a connected mate. One outbox slot makes both the blocking and the
dropping case common. `MaxRequests` bounds the requests of a connection,
authentication included.

Fairness: each handler and each writer that can run eventually runs (the Go
scheduler), and a read of a closed socket returns. Clients owe nothing: they
need not send, read or disconnect. A client that stalls without hanging up is
in `server_safety`; `server_live` leaves it out to stay small: `RosterConverges`
excepts it, and `HandleReleased` is about clients that hang up. `HandleReleased`
excepts the one way the code fails it: the writer has stopped at an error and
the outbox is full.

## RelayClient

`Requests` are the calls of `request()`, made by UI commands on goroutines of
their own; `Relays` the calls of `SendRelay`. `pc[r]` places a call between
`request`'s two critical sections; `rl` places `readLoop`, which holds one
envelope and the reply channel it copied under the lock. The server is a FIFO
that answers each request once, answers a relay only when it fails, and pushes
at any time. `id` in an envelope is history: the wire carries none, and no step
of the client reads it. `OpenChat` is the chat screen that first starts the
event pump: before it, nothing reads `Client.events`.

That every call gets its own reply is false as it stands, since a reply carries
no id; `RepliesInStep` says how far it is true: until a call times out or a
relay is sent. The same condition (`Undisturbed`) limits `PushesShown`, because a
stray answer can wedge `readLoop` on the reply channel of a call that is gone
(client.go:98-104).

Bounds: two calls are enough for one to inherit the other's answer; the event
channel of one slot, against 16 in the code, fills as soon as two pushes are
out. Fairness: calls in flight, the reader, the server's answer, opening the
chat and the pump. Beginning a call, pushing and closing are nobody's duty; a
time-out is part of a call in flight, so time passes.

## RelaySession

Each element of `Runs` is one run of the program with at most one relay
connection and the server's handler of it; `pc` is the program's place, `srv`
the handler's. `file` is `config.json`; `config.Update` is three steps, `Load`,
`Truncate`, `Write`, since `os.WriteFile` truncates before it writes and no lock
is taken, and `torn` says that a reader would fail to parse it. `Launch`,
`GetHandle`, `GetToken` and the two updates before them are `main`'s start-up in
its order; `Dial`, `SignIn` and `Reply` the onboarding screen; `Check`, `Issue`,
`Revoke`, `Join` and `Leave` the handler. `Crash`, `LoseConn`, `DialFails` and
`StoreFails` can strike at any step.

`Remembered` excludes two histories on purpose, recorded in `mishaps`: runs that
overlap (their updates undo each other, and a second run's refused resume
destroys the saved token) and a run that dies or loses its connection with a
request out (the server rotated the token, the reply never came).
`OnlineIsRegistered` excludes neither for the registration, and for the account
name only what an explicit `--handle` or an overlapping run can change between
the two reads of the file.

Bounds: two runs give a restart and an overlap; two servers and two accounts
are enough for a token or a handle to be the wrong one; one sign-in per run
follows the resume. Passwords, `requestTimeout` (RelayClient), presence and the
notification setting's own update of the file are abstracted: an answer is lost
with its connection (`LoseConn`), never late on one that is still up.

## RelayStore and StoreContract

`StoreContract` is what the comments of the `Store` interface promise: each
operation is one atomic step with its conditions. `RelayStore` is the statements
of `pgstore.go` in the order Auth, Orgs, Points and Todos issue them, run by
concurrent `Workers` (connection handlers). PostgreSQL's READ COMMITTED makes a
statement atomic; a transaction is split before every check that a concurrent
transaction could invalidate, its writes are one step at the commit, and `lock`
is the row taken `FOR UPDATE`. `Implements` is the refinement; the mapping is
the identity on the tables. `Fail` is a failed statement or a server that dies:
what was not committed is undone, except that `Register` has no transaction.

`Member` in the contract's todo operations is that some member asked, since the
contract does not name the caller. Completing a todo twice awards twice: the
contract does not forbid it and the model keeps it.

Bounds: two workers are the smallest race; three accounts let two race for the
one invite the third made. `MaxEarned` stops new awards for an account once it
has earned something; awards already under way still come, so balances reach 11,
well past the price of the one item. That an account with several items has paid
for each is in the proof only.

## TicTacToe and Match

`TicTacToe` is the game as it is meant: one board, marks that alternate, nothing
played after a line is complete. `Match` is what the program does: a challenge
over a new TCP connection, then one `Model` per player with a board and a turn
of its own. `X` sends the challenge.

| Model | Code |
|---|---|
| `chal`, `ReadAnswer`, `ChallengeFails` | `SendGameInvite` at X, with `gameInviteTimeout` as its deadline |
| `handler`, `respond` | `handleGameInvite` at O and the one-slot channel the screen answers on; its `select` may take the time-out although an answer is there |
| `prompt`, `PressYes`, `PressNo`, `StartAtO` | the invitation on O's screen; `GameInvite.Accept` waits for the handler |
| `open`, `broken`, `wire` | each end of the connection and what is on its way; a write may fail or vanish once the other end is gone |
| `board`, `turn`, `done` | the fields of the same names of the two Models; `done` also says how it was reached |
| `sending`, `AttemptMove`, `SendMove` | a move is drawn at once and sent by a command that runs later; the move that ends the game is sent inside `Update`, before the session is closed |
| `ReceiveMove`, `ReceiveResign`, `LoseOpponent` | `handleEvent`'s three kinds of event |
| `back`, `GameOver` | the `GameOverMsg` a game ends with, and the router's return to the chat; a move that could not be sent sets `done` ("unsent") without one |

`played` is history, the moves in the order they were made, and the refinement
mapping of `PlaysTicTacToe`. `BoardsAgree` says what each board has to do with
it: everything, except the opponent's last move until it has arrived.
`SameOutcome` lists the pairs of results the two players may be told, and that a
game won is never reported lost while the network works. `Concluded` says that
both players are back in the chat once either has ended the game or the network
has failed. It excepts one by name: after `done = "unsent"` no message leaves the
game's screen and every key is ignored, so that player stays on it for ever,
although `view.go:60` offers any key. The test `model_test.go:264-272` looks at
`done` only. No run of its own shows that: without the exception TLC finds it in
the `match` run.

Bounds: six cells with two rows and two diagonals that win keep every ending (a
win by either side, early or on the last cell, and a draw). Fairness: events are
read, commands and their messages run, time passes; nobody has to answer, move or
resign.

## LudoRules and LudoMatch

`LudoRules` holds `applyRoll`, `LegalMoves`, `MoveToken`, `capture`, `endTurn`
and `ChooseAIMove` as operators on a game record, with the sizes of the board as
constants. `LudoMatch` runs them in the two ways the program does: a local match,
where seat 0 is a person and the others move on `aiTick`s, and a networked one,
where the host holds the game and each guest a copy.

| Model | Code |
|---|---|
| `AfterAction` | `afterAction`: broadcast, then order a tick or a wait for whoever is next; at the end close every connection |
| `ticks`, `Tick`, `TickIgnored`, `staleTick` | `aiTickMsg`s on their way; nothing tells one match's tick from the next one's |
| `waits`, `Deliver` | the `waitForGuestAction` commands that are out: with n of them, any of the next n events may be handled next |
| `GuestLeft`, `IgnoreAction`, `ApplyAction` | `handleGuestAction`; a "roll" is accepted in any phase |
| `view`, `GuestSend`, `GuestReceive` | a guest's copy, what it lets the guest ask for, and its replacement by each broadcast |
| `Snapshot` | the JSON of a `Game`, which leaves `consecutiveSixes` behind |
| `broken`, `Break`, `Unreached` | a guest's network that fails while both play: part of what is under way arrives, writes are lost and their errors ignored (`broadcastState`), reads end |
| `Close` | closing a connection with something unread resets it, and what was under way may be lost |

`SomeoneActs` relates whose turn it is to the tick or the wait that has to be
out: it is the invariant without which a match stops for ever. `Lockstep` is the
comment "their screens stay in lockstep", for guests whose network works.
`EndReachesAll` says that when the host, a guest or any guest's network ends the
match, it ends for everybody. `CaptureRule` and `TokensAdvance` are
about the arithmetic of relative and shared positions, `TurnEnds` about the
forfeit at the third six in a row.

Bounds: four squares with two tokens and one home square make captures, safe
squares, exact finishes and blocked tokens common within few moves; a die of two
sides keeps "the largest roll leaves the yard and rolls again". `MaxLag` and
`MaxTaps` bound what is under way, `MaxMatches` gives one rematch, enough for a
tick to outlive its match. `MayBreak` and `MinHome` let the network of the one guest
fail once two tokens are home, which keeps the run within minutes while all that
follows a failure (either's turn, a wait out or not, a winning move lost) still
occurs; the proofs have it fail at any time. Fairness: timers fire, what arrives is handled;
nobody has to roll, move or stay.

## FileTransfer

Each transfer is a sender and, at the one receiver, a handler goroutine; they
share the directory, the two channels to the screen and the prompt's queue.
Contents are counted in pieces, so that a file can be incomplete, too long or
too short.

| Model | Code |
|---|---|
| `sender`, `size`, `unsent` | `SendFile`, with the size the file has when it is streamed, which may no longer be the size offered |
| `handler`, `decision`, `HandlerTimeout` | `handleFileOffer` and its one-slot channel |
| `path`, `ChoosePath`, `CreateFile`, `CopyPiece`, `CopyFails` | `uniquePath`, `receiveFile`'s `O_EXCL`, `io.CopyN` and the removal of what is incomplete |
| `Interrupted`, `DiskMayFail` | why a copy ends in failure: the deadline, the sender's end, or the disk; the last may strike with every piece copied (`f.Close`), and the file is removed then too |
| `queue`, `AnswerOffer`, `choice` | `fileOfferQueue` and the key that answers its head |
| `Restart`, `SenderQuits` | a program that ends at any step; the directory is what is left of the receiver |

`SavedWhole` is about every result reported to the user; `Consent` about every
piece that is streamed or saved; `NothingOverwritten` about every file that
exists: only the one handler that is still copying it changes or removes it. The
files that were there, those received and those an ended run has left stay.
An offer refused for its size (file.go:63-70) is not told from one denied. `Settled` lists the three ways in which
a user who accepted is never told an outcome.

Bounds: two transfers of the same name are the smallest race for a path, with a
file of that name there or not; three names suffice for them. Channels of one
slot, against 16, fill. Fairness: goroutines run, deadlines pass.

## SignIn and App

`SignIn` is the onboarding wizard and the organization screen: `screen`, `step`,
`flow`, `fieldIdx`, `answers` and `checking` are the fields of the Model;
`requests` the commands it has running, whose results come back as messages while
keys go on arriving. Fields that are blank, too short or no picture are refused
and change nothing, so only the others are typed. `taken` is the server's
accounts, among which another user's may appear at any time.

`App` is one program: `Route` and the other messages the router handles itself
change `screen`; every other message goes to the screen that is open. `waiting`,
`carried` and `dropped` count, for every channel, the pumps that wait, that carry
an event and that were lost on a screen that ignores their message. `chats`
counts chat Models: two requests of the organization screen may each build one.
`lobby`, `reply` and `session` are the Ludo lobby and its challenges.

`PumpsKept` says that pumps are lost in that one way only and never doubled,
`Attended` that what is submitted, queued or pending is dealt with otherwise.
`PumpForLife` is the code's own comment, which that way refutes.

Bounds: two channels tell one pump's fate from another's; two guests are the
fewest whose answers can differ; two organization requests build two chat
Models; a trip away from the chat and back, two without a server. Fairness:
commands run, the router takes their messages, peers who were asked answer or
time out; the user owes nothing.

## Discovery

Time passes in steps of `pruneInterval` (one second), heartbeats every two,
`PeerTTL` six. `Announce` puts any number of copies of a heartbeat into the
listener's socket, none if it is lost; `Read`, `Push`, `See` and `Prune` are
`Listener.Run`, its channel, `Upsert` and `pruneTick`. A sighting's `ago` is
`time.Since` of the time stamp it got when it was read. Once the chat is open,
`Tick` waits until what arrived is dealt with: handling takes less than a step.
`quiet` is history, the age of the last heartbeat that arrived.

`ListIsLive`: whoever was heard of less than `TTL` ago is listed, and nobody else
but during the first `TTL` after the chat opens, because sightings pile up unread
while the user signs in and those still in the socket are dated when they are
read. Two instances
share the listener's channel; `Slots` is 1 against 32, so that it is full.

## Proofs

`RelayServerProofs` proves `Spec => []IInv` for any finite or infinite sets of
handles, connections and organizations, any outbox size and any initial
membership, from `ServerAssumption` alone. `IInv` joins the type invariant with
`Locals` (what a handler's place says of its local variables), `Registry` (the
Hub maps a handle to a connection exactly while its handler is between `Join`
and `Leave`), `Isolated` (everything queued or about to be sent stays within an
organization) and `Met` (of two registered org-mates one still owes the other a
visit unless both notices are out). `NoMissedPresence` alone is not inductive:
it says nothing of handlers half-way through their loops, which is what `Met`
and `Owes` add. Type correctness, `OneConnectionPerHandle`, `OrgIsolation` and
`NoMissedPresence` follow from `IInv`.

`RelayClientProofs` proves the types and `OneInFlight`. The types need `HeldOK`
(what `readLoop` is about to put into a reply channel is an answer), which needs
`OneInFlight` (while `waiting`, the channel is that of a call). `PushesInOrder` is
about everything shown, held or on its way as one sequence, `Stream`: a step that
moves an envelope along leaves it alone, one that takes a reply out leaves its
pushes alone, and a push is added at its end. `RepliesInStep` is carried by
`OneAnswerAwaited`: a reply on the wire, in the reader's hand or in a box is to
the call that is waiting, and there is only one, in one of these places.
`ReaderIsNotWedged` follows: only after a time-out or a relay can `readLoop` wait on
a full reply channel.

`RelayStoreProofs` proves `Spec => []IInv`, from it `ActiveIsOwned`, and the
refinement `Spec => Contract!Spec`. The strengthening is `Checked`: for each
place in a request, that what it has already checked still holds. Roles and
unlocks never go away; an invite's use and a balance are kept by the row lock.
Each step then maps to the contract's step of the same name, or to a stutter.
`SeatsPaid` and `Ledger` are then proved of the contract's atomic operations
(`Seats`, `Balanced`) and carried down by the refinement. They count over sets:
the prices of a set of items are a fold, and that adding an item adds its price,
whatever order the fold takes, is proved from a smallest set that would be a
counterexample (`SmallerSetsFirst`). `ProfilesComplete` needs `IInv` only.

`AppProofs` proves `PumpsKept` from `PumpInv` (the types and the property itself:
building a chat starts one pump per channel, a message hands each on) and
`LobbyAllOrNothing` from `LobbyInv`, which adds `Before` (before there is a chat
Model nothing was challenged or opened) and `Pending` (a guest who has yet to
answer has no session, nobody plays, and the lobby of the one chat Model
waits). Neither is inductive alone: a lobby that starts needs to know that no
session of an earlier one is left. `SignUpChecked` takes `SignInv`: `Filled` (the
fields a wizard has taken are those it shows, the handle among them was called
free and the password confirmed) and `Awaited` (the requests out are exactly the
one the screen waits for, and a submission carries the fields as they stand), so
an answer that comes late finds the form it was asked for. That the wizard is
left for good when another screen opens comes from `LobbyInv`.

`MatchProofs` proves `BoardsAgree` and the refinement `PlaysTicTacToe`, for a
board of any size with any winning lines. `BoardsAgree` is carried by `OnWire`
(what is under way to a player is at most the opponent's last move and an end)
and `ToSend` (a move drawn and not yet sent is the last one played), with
`Turned` (whose turn each board says it is follows from the number of moves) and
`Undecided` (a board with no result yet is not decided, but by a move still
under way). Only `AttemptMove` changes the abstract game, and `Turned`,
`Undecided` and `Boarded` make it a step of `TicTacToe`; all other actions stutter.
`SameOutcome` needs `OutcomeInv` besides. `LatestDecides` says that the game was
undecided before its last move, `Resolved` that a player has a verdict exactly
on a decided board; the two boards differing by one move, a win on one is a
defeat on the other. `Answered` and `Seated` say where a resignation and an
acceptance come from and who still holds a connection; `Delivered` that the move
that decides waits for whoever has not seen it, and `Abandoned` that nobody is
told the opponent is gone when the opponent has a verdict: these two are
what closing after sending, in one `Update`, gives.

`LanProofs` proves `SavedWhole`, `Consent` and `NothingOverwritten`, for
any number of transfers, names, sizes and restarts, with deadlines and a disk
that fail at any step. `FileInv` says who may write
where: `Owned` (a file being written belongs to the one transfer whose handler
is there), `Flow` (pieces streamed, in the pipe and copied add up to the size),
`SaidYes` (a handler or a sender past the answer has a yes), `OfferedOnce` (an
offer is in one place between the channel, the prompt and the answer), `Paved`
(a handler that copies has chosen its path) and `Reported`.

`LanProofs` also proves `ListIsLive`, for any number of programs, times and
capacities, from `DiscoveryAssumption` alone. `Heard` follows a heartbeat from
the socket to the list: of everybody heard of there is a datagram to read, or
a sighting no older than that. `InOrder` is why a new sighting never makes a
peer older; `WellDated` that a sighting is dated before the heartbeat only by
what lay unread when the chat screen opened; `UpToDate` that time passes on
that screen only when all of it is dealt with.

`LudoProofs` proves `TypeOK`, `SomeoneActs`, `CaptureRule`, `Lockstep` and
`TokensAdvance` on a board of any size, with any number of seats, tokens and
matches. `Sound` is what the rules keep of one game: a token is asked for only
when one can move, a game is over exactly when somebody has every token home,
and no two colours share an unsafe square. `RollSound` and `MoveSound` prove that
for a throw and a move, `CaptureForeseen` that the computer's own look-ahead
agrees with them. `MatchInv` adds `Waited`, which strengthens `SomeoneActs`: the
guest whose turn it is has two waits out, since the one that takes its action is
replaced only if the turn stays with a guest. `Copied` strengthens `Lockstep`
with `Decisive`: among the games under way to a guest only the last is over, which
a network that fails and keeps a first part of them leaves true (`BreakKeeps`).

`RelaySessionProofs` proves `TypeOK`, `Remembered` and `OnlineIsRegistered` for any
number of runs, servers, accounts and sign-ins. `Placed` ties the program's place
to its connection and to the handler's place, `Granted` says what a handler past
the store's answer holds, and `Registered` that the Hub has exactly the runs whose
handler is between `Join` and `Leave`: together they give the registration.
`Remembered` speaks of runs at rest and is far from inductive. `Kept` says what
holds in between: the saved token may be one the server has deleted only while a
run that has resumed with it is about to save its successor. `Named` says that a
token and the handle beside it belong together, saved, loaded or on the way, and
`Alone` that runs which do not overlap follow one another, so that the three steps
of an update are not undone by another run's.

Only model-checked: everything under fairness (`RosterConverges`,
`HandleReleased`, `CallsReturn`, `PushesShown`, `Concluded`, `TurnEnds`,
`EndReachesAll`, `Settled`, `Attended`), which is out of the prover's reach.
Every safety invariant, action property and refinement of a passing run is a
theorem.

## Behaviour worth knowing

What the models show of the code. Where a property would fail on one of these, it
excepts it by name. Some contradict what the code says of itself, as noted
there; the two findings of `PROJECT.json` are the ones a run shows.

- A connection whose writer stopped at an error keeps its handle registered for
  ever once its outbox is full: the handler waits on it (server.go:131).
- A roster can show a mate that is gone, one that leaves between `Online(mate)` and
  the push of its arrival (server.go:248), and can lack one that is there, whose
  earlier connection says farewell after the new one was announced (server.go:115).
- A reply that comes after its request timed out, or the error that answers a
  relay, is taken for the reply to the next request (client.go:158); the comments
  at client.go:27-30 and 313-316 have a relay's failure surface as an event.
- Before the chat screen pumps, pushes can fill the event channel and keep
  replies away until their requests time out (client.go:91).
- A run that resumes while another is connected has the saved token rotated
  before the Hub refuses it: the saved one is revoked and its successor never
  reaches the program (auth.go:140, then completeJoin).
- Completing a todo that is done succeeds and awards points again
  (pgstore.go:611); the todo screen sends the request again at every key press
  until the first answer is there.
- A tic-tac-toe move that cannot be written ends the game without a `GameOverMsg`
  (tictactoe/model.go:91), and every key is then ignored (104-106): the player is
  never brought back to the chat. view.go:60 says "press any key to return to
  chat", model_test.go:264-272 that the game must not be left stuck, and the
  repository's README (108-109) that both sides drop back into chat.
- Accepting a second challenge replaces the game on the screen.
- `GameInvite.Accept` waits for ever if the handler's time-out was taken first
  (game.go:223).
- An accepted file whose acceptance could not be written, or came after the
  handler's deadline, gives no result at the receiver (file.go:102), although
  tcp.go:109-111 promises the outcome of an accepted transfer.
- A receiver that ends while it copies leaves part of a file under its final name
  (file.go:126), and nothing removes it later.
- The award of a todo that fails is lost (todos.go:58); `Ledger` counts only awards
  that were paid.
- A guest of a Ludo match who rolls again before the host's state arrives makes the
  host throw again while a token is to be selected (ludo/net.go:199): the first
  throw is lost, but if it was a six it still counts towards the third, against net.go:204-208.
- A Ludo guest whose network fails misses every state after that; the host ignores
  the errors of its writes (ludo/net.go:178) and finds out from a wait on that guest.
- A tick of an abandoned local Ludo match acts in the next one, for the person
  if it is their turn (ludo/model.go:253).
- An event of the chat screen that arrives while another screen is open is lost
  and ends its pump (app.go:248, the finding of `app_pumps`); a guest's answer
  lost that way leaves the lobby "already pending".
- Enter pressed twice while an organization is created sends two requests and
  builds two chat Models (orgselect/model.go:206).
- Heartbeats unread when the chat screen opens are dated then: a peer that left
  long before is listed for up to `PeerTTL`. A peer restarted within `PeerTTL`
  has two entries: `Lookup` picks either, and a broadcast goes to it twice.

## Not modelled

Rendering, styling, string helpers and socket options keep no state. The local
files (history, todos) are sequential: a run reads its file when it starts and
appends or rewrites it from its UI goroutine. The todo and account screens send
one request after another to operations modelled in `RelayStore`; what is
modelled of them is when they are open and which events they ignore. Text
messages on the LAN are written once and never answered. Of the chat screen the
suggestions, filters and the organization and account commands are left out, of
the start-up the flags and the wiring. Of the relay, password and
security-answer checks are abstracted to their outcome, `PromoteToAdmin` is the
constant `Admins`, and queries that only list are not steps. `PROJECT.json`
gives the status of every component.
