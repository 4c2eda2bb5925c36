------------------------------- MODULE Discovery -------------------------------
(***************************************************************************)
(* Finding peers on the LAN, as one program sees it: the heartbeats of the *)
(* others (internal/discovery), the listener that turns them into          *)
(* sightings, and the chat screen's registry (internal/peer).              *)
(*                                                                         *)
(* The listener runs from the start; the registry only once the chat       *)
(* screen is open, which with a relay server is after signing in.  From    *)
(* then on the screen stays open: what becomes of sightings on other       *)
(* screens is in module App.                                               *)
(*                                                                         *)
(* Time passes in steps of pruneInterval, and once the chat is open not    *)
(* before the program has dealt with all there is.                         *)
(*                                                                         *)
(* The specification is LanSpec: LanProofs extends this module together    *)
(* with FileTransfer, which has the usual names.                           *)
(***************************************************************************)
EXTENDS Integers, Sequences, FiniteSets

CONSTANTS
  Instances,  \* runs of the program elsewhere, each with an ID of its own
  Interval,   \* HeartbeatInterval and PeerTTL, in steps: 2 and 6
  TTL,
  Slots,      \* capacity of peerC: 32
  Buffer,     \* bound: datagrams the socket holds
  Copies      \* bound: in how many ways a heartbeat reaches this machine

ASSUME DiscoveryAssumption ==
  /\ Interval \in Nat \ {0} /\ TTL \in Nat /\ Interval < TTL
  /\ Slots \in Nat \ {0} /\ Buffer \in Nat \ {0} /\ Copies \in Nat \ {0}

VARIABLES
  life,      \* "new", "up" or "gone"
  due,       \* steps until an instance's ticker fires
  quiet,     \* history: steps since this machine last took a heartbeat of an instance
  socket,    \* datagrams the listener has not read
  held,      \* the sighting it waits to put into peerC
  peerC,     \* sightings: who, and how many steps ago
  chat,      \* is the chat screen there?
  openFor,   \* for how many steps
  pruneDue,  \* has its pruneTick fired?
  byID       \* the registry: how many steps ago an instance was seen

peerVars == <<life, due, quiet>>
listenerVars == <<socket, held, peerC>>
chatVars == <<chat, openFor, pruneDue, byID>>
lanVars == <<peerVars, listenerVars, chatVars>>

Never == -1  \* of an instance that is not in the registry
Nothing == <<>>

\* Above TTL all counts are alike.
Later(steps) == IF steps > TTL THEN steps ELSE steps + 1
Aged(sighting) == [sighting EXCEPT !.ago = Later(@)]

LanInit ==
  /\ life = [i \in Instances |-> "new"] /\ due = [i \in Instances |-> 0]
  /\ quiet = [i \in Instances |-> TTL + 1]
  /\ socket = <<>> /\ held = Nothing /\ peerC = <<>>
  /\ chat = FALSE /\ openFor = 0 /\ pruneDue = FALSE
  /\ byID = [i \in Instances |-> Never]

-------------------------------------------------------------------------------
(* The others: Broadcaster.Run. *)

Start(i) ==
  /\ life[i] = "new" /\ life' = [life EXCEPT ![i] = "up"]
  /\ UNCHANGED <<due, quiet, listenerVars, chatVars>>

\* A heartbeat goes out as a multicast and as broadcasts.  Any of them may be
\* lost, on the way or because the socket has no room.
Announce(i) ==
  /\ life[i] = "up" /\ due[i] = 0
  /\ due' = [due EXCEPT ![i] = Interval]
  /\ \E n \in 0..Copies :
       /\ Len(socket) + n <= Buffer
       /\ socket' = socket \o [k \in 1..n |-> i]
       /\ quiet' = IF n = 0 THEN quiet ELSE [quiet EXCEPT ![i] = 0]
  /\ UNCHANGED <<life, held, peerC, chatVars>>

\* Nothing is sent when a program ends.
Quit(i) ==
  /\ life[i] = "up" /\ life' = [life EXCEPT ![i] = "gone"]
  /\ UNCHANGED <<due, quiet, listenerVars, chatVars>>

-------------------------------------------------------------------------------
(* Listener.Run: a sighting is dated when its datagram is read. *)

Read ==
  /\ held = Nothing /\ socket # <<>>
  /\ held' = [id |-> Head(socket), ago |-> 0] /\ socket' = Tail(socket)
  /\ UNCHANGED <<peerC, peerVars, chatVars>>

Push ==
  /\ held # Nothing /\ Len(peerC) < Slots
  /\ peerC' = Append(peerC, held) /\ held' = Nothing
  /\ UNCHANGED <<socket, peerVars, chatVars>>

-------------------------------------------------------------------------------
(* The chat screen. *)

OpenChat ==
  /\ ~chat /\ chat' = TRUE
  /\ UNCHANGED <<openFor, pruneDue, byID, peerVars, listenerVars>>

\* peerSeenMsg: Upsert, and the pump is started again.
See ==
  /\ chat /\ peerC # <<>> /\ peerC' = Tail(peerC)
  /\ byID' = [byID EXCEPT ![Head(peerC).id] = Head(peerC).ago]
  /\ UNCHANGED <<chat, openFor, pruneDue, socket, held, peerVars>>

\* Mutant: the interval of heartbeats is taken for their time to live.
PruneEarly ==
  /\ pruneDue /\ pruneDue' = FALSE
  /\ byID' = [i \in Instances |-> IF byID[i] > Interval THEN Never ELSE byID[i]]
  /\ UNCHANGED <<chat, openFor, listenerVars, peerVars>>

Prune ==
  /\ pruneDue /\ pruneDue' = FALSE
  /\ byID' = [i \in Instances |-> IF byID[i] > TTL THEN Never ELSE byID[i]]
  /\ UNCHANGED <<chat, openFor, listenerVars, peerVars>>

-------------------------------------------------------------------------------
Drained == socket = <<>> /\ held = Nothing /\ peerC = <<>> /\ ~pruneDue

Tick ==
  /\ \A i \in Instances : life[i] = "up" => due[i] > 0
  /\ chat => Drained
  /\ due' = [i \in Instances |-> IF life[i] = "up" THEN due[i] - 1 ELSE 0]
  /\ quiet' = [i \in Instances |-> Later(quiet[i])]
  /\ held' = IF held = Nothing THEN held ELSE Aged(held)
  /\ peerC' = [k \in DOMAIN peerC |-> Aged(peerC[k])]
  /\ pruneDue' = chat /\ openFor' = IF chat THEN Later(openFor) ELSE 0
  /\ byID' = [i \in Instances |-> IF byID[i] = Never THEN Never ELSE Later(byID[i])]
  /\ UNCHANGED <<life, socket, chat>>

LanNext ==
  \/ \E i \in Instances : Start(i) \/ Announce(i) \/ Quit(i)
  \/ Read \/ Push \/ OpenChat \/ See \/ Prune \/ Tick

LanSpec == LanInit /\ [][LanNext]_lanVars

-------------------------------------------------------------------------------
\* "PeerTTL is how long a peer is considered online after its last heartbeat"
\* (discovery.go:28-29): whoever was heard of more recently is listed, however
\* many heartbeats are lost in between, and nobody else, except that for as long
\* after the chat screen opens somebody may be listed who left long before: the
\* heartbeats nobody has read until then are taken for new ones.
ListIsLive ==
  chat /\ Drained => \A i \in Instances :
    /\ quiet[i] < TTL => byID[i] # Never
    /\ byID[i] # Never => quiet[i] <= TTL \/ openFor <= TTL
================================================================================
