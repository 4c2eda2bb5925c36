------------------------------- MODULE RelayStore -------------------------------
(***************************************************************************)
(* The relay's shared data under concurrent requests: the queries of       *)
(* internal/relay/pgstore.go in the order auth.go, orgs.go, points.go and  *)
(* todos.go make them.  A worker is a connection's handler carrying out    *)
(* one request.  PostgreSQL runs every statement atomically (READ          *)
(* COMMITTED); a transaction's writes appear together at its commit, and a *)
(* row taken FOR UPDATE is locked until then.  A step of this module is a  *)
(* statement, or the rest of a transaction once its checks have passed.    *)
(*                                                                         *)
(* Nothing here relies on the Hub's one connection per handle: any number  *)
(* of workers may act for the same account.  Rows are never deleted but    *)
(* for sessions, which RelaySession models.                                *)
(***************************************************************************)
EXTENDS Naturals, FiniteSets, FiniteSetsExt

CONSTANTS
  Workers,      \* handlers that may be at work at the same time
  Handles,      \* possible accounts
  Admins,       \* those --admin-handle promotes
  Orgs, Codes, Items, Todos,
  Cost,         \* the catalog's prices
  NoOne,
  MaxEarned,    \* bound: no award starts for an account that earned so much
  StoreMayFail  \* can a statement or a commit fail?

ASSUME StoreAssumption ==
  /\ Admins \subseteq Handles
  /\ NoOne \notin Workers \cup Handles \cup Orgs \cup Codes \cup Items \cup Todos
  /\ Handles \cap Codes = {}
  /\ Cost \in [Items -> Nat] /\ MaxEarned \in Nat

VARIABLES
  users, profiles, role, invites, expired, points, unlocked, active, todoOrg, done,
            \* the tables, as in StoreContract
  earned,   \* history: points ever awarded to each account
  pc,       \* where each worker is in its request
  job,      \* what the request is about
  lock,     \* the worker holding an org_invites or user_profiles row
  failed    \* history: accounts whose registration stopped half-way

db == <<users, profiles, role, invites, expired, points, unlocked, active, todoOrg,
        done, earned>>
vars == <<db, pc, job, lock, failed>>

Contract == INSTANCE StoreContract

Idle == [user |-> NoOne, org |-> NoOne, what |-> NoOne]
Jobs == [user : Handles \cup {NoOne}, org : Orgs \cup {NoOne},
         what : Codes \cup Items \cup Todos \cup {NoOne}]
Member(u, o) == role[o][u] # "none"

Init ==
  /\ Contract!Init
  /\ pc = [w \in Workers |-> "idle"]
  /\ job = [w \in Workers |-> Idle]
  /\ lock = [x \in Handles \cup Codes |-> NoOne]
  /\ failed = {}

\* The request's next statement, and its end.
Goto(w, phase) == pc' = [pc EXCEPT ![w] = phase]
Begin(w, u, o, x, phase) ==
  /\ pc[w] = "idle" /\ Goto(w, phase)
  /\ job' = [job EXCEPT ![w] = [user |-> u, org |-> o, what |-> x]]
End(w) == Goto(w, "idle") /\ job' = [job EXCEPT ![w] = Idle]

Free(x) == lock[x] = NoOne
Acquire(w, x) == lock' = [lock EXCEPT ![x] = w]
Unlock(w) == lock' = [x \in DOMAIN lock |-> IF lock[x] = w THEN NoOne ELSE lock[x]]

-------------------------------------------------------------------------------
(* Auth.Register: two statements, no transaction. *)

Register(w, u) ==
  /\ Begin(w, u, NoOne, NoOne, "profile")
  /\ Contract!CreateUser(u)
  /\ UNCHANGED <<lock, failed>>

\* Mutant: Register answers as soon as the account exists.
CreateProfileSkipped(w) ==
  /\ pc[w] = "profile" /\ End(w)
  /\ UNCHANGED <<db, lock, failed>>

CreateProfile(w) ==
  /\ pc[w] = "profile" /\ End(w)
  /\ Contract!CreateUserProfile(job[w].user)
  /\ UNCHANGED <<lock, failed>>

-------------------------------------------------------------------------------
(* Orgs. *)

\* Orgs.Create and the transaction of PGStore.CreateOrg; o is a new row.
CreateOrg(w, u, o) ==
  /\ pc[w] = "idle"
  /\ u \in Admins \cap users
  /\ \A h \in Handles : ~Member(h, o)
  /\ role' = [role EXCEPT ![o][u] = "admin"]
  /\ UNCHANGED <<users, profiles, invites, expired, points, unlocked, active, todoOrg,
                 done, earned, pc, job, lock, failed>>

\* Orgs.Invite: IsOrgAdmin, then CreateOrgInvite with a new random code.
AskAdmin(w, u, o) ==
  /\ u \in users /\ role[o][u] = "admin"
  /\ Begin(w, u, o, NoOne, "invite")
  /\ UNCHANGED <<db, lock, failed>>

CreateInvite(w) ==
  /\ pc[w] = "invite" /\ End(w)
  /\ \E k \in Codes :
       /\ invites[k].org = NoOne
       /\ invites' = [invites EXCEPT ![k] = [org |-> job[w].org, used |-> 0]]
  /\ UNCHANGED <<users, profiles, role, expired, points, unlocked, active, todoOrg, done,
                 earned, lock, failed>>

\* Mutant: the invite is read without FOR UPDATE.
FindInviteUnlocked(w, u, k) ==
  /\ u \in users
  /\ invites[k].org # NoOne /\ k \notin expired /\ invites[k].used < 1
  /\ Begin(w, u, invites[k].org, k, "member")
  /\ UNCHANGED <<db, lock, failed>>

\* RedeemOrgInvite's SELECT ... FOR UPDATE, which waits for the row.
FindInvite(w, u, k) ==
  /\ u \in users
  /\ Free(k) /\ invites[k].org # NoOne /\ k \notin expired /\ invites[k].used < 1
  /\ Begin(w, u, invites[k].org, k, "member")
  /\ Acquire(w, k)
  /\ UNCHANGED <<db, failed>>

\* Already a member: the transaction rolls back.
CheckMember(w) ==
  /\ pc[w] = "member"
  /\ IF Member(job[w].user, job[w].org)
       THEN End(w) /\ Unlock(w)
       ELSE Goto(w, "join") /\ UNCHANGED <<job, lock>>
  /\ UNCHANGED <<db, failed>>

\* INSERT, UPDATE used_count and commit.  The primary key of org_members
\* refuses a member that another transaction added since the check.
Join(w) ==
  /\ pc[w] = "join" /\ End(w) /\ Unlock(w)
  /\ IF Member(job[w].user, job[w].org)
       THEN UNCHANGED <<role, invites>>
       ELSE /\ role' = [role EXCEPT ![job[w].org][job[w].user] = "member"]
            /\ invites' = [invites EXCEPT ![job[w].what].used = @ + 1]
  /\ UNCHANGED <<users, profiles, expired, points, unlocked, active, todoOrg, done,
                 earned, failed>>

\* expires_at passes.
Expire(k) ==
  /\ invites[k].org # NoOne
  /\ Contract!Expire(k)
  /\ UNCHANGED <<pc, job, lock, failed>>

-------------------------------------------------------------------------------
(* Points. *)

\* UPDATE ... SET points = points + delta: waits for the row, and changes
\* nothing for an account without a profile.
AddPoints(u, delta) ==
  /\ Free(u)
  /\ IF u \in profiles
       THEN /\ points' = [points EXCEPT ![u] = @ + delta]
            /\ earned' = [earned EXCEPT ![u] = @ + delta]
       ELSE UNCHANGED <<points, earned>>

\* handleRelay after a delivery.
AwardMessage(w, u) ==
  /\ pc[w] = "idle" /\ u \in users /\ earned[u] < MaxEarned
  /\ AddPoints(u, Contract!messageAward)
  /\ UNCHANGED <<users, profiles, role, invites, expired, unlocked, active, todoOrg,
                 done, pc, job, lock, failed>>

\* RedeemUnlockable: the cost, and the check that it is not unlocked yet.
ChooseItem(w, u, i) ==
  /\ u \in users /\ i \notin unlocked[u]
  /\ Begin(w, u, NoOne, i, "balance")
  /\ UNCHANGED <<db, lock, failed>>

\* Mutant: a balance of one point too little is enough.
CheckBalanceOffByOne(w) ==
  /\ pc[w] = "balance" /\ Free(job[w].user)
  /\ IF job[w].user \in profiles /\ points[job[w].user] + 1 >= Cost[job[w].what]
       THEN Goto(w, "buy") /\ Acquire(w, job[w].user) /\ UNCHANGED job
       ELSE End(w) /\ UNCHANGED lock
  /\ UNCHANGED <<db, failed>>

\* SELECT points ... FOR UPDATE, and the comparison; a refusal rolls back.
CheckBalance(w) ==
  /\ pc[w] = "balance" /\ Free(job[w].user)
  /\ IF job[w].user \in profiles /\ points[job[w].user] >= Cost[job[w].what]
       THEN Goto(w, "buy") /\ Acquire(w, job[w].user) /\ UNCHANGED job
       ELSE End(w) /\ UNCHANGED lock
  /\ UNCHANGED <<db, failed>>

\* Mutant: the primary key of user_unlocks is missing.
BuyTwice(w) ==
  /\ pc[w] = "buy" /\ End(w) /\ Unlock(w)
  /\ points' = [points EXCEPT ![job[w].user] = @ - Cost[job[w].what]]
  /\ unlocked' = [unlocked EXCEPT ![job[w].user] = @ \cup {job[w].what}]
  /\ UNCHANGED <<users, profiles, role, invites, expired, active, todoOrg, done, earned,
                 failed>>

\* UPDATE points, INSERT user_unlocks and commit.  The primary key refuses
\* what another transaction unlocked since the check, and rolls back.
Buy(w) ==
  /\ pc[w] = "buy" /\ End(w) /\ Unlock(w)
  /\ IF job[w].what \in unlocked[job[w].user]
       THEN UNCHANGED <<points, unlocked>>
       ELSE /\ points' = [points EXCEPT ![job[w].user] = @ - Cost[job[w].what]]
            /\ unlocked' = [unlocked EXCEPT ![job[w].user] = @ \cup {job[w].what}]
  /\ UNCHANGED <<users, profiles, role, invites, expired, active, todoOrg, done, earned,
                 failed>>

\* Points.SetActive: UnlockedIDs, then SetActiveUnlockable.
AskOwned(w, u, i) ==
  /\ u \in users /\ i \in unlocked[u]
  /\ Begin(w, u, NoOne, i, "equip")
  /\ UNCHANGED <<db, lock, failed>>

Equip(w) ==
  /\ pc[w] = "equip" /\ Free(job[w].user) /\ End(w)
  /\ active' = [active EXCEPT ![job[w].user] =
                 IF job[w].user \in profiles THEN job[w].what ELSE @]
  /\ UNCHANGED <<users, profiles, role, invites, expired, points, unlocked, todoOrg,
                 done, earned, lock, failed>>

-------------------------------------------------------------------------------
(* Todos: every request names its organization and asks IsOrgMember first. *)

AskAdd(w, u, o) ==
  /\ u \in users /\ Member(u, o)
  /\ Begin(w, u, o, NoOne, "add")
  /\ UNCHANGED <<db, lock, failed>>

CreateTodo(w) ==
  /\ pc[w] = "add" /\ End(w)
  /\ \E t \in Todos :
       /\ todoOrg[t] = NoOne
       /\ todoOrg' = [todoOrg EXCEPT ![t] = job[w].org]
  /\ UNCHANGED <<users, profiles, role, invites, expired, points, unlocked, active, done,
                 earned, lock, failed>>

AskComplete(w, u, o, t) ==
  /\ u \in users /\ Member(u, o) /\ earned[u] < MaxEarned
  /\ Begin(w, u, o, t, "complete")
  /\ UNCHANGED <<db, lock, failed>>

\* UPDATE ... WHERE id AND org_id, done already or not.
CompleteTodo(w) ==
  /\ pc[w] = "complete"
  /\ IF todoOrg[job[w].what] = job[w].org
       THEN Goto(w, "award") /\ done' = done \cup {job[w].what} /\ UNCHANGED job
       ELSE End(w) /\ UNCHANGED done
  /\ UNCHANGED <<users, profiles, role, invites, expired, points, unlocked, active,
                 todoOrg, earned, lock, failed>>

Award(w) ==
  /\ pc[w] = "award" /\ End(w)
  /\ AddPoints(job[w].user, Contract!todoCompleteAward)
  /\ UNCHANGED <<users, profiles, role, invites, expired, unlocked, active, todoOrg, done,
                 lock, failed>>

-------------------------------------------------------------------------------
\* Any statement fails, or the server dies: what was not committed is undone,
\* the locks go, and a registration stays half done.
Fail(w) ==
  /\ StoreMayFail /\ pc[w] # "idle"
  /\ failed' = IF pc[w] = "profile" THEN failed \cup {job[w].user} ELSE failed
  /\ End(w) /\ Unlock(w)
  /\ UNCHANGED db

Request(w) ==
  \E u \in Handles :
    \/ Register(w, u) \/ AwardMessage(w, u)
    \/ \E o \in Orgs : CreateOrg(w, u, o) \/ AskAdmin(w, u, o) \/ AskAdd(w, u, o)
    \/ \E k \in Codes : FindInvite(w, u, k)
    \/ \E i \in Items : ChooseItem(w, u, i) \/ AskOwned(w, u, i)
    \/ \E o \in Orgs, t \in Todos : AskComplete(w, u, o, t)

Continue(w) ==
  \/ CreateProfile(w) \/ CreateInvite(w) \/ CheckMember(w) \/ Join(w)
  \/ CheckBalance(w) \/ Buy(w) \/ Equip(w)
  \/ CreateTodo(w) \/ CompleteTodo(w) \/ Award(w)

Next ==
  \/ \E w \in Workers : Request(w) \/ Continue(w) \/ Fail(w)
  \/ \E k \in Codes : Expire(k)

Spec == Init /\ [][Next]_vars

-------------------------------------------------------------------------------
Phases == {"idle", "profile", "invite", "member", "join", "balance", "buy", "equip",
           "add", "complete", "award"}

TableTypes ==
  /\ users \subseteq Handles /\ profiles \subseteq users
  /\ role \in [Orgs -> [Handles -> {"none", "member", "admin"}]]
  /\ invites \in [Codes -> [org : Orgs \cup {NoOne}, used : Nat]] /\ expired \subseteq Codes
  /\ points \in [Handles -> Nat] /\ earned \in [Handles -> Nat]
  /\ unlocked \in [Handles -> SUBSET Items] /\ active \in [Handles -> Items \cup {NoOne}]
  /\ todoOrg \in [Todos -> Orgs \cup {NoOne}] /\ done \subseteq Todos

RequestTypes ==
  /\ pc \in [Workers -> Phases] /\ job \in [Workers -> Jobs]
  /\ lock \in [Handles \cup Codes -> Workers \cup {NoOne}]
  /\ failed \subseteq Handles

TypeOK == TableTypes /\ RequestTypes

Joined(o) == {u \in Handles : role[o][u] = "member"}
Used(o) == {k \in Codes : invites[k].org = o /\ invites[k].used > 0}

\* Invites are "single-use": however many clients redeem codes at the same
\* time, every member but the founder used up a code of its own.
SeatsPaid ==
  /\ \A o \in Orgs : Cardinality(Joined(o)) = Cardinality(Used(o))
  /\ \A k \in Codes : invites[k].used <= 1

\* No paid award and no price is lost or counted twice: what was paid to an account
\* is what it has plus the price of what it unlocked, whatever is awarded and
\* redeemed at the same time, and the balance never goes below zero (TypeOK).  An
\* award that failed was never paid, and this does not count it.
Ledger ==
  \A u \in Handles :
    earned[u] = points[u] + MapThenSumSet(LAMBDA i : Cost[i], unlocked[u])

\* "A genuinely missing profile shouldn't happen post-registration": an account
\* lacks one only while, or because, its registration stopped half-way.
ProfilesComplete ==
  \A u \in users \ profiles :
    u \in failed \/ \E w \in Workers : pc[w] = "profile" /\ job[w].user = u

\* What an account shows as equipped is something it paid for.
ActiveIsOwned ==
  \A u \in Handles : active[u] # NoOne => active[u] \in unlocked[u]

\* The inductive invariant of the proofs: what a request has checked still
\* holds when it acts on it.  Membership, roles and unlocks never go away;
\* an invite's use and an account's balance are kept by the row's lock.
JobOK(w) ==
  LET u == job[w].user  o == job[w].org  x == job[w].what IN
  /\ pc[w] # "idle" => u \in users
  /\ pc[w] = "invite" => o \in Orgs /\ role[o][u] = "admin"
  /\ pc[w] \in {"member", "join"} =>
       /\ o \in Orgs /\ x \in Codes /\ lock[x] = w
       /\ invites[x] = [org |-> o, used |-> 0]
  /\ pc[w] \in {"balance", "buy", "equip"} => x \in Items
  /\ pc[w] = "buy" => u \in profiles /\ points[u] >= Cost[x] /\ lock[u] = w
  /\ pc[w] = "equip" => x \in unlocked[u]
  /\ pc[w] \in {"add", "complete"} => o \in Orgs /\ Member(u, o)
  /\ pc[w] = "complete" => x \in Todos

Checked == \A w \in Workers : JobOK(w)

IInv == TypeOK /\ Checked /\ ActiveIsOwned

\* Every step of every query does one whole operation of the Store's contract,
\* or nothing anyone can see.
Implements == Contract!Spec
================================================================================
