------------------------------ MODULE StoreContract -----------------------------
(***************************************************************************)
(* What the comments of the Store interface (internal/relay/store.go) and  *)
(* the layers Auth, Orgs, Points and Todos promise of the relay's shared   *)
(* data: every operation that changes it is one atomic step, taken only    *)
(* when its stated conditions hold.  RelayStore implements it with several *)
(* queries per operation, run concurrently.                                *)
(***************************************************************************)
EXTENDS Naturals

CONSTANTS
  Handles,  \* possible accounts
  Admins,   \* those that are system admins
  Orgs, Codes, Items, Todos,
  Cost,     \* [Items -> Nat], the catalog's prices
  NoOne     \* "no organization", "no item"

VARIABLES
  users,    \* rows of users
  profiles, \* the users with a row in user_profiles
  role,     \* org_members: role[o][h]
  invites,  \* org_invites: organization and used_count, org = NoOne if absent
  expired,  \* invites past expires_at
  points, unlocked, active,  \* user_profiles.points, user_unlocks, active_unlockable_id
  todoOrg,  \* todos: the organization of each, NoOne if absent
  done,     \* todos marked done
  earned    \* history: points ever awarded to each account

db == <<users, profiles, role, invites, expired, points, unlocked, active, todoOrg,
        done, earned>>

messageAward == 1
todoCompleteAward == 5

Member(u, o) == role[o][u] # "none"
NoInvite == [org |-> NoOne, used |-> 0]

Init ==
  /\ users = {} /\ profiles = {}
  /\ role = [o \in Orgs |-> [h \in Handles |-> "none"]]
  /\ invites = [k \in Codes |-> NoInvite] /\ expired = {}
  /\ points = [h \in Handles |-> 0] /\ earned = [h \in Handles |-> 0]
  /\ unlocked = [h \in Handles |-> {}] /\ active = [h \in Handles |-> NoOne]
  /\ todoOrg = [t \in Todos |-> NoOne] /\ done = {}

\* CreateUser: "returns ErrHandleTaken if handle is already registered".
CreateUser(u) ==
  /\ u \notin users /\ users' = users \cup {u}
  /\ UNCHANGED <<profiles, role, invites, expired, points, unlocked, active, todoOrg,
                 done, earned>>

CreateUserProfile(u) ==
  /\ u \in users \ profiles /\ profiles' = profiles \cup {u}
  /\ UNCHANGED <<users, role, invites, expired, points, unlocked, active, todoOrg,
                 done, earned>>

\* "creates a new org and adds ownerUserID as its first member with the
\* 'admin' role, atomically"; "only a system admin may create one".
CreateOrg(u, o) ==
  /\ u \in users \cap Admins /\ \A h \in Handles : ~Member(h, o)
  /\ role' = [role EXCEPT ![o][u] = "admin"]
  /\ UNCHANGED <<users, profiles, invites, expired, points, unlocked, active, todoOrg,
                 done, earned>>

\* Invite: "only an admin of that org may do this".
CreateInvite(o, k) ==
  /\ \E u \in users : role[o][u] = "admin"
  /\ invites[k].org = NoOne
  /\ invites' = [invites EXCEPT ![k] = [org |-> o, used |-> 0]]
  /\ UNCHANGED <<users, profiles, role, expired, points, unlocked, active, todoOrg,
                 done, earned>>

Expire(k) ==
  /\ k \notin expired /\ expired' = expired \cup {k}
  /\ UNCHANGED <<users, profiles, role, invites, points, unlocked, active, todoOrg,
                 done, earned>>

\* "validates code (exists, not expired, not already fully used) and adds
\* userID to that org as a member, atomically": a code is single-use.  A code
\* that expires while it is being redeemed still counts.
RedeemInvite(u, k) ==
  /\ u \in users /\ invites[k].org # NoOne /\ invites[k].used = 0
  /\ ~Member(u, invites[k].org)
  /\ role' = [role EXCEPT ![invites[k].org][u] = "member"]
  /\ invites' = [invites EXCEPT ![k].used = 1]
  /\ UNCHANGED <<users, profiles, expired, points, unlocked, active, todoOrg, done,
                 earned>>

\* AddPoints: "adds delta to userID's points balance".
AddPoints(u, delta) ==
  /\ u \in profiles
  /\ points' = [points EXCEPT ![u] = @ + delta]
  /\ earned' = [earned EXCEPT ![u] = @ + delta]
  /\ UNCHANGED <<users, profiles, role, invites, expired, unlocked, active, todoOrg, done>>

\* "atomically checks userID has enough points for unlockableID, deducts the
\* cost, and records the unlock".
RedeemUnlockable(u, i) ==
  /\ u \in profiles /\ i \notin unlocked[u] /\ points[u] >= Cost[i]
  /\ points' = [points EXCEPT ![u] = @ - Cost[i]]
  /\ unlocked' = [unlocked EXCEPT ![u] = @ \cup {i}]
  /\ UNCHANGED <<users, profiles, role, invites, expired, active, todoOrg, done, earned>>

\* "sets which already-redeemed unlockable is currently equipped".
SetActive(u, i) ==
  /\ u \in profiles /\ i \in unlocked[u]
  /\ active' = [active EXCEPT ![u] = i]
  /\ UNCHANGED <<users, profiles, role, invites, expired, points, unlocked, todoOrg,
                 done, earned>>

\* Add: "returns ErrNotOrgMember if user doesn't belong to that org".
CreateTodo(o, t) ==
  /\ \E u \in users : Member(u, o)
  /\ todoOrg[t] = NoOne /\ todoOrg' = [todoOrg EXCEPT ![t] = o]
  /\ UNCHANGED <<users, profiles, role, invites, expired, points, unlocked, active,
                 done, earned>>

CompleteTodo(t) ==
  /\ todoOrg[t] # NoOne /\ \E u \in users : Member(u, todoOrg[t])
  /\ done' = done \cup {t}
  /\ UNCHANGED <<users, profiles, role, invites, expired, points, unlocked, active,
                 todoOrg, earned>>

Next ==
  \/ \E u \in Handles :
       \/ CreateUser(u) \/ CreateUserProfile(u)
       \/ \E o \in Orgs : CreateOrg(u, o)
       \/ \E k \in Codes : RedeemInvite(u, k)
       \/ \E i \in Items : RedeemUnlockable(u, i) \/ SetActive(u, i)
       \/ \E delta \in {messageAward, todoCompleteAward} : AddPoints(u, delta)
  \/ \E o \in Orgs :
       \/ \E k \in Codes : CreateInvite(o, k)
       \/ \E t \in Todos : CreateTodo(o, t)
  \/ \E t \in Todos : CompleteTodo(t)
  \/ \E k \in Codes : Expire(k)

Spec == Init /\ [][Next]_db
================================================================================
