---------------------------- MODULE RelayStoreProofs ----------------------------
(* Proofs that the relay's queries keep what they checked until they act on *)
(* it, that they implement the contract of the Store interface, and, from   *)
(* the contract, that seats are paid for and points neither made nor lost.  *)
EXTENDS RelayStore, FiniteSetTheorems, TLAPS

USE DEF Contract!messageAward, Contract!todoCompleteAward

-------------------------------------------------------------------------------
(* Requests: where a worker is, what it works on, what it has locked. *)

\* Starting, moving on and ending keep the worker's variables well-typed.
LEMMA RequestMoves ==
  ASSUME RequestTypes, NEW w \in Workers
  PROVE  /\ \A p \in Phases : Goto(w, p) => pc' \in [Workers -> Phases]
         /\ End(w) => pc' \in [Workers -> Phases] /\ job' \in [Workers -> Jobs]
         /\ \A u \in Handles, o \in Orgs \cup {NoOne},
               x \in Codes \cup Items \cup Todos \cup {NoOne}, p \in Phases :
              Begin(w, u, o, x, p) =>
                pc' \in [Workers -> Phases] /\ job' \in [Workers -> Jobs]
         /\ Unlock(w) => lock' \in [Handles \cup Codes -> Workers \cup {NoOne}]
         /\ \A x \in Handles \cup Codes :
              Acquire(w, x) => lock' \in [Handles \cup Codes -> Workers \cup {NoOne}]
<1> USE DEF RequestTypes
<1>1. Idle \in Jobs
  BY DEF Idle, Jobs
<1>2. \A p \in Phases : Goto(w, p) => pc' \in [Workers -> Phases]
  BY DEF Goto
<1>3. End(w) => pc' \in [Workers -> Phases] /\ job' \in [Workers -> Jobs]
  BY <1>1 DEF End, Goto, Phases
<1>4. ASSUME NEW u \in Handles, NEW o \in Orgs \cup {NoOne},
             NEW x \in Codes \cup Items \cup Todos \cup {NoOne}, NEW p \in Phases,
             Begin(w, u, o, x, p)
      PROVE  pc' \in [Workers -> Phases] /\ job' \in [Workers -> Jobs]
  <2>1. [user |-> u, org |-> o, what |-> x] \in Jobs
    BY DEF Jobs
  <2>2. QED BY <1>4, <2>1, <1>2 DEF Begin
<1>5. Unlock(w) => lock' \in [Handles \cup Codes -> Workers \cup {NoOne}]
  BY DEF Unlock
<1>6. \A x \in Handles \cup Codes :
        Acquire(w, x) => lock' \in [Handles \cup Codes -> Workers \cup {NoOne}]
  BY DEF Acquire
<1>7. QED BY <1>2, <1>3, <1>4, <1>5, <1>6

\* A worker that does not move keeps what it checked, if the tables only grow
\* and its locked rows stay as they are.
LEMMA JobFrame ==
  ASSUME TypeOK, NEW v \in Workers, JobOK(v),
         pc'[v] = pc[v], job'[v] = job[v],
         users \subseteq users', profiles \subseteq profiles',
         \A o \in Orgs, h \in Handles : role[o][h] # "none" => role'[o][h] = role[o][h],
         \A h \in Handles : unlocked[h] \subseteq unlocked'[h],
         \A x \in Handles \cup Codes : lock[x] = v => lock'[x] = v,
         \A h \in Handles : lock[h] = v => points'[h] = points[h],
         \A k \in Codes : lock[k] = v /\ invites[k].org # NoOne => invites'[k] = invites[k]
  PROVE  JobOK(v)'
<1> DEFINE u == job[v].user
           x == job[v].what
           o == job[v].org
<1>0. pc[v] # "idle" => u \in users /\ u \in Handles
  BY DEF JobOK, TypeOK, TableTypes
<1>1. pc[v] = "invite" => o \in Orgs /\ role'[o][u] = "admin"
  BY <1>0 DEF JobOK
<1>2. pc[v] \in {"member", "join"} =>
        /\ o \in Orgs /\ x \in Codes /\ lock'[x] = v /\ invites'[x] = [org |-> o, used |-> 0]
  BY StoreAssumption DEF JobOK
<1>3. pc[v] = "buy" => u \in profiles' /\ points'[u] >= Cost[x] /\ lock'[u] = v
  BY <1>0 DEF JobOK
<1>4. pc[v] = "equip" => x \in unlocked'[u]
  BY <1>0 DEF JobOK
<1>5. pc[v] \in {"add", "complete"} => o \in Orgs /\ role'[o][u] # "none"
  BY <1>0 DEF JobOK, Member
<1>6. QED BY <1>0, <1>1, <1>2, <1>3, <1>4, <1>5 DEF JobOK, Member

\* A worker without a request has checked nothing.
LEMMA JobIdle == ASSUME NEW w \in Workers, pc'[w] = "idle" PROVE JobOK(w)'
  BY DEF JobOK

\* Only the acting worker's request moves; it gives up none of the others' locks.
LEMMA OthersFrame ==
  ASSUME RequestTypes, NEW w \in Workers, NEW v \in Workers, v # w
  PROVE  /\ \A p : Goto(w, p) => pc'[v] = pc[v]
         /\ End(w) => pc'[v] = pc[v] /\ job'[v] = job[v]
         /\ \A u, o, x, p : Begin(w, u, o, x, p) => pc'[v] = pc[v] /\ job'[v] = job[v]
         /\ Unlock(w) => \A x \in Handles \cup Codes : lock[x] = v => lock'[x] = v
         /\ \A y \in Handles \cup Codes : Free(y) /\ Acquire(w, y) =>
              \A x \in Handles \cup Codes : lock[x] = v => lock'[x] = v
  BY StoreAssumption DEF RequestTypes, Goto, End, Begin, Unlock, Acquire, Free

-------------------------------------------------------------------------------
(* The first statements: they change no table. *)

LEMMA Asking ==
  ASSUME IInv, NEW w \in Workers, NEW u \in Handles,
         \/ \E o \in Orgs : AskAdmin(w, u, o) \/ AskAdd(w, u, o)
         \/ \E k \in Codes : FindInvite(w, u, k)
         \/ \E i \in Items : ChooseItem(w, u, i) \/ AskOwned(w, u, i)
         \/ \E o \in Orgs, t \in Todos : AskComplete(w, u, o, t)
  PROVE  IInv' /\ UNCHANGED db
<1> USE DEF IInv, TypeOK
<1>1. UNCHANGED db
  BY DEF AskAdmin, AskAdd, FindInvite, ChooseItem, AskOwned, AskComplete
<1>2. TableTypes' /\ ActiveIsOwned'
  BY <1>1 DEF db, TableTypes, ActiveIsOwned
<1>3. PICK o \in Orgs \cup {NoOne}, x \in Codes \cup Items \cup Todos \cup {NoOne},
           p \in Phases \ {"idle"} : Begin(w, u, o, x, p)
  BY DEF AskAdmin, AskAdd, FindInvite, ChooseItem, AskOwned, AskComplete, Phases,
     TableTypes
<1>4. \/ UNCHANGED lock
     \/ \E k \in Codes : Free(k) /\ Acquire(w, k)
  BY DEF AskAdmin, AskAdd, FindInvite, ChooseItem, AskOwned, AskComplete
<1>5. RequestTypes'
  <2>1. pc' \in [Workers -> Phases] /\ job' \in [Workers -> Jobs]
    BY <1>3, RequestMoves
  <2>2. lock' \in [Handles \cup Codes -> Workers \cup {NoOne}]
    BY <1>4, RequestMoves DEF RequestTypes
  <2>3. failed' \subseteq Handles
    BY DEF RequestTypes, AskAdmin, AskAdd, FindInvite, ChooseItem, AskOwned, AskComplete
  <2>4. QED BY <2>1, <2>2, <2>3 DEF RequestTypes
<1>6. ASSUME NEW v \in Workers, v # w PROVE JobOK(v)'
  <2>1. pc'[v] = pc[v] /\ job'[v] = job[v]
    BY <1>3, <1>6, OthersFrame
  <2>2. \A y \in Handles \cup Codes : lock[y] = v => lock'[y] = v
    BY <1>4, <1>6, OthersFrame
  <2>3. JobOK(v)
    BY DEF Checked
  <2>4. QED BY <1>1, <2>1, <2>2, <2>3, JobFrame DEF db
<1>7. JobOK(w)'
  <2> USE DEF RequestTypes
  <2>1. ASSUME NEW n \in Orgs, AskAdmin(w, u, n) PROVE JobOK(w)'
    BY <2>1 DEF AskAdmin, Begin, Goto, JobOK, db
  <2>2. ASSUME NEW n \in Orgs, AskAdd(w, u, n) PROVE JobOK(w)'
    BY <2>2 DEF AskAdd, Begin, Goto, JobOK, Member, db
  <2>3. ASSUME NEW k \in Codes, FindInvite(w, u, k) PROVE JobOK(w)'
    <3>1. invites[k] = [org |-> invites[k].org, used |-> 0] /\ invites[k].org \in Orgs
      BY <2>3 DEF FindInvite, TableTypes
    <3>2. /\ pc'[w] = "member" /\ lock'[k] = w
          /\ job'[w] = [user |-> u, org |-> invites[k].org, what |-> k]
      BY <2>3 DEF FindInvite, Begin, Goto, Acquire
    <3>3. QED BY <1>1, <2>3, <3>1, <3>2 DEF FindInvite, JobOK, db
  <2>4. ASSUME NEW i \in Items, ChooseItem(w, u, i) PROVE JobOK(w)'
    BY <2>4 DEF ChooseItem, Begin, Goto, JobOK, db
  <2>5. ASSUME NEW i \in Items, AskOwned(w, u, i) PROVE JobOK(w)'
    BY <2>5 DEF AskOwned, Begin, Goto, JobOK, db
  <2>6. ASSUME NEW n \in Orgs, NEW t \in Todos, AskComplete(w, u, n, t) PROVE JobOK(w)'
    BY <2>6 DEF AskComplete, Begin, Goto, JobOK, Member, db
  <2>7. QED BY <2>1, <2>2, <2>3, <2>4, <2>5, <2>6
<1>8. Checked'
  BY <1>6, <1>7 DEF Checked
<1>9. QED BY <1>1, <1>2, <1>5, <1>8

-------------------------------------------------------------------------------
(* The other statements.  Grows says what they leave alone for the rest of  *)
(* the workers: nothing checked goes away, and rows locked by others stay.  *)

Grows(w) ==
  /\ users \subseteq users' /\ profiles \subseteq profiles'
  /\ \A o \in Orgs, h \in Handles : role[o][h] # "none" => role'[o][h] = role[o][h]
  /\ \A h \in Handles : unlocked[h] \subseteq unlocked'[h]
  /\ \A h \in Handles : lock[h] \in Workers \ {w} => points'[h] = points[h]
  /\ \A k \in Codes : lock[k] \in Workers \ {w} /\ invites[k].org # NoOne =>
       invites'[k] = invites[k]

\* Nobody's request moves (a statement that is a whole request).
LEMMA WholeRequest ==
  ASSUME IInv, NEW w \in Workers, UNCHANGED <<pc, job, lock, failed>>, Grows(w),
         \A h \in Handles : lock[h] = w => points'[h] = points[h]
  PROVE  RequestTypes' /\ ((\A k \in Codes : lock[k] = w => invites'[k] = invites[k]) => Checked')
<1> USE DEF IInv
<1>1. RequestTypes'
  BY DEF TypeOK, RequestTypes
<1>2. ASSUME \A k \in Codes : lock[k] = w => invites'[k] = invites[k],
             NEW v \in Workers
      PROVE  JobOK(v)'
  <2>1. JobOK(v)
    BY DEF Checked
  <2>2. /\ \A h \in Handles : lock[h] = v => points'[h] = points[h]
        /\ \A k \in Codes : lock[k] = v /\ invites[k].org # NoOne => invites'[k] = invites[k]
    BY <1>2 DEF Grows
  <2>3. QED BY <2>1, <2>2, JobFrame DEF Grows
<1>3. QED BY <1>1, <1>2 DEF Checked

\* A request ends, with or without a lock to give up.
LEMMA Ending ==
  ASSUME IInv, NEW w \in Workers, End(w), UNCHANGED lock \/ Unlock(w),
         failed' \subseteq Handles, Grows(w)
  PROVE  RequestTypes' /\ Checked'
<1> USE DEF IInv, TypeOK
<1>1. RequestTypes'
  BY RequestMoves DEF RequestTypes
<1>2. ASSUME NEW v \in Workers, v # w PROVE JobOK(v)'
  <2>1. pc'[v] = pc[v] /\ job'[v] = job[v]
    BY <1>2, OthersFrame
  <2>2. \A y \in Handles \cup Codes : lock[y] = v => lock'[y] = v
    BY <1>2, OthersFrame
  <2>3. JobOK(v)
    BY DEF Checked
  <2>4. QED BY <1>2, <2>1, <2>2, <2>3, JobFrame DEF Grows
<1>3. JobOK(w)'
  <2>1. pc'[w] = "idle"
    BY DEF End, Goto, RequestTypes
  <2>2. QED BY <2>1, JobIdle
<1>4. QED BY <1>1, <1>2, <1>3 DEF Checked

\* A request moves on to its next statement, perhaps with a new lock.
LEMMA MovingOn ==
  ASSUME IInv, NEW w \in Workers, NEW p \in Phases, Goto(w, p), UNCHANGED <<job, failed>>,
         UNCHANGED lock \/ \E y \in Handles \cup Codes : Free(y) /\ Acquire(w, y),
         Grows(w), JobOK(w)'
  PROVE  RequestTypes' /\ Checked'
<1> USE DEF IInv, TypeOK
<1>1. RequestTypes'
  BY RequestMoves DEF RequestTypes
<1>2. ASSUME NEW v \in Workers, v # w PROVE JobOK(v)'
  <2>1. pc'[v] = pc[v] /\ job'[v] = job[v]
    BY <1>2, OthersFrame
  <2>2. \A y \in Handles \cup Codes : lock[y] = v => lock'[y] = v
    BY <1>2, OthersFrame
  <2>3. JobOK(v)
    BY DEF Checked
  <2>4. QED BY <1>2, <2>1, <2>2, <2>3, JobFrame DEF Grows
<1>3. QED BY <1>1, <1>2 DEF Checked

-------------------------------------------------------------------------------
(* Registration and organizations. *)

LEMMA RegisterStep ==
  ASSUME IInv, NEW w \in Workers, NEW u \in Handles, Register(w, u)
  PROVE  IInv' /\ Contract!Next
<1> USE DEF IInv, TypeOK
<1>1. Contract!CreateUser(u) /\ Begin(w, u, NoOne, NoOne, "profile") /\ UNCHANGED <<lock, failed>>
  BY DEF Register
<1>2. /\ users' = users \cup {u}
      /\ UNCHANGED <<profiles, role, invites, expired, points, unlocked, active, todoOrg,
                     done, earned>>
  BY <1>1 DEF Contract!CreateUser
<1>3. TableTypes' /\ ActiveIsOwned'
  BY <1>2 DEF TableTypes, ActiveIsOwned
<1>4. RequestTypes'
  <2>1. pc' \in [Workers -> Phases] /\ job' \in [Workers -> Jobs]
    BY <1>1, RequestMoves DEF Phases
  <2>2. QED BY <1>1, <2>1 DEF RequestTypes
<1>5. ASSUME NEW v \in Workers, v # w PROVE JobOK(v)'
  <2>1. pc'[v] = pc[v] /\ job'[v] = job[v]
    BY <1>1, <1>5, OthersFrame
  <2>2. JobOK(v)
    BY DEF Checked
  <2>3. QED BY <1>1, <1>2, <2>1, <2>2, JobFrame
<1>6. JobOK(w)'
  BY <1>1, <1>2 DEF Begin, Goto, JobOK, RequestTypes
<1>7. Contract!Next
  BY <1>1 DEF Contract!Next
<1>8. QED BY <1>3, <1>4, <1>5, <1>6, <1>7 DEF Checked

LEMMA CreateProfileStep ==
  ASSUME IInv, NEW w \in Workers, CreateProfile(w)
  PROVE  IInv' /\ Contract!Next
<1> USE DEF IInv, TypeOK
<1> DEFINE u == job[w].user
<1>1. /\ End(w) /\ UNCHANGED <<lock, failed>> /\ u \in users
      /\ profiles' = profiles \cup {u} /\ Contract!CreateUserProfile(u)
      /\ UNCHANGED <<users, role, invites, expired, points, unlocked, active, todoOrg,
                     done, earned>>
  BY DEF CreateProfile, Contract!CreateUserProfile
<1>2. TableTypes' /\ ActiveIsOwned'
  BY <1>1 DEF TableTypes, ActiveIsOwned
<1>3. Grows(w)
  BY <1>1 DEF Grows
<1>4. RequestTypes' /\ Checked'
  BY <1>1, <1>3, Ending DEF RequestTypes
<1>5. u \in Handles
  BY <1>1 DEF TableTypes
<1>6. Contract!Next
  BY <1>1, <1>5 DEF Contract!Next
<1>7. QED BY <1>2, <1>4, <1>6

LEMMA CreateOrgStep ==
  ASSUME IInv, NEW w \in Workers, NEW u \in Handles, NEW o \in Orgs, CreateOrg(w, u, o)
  PROVE  IInv' /\ Contract!Next
<1> USE DEF IInv, TypeOK
<1>1. /\ \A h \in Handles : role[o][h] = "none"
      /\ role' = [role EXCEPT ![o][u] = "admin"]
      /\ UNCHANGED <<users, profiles, invites, expired, points, unlocked, active, todoOrg,
                     done, earned, pc, job, lock, failed>>
  BY DEF CreateOrg, Member
<1>2. TableTypes' /\ ActiveIsOwned'
  BY <1>1 DEF TableTypes, ActiveIsOwned
<1>3. Grows(w)
  BY <1>1 DEF Grows, TableTypes
<1>4. RequestTypes' /\ Checked'
  BY <1>1, <1>3, WholeRequest
<1>5. Contract!CreateOrg(u, o)
  BY DEF CreateOrg, Contract!CreateOrg, Member, Contract!Member
<1>6. QED BY <1>2, <1>4, <1>5 DEF Contract!Next

LEMMA CreateInviteStep ==
  ASSUME IInv, NEW w \in Workers, CreateInvite(w)
  PROVE  IInv' /\ [Contract!Next]_db
<1> USE DEF IInv, TypeOK
<1> DEFINE o == job[w].org
<1>1. PICK k \in Codes :
        /\ invites[k].org = NoOne
        /\ invites' = [invites EXCEPT ![k] = [org |-> o, used |-> 0]]
  BY DEF CreateInvite
<1>2. /\ pc[w] = "invite" /\ End(w)
      /\ UNCHANGED <<users, profiles, role, expired, points, unlocked, active, todoOrg, done,
                     earned, lock, failed>>
  BY DEF CreateInvite
<1>3. o \in Orgs /\ job[w].user \in users /\ role[o][job[w].user] = "admin"
  BY <1>2 DEF Checked, JobOK
<1>4. TableTypes' /\ ActiveIsOwned'
  BY <1>1, <1>2, <1>3 DEF TableTypes, ActiveIsOwned
<1>5. Grows(w)
  BY <1>1, <1>2 DEF Grows, TableTypes
<1>6. RequestTypes' /\ Checked'
  BY <1>2, <1>5, Ending DEF RequestTypes
<1>7. Contract!CreateInvite(o, k)
  BY <1>1, <1>2, <1>3 DEF Contract!CreateInvite
<1>8. QED BY <1>3, <1>4, <1>6, <1>7 DEF Contract!Next

LEMMA CheckMemberStep ==
  ASSUME IInv, NEW w \in Workers, CheckMember(w)
  PROVE  IInv' /\ UNCHANGED db
<1> USE DEF IInv, TypeOK
<1>1. pc[w] = "member" /\ UNCHANGED <<db, failed>> /\ JobOK(w)
  BY DEF CheckMember, Checked
<1>2. TableTypes' /\ ActiveIsOwned' /\ Grows(w)
  BY <1>1 DEF db, TableTypes, ActiveIsOwned, Grows
<1>3. CASE Member(job[w].user, job[w].org)
  BY <1>1, <1>2, <1>3, Ending DEF CheckMember, RequestTypes
<1>4. CASE ~Member(job[w].user, job[w].org)
  <2>1. Goto(w, "join") /\ UNCHANGED <<job, lock>>
    BY <1>4 DEF CheckMember
  <2>2. JobOK(w)'
    BY <1>1, <2>1 DEF JobOK, Goto, db, RequestTypes
  <2>3. QED BY <1>1, <1>2, <2>1, <2>2, MovingOn DEF Phases
<1>5. QED BY <1>1, <1>3, <1>4

LEMMA JoinStep ==
  ASSUME IInv, NEW w \in Workers, Join(w)
  PROVE  IInv' /\ [Contract!Next]_db
<1> USE DEF IInv, TypeOK
<1> DEFINE u == job[w].user
           o == job[w].org
           k == job[w].what
<1>1. /\ pc[w] = "join" /\ End(w) /\ Unlock(w)
      /\ UNCHANGED <<users, profiles, expired, points, unlocked, active, todoOrg, done,
                     earned, failed>>
  BY DEF Join
<1>2. /\ u \in users /\ u \in Handles /\ o \in Orgs /\ k \in Codes /\ lock[k] = w
      /\ invites[k] = [org |-> o, used |-> 0]
  BY <1>1 DEF Checked, JobOK, TableTypes
<1>3. CASE Member(u, o)
  <2>1. UNCHANGED <<role, invites>>
    BY <1>3 DEF Join
  <2>2. TableTypes' /\ ActiveIsOwned' /\ Grows(w)
    BY <1>1, <2>1 DEF TableTypes, ActiveIsOwned, Grows
  <2>3. RequestTypes' /\ Checked'
    BY <1>1, <2>2, Ending DEF RequestTypes
  <2>4. QED BY <1>1, <2>1, <2>2, <2>3 DEF db
<1>4. CASE ~Member(u, o)
  <2>1. /\ role' = [role EXCEPT ![o][u] = "member"]
        /\ invites' = [invites EXCEPT ![k].used = @ + 1]
    BY <1>4 DEF Join
  <2>2. invites' = [invites EXCEPT ![k].used = 1]
    BY <1>2, <2>1 DEF TableTypes
  <2>3. TableTypes' /\ ActiveIsOwned'
    <3>1. role' \in [Orgs -> [Handles -> {"none", "member", "admin"}]]
      BY <1>2, <2>1 DEF TableTypes
    <3>2. invites' \in [Codes -> [org : Orgs \cup {NoOne}, used : Nat]]
      BY <1>2, <2>2 DEF TableTypes
    <3>3. QED BY <1>1, <3>1, <3>2 DEF TableTypes, ActiveIsOwned
  <2>4. Grows(w)
    <3>1. \A p \in Orgs, h \in Handles : role[p][h] # "none" => role'[p][h] = role[p][h]
      BY <1>2, <1>4, <2>1 DEF TableTypes, Member
    <3>2. \A j \in Codes : lock[j] \in Workers \ {w} => invites'[j] = invites[j]
      BY <1>2, <2>2 DEF TableTypes
    <3>3. QED BY <1>1, <3>1, <3>2 DEF Grows
  <2>5. RequestTypes' /\ Checked'
    BY <1>1, <2>4, Ending DEF RequestTypes
  <2>6. invites[k].org = o /\ invites[k].used = 0 /\ o # NoOne
    BY <1>2, StoreAssumption
  <2>7. Contract!RedeemInvite(u, k)
    BY <1>1, <1>2, <1>4, <2>1, <2>2, <2>6 DEF Contract!RedeemInvite, Member, Contract!Member
  <2>8. QED BY <1>2, <2>3, <2>5, <2>7 DEF Contract!Next
<1>5. QED BY <1>3, <1>4

LEMMA ExpireStep ==
  ASSUME IInv, NEW k \in Codes, Expire(k)
  PROVE  IInv' /\ Contract!Next
<1> USE DEF IInv, TypeOK
<1>1. /\ Contract!Expire(k) /\ expired' = expired \cup {k}
      /\ UNCHANGED <<users, profiles, role, invites, points, unlocked, active, todoOrg,
                     done, earned, pc, job, lock, failed>>
  BY DEF Expire, Contract!Expire
<1>2. TableTypes' /\ ActiveIsOwned'
  BY <1>1 DEF TableTypes, ActiveIsOwned
<1>3. RequestTypes' /\ Checked'
  BY <1>1 DEF RequestTypes, Checked, JobOK, Member
<1>4. QED BY <1>1, <1>2, <1>3 DEF Contract!Next

-------------------------------------------------------------------------------
(* Points. *)

\* An award waits for the row, so it disturbs no balance somebody checked.
LEMMA AddPointsStep ==
  ASSUME IInv, NEW w \in Workers, NEW u \in Handles, NEW delta \in {1, 5},
         AddPoints(u, delta),
         UNCHANGED <<users, profiles, role, invites, expired, unlocked, active, todoOrg, done>>
  PROVE  /\ TableTypes' /\ ActiveIsOwned' /\ Grows(w) /\ [Contract!Next]_db
         /\ \A h \in Handles : lock[h] = w => points'[h] = points[h]
<1> USE DEF IInv, TypeOK
<1>1. lock[u] = NoOne
  BY DEF AddPoints, Free
<1>2. CASE u \in profiles
  <2>1. /\ points' = [points EXCEPT ![u] = @ + delta]
        /\ earned' = [earned EXCEPT ![u] = @ + delta]
    BY <1>2 DEF AddPoints
  <2>2. TableTypes' /\ ActiveIsOwned'
    BY <2>1 DEF TableTypes, ActiveIsOwned
  <2>3. \A h \in Handles : lock[h] \in Workers => points'[h] = points[h]
    BY <1>1, <2>1, StoreAssumption DEF TableTypes
  <2>4. Contract!AddPoints(u, delta)
    BY <1>2, <2>1 DEF Contract!AddPoints
  <2>5. Contract!Next
    BY <2>4 DEF Contract!Next
  <2>6. QED BY <2>2, <2>3, <2>5 DEF Grows
<1>3. CASE u \notin profiles
  BY <1>3 DEF AddPoints, TableTypes, ActiveIsOwned, Grows, db
<1>4. QED BY <1>2, <1>3

LEMMA AwardMessageStep ==
  ASSUME IInv, NEW w \in Workers, NEW u \in Handles, AwardMessage(w, u)
  PROVE  IInv' /\ [Contract!Next]_db
<1>1. /\ AddPoints(u, 1)
      /\ UNCHANGED <<users, profiles, role, invites, expired, unlocked, active, todoOrg,
                     done, pc, job, lock, failed>>
  BY DEF AwardMessage
<1>2. /\ TableTypes' /\ ActiveIsOwned' /\ Grows(w) /\ [Contract!Next]_db
      /\ \A h \in Handles : lock[h] = w => points'[h] = points[h]
  BY <1>1, AddPointsStep
<1>3. RequestTypes' /\ Checked'
  BY <1>1, <1>2, WholeRequest
<1>4. QED BY <1>2, <1>3 DEF IInv, TypeOK

LEMMA AwardStep ==
  ASSUME IInv, NEW w \in Workers, Award(w)
  PROVE  IInv' /\ [Contract!Next]_db
<1>1. /\ pc[w] = "award" /\ End(w) /\ AddPoints(job[w].user, 5)
      /\ UNCHANGED <<users, profiles, role, invites, expired, unlocked, active, todoOrg,
                     done, lock, failed>>
  BY DEF Award
<1>2. job[w].user \in Handles
  BY <1>1 DEF IInv, TypeOK, TableTypes, Checked, JobOK
<1>3. TableTypes' /\ ActiveIsOwned' /\ Grows(w) /\ [Contract!Next]_db
  BY <1>1, <1>2, AddPointsStep
<1>4. RequestTypes' /\ Checked'
  BY <1>1, <1>3, Ending DEF IInv, TypeOK, RequestTypes
<1>5. QED BY <1>3, <1>4 DEF IInv, TypeOK

LEMMA CheckBalanceStep ==
  ASSUME IInv, NEW w \in Workers, CheckBalance(w)
  PROVE  IInv' /\ UNCHANGED db
<1> USE DEF IInv, TypeOK
<1> DEFINE u == job[w].user
<1>1. pc[w] = "balance" /\ Free(u) /\ UNCHANGED <<db, failed>> /\ JobOK(w)
  BY DEF CheckBalance, Checked
<1>2. TableTypes' /\ ActiveIsOwned' /\ Grows(w)
  BY <1>1 DEF db, TableTypes, ActiveIsOwned, Grows
<1>3. CASE u \in profiles /\ points[u] >= Cost[job[w].what]
  <2>1. Goto(w, "buy") /\ Acquire(w, u) /\ UNCHANGED job
    BY <1>3 DEF CheckBalance
  <2>2. u \in Handles
    BY <1>3 DEF TableTypes
  <2>3. pc'[w] = "buy" /\ lock'[u] = w
    BY <2>1, <2>2 DEF Goto, Acquire, RequestTypes
  <2>4. JobOK(w)'
    BY <1>1, <1>3, <2>1, <2>3 DEF JobOK, db
  <2>5. QED BY <1>1, <1>2, <2>1, <2>2, <2>4, MovingOn DEF Phases
<1>4. CASE ~(u \in profiles /\ points[u] >= Cost[job[w].what])
  BY <1>1, <1>2, <1>4, Ending DEF CheckBalance, RequestTypes
<1>5. QED BY <1>1, <1>3, <1>4

LEMMA BuyStep ==
  ASSUME IInv, NEW w \in Workers, Buy(w)
  PROVE  IInv' /\ [Contract!Next]_db
<1> USE DEF IInv, TypeOK
<1> DEFINE u == job[w].user
           i == job[w].what
<1>1. /\ pc[w] = "buy" /\ End(w) /\ Unlock(w)
      /\ UNCHANGED <<users, profiles, role, invites, expired, active, todoOrg, done, earned,
                     failed>>
  BY DEF Buy
<1>2. u \in profiles /\ u \in Handles /\ i \in Items /\ lock[u] = w /\ points[u] >= Cost[i]
  BY <1>1 DEF Checked, JobOK, TableTypes
<1>3. CASE i \in unlocked[u]
  <2>1. UNCHANGED <<points, unlocked>>
    BY <1>3 DEF Buy
  <2>2. TableTypes' /\ ActiveIsOwned' /\ Grows(w)
    BY <1>1, <2>1 DEF TableTypes, ActiveIsOwned, Grows
  <2>3. RequestTypes' /\ Checked'
    BY <1>1, <2>2, Ending DEF RequestTypes
  <2>4. QED BY <1>1, <2>1, <2>2, <2>3 DEF db
<1>4. CASE i \notin unlocked[u]
  <2>1. /\ points' = [points EXCEPT ![u] = @ - Cost[i]]
        /\ unlocked' = [unlocked EXCEPT ![u] = @ \cup {i}]
    BY <1>4 DEF Buy
  <2>2. points' \in [Handles -> Nat]
    <3>1. points[u] - Cost[i] \in Nat
      BY <1>2, StoreAssumption DEF TableTypes
    <3>2. QED BY <2>1, <3>1 DEF TableTypes
  <2>3. unlocked' \in [Handles -> SUBSET Items] /\ \A h \in Handles : unlocked[h] \subseteq unlocked'[h]
    BY <1>2, <2>1 DEF TableTypes
  <2>4. TableTypes' /\ ActiveIsOwned'
    BY <1>1, <2>2, <2>3 DEF TableTypes, ActiveIsOwned
  <2>5. Grows(w)
    BY <1>1, <1>2, <2>1, <2>3 DEF Grows, TableTypes
  <2>6. RequestTypes' /\ Checked'
    BY <1>1, <2>5, Ending DEF RequestTypes
  <2>7. Contract!RedeemUnlockable(u, i)
    BY <1>1, <1>2, <1>4, <2>1 DEF Contract!RedeemUnlockable
  <2>8. Contract!Next
    BY <1>2, <2>7 DEF Contract!Next
  <2>9. QED BY <2>4, <2>6, <2>8
<1>5. QED BY <1>3, <1>4

LEMMA EquipStep ==
  ASSUME IInv, NEW w \in Workers, Equip(w)
  PROVE  IInv' /\ [Contract!Next]_db
<1> USE DEF IInv, TypeOK
<1> DEFINE u == job[w].user
           i == job[w].what
<1>1. /\ pc[w] = "equip" /\ End(w)
      /\ active' = [active EXCEPT ![u] = IF u \in profiles THEN i ELSE @]
      /\ UNCHANGED <<users, profiles, role, invites, expired, points, unlocked, todoOrg,
                     done, earned, lock, failed>>
  BY DEF Equip
<1>2. u \in Handles /\ i \in Items /\ i \in unlocked[u]
  BY <1>1 DEF Checked, JobOK, TableTypes
<1>3. TableTypes' /\ ActiveIsOwned'
  BY <1>1, <1>2 DEF TableTypes, ActiveIsOwned
<1>4. Grows(w)
  BY <1>1 DEF Grows
<1>5. RequestTypes' /\ Checked'
  BY <1>1, <1>4, Ending DEF RequestTypes
<1>6. CASE u \in profiles
  <2>1. active' = [active EXCEPT ![u] = i]
    BY <1>1, <1>6
  <2>2. Contract!SetActive(u, i)
    BY <1>1, <1>2, <1>6, <2>1 DEF Contract!SetActive
  <2>3. QED BY <1>2, <1>3, <1>5, <2>2 DEF Contract!Next
<1>7. CASE u \notin profiles
  <2>1. active' = active
    BY <1>1, <1>7 DEF TableTypes
  <2>2. QED BY <1>1, <1>3, <1>5, <2>1 DEF db
<1>8. QED BY <1>6, <1>7

-------------------------------------------------------------------------------
(* Todos, and failures. *)

LEMMA CreateTodoStep ==
  ASSUME IInv, NEW w \in Workers, CreateTodo(w)
  PROVE  IInv' /\ [Contract!Next]_db
<1> USE DEF IInv, TypeOK
<1> DEFINE o == job[w].org
<1>1. PICK t \in Todos : todoOrg[t] = NoOne /\ todoOrg' = [todoOrg EXCEPT ![t] = o]
  BY DEF CreateTodo
<1>2. /\ pc[w] = "add" /\ End(w)
      /\ UNCHANGED <<users, profiles, role, invites, expired, points, unlocked, active, done,
                     earned, lock, failed>>
  BY DEF CreateTodo
<1>3. o \in Orgs /\ job[w].user \in users /\ Member(job[w].user, o)
  BY <1>2 DEF Checked, JobOK
<1>4. TableTypes' /\ ActiveIsOwned' /\ Grows(w)
  BY <1>1, <1>2, <1>3 DEF TableTypes, ActiveIsOwned, Grows
<1>5. RequestTypes' /\ Checked'
  BY <1>2, <1>4, Ending DEF RequestTypes
<1>6. Contract!CreateTodo(o, t)
  BY <1>1, <1>2, <1>3 DEF Contract!CreateTodo, Member, Contract!Member
<1>7. QED BY <1>3, <1>4, <1>5, <1>6 DEF Contract!Next

LEMMA CompleteTodoStep ==
  ASSUME IInv, NEW w \in Workers, CompleteTodo(w)
  PROVE  IInv' /\ [Contract!Next]_db
<1> USE DEF IInv, TypeOK
<1> DEFINE o == job[w].org
           t == job[w].what
<1>1. /\ pc[w] = "complete"
      /\ UNCHANGED <<users, profiles, role, invites, expired, points, unlocked, active,
                     todoOrg, earned, lock, failed>>
  BY DEF CompleteTodo
<1>2. o \in Orgs /\ t \in Todos /\ job[w].user \in users /\ Member(job[w].user, o)
  BY <1>1 DEF Checked, JobOK
<1>3. CASE todoOrg[t] = o
  <2>1. Goto(w, "award") /\ done' = done \cup {t} /\ UNCHANGED job
    BY <1>3 DEF CompleteTodo
  <2>2. TableTypes' /\ ActiveIsOwned' /\ Grows(w)
    BY <1>1, <1>2, <2>1 DEF TableTypes, ActiveIsOwned, Grows
  <2>3. JobOK(w)'
    BY <1>1, <1>2, <2>1 DEF JobOK, Goto, RequestTypes
  <2>4. RequestTypes' /\ Checked'
    BY <1>1, <2>1, <2>2, <2>3, MovingOn DEF Phases
  <2>5. Contract!CompleteTodo(t)
    BY <1>1, <1>2, <1>3, <2>1, StoreAssumption DEF Contract!CompleteTodo, Member, Contract!Member
  <2>6. QED BY <1>2, <2>2, <2>4, <2>5 DEF Contract!Next
<1>4. CASE todoOrg[t] # o
  <2>1. End(w) /\ UNCHANGED done
    BY <1>4 DEF CompleteTodo
  <2>2. TableTypes' /\ ActiveIsOwned' /\ Grows(w)
    BY <1>1, <2>1 DEF TableTypes, ActiveIsOwned, Grows
  <2>3. RequestTypes' /\ Checked'
    BY <1>1, <2>1, <2>2, Ending DEF RequestTypes
  <2>4. QED BY <1>1, <2>1, <2>2, <2>3 DEF db
<1>5. QED BY <1>3, <1>4

LEMMA FailStep ==
  ASSUME IInv, NEW w \in Workers, Fail(w)
  PROVE  IInv' /\ UNCHANGED db
<1> USE DEF IInv, TypeOK
<1>1. /\ pc[w] # "idle" /\ End(w) /\ Unlock(w) /\ UNCHANGED db
      /\ failed' = IF pc[w] = "profile" THEN failed \cup {job[w].user} ELSE failed
  BY DEF Fail
<1>2. job[w].user \in Handles
  BY <1>1 DEF Checked, JobOK, TableTypes
<1>3. failed' \subseteq Handles
  BY <1>1, <1>2 DEF RequestTypes
<1>4. TableTypes' /\ ActiveIsOwned' /\ Grows(w)
  BY <1>1 DEF db, TableTypes, ActiveIsOwned, Grows
<1>5. RequestTypes' /\ Checked'
  BY <1>1, <1>3, <1>4, Ending
<1>6. QED BY <1>1, <1>4, <1>5

-------------------------------------------------------------------------------
(* Sums over finite sets.  Induction on a finite set is done by taking a      *)
(* smallest counterexample.                                                   *)

\* A set of sets that holds every finite set all of whose proper subsets it
\* holds, holds all finite sets.
LEMMA SmallerSetsFirst ==
  ASSUME NEW S, NEW G,
         \A T \in FiniteSubsetsOf(S) :
           (\A U \in FiniteSubsetsOf(S) : U \subseteq T /\ U # T => U \in G) => T \in G
  PROVE  FiniteSubsetsOf(S) \subseteq G
<1> DEFINE Bad == FiniteSubsetsOf(S) \ G
<1> SUFFICES ASSUME Bad # {} PROVE FALSE
  OBVIOUS
<1>1. IsWellFoundedOn(StrictSubsetOrdering(S), FiniteSubsetsOf(S))
  BY FS_StrictSubsetOrderingWellFounded
<1>2. PICK T \in Bad : \A U \in Bad : <<U, T>> \notin StrictSubsetOrdering(S)
  <2>1. Bad \subseteq FiniteSubsetsOf(S)
    OBVIOUS
  <2> HIDE DEF Bad
  <2>2. QED BY <1>1, <2>1, WFMin
<1>3. \A U \in FiniteSubsetsOf(S) : U \subseteq T /\ U # T => U \in G
  BY <1>2 DEF StrictSubsetOrdering, FiniteSubsetsOf
<1>4. QED BY <1>2, <1>3

LEMMA OneElementLess ==
  ASSUME NEW S, NEW T \in FiniteSubsetsOf(S), NEW x \in T
  PROVE  /\ T \ {x} \in FiniteSubsetsOf(S) /\ T \ {x} \subseteq T /\ T \ {x} # T
  BY FS_RemoveElement DEF FiniteSubsetsOf

\* What a set of items costs, item by item in any order.
Spent(S) == MapThenSumSet(LAMBDA i : Cost[i], S)
First(s) == CHOOSE x \in s : TRUE
Folds(f, S) ==
  f = [s \in SUBSET S |-> IF s = {} THEN 0 ELSE Cost[First(s)] + f[s \ {First(s)}]]
Adds(g, S) ==
  /\ g \in [SUBSET S -> Nat] /\ g[{}] = 0
  /\ \A s \in SUBSET S : \A x \in s : g[s] = Cost[x] + g[s \ {x}]

LEMMA SpentIsAFold == ASSUME NEW S PROVE Spent(S) = (CHOOSE f : Folds(f, S))[S]
  BY DEF Spent, Folds, First, MapThenSumSet, MapThenFoldSet

LEMMA FirstIsIn == ASSUME NEW s, s # {} PROVE First(s) \in s
  BY DEF First

LEMMA SumExists == ASSUME NEW S \in FiniteSubsetsOf(Items) PROVE \E g : Adds(g, S)
<1> USE StoreAssumption
<1> DEFINE G == {T \in SUBSET Items : \E g : Adds(g, T)}
<1>1. ASSUME NEW T \in FiniteSubsetsOf(Items),
             \A U \in FiniteSubsetsOf(Items) : U \subseteq T /\ U # T => U \in G
      PROVE  T \in G
  <2>0. T \in SUBSET Items
    BY DEF FiniteSubsetsOf
  <2>1. CASE T = {}
    <3>1. Adds([s \in SUBSET {} |-> 0], {})
      BY DEF Adds
    <3>2. QED BY <2>0, <2>1, <3>1
  <2>2. CASE T # {}
    <3>1. PICK x \in T : TRUE
      BY <2>2
    <3> DEFINE R == T \ {x}
    <3>2. R \in G
      <4>1. R \in FiniteSubsetsOf(Items) /\ R \subseteq T /\ R # T
        BY OneElementLess
      <4> HIDE DEF G
      <4>2. QED BY <1>1, <4>1
    <3>3. PICK g : Adds(g, R)
      BY <3>2
    <3> DEFINE h == [s \in SUBSET T |-> IF x \in s THEN Cost[x] + g[s \ {x}] ELSE g[s]]
    <3>4. Cost[x] \in Nat /\ \A y \in T : Cost[y] \in Nat
      BY <2>0
    <3>5. h \in [SUBSET T -> Nat] /\ h[{}] = 0
      <4>1. \A s \in SUBSET T : s \ {x} \in SUBSET R /\ (x \notin s => s \in SUBSET R)
        OBVIOUS
      <4>2. QED BY <3>3, <3>4, <4>1 DEF Adds
    <3>6. ASSUME NEW s \in SUBSET T, NEW y \in s PROVE h[s] = Cost[y] + h[s \ {y}]
      <4>1. s \ {y} \in SUBSET T
        OBVIOUS
      <4>2. CASE x \notin s
        <5>1. s \in SUBSET R /\ x \notin s \ {y}
          BY <4>2
        <5>2. g[s] = Cost[y] + g[s \ {y}]
          BY <3>3, <5>1 DEF Adds
        <5>3. QED BY <4>1, <4>2, <5>1, <5>2
      <4>3. CASE x \in s /\ y = x
        <5>1. x \notin s \ {x}
          OBVIOUS
        <5>2. QED BY <4>1, <4>3, <5>1
      <4>4. CASE x \in s /\ y # x
        <5>1. s \ {x} \in SUBSET R /\ y \in s \ {x} /\ x \in s \ {y}
          BY <4>4
        <5>2. g[s \ {x}] = Cost[y] + g[(s \ {x}) \ {y}]
          BY <3>3, <5>1 DEF Adds
        <5>3. (s \ {x}) \ {y} = (s \ {y}) \ {x}
          OBVIOUS
        <5>4. h[s] = Cost[x] + g[s \ {x}] /\ h[s \ {y}] = Cost[x] + g[(s \ {y}) \ {x}]
          BY <4>1, <4>4, <5>1
        <5>5. g[(s \ {y}) \ {x}] \in Nat /\ Cost[y] \in Nat
          BY <3>3, <3>4, <5>1 DEF Adds
        <5> DEFINE rest == g[(s \ {y}) \ {x}]
        <5>6. h[s] = Cost[x] + (Cost[y] + rest)
          BY <5>2, <5>3, <5>4
        <5> HIDE DEF h, rest
        <5>7. QED BY <3>4, <5>4, <5>5, <5>6 DEF rest
      <4>5. QED BY <4>2, <4>3, <4>4
    <3>7. Adds(h, T)
      BY <3>5, <3>6 DEF Adds
    <3>8. QED BY <2>0, <3>7
  <2>3. QED BY <2>1, <2>2
<1> HIDE DEF G
<1>2. FiniteSubsetsOf(Items) \subseteq G
  BY <1>1, SmallerSetsFirst
<1> USE DEF G
<1>3. QED BY <1>2

LEMMA SumIsUnique ==
  ASSUME NEW S \in FiniteSubsetsOf(Items), NEW g, Adds(g, S), NEW f, Folds(f, S)
  PROVE  f[S] = g[S]
<1> DEFINE G == {T \in SUBSET S : f[T] = g[T]}
<1>1. ASSUME NEW T \in FiniteSubsetsOf(S),
             \A U \in FiniteSubsetsOf(S) : U \subseteq T /\ U # T => U \in G
      PROVE  T \in G
  <2>0. T \in SUBSET S
    BY DEF FiniteSubsetsOf
  <2>1. CASE T = {}
    BY <2>0, <2>1 DEF Adds, Folds
  <2>2. CASE T # {}
    <3> DEFINE x == First(T)
    <3>1. x \in T
      BY <2>2, FirstIsIn
    <3>2. f[T \ {x}] = g[T \ {x}]
      BY <1>1, <3>1, OneElementLess
    <3>3. f[T] = Cost[x] + f[T \ {x}]
      BY <2>0, <2>2 DEF Folds
    <3>4. g[T] = Cost[x] + g[T \ {x}]
      BY <2>0, <3>1 DEF Adds
    <3>5. QED BY <2>0, <3>2, <3>3, <3>4
  <2>3. QED BY <2>1, <2>2
<1> HIDE DEF G
<1>2. FiniteSubsetsOf(S) \subseteq G
  BY <1>1, SmallerSetsFirst
<1> USE DEF G
<1>3. S \in FiniteSubsetsOf(S)
  BY DEF FiniteSubsetsOf
<1>4. QED BY <1>2, <1>3

LEMMA AddsFolds ==
  ASSUME NEW S, NEW g, Adds(g, S) PROVE Folds(g, S)
<1>1. \A s \in SUBSET S :
        g[s] = IF s = {} THEN 0 ELSE Cost[First(s)] + g[s \ {First(s)}]
  BY FirstIsIn DEF Adds
<1>2. g = [s \in SUBSET S |-> g[s]]
  BY DEF Adds
<1>3. QED BY <1>1, <1>2 DEF Folds

LEMMA SpentIs ==
  ASSUME NEW S \in FiniteSubsetsOf(Items), NEW g, Adds(g, S)
  PROVE  Spent(S) = g[S]
<1>1. Folds(CHOOSE f : Folds(f, S), S)
  BY AddsFolds
<1>2. QED BY <1>1, SumIsUnique, SpentIsAFold

LEMMA SpentNothing == Spent({}) = 0
<1>1. {} \in FiniteSubsetsOf(Items)
  BY FS_EmptySet DEF FiniteSubsetsOf
<1>2. PICK g : Adds(g, {})
  BY <1>1, SumExists
<1>3. QED BY <1>1, <1>2, SpentIs DEF Adds

LEMMA SpentIsNat == ASSUME NEW S \in FiniteSubsetsOf(Items) PROVE Spent(S) \in Nat
<1>1. PICK g : Adds(g, S)
  BY SumExists
<1>2. QED BY <1>1, SpentIs DEF Adds

LEMMA SpentMore ==
  ASSUME NEW S \in FiniteSubsetsOf(Items), NEW i \in Items \ S
  PROVE  Spent(S) \in Nat /\ Spent(S \cup {i}) = Cost[i] + Spent(S)
<1> DEFINE T == S \cup {i}
<1>1. T \in FiniteSubsetsOf(Items)
  BY FS_AddElement DEF FiniteSubsetsOf
<1>2. PICK g : Adds(g, T)
  BY <1>1, SumExists
<1>3. T \ {i} = S
  OBVIOUS
<1>4. g[T] = Cost[i] + g[S]
  BY <1>2, <1>3 DEF Adds
<1> DEFINE h == [s \in SUBSET S |-> g[s]]
<1>5. Adds(h, S)
  <2>1. h \in [SUBSET S -> Nat] /\ h[{}] = 0
    BY <1>2 DEF Adds
  <2>2. ASSUME NEW s \in SUBSET S, NEW x \in s PROVE h[s] = Cost[x] + h[s \ {x}]
    BY <1>2 DEF Adds
  <2>3. QED BY <2>1, <2>2 DEF Adds
<1>6. Spent(S) = g[S]
  <2>1. Spent(S) = h[S]
    BY <1>5, SpentIs
  <2>2. h[S] = g[S]
    OBVIOUS
  <2>3. QED BY <2>1, <2>2
<1>7. Spent(T) = g[T]
  BY <1>1, <1>2, SpentIs
<1>8. QED BY <1>2, <1>4, <1>6, <1>7 DEF Adds

-------------------------------------------------------------------------------
(* What every operation of the contract keeps, and so every query. *)

\* SeatsPaid, with what makes the two cardinalities numbers.
Seats ==
  /\ \A o \in Orgs : /\ IsFiniteSet(Joined(o)) /\ IsFiniteSet(Used(o))
                     /\ Cardinality(Joined(o)) = Cardinality(Used(o))
  /\ \A k \in Codes : invites[k].used <= 1

LEMMA SeatsKept ==
  ASSUME TableTypes, Seats, [Contract!Next]_db
  PROVE  Seats'
<1>1. CASE UNCHANGED <<role, invites>>
  BY <1>1 DEF Seats, Joined, Used
<1>2. ASSUME NEW u \in Handles, NEW p \in Orgs, Contract!CreateOrg(u, p) PROVE Seats'
  <2>1. /\ \A h \in Handles : role[p][h] = "none"
        /\ role' = [role EXCEPT ![p][u] = "admin"] /\ UNCHANGED invites
    BY <1>2 DEF Contract!CreateOrg, Contract!Member
  <2>2. \A o \in Orgs : Joined(o)' = Joined(o) /\ Used(o)' = Used(o)
    BY <2>1 DEF Joined, Used, TableTypes
  <2>3. QED BY <2>1, <2>2 DEF Seats
<1>3. ASSUME NEW o \in Orgs, NEW k \in Codes, Contract!CreateInvite(o, k) PROVE Seats'
  <2>1. /\ invites[k].org = NoOne /\ invites' = [invites EXCEPT ![k] = [org |-> o, used |-> 0]]
        /\ UNCHANGED role
    BY <1>3 DEF Contract!CreateInvite
  <2>2. ASSUME NEW p \in Orgs PROVE Joined(p)' = Joined(p) /\ Used(p)' = Used(p)
    BY <2>1, StoreAssumption DEF Joined, Used, TableTypes
  <2>3. \A j \in Codes : invites'[j].used <= 1
    BY <2>1 DEF Seats, TableTypes
  <2>4. QED BY <2>2, <2>3 DEF Seats
<1>4. ASSUME NEW u \in Handles, NEW k \in Codes, Contract!RedeemInvite(u, k) PROVE Seats'
  <2>1. PICK o \in Orgs :
        /\ invites[k].org = o /\ invites[k].used = 0 /\ role[o][u] = "none"
        /\ role' = [role EXCEPT ![o][u] = "member"]
        /\ invites' = [invites EXCEPT ![k].used = 1]
    BY <1>4 DEF Contract!RedeemInvite, Contract!Member, TableTypes
  <2>2. /\ Joined(o)' = Joined(o) \cup {u} /\ u \notin Joined(o)
        /\ \A p \in Orgs \ {o} : Joined(p)' = Joined(p)
    BY <2>1 DEF Joined, TableTypes
  <2>3. /\ Used(o)' = Used(o) \cup {k} /\ k \notin Used(o)
        /\ \A p \in Orgs \ {o} : Used(p)' = Used(p)
    BY <2>1 DEF Used, TableTypes
  <2>4. ASSUME NEW p \in Orgs
        PROVE  /\ IsFiniteSet(Joined(p)') /\ IsFiniteSet(Used(p)')
               /\ Cardinality(Joined(p)') = Cardinality(Used(p)')
    <3>1. CASE p # o
      BY <2>2, <2>3, <3>1 DEF Seats
    <3>2. CASE p = o
      <4>1. /\ IsFiniteSet(Joined(o)) /\ IsFiniteSet(Used(o))
            /\ Cardinality(Joined(o)) = Cardinality(Used(o))
        BY <2>1 DEF Seats
      <4>2. /\ IsFiniteSet(Joined(o)') /\ IsFiniteSet(Used(o)')
            /\ Cardinality(Joined(o)') = Cardinality(Joined(o)) + 1
            /\ Cardinality(Used(o)') = Cardinality(Used(o)) + 1
        BY <2>2, <2>3, <4>1, FS_AddElement
      <4>3. QED BY <3>2, <4>1, <4>2
    <3>3. QED BY <3>1, <3>2
  <2>5. \A j \in Codes : invites'[j].used <= 1
    BY <2>1 DEF Seats, TableTypes
  <2>6. QED BY <2>4, <2>5 DEF Seats
<1>5. ASSUME NEW u \in Handles,
             \/ Contract!CreateUser(u) \/ Contract!CreateUserProfile(u)
             \/ \E i \in Items : Contract!RedeemUnlockable(u, i) \/ Contract!SetActive(u, i)
             \/ \E delta \in {1, 5} : Contract!AddPoints(u, delta)
      PROVE  UNCHANGED <<role, invites>>
  BY <1>5 DEF Contract!CreateUser, Contract!CreateUserProfile, Contract!RedeemUnlockable,
     Contract!SetActive, Contract!AddPoints
<1>6. ASSUME \/ \E o \in Orgs : \E t \in Todos : Contract!CreateTodo(o, t)
             \/ \E t \in Todos : Contract!CompleteTodo(t)
             \/ \E k \in Codes : Contract!Expire(k)
             \/ UNCHANGED db
      PROVE  UNCHANGED <<role, invites>>
  BY <1>6 DEF Contract!CreateTodo, Contract!CompleteTodo, Contract!Expire, db
<1>7. CASE UNCHANGED db
  BY <1>1, <1>6, <1>7
<1>8. CASE Contract!Next
  BY <1>1, <1>2, <1>3, <1>4, <1>5, <1>6, <1>8 DEF Contract!Next
<1>9. QED BY <1>7, <1>8

\* Ledger, with what makes the sums numbers.
Balanced ==
  \A u \in Handles : /\ unlocked[u] \in FiniteSubsetsOf(Items)
                     /\ earned[u] = points[u] + Spent(unlocked[u])

LEMMA BalancedKept ==
  ASSUME TableTypes, Balanced, [Contract!Next]_db
  PROVE  Balanced'
<1>1. CASE UNCHANGED <<points, unlocked, earned>>
  BY <1>1 DEF Balanced
<1>2. ASSUME NEW u \in Handles, NEW delta \in {1, 5}, Contract!AddPoints(u, delta)
      PROVE  Balanced'
  <2>1. /\ points' = [points EXCEPT ![u] = @ + delta]
        /\ earned' = [earned EXCEPT ![u] = @ + delta] /\ UNCHANGED unlocked
    BY <1>2 DEF Contract!AddPoints
  <2>2. ASSUME NEW h \in Handles PROVE earned'[h] = points'[h] + Spent(unlocked[h])
    <3>1. /\ earned[h] \in Nat /\ points[h] \in Nat
          /\ earned[h] = points[h] + Spent(unlocked[h]) /\ Spent(unlocked[h]) \in Nat
      BY SpentIsNat DEF Balanced, TableTypes
    <3>2. QED BY <2>1, <3>1 DEF TableTypes
  <2>3. QED BY <2>1, <2>2 DEF Balanced
<1>3. ASSUME NEW u \in Handles, NEW i \in Items, Contract!RedeemUnlockable(u, i)
      PROVE  Balanced'
  <2>1. /\ i \notin unlocked[u] /\ points[u] >= Cost[i] /\ UNCHANGED earned
        /\ points' = [points EXCEPT ![u] = @ - Cost[i]]
        /\ unlocked' = [unlocked EXCEPT ![u] = @ \cup {i}]
    BY <1>3 DEF Contract!RedeemUnlockable
  <2>2. ASSUME NEW h \in Handles
        PROVE  /\ unlocked'[h] \in FiniteSubsetsOf(Items)
               /\ earned'[h] = points'[h] + Spent(unlocked'[h])
    <3>1. CASE h # u
      BY <2>1, <3>1 DEF Balanced, TableTypes
    <3>2. CASE h = u
      <4>1. unlocked'[u] = unlocked[u] \cup {i} /\ points'[u] = points[u] - Cost[i]
        BY <2>1 DEF TableTypes
      <4>2. unlocked[u] \in FiniteSubsetsOf(Items) /\ earned[u] = points[u] + Spent(unlocked[u])
        BY DEF Balanced
      <4>3. unlocked'[u] \in FiniteSubsetsOf(Items)
        BY <4>1, <4>2, FS_AddElement DEF FiniteSubsetsOf
      <4>4. /\ Spent(unlocked[u]) \in Nat
            /\ Spent(unlocked'[u]) = Cost[i] + Spent(unlocked[u])
        BY <2>1, <4>1, <4>2, SpentMore
      <4>5. points[u] \in Nat /\ Cost[i] \in Nat
        BY StoreAssumption DEF TableTypes
      <4>6. QED BY <2>1, <3>2, <4>1, <4>2, <4>3, <4>4, <4>5
    <3>3. QED BY <3>1, <3>2
  <2>3. QED BY <2>2 DEF Balanced
<1>4. \/ UNCHANGED <<points, unlocked, earned>>
     \/ \E u \in Handles : \/ \E delta \in {1, 5} : Contract!AddPoints(u, delta)
                          \/ \E i \in Items : Contract!RedeemUnlockable(u, i)
  BY DEF db, Contract!Next, Contract!CreateUser, Contract!CreateUserProfile, Contract!Expire,
     Contract!CreateOrg, Contract!CreateInvite, Contract!RedeemInvite, Contract!SetActive,
     Contract!CreateTodo, Contract!CompleteTodo
<1>5. QED BY <1>1, <1>2, <1>3, <1>4

-------------------------------------------------------------------------------
(* The theorems. *)

LEMMA InitOK == Init => IInv
<1> SUFFICES ASSUME Init PROVE IInv
  OBVIOUS
<1> USE StoreAssumption DEF Init, Contract!Init
<1>1. TableTypes
  BY DEF TableTypes, Contract!NoInvite
<1>2. RequestTypes
  <2>1. Idle \in Jobs
    BY DEF Idle, Jobs
  <2>2. QED BY <2>1 DEF RequestTypes, Phases
<1>3. Checked
  BY DEF Checked, JobOK
<1>4. ActiveIsOwned
  BY DEF ActiveIsOwned
<1>5. QED BY <1>1, <1>2, <1>3, <1>4 DEF IInv, TypeOK

LEMMA StepOK == IInv /\ [Next]_vars => IInv' /\ [Contract!Next]_db
<1> SUFFICES ASSUME IInv, [Next]_vars PROVE IInv' /\ [Contract!Next]_db
  OBVIOUS
<1>1. CASE UNCHANGED vars
  BY <1>1 DEF vars, db, IInv, TypeOK, TableTypes, RequestTypes, Checked, JobOK, Member,
     ActiveIsOwned
<1>2. ASSUME NEW w \in Workers, Request(w) PROVE IInv' /\ [Contract!Next]_db
  <2>1. PICK u \in Handles :
          \/ Register(w, u) \/ AwardMessage(w, u)
          \/ \E o \in Orgs : CreateOrg(w, u, o)
          \/ \/ \E o \in Orgs : AskAdmin(w, u, o) \/ AskAdd(w, u, o)
             \/ \E k \in Codes : FindInvite(w, u, k)
             \/ \E i \in Items : ChooseItem(w, u, i) \/ AskOwned(w, u, i)
             \/ \E o \in Orgs, t \in Todos : AskComplete(w, u, o, t)
    BY <1>2 DEF Request
  <2>2. QED BY <2>1, RegisterStep, AwardMessageStep, CreateOrgStep, Asking
<1>3. ASSUME NEW w \in Workers, Continue(w) PROVE IInv' /\ [Contract!Next]_db
  BY <1>3, CreateProfileStep, CreateInviteStep, CheckMemberStep, JoinStep,
     CheckBalanceStep, BuyStep, EquipStep, CreateTodoStep, CompleteTodoStep, AwardStep
     DEF Continue
<1>4. ASSUME NEW w \in Workers, Fail(w) PROVE IInv' /\ [Contract!Next]_db
  BY <1>4, FailStep
<1>5. ASSUME NEW k \in Codes, Expire(k) PROVE IInv' /\ [Contract!Next]_db
  BY <1>5, ExpireStep
<1>6. QED BY <1>1, <1>2, <1>3, <1>4, <1>5 DEF Next

\* Whatever requests run at the same time and whichever of them fail, every
\* request still holds what it checked when it acts: the invite it locked is
\* unused, the balance it locked covers the price, roles are still there.
THEOREM StoreInvariance == Spec => []IInv
<1>1. QED BY InitOK, StepOK, PTL DEF Spec

\* What an account shows as equipped is something it has redeemed.
THEOREM OwnedEquipment == Spec => []ActiveIsOwned
<1>1. IInv => ActiveIsOwned
  BY DEF IInv
<1>2. QED BY <1>1, StoreInvariance, PTL

\* The queries of pgstore.go, interleaved in any way, implement the atomic
\* operations the Store interface promises: every statement is one of them,
\* or changes no table.
THEOREM StoreImplementsContract == Spec => Implements
<1>1. Init => Contract!Init
  BY DEF Init
<1>2. IInv /\ [Next]_vars => [Contract!Next]_(Contract!db)
  BY StepOK DEF db, Contract!db
<1>3. QED BY <1>1, <1>2, StoreInvariance, PTL DEF Spec, Implements, Contract!Spec

\* However many clients redeem codes at the same time, every member but the
\* founder used up a code of its own, and no code served twice.
THEOREM SeatsArePaid == Spec => []SeatsPaid
<1>1. Init => Seats
  <2>1. ASSUME Init, NEW o \in Orgs PROVE Joined(o) = {} /\ Used(o) = {}
    BY <2>1 DEF Init, Contract!Init, Contract!NoInvite, Joined, Used
  <2>2. ASSUME Init, NEW k \in Codes PROVE invites[k].used = 0
    BY <2>2 DEF Init, Contract!Init, Contract!NoInvite
  <2>3. QED BY <2>1, <2>2, FS_EmptySet DEF Seats
<1>2. IInv /\ Seats /\ [Next]_vars => Seats'
  BY StepOK, SeatsKept DEF IInv, TypeOK
<1>3. Seats => SeatsPaid
  BY DEF Seats, SeatsPaid
<1>4. QED BY <1>1, <1>2, <1>3, StoreInvariance, PTL DEF Spec

\* Points are neither made nor lost: what an account ever earned is what it
\* has plus the prices of what it unlocked, in any interleaving of awards and
\* redemptions and whichever of them fail.
THEOREM LedgerBalances == Spec => []Ledger
<1>1. Init => Balanced
  <2>1. ASSUME Init, NEW u \in Handles
        PROVE  unlocked[u] = {} /\ earned[u] = 0 /\ points[u] = 0
    BY <2>1 DEF Init, Contract!Init
  <2>2. {} \in FiniteSubsetsOf(Items)
    BY FS_EmptySet DEF FiniteSubsetsOf
  <2>3. QED BY <2>1, <2>2, SpentNothing DEF Balanced
<1>2. IInv /\ Balanced /\ [Next]_vars => Balanced'
  BY StepOK, BalancedKept DEF IInv, TypeOK
<1>3. Balanced => Ledger
  BY DEF Balanced, Ledger, Spent
<1>4. QED BY <1>1, <1>2, <1>3, StoreInvariance, PTL DEF Spec

\* An account without a profile is one whose registration is still under way
\* or stopped half-way: no other order of queries leaves one behind.
THEOREM NoProfileForgotten == Spec => []ProfilesComplete
<1>1. Init => ProfilesComplete
  BY DEF Init, Contract!Init, ProfilesComplete
<1>2. ASSUME IInv, ProfilesComplete, [Next]_vars PROVE ProfilesComplete'
  <2>1. ASSUME NEW u \in Handles, NEW w \in Workers, Register(w, u)
        PROVE  ProfilesComplete'
    BY <1>2, <2>1 DEF Register, Contract!CreateUser, Begin, Goto, ProfilesComplete,
       IInv, TypeOK, RequestTypes
  <2>2. ASSUME NEW w \in Workers, CreateProfile(w) PROVE ProfilesComplete'
    BY <1>2, <2>2 DEF CreateProfile, Contract!CreateUserProfile, End, Goto,
       ProfilesComplete, IInv, TypeOK, RequestTypes
  <2>3. ASSUME NEW w \in Workers, Fail(w) PROVE ProfilesComplete'
    BY <1>2, <2>3 DEF Fail, db, End, Goto, ProfilesComplete, IInv, TypeOK, RequestTypes
  <2>4. ASSUME UNCHANGED <<users, profiles, failed>>,
               \A w \in Workers : pc[w] = "profile" => pc'[w] = pc[w] /\ job'[w] = job[w]
        PROVE  ProfilesComplete'
    BY <1>2, <2>4 DEF ProfilesComplete
  <2>5. ASSUME NEW v \in Workers, Request(v)
        PROVE  \/ \E u \in Handles : Register(v, u)
               \/ /\ UNCHANGED <<users, profiles, failed>>
                  /\ \A w \in Workers :
                       pc[w] = "profile" => pc'[w] = pc[w] /\ job'[w] = job[w]
    BY <1>2, <2>5 DEF Request, AwardMessage, CreateOrg, AskAdmin, AskAdd, FindInvite,
       ChooseItem, AskOwned, AskComplete, Begin, Goto, db, IInv, TypeOK, RequestTypes
  <2>6. ASSUME NEW v \in Workers, Continue(v)
        PROVE  \/ CreateProfile(v)
               \/ /\ UNCHANGED <<users, profiles, failed>>
                  /\ \A w \in Workers :
                       pc[w] = "profile" => pc'[w] = pc[w] /\ job'[w] = job[w]
    BY <1>2, <2>6 DEF Continue, CreateInvite, CheckMember, Join, CheckBalance, Buy, Equip,
       CreateTodo, CompleteTodo, Award, End, Goto, db, IInv, TypeOK, RequestTypes
  <2>7. ASSUME NEW k \in Codes, Expire(k) PROVE ProfilesComplete'
    BY <2>4, <2>7 DEF Expire, Contract!Expire
  <2>8. CASE UNCHANGED vars
    BY <2>4, <2>8 DEF vars, db
  <2>9. QED BY <1>2, <2>1, <2>2, <2>3, <2>4, <2>5, <2>6, <2>7, <2>8 DEF Next
<1>3. QED BY <1>1, <1>2, StoreInvariance, PTL DEF Spec
================================================================================
