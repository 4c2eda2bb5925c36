-------------------------- MODULE RelaySessionProofs --------------------------
(* Proofs that a run that believes it is logged in is registered, and that    *)
(* the saved token is one the server still knows, for any number of runs,     *)
(* servers and accounts.                                                      *)
EXTENDS RelaySession, SequenceTheorems, TLAPS

Places == {"off", "getHandle", "setHandle", "setStatus", "getToken", "dial", "failed", "lan",
           "resuming", "welcome", "entering", "save", "online", "ended"}
Turns == {"idle", "check", "issue", "revoke", "join", "reply", "refuse", "serving", "gone"}
Starting == {"off", "getHandle", "setHandle", "setStatus", "getToken", "dial", "failed", "lan"}
Updates == {"setHandle", "setStatus", "save"}
Asking == {"check", "issue", "revoke", "join", "reply", "refuse"}
Granting == {"revoke", "join", "reply"}
Joined == {"reply", "serving"}

\* Types, and that nobody holds a token that was never issued.
Typed ==
  /\ TypeOK /\ live \subseteq 1..Len(issued)
  /\ file.token \in Tokens /\ \A r \in Runs : copy[r].token \in Tokens

\* Where a program is, against its connection and the handler of it.
Placed ==
  \A r \in Runs :
    /\ link[r] = "none" => pc[r] \in Starting \cup {"ended"} /\ srv[r] = "idle"
    /\ pc[r] \in Starting => link[r] = "none"
    /\ pc[r] = "ended" => link[r] # "up"
    /\ Waiting(r) => link[r] = "up"
    /\ link[r] = "up" =>
         /\ srv[r] \in Asking => Waiting(r)
         /\ Waiting(r) => srv[r] \in Asking
         /\ pc[r] = "welcome" => srv[r] = "idle"
         /\ pc[r] \in {"save", "online"} => srv[r] = "serving"
    /\ srv[r] = "gone" => link[r] = "down"
    /\ link[r] # "none" \/ pc[r] \in {"getToken", "dial"} => at[r] # NoOne
    /\ step[r] # "load" => pc[r] \in Updates \cup {"ended"}

\* What the handler has granted.
Granted ==
  \A r \in Runs :
    /\ srv[r] \in Granting \cup {"issue", "serving"} => acct[r] \in Accounts
    /\ srv[r] \in Granting =>
         /\ new[r] \in 1..Len(issued) /\ issued[new[r]].account = acct[r]
         /\ new[r] # old[r]
    /\ srv[r] = "revoke" => old[r] # 0

\* The Hub has exactly the runs whose handler is between Join and Leave.
Registered ==
  /\ \A s \in Servers, h \in Accounts : hub[s][h] # NoOne =>
       srv[hub[s][h]] \in Joined /\ at[hub[s][h]] = s /\ acct[hub[s][h]] = h
  /\ \A r \in Runs : srv[r] \in Joined => hub[at[r]][acct[r]] = r

\* Runs that do not overlap follow one another.
Alone ==
  "overlap" \notin mishaps => \A q, r \in Runs : q # r => Over(q) \/ Over(r)

Theirs(t, h) == t \in 1..Len(issued) /\ issued[t].account = h
Owned(c) == c.token # 0 => Theirs(c.token, c.handle)

\* A token and the handle beside it belong together, saved or on the way.
Named ==
  mishaps \cap {"rename", "overlap"} = {} =>
    /\ Owned(file)
    /\ \A r \in Runs :
         /\ pc[r] # "setHandle"
         /\ step[r] # "load" => Owned(copy[r])
         /\ pc[r] \in {"setStatus", "getToken"} =>
              IF step[r] = "load" THEN torn \/ name[r] = file.handle
                                  ELSE copy[r].handle = name[r]
         /\ pc[r] = "dial" /\ tok[r] # 0 => Theirs(tok[r], name[r])
         /\ Waiting(r) /\ srv[r] = "check" => Theirs(old[r], name[r])
         /\ Waiting(r) /\ srv[r] \in Granting \cup {"issue"} => acct[r] = name[r]
         /\ pc[r] = "save" => Theirs(tok[r], name[r])
         /\ pc[r] \in {"save", "online"} /\ link[r] = "up" => acct[r] = name[r]

\* The saved token may be unknown to the server only while a run that has
\* resumed with it is about to save its successor.
Replacing(r) == pc[r] = "save" \/ (pc[r] = "resuming" /\ srv[r] \in {"join", "reply"})

Kept ==
  mishaps \cap {"lapse", "overlap"} = {} =>
    /\ torn => \E r \in Runs : pc[r] \in Updates /\ step[r] = "write"
    /\ file.token # 0 => file.token \in live \/ \E r \in Runs : Replacing(r)
    /\ \A r \in Runs :
         /\ step[r] # "load" =>
              /\ pc[r] \in Updates
              /\ copy[r].token = IF pc[r] = "save" THEN tok[r] ELSE file.token
         /\ step[r] = "write" => torn
         /\ srv[r] \in Asking => Waiting(r)
         /\ pc[r] = "entering" => old[r] = 0
         /\ srv[r] \in Granting => new[r] \in live
         /\ pc[r] = "save" => tok[r] \in live

SessionInv == Typed /\ Placed /\ Granted /\ Registered /\ Alone /\ Named /\ Kept

-------------------------------------------------------------------------------
LEMMA Counted == Typed => Len(issued) \in Nat /\ 0 \in Tokens
  BY LenProperties DEF Typed, TypeOK, Tokens

\* A program and a handler stay among their places.
LEMMA PlacesKept ==
  ASSUME Typed, NEW r \in Runs
  PROVE  /\ \A where \in Places : [pc EXCEPT ![r] = where] \in [Runs -> Places]
         /\ \A phase \in Turns : [srv EXCEPT ![r] = phase] \in [Runs -> Turns]
         /\ pc \in [Runs -> Places] /\ srv \in [Runs -> Turns]
<1>1. pc \in [Runs -> Places] /\ srv \in [Runs -> Turns]
  BY DEF Typed, TypeOK, Places, Turns
<1> HIDE DEF Places, Turns
<1>2. QED BY ONLY <1>1

LEMMA IssuedTo ==
  ASSUME Typed, NEW t \in 1..Len(issued)
  PROVE  issued[t].server \in Servers /\ issued[t].account \in Accounts
<1>1. issued[t] \in [server : Servers, account : Accounts]
  BY ElementOfSeq DEF Typed, TypeOK
<1>2. QED BY <1>1

\* One more token, and the older ones as they were.
LEMMA IssuedNext ==
  ASSUME Typed, NEW s \in Servers, NEW h \in Accounts
  PROVE  LET longer == Append(issued, [server |-> s, account |-> h])
         IN /\ longer \in Seq([server : Servers, account : Accounts])
            /\ Len(longer) = Len(issued) + 1 /\ longer[Len(issued) + 1].account = h
            /\ \A t \in 1..Len(issued) : longer[t] = issued[t]
<1> DEFINE session == [server |-> s, account |-> h]
<1>1. session \in [server : Servers, account : Accounts] /\ session.account = h
  OBVIOUS
<1>2. issued \in Seq([server : Servers, account : Accounts])
  BY DEF Typed, TypeOK
<1> HIDE DEF session
<1>3. QED BY <1>1, <1>2, AppendProperties DEF session

\* What an update makes of the settings it has loaded.
LEMMA SavedSettings ==
  ASSUME Typed, NEW r \in Runs, pc[r] \in Updates
  PROVE  /\ Saved(r, file) \in Settings
         /\ Saved(r, file).handle = IF pc[r] = "setStatus" THEN file.handle ELSE name[r]
         /\ Saved(r, file).token = IF pc[r] = "save" THEN tok[r] ELSE file.token
<1>1. /\ file \in Settings /\ name[r] \in Accounts \cup {NoOne}
      /\ at[r] \in Servers \cup {NoOne} /\ tok[r] \in Nat
  BY Counted DEF Typed, TypeOK, Tokens
<1>2. CASE pc[r] = "setHandle"
  BY <1>1, <1>2 DEF Saved, Settings
<1>3. CASE pc[r] = "setStatus"
  <2>1. Saved(r, file) = [file EXCEPT !.url = IF at[r] = NoOne THEN @ ELSE at[r]]
    BY <1>3 DEF Saved
  <2>2. QED BY <1>1, <1>3, <2>1 DEF Settings
<1>4. CASE pc[r] = "save"
  <2>1. Saved(r, file) = [file EXCEPT !.handle = name[r], !.token = tok[r]]
    BY <1>4 DEF Saved
  <2>2. QED BY <1>1, <1>4, <2>1 DEF Settings
<1>5. QED BY <1>2, <1>3, <1>4 DEF Updates

\* What Join makes of the Hub.
LEMMA JoinHub ==
  ASSUME Typed, Placed, Granted, NEW r \in Runs, srv[r] = "join"
  PROVE  /\ at[r] \in Servers /\ acct[r] \in Accounts
         /\ LET joined == [hub EXCEPT ![at[r]][acct[r]] = r]
            IN /\ joined \in [Servers -> [Accounts -> Runs \cup {NoOne}]]
               /\ joined[at[r]][acct[r]] = r
               /\ \A s \in Servers, h \in Accounts :
                    s # at[r] \/ h # acct[r] => joined[s][h] = hub[s][h]
<1>1. at[r] \in Servers /\ acct[r] \in Accounts
  BY DEF Typed, TypeOK, Placed, Granted, Granting
<1>2. hub \in [Servers -> [Accounts -> Runs \cup {NoOne}]]
  BY DEF Typed, TypeOK
<1>3. QED BY <1>1, <1>2

-------------------------------------------------------------------------------
(* One lemma per action. *)

LEMMA LaunchKeeps ==
  ASSUME SessionInv, NEW r \in Runs,
         NEW s \in Servers \cup {NoOne}, NEW h \in Accounts \cup {NoOne}, Launch(r, s, h)
  PROVE  SessionInv'
<1> USE DEF SessionInv, fileVars, runVars, handlerVars, storeVars
<1>1. Typed'
  BY DEF Launch, Goto, Note, Typed, TypeOK, Tokens
<1>2. Placed'
  BY DEF Launch, Goto, Placed, Starting, Updates, Waiting
<1>3. Granted'
  BY DEF Launch, Granted, Typed, TypeOK
<1>4. Registered'
  BY DEF Launch, Registered, Placed, Joined, Starting
<1>5. Alone'
  BY DEF Launch, Goto, Note, Alone, Over
<1>6. Named'
  <2>1. /\ pc[r] = "off" /\ mishaps \subseteq mishaps'
        /\ h # NoOne => "rename" \in mishaps'
        /\ \A q \in Runs \ {r} : pc'[q] = pc[q] /\ name'[q] = name[q]
        /\ UNCHANGED <<fileVars, step, copy, tok, handlerVars, storeVars>>
    BY DEF Launch, Goto, Note, TypeOK
  <2>2. SUFFICES ASSUME mishaps' \cap {"rename", "overlap"} = {} PROVE Named'
    BY DEF Named
  <2>3. pc'[r] = "getHandle" /\ step[r] = "load" /\ Named /\ mishaps \cap {"rename", "overlap"} = {}
    BY <2>1, <2>2 DEF Launch, Goto, Placed, Typed, TypeOK, Updates
  <2>4. QED BY <2>1, <2>2, <2>3 DEF Named, Owned, Theirs, Waiting
<1>7. Kept'
  BY DEF Launch, Goto, Note, Kept, Replacing, Updates, Waiting
<1>8. QED BY <1>1, <1>2, <1>3, <1>4, <1>5, <1>6, <1>7

LEMMA GetHandleKeeps ==
  ASSUME SessionInv, NEW r \in Runs, GetHandle(r)
  PROVE  SessionInv'
<1> USE DEF SessionInv, fileVars, runVars, handlerVars, storeVars
<1>1. Typed'
  BY DEF GetHandle, Goto, Typed, TypeOK, Tokens, Settings
<1>2. Placed'
  BY DEF GetHandle, Goto, Placed, Starting, Updates, Waiting
<1>3. Granted'
  BY DEF GetHandle, Granted, Typed, TypeOK
<1>4. Registered'
  BY DEF GetHandle, Registered, Typed, TypeOK
<1>5. Alone'
  BY DEF GetHandle, Goto, Alone, Over
<1>6. Named'
  <2>1. /\ pc[r] = "getHandle" /\ step[r] = "load" /\ pc' = [pc EXCEPT ![r] = "setStatus"]
        /\ torn \in BOOLEAN /\ name' = [name EXCEPT ![r] = IF torn THEN NoOne ELSE file.handle]
        /\ UNCHANGED <<fileVars, step, copy, at, tok, handlerVars, storeVars, mishaps>>
    BY DEF GetHandle, Goto, Placed, Updates, Typed, TypeOK
  <2>2. torn \/ name'[r] = file.handle
    BY <2>1 DEF Typed, TypeOK
  <2>3. ~Waiting(r) /\ ~Waiting(r)'
    BY <2>1 DEF Waiting, Typed, TypeOK
  <2>4. \A q \in Runs \ {r} : pc'[q] = pc[q] /\ name'[q] = name[q] /\ (Waiting(q)' <=> Waiting(q))
    BY <2>1 DEF Waiting, Typed, TypeOK
  <2>5. pc'[r] = "setStatus"
    BY <2>1 DEF Typed, TypeOK
  <2>6. QED BY <2>1, <2>2, <2>3, <2>4, <2>5 DEF Named, Owned, Theirs
<1>7. Kept'
  BY DEF GetHandle, Goto, Kept, Replacing, Updates, Waiting
<1>8. QED BY <1>1, <1>2, <1>3, <1>4, <1>5, <1>6, <1>7

LEMMA GetTokenKeeps ==
  ASSUME SessionInv, NEW r \in Runs, GetToken(r)
  PROVE  SessionInv'
<1> USE DEF SessionInv, fileVars, runVars, handlerVars, storeVars
<1>1. Typed'
  BY DEF GetToken, Goto, Typed, TypeOK, Tokens
<1>2. Placed'
  BY DEF GetToken, Goto, Placed, Starting, Updates, Waiting
<1>3. Granted'
  BY DEF GetToken, Granted, Typed, TypeOK
<1>4. Registered'
  BY DEF GetToken, Registered, Typed, TypeOK
<1>5. Alone'
  BY DEF GetToken, Goto, Alone, Over
<1>6. Named'
  BY DEF GetToken, Goto, Named, Owned, Theirs, Placed, Typed, TypeOK, Updates, Waiting
<1>7. Kept'
  BY DEF GetToken, Goto, Kept, Replacing, Updates, Waiting
<1>8. QED BY <1>1, <1>2, <1>3, <1>4, <1>5, <1>6, <1>7

LEMMA LoadKeeps ==
  ASSUME SessionInv, NEW r \in Runs, Load(r)
  PROVE  SessionInv'
<1> USE DEF SessionInv, fileVars, runVars, handlerVars, storeVars
<1>0. /\ torn \in BOOLEAN /\ pc[r] \in Updates /\ step[r] = "load"
      /\ torn => AfterUpdate(r) /\ UNCHANGED <<step, copy>>
      /\ ~torn => /\ copy' = [copy EXCEPT ![r] = Saved(r, file)] /\ UNCHANGED pc
                  /\ step' = [step EXCEPT ![r] = "truncate"]
      /\ UNCHANGED <<file, torn, at, name, tok, tries, handlerVars, storeVars, hub, mishaps>>
  BY DEF Load, Updating, Updates, Typed, TypeOK
<1>1. Typed'
  <2>1. UNCHANGED <<issued, Tokens>> /\ pc[r] \in Updates
    BY DEF Load, Updating, Updates, Tokens
  <2>2. CASE torn
    BY <2>1, <2>2 DEF Load, AfterUpdate, Goto, Typed, TypeOK
  <2>3. CASE ~torn
    <3> DEFINE saved == Saved(r, file)
    <3>1. saved \in Settings /\ saved.token \in Tokens
      BY <2>1, SavedSettings DEF Typed, TypeOK
    <3>2. copy' = [copy EXCEPT ![r] = saved] /\ step' = [step EXCEPT ![r] = "truncate"] /\ UNCHANGED pc
      BY <2>3 DEF Load
    <3> HIDE DEF saved
    <3>3. QED BY <2>1, <3>1, <3>2 DEF Load, Typed, TypeOK
  <2>4. QED BY <2>2, <2>3 DEF Typed, TypeOK
<1>2. Placed'
  <2>1. CASE torn
    BY <1>0, <2>1 DEF AfterUpdate, Goto, Placed, Typed, TypeOK, Starting, Updates, Asking,
         Waiting
  <2>2. CASE ~torn
    BY <1>0, <2>2 DEF Placed, Typed, TypeOK, Waiting
  <2>3. QED BY <1>0, <2>1, <2>2
<1>3. Granted'
  BY DEF Load, Granted, Typed, TypeOK
<1>4. Registered'
  BY DEF Load, Registered, Typed, TypeOK
<1>5. Alone'
  <2>1. \A q \in Runs : Over(q) => Over(q)'
    <3>1. ~Over(r)
      BY <1>0 DEF Over, Updates
    <3>2. \A q \in Runs \ {r} : pc'[q] = pc[q]
      BY <1>0 DEF AfterUpdate, Goto, Typed, TypeOK
    <3>3. QED BY <1>0, <3>1, <3>2 DEF Over
  <2>2. QED BY <1>0, <2>1 DEF Alone
<1>6. Named'
  <2>1. SUFFICES ASSUME mishaps \cap {"rename", "overlap"} = {} PROVE Named'
    BY <1>0 DEF Named
  <2>2. Named /\ pc[r] \in {"setStatus", "save"}
    BY <1>0, <2>1 DEF Named, Updates
  <2>3. CASE torn
    <3>1. \A q \in Runs \ {r} : pc'[q] = pc[q]
      BY <1>0, <2>3 DEF AfterUpdate, Goto, Typed, TypeOK
    <3>2. pc'[r] \in {"lan", "getToken", "online"} /\ (pc'[r] = "online" => pc[r] = "save")
      BY <1>0, <2>2, <2>3 DEF AfterUpdate, Goto, Typed, TypeOK
    <3>3. UNCHANGED <<step, copy>>
      BY <1>0, <2>3
    <3>4. QED BY <1>0, <2>1, <2>3, <3>1, <3>2, <3>3 DEF Named, Owned, Theirs, Waiting
  <2>4. CASE ~torn
    <3> DEFINE saved == Saved(r, file)
    <3>1. /\ saved.handle = IF pc[r] = "setStatus" THEN file.handle ELSE name[r]
          /\ saved.token = IF pc[r] = "save" THEN tok[r] ELSE file.token
      BY <1>0, SavedSettings
    <3>2. Owned(saved) /\ (pc[r] = "setStatus" => saved.handle = name[r])
      BY <1>0, <2>1, <2>2, <2>4, <3>1 DEF Named, Owned
    <3>3. copy' = [copy EXCEPT ![r] = saved] /\ UNCHANGED pc
      BY <1>0, <2>4
    <3> HIDE DEF saved
    <3>4. /\ copy'[r] = saved /\ step'[r] = "truncate"
          /\ \A q \in Runs \ {r} : copy'[q] = copy[q] /\ step'[q] = step[q]
      BY <1>0, <2>4, <3>3 DEF Typed, TypeOK
    <3>5. QED BY <1>0, <2>1, <2>2, <3>2, <3>3, <3>4 DEF Named, Owned, Theirs, Waiting
  <2>5. QED BY <1>0, <2>3, <2>4
<1>7. Kept'
  <2>1. SUFFICES ASSUME mishaps \cap {"lapse", "overlap"} = {} PROVE Kept'
    BY <1>0 DEF Kept
  <2>2. ~torn
    <3>1. SUFFICES ASSUME torn PROVE FALSE
      BY <1>0
    <3>2. PICK q \in Runs : pc[q] \in Updates /\ step[q] = "write"
      BY <2>1, <3>1 DEF Kept
    <3>3. ~Over(q) /\ ~Over(r) /\ q # r
      BY <1>0, <3>2 DEF Over, Updates
    <3>4. QED BY <2>1, <3>3 DEF Alone
  <2> DEFINE saved == Saved(r, file)
  <2>3. saved.token = IF pc[r] = "save" THEN tok[r] ELSE file.token
    BY <1>0, SavedSettings
  <2>4. copy' = [copy EXCEPT ![r] = saved] /\ UNCHANGED pc
    BY <1>0, <2>2
  <2> HIDE DEF saved
  <2>5. QED BY <1>0, <2>1, <2>2, <2>3, <2>4 DEF Kept, Replacing, Typed, TypeOK, Waiting
<1>8. QED BY <1>1, <1>2, <1>3, <1>4, <1>5, <1>6, <1>7

LEMMA TruncateKeeps ==
  ASSUME SessionInv, NEW r \in Runs, Truncate(r)
  PROVE  SessionInv'
<1> USE DEF SessionInv, fileVars, runVars, handlerVars, storeVars
<1>1. Typed'
  BY DEF Truncate, Typed, TypeOK, Tokens
<1>2. Placed'
  BY DEF Truncate, Updating, Placed, Waiting
<1>3. Granted'
  BY DEF Truncate, Granted, Typed, TypeOK
<1>4. Registered'
  BY DEF Truncate, Goto, Registered, Placed
<1>5. Alone'
  BY DEF Truncate, Updating, Alone, Over, Typed
<1>6. Named'
  BY DEF Truncate, Updating, Named, Owned, Theirs, Typed, TypeOK, Updates, Starting, Waiting,
       Asking, Granting
<1>7. Kept'
  BY DEF Truncate, Updating, Kept, Replacing, Typed, TypeOK, Waiting
<1>8. QED BY <1>1, <1>2, <1>3, <1>4, <1>5, <1>6, <1>7

LEMMA WriteKeeps ==
  ASSUME SessionInv, NEW r \in Runs, Write(r)
  PROVE  SessionInv'
<1> USE DEF SessionInv, fileVars, runVars, handlerVars, storeVars
<1>0. /\ pc[r] \in Updates /\ step[r] = "write" /\ file' = copy[r]
      /\ step' = [step EXCEPT ![r] = "load"] /\ AfterUpdate(r)
      /\ UNCHANGED <<copy, at, name, tok, handlerVars, storeVars, mishaps>>
      /\ torn => torn' = FALSE
      /\ step'[r] = "load" /\ \A q \in Runs \ {r} : step'[q] = step[q] /\ pc'[q] = pc[q]
      /\ pc'[r] = IF pc[r] = "setHandle" THEN "setStatus" ELSE IF pc[r] = "save" THEN "online"
                  ELSE IF at[r] = NoOne THEN "lan" ELSE "getToken"
  BY DEF Write, Updating, Updates, AfterUpdate, Goto, Typed, TypeOK
\* Runs that do not overlap leave this one alone.
<1>9. "overlap" \notin mishaps => \A q \in Runs \ {r} : pc[q] \in {"off", "ended"}
  BY <1>0 DEF Alone, Over, Updates
<1>1. Typed'
  BY DEF Write, Goto, AfterUpdate, Typed, TypeOK, Tokens
<1>2. Placed'
  BY DEF Write, Goto, Updating, AfterUpdate, Placed, Typed, TypeOK, Starting, Waiting
<1>3. Granted'
  BY DEF Write, Granted, Typed, TypeOK
<1>4. Registered'
  BY DEF Write, Registered, Typed, TypeOK
<1>5. Alone'
  BY DEF Write, Goto, Updating, AfterUpdate, Alone, Over
<1>6. Named'
  <2>1. SUFFICES ASSUME mishaps \cap {"rename", "overlap"} = {} PROVE Named'
    BY <1>0 DEF Named
  <2>2. pc[r] \in {"setStatus", "save"} /\ Owned(copy[r])
    BY <1>0, <2>1 DEF Named, Updates
  <2>3. \A q \in Runs \ {r} : pc[q] \in {"off", "ended"}
    BY <1>9, <2>1
  <2>4. pc[r] = "setStatus" => name[r] = copy[r].handle
    BY <1>0, <2>1 DEF Named
  <2>5. QED BY <1>0, <2>1, <2>2, <2>3, <2>4 DEF Named, Owned, Theirs, Waiting
<1>7. Kept'
  <2>1. SUFFICES ASSUME mishaps \cap {"lapse", "overlap"} = {} PROVE Kept'
    BY <1>0 DEF Kept
  <2>2. \A q \in Runs \ {r} : pc[q] \in {"off", "ended"}
    BY <1>9, <2>1
  <2>3. torn' = FALSE
    BY <1>0, <2>1 DEF Kept
  <2>4. file'.token # 0 => file'.token \in live
    <3>1. CASE pc[r] = "save"
      BY <1>0, <2>1, <3>1 DEF Kept
    <3>2. CASE pc[r] # "save"
      <4>1. file'.token = file.token
        BY <1>0, <2>1, <3>2 DEF Kept
      <4>2. \A q \in Runs : ~Replacing(q)
        BY <1>0, <2>2, <3>2 DEF Replacing, Updates
      <4>3. QED BY <2>1, <4>1, <4>2 DEF Kept
    <3>3. QED BY <3>1, <3>2
  <2>5. \A q \in Runs : step'[q] = "load"
    BY <1>0, <2>1, <2>2 DEF Kept, Updates
  <2>6. \A q \in Runs : Waiting(q)' <=> Waiting(q)
    BY <1>0 DEF Waiting, Updates
  <2>7. \A q \in Runs : pc'[q] # "save" /\ (pc'[q] = "entering" => pc[q] = "entering")
    BY <1>0, <2>2
  <2>8. QED BY <1>0, <2>1, <2>3, <2>4, <2>5, <2>6, <2>7 DEF Kept
<1>8. QED BY <1>1, <1>2, <1>3, <1>4, <1>5, <1>6, <1>7

LEMMA DialKeeps ==
  ASSUME SessionInv, NEW r \in Runs, Dial(r)
  PROVE  SessionInv'
<1> USE DEF SessionInv, fileVars, runVars, handlerVars, storeVars
<1>1. Typed'
  <2>1. UNCHANGED <<issued, Tokens>> /\ 0 \in Tokens /\ tok[r] \in Tokens
    BY Counted DEF Dial, Tokens, Typed, TypeOK
  <2>2. old' \in [Runs -> Tokens] /\ new' \in [Runs -> Tokens]
    BY <2>1 DEF Dial, Ask, Typed, TypeOK
  <2>3. acct' \in [Runs -> Accounts \cup {NoOne}] /\ link' \in [Runs -> {"none", "up", "down"}]
    BY DEF Dial, Ask, Typed, TypeOK
  <2>4. pc' \in [Runs -> Places] /\ srv' \in [Runs -> Turns]
    <3>1. \E where \in Places : pc' = [pc EXCEPT ![r] = where]
      BY DEF Dial, Goto, Places
    <3>2. srv' = srv \/ \E phase \in Turns : srv' = [srv EXCEPT ![r] = phase]
      BY DEF Dial, Ask, Turn, Turns
    <3>3. QED BY <3>1, <3>2, PlacesKept
  <2>5. QED BY <2>1, <2>2, <2>3, <2>4 DEF Dial, Typed, TypeOK, Places, Turns
<1>2. Placed'
  BY DEF Dial, Goto, Turn, Ask, Placed, Typed, TypeOK, Starting, Updates, Asking, Waiting
<1>3. Granted'
  BY DEF Dial, Turn, Ask, Granted, Typed, TypeOK, Granting
<1>4. Registered'
  <2>1. srv[r] = "idle" /\ srv'[r] \notin Joined
        /\ \A q \in Runs \ {r} : srv'[q] = srv[q] /\ acct'[q] = acct[q]
    BY DEF Dial, Ask, Turn, Placed, Starting, Typed, TypeOK, Joined
  <2>2. UNCHANGED <<hub, at>> /\ \A s \in Servers, h \in Accounts : hub[s][h] \in Runs \cup {NoOne}
    BY DEF Dial, Typed, TypeOK
  <2>3. \A s \in Servers, h \in Accounts : hub[s][h] # r
    BY <2>1, SessionAssumption DEF Registered, Joined
  <2>4. QED BY <2>1, <2>2, <2>3 DEF Registered
<1>5. Alone'
  BY DEF Dial, Goto, Turn, Ask, Alone, Over, Typed, TypeOK
<1>6. Named'
  BY DEF Dial, Goto, Turn, Ask, Named, Owned, Theirs, Typed, TypeOK, Waiting, Granting
<1>7. Kept'
  BY SessionAssumption DEF Dial, Goto, Turn, Ask, Kept, Replacing, Placed, Typed, TypeOK,
       Updates, Starting, Waiting, Granting
<1>8. QED BY <1>1, <1>2, <1>3, <1>4, <1>5, <1>6, <1>7

LEMMA DialFailsKeeps ==
  ASSUME SessionInv, NEW r \in Runs, DialFails(r)
  PROVE  SessionInv'
<1> USE DEF SessionInv, fileVars, runVars, handlerVars, storeVars
<1>1. Typed'
  BY DEF DialFails, Goto, Typed, TypeOK, Tokens
<1>2. Placed'
  BY DEF DialFails, Goto, Placed, Starting, Updates, Waiting
<1>3. Granted'
  BY DEF DialFails, Granted, Typed, TypeOK
<1>4. Registered'
  BY DEF DialFails, Registered, Typed, TypeOK
<1>5. Alone'
  BY DEF DialFails, Goto, Alone, Over
<1>6. Named'
  BY DEF DialFails, Goto, Named, Owned, Theirs, Waiting
<1>7. Kept'
  BY DEF DialFails, Goto, Kept, Replacing, Updates, Waiting
<1>8. QED BY <1>1, <1>2, <1>3, <1>4, <1>5, <1>6, <1>7

LEMMA SignInKeeps ==
  ASSUME SessionInv, NEW r \in Runs, NEW h \in Accounts, SignIn(r, h)
  PROVE  SessionInv'
<1> USE DEF SessionInv, fileVars, runVars, handlerVars, storeVars
<1>1. Typed'
  <2>1. UNCHANGED <<issued, Tokens>> /\ 0 \in Tokens
    BY Counted DEF SignIn, Tokens, Typed, TypeOK
  <2>2. /\ tries' \in [Runs -> 0..MaxTries] /\ name' \in [Runs -> Accounts \cup {NoOne}]
        /\ acct' \in [Runs -> Accounts \cup {NoOne}]
    BY SessionAssumption DEF SignIn, Ask, Typed, TypeOK
  <2>3. old' \in [Runs -> Tokens] /\ new' \in [Runs -> Tokens]
    BY <2>1 DEF SignIn, Ask, Typed, TypeOK
  <2>4. pc' \in [Runs -> Places] /\ srv' \in [Runs -> Turns]
    <3>1. /\ pc' = [pc EXCEPT ![r] = "entering"] /\ "entering" \in Places
          /\ srv' = [srv EXCEPT ![r] = "issue"] /\ "issue" \in Turns
      BY DEF SignIn, Ask, Goto, Turn, Places, Turns
    <3>2. QED BY <3>1, PlacesKept
  <2>5. QED BY <2>1, <2>2, <2>3, <2>4 DEF SignIn, Typed, TypeOK, Places, Turns
<1>2. Placed'
  BY DEF SignIn, Goto, Turn, Ask, Placed, Typed, TypeOK, Starting, Updates, Asking, Waiting
<1>3. Granted'
  BY DEF SignIn, Turn, Ask, Granted, Typed, TypeOK, Granting
<1>4. Registered'
  BY DEF SignIn, Turn, Ask, Registered, Placed, Joined
<1>5. Alone'
  BY DEF SignIn, Goto, Turn, Ask, Alone, Over
<1>6. Named'
  BY DEF SignIn, Goto, Turn, Ask, Named, Owned, Theirs, Typed, TypeOK, Waiting
<1>7. Kept'
  BY DEF SignIn, Goto, Turn, Ask, Kept, Replacing, Typed, TypeOK, Updates, Waiting, Granting
<1>8. QED BY <1>1, <1>2, <1>3, <1>4, <1>5, <1>6, <1>7

LEMMA ReplyKeeps ==
  ASSUME SessionInv, NEW r \in Runs, Reply(r)
  PROVE  SessionInv'
<1> USE DEF SessionInv, fileVars, runVars, handlerVars, storeVars
<1>1. Typed'
  <2>1. UNCHANGED <<issued, Tokens>> /\ 0 \in Tokens /\ new[r] \in Tokens
    BY Counted DEF Reply, Tokens, Typed, TypeOK
  <2>2. tok' \in [Runs -> Tokens]
    BY <2>1 DEF Reply, Typed, TypeOK
  <2>3. pc' \in [Runs -> Places] /\ srv' \in [Runs -> Turns]
    <3>1. pc' = pc \/ \E where \in Places : pc' = [pc EXCEPT ![r] = where]
      BY DEF Reply, Goto, Places
    <3>2. \E phase \in Turns : srv' = [srv EXCEPT ![r] = phase]
      BY DEF Reply, Turn, Turns
    <3>3. QED BY <3>1, <3>2, PlacesKept
  <2>4. QED BY <2>1, <2>2, <2>3 DEF Reply, Typed, TypeOK, Places, Turns
<1>2. Placed'
  BY DEF Reply, Goto, Turn, Placed, Typed, TypeOK, Starting, Updates, Asking, Waiting
<1>3. Granted'
  BY DEF Reply, Turn, Granted, Granting
<1>4. Registered'
  BY DEF Reply, Turn, Registered, Joined
<1>5. Alone'
  BY DEF Reply, Goto, Turn, Alone, Over, Typed, TypeOK
<1>6. Named'
  BY DEF Reply, Goto, Named, Owned, Theirs, Alone, Over, Placed, Granted, Typed, TypeOK,
       Updates, Starting, Waiting, Granting
<1>7. Kept'
  BY DEF Reply, Goto, Turn, Kept, Replacing, Placed, Typed, TypeOK, Updates, Starting,
       Waiting, Asking, Granting
<1>8. QED BY <1>1, <1>2, <1>3, <1>4, <1>5, <1>6, <1>7

LEMMA CheckKeeps ==
  ASSUME SessionInv, NEW r \in Runs, Check(r)
  PROVE  SessionInv'
<1> USE DEF SessionInv, fileVars, runVars, handlerVars, storeVars
<1>0. /\ srv[r] = "check"
      /\ \/ /\ srv' = [srv EXCEPT ![r] = "issue"] /\ old[r] \in 1..Len(issued)
            /\ acct' = [acct EXCEPT ![r] = issued[old[r]].account]
            /\ issued[old[r]].account \in Accounts
         \/ srv' = [srv EXCEPT ![r] = "refuse"] /\ UNCHANGED acct
  BY IssuedTo DEF Check, Turn, Typed
<1>1. Typed'
  <2>1. UNCHANGED <<issued, Tokens>>
    BY DEF Check, Tokens
  <2>2. srv' \in [Runs -> Turns] /\ acct' \in [Runs -> Accounts \cup {NoOne}]
    BY <1>0 DEF Typed, TypeOK, Turns
  <2>3. QED BY <2>1, <2>2 DEF Check, Typed, TypeOK, Turns
<1>2. Placed'
  BY DEF Check, Turn, Placed, Typed, TypeOK, Asking, Waiting
<1>3. Granted'
  <2>1. UNCHANGED <<old, new, issued>>
    BY DEF Check
  <2>2. QED BY <1>0, <2>1 DEF Granted, Granting, Typed, TypeOK
<1>4. Registered'
  <2>1. srv[r] = "check" /\ (UNCHANGED acct \/ srv'[r] = "issue") /\ srv'[r] \notin Joined
        /\ \A q \in Runs \ {r} : srv'[q] = srv[q] /\ acct'[q] = acct[q]
    BY DEF Check, Turn, Typed, TypeOK, Joined
  <2>2. UNCHANGED <<hub, at>> /\ \A s \in Servers, h \in Accounts : hub[s][h] \in Runs \cup {NoOne}
    BY DEF Check, Typed, TypeOK
  <2>3. \A s \in Servers, h \in Accounts : hub[s][h] # r
    BY <2>1, SessionAssumption DEF Registered, Joined
  <2>4. QED BY <2>1, <2>2, <2>3 DEF Registered
<1>5. Alone'
  BY DEF Check, Turn, Alone, Over, Typed, TypeOK
<1>6. Named'
  BY DEF Check, Turn, Named, Owned, Theirs, Placed, Typed, TypeOK, Waiting, Granting
<1>7. Kept'
  BY DEF Check, Turn, Kept, Replacing, Typed, TypeOK, Waiting, Asking, Granting
<1>8. QED BY <1>1, <1>2, <1>3, <1>4, <1>5, <1>6, <1>7

LEMMA IssueKeeps ==
  ASSUME SessionInv, NEW r \in Runs, Issue(r)
  PROVE  SessionInv'
<1> USE DEF SessionInv, fileVars, runVars, handlerVars, storeVars
<1>0. /\ Len(issued) \in Nat /\ at[r] \in Servers /\ acct[r] \in Accounts
      /\ issued' \in Seq([server : Servers, account : Accounts])
      /\ Len(issued') = Len(issued) + 1 /\ issued'[Len(issued) + 1].account = acct[r]
      /\ \A t \in 1..Len(issued) : issued'[t] = issued[t]
  <2>1. at[r] \in Servers /\ acct[r] \in Accounts
    BY DEF Issue, Placed, Granted, Typed, TypeOK
  <2>2. QED BY <2>1, IssuedNext, Counted DEF Issue, Server
<1>1. Typed'
  <2>1. /\ Tokens \subseteq Tokens' /\ Len(issued) + 1 \in Tokens'
        /\ 1..Len(issued) \subseteq 1..Len(issued') /\ Len(issued) + 1 \in 1..Len(issued')
    BY <1>0 DEF Tokens
  <2>2. QED BY <1>0, <2>1 DEF Issue, Turn, Typed, TypeOK
<1>2. Placed'
  BY DEF Issue, Turn, Placed, Asking, Waiting
<1>3. Granted'
  <2>1. /\ new' = [new EXCEPT ![r] = Len(issued) + 1] /\ old[r] # Len(issued) + 1
        /\ srv' = [srv EXCEPT ![r] = IF old[r] # 0 THEN "revoke" ELSE "join"]
        /\ UNCHANGED <<acct, old>> /\ srv[r] = "issue"
    BY <1>0 DEF Issue, Turn, Typed, TypeOK, Tokens
  <2>2. ASSUME NEW q \in Runs, q # r
        PROVE  /\ srv'[q] = srv[q] /\ new'[q] = new[q]
               /\ srv[q] \in Granting => new[q] \in 1..Len(issued') /\ issued'[new[q]].account = acct[q]
    <3>1. srv'[q] = srv[q] /\ new'[q] = new[q]
      BY <2>1, <2>2 DEF Typed, TypeOK
    <3>2. srv[q] \in Granting => new[q] \in 1..Len(issued) /\ issued[new[q]].account = acct[q]
      BY DEF Granted
    <3>3. 1..Len(issued) \subseteq 1..Len(issued')
      BY <1>0
    <3>4. QED BY <1>0, <3>1, <3>2, <3>3
  <2>3. /\ new'[r] = Len(issued) + 1 /\ new'[r] \in 1..Len(issued')
        /\ srv'[r] = IF old[r] # 0 THEN "revoke" ELSE "join"
    BY <1>0, <2>1 DEF Typed, TypeOK
  <2>4. QED BY <1>0, <2>1, <2>2, <2>3 DEF Granted, Granting
<1>4. Registered'
  BY DEF Issue, Turn, Registered, Joined
<1>5. Alone'
  BY DEF Issue, Turn, Alone, Over
<1>6. Named'
  BY DEF Issue, Turn, Named, Owned, Theirs, Waiting
<1>7. Kept'
  BY DEF Issue, Turn, Kept, Replacing, Typed, TypeOK, Waiting, Asking
<1>8. QED BY <1>1, <1>2, <1>3, <1>4, <1>5, <1>6, <1>7

LEMMA RevokeKeeps ==
  ASSUME SessionInv, NEW r \in Runs, Revoke(r)
  PROVE  SessionInv'
<1> USE DEF SessionInv, fileVars, runVars, handlerVars, storeVars
<1>1. Typed'
  BY DEF Revoke, Turn, Typed, TypeOK, Tokens
<1>2. Placed'
  BY DEF Revoke, Turn, Placed, Asking, Waiting
<1>3. Granted'
  BY DEF Revoke, Turn, Granted, Granting
<1>4. Registered'
  BY DEF Revoke, Turn, Registered, Joined
<1>5. Alone'
  BY DEF Revoke, Turn, Alone, Over
<1>6. Named'
  BY DEF Revoke, Turn, Named, Owned, Theirs, Waiting, Granting
<1>7. Kept'
  <2>1. SUFFICES ASSUME mishaps \cap {"lapse", "overlap"} = {} PROVE Kept'
    BY DEF Revoke, Kept
  <2>2. /\ srv[r] = "revoke" /\ srv' = [srv EXCEPT ![r] = "join"]
        /\ live' = live \ {old[r]} \/ UNCHANGED live
        /\ UNCHANGED <<fileVars, runVars, link, acct, old, new, issued, expired, hub, mishaps>>
    BY DEF Revoke, Turn
  <2>3. /\ pc[r] = "resuming" /\ new[r] # old[r] /\ new[r] \in live
        /\ srv'[r] = "join" /\ \A q \in Runs \ {r} : srv'[q] = srv[q]
    BY <2>1, <2>2 DEF Kept, Granted, Granting, Asking, Waiting, Typed, TypeOK
  <2>4. \A q \in Runs \ {r} : ~Waiting(q) /\ pc[q] # "save"
    BY <2>1, <2>3 DEF Alone, Over, Waiting
  <2>5. \A q \in Runs \ {r} : srv[q] \notin Asking
    BY <2>1, <2>4 DEF Kept
  <2>6. Replacing(r)' /\ (Waiting(r)' <=> Waiting(r)) /\ Waiting(r)
    BY <2>2, <2>3 DEF Replacing, Waiting
  <2>7. QED BY <2>1, <2>2, <2>3, <2>4, <2>5, <2>6 DEF Kept, Granting, Asking, Waiting
<1>8. QED BY <1>1, <1>2, <1>3, <1>4, <1>5, <1>6, <1>7

LEMMA StoreFailsKeeps ==
  ASSUME SessionInv, NEW r \in Runs, StoreFails(r)
  PROVE  SessionInv'
<1> USE DEF SessionInv, fileVars, runVars, handlerVars, storeVars
<1>1. Typed'
  BY DEF StoreFails, Turn, Typed, TypeOK, Tokens
<1>2. Placed'
  BY DEF StoreFails, Turn, Placed, Asking, Waiting
<1>3. Granted'
  BY DEF StoreFails, Turn, Granted, Granting
<1>4. Registered'
  BY DEF StoreFails, Turn, Registered, Joined
<1>5. Alone'
  BY DEF StoreFails, Turn, Alone, Over
<1>6. Named'
  BY DEF StoreFails, Turn, Named, Owned, Theirs, Waiting, Granting
<1>7. Kept'
  BY DEF StoreFails, Turn, Kept, Replacing, Waiting, Asking, Granting
<1>8. QED BY <1>1, <1>2, <1>3, <1>4, <1>5, <1>6, <1>7

LEMMA JoinKeeps ==
  ASSUME SessionInv, NEW r \in Runs, Join(r)
  PROVE  SessionInv'
<1> USE DEF SessionInv, fileVars, runVars, handlerVars, storeVars
<1>1. Typed'
  <2>1. UNCHANGED <<issued, Tokens>> /\ srv[r] = "join"
    BY DEF Join, Tokens
  <2>2. CASE hub[at[r]][acct[r]] = NoOne
    <3>1. srv' = [srv EXCEPT ![r] = "reply"] /\ hub' = [hub EXCEPT ![at[r]][acct[r]] = r]
      BY <2>2 DEF Join, Server, Turn
    <3>2. srv' \in [Runs -> Turns] /\ hub' \in [Servers -> [Accounts -> Runs \cup {NoOne}]]
      BY <2>1, <3>1, JoinHub DEF Typed, TypeOK, Turns
    <3>3. QED BY <2>1, <3>2 DEF Join, Typed, TypeOK, Turns
  <2>3. CASE hub[at[r]][acct[r]] # NoOne
    <3>1. srv' = [srv EXCEPT ![r] = "refuse"] /\ UNCHANGED hub
      BY <2>3 DEF Join, Server, Turn
    <3>2. srv' \in [Runs -> Turns]
      BY <3>1 DEF Typed, TypeOK, Turns
    <3>3. QED BY <2>1, <3>1, <3>2 DEF Join, Typed, TypeOK, Turns
  <2>4. QED BY <2>2, <2>3
<1>2. Placed'
  BY DEF Join, Turn, Placed, Typed, TypeOK, Asking, Waiting
<1>3. Granted'
  BY DEF Join, Turn, Granted, Typed, TypeOK, Granting
<1>4. Registered'
  <2>1. /\ srv[r] = "join" /\ UNCHANGED <<at, acct>>
        /\ \A q \in Runs \ {r} : srv'[q] = srv[q]
        /\ at[r] \in Servers /\ acct[r] \in Accounts
        /\ \A s \in Servers, h \in Accounts : hub[s][h] \in Runs \cup {NoOne}
    BY JoinHub DEF Join, Turn, Typed, TypeOK
  <2>2. \A s \in Servers, h \in Accounts : hub[s][h] # r
    BY <2>1, SessionAssumption DEF Registered, Joined
  <2>3. CASE hub[at[r]][acct[r]] = NoOne
    <3>1. /\ hub'[at[r]][acct[r]] = r /\ srv'[r] = "reply"
          /\ \A s \in Servers, h \in Accounts :
               s # at[r] \/ h # acct[r] => hub'[s][h] = hub[s][h]
      BY <2>1, <2>3 DEF Join, Server, Turn, Typed, TypeOK
    <3>2. \A s \in Servers, h \in Accounts : hub'[s][h] # NoOne =>
            srv'[hub'[s][h]] \in Joined /\ at[hub'[s][h]] = s /\ acct[hub'[s][h]] = h
      <4>1. TAKE s \in Servers, h \in Accounts
      <4>2. CASE s = at[r] /\ h = acct[r]
        BY <3>1, <4>2 DEF Joined
      <4>3. CASE s # at[r] \/ h # acct[r]
        BY <2>1, <2>2, <3>1, <4>3 DEF Registered
      <4>4. QED BY <4>2, <4>3
    <3>3. ASSUME NEW q \in Runs, srv'[q] \in Joined PROVE hub'[at[q]][acct[q]] = q
      <4>1. CASE q = r
        BY <3>1, <4>1
      <4>2. CASE q # r
        <5>1. hub[at[q]][acct[q]] = q /\ srv[q] \in Joined
          BY <2>1, <3>3, <4>2 DEF Registered
        <5>2. at[q] \in Servers /\ acct[q] \in Accounts /\ q # NoOne
          BY <5>1, SessionAssumption DEF Placed, Granted, Granting, Joined, Typed, TypeOK
        <5>3. QED BY <2>3, <3>1, <5>1, <5>2
      <4>3. QED BY <4>1, <4>2
    <3>4. QED BY <2>1, <3>2, <3>3 DEF Registered
  <2>4. CASE hub[at[r]][acct[r]] # NoOne
    <3>1. UNCHANGED hub /\ srv'[r] = "refuse"
      BY <2>4 DEF Join, Server, Turn, Typed, TypeOK
    <3>2. QED BY <2>1, <2>2, <3>1 DEF Registered, Joined
  <2>5. QED BY <2>3, <2>4
<1>5. Alone'
  BY DEF Join, Turn, Alone, Over, Typed, TypeOK
<1>6. Named'
  BY DEF Join, Turn, Named, Owned, Theirs, Typed, TypeOK, Waiting, Granting
<1>7. Kept'
  <2>1. SUFFICES ASSUME mishaps \cap {"lapse", "overlap"} = {} PROVE Kept'
    BY DEF Join, Kept
  <2>2. srv[r] = "join" /\ Waiting(r) /\ at[r] \in Servers /\ acct[r] \in Accounts
    BY <2>1, JoinHub DEF Join, Kept, Asking
\* A handle that is taken would be another run's, not over yet.
  <2>3. hub[at[r]][acct[r]] = NoOne
    <3> DEFINE q == hub[at[r]][acct[r]]
    <3>1. SUFFICES ASSUME q # NoOne PROVE FALSE
      OBVIOUS
    <3>2. q \in Runs /\ srv[q] \in Joined
      BY <2>2, <3>1 DEF Registered, Typed, TypeOK
    <3> HIDE DEF q
    <3>3. q # r /\ ~Over(q) /\ ~Over(r)
      BY <2>2, <3>2 DEF Over, Waiting, Placed, Joined
    <3>4. QED BY <2>1, <2>2, <3>2, <3>3 DEF Alone
  <2>4. srv' = [srv EXCEPT ![r] = "reply"]
        /\ UNCHANGED <<fileVars, runVars, old, new, live, mishaps>>
    BY <2>3 DEF Join, Server, Turn
  <2>5. QED BY <2>1, <2>2, <2>4 DEF Kept, Replacing, Waiting, Granting
<1>8. QED BY <1>1, <1>2, <1>3, <1>4, <1>5, <1>6, <1>7

LEMMA LeaveKeeps ==
  ASSUME SessionInv, NEW r \in Runs, Leave(r)
  PROVE  SessionInv'
<1> USE DEF SessionInv, fileVars, runVars, handlerVars, storeVars
<1>1. Typed'
  BY DEF Leave, Turn, Typed, TypeOK, Tokens
<1>2. Placed'
  BY DEF Leave, Turn, Placed, Waiting
<1>3. Granted'
  BY DEF Leave, Turn, Granted, Granting
<1>4. Registered'
  BY DEF Leave, Turn, Registered, Placed, Granted, Typed, TypeOK, Joined, Granting
<1>5. Alone'
  BY DEF Leave, Turn, Alone, Over
<1>6. Named'
  BY DEF Leave, Named, Owned, Theirs, Alone, Over, Placed, Granted, Waiting
<1>7. Kept'
  BY DEF Leave, Turn, Kept, Replacing, Waiting, Asking, Granting
<1>8. QED BY <1>1, <1>2, <1>3, <1>4, <1>5, <1>6, <1>7

LEMMA QuitKeeps ==
  ASSUME SessionInv, NEW r \in Runs, Quit(r)
  PROVE  SessionInv'
<1> USE DEF SessionInv, fileVars, runVars, handlerVars, storeVars
<1>1. Typed'
  BY DEF Quit, Goto, Note, End, Typed, TypeOK, Tokens
<1>2. Placed'
  BY DEF Quit, Goto, End, Placed, Typed, TypeOK, Starting, Waiting
<1>3. Granted'
  BY DEF Quit, End, Granted, TypeOK
<1>4. Registered'
  BY DEF Quit, End, Registered, TypeOK
<1>5. Alone'
  BY DEF Quit, Goto, Note, End, Alone, Over
<1>6. Named'
  BY DEF Quit, Goto, Note, End, Named, Owned, Theirs, Waiting
<1>7. Kept'
  <2>1. SUFFICES ASSUME mishaps' \cap {"lapse", "overlap"} = {} PROVE Kept'
    BY DEF Kept
  <2>2. /\ pc[r] \in {"welcome", "failed", "lan", "online"} /\ mishaps \cap {"lapse", "overlap"} = {}
        /\ pc'[r] = "ended" /\ \A q \in Runs \ {r} : pc'[q] = pc[q]
        /\ UNCHANGED <<fileVars, step, copy, tok, srv, old, new, live>>
    BY <2>1 DEF Quit, End, Goto, Note, Typed, TypeOK
  <2>3. ~Waiting(r) /\ ~Replacing(r) /\ srv[r] \notin Asking /\ pc[r] \notin Updates
    BY <2>2 DEF Kept, Waiting, Replacing, Updates
  <2>4. \A q \in Runs \ {r} : (Replacing(q)' <=> Replacing(q)) /\ (Waiting(q)' <=> Waiting(q))
    BY <2>2 DEF Waiting, Replacing
  <2>5. QED BY <2>2, <2>3, <2>4 DEF Kept, Granting, Asking
<1>8. QED BY <1>1, <1>2, <1>3, <1>4, <1>5, <1>6, <1>7

LEMMA CrashKeeps ==
  ASSUME SessionInv, NEW r \in Runs, Crash(r)
  PROVE  SessionInv'
<1> USE DEF SessionInv, fileVars, runVars, handlerVars, storeVars
<1>1. Typed'
  BY DEF Crash, Goto, Note, End, Typed, TypeOK, Tokens
<1>2. Placed'
  BY DEF Crash, Goto, End, Placed, Typed, TypeOK, Starting, Waiting
<1>3. Granted'
  BY DEF Crash, End, Granted, TypeOK
<1>4. Registered'
  BY DEF Crash, End, Registered, TypeOK
<1>5. Alone'
  BY DEF Crash, Goto, Note, End, Alone, Over
<1>6. Named'
  BY DEF Crash, Goto, Note, End, Named, Owned, Theirs, Waiting
<1>7. Kept'
  BY DEF Crash, Note, Kept, TypeOK
<1>8. QED BY <1>1, <1>2, <1>3, <1>4, <1>5, <1>6, <1>7

LEMMA LoseConnKeeps ==
  ASSUME SessionInv, NEW r \in Runs, LoseConn(r)
  PROVE  SessionInv'
<1> USE DEF SessionInv, fileVars, runVars, handlerVars, storeVars
<1>1. Typed'
  <2>1. UNCHANGED <<issued, Tokens>> /\ 0 \in Tokens
    BY Counted DEF LoseConn, Tokens
  <2>2. tok' \in [Runs -> Tokens]
    BY <2>1 DEF LoseConn, Typed, TypeOK
  <2>3. pc' \in [Runs -> Places] /\ link' \in [Runs -> {"none", "up", "down"}]
    BY DEF LoseConn, Goto, Typed, TypeOK, Places
  <2>4. mishaps' \subseteq {"lapse", "overlap", "rename"}
    BY DEF LoseConn, Note, Typed, TypeOK
  <2>5. UNCHANGED <<fileVars, step, copy, at, name, tries, srv, acct, old, new, storeVars, hub>>
    BY DEF LoseConn
  <2>6. QED BY <2>1, <2>2, <2>3, <2>4, <2>5 DEF Typed, TypeOK, Places
<1>2. Placed'
  BY DEF LoseConn, Goto, Placed, Typed, TypeOK, Starting, Updates, Waiting
<1>3. Granted'
  BY DEF LoseConn, Granted, Typed, TypeOK
<1>4. Registered'
  BY DEF LoseConn, Registered, Typed, TypeOK
<1>5. Alone'
  BY DEF LoseConn, Goto, Note, Alone, Over, Placed, Typed, TypeOK
<1>6. Named'
  BY DEF LoseConn, Goto, Note, Named, Owned, Theirs, Typed, TypeOK, Waiting
<1>7. Kept'
  <2>1. SUFFICES ASSUME mishaps' \cap {"lapse", "overlap"} = {} PROVE Kept'
    BY DEF Kept
  <2>2. ~Waiting(r)
    BY <2>1 DEF LoseConn, Note
  <2>3. UNCHANGED <<fileVars, pc, step, copy, tok, srv, old, new, live, mishaps>>
    BY <2>2 DEF LoseConn
  <2>4. QED BY <2>1, <2>3 DEF Kept, Replacing, Waiting
<1>8. QED BY <1>1, <1>2, <1>3, <1>4, <1>5, <1>6, <1>7

LEMMA ExpireKeeps == ASSUME SessionInv, NEW t \in live, Expire(t) PROVE SessionInv'
<1> USE DEF SessionInv, fileVars, runVars, handlerVars
<1>1. /\ expired' = expired \cup {t} /\ t \in Tokens
      /\ UNCHANGED <<fileVars, runVars, handlerVars, issued, live, hub, mishaps>>
  BY Counted DEF Expire, Typed, TypeOK
<1>2. Typed'
  BY <1>1 DEF Typed, TypeOK, Tokens, Settings
<1>3. Placed' /\ Granted' /\ Registered'
  BY <1>1 DEF Placed, Granted, Registered, Waiting
<1>4. Alone' /\ Named' /\ Kept'
  BY <1>1 DEF Alone, Over, Named, Owned, Theirs, Kept, Replacing, Waiting
<1>5. QED BY <1>2, <1>3, <1>4

-------------------------------------------------------------------------------
(* The theorems. *)

LEMMA SessionInit == Init => SessionInv
<1> SUFFICES ASSUME Init PROVE SessionInv
  OBVIOUS
<1> USE SessionAssumption DEF Init
<1>1. <<>> \in Seq([server : Servers, account : Accounts]) /\ Len(<<>>) = 0
  BY EmptySeq
<1>2. 0 \in Tokens /\ 0 \in 0..MaxTries /\ Fresh \in Settings /\ Fresh.token = 0
  BY <1>1 DEF Tokens, Settings, Fresh
<1>3. Typed
  BY <1>1, <1>2 DEF Typed, TypeOK
<1> USE DEF Fresh
<1>4. Placed /\ Granted
  BY DEF Placed, Granted, Granting, Starting, Waiting
<1>5. Registered /\ Alone
  BY DEF Registered, Joined, Alone, Over
<1>6. Named /\ Kept
  BY DEF Named, Owned, Kept, Granting, Asking
<1>7. QED BY <1>3, <1>4, <1>5, <1>6 DEF SessionInv

LEMMA SessionStep == SessionInv /\ [Next]_vars => SessionInv'
<1> SUFFICES ASSUME SessionInv, [Next]_vars PROVE SessionInv'
  OBVIOUS
<1>1. ASSUME NEW r \in Runs, Program(r) PROVE SessionInv'
  BY <1>1, GetHandleKeeps, GetTokenKeeps, LoadKeeps, TruncateKeeps, WriteKeeps, DialKeeps DEF
       Program
<1>2. ASSUME NEW r \in Runs, Handler(r) PROVE SessionInv'
  BY <1>2, CheckKeeps, IssueKeeps, RevokeKeeps, JoinKeeps, ReplyKeeps, LeaveKeeps DEF Handler
<1>3. ASSUME NEW r \in Runs, User(r) PROVE SessionInv'
  BY <1>3, LaunchKeeps, SignInKeeps, QuitKeeps DEF User
<1>4. ASSUME NEW r \in Runs, Failure(r) PROVE SessionInv'
  BY <1>4, DialFailsKeeps, StoreFailsKeeps, CrashKeeps, LoseConnKeeps DEF Failure
<1>5. CASE UNCHANGED vars
  <2> USE <1>5 DEF SessionInv, vars, fileVars, runVars, handlerVars, storeVars
  <2>1. Typed' /\ Placed' /\ Granted' /\ Registered'
    BY DEF Typed, TypeOK, Tokens, Placed, Granted, Registered, Waiting
  <2>2. Alone' /\ Named' /\ Kept'
    BY DEF Alone, Over, Named, Owned, Theirs, Kept, Replacing, Waiting
  <2>3. QED BY <2>1, <2>2
<1>6. QED BY <1>1, <1>2, <1>3, <1>4, <1>5, ExpireKeeps DEF Next

LEMMA SessionInvariance == Spec => []SessionInv
  BY SessionInit, SessionStep, PTL DEF Spec

\* Every variable of runs, handlers, store and Hub keeps its type, and no token is
\* saved or held that was never issued.
THEOREM TypeCorrect == Spec => []TypeOK
<1>1. SessionInv => TypeOK
  BY DEF SessionInv, Typed
<1>2. QED BY <1>1, SessionInvariance, PTL

\* The token on disk is one the server still knows, for the handle beside it, when
\* runs follow one another and none ends with a request out.
THEOREM TokenIsRemembered == Spec => []Remembered
<1>1. SessionInv => Remembered
  <2> SUFFICES ASSUME SessionInv, AtRest, mishaps \cap {"lapse", "overlap"} = {}, file.token # 0
               PROVE  /\ ~torn /\ file.token \in live
                      /\ issued[file.token].account = file.handle \/ "rename" \in mishaps
    BY DEF Remembered, Remembers
  <2>1. \A r \in Runs : pc[r] \notin Updates /\ ~Replacing(r)
    BY DEF AtRest, Updates, Replacing
  <2>2. ~torn /\ file.token \in live
    BY <2>1 DEF SessionInv, Kept, Typed, TypeOK
  <2>3. issued[file.token].account = file.handle \/ "rename" \in mishaps
    BY DEF SessionInv, Named, Owned, Theirs
  <2>4. QED BY <2>2, <2>3
<1>2. QED BY <1>1, SessionInvariance, PTL

\* A run that believes it is logged in is registered in the Hub of the server it
\* dialed, for the account it signed in to.
THEOREM LoggedInIsRegistered == Spec => []OnlineIsRegistered
<1>1. SessionInv => OnlineIsRegistered
  <2> SUFFICES ASSUME SessionInv, NEW r \in Runs, pc[r] \in {"save", "online"}, link[r] = "up"
               PROVE  /\ hub[at[r]][acct[r]] = r
                      /\ name[r] = acct[r] \/ mishaps \cap {"rename", "overlap"} # {}
    BY DEF OnlineIsRegistered
  <2>1. hub[at[r]][acct[r]] = r
    BY DEF SessionInv, Placed, Registered, Joined
  <2>2. name[r] = acct[r] \/ mishaps \cap {"rename", "overlap"} # {}
    BY DEF SessionInv, Named
  <2>3. QED BY <2>1, <2>2
<1>2. QED BY <1>1, SessionInvariance, PTL
===============================================================================
