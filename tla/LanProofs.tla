------------------------------ MODULE LanProofs ------------------------------
(* Proofs about the LAN side.  First of file transfers: nothing is saved   *)
(* without consent, overwritten or left half-saved, for any number of      *)
(* transfers.  Then of discovery: the list of peers is live, for any       *)
(* number of instances, any times and any capacities.                      *)
EXTENDS FileTransfer, Discovery, SequenceTheorems, TLAPS

Places == {"none", "offering", "deciding", "saying", "choosing", "creating", "copying",
           "reporting", "done", "denied", "timedout", "unsaid", "killed"}
Unanswered == {"none", "offering", "deciding", "saying"}
WithoutFile == Places \ {"copying", "reporting", "done", "killed"}
Answered == {"streaming", "delivered"}
Outcomes == [transfer : Transfers, path : Paths \cup {NoPath}]

Items(s) == {s[i] : i \in DOMAIN s}
Once(s) == \A i, j \in DOMAIN s : s[i] = s[j] => i = j

TransferTypes ==
  /\ sender \in [Transfers -> {"idle", "waiting", "streaming", "delivered", "declined", "failed"}]
  /\ size \in [Transfers -> Nat] /\ unsent \in [Transfers -> Nat]
  /\ reply \in [Transfers -> {"none", "accept", "deny"}] /\ data \in [Transfers -> Nat]

HandlerTypes ==
  /\ handler \in [Transfers -> Places] /\ path \in [Transfers -> Paths \cup {NoPath}]
  /\ got \in [Transfers -> Nat]
  /\ dir \in [Paths -> [owner : Transfers \cup {Local}, pieces : Nat, exists : BOOLEAN]]

ScreenTypes ==
  /\ decision \in [Transfers -> {"none", "yes", "no"}]
  /\ choice \in [Transfers -> {"none", "yes", "no"}]
  /\ offerC \in Seq(Transfers) /\ queue \in Seq(Transfers) /\ resultC \in Seq(Outcomes)
  /\ shown \subseteq Outcomes

\* An offer is in one place at a time, and answered once.
OfferedOnce ==
  /\ Once(offerC) /\ Once(queue) /\ Items(offerC) \cap Items(queue) = {}
  /\ \A t \in Transfers :
       /\ sender[t] = "idle" => handler[t] = "none"
       /\ handler[t] \in {"none", "offering"} => t \notin Items(offerC) \cup Items(queue)
       /\ handler[t] \in {"none", "offering"} \/ t \in Items(offerC) \cup Items(queue)
            => choice[t] = "none"

\* The yes travels from the screen to the sender.
SaidYes ==
  \A t \in Transfers :
    /\ decision[t] = "yes" => choice[t] = "yes"
    /\ handler[t] \in {"saying", "choosing", "creating", "copying"} => choice[t] = "yes"
    /\ reply[t] = "accept" \/ sender[t] \in Answered => choice[t] = "yes"
    /\ handler[t] \in Unanswered => reply[t] # "accept" /\ sender[t] \notin Answered

\* No piece is lost between a sender that streams and a handler that copies.
Flow ==
  \A t \in Transfers :
    /\ sender[t] \in {"idle", "waiting"} => data[t] = 0
    /\ sender[t] \in {"idle", "waiting"} \/ handler[t] \in WithoutFile => got[t] = 0
    /\ sender[t] = "delivered" => unsent[t] = 0
    /\ sender[t] \in Answered /\ handler[t] \in {"choosing", "creating", "copying"}
         => got[t] + data[t] + unsent[t] = size[t]

\* What the file at a path has to do with its owner's handler.
Owned ==
  \A p \in Paths : dir[p].exists =>
    LET t == dir[p].owner IN
    /\ t = Local => dir[p].pieces = 1
    /\ t # Local =>
         /\ choice[t] = "yes" /\ handler[t] \notin WithoutFile
         /\ handler[t] \in {"copying", "reporting"} => path[t] = p
         /\ handler[t] = "copying" => dir[p].pieces = got[t]
         /\ handler[t] \in {"reporting", "done"} => dir[p].pieces = SizeOf[t]

\* What a handler knows of its file.
Paved ==
  \A t \in Transfers :
    /\ handler[t] \in {"creating", "copying"} => path[t] # NoPath
    /\ handler[t] \in {"copying", "reporting"} /\ path[t] # NoPath
         => dir[path[t]].exists /\ dir[path[t]].owner = t

\* What was reported received is there, and its handler has finished.
Reported ==
  \A result \in Items(resultC) \cup shown :
    result.path # NoPath =>
      /\ Complete(result.path) /\ dir[result.path].owner = result.transfer
      /\ handler[result.transfer] \in {"done", "killed"}

FileTypes == TransferTypes /\ HandlerTypes /\ ScreenTypes
FileInv == FileTypes /\ OfferedOnce /\ SaidYes /\ Flow /\ Owned /\ Paved /\ Reported

-------------------------------------------------------------------------------
LEMMA TailItems ==
  ASSUME NEW S, NEW s \in Seq(S), s # <<>>
  PROVE  /\ Head(s) \in S /\ Tail(s) \in Seq(S) /\ Head(s) \in Items(s)
         /\ Items(Tail(s)) \subseteq Items(s) /\ Items(s) \subseteq S
         /\ Once(s) => Once(Tail(s)) /\ Head(s) \notin Items(Tail(s))
<1>1. /\ Head(s) \in S /\ Tail(s) \in Seq(S) /\ Head(s) = s[1]
      /\ Len(s) \in Nat \ {0} /\ DOMAIN s = 1..Len(s)
      /\ DOMAIN Tail(s) = 1..(Len(s) - 1)
      /\ \A i \in DOMAIN Tail(s) : i + 1 \in DOMAIN s /\ Tail(s)[i] = s[i + 1] /\ i + 1 # 1
  <2>1. Tail(s) \in Seq(S) /\ Len(Tail(s)) = Len(s) - 1
        /\ \A i \in 1..Len(Tail(s)) : Tail(s)[i] = s[i + 1]
    BY HeadTailProperties
  <2>2. Len(s) \in Nat \ {0} /\ DOMAIN s = 1..Len(s) /\ Head(s) \in S /\ Head(s) = s[1]
    BY LenProperties, EmptySeq, HeadTailProperties
  <2>3. DOMAIN Tail(s) = 1..(Len(s) - 1)
    BY <2>1, LenProperties
  <2>4. QED BY <2>1, <2>2, <2>3
<1>2. 1 \in DOMAIN s
  BY <1>1
<1>3. Items(Tail(s)) \subseteq Items(s) /\ Head(s) \in Items(s)
  BY <1>1, <1>2 DEF Items
<1>4. Items(s) \subseteq S
  BY <1>1, ElementOfSeq DEF Items
<1>5. ASSUME Once(s) PROVE Once(Tail(s)) /\ Head(s) \notin Items(Tail(s))
  <2>1. Head(s) \notin Items(Tail(s))
    BY <1>1, <1>2, <1>5 DEF Once, Items
  <2>2. ASSUME NEW i \in DOMAIN Tail(s), NEW j \in DOMAIN Tail(s), Tail(s)[i] = Tail(s)[j]
        PROVE  i = j
    <3>1. i + 1 = j + 1
      BY <1>1, <1>5, <2>2 DEF Once
    <3>2. QED BY <3>1, <1>1
  <2>3. QED BY <2>1, <2>2 DEF Once
<1>6. QED BY <1>1, <1>3, <1>4, <1>5

LEMMA AppendItems ==
  ASSUME NEW S, NEW s \in Seq(S), NEW e \in S
  PROVE  /\ Append(s, e) \in Seq(S) /\ Items(Append(s, e)) = Items(s) \cup {e}
         /\ Items(s) \subseteq S
         /\ Once(s) /\ e \notin Items(s) => Once(Append(s, e))
<1>1. /\ Append(s, e) \in Seq(S) /\ Len(s) \in Nat /\ DOMAIN s = 1..Len(s)
      /\ DOMAIN Append(s, e) = 1..(Len(s) + 1) /\ Append(s, e)[Len(s) + 1] = e
      /\ \A i \in DOMAIN s : Append(s, e)[i] = s[i]
  BY AppendProperties, LenProperties
<1>2. \A i \in DOMAIN Append(s, e) : i \in DOMAIN s \/ i = Len(s) + 1
  BY <1>1
<1>3. Items(Append(s, e)) = Items(s) \cup {e}
  BY <1>1, <1>2 DEF Items
<1>4. Items(s) \subseteq S
  BY <1>1, ElementOfSeq DEF Items
<1>5. Once(s) /\ e \notin Items(s) => Once(Append(s, e))
  BY <1>1, <1>2 DEF Once, Items
<1>6. QED BY <1>1, <1>3, <1>4, <1>5

LEMMA Constants ==
  /\ NoPath \notin Paths /\ Local \notin Transfers
  /\ \A t \in Transfers : SizeOf[t] \in Nat
  /\ Transfers \cap {Local} = {}
  BY FileAssumption DEF NoPath, Paths

\* A step may write to or remove a file that is being received, and no other.
LEMMA OthersStay ==
  ASSUME FileInv, NEW t \in Transfers, CreateFile(t) \/ CopyPiece(t) \/ CopyFails(t),
         NEW p \in Paths, dir[p].exists, dir'[p] # dir[p]
  PROVE  dir[p].owner = t /\ handler[t] = "copying" /\ path[t] = p
<1> USE DEF FileInv, FileTypes
<1>1. CASE CreateFile(t)
  BY <1>1 DEF CreateFile, HandlerTypes
<1>2. CASE CopyPiece(t) \/ CopyFails(t)
  <2>1. handler[t] = "copying"
    BY <1>2 DEF CopyPiece, CopyFails
  <2>2. path[t] \in Paths /\ dir[path[t]].owner = t
    BY <2>1 DEF Paved, HandlerTypes
  <2>3. p = path[t]
    BY <1>2 DEF CopyPiece, CopyFails, HandlerTypes
  <2>4. QED BY <2>1, <2>2, <2>3
<1>3. QED BY <1>1, <1>2

LEMMA ReportedAre ==
  ASSUME FileInv
  PROVE  \A result \in Items(resultC) \cup shown : result \in Outcomes
<1>1. Items(resultC) \subseteq Outcomes /\ shown \subseteq Outcomes
  BY ElementOfSeq, LenProperties DEF FileInv, FileTypes, ScreenTypes, Items
<1>2. QED BY <1>1

LEMMA ReportedStays ==
  ASSUME FileInv, NEW t \in Transfers, CreateFile(t) \/ CopyPiece(t) \/ CopyFails(t),
         UNCHANGED <<resultC, shown>>
  PROVE  Reported'
<1> SUFFICES ASSUME NEW result \in Items(resultC) \cup shown, result.path # NoPath
             PROVE  /\ Complete(result.path)' /\ dir'[result.path].owner = result.transfer
                    /\ handler'[result.transfer] \in {"done", "killed"}
  BY DEF Reported
<1>1. result.path \in Paths /\ result.transfer \in Transfers
  BY ReportedAre DEF Outcomes
<1>2. /\ Complete(result.path) /\ dir[result.path].owner = result.transfer
      /\ handler[result.transfer] \in {"done", "killed"}
  BY DEF FileInv, Reported
<1>3. dir'[result.path] = dir[result.path]
  BY <1>1, <1>2, OthersStay DEF Complete
<1>4. handler'[result.transfer] = handler[result.transfer]
  BY <1>1, <1>2 DEF CreateFile, CopyPiece, CopyFails, Fail, Goes, FileInv, FileTypes, HandlerTypes
<1>5. QED BY <1>2, <1>3, <1>4 DEF Complete

\* A handler that has not finished moves on: what was reported stays.
LEMMA ReportedMoves ==
  ASSUME FileInv, NEW t \in Transfers, handler[t] \notin {"done", "killed"},
         NEW where, handler' = [handler EXCEPT ![t] = where],
         UNCHANGED <<dir, resultC, shown>>
  PROVE  Reported'
<1> SUFFICES ASSUME NEW result \in Items(resultC) \cup shown, result.path # NoPath
             PROVE  /\ Complete(result.path)' /\ dir'[result.path].owner = result.transfer
                    /\ handler'[result.transfer] \in {"done", "killed"}
  BY DEF Reported
<1>1. /\ Complete(result.path) /\ dir[result.path].owner = result.transfer
      /\ handler[result.transfer] \in {"done", "killed"}
  BY DEF FileInv, Reported
<1>2. result.transfer \in Transfers
  BY ReportedAre DEF Outcomes
<1>3. handler'[result.transfer] = handler[result.transfer]
  BY <1>1, <1>2 DEF FileInv, FileTypes, HandlerTypes
<1>4. QED BY <1>1, <1>3 DEF Complete

\* A handler that has no file yet moves on: no file changes hands.
LEMMA OwnedStays ==
  ASSUME FileTypes, Owned, NEW t \in Transfers, handler[t] \in WithoutFile,
         NEW where, handler' = [handler EXCEPT ![t] = where],
         UNCHANGED <<dir, choice, got>>, \A u \in Transfers \ {t} : path'[u] = path[u]
  PROVE  Owned'
<1>1. \A u \in Transfers \ {t} : handler'[u] = handler[u] /\ path'[u] = path[u]
  BY DEF FileTypes, HandlerTypes
<1>2. \A p \in Paths : dir[p].exists => dir[p].owner # t
  BY Constants DEF Owned
<1>3. \A p \in Paths : dir[p].owner \in Transfers \cup {Local}
  BY DEF FileTypes, HandlerTypes
<1>4. ASSUME NEW p \in Paths, dir[p].exists, dir[p].owner # Local
      PROVE  LET u == dir[p].owner IN handler'[u] = handler[u] /\ path'[u] = path[u]
  BY <1>1, <1>2, <1>3, <1>4
<1>5. QED BY <1>4 DEF Owned

LEMMA InitFiles == Init => FileInv
<1> SUFFICES ASSUME Init PROVE FileInv
  OBVIOUS
<1> USE DEF Init
<1>1. Items(<<>>) = {} /\ Once(<<>>)
  BY DEF Items, Once
<1>2. TransferTypes /\ ScreenTypes
  BY DEF TransferTypes, ScreenTypes, Outcomes
<1>3. PICK there \in SUBSET Names :
        dir = [p \in Paths |-> IF p[1] \in there /\ p[2] = 0 THEN File(Local, 1) ELSE NoFile]
  OBVIOUS
<1>4. HandlerTypes
  BY <1>3 DEF HandlerTypes, Places, File, NoFile, NoPath
<1>5. OfferedOnce /\ SaidYes /\ Flow /\ Reported
  BY <1>1 DEF OfferedOnce, SaidYes, Flow, Reported, Answered, Unanswered
<1>6. Owned
  BY <1>3 DEF Owned, File, NoFile
<1>7. Paved
  BY DEF Paved
<1>8. QED BY <1>2, <1>4, <1>5, <1>6, <1>7 DEF FileInv, FileTypes

LEMMA OfferKeeps ==
  ASSUME FileInv, NEW t \in Transfers, Offer(t)
  PROVE  FileInv'
<1> USE DEF FileInv, FileTypes
<1>1. ScreenTypes' /\ Reported'
  <2>1. handler[t] = "none"
    BY DEF Offer, OfferedOnce
  <2>2. ScreenTypes'
    BY DEF Offer, screenVars, ScreenTypes
  <2>3. QED BY <2>1, <2>2, ReportedMoves DEF Offer, Goes, screenVars
<1>2. TransferTypes'
  BY Constants DEF Offer, Goes, wireVars, screenVars, TransferTypes
<1>3. HandlerTypes'
  BY Constants DEF Offer, Goes, wireVars, screenVars, HandlerTypes, Places
<1>4. OfferedOnce'
  BY Constants DEF Offer, Goes, wireVars, screenVars, OfferedOnce, TransferTypes, HandlerTypes, ScreenTypes
<1>5. SaidYes'
  <2>1. handler[t] = "none"
    BY DEF Offer, OfferedOnce
  <2>2. QED BY <2>1 DEF Offer, Goes, wireVars, screenVars, SaidYes, TransferTypes, HandlerTypes,
               Answered, Unanswered
<1>6. Flow'
  BY Constants DEF Offer, Goes, wireVars, screenVars, Flow, TransferTypes, HandlerTypes, Answered, Unanswered, WithoutFile, Places
<1>7. Owned'
  <2>1. handler[t] = "none"
    BY DEF Offer, OfferedOnce
  <2>2. handler' = [handler EXCEPT ![t] = "offering"] /\ UNCHANGED <<dir, choice, path, got>>
    BY DEF Offer, Goes, screenVars
  <2>3. QED BY <2>1, <2>2, OwnedStays DEF WithoutFile, Places
<1>8. Paved'
  BY Constants DEF Offer, Goes, wireVars, screenVars, Paved, HandlerTypes
<1>9. QED BY <1>1, <1>2, <1>3, <1>4, <1>5, <1>6, <1>7, <1>8

LEMMA ReadReplyKeeps ==
  ASSUME FileInv, NEW t \in Transfers, ReadReply(t)
  PROVE  FileInv'
<1> USE DEF FileInv, FileTypes
<1>1. HandlerTypes' /\ ScreenTypes' /\ Owned' /\ Paved' /\ Reported'
  BY DEF ReadReply, handlerVars, screenVars, HandlerTypes, ScreenTypes, Owned, Paved, Reported, Complete
<1>2. TransferTypes'
  BY Constants DEF ReadReply, Settle, SizesNow, handlerVars, screenVars, TransferTypes
<1>3. OfferedOnce'
  BY Constants DEF ReadReply, Settle, SizesNow, handlerVars, screenVars, OfferedOnce, TransferTypes, HandlerTypes, ScreenTypes
<1>4. SaidYes'
  BY Constants DEF ReadReply, Settle, SizesNow, handlerVars, screenVars, SaidYes, TransferTypes, HandlerTypes, ScreenTypes, Answered, Unanswered
<1>5. Flow'
  BY Constants DEF ReadReply, Settle, SizesNow, handlerVars, screenVars, Flow, TransferTypes, HandlerTypes, Answered, Unanswered, WithoutFile, Places
<1>6. QED BY <1>1, <1>2, <1>3, <1>4, <1>5

LEMMA NoReplyKeeps ==
  ASSUME FileInv, NEW t \in Transfers, NoReply(t)
  PROVE  FileInv'
<1> USE DEF FileInv, FileTypes
<1>1. HandlerTypes' /\ ScreenTypes' /\ Owned' /\ Paved' /\ Reported'
  BY DEF NoReply, handlerVars, screenVars, HandlerTypes, ScreenTypes, Owned, Paved, Reported, Complete
<1>2. TransferTypes'
  BY Constants DEF NoReply, HandlerOpen, Settle, handlerVars, screenVars, TransferTypes
<1>3. OfferedOnce'
  BY Constants DEF NoReply, HandlerOpen, Settle, handlerVars, screenVars, OfferedOnce, TransferTypes, HandlerTypes, ScreenTypes
<1>4. SaidYes'
  BY Constants DEF NoReply, HandlerOpen, Settle, handlerVars, screenVars, SaidYes, TransferTypes, HandlerTypes, ScreenTypes, Answered, Unanswered
<1>5. Flow'
  BY Constants DEF NoReply, HandlerOpen, Settle, handlerVars, screenVars, Flow, TransferTypes, HandlerTypes, Answered, Unanswered, WithoutFile, Places
<1>6. QED BY <1>1, <1>2, <1>3, <1>4, <1>5

LEMMA WritePieceKeeps ==
  ASSUME FileInv, NEW t \in Transfers, WritePiece(t)
  PROVE  FileInv'
<1> USE DEF FileInv, FileTypes
<1>1. HandlerTypes' /\ ScreenTypes' /\ OfferedOnce' /\ SaidYes' /\ Owned' /\ Paved' /\ Reported'
  BY DEF WritePiece, handlerVars, screenVars, HandlerTypes, ScreenTypes, OfferedOnce, SaidYes, Owned, Paved, Reported, Complete
<1>2. TransferTypes'
  BY Constants DEF WritePiece, HandlerOpen, handlerVars, screenVars, TransferTypes
<1>3. Flow'
  BY Constants DEF WritePiece, HandlerOpen, handlerVars, screenVars, Flow, TransferTypes, HandlerTypes, Answered, Unanswered, WithoutFile, Places
<1>4. QED BY <1>1, <1>2, <1>3

LEMMA WriteFailsKeeps ==
  ASSUME FileInv, NEW t \in Transfers, WriteFails(t)
  PROVE  FileInv'
<1> USE DEF FileInv, FileTypes
<1>1. HandlerTypes' /\ ScreenTypes' /\ Owned' /\ Paved' /\ Reported'
  BY DEF WriteFails, handlerVars, screenVars, HandlerTypes, ScreenTypes, Owned, Paved, Reported, Complete
<1>2. TransferTypes'
  BY Constants DEF WriteFails, HandlerOpen, Settle, handlerVars, screenVars, TransferTypes
<1>3. OfferedOnce'
  BY Constants DEF WriteFails, HandlerOpen, Settle, handlerVars, screenVars, OfferedOnce, TransferTypes, HandlerTypes, ScreenTypes
<1>4. SaidYes'
  BY Constants DEF WriteFails, HandlerOpen, Settle, handlerVars, screenVars, SaidYes, TransferTypes, HandlerTypes, ScreenTypes, Answered, Unanswered
<1>5. Flow'
  BY Constants DEF WriteFails, HandlerOpen, Settle, handlerVars, screenVars, Flow, TransferTypes, HandlerTypes, Answered, Unanswered, WithoutFile, Places
<1>6. QED BY <1>1, <1>2, <1>3, <1>4, <1>5

LEMMA StreamedKeeps ==
  ASSUME FileInv, NEW t \in Transfers, Streamed(t)
  PROVE  FileInv'
<1> USE DEF FileInv, FileTypes
<1>1. HandlerTypes' /\ ScreenTypes' /\ Owned' /\ Paved' /\ Reported'
  BY DEF Streamed, handlerVars, screenVars, HandlerTypes, ScreenTypes, Owned, Paved, Reported, Complete
<1>2. TransferTypes'
  BY Constants DEF Streamed, Settle, handlerVars, screenVars, TransferTypes
<1>3. OfferedOnce'
  BY Constants DEF Streamed, Settle, handlerVars, screenVars, OfferedOnce, TransferTypes, HandlerTypes, ScreenTypes
<1>4. SaidYes'
  BY Constants DEF Streamed, Settle, handlerVars, screenVars, SaidYes, TransferTypes, HandlerTypes, ScreenTypes, Answered, Unanswered
<1>5. Flow'
  BY Constants DEF Streamed, Settle, handlerVars, screenVars, Flow, TransferTypes, HandlerTypes, Answered, Unanswered, WithoutFile, Places
<1>6. QED BY <1>1, <1>2, <1>3, <1>4, <1>5

LEMMA SenderQuitsKeeps ==
  ASSUME FileInv, NEW t \in Transfers, SenderQuits(t)
  PROVE  FileInv'
<1> USE DEF FileInv, FileTypes
<1>1. HandlerTypes' /\ ScreenTypes' /\ Owned' /\ Paved' /\ Reported'
  BY DEF SenderQuits, handlerVars, screenVars, HandlerTypes, ScreenTypes, Owned, Paved, Reported, Complete
<1>2. TransferTypes'
  BY Constants DEF SenderQuits, SenderOpen, Settle, handlerVars, screenVars, TransferTypes
<1>3. OfferedOnce'
  BY Constants DEF SenderQuits, SenderOpen, Settle, handlerVars, screenVars, OfferedOnce, TransferTypes, HandlerTypes, ScreenTypes
<1>4. SaidYes'
  BY Constants DEF SenderQuits, SenderOpen, Settle, handlerVars, screenVars, SaidYes, TransferTypes, HandlerTypes, ScreenTypes, Answered, Unanswered
<1>5. Flow'
  BY Constants DEF SenderQuits, SenderOpen, Settle, handlerVars, screenVars, Flow, TransferTypes, HandlerTypes, Answered, Unanswered, WithoutFile, Places
<1>6. QED BY <1>1, <1>2, <1>3, <1>4, <1>5

LEMMA PushOfferKeeps ==
  ASSUME FileInv, NEW t \in Transfers, PushOffer(t)
  PROVE  FileInv'
<1> USE DEF FileInv, FileTypes
<1>1. TransferTypes' /\ Reported'
  <2>1. TransferTypes'
    BY DEF PushOffer, senderVars, wireVars, TransferTypes
  <2>2. QED BY <2>1, ReportedMoves DEF PushOffer, Goes, screenVars
<1>2. HandlerTypes'
  BY Constants, TailItems, AppendItems DEF PushOffer, Goes, senderVars, wireVars, screenVars, HandlerTypes, Places
<1>3. ScreenTypes'
  BY Constants, TailItems, AppendItems DEF PushOffer, Goes, senderVars, wireVars, screenVars, ScreenTypes, Outcomes
<1>4. OfferedOnce'
  BY Constants, TailItems, AppendItems DEF PushOffer, Goes, senderVars, wireVars, screenVars, OfferedOnce, TransferTypes, HandlerTypes, ScreenTypes
<1>5. SaidYes'
  BY Constants, TailItems, AppendItems DEF PushOffer, Goes, senderVars, wireVars, screenVars, SaidYes, TransferTypes, HandlerTypes, ScreenTypes, Answered, Unanswered
<1>6. Flow'
  BY Constants, TailItems, AppendItems DEF PushOffer, Goes, senderVars, wireVars, screenVars, Flow, TransferTypes, HandlerTypes, Answered, Unanswered, WithoutFile, Places
<1>7. Owned'
  <2>1. /\ handler[t] \in WithoutFile /\ \E where : handler' = [handler EXCEPT ![t] = where]
        /\ UNCHANGED <<dir, choice, got>> /\ \A u \in Transfers \ {t} : path'[u] = path[u]
    BY DEF PushOffer, Goes, screenVars, HandlerTypes, WithoutFile, Places
  <2>2. QED BY <2>1, OwnedStays
<1>8. Paved'
  BY Constants, TailItems, AppendItems DEF PushOffer, Goes, senderVars, wireVars, screenVars, Paved, HandlerTypes
<1>9. QED BY <1>1, <1>2, <1>3, <1>4, <1>5, <1>6, <1>7, <1>8

LEMMA TakeDecisionKeeps ==
  ASSUME FileInv, NEW t \in Transfers, TakeDecision(t)
  PROVE  FileInv'
<1> USE DEF FileInv, FileTypes
<1>1. Reported'
  BY ReportedMoves DEF TakeDecision, Goes, screenVars
<1>2. TransferTypes'
  BY Constants DEF TakeDecision, Goes, Reply, senderVars, screenVars, TransferTypes
<1>3. HandlerTypes'
  BY Constants DEF TakeDecision, Goes, Reply, senderVars, screenVars, HandlerTypes, Places
<1>4. ScreenTypes'
  BY Constants DEF TakeDecision, Goes, Reply, senderVars, screenVars, ScreenTypes, Outcomes
<1>5. OfferedOnce'
  BY Constants DEF TakeDecision, Goes, Reply, senderVars, screenVars, OfferedOnce, TransferTypes, HandlerTypes, ScreenTypes
<1>6. SaidYes'
  BY Constants DEF TakeDecision, Goes, Reply, senderVars, screenVars, SaidYes, TransferTypes, HandlerTypes, ScreenTypes, Answered, Unanswered
<1>7. Flow'
  BY Constants DEF TakeDecision, Goes, Reply, senderVars, screenVars, Flow, TransferTypes, HandlerTypes, Answered, Unanswered, WithoutFile, Places
<1>8. Owned'
  <2>1. /\ handler[t] \in WithoutFile /\ \E where : handler' = [handler EXCEPT ![t] = where]
        /\ UNCHANGED <<dir, choice, got>> /\ \A u \in Transfers \ {t} : path'[u] = path[u]
    BY DEF TakeDecision, Goes, screenVars, HandlerTypes, WithoutFile, Places
  <2>2. QED BY <2>1, OwnedStays
<1>9. Paved'
  BY Constants DEF TakeDecision, Goes, Reply, senderVars, screenVars, Paved, HandlerTypes
<1>10. QED BY <1>1, <1>2, <1>3, <1>4, <1>5, <1>6, <1>7, <1>8, <1>9

LEMMA HandlerTimeoutKeeps ==
  ASSUME FileInv, NEW t \in Transfers, HandlerTimeout(t)
  PROVE  FileInv'
<1> USE DEF FileInv, FileTypes
<1>1. ScreenTypes' /\ Reported'
  <2>1. ScreenTypes'
    BY DEF HandlerTimeout, screenVars, ScreenTypes
  <2>2. QED BY <2>1, ReportedMoves DEF HandlerTimeout, Goes, screenVars
<1>2. TransferTypes'
  BY Constants DEF HandlerTimeout, Goes, Reply, senderVars, screenVars, TransferTypes
<1>3. HandlerTypes'
  BY Constants DEF HandlerTimeout, Goes, Reply, senderVars, screenVars, HandlerTypes, Places
<1>4. OfferedOnce'
  BY Constants DEF HandlerTimeout, Goes, Reply, senderVars, screenVars, OfferedOnce, TransferTypes, HandlerTypes, ScreenTypes
<1>5. SaidYes'
  BY Constants DEF HandlerTimeout, Goes, Reply, senderVars, screenVars, SaidYes, TransferTypes, HandlerTypes, ScreenTypes, Answered, Unanswered
<1>6. Flow'
  BY Constants DEF HandlerTimeout, Goes, Reply, senderVars, screenVars, Flow, TransferTypes, HandlerTypes, Answered, Unanswered, WithoutFile, Places
<1>7. Owned'
  <2>1. /\ handler[t] \in WithoutFile /\ \E where : handler' = [handler EXCEPT ![t] = where]
        /\ UNCHANGED <<dir, choice, got>> /\ \A u \in Transfers \ {t} : path'[u] = path[u]
    BY DEF HandlerTimeout, Goes, screenVars, HandlerTypes, WithoutFile, Places
  <2>2. QED BY <2>1, OwnedStays
<1>8. Paved'
  BY Constants DEF HandlerTimeout, Goes, Reply, senderVars, screenVars, Paved, HandlerTypes
<1>9. QED BY <1>1, <1>2, <1>3, <1>4, <1>5, <1>6, <1>7, <1>8

LEMMA SayAcceptedKeeps ==
  ASSUME FileInv, NEW t \in Transfers, SayAccepted(t)
  PROVE  FileInv'
<1> USE DEF FileInv, FileTypes
<1>1. ScreenTypes' /\ Reported'
  <2>1. ScreenTypes'
    BY DEF SayAccepted, screenVars, ScreenTypes
  <2>2. QED BY <2>1, ReportedMoves DEF SayAccepted, Goes, screenVars
<1>2. TransferTypes'
  BY Constants DEF SayAccepted, Goes, Reply, SenderOpen, senderVars, screenVars, TransferTypes
<1>3. HandlerTypes'
  BY Constants DEF SayAccepted, Goes, Reply, SenderOpen, senderVars, screenVars, HandlerTypes, Places
<1>4. OfferedOnce'
  BY Constants DEF SayAccepted, Goes, Reply, SenderOpen, senderVars, screenVars, OfferedOnce, TransferTypes, HandlerTypes, ScreenTypes
<1>5. SaidYes'
  BY Constants DEF SayAccepted, Goes, Reply, SenderOpen, senderVars, screenVars, SaidYes, TransferTypes, HandlerTypes, ScreenTypes, Answered, Unanswered
<1>6. Flow'
  BY DEF SayAccepted, Goes, Reply, SenderOpen, senderVars, Flow, SaidYes, TransferTypes,
         HandlerTypes, Answered, Unanswered, WithoutFile, Places
<1>7. Owned'
  <2>1. /\ handler[t] \in WithoutFile /\ \E where : handler' = [handler EXCEPT ![t] = where]
        /\ UNCHANGED <<dir, choice, got>> /\ \A u \in Transfers \ {t} : path'[u] = path[u]
    BY DEF SayAccepted, Goes, screenVars, HandlerTypes, WithoutFile, Places
  <2>2. QED BY <2>1, OwnedStays
<1>8. Paved'
  BY Constants DEF SayAccepted, Goes, Reply, SenderOpen, senderVars, screenVars, Paved, HandlerTypes
<1>9. QED BY <1>1, <1>2, <1>3, <1>4, <1>5, <1>6, <1>7, <1>8

LEMMA ChoosePathKeeps ==
  ASSUME FileInv, NEW t \in Transfers, ChoosePath(t)
  PROVE  FileInv'
<1> USE DEF FileInv, FileTypes
<1>1. TransferTypes' /\ ScreenTypes' /\ Reported'
  <2>1. TransferTypes' /\ ScreenTypes'
    BY DEF ChoosePath, senderVars, wireVars, screenVars, TransferTypes, ScreenTypes
  <2>2. QED BY <2>1, ReportedMoves DEF ChoosePath, Goes, screenVars
<1>2. HandlerTypes'
  <2>1. PICK i \in 0..MaxCopies : path' = [path EXCEPT ![t] = <<NameOf[t], i>>]
    BY DEF ChoosePath
  <2>2. <<NameOf[t], i>> \in Paths
    BY DEF Paths, Names
  <2>3. QED BY <2>1, <2>2 DEF ChoosePath, Goes, HandlerTypes, Places
<1>3. OfferedOnce'
  BY Constants DEF ChoosePath, Goes, senderVars, wireVars, screenVars, OfferedOnce, TransferTypes, HandlerTypes, ScreenTypes
<1>4. SaidYes'
  BY Constants DEF ChoosePath, Goes, senderVars, wireVars, screenVars, SaidYes, TransferTypes, HandlerTypes, ScreenTypes, Answered, Unanswered
<1>5. Flow'
  BY Constants DEF ChoosePath, Goes, senderVars, wireVars, screenVars, Flow, TransferTypes, HandlerTypes, Answered, Unanswered, WithoutFile, Places
<1>6. Owned'
  <2>1. /\ handler[t] \in WithoutFile /\ \E where : handler' = [handler EXCEPT ![t] = where]
        /\ UNCHANGED <<dir, choice, got>> /\ \A u \in Transfers \ {t} : path'[u] = path[u]
    BY DEF ChoosePath, Goes, screenVars, HandlerTypes, WithoutFile, Places
  <2>2. QED BY <2>1, OwnedStays
<1>7. Paved'
  <2>1. PICK i \in 0..MaxCopies : path' = [path EXCEPT ![t] = <<NameOf[t], i>>]
    BY DEF ChoosePath
  <2>2. <<NameOf[t], i>> \in Paths
    BY DEF Paths, Names
  <2>3. handler' = [handler EXCEPT ![t] = "creating"] /\ UNCHANGED dir
    BY DEF ChoosePath, Goes
  <2>4. QED BY <2>1, <2>2, <2>3, Constants DEF Paved, HandlerTypes
<1>8. QED BY <1>1, <1>2, <1>3, <1>4, <1>5, <1>6, <1>7

LEMMA CreateFileKeeps ==
  ASSUME FileInv, NEW t \in Transfers, CreateFile(t)
  PROVE  FileInv'
<1> USE DEF FileInv, FileTypes
<1>1. TransferTypes' /\ ScreenTypes'
  BY DEF CreateFile, senderVars, wireVars, screenVars, TransferTypes, ScreenTypes
<1>2. HandlerTypes'
  <2>1. CASE UNCHANGED dir
    BY <2>1 DEF CreateFile, Fail, Goes, HandlerTypes, Places
  <2>2. CASE dir' = [dir EXCEPT ![path[t]] = File(t, 0)]
    <3>1. File(t, 0) \in [owner : Transfers \cup {Local}, pieces : Nat, exists : BOOLEAN]
      BY DEF File
    <3>2. dir' \in [Paths -> [owner : Transfers \cup {Local}, pieces : Nat, exists : BOOLEAN]]
      BY <2>2, <3>1 DEF HandlerTypes
    <3>3. QED BY <3>2 DEF CreateFile, Fail, Goes, HandlerTypes, Places
  <2>3. QED BY <2>1, <2>2 DEF CreateFile
<1>3. OfferedOnce'
  BY Constants DEF CreateFile, Fail, File, Goes, senderVars, wireVars, screenVars, OfferedOnce, TransferTypes, HandlerTypes, ScreenTypes
<1>4. SaidYes'
  BY Constants DEF CreateFile, Fail, File, Goes, senderVars, wireVars, screenVars, SaidYes, TransferTypes, HandlerTypes, ScreenTypes, Answered, Unanswered
<1>5. Flow'
  BY Constants DEF CreateFile, Fail, File, Goes, senderVars, wireVars, screenVars, Flow, TransferTypes, HandlerTypes, Answered, Unanswered, WithoutFile, Places
<1>6. Owned'
  <2>1. path[t] \in Paths /\ handler[t] = "creating" /\ got[t] = 0 /\ choice[t] = "yes"
    BY Constants DEF CreateFile, Paved, HandlerTypes, Flow, SaidYes, WithoutFile, Places
  <2>2. \A p \in Paths : dir[p].exists => dir[p].owner # t
    BY <2>1, Constants DEF Owned, WithoutFile, Places
  <2>3. UNCHANGED <<choice, got>> /\ dir \in [Paths -> [owner : Transfers \cup {Local},
                                                    pieces : Nat, exists : BOOLEAN]]
    BY DEF CreateFile, screenVars, HandlerTypes
  <2>4. CASE dir' = [dir EXCEPT ![path[t]] = File(t, 0)] /\ Goes(t, "copying") /\ UNCHANGED path
    <3>1. dir'[path[t]] = File(t, 0) /\ \A p \in Paths \ {path[t]} : dir'[p] = dir[p]
      BY <2>1, <2>3, <2>4
    <3>2. handler'[t] = "copying" /\ \A u \in Transfers \ {t} : handler'[u] = handler[u]
      BY <2>4 DEF Goes, HandlerTypes
    <3>3. QED BY <3>1, <3>2, <2>1, <2>2, <2>3, <2>4, Constants DEF Owned, File, WithoutFile
  <2>5. CASE Fail(t) /\ UNCHANGED dir
    <3>1. /\ \A u \in Transfers \ {t} : handler'[u] = handler[u] /\ path'[u] = path[u]
      BY <2>5 DEF Fail, Goes, HandlerTypes
    <3>2. QED BY <3>1, <2>2, <2>3, <2>5 DEF Owned
  <2>6. QED BY <2>4, <2>5 DEF CreateFile
<1>7. Paved'
  BY Constants DEF CreateFile, Fail, File, Goes, senderVars, wireVars, screenVars, Paved, HandlerTypes
<1>8. Reported'
  BY ReportedStays DEF CreateFile, screenVars
<1>9. QED BY <1>1, <1>2, <1>3, <1>4, <1>5, <1>6, <1>7, <1>8

LEMMA CopyPieceKeeps ==
  ASSUME FileInv, NEW t \in Transfers, CopyPiece(t)
  PROVE  FileInv'
<1> USE DEF FileInv, FileTypes
<1>1. ScreenTypes' /\ OfferedOnce' /\ SaidYes'
  BY DEF CopyPiece, senderVars, screenVars, ScreenTypes, OfferedOnce, SaidYes
<1>2. TransferTypes'
  BY Constants DEF CopyPiece, senderVars, screenVars, TransferTypes
<1>3. HandlerTypes'
  <2>1. path[t] \in Paths
    BY Constants DEF CopyPiece, Paved, HandlerTypes
  <2>2. dir' \in [Paths -> [owner : Transfers \cup {Local}, pieces : Nat, exists : BOOLEAN]]
    BY <2>1 DEF CopyPiece, HandlerTypes
  <2>3. got' \in [Transfers -> Nat]
    BY DEF CopyPiece, HandlerTypes
  <2>4. QED BY <2>2, <2>3 DEF CopyPiece, HandlerTypes
<1>4. Flow'
  <2>1. /\ data'[t] = data[t] - 1 /\ got'[t] = got[t] + 1 /\ data[t] > 0
        /\ data[t] \in Nat /\ got[t] \in Nat /\ unsent[t] \in Nat
        /\ handler[t] = "copying" /\ UNCHANGED <<sender, size, unsent, handler>>
        /\ \A u \in Transfers \ {t} : data'[u] = data[u] /\ got'[u] = got[u]
    BY DEF CopyPiece, senderVars, TransferTypes, HandlerTypes
  <2>2. sender[t] \notin {"idle", "waiting"} /\ handler[t] \notin WithoutFile
    BY <2>1 DEF Flow, WithoutFile
  <2>3. ASSUME NEW u \in Transfers
        PROVE  /\ sender[u] \in {"idle", "waiting"} => data'[u] = 0
               /\ sender[u] \in {"idle", "waiting"} \/ handler[u] \in WithoutFile => got'[u] = 0
               /\ sender[u] = "delivered" => unsent[u] = 0
               /\ sender[u] \in Answered /\ handler[u] \in {"choosing", "creating", "copying"}
                    => got'[u] + data'[u] + unsent[u] = size[u]
    <3>1. CASE u = t
      <4>1. sender[t] \in Answered => got[t] + data[t] + unsent[t] = size[t]
        BY <2>1 DEF Flow
      <4>2. got'[t] + data'[t] + unsent[t] = got[t] + data[t] + unsent[t]
        BY <2>1
      <4>3. QED BY <3>1, <4>1, <4>2, <2>2 DEF Flow
    <3>2. CASE u # t
      BY <3>2, <2>1 DEF Flow
    <3>3. QED BY <3>1, <3>2
  <2>4. QED BY <2>1, <2>3 DEF Flow
<1>5. Owned'
  <2>1. path[t] \in Paths /\ handler[t] = "copying" /\ dir[path[t]].exists /\ dir[path[t]].owner = t
    BY Constants DEF CopyPiece, Paved, HandlerTypes
  <2>2. dir[path[t]].pieces = got[t]
    BY <2>1, Constants DEF Owned
  <2>3. /\ dir' = [dir EXCEPT ![path[t]].pieces = @ + 1] /\ got' = [got EXCEPT ![t] = @ + 1]
        /\ UNCHANGED <<choice, handler, path>>
    BY DEF CopyPiece, screenVars
  <2>4. /\ dir'[path[t]].exists /\ dir'[path[t]].owner = t
        /\ dir'[path[t]].pieces = dir[path[t]].pieces + 1
        /\ \A p \in Paths \ {path[t]} : dir'[p] = dir[p]
    BY <2>1, <2>3 DEF HandlerTypes
  <2>5. got'[t] = got[t] + 1 /\ \A u \in Transfers \ {t} : got'[u] = got[u]
    BY <2>3 DEF HandlerTypes
  <2>6. \A p \in Paths \ {path[t]} : dir[p].exists => dir[p].owner # t
    BY <2>1, Constants DEF Owned
  <2>7. ASSUME NEW p \in Paths, dir'[p].exists
        PROVE  LET u == dir'[p].owner IN
               /\ u = Local => dir'[p].pieces = 1
               /\ u # Local =>
                    /\ choice[u] = "yes" /\ handler[u] \notin WithoutFile
                    /\ handler[u] \in {"copying", "reporting"} => path[u] = p
                    /\ handler[u] = "copying" => dir'[p].pieces = got'[u]
                    /\ handler[u] \in {"reporting", "done"} => dir'[p].pieces = SizeOf[u]
    <3>1. CASE p = path[t]
      BY <3>1, <2>1, <2>2, <2>4, <2>5, Constants DEF Owned
    <3>2. CASE p # path[t]
      <4>1. dir'[p] = dir[p] /\ dir[p].owner # t
        BY <3>2, <2>4, <2>6, <2>7
      <4>2. dir[p].owner # Local => got'[dir[p].owner] = got[dir[p].owner]
        BY <4>1, <2>5 DEF HandlerTypes
      <4>3. QED BY <4>1, <4>2, <2>7 DEF Owned
    <3>3. QED BY <3>1, <3>2
  <2>8. QED BY <2>3, <2>7 DEF Owned
<1>6. Paved'
  BY Constants DEF CopyPiece, senderVars, screenVars, Paved, HandlerTypes
<1>7. Reported'
  BY ReportedStays DEF CopyPiece, screenVars
<1>8. QED BY <1>1, <1>2, <1>3, <1>4, <1>5, <1>6, <1>7

LEMMA CopyFailsKeeps ==
  ASSUME FileInv, NEW t \in Transfers, CopyFails(t)
  PROVE  FileInv'
<1> USE DEF FileInv, FileTypes
<1>1. TransferTypes' /\ ScreenTypes'
  BY DEF CopyFails, senderVars, wireVars, screenVars, TransferTypes, ScreenTypes
<1>2. HandlerTypes'
  BY Constants DEF CopyFails, Fail, NoFile, SenderOpen, Goes, senderVars, wireVars, screenVars, HandlerTypes, Places
<1>3. OfferedOnce'
  BY Constants DEF CopyFails, Fail, NoFile, SenderOpen, Goes, senderVars, wireVars, screenVars, OfferedOnce, TransferTypes, HandlerTypes, ScreenTypes
<1>4. SaidYes'
  BY Constants DEF CopyFails, Fail, NoFile, SenderOpen, Goes, senderVars, wireVars, screenVars, SaidYes, TransferTypes, HandlerTypes, ScreenTypes, Answered, Unanswered
<1>5. Flow'
  BY Constants DEF CopyFails, Fail, NoFile, SenderOpen, Goes, senderVars, wireVars, screenVars, Flow, TransferTypes, HandlerTypes, Answered, Unanswered, WithoutFile, Places
<1>6. Owned'
  BY Constants DEF CopyFails, Fail, NoFile, SenderOpen, Goes, senderVars, wireVars, screenVars, Owned, HandlerTypes, ScreenTypes, WithoutFile, Places
<1>7. Paved'
  BY Constants DEF CopyFails, Fail, NoFile, SenderOpen, Goes, senderVars, wireVars, screenVars, Paved, HandlerTypes
<1>8. Reported'
  BY ReportedStays DEF CopyFails, screenVars
<1>9. QED BY <1>1, <1>2, <1>3, <1>4, <1>5, <1>6, <1>7, <1>8

LEMMA CopyDoneKeeps ==
  ASSUME FileInv, NEW t \in Transfers, CopyDone(t)
  PROVE  FileInv'
<1> USE DEF FileInv, FileTypes
<1>1. TransferTypes' /\ ScreenTypes' /\ Reported'
  <2>1. TransferTypes' /\ ScreenTypes'
    BY DEF CopyDone, senderVars, wireVars, screenVars, TransferTypes, ScreenTypes
  <2>2. QED BY <2>1, ReportedMoves DEF CopyDone, Goes, screenVars
<1>2. HandlerTypes'
  BY Constants DEF CopyDone, Goes, senderVars, wireVars, screenVars, HandlerTypes, Places
<1>3. OfferedOnce'
  BY Constants DEF CopyDone, Goes, senderVars, wireVars, screenVars, OfferedOnce, TransferTypes, HandlerTypes, ScreenTypes
<1>4. SaidYes'
  BY Constants DEF CopyDone, Goes, senderVars, wireVars, screenVars, SaidYes, TransferTypes, HandlerTypes, ScreenTypes, Answered, Unanswered
<1>5. Flow'
  BY Constants DEF CopyDone, Goes, senderVars, wireVars, screenVars, Flow, TransferTypes, HandlerTypes, Answered, Unanswered, WithoutFile, Places
<1>6. Owned'
  BY Constants DEF CopyDone, Goes, senderVars, wireVars, screenVars, Owned, HandlerTypes, ScreenTypes, WithoutFile, Places
<1>7. Paved'
  BY Constants DEF CopyDone, Goes, senderVars, wireVars, screenVars, Paved, HandlerTypes
<1>8. QED BY <1>1, <1>2, <1>3, <1>4, <1>5, <1>6, <1>7

LEMMA ReportKeeps ==
  ASSUME FileInv, NEW t \in Transfers, Report(t)
  PROVE  FileInv'
<1> USE DEF FileInv, FileTypes
<1>1. TransferTypes'
  BY Constants, TailItems, AppendItems DEF Report, Goes, Outcome, senderVars, screenVars, TransferTypes, HandlerTypes, ScreenTypes
<1>2. HandlerTypes'
  BY Constants, TailItems, AppendItems DEF Report, Goes, Outcome, senderVars, screenVars, HandlerTypes, ScreenTypes, Places
<1>3. ScreenTypes'
  BY Constants, TailItems, AppendItems DEF Report, Goes, Outcome, senderVars, screenVars, ScreenTypes, HandlerTypes, Outcomes
<1>4. OfferedOnce'
  BY Constants, TailItems, AppendItems DEF Report, Goes, Outcome, senderVars, screenVars, OfferedOnce, TransferTypes, HandlerTypes, ScreenTypes
<1>5. SaidYes'
  BY Constants, TailItems, AppendItems DEF Report, Goes, Outcome, senderVars, screenVars, SaidYes, TransferTypes, HandlerTypes, ScreenTypes, Answered, Unanswered
<1>6. Flow'
  BY Constants, TailItems, AppendItems DEF Report, Goes, Outcome, senderVars, screenVars, Flow, TransferTypes, HandlerTypes, Answered, Unanswered, WithoutFile, Places
<1>7. Owned'
  BY Constants, TailItems, AppendItems DEF Report, Goes, Outcome, senderVars, screenVars, Owned, HandlerTypes, ScreenTypes, WithoutFile, Places
<1>8. Paved'
  BY Constants, TailItems, AppendItems DEF Report, Goes, Outcome, senderVars, screenVars, Paved, HandlerTypes
<1>9. Reported'
  <2>1. Outcome(t, path[t]) \in Outcomes /\ resultC' = Append(resultC, Outcome(t, path[t]))
    BY DEF Report, Outcome, Outcomes, HandlerTypes
  <2>2. Items(resultC') = Items(resultC) \cup {Outcome(t, path[t])}
    BY <2>1, AppendItems DEF ScreenTypes
  <2>3. path[t] # NoPath => Complete(path[t]) /\ dir[path[t]].owner = t
    <3>1. handler[t] = "reporting"
      BY DEF Report
    <3>2. ASSUME path[t] # NoPath
          PROVE  path[t] \in Paths /\ dir[path[t]].exists /\ dir[path[t]].owner = t
      BY <3>1, <3>2 DEF Paved, HandlerTypes
    <3>3. QED BY <3>1, <3>2, Constants DEF Owned, Complete
  <2>4. UNCHANGED <<shown, dir>> /\ handler[t] = "reporting"
        /\ handler' = [handler EXCEPT ![t] = "done"]
    BY DEF Report, screenVars, Goes
  <2>5. handler'[t] = "done" /\ \A u \in Transfers \ {t} : handler'[u] = handler[u]
    BY <2>4 DEF HandlerTypes
  <2>6. ASSUME NEW result \in Items(resultC) \cup shown, result.path # NoPath
        PROVE  handler'[result.transfer] \in {"done", "killed"}
    BY <2>4, <2>5, <2>6, ReportedAre DEF Reported, Outcomes
  <2>7. QED BY <2>2, <2>3, <2>4, <2>5, <2>6 DEF Reported, Complete, Outcome
<1>10. QED BY <1>1, <1>2, <1>3, <1>4, <1>5, <1>6, <1>7, <1>8, <1>9

LEMMA ShowOfferKeeps ==
  ASSUME FileInv, ShowOffer
  PROVE  FileInv'
<1> USE DEF FileInv, FileTypes
<1>1. TransferTypes' /\ HandlerTypes' /\ SaidYes' /\ Flow' /\ Owned' /\ Paved' /\ Reported'
  BY DEF ShowOffer, senderVars, wireVars, handlerVars, TransferTypes, HandlerTypes, SaidYes, Flow, Owned, Paved, Reported, Complete
<1>2. ScreenTypes'
  BY Constants, TailItems, AppendItems DEF ShowOffer, senderVars, wireVars, handlerVars, ScreenTypes, Outcomes
<1>3. OfferedOnce'
  <2>1. /\ Head(offerC) \in Items(offerC) /\ Head(offerC) \in Transfers
        /\ Items(offerC') \subseteq Items(offerC)
        /\ Once(offerC') /\ Head(offerC) \notin Items(offerC')
    BY TailItems DEF ShowOffer, OfferedOnce, ScreenTypes
  <2>2. Items(queue') = Items(queue) \cup {Head(offerC)}
    BY <2>1, AppendItems DEF ShowOffer, ScreenTypes
  <2>3. Once(queue')
    BY <2>1, AppendItems DEF ShowOffer, ScreenTypes, OfferedOnce
  <2>4. UNCHANGED <<sender, handler, choice>>
    BY DEF ShowOffer, senderVars, handlerVars
  <2>5. QED BY <2>1, <2>2, <2>3, <2>4 DEF OfferedOnce
<1>4. QED BY <1>1, <1>2, <1>3

LEMMA ShowResultKeeps ==
  ASSUME FileInv, ShowResult
  PROVE  FileInv'
<1> USE DEF FileInv, FileTypes
<1>1. TransferTypes' /\ HandlerTypes' /\ OfferedOnce' /\ SaidYes' /\ Flow' /\ Owned' /\ Paved'
  BY DEF ShowResult, senderVars, wireVars, handlerVars, TransferTypes, HandlerTypes, OfferedOnce, SaidYes, Flow, Owned, Paved
<1>2. ScreenTypes'
  <2>1. Head(resultC) \in Outcomes /\ Tail(resultC) \in Seq(Outcomes)
    BY TailItems DEF ShowResult, ScreenTypes
  <2>2. QED BY <2>1 DEF ShowResult, ScreenTypes
<1>3. Reported'
  BY Constants, TailItems, AppendItems DEF ShowResult, senderVars, wireVars, handlerVars, Reported, HandlerTypes, ScreenTypes, Complete, Outcomes
<1>4. QED BY <1>1, <1>2, <1>3

LEMMA AnswerOfferKeeps ==
  ASSUME FileInv, NEW answer \in {"yes", "no"}, AnswerOffer(answer)
  PROVE  FileInv'
<1> USE DEF FileInv, FileTypes
<1>1. TransferTypes' /\ HandlerTypes' /\ Flow' /\ Paved' /\ Reported'
  BY DEF AnswerOffer, senderVars, wireVars, handlerVars, TransferTypes, HandlerTypes, Flow, Paved, Reported, Complete
<1>2. ScreenTypes'
  BY Constants, TailItems, AppendItems DEF AnswerOffer, Respond, senderVars, wireVars, handlerVars, ScreenTypes, Outcomes
<1>3. OfferedOnce'
  <2>1. /\ Head(queue) \in Items(queue) /\ Head(queue) \in Transfers
        /\ Items(queue') \subseteq Items(queue)
        /\ Once(queue') /\ Head(queue) \notin Items(queue')
    BY TailItems DEF AnswerOffer, OfferedOnce, ScreenTypes
  <2>2. choice[Head(queue)] = "none" /\ handler[Head(queue)] \notin {"none", "offering"}
    BY <2>1 DEF OfferedOnce
  <2>3. /\ choice' = [choice EXCEPT ![Head(queue)] = answer]
        /\ decision' = [decision EXCEPT ![Head(queue)] = IF @ = "none" THEN answer ELSE @]
        /\ UNCHANGED <<sender, handler, offerC, reply, dir, path, got>>
    BY DEF AnswerOffer, Respond, senderVars, wireVars, handlerVars
  <2>4. QED BY <2>1, <2>2, <2>3 DEF OfferedOnce, ScreenTypes
<1>4. SaidYes'
  <2>1. /\ Head(queue) \in Items(queue) /\ Head(queue) \in Transfers
        /\ Items(queue') \subseteq Items(queue)
        /\ Once(queue') /\ Head(queue) \notin Items(queue')
    BY TailItems DEF AnswerOffer, OfferedOnce, ScreenTypes
  <2>2. choice[Head(queue)] = "none" /\ handler[Head(queue)] \notin {"none", "offering"}
    BY <2>1 DEF OfferedOnce
  <2>3. /\ choice' = [choice EXCEPT ![Head(queue)] = answer]
        /\ decision' = [decision EXCEPT ![Head(queue)] = IF @ = "none" THEN answer ELSE @]
        /\ UNCHANGED <<sender, handler, offerC, reply, dir, path, got>>
    BY DEF AnswerOffer, Respond, senderVars, wireVars, handlerVars
  <2>4. QED BY <2>1, <2>2, <2>3 DEF SaidYes, ScreenTypes
<1>5. Owned'
  <2>1. /\ Head(queue) \in Items(queue) /\ Head(queue) \in Transfers
        /\ Items(queue') \subseteq Items(queue)
        /\ Once(queue') /\ Head(queue) \notin Items(queue')
    BY TailItems DEF AnswerOffer, OfferedOnce, ScreenTypes
  <2>2. choice[Head(queue)] = "none" /\ handler[Head(queue)] \notin {"none", "offering"}
    BY <2>1 DEF OfferedOnce
  <2>3. /\ choice' = [choice EXCEPT ![Head(queue)] = answer]
        /\ decision' = [decision EXCEPT ![Head(queue)] = IF @ = "none" THEN answer ELSE @]
        /\ UNCHANGED <<sender, handler, offerC, reply, dir, path, got>>
    BY DEF AnswerOffer, Respond, senderVars, wireVars, handlerVars
  <2>4. \A u \in Transfers : choice[u] = "yes" => choice'[u] = "yes"
    BY <2>1, <2>2, <2>3 DEF ScreenTypes
  <2>5. QED BY <2>3, <2>4 DEF Owned, HandlerTypes
<1>6. QED BY <1>1, <1>2, <1>3, <1>4, <1>5

LEMMA RestartKeeps ==
  ASSUME FileInv, Restart
  PROVE  FileInv'
<1> USE DEF FileInv, FileTypes
<1>1. TransferTypes'
  BY Constants, TailItems, AppendItems DEF Restart, senderVars, TransferTypes
<1>2. HandlerTypes'
  BY Constants, TailItems, AppendItems DEF Restart, senderVars, HandlerTypes, Places
<1>3. ScreenTypes'
  BY Constants, TailItems, AppendItems DEF Restart, senderVars, ScreenTypes, Outcomes
<1>4. OfferedOnce'
  <2>1. Items(<<>>) = {} /\ Once(<<>>)
    BY DEF Items, Once
  <2>2. \A t \in Transfers : handler'[t] \in {"none", "killed"} /\ (handler'[t] = "none" <=> handler[t] = "none")
    BY DEF Restart
  <2>3. QED BY <2>1, <2>2 DEF Restart, senderVars, OfferedOnce
<1>5. SaidYes'
  BY Constants, TailItems, AppendItems DEF Restart, senderVars, SaidYes, TransferTypes, HandlerTypes, ScreenTypes, Answered, Unanswered
<1>6. Flow'
  BY Constants, TailItems, AppendItems DEF Restart, senderVars, Flow, TransferTypes, HandlerTypes, Answered, Unanswered, WithoutFile, Places
<1>7. Owned'
  BY Constants, TailItems, AppendItems DEF Restart, senderVars, Owned, HandlerTypes, ScreenTypes, WithoutFile, Places
<1>8. Paved'
  BY Constants, TailItems, AppendItems DEF Restart, senderVars, Paved, HandlerTypes
<1>9. Reported'
  <2>1. Items(resultC') = {} /\ UNCHANGED <<shown, dir>>
    BY DEF Restart, Items
  <2>2. ASSUME NEW result \in shown, result.path # NoPath
        PROVE  handler'[result.transfer] = "killed"
    <3>1. result.transfer \in Transfers /\ handler[result.transfer] # "none"
      BY <2>2, ReportedAre DEF Reported, Outcomes
    <3>2. QED BY <3>1 DEF Restart
  <2>3. QED BY <2>1, <2>2 DEF Reported, Complete
<1>10. QED BY <1>1, <1>2, <1>3, <1>4, <1>5, <1>6, <1>7, <1>8, <1>9

LEMMA FileStep == FileInv /\ [Next]_vars => FileInv'
<1>1. FileInv /\ UNCHANGED vars => FileInv'
  BY DEF FileInv, FileTypes, TransferTypes, HandlerTypes, ScreenTypes, OfferedOnce, SaidYes,
         Flow, Owned, Paved, Reported, Complete, vars, senderVars, wireVars, handlerVars,
         screenVars
<1>2. FileInv /\ Next => FileInv'
  BY OfferKeeps, ReadReplyKeeps, NoReplyKeeps, WritePieceKeeps, WriteFailsKeeps, StreamedKeeps,
     SenderQuitsKeeps, PushOfferKeeps, TakeDecisionKeeps, HandlerTimeoutKeeps, SayAcceptedKeeps,
     ChoosePathKeeps, CreateFileKeeps, CopyPieceKeeps, CopyFailsKeeps, CopyDoneKeeps,
     ReportKeeps, ShowOfferKeeps, ShowResultKeeps, AnswerOfferKeeps, RestartKeeps
  DEF Next, SendFile, HandleFileOffer
<1>3. QED BY <1>1, <1>2

LEMMA FileInvariance == Spec => []FileInv
<1>1. QED BY InitFiles, FileStep, PTL DEF Spec

\* A file reported as received is the one that was offered, whole, and what else
\* the directory holds is whole, being received or left by a program that ended
\* (file.go: receiveFile).
THEOREM FilesAreWhole == Spec => []SavedWhole
<1>1. FileInv => SavedWhole
  <2> SUFFICES ASSUME FileInv PROVE SavedWhole
    OBVIOUS
  <2>1. \A result \in shown \cup {resultC[i] : i \in DOMAIN resultC} :
          result.path # NoPath => Complete(result.path) /\ dir[result.path].owner = result.transfer
    BY DEF FileInv, Reported, Items
  <2>2. ASSUME NEW p \in Paths, dir[p].exists, ~Complete(p)
        PROVE  handler[dir[p].owner] \in {"copying", "killed"}
    <3>1. dir[p].owner # Local
      BY <2>2 DEF FileInv, Owned, Complete
    <3>2. dir[p].owner \in Transfers
      BY <3>1 DEF FileInv, FileTypes, HandlerTypes
    <3>3. handler[dir[p].owner] \in Places \ WithoutFile
      BY <2>2, <3>1, <3>2 DEF FileInv, FileTypes, HandlerTypes, Owned
    <3>4. handler[dir[p].owner] \notin {"reporting", "done"}
      BY <2>2, <3>1 DEF FileInv, Owned, Complete
    <3>5. QED BY <3>3, <3>4 DEF WithoutFile, Places
  <2>3. QED BY <2>1, <2>2 DEF SavedWhole
<1>2. QED BY <1>1, FileInvariance, PTL

\* No piece leaves the sender, and no file appears, without the yes of the user
\* to that very offer; what the sender counts as delivered has arrived.
THEOREM NothingWithoutConsent == Spec => []Consent
<1>1. FileInv => Consent
  <2> SUFFICES ASSUME FileInv, NEW t \in Transfers
               PROVE  /\ (\E p \in Paths : dir[p].exists /\ dir[p].owner = t) => choice[t] = "yes"
                      /\ sender[t] \in {"streaming", "delivered"} => choice[t] = "yes"
                      /\ sender[t] = "delivered" /\ handler[t] \in {"creating", "copying"}
                           => got[t] + data[t] = size[t]
    BY DEF Consent
  <2>1. (\E p \in Paths : dir[p].exists /\ dir[p].owner = t) => choice[t] = "yes"
    BY Constants DEF FileInv, Owned
  <2>2. sender[t] \in {"streaming", "delivered"} => choice[t] = "yes"
    BY DEF FileInv, SaidYes, Answered
  <2>3. sender[t] = "delivered" /\ handler[t] \in {"creating", "copying"}
          => got[t] + data[t] = size[t]
    BY DEF FileInv, FileTypes, TransferTypes, HandlerTypes, Flow, Answered
  <2>4. QED BY <2>1, <2>2, <2>3
<1>2. QED BY <1>1, FileInvariance, PTL

\* What exists in the directory is changed or removed by the handler that is still
\* receiving it and by no other (file.go: uniquePath, receiveFile).
THEOREM NothingIsOverwritten == Spec => NothingOverwritten
<1>1. FileInv /\ [Next]_vars =>
        [\A p \in Paths : dir[p].exists /\ dir'[p] # dir[p] =>
           \E t \in Transfers : dir[p].owner = t /\ handler[t] = "copying" /\ path[t] = p]_dir
  <2> SUFFICES ASSUME FileInv, [Next]_vars, NEW p \in Paths, dir[p].exists, dir'[p] # dir[p]
               PROVE  \E t \in Transfers :
                        dir[p].owner = t /\ handler[t] = "copying" /\ path[t] = p
    OBVIOUS
  <2>1. dir' # dir
    OBVIOUS
  <2>2. \E t \in Transfers : CreateFile(t) \/ CopyPiece(t) \/ CopyFails(t)
    BY <2>1 DEF Next, SendFile, HandleFileOffer, vars, senderVars, wireVars, handlerVars, screenVars,
       Offer, ReadReply, NoReply, WritePiece, WriteFails, Streamed, SenderQuits, PushOffer,
       TakeDecision, HandlerTimeout, SayAccepted, ChoosePath, CopyDone, Report, ShowOffer,
       ShowResult, AnswerOffer, Restart
  <2>3. QED BY <2>2, OthersStay
<1>2. QED BY <1>1, FileInvariance, PTL DEF Spec, NothingOverwritten

-------------------------------------------------------------------------------
(* Discovery, whose specification is LanSpec. *)

Sighting == [id : Instances, ago : 0..(TTL + 1)]

ListTypes ==
  /\ quiet \in [Instances -> 0..(TTL + 1)] /\ openFor \in 0..(TTL + 1)
  /\ socket \in Seq(Instances) /\ peerC \in Seq(Sighting)
  /\ held # Nothing => held \in Sighting
  /\ byID \in [Instances -> {Never} \cup 0..(TTL + 1)]

\* What was read later is dated later.
InOrder ==
  /\ \A j, k \in DOMAIN peerC : j < k => peerC[k].ago <= peerC[j].ago
  /\ \A k \in DOMAIN peerC : byID[peerC[k].id] # Never => peerC[k].ago <= byID[peerC[k].id]
  /\ held # Nothing => /\ \A k \in DOMAIN peerC : held.ago <= peerC[k].ago
                       /\ byID[held.id] # Never => held.ago <= byID[held.id]

\* Of an instance that was heard of there is a heartbeat to read, or a sighting
\* no older than that.
Known(i) ==
  \/ \E k \in DOMAIN socket : socket[k] = i
  \/ held # Nothing /\ held.id = i /\ held.ago <= quiet[i]
  \/ \E k \in DOMAIN peerC : peerC[k].id = i /\ peerC[k].ago <= quiet[i]
  \/ byID[i] # Never /\ byID[i] <= quiet[i]

Heard == \A i \in Instances : quiet[i] <= TTL => Known(i)

\* A sighting is dated no later than the heartbeat, except for heartbeats that
\* lay unread until the chat screen opened.
Dated(i, ago) == quiet[i] <= ago \/ openFor <= ago

WellDated ==
  /\ \A k \in DOMAIN socket : Dated(socket[k], 0)
  /\ held # Nothing => Dated(held.id, held.ago)
  /\ \A k \in DOMAIN peerC : Dated(peerC[k].id, peerC[k].ago)
  /\ \A i \in Instances : byID[i] # Never => Dated(i, byID[i])

\* Once time has passed on the chat screen sightings are new, and prunings done.
UpToDate ==
  openFor > 0 =>
    /\ held # Nothing => held.ago = 0
    /\ \A k \in DOMAIN peerC : peerC[k].ago = 0
    /\ ~pruneDue => \A i \in Instances : byID[i] <= TTL

ListInv == ListTypes /\ InOrder /\ Heard /\ WellDated /\ UpToDate

LEMMA SightingIs ==
  /\ Nothing \notin Sighting
  /\ \A s \in Sighting : s.id \in Instances /\ s.ago \in 0..(TTL + 1)
  BY DEF Sighting, Nothing

LEMMA TailOf ==
  ASSUME NEW S, NEW s \in Seq(S), s # <<>>
  PROVE  /\ Tail(s) \in Seq(S) /\ Head(s) \in S /\ Head(s) = s[1] /\ 1 \in DOMAIN s
         /\ \A k \in DOMAIN Tail(s) : k + 1 \in DOMAIN s /\ k + 1 > 1 /\ Tail(s)[k] = s[k + 1]
         /\ \A k \in DOMAIN s : k = 1 \/ (k - 1 \in DOMAIN Tail(s) /\ s[k] = Tail(s)[k - 1])
<1>1. /\ Tail(s) \in Seq(S) /\ DOMAIN Tail(s) = 1..(Len(s) - 1) /\ DOMAIN s = 1..Len(s)
      /\ Len(s) \in Nat \ {0} /\ Head(s) = s[1] /\ Head(s) \in S
      /\ \A k \in DOMAIN Tail(s) : Tail(s)[k] = s[k + 1]
  BY HeadTailProperties, LenProperties, EmptySeq
<1>2. \A k \in DOMAIN s : k = 1 \/ (k - 1 \in DOMAIN Tail(s) /\ s[k] = Tail(s)[k - 1])
  BY <1>1
<1>3. \A k \in DOMAIN Tail(s) : k + 1 \in DOMAIN s /\ k + 1 > 1
  BY <1>1
<1>4. QED BY <1>1, <1>2, <1>3

\* Time keeps the order of ages, and stops counting past TTL.
LEMMA Ageing ==
  ASSUME TTL \in Nat
  PROVE  \A a, b \in 0..(TTL + 1) :
           /\ Later(a) \in 0..(TTL + 1)
           /\ a <= b => Later(a) <= Later(b)
           /\ Later(a) <= TTL => a <= TTL
  BY DEF Later

listSees == <<quiet, socket, held, peerC, openFor, pruneDue, byID>>

LEMMA ListFrame == ListInv /\ UNCHANGED listSees => ListInv'
  BY DEF ListInv, ListTypes, InOrder, Heard, Known, WellDated, Dated, UpToDate, listSees

\* A heartbeat that arrives is there to be read.
LEMMA AnnounceKeeps ==
  ASSUME TTL \in Nat, ListInv, NEW i \in Instances, Announce(i)
  PROVE  ListInv'
<1> USE DEF ListInv
<1>1. PICK n \in 0..Copies :
        /\ socket' = socket \o [k \in 1..n |-> i]
        /\ quiet' = IF n = 0 THEN quiet ELSE [quiet EXCEPT ![i] = 0]
  BY DEF Announce
<1>2. n \in Nat /\ UNCHANGED <<held, peerC, openFor, pruneDue, byID>>
  BY DEF Announce, chatVars
<1>3. socket \in Seq(Instances) /\ quiet \in [Instances -> 0..(TTL + 1)]
  BY DEF ListTypes
<1> DEFINE more == [k \in 1..n |-> i]
<1>4. more \in Seq(Instances) /\ Len(more) = n /\ \A k \in 1..n : more[k] = i
  BY <1>2
<1> HIDE DEF more
<1>5. /\ socket' \in Seq(Instances) /\ DOMAIN socket' = 1..(Len(socket) + n)
      /\ DOMAIN socket = 1..Len(socket) /\ Len(socket) \in Nat
      /\ \A k \in DOMAIN socket : socket'[k] = socket[k]
      /\ \A k \in DOMAIN socket' : k > Len(socket) => socket'[k] = i
  <2>1. socket' = socket \o more
    BY <1>1 DEF more
  <2>2. /\ socket \o more \in Seq(Instances) /\ Len(socket \o more) = Len(socket) + n
        /\ \A k \in 1..(Len(socket) + n) :
             (socket \o more)[k] = IF k <= Len(socket) THEN socket[k] ELSE more[k - Len(socket)]
    BY <1>3, <1>4, ConcatProperties
  <2>3. DOMAIN socket = 1..Len(socket) /\ Len(socket) \in Nat
    BY <1>3, LenProperties
  <2>4. DOMAIN socket' = 1..(Len(socket) + n)
    BY <2>1, <2>2, LenProperties
  <2>5. \A k \in DOMAIN socket' : k > Len(socket) => more[k - Len(socket)] = i
    BY <1>2, <1>4, <2>3, <2>4
  <2>6. QED BY <2>1, <2>2, <2>3, <2>4, <2>5, <1>2
<1>6. /\ quiet' \in [Instances -> 0..(TTL + 1)]
      /\ \A j \in Instances : quiet'[j] = IF j = i /\ n # 0 THEN 0 ELSE quiet[j]
  BY <1>1, <1>3
<1>7. ListTypes'
  BY <1>2, <1>5, <1>6 DEF ListTypes
<1>8. InOrder'
  BY <1>2 DEF InOrder
<1>9. Heard'
  <2> SUFFICES ASSUME NEW j \in Instances, quiet'[j] <= TTL PROVE Known(j)'
    BY DEF Heard
  <2>1. CASE j = i /\ n # 0
    <3>1. Len(socket) + n \in DOMAIN socket' /\ socket'[Len(socket) + n] = i
      BY <2>1, <1>2, <1>5
    <3>2. QED BY <3>1, <2>1 DEF Known
  <2>2. CASE ~(j = i /\ n # 0)
    <3>1. quiet'[j] = quiet[j] /\ Known(j)
      BY <2>2, <1>6 DEF Heard
    <3>2. \A k \in DOMAIN socket : k \in DOMAIN socket' /\ socket'[k] = socket[k]
      BY <1>2, <1>5
    <3>3. QED BY <3>1, <3>2, <1>2 DEF Known
  <2>3. QED BY <2>1, <2>2
<1>10. WellDated'
  <2>1. ASSUME NEW j \in Instances, NEW ago \in 0..(TTL + 1), Dated(j, ago)
        PROVE  quiet'[j] <= ago \/ openFor' <= ago
    BY <2>1, <1>2, <1>6 DEF Dated
  <2>2. ASSUME NEW k \in DOMAIN socket' PROVE quiet'[socket'[k]] <= 0 \/ openFor' <= 0
    <3>1. CASE k \in DOMAIN socket
      <4>1. socket'[k] = socket[k] /\ socket[k] \in Instances /\ Dated(socket[k], 0)
        BY <3>1, <1>3, <1>5, ElementOfSeq DEF WellDated
      <4>2. 0 \in 0..(TTL + 1)
        OBVIOUS
      <4>3. QED BY <4>1, <4>2, <2>1
    <3>2. CASE k \notin DOMAIN socket
      <4>1. socket'[k] = i /\ n # 0
        BY <3>2, <1>2, <1>5
      <4>2. QED BY <4>1, <1>6
    <3>3. QED BY <3>1, <3>2
  <2>3. held' # Nothing => quiet'[held'.id] <= held'.ago \/ openFor' <= held'.ago
    BY <1>2, <2>1, SightingIs DEF WellDated, ListTypes
  <2>4. ASSUME NEW k \in DOMAIN peerC
        PROVE  quiet'[peerC'[k].id] <= peerC'[k].ago \/ openFor' <= peerC'[k].ago
    <3>1. peerC[k] \in Sighting
      BY ElementOfSeq, LenProperties DEF ListTypes
    <3>2. QED BY <3>1, <1>2, <2>1, SightingIs DEF WellDated
  <2>5. ASSUME NEW j \in Instances, byID'[j] # Never
        PROVE  quiet'[j] <= byID'[j] \/ openFor' <= byID'[j]
    <3>1. byID[j] \in 0..(TTL + 1)
      BY <1>2, <2>5 DEF ListTypes
    <3>2. QED BY <3>1, <1>2, <2>1, <2>5 DEF WellDated
  <2>6. QED BY <1>2, <2>2, <2>3, <2>4, <2>5 DEF WellDated, Dated
<1>11. UpToDate'
  BY <1>2 DEF UpToDate
<1>12. QED BY <1>7, <1>8, <1>9, <1>10, <1>11

LEMMA ReadKeeps == ASSUME TTL \in Nat, ListInv, Read PROVE ListInv'
<1> USE DEF ListInv
<1>1. /\ held = Nothing /\ socket # <<>> /\ socket' = Tail(socket)
      /\ held' = [id |-> Head(socket), ago |-> 0]
      /\ UNCHANGED <<peerC, quiet, openFor, pruneDue, byID>>
  BY DEF Read, peerVars, chatVars
<1>2. /\ socket' \in Seq(Instances) /\ Head(socket) \in Instances /\ Head(socket) = socket[1]
      /\ 1 \in DOMAIN socket
      /\ \A k \in DOMAIN socket' : k + 1 \in DOMAIN socket /\ socket'[k] = socket[k + 1]
      /\ \A k \in DOMAIN socket :
           k = 1 \/ (k - 1 \in DOMAIN socket' /\ socket[k] = socket'[k - 1])
  BY <1>1, TailOf DEF ListTypes
<1>3. held' \in Sighting /\ held' # Nothing /\ held'.id = Head(socket) /\ held'.ago = 0
  BY <1>1, <1>2, SightingIs DEF Sighting
<1>4. ListTypes'
  BY <1>1, <1>2, <1>3 DEF ListTypes
<1>5. \A k \in DOMAIN peerC : peerC[k] \in Sighting /\ 0 <= peerC[k].ago
  <2>1. \A k \in DOMAIN peerC : peerC[k] \in Sighting
    BY ElementOfSeq, LenProperties DEF ListTypes
  <2>2. QED BY <2>1, SightingIs
<1>6. InOrder'
  <2>1. byID[Head(socket)] # Never => 0 <= byID[Head(socket)]
    BY <1>2 DEF ListTypes
  <2>2. QED BY <1>1, <1>3, <1>5, <2>1 DEF InOrder
<1>7. Heard'
  <2> SUFFICES ASSUME NEW i \in Instances, quiet[i] <= TTL PROVE Known(i)'
    BY <1>1 DEF Heard
  <2>1. Known(i) /\ quiet[i] >= 0
    BY DEF Heard, ListTypes
  <2>2. CASE \E k \in DOMAIN socket : socket[k] = i
    <3>1. PICK k \in DOMAIN socket : socket[k] = i
      BY <2>2
    <3>2. CASE k = 1
      BY <3>1, <3>2, <1>1, <1>2, <1>3, <2>1 DEF Known
    <3>3. CASE k # 1
      BY <3>1, <3>3, <1>2 DEF Known
    <3>4. QED BY <3>2, <3>3
  <2>3. CASE ~ \E k \in DOMAIN socket : socket[k] = i
    BY <2>1, <2>3, <1>1 DEF Known
  <2>4. QED BY <2>2, <2>3
<1>8. WellDated'
  BY <1>1, <1>2, <1>3 DEF WellDated, Dated
<1>9. UpToDate'
  BY <1>1, <1>3 DEF UpToDate
<1>10. QED BY <1>4, <1>6, <1>7, <1>8, <1>9

LEMMA PushKeeps == ASSUME TTL \in Nat, ListInv, Push PROVE ListInv'
<1> USE DEF ListInv
<1>1. /\ held # Nothing /\ held' = Nothing /\ peerC' = Append(peerC, held)
      /\ UNCHANGED <<socket, quiet, openFor, pruneDue, byID>>
  BY DEF Push, peerVars, chatVars
<1>2. held \in Sighting /\ peerC \in Seq(Sighting)
  BY <1>1 DEF ListTypes
<1>3. /\ peerC' \in Seq(Sighting) /\ DOMAIN peerC' = 1..(Len(peerC) + 1)
      /\ DOMAIN peerC = 1..Len(peerC) /\ Len(peerC) \in Nat
      /\ peerC'[Len(peerC) + 1] = held /\ \A k \in DOMAIN peerC : peerC'[k] = peerC[k]
  BY <1>1, <1>2, AppendProperties, LenProperties
<1>4. \A k \in DOMAIN peerC' : \/ k \in DOMAIN peerC /\ peerC'[k] = peerC[k]
                               \/ k = Len(peerC) + 1 /\ peerC'[k] = held
  BY <1>3
<1>5. ListTypes'
  BY <1>1, <1>3 DEF ListTypes
<1>6. InOrder'
  <2>1. ASSUME NEW j \in DOMAIN peerC', NEW k \in DOMAIN peerC', j < k
        PROVE  peerC'[k].ago <= peerC'[j].ago
    <3>1. j \in DOMAIN peerC
      BY <2>1, <1>3
    <3>2. QED BY <3>1, <2>1, <1>1, <1>3, <1>4 DEF InOrder
  <2>2. \A k \in DOMAIN peerC' : byID[peerC'[k].id] # Never => peerC'[k].ago <= byID[peerC'[k].id]
    BY <1>1, <1>4 DEF InOrder
  <2>3. QED BY <2>1, <2>2, <1>1 DEF InOrder
<1>7. Heard'
  <2>1. Len(peerC) + 1 \in DOMAIN peerC' /\ \A k \in DOMAIN peerC : k \in DOMAIN peerC'
    BY <1>3
  <2>2. QED BY <2>1, <1>1, <1>3 DEF Heard, Known
<1>8. WellDated'
  BY <1>1, <1>4 DEF WellDated, Dated
<1>9. UpToDate'
  BY <1>1, <1>4 DEF UpToDate
<1>10. QED BY <1>5, <1>6, <1>7, <1>8, <1>9

\* The sighting that is shown is older than those that are still to come.
LEMMA SeeKeeps == ASSUME TTL \in Nat, ListInv, See PROVE ListInv'
<1> USE DEF ListInv
<1> DEFINE first == Head(peerC)
<1>1. /\ peerC # <<>> /\ peerC' = Tail(peerC)
      /\ byID' = [byID EXCEPT ![first.id] = first.ago]
      /\ UNCHANGED <<socket, held, quiet, openFor, pruneDue>>
  BY DEF See, peerVars
<1>2. /\ peerC' \in Seq(Sighting) /\ first \in Sighting /\ first = peerC[1]
      /\ 1 \in DOMAIN peerC
      /\ \A k \in DOMAIN peerC' : k + 1 \in DOMAIN peerC /\ k + 1 > 1 /\ peerC'[k] = peerC[k + 1]
      /\ \A k \in DOMAIN peerC :
           k = 1 \/ (k - 1 \in DOMAIN peerC' /\ peerC[k] = peerC'[k - 1])
  BY <1>1, TailOf DEF ListTypes
<1>3. /\ byID \in [Instances -> {Never} \cup 0..(TTL + 1)]
      /\ quiet \in [Instances -> 0..(TTL + 1)]
      /\ DOMAIN peerC = 1..Len(peerC) /\ DOMAIN peerC' = 1..Len(peerC')
      /\ Len(peerC) \in Nat /\ Len(peerC') \in Nat
  BY <1>2, LenProperties DEF ListTypes
<1> HIDE DEF first
<1>4. first.id \in Instances /\ first.ago \in 0..(TTL + 1) /\ first.ago # Never
  BY <1>2, SightingIs DEF Never
<1>5. /\ byID' \in [Instances -> {Never} \cup 0..(TTL + 1)]
      /\ \A i \in Instances : byID'[i] = IF i = first.id THEN first.ago ELSE byID[i]
  BY <1>1, <1>3, <1>4
<1>6. ListTypes'
  BY <1>1, <1>2, <1>5 DEF ListTypes
<1>7. \A k \in DOMAIN peerC' : peerC'[k] \in Sighting /\ peerC'[k].id \in Instances
                               /\ peerC'[k].ago <= first.ago
  <2>1. \A k \in DOMAIN peerC' : peerC'[k] \in Sighting
    BY <1>2, <1>3, ElementOfSeq
  <2>2. \A k \in DOMAIN peerC' : peerC'[k].ago <= first.ago
    BY <1>2, <1>3 DEF InOrder
  <2>3. QED BY <2>1, <2>2, SightingIs
<1>8. InOrder'
  <2>1. ASSUME NEW j \in DOMAIN peerC', NEW k \in DOMAIN peerC', j < k
        PROVE  peerC'[k].ago <= peerC'[j].ago
    <3>1. j + 1 < k + 1
      BY <2>1, <1>3
    <3>2. QED BY <3>1, <1>2 DEF InOrder
  <2>2. ASSUME NEW k \in DOMAIN peerC', byID'[peerC'[k].id] # Never
        PROVE  peerC'[k].ago <= byID'[peerC'[k].id]
    <3>1. peerC'[k].id \in Instances /\ peerC'[k].ago <= first.ago
      BY <2>2, <1>7
    <3>2. byID[peerC'[k].id] # Never => peerC'[k].ago <= byID[peerC'[k].id]
      <4>1. k + 1 \in DOMAIN peerC /\ peerC'[k] = peerC[k + 1]
        BY <2>2, <1>2
      <4>2. \A m \in DOMAIN peerC : byID[peerC[m].id] # Never => peerC[m].ago <= byID[peerC[m].id]
        BY DEF InOrder
      <4>3. byID[peerC[k + 1].id] # Never => peerC[k + 1].ago <= byID[peerC[k + 1].id]
        BY <4>1, <4>2
      <4>4. QED BY <4>1, <4>3
    <3>3. QED BY <2>2, <3>1, <3>2, <1>5
  <2>3. held # Nothing => /\ \A k \in DOMAIN peerC' : held.ago <= peerC'[k].ago
                          /\ byID'[held.id] # Never => held.ago <= byID'[held.id]
    <3>1. held # Nothing => held.id \in Instances /\ held.ago <= first.ago
      BY <1>2, SightingIs DEF ListTypes, InOrder
    <3>2. QED BY <3>1, <1>2, <1>5 DEF InOrder
  <2>4. QED BY <2>1, <2>2, <2>3, <1>1 DEF InOrder
<1>9. Heard'
  <2> SUFFICES ASSUME NEW i \in Instances, quiet[i] <= TTL PROVE Known(i)'
    BY <1>1 DEF Heard
  <2>1. Known(i)
    BY DEF Heard
  <2>2. CASE \E k \in DOMAIN peerC : peerC[k].id = i /\ peerC[k].ago <= quiet[i]
    <3>1. PICK k \in DOMAIN peerC : peerC[k].id = i /\ peerC[k].ago <= quiet[i]
      BY <2>2
    <3>2. CASE k = 1
      <4>1. byID'[i] = first.ago /\ first.ago <= quiet[i]
        BY <3>1, <3>2, <1>2, <1>5
      <4>2. QED BY <4>1, <1>1, <1>4 DEF Known
    <3>3. CASE k # 1
      BY <3>1, <3>3, <1>1, <1>2 DEF Known
    <3>4. QED BY <3>2, <3>3
  <2>3. CASE byID[i] # Never /\ byID[i] <= quiet[i]
    <3>1. byID'[i] # Never /\ byID'[i] <= byID[i]
      <4>1. CASE i = first.id
        <5>1. first.ago <= byID[i] /\ byID'[i] = first.ago
          BY <4>1, <2>3, <1>2, <1>5 DEF InOrder
        <5>2. QED BY <5>1, <1>4
      <4>2. CASE i # first.id
        <5>1. byID'[i] = byID[i] /\ byID[i] \in 0..(TTL + 1)
          BY <4>2, <2>3, <1>3, <1>5
        <5>2. QED BY <5>1, <2>3
      <4>3. QED BY <4>1, <4>2
    <3>2. byID'[i] <= quiet[i]
      <4>1. byID[i] \in Int /\ quiet[i] \in Int /\ byID'[i] \in Int
        BY <2>3, <3>1, <1>3, <1>5 DEF Never
      <4>2. QED BY <4>1, <2>3, <3>1
    <3>3. QED BY <3>1, <3>2, <1>1 DEF Known
  <2>4. QED BY <2>1, <2>2, <2>3, <1>1 DEF Known
<1>10. WellDated'
  <2>1. \A k \in DOMAIN peerC' : Dated(peerC'[k].id, peerC'[k].ago)
    BY <1>2 DEF WellDated
  <2>2. Dated(first.id, first.ago)
    BY <1>2 DEF WellDated
  <2>3. \A i \in Instances : byID'[i] # Never => Dated(i, byID'[i])
    BY <2>2, <1>5 DEF WellDated
  <2>4. QED BY <2>1, <2>3, <1>1 DEF WellDated, Dated
<1>11. UpToDate'
  <2>1. openFor > 0 => first.ago = 0 /\ \A k \in DOMAIN peerC' : peerC'[k].ago = 0
    BY <1>2 DEF UpToDate
  <2>2. QED BY <2>1, <1>1, <1>5 DEF UpToDate
<1>12. QED BY <1>6, <1>8, <1>9, <1>10, <1>11

LEMMA PruneKeeps == ASSUME TTL \in Nat, ListInv, Prune PROVE ListInv'
<1> USE DEF ListInv
<1>1. /\ byID' = [i \in Instances |-> IF byID[i] > TTL THEN Never ELSE byID[i]]
      /\ UNCHANGED <<socket, held, peerC, quiet, openFor>>
  BY DEF Prune, listenerVars, peerVars
<1>2. /\ byID \in [Instances -> {Never} \cup 0..(TTL + 1)]
      /\ quiet \in [Instances -> 0..(TTL + 1)]
      /\ \A k \in DOMAIN peerC : peerC[k].id \in Instances
      /\ held # Nothing => held.id \in Instances
  <2>1. \A k \in DOMAIN peerC : peerC[k] \in Sighting
    BY ElementOfSeq, LenProperties DEF ListTypes
  <2>2. QED BY <2>1, SightingIs DEF ListTypes
<1>3. \A i \in Instances : byID'[i] = Never \/ (byID'[i] = byID[i] /\ byID[i] <= TTL)
  BY <1>1, <1>2 DEF Never
<1>4. ListTypes'
  BY <1>1, <1>2 DEF ListTypes
<1>5. InOrder'
  BY <1>1, <1>2, <1>3 DEF InOrder
<1>6. Heard'
  <2> SUFFICES ASSUME NEW i \in Instances, quiet[i] <= TTL PROVE Known(i)'
    BY <1>1 DEF Heard
  <2>1. Known(i)
    BY DEF Heard
  <2>2. byID[i] # Never /\ byID[i] <= quiet[i] => byID'[i] = byID[i]
    BY <1>1, <1>2 DEF Never
  <2>3. QED BY <2>1, <2>2, <1>1 DEF Known
<1>7. WellDated'
  BY <1>1, <1>2, <1>3 DEF WellDated, Dated
<1>8. UpToDate'
  BY <1>1, <1>3 DEF UpToDate, Never
<1>9. QED BY <1>4, <1>5, <1>6, <1>7, <1>8

\* All ages grow alike, and on the chat screen nothing is on its way when time
\* passes.
LEMMA TickKeeps == ASSUME TTL \in Nat, ListInv, Tick PROVE ListInv'
<1> USE DEF ListInv
<1>1. /\ quiet' = [i \in Instances |-> Later(quiet[i])] /\ UNCHANGED socket
      /\ held' = IF held = Nothing THEN held ELSE Aged(held)
      /\ peerC' = [k \in DOMAIN peerC |-> Aged(peerC[k])]
      /\ pruneDue' = chat /\ openFor' = IF chat THEN Later(openFor) ELSE 0
      /\ byID' = [i \in Instances |-> IF byID[i] = Never THEN Never ELSE Later(byID[i])]
      /\ chat => socket = <<>> /\ held = Nothing /\ peerC = <<>>
  BY DEF Tick, Drained
<1>2. /\ byID \in [Instances -> {Never} \cup 0..(TTL + 1)]
      /\ quiet \in [Instances -> 0..(TTL + 1)] /\ openFor \in 0..(TTL + 1)
      /\ DOMAIN peerC = 1..Len(peerC) /\ Len(peerC) \in Nat
      /\ \A k \in DOMAIN peerC : peerC[k] \in Sighting
      /\ held # Nothing => held \in Sighting
  BY ElementOfSeq, LenProperties DEF ListTypes
<1>3. \A s \in Sighting : /\ Aged(s) \in Sighting /\ Aged(s).id = s.id
                          /\ Aged(s).ago = Later(s.ago)
  BY Ageing DEF Sighting, Aged
<1>4. /\ quiet' \in [Instances -> 0..(TTL + 1)] /\ openFor' \in 0..(TTL + 1)
      /\ byID' \in [Instances -> {Never} \cup 0..(TTL + 1)]
      /\ \A i \in Instances : /\ quiet'[i] = Later(quiet[i])
                              /\ byID'[i] = Never <=> byID[i] = Never
                              /\ byID[i] # Never => byID'[i] = Later(byID[i])
  <2>1. \A a \in 0..(TTL + 1) : Later(a) \in 0..(TTL + 1) /\ Later(a) # Never
    BY Ageing DEF Never
  <2>2. QED BY <2>1, <1>1, <1>2
<1>5. /\ DOMAIN peerC' = DOMAIN peerC
      /\ \A k \in DOMAIN peerC : /\ peerC'[k] \in Sighting /\ peerC'[k].id = peerC[k].id
                                 /\ peerC'[k].ago = Later(peerC[k].ago)
      /\ held' # Nothing <=> held # Nothing
      /\ held # Nothing => /\ held' \in Sighting /\ held'.id = held.id
                           /\ held'.ago = Later(held.ago)
  BY <1>1, <1>2, <1>3, SightingIs
<1>6. peerC' \in Seq(Sighting)
  BY <1>1, <1>2, <1>5
<1>7. ListTypes'
  BY <1>1, <1>4, <1>5, <1>6 DEF ListTypes
<1>8. \A a, b \in 0..(TTL + 1) : a <= b => Later(a) <= Later(b)
  BY Ageing
<1>9. /\ \A k \in DOMAIN peerC : peerC[k].id \in Instances /\ peerC[k].ago \in 0..(TTL + 1)
      /\ held # Nothing => held.id \in Instances /\ held.ago \in 0..(TTL + 1)
      /\ \A i \in Instances : byID[i] # Never => byID[i] \in 0..(TTL + 1)
  BY <1>2, SightingIs
<1>10. InOrder'
  <2>1. ASSUME NEW j \in DOMAIN peerC', NEW k \in DOMAIN peerC', j < k
        PROVE  peerC'[k].ago <= peerC'[j].ago
    BY <2>1, <1>5, <1>8, <1>9 DEF InOrder
  <2>2. ASSUME NEW k \in DOMAIN peerC', byID'[peerC'[k].id] # Never
        PROVE  peerC'[k].ago <= byID'[peerC'[k].id]
    <3>1. byID[peerC[k].id] # Never /\ peerC[k].ago <= byID[peerC[k].id]
      BY <2>2, <1>4, <1>5, <1>9 DEF InOrder
    <3>2. QED BY <3>1, <1>4, <1>5, <1>8, <1>9
  <2>3. ASSUME held' # Nothing, NEW k \in DOMAIN peerC' PROVE held'.ago <= peerC'[k].ago
    BY <2>3, <1>5, <1>8, <1>9 DEF InOrder
  <2>4. ASSUME held' # Nothing, byID'[held'.id] # Never PROVE held'.ago <= byID'[held'.id]
    BY <2>4, <1>4, <1>5, <1>8, <1>9 DEF InOrder
  <2>5. QED BY <2>1, <2>2, <2>3, <2>4 DEF InOrder
<1>11. Heard'
  <2> SUFFICES ASSUME NEW i \in Instances, quiet'[i] <= TTL PROVE Known(i)'
    BY DEF Heard
  <2>1. quiet[i] <= TTL /\ quiet[i] \in 0..(TTL + 1) /\ quiet'[i] = Later(quiet[i])
    BY <1>2, <1>4, Ageing
  <2>2. Known(i)
    BY <2>1 DEF Heard
  <2>3. CASE \E k \in DOMAIN socket : socket[k] = i
    BY <2>3, <1>1 DEF Known
  <2>4. CASE held # Nothing /\ held.id = i /\ held.ago <= quiet[i]
    BY <2>1, <2>4, <1>5, <1>8, <1>9 DEF Known
  <2>5. CASE \E k \in DOMAIN peerC : peerC[k].id = i /\ peerC[k].ago <= quiet[i]
    BY <2>1, <2>5, <1>5, <1>8, <1>9 DEF Known
  <2>6. CASE byID[i] # Never /\ byID[i] <= quiet[i]
    BY <2>1, <2>6, <1>4, <1>8, <1>9 DEF Known
  <2>7. QED BY <2>2, <2>3, <2>4, <2>5, <2>6 DEF Known
<1>12. WellDated'
  <2>1. ASSUME NEW i \in Instances, NEW ago \in 0..(TTL + 1), Dated(i, ago)
        PROVE  quiet'[i] <= Later(ago) \/ openFor' <= Later(ago)
    <3>1. CASE quiet[i] <= ago
      BY <3>1, <1>2, <1>4, <1>8
    <3>2. CASE openFor <= ago /\ chat
      BY <3>2, <1>1, <1>2, <1>8
    <3>3. CASE ~chat
      BY <3>3, <1>1, Ageing
    <3>4. QED BY <2>1, <3>1, <3>2, <3>3 DEF Dated
  <2>2. ASSUME NEW k \in DOMAIN socket' PROVE quiet'[socket'[k]] <= 0 \/ openFor' <= 0
    <3>1. ~chat
      BY <2>2, <1>1
    <3>2. QED BY <3>1, <1>1
  <2>3. ASSUME held' # Nothing PROVE quiet'[held'.id] <= held'.ago \/ openFor' <= held'.ago
    BY <2>1, <2>3, <1>5, <1>9 DEF WellDated
  <2>4. ASSUME NEW k \in DOMAIN peerC'
        PROVE  quiet'[peerC'[k].id] <= peerC'[k].ago \/ openFor' <= peerC'[k].ago
    BY <2>1, <1>5, <1>9 DEF WellDated
  <2>5. ASSUME NEW i \in Instances, byID'[i] # Never
        PROVE  quiet'[i] <= byID'[i] \/ openFor' <= byID'[i]
    BY <2>1, <2>5, <1>4, <1>9 DEF WellDated
  <2>6. QED BY <2>2, <2>3, <2>4, <2>5 DEF WellDated, Dated
<1>13. UpToDate'
  <2>1. openFor' > 0 => chat
    BY <1>1
  <2>2. chat => held' = Nothing /\ DOMAIN peerC' = {} /\ pruneDue'
    BY <1>1, <1>5
  <2>3. QED BY <2>1, <2>2 DEF UpToDate
<1>14. QED BY <1>7, <1>10, <1>11, <1>12, <1>13

LEMMA ListStep ==
  ASSUME ListInv, [LanNext]_lanVars
  PROVE  ListInv'
<1>1. TTL \in Nat
  BY DiscoveryAssumption DEF DiscoveryAssumption
<1>2. ASSUME NEW i \in Instances, Start(i) \/ Quit(i) PROVE ListInv'
  <2>1. UNCHANGED listSees
    BY <1>2 DEF Start, Quit, listenerVars, chatVars, listSees
  <2>2. QED BY <2>1, ListFrame
<1>3. CASE OpenChat \/ UNCHANGED lanVars
  <2>1. UNCHANGED listSees
    BY <1>3 DEF OpenChat, lanVars, peerVars, listenerVars, chatVars, listSees
  <2>2. QED BY <2>1, ListFrame
<1>4. QED BY <1>1, <1>2, <1>3, AnnounceKeeps, ReadKeeps, PushKeeps, SeeKeeps, PruneKeeps,
             TickKeeps DEF LanNext

\* Whoever was heard of within the time to live is listed on the chat screen,
\* and nobody else, but for the heartbeats that lay unread when it opened: for
\* any number of programs, any buffers, and whatever heartbeats are lost.
THEOREM ListStaysLive == LanSpec => []ListIsLive
<1>1. TTL \in Nat
  BY DiscoveryAssumption DEF DiscoveryAssumption
<1>2. LanInit => ListInv
  <2> SUFFICES ASSUME LanInit PROVE ListInv
    OBVIOUS
  <2> USE DEF LanInit, Nothing, Never
  <2>1. ListTypes
    BY <1>1 DEF ListTypes
  <2>2. InOrder /\ Heard /\ WellDated /\ UpToDate
    BY <1>1 DEF InOrder, Heard, WellDated, UpToDate
  <2>3. QED BY <2>1, <2>2 DEF ListInv
<1>3. ListInv /\ [LanNext]_lanVars => ListInv'
  BY ListStep
<1>4. ListInv => ListIsLive
  <2> SUFFICES ASSUME ListInv, chat, Drained, NEW i \in Instances
               PROVE  /\ quiet[i] < TTL => byID[i] # Never
                      /\ byID[i] # Never => quiet[i] <= TTL \/ openFor <= TTL
    BY DEF ListIsLive
  <2>1. /\ quiet[i] \in 0..(TTL + 1) /\ openFor \in 0..(TTL + 1)
        /\ byID[i] # Never => byID[i] \in 0..(TTL + 1)
    BY DEF ListInv, ListTypes
  <2>2. socket = <<>> /\ held = Nothing /\ peerC = <<>> /\ ~pruneDue
    BY DEF Drained
  <2>3. quiet[i] < TTL => byID[i] # Never
    <3>1. quiet[i] < TTL => Known(i)
      BY <1>1, <2>1 DEF ListInv, Heard
    <3>2. QED BY <3>1, <2>2 DEF Known
  <2>4. ASSUME byID[i] # Never, openFor > TTL PROVE quiet[i] <= TTL
    <3>1. byID[i] <= TTL
      BY <1>1, <2>1, <2>2, <2>4 DEF ListInv, UpToDate
    <3>2. quiet[i] <= byID[i] \/ openFor <= byID[i]
      BY <2>4 DEF ListInv, WellDated, Dated
    <3>3. QED BY <1>1, <2>1, <2>4, <3>1, <3>2
  <2>5. QED BY <1>1, <2>1, <2>3, <2>4
<1>5. QED BY <1>2, <1>3, <1>4, PTL DEF LanSpec
===============================================================================
