----------------------------- MODULE FileTransfer -----------------------------
(***************************************************************************)
(* File transfers to one receiver: internal/network/file.go, the prompt of *)
(* internal/ui/model.go and the directory of internal/filedrop.  Each      *)
(* transfer has a sender of its own and a TCP connection of its own; the   *)
(* receiver's handlers run concurrently and share the directory.           *)
(*                                                                         *)
(* The receiver's chat screen is open all the time it runs: what becomes   *)
(* of offers while another screen is open is in module App.                *)
(***************************************************************************)
EXTENDS Naturals, Sequences, FiniteSets

CONSTANTS
  Transfers,    \* the transfers that may be offered
  NameOf,       \* the file name each one claims, sanitized
  SizeOf,       \* the size each one claims, in pieces
  Local,        \* owner of the files that were there before
  MaxCopies,    \* bound: the suffixes uniquePath tries
  OfferSlots,   \* capacity of offerC
  ResultSlots,  \* capacity of resultC
  MaxRuns,      \* bound: how often the receiver is started
  MayTimeOut,   \* can the deadlines pass?
  MayChange,    \* can a file change while its offer waits for an answer?
  DiskMayFail   \* can the receiver fail to create, write or close a file?

ASSUME FileAssumption ==
  /\ SizeOf \in [Transfers -> Nat] /\ Local \notin Transfers
  /\ OfferSlots \in Nat \ {0} /\ ResultSlots \in Nat \ {0}

VARIABLES
  sender,    \* SendFile of each transfer
  size,      \* the pieces its file has when it is streamed
  unsent,    \* pieces it has yet to write
  reply,     \* the receiver's answer, not yet read
  data,      \* pieces written and not yet read
  handler,   \* handleFileOffer of each transfer
  decision,  \* its one-slot decision channel
  path,      \* the path receiveFile chose
  got,       \* pieces copied
  offerC,    \* the receiver's channels
  resultC,
  queue,     \* the screen's fileOfferQueue
  choice,    \* the user's answer to each offer
  shown,     \* the results shown: [transfer, path], no path for a failure
  dir,       \* the directory: the owner of each file and its pieces
  runs       \* how often the receiver was started

senderVars == <<sender, size, unsent>>
wireVars == <<reply, data>>
handlerVars == <<handler, path, got, dir>>
screenVars == <<queue, choice, shown>>
vars == <<senderVars, wireVars, handlerVars, screenVars, decision, offerC, resultC, runs>>

Names == {NameOf[t] : t \in Transfers}
Paths == Names \X (0..MaxCopies)  \* name, "name (1)", "name (2)", ...
NoPath == <<>>
NoFile == [owner |-> Local, pieces |-> 0, exists |-> FALSE]
File(owner, pieces) == [owner |-> owner, pieces |-> pieces, exists |-> TRUE]
Outcome(t, p) == [transfer |-> t, path |-> p]

Init ==
  /\ sender = [t \in Transfers |-> "idle"] /\ unsent = [t \in Transfers |-> 0]
  /\ size = [t \in Transfers |-> 0]
  /\ reply = [t \in Transfers |-> "none"] /\ data = [t \in Transfers |-> 0]
  /\ handler = [t \in Transfers |-> "none"] /\ decision = [t \in Transfers |-> "none"]
  /\ path = [t \in Transfers |-> NoPath] /\ got = [t \in Transfers |-> 0]
  /\ offerC = <<>> /\ resultC = <<>> /\ queue = <<>>
  /\ choice = [t \in Transfers |-> "none"] /\ shown = {}
  /\ \E there \in SUBSET Names :
       dir = [p \in Paths |-> IF p[1] \in there /\ p[2] = 0 THEN File(Local, 1) ELSE NoFile]
  /\ runs = 1

-------------------------------------------------------------------------------
(* The connection: an end is open while the function that owns it runs. *)

SenderOpen(t) == sender[t] \in {"waiting", "streaming"}
HandlerOpen(t) ==
  handler[t] \in {"offering", "deciding", "saying", "choosing", "creating", "copying", "reporting"}

Goes(t, where) == handler' = [handler EXCEPT ![t] = where]

\* What the handler writes is lost if the sender has gone.
Reply(t, answer) ==
  reply' = IF SenderOpen(t) THEN [reply EXCEPT ![t] = answer] ELSE reply

-------------------------------------------------------------------------------
(* SendFile. *)

\* Its connection is closed: an answer on the way is lost.
Settle(t, result) ==
  /\ sender' = [sender EXCEPT ![t] = result]
  /\ unsent' = [unsent EXCEPT ![t] = 0]
  /\ reply' = [reply EXCEPT ![t] = "none"]

\* The offer is read and judged by handleFileOffer.  A file above the limit is
\* refused by the sender itself.
Offer(t) ==
  /\ sender[t] = "idle"
  /\ sender' = [sender EXCEPT ![t] = "waiting"] /\ UNCHANGED <<size, unsent>>
  /\ Goes(t, "offering")
  /\ UNCHANGED <<wireVars, path, got, dir, screenVars, decision, offerC, resultC, runs>>

\* The sizes the file may have by the time it is streamed.
SizesNow(t) ==
  {n \in 0..(SizeOf[t] + 1) : IF MayChange THEN n + 1 >= SizeOf[t] ELSE n = SizeOf[t]}

ReadReply(t) ==
  /\ sender[t] = "waiting"
  /\ \/ reply[t] = "deny" /\ Settle(t, "declined") /\ UNCHANGED size
     \/ /\ reply[t] = "accept" /\ reply' = [reply EXCEPT ![t] = "none"]
        /\ sender' = [sender EXCEPT ![t] = "streaming"]
        /\ \E n \in SizesNow(t) : unsent' = [unsent EXCEPT ![t] = n] /\ size' = [size EXCEPT ![t] = n]
  /\ UNCHANGED <<data, handlerVars, screenVars, decision, offerC, resultC, runs>>

\* Mutant: no deadline is set, and a failed read is tried again.
NoReplyReadAgain(t) == FALSE /\ UNCHANGED vars

\* The deadline passes, or the receiver's end closes without an answer.
NoReply(t) ==
  /\ sender[t] = "waiting"
  /\ MayTimeOut \/ (reply[t] = "none" /\ ~HandlerOpen(t))
  /\ Settle(t, "failed")
  /\ UNCHANGED <<size, data, handlerVars, screenVars, decision, offerC, resultC, runs>>

\* A piece written after the receiver's end has closed may still be taken by
\* the sender's own side.
WritePiece(t) ==
  /\ sender[t] = "streaming" /\ unsent[t] > 0
  /\ unsent' = [unsent EXCEPT ![t] = @ - 1]
  /\ data' = IF HandlerOpen(t) THEN [data EXCEPT ![t] = @ + 1] ELSE data
  /\ UNCHANGED <<sender, size, reply, handlerVars, screenVars, decision, offerC, resultC, runs>>

WriteFails(t) ==
  /\ sender[t] = "streaming" /\ unsent[t] > 0
  /\ MayTimeOut \/ ~HandlerOpen(t)
  /\ Settle(t, "failed")
  /\ UNCHANGED <<size, data, handlerVars, screenVars, decision, offerC, resultC, runs>>

Streamed(t) ==
  /\ sender[t] = "streaming" /\ unsent[t] = 0
  /\ Settle(t, "delivered")
  /\ UNCHANGED <<size, data, handlerVars, screenVars, decision, offerC, resultC, runs>>

\* The sender's program ends.
SenderQuits(t) ==
  /\ SenderOpen(t) /\ Settle(t, "failed")
  /\ UNCHANGED <<size, data, handlerVars, screenVars, decision, offerC, resultC, runs>>

SendFile(t) == ReadReply(t) \/ NoReply(t) \/ WritePiece(t) \/ WriteFails(t) \/ Streamed(t)

-------------------------------------------------------------------------------
(* handleFileOffer and receiveFile. *)

PushOffer(t) ==
  /\ handler[t] = "offering" /\ Len(offerC) < OfferSlots
  /\ offerC' = Append(offerC, t) /\ Goes(t, "deciding")
  /\ UNCHANGED <<senderVars, wireVars, path, got, dir, screenVars, decision, resultC, runs>>

TakeDecision(t) ==
  /\ handler[t] = "deciding" /\ decision[t] # "none"
  /\ decision' = [decision EXCEPT ![t] = "none"]
  /\ \/ decision[t] = "yes" /\ Goes(t, "saying") /\ UNCHANGED reply
     \/ decision[t] = "no" /\ Goes(t, "denied") /\ Reply(t, "deny")
  /\ UNCHANGED <<senderVars, data, path, got, dir, screenVars, offerC, resultC, runs>>

\* The select takes either, when the user has answered just now.
HandlerTimeout(t) ==
  /\ MayTimeOut /\ handler[t] = "deciding"
  /\ Goes(t, "timedout") /\ Reply(t, "deny")
  /\ UNCHANGED <<senderVars, data, path, got, dir, screenVars, decision, offerC, resultC, runs>>

\* The acceptance is written; when the write fails the handler returns without
\* a word to the screen.
SayAccepted(t) ==
  /\ handler[t] = "saying"
  /\ \/ Goes(t, "choosing") /\ Reply(t, "accept")
     \/ ~SenderOpen(t) /\ Goes(t, "unsaid") /\ UNCHANGED reply
  /\ UNCHANGED <<senderVars, data, path, got, dir, screenVars, decision, offerC, resultC, runs>>

\* The first of a name's paths at which there is nothing.
UniquePath(name, i) ==
  ~dir[<<name, i>>].exists /\ \A j \in 0..(i - 1) : dir[<<name, j>>].exists

ChoosePath(t) ==
  /\ handler[t] = "choosing"
  /\ \E i \in 0..MaxCopies :
       UniquePath(NameOf[t], i) /\ path' = [path EXCEPT ![t] = <<NameOf[t], i>>]
  /\ Goes(t, "creating")
  /\ UNCHANGED <<senderVars, wireVars, got, dir, screenVars, decision, offerC, resultC, runs>>

Fail(t) == Goes(t, "reporting") /\ path' = [path EXCEPT ![t] = NoPath]

\* Mutant: an existing file is opened and truncated.
CreateFileTruncating(t) ==
  /\ handler[t] = "creating"
  /\ dir' = [dir EXCEPT ![path[t]] = File(t, 0)] /\ Goes(t, "copying") /\ UNCHANGED path
  /\ UNCHANGED <<senderVars, wireVars, got, screenVars, decision, offerC, resultC, runs>>

\* O_EXCL: what another handler has created meanwhile is left alone, and the
\* transfer fails, as it does when the directory or the file cannot be made.
CreateFile(t) ==
  /\ handler[t] = "creating"
  /\ \/ /\ ~dir[path[t]].exists
        /\ dir' = [dir EXCEPT ![path[t]] = File(t, 0)] /\ Goes(t, "copying") /\ UNCHANGED path
     \/ (dir[path[t]].exists \/ DiskMayFail) /\ Fail(t) /\ UNCHANGED dir
  /\ UNCHANGED <<senderVars, wireVars, got, screenVars, decision, offerC, resultC, runs>>

CopyPiece(t) ==
  /\ handler[t] = "copying" /\ got[t] < SizeOf[t] /\ data[t] > 0
  /\ data' = [data EXCEPT ![t] = @ - 1] /\ got' = [got EXCEPT ![t] = @ + 1]
  /\ dir' = [dir EXCEPT ![path[t]].pieces = @ + 1]
  /\ UNCHANGED <<senderVars, reply, handler, path, screenVars, decision, offerC, resultC, runs>>

\* The deadline passes or the sender's end closes early; or a piece cannot be
\* written, or the file not be closed, and then all of it may be there.
Interrupted(t) ==
  \/ DiskMayFail
  \/ got[t] < SizeOf[t] /\ (MayTimeOut \/ (data[t] = 0 /\ ~SenderOpen(t)))

\* Mutant: what was received is kept, and reported as it is.
CopyFailsKept(t) ==
  /\ handler[t] = "copying" /\ Interrupted(t)
  /\ Goes(t, "reporting")
  /\ UNCHANGED <<senderVars, wireVars, path, got, dir, screenVars, decision, offerC, resultC, runs>>

\* The file is removed, and a failure reported.
CopyFails(t) ==
  /\ handler[t] = "copying" /\ Interrupted(t)
  /\ dir' = [dir EXCEPT ![path[t]] = NoFile] /\ Fail(t)
  /\ UNCHANGED <<senderVars, wireVars, got, screenVars, decision, offerC, resultC, runs>>

CopyDone(t) ==
  /\ handler[t] = "copying" /\ got[t] = SizeOf[t]
  /\ Goes(t, "reporting")
  /\ UNCHANGED <<senderVars, wireVars, path, got, dir, screenVars, decision, offerC, resultC, runs>>

\* The connection is closed once the result is in the channel.
Report(t) ==
  /\ handler[t] = "reporting" /\ Len(resultC) < ResultSlots
  /\ resultC' = Append(resultC, Outcome(t, path[t])) /\ Goes(t, "done")
  /\ path' = [path EXCEPT ![t] = NoPath] /\ got' = [got EXCEPT ![t] = 0]
  /\ data' = [data EXCEPT ![t] = 0]
  /\ UNCHANGED <<senderVars, reply, dir, screenVars, decision, offerC, runs>>

HandleFileOffer(t) ==
  \/ PushOffer(t) \/ TakeDecision(t) \/ HandlerTimeout(t) \/ SayAccepted(t) \/ ChoosePath(t)
  \/ CreateFile(t) \/ CopyPiece(t) \/ CopyFails(t) \/ CopyDone(t) \/ Report(t)

-------------------------------------------------------------------------------
(* The screen. *)

ShowOffer ==
  /\ offerC # <<>> /\ offerC' = Tail(offerC) /\ queue' = Append(queue, Head(offerC))
  /\ UNCHANGED <<senderVars, wireVars, handlerVars, choice, shown, decision, resultC, runs>>

\* FileOffer.Respond never blocks: the answer to a handler that has given up
\* stays in the channel.
Respond(t, answer) == decision' = [decision EXCEPT ![t] = IF @ = "none" THEN answer ELSE @]

\* Mutant: the answer goes to the newest offer, not to the one on the screen.
AnswerOfferNewest(answer) ==
  /\ queue # <<>>
  /\ Respond(queue[Len(queue)], answer)
  /\ queue' = Tail(queue) /\ choice' = [choice EXCEPT ![Head(queue)] = answer]
  /\ UNCHANGED <<senderVars, wireVars, handlerVars, shown, offerC, resultC, runs>>

AnswerOffer(answer) ==
  /\ queue # <<>>
  /\ Respond(Head(queue), answer)
  /\ queue' = Tail(queue) /\ choice' = [choice EXCEPT ![Head(queue)] = answer]
  /\ UNCHANGED <<senderVars, wireVars, handlerVars, shown, offerC, resultC, runs>>

ShowResult ==
  /\ resultC # <<>> /\ resultC' = Tail(resultC) /\ shown' = shown \cup {Head(resultC)}
  /\ UNCHANGED <<senderVars, wireVars, handlerVars, queue, choice, decision, offerC, runs>>

\* The receiver's program ends, whatever its handlers are doing, and is started
\* again: the directory is all that is left.
Restart ==
  /\ runs < MaxRuns /\ runs' = runs + 1
  /\ handler' = [t \in Transfers |-> IF handler[t] = "none" THEN "none" ELSE "killed"]
  /\ path' = [t \in Transfers |-> NoPath] /\ got' = [t \in Transfers |-> 0]
  /\ data' = [t \in Transfers |-> 0] /\ decision' = [t \in Transfers |-> "none"]
  /\ offerC' = <<>> /\ resultC' = <<>> /\ queue' = <<>>
  /\ UNCHANGED <<senderVars, reply, dir, choice, shown>>

-------------------------------------------------------------------------------
Next ==
  \/ \E t \in Transfers : Offer(t) \/ SendFile(t) \/ SenderQuits(t) \/ HandleFileOffer(t)
  \/ ShowOffer \/ ShowResult \/ Restart
  \/ \E answer \in {"yes", "no"} : AnswerOffer(answer)

Spec == Init /\ [][Next]_vars

\* The goroutines run, the screen shows what arrives, deadlines pass.  Nobody
\* has to offer or to answer.
Fairness ==
  /\ \A t \in Transfers : WF_vars(SendFile(t)) /\ WF_vars(HandleFileOffer(t))
  /\ WF_vars(ShowOffer) /\ WF_vars(ShowResult)

FairSpec == Spec /\ Fairness

-------------------------------------------------------------------------------
Complete(p) ==
  dir[p].exists /\ dir[p].pieces = IF dir[p].owner = Local THEN 1 ELSE SizeOf[dir[p].owner]

\* A file that is reported as received is the file that was offered, whole, and
\* its own, whatever the other transfers do (file.go:120, 129-139).  What else is
\* in the directory is whole, or being received, or was left by a program that
\* ended.
SavedWhole ==
  /\ \A result \in shown \cup {resultC[i] : i \in DOMAIN resultC} :
       result.path # NoPath => Complete(result.path) /\ dir[result.path].owner = result.transfer
  /\ \A p \in Paths :
       dir[p].exists /\ ~Complete(p) => handler[dir[p].owner] \in {"copying", "killed"}

\* Nothing is saved, and nothing is streamed, without a yes to that very offer;
\* "accepted is only true once the file has actually been fully streamed"
\* (file.go:144-145) to somebody who answered yes.
Consent ==
  \A t \in Transfers :
    /\ (\E p \in Paths : dir[p].exists /\ dir[p].owner = t) => choice[t] = "yes"
    /\ sender[t] \in {"streaming", "delivered"} => choice[t] = "yes"
    /\ sender[t] = "delivered" /\ handler[t] \in {"creating", "copying"}
         => got[t] + data[t] = size[t]

\* What exists in the directory is written to or removed by the one handler that
\* is still copying it: the files that were there, those that have been received
\* and those an ended run has left stay as they are, whatever names the offers
\* claim and however their handlers race for a path (file.go:118, 120, 129-139).
NothingOverwritten ==
  [][\A p \in Paths : dir[p].exists /\ dir'[p] # dir[p] =>
       \E t \in Transfers : dir[p].owner = t /\ handler[t] = "copying" /\ path[t] = p]_dir

\* The sender is told something, and a user who accepts is shown an outcome,
\* unless the handler had given up before the answer, could not tell the sender
\* or was ended with its program.
Settled ==
  \A t \in Transfers :
    /\ sender[t] = "waiting" ~> ~SenderOpen(t)
    /\ choice[t] = "yes" ~> \/ \E result \in shown : result.transfer = t
                            \/ handler[t] \in {"timedout", "unsaid", "killed"}
===============================================================================
