-------------------------------- MODULE SignIn --------------------------------
(***************************************************************************)
(* From the connection to the relay server to a chosen organization: the   *)
(* screens internal/ui/onboarding and internal/ui/orgselect.  Commands run *)
(* beside the screen and their results come back as messages; a key may be *)
(* pressed at any time.                                                    *)
(*                                                                         *)
(* A value that is blank, too short or not a picture is refused and leaves *)
(* everything as it is, so only the others are typed here.                 *)
(***************************************************************************)
EXTENDS Naturals, Sequences, FiniteSets

CONSTANTS
  Handles,       \* account names the user may type
  Passwords,     \* passwords the user may type
  MaxOrgWork,    \* bound: create and join requests sent in all
  MaxDials       \* bound: attempts to connect

VARIABLES
  screen,    \* the router's screen: "onboarding" and "orgselect" are here
  step,      \* onboarding's step, and its wizard's flow
  flow,
  fieldIdx,  \* the wizard's current field
  answers,   \* the answers to the earlier ones
  checking,  \* checkingHandle
  requests,  \* onboarding's commands that run
  dials,
  saved,     \* is there a saved token to try?
  taken,     \* the handles registered on the server
  checked,   \* history: the handles the server called free in this wizard
  mode,      \* orgselect: "list", "create" or "join"
  orgWork,   \* its create and join requests that run
  orgSent,
  selected   \* SelectedMsgs on their way to the router

wizardVars == <<flow, fieldIdx, answers, checking>>
orgVars == <<mode, orgWork, orgSent, selected>>
onboardingVars == <<step, wizardVars, requests, dials, saved, checked>>
vars == <<screen, onboardingVars, taken, orgVars>>

NumFields(f) ==
  CASE f = "login" -> 2 [] f = "register" -> 6 [] f = "recover" -> 1 [] f = "answer" -> 2
    [] f = "none" -> 0

\* What may be entered in field i of a flow.
Values(f, i) ==
  CASE i = 0 /\ f \in {"login", "register", "recover"} -> Handles
    [] i = 1 \/ (f = "register" /\ i = 2) -> Passwords
    [] f = "register" /\ i = 3 -> {"picture"}
    [] f = "register" /\ i = 4 -> {"question", "skip"}
    [] OTHER -> {"answer"}

Request(op, handle, password) == [op |-> op, handle |-> handle, password |-> password]
NoText == ""
Simple(op) == Request(op, NoText, NoText)

Blank ==
  /\ flow = "none" /\ fieldIdx = 0 /\ answers = <<>> /\ checking = FALSE /\ checked = {}
  /\ step = "connecting" /\ mode = "list" /\ orgWork = 0 /\ orgSent = 0 /\ selected = 0

Init ==
  /\ Blank /\ screen = "onboarding" /\ requests = {Simple("dial")} /\ dials = 1
  /\ saved \in BOOLEAN /\ taken \in SUBSET Handles

\* Without a server the program starts on the chat screen.
Skipped == Blank /\ screen = "chat" /\ requests = {} /\ dials = 0 /\ saved = FALSE /\ taken = {}

\* A wizard starts at its first field, with no answers.
StartWizard(f) ==
  /\ step' = "wizard" /\ flow' = f /\ fieldIdx' = 0 /\ answers' = <<>> /\ checked' = {}

-------------------------------------------------------------------------------
(* The wizard. *)

AtField == screen = "onboarding" /\ step = "wizard" /\ fieldIdx < NumFields(flow) /\ ~checking

ChooseFlow(f) ==
  /\ screen = "onboarding" /\ step = "welcome"
  /\ StartWizard(f)
  /\ UNCHANGED <<screen, checking, requests, dials, saved, taken, orgVars>>

\* submitWizard, once the last field is answered.
Submission(all) ==
  CASE flow = "login" -> Request("login", all[1], all[2])
    [] flow = "register" -> Request("register", all[1], all[2])
    [] flow = "recover" -> Request("recover", all[1], NoText)
    [] flow = "answer" -> Request("finish", NoText, all[2])

\* commitAnswer, of one value or of two when the question is skipped.
Commit(values) ==
  /\ answers' = answers \o values /\ fieldIdx' = fieldIdx + Len(values)
  /\ requests' = IF fieldIdx' < NumFields(flow) THEN {} ELSE {Submission(answers')}

Committed(value) == IF value = "skip" THEN <<NoText, NoText>> ELSE <<value>>

\* A handle to register is committed by the answer to its check; a
\* confirmation that differs from the password is refused.
Advance(value) ==
  /\ AtField /\ value \in Values(flow, fieldIdx)
  /\ flow = "register" /\ fieldIdx = 2 => value = answers[2]
  /\ IF flow = "register" /\ fieldIdx = 0
       THEN /\ checking' = TRUE /\ requests' = {Request("check", value, NoText)}
            /\ UNCHANGED <<fieldIdx, answers>>
       ELSE Commit(Committed(value)) /\ UNCHANGED checking
  /\ UNCHANGED <<screen, step, flow, dials, saved, taken, checked, orgVars>>

\* Mutant: the field that is gone back to keeps its answer.
RetreatKeeping ==
  /\ AtField
  /\ IF fieldIdx = 0 THEN step' = "welcome" /\ UNCHANGED fieldIdx
     ELSE fieldIdx' = fieldIdx - 1 /\ UNCHANGED step
  /\ UNCHANGED <<screen, flow, answers, checking, requests, dials, saved, taken, checked, orgVars>>

Retreat ==
  /\ AtField
  /\ IF fieldIdx = 0
       THEN step' = "welcome" /\ UNCHANGED <<fieldIdx, answers>>
       ELSE /\ fieldIdx' = fieldIdx - 1 /\ answers' = SubSeq(answers, 1, Len(answers) - 1)
            /\ UNCHANGED step
  /\ UNCHANGED <<screen, flow, checking, requests, dials, saved, taken, checked, orgVars>>

Redial ==
  /\ screen = "onboarding" /\ step = "error" /\ dials < MaxDials
  /\ step' = "connecting" /\ requests' = {Simple("dial")} /\ dials' = dials + 1
  /\ UNCHANGED <<screen, wizardVars, saved, taken, checked, orgVars>>

-------------------------------------------------------------------------------
(* Results.  Every request returns: the relay client gives it a time-out. *)

Return(op) == screen = "onboarding" /\ \E r \in requests : r.op = op

Dialled ==
  /\ Return("dial")
  /\ \/ /\ step' = "error" /\ requests' = {}
     \/ /\ saved /\ step' = "resuming" /\ requests' = {Simple("resume")}
     \/ /\ ~saved /\ step' = "welcome" /\ requests' = {}
  /\ UNCHANGED <<screen, wizardVars, dials, saved, taken, checked, orgVars>>

\* Mutant: a failure leaves the wizard where it is.
AuthFailsStranded(op) ==
  /\ Return(op)
  /\ requests' = {} /\ saved' = FALSE
  /\ UNCHANGED <<screen, step, wizardVars, dials, taken, checked, orgVars>>

AuthFails(op) ==
  /\ Return(op)
  /\ step' = "welcome" /\ requests' = {} /\ saved' = FALSE
  /\ UNCHANGED <<screen, wizardVars, dials, taken, checked, orgVars>>

\* Nothing looks at the onboarding screen again.
Forget ==
  /\ step' = "done" /\ flow' = "none" /\ fieldIdx' = 0 /\ answers' = <<>> /\ checked' = {}
  /\ saved' = FALSE /\ taken' = {}

\* The AuthenticatedMsg and the router's answer to it, which no key can come
\* between: they are ignored until the next screen is there.
Authenticated(op) ==
  /\ Return(op)
  /\ \A r \in requests : /\ op = "login" => r.handle \in taken
                         /\ op = "register" => r.handle \notin taken
  /\ screen' = "orgselect" /\ requests' = {} /\ Forget
  /\ UNCHANGED <<checking, dials, orgVars>>

AskQuestion ==
  /\ Return("recover")
  /\ StartWizard("answer") /\ requests' = {}
  /\ UNCHANGED <<screen, checking, dials, saved, taken, orgVars>>

HandleChecked ==
  /\ Return("check")
  /\ checking' = FALSE
  /\ \/ \E r \in requests \ {q \in requests : q.handle \in taken} :
          Commit(<<r.handle>>) /\ checked' = checked \cup {r.handle}
     \/ requests' = {} /\ UNCHANGED <<fieldIdx, answers, checked>>
  /\ UNCHANGED <<screen, step, flow, dials, saved, taken, orgVars>>

\* Somebody else registers.
TakenElsewhere(h) ==
  /\ screen = "onboarding" /\ h \notin taken /\ taken' = taken \cup {h}
  /\ UNCHANGED <<screen, onboardingVars, orgVars>>

AuthOps == {"resume", "login", "register", "finish"}

OnboardingReplies ==
  \/ Dialled \/ AskQuestion \/ HandleChecked
  \/ \E op \in AuthOps : Authenticated(op)
  \/ \E op \in AuthOps \cup {"recover"} : AuthFails(op)

OnboardingKeys ==
  \/ \E f \in {"login", "register", "recover"} : ChooseFlow(f)
  \/ \E value \in Values(flow, fieldIdx) : Advance(value)
  \/ Retreat \/ Redial

-------------------------------------------------------------------------------
(* The organization screen.  Its list is loaded once; the rows for creating  *)
(* and joining are there before.                                             *)

OpenMode(m) ==
  /\ screen = "orgselect" /\ mode = "list" /\ mode' = m
  /\ UNCHANGED <<screen, onboardingVars, taken, orgWork, orgSent, selected>>

LeaveMode ==
  /\ screen = "orgselect" /\ mode # "list" /\ mode' = "list"
  /\ UNCHANGED <<screen, onboardingVars, taken, orgWork, orgSent, selected>>

\* Nothing keeps Enter from being pressed again before the result is there.
SendOrg ==
  /\ screen = "orgselect" /\ mode # "list" /\ orgSent < MaxOrgWork
  /\ orgWork' = orgWork + 1 /\ orgSent' = orgSent + 1
  /\ UNCHANGED <<screen, onboardingVars, taken, mode, selected>>

SelectRow ==
  /\ screen = "orgselect" /\ mode = "list" /\ selected + orgSent < MaxOrgWork
  /\ selected' = selected + 1
  /\ UNCHANGED <<screen, onboardingVars, taken, mode, orgWork, orgSent>>

OrgDone ==
  /\ screen = "orgselect" /\ orgWork > 0 /\ orgWork' = orgWork - 1
  /\ \/ selected' = selected + 1 /\ UNCHANGED mode
     \/ mode' = "list" /\ UNCHANGED selected
  /\ UNCHANGED <<screen, onboardingVars, taken, orgSent>>

OrgKeys == (\E m \in {"create", "join"} : OpenMode(m)) \/ LeaveMode \/ SendOrg \/ SelectRow

-------------------------------------------------------------------------------
(* What signing in promises. *)

\* The account that is registered is the one whose handle the server called
\* free and whose password was typed twice, however often the user went back;
\* and answers stand at the fields they were given for.
RegistersWhatWasChecked ==
  /\ step = "wizard" => fieldIdx = Len(answers)
  /\ \A r \in requests : r.op = "register" =>
       /\ r.handle \in checked /\ r.password = answers[3]
       /\ Len(answers) = NumFields("register")

\* Onboarding waits for one answer at a time, and then ignores all other keys.
OneAnswerAwaited ==
  /\ Cardinality(requests) <= 1
  /\ screen = "onboarding" =>
       (requests # {} <=> \/ step \in {"connecting", "resuming"} \/ checking
                          \/ step = "wizard" /\ fieldIdx = NumFields(flow))

\* A form that was sent gives way to another screen.
SubmittedReturns ==
  (step = "wizard" /\ fieldIdx = NumFields(flow)) ~> (step # "wizard" \/ flow = "answer" \/ screen # "onboarding")
===============================================================================
