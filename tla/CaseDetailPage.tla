---------------------------- MODULE CaseDetailPage ----------------------------
(***************************************************************************)
(* The page of one case, case-detail.tsx: what its loads, forms and        *)
(* buttons make of the answers of the API, in whatever order they come.    *)
(*                                                                         *)
(* Every change is followed by the loads that are to show it, one after    *)
(* the other; an answer that is not ok ends some of these chains and not   *)
(* others.  No load is cancelled or numbered, so an old answer may replace *)
(* a newer one.                                                            *)
(*                                                                         *)
(* The API is reduced to the versions of what it serves; its own rules are *)
(* told in CaseWorkflow.  The wording of errors is left out.               *)
(***************************************************************************)
EXTENDS Naturals, Sequences, SequencesExt

CONSTANTS
  Statuses,
  Departments,      \* what a triage result suggests and a review approves
  OwnDepartment,    \* the user's
  Suggested,        \* Seq: the suggestions of the results, in order
  MaxClicks,        \* bounds what the user does
  MaxOthers         \* bounds what others do to the case

ASSUME CasePageAssumption ==
  /\ OwnDepartment \in Departments
  /\ Suggested \in Seq(Departments) /\ Len(Suggested) > 0
  /\ "triaged" \in Statuses

VARIABLES
  version,     \* [Parts -> Nat]: the API's
  record,      \* status and department of the case, as stored
  results,     \* Seq: the states of the stored triage results
  view,        \* [Parts -> the version the page shows, 0 for none]
  shown,       \* status and department of the case, as shown
  select,      \* the status select
  chosen,      \* has the user changed it since it was set?
  result,      \* the triage result shown: its number, 0 for none, and state
  form,        \* the review form
  edited,      \* has the user changed it since it was filled?
  running,     \* aiIsRunning
  saving,      \* reviewIsSaving
  saved,       \* reviewSuccess: the message that takes the place of the review form
  left,        \* the page was left for the login page
  mine,        \* [Parts -> the version of the user's last change to it]
  unseen,      \* the parts whose load failed, or was followed by an older answer
  untold,      \* the parts of a change that was made and not reported as made
  scope,       \* the user's case:update permission
  clicks, others,
  posts        \* the requests and answers on their way

serverVars == <<version, record, results>>
formVars == <<select, chosen, form, edited>>
pageVars == <<view, shown, result, formVars, running, saving, saved, left>>
casePageVars == <<serverVars, pageVars, mine, unseen, untold, scope, clicks, others, posts>>

Parts == {"case", "documents", "triage", "activity", "departments"}
Changes == {"status", "note", "upload", "run", "review"}
ResultStates == {"completed", "failed", "reviewed", "none"}

\* A request: what it asks for, the change it belongs to with its number, and
\* the loads that follow.  The other fields are its body, whether the API has made
\* the change, in whole or in part, and the answer.
Ask(what, change, no, then) ==
  [what |-> what, change |-> change, no |-> no, then |-> then,
   status |-> CHOOSE s \in Statuses : TRUE, resultNo |-> 0, accepted |-> FALSE,
   department |-> OwnDepartment, edited |-> FALSE,
   made |-> FALSE, code |-> 0, seen |-> 0, state |-> "none"]

\* The loads after a change.
ReloadsAfter(change) ==
  CASE change \in {"status", "note"} -> <<"case", "activity">>
    [] change = "upload" -> <<"documents", "activity">>
    [] change = "run" -> <<"activity">>
    [] change = "review" -> <<"case", "triage", "activity">>
    [] change = "none" -> <<>>

\* What a change touches on the server.
TouchedBy(change) ==
  CASE change \in {"status", "note"} -> {"case", "activity"}
    [] change = "upload" -> {"documents", "activity"}
    [] change = "run" -> {"triage", "activity"}
    [] change = "review" -> {"case", "triage", "activity"}

\* The page has asked for everything, in parallel; of what one test case is not
\* about, the answers are there.
CasePageInit(awaited) ==
  /\ version = [p \in Parts |-> 1]
  /\ record \in [status : Statuses, department : {OwnDepartment}]
  /\ results = <<"completed">>
  /\ view = [p \in Parts |-> IF p \in awaited THEN 0 ELSE 1]
  /\ shown = record /\ select = record.status /\ chosen = FALSE
  /\ result = IF "triage" \in awaited THEN [no |-> 0, state |-> "none"]
              ELSE [no |-> 1, state |-> "completed"]
  /\ form = Suggested[1] /\ edited = FALSE
  /\ running = FALSE /\ saving = FALSE /\ saved = FALSE /\ left = FALSE
  /\ mine = [p \in Parts |-> 0]
  /\ unseen = {} /\ untold = {}
  /\ scope \in {"all", "department"}
  /\ clicks = 0 /\ others = 0
  /\ posts = {Ask(p, "none", 0, <<>>) : p \in awaited}

CasePageTypeOK ==
  /\ version \in [Parts -> Nat] /\ view \in [Parts -> Nat] /\ mine \in [Parts -> Nat]
  /\ \A p \in Parts : view[p] <= version[p] /\ mine[p] <= version[p]
  /\ record \in [status : Statuses, department : Departments]
  /\ shown \in [status : Statuses, department : Departments]
  /\ results \in Seq(ResultStates \ {"none"}) /\ Len(results) <= Len(Suggested)
  /\ result \in [no : 0..Len(Suggested), state : ResultStates]
  /\ select \in Statuses /\ form \in Departments
  /\ {chosen, edited, running, saving, saved, left} \subseteq BOOLEAN
  /\ unseen \subseteq Parts /\ untold \subseteq Parts
  /\ \A q \in posts : q.what \in Parts \cup Changes /\ q.code \in {0, 1, 200, 401, 500}

-----------------------------------------------------------------------------
(* The API.  Code 1 stands for an answer that never arrives.               *)

Answered(q, a) == posts' = (posts \ {q}) \cup {a}

\* Any request may be refused, fail or get lost before it has done anything.
Decline(q) ==
  /\ q.code = 0
  /\ \E code \in {1, 401, 500} : Answered(q, [q EXCEPT !.code = code])
  /\ UNCHANGED <<serverVars, pageVars, mine, unseen, untold, scope, clicks, others>>

ServeLoad(q) ==
  /\ q.code = 0 /\ q.what \in Parts
  /\ Answered(q, [q EXCEPT !.code = 200, !.seen = version[q.what],
                           !.status = record.status, !.department = record.department,
                           !.resultNo = Len(results),
                           !.state = IF results = <<>> THEN "none" ELSE Last(results)])
  /\ UNCHANGED <<serverVars, pageVars, mine, unseen, untold, scope, clicks, others>>

\* The API has its own idea of who may change what.
Permitted == scope = "all" \/ record.department = OwnDepartment

Touch(change) ==
  version' = [p \in Parts |-> IF p \in TouchedBy(change) THEN version[p] + 1 ELSE version[p]]

\* What becomes of the case and its results.  A run whose event cannot be stored
\* stores a failed result, too; a review that is not made to the end has stored
\* its row, and perhaps updated the case (see CaseWorkflow).
Effect(q, code) ==
  \/ q.what \in {"note", "upload"} /\ UNCHANGED <<record, results>>
  \/ /\ q.what = "status"
     /\ record' = [record EXCEPT !.status = q.status]
     /\ UNCHANGED results
  \/ /\ q.what = "run"
     /\ \E new \in {<<"completed">>, <<"failed">>, <<"completed", "failed">>} :
          /\ Len(results \o new) <= Len(Suggested)
          /\ results' = results \o new
     /\ UNCHANGED record
  \/ /\ q.what = "review"
     /\ results[q.resultNo] = "completed"
     /\ \E marked, moved \in BOOLEAN :
          /\ (code = 200 => marked) /\ (marked => moved)
          /\ results' = IF marked THEN [results EXCEPT ![q.resultNo] = "reviewed"] ELSE results
          /\ record' = IF moved THEN [status |-> "triaged", department |-> q.department]
                       ELSE record

\* The answer to a change that was made: with a run, the result now stored.
Reported(q, code) ==
  [q EXCEPT !.made = TRUE, !.code = code, !.seen = version'["triage"],
            !.resultNo = Len(results'), !.state = Last(results')]

\* The change is made, and its answer arrives or not.  An error after the write,
\* of the audit event above all, is answered with 500 and undoes nothing.
ServeChange(q) ==
  /\ q.code = 0 /\ q.what \in Changes
  /\ Permitted
  /\ \E code \in {1, 200, 500} :
       /\ Effect(q, code)
       /\ Touch(q.what)
       /\ Answered(q, Reported(q, code))
  /\ mine' = [p \in Parts |-> IF p \in TouchedBy(q.what) THEN version'[p] ELSE mine[p]]
  /\ UNCHANGED <<pageVars, unseen, untold, scope, clicks, others>>

\* Another employee changes the case.
OthersChange ==
  /\ others < MaxOthers
  /\ others' = others + 1
  /\ \E s \in Statuses, d \in Departments :
       /\ [status |-> s, department |-> d] # record
       /\ record' = [status |-> s, department |-> d]
  /\ version' = [version EXCEPT !["case"] = @ + 1, !["activity"] = @ + 1]
  /\ UNCHANGED <<results, pageVars, mine, unseen, untold, scope, clicks, posts>>

-----------------------------------------------------------------------------
(* The user.                                                               *)

\* canModifyAssignedCase, for what the page shows.
CanModify == scope = "all" \/ shown.department = OwnDepartment

Act ==
  /\ ~left /\ view["case"] # 0
  /\ clicks < MaxClicks /\ clicks' = clicks + 1
  /\ UNCHANGED <<serverVars, view, shown, result, left, mine, unseen, untold, scope, others>>

Send(q) == posts' = posts \cup {q}

\* The status, note and upload forms may be submitted again at any time.
SubmitForm(change) ==
  /\ Act /\ CanModify
  /\ Send([Ask(change, change, clicks', ReloadsAfter(change)) EXCEPT !.status = select])
  /\ UNCHANGED <<formVars, running, saving, saved>>

UpdateStatus == SubmitForm("status")
UploadDocument == SubmitForm("upload")
AddNote == SubmitForm("note")

RunAITriage ==
  /\ Act /\ CanModify /\ ~running
  /\ running' = TRUE /\ saved' = FALSE
  /\ Send(Ask("run", "run", clicks', ReloadsAfter("run")))
  /\ UNCHANGED <<formVars, saving>>

\* The review form is there for a completed result, after a saved review only
\* once triage has been run again.
FormOffered == CanModify /\ result.state = "completed" /\ ~saved

\* submitAIReview: accepted when the form does not differ from the suggestion.
SubmitReview ==
  /\ Act /\ FormOffered /\ ~saving
  /\ saving' = TRUE
  /\ Send([Ask("review", "review", clicks', ReloadsAfter("review")) EXCEPT
             !.resultNo = result.no, !.accepted = form = Suggested[result.no],
             !.department = form, !.edited = edited])
  /\ UNCHANGED <<formVars, running, saved>>

ChooseStatus(s) ==
  /\ Act /\ CanModify /\ s # select
  /\ select' = s /\ chosen' = TRUE
  /\ UNCHANGED <<form, edited, running, saving, saved, posts>>

EditReview(d) ==
  /\ Act /\ FormOffered /\ d # form
  /\ form' = d /\ edited' = TRUE
  /\ UNCHANGED <<select, chosen, running, saving, saved, posts>>

-----------------------------------------------------------------------------
(* The answers.                                                            *)

\* Mutant: only a chain that went well clears the flag of its button.
FinallyIfDone(q, done, well) ==
  /\ running' = (running /\ ~(q.change = "run" /\ done /\ well))
  /\ saving' = (saving /\ ~(q.change = "review" /\ done /\ well))
  /\ saved' = (saved \/ (q.change = "review" /\ done /\ well))

\* The end of a chain, whichever way; only a review whose loads all came is
\* reported as saved.
Finally(q, done, well) ==
  /\ running' = (running /\ ~(q.change = "run" /\ done))
  /\ saving' = (saving /\ ~(q.change = "review" /\ done))
  /\ saved' = (saved \/ (q.change = "review" /\ done /\ well))

\* Mutant: only the first load of a chain is sent.
ContinueOnce(q) ==
  LET more == q.then # <<>> /\ q.what \in Changes
  IN  /\ posts' = (posts \ {q}) \cup
           IF more THEN {Ask(Head(q.then), q.change, q.no, Tail(q.then))} ELSE {}
      /\ Finally(q, ~more, TRUE)

\* The next load of the chain is sent.
Continue(q) ==
  /\ posts' = (posts \ {q}) \cup
       IF q.then = <<>> THEN {} ELSE {Ask(Head(q.then), q.change, q.no, Tail(q.then))}
  /\ Finally(q, q.then = <<>>, TRUE)

\* The chain ends here; what it would have shown is not seen.
Abort(q) == posts' = posts \ {q} /\ Finally(q, TRUE, FALSE)

Awaited(q) == {q.then[i] : i \in DOMAIN q.then}

\* The answer shows part p at version n.
See(p, n) ==
  /\ view' = [view EXCEPT ![p] = n]
  /\ unseen' = IF n >= mine[p] THEN unseen \ {p}
               ELSE IF view[p] >= mine[p] THEN unseen \cup {p} ELSE unseen
  /\ untold' = IF n >= mine[p] THEN untold \ {p} ELSE untold

\* Mutant: a result is shown and the form kept.
ShowResultOnly(no, state) ==
  /\ result' = [no |-> no, state |-> state]
  /\ UNCHANGED <<form, edited>>

\* setAiResult and syncReviewForm
ShowResult(no, state) ==
  /\ result' = [no |-> no, state |-> state]
  /\ IF no = 0 THEN UNCHANGED <<form, edited>>
     ELSE form' = Suggested[no] /\ edited' = FALSE

\* Whoever is not signed in is sent to the login page (see InternalTabs).
LeavePage(q) ==
  /\ q.code = 401 /\ q.what \in Parts
  /\ left' = TRUE /\ posts' = {}
  /\ UNCHANGED <<serverVars, view, shown, result, formVars, running, saving, saved,
                 mine, unseen, untold, scope, clicks, others>>

ReceiveCase(q) ==
  /\ q.what = "case" /\ q.code \in {1, 200, 500}
  /\ IF q.code = 200
     THEN /\ See("case", q.seen)
          /\ shown' = [status |-> q.status, department |-> q.department]
          /\ select' = q.status /\ chosen' = FALSE
     ELSE /\ unseen' = unseen \cup {"case"} \cup IF q.code = 1 THEN Awaited(q) ELSE {}
          /\ UNCHANGED <<view, untold, shown, select, chosen>>
  /\ IF q.code = 1 THEN Abort(q) ELSE Continue(q)
  /\ UNCHANGED <<serverVars, result, form, edited, left, mine, scope, clicks, others>>

\* loadDocuments, loadAITriage, loadActivity and loadDepartments
ReceivePart(q) ==
  /\ q.what \in Parts \ {"case"} /\ q.code \in {1, 200, 500}
  /\ IF q.code = 200
     THEN /\ See(q.what, q.seen)
          /\ IF q.what = "triage" THEN ShowResult(q.resultNo, q.state)
             ELSE UNCHANGED <<result, form, edited>>
          /\ Continue(q)
     ELSE /\ unseen' = unseen \cup {q.what} \cup Awaited(q)
          /\ Abort(q)
          /\ UNCHANGED <<view, untold, result, form, edited>>
  /\ UNCHANGED <<serverVars, shown, select, chosen, left, mine, scope, clicks, others>>

\* An answer that is not ok is shown as an error, and nothing is loaded again,
\* whatever has become of the change.
ReceiveChange(q) ==
  /\ q.what \in Changes /\ q.code \in {1, 200, 401, 500}
  /\ IF q.code = 200
     THEN /\ IF q.what = "run" THEN See("triage", q.seen) /\ ShowResult(q.resultNo, q.state)
             ELSE UNCHANGED <<view, unseen, untold, result, form, edited>>
          /\ Continue(q)
     ELSE /\ untold' = IF q.made THEN untold \cup TouchedBy(q.what) ELSE untold
          /\ Abort(q)
          /\ UNCHANGED <<view, unseen, result, form, edited>>
  /\ UNCHANGED <<serverVars, shown, select, chosen, left, mine, scope, clicks, others>>

-----------------------------------------------------------------------------

Serve(q) == Decline(q) \/ ServeLoad(q) \/ ServeChange(q)
Arrive(q) == LeavePage(q) \/ ReceiveCase(q) \/ ReceivePart(q) \/ ReceiveChange(q)

CasePageNext ==
  \/ \E q \in posts : Serve(q) \/ Arrive(q)
  \/ UpdateStatus \/ UploadDocument \/ AddNote
  \/ RunAITriage \/ SubmitReview \/ OthersChange
  \/ \E s \in Statuses : ChooseStatus(s)
  \/ \E d \in Departments : EditReview(d)

-----------------------------------------------------------------------------
(* Properties.                                                             *)

\* The select shows the status of the case shown, and the review form the
\* suggestion of the result shown, unless the user changed them since; so a
\* review that counts as an acceptance is one of what the page showed, and only
\* an edited form can make it a correction.
FormsFollowWhatIsShown ==
  /\ view["case"] # 0 /\ ~chosen => select = shown.status
  /\ result.no # 0 /\ ~edited => form = Suggested[result.no]
  /\ \A q \in posts : q.what = "review" /\ q.code = 0 =>
       /\ q.accepted => q.department = Suggested[q.resultNo]
       /\ ~q.accepted => q.edited

\* Once everything has been answered the page shows the user's own changes,
\* all parts they touched, unless a load of such a part failed, or an older
\* answer arrived after a newer one, or the page was never told that the change
\* was made: its answer was lost, or an error for what came after the write.
OwnChangesShown ==
  posts = {} /\ ~left =>
    \A p \in Parts : view[p] >= mine[p] \/ p \in unseen \/ p \in untold

\* runAITriage and submitAIReview: their buttons stay disabled until the answer
\* and all the loads after it have come, and no longer, however the chain ends.
ButtonsWaitForAnswers ==
  ~left =>
    /\ running <=> \E q \in posts : q.change = "run"
    /\ saving <=> \E q \in posts : q.change = "review"

=============================================================================
