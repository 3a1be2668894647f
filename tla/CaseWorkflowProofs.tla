------------------------- MODULE CaseWorkflowProofs -------------------------
(***************************************************************************)
(* What is proved of CaseWorkflow for every set of requests, cases, users, *)
(* departments and jobs.                                                   *)
(***************************************************************************)
EXTENDS CaseWorkflow, TLAPS

\* Where a request is tells what it asks for.
JobMatchesStep ==
  \A r \in Requests :
    /\ pc[r] \in StatusSteps => job[r] \in StatusJob
    /\ pc[r] \in NoteSteps => job[r] \in NoteJob
    /\ pc[r] \in RunSteps => job[r] \in TriageJob
    /\ pc[r] \in ReviewSteps => job[r] \in ReviewJob
    /\ pc[r] = "idle" => job[r] = None

\* A stored result belongs to a run past its StoreResult, which holds the
\* suggestion it stored.
ResultsHeld ==
  \A r \in Requests :
    /\ results[r] # "absent" =>
         /\ job[r] \in TriageJob
         /\ pc[r] \in {"auditResult", "storeFailure", "auditFailure", "done",
                       "failed"}
         /\ held[r] \in Fields
    /\ pc[r] = "storeResult" => held[r] \in Fields

\* A request that has found a result to review, or has stored its review.
Deciding(r) == pc[r] = "createReview" \/ r \in reviews

\* It holds the fields it approves, of a result of its case.
ReviewsHeld ==
  \A r \in Requests :
    /\ Deciding(r) =>
         /\ job[r] \in ReviewJob
         /\ held[r] \in Fields
         /\ results[job[r].result] # "absent"
         /\ job[job[r].result].case = job[r].case
         /\ job[r].accepted => held[r] = held[job[r].result]
    /\ r \in reviews =>
         pc[r] \in {"updateCase", "markReviewed", "auditReview", "done", "failed"}
    /\ pc[r] \in {"updateCase", "markReviewed", "auditReview"} => r \in reviews

IInv == TypeOK /\ JobMatchesStep /\ ResultsHeld /\ ReviewsHeld

-----------------------------------------------------------------------------

\* The handler of a job starts with a step of its own kind.
LEMMA FirstStepMatches ==
  ASSUME NEW j \in AnyJob
  PROVE  \/ j \in StatusJob /\ FirstStep(j) = "updateStatus"
         \/ j \in NoteJob /\ FirstStep(j) = "createNote"
         \/ j \in TriageJob /\ FirstStep(j) = "departments"
         \/ j \in ReviewJob /\ FirstStep(j) = "findResult"
  BY DEF AnyJob, StatusJob, NoteJob, TriageJob, ReviewJob, FirstStep

LEMMA InitIInv == Init => IInv
  BY StartRowsAssumption
  DEF Init, IInv, TypeOK, JobMatchesStep, ResultsHeld, ReviewsHeld, Deciding,
      StatusSteps, NoteSteps, RunSteps, ReviewSteps, ResultStates

\* A request arrives.
LEMMA AdmitIInv ==
  ASSUME IInv, NEW r \in Requests, NEW j \in Jobs, Admit(r, j)
  PROVE  IInv'
<1> USE DEF IInv, Admit, Transition
<1>1. j \in AnyJob /\ j # None  BY JobsAssumption
<1>2. \/ j \in StatusJob /\ FirstStep(j) = "updateStatus"
      \/ j \in NoteJob /\ FirstStep(j) = "createNote"
      \/ j \in TriageJob /\ FirstStep(j) = "departments"
      \/ j \in ReviewJob /\ FirstStep(j) = "findResult"
  BY <1>1, FirstStepMatches
<1>3. j.case \in Cases
  BY <1>1 DEF AnyJob, StatusJob, NoteJob, TriageJob, ReviewJob
<1>4. TypeOK'
  BY <1>1, <1>2, <1>3 DEF TypeOK, InFlightSteps, StatusSteps, NoteSteps,
    RunSteps, ReviewSteps
<1>5. JobMatchesStep'
  BY <1>1, <1>2 DEF TypeOK, JobMatchesStep, StatusSteps, NoteSteps, RunSteps,
    ReviewSteps
<1>6. ResultsHeld'
  BY <1>2 DEF TypeOK, ResultsHeld
<1>7. ReviewsHeld'
  BY <1>2 DEF TypeOK, ResultsHeld, ReviewsHeld, Deciding, ReviewJob
<1> QED BY <1>4, <1>5, <1>6, <1>7

LEMMA RefuseIInv ==
  ASSUME IInv, NEW r \in Requests, NEW j \in Jobs, Refuse(r, j)
  PROVE  IInv'
  BY DEF IInv, Refuse, Transition, TypeOK, JobMatchesStep, ResultsHeld,
    ReviewsHeld, Deciding, Settled, StatusSteps, NoteSteps, RunSteps, ReviewSteps

\* updateStatus and addInternalNote touch neither results nor reviews.
LEMMA StatusIInv ==
  ASSUME IInv, NEW r \in Requests, StatusStep(r)
  PROVE  IInv'
<1> USE DEF IInv, StatusStep, UpdateStatus, AuditStatus, EmailStatus,
            Transition, Audit
<1>1. job[r] \in StatusJob  BY DEF JobMatchesStep, StatusSteps
<1>2. TypeOK'
  <2>1. CASE UpdateStatus(r)
    BY <1>1, <2>1 DEF TypeOK, CaseRow, StatusJob, InFlightSteps, StatusSteps
  <2>2. CASE AuditStatus(r)
    BY <2>2 DEF TypeOK, InFlightSteps, StatusSteps, AuditActions
  <2>3. CASE EmailStatus(r)
    BY <2>3 DEF TypeOK, Settled
  <2> QED BY <2>1, <2>2, <2>3
<1>3. JobMatchesStep'
  BY DEF TypeOK, JobMatchesStep, StatusSteps, NoteSteps, RunSteps, ReviewSteps
<1>4. ResultsHeld'
  BY DEF TypeOK, ResultsHeld
<1>5. ReviewsHeld'
  BY DEF TypeOK, ReviewsHeld, Deciding
<1> QED BY <1>2, <1>3, <1>4, <1>5

LEMMA NoteIInv ==
  ASSUME IInv, NEW r \in Requests, NoteStep(r)
  PROVE  IInv'
<1> USE DEF IInv, NoteStep, CreateNote, AuditNote, Transition, Audit
<1>1. TypeOK'
  BY DEF TypeOK, InFlightSteps, NoteSteps, AuditActions, Settled
<1>2. JobMatchesStep'
  BY DEF TypeOK, JobMatchesStep, StatusSteps, NoteSteps, RunSteps, ReviewSteps
<1>3. ResultsHeld'
  BY DEF TypeOK, ResultsHeld
<1>4. ReviewsHeld'
  BY DEF TypeOK, ReviewsHeld, Deciding
<1> QED BY <1>1, <1>2, <1>3, <1>4

\* A run: only ProviderAnswers changes what it holds, only StoreResult its
\* result, and neither does once its result is stored.
LEMMA RunIInv ==
  ASSUME IInv, NEW r \in Requests, RunStep(r)
  PROVE  IInv'
<1> USE DEF IInv, RunStep, ListDepartments, ProviderAnswers, CatchRun,
            StoreResult, AuditResult, StoreFailure, AuditFailure, Transition,
            Audit
<1>1. job[r] \in TriageJob  BY DEF JobMatchesStep, RunSteps
<1>2. r \notin reviews  BY <1>1 DEF ReviewsHeld
<1>3. TypeOK'
  BY ValuesAssumption DEF TypeOK, InFlightSteps, RunSteps, AuditActions,
    ResultStates, Settled
<1>4. JobMatchesStep'
  BY DEF TypeOK, JobMatchesStep, StatusSteps, NoteSteps, RunSteps, ReviewSteps
<1>5. ResultsHeld'
  BY <1>1, ValuesAssumption DEF TypeOK, ResultsHeld
<1>6. ReviewsHeld'
  BY <1>2 DEF TypeOK, ResultsHeld, ReviewsHeld, Deciding, ReviewJob
<1> QED BY <1>3, <1>4, <1>5, <1>6

\* A review reads its approval once, before it stores anything, from a result
\* of another request: a request that reviews has no result of its own.
LEMMA FindResultIInv ==
  ASSUME IInv, NEW r \in Requests, FindResult(r)
  PROVE  IInv'
<1> USE DEF IInv, FindResult, Transition
<1>1. job[r] \in ReviewJob  BY DEF JobMatchesStep, ReviewSteps
<1>2. r \notin reviews /\ results[r] = "absent"
  BY <1>1 DEF ReviewsHeld, ResultsHeld, ReviewJob, TriageJob
<1>3. CASE pc' = [pc EXCEPT ![r] = "rejected"] /\ held' = held
  BY <1>2, <1>3 DEF TypeOK, JobMatchesStep, ResultsHeld, ReviewsHeld, Deciding,
    InFlightSteps, Settled, StatusSteps, NoteSteps, RunSteps, ReviewSteps
<1>4. CASE /\ Reviewable(job[r])
           /\ job[r].accepted \/ job[r].input.department # UnknownSlug
           /\ pc' = [pc EXCEPT ![r] = "createReview"]
           /\ held' = [held EXCEPT ![r] = ApprovedFields(job[r])]
  <2>1. job[r].result \in Requests /\ job[r].result # r
    BY <1>1, <1>2, <1>4 DEF ReviewJob, Reviewable
  <2>2. ApprovedFields(job[r]) \in Fields
    <3>1. CASE job[r].accepted
      BY <1>4, <2>1, <3>1 DEF ApprovedFields, Reviewable, ResultsHeld
    <3>2. CASE ~job[r].accepted
      BY <1>1, <1>4, <3>2 DEF ApprovedFields, ReviewJob, Fields
    <3> QED BY <3>1, <3>2
  <2>3. TypeOK'
    BY <1>4, <2>2 DEF TypeOK, InFlightSteps, ReviewSteps
  <2>4. JobMatchesStep'
    BY <1>1, <1>4 DEF TypeOK, JobMatchesStep, StatusSteps, NoteSteps, RunSteps,
      ReviewSteps
  <2>5. ResultsHeld'
    BY <1>2, <1>4 DEF TypeOK, ResultsHeld
  <2>6. ReviewsHeld'
    <3> SUFFICES ASSUME NEW s \in Requests, Deciding(s)'
                 PROVE  /\ job[s] \in ReviewJob
                        /\ held'[s] \in Fields
                        /\ results[job[s].result] # "absent"
                        /\ job[job[s].result].case = job[s].case
                        /\ job[s].accepted => held'[s] = held'[job[s].result]
      BY <1>2, <1>4 DEF TypeOK, ReviewsHeld, Deciding
    <3>1. CASE s = r
      BY <1>1, <1>4, <2>1, <2>2, <3>1 DEF TypeOK, Reviewable, ApprovedFields
    <3>2. CASE s # r
      BY <1>2, <1>4, <3>2 DEF TypeOK, ReviewsHeld, Deciding, ReviewJob
    <3> QED BY <3>1, <3>2
  <2> QED BY <2>3, <2>4, <2>5, <2>6
<1> QED BY <1>3, <1>4

\* The later steps of a review leave jobs and held fields alone.
LEMMA ReviewIInv ==
  ASSUME IInv, NEW r \in Requests, ReviewStep(r)
  PROVE  IInv'
<1> USE DEF IInv, Transition, Audit
<1>1. CASE FindResult(r)  BY <1>1, FindResultIInv
<1>2. CASE CreateReview(r) \/ UpdateCase(r) \/ MarkReviewed(r) \/ AuditReview(r)
  <2> USE <1>2 DEF CreateReview, UpdateCase, MarkReviewed, AuditReview
  <2>1. job[r] \in ReviewJob  BY DEF JobMatchesStep, ReviewSteps
  <2>2. job[r].case \in Cases /\ job[r].result \in Requests
    BY <2>1 DEF ReviewJob
  <2>3. held[r] \in Fields /\ results[job[r].result] # "absent"
    BY DEF ReviewsHeld, Deciding
  <2>4. TypeOK'
    <3>1. cases' \in [Cases -> CaseRow]
      <4>1. CASE UpdateCase(r)
        BY <2>2, <2>3, <4>1 DEF TypeOK, CaseRow, Statuses
      <4> QED BY <4>1 DEF TypeOK
    <3>2. results' \in [Requests -> ResultStates]
      BY <2>2 DEF TypeOK, ResultStates
    <3>3. pc' \in [Requests -> {"idle"} \cup InFlightSteps \cup Settled]
      BY DEF TypeOK, InFlightSteps, ReviewSteps, Settled
    <3>4. reviews' \subseteq Requests /\ audit' \subseteq Requests \X AuditActions
      BY DEF TypeOK, AuditActions
    <3> QED BY <3>1, <3>2, <3>3, <3>4 DEF TypeOK
  <2>5. JobMatchesStep'
    BY DEF TypeOK, JobMatchesStep, StatusSteps, NoteSteps, RunSteps, ReviewSteps
  <2>6. ResultsHeld'
    <3>1. results[r] = "absent"
      BY <2>1 DEF ResultsHeld, ReviewJob, TriageJob
    <3>2. \A s \in Requests : results'[s] # "absent" => results[s] # "absent"
      BY <2>2, <2>3 DEF TypeOK
    <3>3. \A s \in Requests : s # r => pc'[s] = pc[s]
      BY DEF TypeOK
    <3> QED BY <3>1, <3>2, <3>3 DEF TypeOK, ResultsHeld
  <2>7. ReviewsHeld'
    BY <2>2, <2>3 DEF TypeOK, ReviewsHeld, Deciding, ReviewJob
  <2> QED BY <2>4, <2>5, <2>6, <2>7
<1> QED BY <1>1, <1>2 DEF ReviewStep

LEMMA FailIInv ==
  ASSUME IInv, NEW r \in Requests, Fail(r)
  PROVE  IInv'
  BY DEF IInv, Fail, TypeOK, JobMatchesStep, ResultsHeld, ReviewsHeld, Deciding,
    UncaughtSteps, InFlightSteps, Settled, StatusSteps, NoteSteps, RunSteps,
    ReviewSteps

LEMMA CrashIInv ==
  ASSUME IInv, Crash
  PROVE  IInv'
  BY DEF IInv, Crash, TypeOK, JobMatchesStep, ResultsHeld, ReviewsHeld, Deciding,
    InFlight, InFlightSteps, Settled, StatusSteps, NoteSteps, RunSteps,
    ReviewSteps

LEMMA StutterIInv ==
  ASSUME IInv, UNCHANGED vars
  PROVE  IInv'
  BY DEF IInv, vars, TypeOK, JobMatchesStep, ResultsHeld, ReviewsHeld, Deciding

LEMMA NextIInv ==
  ASSUME IInv, [Next]_vars
  PROVE  IInv'
<1>1. ASSUME NEW r \in Requests, Settle(r)
      PROVE  IInv'
  BY <1>1, StatusIInv, NoteIInv, RunIInv, ReviewIInv, FailIInv DEF Settle
<1>2. ASSUME NEW r \in Requests, NEW j \in Jobs, Admit(r, j) \/ Refuse(r, j)
      PROVE  IInv'
  BY <1>2, AdmitIInv, RefuseIInv
<1>3. CASE Crash  BY <1>3, CrashIInv
<1>4. CASE AllServed \/ UNCHANGED vars  BY <1>4, StutterIInv DEF AllServed
<1> QED BY <1>1, <1>2, <1>3, <1>4 DEF Next

\* The invariant all the theorems rest on.
LEMMA Bookkeeping == Spec => []IInv
  BY InitIInv, NextIInv, PTL DEF Spec

\* Every variable keeps its type: a request is at a step of its own handler, a
\* case row is a row, and no unknown department slug is ever stored.
THEOREM TypeCorrect == Spec => []TypeOK
<1>1. IInv => TypeOK  BY DEF IInv
<1> QED BY Bookkeeping, <1>1, PTL

-----------------------------------------------------------------------------
(* What one step may do to the case table and to stored reviews.           *)

\* Two steps write a case row.
LEMMA CaseWrites ==
  ASSUME [Next]_vars
  PROVE  /\ origin' = origin
         /\ \/ cases' = cases
            \/ \E r \in Requests : UpdateStatus(r) \/ UpdateCase(r)
  BY DEF Next, vars, Settle, StatusStep, UpdateStatus, AuditStatus, EmailStatus,
    NoteStep, CreateNote, AuditNote, RunStep, ListDepartments, ProviderAnswers,
    CatchRun, StoreResult, AuditResult, StoreFailure, AuditFailure, ReviewStep,
    FindResult, CreateReview, UpdateCase, MarkReviewed, AuditReview, Fail, Crash,
    AllServed, Admit, Refuse

\* One step stores a review.
LEMMA ReviewWrites ==
  ASSUME [Next]_vars
  PROVE  \/ reviews' = reviews
         \/ \E r \in Requests : CreateReview(r)
  BY DEF Next, vars, Settle, StatusStep, UpdateStatus, AuditStatus, EmailStatus,
    NoteStep, CreateNote, AuditNote, RunStep, ListDepartments, ProviderAnswers,
    CatchRun, StoreResult, AuditResult, StoreFailure, AuditFailure, ReviewStep,
    FindResult, CreateReview, UpdateCase, MarkReviewed, AuditReview, Fail, Crash,
    AllServed, Admit, Refuse

\* A request past its arrival keeps its job and what it read.
LEMMA JobKept ==
  ASSUME IInv, [Next]_vars, NEW r \in Requests, pc[r] # "idle"
  PROVE  job'[r] = job[r] /\ seen'[r] = seen[r]
<1>1. ASSUME NEW s \in Requests, NEW j \in Jobs, Admit(s, j)
      PROVE  job'[r] = job[r] /\ seen'[r] = seen[r]
  BY <1>1 DEF IInv, TypeOK, Admit, Transition
<1>2. CASE job' = job /\ seen' = seen
  BY <1>2
<1> QED
  BY <1>1, <1>2 DEF Next, vars, Settle, StatusStep, UpdateStatus, AuditStatus,
    EmailStatus, NoteStep, CreateNote, AuditNote, RunStep, ListDepartments,
    ProviderAnswers, CatchRun, StoreResult, AuditResult, StoreFailure,
    AuditFailure, ReviewStep, FindResult, CreateReview, UpdateCase, MarkReviewed,
    AuditReview, Fail, Crash, AllServed, Refuse

\* What a request holds changes only while it asks the provider or looks for
\* the result to review.
LEMMA HeldKept ==
  ASSUME IInv, [Next]_vars, NEW r \in Requests,
         pc[r] \notin {"provider", "findResult"}
  PROVE  held'[r] = held[r]
<1>1. ASSUME NEW s \in Requests, ProviderAnswers(s) \/ FindResult(s)
      PROVE  held'[r] = held[r]
  BY <1>1 DEF IInv, TypeOK, ProviderAnswers, FindResult, Transition
<1>2. CASE held' = held
  BY <1>2
<1> QED
  BY <1>1, <1>2 DEF Next, vars, Settle, StatusStep, UpdateStatus, AuditStatus,
    EmailStatus, NoteStep, CreateNote, AuditNote, RunStep, ListDepartments,
    CatchRun, StoreResult, AuditResult, StoreFailure, AuditFailure, ReviewStep,
    CreateReview, UpdateCase, MarkReviewed, AuditReview, Fail, Crash, AllServed,
    Admit, Refuse

\* A stored review is never removed or rewritten.
LEMMA ReviewsKept ==
  ASSUME IInv, [Next]_vars, NEW r \in reviews
  PROVE  r \in reviews' /\ job'[r] = job[r] /\ held'[r] = held[r]
<1>1. r \in Requests  BY DEF IInv, TypeOK
<1>2. pc[r] \in {"updateCase", "markReviewed", "auditReview", "done", "failed"}
  BY <1>1 DEF IInv, ReviewsHeld
<1>3. r \in reviews'  BY ReviewWrites DEF CreateReview
<1> QED BY <1>1, <1>2, <1>3, JobKept, HeldKept

-----------------------------------------------------------------------------

\* Closed cases have a closing time, and a closing time sits on a closed case,
\* one a review took back to triaged, or one that started as rejected.
THEOREM ClosedAtSound == Spec => []ClosedAtConsistent
<1>1. Init => ClosedAtConsistent
  BY StartRowsAssumption DEF Init, ClosedAtConsistent
<1>2. ASSUME IInv, ClosedAtConsistent, [Next]_vars
      PROVE  ClosedAtConsistent'
  <2> USE <1>2
  <2>1. CASE cases' = cases
    BY <2>1, CaseWrites DEF ClosedAtConsistent
  <2>2. ASSUME NEW r \in Requests, UpdateStatus(r)
        PROVE  ClosedAtConsistent'
    <3>1. job[r].case \in Cases
      BY <2>2 DEF IInv, JobMatchesStep, StatusSteps, StatusJob, UpdateStatus,
        Transition
    <3> QED
      BY <2>2, <3>1, CaseWrites DEF IInv, TypeOK, CaseRow, UpdateStatus,
        ClosedAtConsistent
  <2>3. ASSUME NEW r \in Requests, UpdateCase(r)
        PROVE  ClosedAtConsistent'
    <3>1. job[r].case \in Cases
      BY <2>3 DEF IInv, JobMatchesStep, ReviewSteps, ReviewJob, UpdateCase,
        Transition
    <3> QED
      BY <2>3, <3>1, CaseWrites DEF IInv, TypeOK, CaseRow, UpdateCase,
        ClosedAtConsistent
  <2> QED BY <2>1, <2>2, <2>3, CaseWrites
<1> QED BY <1>1, <1>2, Bookkeeping, PTL DEF Spec

\* The official fields of every case are the initial ones or those of one
\* stored human review of the case.
THEOREM OfficialFieldsSound == Spec => []OfficialFieldsReviewed
<1>1. Init => OfficialFieldsReviewed
  BY DEF Init, OfficialFieldsReviewed
<1>2. ASSUME IInv, OfficialFieldsReviewed, [Next]_vars
      PROVE  OfficialFieldsReviewed'
  <2> USE <1>2
  <2> SUFFICES ASSUME NEW c \in Cases
               PROVE  \/ cases'[c].official = origin'[c].official
                      \/ \E r \in reviews' : /\ job'[r].case = c
                                             /\ held'[r] = cases'[c].official
    BY DEF OfficialFieldsReviewed, CaseOf
  <2>1. CASE cases'[c].official = cases[c].official
    BY <2>1, CaseWrites, ReviewsKept DEF OfficialFieldsReviewed, CaseOf
  <2>2. ASSUME NEW r \in Requests, UpdateStatus(r)
        PROVE  cases'[c].official = cases[c].official
    BY <2>2 DEF IInv, TypeOK, CaseRow, UpdateStatus
  <2>3. ASSUME NEW r \in Requests, UpdateCase(r),
               cases'[c].official # cases[c].official
        PROVE  /\ r \in reviews
               /\ job[r].case = c /\ held[r] = cases'[c].official
    BY <2>3 DEF IInv, TypeOK, CaseRow, UpdateCase, ReviewsHeld, Transition
  <2> QED BY <2>1, <2>2, <2>3, CaseWrites, ReviewsKept
<1> QED BY <1>1, <1>2, Bookkeeping, PTL DEF Spec

\* Every behaviour of the workflow is one of HumanReviewedTriage: AI runs and
\* status changes stutter, CreateReview records a decision, UpdateCase applies
\* a recorded one.
THEOREM WorkflowImplementsHumanReview == Spec => ImplementsHumanReview
<1> USE DEF OfficialOf, ApprovedFor, CaseOf
<1>1. Init => HumanReview!Init
  BY StartRowsAssumption DEF Init, HumanReview!Init, CaseRow
<1>2. ASSUME IInv, [Next]_vars
      PROVE  [HumanReview!Next]_(HumanReview!vars)
  <2> USE <1>2 DEF HumanReview!vars
  <2>1. ASSUME NEW r \in Requests, UpdateCase(r)
        PROVE  HumanReview!Next
    <3>1. PICK c \in Cases : job[r].case = c
      BY <2>1 DEF IInv, JobMatchesStep, ReviewSteps, ReviewJob, UpdateCase,
        Transition
    <3>2. r \in reviews
      BY <2>1 DEF IInv, UpdateCase, Transition, ReviewsHeld
    <3>3. held[r] \in ApprovedFor[c]
      BY <3>1, <3>2
    <3>4. OfficialOf' = [OfficialOf EXCEPT ![c] = held[r]]
      BY <2>1, <3>1, ZenonT(60) DEF IInv, TypeOK, CaseRow, UpdateCase
    <3>5. ApprovedFor' = ApprovedFor
      BY <2>1 DEF UpdateCase
    <3> QED
      BY <3>3, <3>4, <3>5 DEF HumanReview!Apply, HumanReview!Next
  <2>2. ASSUME NEW r \in Requests, CreateReview(r)
        PROVE  HumanReview!Next
    <3>1. PICK c \in Cases : job[r].case = c
      BY <2>2 DEF IInv, ReviewsHeld, Deciding, ReviewJob, CreateReview,
        Transition
    <3>2. held[r] \in Fields
      BY <2>2 DEF IInv, ReviewsHeld, Deciding, CreateReview, Transition
    <3>3. OfficialOf' = OfficialOf
      BY <2>2 DEF CreateReview
    <3>4. ApprovedFor' = [ApprovedFor EXCEPT ![c] = @ \cup {held[r]}]
      <4>1. ApprovedFor'[c] = ApprovedFor[c] \cup {held[r]}
        BY <2>2, <3>1 DEF CreateReview
      <4>2. ASSUME NEW d \in Cases, d # c
            PROVE  ApprovedFor'[d] = ApprovedFor[d]
        BY <2>2, <3>1, <4>2 DEF CreateReview
      <4>3. /\ ApprovedFor = [d \in Cases |-> ApprovedFor[d]]
            /\ ApprovedFor' = [d \in Cases |-> ApprovedFor'[d]]
        OBVIOUS
      <4> HIDE DEF ApprovedFor
      <4> QED BY <4>1, <4>2, <4>3
    <3> QED
      BY <3>2, <3>3, <3>4 DEF HumanReview!Approve, HumanReview!Next
  <2>3. CASE ~\E r \in Requests : UpdateCase(r) \/ CreateReview(r)
    <3>1. OfficialOf' = OfficialOf
      <4>1. ASSUME NEW r \in Requests, UpdateStatus(r)
            PROVE  \A c \in Cases : cases'[c].official = cases[c].official
        BY <4>1 DEF IInv, TypeOK, CaseRow, UpdateStatus
      <4>2. \A c \in Cases : cases'[c].official = cases[c].official
        BY <2>3, <4>1, CaseWrites
      <4> QED BY <4>2
    <3>2. ApprovedFor' = ApprovedFor
      <4>1. reviews' = reviews
        BY <2>3, ReviewWrites
      <4>2. \A s \in reviews : job'[s] = job[s] /\ held'[s] = held[s]
        BY ReviewsKept
      <4>3. ASSUME NEW c \in Cases
            PROVE  {held'[s] : s \in {x \in reviews : job'[x].case = c}}
                     = {held[s] : s \in {x \in reviews : job[x].case = c}}
        BY <4>2
      <4> QED BY <4>1, <4>3
    <3> QED BY <3>1, <3>2
  <2> QED BY <2>1, <2>2, <2>3
<1> QED
  BY <1>1, <1>2, Bookkeeping, PTL DEF Spec, ImplementsHumanReview, HumanReview!Spec

-----------------------------------------------------------------------------

\* What a writer relied on when it was admitted still describes what it read.
Snapshot ==
  \A r \in Requests :
    /\ pc[r] \in StatusSteps \cup ReviewSteps =>
         /\ seen[r] \in CaseRow
         /\ job[r].user \in Users
         /\ TenantOf[job[r].user] = TenantOf[job[r].case]
         /\ CanUpdateCase(job[r].user, seen[r].official.department, job[r].case)
    /\ pc[r] \in StatusSteps => AllowedTransition(seen[r].status, job[r].next)

\* A handler is entered only by the admission of its request.
LEMMA HandlerEntered ==
  ASSUME IInv, [Next]_vars, NEW r \in Requests,
         NEW S \in {StatusSteps, ReviewSteps}, pc'[r] \in S
  PROVE  pc[r] \in S \/ \E j \in Jobs : Admit(r, j)
<1> USE DEF IInv, TypeOK, StatusSteps, ReviewSteps, Settled, Transition
<1>1. ASSUME NEW s \in Requests, Settle(s)
      PROVE  pc[r] \in S
  BY <1>1 DEF Settle, StatusStep, UpdateStatus, AuditStatus, EmailStatus,
    NoteStep, CreateNote, AuditNote, RunStep, ListDepartments, ProviderAnswers,
    CatchRun, StoreResult, AuditResult, StoreFailure, AuditFailure, ReviewStep,
    FindResult, CreateReview, UpdateCase, MarkReviewed, AuditReview, Fail
<1>2. ASSUME NEW s \in Requests, NEW j \in Jobs, s # r, Admit(s, j)
      PROVE  pc[r] \in S
  BY <1>2 DEF Admit
<1>3. ASSUME NEW s \in Requests, NEW j \in Jobs, Refuse(s, j)
      PROVE  pc[r] \in S
  BY <1>3 DEF Refuse
<1>4. CASE Crash \/ AllServed \/ UNCHANGED vars
  BY <1>4 DEF Crash, AllServed, vars
<1> QED BY <1>1, <1>2, <1>3, <1>4 DEF Next

LEMMA SnapshotHolds == Spec => []Snapshot
<1>1. Init => Snapshot
  BY DEF Init, Snapshot, StatusSteps, ReviewSteps
<1>2. ASSUME IInv, Snapshot, [Next]_vars
      PROVE  Snapshot'
  <2> USE <1>2
  <2> DEFINE Of(r, S) ==
        pc[r] \in S =>
          /\ seen[r] \in CaseRow
          /\ job[r].user \in Users
          /\ TenantOf[job[r].user] = TenantOf[job[r].case]
          /\ CanUpdateCase(job[r].user, seen[r].official.department, job[r].case)
          /\ S = StatusSteps => AllowedTransition(seen[r].status, job[r].next)
  <2>1. ASSUME NEW r \in Requests, NEW S \in {StatusSteps, ReviewSteps}
        PROVE  Of(r, S)'
    <3> SUFFICES ASSUME pc'[r] \in S
                 PROVE  Of(r, S)'
      OBVIOUS
    <3>1. CASE pc[r] \in S
      <4>1. pc[r] # "idle"
        BY <3>1 DEF StatusSteps, ReviewSteps
      <4>2. job'[r] = job[r] /\ seen'[r] = seen[r]
        BY <4>1, JobKept
      <4> QED BY <3>1, <4>2 DEF Snapshot
    <3>2. ASSUME NEW j \in Jobs, Admit(r, j)
          PROVE  Of(r, S)'
      <4>1. job'[r] = j /\ seen'[r] = cases[j.case] /\ pc'[r] = FirstStep(j)
        BY <3>2 DEF IInv, TypeOK, Admit, Transition
      <4>2. j \in AnyJob
        BY JobsAssumption
      <4>3. \/ j \in StatusJob /\ S = StatusSteps
            \/ j \in ReviewJob /\ S = ReviewSteps
        BY <4>1, <4>2, FirstStepMatches DEF StatusSteps, ReviewSteps
      <4>4. /\ j.user \in Users /\ j.user # System /\ j.case \in Cases
            /\ j.kind \in {"status", "review"}
            /\ S = StatusSteps => j.kind = "status"
        BY <4>3, ValuesAssumption DEF StatusJob, ReviewJob, StatusSteps, ReviewSteps
      <4>5. cases[j.case] \in CaseRow
        BY <4>4 DEF IInv, TypeOK
      <4>6. /\ TenantOf[j.user] = TenantOf[j.case]
            /\ MayTouch(j, cases[j.case])
            /\ j.kind = "status" => AllowedTransition(cases[j.case].status, j.next)
        BY <3>2, <4>4 DEF Admit, Admitted, ForeignTenant, ChecksPass, MayTouchAI
      <4> QED BY <4>1, <4>4, <4>5, <4>6 DEF MayTouch
    <3> QED BY <3>1, <3>2, HandlerEntered
  <2>2. \A r \in Requests : Of(r, StatusSteps)' /\ Of(r, ReviewSteps)'
    BY <2>1
  <2> QED BY <2>2 DEF Snapshot
<1> QED BY <1>1, <1>2, Bookkeeping, PTL DEF Spec

\* The step that changes a row, and the row it leaves.
LEMMA RowWriter ==
  ASSUME IInv, [Next]_vars, NEW c \in Cases, cases'[c] # cases[c]
  PROVE  \E r \in Requests :
           /\ Writes(r, c)
           /\ \/ /\ pc[r] = "updateStatus" /\ job[r] \in StatusJob
                 /\ cases'[c].status = job[r].next
              \/ /\ pc[r] = "updateCase" /\ job[r] \in ReviewJob
                 /\ cases'[c].status = "triaged"
<1> USE DEF IInv
<1>1. PICK r \in Requests : UpdateStatus(r) \/ UpdateCase(r)
  BY CaseWrites
<1>2. CASE UpdateStatus(r)
  <2>1. job[r] \in StatusJob /\ job[r] # None
    BY <1>2, JobsAssumption DEF UpdateStatus, Transition, JobMatchesStep,
      StatusSteps, AnyJob
  <2>2. c = job[r].case
    BY <1>2 DEF UpdateStatus, TypeOK
  <2>3. cases'[c].status = job[r].next
    BY <1>2, <2>2 DEF UpdateStatus, TypeOK, CaseRow
  <2>4. pc[r] = "updateStatus" /\ pc'[r] = "auditStatus"
    BY <1>2 DEF UpdateStatus, Transition, TypeOK
  <2> QED BY <2>1, <2>2, <2>3, <2>4 DEF Writes, CaseOf
<1>3. CASE UpdateCase(r)
  <2>1. job[r] \in ReviewJob /\ job[r] # None
    BY <1>3, JobsAssumption DEF UpdateCase, Transition, JobMatchesStep,
      ReviewSteps, AnyJob
  <2>2. c = job[r].case
    BY <1>3 DEF UpdateCase, TypeOK
  <2>3. cases'[c].status = "triaged"
    BY <1>3, <2>2 DEF UpdateCase, TypeOK, CaseRow
  <2>4. pc[r] = "updateCase" /\ pc'[r] = "markReviewed"
    BY <1>3 DEF UpdateCase, Transition, TypeOK
  <2> QED BY <2>1, <2>2, <2>3, <2>4 DEF Writes, CaseOf
<1> QED BY <1>1, <1>2, <1>3

\* Statuses follow the transition table unless a review or a race interferes.
THEOREM StatusesFollowTable == Spec => StatusFollowsTable
<1>1. ASSUME IInv, Snapshot, [Next]_vars
      PROVE  [\A c \in Cases : cases'[c].status # cases[c].status =>
                \E r \in Requests :
                  /\ Writes(r, c)
                  /\ \/ cases'[c].status \in AllowedNext[cases[c].status]
                     \/ pc[r] = "updateCase" /\ cases'[c].status = "triaged"
                     \/ seen[r].status # cases[c].status]_vars
  <2> USE <1>1
  <2>1. ASSUME NEW c \in Cases, cases'[c].status # cases[c].status
        PROVE  \E r \in Requests :
                  /\ Writes(r, c)
                  /\ \/ cases'[c].status \in AllowedNext[cases[c].status]
                     \/ pc[r] = "updateCase" /\ cases'[c].status = "triaged"
                     \/ seen[r].status # cases[c].status
    BY <2>1, RowWriter DEF Snapshot, StatusSteps, AllowedTransition
  <2> QED BY <2>1
<1> QED BY <1>1, Bookkeeping, SnapshotHolds, PTL DEF Spec, StatusFollowsTable

\* A guest who may update a case is one the guest rule does not keep off it.
LEMMA GuestsKeptOff ==
  ASSUME NEW u \in Users, NEW c, NEW d, CanUpdateCase(u, d, c)
  PROVE  GuestMayModify(u, c)
<1>1. CASE RoleOf[u] = "portfolio_guest"
  <2>1. Has(u, "case:update:all_tenant")
    BY <1>1 DEF Has, RoleHasPermission, RolePermissions, PortfolioGuestPermissions
  <2> QED BY <2>1 DEF CanUpdateCase
<1> QED BY <1>1 DEF GuestMayModify

\* Writers stay in their tenant and out of the cases guests may not modify and,
\* but for a race, in their department.
THEOREM WritersScoped == Spec => WritersInScope
<1>1. ASSUME IInv, Snapshot, [Next]_vars
      PROVE  [\A c \in Cases : cases'[c] # cases[c] =>
                \E r \in Requests :
                  /\ Writes(r, c)
                  /\ TenantOf[job[r].user] = TenantOf[c]
                  /\ GuestMayModify(job[r].user, c)
                  /\ \/ CanUpdateCase(job[r].user, cases[c].official.department, c)
                     \/ seen[r].official.department # cases[c].official.department]_vars
  <2> USE <1>1
  <2>1. ASSUME NEW c \in Cases, cases'[c] # cases[c]
        PROVE  \E r \in Requests :
                  /\ Writes(r, c)
                  /\ TenantOf[job[r].user] = TenantOf[c]
                  /\ GuestMayModify(job[r].user, c)
                  /\ \/ CanUpdateCase(job[r].user, cases[c].official.department, c)
                     \/ seen[r].official.department # cases[c].official.department
    <3>1. PICK r \in Requests :
            /\ Writes(r, c)
            /\ TenantOf[job[r].user] = TenantOf[c]
            /\ job[r].user \in Users
            /\ CanUpdateCase(job[r].user, seen[r].official.department, c)
      BY <2>1, RowWriter DEF Snapshot, StatusSteps, ReviewSteps, Writes, CaseOf
    <3>2. GuestMayModify(job[r].user, c)
      BY <3>1, GuestsKeptOff
    <3> QED BY <3>1, <3>2
  <2> QED BY <2>1
<1> QED BY <1>1, Bookkeeping, SnapshotHolds, PTL DEF Spec, WritersInScope

-----------------------------------------------------------------------------

Applied == {"auditReview", "done", "failed"}

\* A request past MarkReviewed stays past it.
LEMMA AppliedKept ==
  ASSUME IInv, [Next]_vars, NEW r \in Requests, pc[r] \in Applied
  PROVE  pc'[r] \in Applied
<1> USE DEF IInv, TypeOK, Applied, Transition
<1>1. ASSUME NEW s \in Requests, Settle(s)
      PROVE  pc'[r] \in Applied
  BY <1>1 DEF Settle, StatusStep, UpdateStatus, AuditStatus, EmailStatus,
    NoteStep, CreateNote, AuditNote, RunStep, ListDepartments, ProviderAnswers,
    CatchRun, StoreResult, AuditResult, StoreFailure, AuditFailure, ReviewStep,
    FindResult, CreateReview, UpdateCase, MarkReviewed, AuditReview, Fail
<1>2. ASSUME NEW s \in Requests, NEW j \in Jobs, Admit(s, j) \/ Refuse(s, j)
      PROVE  pc'[r] \in Applied
  BY <1>2 DEF Admit, Refuse
<1>3. CASE Crash
  BY <1>3 DEF Crash
<1>4. CASE AllServed \/ UNCHANGED vars
  BY <1>4 DEF AllServed, vars
<1> QED BY <1>1, <1>2, <1>3, <1>4 DEF Next

\* A result becomes reviewed by the MarkReviewed of a request that reviews it.
LEMMA ReviewedWrites ==
  ASSUME IInv, [Next]_vars, NEW run \in Requests, results'[run] = "reviewed",
         results[run] # "reviewed"
  PROVE  \E r \in Requests : MarkReviewed(r) /\ job[r].result = run
<1>1. CASE \E r \in Requests : MarkReviewed(r)
  BY <1>1 DEF IInv, TypeOK, MarkReviewed
<1>2. CASE \E r \in Requests : StoreResult(r)
  BY <1>2 DEF IInv, TypeOK, StoreResult
<1>3. CASE results' = results
  BY <1>3
<1> QED
  BY <1>1, <1>2, <1>3 DEF Next, vars, Settle, StatusStep, UpdateStatus,
    AuditStatus, EmailStatus, NoteStep, CreateNote, AuditNote, RunStep,
    ListDepartments, ProviderAnswers, CatchRun, AuditResult, StoreFailure,
    AuditFailure, ReviewStep, FindResult, CreateReview, UpdateCase, AuditReview,
    Fail, Crash, AllServed, Admit, Refuse

\* Every review is of a completed result of its own case, and every result
\* marked reviewed has a stored review that was applied.
THEOREM ReviewsSound == Spec => []ReviewsRestOnResults
<1> DEFINE MarkedHaveReview ==
      \A run \in Requests : results[run] = "reviewed" =>
        \E r \in reviews : job[r].result = run /\ pc[r] \in Applied
<1>1. Init => MarkedHaveReview
  BY DEF Init
<1>2. ASSUME IInv, MarkedHaveReview, [Next]_vars
      PROVE  MarkedHaveReview'
  <2> USE <1>2
  <2> SUFFICES ASSUME NEW run \in Requests, results'[run] = "reviewed"
               PROVE  \E r \in reviews' : job'[r].result = run /\ pc'[r] \in Applied
    OBVIOUS
  <2>1. CASE results[run] = "reviewed"
    <3>1. PICK r \in reviews : job[r].result = run /\ pc[r] \in Applied
      BY <2>1
    <3>2. r \in Requests
      BY DEF IInv, TypeOK
    <3> QED BY <3>1, <3>2, ReviewsKept, AppliedKept
  <2>2. CASE results[run] # "reviewed"
    <3>1. PICK r \in Requests : MarkReviewed(r) /\ job[r].result = run
      BY <2>2, ReviewedWrites
    <3>2. r \in reviews /\ pc'[r] = "auditReview"
      BY <3>1 DEF IInv, TypeOK, ReviewsHeld, MarkReviewed, Transition
    <3> QED BY <3>1, <3>2, ReviewsKept DEF Applied
  <2> QED BY <2>1, <2>2
<1>3. ASSUME IInv, MarkedHaveReview
      PROVE  ReviewsRestOnResults
  <2>1. \A r \in reviews :
          /\ results[job[r].result] # "absent"
          /\ job[job[r].result].case = job[r].case
          /\ job[r].accepted => held[r] = held[job[r].result]
    BY <1>3 DEF IInv, TypeOK, ReviewsHeld, Deciding
  <2> QED BY <1>3, <2>1 DEF ReviewsRestOnResults, CaseOf, Applied
<1> QED BY <1>1, <1>2, <1>3, Bookkeeping, PTL DEF Spec

-----------------------------------------------------------------------------
(* What the handlers have recorded wherever they stop.                     *)

\* Each step that writes an audit event finds done what it reports; a review that
\* is through has marked its result.
StoredFirst ==
  \A r \in Requests :
    /\ pc[r] = "auditNote" => r \in notes
    /\ pc[r] = "auditResult" => results[r] # "absent"
    /\ pc[r] = "auditFailure" => r \in failures
    /\ pc[r] = "auditReview" \/ (r \in reviews /\ pc[r] = "done") =>
         results[job[r].result] = "reviewed"
    /\ r \in failures => pc[r] \in {"auditFailure", "done", "failed"}

\* The mail comes after the event, and every event from a request with no other
\* step before it.
EventsLast ==
  /\ \A r \in Requests :
       pc[r] = "emailStatus" => <<r, "case.status_updated">> \in audit
  /\ \A e \in audit : pc[e[1]] \in {"emailStatus", "done", "failed"}

Reported == StoredFirst /\ EventsLast /\ AuditReportsFacts /\ SecondResultUnaudited

\* A status update: the mail after the audit event.
LEMMA StatusReported ==
  ASSUME IInv, Reported, NEW r \in Requests, StatusStep(r)
  PROVE  Reported'
<1> USE DEF IInv, TypeOK, Reported, Transition, Audit
<1>1. StoredFirst'
  <2>1. CASE UpdateStatus(r)
    BY <2>1 DEF UpdateStatus, StoredFirst, EventsLast, ReviewsHeld
  <2>2. CASE AuditStatus(r)
    BY <2>2 DEF AuditStatus, StoredFirst, EventsLast, ReviewsHeld
  <2>3. CASE EmailStatus(r)
    BY <2>3 DEF EmailStatus, StoredFirst, EventsLast, ReviewsHeld
  <2> QED BY <2>1, <2>2, <2>3 DEF StatusStep
<1>2. EventsLast'
  <2>1. CASE UpdateStatus(r)
    BY <2>1 DEF UpdateStatus, EventsLast, AuditActions
  <2>2. CASE AuditStatus(r)
    BY <2>2 DEF AuditStatus, EventsLast, AuditActions
  <2>3. CASE EmailStatus(r)
    BY <2>3 DEF EmailStatus, EventsLast, AuditActions
  <2> QED BY <2>1, <2>2, <2>3 DEF StatusStep
<1>3. AuditReportsFacts'
  <2>1. CASE UpdateStatus(r)
    BY <2>1 DEF UpdateStatus, AuditReportsFacts, StoredFirst, EventsLast
  <2>2. CASE AuditStatus(r)
    BY <2>2 DEF AuditStatus, AuditReportsFacts, StoredFirst, EventsLast
  <2>3. CASE EmailStatus(r)
    BY <2>3 DEF EmailStatus, AuditReportsFacts, StoredFirst, EventsLast
  <2> QED BY <2>1, <2>2, <2>3 DEF StatusStep
<1>4. SecondResultUnaudited'
  <2>1. CASE UpdateStatus(r)
    BY <2>1 DEF UpdateStatus, SecondResultUnaudited, StoredFirst, EventsLast
  <2>2. CASE AuditStatus(r)
    BY <2>2 DEF AuditStatus, SecondResultUnaudited, StoredFirst, EventsLast
  <2>3. CASE EmailStatus(r)
    BY <2>3 DEF EmailStatus, SecondResultUnaudited, StoredFirst, EventsLast
  <2> QED BY <2>1, <2>2, <2>3 DEF StatusStep
<1> QED BY <1>1, <1>2, <1>3, <1>4

\* A note: the event after the row.
LEMMA NoteReported ==
  ASSUME IInv, Reported, NEW r \in Requests, NoteStep(r)
  PROVE  Reported'
<1> USE DEF IInv, TypeOK, Reported, Transition, Audit
<1>1. StoredFirst'
  <2>1. CASE CreateNote(r)
    BY <2>1 DEF CreateNote, StoredFirst, EventsLast, ReviewsHeld
  <2>2. CASE AuditNote(r)
    BY <2>2 DEF AuditNote, StoredFirst, EventsLast, ReviewsHeld
  <2> QED BY <2>1, <2>2 DEF NoteStep
<1>2. EventsLast'
  <2>1. CASE CreateNote(r)
    BY <2>1 DEF CreateNote, EventsLast, AuditActions
  <2>2. CASE AuditNote(r)
    BY <2>2 DEF AuditNote, EventsLast, AuditActions
  <2> QED BY <2>1, <2>2 DEF NoteStep
<1>3. AuditReportsFacts'
  <2>1. CASE CreateNote(r)
    BY <2>1 DEF CreateNote, AuditReportsFacts, StoredFirst, EventsLast
  <2>2. CASE AuditNote(r)
    BY <2>2 DEF AuditNote, AuditReportsFacts, StoredFirst, EventsLast
  <2> QED BY <2>1, <2>2 DEF NoteStep
<1>4. SecondResultUnaudited'
  <2>1. CASE CreateNote(r)
    BY <2>1 DEF CreateNote, SecondResultUnaudited, StoredFirst, EventsLast
  <2>2. CASE AuditNote(r)
    BY <2>2 DEF AuditNote, SecondResultUnaudited, StoredFirst, EventsLast
  <2> QED BY <2>1, <2>2 DEF NoteStep
<1> QED BY <1>1, <1>2, <1>3, <1>4

\* A run stores its result before its event, and no failed result once that event is
\* written; a result that was reviewed is not stored again.
LEMMA RunReported ==
  ASSUME IInv, Reported, NEW r \in Requests, RunStep(r)
  PROVE  Reported'
<1> USE DEF IInv, TypeOK, Reported, Transition, Audit
<1>1. \A run \in Requests : results[run] = "reviewed" => results'[run] = "reviewed"
  BY DEF ResultsHeld, RunStep, ListDepartments, ProviderAnswers, CatchRun,
    StoreResult, AuditResult, StoreFailure, AuditFailure
<1>2. ASSUME NEW s \in Requests,
             pc[s] \in {"auditReview", "markReviewed"} \/ s \in reviews
      PROVE  job[s].result \in Requests /\ results[job[s].result] # "absent"
  BY <1>2 DEF ReviewsHeld, Deciding, ReviewJob
<1>3. StoredFirst'
  <2>1. CASE ListDepartments(r)
    BY <2>1, <1>1, <1>2 DEF ListDepartments, StoredFirst, EventsLast, ReviewsHeld
  <2>2. CASE ProviderAnswers(r)
    BY <2>2, <1>1, <1>2 DEF ProviderAnswers, StoredFirst, EventsLast, ReviewsHeld
  <2>3. CASE CatchRun(r)
    BY <2>3, <1>1, <1>2 DEF CatchRun, StoredFirst, EventsLast, ReviewsHeld
  <2>4. CASE StoreResult(r)
    BY <2>4, <1>1, <1>2 DEF StoreResult, StoredFirst, EventsLast, ReviewsHeld
  <2>5. CASE AuditResult(r)
    BY <2>5, <1>1, <1>2 DEF AuditResult, StoredFirst, EventsLast, ReviewsHeld
  <2>6. CASE StoreFailure(r)
    BY <2>6, <1>1, <1>2 DEF StoreFailure, StoredFirst, EventsLast, ReviewsHeld
  <2>7. CASE AuditFailure(r)
    BY <2>7, <1>1, <1>2 DEF AuditFailure, StoredFirst, EventsLast, ReviewsHeld
  <2> QED BY <2>1, <2>2, <2>3, <2>4, <2>5, <2>6, <2>7 DEF RunStep
<1>4. EventsLast'
  <2>1. CASE ListDepartments(r)
    BY <2>1, <1>1, <1>2 DEF ListDepartments, EventsLast, AuditActions
  <2>2. CASE ProviderAnswers(r)
    BY <2>2, <1>1, <1>2 DEF ProviderAnswers, EventsLast, AuditActions
  <2>3. CASE CatchRun(r)
    BY <2>3, <1>1, <1>2 DEF CatchRun, EventsLast, AuditActions
  <2>4. CASE StoreResult(r)
    BY <2>4, <1>1, <1>2 DEF StoreResult, EventsLast, AuditActions
  <2>5. CASE AuditResult(r)
    BY <2>5, <1>1, <1>2 DEF AuditResult, EventsLast, AuditActions
  <2>6. CASE StoreFailure(r)
    BY <2>6, <1>1, <1>2 DEF StoreFailure, EventsLast, AuditActions
  <2>7. CASE AuditFailure(r)
    BY <2>7, <1>1, <1>2 DEF AuditFailure, EventsLast, AuditActions
  <2> QED BY <2>1, <2>2, <2>3, <2>4, <2>5, <2>6, <2>7 DEF RunStep
<1>5. AuditReportsFacts'
  <2>1. CASE ListDepartments(r)
    BY <2>1, <1>1, <1>2 DEF ListDepartments, AuditReportsFacts, StoredFirst,
      EventsLast
  <2>2. CASE ProviderAnswers(r)
    BY <2>2, <1>1, <1>2 DEF ProviderAnswers, AuditReportsFacts, StoredFirst,
      EventsLast
  <2>3. CASE CatchRun(r)
    BY <2>3, <1>1, <1>2 DEF CatchRun, AuditReportsFacts, StoredFirst,
      EventsLast
  <2>4. CASE StoreResult(r)
    BY <2>4, <1>1, <1>2 DEF StoreResult, AuditReportsFacts, StoredFirst,
      EventsLast
  <2>5. CASE AuditResult(r)
    BY <2>5, <1>1, <1>2 DEF AuditResult, AuditReportsFacts, StoredFirst,
      EventsLast
  <2>6. CASE StoreFailure(r)
    BY <2>6, <1>1, <1>2 DEF StoreFailure, AuditReportsFacts, StoredFirst,
      EventsLast
  <2>7. CASE AuditFailure(r)
    BY <2>7, <1>1, <1>2 DEF AuditFailure, AuditReportsFacts, StoredFirst,
      EventsLast
  <2> QED BY <2>1, <2>2, <2>3, <2>4, <2>5, <2>6, <2>7 DEF RunStep
<1>6. SecondResultUnaudited'
  <2>1. CASE ListDepartments(r)
    BY <2>1, <1>1, <1>2 DEF ListDepartments, SecondResultUnaudited,
      StoredFirst, EventsLast
  <2>2. CASE ProviderAnswers(r)
    BY <2>2, <1>1, <1>2 DEF ProviderAnswers, SecondResultUnaudited,
      StoredFirst, EventsLast
  <2>3. CASE CatchRun(r)
    BY <2>3, <1>1, <1>2 DEF CatchRun, SecondResultUnaudited, StoredFirst,
      EventsLast
  <2>4. CASE StoreResult(r)
    BY <2>4, <1>1, <1>2 DEF StoreResult, SecondResultUnaudited, StoredFirst,
      EventsLast
  <2>5. CASE AuditResult(r)
    BY <2>5, <1>1, <1>2 DEF AuditResult, SecondResultUnaudited, StoredFirst,
      EventsLast
  <2>6. CASE StoreFailure(r)
    BY <2>6, <1>1, <1>2 DEF StoreFailure, SecondResultUnaudited, StoredFirst,
      EventsLast
  <2>7. CASE AuditFailure(r)
    BY <2>7, <1>1, <1>2 DEF AuditFailure, SecondResultUnaudited, StoredFirst,
      EventsLast
  <2> QED BY <2>1, <2>2, <2>3, <2>4, <2>5, <2>6, <2>7 DEF RunStep
<1> QED BY <1>3, <1>4, <1>5, <1>6

\* A review marks the result before its event, and no result loses its mark.
LEMMA ReviewReported ==
  ASSUME IInv, Reported, NEW r \in Requests, ReviewStep(r)
  PROVE  Reported'
<1> USE DEF IInv, TypeOK, Reported, Transition, Audit
<1>1. \A run \in Requests : results[run] = "reviewed" => results'[run] = "reviewed"
  BY DEF ReviewStep, FindResult, CreateReview, UpdateCase, MarkReviewed,
    AuditReview
<1>2. ASSUME NEW s \in Requests,
             pc[s] \in {"auditReview", "markReviewed"} \/ s \in reviews
      PROVE  job[s].result \in Requests /\ results[job[s].result] # "absent"
  BY <1>2 DEF ReviewsHeld, Deciding, ReviewJob
<1>3. pc[r] = "auditReview" => r \in reviews
  BY DEF ReviewsHeld
<1>4. \A run \in Requests : results'[run] # "absent" => results[run] # "absent"
  BY <1>2 DEF ReviewStep, FindResult, CreateReview, UpdateCase, MarkReviewed,
    AuditReview
<1>5. StoredFirst'
  <2>1. CASE FindResult(r)
    BY <2>1, <1>1, <1>2, <1>3, <1>4 DEF FindResult, StoredFirst, EventsLast, ReviewsHeld
  <2>2. CASE CreateReview(r)
    BY <2>2, <1>1, <1>2, <1>3, <1>4 DEF CreateReview, StoredFirst, EventsLast, ReviewsHeld
  <2>3. CASE UpdateCase(r)
    BY <2>3, <1>1, <1>2, <1>3, <1>4 DEF UpdateCase, StoredFirst, EventsLast, ReviewsHeld
  <2>4. CASE MarkReviewed(r)
    BY <2>4, <1>1, <1>2, <1>3, <1>4 DEF MarkReviewed, StoredFirst, EventsLast, ReviewsHeld
  <2>5. CASE AuditReview(r)
    BY <2>5, <1>1, <1>2, <1>3, <1>4 DEF AuditReview, StoredFirst, EventsLast, ReviewsHeld
  <2> QED BY <2>1, <2>2, <2>3, <2>4, <2>5 DEF ReviewStep
<1>6. EventsLast'
  <2>1. CASE FindResult(r)
    BY <2>1, <1>1, <1>2, <1>3, <1>4 DEF FindResult, EventsLast, AuditActions
  <2>2. CASE CreateReview(r)
    BY <2>2, <1>1, <1>2, <1>3, <1>4 DEF CreateReview, EventsLast, AuditActions
  <2>3. CASE UpdateCase(r)
    BY <2>3, <1>1, <1>2, <1>3, <1>4 DEF UpdateCase, EventsLast, AuditActions
  <2>4. CASE MarkReviewed(r)
    BY <2>4, <1>1, <1>2, <1>3, <1>4 DEF MarkReviewed, EventsLast, AuditActions
  <2>5. CASE AuditReview(r)
    BY <2>5, <1>1, <1>2, <1>3, <1>4 DEF AuditReview, EventsLast, AuditActions
  <2> QED BY <2>1, <2>2, <2>3, <2>4, <2>5 DEF ReviewStep
<1>7. AuditReportsFacts'
  <2>1. CASE FindResult(r)
    BY <2>1, <1>1, <1>2, <1>3, <1>4 DEF FindResult, AuditReportsFacts,
      StoredFirst, EventsLast
  <2>2. CASE CreateReview(r)
    BY <2>2, <1>1, <1>2, <1>3, <1>4 DEF CreateReview, AuditReportsFacts,
      StoredFirst, EventsLast
  <2>3. CASE UpdateCase(r)
    BY <2>3, <1>1, <1>2, <1>3, <1>4 DEF UpdateCase, AuditReportsFacts,
      StoredFirst, EventsLast
  <2>4. CASE MarkReviewed(r)
    BY <2>4, <1>1, <1>2, <1>3, <1>4 DEF MarkReviewed, AuditReportsFacts,
      StoredFirst, EventsLast
  <2>5. CASE AuditReview(r)
    BY <2>5, <1>1, <1>2, <1>3, <1>4 DEF AuditReview, AuditReportsFacts,
      StoredFirst, EventsLast
  <2> QED BY <2>1, <2>2, <2>3, <2>4, <2>5 DEF ReviewStep
<1>8. SecondResultUnaudited'
  <2>1. CASE FindResult(r)
    BY <2>1, <1>1, <1>2, <1>3, <1>4 DEF FindResult, SecondResultUnaudited,
      StoredFirst, EventsLast
  <2>2. CASE CreateReview(r)
    BY <2>2, <1>1, <1>2, <1>3, <1>4 DEF CreateReview, SecondResultUnaudited,
      StoredFirst, EventsLast
  <2>3. CASE UpdateCase(r)
    BY <2>3, <1>1, <1>2, <1>3, <1>4 DEF UpdateCase, SecondResultUnaudited,
      StoredFirst, EventsLast
  <2>4. CASE MarkReviewed(r)
    BY <2>4, <1>1, <1>2, <1>3, <1>4 DEF MarkReviewed, SecondResultUnaudited,
      StoredFirst, EventsLast
  <2>5. CASE AuditReview(r)
    BY <2>5, <1>1, <1>2, <1>3, <1>4 DEF AuditReview, SecondResultUnaudited,
      StoredFirst, EventsLast
  <2> QED BY <2>1, <2>2, <2>3, <2>4, <2>5 DEF ReviewStep
<1> QED BY <1>5, <1>6, <1>7, <1>8

\* A request arrives: it has no records yet.
LEMMA ArrivalReported ==
  ASSUME IInv, Reported, NEW r \in Requests, NEW j \in Jobs,
         Admit(r, j) \/ Refuse(r, j)
  PROVE  Reported'
<1> USE DEF IInv, TypeOK, Reported, Admit, Refuse, Transition
<1>1. \A s \in Requests : s \in reviews \/ pc[s] # "idle" => job'[s] = job[s]
  BY DEF ReviewsHeld
<1>2. pc[r] = "idle" /\ pc'[r] \in {"updateStatus", "createNote", "departments",
                                    "findResult", "rejected"}
  BY JobsAssumption, FirstStepMatches
<1>3. StoredFirst'
  BY <1>1, <1>2 DEF StoredFirst, ReviewsHeld
<1>4. EventsLast'
  BY <1>2 DEF EventsLast
<1>5. AuditReportsFacts'
  BY <1>1 DEF AuditReportsFacts
<1>6. SecondResultUnaudited'
  BY DEF SecondResultUnaudited
<1> QED BY <1>3, <1>4, <1>5, <1>6

\* A request fails, alone or in a crash: what it has recorded stays.
LEMMA FailReported ==
  ASSUME IInv, Reported, (\E r \in Requests : Fail(r)) \/ Crash
  PROVE  Reported'
<1> USE DEF IInv, TypeOK, Reported
<1>1. /\ UNCHANGED <<results, failures, reviews, notes, audit, emails, job>>
      /\ \A s \in Requests : pc'[s] # pc[s] => pc'[s] = "failed" /\ pc[s] # "done"
  BY DEF Fail, Crash, UncaughtSteps, InFlight, InFlightSteps, StatusSteps, NoteSteps,
    RunSteps, ReviewSteps
<1>2. StoredFirst'
  BY <1>1 DEF StoredFirst
<1>3. EventsLast'
  BY <1>1 DEF EventsLast
<1>4. AuditReportsFacts' /\ SecondResultUnaudited'
  BY <1>1 DEF AuditReportsFacts, SecondResultUnaudited
<1> QED BY <1>2, <1>3, <1>4

LEMMA NextReported ==
  ASSUME IInv, Reported, [Next]_vars
  PROVE  Reported'
<1>1. CASE (\E r \in Requests : Fail(r)) \/ Crash
  BY <1>1, FailReported
<1>2. CASE AllServed \/ UNCHANGED vars
  BY <1>2 DEF AllServed, vars, Reported, StoredFirst, EventsLast, AuditReportsFacts,
    SecondResultUnaudited
<1> QED
  BY <1>1, <1>2, StatusReported, NoteReported, RunReported, ReviewReported,
    ArrivalReported DEF Next, Settle

LEMMA ReportedHolds == Spec => []Reported
<1>1. Init => Reported
  BY DEF Init, Reported, StoredFirst, EventsLast, AuditReportsFacts,
    SecondResultUnaudited
<1> QED BY <1>1, NextReported, Bookkeeping, PTL DEF Spec

\* The audit log is append-only.
LEMMA AuditKept ==
  ASSUME [Next]_vars
  PROVE  audit \subseteq audit'
  BY DEF Next, vars, Settle, StatusStep, UpdateStatus, AuditStatus, EmailStatus,
    NoteStep, CreateNote, AuditNote, RunStep, ListDepartments, ProviderAnswers,
    CatchRun, StoreResult, AuditResult, StoreFailure, AuditFailure, ReviewStep,
    FindResult, CreateReview, UpdateCase, MarkReviewed, AuditReview, Fail, Crash,
    AllServed, Admit, Refuse, Audit

\* A request that has written a status leaves no step but by its audit event
\* or a failure.
LEMMA WriteFollowedUp ==
  ASSUME IInv, [Next]_vars, NEW r \in Requests
  PROVE  /\ pc[r] \in {"auditStatus", "failed"} =>
              \/ <<r, "case.status_updated">> \in audit'
              \/ pc'[r] \in {"auditStatus", "failed"}
         /\ pc[r] \in {"markReviewed", "auditReview", "failed"} =>
              \/ <<r, "ai.triage_review_created">> \in audit'
              \/ pc'[r] \in {"markReviewed", "auditReview", "failed"}
<1> USE DEF IInv, TypeOK, Transition, Audit
<1>1. ASSUME NEW s \in Requests, s # r,
             Settle(s) \/ \E j \in Jobs : Admit(s, j) \/ Refuse(s, j)
      PROVE  pc'[r] = pc[r]
  BY <1>1 DEF Settle, StatusStep, UpdateStatus, AuditStatus, EmailStatus,
    NoteStep, CreateNote, AuditNote, RunStep, ListDepartments, ProviderAnswers,
    CatchRun, StoreResult, AuditResult, StoreFailure, AuditFailure, ReviewStep,
    FindResult, CreateReview, UpdateCase, MarkReviewed, AuditReview, Fail, Admit,
    Refuse
<1>2. ASSUME Settle(r), pc[r] \in {"auditStatus", "markReviewed", "auditReview"}
      PROVE  AuditStatus(r) \/ MarkReviewed(r) \/ AuditReview(r) \/ Fail(r)
  BY <1>2 DEF Settle, StatusStep, UpdateStatus, EmailStatus, NoteStep, CreateNote,
    AuditNote, RunStep, ListDepartments, ProviderAnswers, CatchRun, StoreResult,
    AuditResult, StoreFailure, AuditFailure, ReviewStep, FindResult, CreateReview,
    UpdateCase
<1>3. ASSUME Settle(r) \/ \E j \in Jobs : Admit(r, j) \/ Refuse(r, j)
      PROVE  pc[r] # "failed"
  BY <1>3 DEF Settle, StatusStep, UpdateStatus, AuditStatus, EmailStatus,
    NoteStep, CreateNote, AuditNote, RunStep, ListDepartments, ProviderAnswers,
    CatchRun, StoreResult, AuditResult, StoreFailure, AuditFailure, ReviewStep,
    FindResult, CreateReview, UpdateCase, MarkReviewed, AuditReview, Fail, Admit,
    Refuse, UncaughtSteps, InFlightSteps, StatusSteps, NoteSteps, RunSteps, ReviewSteps
<1>4. CASE Settle(r)
  BY <1>2, <1>3, <1>4 DEF AuditStatus, MarkReviewed, AuditReview, Fail
<1>5. CASE \E j \in Jobs : Admit(r, j) \/ Refuse(r, j)
  BY <1>3, <1>5 DEF Admit, Refuse
<1>6. CASE Crash
  BY <1>6 DEF Crash
<1>7. CASE AllServed \/ UNCHANGED vars
  BY <1>7 DEF AllServed, vars
<1> QED BY <1>1, <1>4, <1>5, <1>6, <1>7 DEF Next

\* updateStatus, runCaseTriageForCase and reviewCaseTriage: wherever the handlers
\* stop, every status is accounted for, the audit log reports only facts, and two
\* results of a run mean that the first has no event.
THEOREM RecordsSound == Spec => []RecordsAgree
<1>1. Init => StatusAccountedFor
  BY DEF Init, StatusAccountedFor
<1>2. ASSUME IInv, StatusAccountedFor, [Next]_vars
      PROVE  StatusAccountedFor'
  <2> USE <1>2
  <2> DEFINE Wrote(r, status) ==
        /\ job[r] # None
        /\ \/ /\ job[r].kind = "status" /\ job[r].next = status
              /\ \/ <<r, "case.status_updated">> \in audit
                 \/ pc[r] \in {"auditStatus", "failed"}
           \/ /\ r \in reviews /\ status = "triaged"
              /\ \/ <<r, "ai.triage_review_created">> \in audit
                 \/ pc[r] \in {"markReviewed", "auditReview", "failed"}
  <2>1. ASSUME NEW c \in Cases, cases'[c].status = cases[c].status
        PROVE  \/ cases'[c].status = origin'[c].status
               \/ \E r \in Requests : job'[r].case = c /\ Wrote(r, cases[c].status)'
    <3>1. CASE cases[c].status = origin[c].status
      BY <2>1, <3>1, CaseWrites
    <3>2. ASSUME NEW r \in Requests, job[r].case = c, Wrote(r, cases[c].status)
          PROVE  job'[r].case = c /\ Wrote(r, cases[c].status)'
      <4>1. pc[r] # "idle"
        BY <3>2 DEF IInv, JobMatchesStep
      <4>2. job'[r] = job[r]
        BY <4>1, JobKept
      <4>3. r \in reviews => r \in reviews'
        BY ReviewsKept
      <4>4. CASE /\ job[r].kind = "status" /\ job[r].next = cases[c].status
                 /\ \/ <<r, "case.status_updated">> \in audit
                    \/ pc[r] \in {"auditStatus", "failed"}
        BY <2>1, <3>2, <4>2, <4>4, AuditKept, WriteFollowedUp
      <4>5. CASE /\ r \in reviews /\ cases[c].status = "triaged"
                 /\ \/ <<r, "ai.triage_review_created">> \in audit
                    \/ pc[r] \in {"markReviewed", "auditReview", "failed"}
        BY <2>1, <3>2, <4>2, <4>3, <4>5, AuditKept, WriteFollowedUp
      <4> QED BY <3>2, <4>4, <4>5
    <3>3. \/ cases[c].status = origin[c].status
          \/ \E r \in Requests : job[r].case = c /\ Wrote(r, cases[c].status)
      <4>1. \/ cases[c].status = origin[c].status
            \/ \E r \in Requests :
                 /\ job[r] # None /\ job[r].case = c
                 /\ \/ /\ job[r].kind = "status" /\ job[r].next = cases[c].status
                       /\ \/ <<r, "case.status_updated">> \in audit
                          \/ pc[r] \in {"auditStatus", "failed"}
                    \/ /\ r \in reviews /\ cases[c].status = "triaged"
                       /\ \/ <<r, "ai.triage_review_created">> \in audit
                          \/ pc[r] \in {"markReviewed", "auditReview", "failed"}
        BY DEF StatusAccountedFor, CaseOf
      <4> QED BY <4>1
    <3> HIDE DEF Wrote
    <3> QED BY <3>1, <3>2, <3>3
  <2>2. ASSUME NEW c \in Cases, cases'[c].status # cases[c].status
        PROVE  \E r \in Requests : job'[r].case = c /\ Wrote(r, cases[c].status)'
    <3>1. CASE \E r \in Requests : UpdateStatus(r)
      <4>1. PICK r \in Requests : UpdateStatus(r)
        BY <3>1
      <4>2. job[r] \in StatusJob /\ job[r] # None
        BY <4>1, JobsAssumption DEF IInv, UpdateStatus, Transition, JobMatchesStep,
          StatusSteps, AnyJob
      <4>3. c = job[r].case /\ cases'[c].status = job[r].next
        BY <2>2, <4>1, <4>2 DEF IInv, TypeOK, CaseRow, UpdateStatus
      <4>4. pc'[r] = "auditStatus" /\ job' = job
        BY <4>1 DEF IInv, TypeOK, UpdateStatus, Transition
      <4> QED BY <4>2, <4>3, <4>4 DEF StatusJob
    <3>2. CASE \E r \in Requests : UpdateCase(r)
      <4>1. PICK r \in Requests : UpdateCase(r)
        BY <3>2
      <4>2. job[r] \in ReviewJob /\ job[r] # None
        BY <4>1, JobsAssumption DEF IInv, UpdateCase, Transition, JobMatchesStep,
          ReviewSteps, AnyJob
      <4>3. c = job[r].case /\ cases'[c].status = "triaged"
        BY <2>2, <4>1, <4>2 DEF IInv, TypeOK, CaseRow, UpdateCase
      <4>4. pc'[r] = "markReviewed" /\ r \in reviews'
        BY <4>1 DEF IInv, TypeOK, UpdateCase, Transition, ReviewsHeld
      <4>5. job' = job
        BY <4>1 DEF UpdateCase
      <4> QED BY <4>2, <4>3, <4>4, <4>5
    <3> QED BY <2>2, <3>1, <3>2, CaseWrites
  <2> QED BY <2>1, <2>2 DEF StatusAccountedFor, CaseOf
<1>3. Reported /\ StatusAccountedFor => RecordsAgree
  BY DEF Reported, RecordsAgree
<1> QED BY <1>1, <1>2, <1>3, Bookkeeping, ReportedHolds, PTL DEF Spec

\* reviewCaseTriage takes up a reviewed result again only when two reviews of it
\* overlap, or an earlier one stopped before marking it.
THEOREM NoSecondReview == Spec => NoSecondReviewFromReviewed
<1>1. ASSUME IInv, Reported, [Next]_vars
      PROVE  [\A r \in Requests : pc[r] = "findResult" /\ pc'[r] = "createReview"
                => results[job[r].result] = "completed"
                   /\ \A s \in reviews : job[s].result = job[r].result =>
                        pc[s] \in {"updateCase", "markReviewed", "failed"}]_vars
  <2> USE <1>1
  <2>1. ASSUME NEW r \in Requests, pc[r] = "findResult", pc'[r] = "createReview"
        PROVE  results[job[r].result] = "completed"
    <3>1. ASSUME NEW s \in Requests,
                 Settle(s) \/ \E j \in Jobs : Admit(s, j) \/ Refuse(s, j)
          PROVE  FindResult(r)
      <4> USE <2>1 DEF IInv, TypeOK, Settle, StatusStep, UpdateStatus, AuditStatus,
        EmailStatus, NoteStep, CreateNote, AuditNote, RunStep, ListDepartments,
        ProviderAnswers, CatchRun, StoreResult, AuditResult, StoreFailure,
        AuditFailure, ReviewStep, CreateReview, UpdateCase, MarkReviewed,
        AuditReview, Fail, Admit, Refuse, Transition
      <4>1. CASE s # r
        BY <3>1, <4>1 DEF FindResult
      <4>2. CASE s = r
        BY <3>1, <4>2
      <4> QED BY <4>1, <4>2
    <3>2. FindResult(r) => results[job[r].result] = "completed"
      BY <2>1 DEF FindResult, Reviewable, Transition, IInv, TypeOK
    <3>3. ~(Crash \/ AllServed \/ UNCHANGED vars)
      BY <2>1 DEF Crash, AllServed, vars, IInv, TypeOK
    <3> QED BY <3>1, <3>2, <3>3 DEF Next
  <2>2. ASSUME NEW s \in reviews, results[job[s].result] = "completed"
        PROVE  pc[s] \in {"updateCase", "markReviewed", "failed"}
    BY <2>2 DEF IInv, TypeOK, ReviewsHeld, Reported, StoredFirst
  <2> QED BY <2>1, <2>2
<1> QED BY <1>1, Bookkeeping, ReportedHolds, PTL DEF Spec, NoSecondReviewFromReviewed

=============================================================================
