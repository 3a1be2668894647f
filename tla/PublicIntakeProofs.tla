-------------------------- MODULE PublicIntakeProofs --------------------------
(***************************************************************************)
(* Theorems about RightsSpec, intake beside the privacy officer, for every *)
(* set of submissions, matters, officers and citizens and any number of    *)
(* files.                                                                  *)
(*                                                                         *)
(* The invariants rest on what a handler has stored at each of its steps   *)
(* (StoredSoFar) and on what the browser can know at each (AnswersAgree).  *)
(***************************************************************************)
EXTENDS PrivacyRights, TLAPS

\* The steps after the case is on the audit log, after its address, if any, is
\* stored, and after its files.
Filed == {"logEmail", "respond", "done"}
Placed == {"writeFile", "createDocument", "auditDocument"} \cup Filed
Audited == {"createAddress", "auditAddress"} \cup Placed

DocumentStored(r, i) ==
  /\ <<r, i>> \in files /\ <<r, i>> \in docs
  /\ <<r, "document.uploaded_by_citizen", i>> \in audit

AnswersAgree ==
  \A r \in Requests :
    /\ pc[r] = "idle" =>
         /\ answer[r] = "none" /\ matter[r] = None /\ triage[r] = "none"
         /\ r \notin cases /\ r \notin emails
    /\ InFlight(r) => answer[r] \in {"waiting", "error"}
    /\ pc[r] \in {"failed", "refused"} => answer[r] = "error"
    /\ pc[r] = "done" => answer[r] \in {"confirmed", "error"}

StoredSoFar ==
  \A r \in Requests :
    /\ pc[r] \in {"idle", "createProfile"} => profiles[r] = "none"
    /\ pc[r] \in {"createCase", "auditCase"} \cup Audited => profiles[r] # "none"
    /\ pc[r] \in {"auditCase"} \cup Audited => r \in cases
    /\ pc[r] \in Audited => <<r, "case.created_by_citizen", 0>> \in audit
    /\ pc[r] = "auditAddress" => r \in addresses
    /\ pc[r] \in Placed /\ content[r].address =>
         r \in addresses /\ <<r, "integration.kartverket.address", 0>> \in audit
    /\ \A i \in 1..MaxFiles : i < next[r] => DocumentStored(r, i)
    /\ pc[r] = "createDocument" => <<r, next[r]>> \in files
    /\ pc[r] = "auditDocument" =>
         <<r, next[r]>> \in files /\ <<r, next[r]>> \in docs
    /\ pc[r] \in {"writeFile", "createDocument", "auditDocument"} =>
         next[r] <= content[r].files
    /\ pc[r] \in Filed => content[r].files < next[r]

\* Of two submissions of one matter one was answered with an error.
MattersAnswered ==
  \A r, s \in Requests :
    r # s /\ matter[r] = matter[s] /\ matter[r] # None =>
      answer[r] = "error" \/ answer[s] = "error"

OfficersAgree ==
  \A o \in Officers :
    /\ found[o] # None => profiles[found[o]] # "none"
    /\ at[o] \in {"idle", "rejected"} => found[o] = None /\ o \notin reported
    /\ at[o] \in OfficerSteps => found[o] # None
    /\ at[o] \in {"update", "auditAnonymised"} => errand[o].kind = "anonymise"
    /\ at[o] \in {"findCases", "findEvents", "auditExport"} =>
         errand[o].kind # "anonymise"
    /\ at[o] = "auditAnonymised" => profiles[found[o]] = "anonymised"
    /\ o \in reported => at[o] = "done"

IInv ==
  /\ RightsTypeOK /\ AnswersAgree /\ StoredSoFar
  /\ ConfirmedIsComplete /\ UploadedFilesExplained
  /\ MattersAnswered /\ OfficersAgree /\ AnonymisationAccounted

-----------------------------------------------------------------------------

\* Whoever has passed its last file has stored everything.
LEMMA FiledIsComplete ==
  ASSUME IInv, NEW r \in Requests, pc[r] \in Filed
  PROVE  Complete(r)
<1> USE DEF IInv
<1>1. content[r] \in Content /\ next[r] \in Nat
  BY DEF RightsTypeOK, IntakeTypeOK, Filed
<1>2. content[r].files < next[r]  BY DEF StoredSoFar
<1>3. ASSUME NEW i \in 1..content[r].files
      PROVE  DocumentStored(r, i)
  <2>1. i \in 1..MaxFiles /\ i < next[r]
    BY <1>1, <1>2, IntakeAssumption DEF Content
  <2> QED BY <2>1 DEF StoredSoFar
<1>4. profiles[r] # "none" /\ r \in cases
      /\ <<r, "case.created_by_citizen", 0>> \in audit
  BY DEF StoredSoFar, Filed, Placed, Audited
<1>5. content[r].address =>
        r \in addresses /\ <<r, "integration.kartverket.address", 0>> \in audit
  BY DEF StoredSoFar, Placed
<1> QED BY <1>3, <1>4, <1>5 DEF Complete, DocumentStored

\* Rows, files and events stay, so what is complete stays complete.
LEMMA CompleteStays ==
  ASSUME NEW r, Complete(r),
         profiles[r] # "none" => profiles'[r] # "none",
         cases \subseteq cases', audit \subseteq audit',
         addresses \subseteq addresses',
         files \subseteq files', docs \subseteq docs', content'[r] = content[r]
  PROVE  Complete(r)'
  BY DEF Complete

LEMMA RightsInitIInv == RightsInit => IInv
<1> SUFFICES ASSUME RightsInit PROVE IInv  OBVIOUS
<1> USE IntakeAssumption, PrivacyAssumption DEF RightsInit, IntakeInit
<1>1. RightsTypeOK
  BY DEF RightsTypeOK, IntakeTypeOK, ProfileStates, TriageStates, Answers
<1>2. AnswersAgree
  BY DEF AnswersAgree, InFlight, HandlerSteps
<1>3. StoredSoFar
  BY DEF StoredSoFar, Filed, Placed, Audited
<1>4. ConfirmedIsComplete
  BY DEF ConfirmedIsComplete
<1>5. UploadedFilesExplained
  BY DEF UploadedFilesExplained
<1>6. MattersAnswered
  BY DEF MattersAnswered
<1>7. OfficersAgree
  BY DEF OfficersAgree, OfficerSteps
<1>8. AnonymisationAccounted
  BY DEF AnonymisationAccounted
<1> QED BY <1>1, <1>2, <1>3, <1>4, <1>5, <1>6, <1>7, <1>8 DEF IInv

-----------------------------------------------------------------------------

\* What citizens and their submissions do leaves the officers' conjuncts alone, as
\* long as a profile only gets its name when it has none.
LEMMA OfficersKeep ==
  ASSUME IInv, UNCHANGED privacyVars,
         \A r \in Requests :
           \/ profiles'[r] = profiles[r]
           \/ profiles[r] = "none" /\ profiles'[r] = "named"
  PROVE  OfficersAgree' /\ AnonymisationAccounted'
<1> USE DEF IInv, privacyVars
<1>1. OfficersAgree'
  BY DEF OfficersAgree, RightsTypeOK
<1>2. ASSUME NEW r \in Requests, profiles[r] = "none", NEW o \in Officers
      PROVE  found[o] # r
  BY <1>2, PrivacyAssumption DEF OfficersAgree
<1>3. AnonymisationAccounted'
  BY <1>2 DEF AnonymisationAccounted
<1> QED BY <1>1, <1>3

\* What every step of the handler has in common: it belongs to a submission under
\* way, and what is stored stays; a profile is only made where there is none.
LEMMA HandlerActive ==
  ASSUME NEW r \in Requests, HandlerStep(r)
  PROVE  InFlight(r) /\ content' = content /\ matter' = matter
  BY DEF InFlight, HandlerSteps, HandlerStep, CreateProfile, CreateCase,
    AuditCase, CreateAddress, AuditAddress, WriteFile, CreateDocument,
    AuditDocument, LogEmail, Respond, FailIntake, Goes

LEMMA HandlerGrows ==
  ASSUME IInv, NEW r \in Requests, HandlerStep(r)
  PROVE  /\ cases \subseteq cases' /\ audit \subseteq audit'
         /\ addresses \subseteq addresses'
         /\ files \subseteq files' /\ docs \subseteq docs'
         /\ \A s \in Requests :
              \/ profiles'[s] = profiles[s]
              \/ profiles[s] = "none" /\ profiles'[s] = "named"
  BY DEF IInv, RightsTypeOK, IntakeTypeOK, StoredSoFar, HandlerStep,
    CreateProfile, CreateCase, AuditCase, CreateAddress, AuditAddress,
    WriteFile, CreateDocument, AuditDocument, LogEmail, Respond, FailIntake,
    Goes, tables

\* A step of the handler keeps the types: its file number is in range.
LEMMA HandlerTypeOK ==
  ASSUME IInv, NEW r \in Requests, HandlerStep(r), UNCHANGED privacyVars
  PROVE  RightsTypeOK'
<1> USE DEF IInv, privacyVars, RightsTypeOK
<1>1. content[r] \in Content \/ pc[r] = "idle"
  BY DEF IntakeTypeOK
<1>2. pc[r] # "idle"
  BY HandlerActive DEF InFlight, HandlerSteps
<1>3. content[r] \in Content /\ next[r] \in Nat
  BY <1>1, <1>2 DEF IntakeTypeOK
<1>4. pc[r] \in {"writeFile", "createDocument", "auditDocument"} =>
        <<r, next[r]>> \in FileNames
  <2>1. SUFFICES ASSUME pc[r] \in {"writeFile", "createDocument", "auditDocument"}
                PROVE  next[r] \in 1..MaxFiles
    BY DEF FileNames
  <2>2. next[r] <= content[r].files  BY <2>1 DEF StoredSoFar
  <2>3. content[r].files \in 0..MaxFiles  BY <1>3 DEF Content
  <2>4. next[r] \in 1..(MaxFiles + 1)  BY DEF IntakeTypeOK
  <2> QED BY <2>2, <2>3, <2>4, IntakeAssumption
<1>5. IntakeTypeOK'
  <2> USE <1>3, <1>4, IntakeAssumption DEF Goes, IntakeTypeOK, ProfileStates,
      TriageStates, TriageSteps, Answers, Actions, HandlerSteps, tables
  <2>1. CASE CreateProfile(r)
    BY <2>1 DEF CreateProfile
  <2>2. CASE CreateCase(r)
    BY <2>2 DEF CreateCase
  <2>3. CASE AuditCase(r)
    BY <2>3 DEF AuditCase, AfterCase, NextFileOrEmail
  <2>4. CASE CreateAddress(r)
    BY <2>4 DEF CreateAddress
  <2>5. CASE AuditAddress(r)
    BY <2>5 DEF AuditAddress, NextFileOrEmail
  <2>6. CASE WriteFile(r)
    BY <2>6 DEF WriteFile
  <2>7. CASE CreateDocument(r)
    BY <2>7 DEF CreateDocument
  <2>8. CASE AuditDocument(r)
    BY <2>8 DEF AuditDocument
  <2>9. CASE LogEmail(r)
    BY <2>9 DEF LogEmail
  <2>10. CASE Respond(r)
    BY <2>10 DEF Respond
  <2>11. CASE FailIntake(r)
    BY <2>11 DEF FailIntake
  <2> QED
    BY <2>1, <2>2, <2>3, <2>4, <2>5, <2>6, <2>7, <2>8, <2>9, <2>10, <2>11 DEF
      HandlerStep
<1> QED BY <1>5

\* What the browser knows still agrees with where the handler is.
LEMMA HandlerAnswersAgree ==
  ASSUME IInv, NEW r \in Requests, HandlerStep(r)
  PROVE  AnswersAgree'
<1> USE DEF IInv, RightsTypeOK
<1>1. AnswersAgree'
  <2> USE DEF Goes, AnswersAgree, InFlight, IntakeTypeOK, HandlerSteps, tables
  <2>1. CASE CreateProfile(r)
    BY <2>1 DEF CreateProfile
  <2>2. CASE CreateCase(r)
    BY <2>2 DEF CreateCase
  <2>3. CASE AuditCase(r)
    BY <2>3 DEF AuditCase, AfterCase, NextFileOrEmail
  <2>4. CASE CreateAddress(r)
    BY <2>4 DEF CreateAddress
  <2>5. CASE AuditAddress(r)
    BY <2>5 DEF AuditAddress, NextFileOrEmail
  <2>6. CASE WriteFile(r)
    BY <2>6 DEF WriteFile
  <2>7. CASE CreateDocument(r)
    BY <2>7 DEF CreateDocument
  <2>8. CASE AuditDocument(r)
    BY <2>8 DEF AuditDocument
  <2>9. CASE LogEmail(r)
    BY <2>9 DEF LogEmail
  <2>10. CASE Respond(r)
    BY <2>10 DEF Respond
  <2>11. CASE FailIntake(r)
    BY <2>11 DEF FailIntake
  <2> QED
    BY <2>1, <2>2, <2>3, <2>4, <2>5, <2>6, <2>7, <2>8, <2>9, <2>10, <2>11 DEF
      HandlerStep
<1> QED BY <1>1

\* Each step stores what the steps after it take for stored.
LEMMA HandlerStoredSoFar ==
  ASSUME IInv, NEW r \in Requests, HandlerStep(r)
  PROVE  StoredSoFar'
<1> USE DEF IInv, RightsTypeOK
<1>1. pc[r] # "idle"
  BY HandlerActive DEF InFlight, HandlerSteps
<1>2. content[r] \in Content /\ next[r] \in Nat
  BY <1>1 DEF IntakeTypeOK
<1>3. \A i \in 1..MaxFiles : i < next[r] + 1 => i < next[r] \/ i = next[r]
  BY <1>2, IntakeAssumption
<1>4. StoredSoFar'
  <2> USE <1>2, IntakeAssumption DEF Goes, StoredSoFar, DocumentStored, Filed,
      Placed, Audited, IntakeTypeOK, Content, tables
  <2>1. CASE CreateProfile(r)
    BY <2>1, ZenonT(60) DEF CreateProfile
  <2>2. CASE CreateCase(r)
    BY <2>2, ZenonT(60) DEF CreateCase
  <2>3. CASE AuditCase(r)
    <3>1. /\ pc[r] = "auditCase"
          /\ pc'[r] = IF content[r].address THEN "createAddress"
                     ELSE NextFileOrEmail(r)
          /\ \A s \in Requests : s # r => pc'[s] = pc[s]
          /\ audit' = audit \cup {<<r, "case.created_by_citizen", 0>>}
          /\ UNCHANGED <<profiles, cases, addresses, files, docs, content, next>>
      BY <2>3 DEF AuditCase, AfterCase
    <3>2. next[r] <= content[r].files \/ content[r].files < next[r]
      BY <1>2, IntakeAssumption DEF Content
    <3> QED BY <3>1, <3>2, ZenonT(60) DEF NextFileOrEmail
  <2>4. CASE CreateAddress(r)
    BY <2>4 DEF CreateAddress
  <2>5. CASE AuditAddress(r)
    <3>1. /\ pc[r] = "auditAddress"
          /\ pc'[r] = NextFileOrEmail(r)
          /\ \A s \in Requests : s # r => pc'[s] = pc[s]
          /\ audit' = audit \cup {<<r, "integration.kartverket.address", 0>>}
          /\ UNCHANGED <<profiles, cases, addresses, files, docs, content, next>>
      BY <2>5 DEF AuditAddress
    <3>2. next[r] <= content[r].files \/ content[r].files < next[r]
      BY <1>2, IntakeAssumption DEF Content
    <3> QED BY <3>1, <3>2, ZenonT(60) DEF NextFileOrEmail
  <2>6. CASE WriteFile(r)
    BY <2>6, ZenonT(60) DEF WriteFile
  <2>7. CASE CreateDocument(r)
    BY <2>7, ZenonT(60) DEF CreateDocument
  <2>8. CASE AuditDocument(r)
    <3>1. /\ pc[r] = "auditDocument"
          /\ pc'[r] = IF next'[r] <= content[r].files
                     THEN "writeFile" ELSE "logEmail"
          /\ next'[r] = next[r] + 1
          /\ \A s \in Requests : s # r => pc'[s] = pc[s] /\ next'[s] = next[s]
          /\ audit' = audit \cup {<<r, "document.uploaded_by_citizen", next[r]>>}
          /\ UNCHANGED <<profiles, cases, addresses, files, docs, content>>
      BY <2>8 DEF AuditDocument
    <3>2. next'[r] <= content[r].files \/ content[r].files < next'[r]
      BY <1>2, <3>1, IntakeAssumption DEF Content
    <3>3. ASSUME NEW i \in 1..MaxFiles, i < next'[r]
          PROVE  DocumentStored(r, i)'
      <4>1. i < next[r] \/ i = next[r]
        BY <1>3, <3>1, <3>3
      <4> QED BY <3>1, <4>1 DEF StoredSoFar, DocumentStored
    <3>4. ASSUME NEW s \in Requests, s # r, NEW i \in 1..MaxFiles, i < next'[s]
          PROVE  DocumentStored(s, i)'
      BY <3>1, <3>4 DEF StoredSoFar, DocumentStored
    <3> QED BY <3>1, <3>2, <3>3, <3>4, ZenonT(60) DEF StoredSoFar, Filed, Placed, Audited
  <2>9. CASE LogEmail(r)
    BY <2>9 DEF LogEmail
  <2>10. CASE Respond(r)
    BY <2>10 DEF Respond
  <2>11. CASE FailIntake(r)
    BY <2>11 DEF FailIntake, HandlerSteps
  <2> QED
    BY <2>1, <2>2, <2>3, <2>4, <2>5, <2>6, <2>7, <2>8, <2>9, <2>10, <2>11 DEF
      HandlerStep
<1> QED BY <1>4

\* A file gets its row in the step after the one that writes it.
LEMMA HandlerUploadedFilesExplained ==
  ASSUME IInv, NEW r \in Requests, HandlerStep(r)
  PROVE  UploadedFilesExplained'
<1> USE DEF IInv, RightsTypeOK
<1>1. UploadedFilesExplained'
  <2> USE DEF Goes, UploadedFilesExplained, StoredSoFar, IntakeTypeOK, tables
  <2>1. CASE CreateProfile(r)
    BY <2>1 DEF CreateProfile
  <2>2. CASE CreateCase(r)
    BY <2>2 DEF CreateCase
  <2>3. CASE AuditCase(r)
    BY <2>3 DEF AuditCase, AfterCase, NextFileOrEmail
  <2>4. CASE CreateAddress(r)
    BY <2>4 DEF CreateAddress
  <2>5. CASE AuditAddress(r)
    BY <2>5 DEF AuditAddress, NextFileOrEmail
  <2>6. CASE WriteFile(r)
    BY <2>6 DEF WriteFile
  <2>7. CASE CreateDocument(r)
    <3>1. /\ pc[r] = "createDocument" /\ <<r, next[r]>> \in files
          /\ docs' = docs \cup {<<r, next[r]>>}
          /\ \A s \in Requests : s # r => pc'[s] = pc[s]
          /\ UNCHANGED <<files, next>>
      BY <2>7 DEF CreateDocument, StoredSoFar
    <3>2. docs' \subseteq files'
      BY <3>1 DEF UploadedFilesExplained
    <3>3. ASSUME NEW s \in Requests, NEW i \in 1..MaxFiles,
                 <<s, i>> \in files' \ docs'
          PROVE  next'[s] = i /\ pc'[s] \in {"createDocument", "failed"}
      <4>1. <<s, i>> \in files \ docs /\ <<s, i>> # <<r, next[r]>>
        BY <3>1, <3>3
      <4>2. next[s] = i /\ pc[s] \in {"createDocument", "failed"}
        BY <4>1 DEF UploadedFilesExplained
      <4> QED BY <3>1, <4>1, <4>2
    <3> QED BY <3>2, <3>3 DEF UploadedFilesExplained
  <2>8. CASE AuditDocument(r)
    BY <2>8 DEF AuditDocument
  <2>9. CASE LogEmail(r)
    BY <2>9 DEF LogEmail
  <2>10. CASE Respond(r)
    BY <2>10 DEF Respond
  <2>11. CASE FailIntake(r)
    BY <2>11 DEF FailIntake, HandlerSteps
  <2> QED
    BY <2>1, <2>2, <2>3, <2>4, <2>5, <2>6, <2>7, <2>8, <2>9, <2>10, <2>11 DEF
      HandlerStep
<1> QED BY <1>1

\* The mail and the response come after the last file.
LEMMA HandlerConfirmedIsComplete ==
  ASSUME IInv, NEW r \in Requests, HandlerStep(r)
  PROVE  ConfirmedIsComplete'
<1> USE DEF IInv, RightsTypeOK
<1>1. ASSUME NEW s \in Requests, Complete(s)
      PROVE  Complete(s)'
  <2>1. profiles[s] # "none" => profiles'[s] # "none"
    BY HandlerGrows
  <2> QED BY <1>1, <2>1, HandlerGrows, HandlerActive, CompleteStays
<1>2. pc[r] \in {"logEmail", "respond"} => Complete(r)
  BY FiledIsComplete DEF Filed
<1>3. ASSUME NEW s \in Requests,
             answer'[s] = "confirmed" \/ s \in emails' \/ triage'[s] # "none"
      PROVE  Complete(s)
  <2>1. CASE LogEmail(r) \/ Respond(r)
    BY <1>2, <1>3, <2>1 DEF LogEmail, Respond, Goes, ConfirmedIsComplete,
      tables, IntakeTypeOK
  <2>2. CASE ~(LogEmail(r) \/ Respond(r))
    BY <1>3, <2>2 DEF HandlerStep, CreateProfile, CreateCase, AuditCase,
      CreateAddress, AuditAddress, WriteFile, CreateDocument, AuditDocument,
      LogEmail, Respond, FailIntake, Goes, ConfirmedIsComplete, tables,
      IntakeTypeOK
  <2> QED BY <2>1, <2>2
<1> QED BY <1>1, <1>3 DEF ConfirmedIsComplete

\* Together: a step of the handler.
LEMMA HandlerIInv ==
  ASSUME IInv, NEW r \in Requests, HandlerStep(r), UNCHANGED privacyVars
  PROVE  IInv'
<1>1. MattersAnswered'
  BY DEF IInv, MattersAnswered, RightsTypeOK, IntakeTypeOK, HandlerStep,
    CreateProfile, CreateCase, AuditCase, CreateAddress, AuditAddress,
    WriteFile, CreateDocument, AuditDocument, LogEmail, Respond, FailIntake,
    Goes, tables
<1>2. OfficersAgree' /\ AnonymisationAccounted'
  BY HandlerGrows, OfficersKeep
<1> QED
  BY <1>1, <1>2, HandlerTypeOK, HandlerAnswersAgree, HandlerStoredSoFar,
    HandlerUploadedFilesExplained, HandlerConfirmedIsComplete DEF IInv

-----------------------------------------------------------------------------

\* A matter is submitted.
LEMMA SubmitIInv ==
  ASSUME IInv, NEW r \in Requests, NEW m \in Matters, NEW c \in Contents[r],
         Submit(r, m, c), UNCHANGED privacyVars
  PROVE  IInv'
<1> USE DEF IInv, Submit, tables, privacyVars
<1>1. c \in Content /\ m # None /\ c # None
  BY IntakeAssumption
<1>2. RightsTypeOK'
  BY <1>1 DEF RightsTypeOK, IntakeTypeOK, HandlerSteps, Answers
<1>3. AnswersAgree'
  BY <1>1 DEF AnswersAgree, InFlight, HandlerSteps, RightsTypeOK, IntakeTypeOK
<1>4. StoredSoFar'
  <2>1. ASSUME NEW s \in Requests, s # r
        PROVE  /\ pc'[s] = pc[s] /\ content'[s] = content[s]
               /\ next' = next /\ profiles' = profiles
    BY <2>1 DEF RightsTypeOK, IntakeTypeOK
  <2>2. pc'[r] \in {"createProfile", "refused"}
    BY DEF RightsTypeOK, IntakeTypeOK
  <2> QED BY <2>1, <2>2 DEF StoredSoFar, DocumentStored, Filed, Placed, Audited
<1>5. ConfirmedIsComplete'
  <2>1. ASSUME NEW s \in Requests,
               answer'[s] = "confirmed" \/ s \in emails' \/ triage'[s] # "none"
        PROVE  s # r /\ Complete(s) /\ content'[s] = content[s]
    BY <2>1 DEF ConfirmedIsComplete, AnswersAgree, RightsTypeOK, IntakeTypeOK
  <2> QED BY <2>1 DEF ConfirmedIsComplete, Complete
<1>6. UploadedFilesExplained'
  BY DEF UploadedFilesExplained, RightsTypeOK, IntakeTypeOK
<1>7. MattersAnswered'
  BY DEF MattersAnswered, RightsTypeOK, IntakeTypeOK
<1>8. OfficersAgree' /\ AnonymisationAccounted'
  BY OfficersKeep
<1> QED BY <1>2, <1>3, <1>4, <1>5, <1>6, <1>7, <1>8

\* The answer is lost, or a run goes on: nothing is stored.
LEMMA AwayIInv ==
  ASSUME IInv, NEW r \in Requests, LoseAnswer(r) \/ RunStep(r),
         UNCHANGED privacyVars
  PROVE  IInv'
<1> USE DEF IInv, LoseAnswer, RunStep, AskProvider, StoreOutcome, RunRejects,
            RunGoes, TriageSteps, tables, control, privacyVars
<1>1. RightsTypeOK'
  BY DEF RightsTypeOK, IntakeTypeOK, Answers, TriageStates
<1>2. AnswersAgree'
  BY DEF AnswersAgree, InFlight, HandlerSteps, RightsTypeOK, IntakeTypeOK
<1>3. StoredSoFar'
  BY DEF StoredSoFar, DocumentStored
<1>4. ConfirmedIsComplete'
  BY DEF ConfirmedIsComplete, Complete, RightsTypeOK, IntakeTypeOK
<1>5. UploadedFilesExplained'
  BY DEF UploadedFilesExplained
<1>6. MattersAnswered'
  BY DEF MattersAnswered, RightsTypeOK, IntakeTypeOK
<1>7. OfficersAgree' /\ AnonymisationAccounted'
  BY OfficersKeep
<1> QED BY <1>1, <1>2, <1>3, <1>4, <1>5, <1>6, <1>7

-----------------------------------------------------------------------------

\* An officer's request leaves intake alone but for an anonymised profile, which
\* is still a profile.
LEMMA IntakeKeeps ==
  ASSUME IInv, IntakeTypeOK',
         UNCHANGED <<cases, addresses, files, docs, audit, emails>>,
         UNCHANGED <<triage, control>>,
         \A r \in Requests :
           \/ profiles'[r] = profiles[r]
           \/ profiles[r] # "none" /\ profiles'[r] # "none"
  PROVE  /\ AnswersAgree' /\ StoredSoFar' /\ ConfirmedIsComplete'
         /\ UploadedFilesExplained' /\ MattersAnswered'
<1> USE DEF IInv, control
<1>1. AnswersAgree'
  BY DEF AnswersAgree, InFlight
<1>2. StoredSoFar'
  BY DEF StoredSoFar, DocumentStored
<1>3. ConfirmedIsComplete'
  BY DEF ConfirmedIsComplete, Complete
<1>4. UploadedFilesExplained'
  BY DEF UploadedFilesExplained
<1>5. MattersAnswered'
  BY DEF MattersAnswered
<1> QED BY <1>1, <1>2, <1>3, <1>4, <1>5

\* A request begins, finding a profile or none.
LEMMA FindIInv ==
  ASSUME IInv, NEW o \in Officers, NEW e \in Errands,
         NoProfile(o, e) \/ \E r \in Requests : FindProfile(o, e, r)
  PROVE  IInv'
<1> USE DEF IInv, OfficerGoes, intakeVars, tables, control, RightsTypeOK
<1>1. e.kind \in {"export", "anonymise", "exportByEmail"}
  BY PrivacyAssumption DEF ErrandById, ErrandByEmail
<1>2. CASE NoProfile(o, e)
  <2>1. RightsTypeOK'
    BY <1>2 DEF NoProfile, IntakeTypeOK
  <2>2. OfficersAgree'
    BY <1>2 DEF NoProfile, OfficersAgree, OfficerSteps
  <2>3. AnonymisationAccounted'
    BY <1>2, PrivacyAssumption DEF NoProfile, OfficersAgree,
      AnonymisationAccounted
  <2> QED BY <1>2, <2>1, <2>2, <2>3, IntakeKeeps DEF NoProfile
<1>3. ASSUME NEW r \in Requests, FindProfile(o, e, r)
      PROVE  IInv'
  <2>1. profiles[r] # "none"
    BY <1>3 DEF FindProfile, Found
  <2>2. RightsTypeOK'
    BY <1>3 DEF FindProfile, IntakeTypeOK, OfficerSteps
  <2>3. OfficersAgree'
    BY <1>3, <1>1, <2>1, PrivacyAssumption DEF FindProfile, OfficersAgree,
      OfficerSteps
  <2>4. AnonymisationAccounted'
    BY <1>3, PrivacyAssumption DEF FindProfile, OfficersAgree,
      AnonymisationAccounted
  <2> QED BY <1>3, <2>2, <2>3, <2>4, IntakeKeeps DEF FindProfile
<1> QED BY <1>2, <1>3

LEMMA OfficerIInv ==
  ASSUME IInv, NEW o \in Officers, OfficerStep(o)
  PROVE  IInv'
<1> USE DEF IInv, OfficerStep, OfficerGoes, intakeVars, tables, control,
  RightsTypeOK
<1>1. CASE AnonymiseProfile(o)
  <2>1. /\ found[o] \in Requests /\ profiles[found[o]] # "none"
        /\ errand[o].kind = "anonymise"
    BY <1>1 DEF AnonymiseProfile, OfficersAgree, OfficerSteps
  <2>2. RightsTypeOK'
    BY <1>1, <2>1 DEF AnonymiseProfile, IntakeTypeOK, ProfileStates,
      OfficerSteps
  <2>3. OfficersAgree'
    BY <1>1, <2>1 DEF AnonymiseProfile, OfficersAgree, OfficerSteps,
      IntakeTypeOK
  <2>4. AnonymisationAccounted'
    BY <1>1, <2>1 DEF AnonymiseProfile, AnonymisationAccounted, OfficersAgree,
      IntakeTypeOK
  <2>5. \A r \in Requests :
          \/ profiles'[r] = profiles[r]
          \/ profiles[r] # "none" /\ profiles'[r] # "none"
    BY <1>1, <2>1 DEF AnonymiseProfile, IntakeTypeOK
  <2> QED BY <1>1, <2>2, <2>3, <2>4, <2>5, IntakeKeeps DEF AnonymiseProfile
<1>2. CASE ReadExport(o) \/ AuditOfficer(o) \/ FailOfficer(o)
  <2> USE <1>2 DEF ReadExport, AuditOfficer, FailOfficer
  <2>1. RightsTypeOK'
    BY DEF IntakeTypeOK, OfficerSteps
  <2>2. OfficersAgree'
    BY DEF OfficersAgree, OfficerSteps
  <2>3. AnonymisationAccounted'
    BY PrivacyAssumption DEF AnonymisationAccounted, OfficersAgree, OfficerSteps
  <2> QED BY <2>1, <2>2, <2>3, IntakeKeeps
<1> QED BY <1>1, <1>2

\* The process dies: whatever was under way has failed.
LEMMA CrashIInv ==
  ASSUME IInv, Crash
  PROVE  IInv'
<1> USE DEF IInv, Crash, IntakeDies, tables, RightsTypeOK
<1>1. RightsTypeOK'
  BY DEF IntakeTypeOK, InFlight, HandlerSteps, TriageStates, Answers
<1>2. AnswersAgree'
  BY DEF AnswersAgree, InFlight, HandlerSteps, IntakeTypeOK, TriageSteps
<1>3. StoredSoFar'
  BY DEF StoredSoFar, DocumentStored, IntakeTypeOK, InFlight, HandlerSteps,
    Filed,
    Placed, Audited
<1>4. ConfirmedIsComplete'
  BY DEF ConfirmedIsComplete, Complete, IntakeTypeOK, TriageSteps
<1>5. UploadedFilesExplained'
  BY DEF UploadedFilesExplained, IntakeTypeOK, InFlight, HandlerSteps
<1>6. MattersAnswered'
  BY DEF MattersAnswered, IntakeTypeOK
<1>7. OfficersAgree'
  BY DEF OfficersAgree, OfficerSteps
<1>8. AnonymisationAccounted'
  BY DEF AnonymisationAccounted, OfficerSteps
<1> QED BY <1>1, <1>2, <1>3, <1>4, <1>5, <1>6, <1>7, <1>8

-----------------------------------------------------------------------------

LEMMA NextIInv == IInv /\ [RightsNext]_rightsVars => IInv'
<1> SUFFICES ASSUME IInv, [RightsNext]_rightsVars PROVE IInv'  OBVIOUS
<1>1. CASE IntakeNext /\ UNCHANGED privacyVars
  BY <1>1, SubmitIInv, AwayIInv, HandlerIInv DEF IntakeNext
<1>2. CASE \E o \in Officers :
             \/ OfficerStep(o)
             \/ \E e \in Errands :
                  NoProfile(o, e) \/ \E r \in Requests : FindProfile(o, e, r)
  BY <1>2, OfficerIInv, FindIInv
<1>3. CASE Crash
  BY <1>3, CrashIInv
<1>4. CASE UNCHANGED rightsVars
  BY <1>4 DEF rightsVars, intakeVars, tables, control, privacyVars, IInv,
    RightsTypeOK, IntakeTypeOK, AnswersAgree, InFlight, StoredSoFar,
    DocumentStored, ConfirmedIsComplete, Complete, UploadedFilesExplained,
    MattersAnswered,
    OfficersAgree, AnonymisationAccounted
<1> QED BY <1>1, <1>2, <1>3, <1>4 DEF RightsNext

\* The invariant the others rest on: what a submission has stored at each step of
\* createPublicCase, and what its browser and the officers know.
THEOREM RightsInvariant == RightsSpec => []IInv
  BY RightsInitIInv, NextIInv, PTL DEF RightsSpec

\* createPublicCase and the privacy officer's requests: every variable keeps its
\* type.
THEOREM RightsTypeCorrect == RightsSpec => []RightsTypeOK
<1>1. IInv => RightsTypeOK  BY DEF IInv
<1> QED BY <1>1, RightsInvariant, PTL

\* createPublicCase confirms, mails and hands to the AI only what is completely
\* stored, for every number of files, whatever fails and whoever asks for what.
THEOREM ConfirmedAlwaysComplete == RightsSpec => []ConfirmedIsComplete
<1>1. IInv => ConfirmedIsComplete  BY DEF IInv
<1> QED BY <1>1, RightsInvariant, PTL

\* A case no citizen can follow goes back to an error the citizen was shown, and
\* so does all but one of the cases of a matter.
THEOREM StrayCasesAlwaysExplained == RightsSpec => []StrayCasesExplained
<1>1. IInv => CodelessCasesExplained
  BY DEF IInv, AnswersAgree, RightsTypeOK, IntakeTypeOK, CodelessCasesExplained,
    InFlight
<1>2. IInv => RepeatedCasesUnconfirmed
  BY DEF IInv, MattersAnswered, AnswersAgree, RightsTypeOK, IntakeTypeOK,
    RepeatedCasesUnconfirmed
<1> QED BY <1>1, <1>2, RightsInvariant, PTL DEF StrayCasesExplained

\* storeCitizenUploadedDocument: a row has its file, and a file without a row
\* belongs to a submission that stores it or has stopped there.
THEOREM UploadedFilesAlwaysExplained == RightsSpec => []UploadedFilesExplained
<1>1. IInv => UploadedFilesExplained  BY DEF IInv
<1> QED BY <1>1, RightsInvariant, PTL

\* anonymizeCitizenProfile: what is anonymised is on the audit log or its request
\* is about to put it there or failed, and it keeps no name.
THEOREM AnonymisationAlwaysAccounted == RightsSpec => []AnonymisationAccounted
<1>1. IInv => AnonymisationAccounted  BY DEF IInv
<1> QED BY <1>1, RightsInvariant, PTL

=============================================================================
