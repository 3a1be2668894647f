-------------------------- MODULE RetentionProofs --------------------------
(***************************************************************************)
(* What is proved of RetentionCleanup for every set of requests, documents,*)
(* cases, tenants and cleanups, and every retention period.                *)
(***************************************************************************)
EXTENDS RetentionCleanup, TLAPS

\* Where a request is tells what it asks for.
JobMatchesStep ==
  \A r \in Requests :
    /\ pc[r] \in UploadSteps => job[r] \in UploadJob
    /\ pc[r] \in DeleteSteps \cup DownloadSteps => job[r] \in DocumentJob
    /\ pc[r] \in ListSteps => job[r] \in ListJob

IInv == TypeOK /\ JobMatchesStep /\ LockAgrees

-----------------------------------------------------------------------------
(* The steps of a run on its own record.                                   *)

\* The run goes on in its main thread, with the same request behind it.
GoesOn(x, y) ==
  /\ y \in Run
  /\ y.confirm = x.confirm
  /\ y.asOf = x.asOf
  /\ y.found = x.found
  /\ y.at \in MainSteps

LEMMA NextCaseGoesOn ==
  ASSUME NEW x \in Run, NEW y \in NextCase(x)
  PROVE  GoesOn(x, y)
<1>1. CASE x.todo = {}
  <2>1. y = [x EXCEPT !.at = "all", !.case = None, !.sweep = "findExpired",
                      !.purging = Purges]
    BY <1>1 DEF NextCase
  <2> QED
    BY <2>1 DEF GoesOn, Run, MainSteps, SweepSteps
<1>2. CASE x.todo # {}
  <2>1. PICK c \in x.todo :
          y = [x EXCEPT !.at = IF DocsFound(x, c) = {} THEN "deleteCase"
                                                       ELSE "unlinkFile",
                        !.case = c, !.todo = @ \ {c}, !.left = DocsFound(x, c)]
    BY <1>2 DEF NextCase
  <2>2. DocsFound(x, c) \in SUBSET Docs
    BY DEF DocsFound, Run
  <2> QED
    BY <2>1, <2>2 DEF GoesOn, Run, MainSteps
<1> QED
  BY <1>1, <1>2

LEMMA AfterFilesGoesOn ==
  ASSUME NEW x \in Run, NEW y \in AfterFiles(x)
  PROVE  GoesOn(x, y)
<1>1. CASE x.stuck \cap DocsFound(x, x.case) = {}
  BY <1>1 DEF AfterFiles, GoesOn, Run, MainSteps
<1>2. CASE x.stuck \cap DocsFound(x, x.case) # {}
  BY <1>2, NextCaseGoesOn DEF AfterFiles
<1> QED
  BY <1>1, <1>2

\* Joining or sweeping on leaves a run in its main thread or out of it.
Alongside(x, y) ==
  /\ y \in Run
  /\ y.confirm = x.confirm
  /\ y.asOf = x.asOf
  /\ y.found = x.found
  /\ y.at \in MainSteps <=> x.at \in MainSteps

LEMMA JoinedAlongside ==
  ASSUME NEW x \in Run
  PROVE  Alongside(x, Joined(x))
  BY DEF Joined, Alongside, Run, MainSteps

LEMMA SweepOnAlongside ==
  ASSUME NEW x \in Run
  PROVE  Alongside(x, SweepOn(x))
<1>1. CASE x.left = {}
  <2>1. [x EXCEPT !.sweep = "over", !.doc = None] \in Run
    BY DEF Run
  <2> QED
    BY <1>1, <2>1, JoinedAlongside DEF SweepOn, Alongside, Run
<1>2. CASE x.left # {}
  BY <1>2 DEF SweepOn, Alongside, Run, SweepSteps
<1> QED
  BY <1>1, <1>2

-----------------------------------------------------------------------------
(* The lock.                                                               *)

LEMMA LockKept ==
  ASSUME TypeOK, LockAgrees, NEW k \in Cleanups, NEW x \in Run,
         run' = [run EXCEPT ![k] = x],
         x.confirm = run[k].confirm,
         x.at \in MainSteps <=> MainActive(k),
         lock' = lock
  PROVE  LockAgrees'
  BY DEF TypeOK, LockAgrees, MainActive, TenantFor

LEMMA LockGiven ==
  ASSUME TypeOK, LockAgrees, NEW k \in Cleanups, NEW x \in Run,
         run' = [run EXCEPT ![k] = x],
         x.confirm = run[k].confirm,
         MainActive(k), x.at \notin MainSteps,
         lock' = Released(k)
  PROVE  LockAgrees'
<1>1. ASSUME NEW l \in Cleanups, l # k
      PROVE  run'[l] = run[l]
  BY <1>1 DEF TypeOK
<1>2. run'[k] = x
  BY DEF TypeOK
<1>3. CASE run[k].confirm
  BY <1>1, <1>2, <1>3 DEF LockAgrees, MainActive, TenantFor, Released
<1>4. CASE ~run[k].confirm
  BY <1>1, <1>2, <1>4 DEF LockAgrees, MainActive, TenantFor, Released
<1> QED
  BY <1>3, <1>4

LEMMA LockTaken ==
  ASSUME TypeOK, LockAgrees, NEW k \in Cleanups, NEW confirm \in BOOLEAN,
         StartCleanup(k, confirm)
  PROVE  LockAgrees'
<1>1. ASSUME NEW l \in Cleanups, l # k
      PROVE  run'[l] = run[l]
  BY <1>1 DEF TypeOK, StartCleanup
<1>2. /\ run'[k].confirm = confirm
      /\ run'[k].at = "cutoffs"
      /\ run[k].at = "idle"
  BY DEF TypeOK, StartCleanup, Run
<1>3. CASE confirm
  <2> DEFINE Holds(l) == MainActive(l) /\ run[l].confirm
  <2>1. ~Holds(k) /\ Holds(k)'
    BY <1>2, <1>3 DEF MainActive, MainSteps
  <2>2. \A l \in Cleanups : l # k => (Holds(l)' <=> Holds(l))
    BY <1>1 DEF MainActive
  <2>3. \A l \in Cleanups : Holds(l) => TenantFor(l) # TenantFor(k)
    BY <1>3 DEF LockAgrees, StartCleanup, MayStart
  <2>4. lock' = {TenantFor(l) : l \in {x \in Cleanups : Holds(x)}}
                  \cup {TenantFor(k)}
    BY <1>3 DEF LockAgrees, StartCleanup
  <2>5. lock' = {TenantFor(l) : l \in {x \in Cleanups : Holds(x)'}}
    <3> HIDE DEF Holds
    <3> QED
      BY <2>1, <2>2, <2>4
  <2>6. ASSUME NEW l \in Cleanups, NEW m \in Cleanups, Holds(l)', Holds(m)',
               TenantFor(l) = TenantFor(m)
        PROVE  l = m
    <3>1. ASSUME l # k, m # k
          PROVE  l = m
      BY <2>2, <2>6, <3>1 DEF LockAgrees
    <3> HIDE DEF Holds
    <3> QED
      BY <2>2, <2>3, <2>6, <3>1
  <2> QED
    BY <2>5, <2>6 DEF LockAgrees, TenantFor
<1>4. CASE ~confirm
  BY <1>1, <1>2, <1>4
  DEF LockAgrees, MainActive, TenantFor, StartCleanup, MainSteps
<1> QED
  BY <1>3, <1>4

-----------------------------------------------------------------------------
(* A step of a run.                                                        *)

LEMMA CaseLoopStepIInv ==
  ASSUME IInv, NEW k \in Cleanups, CaseLoopStep(k)
  PROVE  IInv'
<1> USE DEF IInv
<1>1. run[k] \in Run
  BY DEF TypeOK
<1>2. CASE FindCases(k)
  <2> DEFINE found == {c \in Cases : /\ Present(c) /\ TenantOf[c] = TenantFor(k)
                                     /\ CaseExpired(c, run[k].asOf)}
             docs == {d \in Docs : Stored(d) /\ rows[d].case \in found}
             x == [run[k] EXCEPT !.found = found, !.docs = docs, !.todo = found]
  <2>1. PICK y \in NextCase(x) : run' = [run EXCEPT ![k] = y]
    BY <1>2 DEF FindCases
  <2>2. x \in Run /\ x.confirm = run[k].confirm
    BY <1>1 DEF Run
  <2>3. GoesOn(x, y)
    <3> HIDE DEF x
    <3> QED
      BY <2>1, <2>2, NextCaseGoesOn
  <2>4. y \in Run /\ y.confirm = run[k].confirm /\ y.at \in MainSteps
    BY <2>2, <2>3 DEF GoesOn
  <2>5. MainActive(k)
    BY <1>2 DEF FindCases, MainActive, MainSteps
  <2> HIDE DEF x, found, docs
  <2>6. UNCHANGED <<docVars, lock>>
    BY <1>2 DEF FindCases
  <2>7. LockAgrees'
    BY <2>1, <2>4, <2>5, <2>6, LockKept
  <2>8. TypeOK'
    BY <2>1, <2>4, <2>6 DEF TypeOK, DocTypeOK, docVars
  <2>9. JobMatchesStep'
    BY <2>6 DEF JobMatchesStep, docVars
  <2> QED
    BY <2>7, <2>8, <2>9
<1>3. CASE UnlinkFile(k)
  <2>1. PICK d \in run[k].left, ok \in BOOLEAN :
          LET x == [run[k] EXCEPT !.left = @ \ {d},
                                  !.stuck = IF ok THEN @ ELSE @ \cup {d}]
          IN  /\ files' = IF ok THEN files \ {d} ELSE files
              /\ \E y \in IF x.left = {} THEN AfterFiles(x) ELSE {x} :
                   run' = [run EXCEPT ![k] = y]
    BY <1>3 DEF UnlinkFile
  <2> DEFINE x == [run[k] EXCEPT !.left = @ \ {d},
                                 !.stuck = IF ok THEN @ ELSE @ \cup {d}]
  <2>2. PICK y \in IF x.left = {} THEN AfterFiles(x) ELSE {x} :
          run' = [run EXCEPT ![k] = y]
    BY <2>1
  <2>3. run[k].at = "unlinkFile" /\ d \in Docs
    BY <1>1, <1>3 DEF UnlinkFile, Run
  <2>4. x \in Run /\ x.confirm = run[k].confirm /\ x.at = "unlinkFile"
    BY <1>1, <2>3 DEF Run
  <2>5. files' \subseteq Docs
    BY <2>1 DEF TypeOK, DocTypeOK
  <2> HIDE DEF x
  <2>6. y \in Run /\ y.confirm = run[k].confirm /\ y.at \in MainSteps
    <3>1. CASE x.left = {}
      BY <2>2, <2>4, <3>1, AfterFilesGoesOn DEF GoesOn
    <3>2. CASE x.left # {}
      BY <2>2, <2>4, <3>2 DEF MainSteps
    <3> QED
      BY <3>1, <3>2
  <2>7. UNCHANGED <<now, cases, rows, audit, served, requestVars, lock>>
    BY <1>3 DEF UnlinkFile
  <2>8. LockAgrees'
    BY <2>2, <2>3, <2>6, <2>7, LockKept DEF MainActive, MainSteps
  <2>9. TypeOK'
    BY <2>2, <2>5, <2>6, <2>7 DEF TypeOK, DocTypeOK, requestVars
  <2>10. JobMatchesStep'
    BY <2>7 DEF JobMatchesStep, requestVars
  <2> QED
    BY <2>8, <2>9, <2>10
<1>4. CASE DeleteCase(k)
  <2> DEFINE c == run[k].case
  <2>1. PICK y \in NextCase(run[k]) : run' = [run EXCEPT ![k] = y]
    BY <1>4 DEF DeleteCase
  <2>2. y \in Run /\ y.confirm = run[k].confirm /\ y.at \in MainSteps
    BY <1>1, <2>1, NextCaseGoesOn DEF GoesOn
  <2>3. /\ cases' = [cases EXCEPT ![c].removed = TRUE]
        /\ rows' = [d \in Docs |-> IF Stored(d) /\ rows[d].case = c
                                   THEN [rows[d] EXCEPT !.removed = TRUE]
                                   ELSE rows[d]]
        /\ UNCHANGED <<now, files, audit, served, requestVars, lock>>
        /\ run[k].at = "deleteCase"
    BY <1>4 DEF DeleteCase
  <2>4. cases' \in [Cases -> CaseRow]
    BY <2>3 DEF TypeOK, DocTypeOK, CaseRow
  <2>5. rows' \in [Docs -> DocumentRow \cup {None}]
    BY <2>3 DEF TypeOK, DocTypeOK, DocumentRow, Stored
  <2>6. LockAgrees'
    BY <2>1, <2>2, <2>3, LockKept DEF MainActive, MainSteps
  <2>7. TypeOK'
    BY <2>1, <2>2, <2>3, <2>4, <2>5 DEF TypeOK, DocTypeOK, requestVars
  <2>8. JobMatchesStep'
    BY <2>3 DEF JobMatchesStep, requestVars
  <2> QED
    BY <2>6, <2>7, <2>8
<1> QED
  BY <1>2, <1>3, <1>4 DEF CaseLoopStep

\* A step beside the main thread leaves the lock, unless it rejects.
LEMMA AlongsideKeeps ==
  ASSUME TypeOK, LockAgrees, NEW k \in Cleanups, NEW y,
         Alongside(run[k], y), run' = [run EXCEPT ![k] = y], lock' = lock
  PROVE  LockAgrees' /\ run' \in [Cleanups -> Run] /\ lock' \subseteq Tenants
<1>1. y \in Run /\ y.confirm = run[k].confirm
         /\ (y.at \in MainSteps <=> MainActive(k))
  BY DEF Alongside, MainActive
<1>2. LockAgrees'
  BY <1>1, LockKept
<1> QED
  BY <1>1, <1>2 DEF TypeOK

LEMMA RejectedKeeps ==
  ASSUME TypeOK, LockAgrees, NEW k \in Cleanups, NEW x \in Run,
         Alongside(run[k], x), x.at = run[k].at, Rejected(k, x)
  PROVE  LockAgrees' /\ run' \in [Cleanups -> Run] /\ lock' \subseteq Tenants
<1>1. CASE x.at = "all"
  <2> DEFINE y == [x EXCEPT !.at = "failed"]
  <2>1. y \in Run /\ y.confirm = run[k].confirm /\ y.at = "failed"
    BY DEF Run, Settled, Alongside
  <2>2. run' = [run EXCEPT ![k] = y] /\ lock' = Released(k)
    BY <1>1 DEF Rejected
  <2>3. MainActive(k)
    BY <1>1 DEF MainActive, MainSteps
  <2> HIDE DEF y
  <2>4. LockAgrees'
    BY <2>1, <2>2, <2>3, LockGiven DEF MainSteps
  <2> QED
    BY <2>1, <2>2, <2>4 DEF TypeOK, Released
<1>2. CASE x.at # "all"
  BY <1>2, AlongsideKeeps DEF Rejected
<1> QED
  BY <1>1, <1>2

LEMMA SweepStepIInv ==
  ASSUME IInv, NEW k \in Cleanups, SweepStep(k)
  PROVE  IInv'
<1> USE DEF IInv
<1>1. run[k] \in Run
  BY DEF TypeOK
<1>2. CASE FindExpired(k)
  <2> DEFINE expired == {d \in Docs : /\ Stored(d)
                                      /\ TenantOf[rows[d].case] = TenantFor(k)
                                      /\ rows[d].case \notin run[k].found
                                      /\ DocumentExpired(d, run[k].asOf)}
             x == [run[k] EXCEPT !.expired = expired, !.left = expired]
  <2>1. run' = [run EXCEPT ![k] = SweepOn(x)] /\ UNCHANGED <<docVars, lock>>
    BY <1>1, <1>2 DEF FindExpired, TypeOK
  <2>2. x \in Run /\ Alongside(run[k], x)
    BY <1>1 DEF Run, Alongside
  <2> HIDE DEF x, expired
  <2>3. Alongside(run[k], SweepOn(x))
    BY <2>2, SweepOnAlongside DEF Alongside
  <2>4. LockAgrees' /\ run' \in [Cleanups -> Run]
    BY <2>1, <2>3, AlongsideKeeps
  <2> QED
    BY <2>1, <2>4 DEF TypeOK, DocTypeOK, docVars, JobMatchesStep
<1>3. CASE UnlinkExpired(k)
  <2>1. PICK d \in run[k].left :
          LET x == [run[k] EXCEPT !.left = @ \ {d}]
          IN  \/ /\ files' = files \ {d}
                 /\ run' = [run EXCEPT ![k] = [x EXCEPT !.sweep = "deleteRow",
                                                        !.doc = d]]
              \/ /\ run' = [run EXCEPT ![k] = SweepOn([x EXCEPT !.stuck = @ \cup {d}])]
                 /\ UNCHANGED files
    BY <1>3 DEF UnlinkExpired
  <2> DEFINE x == [run[k] EXCEPT !.left = @ \ {d}]
             y == [x EXCEPT !.sweep = "deleteRow", !.doc = d]
             z == [x EXCEPT !.stuck = @ \cup {d}]
  <2>2. d \in Docs
    BY <1>1, <2>1 DEF Run
  <2>3. z \in Run /\ Alongside(run[k], z)
    BY <1>1, <2>2 DEF Run, Alongside
  <2>4. Alongside(run[k], y)
    BY <1>1, <2>2 DEF Run, Alongside, SweepSteps
  <2>5. \E w \in {y, SweepOn(z)} : run' = [run EXCEPT ![k] = w]
    BY <2>1
  <2>6. files' \subseteq Docs
    BY <2>1 DEF TypeOK, DocTypeOK
  <2> HIDE DEF x, y, z
  <2>7. Alongside(run[k], SweepOn(z))
    BY <2>3, SweepOnAlongside DEF Alongside
  <2>8. UNCHANGED <<now, cases, rows, audit, served, requestVars, lock>>
    BY <1>3 DEF UnlinkExpired
  <2>9. LockAgrees' /\ run' \in [Cleanups -> Run]
    BY <2>4, <2>5, <2>7, <2>8, AlongsideKeeps
  <2> QED
    BY <2>6, <2>8, <2>9 DEF TypeOK, DocTypeOK, requestVars, JobMatchesStep
<1>4. CASE DeleteRow(k)
  <2> DEFINE d == run[k].doc
             x == [run[k] EXCEPT !.sweep = "over", !.doc = None]
  <2>1. UNCHANGED <<now, cases, files, audit, served, requestVars>>
    BY <1>4 DEF DeleteRow
  <2>2. CASE Stored(d)
    <3>1. /\ rows' = [rows EXCEPT ![d].removed = TRUE]
          /\ run' = [run EXCEPT ![k] = SweepOn(run[k])]
          /\ lock' = lock
      BY <1>1, <1>4, <2>2 DEF DeleteRow, TypeOK
    <3>2. rows' \in [Docs -> DocumentRow \cup {None}]
      BY <2>2, <3>1 DEF TypeOK, DocTypeOK, DocumentRow, Stored
    <3>3. LockAgrees' /\ run' \in [Cleanups -> Run] /\ lock' \subseteq Tenants
      BY <1>1, <3>1, SweepOnAlongside, AlongsideKeeps
    <3> QED
      BY <2>1, <3>2, <3>3 DEF TypeOK, DocTypeOK, requestVars, JobMatchesStep
  <2>3. CASE ~Stored(d)
    <3>1. Rejected(k, x) /\ rows' = rows
      BY <1>4, <2>3 DEF DeleteRow
    <3>2. x \in Run /\ Alongside(run[k], x) /\ x.at = run[k].at
      BY <1>1 DEF Run, Alongside
    <3> HIDE DEF x
    <3>3. LockAgrees' /\ run' \in [Cleanups -> Run] /\ lock' \subseteq Tenants
      BY <3>1, <3>2, RejectedKeeps
    <3> QED
      BY <2>1, <3>1, <3>3 DEF TypeOK, DocTypeOK, requestVars, JobMatchesStep
  <2> QED
    BY <2>2, <2>3
<1>5. CASE SweepFails(k)
  <2> DEFINE x == [run[k] EXCEPT !.sweep = "over", !.doc = None]
  <2>1. Rejected(k, x) /\ UNCHANGED docVars
    BY <1>5 DEF SweepFails
  <2>2. x \in Run /\ Alongside(run[k], x) /\ x.at = run[k].at
    BY <1>1 DEF Run, Alongside
  <2> HIDE DEF x
  <2>3. LockAgrees' /\ run' \in [Cleanups -> Run] /\ lock' \subseteq Tenants
    BY <2>1, <2>2, RejectedKeeps
  <2> QED
    BY <2>1, <2>3 DEF TypeOK, DocTypeOK, docVars, JobMatchesStep
<1> QED
  BY <1>2, <1>3, <1>4, <1>5 DEF SweepStep

LEMMA PurgeStepIInv ==
  ASSUME IInv, NEW k \in Cleanups, PurgeStep(k)
  PROVE  IInv'
<1> USE DEF IInv
<1>1. run[k] \in Run
  BY DEF TypeOK
<1>2. CASE Purge(k)
  <2>1. PICK p \in run[k].purging :
          run' = [run EXCEPT ![k] = Joined([run[k] EXCEPT !.purging = @ \ {p}])]
    BY <1>2 DEF Purge
  <2> DEFINE x == [run[k] EXCEPT !.purging = @ \ {p}]
  <2>2. x \in Run /\ Alongside(run[k], x)
    BY <1>1 DEF Run, Alongside
  <2>3. run' = [run EXCEPT ![k] = Joined(x)]
    BY <2>1
  <2> HIDE DEF x
  <2>4. Alongside(run[k], Joined(x))
    BY <2>2, JoinedAlongside DEF Alongside
  <2>5. UNCHANGED <<docVars, lock>>
    BY <1>2 DEF Purge
  <2>6. LockAgrees' /\ run' \in [Cleanups -> Run]
    BY <2>3, <2>4, <2>5, AlongsideKeeps
  <2> QED
    BY <2>5, <2>6 DEF TypeOK, DocTypeOK, docVars, JobMatchesStep
<1>3. CASE PurgeFails(k)
  <2>1. PICK p \in run[k].purging :
          Rejected(k, [run[k] EXCEPT !.purging = @ \ {p}])
    BY <1>3 DEF PurgeFails
  <2> DEFINE x == [run[k] EXCEPT !.purging = @ \ {p}]
  <2>2. x \in Run /\ Alongside(run[k], x) /\ x.at = run[k].at
    BY <1>1 DEF Run, Alongside
  <2>3. Rejected(k, x) /\ UNCHANGED docVars
    BY <1>3, <2>1 DEF PurgeFails
  <2> HIDE DEF x
  <2>4. LockAgrees' /\ run' \in [Cleanups -> Run] /\ lock' \subseteq Tenants
    BY <2>2, <2>3, RejectedKeeps
  <2> QED
    BY <2>3, <2>4 DEF TypeOK, DocTypeOK, docVars, JobMatchesStep
<1> QED
  BY <1>2, <1>3 DEF PurgeStep

\* The steps of the main thread that only move it on, or end it.
LEMMA MainStepIInv ==
  ASSUME IInv, NEW k \in Cleanups, MainStep(k)
  PROVE  IInv'
<1> USE DEF IInv
<1>1. run[k] \in Run
  BY DEF TypeOK
<1>2. CASE ComputeCutoffs(k)
  <2> DEFINE x == [run[k] EXCEPT !.asOf = now,
                                 !.at = IF run[k].confirm THEN "findCases"
                                                          ELSE "auditRun"]
  <2>1. run' = [run EXCEPT ![k] = x] /\ run[k].at = "cutoffs"
           /\ UNCHANGED <<docVars, lock>>
    BY <1>2 DEF ComputeCutoffs, TypeOK
  <2>2. x \in Run /\ x.confirm = run[k].confirm /\ x.at \in MainSteps
    BY <1>1 DEF Run, MainSteps, TypeOK, DocTypeOK
  <2> HIDE DEF x
  <2>3. LockAgrees'
    BY <2>1, <2>2, LockKept DEF MainActive, MainSteps
  <2> QED
    BY <2>1, <2>2, <2>3 DEF TypeOK, DocTypeOK, docVars, JobMatchesStep
<1>3. CASE CaseLoopStep(k)
  BY <1>3, CaseLoopStepIInv
<1>4. CASE AuditRun(k)
  <2> DEFINE x == [run[k] EXCEPT !.at = "maintenanceRun", !.reported = TRUE]
  <2>1. run' = [run EXCEPT ![k] = x] /\ run[k].at = "auditRun"
           /\ UNCHANGED <<docVars, lock>>
    BY <1>4 DEF AuditRun, TypeOK
  <2>2. x \in Run /\ x.confirm = run[k].confirm /\ x.at \in MainSteps
    BY <1>1 DEF Run, MainSteps
  <2> HIDE DEF x
  <2>3. LockAgrees'
    BY <2>1, <2>2, LockKept DEF MainActive, MainSteps
  <2> QED
    BY <2>1, <2>2, <2>3 DEF TypeOK, DocTypeOK, docVars, JobMatchesStep
<1>5. CASE MaintenanceRun(k) \/ FailCleanup(k)
  <2>1. PICK end \in {"done", "failed"} :
          run' = [run EXCEPT ![k] = [run[k] EXCEPT !.at = end]]
    BY <1>5 DEF MaintenanceRun, FailCleanup, TypeOK
  <2> DEFINE x == [run[k] EXCEPT !.at = end]
  <2>2. MainActive(k) /\ lock' = Released(k) /\ UNCHANGED docVars
    BY <1>5 DEF MaintenanceRun, FailCleanup, MainActive, MainSteps
  <2>3. x \in Run /\ x.confirm = run[k].confirm /\ x.at \notin MainSteps
    BY <1>1 DEF Run, Settled, MainSteps
  <2>4. run' = [run EXCEPT ![k] = x]
    BY <2>1
  <2> HIDE DEF x
  <2>5. LockAgrees'
    BY <2>2, <2>3, <2>4, LockGiven
  <2>6. lock' \subseteq Tenants
    BY <2>2 DEF Released, TypeOK
  <2> QED
    BY <2>2, <2>3, <2>4, <2>5, <2>6 DEF TypeOK, DocTypeOK, docVars, JobMatchesStep
<1> QED
  BY <1>2, <1>3, <1>4, <1>5 DEF MainStep

LEMMA ArrivalIInv ==
  ASSUME IInv, NEW k \in Cleanups, NEW confirm \in BOOLEAN,
         StartCleanup(k, confirm) \/ RefuseCleanup(k, confirm)
  PROVE  IInv'
<1> USE DEF IInv
<1>1. run[k] \in Run
  BY DEF TypeOK
<1>2. CASE StartCleanup(k, confirm)
  <2>1. run' = [run EXCEPT ![k] = [run[k] EXCEPT !.at = "cutoffs",
                                                 !.confirm = confirm]]
    BY <1>2 DEF StartCleanup, TypeOK
  <2>2. [run[k] EXCEPT !.at = "cutoffs", !.confirm = confirm] \in Run
    BY <1>1 DEF Run, MainSteps
  <2>3. TenantFor(k) \in Tenants
    BY UsersAssumption, RetentionAssumption DEF TenantFor
  <2>4. LockAgrees'
    BY <1>2, LockTaken
  <2>5. UNCHANGED docVars /\ lock' \subseteq Tenants
    BY <1>2, <2>3 DEF StartCleanup, TypeOK
  <2> QED
    BY <2>1, <2>2, <2>4, <2>5 DEF TypeOK, DocTypeOK, docVars, JobMatchesStep
<1>3. CASE RefuseCleanup(k, confirm)
  <2> DEFINE x == [run[k] EXCEPT !.at = "rejected"]
  <2>1. run' = [run EXCEPT ![k] = x] /\ run[k].at = "idle"
           /\ UNCHANGED <<docVars, lock>>
    BY <1>3 DEF RefuseCleanup, TypeOK
  <2>2. x \in Run /\ x.confirm = run[k].confirm /\ x.at = "rejected"
    BY <1>1 DEF Run, Settled
  <2> HIDE DEF x
  <2>3. LockAgrees'
    BY <2>1, <2>2, LockKept DEF MainActive, MainSteps
  <2> QED
    BY <2>1, <2>2, <2>3 DEF TypeOK, DocTypeOK, docVars, JobMatchesStep
<1> QED
  BY <1>2, <1>3

LEMMA CrashIInv ==
  ASSUME IInv, Crash
  PROVE  IInv'
<1> USE DEF IInv
<1>1. /\ lock' = {}
      /\ run' = [k \in Cleanups |->
                   [run[k] EXCEPT !.at = IF MainActive(k) THEN "failed" ELSE @,
                                  !.sweep = IF @ = "off" THEN @ ELSE "over",
                                  !.purging = {}]]
  BY DEF Crash
<1>2. ASSUME NEW k \in Cleanups
      PROVE  run'[k] \in Run /\ run'[k].at \notin MainSteps
  <2> DEFINE x == [run[k] EXCEPT !.at = IF MainActive(k) THEN "failed" ELSE @,
                                 !.sweep = IF @ = "off" THEN @ ELSE "over",
                                 !.purging = {}]
  <2>1. run[k] \in Run
    BY DEF TypeOK
  <2>2. x \in Run
    BY <2>1 DEF Run, Settled
  <2>3. x.at \notin MainSteps
    BY <2>1 DEF Run, MainActive, MainSteps
  <2> HIDE DEF x
  <2>4. run'[k] = x
    BY <1>1 DEF x
  <2> QED
    BY <2>2, <2>3, <2>4
<1>3. LockAgrees'
  BY <1>1, <1>2 DEF LockAgrees, MainActive
<1>4. run' \in [Cleanups -> Run]
  BY <1>1, <1>2
<1>5. PICK partial \in SUBSET {r \in Requests : pc[r] = "writeFile"} :
        files' = files \cup partial
  BY DEF Crash, RequestsDie
<1>6. /\ pc' = [r \in Requests |-> IF InFlight(r) THEN "failed" ELSE pc[r]]
      /\ UNCHANGED <<now, cases, rows, audit, served, job, seen>>
  BY DEF Crash, RequestsDie
<1>7. files' \subseteq Docs
  BY <1>5 DEF TypeOK, DocTypeOK, Docs
<1>8. pc' \in [Requests -> {"idle"} \cup InFlightSteps \cup Settled]
  BY <1>6 DEF TypeOK, DocTypeOK, Settled
<1>9. TypeOK'
  BY <1>1, <1>4, <1>6, <1>7, <1>8 DEF TypeOK, DocTypeOK
<1>10. JobMatchesStep'
  BY <1>6
  DEF JobMatchesStep, InFlight, InFlightSteps, UploadSteps, DeleteSteps,
      DownloadSteps, ListSteps
<1> QED
  BY <1>3, <1>9, <1>10

-----------------------------------------------------------------------------
(* A step of a request, of the calendar or of another part of the system.  *)

DocIInv == DocTypeOK /\ JobMatchesStep

LEMMA UploadStepIInv ==
  ASSUME DocIInv, NEW r \in Requests, UploadStep(r)
  PROVE  DocIInv'
<1> USE DEF DocIInv
<1> DEFINE Steps == {"idle"} \cup InFlightSteps \cup Settled
<1>1. job[r] \in UploadJob
  BY DEF UploadStep, WriteFile, WriteFileFails, CreateRow, AuditUpload,
         Transition, JobMatchesStep, UploadSteps
<1>2. UNCHANGED <<job, now, cases, served, seen>>
  BY DEF UploadStep, WriteFile, WriteFileFails, CreateRow, AuditUpload
<1>3. PICK to \in {"createRow", "auditUpload", "done", "failed"} :
        pc' = [pc EXCEPT ![r] = to]
  BY DEF UploadStep, WriteFile, WriteFileFails, CreateRow, AuditUpload, Transition
<1>4. to \in Steps
  BY <1>3 DEF InFlightSteps, UploadSteps, Settled
<1>5. files' \subseteq Docs
  BY DEF UploadStep, WriteFile, WriteFileFails, CreateRow, AuditUpload,
         DocTypeOK, Docs
<1>6. audit' \subseteq Requests \X AuditActions
  BY DEF UploadStep, WriteFile, WriteFileFails, CreateRow, AuditUpload,
         DocTypeOK, Audit, AuditActions
<1>7. rows' \in [Docs -> DocumentRow \cup {None}]
  <2>1. CASE CreateRow(r)
    <3> DEFINE row == [case |-> job[r].case, sensitive |-> job[r].sensitive,
                       deletedAt |-> Never, removed |-> FALSE]
    <3>1. row \in DocumentRow
      BY <1>1 DEF UploadJob, DocumentRow, MaybeDay
    <3>2. rows' = rows \/ rows' = [rows EXCEPT ![r] = row]
      BY <2>1 DEF CreateRow
    <3> HIDE DEF row
    <3> QED
      BY <3>1, <3>2 DEF DocTypeOK
  <2>2. CASE rows' = rows
    BY <2>2 DEF DocTypeOK
  <2> QED
    BY <2>1, <2>2 DEF UploadStep, WriteFile, WriteFileFails, AuditUpload
<1>8. pc' \in [Requests -> Steps]
  BY <1>3, <1>4 DEF DocTypeOK
<1>9. DocTypeOK'
  BY <1>2, <1>5, <1>6, <1>7, <1>8 DEF DocTypeOK
<1>10. JobMatchesStep'
  BY <1>1, <1>2, <1>3
  DEF JobMatchesStep, DocTypeOK, UploadSteps, DeleteSteps, DownloadSteps, ListSteps
<1> QED
  BY <1>9, <1>10

LEMMA DeleteStepIInv ==
  ASSUME DocIInv, NEW r \in Requests, DeleteStep(r)
  PROVE  DocIInv'
<1> USE DEF DocIInv
<1>1. job[r] \in DocumentJob
  BY DEF DeleteStep, FindToDelete, SetDeletedAt, AuditDelete, Transition,
         JobMatchesStep, DeleteSteps
<1>2. UNCHANGED <<now, cases, files, served, job, seen>>
  BY DEF DeleteStep, FindToDelete, SetDeletedAt, AuditDelete
<1>3. PICK to \in {"setDeletedAt", "auditDelete", "rejected", "done", "failed"} :
        pc' = [pc EXCEPT ![r] = to]
  BY DEF DeleteStep, FindToDelete, SetDeletedAt, AuditDelete, Transition
<1>4. to \in InFlightSteps \cup Settled
  BY <1>3 DEF InFlightSteps, DeleteSteps, Settled
<1>5. audit' \subseteq Requests \X AuditActions
  BY DEF DeleteStep, FindToDelete, SetDeletedAt, AuditDelete, DocTypeOK, Audit,
         AuditActions
<1>6. rows' \in [Docs -> DocumentRow \cup {None}]
  <2>1. rows' = rows \/ \E d \in Docs : /\ Stored(d)
                                       /\ rows' = [rows EXCEPT ![d].deletedAt = now]
    BY <1>1 DEF DeleteStep, FindToDelete, SetDeletedAt, AuditDelete, DocumentJob
  <2> QED
    BY <2>1 DEF DocTypeOK, Stored, DocumentRow, MaybeDay
<1>7. pc' \in [Requests -> {"idle"} \cup InFlightSteps \cup Settled]
  BY <1>3, <1>4 DEF DocTypeOK
<1>8. DocTypeOK'
  BY <1>2, <1>5, <1>6, <1>7 DEF DocTypeOK
<1>9. JobMatchesStep'
  BY <1>1, <1>2, <1>3
  DEF JobMatchesStep, DocTypeOK, UploadSteps, DeleteSteps, DownloadSteps, ListSteps
<1> QED
  BY <1>8, <1>9

LEMMA LiveIsBoolean ==
  ASSUME NEW d
  PROVE  Live(d) \in BOOLEAN
  BY DEF Live

LEMMA ReadStepIInv ==
  ASSUME DocIInv, NEW r \in Requests, DownloadStep(r) \/ ListStep(r)
  PROVE  DocIInv'
<1> USE DEF DocIInv, DownloadStep, FindToDownload, AccessFile, AuditDownload,
            OpenStream, ListStep, FindAll, AuditList
<1>1. UNCHANGED <<now, cases, rows, files, job>>
  OBVIOUS
<1>2. PICK to \in {"accessFile", "auditDownload", "openStream", "auditList",
                   "rejected", "done", "failed"} :
        /\ pc' = [pc EXCEPT ![r] = to]
        /\ to \in DownloadSteps => job[r] \in DocumentJob
        /\ to \in ListSteps => job[r] \in ListJob
  BY DEF Transition, JobMatchesStep, DownloadSteps, ListSteps
<1>3. to \in InFlightSteps \cup Settled
  BY <1>2 DEF InFlightSteps, DownloadSteps, ListSteps, Settled
<1>4. audit' \subseteq Requests \X AuditActions /\ served' \subseteq Requests
  BY DEF DocTypeOK, Audit, AuditActions
<1>5. pc' \in [Requests -> {"idle"} \cup InFlightSteps \cup Settled]
  BY <1>2, <1>3 DEF DocTypeOK
<1>6. seen' \in [Requests -> Reading]
  <2>1. seen' = seen \/ \E b \in BOOLEAN : seen' = [seen EXCEPT ![r].live = b]
    BY LiveIsBoolean
  <2> QED
    BY <2>1 DEF DocTypeOK, Reading
<1>7. DocTypeOK'
  BY <1>1, <1>4, <1>5, <1>6 DEF DocTypeOK
<1>8. JobMatchesStep'
  BY <1>1, <1>2
  DEF JobMatchesStep, DocTypeOK, UploadSteps, DeleteSteps, DownloadSteps, ListSteps
<1> QED
  BY <1>7, <1>8

LEMMA FailIInv ==
  ASSUME DocIInv, NEW r \in Requests, Fail(r)
  PROVE  DocIInv'
  BY DEF DocIInv, Fail, DocTypeOK, Settled, JobMatchesStep, UploadSteps,
         DeleteSteps, DownloadSteps, ListSteps

\* The handler of a job starts with a step of its own kind.
LEMMA FirstStepMatches ==
  ASSUME NEW j \in AnyJob
  PROVE  \/ j \in UploadJob /\ FirstStep(j) = "writeFile"
         \/ j \in DocumentJob /\ FirstStep(j) = "findToDelete"
         \/ j \in DocumentJob /\ FirstStep(j) = "findToDownload"
         \/ j \in ListJob /\ FirstStep(j) = "findAll"
  BY DEF AnyJob, UploadJob, DocumentJob, ListJob, FirstStep

LEMMA ArrivingIInv ==
  ASSUME DocIInv, NEW r \in Requests, NEW j \in Jobs, Admit(r, j) \/ Refuse(r, j)
  PROVE  DocIInv'
<1> USE DEF DocIInv
<1>1. CASE Admit(r, j)
  <2>1. j \in AnyJob
    BY DocumentJobsAssumption
  <2>2. /\ pc' = [pc EXCEPT ![r] = FirstStep(j)]
        /\ job' = [job EXCEPT ![r] = j]
        /\ seen' = [seen EXCEPT ![r].department = cases[j.case].department]
        /\ UNCHANGED <<now, cases, rows, files, audit, served>>
    BY <1>1 DEF Admit, Transition
  <2>3. FirstStep(j) \in InFlightSteps
    BY <2>1, FirstStepMatches
    DEF InFlightSteps, UploadSteps, DeleteSteps, DownloadSteps, ListSteps
  <2>4. cases[j.case].department \in MaybeDepartment
    BY <2>1 DEF AnyJob, UploadJob, DocumentJob, ListJob, DocTypeOK, CaseRow
  <2>5. seen' \in [Requests -> Reading]
    BY <2>2, <2>4 DEF DocTypeOK, Reading
  <2>6. DocTypeOK'
    BY <2>1, <2>2, <2>3, <2>5 DEF DocTypeOK
  <2>7. JobMatchesStep'
    BY <2>1, <2>2, FirstStepMatches
    DEF JobMatchesStep, DocTypeOK, UploadSteps, DeleteSteps, DownloadSteps, ListSteps
  <2> QED
    BY <2>6, <2>7
<1>2. CASE Refuse(r, j)
  BY <1>2
  DEF Refuse, Transition, DocTypeOK, Settled, JobMatchesStep, UploadSteps,
      DeleteSteps, DownloadSteps, ListSteps
<1> QED
  BY <1>1, <1>2

LEMMA EnvironmentIInv ==
  ASSUME DocIInv, EnvironmentStep
  PROVE  DocIInv'
<1>0. ASSUME NEW c \in Cases, StatusUpdated(c) \/ CaseReviewed(c)
      PROVE  UNCHANGED <<now, rows, files, audit, served, requestVars>>
  BY <1>0 DEF StatusUpdated, CaseReviewed, requestVars
<1> USE DEF DocIInv
<1>1. CASE Tick
  BY <1>1, StartAssumption
  DEF Tick, DocTypeOK, Days, requestVars, JobMatchesStep
<1>2. ASSUME NEW c \in Cases, StatusUpdated(c) \/ CaseReviewed(c)
      PROVE  DocIInv'
  <2>1. UNCHANGED <<now, rows, files, audit, served, requestVars>>
    BY <1>0, <1>2
  <2>2. CASE StatusUpdated(c)
    <3>1. cases' \in [Cases -> CaseRow]
      BY <2>2 DEF StatusUpdated, DocTypeOK, CaseRow, MaybeDay
    <3> QED
      BY <2>1, <3>1 DEF DocTypeOK, requestVars, JobMatchesStep
  <2>3. CASE CaseReviewed(c)
    <3>1. PICK department \in MaybeDepartment :
            cases' = [cases EXCEPT ![c] = [cases[c] EXCEPT !.status = "open",
                                                           !.department = department]]
      BY <2>3 DEF CaseReviewed, DocTypeOK
    <3>2. [cases[c] EXCEPT !.status = "open", !.department = department] \in CaseRow
      BY <1>2 DEF DocTypeOK, CaseRow
    <3>3. cases' \in [Cases -> CaseRow]
      BY <3>1, <3>2 DEF DocTypeOK
    <3> QED
      BY <2>1, <3>3 DEF DocTypeOK, requestVars, JobMatchesStep
  <2> QED
    BY <1>2, <2>2, <2>3
<1> QED
  BY <1>1, <1>2, StartAssumption DEF EnvironmentStep

LEMMA DocStepIInv ==
  ASSUME DocIInv, DocNext
  PROVE  DocIInv'
  BY UploadStepIInv, DeleteStepIInv, ReadStepIInv, FailIInv, ArrivingIInv,
     EnvironmentIInv
  DEF DocNext, RequestStep

-----------------------------------------------------------------------------

LEMMA InitIInv == Init => IInv
<1> SUFFICES ASSUME Init PROVE IInv
  OBVIOUS
<1>1. Idle \in Run
  BY StartAssumption DEF Idle, Run, Days
<1>2. run = [k \in Cleanups |-> Idle] /\ lock = {}
  BY DEF Init
<1>3. \A k \in Cleanups : ~MainActive(k)
  BY <1>2 DEF Idle, MainActive, MainSteps
<1>4. LockAgrees
  BY <1>2, <1>3 DEF LockAgrees
<1>5. DocTypeOK
  <2>1. Unread \in Reading
    BY DEF Unread, Reading, MaybeDepartment
  <2>2. seen \in [Requests -> Reading]
    BY <2>1 DEF Init, DocInit
  <2> QED
    BY <2>2, StartAssumption DEF Init, DocInit, DocTypeOK, Docs
<1>6. JobMatchesStep
  BY DEF Init, DocInit, JobMatchesStep, UploadSteps, DeleteSteps,
         DownloadSteps, ListSteps
<1> QED
  BY <1>1, <1>2, <1>4, <1>5, <1>6 DEF IInv, TypeOK

LEMMA NextIInv == IInv /\ [Next]_vars => IInv'
<1> SUFFICES ASSUME IInv, [Next]_vars PROVE IInv'
  OBVIOUS
<1>1. CASE DocNext /\ UNCHANGED <<lock, run>>
  <2>1. DocIInv'
    BY <1>1, DocStepIInv DEF IInv, TypeOK, DocIInv
  <2>2. LockAgrees'
    BY <1>1 DEF IInv, LockAgrees, MainActive
  <2> QED
    BY <1>1, <2>1, <2>2 DEF IInv, TypeOK, DocIInv
<1>2. ASSUME NEW k \in Cleanups, CleanupStep(k)
      PROVE  IInv'
  BY <1>2, MainStepIInv, SweepStepIInv, PurgeStepIInv DEF CleanupStep
<1>3. ASSUME NEW k \in Cleanups, NEW confirm \in BOOLEAN,
             StartCleanup(k, confirm) \/ RefuseCleanup(k, confirm)
      PROVE  IInv'
  BY <1>3, ArrivalIInv
<1>4. CASE Crash
  BY <1>4, CrashIInv
<1>5. CASE UNCHANGED vars
  BY <1>5
  DEF vars, docVars, IInv, TypeOK, DocTypeOK, JobMatchesStep, LockAgrees,
      MainActive
<1> QED
  BY <1>1, <1>2, <1>3, <1>4, <1>5 DEF Next

\* The tables, the files, the requests, the lock and the cleanups keep their
\* types.
THEOREM RetentionTypeCorrect == Spec => []TypeOK
<1>1. IInv => TypeOK
  BY DEF IInv
<1> QED
  BY <1>1, InitIInv, NextIInv, PTL DEF Spec

\* runRetentionCleanup: whatever fails and however cleanups overlap, the lock
\* is held by exactly the tenants of confirmed cleanups whose main thread
\* runs, and by one cleanup each.
THEOREM LockSound == Spec => []LockAgrees
<1>1. IInv => LockAgrees
  BY DEF IInv
<1> QED
  BY <1>1, InitIInv, NextIInv, PTL DEF Spec

-----------------------------------------------------------------------------
(* Only what has expired goes.                                             *)

\* No row is stored for an upload before its CreateRow.
RowsFresh ==
  \A r \in Requests : pc[r] \in {"idle", "writeFile", "createRow"} => rows[r] = None

\* A time on a row stays, is cleared on a case, or is set to today.
TimesMoveOn ==
  /\ now' >= now
  /\ \A c \in Cases : cases'[c].closedAt \in {cases[c].closedAt, Never, now}
  /\ \A d \in Docs : rows[d] # None =>
       /\ rows'[d] # None
       /\ rows'[d].case = rows[d].case
       /\ rows'[d].deletedAt \in {rows[d].deletedAt, now}

\* Case c, or document d, had expired when the run x found it, or its time was
\* changed since.
CaseDue(x, c) ==
  \/ CaseExpired(c, x.asOf)
  \/ cases[c].closedAt = Never
  \/ cases[c].closedAt >= x.asOf

DocumentDue(x, d) ==
  DocumentExpired(d, x.asOf) \/ rows[d].deletedAt >= x.asOf

\* What the run x has still to delete.
CasesAhead(x) ==
  {c \in Cases : \/ c \in x.todo
                 \/ x.at \in {"unlinkFile", "deleteCase"} /\ c = x.case}

DocumentsAhead(x) ==
  {d \in Docs : \/ x.sweep \in {"unlinkExpired", "deleteRow"} /\ d \in x.left
                \/ x.sweep = "deleteRow" /\ d = x.doc}

HoldsDue(k, x) ==
  /\ x.asOf <= now
  /\ x.at \in {"idle", "cutoffs"} => x.todo = {}
  /\ x.at \in {"idle", "cutoffs", "findCases", "unlinkFile", "deleteCase"} =>
       x.sweep = "off"
  /\ \A c \in CasesAhead(x) : TenantOf[c] = TenantFor(k) /\ CaseDue(x, c)
  /\ \A d \in DocumentsAhead(x) :
       /\ rows[d] # None
       /\ TenantOf[rows[d].case] = TenantFor(k)
       /\ DocumentDue(x, d)

RunsHoldDue == \A k \in Cleanups : HoldsDue(k, run[k])

\* What is due stays due whatever the others do.
LEMMA DueStaysDue ==
  ASSUME TypeOK, TypeOK', TimesMoveOn, NEW k \in Cleanups, NEW x \in Run,
         HoldsDue(k, x)
  PROVE  HoldsDue(k, x)'
<1>1. now \in Nat /\ now' \in Nat /\ x.asOf \in Nat
  BY StartAssumption DEF TypeOK, DocTypeOK, Days, Run
<1>2. x.asOf <= now' /\ x.asOf <= now
  BY <1>1 DEF HoldsDue, TimesMoveOn
<1>3. \A c \in CasesAhead(x) : TenantOf[c] = TenantFor(k) /\ CaseDue(x, c)'
  <2> SUFFICES ASSUME NEW c \in CasesAhead(x)
               PROVE  TenantOf[c] = TenantFor(k) /\ CaseDue(x, c)'
    OBVIOUS
  <2>1. TenantOf[c] = TenantFor(k) /\ CaseDue(x, c)
    BY DEF HoldsDue
  <2>2. cases'[c].closedAt \in {cases[c].closedAt, Never, now}
    BY DEF TimesMoveOn, CasesAhead
  <2> QED
    BY <1>2, <2>1, <2>2 DEF CaseDue, CaseExpired
<1>4. \A d \in DocumentsAhead(x) :
        rows'[d] # None /\ TenantOf[rows'[d].case] = TenantFor(k) /\ DocumentDue(x, d)'
  <2> SUFFICES ASSUME NEW d \in DocumentsAhead(x)
               PROVE  /\ rows'[d] # None
                      /\ TenantOf[rows'[d].case] = TenantFor(k)
                      /\ DocumentDue(x, d)'
    OBVIOUS
  <2>1. rows[d] # None /\ TenantOf[rows[d].case] = TenantFor(k) /\ DocumentDue(x, d)
    BY DEF HoldsDue
  <2>2. /\ rows'[d] # None
        /\ rows'[d].case = rows[d].case
        /\ rows'[d].deletedAt \in {rows[d].deletedAt, now}
    BY <2>1 DEF TimesMoveOn, DocumentsAhead
  <2> QED
    BY <1>2, <2>1, <2>2 DEF DocumentDue, DocumentExpired
<1> QED
  BY <1>2, <1>3, <1>4 DEF HoldsDue, CasesAhead, DocumentsAhead, TenantFor

LEMMA NextCaseHoldsDue ==
  ASSUME NEW k \in Cleanups, NEW x \in Run, HoldsDue(k, x), x.sweep = "off",
         NEW y \in NextCase(x)
  PROVE  y \in Run /\ HoldsDue(k, y)
<1>1. y \in Run /\ y.asOf = x.asOf
  BY NextCaseGoesOn DEF GoesOn
<1>2. CASE x.todo = {}
  <2>1. y = [x EXCEPT !.at = "all", !.case = None, !.sweep = "findExpired",
                      !.purging = Purges]
    BY <1>2 DEF NextCase
  <2>2. /\ y.at = "all" /\ y.sweep = "findExpired" /\ y.todo = {}
    BY <1>2, <2>1 DEF Run
  <2> QED
    BY <1>1, <2>2 DEF HoldsDue, CasesAhead, DocumentsAhead
<1>3. CASE x.todo # {}
  <2>1. PICK c \in x.todo :
          y = [x EXCEPT !.at = IF DocsFound(x, c) = {} THEN "deleteCase"
                                                       ELSE "unlinkFile",
                        !.case = c, !.todo = @ \ {c}, !.left = DocsFound(x, c)]
    BY <1>3 DEF NextCase
  <2>2. /\ y.at \in {"deleteCase", "unlinkFile"} /\ y.sweep = "off"
        /\ y.case = c /\ y.todo \subseteq x.todo
    BY <2>1 DEF Run
  <2>3. CasesAhead(y) \subseteq CasesAhead(x) /\ DocumentsAhead(y) = {}
    BY <2>2 DEF CasesAhead, DocumentsAhead
  <2> QED
    BY <1>1, <2>2, <2>3 DEF HoldsDue, CaseDue
<1> QED
  BY <1>2, <1>3

\* A run that moves on without taking more upon itself.
LEMMA LessAhead ==
  ASSUME NEW k \in Cleanups, NEW x \in Run, NEW y \in Run, HoldsDue(k, x),
         y.asOf = x.asOf,
         y.at \in {"idle", "cutoffs"} => y.todo = {},
         y.at \in {"idle", "cutoffs", "findCases", "unlinkFile", "deleteCase"} =>
           y.sweep = "off",
         CasesAhead(y) \subseteq CasesAhead(x),
         DocumentsAhead(y) \subseteq DocumentsAhead(x)
  PROVE  HoldsDue(k, y)
  BY DEF HoldsDue, CaseDue, DocumentDue

LEMMA JoinedHoldsDue ==
  ASSUME NEW k \in Cleanups, NEW x \in Run, HoldsDue(k, x)
  PROVE  HoldsDue(k, Joined(x))
<1> DEFINE y == [x EXCEPT !.at = "auditRun"]
<1>1. CASE Joined(x) = x
  BY <1>1
<1>2. CASE Joined(x) = y
  <2>1. y \in Run /\ y.asOf = x.asOf /\ y.at = "auditRun"
    BY DEF Run, MainSteps
  <2>2. CasesAhead(y) \subseteq CasesAhead(x) /\ DocumentsAhead(y) \subseteq DocumentsAhead(x)
    BY DEF CasesAhead, DocumentsAhead, Run
  <2> HIDE DEF y
  <2> QED
    BY <1>2, <2>1, <2>2, LessAhead
<1> QED
  BY <1>1, <1>2 DEF Joined

\* The sweep goes on with documents that are due.
LEMMA SweepOnHoldsDue ==
  ASSUME NEW k \in Cleanups, NEW x \in Run, HoldsDue(k, x),
         x.at \notin {"idle", "cutoffs", "findCases", "unlinkFile", "deleteCase"},
         \A d \in x.left : /\ rows[d] # None
                            /\ TenantOf[rows[d].case] = TenantFor(k)
                            /\ DocumentDue(x, d)
  PROVE  HoldsDue(k, SweepOn(x))
<1>1. CASE x.left = {}
  <2> DEFINE y == [x EXCEPT !.sweep = "over", !.doc = None]
  <2>1. y \in Run /\ y.asOf = x.asOf /\ y.at = x.at
    BY DEF Run
  <2>2. CasesAhead(y) \subseteq CasesAhead(x) /\ DocumentsAhead(y) \subseteq DocumentsAhead(x)
    BY DEF CasesAhead, DocumentsAhead, Run
  <2>3. SweepOn(x) = Joined(y)
    BY <1>1 DEF SweepOn
  <2> HIDE DEF y
  <2>4. HoldsDue(k, y)
    BY <2>1, <2>2, LessAhead
  <2> QED
    BY <2>1, <2>3, <2>4, JoinedHoldsDue
<1>2. CASE x.left # {}
  <2> DEFINE y == [x EXCEPT !.sweep = "unlinkExpired", !.doc = None]
  <2>1. /\ y.asOf = x.asOf /\ y.at = x.at /\ y.todo = x.todo /\ y.case = x.case
        /\ y.left = x.left /\ y.sweep = "unlinkExpired"
    BY DEF Run
  <2>2. SweepOn(x) = y
    BY <1>2 DEF SweepOn
  <2> HIDE DEF y
  <2> QED
    BY <2>1, <2>2
    DEF HoldsDue, CasesAhead, DocumentsAhead, CaseDue, DocumentDue
<1> QED
  BY <1>1, <1>2

\* The record a step of a cleanup leaves holds what is due.
LEMMA CaseLoopHoldsDue ==
  ASSUME TypeOK, NEW k \in Cleanups, HoldsDue(k, run[k]), CaseLoopStep(k)
  PROVE  \E y \in Run : run' = [run EXCEPT ![k] = y] /\ HoldsDue(k, y)
<1>1. run[k] \in Run
  BY DEF TypeOK
<1>2. CASE FindCases(k)
  <2> DEFINE found == {c \in Cases : /\ Present(c) /\ TenantOf[c] = TenantFor(k)
                                     /\ CaseExpired(c, run[k].asOf)}
             docs == {d \in Docs : Stored(d) /\ rows[d].case \in found}
             x == [run[k] EXCEPT !.found = found, !.docs = docs, !.todo = found]
  <2>1. PICK y \in NextCase(x) : run' = [run EXCEPT ![k] = y]
    BY <1>2 DEF FindCases
  <2>2. /\ x \in Run /\ x.at = "findCases" /\ x.sweep = "off"
        /\ x.asOf = run[k].asOf /\ x.asOf <= now /\ x.todo = found
    BY <1>1, <1>2 DEF FindCases, Run, HoldsDue
  <2>3. /\ DocumentsAhead(x) = {}
        /\ \A c \in CasesAhead(x) : TenantOf[c] = TenantFor(k) /\ CaseDue(x, c)
    BY <2>2 DEF DocumentsAhead, CasesAhead, CaseDue
  <2> HIDE DEF x
  <2>4. HoldsDue(k, x)
    BY <2>2, <2>3 DEF HoldsDue
  <2> QED
    BY <2>1, <2>2, <2>4, NextCaseHoldsDue
<1>3. CASE UnlinkFile(k)
  <2>1. PICK d \in run[k].left, ok \in BOOLEAN :
          LET x == [run[k] EXCEPT !.left = @ \ {d},
                                  !.stuck = IF ok THEN @ ELSE @ \cup {d}]
          IN  \E y \in IF x.left = {} THEN AfterFiles(x) ELSE {x} :
                run' = [run EXCEPT ![k] = y]
    BY <1>3 DEF UnlinkFile
  <2> DEFINE x == [run[k] EXCEPT !.left = @ \ {d},
                                 !.stuck = IF ok THEN @ ELSE @ \cup {d}]
  <2>2. PICK y \in IF x.left = {} THEN AfterFiles(x) ELSE {x} :
          run' = [run EXCEPT ![k] = y]
    BY <2>1
  <2>3. run[k].at = "unlinkFile" /\ run[k].sweep = "off" /\ d \in Docs
    BY <1>1, <1>3 DEF UnlinkFile, Run, HoldsDue
  <2>4. /\ x \in Run /\ x.at = "unlinkFile" /\ x.sweep = "off"
        /\ x.asOf = run[k].asOf /\ x.todo = run[k].todo /\ x.case = run[k].case
    BY <1>1, <2>3 DEF Run
  <2> HIDE DEF x
  <2>5. HoldsDue(k, x)
    BY <1>1, <2>3, <2>4, LessAhead DEF CasesAhead, DocumentsAhead
  <2>6. CASE y \in NextCase(x)
    BY <2>2, <2>4, <2>5, <2>6, NextCaseHoldsDue
  <2>7. CASE y = x
    BY <2>2, <2>4, <2>5, <2>7
  <2>8. CASE y = [x EXCEPT !.at = "deleteCase"]
    <3>1. /\ y \in Run /\ y.at = "deleteCase" /\ y.sweep = "off"
          /\ y.asOf = x.asOf /\ y.todo = x.todo /\ y.case = x.case
      BY <2>4, <2>8 DEF Run, MainSteps
    <3>2. HoldsDue(k, y)
      BY <2>4, <2>5, <3>1, LessAhead DEF CasesAhead, DocumentsAhead
    <3> QED
      BY <2>2, <3>1, <3>2
  <2> QED
    BY <2>2, <2>6, <2>7, <2>8 DEF AfterFiles
<1>4. CASE DeleteCase(k)
  <2>1. PICK y \in NextCase(run[k]) : run' = [run EXCEPT ![k] = y]
    BY <1>4 DEF DeleteCase
  <2>2. run[k].sweep = "off"
    BY <1>4 DEF DeleteCase, HoldsDue
  <2> QED
    BY <1>1, <2>1, <2>2, NextCaseHoldsDue
<1> QED
  BY <1>2, <1>3, <1>4 DEF CaseLoopStep

\* A rejection beside the main thread takes nothing upon the run.
LEMMA RejectedHoldsDue ==
  ASSUME NEW k \in Cleanups, NEW x \in Run, HoldsDue(k, x), Rejected(k, x)
  PROVE  \E y \in Run : run' = [run EXCEPT ![k] = y] /\ HoldsDue(k, y)
<1>1. CASE x.at = "all"
  <2> DEFINE y == [x EXCEPT !.at = "failed"]
  <2>1. y \in Run /\ y.asOf = x.asOf /\ y.at = "failed"
    BY DEF Run, Settled
  <2>2. CasesAhead(y) \subseteq CasesAhead(x) /\ DocumentsAhead(y) \subseteq DocumentsAhead(x)
    BY DEF CasesAhead, DocumentsAhead, Run
  <2>3. run' = [run EXCEPT ![k] = y]
    BY <1>1 DEF Rejected
  <2> HIDE DEF y
  <2> QED
    BY <2>1, <2>2, <2>3, LessAhead
<1>2. CASE x.at # "all"
  BY <1>2 DEF Rejected
<1> QED
  BY <1>1, <1>2

LEMMA SweepHoldsDue ==
  ASSUME TypeOK, NEW k \in Cleanups, HoldsDue(k, run[k]), SweepStep(k)
  PROVE  \E y \in Run : run' = [run EXCEPT ![k] = y] /\ HoldsDue(k, y)
<1>1. run[k] \in Run
  BY DEF TypeOK
<1> DEFINE over == [run[k] EXCEPT !.sweep = "over", !.doc = None]
<1>2. over \in Run /\ HoldsDue(k, over)
  <2>1. run[k].at \notin {"idle", "cutoffs", "findCases", "unlinkFile", "deleteCase"}
    BY DEF SweepStep, FindExpired, UnlinkExpired, DeleteRow, SweepFails, HoldsDue
  <2>2. /\ over \in Run /\ over.asOf = run[k].asOf /\ over.at = run[k].at
    BY <1>1 DEF Run
  <2>3. CasesAhead(over) \subseteq CasesAhead(run[k]) /\ DocumentsAhead(over) = {}
    BY <1>1 DEF CasesAhead, DocumentsAhead, Run
  <2> HIDE DEF over
  <2> QED
    BY <1>1, <2>1, <2>2, <2>3, LessAhead
<1> HIDE DEF over
<1>3. CASE FindExpired(k)
  <2> DEFINE expired == {d \in Docs : /\ Stored(d)
                                      /\ TenantOf[rows[d].case] = TenantFor(k)
                                      /\ rows[d].case \notin run[k].found
                                      /\ DocumentExpired(d, run[k].asOf)}
             x == [run[k] EXCEPT !.expired = expired, !.left = expired]
  <2>1. run' = [run EXCEPT ![k] = SweepOn(x)]
    BY <1>1, <1>3 DEF FindExpired, TypeOK
  <2>2. /\ x \in Run /\ x.at = run[k].at /\ x.sweep = "findExpired"
        /\ x.asOf = run[k].asOf /\ x.todo = run[k].todo /\ x.case = run[k].case
        /\ x.left = expired
    BY <1>1, <1>3 DEF FindExpired, Run
  <2>3. \A d \in x.left : /\ rows[d] # None
                          /\ TenantOf[rows[d].case] = TenantFor(k)
                          /\ DocumentDue(x, d)
    BY <2>2 DEF DocumentDue, Stored
  <2> HIDE DEF x, expired
  <2>4. /\ x.at \notin {"idle", "cutoffs", "findCases", "unlinkFile", "deleteCase"}
        /\ HoldsDue(k, x)
    <3>1. x.at \notin {"idle", "cutoffs", "findCases", "unlinkFile", "deleteCase"}
      BY <1>3, <2>2 DEF HoldsDue, FindExpired
    <3> QED
      BY <1>1, <2>2, <3>1, LessAhead DEF CasesAhead, DocumentsAhead
  <2>5. HoldsDue(k, SweepOn(x)) /\ SweepOn(x) \in Run
    BY <2>2, <2>3, <2>4, SweepOnHoldsDue, SweepOnAlongside DEF Alongside
  <2> QED
    BY <2>1, <2>5
<1>4. CASE UnlinkExpired(k)
  <2>1. PICK d \in run[k].left :
          LET x == [run[k] EXCEPT !.left = @ \ {d}]
          IN  \/ run' = [run EXCEPT ![k] = [x EXCEPT !.sweep = "deleteRow",
                                                     !.doc = d]]
              \/ run' = [run EXCEPT ![k] = SweepOn([x EXCEPT !.stuck = @ \cup {d}])]
    BY <1>4 DEF UnlinkExpired
  <2> DEFINE x == [run[k] EXCEPT !.left = @ \ {d}]
             y == [x EXCEPT !.sweep = "deleteRow", !.doc = d]
             z == [x EXCEPT !.stuck = @ \cup {d}]
  <2>2. d \in Docs /\ run[k].sweep = "unlinkExpired"
    BY <1>1, <1>4, <2>1 DEF Run, UnlinkExpired
  <2>3. /\ y \in Run /\ y.at = run[k].at /\ y.sweep = "deleteRow" /\ y.doc = d
        /\ y.asOf = run[k].asOf /\ y.todo = run[k].todo /\ y.case = run[k].case
        /\ y.left = run[k].left \ {d}
    BY <1>1, <2>2 DEF Run, SweepSteps
  <2>4. /\ z \in Run /\ z.at = run[k].at /\ z.sweep = "unlinkExpired"
        /\ z.asOf = run[k].asOf /\ z.todo = run[k].todo /\ z.case = run[k].case
        /\ z.left = run[k].left \ {d}
    BY <1>1, <2>2 DEF Run
  <2>5. run' = [run EXCEPT ![k] = y] \/ run' = [run EXCEPT ![k] = SweepOn(z)]
    BY <2>1
  <2> HIDE DEF x, y, z
  <2>6. run[k].at \notin {"idle", "cutoffs", "findCases", "unlinkFile", "deleteCase"}
    BY <2>2 DEF HoldsDue
  <2>7. HoldsDue(k, y)
    <3>1. CasesAhead(y) \subseteq CasesAhead(run[k])
      BY <2>3 DEF CasesAhead
    <3>2. DocumentsAhead(y) \subseteq DocumentsAhead(run[k])
      BY <2>1, <2>2, <2>3 DEF DocumentsAhead
    <3> QED
      BY <1>1, <2>3, <2>6, <3>1, <3>2, LessAhead
  <2>8. HoldsDue(k, z)
    <3>1. CasesAhead(z) \subseteq CasesAhead(run[k])
      BY <2>4 DEF CasesAhead
    <3>2. DocumentsAhead(z) \subseteq DocumentsAhead(run[k])
      BY <2>2, <2>4 DEF DocumentsAhead
    <3> QED
      BY <1>1, <2>4, <2>6, <3>1, <3>2, LessAhead
  <2>9. \A e \in z.left : /\ rows[e] # None
                          /\ TenantOf[rows[e].case] = TenantFor(k)
                          /\ DocumentDue(z, e)
    <3>1. z.left \subseteq DocumentsAhead(z)
      BY <2>4 DEF DocumentsAhead, Run
    <3> QED
      BY <2>8, <3>1 DEF HoldsDue
  <2>10. HoldsDue(k, SweepOn(z)) /\ SweepOn(z) \in Run
    BY <2>4, <2>6, <2>8, <2>9, SweepOnHoldsDue, SweepOnAlongside DEF Alongside
  <2> QED
    BY <2>3, <2>5, <2>7, <2>10
<1>5. CASE DeleteRow(k)
  <2>1. CASE Stored(run[k].doc)
    <3>1. run' = [run EXCEPT ![k] = SweepOn(run[k])] /\ run[k].sweep = "deleteRow"
      BY <1>1, <1>5, <2>1 DEF DeleteRow, TypeOK
    <3>2. run[k].at \notin {"idle", "cutoffs", "findCases", "unlinkFile", "deleteCase"}
      BY <3>1 DEF HoldsDue
    <3>3. run[k].left \subseteq DocumentsAhead(run[k])
      BY <1>1, <3>1 DEF DocumentsAhead, Run
    <3>4. HoldsDue(k, SweepOn(run[k])) /\ SweepOn(run[k]) \in Run
      BY <1>1, <3>2, <3>3, SweepOnHoldsDue, SweepOnAlongside DEF Alongside, HoldsDue
    <3> QED
      BY <3>1, <3>4
  <2>2. CASE ~Stored(run[k].doc)
    <3>1. Rejected(k, over)
      BY <1>5, <2>2 DEF DeleteRow, over
    <3> QED
      BY <1>2, <3>1, RejectedHoldsDue
  <2> QED
    BY <2>1, <2>2
<1>6. CASE SweepFails(k)
  <2>1. Rejected(k, over)
    BY <1>6 DEF SweepFails, over
  <2> QED
    BY <1>2, <2>1, RejectedHoldsDue
<1> QED
  BY <1>3, <1>4, <1>5, <1>6 DEF SweepStep

LEMMA PurgeHoldsDue ==
  ASSUME TypeOK, NEW k \in Cleanups, HoldsDue(k, run[k]), PurgeStep(k)
  PROVE  \E y \in Run : run' = [run EXCEPT ![k] = y] /\ HoldsDue(k, y)
<1>1. run[k] \in Run
  BY DEF TypeOK
<1>2. PICK p \in run[k].purging :
        \/ run' = [run EXCEPT ![k] = Joined([run[k] EXCEPT !.purging = @ \ {p}])]
        \/ Rejected(k, [run[k] EXCEPT !.purging = @ \ {p}])
  BY DEF PurgeStep, Purge, PurgeFails
<1> DEFINE x == [run[k] EXCEPT !.purging = @ \ {p}]
<1>3. /\ x \in Run /\ x.at = run[k].at /\ x.sweep = run[k].sweep
      /\ x.asOf = run[k].asOf /\ x.todo = run[k].todo /\ x.case = run[k].case
      /\ x.left = run[k].left /\ x.doc = run[k].doc
  BY <1>1 DEF Run
<1>4. run' = [run EXCEPT ![k] = Joined(x)] \/ Rejected(k, x)
  BY <1>2
<1> HIDE DEF x
<1>5. HoldsDue(k, x)
  BY <1>1, <1>3 DEF HoldsDue, CasesAhead, DocumentsAhead, CaseDue, DocumentDue
<1>6. HoldsDue(k, Joined(x)) /\ Joined(x) \in Run
  BY <1>3, <1>5, JoinedHoldsDue, JoinedAlongside DEF Alongside
<1> QED
  BY <1>3, <1>4, <1>5, <1>6, RejectedHoldsDue

LEMMA MainHoldsDue ==
  ASSUME TypeOK, NEW k \in Cleanups, HoldsDue(k, run[k]), MainStep(k)
  PROVE  \E y \in Run : run' = [run EXCEPT ![k] = y] /\ HoldsDue(k, y)
<1>1. run[k] \in Run
  BY DEF TypeOK
<1>2. CASE ComputeCutoffs(k)
  <2> DEFINE y == [run[k] EXCEPT !.asOf = now,
                                 !.at = IF run[k].confirm THEN "findCases"
                                                          ELSE "auditRun"]
  <2>1. run' = [run EXCEPT ![k] = y]
    BY <1>2 DEF ComputeCutoffs, TypeOK
  <2>2. run[k].todo = {} /\ run[k].sweep = "off"
    BY <1>2 DEF ComputeCutoffs, HoldsDue
  <2>3. /\ y \in Run /\ y.at \in {"findCases", "auditRun"} /\ y.sweep = "off"
        /\ y.asOf = now /\ y.todo = {}
    BY <1>1, <2>2 DEF Run, MainSteps, TypeOK, DocTypeOK
  <2> HIDE DEF y
  <2>4. now <= now
    BY StartAssumption DEF TypeOK, DocTypeOK, Days
  <2>5. HoldsDue(k, y)
    BY <2>3, <2>4 DEF HoldsDue, CasesAhead, DocumentsAhead
  <2> QED
    BY <2>1, <2>3, <2>5
<1>3. CASE CaseLoopStep(k)
  BY <1>3, CaseLoopHoldsDue
<1>4. CASE AuditRun(k) \/ MaintenanceRun(k) \/ FailCleanup(k)
  <2>1. PICK to \in {"maintenanceRun", "done", "failed"}, reported \in BOOLEAN :
          run' = [run EXCEPT ![k] = [run[k] EXCEPT !.at = to, !.reported = reported]]
    <3>1. CASE AuditRun(k)
      BY <1>1, <3>1 DEF AuditRun, TypeOK, Run
    <3>2. CASE MaintenanceRun(k) \/ FailCleanup(k)
      <4>1. PICK to \in {"done", "failed"} :
              run' = [run EXCEPT ![k] = [run[k] EXCEPT !.at = to]]
        BY <3>2 DEF MaintenanceRun, FailCleanup, TypeOK
      <4>2. [run[k] EXCEPT !.at = to]
              = [run[k] EXCEPT !.at = to, !.reported = run[k].reported]
        BY <1>1 DEF Run
      <4>3. run[k].reported \in BOOLEAN
        BY <1>1 DEF Run
      <4> QED
        BY <4>1, <4>2, <4>3
    <3> QED
      BY <1>4, <3>1, <3>2
  <2> DEFINE y == [run[k] EXCEPT !.at = to, !.reported = reported]
  <2>2. /\ y \in Run /\ y.at = to /\ y.sweep = run[k].sweep
        /\ y.asOf = run[k].asOf /\ y.todo = run[k].todo
        /\ y.left = run[k].left /\ y.doc = run[k].doc
    BY <1>1 DEF Run, MainSteps, Settled
  <2>3. run' = [run EXCEPT ![k] = y]
    BY <2>1
  <2> HIDE DEF y
  <2>4. HoldsDue(k, y)
    BY <1>1, <2>2, LessAhead DEF CasesAhead, DocumentsAhead
  <2> QED
    BY <2>2, <2>3, <2>4
<1> QED
  BY <1>2, <1>3, <1>4 DEF MainStep

LEMMA ArrivalHoldsDue ==
  ASSUME TypeOK, NEW k \in Cleanups, HoldsDue(k, run[k]), NEW confirm \in BOOLEAN,
         StartCleanup(k, confirm) \/ RefuseCleanup(k, confirm)
  PROVE  \E y \in Run : run' = [run EXCEPT ![k] = y] /\ HoldsDue(k, y)
<1>1. run[k] \in Run /\ run[k].at = "idle"
  BY DEF TypeOK, StartCleanup, RefuseCleanup
<1>2. PICK to \in {"cutoffs", "rejected"}, confirmed \in BOOLEAN :
        run' = [run EXCEPT ![k] = [run[k] EXCEPT !.at = to, !.confirm = confirmed]]
  <2>1. CASE StartCleanup(k, confirm)
    BY <2>1 DEF StartCleanup, TypeOK
  <2>2. CASE RefuseCleanup(k, confirm)
    <3>1. [run[k] EXCEPT !.at = "rejected"]
            = [run[k] EXCEPT !.at = "rejected", !.confirm = run[k].confirm]
      BY <1>1 DEF Run
    <3>2. run[k].confirm \in BOOLEAN
      BY <1>1 DEF Run
    <3>3. run' = [run EXCEPT ![k] = [run[k] EXCEPT !.at = "rejected"]]
      BY <2>2 DEF RefuseCleanup, TypeOK
    <3> QED
      BY <3>1, <3>2, <3>3
  <2> QED
    BY <2>1, <2>2
<1> DEFINE y == [run[k] EXCEPT !.at = to, !.confirm = confirmed]
<1>3. /\ y \in Run /\ y.at = to /\ y.sweep = run[k].sweep
      /\ y.asOf = run[k].asOf /\ y.todo = run[k].todo
      /\ y.left = run[k].left /\ y.doc = run[k].doc
  BY <1>1 DEF Run, MainSteps, Settled
<1>4. run' = [run EXCEPT ![k] = y]
  BY <1>2
<1> HIDE DEF y
<1>5. HoldsDue(k, y)
  BY <1>1, <1>3, LessAhead DEF CasesAhead, DocumentsAhead, HoldsDue
<1> QED
  BY <1>3, <1>4, <1>5

-----------------------------------------------------------------------------

\* A step of a request or of the rest of the system moves times on only.
LEMMA DocTimesMoveOn ==
  ASSUME DocIInv, RowsFresh, DocNext
  PROVE  TimesMoveOn /\ RowsFresh'
<1> USE DEF DocIInv
<1>1. now \in Nat
  BY StartAssumption DEF DocTypeOK, Days
<1>2. ASSUME NEW r \in Requests, CreateRow(r)
      PROVE  TimesMoveOn /\ RowsFresh'
  <2>1. rows[r] = None
    BY <1>2 DEF RowsFresh, CreateRow, Transition
  <2>2. /\ rows' = rows \/ \E row \in DocumentRow : rows' = [rows EXCEPT ![r] = row]
        /\ UNCHANGED <<now, cases>>
    <3>1. job[r] \in UploadJob
      BY <1>2 DEF CreateRow, Transition, JobMatchesStep, UploadSteps
    <3>2. [case |-> job[r].case, sensitive |-> job[r].sensitive,
           deletedAt |-> Never, removed |-> FALSE] \in DocumentRow
      BY <3>1 DEF UploadJob, DocumentRow, MaybeDay
    <3> QED
      BY <1>2, <3>2 DEF CreateRow
  <2>3. TimesMoveOn
    BY <1>1, <2>1, <2>2 DEF TimesMoveOn, DocTypeOK, Docs
  <2>4. \E to \in {"auditUpload", "failed"} : pc' = [pc EXCEPT ![r] = to]
    BY <1>2 DEF CreateRow, Transition
  <2>5. RowsFresh'
    BY <2>2, <2>4 DEF RowsFresh, DocTypeOK, Docs
  <2> QED
    BY <2>3, <2>5
<1>3. ASSUME NEW r \in Requests, SetDeletedAt(r)
      PROVE  TimesMoveOn /\ RowsFresh'
  <2>1. UNCHANGED <<now, cases>>
    BY <1>3 DEF SetDeletedAt
  <2>2. rows' = rows \/ \E d \in Docs : /\ rows[d] # None
                                       /\ rows' = [rows EXCEPT ![d].deletedAt = now]
    <3>1. job[r] \in DocumentJob
      BY <1>3 DEF SetDeletedAt, Transition, JobMatchesStep, DeleteSteps
    <3>2. job[r].doc \in Docs
      BY <3>1 DEF DocumentJob
    <3> QED
      BY <1>3, <3>2 DEF SetDeletedAt, Stored
  <2>3. \A d \in Docs : IF rows[d] = None THEN rows'[d] = None
                        ELSE /\ rows'[d] \in DocumentRow
                             /\ rows'[d].case = rows[d].case
                             /\ rows'[d].deletedAt \in {rows[d].deletedAt, now}
    BY <2>2 DEF DocTypeOK, DocumentRow, MaybeDay
  <2>4. TimesMoveOn
    BY <1>1, <2>1, <2>3, DocumentJobsAssumption DEF TimesMoveOn
  <2>5. \E to \in {"auditDelete", "failed"} : pc' = [pc EXCEPT ![r] = to]
    BY <1>3 DEF SetDeletedAt, Transition
  <2>6. RowsFresh'
    BY <2>3, <2>5 DEF RowsFresh, DocTypeOK, Docs
  <2> QED
    BY <2>4, <2>6
<1>4. ASSUME UNCHANGED <<now, cases, rows>>
      PROVE  TimesMoveOn
  BY <1>1, <1>4 DEF TimesMoveOn
<1>5. ASSUME NEW r \in Requests,
             \/ WriteFile(r) \/ WriteFileFails(r) \/ AuditUpload(r)
             \/ FindToDelete(r) \/ AuditDelete(r)
             \/ DownloadStep(r) \/ ListStep(r) \/ Fail(r)
      PROVE  TimesMoveOn /\ RowsFresh'
  <2>1. UNCHANGED <<now, cases, rows>>
    BY <1>5
    DEF WriteFile, WriteFileFails, AuditUpload, FindToDelete, AuditDelete,
        DownloadStep, FindToDownload, AccessFile, AuditDownload, OpenStream,
        ListStep, FindAll, AuditList, Fail
  <2>2. PICK to : pc' = [pc EXCEPT ![r] = to] /\ (to = "createRow" => pc[r] = "writeFile")
                  /\ to \notin {"idle", "writeFile"}
    BY <1>5
    DEF WriteFile, WriteFileFails, AuditUpload, FindToDelete, AuditDelete,
        DownloadStep, FindToDownload, AccessFile, AuditDownload, OpenStream,
        ListStep, FindAll, AuditList, Fail, Transition
  <2>3. RowsFresh'
    BY <2>1, <2>2 DEF RowsFresh, DocTypeOK
  <2> QED
    BY <1>4, <2>1, <2>3
<1>6. ASSUME NEW r \in Requests, NEW j \in Jobs, Admit(r, j) \/ Refuse(r, j)
      PROVE  TimesMoveOn /\ RowsFresh'
  <2>1. UNCHANGED <<now, cases, rows>>
    BY <1>6 DEF Admit, Refuse
  <2>2. PICK to : pc[r] = "idle" /\ pc' = [pc EXCEPT ![r] = to]
    BY <1>6 DEF Admit, Refuse, Transition
  <2>3. RowsFresh'
    BY <2>1, <2>2 DEF RowsFresh, DocTypeOK
  <2> QED
    BY <1>4, <2>1, <2>3
<1>7. CASE EnvironmentStep
  <2>1. CASE Tick
    BY <1>1, <2>1 DEF Tick, TimesMoveOn, RowsFresh, requestVars
  <2>2. ASSUME NEW c \in Cases, StatusUpdated(c)
        PROVE  TimesMoveOn /\ RowsFresh'
    BY <1>1, <2>2
    DEF StatusUpdated, TimesMoveOn, RowsFresh, requestVars, DocTypeOK, CaseRow
  <2>3. ASSUME NEW c \in Cases, CaseReviewed(c)
        PROVE  TimesMoveOn /\ RowsFresh'
    BY <1>1, <2>3
    DEF CaseReviewed, TimesMoveOn, RowsFresh, requestVars, DocTypeOK, CaseRow
  <2> QED
    BY <1>7, <2>1, <2>2, <2>3, StartAssumption DEF EnvironmentStep
<1> QED
  BY <1>2, <1>3, <1>5, <1>6, <1>7
  DEF DocNext, RequestStep, UploadStep, DeleteStep

\* A step of a cleanup removes rows and leaves their times alone.
LEMMA CleanupTimesMoveOn ==
  ASSUME IInv, RowsFresh, NEW k \in Cleanups, CleanupStep(k)
  PROVE  TimesMoveOn /\ RowsFresh'
<1> USE DEF IInv, TypeOK, DocTypeOK
<1>1. now \in Nat
  BY StartAssumption DEF Days
<1>2. CASE DeleteCase(k)
  <2>1. /\ \A c \in Cases : cases'[c].closedAt = cases[c].closedAt
        /\ UNCHANGED <<now, pc>>
    BY <1>2 DEF DeleteCase, CaseRow, requestVars
  <2>2. \A d \in Docs : IF rows[d] = None THEN rows'[d] = None
                        ELSE /\ rows'[d] \in DocumentRow
                             /\ rows'[d].case = rows[d].case
                             /\ rows'[d].deletedAt = rows[d].deletedAt
    <3> SUFFICES ASSUME NEW d \in Docs
                 PROVE  IF rows[d] = None THEN rows'[d] = None
                        ELSE /\ rows'[d] \in DocumentRow
                             /\ rows'[d].case = rows[d].case
                             /\ rows'[d].deletedAt = rows[d].deletedAt
      OBVIOUS
    <3>1. rows'[d] \in {rows[d], [rows[d] EXCEPT !.removed = TRUE]}
             /\ (rows[d] = None => rows'[d] = rows[d])
      BY <1>2 DEF DeleteCase, Stored
    <3>2. rows[d] # None => rows[d] \in DocumentRow
      OBVIOUS
    <3> QED
      BY <3>1, <3>2 DEF DocumentRow
  <2> QED
    BY <1>1, <2>1, <2>2, DocumentJobsAssumption DEF TimesMoveOn, RowsFresh, Docs
<1>3. CASE DeleteRow(k)
  <2>1. UNCHANGED <<now, cases, pc>>
    BY <1>3 DEF DeleteRow, requestVars
  <2>2. \A d \in Docs : IF rows[d] = None THEN rows'[d] = None
                        ELSE /\ rows'[d] \in DocumentRow
                             /\ rows'[d].case = rows[d].case
                             /\ rows'[d].deletedAt = rows[d].deletedAt
    <3> SUFFICES ASSUME NEW d \in Docs
                 PROVE  IF rows[d] = None THEN rows'[d] = None
                        ELSE /\ rows'[d] \in DocumentRow
                             /\ rows'[d].case = rows[d].case
                             /\ rows'[d].deletedAt = rows[d].deletedAt
      OBVIOUS
    <3>1. rows'[d] \in {rows[d], [rows[d] EXCEPT !.removed = TRUE]}
             /\ (rows[d] = None => rows'[d] = rows[d])
      BY <1>3 DEF DeleteRow, Stored
    <3>2. rows[d] # None => rows[d] \in DocumentRow
      OBVIOUS
    <3> QED
      BY <3>1, <3>2 DEF DocumentRow
  <2> QED
    BY <1>1, <2>1, <2>2, DocumentJobsAssumption DEF TimesMoveOn, RowsFresh, Docs
<1>4. CASE UNCHANGED <<now, cases, rows, pc>>
  BY <1>1, <1>4 DEF TimesMoveOn, RowsFresh
<1> QED
  BY <1>2, <1>3, <1>4
  DEF CleanupStep, MainStep, CaseLoopStep, SweepStep, PurgeStep, ComputeCutoffs,
      FindCases, UnlinkFile, AuditRun, MaintenanceRun, FailCleanup, FindExpired,
      UnlinkExpired, SweepFails, Purge, PurgeFails, docVars, requestVars

DueInv == IInv /\ RowsFresh /\ RunsHoldDue

LEMMA InitDueInv == Init => DueInv
<1> SUFFICES ASSUME Init PROVE DueInv
  OBVIOUS
<1>1. IInv
  BY InitIInv
<1>2. RowsFresh
  BY DocumentJobsAssumption DEF Init, DocInit, RowsFresh, Docs
<1>3. ASSUME NEW k \in Cleanups PROVE HoldsDue(k, run[k])
  <2>1. run[k] = Idle
    BY DEF Init
  <2>2. now \in Nat
    BY <1>1, StartAssumption DEF IInv, TypeOK, DocTypeOK, Days
  <2>3. /\ run[k].at = "idle" /\ run[k].sweep = "off" /\ run[k].todo = {}
        /\ run[k].asOf = 0
    BY <2>1 DEF Idle
  <2> QED
    BY <2>2, <2>3 DEF HoldsDue, CasesAhead, DocumentsAhead
<1> QED
  BY <1>1, <1>2, <1>3 DEF DueInv, RunsHoldDue

\* One cleanup steps, the times move on: every run still holds what is due.
LEMMA RunHoldsDue ==
  ASSUME TypeOK, TypeOK', TimesMoveOn, RunsHoldDue, NEW k \in Cleanups,
         NEW y \in Run, run' = [run EXCEPT ![k] = y], HoldsDue(k, y)
  PROVE  RunsHoldDue'
<1>1. HoldsDue(k, y)'
  BY DueStaysDue
<1>2. ASSUME NEW l \in Cleanups PROVE HoldsDue(l, run[l])'
  <2>1. CASE l = k
    <3>1. run'[l] = y
      BY <2>1 DEF TypeOK
    <3> QED
      BY <1>1, <2>1, <3>1 DEF HoldsDue, CasesAhead, DocumentsAhead, CaseDue,
                              CaseExpired, DocumentDue, DocumentExpired
  <2>2. CASE l # k
    <3> DEFINE x == run[l]
    <3>1. x \in Run /\ HoldsDue(l, x)
      BY DEF TypeOK, RunsHoldDue
    <3>2. run'[l] = x
      BY <2>2 DEF TypeOK
    <3>3. PICK z \in Run : z = x
      BY <3>1
    <3>4. HoldsDue(l, z)'
      BY <3>1, <3>3, DueStaysDue
    <3> QED
      BY <3>2, <3>3, <3>4 DEF HoldsDue, CasesAhead, DocumentsAhead, CaseDue,
                              CaseExpired, DocumentDue, DocumentExpired
  <2> QED
    BY <2>1, <2>2
<1> QED
  BY <1>2 DEF RunsHoldDue

LEMMA CrashHoldsDue ==
  ASSUME IInv, RowsFresh, RunsHoldDue, Crash
  PROVE  RowsFresh' /\ RunsHoldDue'
<1> USE DEF IInv
<1>1. /\ UNCHANGED <<now, cases, rows>>
      /\ pc' = [r \in Requests |-> IF InFlight(r) THEN "failed" ELSE pc[r]]
  BY DEF Crash, RequestsDie
<1>2. RowsFresh'
  BY <1>1 DEF RowsFresh
<1>3. ASSUME NEW k \in Cleanups PROVE HoldsDue(k, run[k])'
  <2> DEFINE y == [run[k] EXCEPT !.at = IF MainActive(k) THEN "failed" ELSE @,
                                 !.sweep = IF @ = "off" THEN @ ELSE "over",
                                 !.purging = {}]
  <2>1. run'[k] = y
    BY DEF Crash
  <2>2. run[k] \in Run /\ HoldsDue(k, run[k])
    BY DEF TypeOK, RunsHoldDue
  <2>3. /\ y.sweep \in {"off", "over"}
        /\ run[k].sweep = "off" => y.sweep = "off"
        /\ y.asOf = run[k].asOf /\ y.todo = run[k].todo
        /\ y.at \in {run[k].at, "failed"}
        /\ y.case = run[k].case
    BY <2>2 DEF Run
  <2> HIDE DEF y
  <2>4. HoldsDue(k, y)
    BY <2>2, <2>3 DEF HoldsDue, CasesAhead, DocumentsAhead, CaseDue
  <2> QED
    BY <1>1, <2>1, <2>4 DEF HoldsDue, CasesAhead, DocumentsAhead, CaseDue,
                            CaseExpired, DocumentDue, DocumentExpired
<1> QED
  BY <1>2, <1>3 DEF RunsHoldDue

LEMMA NextDueInv == DueInv /\ [Next]_vars => DueInv'
<1> SUFFICES ASSUME DueInv, [Next]_vars PROVE DueInv'
  OBVIOUS
<1> USE DEF DueInv
<1>1. IInv' /\ TypeOK /\ TypeOK'
  BY NextIInv DEF IInv
<1>2. CASE DocNext /\ UNCHANGED <<lock, run>>
  <2>1. TimesMoveOn /\ RowsFresh'
    BY <1>2, DocTimesMoveOn DEF IInv, TypeOK, DocIInv
  <2>2. ASSUME NEW k \in Cleanups PROVE RunsHoldDue'
    <3>1. run' = [run EXCEPT ![k] = run[k]] /\ run[k] \in Run /\ HoldsDue(k, run[k])
      BY <1>1, <1>2 DEF TypeOK, RunsHoldDue
    <3> QED
      BY <1>1, <2>1, <3>1, RunHoldsDue
  <2> QED
    BY <1>1, <2>1, <2>2 DEF RunsHoldDue
<1>3. ASSUME NEW k \in Cleanups, CleanupStep(k)
      PROVE  DueInv'
  <2>1. TimesMoveOn /\ RowsFresh'
    BY <1>3, CleanupTimesMoveOn
  <2>2. PICK y \in Run : run' = [run EXCEPT ![k] = y] /\ HoldsDue(k, y)
    BY <1>1, <1>3, MainHoldsDue, SweepHoldsDue, PurgeHoldsDue
    DEF CleanupStep, RunsHoldDue
  <2> QED
    BY <1>1, <2>1, <2>2, RunHoldsDue
<1>4. ASSUME NEW k \in Cleanups, NEW confirm \in BOOLEAN,
             StartCleanup(k, confirm) \/ RefuseCleanup(k, confirm)
      PROVE  DueInv'
  <2>1. UNCHANGED docVars
    BY <1>4 DEF StartCleanup, RefuseCleanup, docVars
  <2>2. TimesMoveOn /\ RowsFresh'
    BY <1>1, <2>1, StartAssumption
    DEF docVars, TimesMoveOn, RowsFresh, TypeOK, DocTypeOK, Days
  <2>3. PICK y \in Run : run' = [run EXCEPT ![k] = y] /\ HoldsDue(k, y)
    BY <1>1, <1>4, ArrivalHoldsDue DEF RunsHoldDue
  <2> QED
    BY <1>1, <2>2, <2>3, RunHoldsDue
<1>5. CASE Crash
  BY <1>1, <1>5, CrashHoldsDue
<1>6. CASE UNCHANGED vars
  BY <1>1, <1>6
  DEF vars, docVars, RowsFresh, RunsHoldDue, HoldsDue, CasesAhead, DocumentsAhead,
      CaseDue, CaseExpired, DocumentDue, DocumentExpired
<1> QED
  BY <1>2, <1>3, <1>4, <1>5, <1>6 DEF Next

\* What a step removes was due in a run that had it at hand.
LEMMA StepRemovesDue == DueInv /\ [Next]_vars => OnlyDueRemoved
<1> SUFFICES ASSUME DueInv, [Next]_vars PROVE OnlyDueRemoved
  OBVIOUS
<1> USE DEF DueInv
<1>1. TypeOK /\ JobMatchesStep
  BY DEF IInv
<1>2. ASSUME NEW k \in Cleanups, DeleteCase(k)
      PROVE  OnlyDueRemoved
  <2> DEFINE c == run[k].case
  <2>1. /\ run[k].at = "deleteCase"
        /\ cases' = [cases EXCEPT ![c].removed = TRUE]
        /\ \A d \in Docs : rows'[d] = IF Stored(d) /\ rows[d].case = c
                                      THEN [rows[d] EXCEPT !.removed = TRUE]
                                      ELSE rows[d]
    BY <1>2 DEF DeleteCase
  <2>2. ASSUME NEW b \in Cases, cases'[b].removed, ~cases[b].removed
        PROVE  b = c /\ TenantOf[b] = TenantFor(k) /\ CaseDue(run[k], b)
    <3>1. b = c
      BY <1>1, <2>1, <2>2 DEF TypeOK, DocTypeOK
    <3>2. b \in CasesAhead(run[k])
      BY <2>1, <3>1 DEF CasesAhead
    <3> QED
      BY <3>1, <3>2 DEF RunsHoldDue, HoldsDue
  <2>3. ASSUME NEW d \in Docs, RemovedRow(d)', ~RemovedRow(d)
        PROVE  cases'[rows[d].case].removed
    <3>1. Stored(d) /\ rows[d].case = c
      BY <2>1, <2>3 DEF RemovedRow
    <3>2. c \in Cases
      BY <1>1, <3>1 DEF TypeOK, DocTypeOK, Stored, DocumentRow
    <3> QED
      BY <1>1, <2>1, <3>1, <3>2 DEF TypeOK, DocTypeOK, CaseRow
  <2> QED
    BY <2>1, <2>2, <2>3 DEF OnlyDueRemoved, CaseDue
<1>3. ASSUME NEW k \in Cleanups, DeleteRow(k)
      PROVE  OnlyDueRemoved
  <2>1. /\ run[k].sweep = "deleteRow" /\ cases' = cases
        /\ rows' = rows \/ rows' = [rows EXCEPT ![run[k].doc].removed = TRUE]
    BY <1>3 DEF DeleteRow
  <2>2. ASSUME NEW d \in Docs, RemovedRow(d)', ~RemovedRow(d)
        PROVE  /\ d = run[k].doc
               /\ TenantOf[rows[d].case] = TenantFor(k)
               /\ DocumentDue(run[k], d)
    <3>1. d = run[k].doc
      BY <1>1, <2>1, <2>2 DEF RemovedRow, TypeOK, DocTypeOK
    <3>2. d \in DocumentsAhead(run[k])
      BY <2>1, <3>1 DEF DocumentsAhead
    <3> QED
      BY <3>1, <3>2 DEF RunsHoldDue, HoldsDue
  <2> QED
    BY <2>1, <2>2 DEF OnlyDueRemoved, DocumentDue
<1>4. ASSUME NEW r \in Requests, CreateRow(r)
      PROVE  OnlyDueRemoved
  <2>1. /\ cases' = cases
        /\ rows' = rows \/ rows' = [rows EXCEPT ![r] =
                                     [case |-> job[r].case,
                                      sensitive |-> job[r].sensitive,
                                      deletedAt |-> Never, removed |-> FALSE]]
    BY <1>4 DEF CreateRow
  <2> QED
    BY <1>1, <2>1 DEF OnlyDueRemoved, RemovedRow, TypeOK, DocTypeOK
<1>5. ASSUME NEW r \in Requests, SetDeletedAt(r)
      PROVE  OnlyDueRemoved
  <2>1. /\ cases' = cases
        /\ rows' = rows \/ \E d \in Docs : /\ Stored(d)
                                          /\ rows' = [rows EXCEPT ![d].deletedAt = now]
    <3>1. job[r].doc \in Docs
      BY <1>1, <1>5 DEF SetDeletedAt, Transition, JobMatchesStep, DeleteSteps, DocumentJob
    <3> QED
      BY <1>5, <3>1 DEF SetDeletedAt
  <2>2. \A d \in Docs : RemovedRow(d)' => RemovedRow(d)
    BY <1>1, <2>1 DEF RemovedRow, Stored, TypeOK, DocTypeOK, DocumentRow
  <2> QED
    BY <2>1, <2>2 DEF OnlyDueRemoved
<1>6. ASSUME NEW c \in Cases, StatusUpdated(c) \/ CaseReviewed(c)
      PROVE  OnlyDueRemoved
  <2>1. rows' = rows
    BY <1>6 DEF StatusUpdated, CaseReviewed
  <2>2. \A b \in Cases : cases'[b].removed = cases[b].removed
    BY <1>1, <1>6 DEF StatusUpdated, CaseReviewed, TypeOK, DocTypeOK, CaseRow
  <2> QED
    BY <2>1, <2>2 DEF OnlyDueRemoved, RemovedRow
<1>7. CASE UNCHANGED <<cases, rows>>
  BY <1>7 DEF OnlyDueRemoved, RemovedRow
<1>8. ASSUME NEW r \in Requests,
             \/ UploadStep(r) /\ ~CreateRow(r)
             \/ DeleteStep(r) /\ ~SetDeletedAt(r)
             \/ DownloadStep(r) \/ ListStep(r) \/ Fail(r)
             \/ \E j \in Jobs : Admit(r, j) \/ Refuse(r, j)
      PROVE  UNCHANGED <<cases, rows>>
  BY <1>8
  DEF UploadStep, WriteFile, WriteFileFails, AuditUpload, DeleteStep,
      FindToDelete, AuditDelete, DownloadStep, FindToDownload, AccessFile,
      AuditDownload, OpenStream, ListStep, FindAll, AuditList, Fail, Admit, Refuse
<1>9. ASSUME NEW k \in Cleanups, CleanupStep(k), ~DeleteCase(k), ~DeleteRow(k)
      PROVE  UNCHANGED <<cases, rows>>
  BY <1>9
  DEF CleanupStep, MainStep, CaseLoopStep, SweepStep, PurgeStep, ComputeCutoffs,
      FindCases, UnlinkFile, AuditRun, MaintenanceRun, FailCleanup, FindExpired,
      UnlinkExpired, SweepFails, Purge, PurgeFails, docVars
<1>10. ASSUME NEW k \in Cleanups, NEW confirm \in BOOLEAN,
              StartCleanup(k, confirm) \/ RefuseCleanup(k, confirm)
       PROVE  UNCHANGED <<cases, rows>>
  BY <1>10 DEF StartCleanup, RefuseCleanup, docVars
<1>11. CASE DocNext
  <2>1. CASE EnvironmentStep
    BY <1>6, <1>7, <2>1, StartAssumption DEF EnvironmentStep, Tick
  <2>2. ASSUME NEW r \in Requests,
               RequestStep(r) \/ \E j \in Jobs : Admit(r, j) \/ Refuse(r, j)
        PROVE  OnlyDueRemoved
    BY <1>4, <1>5, <1>7, <1>8, <2>2 DEF RequestStep
  <2> QED
    BY <1>11, <2>1, <2>2 DEF DocNext
<1>12. CASE Crash \/ UNCHANGED vars
  BY <1>7, <1>12 DEF Crash, RequestsDie, vars, docVars
<1> QED
  BY <1>2, <1>3, <1>7, <1>9, <1>10, <1>11, <1>12 DEF Next

\* executeRetentionCleanup: a cleanup deletes only cases and documents of its
\* tenant that had expired when it found them, or whose time was set since.
THEOREM OnlyExpiredGoSound == Spec => OnlyExpiredGo
<1>1. DueInv /\ [Next]_vars => [OnlyDueRemoved]_vars
  BY StepRemovesDue
<1>2. Spec => [][OnlyDueRemoved]_vars
  BY <1>1, InitDueInv, NextDueInv, PTL DEF Spec
<1> QED
  BY <1>2 DEF OnlyExpiredGo

=============================================================================
