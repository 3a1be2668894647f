--------------------------- MODULE DocumentProofs ---------------------------
(***************************************************************************)
(* What is proved of the document table, the disk and the audit log while  *)
(* requests and retention cleanups work on them, for every instance of     *)
(* RetentionCleanup.  The invariant of RetentionProofs is carried on with  *)
(* what a cleanup knows of the documents it has at hand (Knows) and what a *)
(* request knows of the one it was asked for (RequestsKnow).  With it, what*)
(* they do to a document is shown to be a DocumentLifecycle, and every     *)
(* cleanup to come nearer to its end with each step.                       *)
(***************************************************************************)
EXTENDS RetentionProofs, FiniteSetTheorems

-----------------------------------------------------------------------------
(* What a run knows; F is what is on disk.                                 *)

BeforeLoop == {"idle", "rejected", "cutoffs", "findCases"}
InLoop == {"unlinkFile", "deleteCase"}

\* The documents found with the cases still have their rows, one file of the
\* case at hand after the other is unlinked or stuck, and a case is deleted only
\* when none of its files is left.
LoopKnows(x, F) ==
  /\ x.at \in BeforeLoop =>
       x.found = {} /\ x.docs = {} /\ x.stuck = {} /\ x.todo = {}
  /\ \A d \in x.docs : rows[d] # None /\ rows[d].case \in x.found
  /\ x.todo \subseteq x.found
  /\ x.at \in InLoop => x.case \in x.found
  /\ x.at = "unlinkFile" => x.left \subseteq DocsFound(x, x.case)
  /\ x.at = "unlinkFile" =>
       \A d \in DocsFound(x, x.case) : d \in x.left \/ d \in x.stuck \/ d \notin F
  /\ x.at = "deleteCase" =>
       \A d \in DocsFound(x, x.case) : d \notin x.stuck /\ d \notin F
  /\ x.at \in InLoop \/ x.sweep = "findExpired" => x.stuck \subseteq x.docs

\* The sweep has only documents at hand that are soft-deleted, and deletes the
\* row of one whose file it could unlink.
SweepKnows(x, F) ==
  /\ x.sweep \in {"off", "findExpired"} => x.expired = {}
  /\ \A d \in x.expired : rows[d] # None /\ rows[d].deletedAt # Never
  /\ x.sweep \in {"unlinkExpired", "deleteRow"} =>
       x.left \subseteq x.expired /\ x.left \cap x.stuck = {}
  /\ x.sweep = "deleteRow" =>
       x.doc \in x.expired /\ x.doc \notin x.stuck /\ x.doc \notin F

\* What goes on beside the main thread starts after its loop and has settled
\* before the run is reported.
EndsInOrder(x) ==
  /\ x.at \in BeforeLoop \cup InLoop => x.sweep = "off" /\ x.purging = {}
  /\ x.at \in {"auditRun", "maintenanceRun", "done"} \/ x.reported =>
       x.sweep \notin SweepSteps /\ x.purging = {}
  /\ x.reported => x.at \in {"maintenanceRun", "done", "failed"}

Knows(x, F) == LoopKnows(x, F) /\ SweepKnows(x, F) /\ EndsInOrder(x)

RunsKnow == \A k \in Cleanups : Knows(run[k], files)

\* A run never gives up what it has found.
Keeps(x, y) ==
  /\ x.found # {} => y.found = x.found /\ y.docs = x.docs
  /\ x.expired \subseteq y.expired

\* Rows stay, in their case, and soft-deleted; only files without a row appear.
RowsStay ==
  \A d \in Docs : rows[d] # None =>
    /\ rows'[d] # None
    /\ rows'[d].case = rows[d].case
    /\ rows'[d].sensitive = rows[d].sensitive
    /\ rows[d].deletedAt # Never => rows'[d].deletedAt # Never

LEMMA DocsFoundStay ==
  ASSUME RowsStay, NEW x \in Run, NEW c,
         \A d \in x.docs : rows[d] # None
  PROVE  DocsFound(x, c)' = DocsFound(x, c)
<1>1. x.docs \subseteq Docs  BY DEF Run
<1> QED BY <1>1 DEF DocsFound, RowsStay

\* What a run knows stays true whatever the others do.
LEMMA KnowsStays ==
  ASSUME RowsStay, NEW x \in Run, NEW F, NEW G,
         \A d \in Docs : d \in G => d \in F \/ rows[d] = None,
         Knows(x, F)
  PROVE  Knows(x, G)'
<1>1. x.docs \subseteq Docs /\ x.expired \subseteq Docs  BY DEF Run
<1>2. \A d \in x.docs : rows[d] # None  BY DEF Knows, LoopKnows
<1>3. DocsFound(x, x.case)' = DocsFound(x, x.case)  BY <1>2, DocsFoundStay
<1>4. \A d \in DocsFound(x, x.case) : d \in x.docs  BY DEF DocsFound
<1>5. LoopKnows(x, G)'
  BY <1>1, <1>2, <1>3, <1>4 DEF Knows, LoopKnows, RowsStay
<1>6. SweepKnows(x, G)'
  BY <1>1 DEF Knows, SweepKnows, RowsStay
<1> QED BY <1>5, <1>6 DEF Knows, EndsInOrder

-----------------------------------------------------------------------------
(* The steps of a run.                                                     *)

\* What AfterFiles and FindCases give NextCase to go on from.
BetweenCases(x) ==
  /\ \A d \in x.docs : rows[d] # None /\ rows[d].case \in x.found
  /\ x.todo \subseteq x.found
  /\ x.stuck \subseteq x.docs /\ x.expired = {}
  /\ x.sweep = "off" /\ x.purging = {} /\ ~x.reported

LEMMA NextCaseKnows ==
  ASSUME NEW x \in Run, BetweenCases(x), NEW y \in NextCase(x), NEW F
  PROVE  y \in Run /\ Knows(y, F) /\ Keeps(x, y)
<1>0. y \in Run  BY NextCaseGoesOn DEF GoesOn
<1>1. CASE x.todo = {}
  <2>1. y = [x EXCEPT !.at = "all", !.case = None, !.sweep = "findExpired",
                      !.purging = Purges]
    BY <1>1 DEF NextCase
  <2>2. /\ y.at = "all" /\ y.sweep = "findExpired" /\ y.found = x.found
        /\ y.docs = x.docs /\ y.todo = x.todo /\ y.stuck = x.stuck
        /\ y.expired = x.expired /\ y.reported = x.reported
    BY <2>1 DEF Run
  <2> QED BY <1>0, <2>2 DEF BetweenCases, Knows, LoopKnows, SweepKnows, EndsInOrder,
            Keeps, BeforeLoop, InLoop
<1>2. CASE x.todo # {}
  <2>1. PICK c \in x.todo :
          y = [x EXCEPT !.at = IF DocsFound(x, c) = {} THEN "deleteCase"
                                                       ELSE "unlinkFile",
                        !.case = c, !.todo = @ \ {c}, !.left = DocsFound(x, c)]
    BY <1>2 DEF NextCase
  <2>2. /\ y.at = IF DocsFound(x, c) = {} THEN "deleteCase" ELSE "unlinkFile"
        /\ y.case = c /\ y.left = DocsFound(x, c) /\ y.todo = x.todo \ {c}
        /\ y.sweep = x.sweep /\ y.found = x.found
        /\ y.docs = x.docs /\ y.stuck = x.stuck /\ y.purging = x.purging
        /\ y.expired = x.expired /\ y.reported = x.reported
    BY <2>1 DEF Run
  <2>3. DocsFound(y, c) = DocsFound(x, c)  BY <2>2 DEF DocsFound
  <2>4. LoopKnows(y, F)
    BY <2>2, <2>3 DEF BetweenCases, LoopKnows, BeforeLoop, InLoop
  <2>5. SweepKnows(y, F) /\ EndsInOrder(y) /\ Keeps(x, y)
    BY <2>2 DEF BetweenCases, SweepKnows, EndsInOrder, Keeps, BeforeLoop, InLoop
  <2> QED BY <1>0, <2>4, <2>5 DEF Knows
<1> QED BY <1>1, <1>2

LEMMA CaseLoopKnows ==
  ASSUME DueInv, RunsKnow, NEW k \in Cleanups, CaseLoopStep(k), NEW F, F = files'
  PROVE  \E y \in Run : /\ run' = [run EXCEPT ![k] = y]
                        /\ Knows(y, F) /\ Keeps(run[k], y)
<1>1. run[k] \in Run /\ Knows(run[k], files)
  BY DEF DueInv, IInv, TypeOK, RunsKnow
<1>2. CASE FindCases(k)
  <2> DEFINE found == {c \in Cases : /\ Present(c) /\ TenantOf[c] = TenantFor(k)
                                     /\ CaseExpired(c, run[k].asOf)}
             docs == {d \in Docs : Stored(d) /\ rows[d].case \in found}
             x == [run[k] EXCEPT !.found = found, !.docs = docs, !.todo = found]
  <2>1. PICK y \in NextCase(x) : run' = [run EXCEPT ![k] = y]
    BY <1>2 DEF FindCases
  <2>2. x \in Run
    BY <1>1 DEF Run
  <2>3. /\ run[k].at = "findCases" /\ run[k].found = {} /\ run[k].expired = {}
        /\ run[k].stuck = {} /\ run[k].sweep = "off" /\ run[k].purging = {}
        /\ ~run[k].reported
    BY <1>1, <1>2 DEF FindCases, Knows, LoopKnows, SweepKnows, EndsInOrder,
      BeforeLoop
  <2>4. /\ x.found = found /\ x.docs = docs /\ x.todo = found
        /\ x.stuck = {} /\ x.expired = {} /\ x.sweep = "off" /\ x.purging = {}
        /\ ~x.reported
    BY <1>1, <2>3 DEF Run
  <2>5. \A d \in docs : rows[d] # None /\ rows[d].case \in found
    BY DEF Stored
  <2> HIDE DEF x, found, docs
  <2>6. BetweenCases(x)
    BY <2>4, <2>5 DEF BetweenCases
  <2>7. y \in Run /\ Knows(y, F)
    BY <2>1, <2>2, <2>6, NextCaseKnows
  <2> QED BY <2>1, <2>3, <2>7 DEF Keeps
<1>3. CASE UnlinkFile(k)
  <2>1. PICK d \in run[k].left, ok \in BOOLEAN :
          LET x == [run[k] EXCEPT !.left = @ \ {d},
                                  !.stuck = IF ok THEN @ ELSE @ \cup {d}]
          IN  /\ files' = IF ok THEN files \ {d} ELSE files
              /\ \E y \in IF x.left = {} THEN AfterFiles(x) ELSE {x} :
                   run' = [run EXCEPT ![k] = y]
    BY <1>3 DEF UnlinkFile
  <2> DEFINE x == [run[k] EXCEPT !.left = @ \ {d},
                                 !.stuck = IF ok THEN @ ELSE @ \cup {d}]
  <2>2. PICK y \in IF x.left = {} THEN AfterFiles(x) ELSE {x} :
          run' = [run EXCEPT ![k] = y]
    BY <2>1
  <2>3. run[k].at = "unlinkFile" /\ d \in Docs
    BY <1>1, <1>3 DEF UnlinkFile, Run
  <2>4. x \in Run
    BY <1>1, <2>3 DEF Run
  <2>5. /\ x.left = run[k].left \ {d} /\ x.at = "unlinkFile"
        /\ x.stuck = IF ok THEN run[k].stuck ELSE run[k].stuck \cup {d}
        /\ x.case = run[k].case /\ x.found = run[k].found /\ x.docs = run[k].docs
        /\ x.todo = run[k].todo /\ x.expired = run[k].expired
        /\ x.sweep = run[k].sweep /\ x.purging = run[k].purging
        /\ x.reported = run[k].reported
    BY <1>1, <2>3 DEF Run
  <2> HIDE DEF x
  <2>6. DocsFound(x, x.case) = DocsFound(run[k], run[k].case)
    BY <2>5 DEF DocsFound
  <2>7. DocsFound(x, x.case) \subseteq x.docs
    BY DEF DocsFound
  <2>8. BetweenCases(x)
    BY <1>1, <2>1, <2>3, <2>5, <2>6, <2>7
    DEF BetweenCases, Knows, LoopKnows, SweepKnows, EndsInOrder, InLoop
  <2>9. \A e \in DocsFound(x, x.case) : e \in x.left \/ e \in x.stuck \/ e \notin F
    BY <1>1, <2>1, <2>3, <2>5, <2>6 DEF Knows, LoopKnows
  <2>10. x.left \subseteq DocsFound(x, x.case) /\ x.case \in x.found
    BY <1>1, <2>3, <2>5, <2>6 DEF Knows, LoopKnows, InLoop
  <2>11. Keeps(run[k], x)
    BY <2>5 DEF Keeps
  <2>12. CASE x.left # {}
    <3>1. y = x  BY <2>2, <2>12
    <3>2. Knows(x, F)
      BY <2>5, <2>8, <2>9, <2>10
      DEF BetweenCases, Knows, LoopKnows, SweepKnows, EndsInOrder, BeforeLoop, InLoop
    <3> QED BY <2>2, <2>4, <2>11, <3>1, <3>2
  <2>13. CASE x.left = {} /\ x.stuck \cap DocsFound(x, x.case) = {}
    <3>1. y = [x EXCEPT !.at = "deleteCase"]
      BY <2>2, <2>13 DEF AfterFiles
    <3>2. /\ y \in Run /\ y.at = "deleteCase" /\ y.case = x.case
          /\ y.found = x.found /\ y.docs = x.docs /\ y.todo = x.todo
          /\ y.stuck = x.stuck /\ y.expired = x.expired /\ y.sweep = x.sweep
          /\ y.purging = x.purging /\ y.reported = x.reported
      BY <2>4, <3>1 DEF Run, MainSteps
    <3>3. DocsFound(y, y.case) = DocsFound(x, x.case)
      BY <3>2 DEF DocsFound
    <3>4. Knows(y, F)
      BY <2>8, <2>9, <2>10, <2>13, <3>2, <3>3
      DEF BetweenCases, Knows, LoopKnows, SweepKnows, EndsInOrder, BeforeLoop, InLoop
    <3> QED BY <2>2, <2>11, <3>2, <3>4 DEF Keeps
  <2>14. CASE x.left = {} /\ x.stuck \cap DocsFound(x, x.case) # {}
    <3>1. y \in NextCase(x)
      BY <2>2, <2>14 DEF AfterFiles
    <3>2. y \in Run /\ Knows(y, F) /\ Keeps(x, y)
      BY <2>4, <2>8, <3>1, NextCaseKnows
    <3>3. Keeps(run[k], y)
      BY <2>11, <3>2 DEF Keeps
    <3> QED BY <2>2, <3>2, <3>3
  <2> QED BY <2>12, <2>13, <2>14
<1>4. CASE DeleteCase(k)
  <2>1. PICK y \in NextCase(run[k]) : run' = [run EXCEPT ![k] = y]
    BY <1>4 DEF DeleteCase
  <2>2. BetweenCases(run[k])
    BY <1>1, <1>4 DEF DeleteCase, BetweenCases, Knows, LoopKnows, SweepKnows,
      EndsInOrder, InLoop
  <2> QED BY <1>1, <2>1, <2>2, NextCaseKnows
<1> QED BY <1>2, <1>3, <1>4 DEF CaseLoopStep

\* A run that goes on beside its main thread, or out of it, and has nothing more
\* at hand than before.
Lingers(x, y) ==
  /\ y \in Run
  /\ y.found = x.found /\ y.docs = x.docs /\ y.todo = x.todo
  /\ y.expired = x.expired /\ y.reported = x.reported /\ y.stuck = x.stuck
  /\ \/ y.at = x.at
     \/ y.at = "auditRun" /\ x.at = "all" /\ y.sweep = "over" /\ y.purging = {}
     \/ y.at = "failed"
  /\ y.case = x.case /\ y.left = x.left
  /\ y.purging \subseteq x.purging
  /\ \/ y.sweep = x.sweep /\ y.doc = x.doc
     \/ y.sweep = "over" /\ x.sweep # "off"

LEMMA LingersKnows ==
  ASSUME NEW x \in Run, NEW y, NEW F, NEW G, F \subseteq G, Lingers(x, y), Knows(x, G)
  PROVE  Knows(y, F) /\ Keeps(x, y)
<1>1. DocsFound(y, y.case) = DocsFound(x, x.case)
  BY DEF DocsFound, Lingers
<1>2. LoopKnows(y, F)
  BY <1>1 DEF Lingers, Knows, LoopKnows, EndsInOrder, BeforeLoop, InLoop
<1>3. SweepKnows(y, F)
  BY DEF Lingers, Knows, SweepKnows
<1>4. EndsInOrder(y)
  BY DEF Lingers, Knows, EndsInOrder, BeforeLoop, InLoop, SweepSteps
<1> QED BY <1>2, <1>3, <1>4 DEF Knows, Lingers, Keeps

\* The sweep has found its documents and goes on with those left.
Sweeping(x) ==
  /\ x.at \notin BeforeLoop \cup InLoop \cup {"auditRun", "maintenanceRun", "done"}
  /\ ~x.reported
  /\ \A d \in x.docs : rows[d] # None /\ rows[d].case \in x.found
  /\ x.todo \subseteq x.found
  /\ \A d \in x.expired : rows[d] # None /\ rows[d].deletedAt # Never
  /\ x.left \subseteq x.expired /\ x.left \cap x.stuck = {}

LEMMA SweepOnKnows ==
  ASSUME NEW x \in Run, Sweeping(x), NEW F
  PROVE  SweepOn(x) \in Run /\ Knows(SweepOn(x), F) /\ Keeps(x, SweepOn(x))
<1>0. SweepOn(x) \in Run  BY SweepOnAlongside DEF Alongside
<1>1. PICK y \in Run : y = SweepOn(x)  BY <1>0
<1>2. CASE x.left # {}
  <2>1. /\ y.sweep = "unlinkExpired" /\ y.at = x.at /\ y.found = x.found
        /\ y.docs = x.docs /\ y.todo = x.todo /\ y.stuck = x.stuck
        /\ y.left = x.left /\ y.expired = x.expired /\ y.reported = x.reported
        /\ y.purging = x.purging
    BY <1>1, <1>2 DEF SweepOn, Run
  <2> QED BY <1>1, <2>1 DEF Sweeping, Knows, LoopKnows, SweepKnows, EndsInOrder,
            Keeps, InLoop
<1>3. CASE x.left = {}
  <2> DEFINE z == [x EXCEPT !.sweep = "over", !.doc = None]
  <2>1. /\ z.sweep = "over" /\ z.at = x.at /\ z.found = x.found
        /\ z.docs = x.docs /\ z.todo = x.todo /\ z.stuck = x.stuck
        /\ z.left = x.left /\ z.expired = x.expired /\ z.reported = x.reported
        /\ z.purging = x.purging /\ z \in Run
    BY DEF Run
  <2>2. y = IF z.at = "all" /\ z.sweep = "over" /\ z.purging = {}
            THEN [z EXCEPT !.at = "auditRun"] ELSE z
    BY <1>1, <1>3 DEF SweepOn, Joined
  <2> HIDE DEF z
  <2>3. /\ y.sweep = "over" /\ y.found = x.found
        /\ y.docs = x.docs /\ y.todo = x.todo /\ y.stuck = x.stuck
        /\ y.left = x.left /\ y.expired = x.expired /\ y.reported = x.reported
        /\ y.purging = x.purging
        /\ y.at = x.at \/ (y.at = "auditRun" /\ y.purging = {})
    BY <2>1, <2>2 DEF Run
  <2>4. y.at \notin BeforeLoop \cup InLoop \cup {"maintenanceRun", "done"} /\ ~y.reported
    BY <2>3 DEF Sweeping, BeforeLoop, InLoop
  <2>5. LoopKnows(y, F)
    BY <2>3, <2>4 DEF Sweeping, LoopKnows, InLoop
  <2>6. SweepKnows(y, F)
    BY <2>3 DEF Sweeping, SweepKnows
  <2>7. EndsInOrder(y)
    BY <2>3, <2>4 DEF Sweeping, EndsInOrder, SweepSteps
  <2>8. Keeps(x, y)
    BY <2>3 DEF Keeps
  <2> QED BY <1>1, <2>5, <2>6, <2>7, <2>8 DEF Knows
<1> QED BY <1>2, <1>3

LEMMA RejectedKnows ==
  ASSUME NEW k \in Cleanups, NEW x \in Run, run[k] \in Run, NEW F, F = files,
         Lingers(run[k], x), x.at = run[k].at, Rejected(k, x), Knows(run[k], F)
  PROVE  \E y \in Run : /\ run' = [run EXCEPT ![k] = y]
                        /\ Knows(y, F) /\ Keeps(run[k], y)
<1> DEFINE y == IF x.at = "all" THEN [x EXCEPT !.at = "failed"] ELSE x
<1>1. run' = [run EXCEPT ![k] = y]  BY DEF Rejected
<1>2. Lingers(run[k], y)
  BY DEF Lingers, Run, Settled, BeforeLoop
<1> HIDE DEF y
<1>3. y \in Run  BY <1>2 DEF Lingers
<1> QED BY <1>1, <1>2, <1>3, LingersKnows

LEMMA SweepKnowsOn ==
  ASSUME DueInv, RunsKnow, NEW k \in Cleanups, SweepStep(k), NEW F, F = files'
  PROVE  \E y \in Run : /\ run' = [run EXCEPT ![k] = y]
                        /\ Knows(y, F) /\ Keeps(run[k], y)
<1>1. run[k] \in Run /\ Knows(run[k], files)
  BY DEF DueInv, IInv, TypeOK, RunsKnow
<1>2. CASE FindExpired(k)
  <2> DEFINE expired == {d \in Docs : /\ Stored(d)
                                      /\ TenantOf[rows[d].case] = TenantFor(k)
                                      /\ rows[d].case \notin run[k].found
                                      /\ DocumentExpired(d, run[k].asOf)}
             x == [run[k] EXCEPT !.expired = expired, !.left = expired]
  <2>1. run' = [run EXCEPT ![k] = SweepOn(x)] /\ run[k].sweep = "findExpired"
    BY <1>1, <1>2 DEF FindExpired, DueInv, IInv, TypeOK
  <2>2. /\ x \in Run /\ x.expired = expired /\ x.left = expired
        /\ x.at = run[k].at /\ x.found = run[k].found /\ x.docs = run[k].docs
        /\ x.todo = run[k].todo /\ x.stuck = run[k].stuck
        /\ x.reported = run[k].reported
    BY <1>1 DEF Run
  <2>3. \A d \in expired : /\ rows[d] # None /\ rows[d].deletedAt # Never
                           /\ rows[d].case \notin run[k].found
    BY DEF Stored, DocumentExpired
  <2> HIDE DEF x, expired
  <2>4. Sweeping(x)
    BY <1>1, <2>1, <2>2, <2>3
    DEF Sweeping, Knows, LoopKnows, EndsInOrder, BeforeLoop, InLoop, SweepSteps
  <2>5. run[k].expired = {}
    BY <1>1, <2>1 DEF Knows, SweepKnows
  <2> QED BY <2>1, <2>2, <2>4, <2>5, SweepOnKnows DEF Keeps
<1>3. CASE UnlinkExpired(k)
  <2>1. PICK d \in run[k].left :
          LET x == [run[k] EXCEPT !.left = @ \ {d}]
          IN  \/ /\ files' = files \ {d}
                 /\ run' = [run EXCEPT ![k] = [x EXCEPT !.sweep = "deleteRow",
                                                        !.doc = d]]
              \/ /\ run' = [run EXCEPT ![k] = SweepOn([x EXCEPT !.stuck = @ \cup {d}])]
                 /\ UNCHANGED files
    BY <1>3 DEF UnlinkExpired
  <2> DEFINE x == [run[k] EXCEPT !.left = @ \ {d}]
             y == [x EXCEPT !.sweep = "deleteRow", !.doc = d]
             z == [x EXCEPT !.stuck = @ \cup {d}]
  <2>2. d \in Docs /\ run[k].sweep = "unlinkExpired"
    BY <1>1, <1>3, <2>1 DEF Run, UnlinkExpired
  <2>3. /\ z \in Run /\ z.expired = run[k].expired /\ z.left = run[k].left \ {d}
        /\ z.at = run[k].at /\ z.found = run[k].found /\ z.docs = run[k].docs
        /\ z.todo = run[k].todo /\ z.stuck = run[k].stuck \cup {d}
        /\ z.reported = run[k].reported
    BY <1>1, <2>2 DEF Run
  <2>4. /\ y \in Run /\ y.expired = run[k].expired /\ y.left = run[k].left \ {d}
        /\ y.at = run[k].at /\ y.found = run[k].found /\ y.docs = run[k].docs
        /\ y.todo = run[k].todo /\ y.stuck = run[k].stuck
        /\ y.reported = run[k].reported /\ y.sweep = "deleteRow" /\ y.doc = d
    BY <1>1, <2>2 DEF Run, SweepSteps
  <2>5. \/ files' = files \ {d} /\ run' = [run EXCEPT ![k] = y]
        \/ run' = [run EXCEPT ![k] = SweepOn(z)]
    BY <2>1
  <2> HIDE DEF x, y, z
  <2>6. Sweeping(z)
    BY <1>1, <2>2, <2>3
    DEF Sweeping, Knows, LoopKnows, SweepKnows, EndsInOrder, BeforeLoop, InLoop, SweepSteps
  <2>7. CASE run' = [run EXCEPT ![k] = SweepOn(z)]
    <3>1. PICK w \in Run : w = SweepOn(z) /\ Knows(w, F) /\ Keeps(z, w)
      BY <2>3, <2>6, SweepOnKnows
    <3>2. Keeps(run[k], w)
      BY <2>3, <3>1 DEF Keeps
    <3> QED BY <2>7, <3>1, <3>2
  <2>8. CASE files' = files \ {d} /\ run' = [run EXCEPT ![k] = y]
    <3>1. d \notin run[k].stuck /\ d \in run[k].expired
      BY <1>1, <2>1, <2>2 DEF Knows, SweepKnows
    <3>2. SweepKnows(y, F)
      BY <1>1, <2>2, <2>4, <2>8, <3>1 DEF Knows, SweepKnows
    <3>3. EndsInOrder(y) /\ LoopKnows(y, F)
      BY <1>1, <2>2, <2>4
      DEF Knows, LoopKnows, EndsInOrder, BeforeLoop, InLoop, SweepSteps
    <3> QED BY <2>4, <2>8, <3>2, <3>3 DEF Knows, Keeps
  <2> QED BY <2>5, <2>7, <2>8
<1>4. CASE DeleteRow(k) /\ Stored(run[k].doc)
  <2>1. run' = [run EXCEPT ![k] = SweepOn(run[k])] /\ run[k].sweep = "deleteRow"
    BY <1>1, <1>4 DEF DeleteRow, DueInv, IInv, TypeOK
  <2>2. Sweeping(run[k])
    BY <1>1, <2>1
    DEF Sweeping, Knows, LoopKnows, SweepKnows, EndsInOrder, BeforeLoop, InLoop, SweepSteps
  <2> QED BY <1>1, <2>1, <2>2, SweepOnKnows
<1>5. CASE SweepFails(k) \/ (DeleteRow(k) /\ ~Stored(run[k].doc))
  <2> DEFINE x == [run[k] EXCEPT !.sweep = "over", !.doc = None]
  <2>1. Rejected(k, x) /\ files' = files /\ run[k].sweep \in {"findExpired", "deleteRow"}
    BY <1>5 DEF SweepFails, DeleteRow, docVars
  <2>2. x \in Run /\ Lingers(run[k], x) /\ x.at = run[k].at
    BY <1>1, <2>1 DEF Run, Lingers
  <2> HIDE DEF x
  <2> QED BY <1>1, <2>1, <2>2, RejectedKnows
<1> QED BY <1>2, <1>3, <1>4, <1>5 DEF SweepStep

LEMMA PurgeKnows ==
  ASSUME DueInv, RunsKnow, NEW k \in Cleanups, PurgeStep(k), NEW F, F = files'
  PROVE  \E y \in Run : /\ run' = [run EXCEPT ![k] = y]
                        /\ Knows(y, F) /\ Keeps(run[k], y)
<1>1. run[k] \in Run /\ Knows(run[k], files)
  BY DEF DueInv, IInv, TypeOK, RunsKnow
<1>2. F = files
  BY DEF PurgeStep, Purge, PurgeFails, docVars
<1>3. PICK p \in run[k].purging :
        \/ run' = [run EXCEPT ![k] = Joined([run[k] EXCEPT !.purging = @ \ {p}])]
        \/ Rejected(k, [run[k] EXCEPT !.purging = @ \ {p}])
  BY DEF PurgeStep, Purge, PurgeFails
<1> DEFINE x == [run[k] EXCEPT !.purging = @ \ {p}]
           y == Joined(x)
<1>4. x \in Run /\ Lingers(run[k], x) /\ x.at = run[k].at
  BY <1>1 DEF Run, Lingers
<1>5. run' = [run EXCEPT ![k] = y] \/ Rejected(k, x)
  BY <1>3
<1> HIDE DEF x
<1>6. Lingers(run[k], y)
  <2>1. CASE y = x  BY <1>4, <2>1
  <2>2. CASE x.at = "all" /\ x.sweep = "over" /\ x.purging = {}
    <3>1. y = [x EXCEPT !.at = "auditRun"]  BY <2>2 DEF Joined
    <3>2. /\ y.at = "auditRun" /\ y.sweep = "over" /\ y.purging = {}
          /\ y.found = x.found /\ y.docs = x.docs /\ y.todo = x.todo
          /\ y.expired = x.expired /\ y.reported = x.reported /\ y.stuck = x.stuck
          /\ y.case = x.case /\ y.left = x.left /\ y.doc = x.doc /\ y \in Run
      BY <1>4, <2>2, <3>1 DEF Run, MainSteps
    <3> HIDE DEF y
    <3> QED BY <1>4, <2>2, <3>2 DEF Lingers
  <2> QED BY <2>1, <2>2 DEF Joined
<1> HIDE DEF y
<1>7. CASE run' = [run EXCEPT ![k] = y]
  BY <1>1, <1>2, <1>6, <1>7, LingersKnows DEF Lingers
<1>8. CASE Rejected(k, x)
  BY <1>1, <1>2, <1>4, <1>8, RejectedKnows
<1> QED BY <1>5, <1>7, <1>8

LEMMA MainKnows ==
  ASSUME DueInv, RunsKnow, NEW k \in Cleanups, MainStep(k), NEW F, F = files'
  PROVE  \E y \in Run : /\ run' = [run EXCEPT ![k] = y]
                        /\ Knows(y, F) /\ Keeps(run[k], y)
<1>1. run[k] \in Run /\ Knows(run[k], files)
  BY DEF DueInv, IInv, TypeOK, RunsKnow
<1>2. CASE CaseLoopStep(k)  BY <1>2, CaseLoopKnows
<1>3. CASE ComputeCutoffs(k)
  <2> DEFINE x == [run[k] EXCEPT !.asOf = now,
                                 !.at = IF run[k].confirm THEN "findCases"
                                                          ELSE "auditRun"]
  <2>1. /\ run' = [run EXCEPT ![k] = x] /\ run[k].at = "cutoffs" /\ F = files
    BY <1>3 DEF ComputeCutoffs, docVars, DueInv, IInv, TypeOK
  <2>2. /\ x \in Run /\ x.found = run[k].found /\ x.docs = run[k].docs
        /\ x.todo = run[k].todo /\ x.stuck = run[k].stuck
        /\ x.left = run[k].left /\ x.sweep = run[k].sweep
        /\ x.expired = run[k].expired /\ x.doc = run[k].doc
        /\ x.purging = run[k].purging /\ x.reported = run[k].reported
        /\ x.at \in {"findCases", "auditRun"}
    BY <1>1 DEF Run, MainSteps, DueInv, IInv, TypeOK, DocTypeOK
  <2> HIDE DEF x
  <2>3. /\ run[k].found = {} /\ run[k].docs = {} /\ run[k].expired = {}
        /\ run[k].stuck = {} /\ run[k].todo = {} /\ run[k].sweep = "off"
        /\ run[k].purging = {} /\ ~run[k].reported
    BY <1>1, <2>1 DEF Knows, LoopKnows, SweepKnows, EndsInOrder, BeforeLoop
  <2>4. Knows(x, F)
    BY <2>2, <2>3 DEF Knows, LoopKnows, SweepKnows, EndsInOrder, BeforeLoop, InLoop,
      SweepSteps
  <2> QED BY <2>1, <2>2, <2>4 DEF Keeps
<1>4. CASE AuditRun(k)
  <2> DEFINE x == [run[k] EXCEPT !.at = "maintenanceRun", !.reported = TRUE]
  <2>1. /\ run' = [run EXCEPT ![k] = x] /\ run[k].at = "auditRun" /\ F = files
    BY <1>4 DEF AuditRun, docVars, DueInv, IInv, TypeOK
  <2>2. /\ x \in Run /\ x.found = run[k].found /\ x.docs = run[k].docs
        /\ x.todo = run[k].todo /\ x.stuck = run[k].stuck
        /\ x.left = run[k].left /\ x.sweep = run[k].sweep
        /\ x.expired = run[k].expired /\ x.doc = run[k].doc
        /\ x.purging = run[k].purging /\ x.at = "maintenanceRun"
    BY <1>1 DEF Run, MainSteps
  <2> HIDE DEF x
  <2>3. Knows(x, F)
    BY <1>1, <2>1, <2>2
    DEF Knows, LoopKnows, SweepKnows, EndsInOrder, BeforeLoop, InLoop, SweepSteps
  <2> QED BY <2>1, <2>2, <2>3 DEF Keeps
<1>5. CASE MaintenanceRun(k) \/ FailCleanup(k)
  <2>1. PICK end \in {"done", "failed"} :
          /\ run' = [run EXCEPT ![k] = [run[k] EXCEPT !.at = end]]
          /\ F = files
          /\ end = "done" => run[k].at = "maintenanceRun"
    BY <1>5 DEF MaintenanceRun, FailCleanup, DueInv, IInv, TypeOK, docVars
  <2> DEFINE x == [run[k] EXCEPT !.at = end]
  <2>2. /\ x \in Run /\ x.found = run[k].found /\ x.docs = run[k].docs
        /\ x.todo = run[k].todo /\ x.stuck = run[k].stuck
        /\ x.left = run[k].left /\ x.sweep = run[k].sweep
        /\ x.expired = run[k].expired /\ x.doc = run[k].doc
        /\ x.purging = run[k].purging /\ x.at = end
        /\ x.reported = run[k].reported
    BY <1>1 DEF Run, Settled
  <2> HIDE DEF x
  <2>3. Knows(x, F)
    BY <1>1, <2>1, <2>2
    DEF Knows, LoopKnows, SweepKnows, EndsInOrder, BeforeLoop, InLoop, SweepSteps
  <2> QED BY <2>1, <2>2, <2>3 DEF Keeps, x
<1> QED BY <1>2, <1>3, <1>4, <1>5 DEF MainStep

LEMMA ArrivalKnows ==
  ASSUME DueInv, RunsKnow, NEW k \in Cleanups, NEW confirm \in BOOLEAN,
         StartCleanup(k, confirm) \/ RefuseCleanup(k, confirm),
         NEW F, F = files'
  PROVE  \E y \in Run : /\ run' = [run EXCEPT ![k] = y]
                        /\ Knows(y, F) /\ Keeps(run[k], y)
<1>1. run[k] \in Run /\ Knows(run[k], files)
  BY DEF DueInv, IInv, TypeOK, RunsKnow
<1>2. PICK to \in {"cutoffs", "rejected"}, c \in BOOLEAN :
        run' = [run EXCEPT ![k] = [run[k] EXCEPT !.at = to, !.confirm = c]]
  <2>1. CASE StartCleanup(k, confirm)
    BY <2>1 DEF StartCleanup, DueInv, IInv, TypeOK
  <2>2. CASE RefuseCleanup(k, confirm)
    <3>1. run' = [run EXCEPT ![k] = [run[k] EXCEPT !.at = "rejected"]]
      BY <2>2 DEF RefuseCleanup, DueInv, IInv, TypeOK
    <3>2. [run[k] EXCEPT !.at = "rejected"]
            = [run[k] EXCEPT !.at = "rejected", !.confirm = run[k].confirm]
             /\ run[k].confirm \in BOOLEAN
      BY <1>1 DEF Run
    <3> QED BY <3>1, <3>2
  <2> QED BY <2>1, <2>2
<1> DEFINE x == [run[k] EXCEPT !.at = to, !.confirm = c]
<1>3. run[k].at = "idle" /\ F = files
  BY DEF StartCleanup, RefuseCleanup, docVars
<1>4. /\ x \in Run /\ x.found = run[k].found /\ x.docs = run[k].docs
      /\ x.todo = run[k].todo /\ x.stuck = run[k].stuck
      /\ x.left = run[k].left /\ x.sweep = run[k].sweep
      /\ x.expired = run[k].expired /\ x.doc = run[k].doc
      /\ x.purging = run[k].purging /\ x.at \in {"cutoffs", "rejected"}
      /\ x.reported = run[k].reported
  BY <1>1 DEF Run, Settled, MainSteps
<1>5. run' = [run EXCEPT ![k] = x]
  BY <1>2
<1> HIDE DEF x
<1>6. Knows(x, F)
  BY <1>1, <1>3, <1>4
  DEF Knows, LoopKnows, SweepKnows, EndsInOrder, BeforeLoop, InLoop, SweepSteps
<1> QED BY <1>4, <1>5, <1>6 DEF Keeps

-----------------------------------------------------------------------------
(* The steps that write a row, and those that write a file.                *)

\* A row is stored for an upload, marked, removed with its case, or removed.
RowStored(r) ==
  /\ pc[r] = "createRow" /\ rows[r] = None
  /\ pc' = [pc EXCEPT ![r] = "auditUpload"]
  /\ \E row \in DocumentRow : /\ rows' = [rows EXCEPT ![r] = row]
                              /\ ~row.removed /\ row.deletedAt = Never
RowMarked(d) == Stored(d) /\ rows' = [rows EXCEPT ![d].deletedAt = now]
RowRemoved(d) == Stored(d) /\ rows' = [rows EXCEPT ![d].removed = TRUE]

RowsWritten ==
  \/ rows' = rows
  \/ \E r \in Requests : CreateRow(r) /\ RowStored(r)
  \/ \E r \in Requests : SetDeletedAt(r) /\ job[r].doc \in Docs /\ RowMarked(job[r].doc)
  \/ \E k \in Cleanups : DeleteCase(k)
  \/ \E k \in Cleanups : DeleteRow(k) /\ run[k].doc \in Docs /\ RowRemoved(run[k].doc)

LEMMA StepWritesRows ==
  ASSUME DueInv, RunsKnow, [Next]_vars
  PROVE  RowsWritten
<1> USE DEF DueInv, IInv
<1>1. ASSUME NEW r \in Requests, CreateRow(r)
      PROVE  rows' = rows \/ RowStored(r)
  <2>1. job[r] \in UploadJob /\ pc[r] = "createRow" /\ rows[r] = None
    BY <1>1 DEF CreateRow, Transition, JobMatchesStep, UploadSteps, RowsFresh
  <2>2. [case |-> job[r].case, sensitive |-> job[r].sensitive,
         deletedAt |-> Never, removed |-> FALSE] \in DocumentRow
    BY <2>1 DEF UploadJob, DocumentRow, MaybeDay
  <2> QED BY <1>1, <2>1, <2>2 DEF CreateRow, Transition, RowStored
<1>2. ASSUME NEW r \in Requests, SetDeletedAt(r)
      PROVE  rows' = rows \/ (job[r].doc \in Docs /\ RowMarked(job[r].doc))
  BY <1>2 DEF SetDeletedAt, Transition, JobMatchesStep, DeleteSteps, DocumentJob,
    RowMarked
<1>3. ASSUME NEW k \in Cleanups, DeleteRow(k)
      PROVE  rows' = rows \/ (run[k].doc \in Docs /\ RowRemoved(run[k].doc))
  <2>1. run[k].expired \subseteq Docs
    BY DEF TypeOK, Run
  <2>2. run[k].sweep = "deleteRow"
    BY <1>3 DEF DeleteRow
  <2>3. run[k].doc \in Docs
    BY <2>1, <2>2 DEF RunsKnow, Knows, SweepKnows
  <2> QED BY <1>3, <2>3 DEF DeleteRow, RowRemoved
<1>4. ASSUME NEW r \in Requests,
             \/ UploadStep(r) /\ ~CreateRow(r)
             \/ DeleteStep(r) /\ ~SetDeletedAt(r)
             \/ DownloadStep(r) \/ ListStep(r) \/ Fail(r)
             \/ \E j \in Jobs : Admit(r, j) \/ Refuse(r, j)
      PROVE  rows' = rows
  BY <1>4
  DEF UploadStep, WriteFile, WriteFileFails, AuditUpload, DeleteStep,
      FindToDelete, AuditDelete, DownloadStep, FindToDownload, AccessFile,
      AuditDownload, OpenStream, ListStep, FindAll, AuditList, Fail, Admit, Refuse
<1>5. ASSUME NEW k \in Cleanups, CleanupStep(k), ~DeleteCase(k), ~DeleteRow(k)
      PROVE  rows' = rows
  BY <1>5
  DEF CleanupStep, MainStep, CaseLoopStep, SweepStep, PurgeStep, ComputeCutoffs,
      FindCases, UnlinkFile, AuditRun, MaintenanceRun, FailCleanup, FindExpired,
      UnlinkExpired, SweepFails, Purge, PurgeFails, docVars
<1>6. ASSUME NEW k \in Cleanups, NEW confirm \in BOOLEAN,
             StartCleanup(k, confirm) \/ RefuseCleanup(k, confirm)
      PROVE  rows' = rows
  BY <1>6 DEF StartCleanup, RefuseCleanup, docVars
<1>7. CASE DocNext
  <2>1. CASE EnvironmentStep
    BY <2>1 DEF EnvironmentStep, Tick, StatusUpdated, CaseReviewed, RowsWritten
  <2>2. ASSUME NEW r \in Requests,
               RequestStep(r) \/ \E j \in Jobs : Admit(r, j) \/ Refuse(r, j)
        PROVE  RowsWritten
    BY <1>1, <1>2, <1>4, <2>2 DEF RequestStep, UploadStep, DeleteStep, RowsWritten
  <2> QED BY <1>7, <2>1, <2>2 DEF DocNext
<1>8. CASE Crash \/ UNCHANGED vars
  BY <1>8 DEF Crash, RequestsDie, vars, docVars, RowsWritten
<1> QED BY <1>3, <1>5, <1>6, <1>7, <1>8 DEF Next, RowsWritten

LEMMA StepKeepsRows ==
  ASSUME DueInv, RowsWritten
  PROVE  /\ RowsStay
         /\ \A d \in Docs : rows[d] # None /\ rows[d].removed => rows'[d].removed
<1>1. rows \in [Docs -> DocumentRow \cup {None}] /\ now \in Days
  BY DEF DueInv, IInv, TypeOK, DocTypeOK
<1>2. None \notin DocumentRow /\ Never \notin Days
  BY DocumentJobsAssumption, StartAssumption
<1> SUFFICES ASSUME NEW d \in Docs, rows[d] # None
             PROVE  /\ rows'[d] # None
                    /\ rows'[d].case = rows[d].case
                    /\ rows'[d].sensitive = rows[d].sensitive
                    /\ rows[d].deletedAt # Never => rows'[d].deletedAt # Never
                    /\ rows[d].removed => rows'[d].removed
  BY DEF RowsStay
<1>3. rows[d] \in DocumentRow
  BY <1>1
<1>4. \/ rows'[d] = rows[d]
      \/ rows'[d] = [rows[d] EXCEPT !.deletedAt = now]
      \/ rows'[d] = [rows[d] EXCEPT !.removed = TRUE]
  <2>1. ASSUME NEW r \in Requests, RowStored(r) PROVE rows'[d] = rows[d]
    BY <1>1, <2>1 DEF RowStored
  <2>2. ASSUME NEW e \in Docs, RowMarked(e)
        PROVE  rows'[d] = rows[d] \/ rows'[d] = [rows[d] EXCEPT !.deletedAt = now]
    BY <1>1, <2>2 DEF RowMarked
  <2>3. ASSUME NEW e \in Docs, RowRemoved(e)
        PROVE  rows'[d] = rows[d] \/ rows'[d] = [rows[d] EXCEPT !.removed = TRUE]
    BY <1>1, <2>3 DEF RowRemoved
  <2>4. ASSUME NEW k \in Cleanups, DeleteCase(k)
        PROVE  rows'[d] = rows[d] \/ rows'[d] = [rows[d] EXCEPT !.removed = TRUE]
    BY <1>1, <2>4 DEF DeleteCase
  <2>5. CASE \E r \in Requests : RowStored(r)
    BY <2>1, <2>5
  <2>6. CASE \E e \in Docs : RowMarked(e) \/ RowRemoved(e)
    BY <2>2, <2>3, <2>6
  <2>7. CASE \E k \in Cleanups : DeleteCase(k)
    BY <2>4, <2>7
  <2> QED BY <2>5, <2>6, <2>7 DEF RowsWritten
<1>5. PICK row \in DocumentRow : row = rows'[d]
  BY <1>1, <1>3, <1>4 DEF DocumentRow, MaybeDay
<1>6. /\ row.case = rows[d].case /\ row.sensitive = rows[d].sensitive
      /\ row.deletedAt \in {rows[d].deletedAt, now}
      /\ rows[d].removed => row.removed
  BY <1>3, <1>4, <1>5 DEF DocumentRow
<1> QED BY <1>1, <1>2, <1>5, <1>6

\* Only an upload writes a file, and its row is not there yet.
FilesWritten == \A d \in Docs : d \in files' => d \in files \/ rows[d] = None

LEMMA StepWritesFiles ==
  ASSUME DueInv, [Next]_vars
  PROVE  FilesWritten
<1> USE DEF DueInv, IInv
<1>1. ASSUME NEW r \in Requests, WriteFile(r) \/ WriteFileFails(r)
      PROVE  FilesWritten
  BY <1>1 DEF WriteFile, WriteFileFails, Transition, RowsFresh, FilesWritten
<1>2. ASSUME NEW r \in Requests,
             \/ CreateRow(r) \/ AuditUpload(r) \/ DeleteStep(r)
             \/ DownloadStep(r) \/ ListStep(r) \/ Fail(r)
             \/ \E j \in Jobs : Admit(r, j) \/ Refuse(r, j)
      PROVE  files' = files
  BY <1>2
  DEF CreateRow, AuditUpload, DeleteStep, SetDeletedAt,
      FindToDelete, AuditDelete, DownloadStep, FindToDownload, AccessFile,
      AuditDownload, OpenStream, ListStep, FindAll, AuditList, Fail, Admit, Refuse
<1>3. ASSUME NEW k \in Cleanups, CleanupStep(k)
      PROVE  files' \subseteq files
  BY <1>3
  DEF CleanupStep, MainStep, CaseLoopStep, SweepStep, PurgeStep, ComputeCutoffs,
      FindCases, UnlinkFile, DeleteCase, AuditRun, MaintenanceRun, FailCleanup,
      FindExpired, UnlinkExpired, DeleteRow, SweepFails, Purge, PurgeFails, docVars
<1>4. ASSUME NEW k \in Cleanups, NEW confirm \in BOOLEAN,
             StartCleanup(k, confirm) \/ RefuseCleanup(k, confirm)
      PROVE  files' = files
  BY <1>4 DEF StartCleanup, RefuseCleanup, docVars
<1>5. CASE Crash
  BY <1>5 DEF Crash, RequestsDie, RowsFresh, FilesWritten
<1>6. CASE EnvironmentStep \/ UNCHANGED vars
  BY <1>6 DEF EnvironmentStep, Tick, StatusUpdated, CaseReviewed, vars, docVars,
    FilesWritten
<1>7. CASE DocNext
  BY <1>1, <1>2, <1>6, <1>7 DEF DocNext, RequestStep, UploadStep, FilesWritten
<1> QED BY <1>3, <1>4, <1>5, <1>6, <1>7 DEF Next, FilesWritten

-----------------------------------------------------------------------------
(* A step of the system.                                                   *)

RunsKeep == \A k \in Cleanups : Keeps(run[k], run'[k])

LEMMA OthersKnow ==
  ASSUME TypeOK, RunsKnow, RowsStay, FilesWritten, NEW k \in Cleanups,
         run'[k] = run[k]
  PROVE  Knows(run[k], files)' /\ Keeps(run[k], run'[k])
<1>1. PICK F, G : F = files /\ G = files' /\ Knows(run[k], F)
  BY DEF TypeOK, RunsKnow
<1>2. PICK x \in Run : x = run[k] /\ Knows(x, F)
  BY <1>1 DEF TypeOK
<1>3. \A d \in Docs : d \in G => d \in F \/ rows[d] = None
  BY <1>1 DEF FilesWritten
<1>4. Knows(x, G)'
  BY <1>2, <1>3, KnowsStays
<1> QED BY <1>1, <1>2, <1>4
  DEF Knows, LoopKnows, SweepKnows, EndsInOrder, DocsFound, Keeps

LEMMA RunStillKnows ==
  ASSUME TypeOK, RunsKnow, RowsStay, FilesWritten, NEW k \in Cleanups,
         NEW F, F = files',
         \E y \in Run : /\ run' = [run EXCEPT ![k] = y]
                        /\ Knows(y, F) /\ Keeps(run[k], y)
  PROVE  RunsKnow' /\ RunsKeep
<1>1. PICK y \in Run : /\ run' = [run EXCEPT ![k] = y]
                       /\ Knows(y, F) /\ Keeps(run[k], y)
  OBVIOUS
<1>2. Knows(y, F)'
  <2>1. \A d \in Docs : d \in F => d \in F \/ rows[d] = None
    OBVIOUS
  <2> QED BY <1>1, <2>1, KnowsStays
<1>3. ASSUME NEW l \in Cleanups
      PROVE  Knows(run[l], files)' /\ Keeps(run[l], run'[l])
  <2>1. CASE l = k
    <3>1. run'[l] = y
      BY <1>1, <2>1 DEF TypeOK
    <3> QED BY <1>1, <1>2, <2>1, <3>1
              DEF Knows, LoopKnows, SweepKnows, EndsInOrder, DocsFound
  <2>2. CASE l # k
    BY <1>1, <2>2, OthersKnow DEF TypeOK
  <2> QED BY <2>1, <2>2
<1> QED BY <1>3 DEF RunsKnow, RunsKeep

LEMMA CrashKnows ==
  ASSUME TypeOK, RunsKnow, RowsStay, FilesWritten, Crash
  PROVE  RunsKnow' /\ RunsKeep
<1> SUFFICES ASSUME NEW k \in Cleanups
             PROVE  Knows(run[k], files)' /\ Keeps(run[k], run'[k])
  BY DEF RunsKnow, RunsKeep
<1> DEFINE y == [run[k] EXCEPT !.at = IF MainActive(k) THEN "failed" ELSE @,
                               !.sweep = IF @ = "off" THEN @ ELSE "over",
                               !.purging = {}]
<1>1. run'[k] = y
  BY DEF Crash
<1>2. run[k] \in Run /\ Knows(run[k], files)
  BY DEF TypeOK, RunsKnow
<1>3. Lingers(run[k], y)
  <2>1. /\ y \in Run /\ y.found = run[k].found /\ y.docs = run[k].docs
        /\ y.todo = run[k].todo /\ y.expired = run[k].expired
        /\ y.reported = run[k].reported /\ y.stuck = run[k].stuck
        /\ y.at = run[k].at \/ y.at = "failed"
        /\ y.case = run[k].case /\ y.left = run[k].left
        /\ y.purging = {} /\ y.doc = run[k].doc
        /\ y.sweep = IF run[k].sweep = "off" THEN run[k].sweep ELSE "over"
    BY <1>2, ZenonT(60) DEF Run, Settled
  <2> HIDE DEF y
  <2> QED BY <2>1 DEF Lingers
<1> HIDE DEF y
<1>4. Knows(y, files) /\ Keeps(run[k], y) /\ y \in Run
  BY <1>2, <1>3, LingersKnows DEF Lingers
<1>5. PICK F, G : F = files /\ G = files' /\ Knows(y, F)
  BY <1>4
<1>6. PICK x \in Run : x = y /\ Knows(x, F)
  BY <1>4, <1>5
<1>7. \A d \in Docs : d \in G => d \in F \/ rows[d] = None
  BY <1>5 DEF FilesWritten
<1>8. Knows(x, G)'
  BY <1>6, <1>7, KnowsStays
<1> QED BY <1>1, <1>4, <1>5, <1>6, <1>8
  DEF Knows, LoopKnows, SweepKnows, EndsInOrder, DocsFound

LEMMA RunsGoOn ==
  ASSUME DueInv, RunsKnow, [Next]_vars
  PROVE  RunsKnow' /\ RunsKeep /\ RowsStay /\ FilesWritten
<1>1. RowsStay /\ FilesWritten /\ TypeOK
  BY StepWritesRows, StepKeepsRows, StepWritesFiles DEF DueInv, IInv
<1>2. CASE run' = run
  BY <1>1, <1>2, OthersKnow DEF RunsKnow, RunsKeep
<1>3. ASSUME NEW k \in Cleanups, CleanupStep(k)
      PROVE  RunsKnow' /\ RunsKeep
  <2>1. PICK F : F = files'  OBVIOUS
  <2>2. \E y \in Run : /\ run' = [run EXCEPT ![k] = y]
                       /\ Knows(y, F) /\ Keeps(run[k], y)
    BY <1>3, <2>1, MainKnows, SweepKnowsOn, PurgeKnows DEF CleanupStep
  <2> QED BY <1>1, <2>1, <2>2, RunStillKnows
<1>4. ASSUME NEW k \in Cleanups, NEW confirm \in BOOLEAN,
             StartCleanup(k, confirm) \/ RefuseCleanup(k, confirm)
      PROVE  RunsKnow' /\ RunsKeep
  <2>1. PICK F : F = files'  OBVIOUS
  <2>2. \E y \in Run : /\ run' = [run EXCEPT ![k] = y]
                       /\ Knows(y, F) /\ Keeps(run[k], y)
    BY <1>4, <2>1, ArrivalKnows
  <2> QED BY <1>1, <2>1, <2>2, RunStillKnows
<1>5. CASE Crash
  BY <1>1, <1>5, CrashKnows
<1> QED BY <1>1, <1>2, <1>3, <1>4, <1>5 DEF Next, vars

-----------------------------------------------------------------------------
(* What a request knows.                                                   *)

\* The document that job j is about has a row: soft-deleted; or in the case j
\* asks it of, and shown to its user.
Marked(j) ==
  /\ j \in DocumentJob
  /\ rows[j.doc] # None /\ rows[j.doc].deletedAt # Never

Shown(j) ==
  /\ j \in DocumentJob
  /\ rows[j.doc] # None /\ rows[j.doc].case = j.case
  /\ ReadableBy(j.user, j.doc)

\* p is where request r is, j its job, s whether its stream was opened.
RequestKnows(r, p, j, s) ==
  /\ p = "auditUpload" => rows[r] # None
  /\ p = "auditDelete" => Marked(j)
  /\ p \in {"accessFile", "auditDownload", "openStream"} \/ s => Shown(j)
  /\ p \in InFlightSteps \/ s =>
       j \in AnyJob /\ TenantOf[j.case] = TenantOf[j.user]
  /\ s => p # "idle"

RequestsKnow == \A r \in Requests : RequestKnows(r, pc[r], job[r], r \in served)

\* What the audit log holds of a request that has arrived is true of its
\* document; a stream is opened after its event.
AuditKnows ==
  /\ \A e \in audit : pc[e[1]] # "idle"
  /\ \A e \in audit : e[2] = "document.uploaded" => rows[e[1]] # None
  /\ \A e \in audit : e[2] = "document.soft_deleted" => Marked(job[e[1]])
  /\ \A r \in Requests : pc[r] = "openStream" \/ r \in served =>
       <<r, "document.downloaded">> \in audit

\* An upload that has written its file finds it there.
FilesKnow ==
  /\ \A s \in Seeds : rows[s] # None
  /\ \A r \in Requests : pc[r] = "createRow" => r \in files

\* A deletion that finds its document marked was overtaken by another one.
MarkedBefore(r, d) ==
  \E s \in Requests : /\ s # r /\ job[s] \in DocumentJob /\ job[s].doc = d
                      /\ pc[s] \in {"auditDelete", "done", "failed"}

MarksExplained ==
  \A r \in Requests :
    pc[r] = "setDeletedAt" /\ Marked(job[r]) => MarkedBefore(r, job[r].doc)

\* What request r has read holds at p, with job j: its user could read documents
\* in the department seen, and a document to be served was live; e tells that its
\* event is stored, s that its stream was opened.
ReadingKnows(p, j, x, e, s) ==
  /\ p \in InFlightSteps \/ s => MayReadDocuments(j.user, x.department)
  /\ p \in {"accessFile", "auditDownload", "openStream"} \/ e => x.live
  /\ e => s \/ p \in {"openStream", "failed"}
  /\ s => p = "done"

Downloaded(r) == <<r, "document.downloaded">> \in audit

ReadingsKnow ==
  \A r \in Requests :
    ReadingKnows(pc[r], job[r], seen[r], Downloaded(r), r \in served)

DocInv ==
  /\ DueInv /\ RunsKnow
  /\ RequestsKnow /\ AuditKnows /\ FilesKnow /\ MarksExplained /\ ReadingsKnow
  /\ RowlessFilesExplained /\ FilelessRowsExplained

LEMMA RequestsStay ==
  ASSUME RowsStay, NEW r \in Requests, NEW p, NEW j, NEW s, RequestKnows(r, p, j, s)
  PROVE  RequestKnows(r, p, j, s)'
<1>1. r \in Docs /\ (j \in DocumentJob => j.doc \in Docs)
  BY DEF Docs, DocumentJob
<1>2. Marked(j) => Marked(j)'
  BY <1>1 DEF Marked, RowsStay
<1>3. Shown(j) => Shown(j)'
  BY <1>1 DEF Shown, RowsStay, ReadableBy
<1> QED BY <1>1, <1>2, <1>3 DEF RequestKnows, RowsStay

\* Request r goes to p with job j; s tells that it opens its stream.
Moves(r, p, j, s) ==
  /\ pc' = [pc EXCEPT ![r] = p]
  /\ job' = [job EXCEPT ![r] = j]
  /\ served' = IF s THEN served \cup {r} ELSE served

LEMMA MoveKnown ==
  ASSUME TypeOK, RequestsKnow, RowsStay, NEW r \in Requests, NEW p, NEW j,
         NEW s \in BOOLEAN, Moves(r, p, j, s),
         NEW t \in BOOLEAN, t <=> r \in served \/ s, RequestKnows(r, p, j, t)'
  PROVE  RequestsKnow'
<1> SUFFICES ASSUME NEW l \in Requests
             PROVE  RequestKnows(l, pc[l], job[l], l \in served)'
  BY DEF RequestsKnow
<1>1. CASE l = r
  <2>1. pc'[l] = p /\ job'[l] = j /\ (l \in served' <=> t)
    BY <1>1 DEF TypeOK, DocTypeOK, Moves
  <2> QED BY <1>1, <2>1 DEF RequestKnows, Marked, Shown, ReadableBy
<1>2. CASE l # r
  <2>1. pc'[l] = pc[l] /\ job'[l] = job[l] /\ (l \in served' <=> l \in served)
    BY <1>2 DEF TypeOK, DocTypeOK, Moves
  <2>2. PICK q, i, u : q = pc[l] /\ i = job[l] /\ u = (l \in served)
                       /\ RequestKnows(l, q, i, u)
    BY DEF RequestsKnow
  <2>3. RequestKnows(l, q, i, u)'
    BY <2>2, RequestsStay
  <2> QED BY <2>1, <2>2, <2>3 DEF RequestKnows, Marked, Shown, ReadableBy
<1> QED BY <1>1, <1>2

\* A request that stays with its job, and opens no stream.
LEMMA GoesToKnown ==
  ASSUME TypeOK, RequestsKnow, RowsStay, NEW r \in Requests, NEW p,
         pc' = [pc EXCEPT ![r] = p], UNCHANGED <<job, served>>,
         p # "idle", InFlight(r),
         p = "auditUpload" => rows'[r] # None,
         p = "auditDelete" => Marked(job[r])',
         p \in {"accessFile", "auditDownload", "openStream"} => Shown(job[r])'
  PROVE  RequestsKnow'
<1>1. PICK j, t : j = job[r] /\ t = (r \in served)
  OBVIOUS
<1>2. RequestKnows(r, pc[r], j, t) /\ t \in BOOLEAN
  BY <1>1 DEF RequestsKnow
<1>3. j \in AnyJob /\ TenantOf[j.case] = TenantOf[j.user]
  BY <1>2 DEF RequestKnows, InFlight
<1>4. t => Shown(j)'
  <2>1. PICK q : q = pc[r]  OBVIOUS
  <2>2. RequestKnows(r, q, j, t)'
    BY <1>2, <2>1, RequestsStay
  <2> QED BY <2>2 DEF RequestKnows
<1>5. job'[r] = j
  BY <1>1
<1>6. RequestKnows(r, p, j, t)'
  BY <1>1, <1>3, <1>4, <1>5 DEF RequestKnows, Marked, Shown, ReadableBy
<1>7. Moves(r, p, j, FALSE)
  BY <1>1 DEF Moves, TypeOK, DocTypeOK
<1> QED BY <1>1, <1>2, <1>6, <1>7, MoveKnown

LEMMA UploadStepKnows ==
  ASSUME DueInv, RequestsKnow, RowsStay, NEW r \in Requests, UploadStep(r)
  PROVE  RequestsKnow'
<1>1. PICK p \in {"createRow", "auditUpload", "done", "failed"} :
        /\ pc' = [pc EXCEPT ![r] = p]
        /\ p = "auditUpload" => rows'[r] # None
  <2>1. CASE CreateRow(r)
    <3> DEFINE row == [case |-> job[r].case, sensitive |-> job[r].sensitive,
                       deletedAt |-> Never, removed |-> FALSE]
    <3>1. job[r] \in UploadJob
      BY <2>1 DEF DueInv, IInv, JobMatchesStep, CreateRow, Transition, UploadSteps
    <3>2. row \in DocumentRow
      BY <3>1 DEF UploadJob, DocumentRow, MaybeDay
    <3>3. row # None
      BY <3>2, DocumentJobsAssumption
    <3>4. Present(job[r].case) => rows' = [rows EXCEPT ![r] = row]
      BY <2>1 DEF CreateRow
    <3> HIDE DEF row
    <3>5. Present(job[r].case) => rows'[r] # None
      BY <3>3, <3>4 DEF DueInv, IInv, TypeOK, DocTypeOK, Docs
    <3> QED BY <2>1, <3>5 DEF CreateRow, Transition
  <2> QED BY <2>1 DEF UploadStep, WriteFile, WriteFileFails, AuditUpload, Transition
<1>2. UNCHANGED <<job, served>> /\ InFlight(r)
  BY DEF UploadStep, WriteFile, WriteFileFails, CreateRow, AuditUpload, Transition,
    InFlight, InFlightSteps, UploadSteps
<1> QED BY <1>1, <1>2, GoesToKnown DEF DueInv, IInv

LEMMA DeleteStepKnows ==
  ASSUME DueInv, RequestsKnow, RowsStay, NEW r \in Requests, DeleteStep(r)
  PROVE  RequestsKnow'
<1>1. PICK p \in {"setDeletedAt", "auditDelete", "done", "failed", "rejected"} :
        /\ pc' = [pc EXCEPT ![r] = p]
        /\ p = "auditDelete" => SetDeletedAt(r) /\ Stored(job[r].doc)
  BY DEF DeleteStep, FindToDelete, SetDeletedAt, AuditDelete, Transition
<1>2. UNCHANGED <<job, served>> /\ InFlight(r)
  BY DEF DeleteStep, FindToDelete, SetDeletedAt, AuditDelete, Transition,
    InFlight, InFlightSteps, DeleteSteps
<1>3. CASE p = "auditDelete"
  <2> DEFINE d == job[r].doc
  <2>1. job[r] \in DocumentJob
    BY <1>1, <1>3 DEF DueInv, IInv, JobMatchesStep, SetDeletedAt, Transition, DeleteSteps
  <2>2. d \in Docs /\ rows[d] # None
    BY <1>1, <1>3, <2>1 DEF DocumentJob, Stored
  <2>3. rows' = [rows EXCEPT ![d].deletedAt = now]
    BY <1>1, <1>3 DEF SetDeletedAt
  <2>4. rows'[d].deletedAt = now
    BY <2>2, <2>3 DEF DueInv, IInv, TypeOK, DocTypeOK, DocumentRow
  <2>5. now # Never
    BY StartAssumption DEF DueInv, IInv, TypeOK, DocTypeOK
  <2>6. rows'[d] # None
    BY <2>2 DEF RowsStay
  <2> HIDE DEF d
  <2>7. Marked(job[r])'
    BY <1>2, <2>1, <2>4, <2>5, <2>6 DEF Marked, d
  <2> QED BY <1>1, <1>2, <1>3, <2>7, GoesToKnown DEF DueInv, IInv
<1>4. CASE p # "auditDelete"
  BY <1>1, <1>2, <1>4, GoesToKnown DEF DueInv, IInv
<1> QED BY <1>3, <1>4

LEMMA DownloadStepKnows ==
  ASSUME DueInv, RequestsKnow, RowsStay, NEW r \in Requests, DownloadStep(r)
  PROVE  RequestsKnow'
<1> DEFINE showing == {"accessFile", "auditDownload", "openStream"}
<1>1. job' = job /\ rows' = rows /\ InFlight(r)
  BY DEF DownloadStep, FindToDownload, AccessFile, AuditDownload, OpenStream,
    Transition, InFlight, InFlightSteps, DownloadSteps
<1>2. job[r] \in DocumentJob
  BY DEF DueInv, IInv, JobMatchesStep, DownloadStep, FindToDownload, AccessFile,
    AuditDownload, OpenStream, Transition, DownloadSteps
<1>3. pc[r] \in showing => Shown(job[r])
  BY DEF RequestsKnow, RequestKnows
<1>4. CASE FindToDownload(r) \/ AccessFile(r) \/ AuditDownload(r)
  <2>1. PICK p : /\ pc' = [pc EXCEPT ![r] = p]
                 /\ p \in showing \cup {"rejected"}
                 /\ p \in showing => Shown(job[r])
    <3>1. CASE FindToDownload(r)
      <4> DEFINE found == /\ Live(job[r].doc) /\ rows[job[r].doc].case = job[r].case
                          /\ ReadableBy(job[r].user, job[r].doc)
      <4>1. pc' = [pc EXCEPT ![r] = IF found THEN "accessFile" ELSE "rejected"]
        BY <3>1 DEF FindToDownload, Transition
      <4>2. found => Shown(job[r])
        BY <1>2 DEF Shown, Live, Stored
      <4> HIDE DEF found
      <4>3. CASE found
        BY <4>1, <4>2, <4>3
      <4>4. CASE ~found
        <5>1. pc' = [pc EXCEPT ![r] = "rejected"]
          BY <4>1, <4>4
        <5>2. "rejected" \notin showing
          OBVIOUS
        <5> QED BY <5>1, <5>2
      <4> QED BY <4>3, <4>4
    <3>2. CASE AccessFile(r)
      <4>1. pc' = [pc EXCEPT ![r] = "auditDownload"]
              \/ pc' = [pc EXCEPT ![r] = "rejected"]
        BY <3>2 DEF AccessFile, Transition
      <4>2. Shown(job[r])
        BY <1>3, <3>2 DEF AccessFile, Transition
      <4> QED BY <4>1, <4>2
    <3>3. CASE AuditDownload(r)
      BY <1>3, <3>3 DEF AuditDownload, Transition
    <3> QED BY <1>4, <3>1, <3>2, <3>3
  <2>2. served' = served
    BY <1>4 DEF FindToDownload, AccessFile, AuditDownload
  <2>3. p \in showing => Shown(job[r])'
    BY <1>1, <2>1 DEF Shown, ReadableBy
  <2> QED BY <1>1, <2>1, <2>2, <2>3, GoesToKnown DEF DueInv, IInv
<1>5. CASE OpenStream(r)
  <2>1. PICK j : j = job[r]
    OBVIOUS
  <2>2. PICK p \in {"done", "failed"}, s \in BOOLEAN : Moves(r, p, j, s)
    BY <1>1, <1>5, <2>1
    DEF OpenStream, Transition, Moves, DueInv, IInv, TypeOK, DocTypeOK
  <2>3. Shown(j) /\ j \in AnyJob /\ TenantOf[j.case] = TenantOf[j.user]
    BY <1>3, <1>5, <2>1 DEF OpenStream, Transition, RequestsKnow, RequestKnows,
      InFlightSteps, DownloadSteps
  <2>4. PICK t \in BOOLEAN : t <=> r \in served \/ s
    OBVIOUS
  <2>5. RequestKnows(r, p, j, t)'
    BY <1>1, <2>2, <2>3
    DEF RequestKnows, Shown, ReadableBy, InFlightSteps, UploadSteps, DeleteSteps,
        DownloadSteps, ListSteps
  <2> QED BY <2>2, <2>4, <2>5, MoveKnown DEF DueInv, IInv
<1> QED BY <1>4, <1>5 DEF DownloadStep

LEMMA OtherStepKnows ==
  ASSUME DueInv, RequestsKnow, RowsStay, NEW r \in Requests, ListStep(r) \/ Fail(r)
  PROVE  RequestsKnow'
<1>1. PICK p \in {"auditList", "done", "failed"} : pc' = [pc EXCEPT ![r] = p]
  BY DEF ListStep, FindAll, AuditList, Fail, Transition
<1>2. UNCHANGED <<job, served>> /\ InFlight(r)
  BY DEF ListStep, FindAll, AuditList, Fail, Transition, InFlight, InFlightSteps,
    ListSteps
<1> QED BY <1>1, <1>2, GoesToKnown DEF DueInv, IInv

LEMMA ArrivingKnows ==
  ASSUME DueInv, RequestsKnow, RowsStay, NEW r \in Requests, NEW i \in Jobs,
         Admit(r, i) \/ Refuse(r, i)
  PROVE  RequestsKnow'
<1>1. pc[r] = "idle" /\ r \notin served /\ served' = served
  BY DEF Admit, Refuse, Transition, RequestsKnow, RequestKnows
<1>2. i \in AnyJob
  BY DocumentJobsAssumption
<1>3. CASE Admit(r, i)
  <2>1. FirstStep(i) \in {"writeFile", "findToDelete", "findToDownload", "findAll"}
    BY <1>2 DEF AnyJob, UploadJob, DocumentJob, ListJob, FirstStep
  <2>2. TenantOf[i.case] = TenantOf[i.user]
    BY <1>3 DEF Admit, Admitted
  <2>3. PICK p \in {"writeFile", "findToDelete", "findToDownload", "findAll"} :
          Moves(r, p, i, FALSE)
    BY <1>1, <1>3, <2>1 DEF Admit, Transition, Moves
  <2>4. RequestKnows(r, p, i, FALSE)'
    BY <1>2, <2>2 DEF RequestKnows
  <2> QED BY <1>1, <2>3, <2>4, MoveKnown DEF DueInv, IInv
<1>4. CASE Refuse(r, i)
  <2>1. PICK j : Moves(r, "rejected", j, FALSE)
    BY <1>1, <1>4 DEF Refuse, Transition, Moves, DueInv, IInv, TypeOK, DocTypeOK
  <2>2. RequestKnows(r, "rejected", j, FALSE)'
    BY DEF RequestKnows, InFlightSteps, UploadSteps, DeleteSteps, DownloadSteps,
      ListSteps
  <2> QED BY <1>1, <2>1, <2>2, MoveKnown DEF DueInv, IInv
<1> QED BY <1>3, <1>4

LEMMA NextRequestsKnow ==
  ASSUME DueInv, RequestsKnow, RowsStay, [Next]_vars
  PROVE  RequestsKnow'
<1>1. CASE UNCHANGED <<pc, job, served>>
  <2> SUFFICES ASSUME NEW l \in Requests
               PROVE  RequestKnows(l, pc[l], job[l], l \in served)'
    BY DEF RequestsKnow
  <2>1. PICK q, i, t : q = pc[l] /\ i = job[l] /\ t = (l \in served)
                       /\ RequestKnows(l, q, i, t)
    BY DEF RequestsKnow
  <2>2. RequestKnows(l, q, i, t)'
    BY <2>1, RequestsStay
  <2> QED BY <1>1, <2>1, <2>2 DEF RequestKnows, Marked, Shown, ReadableBy
<1>2. CASE Crash
  <2> SUFFICES ASSUME NEW l \in Requests
               PROVE  RequestKnows(l, pc[l], job[l], l \in served)'
    BY DEF RequestsKnow
  <2>1. PICK q, i, t : q = pc[l] /\ i = job[l] /\ t = (l \in served)
                       /\ RequestKnows(l, q, i, t)
    BY DEF RequestsKnow
  <2>2. RequestKnows(l, q, i, t)'
    BY <2>1, RequestsStay
  <2>3. /\ pc'[l] = IF q \in InFlightSteps THEN "failed" ELSE q
        /\ job' = job /\ served' = served
    BY <1>2, <2>1 DEF Crash, RequestsDie, InFlight
  <2>4. "failed" \notin InFlightSteps
    BY DEF InFlightSteps, UploadSteps, DeleteSteps, DownloadSteps, ListSteps
  <2> QED BY <2>1, <2>2, <2>3, <2>4 DEF RequestKnows, Marked, Shown, ReadableBy
<1>3. ASSUME NEW r \in Requests,
             RequestStep(r) \/ \E j \in Jobs : Admit(r, j) \/ Refuse(r, j)
      PROVE  RequestsKnow'
  BY <1>3, UploadStepKnows, DeleteStepKnows, DownloadStepKnows, OtherStepKnows,
     ArrivingKnows DEF RequestStep
<1>4. CASE EnvironmentStep \/ UNCHANGED vars
  BY <1>1, <1>4
  DEF EnvironmentStep, Tick, StatusUpdated, CaseReviewed, requestVars, vars, docVars
<1>5. CASE DocNext
  BY <1>3, <1>4, <1>5 DEF DocNext
<1>6. ASSUME NEW k \in Cleanups,
             \/ CleanupStep(k)
             \/ \E confirm \in BOOLEAN :
                  StartCleanup(k, confirm) \/ RefuseCleanup(k, confirm)
      PROVE  UNCHANGED <<pc, job, served>>
  BY <1>6
  DEF CleanupStep, MainStep, CaseLoopStep, SweepStep, PurgeStep, ComputeCutoffs,
      FindCases, UnlinkFile, DeleteCase, AuditRun, MaintenanceRun, FailCleanup,
      FindExpired, UnlinkExpired, DeleteRow, SweepFails, Purge, PurgeFails, docVars,
      requestVars, StartCleanup, RefuseCleanup
<1> QED BY <1>1, <1>2, <1>4, <1>5, <1>6 DEF Next

-----------------------------------------------------------------------------
(* The audit log.                                                          *)

\* A request that has arrived keeps its job, and its stream is opened last.
RequestsMoveOn ==
  /\ \A r \in Requests : pc[r] # "idle" => pc'[r] # "idle" /\ job'[r] = job[r]
  /\ \A r \in Requests : r \in served' => r \in served \/ pc[r] = "openStream"

\* The events of a step: true of the document, and the one of a download is
\* there before its stream is opened.
EventsTrue ==
  /\ audit \subseteq audit'
  /\ \A e \in audit' \ audit :
       /\ e \in Requests \X AuditActions /\ pc'[e[1]] # "idle"
       /\ e[2] = "document.uploaded" => rows'[e[1]] # None
       /\ e[2] = "document.soft_deleted" => Marked(job[e[1]])'
  /\ \A r \in Requests : pc'[r] = "openStream" =>
       pc[r] = "openStream" \/ <<r, "document.downloaded">> \in audit'

LEMMA AuditStillKnows ==
  ASSUME TypeOK, AuditKnows, RowsStay, RequestsMoveOn, EventsTrue
  PROVE  AuditKnows'
<1>1. ASSUME NEW e \in audit
      PROVE  /\ pc'[e[1]] # "idle"
             /\ e[2] = "document.uploaded" => rows'[e[1]] # None
             /\ e[2] = "document.soft_deleted" => Marked(job[e[1]])'
  <2>1. PICK r \in Requests : r = e[1]
    BY DEF TypeOK, DocTypeOK
  <2>2. r \in Docs /\ pc[r] # "idle"
    BY <2>1 DEF AuditKnows, Docs
  <2>3. pc'[r] # "idle" /\ job'[r] = job[r]
    BY <2>2 DEF RequestsMoveOn
  <2>4. e[2] = "document.uploaded" => rows'[r] # None
    BY <2>1, <2>2 DEF AuditKnows, RowsStay
  <2>5. e[2] = "document.soft_deleted" => Marked(job[r])'
    <3>1. SUFFICES ASSUME e[2] = "document.soft_deleted"
                   PROVE  Marked(job[r])'
      OBVIOUS
    <3>2. Marked(job[r])
      BY <2>1, <3>1 DEF AuditKnows
    <3> QED BY <2>3, <3>2 DEF Marked, DocumentJob, RowsStay
  <2> QED BY <2>1, <2>3, <2>4, <2>5
<1>2. \A e \in audit' : pc'[e[1]] # "idle"
  BY <1>1 DEF EventsTrue
<1>3. \A e \in audit' : e[2] = "document.uploaded" => rows'[e[1]] # None
  BY <1>1 DEF EventsTrue
<1>4. \A e \in audit' : e[2] = "document.soft_deleted" => Marked(job[e[1]])'
  BY <1>1 DEF EventsTrue
<1>5. \A r \in Requests : pc'[r] = "openStream" \/ r \in served' =>
        <<r, "document.downloaded">> \in audit'
  BY DEF AuditKnows, RequestsMoveOn, EventsTrue
<1> QED BY <1>2, <1>3, <1>4, <1>5 DEF AuditKnows

LEMMA UploadEvents ==
  ASSUME DueInv, RequestsKnow, RowsStay, NEW r \in Requests, UploadStep(r)
  PROVE  RequestsMoveOn /\ EventsTrue
<1> USE DEF DueInv, IInv, TypeOK, DocTypeOK
<1>1. PICK p \in {"createRow", "auditUpload", "done", "failed"} :
        pc' = [pc EXCEPT ![r] = p]
  BY DEF UploadStep, WriteFile, WriteFileFails, CreateRow, AuditUpload, Transition
<1>2. UNCHANGED <<job, served>>
  BY DEF UploadStep, WriteFile, WriteFileFails, CreateRow, AuditUpload
<1>3. CASE AuditUpload(r)
  <2>1. rows'[r] # None /\ audit' = audit \cup {<<r, "document.uploaded">>}
    BY <1>3 DEF AuditUpload, Audit, Transition, RequestsKnow, RequestKnows, RowsStay,
      Docs
  <2>2. <<r, "document.uploaded">> \in Requests \X AuditActions
    BY DEF AuditActions
  <2> QED BY <1>1, <1>2, <2>1, <2>2 DEF RequestsMoveOn, EventsTrue
<1>4. CASE audit' = audit
  BY <1>1, <1>2, <1>4 DEF RequestsMoveOn, EventsTrue
<1> QED BY <1>3, <1>4 DEF UploadStep, WriteFile, WriteFileFails, CreateRow

LEMMA DeleteEvents ==
  ASSUME DueInv, RequestsKnow, RowsStay, NEW r \in Requests, DeleteStep(r)
  PROVE  RequestsMoveOn /\ EventsTrue
<1> USE DEF DueInv, IInv, TypeOK, DocTypeOK
<1>1. PICK p \in {"setDeletedAt", "auditDelete", "done", "failed", "rejected"} :
        pc' = [pc EXCEPT ![r] = p]
  BY DEF DeleteStep, FindToDelete, SetDeletedAt, AuditDelete, Transition
<1>2. UNCHANGED <<job, served>>
  BY DEF DeleteStep, FindToDelete, SetDeletedAt, AuditDelete
<1>3. CASE AuditDelete(r)
  <2>1. Marked(job[r]) /\ audit' = audit \cup {<<r, "document.soft_deleted">>}
    BY <1>3 DEF AuditDelete, Audit, Transition, RequestsKnow, RequestKnows
  <2>2. Marked(job[r])'
    BY <1>2, <2>1 DEF Marked, RowsStay, DocumentJob
  <2>3. <<r, "document.soft_deleted">> \in Requests \X AuditActions
    BY DEF AuditActions
  <2> QED BY <1>1, <1>2, <2>1, <2>2, <2>3 DEF RequestsMoveOn, EventsTrue
<1>4. CASE audit' = audit
  BY <1>1, <1>2, <1>4 DEF RequestsMoveOn, EventsTrue
<1> QED BY <1>3, <1>4 DEF DeleteStep, FindToDelete, SetDeletedAt

LEMMA DownloadEvents ==
  ASSUME DueInv, NEW r \in Requests, DownloadStep(r)
  PROVE  RequestsMoveOn /\ EventsTrue
<1> USE DEF DueInv, IInv, TypeOK, DocTypeOK
<1>1. job' = job
  BY DEF DownloadStep, FindToDownload, AccessFile, AuditDownload, OpenStream
<1>2. CASE AuditDownload(r)
  <2>1. /\ pc' = [pc EXCEPT ![r] = "openStream"] /\ served' = served
        /\ audit' = audit \cup {<<r, "document.downloaded">>}
    BY <1>2 DEF AuditDownload, Audit, Transition
  <2>2. <<r, "document.downloaded">> \in Requests \X AuditActions
    BY DEF AuditActions
  <2> QED BY <1>1, <2>1, <2>2 DEF RequestsMoveOn, EventsTrue
<1>3. CASE FindToDownload(r) \/ AccessFile(r)
  <2>1. PICK p \in {"accessFile", "auditDownload", "rejected"} :
          pc' = [pc EXCEPT ![r] = p]
    BY <1>3 DEF FindToDownload, AccessFile, Transition
  <2>2. UNCHANGED <<audit, served>>
    BY <1>3 DEF FindToDownload, AccessFile
  <2> QED BY <1>1, <2>1, <2>2 DEF RequestsMoveOn, EventsTrue
<1>4. CASE OpenStream(r)
  <2>1. PICK p \in {"done", "failed"} : pc' = [pc EXCEPT ![r] = p]
    BY <1>4 DEF OpenStream, Transition
  <2>2. /\ audit' = audit /\ pc[r] = "openStream"
        /\ served' \subseteq served \cup {r}
    BY <1>4 DEF OpenStream, Transition
  <2> QED BY <1>1, <2>1, <2>2 DEF RequestsMoveOn, EventsTrue
<1> QED BY <1>2, <1>3, <1>4 DEF DownloadStep

LEMMA OtherEvents ==
  ASSUME DueInv, NEW r \in Requests,
         \/ ListStep(r) \/ Fail(r)
         \/ \E j \in Jobs : Admit(r, j) \/ Refuse(r, j)
  PROVE  RequestsMoveOn /\ EventsTrue
<1> USE DEF DueInv, IInv, TypeOK, DocTypeOK
<1>1. CASE AuditList(r)
  <2>1. /\ pc' = [pc EXCEPT ![r] = "done"] /\ UNCHANGED <<job, served>>
        /\ audit' = audit \cup {<<r, "document.sensitive_accessed">>}
    BY <1>1 DEF AuditList, Audit, Transition
  <2>2. <<r, "document.sensitive_accessed">> \in Requests \X AuditActions
    BY DEF AuditActions
  <2> QED BY <2>1, <2>2 DEF RequestsMoveOn, EventsTrue
<1>2. CASE FindAll(r) \/ Fail(r)
  <2>1. PICK p \in {"auditList", "done", "failed"} : pc' = [pc EXCEPT ![r] = p]
    BY <1>2 DEF FindAll, Fail, Transition
  <2>2. UNCHANGED <<audit, job, served>>
    BY <1>2 DEF FindAll, Fail
  <2> QED BY <2>1, <2>2 DEF RequestsMoveOn, EventsTrue
<1>3. ASSUME NEW i \in Jobs, Admit(r, i) \/ Refuse(r, i)
      PROVE  RequestsMoveOn /\ EventsTrue
  <2>1. FirstStep(i) \in {"writeFile", "findToDelete", "findToDownload", "findAll"}
    BY DocumentJobsAssumption
    DEF AnyJob, UploadJob, DocumentJob, ListJob, FirstStep
  <2>2. PICK p \in {"writeFile", "findToDelete", "findToDownload", "findAll",
                    "rejected"} : pc' = [pc EXCEPT ![r] = p]
    BY <1>3, <2>1 DEF Admit, Refuse, Transition
  <2>3. /\ UNCHANGED <<audit, served>> /\ pc[r] = "idle"
        /\ \A l \in Requests : l # r => job'[l] = job[l]
    BY <1>3 DEF Admit, Refuse, Transition
  <2> QED BY <2>2, <2>3 DEF RequestsMoveOn, EventsTrue
<1> QED BY <1>1, <1>2, <1>3 DEF ListStep

LEMMA NextEvents ==
  ASSUME DueInv, RequestsKnow, RowsStay, [Next]_vars
  PROVE  RequestsMoveOn /\ EventsTrue
<1>1. CASE UNCHANGED <<pc, job, audit, served>>
  BY <1>1 DEF RequestsMoveOn, EventsTrue
<1>2. CASE Crash
  <2>1. /\ pc' = [r \in Requests |-> IF InFlight(r) THEN "failed" ELSE pc[r]]
        /\ UNCHANGED <<audit, served, job>>
    BY <1>2 DEF Crash, RequestsDie
  <2> QED BY <2>1 DEF RequestsMoveOn, EventsTrue
<1>3. ASSUME NEW r \in Requests,
             RequestStep(r) \/ \E j \in Jobs : Admit(r, j) \/ Refuse(r, j)
      PROVE  RequestsMoveOn /\ EventsTrue
  BY <1>3, UploadEvents, DeleteEvents, DownloadEvents, OtherEvents DEF RequestStep
<1>4. CASE EnvironmentStep \/ UNCHANGED vars
  BY <1>1, <1>4
  DEF EnvironmentStep, Tick, StatusUpdated, CaseReviewed, requestVars, vars, docVars
<1>5. CASE DocNext
  BY <1>3, <1>4, <1>5 DEF DocNext
<1>6. ASSUME NEW k \in Cleanups,
             \/ CleanupStep(k)
             \/ \E confirm \in BOOLEAN :
                  StartCleanup(k, confirm) \/ RefuseCleanup(k, confirm)
      PROVE  UNCHANGED <<pc, job, audit, served>>
  BY <1>6
  DEF CleanupStep, MainStep, CaseLoopStep, SweepStep, PurgeStep, ComputeCutoffs,
      FindCases, UnlinkFile, DeleteCase, AuditRun, MaintenanceRun, FailCleanup,
      FindExpired, UnlinkExpired, DeleteRow, SweepFails, Purge, PurgeFails, docVars,
      requestVars, StartCleanup, RefuseCleanup
<1> QED BY <1>1, <1>2, <1>4, <1>5, <1>6 DEF Next

-----------------------------------------------------------------------------
(* The order of a request's steps.                                         *)

RequestsGo ==
  \A r \in Requests :
    /\ pc[r] \in {"done", "failed"} => pc'[r] = pc[r]
    /\ pc[r] = "auditDelete" => pc'[r] \in {"auditDelete", "done", "failed"}
    /\ pc'[r] = "setDeletedAt" =>
         pc[r] = "setDeletedAt" \/ (Live(job[r].doc) /\ UNCHANGED <<rows, job>>)
    /\ pc'[r] = "createRow" => pc[r] = "createRow" \/ r \in files'
    /\ pc[r] = "createRow" => pc'[r] \in {"createRow", "failed"} \/ rows'[r] # None
    /\ r \in files' \ files => pc'[r] \in {"createRow", "failed"}

LEMMA RequestStepGoes ==
  ASSUME DueInv, NEW r \in Requests,
         RequestStep(r) \/ \E j \in Jobs : Admit(r, j) \/ Refuse(r, j)
  PROVE  RequestsGo
<1> USE DEF DueInv, IInv, TypeOK, DocTypeOK
<1>1. CASE WriteFile(r)
  BY <1>1 DEF WriteFile, Transition, RequestsGo
<1>2. CASE WriteFileFails(r)
  BY <1>2 DEF WriteFileFails, Transition, RequestsGo
<1>3. CASE CreateRow(r)
  <2> DEFINE row == [case |-> job[r].case, sensitive |-> job[r].sensitive,
                     deletedAt |-> Never, removed |-> FALSE]
  <2>1. job[r] \in UploadJob
    BY <1>3 DEF JobMatchesStep, CreateRow, Transition, UploadSteps
  <2>2. row \in DocumentRow
    BY <2>1 DEF UploadJob, DocumentRow, MaybeDay
  <2>3. row # None
    BY <2>2, DocumentJobsAssumption
  <2>4. Present(job[r].case) => rows' = [rows EXCEPT ![r] = row]
    BY <1>3 DEF CreateRow
  <2> HIDE DEF row
  <2>5. Present(job[r].case) => rows'[r] # None
    BY <2>3, <2>4 DEF Docs
  <2>6. /\ pc[r] = "createRow" /\ files' = files
        /\ pc' = [pc EXCEPT ![r] = IF Present(job[r].case) THEN "auditUpload"
                                                           ELSE "failed"]
    BY <1>3 DEF CreateRow, Transition
  <2> QED BY <2>5, <2>6 DEF RequestsGo
<1>4. CASE AuditUpload(r)
  BY <1>4 DEF AuditUpload, Transition, RequestsGo
<1>5. CASE FindToDelete(r)
  <2>1. /\ pc[r] = "findToDelete" /\ UNCHANGED <<rows, files, job>>
        /\ \/ pc' = [pc EXCEPT ![r] = "setDeletedAt"] /\ Live(job[r].doc)
           \/ pc' = [pc EXCEPT ![r] = "rejected"]
    BY <1>5 DEF FindToDelete, Transition
  <2> QED BY <2>1 DEF RequestsGo
<1>6. CASE SetDeletedAt(r) \/ AuditDelete(r)
  <2>1. /\ files' = files
        /\ \/ pc[r] = "setDeletedAt" /\ pc' = [pc EXCEPT ![r] = "auditDelete"]
           \/ pc[r] = "setDeletedAt" /\ pc' = [pc EXCEPT ![r] = "failed"]
           \/ pc[r] = "auditDelete" /\ pc' = [pc EXCEPT ![r] = "done"]
    BY <1>6 DEF SetDeletedAt, AuditDelete, Transition
  <2> QED BY <2>1 DEF RequestsGo
<1>7. CASE DownloadStep(r) \/ ListStep(r)
  <2>1. /\ files' = files
        /\ pc[r] \in DownloadSteps \cup ListSteps
        /\ \E p \in {"accessFile", "auditDownload", "openStream", "auditList",
                     "done", "failed", "rejected"} : pc' = [pc EXCEPT ![r] = p]
    BY <1>7 DEF DownloadStep, FindToDownload, AccessFile, AuditDownload, OpenStream,
      ListStep, FindAll, AuditList, Transition, DownloadSteps, ListSteps
  <2> QED BY <2>1 DEF RequestsGo, DownloadSteps, ListSteps
<1>8. CASE Fail(r)
  <2>1. files' = files /\ pc' = [pc EXCEPT ![r] = "failed"] /\ pc[r] # "done"
    BY <1>8 DEF Fail, InFlightSteps, UploadSteps, DeleteSteps, DownloadSteps, ListSteps
  <2> QED BY <2>1 DEF RequestsGo
<1>9. ASSUME NEW i \in Jobs, Admit(r, i) \/ Refuse(r, i)
      PROVE  RequestsGo
  <2>1. FirstStep(i) \in {"writeFile", "findToDelete", "findToDownload", "findAll"}
    BY DocumentJobsAssumption
    DEF AnyJob, UploadJob, DocumentJob, ListJob, FirstStep
  <2>2. PICK p \in {"writeFile", "findToDelete", "findToDownload", "findAll",
                    "rejected"} : pc' = [pc EXCEPT ![r] = p]
    BY <1>9, <2>1 DEF Admit, Refuse, Transition
  <2>3. files' = files /\ pc[r] = "idle"
    BY <1>9 DEF Admit, Refuse, Transition
  <2> QED BY <2>2, <2>3 DEF RequestsGo
<1> QED BY <1>1, <1>2, <1>3, <1>4, <1>5, <1>6, <1>7, <1>8, <1>9
  DEF RequestStep, UploadStep, DeleteStep

LEMMA NextGoes ==
  ASSUME DueInv, [Next]_vars
  PROVE  RequestsGo
<1>1. CASE UNCHANGED pc /\ files' \subseteq files
  BY <1>1 DEF RequestsGo
<1>2. CASE Crash
  <2>1. /\ pc' = [r \in Requests |-> IF InFlight(r) THEN "failed" ELSE pc[r]]
        /\ \A r \in files' \ files : pc[r] = "writeFile"
    BY <1>2 DEF Crash, RequestsDie
  <2>2. /\ {"writeFile", "createRow", "setDeletedAt"} \subseteq InFlightSteps
        /\ {"done", "failed"} \cap InFlightSteps = {}
    BY DEF InFlightSteps, UploadSteps, DeleteSteps, DownloadSteps, ListSteps
  <2> QED BY <2>1, <2>2 DEF RequestsGo, InFlight
<1>3. CASE EnvironmentStep \/ UNCHANGED vars
  BY <1>1, <1>3
  DEF EnvironmentStep, Tick, StatusUpdated, CaseReviewed, requestVars, vars, docVars
<1>4. CASE DocNext
  BY <1>3, <1>4, RequestStepGoes DEF DocNext
<1>5. ASSUME NEW k \in Cleanups,
             \/ CleanupStep(k)
             \/ \E confirm \in BOOLEAN :
                  StartCleanup(k, confirm) \/ RefuseCleanup(k, confirm)
      PROVE  UNCHANGED pc /\ files' \subseteq files
  BY <1>5
  DEF CleanupStep, MainStep, CaseLoopStep, SweepStep, PurgeStep, ComputeCutoffs,
      FindCases, UnlinkFile, DeleteCase, AuditRun, MaintenanceRun, FailCleanup,
      FindExpired, UnlinkExpired, DeleteRow, SweepFails, Purge, PurgeFails, docVars,
      requestVars, StartCleanup, RefuseCleanup
<1> QED BY <1>1, <1>2, <1>3, <1>4, <1>5 DEF Next

-----------------------------------------------------------------------------
(* The table, the disk and the log agree.                                  *)

\* A cleanup unlinks only files of documents that it found expired, alone or
\* with their case.
LEMMA FilesGo ==
  ASSUME DueInv, RunsKnow, [Next]_vars, NEW d \in files, d \notin files'
  PROVE  /\ rows[d] # None
         /\ \E k \in Cleanups :
              \/ d \in run[k].docs /\ rows[d].case \in run[k].found
              \/ d \in run[k].expired /\ rows[d].deletedAt # Never
<1>1. ASSUME NEW k \in Cleanups, UnlinkFile(k)
      PROVE  /\ rows[d] # None
             /\ d \in run[k].docs /\ rows[d].case \in run[k].found
  <2>1. run[k].at = "unlinkFile" /\ d \in run[k].left
    BY <1>1 DEF UnlinkFile
  <2> QED BY <2>1 DEF RunsKnow, Knows, LoopKnows, DocsFound
<1>2. ASSUME NEW k \in Cleanups, UnlinkExpired(k)
      PROVE  /\ rows[d] # None
             /\ d \in run[k].expired /\ rows[d].deletedAt # Never
  <2>1. run[k].sweep = "unlinkExpired" /\ d \in run[k].left
    BY <1>2 DEF UnlinkExpired
  <2> QED BY <2>1 DEF RunsKnow, Knows, SweepKnows
<1>3. ASSUME NEW k \in Cleanups, CleanupStep(k), ~UnlinkFile(k), ~UnlinkExpired(k)
      PROVE  files' = files
  BY <1>3
  DEF CleanupStep, MainStep, CaseLoopStep, SweepStep, PurgeStep, ComputeCutoffs,
      FindCases, DeleteCase, AuditRun, MaintenanceRun, FailCleanup,
      FindExpired, DeleteRow, SweepFails, Purge, PurgeFails, docVars
<1>4. ASSUME NEW k \in Cleanups, NEW confirm \in BOOLEAN,
             StartCleanup(k, confirm) \/ RefuseCleanup(k, confirm)
      PROVE  files' = files
  BY <1>4 DEF StartCleanup, RefuseCleanup, docVars
<1>5. CASE Crash \/ UNCHANGED vars
  BY <1>5 DEF Crash, RequestsDie, vars, docVars
<1>6. ASSUME EnvironmentStep
      PROVE  d \in files'
  BY <1>6 DEF EnvironmentStep, Tick, StatusUpdated, CaseReviewed
<1>7. ASSUME NEW r \in Requests,
             RequestStep(r) \/ \E j \in Jobs : Admit(r, j) \/ Refuse(r, j)
      PROVE  d \in files'
  BY <1>7
  DEF RequestStep, UploadStep, WriteFile, WriteFileFails, CreateRow, AuditUpload,
      DeleteStep, SetDeletedAt, FindToDelete, AuditDelete, DownloadStep,
      FindToDownload, AccessFile, AuditDownload, OpenStream, ListStep, FindAll,
      AuditList, Fail, Admit, Refuse
<1>8. ~DocNext
  BY <1>6, <1>7 DEF DocNext
<1> QED BY <1>1, <1>2, <1>3, <1>4, <1>5, <1>8 DEF Next

LEMMA FilesStillKnow ==
  ASSUME DueInv, RunsKnow, FilesKnow, RowsStay, RequestsGo, [Next]_vars
  PROVE  FilesKnow'
<1>1. ASSUME NEW s \in Seeds PROVE rows'[s] # None
  BY DEF FilesKnow, RowsStay, Docs
<1>2. ASSUME NEW r \in Requests, pc'[r] = "createRow" PROVE r \in files'
  <2>1. CASE pc[r] = "createRow"
    <3>1. r \in files /\ rows[r] = None
      BY <2>1 DEF FilesKnow, DueInv, RowsFresh
    <3> QED BY <3>1, FilesGo
  <2> QED BY <1>2, <2>1 DEF RequestsGo
<1> QED BY <1>1, <1>2 DEF FilesKnow

LEMMA MarksStillExplained ==
  ASSUME DueInv, MarksExplained, RowsWritten, RowsStay, RequestsMoveOn, RequestsGo
  PROVE  MarksExplained'
<1> SUFFICES ASSUME NEW r \in Requests, pc'[r] = "setDeletedAt", Marked(job[r])'
             PROVE  MarkedBefore(r, job[r].doc)'
  BY DEF MarksExplained
<1> DEFINE d == job[r].doc
<1>1. pc[r] = "setDeletedAt" /\ job'[r] = job[r]
  <2>1. ~(Live(d) /\ UNCHANGED <<rows, job>>)
    BY DEF Live, Marked
  <2>2. pc[r] = "setDeletedAt"
    BY <2>1 DEF RequestsGo
  <2> QED BY <2>2 DEF RequestsMoveOn
<1>2. job[r] \in DocumentJob /\ d \in Docs
  BY <1>1 DEF Marked, DocumentJob
<1>3. rows'[d] # None /\ rows'[d].deletedAt # Never
  BY <1>1 DEF Marked
<1>4. CASE Marked(job[r])
  <2>1. PICK s \in Requests : /\ s # r /\ job[s] \in DocumentJob /\ job[s].doc = d
                              /\ pc[s] \in {"auditDelete", "done", "failed"}
    BY <1>1, <1>4 DEF MarksExplained, MarkedBefore
  <2>2. pc'[s] \in {"auditDelete", "done", "failed"} /\ job'[s] = job[s]
    BY <2>1 DEF RequestsGo, RequestsMoveOn
  <2> QED BY <1>1, <2>1, <2>2 DEF MarkedBefore
<1>5. CASE ~Marked(job[r])
  <2>1. rows[d] = None \/ rows[d].deletedAt = Never
    BY <1>2, <1>5 DEF Marked
  <2>2. rows \in [Docs -> DocumentRow \cup {None}]
    BY DEF DueInv, IInv, TypeOK, DocTypeOK
  <2>3. ~\E l \in Requests : RowStored(l)
    <3> SUFFICES ASSUME NEW l \in Requests, RowStored(l) PROVE FALSE
      OBVIOUS
    <3> QED BY <1>2, <1>3, <2>1, <2>2 DEF RowStored
  <2>4. ~\E k \in Cleanups : DeleteCase(k)
    <3> SUFFICES ASSUME NEW k \in Cleanups, DeleteCase(k) PROVE FALSE
      OBVIOUS
    <3>1. rows'[d] \in {rows[d], [rows[d] EXCEPT !.removed = TRUE]}
             /\ (rows[d] = None => rows'[d] = rows[d])
      BY <1>2 DEF DeleteCase, Stored
    <3> QED BY <1>2, <1>3, <2>1, <2>2, <3>1 DEF DocumentRow
  <2>5. ~\E e \in Docs : RowRemoved(e)
    <3> SUFFICES ASSUME NEW e \in Docs, RowRemoved(e) PROVE FALSE
      OBVIOUS
    <3>1. rows'[d] = rows[d] \/ (rows[d] # None /\
                                 rows'[d] = [rows[d] EXCEPT !.removed = TRUE])
      BY <1>2, <2>2 DEF RowRemoved, Stored
    <3> QED BY <1>2, <1>3, <2>1, <2>2, <3>1 DEF DocumentRow
  <2>6. PICK s \in Requests : /\ SetDeletedAt(s) /\ job[s].doc \in Docs
                              /\ RowMarked(job[s].doc)
    BY <1>3, <2>1, <2>3, <2>4, <2>5 DEF RowsWritten
  <2>7. job[s].doc = d
    <3> SUFFICES ASSUME job[s].doc # d PROVE FALSE
      OBVIOUS
    <3>1. rows'[d] = rows[d]
      BY <1>2, <2>2, <2>6 DEF RowMarked
    <3> QED BY <1>3, <2>1, <3>1
  <2>8. /\ pc' = [pc EXCEPT ![s] = "auditDelete"] /\ job' = job
        /\ job[s] \in DocumentJob
    BY <2>6 DEF SetDeletedAt, Transition, RowMarked, DueInv, IInv, JobMatchesStep,
      DeleteSteps
  <2>9. s # r /\ pc'[s] = "auditDelete"
    BY <1>1, <2>8 DEF DueInv, IInv, TypeOK, DocTypeOK
  <2> QED BY <1>1, <2>7, <2>8, <2>9 DEF MarkedBefore
<1> QED BY <1>4, <1>5

\* What a cleanup has found it keeps, and a row keeps its case.
LEMMA FoundStays ==
  ASSUME RowsStay, RunsKeep, NEW k \in Cleanups, NEW d \in Docs, rows[d] # None
  PROVE  /\ rows[d].case \in run[k].found =>
              /\ rows'[d].case \in run'[k].found
              /\ run'[k].docs = run[k].docs
         /\ d \in run[k].expired /\ rows[d].deletedAt # Never =>
              d \in run'[k].expired /\ rows'[d].deletedAt # Never
  BY DEF RowsStay, RunsKeep, Keeps

LEMMA FilelessStillExplained ==
  ASSUME DueInv, RunsKnow, FilesKnow, FilelessRowsExplained, RowsWritten, RowsStay,
         \A d \in Docs : rows[d] # None /\ rows[d].removed => rows'[d].removed,
         RunsKeep, [Next]_vars
  PROVE  FilelessRowsExplained'
<1> DEFINE Explains(k, d) == \/ d \in run[k].docs /\ rows[d].case \in run[k].found
                             \/ d \in run[k].expired /\ rows[d].deletedAt # Never
<1> SUFFICES ASSUME NEW d \in Docs, Stored(d)', d \notin files'
             PROVE  \E k \in Cleanups : Explains(k, d)'
  BY DEF FilelessRowsExplained
<1>1. rows[d] # None
  <2> SUFFICES ASSUME rows[d] = None PROVE FALSE
    OBVIOUS
  <2>1. rows \in [Docs -> DocumentRow \cup {None}]
    BY DEF DueInv, IInv, TypeOK, DocTypeOK
  <2>2. ~\E e \in Docs : RowMarked(e) \/ RowRemoved(e)
    BY <2>1 DEF RowMarked, RowRemoved, Stored
  <2>3. ~\E k \in Cleanups : DeleteCase(k)
    BY DEF DeleteCase, Stored
  <2>4. PICK r \in Requests : CreateRow(r) /\ RowStored(r)
    BY <2>2, <2>3 DEF RowsWritten, Stored
  <2>5. r = d
    BY <2>1, <2>4 DEF RowStored, Stored
  <2>6. d \in files /\ files' = files
    BY <2>4, <2>5 DEF CreateRow, Transition, FilesKnow
  <2> QED BY <2>6
<1>2. Stored(d)
  BY <1>1 DEF Stored
<1>3. PICK k \in Cleanups : Explains(k, d)
  <2>1. CASE d \in files
    BY <2>1, FilesGo
  <2>2. CASE d \notin files
    BY <1>2, <2>2 DEF FilelessRowsExplained
  <2> QED BY <2>1, <2>2
<1>4. Explains(k, d)'
  BY <1>1, <1>3, FoundStays
<1> QED BY <1>4

\* Request l is where it was, and so is what it has read and what is known of it.
SameReading(l) ==
  /\ pc'[l] = pc[l] /\ job'[l] = job[l] /\ seen'[l] = seen[l]
  /\ Downloaded(l)' <=> Downloaded(l)
  /\ l \in served' <=> l \in served

\* The same, but that it has moved on with nothing to do with a document, or
\* failed.
ReadingEnds(l) ==
  /\ pc'[l] \notin {"accessFile", "auditDownload", "openStream"}
  /\ job'[l] = job[l] /\ seen'[l].department = seen[l].department
  /\ Downloaded(l)' <=> Downloaded(l)
  /\ Downloaded(l) => seen'[l] = seen[l] /\ pc'[l] = "failed"
  /\ l \in served' <=> l \in served
  /\ pc[l] \in InFlightSteps

LEMMA ReadingStays ==
  ASSUME ReadingsKnow, NEW l \in Requests, SameReading(l) \/ ReadingEnds(l)
  PROVE  ReadingKnows(pc[l], job[l], seen[l], Downloaded(l), l \in served)'
<1>1. PICK p, j, x, e, s :
        /\ p = pc[l] /\ j = job[l] /\ x = seen[l]
        /\ e = Downloaded(l) /\ s = (l \in served)
        /\ ReadingKnows(p, j, x, e, s)
  BY DEF ReadingsKnow
<1>2. PICK q, y : q = pc'[l] /\ y = seen'[l]
  OBVIOUS
<1>3. ReadingKnows(q, j, y, e, s)
  <2>1. "done" \notin InFlightSteps
    BY DEF InFlightSteps, UploadSteps, DeleteSteps, DownloadSteps, ListSteps
  <2> QED BY <1>1, <1>2, <2>1 DEF SameReading, ReadingEnds, ReadingKnows
<1>4. /\ q = pc'[l] /\ j = job'[l] /\ y = seen'[l]
      /\ (e <=> Downloaded(l)') /\ (s <=> l \in served')
  BY <1>1, <1>2 DEF SameReading, ReadingEnds
<1> QED BY <1>3, <1>4 DEF ReadingKnows

LEMMA DownloadReads ==
  ASSUME DueInv, ReadingsKnow, NEW r \in Requests, DownloadStep(r)
  PROVE  ReadingKnows(pc[r], job[r], seen[r], Downloaded(r), r \in served)'
<1> USE DEF DueInv, IInv, TypeOK, DocTypeOK
<1>1. PICK j, x, e, s :
        /\ j = job[r] /\ x = seen[r] /\ e = Downloaded(r) /\ s = (r \in served)
        /\ ReadingKnows(pc[r], j, x, e, s)
  BY DEF ReadingsKnow
<1>2. job'[r] = j /\ seen'[r].department = x.department
  BY <1>1 DEF DownloadStep, FindToDownload, AccessFile, AuditDownload, OpenStream,
    Reading
<1>3. pc[r] \in DownloadSteps /\ ~s
  BY <1>1 DEF ReadingKnows, DownloadStep, FindToDownload, AccessFile, AuditDownload,
    OpenStream, Transition, DownloadSteps
<1>4. MayReadDocuments(j.user, x.department)
  BY <1>1, <1>3 DEF ReadingKnows, InFlightSteps
<1>5. MayReadDocuments(job[r].user, seen[r].department)'
  BY <1>2, <1>4 DEF MayReadDocuments, InDepartmentOf
<1>6. CASE FindToDownload(r)
  <2>1. /\ pc'[r] \in {"accessFile", "rejected"}
        /\ pc'[r] = "accessFile" => Live(job[r].doc)
        /\ seen'[r].live = Live(job[r].doc)
        /\ UNCHANGED <<audit, served>>
    BY <1>6 DEF FindToDownload, Transition, Reading
  <2>2. ~e
    BY <1>1, <1>3, <1>6 DEF ReadingKnows, FindToDownload, Transition
  <2> QED BY <1>1, <1>3, <1>5, <2>1, <2>2 DEF ReadingKnows, Downloaded
<1>7. CASE AccessFile(r)
  <2>1. pc'[r] \in {"auditDownload", "rejected"} /\ UNCHANGED <<audit, served, seen>>
    BY <1>7 DEF AccessFile, Transition
  <2>2. ~e /\ x.live
    BY <1>1, <1>3, <1>7 DEF ReadingKnows, AccessFile, Transition
  <2> QED BY <1>1, <1>3, <1>5, <2>1, <2>2 DEF ReadingKnows, Downloaded
<1>8. CASE AuditDownload(r)
  <2>1. pc'[r] = "openStream" /\ UNCHANGED <<served, seen>>
    BY <1>8 DEF AuditDownload, Transition
  <2>2. x.live
    BY <1>1, <1>8 DEF ReadingKnows, AuditDownload, Transition
  <2> QED BY <1>1, <1>3, <1>5, <2>1, <2>2 DEF ReadingKnows
<1>9. CASE OpenStream(r)
  <2>1. /\ pc'[r] \in {"done", "failed"} /\ seen' = seen
        /\ r \in served' <=> pc'[r] = "done"
    BY <1>1, <1>3, <1>9 DEF OpenStream, Transition
  <2>2. x.live
    BY <1>1, <1>9 DEF ReadingKnows, OpenStream, Transition
  <2> QED BY <1>1, <1>5, <2>1, <2>2 DEF ReadingKnows
<1> QED BY <1>6, <1>7, <1>8, <1>9 DEF DownloadStep

LEMMA AdmitReads ==
  ASSUME DueInv, RequestsKnow, AuditKnows, ReadingsKnow,
         NEW r \in Requests, NEW i \in Jobs, Admit(r, i) \/ Refuse(r, i)
  PROVE  ReadingKnows(pc[r], job[r], seen[r], Downloaded(r), r \in served)'
<1> USE DEF DueInv, IInv, TypeOK, DocTypeOK
<1>1. /\ pc[r] = "idle" /\ r \notin served /\ ~Downloaded(r)
      /\ UNCHANGED <<audit, served>>
  BY DEF Admit, Refuse, Transition, RequestsKnow, RequestKnows, AuditKnows, Downloaded
<1>2. CASE Admit(r, i)
  <2>1. i \in AnyJob
    BY DocumentJobsAssumption
  <2>2. FirstStep(i) \in {"writeFile", "findToDelete", "findToDownload", "findAll"}
    BY <2>1 DEF AnyJob, UploadJob, DocumentJob, ListJob, FirstStep
  <2>3. /\ pc'[r] = FirstStep(i) /\ job'[r] = i
        /\ seen'[r].department = cases[i.case].department
    BY <1>2 DEF Admit, Transition, Reading
  <2>4. MayReadDocuments(i.user, cases[i.case].department)
    BY <1>2 DEF Admit, Admitted
  <2>5. MayReadDocuments(job[r].user, seen[r].department)'
    BY <2>3, <2>4 DEF MayReadDocuments, InDepartmentOf
  <2> QED BY <1>1, <2>2, <2>3, <2>5 DEF ReadingKnows, Downloaded
<1>3. CASE Refuse(r, i)
  <2>1. pc'[r] = "rejected"
    BY <1>3 DEF Refuse, Transition
  <2> QED BY <1>1, <2>1 DEF ReadingKnows, Downloaded, InFlightSteps, UploadSteps,
            DeleteSteps, DownloadSteps, ListSteps
<1> QED BY <1>2, <1>3

\* A step of a request that is no download leaves what it has read.
LEMMA OtherReads ==
  ASSUME DueInv, ReadingsKnow, NEW r \in Requests,
         UploadStep(r) \/ DeleteStep(r) \/ ListStep(r) \/ Fail(r)
  PROVE  ReadingEnds(r)
<1> USE DEF DueInv, IInv, TypeOK, DocTypeOK
<1>1. /\ pc[r] \in InFlightSteps
      /\ UNCHANGED <<job, seen, served>>
      /\ Fail(r) \/ pc[r] \notin {"openStream", "failed", "done"}
  BY DEF UploadStep, WriteFile, WriteFileFails, CreateRow, AuditUpload, DeleteStep,
    FindToDelete, SetDeletedAt, AuditDelete, ListStep, FindAll, AuditList, Fail,
    Transition, InFlightSteps, UploadSteps, DeleteSteps, ListSteps
<1>2. Downloaded(r) => pc[r] \in {"openStream", "failed", "done"}
  BY DEF ReadingsKnow, ReadingKnows
<1>3. Fail(r) => pc'[r] = "failed"
  BY DEF Fail
<1>4. pc'[r] \in {"createRow", "auditUpload", "setDeletedAt", "auditDelete",
                  "auditList", "rejected", "done", "failed"}
  BY DEF UploadStep, WriteFile, WriteFileFails, CreateRow, AuditUpload, DeleteStep,
    FindToDelete, SetDeletedAt, AuditDelete, ListStep, FindAll, AuditList, Fail,
    Transition
<1>5. Downloaded(r)' <=> Downloaded(r)
  BY DEF UploadStep, WriteFile, WriteFileFails, CreateRow, AuditUpload, DeleteStep,
    FindToDelete, SetDeletedAt, AuditDelete, ListStep, FindAll, AuditList, Fail,
    Audit, Downloaded
<1> QED BY <1>1, <1>2, <1>3, <1>4, <1>5 DEF ReadingEnds

\* A request leaves what the others have read.
LEMMA RequestLeaves ==
  ASSUME DueInv, NEW r \in Requests, NEW l \in Requests, l # r,
         RequestStep(r) \/ \E i \in Jobs : Admit(r, i) \/ Refuse(r, i)
  PROVE  SameReading(l)
<1> USE DEF DueInv, IInv, TypeOK, DocTypeOK
<1>1. CASE RequestStep(r)
  <2> USE DEF RequestStep, UploadStep, WriteFile, WriteFileFails, CreateRow,
        AuditUpload, DeleteStep, FindToDelete, SetDeletedAt, AuditDelete,
        DownloadStep, FindToDownload, AccessFile, AuditDownload, OpenStream,
        ListStep, FindAll, AuditList, Fail
  <2>1. pc'[l] = pc[l]
    BY <1>1 DEF Transition
  <2>2. job'[l] = job[l] /\ seen'[l] = seen[l]
    BY <1>1
  <2>3. l \in served' <=> l \in served
    BY <1>1
  <2>4. audit' = audit \/ \E a : audit' = audit \cup {<<r, a>>}
    BY <1>1 DEF Audit
  <2>5. Downloaded(l)' <=> Downloaded(l)
    BY <2>4 DEF Downloaded
  <2> QED BY <2>1, <2>2, <2>3, <2>5 DEF SameReading
<1>2. ASSUME NEW i \in Jobs, Admit(r, i) \/ Refuse(r, i)
      PROVE  SameReading(l)
  BY <1>2 DEF Admit, Refuse, Transition, SameReading, Downloaded
<1> QED BY <1>1, <1>2

LEMMA NextReadingsKnow ==
  ASSUME DueInv, RequestsKnow, AuditKnows, ReadingsKnow, [Next]_vars
  PROVE  ReadingsKnow'
<1> SUFFICES ASSUME NEW l \in Requests
             PROVE  ReadingKnows(pc[l], job[l], seen[l], Downloaded(l), l \in served)'
  BY DEF ReadingsKnow
<1>1. CASE UNCHANGED <<requestVars, audit, served>>
  BY <1>1, ReadingStays DEF SameReading, requestVars, Downloaded
<1>2. CASE Crash
  <2>1. /\ pc'[l] = IF InFlight(l) THEN "failed" ELSE pc[l]
        /\ UNCHANGED <<job, seen, audit, served>>
    BY <1>2 DEF Crash, RequestsDie
  <2> QED BY <2>1, ReadingStays DEF SameReading, ReadingEnds, Downloaded, InFlight
<1>3. ASSUME NEW r \in Requests,
             RequestStep(r) \/ \E i \in Jobs : Admit(r, i) \/ Refuse(r, i)
      PROVE  ReadingKnows(pc[l], job[l], seen[l], Downloaded(l), l \in served)'
  <2>1. CASE l = r
    BY <1>3, <2>1, DownloadReads, AdmitReads, OtherReads, ReadingStays DEF RequestStep
  <2>2. CASE l # r
    <3>1. SameReading(l)
      BY <1>3, <2>2, RequestLeaves
    <3> QED BY <3>1, ReadingStays
  <2> QED BY <2>1, <2>2
<1>4. CASE EnvironmentStep \/ UNCHANGED vars
  BY <1>1, <1>4
  DEF EnvironmentStep, Tick, StatusUpdated, CaseReviewed, requestVars, vars, docVars
<1>5. CASE DocNext
  BY <1>3, <1>4, <1>5 DEF DocNext
<1>6. ASSUME NEW k \in Cleanups,
             \/ CleanupStep(k)
             \/ \E confirm \in BOOLEAN :
                  StartCleanup(k, confirm) \/ RefuseCleanup(k, confirm)
      PROVE  UNCHANGED <<requestVars, audit, served>>
  BY <1>6
  DEF CleanupStep, MainStep, CaseLoopStep, SweepStep, PurgeStep, ComputeCutoffs,
      FindCases, UnlinkFile, DeleteCase, AuditRun, MaintenanceRun, FailCleanup,
      FindExpired, UnlinkExpired, DeleteRow, SweepFails, Purge, PurgeFails, docVars,
      requestVars, StartCleanup, RefuseCleanup
<1> QED BY <1>1, <1>2, <1>4, <1>5, <1>6 DEF Next

LEMMA RowlessStillExplained ==
  ASSUME DueInv, RunsKnow, FilesKnow, RowlessFilesExplained, RowsWritten, RowsStay,
         FilesWritten, RunsKeep, RequestsGo, [Next]_vars
  PROVE  RowlessFilesExplained'
<1>0. rows \in [Docs -> DocumentRow \cup {None}] /\ files' \subseteq Docs
  BY NextIInv DEF DueInv, IInv, TypeOK, DocTypeOK
<1> SUFFICES ASSUME NEW d \in Docs, d \in files'
             PROVE  /\ rows'[d] = None => pc'[d] \in {"createRow", "failed"}
                    /\ RemovedRow(d)' => \E k \in Cleanups :
                         rows'[d].case \in run'[k].found /\ d \notin run'[k].docs
  BY <1>0 DEF RowlessFilesExplained
<1>1. ASSUME rows'[d] = None
      PROVE  pc'[d] \in {"createRow", "failed"}
  <2>1. rows[d] = None
    BY <1>1 DEF RowsStay
  <2>2. d \in Requests
    BY <2>1 DEF FilesKnow, Docs
  <2>3. CASE d \in files
    BY <1>1, <2>1, <2>2, <2>3 DEF RowlessFilesExplained, RequestsGo
  <2>4. CASE d \notin files
    BY <2>2, <2>4 DEF RequestsGo
  <2> QED BY <2>3, <2>4
<1>2. ASSUME RemovedRow(d)'
      PROVE  \E k \in Cleanups :
               rows'[d].case \in run'[k].found /\ d \notin run'[k].docs
  <2>1. CASE RemovedRow(d)
    <3>1. d \in files /\ rows[d] # None
      BY <2>1 DEF FilesWritten, RemovedRow
    <3>2. PICK k \in Cleanups : rows[d].case \in run[k].found /\ d \notin run[k].docs
      BY <2>1, <3>1 DEF RowlessFilesExplained
    <3> QED BY <3>1, <3>2, FoundStays
  <2>2. CASE ~RemovedRow(d)
    <3>1. ~\E r \in Requests : RowStored(r)
      BY <1>0, <1>2, <2>2 DEF RowStored, RemovedRow
    <3>2. ~\E e \in Docs : RowMarked(e)
      <4> SUFFICES ASSUME NEW e \in Docs, RowMarked(e) PROVE FALSE
        OBVIOUS
      <4>1. \/ rows'[d] = rows[d]
            \/ /\ rows[d] # None /\ ~rows[d].removed
               /\ rows'[d] = [rows[d] EXCEPT !.deletedAt = now]
        BY <1>0 DEF RowMarked, Stored
      <4> QED BY <1>0, <1>2, <2>2, <4>1 DEF RemovedRow, DocumentRow
    <3>3. ~\E k \in Cleanups : DeleteRow(k) /\ run[k].doc \in Docs /\ RowRemoved(run[k].doc)
      <4> SUFFICES ASSUME NEW k \in Cleanups, DeleteRow(k), run[k].doc \in Docs,
                          RowRemoved(run[k].doc)
                   PROVE FALSE
        OBVIOUS
      <4>1. d = run[k].doc
        BY <1>0, <1>2, <2>2 DEF RowRemoved, RemovedRow
      <4>2. run[k].sweep = "deleteRow" /\ files' = files
        BY DEF DeleteRow
      <4>3. run[k].doc \notin files
        BY <4>2 DEF RunsKnow, Knows, SweepKnows
      <4> QED BY <4>1, <4>2, <4>3
    <3>4. PICK k \in Cleanups : DeleteCase(k)
      BY <1>2, <2>2, <3>1, <3>2, <3>3 DEF RowsWritten, RemovedRow
    <3>5. rows[d] # None /\ rows[d].case = run[k].case
      BY <1>2, <2>2, <3>4 DEF DeleteCase, RemovedRow, Stored
    <3>6. run[k].at = "deleteCase" /\ files' = files
      BY <3>4 DEF DeleteCase
    <3>7. rows[d].case \in run[k].found
      BY <3>5, <3>6 DEF RunsKnow, Knows, LoopKnows, InLoop
    <3>8. d \notin run[k].docs
      BY <3>5, <3>6 DEF RunsKnow, Knows, LoopKnows, DocsFound
    <3> QED BY <3>5, <3>7, <3>8, FoundStays
  <2> QED BY <2>1, <2>2
<1> QED BY <1>1, <1>2

LEMMA InitDocInv == Init => DocInv
<1> SUFFICES ASSUME Init PROVE DocInv
  OBVIOUS
<1>1. DueInv
  BY InitDueInv
<1>2. ASSUME NEW k \in Cleanups PROVE Knows(run[k], files)
  <2>1. run[k] = Idle
    BY DEF Init
  <2> QED BY <2>1 DEF Idle, Knows, LoopKnows, SweepKnows, EndsInOrder, BeforeLoop,
            InLoop, SweepSteps
<1>3. /\ audit = {} /\ served = {} /\ files = Seeds
      /\ \A r \in Requests : pc[r] = "idle"
      /\ \A s \in Seeds : rows[s] \in DocumentRow /\ rows[s] # None /\ ~rows[s].removed
  BY StartAssumption, DocumentJobsAssumption DEF Init, DocInit, Docs
<1>4. \A d \in Docs : rows[d] # None => d \in Seeds
  BY DEF Init, DocInit
<1>5. "idle" \notin InFlightSteps
  BY DEF InFlightSteps, UploadSteps, DeleteSteps, DownloadSteps, ListSteps
<1>6. RequestsKnow
  BY <1>3, <1>5 DEF RequestsKnow, RequestKnows
<1>7. AuditKnows /\ FilesKnow /\ MarksExplained /\ ReadingsKnow
  BY <1>3, <1>5 DEF AuditKnows, FilesKnow, MarksExplained, ReadingsKnow,
     ReadingKnows, Downloaded
<1>8. RowlessFilesExplained /\ FilelessRowsExplained
  BY <1>3, <1>4 DEF RowlessFilesExplained, FilelessRowsExplained, RemovedRow, Stored
<1> QED BY <1>1, <1>2, <1>6, <1>7, <1>8 DEF DocInv, RunsKnow

LEMMA NextDocInv == DocInv /\ [Next]_vars => DocInv'
<1> SUFFICES ASSUME DocInv, [Next]_vars PROVE DocInv'
  OBVIOUS
<1> USE DEF DocInv
<1>1. DueInv'
  BY NextDueInv
<1>2. RunsKnow' /\ RunsKeep /\ RowsStay /\ FilesWritten
  BY RunsGoOn
<1>3. RowsWritten
  BY StepWritesRows
<1>4. RequestsMoveOn /\ EventsTrue /\ RequestsGo
  BY <1>2, NextEvents, NextGoes
<1>5. RequestsKnow'
  BY <1>2, NextRequestsKnow
<1>6. AuditKnows'
  BY <1>2, <1>4, AuditStillKnows DEF DueInv, IInv
<1>7. FilesKnow' /\ MarksExplained' /\ ReadingsKnow'
  BY <1>2, <1>3, <1>4, FilesStillKnow, MarksStillExplained, NextReadingsKnow
<1>8. FilelessRowsExplained' /\ RowlessFilesExplained'
  BY <1>2, <1>3, <1>4, StepKeepsRows, FilelessStillExplained, RowlessStillExplained
<1> QED BY <1>1, <1>2, <1>5, <1>6, <1>7, <1>8

LEMMA StepKeepsStuck ==
  ASSUME DocInv, [Next]_vars, NEW k \in Cleanups, NEW d \in Docs,
         RemovedRow(d)', ~RemovedRow(d), run'[k] # run[k]
  PROVE  d \notin run[k].stuck
<1> USE DEF DocInv
<1>1. RowsWritten
  BY StepWritesRows
<1>2. rows \in [Docs -> DocumentRow \cup {None}] /\ run \in [Cleanups -> Run]
  BY DEF DueInv, IInv, TypeOK, DocTypeOK
<1>3. ~\E r \in Requests : RowStored(r)
  BY <1>2 DEF RowStored, RemovedRow
<1>4. ~\E e \in Docs : RowMarked(e)
  <2> SUFFICES ASSUME NEW e \in Docs, RowMarked(e) PROVE FALSE
    OBVIOUS
  <2>1. \/ rows'[d] = rows[d]
        \/ /\ rows[d] # None /\ ~rows[d].removed
           /\ rows'[d] = [rows[d] EXCEPT !.deletedAt = now]
    BY <1>2 DEF RowMarked, Stored
  <2> QED BY <1>2, <2>1 DEF RemovedRow, DocumentRow
<1>5. ASSUME NEW l \in Cleanups, DeleteCase(l)
      PROVE  d \notin run[k].stuck
  <2>1. l = k
    BY <1>2, <1>5 DEF DeleteCase
  <2>2. rows[d] # None /\ rows[d].case = run[k].case /\ run[k].at = "deleteCase"
    BY <1>5, <2>1 DEF DeleteCase, RemovedRow, Stored
  <2> QED BY <2>2 DEF RunsKnow, Knows, LoopKnows, DocsFound, InLoop
<1>6. ASSUME NEW l \in Cleanups, DeleteRow(l), RowRemoved(run[l].doc)
      PROVE  d \notin run[k].stuck
  <2>1. Stored(run[l].doc) /\ run[l].sweep = "deleteRow" /\ d = run[l].doc
    BY <1>2, <1>6 DEF DeleteRow, RowRemoved, RemovedRow
  <2>2. l = k
    BY <1>2, <1>6, <2>1 DEF DeleteRow
  <2> QED BY <2>1, <2>2 DEF RunsKnow, Knows, SweepKnows
<1> QED BY <1>1, <1>3, <1>4, <1>5, <1>6 DEF RowsWritten, RemovedRow

\* Request r marks document d, which another deletion has marked before.
MarkedAgain(d) ==
  \E r, s \in Requests :
    /\ r # s /\ job[r] # None /\ job[s] # None
    /\ job[r] \in DocumentJob /\ job[s] \in DocumentJob
    /\ job[r].doc = d /\ job[s].doc = d
    /\ pc[r] = "setDeletedAt"
    /\ pc[s] \in {"auditDelete", "done", "failed"}

LEMMA StepMovesTimeByRace ==
  ASSUME DocInv, [Next]_vars, NEW d \in Docs,
         Stored(d), rows[d].deletedAt # Never,
         rows'[d].deletedAt # rows[d].deletedAt
  PROVE  MarkedAgain(d)
<1> USE DEF DocInv
<1>1. RowsWritten
  BY StepWritesRows
<1>2. rows \in [Docs -> DocumentRow \cup {None}] /\ rows[d] # None
  BY DEF DueInv, IInv, TypeOK, DocTypeOK, Stored
<1>3. ~\E r \in Requests : RowStored(r)
  BY <1>2 DEF RowStored
<1>4. ~\E k \in Cleanups : DeleteCase(k)
  <2> SUFFICES ASSUME NEW k \in Cleanups, DeleteCase(k) PROVE FALSE
    OBVIOUS
  <2>1. rows'[d] \in {rows[d], [rows[d] EXCEPT !.removed = TRUE]}
    BY DEF DeleteCase
  <2> QED BY <1>2, <2>1 DEF DocumentRow
<1>5. ~\E e \in Docs : RowRemoved(e)
  <2> SUFFICES ASSUME NEW e \in Docs, RowRemoved(e) PROVE FALSE
    OBVIOUS
  <2>1. rows'[d] \in {rows[d], [rows[d] EXCEPT !.removed = TRUE]}
    BY <1>2 DEF RowRemoved
  <2> QED BY <1>2, <2>1 DEF DocumentRow
<1>6. PICK r \in Requests : /\ SetDeletedAt(r) /\ job[r].doc \in Docs
                            /\ RowMarked(job[r].doc)
  BY <1>1, <1>3, <1>4, <1>5 DEF RowsWritten
<1>7. job[r].doc = d
  BY <1>2, <1>6 DEF RowMarked
<1>8. pc[r] = "setDeletedAt" /\ job[r] \in DocumentJob
  BY <1>6 DEF SetDeletedAt, Transition, DueInv, IInv, JobMatchesStep, DeleteSteps
<1>9. MarkedBefore(r, d)
  BY <1>2, <1>7, <1>8 DEF MarksExplained, Marked
<1>10. None \notin DocumentJob
  BY DocumentJobsAssumption DEF AnyJob
<1> QED BY <1>7, <1>8, <1>9, <1>10 DEF MarkedBefore, MarkedAgain

-----------------------------------------------------------------------------

LEMMA DocInvAlways == Spec => []DocInv
  BY InitDocInv, NextDocInv, PTL DEF Spec

\* getDownloadForCase: a download that was served was asked for within the
\* user's municipality, of a document of that case that the user may read; it was
\* found live, in a case of a department the user could read then, and is in the
\* audit log, whatever happened to row, case and file since.
THEOREM ServedSound == Spec => []ServedAsAllowed
<1>1. DocInv => ServedAsAllowed
  <2> SUFFICES ASSUME DocInv, NEW r \in served
               PROVE  /\ Downloaded(r)
                      /\ Shown(job[r]) /\ TenantOf[job[r].case] = TenantOf[job[r].user]
                      /\ seen[r].live
                      /\ MayReadDocuments(job[r].user, seen[r].department)
    BY DEF ServedAsAllowed, Shown, ReadableBy, Downloaded
  <2>1. r \in Requests
    BY DEF DocInv, DueInv, IInv, TypeOK, DocTypeOK
  <2>2. Downloaded(r) /\ Shown(job[r]) /\ TenantOf[job[r].case] = TenantOf[job[r].user]
    BY <2>1 DEF DocInv, RequestsKnow, RequestKnows, AuditKnows, Downloaded
  <2>3. ReadingKnows(pc[r], job[r], seen[r], Downloaded(r), r \in served)
    BY <2>1 DEF DocInv, ReadingsKnow
  <2> QED BY <2>2, <2>3 DEF ReadingKnows
<1> QED BY <1>1, DocInvAlways, PTL

\* executeRetentionCleanup: "if physical deletion fails, metadata is retained for
\* retry", in every cleanup and whatever else goes on.
THEOREM StuckFilesSound == Spec => StuckFilesKeepMetadata
<1> DEFINE A == \A k \in Cleanups, d \in Docs :
                  /\ RemovedRow(d)' /\ ~RemovedRow(d)
                  /\ run'[k] # run[k]
                  => d \notin run[k].stuck
<1>1. DocInv /\ [Next]_vars => [A]_vars
  BY StepKeepsStuck
<1> HIDE DEF A
<1>2. Spec => [][A]_vars
  BY <1>1, InitDocInv, NextDocInv, PTL DEF Spec
<1> QED BY <1>2 DEF StuckFilesKeepMetadata, A

\* softDeleteForCase: the time a document's retention counts from moves only when
\* two deletions have both found it live.
THEOREM DeletionTimeSound == Spec => DeletionTimeMovesByRace
<1> DEFINE A == \A d \in Docs :
                  Stored(d) /\ rows[d].deletedAt # Never
                    /\ rows'[d].deletedAt # rows[d].deletedAt => MarkedAgain(d)
<1>1. DocInv /\ [Next]_vars => [A]_vars
  BY StepMovesTimeByRace
<1> HIDE DEF A
<1>2. Spec => [][A]_vars
  BY <1>1, InitDocInv, NextDocInv, PTL DEF Spec
<1> QED BY <1>2 DEF DeletionTimeMovesByRace, A, MarkedAgain

-----------------------------------------------------------------------------
(* The life of a document: each step of the system is one of it, or none.  *)

\* The row of a case in the table and the rows of its documents go together.
RowsInCases == \A d \in Docs : Stored(d) => Present(rows[d].case)

LifeInv == DocInv /\ Lifecycle!OrphansLostTheirCase

\* What a step does to the table of cases and to what cleanups have found.
CasesStay == \A c \in Cases : cases'[c].removed = cases[c].removed
FoundSame == \A k \in Cleanups : run'[k].found = run[k].found

LEMMA StepKeepsCases ==
  ASSUME TypeOK, [Next]_vars, ~\E k \in Cleanups : DeleteCase(k)
  PROVE  CasesStay
<1> USE DEF TypeOK, DocTypeOK, CasesStay
<1>1. ASSUME NEW c \in BusyCases, StatusUpdated(c) \/ CaseReviewed(c)
      PROVE  CasesStay
  BY <1>1, StartAssumption DEF StatusUpdated, CaseReviewed, CaseRow
<1>2. ASSUME NEW r \in Requests,
             RequestStep(r) \/ \E j \in Jobs : Admit(r, j) \/ Refuse(r, j)
      PROVE  cases' = cases
  BY <1>2
  DEF RequestStep, UploadStep, WriteFile, WriteFileFails, CreateRow, AuditUpload,
      DeleteStep, SetDeletedAt, FindToDelete, AuditDelete, DownloadStep,
      FindToDownload, AccessFile, AuditDownload, OpenStream, ListStep, FindAll,
      AuditList, Fail, Admit, Refuse
<1>3. ASSUME NEW k \in Cleanups, CleanupStep(k)
      PROVE  cases' = cases
  BY <1>3
  DEF CleanupStep, MainStep, CaseLoopStep, SweepStep, PurgeStep, ComputeCutoffs,
      FindCases, UnlinkFile, AuditRun, MaintenanceRun, FailCleanup,
      FindExpired, UnlinkExpired, DeleteRow, SweepFails, Purge, PurgeFails, docVars
<1>4. ASSUME NEW k \in Cleanups, NEW confirm \in BOOLEAN,
             StartCleanup(k, confirm) \/ RefuseCleanup(k, confirm)
      PROVE  cases' = cases
  BY <1>4 DEF StartCleanup, RefuseCleanup, docVars
<1>5. CASE Crash \/ UNCHANGED vars
  BY <1>5 DEF Crash, RequestsDie, vars, docVars
<1>6. CASE DocNext
  <2>1. CASE EnvironmentStep
    BY <1>1, <2>1 DEF EnvironmentStep, Tick
  <2> QED BY <1>2, <1>6, <2>1 DEF DocNext
<1> QED BY <1>3, <1>4, <1>5, <1>6 DEF Next

LEMMA LoopKeepsFound ==
  ASSUME TypeOK, NEW k \in Cleanups, UnlinkFile(k) \/ DeleteCase(k)
  PROVE  FoundSame
<1> USE DEF TypeOK
<1>1. ASSUME NEW y \in Run, run' = [run EXCEPT ![k] = y], y.found = run[k].found
      PROVE  FoundSame
  BY <1>1 DEF FoundSame
<1>2. CASE UnlinkFile(k)
  <2>1. PICK d \in run[k].left, ok \in BOOLEAN :
          LET x == [run[k] EXCEPT !.left = @ \ {d},
                                  !.stuck = IF ok THEN @ ELSE @ \cup {d}]
          IN  \E y \in IF x.left = {} THEN AfterFiles(x) ELSE {x} :
                run' = [run EXCEPT ![k] = y]
    BY <1>2 DEF UnlinkFile
  <2> DEFINE x == [run[k] EXCEPT !.left = @ \ {d},
                                 !.stuck = IF ok THEN @ ELSE @ \cup {d}]
  <2>2. x \in Run /\ x.found = run[k].found
    <3>1. run[k] \in Run /\ d \in Docs
      BY DEF Run
    <3> QED BY <3>1 DEF Run
  <2>3. PICK y \in IF x.left = {} THEN AfterFiles(x) ELSE {x} :
          run' = [run EXCEPT ![k] = y]
    BY <2>1
  <2> HIDE DEF x
  <2>4. y \in Run /\ y.found = x.found
    BY <2>2, <2>3, AfterFilesGoesOn DEF GoesOn
  <2> QED BY <1>1, <2>2, <2>3, <2>4
<1>3. CASE DeleteCase(k)
  <2>1. PICK y \in NextCase(run[k]) : run' = [run EXCEPT ![k] = y]
    BY <1>3 DEF DeleteCase
  <2>2. y \in Run /\ y.found = run[k].found
    BY NextCaseGoesOn DEF GoesOn
  <2> QED BY <1>1, <2>1, <2>2
<1> QED BY <1>2, <1>3

LEMMA UnlinkExpiredSteps ==
  ASSUME NEW k \in Cleanups, UnlinkExpired(k)
  PROVE  \E d \in run[k].left :
            LET x == [run[k] EXCEPT !.left = @ \ {d}]
            IN  \/ run' = [run EXCEPT ![k] = [x EXCEPT !.sweep = "deleteRow", !.doc = d]]
                \/ run' = [run EXCEPT ![k] = SweepOn([x EXCEPT !.stuck = @ \cup {d}])]
BY DEF UnlinkExpired

LEMMA StepKeepsFound ==
  ASSUME TypeOK, [Next]_vars, ~\E k \in Cleanups : FindCases(k)
  PROVE  FoundSame
<1> USE DEF TypeOK
<1>1. ASSUME NEW k \in Cleanups, NEW y \in Run, run' = [run EXCEPT ![k] = y],
             y.found = run[k].found
      PROVE  FoundSame
  BY <1>1 DEF FoundSame
<1>2. ASSUME NEW k \in Cleanups, CaseLoopStep(k)
      PROVE  FoundSame
  BY <1>2, LoopKeepsFound DEF CaseLoopStep
<1>3. ASSUME NEW k \in Cleanups, NEW x \in Run, Rejected(k, x),
             x.found = run[k].found
      PROVE  FoundSame
  <2>1. PICK y : y = IF x.at = "all" THEN [x EXCEPT !.at = "failed"] ELSE x
    OBVIOUS
  <2>2. y \in Run /\ y.found = x.found
    BY <2>1 DEF Run, Settled
  <2> QED BY <1>1, <1>3, <2>1, <2>2 DEF Rejected
<1>4. ASSUME NEW k \in Cleanups, NEW x \in Run, run' = [run EXCEPT ![k] = SweepOn(x)],
             x.found = run[k].found
      PROVE  FoundSame
  BY <1>1, <1>4, SweepOnAlongside DEF Alongside
<1>5. ASSUME NEW k \in Cleanups, SweepStep(k)
      PROVE  FoundSame
  <2>1. CASE FindExpired(k)
    <3>1. PICK e \in SUBSET Docs :
            run' = [run EXCEPT ![k] = SweepOn([run[k] EXCEPT !.expired = e, !.left = e])]
      <4> DEFINE e == {d \in Docs : /\ Stored(d)
                                    /\ TenantOf[rows[d].case] = TenantFor(k)
                                    /\ rows[d].case \notin run[k].found
                                    /\ DocumentExpired(d, run[k].asOf)}
      <4>1. run' = [run EXCEPT ![k] = SweepOn([run[k] EXCEPT !.expired = e, !.left = e])]
        BY <2>1 DEF FindExpired
      <4>2. e \in SUBSET Docs
        OBVIOUS
      <4> HIDE DEF e
      <4> QED BY <4>1, <4>2
    <3>2. PICK x : x = [run[k] EXCEPT !.expired = e, !.left = e]
      OBVIOUS
    <3>3. x \in Run /\ x.found = run[k].found
      BY <3>2, ZenonT(60) DEF Run
    <3> QED BY <1>4, <3>1, <3>2, <3>3
  <2>2. CASE UnlinkExpired(k)
    <3>1. PICK d \in run[k].left :
            LET x == [run[k] EXCEPT !.left = @ \ {d}]
            IN  \/ run' = [run EXCEPT ![k] = [x EXCEPT !.sweep = "deleteRow", !.doc = d]]
                \/ run' = [run EXCEPT ![k] = SweepOn([x EXCEPT !.stuck = @ \cup {d}])]
      BY <2>2, UnlinkExpiredSteps
    <3> DEFINE x == [run[k] EXCEPT !.left = @ \ {d}]
               y == [x EXCEPT !.sweep = "deleteRow", !.doc = d]
               z == [x EXCEPT !.stuck = @ \cup {d}]
    <3>2. run[k] \in Run /\ d \in Docs
      BY DEF Run
    <3>3. x \in Run /\ x.found = run[k].found
      BY <3>2 DEF Run
    <3>4. run' = [run EXCEPT ![k] = y] \/ run' = [run EXCEPT ![k] = SweepOn(z)]
      BY <3>1
    <3> HIDE DEF x
    <3>5. y \in Run /\ y.found = x.found
      BY <3>2, <3>3, ZenonT(60) DEF Run, SweepSteps
    <3>6. z \in Run /\ z.found = x.found
      BY <3>2, <3>3 DEF Run
    <3> HIDE DEF y, z
    <3> QED BY <1>1, <1>4, <3>3, <3>4, <3>5, <3>6
  <2>3. CASE DeleteRow(k) \/ SweepFails(k)
    <3>1. PICK x : x = [run[k] EXCEPT !.sweep = "over", !.doc = None]
      OBVIOUS
    <3>2. x \in Run /\ x.found = run[k].found
      BY <3>1, ZenonT(60) DEF Run
    <3>3. run' = [run EXCEPT ![k] = SweepOn(run[k])] \/ Rejected(k, x)
      BY <2>3, <3>1 DEF DeleteRow, SweepFails
    <3> QED BY <1>3, <1>4, <3>2, <3>3
  <2> QED BY <1>5, <2>1, <2>2, <2>3 DEF SweepStep
<1>6. ASSUME NEW k \in Cleanups, PurgeStep(k)
      PROVE  FoundSame
  <2>1. PICK p : \/ run' = [run EXCEPT ![k] = Joined([run[k] EXCEPT !.purging = @ \ {p}])]
                 \/ Rejected(k, [run[k] EXCEPT !.purging = @ \ {p}])
    BY <1>6 DEF PurgeStep, Purge, PurgeFails
  <2>2. PICK x : x = [run[k] EXCEPT !.purging = @ \ {p}]
    OBVIOUS
  <2>3. x \in Run /\ x.found = run[k].found
    BY <2>2 DEF Run
  <2>4. Joined(x) \in Run /\ Joined(x).found = x.found
    BY <2>3, JoinedAlongside DEF Alongside
  <2> QED BY <1>1, <1>3, <2>1, <2>2, <2>3, <2>4
<1>7. ASSUME NEW k \in Cleanups,
             \/ ComputeCutoffs(k) \/ AuditRun(k) \/ MaintenanceRun(k) \/ FailCleanup(k)
             \/ \E confirm \in BOOLEAN : StartCleanup(k, confirm) \/ RefuseCleanup(k, confirm)
      PROVE  FoundSame
  BY <1>7 DEF ComputeCutoffs, AuditRun, MaintenanceRun, FailCleanup, StartCleanup,
    RefuseCleanup, FoundSame, Run
<1>8. CASE Crash
  <2> SUFFICES ASSUME NEW k \in Cleanups PROVE run'[k].found = run[k].found
    BY Zenon DEF FoundSame
  <2>1. run[k] \in Run
    OBVIOUS
  <2>2. run'[k] = [run[k] EXCEPT !.at = IF MainActive(k) THEN "failed" ELSE @,
                                 !.sweep = IF @ = "off" THEN @ ELSE "over",
                                 !.purging = {}]
    BY <1>8 DEF Crash
  <2> QED BY <2>1, <2>2 DEF Run
<1>9. CASE UNCHANGED <<lock, run>> \/ UNCHANGED vars
  BY <1>9 DEF vars, FoundSame
<1> QED BY <1>2, <1>5, <1>6, <1>7, <1>8, <1>9 DEF Next, CleanupStep, MainStep

\* Unless something of them changes, a document's life stands still.
LEMMA StandsStill ==
  ASSUME CasesStay, FoundSame, rows' = rows, files' = files
  PROVE  UNCHANGED Lifecycle!vars
<1>1. PresentCases' = PresentCases
  BY DEF CasesStay, PresentCases, Present
<1>2. ClaimedCases' = ClaimedCases
  BY DEF FoundSame, ClaimedCases
<1> QED BY <1>1, <1>2 DEF Lifecycle!vars, StateOf, FileOf, HomeOf

\* What the state of a document says of its row and file.
LEMMA Mapped ==
  ASSUME NEW d \in Docs
  PROVE  /\ StateOf[d] = "none" <=> rows[d] = None
         /\ StateOf[d] = "live" <=> Live(d)
         /\ StateOf[d] = "deleted" <=> Stored(d) /\ rows[d].deletedAt # Never
         /\ StateOf[d] = "gone" <=> RemovedRow(d)
         /\ FileOf[d] = "there" <=> d \in files
         /\ FileOf[d] = "none" <=> rows[d] = None /\ d \notin files
         /\ FileOf[d] = "gone" <=> rows[d] # None /\ d \notin files
         /\ HomeOf[d] = IF rows[d] = None THEN None ELSE rows[d].case
BY DEF StateOf, FileOf, HomeOf, Stored, Live, RemovedRow

LEMMA RowsHaveCases ==
  ASSUME Lifecycle!OrphansLostTheirCase PROVE RowsInCases
<1> SUFFICES ASSUME NEW d \in Docs, Stored(d) PROVE Present(rows[d].case)
  BY DEF RowsInCases
<1>1. Lifecycle!Filed(d) /\ HomeOf[d] = rows[d].case
  BY Mapped DEF Lifecycle!Filed, Stored, Live
<1>2. HomeOf[d] \in PresentCases
  BY <1>1 DEF Lifecycle!OrphansLostTheirCase
<1> QED BY <1>1, <1>2 DEF PresentCases

\* A row that is there stays in its case, and with it its document.
LEMMA HomesStay ==
  ASSUME files' = files,
         \A d \in Docs : /\ rows'[d] = None <=> rows[d] = None
                         /\ rows[d] # None => rows'[d].case = rows[d].case
  PROVE  HomeOf' = HomeOf /\ FileOf' = FileOf
<1>1. HomeOf' = HomeOf
  BY DEF HomeOf
<1>2. FileOf' = FileOf
  BY DEF FileOf
<1> QED BY <1>1, <1>2

LEMMA RequestLives ==
  ASSUME LifeInv, NEW r \in Requests, RequestStep(r), run' = run, CasesStay
  PROVE  [Lifecycle!Next]_(Lifecycle!vars)
<1> USE DEF LifeInv, DocInv, DueInv, IInv, TypeOK, DocTypeOK
<1>1. /\ FoundSame /\ PresentCases' = PresentCases /\ ClaimedCases' = ClaimedCases
      /\ r \in Docs /\ None \notin DocumentRow
  BY DocumentJobsAssumption
  DEF FoundSame, CasesStay, PresentCases, Present, ClaimedCases, Docs
<1>2. CASE WriteFile(r) \/ WriteFileFails(r)
  <2>1. rows' = rows /\ pc[r] = "writeFile" /\ files' \in {files, files \cup {r}}
    BY <1>2 DEF WriteFile, WriteFileFails, Transition
  <2>2. CASE files' = files
    BY <1>1, <2>1, <2>2, StandsStill
  <2>3. CASE files' = files \cup {r}
    <3>1. rows[r] = None /\ r \notin files
      BY <2>1 DEF RowsFresh, RowlessFilesExplained
    <3>2. FileOf[r] = "none" /\ StateOf[r] = "none"
      BY <1>1, <3>1, Mapped
    <3>3. StateOf' = StateOf /\ HomeOf' = HomeOf
      BY <2>1 DEF StateOf, HomeOf
    <3>4. FileOf' = [d \in Docs |-> IF d \in {r} THEN "there" ELSE FileOf[d]]
      BY <2>1, <2>3 DEF FileOf
    <3>5. Lifecycle!WriteFiles({r})
      BY <1>1, <3>2, <3>3, <3>4 DEF Lifecycle!WriteFiles
    <3> QED BY <1>1, <3>5 DEF Lifecycle!Next
  <2> QED BY <2>1, <2>2, <2>3
<1>3. CASE CreateRow(r)
  <2>1. job[r] \in UploadJob /\ pc[r] = "createRow" /\ rows[r] = None /\ r \in files
    BY <1>3 DEF CreateRow, Transition, JobMatchesStep, UploadSteps, RowsFresh, FilesKnow
  <2>2. files' = files
    BY <1>3 DEF CreateRow
  <2>3. CASE ~Present(job[r].case)
    BY <1>1, <1>3, <2>2, <2>3, StandsStill DEF CreateRow
  <2>4. CASE Present(job[r].case)
    <3>1. PICK c \in Cases : c = job[r].case
      BY <2>1 DEF UploadJob
    <3>2. PICK row \in DocumentRow : /\ rows' = [rows EXCEPT ![r] = row]
                                     /\ row.case = c /\ row.deletedAt = Never
                                     /\ ~row.removed
      <4>1. rows' = [rows EXCEPT ![r] = [case |-> c, sensitive |-> job[r].sensitive,
                                         deletedAt |-> Never, removed |-> FALSE]]
        BY <1>3, <2>4, <3>1 DEF CreateRow
      <4>2. [case |-> c, sensitive |-> job[r].sensitive,
             deletedAt |-> Never, removed |-> FALSE] \in DocumentRow
        BY <2>1 DEF UploadJob, DocumentRow, MaybeDay
      <4> QED BY <4>1, <4>2
    <3>3. StateOf' = [StateOf EXCEPT ![r] = "live"]
      BY <1>1, <3>2 DEF StateOf
    <3>4. HomeOf' = [HomeOf EXCEPT ![r] = c]
      BY <1>1, <3>2 DEF HomeOf
    <3>5. FileOf' = FileOf
      BY <1>1, <2>1, <2>2, <3>2 DEF FileOf
    <3>6. StateOf[r] = "none" /\ FileOf[r] = "there"
      BY <1>1, <2>1, Mapped
    <3>7. Lifecycle!CreateRow(r, c)
      BY <1>1, <2>4, <3>1, <3>3, <3>4, <3>5, <3>6
      DEF Lifecycle!CreateRow, PresentCases
    <3> QED BY <1>1, <3>7 DEF Lifecycle!Next
  <2> QED BY <2>3, <2>4
<1>4. CASE SetDeletedAt(r)
  <2>1. files' = files /\ job[r].doc \in Docs
    BY <1>4 DEF SetDeletedAt, Transition, JobMatchesStep, DeleteSteps, DocumentJob
  <2>2. PICK d \in Docs : d = job[r].doc
    BY <2>1
  <2>3. CASE ~Stored(d)
    BY <1>1, <1>4, <2>1, <2>2, <2>3, StandsStill DEF SetDeletedAt
  <2>4. CASE Stored(d)
    <3>1. rows' = [rows EXCEPT ![d].deletedAt = now]
      BY <1>4, <2>2, <2>4 DEF SetDeletedAt
    <3>2. rows[d] \in DocumentRow /\ now # Never
      BY <2>4, StartAssumption DEF Stored
    <3>3. /\ rows'[d].deletedAt = now /\ rows'[d].removed = rows[d].removed
          /\ rows'[d].case = rows[d].case /\ rows'[d] \in DocumentRow
          /\ \A e \in Docs : e # d => rows'[e] = rows[e]
      BY <3>1, <3>2 DEF DocumentRow, MaybeDay
    <3>4. rows'[d] # None /\ rows[d] # None /\ ~rows[d].removed
      BY <1>1, <2>4, <3>3 DEF Stored
    <3>5. HomeOf' = HomeOf /\ FileOf' = FileOf
      BY <2>1, <3>3, <3>4 DEF HomeOf, FileOf
    <3>6. StateOf' = [StateOf EXCEPT ![d] = "deleted"]
      BY <3>2, <3>3, <3>4 DEF StateOf
    <3>7. CASE StateOf[d] = "live"
      <4>1. Lifecycle!SoftDelete(d)
        BY <1>1, <3>5, <3>6, <3>7 DEF Lifecycle!SoftDelete
      <4> QED BY <4>1 DEF Lifecycle!Next
    <3>8. CASE StateOf[d] # "live"
      <4>1. StateOf[d] = "deleted"
        BY <2>4, <3>8, Mapped DEF Live
      <4>2. StateOf' = StateOf
        BY <3>6, <4>1 DEF StateOf
      <4> QED BY <1>1, <3>5, <4>2 DEF Lifecycle!vars
    <3> QED BY <3>7, <3>8
  <2> QED BY <2>3, <2>4
<1>5. CASE ~(WriteFile(r) \/ WriteFileFails(r) \/ CreateRow(r) \/ SetDeletedAt(r))
  <2>1. rows' = rows /\ files' = files
    BY <1>5
    DEF RequestStep, UploadStep, AuditUpload, DeleteStep, FindToDelete, AuditDelete,
        DownloadStep, FindToDownload, AccessFile, AuditDownload, OpenStream,
        ListStep, FindAll, AuditList, Fail
  <2> QED BY <1>1, <2>1, StandsStill
<1> QED BY <1>2, <1>3, <1>4, <1>5

LEMMA CaseLoopLives ==
  ASSUME LifeInv, NEW k \in Cleanups, CaseLoopStep(k), [Next]_vars
  PROVE  [Lifecycle!Next]_(Lifecycle!vars)
<1> USE DEF LifeInv, DocInv, DueInv, IInv, TypeOK, DocTypeOK
<1>1. run[k] \in Run /\ Knows(run[k], files)
  BY DEF RunsKnow
<1>2. CASE FindCases(k)
  <2>1. PICK found \in SUBSET Cases :
          /\ \A c \in found : Present(c)
          /\ \E x \in Run : /\ x.found = found
                            /\ \E y \in NextCase(x) : run' = [run EXCEPT ![k] = y]
    <3> DEFINE found == {c \in Cases : /\ Present(c) /\ TenantOf[c] = TenantFor(k)
                                       /\ CaseExpired(c, run[k].asOf)}
               docs == {d \in Docs : Stored(d) /\ rows[d].case \in found}
               x == [run[k] EXCEPT !.found = found, !.docs = docs, !.todo = found]
    <3>1. \E y \in NextCase(x) : run' = [run EXCEPT ![k] = y]
      BY <1>2 DEF FindCases
    <3>2. x \in Run /\ x.found = found
      BY <1>1 DEF Run
    <3>3. found \in SUBSET Cases /\ \A c \in found : Present(c)
      OBVIOUS
    <3> HIDE DEF found, x
    <3> QED BY <3>1, <3>2, <3>3
  <2>2. PICK y \in Run : run' = [run EXCEPT ![k] = y] /\ y.found = found
    BY <2>1, NextCaseGoesOn DEF GoesOn
  <2>3. run[k].found = {}
    BY <1>1, <1>2 DEF FindCases, Knows, LoopKnows, BeforeLoop
  <2>4. \A l \in Cleanups : run'[l].found = IF l = k THEN found ELSE run[l].found
    BY <2>2
  <2>5. ClaimedCases' = ClaimedCases \cup found
    BY <2>3, <2>4 DEF ClaimedCases
  <2>6. rows' = rows /\ files' = files /\ cases' = cases
    BY <1>2 DEF FindCases, docVars
  <2>7. Lifecycle!Claim(found)
    BY <2>1, <2>5, <2>6
    DEF Lifecycle!Claim, PresentCases, Present, StateOf, FileOf, HomeOf
  <2> QED BY <2>7 DEF Lifecycle!Next
<1>3. CASE UnlinkFile(k)
  <2>1. PICK d \in run[k].left : files' \in {files, files \ {d}}
    BY <1>3 DEF UnlinkFile
  <2>2. run[k].at = "unlinkFile" /\ rows' = rows /\ cases' = cases
    BY <1>3 DEF UnlinkFile
  <2>3. /\ CasesStay /\ FoundSame
        /\ PresentCases' = PresentCases /\ ClaimedCases' = ClaimedCases
    <3>1. CasesStay /\ FoundSame
      BY <1>3, <2>2, LoopKeepsFound DEF CasesStay
    <3> QED BY <3>1 DEF CasesStay, FoundSame, PresentCases, Present, ClaimedCases
  <2>4. CASE files' = files
    BY <2>2, <2>3, <2>4, StandsStill
  <2>5. CASE files' = files \ {d} /\ d \in files
    <3>1. d \in Docs /\ rows[d] # None /\ rows[d].case \in run[k].found
      BY <1>1, <2>2 DEF Run, Knows, LoopKnows, DocsFound
    <3>2. FileOf[d] = "there" /\ HomeOf[d] \in ClaimedCases
      BY <2>5, <3>1, Mapped DEF ClaimedCases
    <3>3. FileOf' = [FileOf EXCEPT ![d] = "gone"]
      BY <2>2, <2>5, <3>1 DEF FileOf
    <3>4. Lifecycle!RemoveFile(d)
      BY <2>2, <2>3, <3>2, <3>3 DEF Lifecycle!RemoveFile, StateOf, HomeOf
    <3> QED BY <3>1, <3>4 DEF Lifecycle!Next
  <2> QED BY <2>1, <2>4, <2>5
<1>4. CASE DeleteCase(k)
  <2>1. run[k].at = "deleteCase" /\ files' = files
    BY <1>4 DEF DeleteCase
  <2>2. PICK c \in Cases : c = run[k].case /\ c \in run[k].found
    BY <1>1, <2>1 DEF Run, Knows, LoopKnows, InLoop
  <2>3. /\ cases' = [cases EXCEPT ![c].removed = TRUE]
        /\ rows' = [d \in Docs |-> IF Stored(d) /\ rows[d].case = c
                                   THEN [rows[d] EXCEPT !.removed = TRUE]
                                   ELSE rows[d]]
    BY <1>4, <2>2 DEF DeleteCase
  <2>4. FoundSame
    BY <1>4, LoopKeepsFound
  <2>5. ClaimedCases' = ClaimedCases /\ c \in ClaimedCases
    BY <2>2, <2>4 DEF FoundSame, ClaimedCases
  <2>6. \A e \in Cases : cases'[e].removed = IF e = c THEN TRUE ELSE cases[e].removed
    BY <2>3 DEF CaseRow
  <2>7. CASE ~Present(c)
    <3>1. rows' = rows
      <4>1. \A d \in Docs : ~(Stored(d) /\ rows[d].case = c)
        BY <2>7, RowsHaveCases DEF RowsInCases
      <4>2. rows' = [d \in Docs |-> rows[d]]
        BY <2>3, <4>1
      <4> QED BY <4>2
    <3>2. CasesStay
      BY <2>6, <2>7 DEF CasesStay, Present, CaseRow
    <3> QED BY <2>1, <2>4, <3>1, <3>2, StandsStill
  <2>8. CASE Present(c)
    <3>1. PresentCases' = PresentCases \ {c} /\ c \in PresentCases
      BY <2>6, <2>8 DEF PresentCases, Present
    <3>2. ASSUME NEW d \in Docs
          PROVE  /\ rows'[d] = None <=> rows[d] = None
                 /\ rows[d] # None => /\ rows'[d].case = rows[d].case
                                      /\ rows'[d].deletedAt = rows[d].deletedAt
                                      /\ rows'[d].removed <=>
                                           rows[d].removed \/ rows[d].case = c
      <4>1. CASE Stored(d) /\ rows[d].case = c
        <5>1. rows'[d] = [rows[d] EXCEPT !.removed = TRUE] /\ rows[d] \in DocumentRow
          BY <2>3, <4>1 DEF Stored
        <5>2. rows'[d] \in DocumentRow
          BY <5>1 DEF DocumentRow
        <5> QED BY <4>1, <5>1, <5>2, DocumentJobsAssumption DEF DocumentRow, Stored
      <4>2. CASE ~(Stored(d) /\ rows[d].case = c)
        BY <2>3, <4>2 DEF Stored
      <4> QED BY <4>1, <4>2
    <3>3. StateOf' = [d \in Docs |-> IF Lifecycle!Filed(d) /\ HomeOf[d] = c
                                     THEN "gone" ELSE StateOf[d]]
      BY <3>2 DEF StateOf, HomeOf, Lifecycle!Filed
    <3>4. HomeOf' = HomeOf /\ FileOf' = FileOf
      BY <2>1, <3>2, HomesStay
    <3>5. Lifecycle!RemoveCase(c)
      BY <2>5, <3>1, <3>3, <3>4 DEF Lifecycle!RemoveCase
    <3> QED BY <3>5 DEF Lifecycle!Next
  <2> QED BY <2>7, <2>8
<1> QED BY <1>2, <1>3, <1>4 DEF CaseLoopStep

LEMMA SweepLives ==
  ASSUME LifeInv, NEW k \in Cleanups, SweepStep(k), CasesStay, FoundSame
  PROVE  [Lifecycle!Next]_(Lifecycle!vars)
<1> USE DEF LifeInv, DocInv, DueInv, IInv, TypeOK, DocTypeOK
<1>1. /\ run[k] \in Run /\ Knows(run[k], files)
      /\ PresentCases' = PresentCases /\ ClaimedCases' = ClaimedCases
  BY DEF RunsKnow, CasesStay, FoundSame, PresentCases, Present, ClaimedCases
<1>2. CASE UnlinkExpired(k)
  <2>1. PICK d \in run[k].left : files' \in {files, files \ {d}}
    BY <1>2 DEF UnlinkExpired
  <2>2. run[k].sweep = "unlinkExpired" /\ rows' = rows
    BY <1>2 DEF UnlinkExpired
  <2>3. CASE files' = files
    BY <2>2, <2>3, StandsStill
  <2>4. CASE files' = files \ {d} /\ d \in files
    <3>1. d \in Docs /\ rows[d] # None /\ rows[d].deletedAt # Never
      BY <1>1, <2>2 DEF Run, Knows, SweepKnows
    <3>2. FileOf[d] = "there" /\ StateOf[d] \in {"deleted", "gone"}
      BY <2>4, <3>1, Mapped DEF Stored, RemovedRow
    <3>3. FileOf' = [FileOf EXCEPT ![d] = "gone"]
      BY <2>2, <2>4, <3>1 DEF FileOf
    <3>4. Lifecycle!RemoveFile(d)
      BY <1>1, <2>2, <3>2, <3>3 DEF Lifecycle!RemoveFile, StateOf, HomeOf
    <3> QED BY <3>1, <3>4 DEF Lifecycle!Next
  <2> QED BY <2>1, <2>3, <2>4
<1>3. CASE DeleteRow(k) /\ Stored(run[k].doc)
  <2>1. /\ run[k].sweep = "deleteRow" /\ files' = files
        /\ rows' = [rows EXCEPT ![run[k].doc].removed = TRUE]
    BY <1>3 DEF DeleteRow
  <2>2. PICK d \in Docs : /\ d = run[k].doc /\ d \notin files
                          /\ rows[d].deletedAt # Never
    BY <1>1, <2>1 DEF Run, Knows, SweepKnows
  <2>3. Stored(d) /\ rows[d] # None /\ rows[d] \in DocumentRow
    BY <1>3, <2>2 DEF Stored
  <2>4. /\ rows'[d] = [rows[d] EXCEPT !.removed = TRUE]
        /\ \A e \in Docs : e # d => rows'[e] = rows[e]
    BY <2>1, <2>2
  <2>5. rows'[d] \in DocumentRow /\ rows'[d].removed /\ rows'[d].case = rows[d].case
    BY <2>3, <2>4 DEF DocumentRow
  <2>6. rows'[d] # None
    BY <2>5, DocumentJobsAssumption
  <2>7. HomeOf' = HomeOf /\ FileOf' = FileOf
    <3>1. \A e \in Docs : /\ rows'[e] = None <=> rows[e] = None
                          /\ rows[e] # None => rows'[e].case = rows[e].case
      BY <2>3, <2>4, <2>5, <2>6
    <3> QED BY <2>1, <3>1, HomesStay
  <2>8. StateOf' = [StateOf EXCEPT ![d] = "gone"]
    BY <2>4, <2>5, <2>6 DEF StateOf
  <2>9. StateOf[d] = "deleted" /\ FileOf[d] = "gone"
    BY <2>2, <2>3, Mapped
  <2>10. Lifecycle!RemoveRow(d)
    BY <1>1, <2>7, <2>8, <2>9 DEF Lifecycle!RemoveRow
  <2> QED BY <2>10 DEF Lifecycle!Next
<1>4. CASE ~UnlinkExpired(k) /\ ~(DeleteRow(k) /\ Stored(run[k].doc))
  <2>1. rows' = rows /\ files' = files
    BY <1>4 DEF SweepStep, FindExpired, DeleteRow, SweepFails, docVars
  <2> QED BY <2>1, StandsStill
<1> QED BY <1>2, <1>3, <1>4

LEMMA CrashLives ==
  ASSUME LifeInv, Crash, CasesStay, FoundSame
  PROVE  [Lifecycle!Next]_(Lifecycle!vars)
<1> USE DEF LifeInv, DocInv, DueInv, IInv, TypeOK, DocTypeOK
<1>1. PICK partial \in SUBSET {r \in Requests : pc[r] = "writeFile"} :
        files' = files \cup partial
  BY DEF Crash, RequestsDie
<1>2. rows' = rows /\ partial \subseteq Docs
  BY <1>1 DEF Crash, RequestsDie, Docs
<1>3. \A r \in partial : rows[r] = None /\ r \notin files
  BY <1>1 DEF RowsFresh, RowlessFilesExplained
<1>4. \A r \in partial : FileOf[r] = "none" /\ StateOf[r] = "none"
  BY <1>2, <1>3, Mapped
<1>5. FileOf' = [d \in Docs |-> IF d \in partial THEN "there" ELSE FileOf[d]]
  BY <1>1, <1>2 DEF FileOf
<1>6. /\ StateOf' = StateOf /\ HomeOf' = HomeOf
      /\ PresentCases' = PresentCases /\ ClaimedCases' = ClaimedCases
  BY <1>2 DEF CasesStay, FoundSame, PresentCases, Present, ClaimedCases, StateOf,
    HomeOf
<1>7. Lifecycle!WriteFiles(partial)
  BY <1>4, <1>5, <1>6 DEF Lifecycle!WriteFiles
<1> QED BY <1>2, <1>7 DEF Lifecycle!Next

LEMMA StepLives ==
  ASSUME LifeInv, [Next]_vars
  PROVE  [Lifecycle!Next]_(Lifecycle!vars)
<1>1. TypeOK
  BY DEF LifeInv, DocInv, DueInv, IInv
<1>2. CASE \E k \in Cleanups : CaseLoopStep(k)
  BY <1>2, CaseLoopLives
<1>3. CASE ~\E k \in Cleanups : CaseLoopStep(k)
  <2>1. CasesStay /\ FoundSame
    BY <1>1, <1>3, StepKeepsCases, StepKeepsFound DEF CaseLoopStep
  <2>2. ASSUME NEW r \in Requests, RequestStep(r), run' = run
        PROVE  [Lifecycle!Next]_(Lifecycle!vars)
    BY <2>1, <2>2, RequestLives
  <2>3. ASSUME NEW k \in Cleanups, SweepStep(k)
        PROVE  [Lifecycle!Next]_(Lifecycle!vars)
    BY <2>1, <2>3, SweepLives
  <2>4. CASE Crash
    BY <2>1, <2>4, CrashLives
  <2>5. CASE UNCHANGED <<rows, files>>
    BY <2>1, <2>5, StandsStill
  <2>6. ASSUME NEW k \in Cleanups, CleanupStep(k), ~SweepStep(k)
        PROVE  UNCHANGED <<rows, files>>
    BY <1>3, <2>6
    DEF CleanupStep, MainStep, PurgeStep, ComputeCutoffs, AuditRun, MaintenanceRun,
        FailCleanup, Purge, PurgeFails, docVars
  <2>7. ASSUME NEW k \in Cleanups, NEW confirm \in BOOLEAN,
               StartCleanup(k, confirm) \/ RefuseCleanup(k, confirm)
        PROVE  UNCHANGED <<rows, files>>
    BY <2>7 DEF StartCleanup, RefuseCleanup, docVars
  <2>8. ASSUME NEW r \in Requests, \E j \in Jobs : Admit(r, j) \/ Refuse(r, j)
        PROVE  UNCHANGED <<rows, files>>
    BY <2>8 DEF Admit, Refuse
  <2>9. CASE EnvironmentStep \/ UNCHANGED vars
    <3>1. UNCHANGED <<rows, files>>
      BY <2>9 DEF EnvironmentStep, Tick, StatusUpdated, CaseReviewed, vars, docVars
    <3> QED BY <2>5, <3>1
  <2> QED BY <2>2, <2>3, <2>4, <2>5, <2>6, <2>7, <2>8, <2>9 DEF Next, DocNext
<1> QED BY <1>2, <1>3

LEMMA InitLives == Init => Lifecycle!Init
<1> SUFFICES ASSUME Init PROVE Lifecycle!Init
  OBVIOUS
<1>1. \A c \in Cases : Present(c)
  BY StartAssumption DEF Init, DocInit, Present
<1>2. \A d \in Docs : rows[d] = IF d \in Seeds THEN StartRows[d] ELSE None
  BY DEF Init, DocInit
<1>3. \A s \in Seeds : /\ StartRows[s] \in DocumentRow /\ StartRows[s] # None
                       /\ ~StartRows[s].removed
  BY StartAssumption, DocumentJobsAssumption
<1>4. None \notin Cases
  BY RetentionAssumption
<1>5. PresentCases = Cases
  BY <1>1 DEF PresentCases
<1>6. ClaimedCases = {}
  BY DEF Init, Idle, ClaimedCases
<1>7. \A d \in Docs : /\ d \in Seeds => rows[d] \in DocumentRow /\ rows[d] # None
                                        /\ ~rows[d].removed /\ rows[d].case \in Cases
                      /\ d \notin Seeds => rows[d] = None
  BY <1>2, <1>3 DEF DocumentRow
<1>8. HomeOf \in [Docs -> Cases \cup {None}]
  BY <1>7 DEF HomeOf
<1>9. StateOf \in [Docs -> {"none", "live", "deleted"}]
  BY <1>7 DEF StateOf
<1>10. FileOf = [d \in Docs |-> IF StateOf[d] = "none" THEN "none" ELSE "there"]
  BY <1>7 DEF Init, DocInit, FileOf, StateOf
<1>11. \A d \in Docs : HomeOf[d] = None <=> StateOf[d] = "none"
  BY <1>4, <1>7 DEF HomeOf, StateOf
<1> QED BY <1>5, <1>6, <1>8, <1>9, <1>10, <1>11 DEF Lifecycle!Init

\* What holds of every life of documents.
LEMMA OrphansStay ==
  ASSUME Lifecycle!OrphansLostTheirCase, [Lifecycle!Next]_(Lifecycle!vars)
  PROVE  Lifecycle!OrphansLostTheirCase'
<1>1. PICK p, h, s, f, q, i, t, g :
        /\ p = PresentCases /\ q = PresentCases' /\ h = HomeOf /\ i = HomeOf'
        /\ s = StateOf /\ t = StateOf' /\ f = FileOf /\ g = FileOf'
  OBVIOUS
<1>2. DOMAIN s = Docs /\ DOMAIN h = Docs /\ DOMAIN f = Docs
  BY <1>1 DEF StateOf, HomeOf, FileOf
<1>3. \A d \in Docs : /\ s[d] = "gone" /\ f[d] = "there" => h[d] \in Cases \ p
                      /\ s[d] \in {"live", "deleted"} => h[d] \in p
  BY <1>1 DEF Lifecycle!OrphansLostTheirCase, Lifecycle!Filed
<1> SUFFICES \A d \in Docs : /\ t[d] = "gone" /\ g[d] = "there" => i[d] \in Cases \ q
                             /\ t[d] \in {"live", "deleted"} => i[d] \in q
  BY <1>1 DEF Lifecycle!OrphansLostTheirCase, Lifecycle!Filed
<1>4. \A d \in Docs : s[d] \in {"none", "live", "deleted", "gone"}
  BY <1>1 DEF StateOf
<1>5. ASSUME NEW S \in SUBSET Docs, Lifecycle!WriteFiles(S)
      PROVE  /\ q = p /\ i = h /\ t = s
             /\ \A d \in Docs : g[d] # f[d] => s[d] = "none"
  BY <1>1, <1>5 DEF Lifecycle!WriteFiles
<1>6. ASSUME NEW e \in Docs, NEW c \in Cases, Lifecycle!CreateRow(e, c)
      PROVE  /\ q = p /\ g = f /\ c \in p
             /\ t = [s EXCEPT ![e] = "live"] /\ i = [h EXCEPT ![e] = c]
  BY <1>1, <1>6 DEF Lifecycle!CreateRow
<1>7. ASSUME NEW e \in Docs, Lifecycle!SoftDelete(e)
      PROVE  /\ q = p /\ g = f /\ i = h
             /\ s[e] = "live" /\ t = [s EXCEPT ![e] = "deleted"]
  BY <1>1, <1>7 DEF Lifecycle!SoftDelete
<1>8. ASSUME NEW e \in Docs, Lifecycle!RemoveFile(e)
      PROVE  q = p /\ i = h /\ t = s /\ g = [f EXCEPT ![e] = "gone"]
  BY <1>1, <1>8 DEF Lifecycle!RemoveFile
<1>9. ASSUME NEW e \in Docs, Lifecycle!RemoveRow(e)
      PROVE  /\ q = p /\ i = h /\ g = f
             /\ f[e] = "gone" /\ t = [s EXCEPT ![e] = "gone"]
  BY <1>1, <1>9 DEF Lifecycle!RemoveRow
<1>10. ASSUME NEW c \in Cases, Lifecycle!RemoveCase(c)
       PROVE  /\ q = p \ {c} /\ i = h /\ g = f
              /\ t = [d \in Docs |-> IF s[d] \in {"live", "deleted"} /\ h[d] = c
                                     THEN "gone" ELSE s[d]]
  BY <1>1, <1>10 DEF Lifecycle!RemoveCase, Lifecycle!Filed
<1>11. CASE (\E S \in SUBSET Cases : Lifecycle!Claim(S)) \/ UNCHANGED Lifecycle!vars
  <2>1. q = p /\ i = h /\ g = f /\ t = s
    BY <1>1, <1>11 DEF Lifecycle!Claim, Lifecycle!vars
  <2> QED BY <1>3, <2>1
<1>12. CASE \E S \in SUBSET Docs : Lifecycle!WriteFiles(S)
  BY <1>3, <1>5, <1>12
<1>13. CASE \E c \in Cases : Lifecycle!RemoveCase(c)
  <2>1. PICK c \in Cases : /\ q = p \ {c} /\ i = h /\ g = f
                           /\ \A d \in Docs :
                                t[d] = IF s[d] \in {"live", "deleted"} /\ h[d] = c
                                       THEN "gone" ELSE s[d]
    BY <1>10, <1>13
  <2> QED BY <1>3, <1>4, <2>1
<1>14. CASE \E e \in Docs : \/ Lifecycle!SoftDelete(e) \/ Lifecycle!RemoveFile(e)
                            \/ Lifecycle!RemoveRow(e)
                            \/ \E c \in Cases : Lifecycle!CreateRow(e, c)
  <2>1. PICK e \in Docs : \/ Lifecycle!SoftDelete(e) \/ Lifecycle!RemoveFile(e)
                          \/ Lifecycle!RemoveRow(e)
                          \/ \E c \in Cases : Lifecycle!CreateRow(e, c)
    BY <1>14
  <2>2. CASE Lifecycle!SoftDelete(e)
    BY <1>2, <1>3, <1>7, <2>2
  <2>3. CASE Lifecycle!RemoveFile(e)
    BY <1>2, <1>3, <1>8, <2>3
  <2>4. CASE Lifecycle!RemoveRow(e)
    BY <1>2, <1>3, <1>9, <2>4
  <2>5. CASE \E c \in Cases : Lifecycle!CreateRow(e, c)
    BY <1>2, <1>3, <1>6, <2>5
  <2> QED BY <2>1, <2>2, <2>3, <2>4, <2>5
<1> QED BY <1>11, <1>12, <1>13, <1>14 DEF Lifecycle!Next

LEMMA InitLifeInv == Init => LifeInv
<1> SUFFICES ASSUME Init PROVE LifeInv
  OBVIOUS
<1>1. Lifecycle!Init
  BY InitLives
<1>2. Lifecycle!OrphansLostTheirCase
  BY <1>1 DEF Lifecycle!Init, Lifecycle!OrphansLostTheirCase, Lifecycle!Filed
<1> QED BY <1>2, InitDocInv DEF LifeInv

LEMMA NextLifeInv == LifeInv /\ [Next]_vars => LifeInv'
BY NextDocInv, StepLives, OrphansStay DEF LifeInv

\* uploadForCase, softDeleteForCase and executeRetentionCleanup: whatever requests
\* and cleanups, interleaved or cut off, do to rows and files is the life of a
\* document.
THEOREM DocumentsImplementLifecycle == Spec => ImplementsLifecycle
<1>1. Init => Lifecycle!Init
  BY InitLives
<1>2. LifeInv /\ [Next]_vars => [Lifecycle!Next]_(Lifecycle!vars)
  BY StepLives
<1> QED BY <1>1, <1>2, InitLifeInv, NextLifeInv, PTL
        DEF Spec, ImplementsLifecycle, Lifecycle!Spec

\* executeRetentionCleanup: what the life of documents promises, the system keeps:
\* a document row is never without its case, and a file whose row is gone
\* belonged to a case that is gone as well.
THEOREM OrphansSound == Spec => []OrphansLostTheirCase
<1>1. LifeInv => OrphansLostTheirCase
  BY DEF LifeInv, OrphansLostTheirCase
<1> QED BY <1>1, InitLifeInv, NextLifeInv, PTL DEF Spec

\* Every audit event of a document has its fact.
LEMMA EventsAreFacts == DocInv => DocumentAuditReportsFacts
<1>1. ASSUME DocInv, NEW r \in Requests
      PROVE  /\ <<r, "document.uploaded">> \in audit => rows[r] # None
             /\ <<r, "document.soft_deleted">> \in audit =>
                  rows[job[r].doc].deletedAt # Never
             /\ <<r, "document.downloaded">> \in audit =>
                  seen[r].live /\ (r \in served \/ pc[r] \in {"openStream", "failed"})
  <2>1. AuditKnows /\ ReadingsKnow
    BY <1>1 DEF DocInv
  <2>2. ASSUME <<r, "document.uploaded">> \in audit PROVE rows[r] # None
    BY <2>1, <2>2 DEF AuditKnows
  <2>3. ASSUME <<r, "document.soft_deleted">> \in audit
        PROVE  rows[job[r].doc].deletedAt # Never
    BY <2>1, <2>3 DEF AuditKnows, Marked
  <2>4. ReadingKnows(pc[r], job[r], seen[r], Downloaded(r), r \in served)
    BY <1>1, <2>1 DEF ReadingsKnow
  <2> QED BY <2>2, <2>3, <2>4 DEF ReadingKnows, Downloaded
<1>2. ASSUME DocInv, NEW k \in Cleanups, run[k].reported
      PROVE  ~SideActive(k)
  BY <1>2 DEF DocInv, RunsKnow, Knows, EndsInOrder, SideActive
<1> QED BY <1>1, <1>2 DEF DocumentAuditReportsFacts

\* uploadForCase, softDeleteForCase and executeRetentionCleanup: a file without a
\* row, a row without its file, and every audit event have their explanation in
\* the order of the writes, a cleanup is reported after it has settled, and only
\* with its case a document leaves its file behind.
THEOREM DocumentRecordsSound == Spec => []DocumentRecordsAgree
<1>1. LifeInv => DocumentRecordsAgree
  BY EventsAreFacts
  DEF LifeInv, DocInv, DueInv, IInv, DocumentRecordsAgree, OrphansLostTheirCase
<1> QED BY <1>1, InitLifeInv, NextLifeInv, PTL DEF Spec

-----------------------------------------------------------------------------
(* The end of a cleanup: each step leaves less to do.                      *)

\* There are finitely many cases and documents.
FiniteTables == IsFiniteSet(Cases) /\ IsFiniteSet(Docs)

LEMMA Sizes ==
  ASSUME NEW T, IsFiniteSet(T)
  PROVE  /\ Cardinality(T) \in Nat
         /\ \A S \in SUBSET T : /\ Cardinality(S) \in Nat
                                /\ Cardinality(S) <= Cardinality(T)
                                /\ S = {} <=> Cardinality(S) = 0
                                /\ \A e \in S : Cardinality(S \ {e}) = Cardinality(S) - 1
<1>1. Cardinality(T) \in Nat
  BY FS_CardinalityType
<1>2. ASSUME NEW S \in SUBSET T
      PROVE  /\ Cardinality(S) \in Nat
             /\ Cardinality(S) <= Cardinality(T)
             /\ S = {} <=> Cardinality(S) = 0
             /\ \A e \in S : Cardinality(S \ {e}) = Cardinality(S) - 1
  BY FS_Subset, FS_CardinalityType, FS_EmptySet, FS_RemoveElement
<1> QED BY <1>1, <1>2

LEMMA PurgeSizes ==
  /\ IsFiniteSet(Purges)
  /\ Cardinality(Purges) = 2
<1>1. IsFiniteSet({"auditEvents"}) /\ Cardinality({"auditEvents"}) = 1
  BY FS_Singleton
<1>2. /\ Purges = {"auditEvents"} \cup {"analyticsSnapshots"}
      /\ "analyticsSnapshots" \notin {"auditEvents"}
  BY DEF Purges
<1> QED BY <1>1, <1>2, FS_AddElement

\* One case less is the work of one case less.
LEMMA PerCase ==
  ASSUME NEW p \in Nat, NEW m \in Nat, NEW n \in Nat
  PROVE  /\ m * p \in Nat
         /\ m <= n => m * p <= n * p
         /\ n # 0 => (n - 1) * p + p = n * p
<1>1. m * p \in Nat
  OBVIOUS
<1>2. (n - 1) * p + p = n * p
  OBVIOUS
<1>3. ASSUME m <= n PROVE m * p <= n * p
  <2>1. PICK e \in Nat : n = m + e
    BY <1>3
  <2>2. n * p = m * p + e * p /\ e * p \in Nat
    BY <2>1
  <2> QED BY <1>1, <2>2
<1> QED BY <1>1, <1>2, <1>3

\* The parts of Work are numbers.
LEMMA WorkCounts ==
  ASSUME FiniteTables, NEW x \in Run
  PROVE  /\ MainWork(x) \in Nat /\ SweepWork(x) \in Nat
         /\ Cardinality(x.purging) \in Nat
         /\ Cardinality(x.left) \in Nat /\ Cardinality(x.left) <= Cardinality(Docs)
         /\ Cardinality(x.todo) \in Nat /\ Cardinality(x.todo) <= Cardinality(Cases)
         /\ FilesPerCase = Cardinality(Docs) + 1 /\ FilesPerCase \in Nat
         /\ Cardinality(Docs) \in Nat /\ Cardinality(Cases) \in Nat
<1>1. x.purging \in SUBSET Purges /\ x.left \in SUBSET Docs /\ x.todo \in SUBSET Cases
  BY DEF Run
<1>2. /\ Cardinality(x.purging) \in Nat
      /\ Cardinality(x.left) \in Nat /\ Cardinality(x.left) <= Cardinality(Docs)
      /\ Cardinality(x.todo) \in Nat /\ Cardinality(x.todo) <= Cardinality(Cases)
      /\ FilesPerCase = Cardinality(Docs) + 1 /\ FilesPerCase \in Nat
      /\ Cardinality(Docs) \in Nat /\ Cardinality(Cases) \in Nat
  BY <1>1, Sizes, PurgeSizes DEF FiniteTables, FilesPerCase
<1>3. Cardinality(x.todo) * FilesPerCase \in Nat /\ Cardinality(Cases) * FilesPerCase \in Nat
  BY <1>2, PerCase
<1>4. x.at \in {"idle"} \cup MainSteps \cup Settled /\ x.sweep \in {"off", "over"} \cup SweepSteps
  BY DEF Run
<1>5. MainWork(x) \in Nat
  BY <1>2, <1>3, <1>4 DEF MainWork, MainSteps, Settled
<1>6. SweepWork(x) \in Nat
  BY <1>2, <1>4 DEF SweepWork, SweepSteps
<1> QED BY <1>2, <1>5, <1>6

\* Between two cases the work of the cases left is more than what comes next.
LEMMA NextCaseWork ==
  ASSUME FiniteTables, NEW x \in Run, x.sweep = "off", x.purging = {},
         NEW y \in NextCase(x)
  PROVE  Work(y) < 6 + Cardinality(x.todo) * FilesPerCase
                     + 2 * Cardinality(Docs) + 3
<1>1. y \in Run
  BY NextCaseGoesOn DEF GoesOn
<1>2. PICK D \in Nat, t \in Nat, p \in Nat :
        /\ D = Cardinality(Docs) /\ t = Cardinality(x.todo) /\ p = FilesPerCase
        /\ p = D + 1 /\ t * p \in Nat
  BY WorkCounts, PerCase
<1>3. CASE x.todo = {}
  <2>1. y.at = "all" /\ y.sweep = "findExpired" /\ y.purging = Purges
    <3>1. y = [x EXCEPT !.at = "all", !.case = None, !.sweep = "findExpired",
                        !.purging = Purges]
      BY <1>3 DEF NextCase
    <3> QED BY <3>1 DEF Run
  <2>2. MainWork(y) = 3 /\ SweepWork(y) = 2 * D + 2 /\ Cardinality(y.purging) = 2
    BY <1>2, <2>1, PurgeSizes DEF MainWork, SweepWork, Settled
  <2> QED BY <1>2, <2>2 DEF Work
<1>4. CASE x.todo # {}
  <2>1. PICK c \in x.todo :
          /\ y.at \in {"deleteCase", "unlinkFile"} /\ y.todo = x.todo \ {c}
          /\ y.sweep = "off" /\ y.purging = {}
    <3>1. PICK c \in x.todo :
            y = [x EXCEPT !.at = IF DocsFound(x, c) = {} THEN "deleteCase"
                                                         ELSE "unlinkFile",
                          !.case = c, !.todo = @ \ {c}, !.left = DocsFound(x, c)]
      BY <1>4 DEF NextCase
    <3> QED BY <3>1 DEF Run
  <2>2. x.todo \in SUBSET Cases
    BY DEF Run
  <2>3. t # 0 /\ Cardinality(y.todo) = t - 1
    BY <1>2, <2>1, <2>2, Sizes DEF FiniteTables
  <2>4. PICK u \in Nat : u = (t - 1) * p /\ u + p = t * p
    BY <1>2, <2>3, PerCase
  <2>5. PICK l \in Nat : l = Cardinality(y.left) /\ l <= D
    BY <1>1, <1>2, WorkCounts
  <2>6. MainWork(y) \in {6 + u, 6 + u + l}
    BY <1>2, <2>1, <2>3, <2>4, <2>5 DEF MainWork, Settled
  <2>7. SweepWork(y) = 2 * D + 3 /\ Cardinality(y.purging) = 0
    BY <1>2, <2>1, FS_EmptySet DEF SweepWork
  <2> QED BY <1>2, <2>4, <2>5, <2>6, <2>7 DEF Work
<1> QED BY <1>3, <1>4

\* Run k goes on as y, and has less to do.
Winds(k, y) ==
  /\ y \in Run
  /\ run' = [run EXCEPT ![k] = y]
  /\ Work(y) < Work(run[k])

LEMMA CaseLoopWinds ==
  ASSUME FiniteTables, DueInv, RunsKnow, NEW k \in Cleanups, CaseLoopStep(k)
  PROVE  \E y : Winds(k, y)
<1>1. run[k] \in Run /\ Knows(run[k], files)
  BY DEF DueInv, IInv, TypeOK, RunsKnow
<1>2. PICK D \in Nat, C \in Nat, t \in Nat, l \in Nat, p \in Nat :
        /\ D = Cardinality(Docs) /\ C = Cardinality(Cases) /\ p = FilesPerCase
        /\ t = Cardinality(run[k].todo) /\ l = Cardinality(run[k].left)
        /\ t * p \in Nat /\ C * p \in Nat
  BY <1>1, WorkCounts, PerCase
<1>3. run[k].sweep = "off" /\ run[k].purging = {}
  BY <1>1 DEF CaseLoopStep, FindCases, UnlinkFile, DeleteCase, Knows, EndsInOrder,
    BeforeLoop, InLoop
<1>4. SweepWork(run[k]) = 2 * D + 3 /\ Cardinality(run[k].purging) = 0
  BY <1>2, <1>3, FS_EmptySet DEF SweepWork
<1>5. CASE FindCases(k)
  <2>1. PICK x \in Run : /\ x.sweep = "off" /\ x.purging = {}
                         /\ \E y \in NextCase(x) : run' = [run EXCEPT ![k] = y]
    <3> DEFINE found == {c \in Cases : /\ Present(c) /\ TenantOf[c] = TenantFor(k)
                                       /\ CaseExpired(c, run[k].asOf)}
               docs == {d \in Docs : Stored(d) /\ rows[d].case \in found}
               x == [run[k] EXCEPT !.found = found, !.docs = docs, !.todo = found]
    <3>1. \E y \in NextCase(x) : run' = [run EXCEPT ![k] = y]
      BY <1>5 DEF FindCases
    <3>2. x \in Run /\ x.sweep = "off" /\ x.purging = {}
      BY <1>1, <1>3 DEF Run
    <3> HIDE DEF x
    <3> QED BY <3>1, <3>2
  <2>2. PICK y \in NextCase(x) : run' = [run EXCEPT ![k] = y]
    BY <2>1
  <2>3. y \in Run /\ Work(y) < 6 + Cardinality(x.todo) * p + 2 * D + 3
    BY <1>2, <2>1, NextCaseGoesOn, NextCaseWork DEF GoesOn
  <2>4. Cardinality(x.todo) * p <= C * p /\ Cardinality(x.todo) * p \in Nat
    BY <1>2, WorkCounts, PerCase
  <2>5. MainWork(run[k]) = 7 + C * p
    BY <1>2, <1>5 DEF FindCases, MainWork, Settled
  <2>6. PICK w \in Nat : w = Work(y)
    <3>1. MainWork(y) \in Nat /\ SweepWork(y) \in Nat /\ Cardinality(y.purging) \in Nat
      BY <2>3, WorkCounts
    <3> QED BY <3>1 DEF Work
  <2>7. PICK u \in Nat, v \in Nat : u = Cardinality(x.todo) * p /\ v = C * p
    BY <1>2, <2>4
  <2>8. Work(run[k]) = 7 + v + (2 * D + 3)
    BY <1>4, <2>5, <2>7 DEF Work
  <2>9. Work(y) < Work(run[k])
    BY <2>3, <2>4, <2>6, <2>7, <2>8
  <2> QED BY <2>2, <2>3, <2>9 DEF Winds
<1>6. CASE UnlinkFile(k)
  <2>1. PICK d \in run[k].left, ok \in BOOLEAN :
          LET x == [run[k] EXCEPT !.left = @ \ {d},
                                  !.stuck = IF ok THEN @ ELSE @ \cup {d}]
          IN  \E y \in IF x.left = {} THEN AfterFiles(x) ELSE {x} :
                run' = [run EXCEPT ![k] = y]
    BY <1>6 DEF UnlinkFile
  <2> DEFINE x == [run[k] EXCEPT !.left = @ \ {d},
                                 !.stuck = IF ok THEN @ ELSE @ \cup {d}]
  <2>2. PICK y \in IF x.left = {} THEN AfterFiles(x) ELSE {x} :
          run' = [run EXCEPT ![k] = y]
    BY <2>1
  <2>3. run[k].at = "unlinkFile" /\ d \in Docs /\ run[k].left \in SUBSET Docs
    BY <1>1, <1>6 DEF UnlinkFile, Run
  <2>4. /\ x \in Run /\ x.at = "unlinkFile" /\ x.left = run[k].left \ {d}
        /\ x.todo = run[k].todo /\ x.sweep = "off" /\ x.purging = {}
    BY <1>1, <1>3, <2>3 DEF Run
  <2> HIDE DEF x
  <2>5. Cardinality(x.left) = l - 1 /\ l - 1 \in Nat
    BY <1>2, <2>1, <2>3, <2>4, Sizes DEF FiniteTables
  <2>6. PICK u \in Nat : u = t * p
    BY <1>2
  <2>7. Work(run[k]) = 6 + u + l + (2 * D + 3)
    BY <1>2, <1>4, <2>3, <2>6 DEF Work, MainWork, Settled
  <2>8. CASE x.left # {}
    <3>1. y = x
      BY <2>2, <2>8
    <3>2. MainWork(x) = 6 + u + (l - 1) /\ SweepWork(x) = 2 * D + 3
      BY <1>2, <2>4, <2>5, <2>6 DEF MainWork, SweepWork, Settled
    <3>3. Work(y) = 6 + u + (l - 1) + (2 * D + 3)
      <4>1. PICK m \in Nat : m = l - 1
        BY <2>5
      <4>2. Cardinality(x.purging) = 0
        BY <2>4, FS_EmptySet
      <4> QED BY <3>1, <3>2, <4>1, <4>2 DEF Work
    <3>4. Work(y) < Work(run[k])
      BY <2>5, <2>7, <3>3
    <3> QED BY <2>2, <2>4, <3>1, <3>4 DEF Winds
  <2>9. CASE x.left = {} /\ x.stuck \cap DocsFound(x, x.case) = {}
    <3>1. y = [x EXCEPT !.at = "deleteCase"]
      BY <2>2, <2>9 DEF AfterFiles
    <3>2. /\ y \in Run /\ y.at = "deleteCase" /\ y.todo = x.todo /\ y.sweep = "off"
          /\ y.purging = {}
      BY <2>4, <3>1 DEF Run, MainSteps
    <3>3. MainWork(y) = 6 + u /\ SweepWork(y) = 2 * D + 3
      BY <1>2, <2>4, <2>6, <3>2 DEF MainWork, SweepWork, Settled
    <3>4. Work(y) = 6 + u + (2 * D + 3)
      BY <3>2, <3>3, FS_EmptySet DEF Work
    <3>5. Work(y) < Work(run[k])
      BY <2>5, <2>7, <3>4
    <3> QED BY <2>2, <3>2, <3>5 DEF Winds
  <2>10. CASE x.left = {} /\ x.stuck \cap DocsFound(x, x.case) # {}
    <3>1. y \in NextCase(x)
      BY <2>2, <2>10 DEF AfterFiles
    <3>2. y \in Run /\ Work(y) < 6 + u + 2 * D + 3
      BY <1>2, <2>4, <2>6, <3>1, NextCaseGoesOn, NextCaseWork DEF GoesOn
    <3>3. MainWork(y) \in Nat /\ SweepWork(y) \in Nat /\ Cardinality(y.purging) \in Nat
      BY <3>2, WorkCounts
    <3>4. Work(y) \in Nat
      BY <3>3 DEF Work
    <3>5. Work(y) < Work(run[k])
      BY <2>5, <2>7, <3>2, <3>4
    <3> QED BY <2>2, <3>2, <3>5 DEF Winds
  <2> QED BY <2>8, <2>9, <2>10
<1>7. CASE DeleteCase(k)
  <2>1. PICK y \in NextCase(run[k]) : run' = [run EXCEPT ![k] = y]
    BY <1>7 DEF DeleteCase
  <2>2. y \in Run /\ Work(y) < 6 + t * p + 2 * D + 3
    BY <1>1, <1>2, <1>3, <2>1, NextCaseGoesOn, NextCaseWork DEF GoesOn
  <2>3. Work(run[k]) = 6 + t * p + (2 * D + 3)
    BY <1>2, <1>4, <1>7 DEF DeleteCase, Work, MainWork, Settled
  <2>4. PICK u \in Nat : u = t * p
    BY <1>2
  <2>5. MainWork(y) \in Nat /\ SweepWork(y) \in Nat /\ Cardinality(y.purging) \in Nat
    BY <2>2, WorkCounts
  <2>6. Work(y) \in Nat
    BY <2>5 DEF Work
  <2>7. Work(y) < Work(run[k])
    BY <2>2, <2>3, <2>4, <2>6
  <2> QED BY <2>1, <2>2, <2>7 DEF Winds
<1> QED BY <1>5, <1>6, <1>7 DEF CaseLoopStep

\* Beside the loop, what the main thread has to do depends on where it is alone.
LEMMA LateWork ==
  ASSUME NEW x, NEW y, x.at = y.at, x.at \notin InLoop
  PROVE  MainWork(x) = MainWork(y)
BY DEF MainWork, InLoop

LEMMA JoinedWork ==
  ASSUME FiniteTables, NEW x \in Run
  PROVE  Work(Joined(x)) <= Work(x)
<1> DEFINE y == [x EXCEPT !.at = "auditRun"]
<1>1. CASE Joined(x) = x
  <2>1. MainWork(x) \in Nat /\ SweepWork(x) \in Nat /\ Cardinality(x.purging) \in Nat
    BY WorkCounts
  <2> QED BY <1>1, <2>1 DEF Work
<1>2. CASE Joined(x) # x
  <2>1. Joined(x) = y /\ x.at = "all"
    BY <1>2 DEF Joined
  <2>2. /\ y \in Run /\ y.at = "auditRun" /\ y.sweep = x.sweep /\ y.left = x.left
        /\ y.purging = x.purging
    BY DEF Run, MainSteps
  <2> HIDE DEF y
  <2>3. MainWork(y) = 2 /\ MainWork(x) = 3
    BY <2>1, <2>2 DEF MainWork, Settled
  <2>4. SweepWork(y) = SweepWork(x)
    BY <2>2 DEF SweepWork
  <2>5. SweepWork(x) \in Nat /\ Cardinality(x.purging) \in Nat
    BY WorkCounts
  <2> QED BY <2>1, <2>2, <2>3, <2>4, <2>5 DEF Work
<1> QED BY <1>1, <1>2

LEMMA SweepOnWork ==
  ASSUME FiniteTables, NEW x \in Run, x.at \notin InLoop
  PROVE  /\ SweepOn(x) \in Run
         /\ Work(SweepOn(x)) \in Nat
         /\ Work(SweepOn(x)) <= MainWork(x) + (2 * Cardinality(x.left) + 1)
                                            + Cardinality(x.purging)
<1>1. PICK m \in Nat, l \in Nat, q \in Nat :
        m = MainWork(x) /\ l = Cardinality(x.left) /\ q = Cardinality(x.purging)
  BY WorkCounts
<1>2. SweepOn(x) \in Run
  BY SweepOnAlongside DEF Alongside
<1>3. Work(SweepOn(x)) \in Nat
  <2>1. PICK y \in Run : y = SweepOn(x)
    BY <1>2
  <2>2. MainWork(y) \in Nat /\ SweepWork(y) \in Nat /\ Cardinality(y.purging) \in Nat
    BY WorkCounts
  <2> QED BY <2>1, <2>2 DEF Work
<1>4. CASE x.left = {}
  <2>1. PICK z : z = [x EXCEPT !.sweep = "over", !.doc = None]
    OBVIOUS
  <2>2. /\ z \in Run /\ z.at = x.at /\ z.sweep = "over" /\ z.purging = x.purging
        /\ SweepOn(x) = Joined(z)
    BY <1>4, <2>1 DEF Run, SweepOn
  <2>3. MainWork(z) = m /\ SweepWork(z) = 0
    BY <1>1, <2>2, LateWork DEF SweepWork
  <2>4. Work(z) = m + 0 + q
    BY <1>1, <2>2, <2>3 DEF Work
  <2>5. Work(SweepOn(x)) <= Work(z)
    BY <2>2, JoinedWork
  <2> QED BY <1>1, <1>2, <1>3, <2>4, <2>5
<1>5. CASE x.left # {}
  <2>1. PICK z : z = [x EXCEPT !.sweep = "unlinkExpired", !.doc = None]
    OBVIOUS
  <2>2. /\ z.at = x.at /\ z.sweep = "unlinkExpired" /\ z.purging = x.purging
        /\ z.left = x.left /\ SweepOn(x) = z
    BY <1>5, <2>1 DEF Run, SweepOn
  <2>3. MainWork(z) = m /\ SweepWork(z) = 2 * l + 1
    BY <1>1, <2>2, LateWork DEF SweepWork
  <2>4. Work(SweepOn(x)) = m + (2 * l + 1) + q
    BY <1>1, <2>2, <2>3 DEF Work
  <2> QED BY <1>1, <1>2, <1>3, <2>4
<1> QED BY <1>4, <1>5

\* What a rejection leaves is no more than what was left of the run itself.
LEMMA RejectedWinds ==
  ASSUME FiniteTables, TypeOK, NEW k \in Cleanups, NEW x \in Run, Rejected(k, x),
         x.at \notin InLoop, Work(x) < Work(run[k])
  PROVE  \E y : Winds(k, y)
<1>1. PICK y : y = IF x.at = "all" THEN [x EXCEPT !.at = "failed"] ELSE x
  OBVIOUS
<1>2. /\ y \in Run /\ y.sweep = x.sweep /\ y.left = x.left /\ y.purging = x.purging
      /\ y.at = IF x.at = "all" THEN "failed" ELSE x.at
  BY <1>1 DEF Run, Settled
<1>3. run' = [run EXCEPT ![k] = y]
  BY <1>1 DEF Rejected
<1>4. SweepWork(y) = SweepWork(x)
  BY <1>2 DEF SweepWork
<1>5. MainWork(y) <= MainWork(x)
  <2>1. CASE x.at = "all"
    BY <1>2, <2>1 DEF MainWork, Settled
  <2>2. CASE x.at # "all"
    <3>1. y = x
      BY <1>1, <2>2
    <3> QED BY <3>1, WorkCounts
  <2> QED BY <2>1, <2>2
<1>6. /\ MainWork(y) \in Nat /\ SweepWork(y) \in Nat /\ Cardinality(y.purging) \in Nat
      /\ MainWork(x) \in Nat
  BY <1>2, WorkCounts
<1>7. Work(y) <= Work(x)
  BY <1>2, <1>4, <1>5, <1>6 DEF Work
<1>8. run[k] \in Run
  BY DEF TypeOK
<1>9. /\ MainWork(run[k]) \in Nat /\ SweepWork(run[k]) \in Nat
      /\ Cardinality(run[k].purging) \in Nat
  BY <1>8, WorkCounts
<1>10. Work(x) \in Nat /\ Work(y) \in Nat /\ Work(run[k]) \in Nat
  BY <1>2, <1>4, <1>6, <1>9 DEF Work
<1>11. Work(y) < Work(run[k])
  BY <1>7, <1>10
<1> QED BY <1>2, <1>3, <1>11 DEF Winds

LEMMA SweepWinds ==
  ASSUME FiniteTables, DueInv, RunsKnow, NEW k \in Cleanups, SweepStep(k)
  PROVE  \E y : Winds(k, y)
<1> USE DEF DueInv, IInv
<1>1. run[k] \in Run /\ Knows(run[k], files) /\ run \in [Cleanups -> Run]
  BY DEF TypeOK, RunsKnow
<1>2. PICK D \in Nat, m \in Nat, l \in Nat, q \in Nat :
        /\ D = Cardinality(Docs) /\ m = MainWork(run[k])
        /\ l = Cardinality(run[k].left) /\ q = Cardinality(run[k].purging)
  BY <1>1, WorkCounts
<1>3. run[k].sweep \in SweepSteps /\ run[k].at \notin InLoop
  BY <1>1 DEF SweepStep, FindExpired, UnlinkExpired, DeleteRow, SweepFails, Knows,
    EndsInOrder, SweepSteps
<1>4. ASSUME NEW x \in Run, run' = [run EXCEPT ![k] = SweepOn(x)],
             x.at = run[k].at, x.purging = run[k].purging,
             NEW n \in Nat, n = Cardinality(x.left),
             m + (2 * n + 1) + q < Work(run[k])
      PROVE  \E y : Winds(k, y)
  <2>1. MainWork(x) = m
    BY <1>2, <1>3, <1>4, LateWork
  <2>2. /\ SweepOn(x) \in Run /\ Work(SweepOn(x)) \in Nat
        /\ Work(SweepOn(x)) <= m + (2 * n + 1) + q
    BY <1>2, <1>3, <1>4, <2>1, SweepOnWork
  <2>3. Work(run[k]) = m + SweepWork(run[k]) + q /\ SweepWork(run[k]) \in Nat
    BY <1>1, <1>2, WorkCounts DEF Work
  <2>4. Work(SweepOn(x)) < Work(run[k])
    BY <1>4, <2>2, <2>3
  <2> QED BY <1>4, <2>2, <2>4 DEF Winds
<1>5. CASE FindExpired(k)
  <2> DEFINE expired == {d \in Docs : /\ Stored(d)
                                      /\ TenantOf[rows[d].case] = TenantFor(k)
                                      /\ rows[d].case \notin run[k].found
                                      /\ DocumentExpired(d, run[k].asOf)}
  <2>1. PICK x : x = [run[k] EXCEPT !.expired = expired, !.left = expired]
    OBVIOUS
  <2>2. run' = [run EXCEPT ![k] = SweepOn(x)] /\ run[k].sweep = "findExpired"
    BY <1>1, <1>5, <2>1 DEF FindExpired
  <2>3. x \in Run /\ x.at = run[k].at /\ x.purging = run[k].purging
    BY <1>1, <2>1 DEF Run
  <2>4. PICK n \in Nat : n = Cardinality(x.left) /\ n <= D
    BY <1>2, <2>3, WorkCounts
  <2>5. Work(run[k]) = m + (2 * D + 2) + q
    BY <1>2, <2>2 DEF Work, SweepWork
  <2>6. m + (2 * n + 1) + q < Work(run[k])
    BY <2>4, <2>5
  <2> HIDE DEF expired
  <2> QED BY <1>4, <2>2, <2>3, <2>4, <2>6
<1>6. CASE UnlinkExpired(k)
  <2>1. PICK d \in run[k].left :
          \/ run' = [run EXCEPT ![k] = [run[k] EXCEPT !.left = @ \ {d},
                                          !.sweep = "deleteRow", !.doc = d]]
          \/ run' = [run EXCEPT ![k] = SweepOn([run[k] EXCEPT !.left = @ \ {d},
                                                  !.stuck = @ \cup {d}])]
    BY <1>6, ZenonT(60) DEF UnlinkExpired
  <2>2. PICK x, z : /\ x = [run[k] EXCEPT !.left = @ \ {d}, !.sweep = "deleteRow",
                                          !.doc = d]
                    /\ z = [run[k] EXCEPT !.left = @ \ {d}, !.stuck = @ \cup {d}]
    OBVIOUS
  <2>3. d \in Docs /\ run[k].left \in SUBSET Docs /\ run[k].sweep = "unlinkExpired"
    BY <1>1, <1>6 DEF Run, UnlinkExpired
  <2>4. /\ x \in Run /\ x.at = run[k].at /\ x.purging = run[k].purging
        /\ x.left = run[k].left \ {d} /\ x.sweep = "deleteRow"
        /\ z \in Run /\ z.at = run[k].at /\ z.purging = run[k].purging
        /\ z.left = run[k].left \ {d}
    BY <1>1, <2>2, <2>3 DEF Run, SweepSteps
  <2>5. PICK n \in Nat : n = Cardinality(run[k].left \ {d}) /\ n = l - 1
    BY <1>2, <2>1, <2>3, Sizes DEF FiniteTables
  <2>6. Work(run[k]) = m + (2 * n + 3) + q
    <3>1. SweepWork(run[k]) = 2 * n + 3
      BY <1>2, <2>3, <2>5 DEF SweepWork
    <3> QED BY <1>2, <3>1 DEF Work
  <2>7. CASE run' = [run EXCEPT ![k] = SweepOn(z)]
    <3>1. m + (2 * n + 1) + q < Work(run[k])
      BY <2>6
    <3> QED BY <1>4, <2>4, <2>5, <2>7, <3>1
  <2>8. CASE run' = [run EXCEPT ![k] = x]
    <3>1. MainWork(x) = m /\ SweepWork(x) = 2 * n + 2
      BY <1>2, <1>3, <2>4, <2>5, LateWork DEF SweepWork
    <3>2. Work(x) = m + (2 * n + 2) + q
      BY <1>2, <2>4, <3>1 DEF Work
    <3>3. Work(x) < Work(run[k])
      BY <2>6, <3>2
    <3> QED BY <2>4, <2>8, <3>3 DEF Winds
  <2> QED BY <2>1, <2>2, <2>7, <2>8
<1>7. CASE DeleteRow(k) /\ Stored(run[k].doc)
  <2>1. run' = [run EXCEPT ![k] = SweepOn(run[k])] /\ run[k].sweep = "deleteRow"
    BY <1>1, <1>7 DEF DeleteRow
  <2>2. SweepWork(run[k]) = 2 * l + 2
    BY <1>2, <2>1 DEF SweepWork
  <2>3. Work(run[k]) = m + (2 * l + 2) + q
    BY <1>2, <2>2 DEF Work
  <2>4. m + (2 * l + 1) + q < Work(run[k])
    BY <2>3
  <2> QED BY <1>1, <1>2, <1>4, <2>1, <2>4
<1>8. CASE SweepFails(k) \/ (DeleteRow(k) /\ ~Stored(run[k].doc))
  <2>1. PICK x : x = [run[k] EXCEPT !.sweep = "over", !.doc = None]
    OBVIOUS
  <2>2. Rejected(k, x) /\ run[k].sweep \in {"findExpired", "deleteRow"}
    BY <1>8, <2>1 DEF SweepFails, DeleteRow
  <2>3. /\ x \in Run /\ x.at = run[k].at /\ x.sweep = "over"
        /\ x.purging = run[k].purging
    BY <1>1, <2>1 DEF Run
  <2>4. MainWork(x) = m /\ SweepWork(x) = 0
    BY <1>2, <1>3, <2>3, LateWork DEF SweepWork
  <2>5. Work(x) = m + q
    BY <1>2, <2>3, <2>4 DEF Work
  <2>6. PICK e \in Nat : e = SweepWork(run[k]) /\ e > 0
    BY <1>2, <2>2 DEF SweepWork
  <2>7. Work(run[k]) = m + e + q
    BY <1>2, <2>6 DEF Work
  <2>8. Work(x) < Work(run[k])
    BY <2>5, <2>6, <2>7
  <2> QED BY <1>3, <2>2, <2>3, <2>8, RejectedWinds
<1> QED BY <1>5, <1>6, <1>7, <1>8 DEF SweepStep

LEMMA PurgeWinds ==
  ASSUME FiniteTables, DueInv, RunsKnow, NEW k \in Cleanups, PurgeStep(k)
  PROVE  \E y : Winds(k, y)
<1> USE DEF DueInv, IInv
<1>1. run[k] \in Run /\ Knows(run[k], files) /\ run \in [Cleanups -> Run]
  BY DEF TypeOK, RunsKnow
<1>2. PICK p \in run[k].purging :
        \/ run' = [run EXCEPT ![k] = Joined([run[k] EXCEPT !.purging = @ \ {p}])]
        \/ Rejected(k, [run[k] EXCEPT !.purging = @ \ {p}])
  BY DEF PurgeStep, Purge, PurgeFails
<1>3. PICK x : x = [run[k] EXCEPT !.purging = @ \ {p}]
  OBVIOUS
<1>4. /\ x \in Run /\ x.at = run[k].at /\ x.sweep = run[k].sweep
      /\ x.left = run[k].left /\ x.purging = run[k].purging \ {p}
      /\ run[k].purging \in SUBSET Purges
  BY <1>1, <1>3 DEF Run
<1>5. run[k].at \notin InLoop
  BY <1>1, <1>2 DEF Knows, EndsInOrder
<1>6. PICK m \in Nat, e \in Nat, q \in Nat :
        /\ m = MainWork(run[k]) /\ e = SweepWork(run[k])
        /\ q = Cardinality(run[k].purging)
  BY <1>1, WorkCounts
<1>7. MainWork(x) = m /\ SweepWork(x) = e
  BY <1>4, <1>5, <1>6, LateWork DEF SweepWork
<1>8. PICK r \in Nat : r = Cardinality(x.purging) /\ r = q - 1
  BY <1>2, <1>4, <1>6, PurgeSizes, Sizes
<1>9. Work(x) = m + e + r /\ Work(run[k]) = m + e + q
  BY <1>6, <1>7, <1>8 DEF Work
<1>10. Work(x) < Work(run[k])
  BY <1>8, <1>9
<1>11. CASE Rejected(k, x)
  BY <1>4, <1>5, <1>10, <1>11, RejectedWinds
<1>12. CASE run' = [run EXCEPT ![k] = Joined(x)]
  <2>1. PICK y \in Run : y = Joined(x)
    BY <1>4, JoinedAlongside DEF Alongside
  <2>2. Work(y) <= Work(x)
    BY <1>4, <2>1, JoinedWork
  <2>3. MainWork(y) \in Nat /\ SweepWork(y) \in Nat /\ Cardinality(y.purging) \in Nat
    BY WorkCounts
  <2>4. Work(y) \in Nat
    BY <2>3 DEF Work
  <2>5. Work(y) < Work(run[k])
    BY <1>8, <1>9, <1>10, <2>2, <2>4
  <2> QED BY <1>12, <2>1, <2>5 DEF Winds
<1> QED BY <1>2, <1>3, <1>11, <1>12

\* Only the main thread moves on.
LEMMA MainMoves ==
  ASSUME FiniteTables, NEW x \in Run, NEW y \in Run,
         y.sweep = x.sweep, y.left = x.left, y.purging = x.purging,
         MainWork(y) < MainWork(x)
  PROVE  Work(y) < Work(x)
<1>1. SweepWork(y) = SweepWork(x)
  BY DEF SweepWork
<1>2. /\ MainWork(x) \in Nat /\ MainWork(y) \in Nat
      /\ SweepWork(x) \in Nat /\ Cardinality(x.purging) \in Nat
  BY WorkCounts
<1> QED BY <1>1, <1>2 DEF Work

LEMMA MainWinds ==
  ASSUME FiniteTables, TypeOK, NEW k \in Cleanups,
         \/ ComputeCutoffs(k) \/ AuditRun(k) \/ MaintenanceRun(k) \/ FailCleanup(k)
         \/ \E confirm \in BOOLEAN : StartCleanup(k, confirm) \/ RefuseCleanup(k, confirm)
  PROVE  \E y : Winds(k, y)
<1>1. run[k] \in Run /\ run \in [Cleanups -> Run] /\ now \in Days
  BY DEF TypeOK, DocTypeOK
<1>2. PICK y : run' = [run EXCEPT ![k] = y] /\ y = run'[k]
  BY <1>1 DEF ComputeCutoffs, AuditRun, MaintenanceRun, FailCleanup, StartCleanup,
    RefuseCleanup
<1>3. PICK x \in Run, a \in {"cutoffs", "rejected", "findCases", "auditRun",
                             "maintenanceRun", "done", "failed"} :
        /\ y = [x EXCEPT !.at = a]
        /\ x.sweep = run[k].sweep /\ x.left = run[k].left
        /\ x.purging = run[k].purging /\ x.todo = run[k].todo
        /\ \/ run[k].at = "idle" /\ a \in {"cutoffs", "rejected"}
           \/ run[k].at = "cutoffs" /\ a \in {"findCases", "auditRun"}
           \/ run[k].at = "auditRun" /\ a = "maintenanceRun"
           \/ run[k].at = "maintenanceRun" /\ a = "done"
           \/ /\ run[k].at \in {"cutoffs", "findCases", "deleteCase", "auditRun",
                                "maintenanceRun"}
              /\ a = "failed"
  <2>1. CASE ComputeCutoffs(k)
    <3>1. PICK x : x = [run[k] EXCEPT !.asOf = now]
      OBVIOUS
    <3>2. /\ x \in Run /\ x.sweep = run[k].sweep /\ x.left = run[k].left
          /\ x.purging = run[k].purging /\ x.todo = run[k].todo
      BY <1>1, <3>1 DEF Run
    <3>3. y = [x EXCEPT !.at = IF run[k].confirm THEN "findCases" ELSE "auditRun"]
      BY <1>1, <1>2, <2>1, <3>1 DEF ComputeCutoffs
    <3> QED BY <2>1, <3>2, <3>3 DEF ComputeCutoffs
  <2>2. CASE AuditRun(k)
    <3>1. PICK x : x = [run[k] EXCEPT !.reported = TRUE]
      OBVIOUS
    <3>2. /\ x \in Run /\ x.sweep = run[k].sweep /\ x.left = run[k].left
          /\ x.purging = run[k].purging /\ x.todo = run[k].todo
      BY <1>1, <3>1 DEF Run
    <3>3. y = [x EXCEPT !.at = "maintenanceRun"]
      BY <1>1, <1>2, <2>2, <3>1 DEF AuditRun
    <3> QED BY <2>2, <3>2, <3>3 DEF AuditRun
  <2>3. CASE MaintenanceRun(k)
    <3>1. y = [run[k] EXCEPT !.at = "done"]
      BY <1>1, <1>2, <2>3 DEF MaintenanceRun
    <3> QED BY <1>1, <2>3, <3>1 DEF MaintenanceRun
  <2>4. CASE FailCleanup(k)
    <3>1. y = [run[k] EXCEPT !.at = "failed"]
      BY <1>1, <1>2, <2>4 DEF FailCleanup
    <3> QED BY <1>1, <2>4, <3>1 DEF FailCleanup
  <2>5. ASSUME NEW confirm \in BOOLEAN, StartCleanup(k, confirm)
        PROVE  /\ run[k].at = "idle"
               /\ y = [[run[k] EXCEPT !.confirm = confirm] EXCEPT !.at = "cutoffs"]
    BY <1>1, <1>2, <2>5, ZenonT(60) DEF StartCleanup, Run
  <2>6. ASSUME NEW confirm \in BOOLEAN
        PROVE  LET x == [run[k] EXCEPT !.confirm = confirm]
               IN  /\ x \in Run /\ x.sweep = run[k].sweep /\ x.left = run[k].left
                   /\ x.purging = run[k].purging /\ x.todo = run[k].todo
    BY <1>1 DEF Run
  <2>7. CASE \E confirm \in BOOLEAN : StartCleanup(k, confirm)
    <3>1. PICK confirm \in BOOLEAN : StartCleanup(k, confirm)
      BY <2>7
    <3>2. PICK x : x = [run[k] EXCEPT !.confirm = confirm]
      OBVIOUS
    <3> QED BY <2>5, <2>6, <3>1, <3>2
  <2>8. CASE \E confirm \in BOOLEAN : RefuseCleanup(k, confirm)
    <3>1. y = [run[k] EXCEPT !.at = "rejected"] /\ run[k].at = "idle"
      BY <1>1, <1>2, <2>8 DEF RefuseCleanup
    <3> QED BY <1>1, <3>1
  <2> QED BY <2>1, <2>2, <2>3, <2>4, <2>7, <2>8
<1>4. PICK u \in Nat, v \in Nat :
        /\ u = Cardinality(Cases) * FilesPerCase
        /\ v = Cardinality(run[k].todo) * FilesPerCase
  BY <1>1, WorkCounts, PerCase
<1>5. /\ y \in Run /\ y.at = a /\ y.sweep = x.sweep /\ y.left = x.left
      /\ y.purging = x.purging /\ y.todo = x.todo
  BY <1>3 DEF Run, MainSteps, Settled
<1>6. MainWork(y) < MainWork(run[k])
  BY <1>3, <1>4, <1>5 DEF MainWork, Settled
<1>7. Work(y) < Work(run[k])
  BY <1>1, <1>3, <1>5, <1>6, MainMoves
<1> QED BY <1>2, <1>5, <1>7 DEF Winds

LEMMA CrashWinds ==
  ASSUME FiniteTables, DueInv, RunsKnow, Crash, NEW k \in Cleanups, run'[k] # run[k]
  PROVE  Work(run'[k]) < Work(run[k])
<1>1. run[k] \in Run /\ Knows(run[k], files)
  BY DEF DueInv, IInv, TypeOK, RunsKnow
<1>2. PICK y : y = run'[k]
  OBVIOUS
<1>3. y = [run[k] EXCEPT !.at = IF MainActive(k) THEN "failed" ELSE @,
                         !.sweep = IF @ = "off" THEN @ ELSE "over",
                         !.purging = {}]
  BY <1>2 DEF Crash
<1>4. /\ y \in Run /\ y.purging = {} /\ y.left = run[k].left /\ y.todo = run[k].todo
      /\ y.at = IF MainActive(k) THEN "failed" ELSE run[k].at
      /\ y.sweep = IF run[k].sweep = "off" THEN "off" ELSE "over"
  <2>1. PICK a \in {"failed", run[k].at}, w \in {"off", "over"} :
          /\ y = [run[k] EXCEPT !.at = a, !.sweep = w, !.purging = {}]
          /\ a = IF MainActive(k) THEN "failed" ELSE run[k].at
          /\ w = IF run[k].sweep = "off" THEN "off" ELSE "over"
    BY <1>3
  <2>2. a \in {"idle"} \cup MainSteps \cup Settled
    BY <1>1 DEF Run, Settled
  <2>3. /\ y \in Run /\ y.purging = {} /\ y.left = run[k].left /\ y.todo = run[k].todo
        /\ y.at = a /\ y.sweep = w
    <3>1. PICK x \in Run, b \in {"idle"} \cup MainSteps \cup Settled :
            /\ x = run[k] /\ b = a
            /\ y = [x EXCEPT !.at = b, !.sweep = w, !.purging = {}]
      BY <1>1, <2>1, <2>2
    <3>2. /\ y.purging = {} /\ y.left = x.left /\ y.todo = x.todo
          /\ y.at = b /\ y.sweep = w
      BY <3>1 DEF Run
    <3>3. y \in Run
      <4>1. [x EXCEPT !.purging = {}] \in Run
        BY DEF Run
      <4>2. PICK z \in Run : z = [x EXCEPT !.purging = {}]
        BY <4>1
      <4>3. [z EXCEPT !.sweep = w] \in Run
        BY DEF Run
      <4>4. PICK v \in Run : v = [z EXCEPT !.sweep = w]
        BY <4>3
      <4>5. [v EXCEPT !.at = b] \in Run
        BY DEF Run
      <4>6. y = [v EXCEPT !.at = b]
        BY <3>1, <4>2, <4>4 DEF Run
      <4> QED BY <4>5, <4>6
    <3> QED BY <3>1, <3>2, <3>3
  <2> QED BY <2>1, <2>3
<1>5. PICK m \in Nat, e \in Nat, q \in Nat :
        /\ m = MainWork(run[k]) /\ e = SweepWork(run[k])
        /\ q = Cardinality(run[k].purging)
  BY <1>1, WorkCounts
<1>6. PICK n \in Nat, f \in Nat : n = MainWork(y) /\ f = SweepWork(y)
  BY <1>4, WorkCounts
<1>7. n <= m /\ (MainActive(k) => n < m)
  <2>1. CASE MainActive(k)
    <3>1. n = 0
      BY <1>4, <1>6, <2>1 DEF MainWork, Settled
    <3>2. PICK u \in Nat, v \in Nat, l \in Nat :
            /\ u = Cardinality(Cases) * FilesPerCase
            /\ v = Cardinality(run[k].todo) * FilesPerCase
            /\ l = Cardinality(run[k].left)
      BY <1>1, WorkCounts, PerCase
    <3>3. m > 0
      BY <1>5, <2>1, <3>2 DEF MainWork, MainActive, MainSteps, Settled
    <3> QED BY <3>1, <3>3
  <2>2. CASE ~MainActive(k)
    <3>1. y.at = run[k].at /\ y.at \notin InLoop
      BY <1>4, <2>2 DEF MainActive, MainSteps, InLoop
    <3> QED BY <1>5, <1>6, <2>2, <3>1, LateWork
  <2> QED BY <2>1, <2>2
<1>8. f <= e /\ (run[k].sweep \in SweepSteps => f < e)
  <2>1. PICK l \in Nat, D \in Nat : l = Cardinality(run[k].left) /\ D = Cardinality(Docs)
    BY <1>1, WorkCounts
  <2>2. CASE run[k].sweep \in SweepSteps
    BY <1>4, <1>5, <1>6, <2>1, <2>2 DEF SweepWork, SweepSteps
  <2>3. CASE run[k].sweep \notin SweepSteps
    <3>1. y.sweep = run[k].sweep
      BY <1>1, <1>4, <2>3 DEF Run
    <3>2. f = e
      BY <1>1, <1>5, <1>6, <2>3, <3>1 DEF SweepWork, Run, SweepSteps
    <3> QED BY <2>3, <3>2
  <2> QED BY <2>2, <2>3
<1>9. Cardinality(y.purging) = 0 /\ (run[k].purging # {} => q > 0)
  BY <1>1, <1>4, <1>5, FS_EmptySet, PurgeSizes, Sizes DEF Run
<1>10. MainActive(k) \/ run[k].sweep \in SweepSteps \/ run[k].purging # {}
  <2> SUFFICES ASSUME ~MainActive(k), run[k].sweep \notin SweepSteps, run[k].purging = {}
               PROVE  FALSE
    OBVIOUS
  <2>1. y = [run[k] EXCEPT !.at = @, !.sweep = @, !.purging = @]
    BY <1>1, <1>3 DEF Run
  <2>2. y = run[k]
    BY <1>1, <2>1 DEF Run
  <2> QED BY <1>2, <2>2
<1>11. Work(y) = n + f + 0 /\ Work(run[k]) = m + e + q
  BY <1>5, <1>6, <1>9 DEF Work
<1>12. n + f < m + e + q
  BY <1>7, <1>8, <1>9, <1>10
<1> QED BY <1>2, <1>11, <1>12

LEMMA StepWinds ==
  ASSUME FiniteTables, DueInv, RunsKnow, [Next]_vars, NEW k \in Cleanups,
         run'[k] # run[k]
  PROVE  Work(run'[k]) < Work(run[k])
<1>1. TypeOK
  BY DEF DueInv, IInv
<1>2. ASSUME NEW l \in Cleanups, \E y : Winds(l, y)
      PROVE  Work(run'[k]) < Work(run[k])
  <2>1. PICK y : Winds(l, y)
    BY <1>2
  <2>2. l = k /\ run'[k] = y
    BY <1>1, <2>1 DEF Winds, TypeOK
  <2> QED BY <2>1, <2>2 DEF Winds
<1>3. ASSUME NEW l \in Cleanups, CleanupStep(l)
      PROVE  \E y : Winds(l, y)
  BY <1>1, <1>3, CaseLoopWinds, SweepWinds, PurgeWinds, MainWinds
  DEF CleanupStep, MainStep
<1>4. ASSUME NEW l \in Cleanups, NEW confirm \in BOOLEAN,
             StartCleanup(l, confirm) \/ RefuseCleanup(l, confirm)
      PROVE  \E y : Winds(l, y)
  BY <1>1, <1>4, MainWinds
<1>5. CASE Crash
  BY <1>5, CrashWinds
<1> QED BY <1>2, <1>3, <1>4, <1>5 DEF Next, vars

\* executeRetentionCleanup: however many cases and documents there are, and
\* whatever fails, each step of a cleanup leaves it less to do, a number: a cleanup
\* takes finitely many.
THEOREM CleanupsWindDownSound ==
  ASSUME FiniteTables
  PROVE  Spec => CleanupsWindDown
<1> DEFINE A == \A k \in Cleanups : run'[k] # run[k] => Work(run'[k]) < Work(run[k])
<1>1. DocInv /\ [Next]_vars => [A]_vars
  BY StepWinds DEF DocInv
<1> HIDE DEF A
<1>2. Spec => [][A]_vars
  BY <1>1, InitDocInv, NextDocInv, PTL DEF Spec
<1> QED BY <1>2 DEF CleanupsWindDown, A

=============================================================================
