-------------------------- MODULE AnalyticsRebuild --------------------------
(***************************************************************************)
(* Daily snapshots of the case work, rebuilt by two programs that were     *)
(* written separately: AnalyticsService.aggregateTenantRange of the API,   *)
(* day by day with three parallel reads and an upsert, and the ELT job     *)
(* rebuild-analytics, one day in one transaction.  They write the same     *)
(* snapshots, but name departments differently: the API by slug, the job   *)
(* by name.                                                                *)
(*                                                                         *)
(* One tenant.  Cases, triage results and reviews change while rebuilds    *)
(* run; what was read before a change is no longer current.  Totals and    *)
(* durations are kept as the sets of cases that they are counted over.     *)
(***************************************************************************)
EXTENDS Integers, FiniteSets

CONSTANTS
  Days,             \* 1..n
  Cases,
  Statuses,         \* of cases
  NextStatuses,     \* [Statuses -> SUBSET Statuses]: allowedStatusTransitions
  Departments,
  Slug, Name,       \* of departments; names need not differ
  Unassigned,       \* not a department
  Rebuilds,         \* requests to aggregateTenantRange
  EltRebuilds,      \* runs of rebuild-analytics
  Spans,            \* [Jobs -> the <<first, last>> days it may be asked for]
  Scenarios,        \* the sets of jobs that may be asked for together
  Starts,           \* the tables to begin with
  MaxChanges        \* bounds the case work

Jobs == Rebuilds \cup EltRebuilds
Places == Departments \cup {Unassigned}
Tables == {"cases", "reviews", "results"}

ASSUME RebuildAssumption ==
  /\ Days \subseteq Nat \ {0} /\ 1 \in Days /\ \A d, e \in Days : d..e \subseteq Days
  /\ IsFiniteSet(Cases)
  /\ Rebuilds \cap EltRebuilds = {}
  /\ Spans \in [Jobs -> SUBSET (Days \X Days)]
  /\ \A j \in Jobs : \A s \in Spans[j] : s[1] <= s[2] /\ (j \in EltRebuilds => s[1] = s[2])
  /\ {"new", "triaged", "closed"} \subseteq Statuses
  /\ NextStatuses \in [Statuses -> SUBSET Statuses]
  /\ Unassigned \notin Departments
  /\ \A start \in Starts :
       /\ start.created \in [Cases -> Days \cup {0}] /\ start.department \in [Cases -> Places]
       /\ start.status \in [Cases -> Statuses] /\ start.closed \subseteq Cases
       /\ start.results \subseteq Cases \X Days \X {"completed", "failed"}
       /\ start.reviews \subseteq Cases \X Days \X BOOLEAN
       /\ IsFiniteSet(start.results) /\ IsFiniteSet(start.reviews)
  /\ MaxChanges \in Nat

VARIABLES
  changes,    \* the changes of the tables so far
  today,
  created,    \* [Cases -> day the case was created, 0 for no case]
  status,     \* [Cases -> Statuses]
  closed,     \* the cases with a closedAt
  department, \* [Cases -> Places]
  pending,    \* the cases that a stored review has yet to update
  results,    \* <<case, day, outcome>>: the triage results
  reviews,    \* <<case, day, accepted>>: the reviews
  snapshots,  \* [Days -> snapshot row]
  departmentRows, \* [Days \X EltKeys -> case count of the row, 0 for no row]
  rebuilding, \* [Jobs -> where the rebuild is]
  disturbed,  \* the jobs during which a table changed or another job wrote
  span,       \* [Jobs -> its first day, the day at hand, its last day]
  seen,       \* [Jobs -> what its reads returned for the day at hand]
  completed   \* the rebuilds with a completed event

tables == <<changes, today, created, status, closed, department, pending, results,
            reviews>>
vars == <<tables, snapshots, departmentRows, rebuilding, disturbed, span,
                 seen, completed>>

-----------------------------------------------------------------------------
(* What is counted.                                                        *)

CasesOf(ds) == {c \in Cases : created[c] \in ds}
ResultsOf(ds) == {r \in results : r[2] \in ds}
ReviewsOf(ds) == {r \in reviews : r[2] \in ds}

CountBy(S, key, keys) == [k \in keys |-> Cardinality({s \in S : key[s] = k})]

ApiKey(p) == IF p = Unassigned THEN "unassigned" ELSE Slug[p]
EltKey(p) == IF p = Unassigned THEN "Unassigned" ELSE Name[p]
ApiKeys == {ApiKey(p) : p \in Places}
EltKeys == {EltKey(p) : p \in Places}

\* getTimeToTriageMinutes: the cases with a successful result, of any day.
Triaged(cs) == {c \in cs : \E r \in results : r[1] = c /\ r[3] = "completed"}

CaseColumns(cs, key, keys, triaged) ==
  [found |-> cs, closed |-> cs \cap closed, byStatus |-> CountBy(cs, status, Statuses),
   byDepartment |-> CountBy(cs, key, keys), triaged |-> triaged]

ReviewColumns(rs) ==
  [accepted |-> Cardinality({r \in rs : r[3]}),
   corrected |-> Cardinality({r \in rs : ~r[3]})]

\* The ELT job reads the cases as well.
ResultColumns(rs) ==
  [success |-> Cardinality({r \in rs : r[3] = "completed"}),
   failure |-> Cardinality({r \in rs : r[3] = "failed"}),
   triaged |-> {r[1] : r \in {x \in rs : x[3] = "completed"}}]

\* Mutant: the day has no lower bound.
ApiCasesUpTo(d) ==
  LET cs == CasesOf(1..d)
  IN  CaseColumns(cs, [c \in cs |-> ApiKey(department[c])], ApiKeys, Triaged(cs))

\* aggregateTenantDay: the cases with all their results.
ApiCases(d) ==
  LET cs == CasesOf({d})
  IN  CaseColumns(cs, [c \in cs |-> ApiKey(department[c])], ApiKeys, Triaged(cs))

\* extract_cases, as counted by build_snapshot and build_department_daily
EltCases(d) ==
  LET cs == CasesOf({d})
  IN  CaseColumns(cs, [c \in cs |-> EltKey(department[c])], EltKeys, {})

-----------------------------------------------------------------------------

NoSnapshot == [by |-> "nobody"]
NotSeen == [t \in Tables |-> [state |-> "unread", columns |-> [none |-> 0]]]

Init ==
  /\ changes = 0 /\ today = 1
  /\ \E start \in Starts :
       /\ created = start.created /\ status = start.status /\ closed = start.closed
       /\ department = start.department /\ results = start.results /\ reviews = start.reviews
  /\ pending = {}
  /\ snapshots = [d \in Days |-> NoSnapshot]
  /\ departmentRows = [k \in Days \X EltKeys |-> 0]
  /\ \E asked \in Scenarios :
       rebuilding = [j \in Jobs |-> IF j \in asked THEN "idle" ELSE "never"]
  /\ disturbed = {}
  /\ span = [j \in Jobs |-> [from |-> 0, day |-> 0, to |-> 0]]
  /\ seen = [j \in Jobs |-> NotSeen]
  /\ completed = {}

JobSteps == {"read", "write", "event"}

TypeOK ==
  /\ changes \in 0..MaxChanges /\ today \in Days
  /\ created \in [Cases -> Days \cup {0}]
  /\ status \in [Cases -> Statuses]
  /\ closed \subseteq Cases /\ pending \subseteq Cases
  /\ department \in [Cases -> Places]
  /\ results \subseteq Cases \X Days \X {"completed", "failed"}
  /\ reviews \subseteq Cases \X Days \X BOOLEAN
  /\ departmentRows \in [Days \X EltKeys -> 0..Cardinality(Cases)]
  /\ rebuilding \in [Jobs -> {"never", "idle", "done", "failed"} \cup JobSteps]
  /\ disturbed \subseteq Jobs
  /\ completed \subseteq Rebuilds

-----------------------------------------------------------------------------
(* The case work meanwhile, as far as it is counted.                       *)

Active(j) == rebuilding[j] \in {"read", "write", "event"}

\* A result gives its case a time to triage, which the API reads with the cases
\* and the ELT job with the results.
Outdated(j, t, d, keys) ==
  \/ <<t, d>> \in keys
  \/ j \in Rebuilds /\ t = "cases" /\ <<"triage", d>> \in keys

\* What was read of these tables and days is behind from now on.
Behind(j, read, d, keys) ==
  [t \in Tables |-> IF Outdated(j, t, d, keys) /\ read[t].state = "current"
                    THEN [read[t] EXCEPT !.state = "behind"] ELSE read[t]]

Changes(keys) ==
  /\ changes < MaxChanges
  /\ changes' = changes + 1
  /\ seen' = [j \in Jobs |-> Behind(j, seen[j], span[j].day, keys)]
  /\ snapshots' = [d \in Days |->
       IF snapshots[d] = NoSnapshot THEN NoSnapshot
       ELSE [snapshots[d] EXCEPT !.read = Behind(snapshots[d].by, @, d, keys)]]
  /\ disturbed' = disturbed \cup {j \in Jobs : Active(j)}
  /\ UNCHANGED <<departmentRows, rebuilding, span, completed>>

CreateCase(c) ==
  /\ created[c] = 0
  /\ created' = [created EXCEPT ![c] = today]
  /\ Changes({<<"cases", today>>})
  /\ UNCHANGED <<today, status, closed, department, pending, results, reviews>>

\* updateStatus
ChangeStatus(c, s) ==
  /\ created[c] # 0 /\ s \in NextStatuses[status[c]]
  /\ status' = [status EXCEPT ![c] = s]
  /\ closed' = IF s = "closed" THEN closed \cup {c} ELSE closed \ {c}
  /\ Changes({<<"cases", created[c]>>})
  /\ UNCHANGED <<today, created, department, pending, results, reviews>>

StoreResult(c, outcome) ==
  /\ created[c] # 0 /\ <<c, today, outcome>> \notin results
  /\ results' = results \cup {<<c, today, outcome>>}
  /\ Changes({<<"results", today>>, <<"triage", created[c]>>})
  /\ UNCHANGED <<today, created, status, closed, department, pending, reviews>>

\* reviewCaseTriage: first the review, then the case, whose closedAt it leaves.
StoreReview(c, accepted) ==
  /\ c \in Triaged({c}) /\ <<c, today, accepted>> \notin reviews
  /\ reviews' = reviews \cup {<<c, today, accepted>>}
  /\ pending' = pending \cup {c}
  /\ Changes({<<"reviews", today>>})
  /\ UNCHANGED <<today, created, status, closed, department, results>>

ApplyReview(c, p) ==
  /\ c \in pending
  /\ pending' = pending \ {c}
  /\ status' = [status EXCEPT ![c] = "triaged"]
  /\ department' = [department EXCEPT ![c] = p]
  /\ Changes({<<"cases", created[c]>>})
  /\ UNCHANGED <<today, created, closed, results, reviews>>

\* The retention cleanup goes by closedAt; the rows of the case go with it.
DeleteCase(c) ==
  /\ created[c] # 0 /\ c \in closed
  /\ created' = [created EXCEPT ![c] = 0]
  /\ status' = [status EXCEPT ![c] = "new"]
  /\ closed' = closed \ {c}
  /\ department' = [department EXCEPT ![c] = Unassigned]
  /\ pending' = pending \ {c}
  /\ results' = {r \in results : r[1] # c}
  /\ reviews' = {r \in reviews : r[1] # c}
  /\ Changes(Tables \X Days)
  /\ UNCHANGED today

NextDay ==
  /\ today + 1 \in Days
  /\ today' = today + 1
  /\ UNCHANGED <<changes, created, status, closed, department, pending, results, reviews>>
  /\ UNCHANGED <<snapshots, departmentRows, rebuilding, disturbed, span, seen, completed>>

CaseWork ==
  \/ NextDay
  \/ \E c \in Cases :
       \/ CreateCase(c) \/ DeleteCase(c)
       \/ \E s \in Statuses : ChangeStatus(c, s)
       \/ \E p \in Departments : ApplyReview(c, p)
       \/ \E outcome \in {"completed", "failed"} : StoreResult(c, outcome)
       \/ \E accepted \in BOOLEAN : StoreReview(c, accepted)

-----------------------------------------------------------------------------
(* Both rebuilds read the three tables one by one, each as it is then.     *)

JobGoes(j, from, to) ==
  /\ rebuilding[j] = from
  /\ rebuilding' = [rebuilding EXCEPT ![j] = to]

\* The API takes a range; the ELT job one day.
StartRebuild(j, from, to) ==
  /\ JobGoes(j, "idle", "read")
  /\ span' = [span EXCEPT ![j] = [from |-> from, day |-> from, to |-> to]]
  /\ UNCHANGED <<tables, snapshots, departmentRows, disturbed, seen, completed>>

Columns(j, t) ==
  LET d == span[j].day
  IN  IF t = "reviews" THEN ReviewColumns(ReviewsOf({d}))
      ELSE IF t = "results" THEN ResultColumns(ResultsOf({d}))
      ELSE IF j \in EltRebuilds THEN EltCases(d) ELSE ApiCases(d)

Unread(j) == {t \in Tables : seen[j][t].state = "unread"}

\* The API reads in parallel, the job cases, results and reviews in this order.
Read(j, t) ==
  /\ t \in Unread(j)
  /\ j \in EltRebuilds => Unread(j) \ {t} \subseteq
       CASE t = "cases" -> {"results", "reviews"} [] t = "results" -> {"reviews"}
         [] t = "reviews" -> {}
  /\ JobGoes(j, "read", IF Unread(j) = {t} THEN "write" ELSE "read")
  /\ seen' = [seen EXCEPT ![j][t] = [state |-> "current", columns |-> Columns(j, t)]]
  /\ UNCHANGED <<tables, snapshots, departmentRows, disturbed, span, completed>>

Snapshot(j) == [by |-> j, read |-> seen[j]]

Disturbs(j) == disturbed' = disturbed \cup {k \in Jobs \ {j} : Active(k)}

\* Mutant: the last day of the range is left out.
UpsertDayExclusive(j) ==
  LET d == span[j].day
      last == d + 1 >= span[j].to
  IN  /\ j \in Rebuilds
      /\ JobGoes(j, "write", IF last THEN "event" ELSE "read")
      /\ snapshots' = [snapshots EXCEPT ![d] = Snapshot(j)]
      /\ span' = [span EXCEPT ![j].day = IF last THEN d ELSE d + 1]
      /\ seen' = [seen EXCEPT ![j] = NotSeen]
      /\ Disturbs(j)
      /\ UNCHANGED <<tables, departmentRows, completed>>

\* The upsert of aggregateTenantDay, and on to the next day.
UpsertDay(j) ==
  LET d == span[j].day
      last == d = span[j].to
  IN  /\ j \in Rebuilds
      /\ JobGoes(j, "write", IF last THEN "event" ELSE "read")
      /\ snapshots' = [snapshots EXCEPT ![d] = Snapshot(j)]
      /\ span' = [span EXCEPT ![j].day = IF last THEN d ELSE d + 1]
      /\ seen' = [seen EXCEPT ![j] = NotSeen]
      /\ Disturbs(j)
      /\ UNCHANGED <<tables, departmentRows, completed>>

\* operationalEventService.record swallows its own errors.
RecordCompleted(j) ==
  /\ JobGoes(j, "event", "done")
  /\ completed' \in {completed, completed \cup {j}}
  /\ UNCHANGED <<tables, snapshots, departmentRows, disturbed, span, seen>>

\* A tenant without a case, review or result of the day is not in the dataset.
InDataset(j) ==
  LET cols(t) == seen[j][t].columns
  IN  \/ cols("cases").found # {}
      \/ cols("reviews").accepted + cols("reviews").corrected > 0
      \/ cols("results").success + cols("results").failure > 0

\* load_dataset and the commit: upserts of what the dataset has, no deletes.
LoadDataset(j) ==
  LET d == span[j].day
      counts == seen[j]["cases"].columns.byDepartment
  IN  /\ j \in EltRebuilds
      /\ JobGoes(j, "write", "done")
      /\ snapshots' = IF InDataset(j) THEN [snapshots EXCEPT ![d] = Snapshot(j)]
                      ELSE snapshots
      /\ departmentRows' = [k \in DOMAIN departmentRows |->
           IF k[1] = d /\ counts[k[2]] > 0 THEN counts[k[2]] ELSE departmentRows[k]]
      /\ seen' = [seen EXCEPT ![j] = NotSeen]
      /\ Disturbs(j)
      /\ UNCHANGED <<tables, span, completed>>

\* A query rejects, or the transaction is rolled back, or the process dies.
FailRebuild(j) ==
  /\ rebuilding[j] \in {"read", "write"}
  /\ JobGoes(j, rebuilding[j], "failed")
  /\ seen' = [seen EXCEPT ![j] = NotSeen]
  /\ UNCHANGED <<tables, snapshots, departmentRows, disturbed, span, completed>>

JobStep(j) ==
  \/ \E t \in Tables : Read(j, t)
  \/ UpsertDay(j) \/ RecordCompleted(j) \/ LoadDataset(j) \/ FailRebuild(j)

Next ==
  \/ CaseWork
  \/ \E j \in Jobs : JobStep(j) \/ \E s \in Spans[j] : StartRebuild(j, s[1], s[2])

Spec == Init /\ [][Next]_vars

-----------------------------------------------------------------------------
(* Properties.                                                             *)

\* The cases that give a snapshot its time to triage: the job looks up the cases it
\* found among the results it read after them.
TriagedIn(snapshot) ==
  LET cases == snapshot.read["cases"].columns
  IN  IF snapshot.by \in EltRebuilds
      THEN cases.found \cap snapshot.read["results"].columns.triaged
      ELSE cases.triaged

\* A column of a snapshot that no change has outdated shows what the tables hold:
\* departments under the keys of the program that wrote it, and of the time to
\* triage, the ELT job leaves out cases first triaged on a later day.
CurrentSnapshotsExact ==
  \A d \in Days : snapshots[d] # NoSnapshot =>
    LET read == snapshots[d].read
        current(t) == read[t].state = "current"
        byElt == snapshots[d].by \in EltRebuilds
        rows == {c \in Cases : created[c] = d}
        daysCounted == IF byElt THEN {d} ELSE Days
        keyOf(c) == IF byElt THEN EltKey(department[c]) ELSE ApiKey(department[c])
    IN  /\ current("cases") =>
             /\ read["cases"].columns.found = rows
             /\ read["cases"].columns.closed = rows \cap closed
             /\ \A c \in rows : read["cases"].columns.byDepartment[keyOf(c)] =
                  Cardinality({x \in rows : keyOf(x) = keyOf(c)})
        /\ current("cases") /\ (byElt => current("results")) =>
             TriagedIn(snapshots[d]) =
               {c \in rows : \E e \in daysCounted : <<c, e, "completed">> \in results}
        /\ current("reviews") =>
             read["reviews"].columns.accepted + read["reviews"].columns.corrected
             = Cardinality({r \in reviews : r[2] = d})
        /\ current("results") =>
             read["results"].columns.success + read["results"].columns.failure
             = Cardinality({r \in results : r[2] = d})

\* A rebuild that reports its end has written a snapshot for each of its days;
\* they are its own and current unless the case work or another rebuild wrote
\* meanwhile.  (When two rebuilds overlap, the older reads may be written last.)
FinishedRebuildsShow ==
  \A j \in Rebuilds : rebuilding[j] \in {"event", "done"} =>
    \A d \in span[j].from..span[j].to :
      /\ snapshots[d] # NoSnapshot
      /\ rebuilding[j] = "event" /\ j \notin disturbed =>
           /\ snapshots[d].by = j
           /\ \A t \in Tables : snapshots[d].read[t].state = "current"

\* The department rows of a day are those of the ELT job's last read of it, and
\* leftovers of departments that have lost their cases since: they may count a
\* case twice, but never leave out one the ELT snapshot has.
DepartmentRowsCover ==
  \A d \in Days : snapshots[d] # NoSnapshot /\ snapshots[d].by \in EltRebuilds =>
    LET counts == snapshots[d].read["cases"].columns.byDepartment
    IN  \A k \in EltKeys : counts[k] > 0 => departmentRows[<<d, k>>] = counts[k]

\* The reports agree with the tables they were read from, snapshots of both
\* programs and the department rows of the ELT job.
ReportsAgree == TypeOK /\ CurrentSnapshotsExact /\ DepartmentRowsCover

=============================================================================
