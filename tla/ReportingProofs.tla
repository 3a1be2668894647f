-------------------------- MODULE ReportingProofs --------------------------
(***************************************************************************)
(* Proofs about AnalyticsRebuild, for any number of days, cases,           *)
(* departments and overlapping rebuilds of both programs.                  *)
(***************************************************************************)
EXTENDS AnalyticsRebuild, FiniteSetTheorems, TLAPS

-----------------------------------------------------------------------------
(* The invariant.                                                          *)

CaseRecord(keys) ==
  [found : SUBSET Cases, closed : SUBSET Cases, byStatus : [Statuses -> Nat],
   byDepartment : [keys -> 0..Cardinality(Cases)], triaged : SUBSET Cases]
ColumnSet ==
  CaseRecord(ApiKeys) \cup CaseRecord(EltKeys) \cup [accepted : Nat, corrected : Nat]
    \cup [success : Nat, failure : Nat, triaged : SUBSET Cases] \cup [none : {0}]
KeysOf(j) == IF j \in EltRebuilds THEN EltKeys ELSE ApiKeys
Cell == [state : {"unread", "current", "behind"}, columns : ColumnSet]
ReadSet == [Tables -> Cell]
SnapshotRow == [by : Jobs, read : ReadSet]

Span == [from : Days \cup {0}, day : Days \cup {0}, to : Days \cup {0}]

RebuildTypes ==
  /\ TypeOK
  /\ seen \in [Jobs -> ReadSet]
  /\ snapshots \in [Days -> SnapshotRow \cup {NoSnapshot}]
  /\ span \in [Jobs -> Span]
  /\ IsFiniteSet(results) /\ IsFiniteSet(reviews)

\* What a read of table t for day d by job j returns now.
ColumnsOf(j, d, t) ==
  IF t = "reviews" THEN ReviewColumns(ReviewsOf({d}))
  ELSE IF t = "results" THEN ResultColumns(ResultsOf({d}))
  ELSE IF j \in EltRebuilds THEN EltCases(d) ELSE ApiCases(d)

\* What was counted of the cases adds up, though it may be behind; what is not
\* behind is what the tables hold.
Counted(j, read) ==
  LET cases == read["cases"].columns
  IN  /\ cases \in CaseRecord(KeysOf(j))
      /\ cases.found = {} => \A k \in KeysOf(j) : cases.byDepartment[k] = 0

ReadTrue(j, d, read) ==
  /\ read["cases"].state # "unread" => Counted(j, read)
  /\ \A t \in Tables : read[t].state = "current" => read[t].columns = ColumnsOf(j, d, t)

\* A job between two reads; undisturbed, nothing it has read is behind.
JobTrue(j) ==
  /\ rebuilding[j] \notin {"read", "write"} => seen[j] = NotSeen
  /\ rebuilding[j] \in JobSteps \cup {"done"} =>
       /\ {span[j].from, span[j].day, span[j].to} \subseteq Days
       /\ span[j].from <= span[j].day /\ span[j].day <= span[j].to
       /\ j \in EltRebuilds => span[j].from = span[j].to
  /\ rebuilding[j] = "write" => \A t \in Tables : seen[j][t].state # "unread"
  /\ rebuilding[j] \in {"read", "write"} /\ j \notin disturbed =>
       \A t \in Tables : seen[j][t].state # "behind"
  /\ rebuilding[j] = "event" => j \in Rebuilds
  /\ ReadTrue(j, span[j].day, seen[j])

SnapshotTrue(d) ==
  snapshots[d] # NoSnapshot =>
    /\ \A t \in Tables : snapshots[d].read[t].state # "unread"
    /\ ReadTrue(snapshots[d].by, d, snapshots[d].read)

\* A range is rebuilt day by day: those before the day at hand are written, by
\* this rebuild and still current unless something came in between.
Written(j, d) ==
  /\ snapshots[d] # NoSnapshot
  /\ rebuilding[j] \in JobSteps /\ j \notin disturbed =>
       /\ snapshots[d].by = j
       /\ \A t \in Tables : snapshots[d].read[t].state = "current"

DaysDone(j) ==
  /\ rebuilding[j] \in {"read", "write"} =>
       \A d \in Days : span[j].from <= d /\ d < span[j].day => Written(j, d)
  /\ rebuilding[j] \in {"event", "done"} =>
       \A d \in Days : span[j].from <= d /\ d <= span[j].to => Written(j, d)

ReportInv ==
  /\ RebuildTypes
  /\ \A j \in Jobs : JobTrue(j)
  /\ \A d \in Days : SnapshotTrue(d)
  /\ \A j \in Rebuilds : DaysDone(j)
  /\ DepartmentRowsCover

-----------------------------------------------------------------------------
(* What is counted.                                                        *)

LEMMA NoSnapshotDiffers == NoSnapshot \notin SnapshotRow
<1> SUFFICES ASSUME NoSnapshot \in SnapshotRow PROVE FALSE
  OBVIOUS
<1>1. DOMAIN NoSnapshot = {"by", "read"}
  BY DEF SnapshotRow
<1>2. DOMAIN NoSnapshot = {"by"}
  BY DEF NoSnapshot
<1> QED BY <1>1, <1>2

LEMMA NotSeenRead == NotSeen \in ReadSet /\ \A t \in Tables : NotSeen[t].state = "unread"
BY DEF NotSeen, ReadSet, Cell, ColumnSet

\* What was read is current until it is behind, and never changes.
LEMMA BehindFacts ==
  ASSUME NEW j, NEW read \in ReadSet, NEW d, NEW keys
  PROVE  /\ Behind(j, read, d, keys) \in ReadSet
         /\ \A t \in Tables :
              /\ Behind(j, read, d, keys)[t].columns = read[t].columns
              /\ Behind(j, read, d, keys)[t].state = "unread" <=> read[t].state = "unread"
              /\ Behind(j, read, d, keys)[t].state = "current" <=>
                   read[t].state = "current" /\ ~Outdated(j, t, d, keys)
<1> DEFINE cell(t) == IF Outdated(j, t, d, keys) /\ read[t].state = "current"
                      THEN [read[t] EXCEPT !.state = "behind"] ELSE read[t]
<1>1. ASSUME NEW t \in Tables
      PROVE  /\ cell(t) \in Cell /\ cell(t).columns = read[t].columns
             /\ cell(t).state = IF Outdated(j, t, d, keys) /\ read[t].state = "current"
                                THEN "behind" ELSE read[t].state
  <2>1. read[t] \in Cell
    BY DEF ReadSet
  <2> QED BY <2>1 DEF Cell
<1>2. Behind(j, read, d, keys) = [t \in Tables |-> cell(t)]
  BY DEF Behind
<1> HIDE DEF cell
<1>3. /\ Behind(j, read, d, keys) \in ReadSet
      /\ \A t \in Tables : Behind(j, read, d, keys)[t] = cell(t)
  BY <1>1, <1>2 DEF ReadSet
<1> QED BY <1>1, <1>3

LEMMA CardinalityOfCases ==
  ASSUME NEW cs \in SUBSET Cases
  PROVE  /\ IsFiniteSet(cs) /\ Cardinality(cs) \in 0..Cardinality(Cases)
         /\ Cardinality(cs) \in Nat /\ Cardinality(Cases) \in Nat
<1>1. IsFiniteSet(Cases)
  BY RebuildAssumption
<1>2. IsFiniteSet(cs) /\ Cardinality(cs) <= Cardinality(Cases)
  BY <1>1, FS_Subset
<1> QED BY <1>1, <1>2, FS_CardinalityType

LEMMA CaseColumnsCounted ==
  ASSUME NEW cs \in SUBSET Cases, NEW key, NEW keys, NEW triaged \in SUBSET Cases
  PROVE  /\ CaseColumns(cs, key, keys, triaged) \in CaseRecord(keys)
         /\ CaseColumns(cs, key, keys, triaged).found = {} =>
              \A k \in keys : CaseColumns(cs, key, keys, triaged).byDepartment[k] = 0
<1> DEFINE columns == CaseColumns(cs, key, keys, triaged)
<1>1. /\ \A k : Cardinality({c \in cs : status[c] = k}) \in Nat
      /\ \A k : Cardinality({c \in cs : key[c] = k}) \in 0..Cardinality(Cases)
  BY CardinalityOfCases
<1>2. CountBy(cs, status, Statuses) \in [Statuses -> Nat]
  BY <1>1 DEF CountBy
<1>3. /\ CountBy(cs, key, keys) \in [keys -> 0..Cardinality(Cases)]
      /\ \A k \in keys : CountBy(cs, key, keys)[k] = Cardinality({c \in cs : key[c] = k})
  BY <1>1 DEF CountBy
<1>4. cs \cap closed \in SUBSET Cases
  OBVIOUS
<1>5. columns = [found |-> cs, closed |-> cs \cap closed,
                 byStatus |-> CountBy(cs, status, Statuses),
                 byDepartment |-> CountBy(cs, key, keys), triaged |-> triaged]
  BY DEF CaseColumns
<1>6. columns \in CaseRecord(keys)
  BY <1>2, <1>3, <1>4, <1>5 DEF CaseRecord
<1>7. ASSUME cs = {}, NEW k \in keys
      PROVE  CountBy(cs, key, keys)[k] = 0
  <2>1. {c \in cs : key[c] = k} = {}
    BY <1>7
  <2> QED BY <1>3, <2>1, FS_EmptySet
<1> QED BY <1>5, <1>6, <1>7

LEMMA ColumnsCounted ==
  ASSUME RebuildTypes, NEW j, NEW d, NEW t \in Tables
  PROVE  /\ ColumnsOf(j, d, t) \in ColumnSet
         /\ t = "cases" =>
              /\ ColumnsOf(j, d, t) \in CaseRecord(KeysOf(j))
              /\ ColumnsOf(j, d, t).found = {} =>
                   \A k \in KeysOf(j) : ColumnsOf(j, d, t).byDepartment[k] = 0
<1>1. IsFiniteSet(results) /\ IsFiniteSet(reviews)
  BY DEF RebuildTypes
<1>2. CASE t = "reviews"
  <2> DEFINE yes == {r \in ReviewsOf({d}) : r[3]}
             no == {r \in ReviewsOf({d}) : ~r[3]}
  <2>1. yes \in SUBSET reviews /\ no \in SUBSET reviews
    BY DEF ReviewsOf
  <2>2. Cardinality(yes) \in Nat /\ Cardinality(no) \in Nat
    BY <1>1, <2>1, FS_Subset, FS_CardinalityType
  <2>3. ColumnsOf(j, d, t) = [accepted |-> Cardinality(yes), corrected |-> Cardinality(no)]
    BY <1>2 DEF ColumnsOf, ReviewColumns
  <2> QED BY <1>2, <2>2, <2>3 DEF ColumnSet
<1>3. CASE t = "results"
  <2> DEFINE good == {r \in ResultsOf({d}) : r[3] = "completed"}
             bad == {r \in ResultsOf({d}) : r[3] = "failed"}
             triaged == {r[1] : r \in good}
  <2>1. good \in SUBSET results /\ bad \in SUBSET results
    BY DEF ResultsOf
  <2>2. Cardinality(good) \in Nat /\ Cardinality(bad) \in Nat
    BY <1>1, <2>1, FS_Subset, FS_CardinalityType
  <2>3. triaged \in SUBSET Cases
    <3>1. \A r \in results : r[1] \in Cases
      BY DEF RebuildTypes, TypeOK
    <3> QED BY <2>1, <3>1
  <2>4. ColumnsOf(j, d, t) = [success |-> Cardinality(good), failure |-> Cardinality(bad),
                              triaged |-> triaged]
    BY <1>3 DEF ColumnsOf, ResultColumns
  <2> HIDE DEF good, bad, triaged
  <2> QED BY <1>3, <2>2, <2>3, <2>4 DEF ColumnSet
<1>4. CASE t = "cases"
  <2>1. CasesOf({d}) \in SUBSET Cases /\ Triaged(CasesOf({d})) \in SUBSET Cases
        /\ {} \in SUBSET Cases
    BY DEF CasesOf, Triaged
  <2> DEFINE cs == CasesOf({d})
             eltKey == [c \in cs |-> EltKey(department[c])]
             apiKey == [c \in cs |-> ApiKey(department[c])]
  <2>2. PICK key, triaged :
          /\ triaged \in SUBSET Cases
          /\ ColumnsOf(j, d, t) = CaseColumns(cs, key, KeysOf(j), triaged)
    <3>1. CASE j \in EltRebuilds
      <4>1. ColumnsOf(j, d, t) = CaseColumns(cs, eltKey, KeysOf(j), {})
        BY <1>4, <3>1 DEF ColumnsOf, EltCases, KeysOf
      <4> HIDE DEF eltKey, cs
      <4> QED BY <4>1
    <3>2. CASE j \notin EltRebuilds
      <4>1. ColumnsOf(j, d, t) = CaseColumns(cs, apiKey, KeysOf(j), Triaged(cs))
        BY <1>4, <3>2 DEF ColumnsOf, ApiCases, KeysOf
      <4>2. Triaged(cs) \in SUBSET Cases
        BY <2>1
      <4> HIDE DEF apiKey, cs
      <4> QED BY <4>1, <4>2
    <3> QED BY <3>1, <3>2
  <2>3. /\ ColumnsOf(j, d, t) \in CaseRecord(KeysOf(j))
        /\ ColumnsOf(j, d, t).found = {} =>
             \A k \in KeysOf(j) : ColumnsOf(j, d, t).byDepartment[k] = 0
    BY <2>1, <2>2, CaseColumnsCounted
  <2> QED BY <2>3 DEF ColumnSet, KeysOf
<1> QED BY <1>2, <1>3, <1>4 DEF Tables

-----------------------------------------------------------------------------
(* The case work.                                                          *)

TableTypes ==
  /\ today \in Days
  /\ created \in [Cases -> Days \cup {0}]
  /\ status \in [Cases -> Statuses]
  /\ closed \subseteq Cases /\ pending \subseteq Cases
  /\ department \in [Cases -> Places]
  /\ results \subseteq Cases \X Days \X {"completed", "failed"}
  /\ reviews \subseteq Cases \X Days \X BOOLEAN
  /\ IsFiniteSet(results) /\ IsFiniteSet(reviews)

LEMMA EmptyRead ==
  ASSUME NEW j, NEW d
  PROVE  ReadTrue(j, d, NotSeen)
BY NotSeenRead DEF ReadTrue, Tables

\* What a read knows does not get lost in the change of other tables or days.
LEMMA ReadStays ==
  ASSUME NEW j \in Jobs, NEW d \in Days, NEW read \in ReadSet, NEW keys, ReadTrue(j, d, read),
         \A t \in Tables :
           ~Outdated(j, t, d, keys) => ColumnsOf(j, d, t)' = ColumnsOf(j, d, t)
  PROVE  ReadTrue(j, d, Behind(j, read, d, keys))'
<1> DEFINE later == Behind(j, read, d, keys)
<1>1. \A t \in Tables : /\ later[t].columns = read[t].columns
                        /\ later[t].state = "unread" <=> read[t].state = "unread"
                        /\ later[t].state = "current" <=>
                             read[t].state = "current" /\ ~Outdated(j, t, d, keys)
  BY BehindFacts
<1>2. "cases" \in Tables
  BY DEF Tables
<1> HIDE DEF later
<1>3. later["cases"].state # "unread" => Counted(j, later)
  BY <1>1, <1>2 DEF ReadTrue, Counted
<1>4. ASSUME NEW t \in Tables, later[t].state = "current"
      PROVE  later[t].columns = ColumnsOf(j, d, t)'
  BY <1>1, <1>4 DEF ReadTrue
<1>5. Counted(j, later)' <=> Counted(j, later)
  BY DEF Counted, CaseRecord
<1>6. ReadTrue(j, d, later)'
  BY <1>3, <1>4, <1>5 DEF ReadTrue
<1> QED BY <1>6 DEF later

LEMMA ChangesKeep ==
  ASSUME ReportInv, NEW keys, Changes(keys), TableTypes',
         \A j \in Jobs, d \in Days, t \in Tables :
           ~Outdated(j, t, d, keys) => ColumnsOf(j, d, t)' = ColumnsOf(j, d, t)
  PROVE  ReportInv'
<1>1. RebuildTypes /\ TypeOK /\ seen \in [Jobs -> ReadSet]
      /\ snapshots \in [Days -> SnapshotRow \cup {NoSnapshot}] /\ span \in [Jobs -> Span]
  BY DEF ReportInv, RebuildTypes
<1>2. UNCHANGED <<departmentRows, rebuilding, span, completed>>
  BY DEF Changes
<1>3. changes' \in 0..MaxChanges
  BY <1>1, RebuildAssumption DEF Changes, TypeOK
<1>4. /\ seen' \in [Jobs -> ReadSet]
      /\ \A j \in Jobs : seen'[j] = Behind(j, seen[j], span[j].day, keys)
  <2>1. seen' = [j \in Jobs |-> Behind(j, seen[j], span[j].day, keys)]
    BY DEF Changes
  <2>2. \A j \in Jobs : Behind(j, seen[j], span[j].day, keys) \in ReadSet
    BY <1>1, BehindFacts
  <2> QED BY <2>1, <2>2
<1>5. ASSUME NEW d \in Days, snapshots[d] # NoSnapshot
      PROVE  /\ snapshots'[d] \in SnapshotRow /\ snapshots'[d].by = snapshots[d].by
             /\ snapshots'[d].read = Behind(snapshots[d].by, snapshots[d].read, d, keys)
  <2>1. snapshots[d] \in SnapshotRow
    BY <1>1, <1>5
  <2>2. Behind(snapshots[d].by, snapshots[d].read, d, keys) \in ReadSet
    BY <2>1, BehindFacts DEF SnapshotRow
  <2>3. snapshots'[d] = [snapshots[d] EXCEPT !.read = Behind(snapshots[d].by, snapshots[d].read, d, keys)]
    BY <1>5 DEF Changes
  <2> QED BY <2>1, <2>2, <2>3 DEF SnapshotRow
<1>6. \A d \in Days : snapshots[d] = NoSnapshot => snapshots'[d] = NoSnapshot
  BY DEF Changes
<1>7. snapshots' \in [Days -> SnapshotRow \cup {NoSnapshot}]
  <2>1. DOMAIN snapshots' = Days /\ snapshots' = [d \in Days |-> snapshots'[d]]
    BY DEF Changes
  <2> QED BY <1>5, <1>6, <2>1
<1>8. /\ disturbed' = disturbed \cup {j \in Jobs : Active(j)}
  BY DEF Changes
<1>9. RebuildTypes'
  <2>1. TypeOK'
    BY <1>1, <1>2, <1>3, <1>8 DEF TypeOK, TableTypes
  <2> QED BY <1>1, <1>2, <1>4, <1>7, <2>1 DEF RebuildTypes, TableTypes
<1>10. ASSUME NEW j \in Jobs
       PROVE  JobTrue(j)'
  <2>1. JobTrue(j)
    BY DEF ReportInv
  <2>2. PICK d : d = span[j].day
    OBVIOUS
  <2>3. seen[j] \in ReadSet /\ seen'[j] = Behind(j, seen[j], d, keys)
    BY <1>1, <1>4, <2>2
  <2>4. CASE rebuilding[j] \in {"read", "write"}
    <3>1. d \in Days /\ ReadTrue(j, d, seen[j])
      BY <2>1, <2>2, <2>4 DEF JobTrue, JobSteps
    <3>2. PICK read \in ReadSet : read = seen[j]
      BY <2>3
    <3>3. PICK later : later = Behind(j, read, d, keys)
      OBVIOUS
    <3>4. ReadTrue(j, d, later)' /\ seen'[j] = later
      <4>1. ReadTrue(j, d, Behind(j, read, d, keys))'
        BY <3>1, <3>2, ReadStays
      <4> QED BY <2>3, <3>2, <3>3, <4>1
    <3>5. \A t \in Tables : /\ later[t].state = "unread" <=> read[t].state = "unread"
                            /\ later[t].state = "current" <=>
                                 read[t].state = "current" /\ ~Outdated(j, t, d, keys)
      BY <3>3, BehindFacts
    <3>6. j \in disturbed'
      BY <1>8, <2>4 DEF Active
    <3>7. ReadTrue(j, span[j].day, seen[j])'
      BY <1>2, <2>2, <3>4 DEF ReadTrue
    <3>8. /\ rebuilding'[j] = rebuilding[j] /\ span'[j] = span[j]
          /\ rebuilding[j] # "event"
      BY <1>2, <2>4
    <3>9. rebuilding[j] = "write" => \A t \in Tables : seen'[j][t].state # "unread"
      BY <2>1, <3>2, <3>4, <3>5 DEF JobTrue
    <3> QED BY <2>1, <2>4, <3>6, <3>7, <3>8, <3>9 DEF JobTrue
  <2>5. CASE rebuilding[j] \notin {"read", "write"}
    <3>1. seen[j] = NotSeen
      BY <2>1, <2>5 DEF JobTrue
    <3>2. seen'[j] = NotSeen
      <4>1. PICK read \in ReadSet : read = NotSeen
        BY NotSeenRead
      <4>2. Behind(j, read, d, keys) = NotSeen
        BY <4>1, NotSeenRead DEF Behind, NotSeen
      <4> QED BY <2>3, <3>1, <4>1, <4>2
    <3>3. ReadTrue(j, d, NotSeen)'
      BY NotSeenRead DEF ReadTrue, Tables
    <3>4. ReadTrue(j, span[j].day, seen[j])'
      BY <1>2, <2>2, <3>2, <3>3 DEF ReadTrue
    <3>5. rebuilding'[j] = rebuilding[j] /\ span'[j] = span[j]
      BY <1>2
    <3> QED BY <2>1, <2>5, <3>2, <3>4, <3>5 DEF JobTrue
  <2> QED BY <2>4, <2>5
<1>11. ASSUME NEW d \in Days
       PROVE  SnapshotTrue(d)'
  <2> SUFFICES ASSUME snapshots'[d] # NoSnapshot PROVE SnapshotTrue(d)'
    BY DEF SnapshotTrue
  <2>1. snapshots[d] # NoSnapshot /\ snapshots[d] \in SnapshotRow
    BY <1>1, <1>6
  <2>2. PICK read \in ReadSet, by \in Jobs : read = snapshots[d].read /\ by = snapshots[d].by
    BY <2>1 DEF SnapshotRow
  <2>3. PICK later : later = Behind(by, read, d, keys)
    OBVIOUS
  <2>4. snapshots'[d].read = later /\ snapshots'[d].by = by
    BY <1>5, <2>1, <2>2, <2>3
  <2>5. ReadTrue(by, d, read) /\ \A t \in Tables : read[t].state # "unread"
    BY <2>1, <2>2 DEF ReportInv, SnapshotTrue
  <2>6. ReadTrue(by, d, Behind(by, read, d, keys))'
    BY <2>5, ReadStays
  <2>7. ReadTrue(by, d, later)'
    BY <2>3, <2>6
  <2>8. \A t \in Tables : later[t].state # "unread"
    BY <2>3, <2>5, BehindFacts
  <2> QED BY <2>4, <2>7, <2>8 DEF SnapshotTrue, ReadTrue
<1>12. ASSUME NEW j \in Rebuilds
       PROVE  DaysDone(j)'
  <2>1. DaysDone(j) /\ rebuilding'[j] = rebuilding[j] /\ span'[j] = span[j] /\ j \in Jobs
    BY <1>2 DEF ReportInv, Jobs
  <2>2. rebuilding[j] \in JobSteps => j \in disturbed'
    BY <1>8, <2>1 DEF Active, JobSteps
  <2>3. ASSUME NEW d \in Days, Written(j, d)
        PROVE  Written(j, d)'
    <3>1. snapshots'[d] # NoSnapshot
      BY <1>5, <2>3, NoSnapshotDiffers DEF Written
    <3> QED BY <2>1, <2>2, <3>1 DEF Written
  <2> QED BY <2>1, <2>3 DEF DaysDone
<1>13. DepartmentRowsCover'
  <2> SUFFICES ASSUME NEW d \in Days, snapshots'[d] # NoSnapshot,
                      snapshots'[d].by \in EltRebuilds, NEW k \in EltKeys
               PROVE  LET counts == snapshots'[d].read["cases"].columns.byDepartment
                      IN  counts[k] > 0 => departmentRows'[<<d, k>>] = counts[k]
    BY DEF DepartmentRowsCover
  <2>1. snapshots[d] # NoSnapshot /\ snapshots[d] \in SnapshotRow
    BY <1>1, <1>6
  <2>2. "cases" \in Tables /\ snapshots[d].read \in ReadSet
    BY <2>1 DEF Tables, SnapshotRow
  <2>3. snapshots'[d].read["cases"].columns = snapshots[d].read["cases"].columns
    <3>1. PICK read \in ReadSet : read = snapshots[d].read
      BY <2>2
    <3>2. PICK later : later = Behind(snapshots[d].by, read, d, keys)
      OBVIOUS
    <3>3. \A t \in Tables : /\ later[t].columns = read[t].columns
                            /\ later[t].state = "unread" <=> read[t].state = "unread"
                            /\ later[t].state = "current" <=>
                                 read[t].state = "current" /\ ~Outdated(snapshots[d].by, t, d, keys)
      BY <3>2, BehindFacts
    <3> QED BY <1>5, <2>1, <2>2, <3>1, <3>2, <3>3
  <2>4. snapshots'[d].by = snapshots[d].by
    BY <1>5, <2>1
  <2> QED BY <1>2, <2>1, <2>3, <2>4 DEF ReportInv, DepartmentRowsCover
<1> QED BY <1>9, <1>10, <1>11, <1>12, <1>13 DEF ReportInv

\* The cases of a day are all that counts, for the API also which of them have a
\* result.
LEMMA SameCases ==
  ASSUME NEW d, CasesOf({d})' = CasesOf({d}),
         \A c \in CasesOf({d}) : /\ status'[c] = status[c] /\ department'[c] = department[c]
                                 /\ c \in closed' <=> c \in closed
  PROVE  /\ EltCases(d)' = EltCases(d)
         /\ Triaged(CasesOf({d}))' = Triaged(CasesOf({d})) => ApiCases(d)' = ApiCases(d)
<1> DEFINE cs == CasesOf({d})
<1>1. cs \cap closed' = cs \cap closed
  OBVIOUS
<1>2. \A k \in Statuses : {c \in cs : status'[c] = k} = {c \in cs : status[c] = k}
  OBVIOUS
<1>3. CountBy(cs, status, Statuses)' = CountBy(cs, status, Statuses)
  BY <1>2 DEF CountBy
<1>4. /\ [c \in cs |-> EltKey(department'[c])] = [c \in cs |-> EltKey(department[c])]
      /\ [c \in cs |-> ApiKey(department'[c])] = [c \in cs |-> ApiKey(department[c])]
  BY DEF EltKey, ApiKey
<1>5. EltCases(d)' = EltCases(d)
  <2>1. PICK key : key = [c \in cs |-> EltKey(department[c])]
    OBVIOUS
  <2>2. /\ EltCases(d) = CaseColumns(cs, key, EltKeys, {})
        /\ EltCases(d)' = CaseColumns(cs, key, EltKeys, {})'
    BY <1>4, <2>1 DEF EltCases
  <2> QED BY <1>1, <1>3, <2>2 DEF CaseColumns, CountBy
<1>6. ASSUME Triaged(cs)' = Triaged(cs)
      PROVE  ApiCases(d)' = ApiCases(d)
  <2>1. PICK key : key = [c \in cs |-> ApiKey(department[c])]
    OBVIOUS
  <2>2. /\ ApiCases(d) = CaseColumns(cs, key, ApiKeys, Triaged(cs))
        /\ ApiCases(d)' = CaseColumns(cs, key, ApiKeys, Triaged(cs))'
    BY <1>4, <2>1 DEF ApiCases
  <2> QED BY <1>1, <1>3, <1>6, <2>2 DEF CaseColumns, CountBy
<1> QED BY <1>5, <1>6

LEMMA SameTriage ==
  ASSUME TableTypes, TableTypes', NEW d, CasesOf({d})' = CasesOf({d}),
         \A c \in CasesOf({d}) : \A e, outcome :
           <<c, e, outcome>> \in results' <=> <<c, e, outcome>> \in results
  PROVE  Triaged(CasesOf({d}))' = Triaged(CasesOf({d}))
<1>1. \A r \in results : r = <<r[1], r[2], r[3]>>
  BY DEF TableTypes
<1>2. \A r \in results' : r = <<r[1], r[2], r[3]>>
  BY DEF TableTypes
<1> QED BY <1>1, <1>2 DEF Triaged

\* Which tables and days a change leaves as they are.
LEMMA UntouchedColumns ==
  ASSUME TableTypes, TableTypes', NEW keys,
         \A d \in Days : <<"cases", d>> \notin keys =>
           /\ CasesOf({d})' = CasesOf({d})
           /\ \A c \in CasesOf({d}) : /\ status'[c] = status[c] /\ department'[c] = department[c]
                                      /\ c \in closed' <=> c \in closed
           /\ <<"triage", d>> \notin keys =>
                \A c \in CasesOf({d}) : \A e, outcome :
                  <<c, e, outcome>> \in results' <=> <<c, e, outcome>> \in results,
         \A d \in Days : <<"results", d>> \notin keys => ResultsOf({d})' = ResultsOf({d}),
         \A d \in Days : <<"reviews", d>> \notin keys => ReviewsOf({d})' = ReviewsOf({d}),
         NEW j \in Jobs, NEW d \in Days, NEW t \in Tables, ~Outdated(j, t, d, keys)
  PROVE  ColumnsOf(j, d, t)' = ColumnsOf(j, d, t)
<1>1. <<t, d>> \notin keys /\ (j \in Rebuilds /\ t = "cases" => <<"triage", d>> \notin keys)
  BY DEF Outdated
<1>2. CASE t = "cases"
  <2>1. EltCases(d)' = EltCases(d)
    BY <1>1, <1>2, SameCases
  <2>2. j \in Rebuilds => ApiCases(d)' = ApiCases(d)
    <3>1. j \in Rebuilds => Triaged(CasesOf({d}))' = Triaged(CasesOf({d}))
      BY <1>1, <1>2, SameTriage
    <3> QED BY <1>1, <1>2, <3>1, SameCases
  <2> QED BY <1>2, <2>1, <2>2 DEF ColumnsOf, Jobs
<1>3. CASE t = "results"
  BY <1>1, <1>3 DEF ColumnsOf, ResultColumns
<1>4. CASE t = "reviews"
  BY <1>1, <1>4 DEF ColumnsOf, ReviewColumns
<1> QED BY <1>2, <1>3, <1>4 DEF Tables

LEMMA ReportTables ==
  ASSUME ReportInv
  PROVE  TableTypes /\ {"new", "triaged", "closed"} \subseteq Statuses /\ Unassigned \in Places
BY RebuildAssumption DEF ReportInv, RebuildTypes, TypeOK, TableTypes, Places

LEMMA CreateCaseKeeps ==
  ASSUME ReportInv, NEW c \in Cases, CreateCase(c)
  PROVE  ReportInv'
<1>1. TableTypes
  BY ReportTables
<1>2. PICK keys : keys = {<<"cases", today>>}
  OBVIOUS
<1>3. /\ Changes(keys) /\ created[c] = 0
      /\ created' = [created EXCEPT ![c] = today]
      /\ UNCHANGED <<today, status, closed, department, pending, results, reviews>>
  BY <1>2 DEF CreateCase
<1>4. TableTypes'
  BY <1>1, <1>3 DEF TableTypes
<1>5. ASSUME NEW d \in Days, <<"cases", d>> \notin keys
      PROVE  CasesOf({d})' = CasesOf({d})
  <2>1. d # today /\ d # 0
    BY <1>2, <1>5, RebuildAssumption
  <2>2. \A x \in Cases : created'[x] = d <=> created[x] = d
    BY <1>1, <1>3, <2>1 DEF TableTypes
  <2> QED BY <2>2 DEF CasesOf
<1>6. \A d \in Days : ResultsOf({d})' = ResultsOf({d}) /\ ReviewsOf({d})' = ReviewsOf({d})
  BY <1>3 DEF ResultsOf, ReviewsOf
<1>7. \A j \in Jobs, d \in Days, t \in Tables :
        ~Outdated(j, t, d, keys) => ColumnsOf(j, d, t)' = ColumnsOf(j, d, t)
  BY <1>1, <1>3, <1>4, <1>5, <1>6, UntouchedColumns
<1> QED BY <1>3, <1>4, <1>7, ChangesKeep

LEMMA ChangeStatusKeeps ==
  ASSUME ReportInv, NEW c \in Cases, NEW s \in Statuses, ChangeStatus(c, s)
  PROVE  ReportInv'
<1>1. TableTypes
  BY ReportTables
<1>2. PICK keys : keys = {<<"cases", created[c]>>}
  OBVIOUS
<1>3. /\ Changes(keys) /\ status' = [status EXCEPT ![c] = s]
      /\ closed' \in {closed \cup {c}, closed \ {c}}
      /\ UNCHANGED <<today, created, department, pending, results, reviews>>
  BY <1>2 DEF ChangeStatus
<1>4. TableTypes'
  BY <1>1, <1>3 DEF TableTypes
<1>5. ASSUME NEW d \in Days, <<"cases", d>> \notin keys, NEW x \in CasesOf({d})
      PROVE  status'[x] = status[x] /\ (x \in closed' <=> x \in closed)
  <2>1. x # c /\ x \in Cases
    BY <1>2, <1>5 DEF CasesOf
  <2> QED BY <1>1, <1>3, <2>1 DEF TableTypes
<1>6. \A d \in Days : /\ ResultsOf({d})' = ResultsOf({d}) /\ ReviewsOf({d})' = ReviewsOf({d})
                      /\ CasesOf({d})' = CasesOf({d})
  BY <1>3 DEF ResultsOf, ReviewsOf, CasesOf
<1>7. \A j \in Jobs, d \in Days, t \in Tables :
        ~Outdated(j, t, d, keys) => ColumnsOf(j, d, t)' = ColumnsOf(j, d, t)
  BY <1>1, <1>3, <1>4, <1>5, <1>6, UntouchedColumns
<1> QED BY <1>3, <1>4, <1>7, ChangesKeep

LEMMA StoreResultKeeps ==
  ASSUME ReportInv, NEW c \in Cases, NEW outcome \in {"completed", "failed"},
         StoreResult(c, outcome)
  PROVE  ReportInv'
<1>1. TableTypes
  BY ReportTables
<1>2. PICK keys, new : /\ keys = {<<"results", today>>, <<"triage", created[c]>>}
                       /\ new = <<c, today, outcome>>
  OBVIOUS
<1>3. /\ Changes(keys) /\ results' = results \cup {new}
      /\ UNCHANGED <<today, created, status, closed, department, pending, reviews>>
  BY <1>2 DEF StoreResult
<1>4. TableTypes'
  <2>1. IsFiniteSet(results \cup {new})
    BY <1>1, FS_AddElement DEF TableTypes
  <2>2. new \in Cases \X Days \X {"completed", "failed"}
    BY <1>1, <1>2 DEF TableTypes
  <2> QED BY <1>1, <1>3, <2>1, <2>2 DEF TableTypes
<1>5. ASSUME NEW d \in Days, <<"triage", d>> \notin keys, NEW x \in CasesOf({d}), NEW e, NEW how
      PROVE  <<x, e, how>> \in results' <=> <<x, e, how>> \in results
  <2>1. x # c
    BY <1>2, <1>5 DEF CasesOf
  <2> QED BY <1>2, <1>3, <2>1
<1>6. ASSUME NEW d \in Days, <<"results", d>> \notin keys
      PROVE  ResultsOf({d})' = ResultsOf({d})
  <2>1. new[2] # d
    BY <1>2, <1>6
  <2> QED BY <1>3, <2>1 DEF ResultsOf
<1>7. \A d \in Days : ReviewsOf({d})' = ReviewsOf({d}) /\ CasesOf({d})' = CasesOf({d})
  BY <1>3 DEF ReviewsOf, CasesOf
<1>8. \A j \in Jobs, d \in Days, t \in Tables :
        ~Outdated(j, t, d, keys) => ColumnsOf(j, d, t)' = ColumnsOf(j, d, t)
  BY <1>1, <1>3, <1>4, <1>5, <1>6, <1>7, UntouchedColumns
<1> QED BY <1>3, <1>4, <1>8, ChangesKeep

LEMMA StoreReviewKeeps ==
  ASSUME ReportInv, NEW c \in Cases, NEW accepted \in BOOLEAN, StoreReview(c, accepted)
  PROVE  ReportInv'
<1>1. TableTypes
  BY ReportTables
<1>2. PICK keys, new : keys = {<<"reviews", today>>} /\ new = <<c, today, accepted>>
  OBVIOUS
<1>3. /\ Changes(keys) /\ reviews' = reviews \cup {new} /\ pending' = pending \cup {c}
      /\ UNCHANGED <<today, created, status, closed, department, results>>
  BY <1>2 DEF StoreReview
<1>4. TableTypes'
  <2>1. IsFiniteSet(reviews \cup {new})
    BY <1>1, FS_AddElement DEF TableTypes
  <2>2. new \in Cases \X Days \X BOOLEAN
    BY <1>1, <1>2 DEF TableTypes
  <2> QED BY <1>1, <1>3, <2>1, <2>2 DEF TableTypes
<1>5. ASSUME NEW d \in Days, <<"reviews", d>> \notin keys
      PROVE  ReviewsOf({d})' = ReviewsOf({d})
  <2>1. new[2] # d
    BY <1>2, <1>5
  <2> QED BY <1>3, <2>1 DEF ReviewsOf
<1>6. \A d \in Days : ResultsOf({d})' = ResultsOf({d}) /\ CasesOf({d})' = CasesOf({d})
  BY <1>3 DEF ResultsOf, CasesOf
<1>7. \A j \in Jobs, d \in Days, t \in Tables :
        ~Outdated(j, t, d, keys) => ColumnsOf(j, d, t)' = ColumnsOf(j, d, t)
  BY <1>1, <1>3, <1>4, <1>5, <1>6, UntouchedColumns
<1> QED BY <1>3, <1>4, <1>7, ChangesKeep

LEMMA ApplyReviewKeeps ==
  ASSUME ReportInv, NEW c \in Cases, NEW p \in Departments, ApplyReview(c, p)
  PROVE  ReportInv'
<1>1. TableTypes /\ "triaged" \in Statuses /\ p \in Places
  BY ReportTables DEF Places
<1>2. PICK keys : keys = {<<"cases", created[c]>>}
  OBVIOUS
<1>3. /\ Changes(keys) /\ status' = [status EXCEPT ![c] = "triaged"]
      /\ department' = [department EXCEPT ![c] = p] /\ pending' = pending \ {c}
      /\ UNCHANGED <<today, created, closed, results, reviews>>
  BY <1>2 DEF ApplyReview
<1>4. TableTypes'
  BY <1>1, <1>3 DEF TableTypes
<1>5. ASSUME NEW d \in Days, <<"cases", d>> \notin keys, NEW x \in CasesOf({d})
      PROVE  status'[x] = status[x] /\ department'[x] = department[x]
  <2>1. x # c /\ x \in Cases
    BY <1>2, <1>5 DEF CasesOf
  <2> QED BY <1>1, <1>3, <2>1 DEF TableTypes
<1>6. \A d \in Days : /\ ResultsOf({d})' = ResultsOf({d}) /\ ReviewsOf({d})' = ReviewsOf({d})
                      /\ CasesOf({d})' = CasesOf({d})
  BY <1>3 DEF ResultsOf, ReviewsOf, CasesOf
<1>7. \A j \in Jobs, d \in Days, t \in Tables :
        ~Outdated(j, t, d, keys) => ColumnsOf(j, d, t)' = ColumnsOf(j, d, t)
  BY <1>1, <1>3, <1>4, <1>5, <1>6, UntouchedColumns
<1> QED BY <1>3, <1>4, <1>7, ChangesKeep

LEMMA DeleteCaseKeeps ==
  ASSUME ReportInv, NEW c \in Cases, DeleteCase(c)
  PROVE  ReportInv'
<1>1. TableTypes /\ "new" \in Statuses /\ Unassigned \in Places
  BY ReportTables
<1>2. PICK keys : keys = Tables \X Days
  OBVIOUS
<1>3. /\ Changes(keys)
      /\ created' = [created EXCEPT ![c] = 0] /\ status' = [status EXCEPT ![c] = "new"]
      /\ department' = [department EXCEPT ![c] = Unassigned]
      /\ closed' = closed \ {c} /\ pending' = pending \ {c}
      /\ results' = {r \in results : r[1] # c} /\ reviews' = {r \in reviews : r[1] # c}
      /\ today' = today
  BY <1>2 DEF DeleteCase
<1>4. TableTypes'
  <2>1. results' \in SUBSET results /\ reviews' \in SUBSET reviews
    BY <1>3
  <2>2. IsFiniteSet(results') /\ IsFiniteSet(reviews')
    BY <1>1, <2>1, FS_Subset DEF TableTypes
  <2> QED BY <1>1, <1>3, <2>1, <2>2 DEF TableTypes
<1>5. \A j \in Jobs, d \in Days, t \in Tables : Outdated(j, t, d, keys)
  BY <1>2 DEF Outdated
<1> QED BY <1>3, <1>4, <1>5, ChangesKeep

-----------------------------------------------------------------------------
(* The rebuilds.                                                           *)

LEMMA ColumnsAreOfDay ==
  ASSUME NEW j, NEW t
  PROVE  Columns(j, t) = ColumnsOf(j, span[j].day, t)
BY DEF Columns, ColumnsOf

LEMMA TablesCount ==
  ASSUME UNCHANGED tables, NEW j, NEW d, NEW t
  PROVE  ColumnsOf(j, d, t)' = ColumnsOf(j, d, t)
<1>1. UNCHANGED <<created, status, closed, department, results, reviews>>
  BY DEF tables
<1> QED BY <1>1 DEF ColumnsOf, ReviewColumns, ReviewsOf, ResultColumns, ResultsOf, EltCases,
           ApiCases, CaseColumns, CasesOf, Triaged, CountBy

LEMMA ReadsStay ==
  ASSUME UNCHANGED tables, NEW j, NEW d, NEW read
  PROVE  ReadTrue(j, d, read)' <=> ReadTrue(j, d, read)
BY TablesCount DEF ReadTrue, Counted, CaseRecord

LEMMA JobMoves ==
  ASSUME RebuildTypes, NEW j \in Jobs, NEW from, NEW to \in {"done", "failed"} \cup JobSteps,
         JobGoes(j, from, to)
  PROVE  /\ rebuilding[j] = from /\ rebuilding'[j] = to
         /\ rebuilding' \in [Jobs -> {"never", "idle", "done", "failed"} \cup JobSteps]
         /\ \A k \in Jobs \ {j} : rebuilding'[k] = rebuilding[k]
BY DEF JobGoes, RebuildTypes, TypeOK

\* A job knows the same when only others go on.
LEMMA OtherJobs ==
  ASSUME NEW k \in Jobs, JobTrue(k), UNCHANGED <<tables, rebuilding[k], span[k], seen[k]>>,
         disturbed \subseteq disturbed'
  PROVE  JobTrue(k)'
<1>1. UNCHANGED tables
  OBVIOUS
<1>2. PICK d, read : d = span[k].day /\ read = seen[k]
  OBVIOUS
<1>3. ReadTrue(k, d, read)'
  BY <1>1, <1>2, ReadsStay DEF JobTrue
<1>4. ReadTrue(k, span[k].day, seen[k])'
  BY <1>2, <1>3 DEF ReadTrue
<1> QED BY <1>4 DEF JobTrue

LEMMA SnapshotStays ==
  ASSUME NEW d \in Days, SnapshotTrue(d), UNCHANGED tables, snapshots'[d] = snapshots[d]
  PROVE  SnapshotTrue(d)'
<1>1. PICK by, read : by = snapshots[d].by /\ read = snapshots[d].read
  OBVIOUS
<1>2. ReadTrue(by, d, read)' <=> ReadTrue(by, d, read)
  BY ReadsStay
<1>3. ReadTrue(snapshots[d].by, d, snapshots[d].read)' <=> ReadTrue(by, d, read)'
  BY <1>1 DEF ReadTrue
<1> QED BY <1>1, <1>2, <1>3 DEF SnapshotTrue

\* A step of a job that writes no report.
LEMMA QuietStep ==
  ASSUME ReportInv, NEW j \in Jobs,
         UNCHANGED <<tables, snapshots, departmentRows, disturbed>>,
         \A k \in Jobs \ {j} : UNCHANGED <<rebuilding[k], span[k], seen[k]>>,
         rebuilding' \in [Jobs -> {"never", "idle", "done", "failed"} \cup JobSteps],
         seen' \in [Jobs -> ReadSet], span' \in [Jobs -> Span], completed' \subseteq Rebuilds,
         JobTrue(j)', j \in Rebuilds => DaysDone(j)'
  PROVE  ReportInv'
<1>1. RebuildTypes /\ TypeOK /\ UNCHANGED tables
  BY DEF ReportInv, RebuildTypes
<1>2. UNCHANGED <<changes, today, created, status, closed, department, pending, results, reviews>>
  BY DEF tables
<1>3. TypeOK'
  BY <1>1, <1>2 DEF TypeOK
<1>4. RebuildTypes'
  BY <1>1, <1>2, <1>3 DEF RebuildTypes
<1>5. ASSUME NEW k \in Jobs
      PROVE  JobTrue(k)'
  BY <1>1, OtherJobs DEF ReportInv
<1>6. ASSUME NEW d \in Days
      PROVE  SnapshotTrue(d)'
  BY <1>1, SnapshotStays DEF ReportInv
<1>7. ASSUME NEW k \in Rebuilds
      PROVE  DaysDone(k)'
  <2>1. CASE k = j
    BY <2>1
  <2>2. CASE k # j
    <3>1. DaysDone(k) /\ rebuilding'[k] = rebuilding[k] /\ span'[k] = span[k]
      BY <2>2 DEF ReportInv, Jobs
    <3>2. \A d \in Days : Written(k, d)' <=> Written(k, d)
      BY <3>1 DEF Written
    <3> QED BY <3>1, <3>2 DEF DaysDone
  <2> QED BY <2>1, <2>2
<1>8. DepartmentRowsCover'
  BY DEF ReportInv, DepartmentRowsCover
<1> QED BY <1>4, <1>5, <1>6, <1>7, <1>8 DEF ReportInv

LEMMA StartKeeps ==
  ASSUME ReportInv, NEW j \in Jobs, NEW s \in Spans[j], StartRebuild(j, s[1], s[2])
  PROVE  ReportInv'
<1>1. RebuildTypes /\ JobTrue(j)
  BY DEF ReportInv
<1>2. /\ s \in Days \X Days /\ s[1] <= s[2] /\ (j \in EltRebuilds => s[1] = s[2])
  BY RebuildAssumption
<1>3. PICK from \in Days, to \in Days : from = s[1] /\ to = s[2]
  BY <1>2
<1>4. /\ JobGoes(j, "idle", "read")
      /\ span' = [span EXCEPT ![j] = [from |-> from, day |-> from, to |-> to]]
      /\ UNCHANGED <<tables, snapshots, departmentRows, disturbed, seen, completed>>
  BY <1>3 DEF StartRebuild
<1>5. /\ rebuilding[j] = "idle" /\ rebuilding'[j] = "read"
      /\ rebuilding' \in [Jobs -> {"never", "idle", "done", "failed"} \cup JobSteps]
      /\ \A k \in Jobs \ {j} : rebuilding'[k] = rebuilding[k]
  <2>1. "read" \in JobSteps
    BY DEF JobSteps
  <2> QED BY <1>1, <1>4, <2>1, JobMoves
<1>6. /\ span' \in [Jobs -> Span]
      /\ span'[j].from = from /\ span'[j].day = from /\ span'[j].to = to
      /\ \A k \in Jobs \ {j} : span'[k] = span[k]
  BY <1>1, <1>4 DEF RebuildTypes, Span
<1>7. seen'[j] = NotSeen
  BY <1>1, <1>4, <1>5 DEF JobTrue
<1>8. from \in Nat /\ to \in Nat /\ from <= to
  BY <1>2, <1>3, RebuildAssumption
<1>9. JobTrue(j)'
  <2>1. ReadTrue(j, span[j].day, seen[j])'
    BY <1>7, NotSeenRead DEF ReadTrue, Tables
  <2> QED BY <1>2, <1>3, <1>5, <1>6, <1>7, <1>8, <2>1, NotSeenRead DEF JobTrue
<1>10. DaysDone(j)'
  <2>1. \A d \in Days : d \in Nat
    BY RebuildAssumption
  <2> QED BY <1>5, <1>6, <1>8, <2>1 DEF DaysDone
<1> QED
  <2>1. completed' \subseteq Rebuilds /\ seen' \in [Jobs -> ReadSet]
    BY <1>1, <1>4 DEF RebuildTypes, TypeOK
  <2>2. \A k \in Jobs \ {j} : UNCHANGED <<rebuilding[k], span[k], seen[k]>>
    BY <1>4, <1>5, <1>6
  <2> QED BY <1>4, <1>5, <1>6, <1>9, <1>10, <2>1, <2>2, QuietStep

LEMMA ReadKeeps ==
  ASSUME ReportInv, NEW j \in Jobs, NEW t \in Tables, Read(j, t)
  PROVE  ReportInv'
<1>1. RebuildTypes /\ JobTrue(j)
  BY DEF ReportInv
<1>2. PICK to \in {"write", "read"} : /\ to = IF Unread(j) = {t} THEN "write" ELSE "read"
                                      /\ JobGoes(j, "read", to)
  BY DEF Read
<1>3. PICK columns, d : columns = Columns(j, t) /\ d = span[j].day
  OBVIOUS
<1>4. /\ seen' = [seen EXCEPT ![j][t] = [state |-> "current", columns |-> columns]]
      /\ UNCHANGED <<tables, snapshots, departmentRows, disturbed, span, completed>>
      /\ t \in Unread(j)
  BY <1>3 DEF Read
<1>5. /\ rebuilding[j] = "read" /\ rebuilding'[j] = to
      /\ rebuilding' \in [Jobs -> {"never", "idle", "done", "failed"} \cup JobSteps]
      /\ \A k \in Jobs \ {j} : rebuilding'[k] = rebuilding[k]
  <2>1. to \in {"done", "failed"} \cup JobSteps
    BY DEF JobSteps
  <2> QED BY <1>1, <1>2, <2>1, JobMoves
<1>6. columns = ColumnsOf(j, d, t)
  BY <1>3, ColumnsAreOfDay
<1>7. /\ columns \in ColumnSet
      /\ t = "cases" => columns \in CaseRecord(KeysOf(j)) /\
           (columns.found = {} => \A k \in KeysOf(j) : columns.byDepartment[k] = 0)
  BY <1>1, <1>6, ColumnsCounted
<1>8. PICK cell : cell = [state |-> "current", columns |-> columns]
  OBVIOUS
<1>9. cell \in Cell /\ cell.state = "current" /\ cell.columns = columns
  BY <1>7, <1>8 DEF Cell
<1>10. /\ seen' \in [Jobs -> ReadSet] /\ seen'[j][t] = cell
       /\ \A u \in Tables \ {t} : seen'[j][u] = seen[j][u]
       /\ \A k \in Jobs \ {j} : seen'[k] = seen[k]
  BY <1>1, <1>4, <1>8, <1>9 DEF RebuildTypes, ReadSet
<1>11. JobTrue(j)'
  <2>1. ReadTrue(j, d, seen[j])
    BY <1>1, <1>3 DEF JobTrue
  <2>2. PICK read : read = seen'[j]
    OBVIOUS
  <2>3. ReadTrue(j, d, read)
    <3>1. read["cases"].state # "unread" => Counted(j, read)
      <4>1. CASE t = "cases"
        BY <1>7, <1>9, <1>10, <2>2, <4>1 DEF Counted
      <4>2. CASE t # "cases"
        BY <1>10, <2>1, <2>2, <4>2 DEF ReadTrue, Counted, Tables
      <4> QED BY <4>1, <4>2
    <3>2. \A u \in Tables : read[u].state = "current" => read[u].columns = ColumnsOf(j, d, u)
      BY <1>6, <1>9, <1>10, <2>1, <2>2 DEF ReadTrue
    <3> QED BY <3>1, <3>2 DEF ReadTrue
  <2>4. ReadTrue(j, d, read)'
    BY <1>4, <2>3, ReadsStay
  <2>5. ReadTrue(j, span[j].day, seen[j])'
    BY <1>3, <1>4, <2>2, <2>4 DEF ReadTrue
  <2>6. to = "write" => \A u \in Tables : seen'[j][u].state # "unread"
    BY <1>2, <1>9, <1>10 DEF Unread
  <2>7. j \notin disturbed => \A u \in Tables : seen'[j][u].state # "behind"
    BY <1>1, <1>5, <1>9, <1>10 DEF JobTrue
  <2>8. span'[j] = span[j] /\ disturbed' = disturbed
    BY <1>4
  <2> QED BY <1>1, <1>5, <2>5, <2>6, <2>7, <2>8 DEF JobTrue, JobSteps
<1>12. ASSUME j \in Rebuilds
       PROVE  DaysDone(j)'
  <2>1. DaysDone(j)
    BY <1>12 DEF ReportInv
  <2>2. \A e \in Days : Written(j, e) => Written(j, e)'
    BY <1>4, <1>5 DEF Written, JobSteps
  <2> QED BY <1>4, <1>5, <2>1, <2>2 DEF DaysDone
<1> QED
  <2>1. completed' \subseteq Rebuilds /\ span' \in [Jobs -> Span]
    BY <1>1, <1>4 DEF RebuildTypes, TypeOK
  <2>2. \A k \in Jobs \ {j} : UNCHANGED <<rebuilding[k], span[k], seen[k]>>
    BY <1>4, <1>5, <1>10
  <2> QED BY <1>4, <1>5, <1>10, <1>11, <1>12, <2>1, <2>2, QuietStep

LEMMA CompletedKeeps ==
  ASSUME ReportInv, NEW j \in Jobs, RecordCompleted(j)
  PROVE  ReportInv'
<1>1. RebuildTypes /\ JobTrue(j)
  BY DEF ReportInv
<1>2. /\ JobGoes(j, "event", "done") /\ completed' \in {completed, completed \cup {j}}
      /\ UNCHANGED <<tables, snapshots, departmentRows, disturbed, span, seen>>
  BY DEF RecordCompleted
<1>3. /\ rebuilding[j] = "event" /\ rebuilding'[j] = "done"
      /\ rebuilding' \in [Jobs -> {"never", "idle", "done", "failed"} \cup JobSteps]
      /\ \A k \in Jobs \ {j} : rebuilding'[k] = rebuilding[k]
  BY <1>1, <1>2, JobMoves
<1>4. seen'[j] = NotSeen /\ span'[j] = span[j] /\ j \in Rebuilds
  BY <1>1, <1>2, <1>3 DEF JobTrue
<1>5. JobTrue(j)'
  <2>1. ReadTrue(j, span[j].day, seen[j])'
    BY <1>4, NotSeenRead DEF ReadTrue, Tables
  <2> QED BY <1>1, <1>3, <1>4, <2>1 DEF JobTrue, JobSteps
<1>6. DaysDone(j)'
  <2>1. DaysDone(j)
    BY <1>4 DEF ReportInv
  <2>2. \A d \in Days : Written(j, d) => Written(j, d)'
    BY <1>2, <1>3 DEF Written, JobSteps
  <2> QED BY <1>3, <1>4, <2>1, <2>2 DEF DaysDone
<1> QED
  <2>1. /\ completed' \subseteq Rebuilds /\ seen' \in [Jobs -> ReadSet] /\ span' \in [Jobs -> Span]
    BY <1>1, <1>2, <1>4 DEF RebuildTypes, TypeOK
  <2>2. \A k \in Jobs \ {j} : UNCHANGED <<rebuilding[k], span[k], seen[k]>>
    BY <1>2, <1>3
  <2> QED BY <1>2, <1>3, <1>5, <1>6, <2>1, <2>2, QuietStep

LEMMA FailKeeps ==
  ASSUME ReportInv, NEW j \in Jobs, FailRebuild(j)
  PROVE  ReportInv'
<1>1. RebuildTypes /\ JobTrue(j)
  BY DEF ReportInv
<1>2. /\ JobGoes(j, rebuilding[j], "failed") /\ seen' = [seen EXCEPT ![j] = NotSeen]
      /\ UNCHANGED <<tables, snapshots, departmentRows, disturbed, span, completed>>
  BY DEF FailRebuild
<1>3. /\ rebuilding'[j] = "failed"
      /\ rebuilding' \in [Jobs -> {"never", "idle", "done", "failed"} \cup JobSteps]
      /\ \A k \in Jobs \ {j} : rebuilding'[k] = rebuilding[k]
  BY <1>1, <1>2, JobMoves
<1>4. /\ seen' \in [Jobs -> ReadSet] /\ seen'[j] = NotSeen
      /\ \A k \in Jobs \ {j} : seen'[k] = seen[k]
  BY <1>1, <1>2, NotSeenRead DEF RebuildTypes
<1>5. JobTrue(j)'
  <2>1. ReadTrue(j, span[j].day, seen[j])'
    BY <1>4, NotSeenRead DEF ReadTrue, Tables
  <2> QED BY <1>3, <1>4, <2>1 DEF JobTrue, JobSteps
<1>6. DaysDone(j)'
  BY <1>3 DEF DaysDone
<1> QED
  <2>1. completed' \subseteq Rebuilds /\ span' \in [Jobs -> Span]
    BY <1>1, <1>2 DEF RebuildTypes, TypeOK
  <2>2. \A k \in Jobs \ {j} : UNCHANGED <<rebuilding[k], span[k], seen[k]>>
    BY <1>2, <1>3, <1>4
  <2> QED BY <1>2, <1>3, <1>4, <1>5, <1>6, <2>1, <2>2, QuietStep

\* A job that writes the snapshot of a day, all of it read, disturbs the others.
LEMMA WritingKeepsOthers ==
  ASSUME ReportInv, NEW j \in Jobs, rebuilding[j] = "write", NEW d \in Days, d = span[j].day,
         UNCHANGED tables, Disturbs(j),
         \/ snapshots' = [snapshots EXCEPT ![d] = Snapshot(j)]
         \/ snapshots' = snapshots,
         \A k \in Jobs \ {j} : UNCHANGED <<rebuilding[k], span[k], seen[k]>>
  PROVE  /\ snapshots' \in [Days -> SnapshotRow \cup {NoSnapshot}]
         /\ \A e \in Days : SnapshotTrue(e)'
         /\ \A k \in Jobs \ {j} : JobTrue(k)'
         /\ \A k \in Rebuilds \ {j} : DaysDone(k)'
         /\ disturbed' \subseteq Jobs /\ (j \in disturbed' <=> j \in disturbed)
<1>1. RebuildTypes /\ JobTrue(j) /\ seen[j] \in ReadSet
      /\ snapshots \in [Days -> SnapshotRow \cup {NoSnapshot}]
  BY DEF ReportInv, RebuildTypes
<1>2. PICK read \in ReadSet : read = seen[j]
  BY <1>1
<1>3. PICK row \in SnapshotRow : /\ row = Snapshot(j) /\ row.by = j /\ row.read = read
  <2>1. Snapshot(j) = [by |-> j, read |-> read]
    BY <1>2 DEF Snapshot
  <2> QED BY <2>1 DEF SnapshotRow
<1>4. /\ snapshots' \in [Days -> SnapshotRow \cup {NoSnapshot}]
      /\ snapshots'[d] \in {row, snapshots[d]}
      /\ \A e \in Days \ {d} : snapshots'[e] = snapshots[e]
  BY <1>1, <1>3
<1>5. /\ disturbed' = disturbed \cup {k \in Jobs \ {j} : Active(k)}
  BY DEF Disturbs
<1>6. ASSUME NEW e \in Days
      PROVE  SnapshotTrue(e)'
  <2>1. CASE snapshots'[e] = snapshots[e]
    BY <2>1, SnapshotStays DEF ReportInv
  <2>2. CASE e = d /\ snapshots'[d] = row
    <3>1. ReadTrue(j, d, read)' /\ \A t \in Tables : read[t].state # "unread"
      BY <1>1, <1>2, ReadsStay DEF JobTrue
    <3> QED BY <1>3, <2>2, <3>1 DEF SnapshotTrue, ReadTrue
  <2> QED BY <1>4, <2>1, <2>2
<1>7. ASSUME NEW k \in Jobs \ {j}
      PROVE  JobTrue(k)'
  BY <1>5, OtherJobs DEF ReportInv
<1>8. ASSUME NEW k \in Rebuilds \ {j}
      PROVE  DaysDone(k)'
  <2>1. DaysDone(k) /\ rebuilding'[k] = rebuilding[k] /\ span'[k] = span[k] /\ k \in Jobs
    BY DEF ReportInv, Jobs
  <2>2. rebuilding[k] \in JobSteps => k \in disturbed'
    BY <1>5, <2>1 DEF Active, JobSteps
  <2>3. ASSUME NEW e \in Days, Written(k, e)
        PROVE  Written(k, e)'
    <3>1. snapshots'[e] # NoSnapshot
      BY <1>4, <2>3, NoSnapshotDiffers DEF Written
    <3> QED BY <2>1, <2>2, <3>1 DEF Written
  <2> QED BY <2>1, <2>3 DEF DaysDone
<1>9. disturbed' \subseteq Jobs /\ (j \in disturbed' <=> j \in disturbed)
  BY <1>1, <1>5 DEF RebuildTypes, TypeOK
<1> QED BY <1>4, <1>6, <1>7, <1>8, <1>9

LEMMA UpsertKeeps ==
  ASSUME ReportInv, NEW j \in Jobs, UpsertDay(j)
  PROVE  ReportInv'
<1>1. RebuildTypes /\ TypeOK /\ JobTrue(j) /\ j \in Rebuilds /\ DaysDone(j)
      /\ snapshots \in [Days -> SnapshotRow \cup {NoSnapshot}] /\ seen[j] \in ReadSet
  BY DEF ReportInv, RebuildTypes, UpsertDay
<1>2. PICK d, to, next :
        /\ d = span[j].day
        /\ \/ d = span[j].to /\ to = "event" /\ next = d
           \/ d # span[j].to /\ to = "read" /\ next = d + 1
  OBVIOUS
<1>3. /\ JobGoes(j, "write", to)
      /\ snapshots' = [snapshots EXCEPT ![d] = Snapshot(j)]
      /\ span' = [span EXCEPT ![j].day = next]
      /\ seen' = [seen EXCEPT ![j] = NotSeen]
      /\ Disturbs(j) /\ UNCHANGED <<tables, departmentRows, completed>>
  BY <1>2 DEF UpsertDay
<1>4. /\ rebuilding[j] = "write" /\ rebuilding'[j] = to
      /\ rebuilding' \in [Jobs -> {"never", "idle", "done", "failed"} \cup JobSteps]
      /\ \A k \in Jobs \ {j} : rebuilding'[k] = rebuilding[k]
  <2>1. to \in {"done", "failed"} \cup JobSteps
    BY <1>2 DEF JobSteps
  <2> QED BY <1>1, <1>3, <2>1, JobMoves
<1>5. /\ {span[j].from, d, span[j].to} \subseteq Days
      /\ span[j].from <= d /\ d <= span[j].to
  BY <1>1, <1>2, <1>4 DEF JobTrue, JobSteps
<1>6. next \in Days /\ d <= next /\ next <= span[j].to /\ (to = "read" => next = d + 1)
  <2>1. d \in Nat /\ span[j].to \in Nat /\ d..span[j].to \subseteq Days
    BY <1>5, RebuildAssumption
  <2> QED BY <1>2, <1>5, <2>1
<1>7. /\ span' \in [Jobs -> Span] /\ span'[j].day = next
      /\ span'[j].from = span[j].from /\ span'[j].to = span[j].to
      /\ \A k \in Jobs \ {j} : span'[k] = span[k]
  BY <1>1, <1>3, <1>6 DEF RebuildTypes, Span
<1>8. /\ seen' \in [Jobs -> ReadSet] /\ seen'[j] = NotSeen
      /\ \A k \in Jobs \ {j} : seen'[k] = seen[k]
  BY <1>1, <1>3, NotSeenRead DEF RebuildTypes
<1>9. /\ snapshots' \in [Days -> SnapshotRow \cup {NoSnapshot}]
      /\ \A e \in Days : SnapshotTrue(e)'
      /\ \A k \in Jobs \ {j} : JobTrue(k)'
      /\ \A k \in Rebuilds \ {j} : DaysDone(k)'
      /\ disturbed' \subseteq Jobs /\ (j \in disturbed' <=> j \in disturbed)
  <2>1. \A k \in Jobs \ {j} : UNCHANGED <<rebuilding[k], span[k], seen[k]>>
    BY <1>4, <1>7, <1>8
  <2> QED BY <1>2, <1>3, <1>4, <1>5, <2>1, WritingKeepsOthers
<1>10. RebuildTypes'
  <2>1. UNCHANGED <<changes, today, created, status, closed, department, pending, results, reviews>>
    BY <1>3 DEF tables
  <2>2. TypeOK'
    BY <1>1, <1>3, <1>4, <1>9, <2>1 DEF TypeOK
  <2> QED BY <1>1, <1>7, <1>8, <1>9, <2>1, <2>2 DEF RebuildTypes
<1>11. JobTrue(j)'
  <2>1. ReadTrue(j, span[j].day, seen[j])'
    BY <1>8, NotSeenRead DEF ReadTrue, Tables
  <2>2. span[j].from <= next /\ j \notin EltRebuilds
    <3>1. span[j].from \in Nat /\ d \in Nat /\ next \in Nat
      BY <1>5, <1>6, RebuildAssumption
    <3> QED BY <1>1, <1>5, <1>6, <3>1, RebuildAssumption
  <2>3. \A t \in Tables : seen'[j][t].state = "unread"
    BY <1>8, NotSeenRead
  <2>4. to \in {"event", "read"} /\ j \in Rebuilds
    BY <1>1, <1>2
  <2> QED BY <1>4, <1>5, <1>6, <1>7, <1>8, <2>1, <2>2, <2>3, <2>4 DEF JobTrue
<1>12. DaysDone(j)'
  <2>1. snapshots'[d] = [by |-> j, read |-> seen[j]]
    BY <1>1, <1>3, <1>5 DEF Snapshot
  <2>2. snapshots'[d] # NoSnapshot
    <3>1. snapshots'[d] \in SnapshotRow
      BY <1>1, <2>1 DEF SnapshotRow
    <3> QED BY <3>1, NoSnapshotDiffers
  <2>3. j \notin disturbed => \A t \in Tables : seen[j][t].state = "current"
    <3>1. \A t \in Tables : seen[j][t].state \in {"unread", "current", "behind"}
      BY <1>1 DEF ReadSet, Cell
    <3> QED BY <1>1, <1>4, <3>1 DEF JobTrue
  <2>4. Written(j, d)'
    BY <1>9, <2>1, <2>2, <2>3 DEF Written
  <2>5. ASSUME NEW e \in Days, e # d, Written(j, e)
        PROVE  Written(j, e)'
    <3>1. snapshots'[e] = snapshots[e]
      BY <1>1, <1>3, <2>5
    <3> QED BY <1>4, <1>9, <2>5, <3>1 DEF Written, JobSteps
  <2>6. \A e \in Days : span[j].from <= e /\ e < d => Written(j, e)
    BY <1>1, <1>2, <1>4 DEF DaysDone
  <2>7. \A e \in Days : e < next => e <= d
    <3>1. \A e \in Days : e \in Nat
      BY RebuildAssumption
    <3> QED BY <1>2, <1>5, <1>6, <3>1
  <2>8. \A e \in Days : span[j].from <= e /\ e <= d => Written(j, e)'
    <3>1. \A e \in Days : e \in Nat
      BY RebuildAssumption
    <3>2. \A e \in Days : e <= d => e = d \/ e < d
      BY <1>5, <3>1
    <3>3. \A e \in Days : e < d => e # d
      BY <3>1
    <3> QED BY <2>4, <2>5, <2>6, <3>2, <3>3
  <2>9. CASE to = "event"
    BY <1>2, <1>4, <1>7, <2>8, <2>9 DEF DaysDone
  <2>10. CASE to = "read"
    BY <1>2, <1>4, <1>7, <2>7, <2>8, <2>10 DEF DaysDone
  <2> QED BY <1>2, <2>9, <2>10
<1>13. DepartmentRowsCover'
  <2>1. \A e \in Days : snapshots'[e] = snapshots[e] \/ snapshots'[e].by = j
    BY <1>1, <1>3 DEF Snapshot
  <2>2. j \notin EltRebuilds /\ departmentRows' = departmentRows
    BY <1>1, <1>3, RebuildAssumption
  <2> QED BY <2>1, <2>2 DEF ReportInv, DepartmentRowsCover
<1> QED BY <1>9, <1>10, <1>11, <1>12, <1>13 DEF ReportInv

\* The rows of a day that the job does not write are of a tenant without cases
\* on that day, so what it would have counted of them is zero.
LEMMA LoadKeeps ==
  ASSUME ReportInv, NEW j \in Jobs, LoadDataset(j)
  PROVE  ReportInv'
<1>1. RebuildTypes /\ TypeOK /\ JobTrue(j) /\ j \in EltRebuilds /\ j \notin Rebuilds
      /\ snapshots \in [Days -> SnapshotRow \cup {NoSnapshot}] /\ seen[j] \in ReadSet
  BY RebuildAssumption DEF ReportInv, RebuildTypes, LoadDataset
<1>2. PICK d, read, counts :
        d = span[j].day /\ read = seen[j] /\ counts = read["cases"].columns.byDepartment
  OBVIOUS
<1>3. /\ JobGoes(j, "write", "done")
      /\ \/ snapshots' = [snapshots EXCEPT ![d] = Snapshot(j)]
         \/ ~InDataset(j) /\ snapshots' = snapshots
      /\ departmentRows' = [k \in DOMAIN departmentRows |->
           IF k[1] = d /\ counts[k[2]] > 0 THEN counts[k[2]] ELSE departmentRows[k]]
      /\ seen' = [seen EXCEPT ![j] = NotSeen]
      /\ Disturbs(j) /\ UNCHANGED <<tables, span, completed>>
  BY <1>2 DEF LoadDataset
<1>4. /\ rebuilding[j] = "write" /\ rebuilding'[j] = "done"
      /\ rebuilding' \in [Jobs -> {"never", "idle", "done", "failed"} \cup JobSteps]
      /\ \A k \in Jobs \ {j} : rebuilding'[k] = rebuilding[k]
  BY <1>1, <1>3, JobMoves
<1>5. d \in Days
  BY <1>1, <1>2, <1>4 DEF JobTrue, JobSteps
<1>6. /\ counts \in [EltKeys -> 0..Cardinality(Cases)]
      /\ read["cases"].columns.found = {} => \A k \in EltKeys : counts[k] = 0
  <2>1. Counted(j, read)
    BY <1>1, <1>2, <1>4 DEF JobTrue, ReadTrue, Tables
  <2> QED BY <1>1, <1>2, <2>1 DEF Counted, CaseRecord, KeysOf
<1>7. ~InDataset(j) => \A k \in EltKeys : counts[k] = 0
  BY <1>2, <1>6 DEF InDataset
<1>8. ASSUME NEW e \in Days, NEW p \in EltKeys
      PROVE  /\ departmentRows'[<<e, p>>] = IF e = d /\ counts[p] > 0 THEN counts[p]
                                            ELSE departmentRows[<<e, p>>]
             /\ departmentRows'[<<e, p>>] \in 0..Cardinality(Cases)
  <2>1. <<e, p>> \in DOMAIN departmentRows /\ departmentRows[<<e, p>>] \in 0..Cardinality(Cases)
    BY <1>1 DEF TypeOK
  <2>2. counts[p] \in 0..Cardinality(Cases)
    BY <1>6
  <2> QED BY <1>3, <2>1, <2>2
<1>9. departmentRows' \in [Days \X EltKeys -> 0..Cardinality(Cases)]
  <2>1. DOMAIN departmentRows' = Days \X EltKeys
        /\ departmentRows' = [k \in Days \X EltKeys |-> departmentRows'[k]]
    BY <1>1, <1>3 DEF TypeOK
  <2>2. \A k \in Days \X EltKeys : departmentRows'[k] \in 0..Cardinality(Cases)
    BY <1>8
  <2> QED BY <2>1, <2>2
<1>10. /\ seen' \in [Jobs -> ReadSet] /\ seen'[j] = NotSeen /\ span'[j] = span[j]
       /\ \A k \in Jobs \ {j} : seen'[k] = seen[k]
  BY <1>1, <1>3, NotSeenRead DEF RebuildTypes
<1>11. /\ snapshots' \in [Days -> SnapshotRow \cup {NoSnapshot}]
       /\ \A e \in Days : SnapshotTrue(e)'
       /\ \A k \in Jobs \ {j} : JobTrue(k)'
       /\ \A k \in Rebuilds \ {j} : DaysDone(k)'
       /\ disturbed' \subseteq Jobs
  <2>1. \A k \in Jobs \ {j} : UNCHANGED <<rebuilding[k], span[k], seen[k]>>
    BY <1>3, <1>4, <1>10
  <2> QED BY <1>2, <1>3, <1>4, <1>5, <2>1, WritingKeepsOthers
<1>12. RebuildTypes'
  <2>1. UNCHANGED <<changes, today, created, status, closed, department, pending, results, reviews>>
    BY <1>3 DEF tables
  <2>2. TypeOK'
    BY <1>1, <1>3, <1>4, <1>9, <1>11, <2>1 DEF TypeOK
  <2> QED BY <1>1, <1>3, <1>10, <1>11, <2>1, <2>2 DEF RebuildTypes
<1>13. JobTrue(j)'
  <2>1. ReadTrue(j, span[j].day, seen[j])'
    BY <1>10, NotSeenRead DEF ReadTrue, Tables
  <2> QED BY <1>1, <1>4, <1>10, <2>1 DEF JobTrue, JobSteps
<1>14. DepartmentRowsCover'
  <2> SUFFICES ASSUME NEW e \in Days, snapshots'[e] # NoSnapshot,
                      snapshots'[e].by \in EltRebuilds, NEW p \in EltKeys,
                      snapshots'[e].read["cases"].columns.byDepartment[p] > 0
               PROVE  departmentRows'[<<e, p>>]
                        = snapshots'[e].read["cases"].columns.byDepartment[p]
    BY DEF DepartmentRowsCover
  <2>1. CASE snapshots'[e] = snapshots[e] /\ (e = d => ~InDataset(j))
    <3>1. departmentRows'[<<e, p>>] = departmentRows[<<e, p>>]
      BY <1>6, <1>7, <1>8, <2>1
    <3> QED BY <2>1, <3>1 DEF ReportInv, DepartmentRowsCover
  <2>2. CASE e = d /\ snapshots'[e] = Snapshot(j)
    <3>1. snapshots'[e].read["cases"].columns.byDepartment = counts
      BY <1>2, <2>2 DEF Snapshot
    <3> QED BY <1>8, <2>2, <3>1
  <2> QED BY <1>1, <1>3, <2>1, <2>2
<1> QED BY <1>1, <1>11, <1>12, <1>13, <1>14 DEF ReportInv

-----------------------------------------------------------------------------
(* The days.                                                               *)

LEMMA NextDayKeeps ==
  ASSUME ReportInv, NextDay
  PROVE  ReportInv'
<1>1. /\ today' \in Days
      /\ UNCHANGED <<changes, created, status, closed, department, pending, results, reviews,
                     snapshots, departmentRows, rebuilding, disturbed, span, seen, completed>>
  BY DEF NextDay
<1>2. RebuildTypes'
  <2>1. RebuildTypes /\ TypeOK
    BY DEF ReportInv, RebuildTypes
  <2>2. TypeOK'
    BY <1>1, <2>1 DEF TypeOK
  <2> QED BY <1>1, <2>1, <2>2 DEF RebuildTypes
<1>3. ASSUME NEW j, NEW d, NEW read
      PROVE  ReadTrue(j, d, read)' <=> ReadTrue(j, d, read)
  <2>1. \A t : ColumnsOf(j, d, t)' = ColumnsOf(j, d, t)
    BY <1>1 DEF ColumnsOf, ReviewColumns, ReviewsOf, ResultColumns, ResultsOf, EltCases,
                ApiCases, CaseColumns, CasesOf, Triaged, CountBy
  <2> QED BY <2>1 DEF ReadTrue, Counted, CaseRecord
<1>4. ASSUME NEW j \in Jobs
      PROVE  JobTrue(j)'
  <2>1. PICK d, read : d = span[j].day /\ read = seen[j]
    OBVIOUS
  <2>2. JobTrue(j)
    BY DEF ReportInv
  <2>3. ReadTrue(j, d, read)'
    BY <1>3, <2>1, <2>2 DEF JobTrue
  <2>4. ReadTrue(j, span[j].day, seen[j])'
    BY <1>1, <2>1, <2>3 DEF ReadTrue
  <2> QED BY <1>1, <2>2, <2>4 DEF JobTrue
<1>5. ASSUME NEW d \in Days
      PROVE  SnapshotTrue(d)'
  <2>1. PICK by, read : by = snapshots[d].by /\ read = snapshots[d].read
    OBVIOUS
  <2>2. ReadTrue(by, d, read)' <=> ReadTrue(by, d, read)
    BY <1>3
  <2>3. ReadTrue(snapshots[d].by, d, snapshots[d].read)' <=> ReadTrue(by, d, read)'
    BY <1>1, <2>1 DEF ReadTrue
  <2> QED BY <1>1, <2>1, <2>2, <2>3 DEF SnapshotTrue, ReportInv
<1>6. \A j \in Rebuilds : DaysDone(j)'
  BY <1>1 DEF ReportInv, DaysDone, Written
<1>7. DepartmentRowsCover'
  BY <1>1 DEF ReportInv, DepartmentRowsCover
<1> QED BY <1>2, <1>4, <1>5, <1>6, <1>7 DEF ReportInv

LEMMA RebuildStutter ==
  ASSUME ReportInv, UNCHANGED vars
  PROVE  ReportInv'
<1>1. UNCHANGED <<changes, today, created, status, closed, department, pending, results, reviews,
                  snapshots, departmentRows, rebuilding, disturbed, span, seen, completed, tables>>
  BY DEF vars, tables
<1>2. RebuildTypes'
  <2>1. RebuildTypes /\ TypeOK
    BY DEF ReportInv, RebuildTypes
  <2>2. TypeOK'
    BY <1>1, <2>1 DEF TypeOK
  <2> QED BY <1>1, <2>1, <2>2 DEF RebuildTypes
<1>3. \A j \in Jobs : JobTrue(j)'
  BY <1>1, OtherJobs DEF ReportInv
<1>4. \A d \in Days : SnapshotTrue(d)'
  BY <1>1, SnapshotStays DEF ReportInv
<1>5. \A j \in Rebuilds : DaysDone(j)'
  BY <1>1 DEF ReportInv, DaysDone, Written
<1>6. DepartmentRowsCover'
  BY <1>1 DEF ReportInv, DepartmentRowsCover
<1> QED BY <1>2, <1>3, <1>4, <1>5, <1>6 DEF ReportInv

LEMMA RebuildsBegin ==
  ASSUME Init
  PROVE  ReportInv
<1>1. PICK start \in Starts :
        /\ created = start.created /\ status = start.status /\ closed = start.closed
        /\ department = start.department /\ results = start.results /\ reviews = start.reviews
  BY DEF Init
<1>2. /\ created \in [Cases -> Days \cup {0}] /\ department \in [Cases -> Places]
      /\ status \in [Cases -> Statuses] /\ closed \subseteq Cases
      /\ results \subseteq Cases \X Days \X {"completed", "failed"} /\ IsFiniteSet(results)
      /\ reviews \subseteq Cases \X Days \X BOOLEAN /\ IsFiniteSet(reviews)
  BY <1>1, RebuildAssumption
<1>3. /\ changes = 0 /\ today = 1 /\ pending = {}
      /\ snapshots = [d \in Days |-> NoSnapshot]
      /\ departmentRows = [k \in Days \X EltKeys |-> 0]
      /\ disturbed = {} /\ span = [j \in Jobs |-> [from |-> 0, day |-> 0, to |-> 0]]
      /\ seen = [j \in Jobs |-> NotSeen] /\ completed = {}
  BY DEF Init
<1>4. /\ rebuilding \in [Jobs -> {"never", "idle", "done", "failed"} \cup JobSteps]
      /\ \A j \in Jobs : rebuilding[j] \in {"idle", "never"}
  BY DEF Init
<1>5. TypeOK
  <2>1. Cardinality(Cases) \in Nat
    BY CardinalityOfCases
  <2>2. departmentRows \in [Days \X EltKeys -> 0..Cardinality(Cases)]
    BY <1>3, <2>1
  <2> QED BY <1>2, <1>3, <1>4, <2>2, RebuildAssumption DEF TypeOK
<1>6. RebuildTypes
  <2>1. span \in [Jobs -> Span]
    BY <1>3 DEF Span
  <2> QED BY <1>2, <1>3, <1>5, <2>1, NotSeenRead DEF RebuildTypes
<1>7. \A j \in Jobs : JobTrue(j)
  <2>1. \A j \in Jobs : ReadTrue(j, span[j].day, seen[j])
    BY <1>3, EmptyRead
  <2> QED BY <1>3, <1>4, <2>1 DEF JobTrue, JobSteps
<1>8. \A d \in Days : snapshots[d] = NoSnapshot
  BY <1>3
<1>9. \A j \in Rebuilds : DaysDone(j)
  BY <1>4 DEF DaysDone, Jobs
<1> QED BY <1>6, <1>7, <1>8, <1>9 DEF ReportInv, SnapshotTrue, DepartmentRowsCover

\* Whatever the case work and the other program do, every job and every snapshot
\* knows what it has read, and which of it is still what the tables hold.
THEOREM ReportInvariant == Spec => []ReportInv
<1>1. ASSUME ReportInv, [Next]_vars
      PROVE  ReportInv'
  <2>1. ASSUME NEW c \in Cases,
               \/ CreateCase(c) \/ DeleteCase(c)
               \/ \E s \in Statuses : ChangeStatus(c, s)
               \/ \E p \in Departments : ApplyReview(c, p)
               \/ \E outcome \in {"completed", "failed"} : StoreResult(c, outcome)
               \/ \E accepted \in BOOLEAN : StoreReview(c, accepted)
        PROVE  ReportInv'
    BY <1>1, <2>1, CreateCaseKeeps, DeleteCaseKeeps, ChangeStatusKeeps,
       ApplyReviewKeeps, StoreResultKeeps, StoreReviewKeeps
  <2>2. ASSUME NEW j \in Jobs, JobStep(j)
        PROVE  ReportInv'
    BY <1>1, <2>2, ReadKeeps, UpsertKeeps, CompletedKeeps, LoadKeeps, FailKeeps DEF JobStep
  <2>3. ASSUME NEW j \in Jobs, NEW s \in Spans[j], StartRebuild(j, s[1], s[2])
        PROVE  ReportInv'
    BY <1>1, <2>3, StartKeeps
  <2> QED BY <1>1, <2>1, <2>2, <2>3, NextDayKeeps, RebuildStutter DEF Next, CaseWork
<1> QED BY <1>1, RebuildsBegin, PTL DEF Spec

-----------------------------------------------------------------------------
(* What the reports show.                                                  *)

LEMMA CardinalityAdds ==
  ASSUME NEW A, NEW B, IsFiniteSet(A), IsFiniteSet(B), A \cap B = {}
  PROVE  /\ Cardinality(A) \in Nat /\ Cardinality(B) \in Nat
         /\ Cardinality(A \cup B) = Cardinality(A) + Cardinality(B)
<1>1. Cardinality(A \cap B) = 0
  BY FS_EmptySet
<1>2. Cardinality(A) \in Nat /\ Cardinality(B) \in Nat
  BY FS_CardinalityType
<1>3. Cardinality(A \cup B) = Cardinality(A) + Cardinality(B) - Cardinality(A \cap B)
  BY FS_Union
<1> QED BY <1>1, <1>2, <1>3

LEMMA ResultsHaveThree ==
  ASSUME RebuildTypes
  PROVE  /\ \A r \in results : /\ r = <<r[1], r[2], r[3]>> /\ r[1] \in Cases /\ r[2] \in Days
                               /\ r[3] \in {"completed", "failed"}
         /\ \A r \in reviews : r[3] \in BOOLEAN
BY DEF RebuildTypes, TypeOK

\* What the API and the job take for the triaged of the cases they have found.
LEMMA TriagedAre ==
  ASSUME RebuildTypes, NEW d \in Days, NEW rows \in SUBSET Cases
  PROVE  /\ Triaged(rows) = {c \in rows : \E e \in Days : <<c, e, "completed">> \in results}
         /\ rows \cap ResultColumns(ResultsOf({d})).triaged
            = {c \in rows : \E e \in {d} : <<c, e, "completed">> \in results}
<1>1. \A c \in Cases : (\E r \in results : r[1] = c /\ r[3] = "completed")
                       <=> \E e \in Days : <<c, e, "completed">> \in results
  <2>1. ASSUME NEW c \in Cases, NEW r \in results, r[1] = c, r[3] = "completed"
        PROVE  r[2] \in Days /\ <<c, r[2], "completed">> \in results
    <3>1. r = <<r[1], r[2], r[3]>> /\ r[2] \in Days
      BY ResultsHaveThree
    <3>2. r = <<c, r[2], "completed">>
      BY <2>1, <3>1
    <3> QED BY <3>1, <3>2
  <2>2. ASSUME NEW c \in Cases, NEW e \in Days, <<c, e, "completed">> \in results
        PROVE  \E r \in results : r[1] = c /\ r[3] = "completed"
    BY <2>2
  <2> QED BY <2>1, <2>2
<1>2. Triaged(rows) = {c \in rows : \E e \in Days : <<c, e, "completed">> \in results}
  BY <1>1 DEF Triaged
<1> DEFINE good == {r \in ResultsOf({d}) : r[3] = "completed"}
           triaged == {r[1] : r \in good}
<1>3. ResultColumns(ResultsOf({d})).triaged = triaged
  BY DEF ResultColumns
<1>4. ASSUME NEW c \in rows
      PROVE  c \in triaged <=> <<c, d, "completed">> \in results
  <2>1. ASSUME NEW r \in good, r[1] = c
        PROVE  <<c, d, "completed">> \in results
    <3>1. r \in results /\ r[2] = d /\ r[3] = "completed"
      BY DEF ResultsOf
    <3>2. r = <<r[1], r[2], r[3]>>
      BY <3>1, ResultsHaveThree
    <3> QED BY <2>1, <3>1, <3>2
  <2>2. ASSUME <<c, d, "completed">> \in results
        PROVE  <<c, d, "completed">> \in good
    BY <2>2 DEF ResultsOf
  <2> HIDE DEF good
  <2>3. <<c, d, "completed">>[1] = c
    OBVIOUS
  <2>4. c \in triaged <=> \E r \in good : r[1] = c
    OBVIOUS
  <2> HIDE DEF triaged
  <2> QED BY <2>1, <2>2, <2>3, <2>4
<1> HIDE DEF good, triaged
<1>5. rows \cap triaged = {c \in rows : \E e \in {d} : <<c, e, "completed">> \in results}
  BY <1>4
<1> QED BY <1>2, <1>3, <1>5

LEMMA SnapshotsExact ==
  ASSUME ReportInv
  PROVE  CurrentSnapshotsExact
<1>1. RebuildTypes /\ IsFiniteSet(results) /\ IsFiniteSet(reviews)
  BY DEF ReportInv, RebuildTypes
<1> DEFINE KeyFor(by, c) == IF by \in EltRebuilds THEN EltKey(department[c])
                            ELSE ApiKey(department[c])
<1>2. SUFFICES ASSUME NEW d \in Days, snapshots[d] # NoSnapshot,
                      NEW read, read = snapshots[d].read, NEW by, by = snapshots[d].by,
                      NEW rows, rows = {c \in Cases : created[c] = d}
               PROVE  /\ read["cases"].state = "current" =>
                           /\ read["cases"].columns.found = rows
                           /\ read["cases"].columns.closed = rows \cap closed
                           /\ \A c \in rows : read["cases"].columns.byDepartment[KeyFor(by, c)] =
                                Cardinality({x \in rows : KeyFor(by, x) = KeyFor(by, c)})
                      /\ /\ read["cases"].state = "current"
                         /\ by \in EltRebuilds => read["results"].state = "current"
                         => TriagedIn(snapshots[d]) =
                              {c \in rows : \E e \in IF by \in EltRebuilds THEN {d} ELSE Days :
                                 <<c, e, "completed">> \in results}
                      /\ read["reviews"].state = "current" =>
                           read["reviews"].columns.accepted + read["reviews"].columns.corrected
                           = Cardinality({r \in reviews : r[2] = d})
                      /\ read["results"].state = "current" =>
                           read["results"].columns.success + read["results"].columns.failure
                           = Cardinality({r \in results : r[2] = d})
  BY DEF CurrentSnapshotsExact
<1>3. \A t \in Tables : read[t].state = "current" => read[t].columns = ColumnsOf(by, d, t)
  BY <1>2 DEF ReportInv, SnapshotTrue, ReadTrue
<1>4. rows = CasesOf({d}) /\ rows \in SUBSET Cases
  BY <1>2 DEF CasesOf
<1>5. ASSUME read["cases"].state = "current"
      PROVE  /\ read["cases"].columns.found = rows
             /\ read["cases"].columns.closed = rows \cap closed
             /\ \A c \in rows : read["cases"].columns.byDepartment[KeyFor(by, c)] =
                  Cardinality({x \in rows : KeyFor(by, x) = KeyFor(by, c)})
             /\ by \notin EltRebuilds => read["cases"].columns.triaged = Triaged(rows)
  <2>1. PICK key, triaged : /\ key = [c \in rows |-> KeyFor(by, c)]
                            /\ triaged = IF by \in EltRebuilds THEN {} ELSE Triaged(rows)
    OBVIOUS
  <2>2. read["cases"].columns = CaseColumns(rows, key, KeysOf(by), triaged)
    <3>1. read["cases"].columns = IF by \in EltRebuilds THEN EltCases(d) ELSE ApiCases(d)
      BY <1>3, <1>5 DEF Tables, ColumnsOf
    <3>2. CASE by \in EltRebuilds
      <4>1. key = [c \in rows |-> EltKey(department[c])] /\ triaged = {}
        BY <2>1, <3>2
      <4> QED BY <1>4, <3>1, <3>2, <4>1 DEF EltCases, KeysOf
    <3>3. CASE by \notin EltRebuilds
      <4>1. key = [c \in rows |-> ApiKey(department[c])] /\ triaged = Triaged(rows)
        BY <2>1, <3>3
      <4> QED BY <1>4, <3>1, <3>3, <4>1 DEF ApiCases, KeysOf
    <3> QED BY <3>2, <3>3
  <2>3. /\ read["cases"].columns.found = rows
        /\ read["cases"].columns.closed = rows \cap closed
        /\ read["cases"].columns.byDepartment = CountBy(rows, key, KeysOf(by))
        /\ read["cases"].columns.triaged = triaged
    BY <2>2 DEF CaseColumns
  <2>4. ASSUME NEW c \in rows
        PROVE  read["cases"].columns.byDepartment[KeyFor(by, c)] =
                 Cardinality({x \in rows : KeyFor(by, x) = KeyFor(by, c)})
    <3>1. PICK k : k = KeyFor(by, c)
      OBVIOUS
    <3>2. department[c] \in Places
      BY <1>1, <1>4 DEF RebuildTypes, TypeOK
    <3>3. k \in KeysOf(by)
      BY <3>1, <3>2 DEF KeysOf, EltKeys, ApiKeys
    <3>4. CountBy(rows, key, KeysOf(by))[k] = Cardinality({x \in rows : key[x] = k})
      BY <3>3 DEF CountBy
    <3>5. {x \in rows : key[x] = k} = {x \in rows : KeyFor(by, x) = k}
      BY <2>1
    <3> QED BY <2>3, <3>1, <3>4, <3>5
  <2> QED BY <2>1, <2>3, <2>4
<1>6. ASSUME read["cases"].state = "current",
             by \in EltRebuilds => read["results"].state = "current"
      PROVE  TriagedIn(snapshots[d]) =
               {c \in rows : \E e \in IF by \in EltRebuilds THEN {d} ELSE Days :
                  <<c, e, "completed">> \in results}
  <2>1. CASE by \in EltRebuilds
    <3>1. read["results"].columns = ResultColumns(ResultsOf({d}))
      BY <1>3, <1>6, <2>1 DEF Tables, ColumnsOf
    <3>2. TriagedIn(snapshots[d]) = rows \cap ResultColumns(ResultsOf({d})).triaged
      BY <1>2, <1>5, <1>6, <2>1, <3>1 DEF TriagedIn
    <3>3. TriagedIn(snapshots[d])
            = {c \in rows : \E e \in {d} : <<c, e, "completed">> \in results}
      BY <1>1, <1>4, <3>2, TriagedAre
    <3> QED BY <2>1, <3>3
  <2>2. CASE by \notin EltRebuilds
    <3>1. TriagedIn(snapshots[d]) = Triaged(rows)
      BY <1>2, <1>5, <1>6, <2>2 DEF TriagedIn
    <3> QED BY <1>1, <1>4, <2>2, <3>1, TriagedAre
  <2> QED BY <2>1, <2>2
<1>7. ASSUME read["reviews"].state = "current"
      PROVE  read["reviews"].columns.accepted + read["reviews"].columns.corrected
             = Cardinality({r \in reviews : r[2] = d})
  <2> DEFINE yes == {r \in ReviewsOf({d}) : r[3]}
             no == {r \in ReviewsOf({d}) : ~r[3]}
  <2>1. read["reviews"].columns = [accepted |-> Cardinality(yes), corrected |-> Cardinality(no)]
    BY <1>3, <1>7 DEF Tables, ColumnsOf, ReviewColumns
  <2>2. yes \in SUBSET reviews /\ no \in SUBSET reviews /\ yes \cap no = {}
    BY DEF ReviewsOf
  <2>3. yes \cup no = {r \in reviews : r[2] = d}
    BY DEF ReviewsOf
  <2>4. IsFiniteSet(yes) /\ IsFiniteSet(no)
    BY <1>1, <2>2, FS_Subset
  <2> HIDE DEF yes, no
  <2>5. Cardinality(yes \cup no) = Cardinality(yes) + Cardinality(no)
    BY <2>2, <2>4, CardinalityAdds
  <2> QED BY <2>1, <2>3, <2>5
<1>8. ASSUME read["results"].state = "current"
      PROVE  read["results"].columns.success + read["results"].columns.failure
             = Cardinality({r \in results : r[2] = d})
  <2> DEFINE good == {r \in ResultsOf({d}) : r[3] = "completed"}
             bad == {r \in ResultsOf({d}) : r[3] = "failed"}
  <2>1. read["results"].columns = [success |-> Cardinality(good), failure |-> Cardinality(bad),
                                   triaged |-> {r[1] : r \in good}]
    BY <1>3, <1>8 DEF Tables, ColumnsOf, ResultColumns
  <2>2. good \in SUBSET results /\ bad \in SUBSET results /\ good \cap bad = {}
    BY DEF ResultsOf
  <2>6. /\ read["results"].columns.success = Cardinality(good)
        /\ read["results"].columns.failure = Cardinality(bad)
    BY <2>1
  <2>3. good \cup bad = {r \in results : r[2] = d}
    BY <1>1, ResultsHaveThree DEF ResultsOf
  <2>4. IsFiniteSet(good) /\ IsFiniteSet(bad)
    BY <1>1, <2>2, FS_Subset
  <2> HIDE DEF good, bad
  <2>5. Cardinality(good \cup bad) = Cardinality(good) + Cardinality(bad)
    BY <2>2, <2>4, CardinalityAdds
  <2> QED BY <2>3, <2>5, <2>6
<1> QED BY <1>5, <1>7, <1>8, <1>6

\* Every column of a current snapshot is what the tables hold, under the keys of
\* the program that wrote it, and the department rows cover the job's snapshot,
\* however the two programs and the case work interleave.
THEOREM ReportsAlwaysAgree == Spec => []ReportsAgree
<1>1. ReportInv => ReportsAgree
  BY SnapshotsExact DEF ReportsAgree, ReportInv, RebuildTypes
<1> QED BY <1>1, ReportInvariant, PTL

\* A rebuild that has reported its end has a snapshot for each of its days, its
\* own and current unless something came in between.
THEOREM FinishedRebuildsAlwaysShow == Spec => []FinishedRebuildsShow
<1>1. ASSUME ReportInv
      PROVE  FinishedRebuildsShow
  <2> SUFFICES ASSUME NEW j \in Rebuilds, rebuilding[j] \in {"event", "done"},
                      NEW d \in span[j].from..span[j].to
               PROVE  Written(j, d) /\ (rebuilding[j] = "event" => rebuilding[j] \in JobSteps)
    BY DEF FinishedRebuildsShow, Written, JobSteps
  <2>1. JobTrue(j) /\ DaysDone(j) /\ j \in Jobs
    BY <1>1 DEF ReportInv, Jobs
  <2>2. span[j].from \in Days /\ span[j].to \in Days
    BY <2>1 DEF JobTrue, JobSteps
  <2>3. d \in Days /\ span[j].from <= d /\ d <= span[j].to
    <3>1. PICK from \in Days, to \in Days : from = span[j].from /\ to = span[j].to
      BY <2>2
    <3>2. from..to \subseteq Days /\ from \in Nat /\ to \in Nat
      BY RebuildAssumption
    <3> QED BY <3>1, <3>2
  <2> QED BY <2>1, <2>3 DEF DaysDone, JobSteps
<1> QED BY <1>1, ReportInvariant, PTL

=============================================================================
