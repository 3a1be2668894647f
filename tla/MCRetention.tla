----------------------------- MODULE MCRetention -----------------------------
(***************************************************************************)
(* Small instances of RetentionCleanup: a calendar of three days, a        *)
(* retention of one day.  Day 0 is expired on day 2.                       *)
(***************************************************************************)
EXTENDS RetentionCleanup, TLC

CONSTANTS
  c1, c2, c3, r1, r2, d1, d2, d3, k1, k2,
  north, south,                 \* departments
  nora, sven, adele, frida, ada,\* users
  kristiansand, arendal         \* tenants

NoRequests == {}
OneRequest == {r1}
TwoRequests == {r1, r2}
OneSeed == {d1}
TwoSeeds == {d1, d2}
ThreeSeeds == {d1, d2, d3}

MCRoleOf == [u \in Users |-> CASE u \in {nora, sven} -> "case_worker"
                               [] u = adele -> "auditor"
                               [] OTHER -> "super_admin"]
MCDepartmentOf == [u \in Users |-> CASE u \in {nora, adele} -> north
                                     [] u = sven -> south
                                     [] OTHER -> NoDepartment]
\* ada administers the neighbouring municipality, which has case c2.
MCTenantOf == [x \in Users \cup Cases |->
                 IF x \in {ada, c2} THEN arendal ELSE kristiansand]

Open == [status |-> "open", closedAt |-> Never, department |-> north,
         removed |-> FALSE]
ClosedOn(day) == [Open EXCEPT !.status = "closed", !.closedAt = day]

OnlyOpen == {Open}
ClosedUnassigned == {[ClosedOn(0) EXCEPT !.department = NoDepartment]}

Document(c, sensitive, day) ==
  [case |-> c, sensitive |-> sensitive, deletedAt |-> day, removed |-> FALSE]

\* One live and one soft-deleted document in c1.
LiveAndDeleted == [s \in Seeds |-> Document(c1, FALSE, IF s = d1 THEN Never ELSE 0)]
\* An expired one in each case.
OneEach == [s \in Seeds |-> Document(IF s = d1 THEN c1 ELSE c2, FALSE, 0)]
\* A sensitive, an ordinary and a soft-deleted one.
SensitiveAndNot ==
  [s \in Seeds |-> Document(c1, s = d1, IF s = d3 THEN 0 ELSE Never)]

Upload(u, c, S) == [kind : {"upload"}, user : {u}, case : {c},
                    sensitive : S, valid : {TRUE}]
Invalid(u, c) == [kind : {"upload"}, user : {u}, case : {c},
                  sensitive : {FALSE}, valid : {FALSE}]
Delete(U, c, D) == [kind : {"delete"}, user : U, case : {c}, doc : D]
Download(U, c, D) == [kind : {"download"}, user : U, case : {c}, doc : D]
List(U, c) == [kind : {"list"}, user : U, case : {c}]

\* race: uploads, deletions and downloads against a cleanup.
RaceJobs == Upload(frida, c1, {FALSE}) \cup Delete({frida}, c1, {d1}) \cup
            Download({frida}, c1, {d1})

\* access: every role, a user of another municipality, and a file that is
\* not valid; no cleanups.
AccessJobs == Upload(nora, c1, {TRUE}) \cup Invalid(nora, c1) \cup
              Delete({nora, adele}, c1, {d1, d3}) \cup
              Download({nora, sven, adele, ada}, c1, Seeds) \cup
              List({nora, adele}, c1)

\* overlap: nobody else is there.
NoJobs == {}

FridaTwice == [k \in Cleanups |-> frida]

RequestSymmetry == Permutations(Requests)

=============================================================================
