--------------------------- MODULE MCCaseWorkflow ---------------------------
(***************************************************************************)
(* Small instances of CaseWorkflow.  One case, two departments; a case     *)
(* worker in each department and, per run, the jobs whose interleavings    *)
(* it is about.                                                            *)
(***************************************************************************)
EXTENDS CaseWorkflow, TLC

CONSTANTS
  c1, c2, r1, r2, r3,
  north, south,                 \* departments
  nora, sven, gus, adele, frida,\* users
  kristiansand, arendal,        \* tenants
  plain, urgent                 \* classes

TwoRequests == {r1, r2}
ThreeRequests == {r1, r2, r3}

MCRoleOf == [u \in Users |-> CASE u \in {nora, sven} -> "case_worker"
                               [] u = gus -> "portfolio_guest"
                               [] u = adele -> "auditor"
                               [] u = frida -> "super_admin"]
MCDepartmentOf == [u \in Users |-> CASE u \in {nora, adele} -> north
                                     [] u = sven -> south
                                     [] OTHER -> NoDepartment]
\* frida administers the neighbouring municipality.
MCTenantOf == [x \in Users \cup Cases |->
                 IF x = frida THEN arendal ELSE kristiansand]

Unassigned == [class |-> plain, department |-> NoDepartment]
InNorth == [class |-> plain, department |-> north]
ToSouth == [class |-> urgent, department |-> south]
Nowhere == [class |-> urgent, department |-> UnknownSlug]

Row(status, fields) ==
  [status |-> status, closedAt |-> status = "closed", official |-> fields]

Fresh == Row("new", Unassigned)
SeededRejected == [Row("rejected", InNorth) EXCEPT !.closedAt = TRUE]

\* A fresh case, one under work, a closed one and a seeded rejected one.
RaceRows == {Fresh, Row("in_progress", InNorth), Row("closed", InNorth),
             SeededRejected}

StatusBy(u, C, S) == [kind : {"status"}, user : {u}, case : C, next : S]
NoteBy(u, C) == [kind : {"note"}, user : {u}, case : C]
TriageBy(U, C) == [kind : {"triage"}, user : U, case : C]
Accept(u, C) == [kind : {"review"}, user : {u}, case : C, result : Requests,
                 accepted : {TRUE}, input : {InNorth}]
Correct(u, C, fields) ==
  [kind : {"review"}, user : {u}, case : C, result : Requests,
   accepted : {FALSE}, input : fields]

\* race: a run, reviews of its result that may move the case, and status updates,
\* also of the other department, a guest and a neighbouring municipality.
RaceJobs ==
  StatusBy(nora, {c1}, {"in_progress", "closed", "rejected"}) \cup
  UNION {StatusBy(u, {c1}, {"rejected"}) : u \in {sven, gus, frida}} \cup
  TriageBy({System}, {c1}) \cup Accept(nora, {c1}) \cup
  Correct(sven, {c1}, {ToSouth})

NorthUrgent == {[class |-> urgent, department |-> north]}

\* access: every user on a case of every status, two requests at a time.
EveryRow == {Row(s, InNorth) : s \in Statuses} \cup {Fresh}

AccessJobs ==
  StatusBy(nora, {c1}, Statuses) \cup StatusBy(sven, {c1}, Statuses) \cup
  UNION {StatusBy(u, {c1}, {"triage_pending"}) : u \in {gus, adele, frida}} \cup
  NoteBy(nora, {c1}) \cup TriageBy(Users, {c1}) \cup
  Correct(sven, {c1}, {ToSouth, Nowhere})

\* terminal: two updates of a case under work.
UpdateJobs == StatusBy(nora, {c1}, {"in_progress", "waiting_for_citizen", "closed"})
UnderWork == {Row("in_progress", InNorth)}

RequestSymmetry == Permutations(Requests)

=============================================================================
