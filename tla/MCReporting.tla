----------------------------- MODULE MCReporting -----------------------------
(***************************************************************************)
(* Small instances of the analytics rebuilds: a range of two days by one   *)
(* request, and two rebuilds of one day by the API, the ELT job or both.   *)
(***************************************************************************)
EXTENDS AnalyticsRebuild, TLC

CONSTANTS c1, technical, a1, a2, a3, e1, e2

TwoDays == 1..2

SomeStatuses == {"new", "rejected", "triaged", "in_progress", "closed"}

SomeTransitions ==
  [s \in SomeStatuses |-> CASE s = "new" -> {"rejected"}
                            [] s = "triaged" -> {"in_progress", "rejected"}
                            [] s = "in_progress" -> {"closed", "rejected"}
                            [] OTHER -> {}]

Slugs == [d \in {technical} |-> "technical_department"]
Names == [d \in {technical} |-> "Technical Department"]

RangeOrDay == [j \in Jobs |-> IF j = a1 THEN {<<1, 2>>} ELSE {<<1, 1>>}]

Together == {{a1}, {a2, a3}, {a2, e1}, {e1, e2}}

Start(day, at, endings, stored, reviewed) ==
  [created |-> [c \in Cases |-> day], status |-> [c \in Cases |-> at], closed |-> endings,
   department |-> [c \in Cases |-> Unassigned], results |-> stored, reviews |-> reviewed]

\* No case yet, one whose automatic triage has failed, one in work, or one closed
\* after its review.
SomeStarts ==
  {Start(0, "new", {}, {}, {}), Start(1, "new", {}, {<<c1, 1, "failed">>}, {}),
   Start(1, "in_progress", {}, {<<c1, 1, "completed">>}, {<<c1, 1, FALSE>>}),
   Start(1, "closed", {c1}, {<<c1, 1, "completed">>}, {<<c1, 1, FALSE>>})}

=============================================================================
