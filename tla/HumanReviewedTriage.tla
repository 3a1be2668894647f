------------------------ MODULE HumanReviewedTriage ------------------------
(***************************************************************************)
(* What docs/adr/0003 promises of AI triage, and nothing else: the         *)
(* official fields of a case change only to what a human has approved for  *)
(* that case.  AI output may come at any time, from any number of runs; it *)
(* is not even visible here.  CaseWorkflow implements this.                *)
(***************************************************************************)
CONSTANTS
  Cases,
  Fields      \* category, urgency and department

VARIABLES
  official,   \* [Cases -> Fields]
  approved    \* [Cases -> SUBSET Fields]: what reviewers approved so far

vars == <<official, approved>>

Init ==
  /\ official \in [Cases -> Fields]
  /\ approved = [c \in Cases |-> {}]

\* A reviewer records a decision.
Approve(c, fields) ==
  /\ approved' = [approved EXCEPT ![c] = @ \cup {fields}]
  /\ UNCHANGED official

\* A recorded decision takes effect, perhaps after a later one: reviews of
\* several people are not ordered.
Apply(c) ==
  /\ \E fields \in approved[c] : official' = [official EXCEPT ![c] = fields]
  /\ UNCHANGED approved

Next == \E c \in Cases : Apply(c) \/ \E fields \in Fields : Approve(c, fields)

Spec == Init /\ [][Next]_vars

=============================================================================
