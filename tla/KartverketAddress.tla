-------------------------- MODULE KartverketAddress --------------------------
(***************************************************************************)
(* Address lookups at Kartverket: what a search stores about the health of *)
(* the integration and what it answers.  Intake, whose validateAddress is  *)
(* such a search, only sees whether it came to an address (PublicIntake).  *)
(*                                                                         *)
(* A lookup is one call of search, for an employee or for nobody.  The     *)
(* fetch is bounded by an AbortSignal, so it always settles.  Storing a    *)
(* health event may fail without the search noticing.                      *)
(***************************************************************************)
CONSTANTS
  Lookups,          \* the calls of search
  EmployeeLookups   \* those made for a signed-in employee

ASSUME LookupsAssumption == EmployeeLookups \subseteq Lookups

\* What Kartverket answers: an error status, nothing in time, a body that is
\* not an address list, a list without a usable address, or with one.
Replies == {"httpError", "timeout", "malformed", "empty", "found"}

Usable == {"empty", "found"}

HealthEvents == {"success", "httpError", "timeout", "invalid_response"}

VARIABLES
  lookup,     \* [Lookups -> where the search is]
  reply,      \* [Lookups -> what Kartverket answered]
  health,     \* <<lookup, event>>: the integration health events stored
  searches    \* the lookups with an audit event

lookupVars == <<lookup, reply, health, searches>>

LookupSteps == {"fetch", "success", "audit", "failure"}
LookupStates == {"idle"} \cup LookupSteps \cup {"results", "unavailable"}

LookupInit ==
  /\ lookup = [l \in Lookups |-> "idle"]
  /\ reply = [l \in Lookups |-> "none"]
  /\ health = {} /\ searches = {}

LookupTypeOK ==
  /\ lookup \in [Lookups -> LookupStates]
  /\ reply \in [Lookups -> Replies \cup {"none"}]
  /\ health \subseteq Lookups \X HealthEvents
  /\ searches \subseteq EmployeeLookups

LookupGoes(l, from, to) ==
  /\ lookup[l] = from
  /\ lookup' = [lookup EXCEPT ![l] = to]

\* recordIntegrationEvent swallows the error of its insert.
RecordHealth(l, event) ==
  \/ health' = health \cup {<<l, event>>}
  \/ UNCHANGED health

StartLookup(l) ==
  /\ LookupGoes(l, "idle", "fetch")
  /\ UNCHANGED <<reply, health, searches>>

KartverketReplies(l, answer) ==
  /\ LookupGoes(l, "fetch", IF answer \in Usable THEN "success" ELSE "failure")
  /\ reply' = [reply EXCEPT ![l] = answer]
  /\ UNCHANGED <<health, searches>>

RecordSuccess(l) ==
  /\ LookupGoes(l, "success", IF l \in EmployeeLookups THEN "audit" ELSE "results")
  /\ RecordHealth(l, "success")
  /\ UNCHANGED <<reply, searches>>

AuditSearch(l) ==
  /\ LookupGoes(l, "audit", "results")
  /\ searches' = searches \cup {l}
  /\ UNCHANGED <<reply, health>>

\* The audit event is written inside the try block, so its error ends in the
\* catch block, which takes it for one of Kartverket's.
AuditSearchFails(l) ==
  /\ LookupGoes(l, "audit", "failure")
  /\ UNCHANGED <<reply, health, searches>>

ErrorCode(l) ==
  IF reply[l] \in {"httpError", "timeout"} THEN reply[l] ELSE "invalid_response"

\* Mutant: a failed lookup is tried again without end.
RecordFailureRetries(l) ==
  /\ LookupGoes(l, "failure", "fetch")
  /\ RecordHealth(l, ErrorCode(l))
  /\ UNCHANGED <<reply, searches>>

\* The failed event, and BadGatewayException for the caller.
RecordFailure(l) ==
  /\ LookupGoes(l, "failure", "unavailable")
  /\ RecordHealth(l, ErrorCode(l))
  /\ UNCHANGED <<reply, searches>>

LookupStep(l) ==
  \/ \E answer \in Replies : KartverketReplies(l, answer)
  \/ RecordSuccess(l) \/ AuditSearch(l) \/ AuditSearchFails(l) \/ RecordFailure(l)

LookupActive(l) == lookup[l] \in LookupSteps

-----------------------------------------------------------------------------

\* The health log blames Kartverket only for what it did: a lookup is stored as
\* failed only when Kartverket failed it, unless an employee's audit event did;
\* such a lookup may count both as a success and as a failure.
FailuresAreKartverkets ==
  \A l \in Lookups : \A event \in HealthEvents \ {"success"} :
    <<l, event>> \in health =>
      \/ reply[l] \notin Usable /\ <<l, "success">> \notin health
      \/ l \in EmployeeLookups \ searches

=============================================================================
