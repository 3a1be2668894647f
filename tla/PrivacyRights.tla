---------------------------- MODULE PrivacyRights ----------------------------
(***************************************************************************)
(* The privacy officer beside intake: exportCitizenData, which reads the   *)
(* profile, its cases and their audit events one after the other, and      *)
(* anonymizeCitizenProfile, which overwrites the identifiers of a profile. *)
(* Both look for one profile, while every submission has made its own.     *)
(***************************************************************************)
EXTENDS PublicIntake

CONSTANTS
  Citizens,
  CitizenOf,        \* [Matters -> Citizens], by email address
  Officers,         \* the requests of the privacy officers
  Errands           \* what they may ask for

ErrandById == [kind : {"export", "anonymise"}, target : Requests]
ErrandByEmail == [kind : {"exportByEmail"}, target : Citizens]

ASSUME PrivacyAssumption ==
  /\ CitizenOf \in [Matters -> Citizens]
  /\ Errands \subseteq ErrandById \cup ErrandByEmail
  /\ None \notin Requests \cup ErrandById \cup ErrandByEmail

VARIABLES
  at,         \* [Officers -> where the request is]
  errand,     \* what it asks for
  found,      \* the profile it works on
  reported    \* the officers' requests with an audit event

privacyVars == <<at, errand, found, reported>>

rightsVars == <<intakeVars, privacyVars>>

OfficerSteps == {"findCases", "findEvents", "auditExport", "update",
                 "auditAnonymised"}

RightsTypeOK ==
  /\ IntakeTypeOK
  /\ at \in [Officers -> {"idle", "done", "rejected", "failed"} \cup OfficerSteps]
  /\ errand \in [Officers -> Errands \cup {None}]
  /\ found \in [Officers -> Requests \cup {None}]
  /\ reported \subseteq Officers

RightsInit ==
  /\ IntakeInit
  /\ at = [o \in Officers |-> "idle"]
  /\ errand = [o \in Officers |-> None]
  /\ found = [o \in Officers |-> None]
  /\ reported = {}

OfficerGoes(o, from, to) ==
  /\ at[o] = from
  /\ at' = [at EXCEPT ![o] = to]

\* findFirst by id or by email: an anonymised profile has lost its address.
Found(e) ==
  {r \in Requests :
     IF e.kind = "exportByEmail"
     THEN profiles[r] = "named" /\ CitizenOf[matter[r]] = e.target
     ELSE profiles[r] # "none" /\ r = e.target}

FindProfile(o, e, r) ==
  /\ r \in Found(e)
  /\ OfficerGoes(o, "idle", IF e.kind = "anonymise" THEN "update" ELSE "findCases")
  /\ errand' = [errand EXCEPT ![o] = e]
  /\ found' = [found EXCEPT ![o] = r]
  /\ UNCHANGED <<intakeVars, reported>>

NoProfile(o, e) ==
  /\ Found(e) = {}
  /\ OfficerGoes(o, "idle", "rejected")
  /\ errand' = [errand EXCEPT ![o] = e]
  /\ UNCHANGED <<intakeVars, found, reported>>

\* The cases of that profile, and then the audit events of those cases.
ReadExport(o) ==
  /\ \/ OfficerGoes(o, "findCases", "findEvents")
     \/ OfficerGoes(o, "findEvents", "auditExport")
  /\ UNCHANGED <<intakeVars, errand, found, reported>>

\* The record of a privacy request: its audit event, and then its answer.
AuditOfficer(o) ==
  /\ at[o] \in {"auditExport", "auditAnonymised"}
  /\ at' = [at EXCEPT ![o] = "done"]
  /\ reported' = reported \cup {o}
  /\ UNCHANGED <<intakeVars, errand, found>>

\* Mutant: the request is done once the profile is overwritten.
AnonymiseProfileUnaudited(o) ==
  /\ OfficerGoes(o, "update", "done")
  /\ profiles' = [profiles EXCEPT ![found[o]] = "anonymised"]
  /\ UNCHANGED <<cases, addresses, files, docs, audit, emails, triage, control,
                 errand, found, reported>>

AnonymiseProfile(o) ==
  /\ OfficerGoes(o, "update", "auditAnonymised")
  /\ profiles' = [profiles EXCEPT ![found[o]] = "anonymised"]
  /\ UNCHANGED <<cases, addresses, files, docs, audit, emails, triage, control,
                 errand, found, reported>>

FailOfficer(o) ==
  /\ at[o] \in OfficerSteps
  /\ at' = [at EXCEPT ![o] = "failed"]
  /\ UNCHANGED <<intakeVars, errand, found, reported>>

OfficerStep(o) ==
  ReadExport(o) \/ AuditOfficer(o) \/ AnonymiseProfile(o) \/ FailOfficer(o)

Crash ==
  /\ \/ \E r \in Requests : InFlight(r) \/ triage[r] \in TriageSteps
     \/ \E o \in Officers : at[o] \in OfficerSteps
  /\ IntakeDies
  /\ at' = [o \in Officers |-> IF at[o] \in OfficerSteps THEN "failed" ELSE at[o]]
  /\ UNCHANGED <<errand, found, reported>>

RightsNext ==
  \/ IntakeNext /\ UNCHANGED privacyVars
  \/ \E o \in Officers :
       \/ OfficerStep(o)
       \/ \E e \in Errands :
            NoProfile(o, e) \/ \E r \in Requests : FindProfile(o, e, r)
  \/ Crash

RightsSpec == RightsInit /\ [][RightsNext]_rightsVars

-----------------------------------------------------------------------------
(* Properties.                                                             *)

\* anonymizeCitizenProfile: an anonymised profile is on the audit log, unless
\* the request is about to put it there or failed; and a submission still under
\* way, or a later request, does not give it its name back.
AnonymisationAccounted ==
  LET anonymisers(r) ==
        {o \in Officers : found[o] = r /\ errand[o].kind = "anonymise"}
  IN  \A r \in Requests :
        /\ profiles[r] = "anonymised" => \E o \in anonymisers(r) :
             at[o] \in {"auditAnonymised", "failed"} \/ o \in reported
        /\ \A o \in anonymisers(r) \cap reported : profiles[r] = "anonymised"

=============================================================================
