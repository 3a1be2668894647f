----------------------------- MODULE MCServices -----------------------------
(***************************************************************************)
(* Small instances of intake with the privacy officer's requests, of the   *)
(* three integrations, AI providers, Kartverket and Statistics Norway, and *)
(* of the demo reset.  They share no state, so a behaviour is about one of *)
(* them; a crash ends whatever runs in the API process.                    *)
(*                                                                         *)
(* Intake has two submissions of one matter: the first with an address and *)
(* all its files, the second with hardly anything, or refused.             *)
(***************************************************************************)
EXTENDS PrivacyRights, TriageProvider, KartverketAddress, SsbImport, DemoReset, TLC

CONSTANTS openai, mock, search, typeahead, api1, elt, oslo, bergen,
  night, morning, lamp, photo, seed1, monday,
  r1, r2, officer, hole, kari

VARIABLE focus

Attached == [d \in Uploads |-> lamp]

vars == <<rightsVars, providerVars, lookupVars, importVars, resetAndDemoVars, focus>>

\* Scores of two categories and what chooseDepartment looks up.
Inputs ==
  [scores : [1..2 -> 0..2],
   departments : {<<>>, <<"roads">>, <<"roads", "water">>, <<"water", "roads">>},
   preferred : {[k \in 0..2 |-> IF k = 1 THEN "water" ELSE "none"]},
   keywordsIn : {[k \in 0..2 |-> IF k = 2 THEN {"water"} ELSE {}]}]

BothOrNone == [year : {1}, codes : {{oslo, bergen}, {}}]

Valid(withAddress, n) == [valid |-> TRUE, address |-> withAddress, files |-> n]
Invalid == [valid |-> FALSE, address |-> FALSE, files |-> 0]
FullAndPlain ==
  [r \in Requests |-> IF r = r1 THEN {Valid(TRUE, MaxFiles)}
                      ELSE {Valid(FALSE, 0), Invalid}]
AllKari == [m \in Matters |-> kari]
AnyErrand == [kind : {"exportByEmail"}, target : {kari}] \cup
             [kind : {"export", "anonymise"}, target : {r1}]

Init ==
  /\ focus \in {"intake", "provider", "lookup", "import", "reset"}
  /\ RightsInit /\ ProviderInit /\ LookupInit /\ ImportInit /\ ResetInit

IntakeAndRightsNext ==
  /\ focus = "intake"
  /\ RightsNext
  /\ UNCHANGED <<providerVars, lookupVars, importVars, resetAndDemoVars, focus>>

ProviderNext ==
  /\ focus = "provider"
  /\ \E c \in Calls : BeginCall(c) \/ CallSettles(c)
  /\ UNCHANGED <<rightsVars, lookupVars, importVars, resetAndDemoVars, focus>>

LookupNext ==
  /\ focus = "lookup"
  /\ \E l \in Lookups : StartLookup(l) \/ LookupStep(l)
  /\ UNCHANGED <<rightsVars, providerVars, importVars, resetAndDemoVars, focus>>

PopulationNext ==
  /\ focus = "import"
  /\ ImportNext \/ ImportsDie
  /\ UNCHANGED <<rightsVars, providerVars, lookupVars, resetAndDemoVars, focus>>

DemoNext ==
  /\ focus = "reset"
  /\ ResetNext
  /\ UNCHANGED <<rightsVars, providerVars, lookupVars, importVars, focus>>

Next == IntakeAndRightsNext \/ ProviderNext \/ LookupNext \/ PopulationNext \/ DemoNext

Spec == Init /\ [][Next]_vars

\* A step of something that is under way.
Settles ==
  \/ /\ focus = "intake"
     /\ \E r \in Requests : HandlerStep(r) \/ RunStep(r)
     /\ UNCHANGED <<privacyVars, providerVars, lookupVars, importVars, resetAndDemoVars, focus>>
  \/ /\ focus = "provider"
     /\ \E c \in Calls : CallSettles(c)
     /\ UNCHANGED <<rightsVars, lookupVars, importVars, resetAndDemoVars, focus>>
  \/ /\ focus = "lookup"
     /\ \E l \in Lookups : LookupStep(l)
     /\ UNCHANGED <<rightsVars, providerVars, importVars, resetAndDemoVars, focus>>
  \/ /\ focus = "import"
     /\ \E i \in Imports : ImportStep(i)
     /\ UNCHANGED <<rightsVars, providerVars, lookupVars, resetAndDemoVars, focus>>

\* A fetch is bounded by its AbortSignal, a query and a file operation settle:
\* while something is under way, something goes on.
FairSpec == Spec /\ WF_vars(Settles)

\* Whatever the other side does, every submission, call, lookup and import comes
\* to an end, and a confirmed case gets a triage result or a failed run.
RequestsEnd ==
  /\ SubmissionsAnswered /\ ConfirmedGetsTriage
  /\ \A c \in Calls : c \in fetching \cup reading ~> outcome[c] # "none"
  /\ \A l \in Lookups : LookupActive(l) ~> ~LookupActive(l)
  /\ \A i \in Imports : Running(i) ~> ~Running(i)

\* The health log of both integrations (recordIntegrationEvent) tells what they
\* did and what became of their imports.
HealthEventsAgree == FailuresAreKartverkets /\ ImportHealthAgrees

TypeOK ==
  RightsTypeOK /\ ProviderTypeOK /\ LookupTypeOK /\ ImportTypeOK /\ ResetTypeOK

=============================================================================
