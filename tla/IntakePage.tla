----------------------------- MODULE IntakePage -----------------------------
(***************************************************************************)
(* The public page, intake-form.tsx: the address search, the submission    *)
(* and the status lookup, and the municipality they are made for.          *)
(*                                                                         *)
(* The municipality may be changed while answers are awaited, and a lookup *)
(* from the success screen does not wait for the one before.  What the     *)
(* answers are shown under is the municipality of the moment.              *)
(*                                                                         *)
(* Of the form only the address is kept; names, texts, files and wording   *)
(* are left out.                                                           *)
(***************************************************************************)
EXTENDS Naturals, FiniteSets

CONSTANTS
  Tenants,
  NoTenant,        \* also: no address, no suggestions, nothing shown
  Typed,           \* an address as typed
  MaxIntakeClicks  \* bounds what the citizen does

ASSUME IntakePageAssumption ==
  NoTenant \notin Tenants /\ Typed \notin Tenants \cup {NoTenant}

VARIABLES
  tenant,        \* selectedTenant
  tab,           \* activeTab
  submitting, searching, checking,
  address,       \* Typed, or the tenant whose suggestion was taken over
  suggestions,   \* the tenant for which they were searched
  confirmed,     \* isAddressConfirmed
  success,       \* the tenant of the submission on the success screen
  found,         \* the status result: for which tenant, by which lookup, and whether
                 \* another had been asked for when it came
  fields,        \* what the reference and the code of the status form are of
  asked,         \* the number of the last lookup
  known,         \* the codes the citizen was given and has not given up
  strayed,       \* what came, or was taken over, after a change of municipality
  calls,         \* the requests and answers on their way
  intakeClicks

fieldVars == <<tenant, tab, address, suggestions, confirmed, success, found, fields>>
flagVars == <<submitting, searching, checking>>
ghostVars == <<asked, known, strayed>>
intakePageVars == <<fieldVars, flagVars, ghostVars, calls, intakeClicks>>

TenantOrNone == Tenants \cup {NoTenant}
Nowhere == [tenant |-> NoTenant, no |-> 0, late |-> FALSE]

Call(kind, no) ==
  [kind |-> kind, no |-> no, tenant |-> tenant, address |-> address,
   moved |-> FALSE, code |-> 0]

IntakePageInit ==
  /\ tenant \in Tenants /\ tab = "submit"
  /\ submitting = FALSE /\ searching = FALSE /\ checking = FALSE
  /\ address = Typed /\ suggestions = NoTenant /\ confirmed = FALSE
  /\ success = NoTenant /\ found = Nowhere /\ fields = "empty"
  /\ asked = 0 /\ known = FALSE /\ strayed = {}
  /\ calls = {} /\ intakeClicks = 0

IntakePageTypeOK ==
  /\ tenant \in TenantOrNone /\ tab \in {"submit", "status"}
  /\ {submitting, searching, checking, confirmed, known} \subseteq BOOLEAN
  /\ address \in TenantOrNone \cup {Typed}
  /\ suggestions \in TenantOrNone /\ success \in TenantOrNone
  /\ found.tenant \in TenantOrNone /\ found.no \in 0..asked
  /\ fields \in {"empty", "typed", "submitted"}
  /\ strayed \subseteq {"suggestions", "address", "success", "found"}
  /\ \A c \in calls : c.kind \in {"search", "submit", "lookup"} /\ c.tenant \in Tenants

-----------------------------------------------------------------------------
(* The citizen.                                                            *)

Click == intakeClicks < MaxIntakeClicks /\ intakeClicks' = intakeClicks + 1

\* The forms are there unless the success screen is.
OnForm(name) == Click /\ success = NoTenant /\ tab = name

\* Mutant: the address outlives the municipality.
SelectTenantKeepsAddress(t) ==
  /\ Click /\ success = NoTenant /\ t # tenant
  /\ tenant' = t
  /\ found' = IF t = NoTenant THEN found ELSE Nowhere
  /\ calls' = {[c EXCEPT !.moved = TRUE] : c \in calls}
  /\ UNCHANGED <<tab, address, suggestions, confirmed, success, fields, flagVars,
                 ghostVars>>

\* clearAddress, and the status result when a municipality was selected.
SelectTenant(t) ==
  /\ Click /\ success = NoTenant /\ t # tenant
  /\ tenant' = t
  /\ address' = NoTenant /\ suggestions' = NoTenant /\ confirmed' = FALSE
  /\ found' = IF t = NoTenant THEN found ELSE Nowhere
  /\ strayed' = strayed \ ({"address", "suggestions"} \cup
                           IF t = NoTenant THEN {} ELSE {"found"})
  /\ calls' = {[c EXCEPT !.moved = TRUE] : c \in calls}
  /\ UNCHANGED <<tab, success, fields, flagVars, asked, known>>

OpenTab(name) ==
  /\ Click /\ success = NoTenant /\ tab # name
  /\ tab' = name
  /\ UNCHANGED <<tenant, address, suggestions, confirmed, success, found, fields,
                 flagVars, ghostVars, calls>>

\* Any change of the text gives up the confirmation and the suggestions.
TypeAddress ==
  /\ OnForm("submit")
  /\ address' = Typed /\ suggestions' = NoTenant /\ confirmed' = FALSE
  /\ strayed' = strayed \ {"address", "suggestions"}
  /\ UNCHANGED <<tenant, tab, success, found, fields, flagVars, asked, known, calls>>

\* A query under three characters clears what was found and sends nothing.
SearchAddress ==
  /\ OnForm("submit")
  /\ tenant # NoTenant /\ ~searching
  /\ suggestions' = NoTenant /\ confirmed' = FALSE
  /\ strayed' = strayed \ {"suggestions"}
  /\ \/ address \in {NoTenant, Typed} /\ UNCHANGED <<searching, calls>>
     \/ /\ address # NoTenant
        /\ searching' = TRUE
        /\ calls' = calls \cup {Call("search", intakeClicks')}
  /\ UNCHANGED <<tenant, tab, address, success, found, fields, submitting, checking,
                 asked, known>>

ConfirmAddress ==
  /\ OnForm("submit")
  /\ suggestions # NoTenant /\ ~confirmed
  /\ address' = suggestions /\ confirmed' = TRUE /\ suggestions' = NoTenant
  /\ strayed' = (strayed \ {"address", "suggestions"}) \cup
                IF "suggestions" \in strayed THEN {"address"} ELSE {}
  /\ UNCHANGED <<tenant, tab, success, found, fields, flagVars, asked, known, calls>>

\* handleSubmit
SubmitCase ==
  /\ OnForm("submit")
  /\ tenant # NoTenant /\ ~submitting
  /\ submitting' = TRUE
  /\ calls' = calls \cup {Call("submit", intakeClicks')}
  /\ UNCHANGED <<fieldVars, searching, checking, ghostVars>>

TypeCode ==
  /\ OnForm("status")
  /\ fields' = "typed"
  /\ known' = (known /\ fields # "submitted")
  /\ UNCHANGED <<tenant, tab, address, suggestions, confirmed, success, found,
                 flagVars, asked, strayed, calls>>

\* Mutant: the last result stays until the next one comes.
BeginLookupOver(screen) ==
  /\ tenant # NoTenant
  /\ checking' = TRUE /\ asked' = intakeClicks'
  /\ UNCHANGED <<found, strayed>>
  /\ calls' = calls \cup {Call("lookup", intakeClicks')}

\* lookupStatus, from the status form or from the success screen.
BeginLookup(screen) ==
  IF tenant = NoTenant THEN UNCHANGED <<checking, asked, found, strayed, calls>>
  ELSE /\ checking' = TRUE /\ asked' = intakeClicks'
       /\ found' = Nowhere /\ strayed' = strayed \ screen
       /\ calls' = calls \cup {Call("lookup", intakeClicks')}

LookUpStatus ==
  /\ OnForm("status") /\ fields # "empty" /\ ~checking
  /\ BeginLookup({"found"})
  /\ UNCHANGED <<tenant, tab, address, suggestions, confirmed, success, fields,
                 submitting, searching, known>>

\* The success screen gives its reference and code to the status form.
CheckSubmittedCase ==
  /\ Click /\ success # NoTenant
  /\ success' = NoTenant /\ tab' = "status" /\ fields' = "submitted"
  /\ BeginLookup({"found", "success"})
  /\ UNCHANGED <<tenant, address, suggestions, confirmed, submitting, searching, known>>

SubmitAnother ==
  /\ Click /\ success # NoTenant
  /\ success' = NoTenant /\ fields' = "empty" /\ found' = Nowhere
  /\ known' = FALSE /\ strayed' = strayed \ {"success", "found"}
  /\ UNCHANGED <<tenant, tab, address, suggestions, confirmed, flagVars, asked, calls>>

-----------------------------------------------------------------------------
(* The API, and the answers.                                               *)

AnswerCall(c) ==
  /\ c.code = 0
  /\ \E code \in {200, 500} : calls' = (calls \ {c}) \cup {[c EXCEPT !.code = code]}
  /\ UNCHANGED <<fieldVars, flagVars, ghostVars, intakeClicks>>

Arrived(c, kind) == c.kind = kind /\ c.code # 0 /\ calls' = calls \ {c}

\* What is shown now was asked for another municipality, or was not.
Strays(what, c) ==
  strayed' = (strayed \ {what}) \cup IF c.moved THEN {what} ELSE {}

ReceiveSearch(c) ==
  /\ Arrived(c, "search")
  /\ searching' = FALSE
  /\ IF c.code = 200
     THEN suggestions' \in {c.tenant, NoTenant} /\ Strays("suggestions", c)
     ELSE UNCHANGED <<suggestions, strayed>>
  /\ UNCHANGED <<tenant, tab, address, confirmed, success, found, fields, submitting,
                 checking, asked, known, intakeClicks>>

\* The success screen takes over, whatever tab is open.
ReceiveSubmitSuccess(c) ==
  /\ Arrived(c, "submit") /\ c.code = 200
  /\ submitting' = FALSE /\ success' = c.tenant /\ known' = TRUE
  /\ address' = NoTenant /\ suggestions' = NoTenant /\ confirmed' = FALSE
  /\ strayed' = (strayed \ {"address", "suggestions"}) \cup
                IF c.moved THEN {"success"} ELSE {}
  /\ UNCHANGED <<tenant, tab, found, fields, searching, checking, asked, intakeClicks>>

\* An error frees the button as well.
ReceiveSubmit(c) ==
  \/ ReceiveSubmitSuccess(c)
  \/ /\ Arrived(c, "submit") /\ c.code # 200
     /\ submitting' = FALSE
     /\ UNCHANGED <<fieldVars, searching, checking, ghostVars, intakeClicks>>

ReceiveLookup(c) ==
  /\ Arrived(c, "lookup")
  /\ checking' = FALSE
  /\ IF c.code = 200
     THEN /\ found' = [tenant |-> c.tenant, no |-> c.no, late |-> c.no # asked]
          /\ Strays("found", c)
     ELSE UNCHANGED <<found, strayed>>
  /\ UNCHANGED <<tenant, tab, address, suggestions, confirmed, success, fields,
                 submitting, searching, asked, known, intakeClicks>>

Citizen ==
  \/ \E t \in TenantOrNone : SelectTenant(t)
  \/ \E name \in {"submit", "status"} : OpenTab(name)
  \/ TypeAddress \/ SearchAddress \/ ConfirmAddress \/ SubmitCase
  \/ TypeCode \/ LookUpStatus \/ CheckSubmittedCase \/ SubmitAnother

IntakePageNext ==
  \/ Citizen
  \/ \E c \in calls : AnswerCall(c) \/ ReceiveSearch(c) \/ ReceiveSubmit(c) \/ ReceiveLookup(c)

-----------------------------------------------------------------------------
(* Properties.                                                             *)

\* selectTenant: suggestions, the address taken from one, the success screen
\* and a status result belong to the municipality selected, except for what
\* was asked before the municipality changed and answered after it.
MunicipalitiesAgree ==
  LET fits(what, t) == t \in {tenant, NoTenant, Typed} \/ what \in strayed
  IN  tenant # NoTenant =>
        /\ fits("suggestions", suggestions) /\ fits("address", address)
        /\ fits("success", success) /\ fits("found", found.tenant)

\* The access code is shown once: until the citizen gives it up it is on the
\* success screen or in the status form, also when its lookup fails.
CodeStaysVisible == known => success # NoTenant \/ fields = "submitted"

\* A status result is that of the last lookup, or of an earlier one that was
\* answered later; and the buttons are free exactly when nothing is awaited,
\* except that the first of two lookups to end frees the button of both.
ResultsAreAnswers ==
  /\ found.no \notin {0, asked} => found.late
  /\ submitting <=> \E c \in calls : c.kind = "submit"
  /\ searching <=> \E c \in calls : c.kind = "search"
  /\ checking => \E c \in calls : c.kind = "lookup"

\* What the citizen was told last, a code or a status, is what the page shows.
AnswersShown == CodeStaysVisible /\ ResultsAreAnswers

=============================================================================
